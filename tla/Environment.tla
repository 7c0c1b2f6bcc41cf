---------------------------- MODULE Environment ----------------------------
(***************************************************************************)
(* The run-time environment of the interpreter: src/interpreter/           *)
(* environment.cpp, call_frame.cpp, scope.cpp, variable.cpp and the        *)
(* parameter binding of global_function.cpp.                               *)
(*                                                                         *)
(* The methods of class Environment are operators without guards.  Next is *)
(* the protocol under which the interpreter calls them: each action is one *)
(* method together with the checks its caller makes first.  That the       *)
(* interpreter keeps to the protocol is a refinement, checked in           *)
(* MCCalls.                                                           *)
(*                                                                         *)
(* The store only grows: a variable whose last shared_ptr is gone is       *)
(* unreachable here and freed there.                                       *)
(***************************************************************************)
EXTENDS TypeHandler

CONSTANTS
  Names,      (* identifiers                                               *)
  Types,      (* the types a variable or a value may have                  *)
  Values,     (* the values of the language, each with its type            *)
  Builtins,   (* built-in name -> callable, as the constructor registers   *)
  MaxFrames,  (* bound on the depth of the call stack                      *)
  MaxScopes,  (* bound on the nesting of scopes in one frame               *)
  MaxStore    (* bound on the number of variables ever created             *)

ASSUME ValuesAreTyped == \A v \in Values : v.type \in Types
ASSUME NoneIsNotAType == NoneType \notin Types
ASSUME BuiltinsAreRegistered == DOMAIN Builtins \subseteq Names /\ Builtins \in [DOMAIN Builtins -> Values]
ASSUME BoundsAreNat == MaxFrames \in Nat /\ MaxScopes \in Nat /\ MaxStore \in Nat

VARIABLES
  functions,   (* _functions: registered name -> callable                  *)
  callFrames,  (* _call_frames: the current frame is the last one          *)
  store        (* every Variable created so far                            *)

envVars == <<functions, callFrames, store>>

(* A name that a scope does not contain maps to NoHolder.                  *)
NoHolder == [var |-> 0, can |-> FALSE]
Holder == [var : Nat, can : BOOLEAN]
Scope == [Names -> Holder]
EmptyScope == [n \in Names |-> NoHolder]
Frame == [scopes : Seq(Scope), ret : Types \cup {NoneType}]
Variable == [type : Types, mutable : BOOLEAN, value : Values]
Params == [type : Types, mutable : BOOLEAN]

-----------------------------------------------------------------------------
(* Queries.                                                                *)

Top == callFrames[Len(callFrames)]
Innermost == Top.scopes[Len(Top.scopes)]

(* Innermost scope first, in the current frame only.                       *)
FindVariable(id) ==
  LET having == {i \in DOMAIN Top.scopes : Top.scopes[i][id] # NoHolder}
  IN  IF having = {}
      THEN NoHolder
      ELSE Top.scopes[CHOOSE i \in having : \A j \in having : j <= i][id]

IsInCurrentScope(id) == Innermost[id] # NoHolder

CanDefine(id) == id \notin DOMAIN functions /\ ~IsInCurrentScope(id)

CurFuncRetType == Top.ret

-----------------------------------------------------------------------------
(* Methods.                                                                *)

RegisterFunction(id, f) ==
  /\ functions' = [n \in DOMAIN functions \cup {id} |->
                     IF n = id THEN f ELSE functions[n]]
  /\ UNCHANGED <<callFrames, store>>

CallingFunction(ret) ==
  /\ callFrames' = Append(callFrames, [scopes |-> <<EmptyScope>>, ret |-> ret])
  /\ UNCHANGED <<functions, store>>

ExitingFunction ==
  /\ callFrames' = SubSeq(callFrames, 1, Len(callFrames) - 1)
  /\ UNCHANGED <<functions, store>>

AddScope ==
  /\ callFrames' = [callFrames EXCEPT ![Len(callFrames)].scopes = Append(@, EmptyScope)]
  /\ UNCHANGED <<functions, store>>

PopScope ==
  /\ callFrames' = [callFrames EXCEPT ![Len(callFrames)].scopes = SubSeq(@, 1, Len(@) - 1)]
  /\ UNCHANGED <<functions, store>>

(* Scope::add_variable overwrites: two parameters of one name share a slot. *)
AddVariable(id, holder) ==
  callFrames' = [callFrames EXCEPT ![Len(callFrames)].scopes[Len(Top.scopes)][id] = holder]

DeclareHolder(id, holder) == AddVariable(id, holder) /\ UNCHANGED <<functions, store>>

(* make_shared<Variable>, whose holder may change what was declared mutable. *)
DeclareVariable(id, vt, v) ==
  /\ store' = Append(store, [type |-> vt.type, mutable |-> vt.mutable, value |-> v])
  /\ AddVariable(id, [var |-> Len(store) + 1, can |-> vt.mutable])
  /\ UNCHANGED functions

(* Slip: a reference may always change its variable.                        *)
BoundHolderWithAllRights(arg, param) == [var |-> arg.holder.var, can |-> TRUE]

(* One iteration of the loop that initialises the parameters of a call: a   *)
(* variable is passed by reference, with the rights its parameter declares. *)
BoundHolder(arg, param) == [var |-> arg.holder.var, can |-> param.mutable]

(* Slip: a variable is passed by value.                                     *)
BindParamByValue(id, param, arg) ==
  DeclareVariable(id, param, IF arg.tag = "holder" THEN store[arg.holder.var].value ELSE arg.value)

BindParam(id, param, arg) ==
  IF arg.tag = "holder"
  THEN DeclareHolder(id, BoundHolder(arg, param))
  ELSE DeclareVariable(id, param, arg.value)

AssignThrough(holder, v) ==
  /\ store' = [store EXCEPT ![holder.var].value = v]
  /\ UNCHANGED <<functions, callFrames>>

-----------------------------------------------------------------------------
(* The protocol.  Declarations happen inside a code block, whose scope is   *)
(* above the scope of the parameters.                                       *)

(* Slip: the type of the value is not compared.                             *)
CanAssignAnyType(id, v) == FindVariable(id) # NoHolder /\ FindVariable(id).can

CanAssign(id, v) ==
  LET holder == FindVariable(id)
  IN  holder # NoHolder /\ holder.can /\ v.type = store[holder.var].type

Register(id, f) ==
  /\ callFrames = <<>>
  /\ id \notin DOMAIN functions
  /\ f.type.kind = "FUNCTION"
  /\ RegisterFunction(id, f)

Call(ret) ==
  /\ Len(callFrames) < MaxFrames
  /\ CallingFunction(ret)

Exit ==
  /\ callFrames # <<>>
  /\ Len(Top.scopes) = 1
  /\ ExitingFunction

EnterBlock ==
  /\ callFrames # <<>>
  /\ Len(Top.scopes) < MaxScopes
  /\ AddScope

(* Slip: the scope of the parameters may be dropped.                        *)
LeaveAnyScope == callFrames # <<>> /\ Top.scopes # <<>> /\ PopScope

LeaveBlock ==
  /\ callFrames # <<>>
  /\ Len(Top.scopes) > 1
  /\ PopScope

Declare(id, vt, v) ==
  /\ v.type = vt.type
  /\ callFrames # <<>>
  /\ Len(Top.scopes) > 1
  /\ Len(store) < MaxStore
  /\ CanDefine(id)
  /\ DeclareVariable(id, vt, v)

(* The parameters of a call go to the first scope of its new frame.        *)
Bind(id, param, arg) ==
  /\ callFrames # <<>>
  /\ Len(Top.scopes) = 1
  /\ Len(store) < MaxStore
  /\ ArgMatchesParam(arg, param, store)
  /\ BindParam(id, param, arg)

(* A reference comes from a frame below: the caller's, or the frame that a  *)
(* composed function was called from.                                       *)
BindReference(id, param, i) ==
  \E j \in DOMAIN callFrames[i].scopes, n \in Names :
    /\ callFrames[i].scopes[j][n] # NoHolder
    /\ Bind(id, param, HolderArg(callFrames[i].scopes[j][n]))

Assign(id, v) ==
  /\ callFrames # <<>>
  /\ CanAssign(id, v)
  /\ AssignThrough(FindVariable(id), v)

Init == functions = Builtins /\ callFrames = <<>> /\ store = <<>>

Next ==
  \/ \E id \in Names, f \in Values : Register(id, f)
  \/ \E ret \in Types \cup {NoneType} : Call(ret)
  \/ Exit
  \/ EnterBlock
  \/ LeaveBlock
  \/ \E id \in Names, vt \in Params, v \in Values : Declare(id, vt, v)
  \/ \E id \in Names, param \in Params, v \in Values : Bind(id, param, ValueArg(v))
  \/ \E id \in Names, param \in Params, i \in 1..Len(callFrames) - 1 : BindReference(id, param, i)
  \/ \E id \in Names, v \in Values : Assign(id, v)

Spec == Init /\ [][Next]_envVars

-----------------------------------------------------------------------------
(* Properties.                                                             *)

TypeOK ==
  /\ DOMAIN functions \subseteq Names
  /\ functions \in [DOMAIN functions -> Values]
  /\ callFrames \in Seq(Frame)
  /\ store \in Seq(Variable)
  /\ \A i \in DOMAIN callFrames : callFrames[i].scopes # <<>>

(* A variable keeps the type it was declared with through every assignment  *)
(* and every binding: the language is statically typed although every check *)
(* of AssignStatement, VariableDeclaration and args_match_params is made at  *)
(* run time (interpreter.cpp 86-131, type_handler.cpp 35-48).                *)
StoreTyped == \A a \in DOMAIN store : store[a].value.type = store[a].type

(* No holder, in any scope of any frame, dangles or gives more rights than   *)
(* the declaration of its variable: VariableHolder{var, params[i].is_mutable} *)
(* in global_function.cpp 22 relies on arg_matches_param for it.             *)
HolderValid(h, st) == h.var \in DOMAIN st /\ (h.can => st[h.var].mutable)

ConstHolders ==
  \A i \in DOMAIN callFrames : \A j \in DOMAIN callFrames[i].scopes : \A n \in Names :
    LET h == callFrames[i].scopes[j][n] IN h = NoHolder \/ HolderValid(h, store)

(* A variable declared without mut never changes its value, through any      *)
(* chain of references, and no variable changes its type or mutability.      *)
NoConstChange ==
  \A a \in DOMAIN store :
    /\ a \in DOMAIN store'
    /\ store'[a].type = store[a].type
    /\ store'[a].mutable = store[a].mutable
    /\ ~store[a].mutable => store'[a].value = store[a].value

ConstNeverChanges == [][NoConstChange]_envVars
=============================================================================
