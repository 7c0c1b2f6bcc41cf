------------------------- MODULE EnvironmentProofs -------------------------
(***************************************************************************)
(* What the environment guarantees for every set of names, types and       *)
(* values and every bound.                                                 *)
(***************************************************************************)
EXTENDS Environment, SequenceLemmas

(* find_variable returns a holder of some scope of the current frame, or    *)
(* NoHolder.                                                                *)
LEMMA FindVariableInTop ==
  ASSUME TypeOK, callFrames # <<>>, NEW id \in Names, FindVariable(id) # NoHolder
  PROVE  \E j \in DOMAIN Top.scopes : FindVariable(id) = Top.scopes[j][id]
<1> DEFINE having == {i \in DOMAIN Top.scopes : Top.scopes[i][id] # NoHolder}
<1>1. Top \in Frame
  BY DEF TypeOK, Top
<1>2. Top.scopes \in Seq(Scope) /\ Len(Top.scopes) \in Nat /\ DOMAIN Top.scopes = 1..Len(Top.scopes)
  BY <1>1 DEF Frame
<1>3. having # {}
  BY DEF FindVariable
<1>4. \E i \in having : \A j \in having : j <= i
  BY <1>2, <1>3, GreatestIndex
<1> QED
  BY <1>3, <1>4 DEF FindVariable

(* What a non-empty stack of frames looks like.                             *)
LEMMA TopFrame ==
  ASSUME TypeOK, callFrames # <<>>
  PROVE  /\ Len(callFrames) \in DOMAIN callFrames
         /\ Top \in Frame
         /\ Top.scopes \in Seq(Scope)
         /\ Len(Top.scopes) \in DOMAIN Top.scopes
<1>1. Len(callFrames) \in DOMAIN callFrames
  BY DEF TypeOK
<1>2. Top \in Frame /\ Top.scopes # <<>>
  BY <1>1 DEF TypeOK, Top
<1>3. Top.scopes \in Seq(Scope)
  BY <1>2 DEF Frame
<1> QED
  BY <1>1, <1>2, <1>3

(* A slot of a scope of the current frame holds a holder or NoHolder.        *)
LEMMA HolderInScope ==
  ASSUME TypeOK, NEW i \in DOMAIN callFrames, NEW j \in DOMAIN callFrames[i].scopes,
         NEW n \in Names
  PROVE  callFrames[i].scopes[j][n] \in Holder
<1>1. callFrames[i] \in Frame
  BY DEF TypeOK
<1>2. callFrames[i].scopes \in Seq(Scope)
  BY <1>1 DEF Frame
<1>3. callFrames[i].scopes[j] \in Scope
  BY <1>2
<1> QED
  BY <1>3 DEF Scope

(* Writing into the innermost scope changes one slot and no shape.          *)
LEMMA AddVariableEffect ==
  ASSUME TypeOK, callFrames # <<>>, NEW id \in Names, NEW h \in Holder, AddVariable(id, h)
  PROVE  /\ callFrames' \in Seq(Frame)
         /\ DOMAIN callFrames' = DOMAIN callFrames
         /\ \A i \in DOMAIN callFrames :
              /\ callFrames'[i].scopes # <<>>
              /\ DOMAIN callFrames'[i].scopes = DOMAIN callFrames[i].scopes
              /\ \A j \in DOMAIN callFrames[i].scopes : \A n \in Names :
                   callFrames'[i].scopes[j][n] \in {h, callFrames[i].scopes[j][n]}
<1> DEFINE last == Len(callFrames)
           innermost == Len(Top.scopes)
           scope == [Innermost EXCEPT ![id] = h]
           scopes == [Top.scopes EXCEPT ![innermost] = scope]
           frame == [Top EXCEPT !.scopes = scopes]
<1>1. callFrames' = [callFrames EXCEPT ![last] = frame]
  BY TopFrame DEF AddVariable, Top, Innermost
<1>2. Innermost \in Scope /\ scope \in Scope
  BY TopFrame DEF Innermost, Scope
<1>3. scopes \in Seq(Scope) /\ scopes # <<>> /\ DOMAIN scopes = DOMAIN Top.scopes
  BY <1>2, TopFrame
<1>4. frame \in Frame /\ frame.scopes = scopes
  BY <1>3, TopFrame DEF Frame
<1>5. \A j \in DOMAIN Top.scopes : \A n \in Names : scopes[j][n] \in {h, Top.scopes[j][n]}
  BY <1>2, TopFrame DEF Innermost, Scope
<1>6. callFrames' \in Seq(Frame) /\ DOMAIN callFrames' = DOMAIN callFrames
  BY <1>1, <1>4, TopFrame DEF TypeOK
<1>7. \A i \in DOMAIN callFrames :
        callFrames'[i] = IF i = last THEN frame ELSE callFrames[i]
  BY <1>1 DEF TypeOK
<1> QED
  BY <1>3, <1>4, <1>5, <1>6, <1>7 DEF TypeOK, Top

(* A fresh variable and its holder are well formed.                         *)
LEMMA DeclareType ==
  ASSUME TypeOK, callFrames # <<>>,
         NEW id \in Names, NEW vt \in Params, NEW v \in Values, DeclareVariable(id, vt, v)
  PROVE  TypeOK'
<1> DEFINE variable == [type |-> vt.type, mutable |-> vt.mutable, value |-> v]
           holder == [var |-> Len(store) + 1, can |-> vt.mutable]
<1>1. variable \in Variable
  BY DEF Params, Variable
<1>2. holder \in Holder
  BY DEF TypeOK, Params, Holder
<1>3. /\ store' = Append(store, variable)
      /\ AddVariable(id, holder)
      /\ UNCHANGED functions
  BY DEF DeclareVariable
<1> HIDE DEF variable, holder
<1>4. store' \in Seq(Variable)
  BY <1>1, <1>3 DEF TypeOK
<1> QED
  BY <1>2, <1>3, <1>4, AddVariableEffect DEF TypeOK

-----------------------------------------------------------------------------
(* Every action preserves the type invariant.                               *)
LEMMA TypeStep == TypeOK /\ [Next]_envVars => TypeOK'
<1> SUFFICES ASSUME TypeOK, [Next]_envVars PROVE TypeOK'
  OBVIOUS
<1>1. ASSUME NEW id \in Names, NEW f \in Values, Register(id, f) PROVE TypeOK'
  BY <1>1 DEF Register, RegisterFunction, TypeOK
<1>2. ASSUME NEW ret \in Types \cup {NoneType}, Call(ret) PROVE TypeOK'
  <2> DEFINE frame == [scopes |-> <<EmptyScope>>, ret |-> ret]
  <2>1. <<EmptyScope>> \in Seq(Scope)
    BY DEF EmptyScope, Scope, NoHolder, Holder
  <2>2. frame \in Frame /\ frame.scopes # <<>>
    BY <2>1 DEF Frame
  <2>3. callFrames' = Append(callFrames, frame) /\ UNCHANGED <<functions, store>>
    BY <1>2 DEF Call, CallingFunction
  <2> HIDE DEF frame
  <2> QED
    BY <2>2, <2>3 DEF TypeOK
<1>3. CASE Exit
  BY <1>3 DEF Exit, ExitingFunction, TypeOK
<1>4. CASE EnterBlock
  <2> DEFINE scopes == Append(Top.scopes, EmptyScope)
             frame == [Top EXCEPT !.scopes = scopes]
  <2>1. callFrames # <<>>
    BY <1>4 DEF EnterBlock
  <2>2. EmptyScope \in Scope
    BY DEF EmptyScope, Scope, NoHolder, Holder
  <2>3. scopes \in Seq(Scope) /\ scopes # <<>>
    BY <2>1, <2>2, TopFrame
  <2>4. frame \in Frame /\ frame.scopes # <<>>
    BY <2>1, <2>3, TopFrame DEF Frame
  <2>5. callFrames' = [callFrames EXCEPT ![Len(callFrames)] = frame]
        /\ UNCHANGED <<functions, store>>
    BY <1>4, <2>1, TopFrame DEF EnterBlock, AddScope, Top
  <2> HIDE DEF frame
  <2> QED
    BY <2>1, <2>4, <2>5 DEF TypeOK
<1>5. CASE LeaveBlock
  <2> DEFINE scopes == SubSeq(Top.scopes, 1, Len(Top.scopes) - 1)
             frame == [Top EXCEPT !.scopes = scopes]
  <2>1. callFrames # <<>> /\ Len(Top.scopes) > 1
    BY <1>5 DEF LeaveBlock
  <2>2. scopes \in Seq(Scope) /\ Len(scopes) = Len(Top.scopes) - 1
    BY <2>1, TopFrame, SubSeqProperties
  <2>3. scopes # <<>>
    <3>1. Len(scopes) > 0
      BY <2>1, <2>2, TopFrame
    <3> HIDE DEF scopes
    <3> QED
      BY <2>2, <3>1
  <2>4. frame \in Frame /\ frame.scopes # <<>>
    BY <2>1, <2>2, <2>3, TopFrame DEF Frame
  <2>5. callFrames' = [callFrames EXCEPT ![Len(callFrames)] = frame]
        /\ UNCHANGED <<functions, store>>
    BY <1>5, <2>1, TopFrame DEF LeaveBlock, PopScope, Top
  <2> HIDE DEF frame
  <2> QED
    BY <2>1, <2>4, <2>5 DEF TypeOK
<1>6. ASSUME NEW id \in Names, NEW vt \in Params, NEW v \in Values, Declare(id, vt, v)
      PROVE  TypeOK'
  BY <1>6, DeclareType DEF Declare
<1>7. ASSUME NEW id \in Names, NEW param \in Params, NEW v \in Values,
             Bind(id, param, ValueArg(v))
      PROVE  TypeOK'
  BY <1>7, DeclareType DEF Bind, BindParam, ValueArg
<1>8. ASSUME NEW id \in Names, NEW param \in Params, NEW i \in 1..Len(callFrames) - 1,
             BindReference(id, param, i)
      PROVE  TypeOK'
  <2>1. PICK j \in DOMAIN callFrames[i].scopes, n \in Names :
               Bind(id, param, HolderArg(callFrames[i].scopes[j][n]))
    BY <1>8 DEF BindReference
  <2> DEFINE h == callFrames[i].scopes[j][n]
             bound == BoundHolder(HolderArg(h), param)
  <2>2. h \in Holder
    BY HolderInScope DEF TypeOK
  <2>3. bound \in Holder
    BY <2>2 DEF BoundHolder, HolderArg, Holder, Params
  <2>4. callFrames # <<>> /\ AddVariable(id, bound) /\ UNCHANGED <<functions, store>>
    BY <2>1 DEF Bind, BindParam, DeclareHolder, HolderArg
  <2> QED
    BY <2>3, <2>4, AddVariableEffect DEF TypeOK
<1>9. ASSUME NEW id \in Names, NEW v \in Values, Assign(id, v) PROVE TypeOK'
  <2> DEFINE a == FindVariable(id).var
  <2>1. store' = [store EXCEPT ![a].value = v] /\ UNCHANGED <<functions, callFrames>>
    BY <1>9 DEF Assign, AssignThrough
  <2> HIDE DEF a
  <2>2. store' = [i \in DOMAIN store |-> IF i = a THEN [store[i] EXCEPT !.value = v] ELSE store[i]]
    BY <2>1 DEF TypeOK
  <2>3. ASSUME NEW i \in DOMAIN store
        PROVE  store[i] \in Variable /\ [store[i] EXCEPT !.value = v] \in Variable
    <3>1. store[i] \in Variable
      BY DEF TypeOK
    <3> QED
      BY <3>1 DEF Variable
  <2>4. store' \in Seq(Variable)
    BY <2>2, <2>3 DEF TypeOK
  <2> QED
    BY <2>1, <2>4 DEF TypeOK
<1>10. CASE UNCHANGED envVars
  BY <1>10 DEF envVars, TypeOK
<1> QED
  BY <1>1, <1>2, <1>3, <1>4, <1>5, <1>6, <1>7, <1>8, <1>9, <1>10 DEF Next

(* The state of the environment always has its declared shape: every frame  *)
(* keeps at least its parameter scope, so that top() and front() are never  *)
(* called on an empty container (environment.cpp 26-57).                    *)
THEOREM TypeCorrect == Spec => []TypeOK
<1>1. Init => TypeOK
  BY BuiltinsAreRegistered DEF Init, TypeOK
<1> QED
  BY <1>1, TypeStep, PTL DEF Spec

-----------------------------------------------------------------------------
(* The inductive invariant: assignment is safe because holders are, and      *)
(* holders stay valid because no step takes a variable or its right away.    *)
IInv == TypeOK /\ StoreTyped /\ ConstHolders

(* A variable about to be assigned is in the store and was declared mut.     *)
LEMMA AssignTarget ==
  ASSUME IInv, NEW id \in Names, NEW v \in Values, Assign(id, v)
  PROVE  /\ FindVariable(id).var \in DOMAIN store
         /\ store[FindVariable(id).var].mutable
         /\ store[FindVariable(id).var].type = v.type
<1>1. callFrames # <<>> /\ FindVariable(id) # NoHolder /\ FindVariable(id).can
      /\ store[FindVariable(id).var].type = v.type
  BY DEF Assign, CanAssign
<1>2. PICK j \in DOMAIN Top.scopes : FindVariable(id) = Top.scopes[j][id]
  BY <1>1, FindVariableInTop DEF IInv
<1>3. HolderValid(FindVariable(id), store)
  BY <1>1, <1>2, TopFrame DEF IInv, ConstHolders, Top
<1> QED
  BY <1>1, <1>3 DEF HolderValid

(* What an assignment does to the store.                                     *)
LEMMA AssignEffect ==
  ASSUME IInv, NEW id \in Names, NEW v \in Values, Assign(id, v)
  PROVE  /\ DOMAIN store' = DOMAIN store
         /\ \A a \in DOMAIN store :
              /\ store'[a].type = store[a].type
              /\ store'[a].mutable = store[a].mutable
              /\ store'[a].value \in {v, store[a].value}
              /\ store'[a].value # store[a].value =>
                   store[a].mutable /\ store[a].type = v.type /\ store'[a].value = v
<1> DEFINE target == FindVariable(id).var
<1>1. target \in DOMAIN store /\ store[target].mutable /\ store[target].type = v.type
  BY AssignTarget
<1>2. store' = [store EXCEPT ![target].value = v]
  BY DEF Assign, AssignThrough
<1> HIDE DEF target
<1>3. \A a \in DOMAIN store : store[a] \in Variable
  BY DEF IInv, TypeOK
<1>4. DOMAIN store' = DOMAIN store
  BY <1>2
<1>5. ASSUME NEW a \in DOMAIN store, a # target PROVE store'[a] = store[a]
  BY <1>2, <1>5
<1>6. store'[target] = [store[target] EXCEPT !.value = v]
  BY <1>1, <1>2
<1>7. /\ store'[target].value = v
      /\ store'[target].type = store[target].type
      /\ store'[target].mutable = store[target].mutable
  BY <1>1, <1>3, <1>6 DEF Variable
<1> QED
  BY <1>1, <1>4, <1>5, <1>7

(* A declaration only appends to the store.                                  *)
LEMMA DeclareEffect ==
  ASSUME TypeOK, NEW id \in Names, NEW vt \in Params, NEW v \in Values,
         DeclareVariable(id, vt, v)
  PROVE  /\ DOMAIN store' = DOMAIN store \cup {Len(store) + 1}
         /\ \A a \in DOMAIN store : store'[a] = store[a]
         /\ store'[Len(store) + 1].type = vt.type
         /\ store'[Len(store) + 1].mutable = vt.mutable
         /\ store'[Len(store) + 1].value = v
<1> DEFINE variable == [type |-> vt.type, mutable |-> vt.mutable, value |-> v]
<1>1. variable \in Variable
  BY DEF Params, Variable
<1>2. store' = Append(store, variable)
  BY DEF DeclareVariable
<1>3. variable.type = vt.type /\ variable.mutable = vt.mutable /\ variable.value = v
  OBVIOUS
<1> HIDE DEF variable
<1>4. /\ DOMAIN store' = DOMAIN store \cup {Len(store) + 1}
      /\ \A a \in DOMAIN store : store'[a] = store[a]
      /\ store'[Len(store) + 1] = variable
  BY <1>1, <1>2 DEF TypeOK
<1> QED
  BY <1>3, <1>4

-----------------------------------------------------------------------------
(* The three things a step may do to the store.                             *)
LEMMA StoreChange ==
  ASSUME [Next]_envVars
  PROVE  \/ UNCHANGED store
         \/ \E id \in Names, vt \in Params, v \in Values :
              v.type = vt.type /\ DeclareVariable(id, vt, v)
         \/ \E id \in Names, v \in Values : Assign(id, v)
<1>1. ASSUME NEW id \in Names, NEW f \in Values, Register(id, f) PROVE UNCHANGED store
  BY <1>1 DEF Register, RegisterFunction
<1>2. ASSUME NEW ret \in Types \cup {NoneType}, Call(ret) PROVE UNCHANGED store
  BY <1>2 DEF Call, CallingFunction
<1>3. CASE Exit \/ EnterBlock \/ LeaveBlock
  BY <1>3 DEF Exit, EnterBlock, LeaveBlock, ExitingFunction, AddScope, PopScope
<1>4. ASSUME NEW id \in Names, NEW vt \in Params, NEW v \in Values, Declare(id, vt, v)
      PROVE  v.type = vt.type /\ DeclareVariable(id, vt, v)
  BY <1>4 DEF Declare
<1>5. ASSUME NEW id \in Names, NEW param \in Params, NEW v \in Values,
             Bind(id, param, ValueArg(v))
      PROVE  v.type = param.type /\ DeclareVariable(id, param, v)
  BY <1>5 DEF Bind, BindParam, ValueArg, ArgMatchesParam, ArgType
<1>6. ASSUME NEW id \in Names, NEW param \in Params, NEW i \in 1..Len(callFrames) - 1,
             BindReference(id, param, i)
      PROVE  UNCHANGED store
  BY <1>6 DEF BindReference, Bind, BindParam, DeclareHolder, HolderArg
<1>7. CASE UNCHANGED envVars
  BY <1>7 DEF envVars
<1> QED
  BY <1>1, <1>2, <1>3, <1>4, <1>5, <1>6, <1>7 DEF Next

(* No step takes a variable away or changes an immutable one.                *)
LEMMA ConstStep == IInv /\ [Next]_envVars => NoConstChange
<1> SUFFICES ASSUME IInv, [Next]_envVars PROVE NoConstChange
  OBVIOUS
<1>1. CASE UNCHANGED store
  BY <1>1 DEF NoConstChange
<1>2. ASSUME NEW id \in Names, NEW vt \in Params, NEW v \in Values, DeclareVariable(id, vt, v)
      PROVE  NoConstChange
  BY <1>2, DeclareEffect DEF IInv, NoConstChange
<1>3. ASSUME NEW id \in Names, NEW v \in Values, Assign(id, v) PROVE NoConstChange
  BY <1>3, AssignEffect DEF NoConstChange
<1> QED
  BY <1>1, <1>2, <1>3, StoreChange

(* Every action keeps the value of a variable within its declared type.      *)
LEMMA StoreTypedStep == IInv /\ [Next]_envVars => StoreTyped'
<1> SUFFICES ASSUME IInv, [Next]_envVars PROVE StoreTyped'
  OBVIOUS
<1>1. CASE UNCHANGED store
  BY <1>1 DEF IInv, StoreTyped
<1>2. ASSUME NEW id \in Names, NEW vt \in Params, NEW v \in Values,
             v.type = vt.type, DeclareVariable(id, vt, v)
      PROVE  StoreTyped'
  BY <1>2, DeclareEffect DEF IInv, StoreTyped
<1>3. ASSUME NEW id \in Names, NEW v \in Values, Assign(id, v) PROVE StoreTyped'
  BY <1>3, AssignEffect DEF IInv, StoreTyped
<1> QED
  BY <1>1, <1>2, <1>3, StoreChange

(* A holder that is valid now is valid after any step.                       *)
LEMMA HolderStaysValid ==
  ASSUME NoConstChange, NEW h, HolderValid(h, store)
  PROVE  HolderValid(h, store')
BY DEF NoConstChange, HolderValid

(* Writing a valid holder into the innermost scope leaves every holder valid. *)
LEMMA AddVariableHolders ==
  ASSUME IInv, callFrames # <<>>, NoConstChange,
         NEW id \in Names, NEW h \in Holder, AddVariable(id, h), HolderValid(h, store')
  PROVE  ConstHolders'
<1> SUFFICES ASSUME NEW i \in DOMAIN callFrames', NEW j \in DOMAIN callFrames'[i].scopes,
                    NEW n \in Names, callFrames'[i].scopes[j][n] # NoHolder
             PROVE  HolderValid(callFrames'[i].scopes[j][n], store')
  BY Zenon DEF ConstHolders
<1>1. i \in DOMAIN callFrames /\ j \in DOMAIN callFrames[i].scopes
  BY AddVariableEffect DEF IInv
<1>2. callFrames'[i].scopes[j][n] \in {h, callFrames[i].scopes[j][n]}
  BY <1>1, AddVariableEffect DEF IInv
<1>3. CASE callFrames'[i].scopes[j][n] = h
  BY <1>3
<1>4. CASE callFrames'[i].scopes[j][n] = callFrames[i].scopes[j][n]
  <2>1. HolderValid(callFrames[i].scopes[j][n], store)
    BY <1>1, <1>4 DEF IInv, ConstHolders
  <2> QED
    BY <1>4, <2>1, HolderStaysValid
<1> QED
  BY <1>2, <1>3, <1>4

(* A declaration makes a valid holder and keeps the others.                  *)
LEMMA DeclareHolders ==
  ASSUME IInv, callFrames # <<>>, NoConstChange,
         NEW id \in Names, NEW vt \in Params, NEW v \in Values, DeclareVariable(id, vt, v)
  PROVE  ConstHolders'
<1> DEFINE holder == [var |-> Len(store) + 1, can |-> vt.mutable]
<1>1. holder \in Holder
  BY DEF IInv, TypeOK, Params, Holder
<1>2. HolderValid(holder, store')
  <2>1. Len(store) + 1 \in DOMAIN store' /\ store'[Len(store) + 1].mutable = vt.mutable
    BY DeclareEffect DEF IInv
  <2> QED
    BY <2>1 DEF HolderValid
<1>3. AddVariable(id, holder)
  BY DEF DeclareVariable
<1> HIDE DEF holder
<1> QED
  BY <1>1, <1>2, <1>3, AddVariableHolders

(* A reference that matches its parameter is bound with rights it has.       *)
LEMMA BindReferenceHolders ==
  ASSUME IInv, NoConstChange, NEW id \in Names, NEW param \in Params,
         NEW i \in 1..Len(callFrames) - 1, BindReference(id, param, i)
  PROVE  ConstHolders'
<1>1. PICK j \in DOMAIN callFrames[i].scopes, n \in Names :
             /\ callFrames[i].scopes[j][n] # NoHolder
             /\ Bind(id, param, HolderArg(callFrames[i].scopes[j][n]))
  BY DEF BindReference
<1> DEFINE h == callFrames[i].scopes[j][n]
           bound == [var |-> h.var, can |-> param.mutable]
<1>2. i \in DOMAIN callFrames
  BY DEF IInv, TypeOK
<1>3. h \in Holder
  BY <1>2, HolderInScope DEF IInv
<1>4. HolderValid(h, store)
  BY <1>1, <1>2 DEF IInv, ConstHolders
<1>5. param.mutable => h.can
  BY <1>1 DEF Bind, ArgMatchesParam, HolderArg
<1>6. bound \in Holder
  BY <1>3 DEF Holder, Params
<1>7. HolderValid(bound, store')
  BY <1>4, <1>5, HolderStaysValid DEF HolderValid
<1>8. callFrames # <<>> /\ AddVariable(id, bound)
  BY <1>1 DEF Bind, BindParam, DeclareHolder, BoundHolder, HolderArg
<1> HIDE DEF bound
<1> QED
  BY <1>6, <1>7, <1>8, AddVariableHolders

(* Every action keeps every holder valid.                                    *)
LEMMA ConstHoldersStep == IInv /\ [Next]_envVars => ConstHolders'
<1> SUFFICES ASSUME IInv, [Next]_envVars PROVE ConstHolders'
  OBVIOUS
<1>0. NoConstChange
  BY ConstStep
<1>1. ASSUME NEW id \in Names, NEW f \in Values, Register(id, f) PROVE ConstHolders'
  BY <1>1 DEF Register, RegisterFunction, IInv, ConstHolders
<1>2. ASSUME NEW ret \in Types \cup {NoneType}, Call(ret) PROVE ConstHolders'
  <2> DEFINE frame == [scopes |-> <<EmptyScope>>, ret |-> ret]
  <2>1. callFrames' = Append(callFrames, frame) /\ store' = store
    BY <1>2 DEF Call, CallingFunction
  <2>2. \A n \in Names : EmptyScope[n] = NoHolder
    BY DEF EmptyScope
  <2>3. \A j \in DOMAIN frame.scopes : \A n \in Names : frame.scopes[j][n] = NoHolder
    BY <2>2
  <2> HIDE DEF frame
  <2>4. \A i \in DOMAIN callFrames' :
          callFrames'[i] = frame \/ (i \in DOMAIN callFrames /\ callFrames'[i] = callFrames[i])
    BY <2>1 DEF IInv, TypeOK
  <2> QED
    BY <2>1, <2>3, <2>4 DEF IInv, ConstHolders
<1>3. CASE Exit
  <2>1. \A i \in DOMAIN callFrames' : i \in DOMAIN callFrames /\ callFrames'[i] = callFrames[i]
    BY <1>3 DEF Exit, ExitingFunction, IInv, TypeOK
  <2> QED
    BY <1>3, <2>1 DEF Exit, ExitingFunction, IInv, ConstHolders
<1>4. CASE EnterBlock
  <2> DEFINE scopes == Append(Top.scopes, EmptyScope)
  <2>1. callFrames # <<>> /\ store' = store
    BY <1>4 DEF EnterBlock, AddScope
  <2>2. \A n \in Names : EmptyScope[n] = NoHolder
    BY DEF EmptyScope
  <2>3. \A j \in DOMAIN scopes :
          scopes[j] = EmptyScope \/ (j \in DOMAIN Top.scopes /\ scopes[j] = Top.scopes[j])
    BY <2>1, TopFrame DEF IInv
  <2> HIDE DEF scopes
  <2>4. /\ DOMAIN callFrames' = DOMAIN callFrames
        /\ \A i \in DOMAIN callFrames :
             callFrames'[i].scopes = IF i = Len(callFrames) THEN scopes ELSE callFrames[i].scopes
    BY <1>4, <2>1, TopFrame DEF EnterBlock, AddScope, Top, IInv, TypeOK, Frame, scopes
  <2> QED
    BY <2>1, <2>2, <2>3, <2>4, TopFrame DEF IInv, ConstHolders, Top
<1>5. CASE LeaveBlock
  <2> DEFINE scopes == SubSeq(Top.scopes, 1, Len(Top.scopes) - 1)
  <2>1. callFrames # <<>> /\ store' = store
    BY <1>5 DEF LeaveBlock, PopScope
  <2>2. \A j \in DOMAIN scopes : j \in DOMAIN Top.scopes /\ scopes[j] = Top.scopes[j]
    BY <2>1, TopFrame DEF IInv
  <2> HIDE DEF scopes
  <2>3. /\ DOMAIN callFrames' = DOMAIN callFrames
        /\ \A i \in DOMAIN callFrames :
             callFrames'[i].scopes = IF i = Len(callFrames) THEN scopes ELSE callFrames[i].scopes
    BY <1>5, <2>1, TopFrame DEF LeaveBlock, PopScope, Top, IInv, TypeOK, Frame, scopes
  <2> QED
    BY <2>1, <2>2, <2>3, TopFrame DEF IInv, ConstHolders, Top
<1>6. ASSUME NEW id \in Names, NEW vt \in Params, NEW v \in Values, Declare(id, vt, v)
      PROVE  ConstHolders'
  BY <1>0, <1>6, DeclareHolders DEF Declare
<1>7. ASSUME NEW id \in Names, NEW param \in Params, NEW v \in Values,
             Bind(id, param, ValueArg(v))
      PROVE  ConstHolders'
  BY <1>0, <1>7, DeclareHolders DEF Bind, BindParam, ValueArg
<1>8. ASSUME NEW id \in Names, NEW param \in Params, NEW i \in 1..Len(callFrames) - 1,
             BindReference(id, param, i)
      PROVE  ConstHolders'
  BY <1>0, <1>8, BindReferenceHolders
<1>9. ASSUME NEW id \in Names, NEW v \in Values, Assign(id, v) PROVE ConstHolders'
  <2>1. UNCHANGED callFrames
    BY <1>9 DEF Assign, AssignThrough
  <2> QED
    BY <1>0, <2>1, HolderStaysValid DEF IInv, ConstHolders
<1>10. CASE UNCHANGED envVars
  BY <1>10 DEF envVars, IInv, ConstHolders
<1> QED
  BY <1>1, <1>2, <1>3, <1>4, <1>5, <1>6, <1>7, <1>8, <1>9, <1>10 DEF Next

(* The inductive invariant holds of every behaviour.                         *)
LEMMA Invariance == Spec => []IInv
<1>1. Init => IInv
  BY BuiltinsAreRegistered DEF Init, IInv, TypeOK, StoreTyped, ConstHolders
<1>2. IInv /\ [Next]_envVars => IInv'
  BY TypeStep, StoreTypedStep, ConstHoldersStep DEF IInv
<1> QED
  BY <1>1, <1>2, PTL DEF Spec

(* The value of a variable always has the type the variable was declared     *)
(* with: the checks at declarations, assignments and calls are enough.       *)
THEOREM StoreIsTyped == Spec => []StoreTyped
<1>1. IInv => StoreTyped
  BY DEF IInv
<1> QED
  BY <1>1, Invariance, PTL

(* No scope of any frame ever holds a reference that dangles or that may     *)
(* change a variable declared without mut.                                   *)
THEOREM HoldersAreConstCorrect == Spec => []ConstHolders
<1>1. IInv => ConstHolders
  BY DEF IInv
<1> QED
  BY <1>1, Invariance, PTL

(* A variable declared without mut keeps its value for ever, through any     *)
(* chain of calls by reference; no variable changes its type.                *)
THEOREM ImmutableVariablesKeepTheirValue == Spec => ConstNeverChanges
<1>1. IInv /\ [Next]_envVars => [NoConstChange]_envVars
  BY ConstStep
<1> QED
  BY <1>1, Invariance, PTL DEF Spec, ConstNeverChanges
=============================================================================
