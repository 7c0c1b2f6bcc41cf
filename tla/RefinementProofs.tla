--------------------------- MODULE RefinementProofs ---------------------------
(***************************************************************************)
(* The interpreter keeps to the protocol of Environment: every step of     *)
(* every program is a step of that protocol or leaves the environment      *)
(* alone.                                                                  *)
(***************************************************************************)
EXTENDS InterpreterProofs

-----------------------------------------------------------------------------
(* What is looked up before an expression is evaluated and used after it: the *)
(* name that a declaration may define, the holder an assignment writes        *)
(* through, the holders among the arguments of a call.                       *)
Gathering == {"Argument", "Invoke", "BindTarget", "Bind"}
Remembering == Gathering \cup {"VariableDeclaration", "Declare", "Assign"}

(* Above an item that remembers something, its own call only evaluates         *)
(* expressions, which declare nothing and open no scope.                     *)
MayCover(above, below) ==
  /\ below \in Remembering => above \in Leaving
  /\ below = "Parameter" => above = "Parameter"

Undisturbed(items) ==
  \A p \in 1..Len(items) : \A q \in p + 1..Len(items) :
    CallOf(items, q) = CallOf(items, p) => MayCover(Waiting(items, q).do, Waiting(items, p).do)

(* Environment::find_variable, in a given frame.                              *)
FoundIn(frame, id) ==
  LET having == {i \in DOMAIN frame.scopes : frame.scopes[i][id] # Env!NoHolder}
  IN  IF having = {} THEN Env!NoHolder
      ELSE frame.scopes[CHOOSE i \in having : \A j \in having : j <= i][id]

InFrame(h, frame) == \E j \in DOMAIN frame.scopes, n \in Names : frame.scopes[j][n] = h
Reaches(arg, frames, k) == arg.tag = "holder" => \E i \in 1..k : InFrame(arg.holder, frames[i])

(* What an item remembers is still so in the frame k of its call, or, for what *)
(* a call was given, in a frame below.                                       *)
Recalls(x, taken, frames, k) ==
  /\ x.do \in {"VariableDeclaration", "Declare"} => Len(frames[k].scopes) > 1
  /\ x.do = "Declare" => x.name \notin taken /\ frames[k].scopes[Len(frames[k].scopes)][x.name] = Env!NoHolder
  /\ x.do = "Assign" => \E n \in Names : FoundIn(frames[k], n) = x.holder
  /\ x.do \in Gathering => \A arg \in ArgsOf(x) : Reaches(arg, frames, k)
  /\ x.do \in {"Call", "Parameter"} => \A arg \in ArgsOf(x) : Reaches(arg, frames, k - 1)
  /\ x.do = "Parameter" => Len(frames[k].scopes) = 1

Remembered(items, taken, frames) ==
  \A p \in 1..Len(items) : Recalls(Waiting(items, p), taken, frames, CallOf(items, p))

(* Kept with IInv by every step.                                             *)
Kept ==
  /\ Undisturbed(stack)
  /\ Remembered(stack, DOMAIN functions, callFrames)
  /\ Reaches(tmpResult, callFrames, Len(callFrames))
-----------------------------------------------------------------------------
(* The items below keep their place, and what they remember.                 *)

LEMMA LowerPart ==
  ASSUME NEW items, NEW base, IsSeq(items), IsSeq(base)
  PROVE  /\ Len(items) \in Nat /\ Len(base) \in Nat /\ Len(items \o base) = Len(items) + Len(base)
         /\ \A p \in 1..Len(base) :
              /\ p \in 1..Len(items \o base)
              /\ Waiting(items \o base, p) = Waiting(base, p)
              /\ CallOf(items \o base, p) = CallOf(base, p)
<1>1. Len(items) \in Nat /\ Len(base) \in Nat /\ Len(items \o base) = Len(items) + Len(base)
  BY SeqParts, SeqConcat
<1>2. \A p \in 1..Len(base) : p \in 1..Len(items \o base) /\ p \in 0..Len(base)
  BY <1>1
<1> QED
  BY <1>1, <1>2, WaitingBelow, CallOfBelow

LEMMA UndisturbedBelow ==
  ASSUME NEW items, NEW base, IsSeq(items), IsSeq(base), Undisturbed(items \o base)
  PROVE  Undisturbed(base)
<1> DEFINE s == items \o base
<1>1. \A p \in 1..Len(base) :
        /\ p \in 1..Len(s) /\ Waiting(s, p) = Waiting(base, p) /\ CallOf(s, p) = CallOf(base, p)
  BY LowerPart
<1>2. Len(base) \in Nat /\ Len(s) \in Nat
  BY SeqParts, SeqConcat
<1> SUFFICES ASSUME NEW p \in 1..Len(base), NEW q \in p + 1..Len(base), CallOf(base, q) = CallOf(base, p)
             PROVE  MayCover(Waiting(base, q).do, Waiting(base, p).do)
  BY DEF Undisturbed
<1>3. q \in 1..Len(base)
  BY <1>2
<1>4. p \in 1..Len(s) /\ q \in p + 1..Len(s)
  BY <1>1, <1>2, <1>3
<1> HIDE DEF s
<1> QED
  BY <1>1, <1>3, <1>4 DEF Undisturbed, s

LEMMA RememberedBelow ==
  ASSUME NEW items, NEW base, IsSeq(items), IsSeq(base), NEW taken, NEW frames,
         Remembered(items \o base, taken, frames)
  PROVE  Remembered(base, taken, frames)
BY LowerPart DEF Remembered

(* Items may take the place of one that was on top, in the same call.          *)
LEMMA UndisturbedOnTop ==
  ASSUME NEW items, NEW base, NEW old, IsSeq(items), IsSeq(base), Undisturbed(<<old>> \o base),
         old.do \notin FrameOwers, old.do = "Parameter" => items = <<>>,
         \A i \in 1..Len(items) :
           /\ items[i].do \notin FrameOwers
           /\ old.do \in Leaving => items[i].do \in Leaving
           /\ \A j \in 1..(i - 1) : MayCover(items[j].do, items[i].do)
  PROVE  Undisturbed(items \o base)
<1> DEFINE s == items \o base
           t == <<old>> \o base
           n == Len(base)
<1>1. /\ Len(items) \in Nat /\ n \in Nat /\ Len(s) = Len(items) + n
      /\ \A p \in 1..n : Waiting(s, p) = Waiting(base, p) /\ CallOf(s, p) = CallOf(base, p)
  BY LowerPart
<1>2. IsSeq(<<old>>) /\ Len(<<old>>) = 1 /\ <<old>>[1] = old
  BY SeqSingle
<1>3. /\ Len(t) = n + 1
      /\ \A p \in 1..n : p \in 1..Len(t) /\ Waiting(t, p) = Waiting(base, p) /\ CallOf(t, p) = CallOf(base, p)
  BY <1>2, LowerPart
<1>4. Waiting(t, n + 1) = old
  <2>1. n + 1 \in n + 1..n + Len(<<old>>) /\ n + Len(<<old>>) + 1 - (n + 1) = 1
    BY <1>1, <1>2
  <2> QED
    BY <1>2, <2>1, WaitingAbove
<1>5. CallOf(t, n + 1) = CallOf(base, n)
  <2>1. n + 1 \in n..n + Len(<<old>>) /\ \A i \in 1..Len(<<old>>) : <<old>>[i].do \notin FrameOwers
    BY <1>1, <1>2
  <2> QED
    BY <1>2, <2>1, CallOfAbove
<1>6. \A q \in n + 1..n + Len(items) :
        /\ CallOf(s, q) = CallOf(base, n)
        /\ n + Len(items) + 1 - q \in 1..Len(items)
        /\ Waiting(s, q) = items[n + Len(items) + 1 - q]
  <2>1. \A q \in n + 1..n + Len(items) : q \in n..n + Len(items)
    BY <1>1
  <2> QED
    BY <2>1, WaitingAbove, CallOfAbove
<1>7. Undisturbed(base)
  BY <1>2, UndisturbedBelow
<1> SUFFICES ASSUME NEW p \in 1..Len(s), NEW q \in p + 1..Len(s), CallOf(s, q) = CallOf(s, p)
             PROVE  MayCover(Waiting(s, q).do, Waiting(s, p).do)
  BY DEF Undisturbed
<1> HIDE DEF s, t, n
<1>8. CASE q <= n
  <2>1. p \in 1..n /\ q \in p + 1..n /\ q \in 1..n
    BY <1>1, <1>8
  <2> QED
    BY <1>1, <1>7, <2>1 DEF Undisturbed, n
<1>9. CASE q > n /\ p <= n
  <2>1. p \in 1..n /\ q \in n + 1..n + Len(items) /\ p \in 1..Len(t) /\ n + 1 \in p + 1..Len(t)
    BY <1>1, <1>3, <1>9
  <2>2. CallOf(t, n + 1) = CallOf(t, p)
    BY <1>1, <1>3, <1>5, <1>6, <2>1
  <2>3. MayCover(old.do, Waiting(base, p).do)
    <3>1. MayCover(Waiting(t, n + 1).do, Waiting(t, p).do)
      BY <2>1, <2>2 DEF Undisturbed, t
    <3> QED
      BY <1>3, <1>4, <2>1, <3>1
  <2> DEFINE i == n + Len(items) + 1 - q
  <2>4. i \in 1..Len(items) /\ Waiting(s, q) = items[i] /\ Waiting(s, p) = Waiting(base, p)
    BY <1>1, <1>6, <2>1
  <2>5. items # <<>>
    BY <1>1, <2>4, SeqParts
  <2> QED
    BY <2>3, <2>4, <2>5 DEF MayCover
<1>10. CASE p > n
  <2> DEFINE i == n + Len(items) + 1 - p
             j == n + Len(items) + 1 - q
  <2>1. p \in n + 1..n + Len(items) /\ q \in n + 1..n + Len(items)
    BY <1>1, <1>10
  <2>2. i \in 1..Len(items) /\ Waiting(s, p) = items[i] /\ Waiting(s, q) = items[j]
    BY <1>6, <2>1
  <2>3. j \in 1..(i - 1)
    BY <1>1, <2>1
  <2> QED
    BY <2>2, <2>3
<1> QED
  BY <1>1, <1>8, <1>9, <1>10
LEMMA OthersRecallNothing ==
  ASSUME NEW x, x.do \notin Remembering \cup {"Call", "Parameter"}, NEW taken, NEW frames, NEW k
  PROVE  Recalls(x, taken, frames, k)
BY DEF Recalls, Remembering

LEMMA CallRecalls ==
  ASSUME NEW x, NEW taken, NEW frames, NEW k, x.do = "Call", \A arg \in ArgsOf(x) : Reaches(arg, frames, k - 1)
  PROVE  Recalls(x, taken, frames, k)
BY DEF Recalls, Gathering

LEMMA RememberedOnTop ==
  ASSUME NEW items, NEW base, IsSeq(items), IsSeq(base), NEW taken, NEW frames, Remembered(base, taken, frames),
         \A i \in 1..Len(items) :
           items[i].do \notin FrameOwers /\ Recalls(items[i], taken, frames, CallOf(base, Len(base)))
  PROVE  Remembered(items \o base, taken, frames)
<1> DEFINE s == items \o base
           n == Len(base)
<1>1. /\ Len(items) \in Nat /\ n \in Nat /\ Len(s) = Len(items) + n
      /\ \A p \in 1..n : Waiting(s, p) = Waiting(base, p) /\ CallOf(s, p) = CallOf(base, p)
  BY LowerPart
<1>2. \A q \in n + 1..n + Len(items) :
        /\ CallOf(s, q) = CallOf(base, n)
        /\ n + Len(items) + 1 - q \in 1..Len(items)
        /\ Waiting(s, q) = items[n + Len(items) + 1 - q]
  <2>1. \A q \in n + 1..n + Len(items) : q \in n..n + Len(items)
    BY <1>1
  <2> QED
    BY <2>1, WaitingAbove, CallOfAbove
<1>3. \A p \in 1..Len(s) : p \in 1..n \/ p \in n + 1..n + Len(items)
  BY <1>1
<1> HIDE DEF s
<1>4. \A p \in 1..n : Recalls(Waiting(s, p), taken, frames, CallOf(s, p))
  BY <1>1 DEF Remembered
<1>5. \A p \in n + 1..n + Len(items) : Recalls(Waiting(s, p), taken, frames, CallOf(s, p))
  BY <1>2
<1>6. Remembered(s, taken, frames)
  BY <1>3, <1>4, <1>5 DEF Remembered
<1> QED
  BY <1>6 DEF s

(* A call begins above its end: nothing below belongs to it.                   *)
LEMMA BegunAbove ==
  ASSUME NEW call, NEW end, NEW base, IsSeq(base), call.do = "Call", end.do \in FrameOwers,
         Undisturbed(base), NEW taken, NEW frames, Remembered(base, taken, frames),
         \A arg \in ArgsOf(call) : Reaches(arg, frames, CallOf(base, Len(base)))
  PROVE  Undisturbed(<<call, end>> \o base) /\ Remembered(<<call, end>> \o base, taken, frames)
<1> DEFINE items == <<call, end>>
           s == items \o base
           n == Len(base)
           k == CallOf(base, n)
<1>1. IsSeq(items) /\ Len(items) = 2 /\ items[1] = call /\ items[2] = end
  BY SeqPair
<1>2. /\ n \in Nat /\ Len(s) = n + 2
      /\ \A p \in 1..n : p \in 1..Len(s) /\ Waiting(s, p) = Waiting(base, p) /\ CallOf(s, p) = CallOf(base, p)
  BY <1>1, LowerPart
<1>3. Waiting(s, n + 1) = end /\ Waiting(s, n + 2) = call
  <2>1. \A p \in n + 1..n + Len(items) : Waiting(s, p) = items[n + Len(items) + 1 - p]
    BY <1>1, WaitingAbove
  <2>2. n + 1 \in n + 1..n + Len(items) /\ n + 2 \in n + 1..n + Len(items)
    BY <1>1, <1>2
  <2>3. n + Len(items) + 1 - (n + 1) = 2 /\ n + Len(items) + 1 - (n + 2) = 1
    BY <1>1, <1>2
  <2>4. Waiting(s, n + 1) = items[2] /\ Waiting(s, n + 2) = items[1]
    BY <2>1, <2>2, <2>3
  <2> QED
    BY <1>1, <2>4
<1>4. k \in Nat /\ \A p \in 1..n : CallOf(base, p) \in Nat /\ CallOf(base, p) <= k
  <2>1. \A p \in 1..n : p \in 0..n
    BY <1>2
  <2> QED
    BY <1>2, <2>1, CallsAreCounted
<1>5. CallOf(s, n + 2) = k + 1
  <2>1. Sole(items, 2)
    <3>1. \A i \in 1..Len(items) : i = 1 \/ i = 2
      BY <1>1
    <3> QED
      BY <1>1, <3>1 DEF Sole, Owers, FrameOwers, ScopeOwers
  <2>2. 2 \in 1..Len(items) /\ items[2].do \in FrameOwers
    BY <1>1
  <2> QED
    BY <1>1, <1>2, <2>1, <2>2, CallOfNext
<1>6. CallOf(s, n + 1) = k + 1
  <2> DEFINE above == <<call>>
             below == <<end>> \o base
  <2>1. s = above \o below /\ IsSeq(above) /\ Len(above) = 1 /\ above[1] = call
    <3>1. Above(items, base) = Above(above, Above(<<end>>, base))
      BY TwoAbove
    <3> QED
      BY <3>1, SeqSingle DEF Above
  <2>2. IsSeq(<<end>>) /\ Len(<<end>>) = 1 /\ <<end>>[1] = end
    BY SeqSingle
  <2>3. IsSeq(below) /\ Len(below) = n + 1
    BY <1>2, <2>2, SeqConcat
  <2>4. Sole(<<end>>, 1) /\ 1 \in 1..Len(<<end>>) /\ <<end>>[1].do \in FrameOwers
    BY <2>2 DEF Sole
  <2>5. CallOf(below, Len(below)) = k + 1
    BY <2>2, <2>4, CallOfNext
  <2> HIDE DEF above, below
  <2>6. Len(below) \in 0..Len(below)
    BY <1>2, <2>3
  <2>7. CallOf(above \o below, Len(below)) = CallOf(below, Len(below))
    BY <2>1, <2>3, <2>6, CallOfBelow
  <2> QED
    BY <2>1, <2>3, <2>5, <2>7
<1>7. \A p \in 1..Len(s) : p \in 1..n \/ p = n + 1 \/ p = n + 2
  BY <1>2
<1>8. end.do \notin Remembering \cup {"Parameter", "Call"}
  BY DEF Remembering, Gathering, FrameOwers
<1> HIDE DEF s, n, items, k
<1>9. Undisturbed(s)
  <2> SUFFICES ASSUME NEW p \in 1..Len(s), NEW q \in p + 1..Len(s), CallOf(s, q) = CallOf(s, p)
               PROVE  MayCover(Waiting(s, q).do, Waiting(s, p).do)
    BY DEF Undisturbed
  <2>1. q \in 1..Len(s)
    BY <1>2
  <2>2. CASE q \in 1..n
    <3>1. p \in 1..n /\ q \in p + 1..n
      BY <1>2, <2>2
    <3> QED
      BY <1>2, <2>2, <3>1 DEF Undisturbed, n
  <2>3. CASE q \notin 1..n
    <3>1. CallOf(s, q) = k + 1
      BY <1>5, <1>6, <1>7, <2>1, <2>3
    <3>2. p \notin 1..n
      <4> SUFFICES ASSUME p \in 1..n
                   PROVE  FALSE
        OBVIOUS
      <4>1. CallOf(base, p) = k + 1 /\ CallOf(base, p) <= k /\ CallOf(base, p) \in Nat
        BY <1>2, <1>4, <3>1
      <4> QED
        BY <1>4, <4>1
    <3>3. p = n + 1
      BY <1>2, <1>7, <2>1, <3>2
    <3> QED
      BY <1>3, <1>8, <3>3 DEF MayCover
  <2> QED
    BY <2>2, <2>3
<1>10. Remembered(s, taken, frames)
  <2>1. \A p \in 1..n : Recalls(Waiting(s, p), taken, frames, CallOf(s, p))
    BY <1>2 DEF Remembered, n
  <2>2. Recalls(end, taken, frames, k + 1)
    BY <1>8, OthersRecallNothing
  <2>3. Recalls(call, taken, frames, k + 1)
    <3> DEFINE m == k + 1
    <3>1. m - 1 = k
      BY <1>4
    <3>2. \A arg \in ArgsOf(call) : Reaches(arg, frames, k)
      BY DEF k, n
    <3> HIDE DEF m
    <3>3. \A arg \in ArgsOf(call) : Reaches(arg, frames, m - 1)
      BY <3>1, <3>2
    <3>4. Recalls(call, taken, frames, m)
      BY <3>3, CallRecalls
    <3> QED
      BY <3>4 DEF m
  <2> QED
    BY <1>3, <1>5, <1>6, <1>7, <2>1, <2>2, <2>3 DEF Remembered
<1> QED
  BY <1>9, <1>10 DEF s, items
(* What is remembered of frames that stay is kept; the top frame may change    *)
(* under an item that remembers nothing of it.                               *)
LEMMA RecallsStays ==
  ASSUME NEW x, NEW taken, NEW frames, NEW frames2, NEW k \in Nat, k > 0, Recalls(x, taken, frames, k),
         \A i \in 1..k : frames2[i] = frames[i]
  PROVE  Recalls(x, taken, frames2, k)
<1>1. k \in 1..k /\ \A i \in 1..(k - 1) : i \in 1..k
  OBVIOUS
<1>2. frames2[k] = frames[k]
  BY <1>1
<1>3. \A arg : Reaches(arg, frames, k) => Reaches(arg, frames2, k)
  BY DEF Reaches
<1>4. \A arg : Reaches(arg, frames, k - 1) => Reaches(arg, frames2, k - 1)
  BY <1>1 DEF Reaches
<1> QED
  BY <1>2, <1>3, <1>4 DEF Recalls

LEMMA RecallsUnderChange ==
  ASSUME NEW x, NEW taken, NEW frames, NEW frames2, NEW k \in Nat, k > 0, Recalls(x, taken, frames, k),
         \A i \in 1..(k - 1) : frames2[i] = frames[i],
         x.do \notin Remembering, x.do = "Parameter" => Len(frames2[k].scopes) = Len(frames[k].scopes)
  PROVE  Recalls(x, taken, frames2, k)
<1>1. \A arg : Reaches(arg, frames, k - 1) => Reaches(arg, frames2, k - 1)
  BY DEF Reaches
<1>2. x.do \notin Gathering \cup {"VariableDeclaration", "Declare", "Assign"}
  BY DEF Remembering
<1> QED
  BY <1>1, <1>2 DEF Recalls

(* Every item waits in a call.                                               *)
LEMMA EachInCall ==
  ASSUME IInv, stack # <<>>, Current.do \notin Registering
  PROVE  /\ Len(Below) \in Nat /\ CallOf(Below, Len(Below)) \in Nat
         /\ \A p \in 1..Len(Below) :
              /\ CallOf(Below, p) \in Nat /\ CallOf(Below, p) > 0
              /\ CallOf(Below, p) <= CallOf(Below, Len(Below))
<1>1. IsSeq(Below) /\ Len(Below) \in Nat
  BY StackParts DEF IInv
<1>2. \A p \in 1..Len(Below) : p \in 0..Len(Below)
  BY <1>1
<1>3. /\ CallOf(Below, Len(Below)) \in Nat
      /\ \A p \in 1..Len(Below) : CallOf(Below, p) \in Nat /\ CallOf(Below, p) <= CallOf(Below, Len(Below))
  BY <1>1, <1>2, CallsAreCounted
<1>4. ASSUME NEW p \in 1..Len(Below)
      PROVE  CallOf(Below, p) > 0
  <2>1. Below # <<>> /\ p \in Nat /\ 1 \in 1..p /\ 1 \in 0..p
    BY <1>1, SeqParts
  <2>2. Below[Len(Below)].do = "CallEnd"
    BY <2>1, InProgress DEF IInv
  <2>3. Waiting(Below, 1).do \in FrameOwers
    BY <1>1, <2>2 DEF Waiting, FrameOwers
  <2>4. CallOf(Below, 1) > 0 /\ CallOf(Below, 1) \in Nat /\ CallOf(Below, 1) <= CallOf(Below, p)
    <3>1. CallOf(Below, 1) \in Nat /\ CallOf(Below, 1) <= CallOf(Below, p)
      BY <2>1, CallsAreCounted
    <3>2. CallOf(Below, 1) > 0
      <4>1. 1 \in 1..1 /\ 1 \in Nat
        OBVIOUS
      <4> QED
        BY <2>3, <4>1, CallsAreCounted
    <3> QED
      BY <3>1, <3>2
  <2> QED
    BY <1>3, <2>4
<1> QED
  BY <1>1, <1>3, <1>4

(* The call of the item on top is that of the frame on top, but for the end of *)
(* a call, above which the next frame is on top.                             *)
LEMMA CallAtTop ==
  ASSUME IInv, stack # <<>>, Current.do \notin Registering
  PROVE  /\ Len(callFrames) \in Nat /\ Len(callFrames) > 0
         /\ Current.do \notin FrameOwers => CallOf(Below, Len(Below)) = Len(callFrames)
         /\ Current.do \in FrameOwers => CallOf(Below, Len(Below)) = Len(callFrames) - 1
         /\ CallOf(stack, Len(Below) + 1) = Len(callFrames)
         /\ Waiting(stack, Len(Below) + 1) = Current
<1>1. Len(callFrames) \in Nat /\ Len(callFrames) > 0 /\ Len(callFrames) = CallOf(stack, Len(stack))
  BY InCall DEF IInv
<1>2. IsSeq(Below) /\ stack = <<Current>> \o Below /\ Len(stack) = Len(Below) + 1 /\ Len(Below) \in Nat
      /\ Current = stack[1]
  BY StackParts DEF IInv
<1>3. IsSeq(<<Current>>) /\ Len(<<Current>>) = 1 /\ <<Current>>[1] = Current
  BY SeqSingle
<1>4. ASSUME Current.do \notin FrameOwers
      PROVE  CallOf(stack, Len(stack)) = CallOf(Below, Len(Below))
  <2>1. \A i \in 1..Len(<<Current>>) : <<Current>>[i].do \notin FrameOwers
    BY <1>3, <1>4
  <2>2. Len(stack) \in Len(Below)..Len(Below) + Len(<<Current>>)
    BY <1>2, <1>3
  <2> QED
    BY <1>2, <1>3, <2>1, <2>2, CallOfAbove
<1>5. ASSUME Current.do \in FrameOwers
      PROVE  CallOf(stack, Len(stack)) = CallOf(Below, Len(Below)) + 1
  <2>1. Sole(<<Current>>, 1) /\ 1 \in 1..Len(<<Current>>) /\ <<Current>>[1].do \in FrameOwers
    BY <1>3, <1>5 DEF Sole
  <2> QED
    BY <1>2, <1>3, <2>1, CallOfNext
<1>6. CallOf(Below, Len(Below)) \in Nat
  BY EachInCall
<1>7. Waiting(stack, Len(Below) + 1) = Current
  BY <1>2 DEF Waiting
<1> QED
  BY <1>1, <1>2, <1>4, <1>5, <1>6, <1>7
(* What a step may do to the frames: the one on top changes only under an item *)
(* that is no expression, and for a parameter only in what its scope holds.   *)
FramesBelowStay ==
  /\ \A i \in 1..Len(callFrames) :
       i <= CallOf(Below, Len(Below)) /\ (i < Len(callFrames) \/ Current.do \in Leaving) => callFrames'[i] = callFrames[i]
  /\ Current.do = "Parameter" =>
       Len(callFrames'[Len(callFrames)].scopes) = Len(callFrames[Len(callFrames)].scopes)

LEMMA BelowRemembers ==
  ASSUME IInv, Kept, stack # <<>>, Current.do \notin Registering, FramesBelowStay
  PROVE  Undisturbed(Below) /\ Remembered(Below, DOMAIN functions, callFrames')
<1> DEFINE n == Len(Below)
           top == Len(callFrames)
           taken == DOMAIN functions
<1>1. /\ IsSeq(Below) /\ stack = <<Current>> \o Below /\ IsSeq(<<Current>>)
      /\ Len(stack) = n + 1 /\ n \in Nat
  BY StackParts, SeqSingle DEF IInv
<1>2. Undisturbed(Below) /\ Remembered(Below, taken, callFrames)
  BY <1>1, UndisturbedBelow, RememberedBelow DEF Kept
<1>3. /\ top \in Nat /\ top > 0
      /\ Current.do \notin FrameOwers => CallOf(Below, n) = top
      /\ Current.do \in FrameOwers => CallOf(Below, n) = top - 1
      /\ CallOf(stack, n + 1) = top
      /\ Waiting(stack, n + 1) = Current
  BY CallAtTop
<1> SUFFICES ASSUME NEW p \in 1..n
             PROVE  Recalls(Waiting(Below, p), taken, callFrames', CallOf(Below, p))
  BY <1>2 DEF Remembered
<1> DEFINE k == CallOf(Below, p)
           x == Waiting(Below, p)
<1>4. k \in Nat /\ k > 0 /\ k <= CallOf(Below, n) /\ CallOf(Below, n) \in Nat
  BY EachInCall
<1>5. Recalls(x, taken, callFrames, k)
  BY <1>2 DEF Remembered
<1>6. Waiting(stack, p) = x /\ CallOf(stack, p) = k
  BY <1>1, LowerPart
<1>7. k = top => MayCover(Current.do, x.do)
  <2>1. p \in 1..Len(stack) /\ n + 1 \in p + 1..Len(stack)
    BY <1>1
  <2> HIDE DEF n, k, x, top
  <2> QED
    BY <1>3, <1>6, <2>1 DEF Kept, Undisturbed
<1> HIDE DEF n, k, x, top, taken
<1>8. \A i \in 1..k : i \in 1..top /\ i <= CallOf(Below, n)
  BY <1>3, <1>4
<1>9. CASE k < top \/ Current.do \in Leaving
  <2>1. \A i \in 1..k : i < top \/ Current.do \in Leaving
    BY <1>3, <1>4, <1>9
  <2>2. \A i \in 1..k : callFrames'[i] = callFrames[i]
    BY <1>8, <2>1 DEF FramesBelowStay, top, n
  <2>3. Recalls(x, taken, callFrames', k)
    <3> DEFINE frames2 == callFrames'
    <3>1. \A i \in 1..k : frames2[i] = callFrames[i]
      BY <2>2
    <3> HIDE DEF frames2
    <3>2. Recalls(x, taken, frames2, k)
      BY <1>4, <1>5, <3>1, RecallsStays
    <3> QED
      BY <3>2 DEF frames2
  <2> QED
    BY <2>3 DEF x, k, taken
<1>10. CASE k = top /\ Current.do \notin Leaving
  <2>1. x.do \notin Remembering /\ (x.do = "Parameter" => Current.do = "Parameter")
    BY <1>7, <1>10 DEF MayCover
  <2>2. \A i \in 1..(k - 1) : callFrames'[i] = callFrames[i]
    <3>1. \A i \in 1..(k - 1) : i \in 1..k /\ i < top
      BY <1>4, <1>10
    <3> QED
      BY <1>8, <3>1 DEF FramesBelowStay, top, n
  <2>3. x.do = "Parameter" => Len(callFrames'[k].scopes) = Len(callFrames[k].scopes)
    BY <1>10, <2>1 DEF FramesBelowStay, top
  <2>4. Recalls(x, taken, callFrames', k)
    <3> DEFINE frames2 == callFrames'
    <3>1. \A i \in 1..(k - 1) : frames2[i] = callFrames[i]
      BY <2>2
    <3>2. x.do = "Parameter" => Len(frames2[k].scopes) = Len(callFrames[k].scopes)
      BY <2>3
    <3> HIDE DEF frames2
    <3>3. Recalls(x, taken, frames2, k)
      BY <1>4, <1>5, <2>1, <3>1, <3>2, RecallsUnderChange
    <3> QED
      BY <3>3 DEF frames2
  <2> QED
    BY <2>4 DEF x, k, taken
<1> QED
  BY <1>3, <1>4, <1>9, <1>10

(* The item on top gives way to items of its own call.                         *)
LEMMA GoesOnInCall ==
  ASSUME IInv, Kept, stack # <<>>, Current.do \notin Registering \cup FrameOwers, UNCHANGED functions, FramesBelowStay,
         NEW items, IsSeq(items), stack' = items \o Below, Current.do = "Parameter" => items = <<>>,
         \A i \in 1..Len(items) :
           /\ items[i].do \notin FrameOwers
           /\ Current.do \in Leaving => items[i].do \in Leaving
           /\ \A j \in 1..(i - 1) : MayCover(items[j].do, items[i].do)
           /\ Recalls(items[i], DOMAIN functions, callFrames', Len(callFrames)),
         Reaches(tmpResult', callFrames', Len(callFrames'))
  PROVE  Kept'
<1>1. IsSeq(Below) /\ stack = <<Current>> \o Below
  BY StackParts DEF IInv
<1>2. Undisturbed(items \o Below)
  BY <1>1, UndisturbedOnTop DEF Kept
<1>3. Remembered(items \o Below, DOMAIN functions, callFrames')
  <2> DEFINE frames2 == callFrames'
             taken == DOMAIN functions
  <2>1. CallOf(Below, Len(Below)) = Len(callFrames)
    BY CallAtTop
  <2>2. \A i \in 1..Len(items) :
          items[i].do \notin FrameOwers /\ Recalls(items[i], taken, frames2, CallOf(Below, Len(Below)))
    BY <2>1
  <2>3. Remembered(Below, taken, frames2)
    BY BelowRemembers
  <2> HIDE DEF frames2, taken
  <2>4. Remembered(items \o Below, taken, frames2)
    BY <1>1, <2>2, <2>3, RememberedOnTop
  <2> QED
    BY <2>4 DEF frames2, taken
<1> QED
  BY <1>2, <1>3 DEF Kept

(* The item on top is done.                                                    *)
LEMMA GoneFromTop ==
  ASSUME IInv, Kept, stack # <<>>, Current.do \notin Registering, UNCHANGED functions, FramesBelowStay,
         stack' = Below, Reaches(tmpResult', callFrames', Len(callFrames'))
  PROVE  Kept'
BY BelowRemembers DEF Kept
-----------------------------------------------------------------------------
(* Steps that leave the environment alone.                                    *)

LEMMA NothingDone == ASSUME Kept, UNCHANGED <<envVars, tmpResult, stack>> PROVE Kept'
BY DEF Kept, envVars

LEMMA ThrownKept == ASSUME Kept, NEW exception, Throw(exception) PROVE Kept'
BY NothingDone DEF Throw

(* No reference comes into _tmp_result.                                       *)
NoNewReference == tmpResult' = tmpResult \/ tmpResult'.tag # "holder"

LEMMA StillReaches ==
  ASSUME Kept, UNCHANGED envVars, NoNewReference
  PROVE  Reaches(tmpResult', callFrames', Len(callFrames'))
BY DEF Kept, envVars, NoNewReference, Reaches

LEMMA FramesAlone == ASSUME UNCHANGED envVars PROVE FramesBelowStay /\ UNCHANGED functions
BY DEF FramesBelowStay, envVars

LEMMA Over ==
  ASSUME IInv, Kept, stack # <<>>, Current.do \notin Registering, UNCHANGED envVars, Return,
         Reaches(tmpResult', callFrames', Len(callFrames'))
  PROVE  Kept'
<1>1. stack' = Below
  BY Returned DEF IInv, Return, Goto
<1> QED
  BY <1>1, FramesAlone, GoneFromTop

(* An expression is evaluated before the current item goes on as another,      *)
(* which may remember what is so now.                                        *)
LEMMA Evaluated ==
  ASSUME IInv, Kept, stack # <<>>, Current.do \notin Registering \cup FrameOwers \cup {"Parameter"}, UNCHANGED envVars,
         NEW x \in Expressions, NEW y, stack' = <<x, y>> \o Below,
         y.do \notin FrameOwers \cup {"Parameter"}, Current.do \in Leaving => y.do \in Leaving,
         Recalls(y, DOMAIN functions, callFrames, Len(callFrames)), NoNewReference
  PROVE  Kept'
<1> DEFINE items == <<x, y>>
<1>1. IsSeq(items) /\ Len(items) = 2 /\ items[1] = x /\ items[2] = y
  BY SeqPair
<1>2. \A i \in 1..Len(items) : i = 1 \/ i = 2
  BY <1>1
<1>3. x.do \in ExpressionKinds /\ x.do \in Leaving
  BY ExpressionComes
<1>4. x.do \notin FrameOwers /\ Recalls(x, DOMAIN functions, callFrames, Len(callFrames))
  <2>1. x.do \notin FrameOwers \cup Remembering \cup {"Call", "Parameter"}
    BY <1>3 DEF ExpressionKinds, FrameOwers, Remembering, Gathering
  <2> QED
    BY <2>1, OthersRecallNothing
<1>5. callFrames' = callFrames
  BY DEF envVars
<1>6. MayCover(x.do, y.do)
  BY <1>3 DEF MayCover
<1>7. \A i \in 1..Len(items) :
        /\ items[i].do \notin FrameOwers
        /\ Current.do \in Leaving => items[i].do \in Leaving
        /\ \A j \in 1..(i - 1) : MayCover(items[j].do, items[i].do)
        /\ Recalls(items[i], DOMAIN functions, callFrames', Len(callFrames))
  <2> SUFFICES ASSUME NEW i \in 1..Len(items)
               PROVE  /\ items[i].do \notin FrameOwers
                      /\ Current.do \in Leaving => items[i].do \in Leaving
                      /\ \A j \in 1..(i - 1) : MayCover(items[j].do, items[i].do)
                      /\ Recalls(items[i], DOMAIN functions, callFrames', Len(callFrames))
    OBVIOUS
  <2>1. CASE i = 1
    <3>1. items[i] = x /\ \A j \in 1..(i - 1) : FALSE
      BY <1>1, <2>1
    <3> QED
      BY <1>3, <1>4, <1>5, <3>1
  <2>2. CASE i = 2
    <3>1. items[i] = y /\ \A j \in 1..(i - 1) : items[j] = x
      BY <1>1, <2>2
    <3> QED
      BY <1>5, <1>6, <3>1
  <2> QED
    BY <1>2, <2>1, <2>2
<1>8. stack' = items \o Below
  OBVIOUS
<1> HIDE DEF items
<1> QED
  BY <1>1, <1>7, <1>8, StillReaches, FramesAlone, GoesOnInCall

(* Items that remember nothing come.                                          *)
Quiet(what) ==
  /\ what \notin FrameOwers \cup Remembering \cup {"Call", "Parameter"}
  /\ Current.do \in Leaving => what \in Leaving

LEMMA QuietStep ==
  ASSUME IInv, Kept, stack # <<>>, Current.do \notin Registering \cup FrameOwers \cup {"Parameter"}, UNCHANGED envVars,
         NEW items, IsSeq(items), stack' = items \o Below, \A i \in 1..Len(items) : Quiet(items[i].do), NoNewReference
  PROVE  Kept'
<1>1. \A i \in 1..Len(items) : Recalls(items[i], DOMAIN functions, callFrames', Len(callFrames))
  <2> SUFFICES ASSUME NEW i \in 1..Len(items)
               PROVE  Recalls(items[i], DOMAIN functions, callFrames, Len(callFrames))
    BY DEF envVars
  <2> QED
    BY OthersRecallNothing DEF Quiet
<1>2. \A i \in 1..Len(items) : \A j : MayCover(items[j].do, items[i].do)
  BY DEF MayCover, Quiet
<1> QED
  BY <1>1, <1>2, StillReaches, FramesAlone, GoesOnInCall DEF Quiet

LEMMA QuietItem ==
  ASSUME IInv, Kept, stack # <<>>, Current.do \notin Registering \cup FrameOwers \cup {"Parameter"}, UNCHANGED envVars,
         NEW x, stack' = <<x>> \o Below, Quiet(x.do), NoNewReference
  PROVE  Kept'
<1>1. IsSeq(<<x>>) /\ \A i \in 1..Len(<<x>>) : <<x>>[i] = x
  BY SeqSingle
<1> QED
  BY <1>1, QuietStep

LEMMA QuietPair ==
  ASSUME IInv, Kept, stack # <<>>, Current.do \notin Registering \cup FrameOwers \cup {"Parameter"}, UNCHANGED envVars,
         NEW x, NEW y, stack' = <<x, y>> \o Below, Quiet(x.do), Quiet(y.do), NoNewReference
  PROVE  Kept'
<1>1. IsSeq(<<x, y>>) /\ \A i \in 1..Len(<<x, y>>) : <<x, y>>[i] \in {x, y}
  <2>1. \A i \in 1..2 : i = 1 \/ i = 2
    OBVIOUS
  <2> QED
    BY <2>1, SeqPair
<1>2. \A i \in 1..Len(<<x, y>>) : Quiet(<<x, y>>[i].do)
  BY <1>1
<1> QED
  BY <1>1, <1>2, QuietStep
-----------------------------------------------------------------------------
(* Expressions.                                                              *)

LEMMA AtPlain ==
  ASSUME IInv, NEW what, what \notin Registering \cup FrameOwers \cup {"Parameter"}, At(what)
  PROVE  /\ stack # <<>> /\ Current.do = what /\ IsItem(Current, store)
         /\ Current.do \notin Registering \cup FrameOwers \cup {"Parameter"}
BY Running

LEMMA ExpressionIsQuiet == ASSUME NEW x \in Expressions PROVE Quiet(x.do)
BY ExpressionComes DEF Quiet, ExpressionKinds, FrameOwers, Remembering, Gathering

LEMMA NothingIsNew == tmpResult' = Nothing => NoNewReference
BY DEF NoNewReference, Nothing

LEMMA ValueIsNoReference == \A v, frames, k : Reaches(ValueArg(v), frames, k)
BY DEF Reaches, ValueArg

LEMMA NothingIsNoReference == \A frames, k : Reaches(Nothing, frames, k)
BY DEF Reaches, Nothing

(* A holder that is found is one of the current frame.                        *)
LEMMA FoundReaches ==
  ASSUME AreFrames(callFrames, store), Len(callFrames) > 0, NEW id \in Names,
         Env!FindVariable(id) # Env!NoHolder
  PROVE  InFrame(Env!FindVariable(id), Env!Top)
<1> DEFINE scopes == Env!Top.scopes
           having == {i \in DOMAIN scopes : scopes[i][id] # Env!NoHolder}
<1>1. Len(callFrames) \in 1..Len(callFrames)
  BY SeqParts DEF AreFrames
<1>2. IsFrame(Env!Top, store)
  BY <1>1 DEF AreFrames, Env!Top
<1>3. Len(scopes) \in Nat /\ DOMAIN scopes = 1..Len(scopes)
  BY <1>2, SeqParts DEF IsFrame
<1>4. having # {} /\ having \in SUBSET (1..Len(scopes))
  BY <1>3 DEF Env!FindVariable
<1>5. \E i \in having : \A j \in having : j <= i
  BY <1>3, <1>4, GreatestIndex
<1>6. PICK i \in having : Env!FindVariable(id) = scopes[i][id]
  BY <1>4, <1>5 DEF Env!FindVariable
<1> QED
  BY <1>6 DEF InFrame

LEMMA VisitLiteralKept == ASSUME IInv, Kept, VisitLiteral PROVE Kept'
<1>1. At("Literal") /\ "Literal" \notin Registering \cup FrameOwers \cup {"Parameter"}
  BY DEF VisitLiteral, Registering, FrameOwers
<1>2. Return /\ UNCHANGED envVars /\ Reaches(tmpResult', callFrames', Len(callFrames'))
  BY ValueIsNoReference DEF VisitLiteral
<1> QED
  BY <1>1, <1>2, AtPlain, Over

LEMMA VisitIdentifierKept == ASSUME IInv, Kept, VisitIdentifier PROVE Kept'
<1>1. At("Identifier") /\ "Identifier" \notin Registering \cup FrameOwers \cup {"Parameter"} /\ "Identifier" \in ExpressionKinds
  BY DEF VisitIdentifier, Registering, FrameOwers, ExpressionKinds
<1>2. Current.name \in Names
  BY <1>1, AtExpression DEF IsExpression
<1>3. CASE Current.name \in DOMAIN functions
  <2>1. Return /\ UNCHANGED envVars /\ Reaches(tmpResult', callFrames', Len(callFrames'))
    BY <1>3, ValueIsNoReference DEF VisitIdentifier
  <2> QED
    BY <1>1, <2>1, AtPlain, Over
<1>4. CASE Current.name \notin DOMAIN functions /\ Holds(Current.name)
  <2> DEFINE h == Env!FindVariable(Current.name)
  <2>1. Len(callFrames) > 0 /\ Len(callFrames) \in Nat
    BY <1>1, AtExpression, InCall DEF IInv
  <2>2. InFrame(h, callFrames[Len(callFrames)])
    BY <1>2, <1>4, <2>1, FoundReaches DEF Holds, IInv, EnvironmentOK, Env!Top
  <2>3. tmpResult' = HolderArg(h) /\ Return /\ UNCHANGED <<envVars, flags>>
    BY <1>4 DEF VisitIdentifier
  <2>4. Reaches(HolderArg(h), callFrames, Len(callFrames))
    <3>1. Len(callFrames) \in 1..Len(callFrames)
      BY <2>1
    <3> QED
      BY <2>2, <3>1 DEF Reaches, HolderArg
  <2>5. Reaches(tmpResult', callFrames', Len(callFrames'))
    BY <2>3, <2>4 DEF envVars
  <2> QED
    BY <1>1, <2>3, <2>5, AtPlain, Over
<1>5. CASE Current.name \notin DOMAIN functions /\ ~Holds(Current.name)
  BY <1>5, ThrownKept DEF VisitIdentifier
<1> QED
  BY <1>3, <1>4, <1>5

LEMMA DeliveredKept ==
  ASSUME IInv, Kept, stack # <<>>, Current.do \notin Registering,
         NEW outcomes, \A o \in outcomes : IsOutcome(o), Deliver(outcomes)
  PROVE  Kept'
<1>1. PICK o \in outcomes :
        IF o.tag = "error"
        THEN Throw(o.error)
        ELSE tmpResult' = o /\ Return /\ UNCHANGED <<envVars, flags>>
  BY DEF Deliver
<1>2. CASE o.tag = "error"
  BY <1>1, <1>2, ThrownKept
<1>3. CASE o.tag # "error"
  <2>1. Reaches(o, callFrames', Len(callFrames'))
    BY <1>3, ValueIsNoReference DEF IsOutcome
  <2> QED
    BY <1>1, <1>3, <2>1, Over
<1> QED
  BY <1>2, <1>3

(* The operators wait for their operands, and forget nothing.                  *)
LEMMA VisitFunctionCallKept == ASSUME IInv, Kept, VisitFunctionCall PROVE Kept'
<1> DEFINE y == [do |-> "Callee", args |-> Current.args]
<1>1. At("FunctionCall") /\ "FunctionCall" \in ExpressionKinds
      /\ "FunctionCall" \notin Registering \cup FrameOwers \cup {"Parameter"}
  BY DEF VisitFunctionCall, ExpressionKinds, Registering, FrameOwers
<1>2. Current.callee \in Expressions
  BY <1>1, AtExpression DEF IsExpression
<1>3. Quiet(y.do)
  BY DEF Quiet, Leaving, FrameOwers, Remembering, Gathering
<1>4. stack' = <<Current.callee, y>> \o Below /\ UNCHANGED envVars /\ NoNewReference
  BY DEF VisitFunctionCall, Visit, Goto, Below, NoNewReference
<1> HIDE DEF y
<1> QED
  BY <1>1, <1>2, <1>3, <1>4, AtPlain, ExpressionIsQuiet, QuietPair

LEMMA VisitTypeCastKept == ASSUME IInv, Kept, VisitTypeCast PROVE Kept'
<1> DEFINE y == [do |-> "Cast", target |-> Current.target]
<1>1. At("TypeCast") /\ "TypeCast" \in ExpressionKinds
      /\ "TypeCast" \notin Registering \cup FrameOwers \cup {"Parameter"}
  BY DEF VisitTypeCast, ExpressionKinds, Registering, FrameOwers
<1>2. Current.expr \in Expressions
  BY <1>1, AtExpression DEF IsExpression
<1>3. Quiet(y.do)
  BY DEF Quiet, Leaving, FrameOwers, Remembering, Gathering
<1>4. stack' = <<Current.expr, y>> \o Below /\ UNCHANGED envVars /\ NoNewReference
  BY DEF VisitTypeCast, Visit, Goto, Below, NoNewReference
<1> HIDE DEF y
<1> QED
  BY <1>1, <1>2, <1>3, <1>4, AtPlain, ExpressionIsQuiet, QuietPair

LEMMA ApplyCastKept == ASSUME IInv, Kept, ApplyCast PROVE Kept'
<1>1. At("Cast") /\ "Cast" \notin Registering \cup FrameOwers \cup {"Parameter"}
  BY DEF ApplyCast, Registering, FrameOwers
<1>2. CASE IsEmpty
  BY <1>2, ThrownKept DEF ApplyCast
<1>3. CASE ~IsEmpty
  BY <1>1, <1>3, CastGives, AtPlain, DeliveredKept DEF ApplyCast
<1> QED
  BY <1>2, <1>3

LEMMA VisitBinaryKept == ASSUME IInv, Kept, VisitBinary PROVE Kept'
<1> DEFINE y == [do |-> "RightOperand", kind |-> Current.kind, right |-> Current.right]
<1>1. At("Binary") /\ "Binary" \in ExpressionKinds
      /\ "Binary" \notin Registering \cup FrameOwers \cup {"Parameter"}
  BY DEF VisitBinary, ExpressionKinds, Registering, FrameOwers
<1>2. Current.left \in Expressions
  BY <1>1, AtExpression DEF IsExpression
<1>3. Quiet(y.do)
  BY DEF Quiet, Leaving, FrameOwers, Remembering, Gathering
<1>4. stack' = <<Current.left, y>> \o Below /\ UNCHANGED envVars /\ NoNewReference
  BY DEF VisitBinary, Visit, Goto, Below, NoNewReference
<1> HIDE DEF y
<1> QED
  BY <1>1, <1>2, <1>3, <1>4, AtPlain, ExpressionIsQuiet, QuietPair

LEMMA VisitRightOperandKept == ASSUME IInv, Kept, VisitRightOperand PROVE Kept'
<1> DEFINE y == [do |-> "Operator", kind |-> Current.kind, left |-> TmpValue]
<1>1. At("RightOperand") /\ "RightOperand" \notin Registering \cup FrameOwers \cup {"Parameter"}
  BY DEF VisitRightOperand, Registering, FrameOwers
<1>2. CASE IsEmpty
  BY <1>2, ThrownKept DEF VisitRightOperand
<1>3. CASE ~IsEmpty
  <2>1. Current.right \in Expressions
    BY <1>1, AtOperation DEF IsItem
  <2>2. Quiet(y.do)
    BY DEF Quiet, Leaving, FrameOwers, Remembering, Gathering
  <2>3. stack' = <<Current.right, y>> \o Below /\ UNCHANGED envVars /\ NoNewReference
    BY <1>3, NothingIsNew DEF VisitRightOperand, Goto, Below
  <2> HIDE DEF y
  <2> QED
    BY <1>1, <2>1, <2>2, <2>3, AtPlain, ExpressionIsQuiet, QuietPair
<1> QED
  BY <1>2, <1>3

LEMMA ApplyBinaryKept == ASSUME IInv, Kept, ApplyBinary PROVE Kept'
<1>1. At("Operator") /\ "Operator" \notin Registering \cup FrameOwers \cup {"Parameter"}
  BY DEF ApplyBinary, Registering, FrameOwers
<1>2. CASE IsEmpty
  BY <1>2, ThrownKept DEF ApplyBinary
<1>3. CASE ~IsEmpty
  BY <1>1, <1>3, BinaryGives, AtPlain, DeliveredKept DEF ApplyBinary
<1> QED
  BY <1>2, <1>3

LEMMA VisitUnaryKept == ASSUME IInv, Kept, VisitUnary PROVE Kept'
<1> DEFINE y == [do |-> "UnaryOperator", kind |-> Current.kind]
<1>1. At("Unary") /\ "Unary" \in ExpressionKinds
      /\ "Unary" \notin Registering \cup FrameOwers \cup {"Parameter"}
  BY DEF VisitUnary, ExpressionKinds, Registering, FrameOwers
<1>2. Current.expr \in Expressions
  BY <1>1, AtExpression DEF IsExpression
<1>3. Quiet(y.do)
  BY DEF Quiet, Leaving, FrameOwers, Remembering, Gathering
<1>4. stack' = <<Current.expr, y>> \o Below /\ UNCHANGED envVars /\ NoNewReference
  BY DEF VisitUnary, Visit, Goto, Below, NoNewReference
<1> HIDE DEF y
<1> QED
  BY <1>1, <1>2, <1>3, <1>4, AtPlain, ExpressionIsQuiet, QuietPair

LEMMA ApplyUnaryKept == ASSUME IInv, Kept, ApplyUnary PROVE Kept'
<1>1. At("UnaryOperator") /\ "UnaryOperator" \notin Registering \cup FrameOwers \cup {"Parameter"}
  BY DEF ApplyUnary, Registering, FrameOwers
<1>2. CASE IsEmpty
  BY <1>2, ThrownKept DEF ApplyUnary
<1>3. CASE ~IsEmpty
  BY <1>1, <1>3, UnaryGives, AtPlain, DeliveredKept DEF ApplyUnary
<1> QED
  BY <1>2, <1>3

LEMMA ApplyBindFrontKept == ASSUME IInv, Kept, ApplyBindFront PROVE Kept'
<1>1. At("Bind") /\ "Bind" \notin Registering \cup FrameOwers \cup {"Parameter"}
  BY DEF ApplyBindFront, Registering, FrameOwers
<1>2. CASE ~IsCallable(tmpResult, store)
  BY <1>2, ThrownKept DEF ApplyBindFront
<1>3. CASE IsCallable(tmpResult, store)
  BY <1>1, <1>3, BindFrontGives, AtPlain, DeliveredKept DEF ApplyBindFront
<1> QED
  BY <1>2, <1>3
-----------------------------------------------------------------------------
(* Items that remember.                                                       *)

LEMMA Recalled ==
  ASSUME IInv, Kept, stack # <<>>, Current.do \notin Registering
  PROVE  Recalls(Current, DOMAIN functions, callFrames, Len(callFrames))
<1>1. Len(stack) = Len(Below) + 1 /\ Len(Below) \in Nat
  BY StackParts DEF IInv
<1>2. Len(Below) + 1 \in 1..Len(stack)
  BY <1>1
<1>3. CallOf(stack, Len(Below) + 1) = Len(callFrames) /\ Waiting(stack, Len(Below) + 1) = Current
  BY CallAtTop
<1> DEFINE p == Len(Below) + 1
<1>4. p \in 1..Len(stack) /\ CallOf(stack, p) = Len(callFrames) /\ Waiting(stack, p) = Current
  BY <1>2, <1>3
<1> HIDE DEF p
<1> QED
  BY <1>4 DEF Kept, Remembered

LEMMA GatheringRecalls ==
  ASSUME NEW x, x.do \in Gathering, NEW taken, NEW frames, NEW k, \A arg \in ArgsOf(x) : Reaches(arg, frames, k)
  PROVE  Recalls(x, taken, frames, k)
BY DEF Recalls, Gathering

LEMMA GatheringReaches ==
  ASSUME NEW x, x.do \in Gathering, NEW taken, NEW frames, NEW k, Recalls(x, taken, frames, k)
  PROVE  \A arg \in ArgsOf(x) : Reaches(arg, frames, k)
BY DEF Recalls

(* The item on top goes on as another that remembers what is so now.           *)
LEMMA GoesOnAs ==
  ASSUME IInv, Kept, stack # <<>>, Current.do \notin Registering \cup FrameOwers \cup {"Parameter"}, UNCHANGED envVars,
         NEW x, stack' = <<x>> \o Below, x.do \notin FrameOwers, Current.do \in Leaving => x.do \in Leaving,
         Recalls(x, DOMAIN functions, callFrames, Len(callFrames)), NoNewReference
  PROVE  Kept'
<1> DEFINE items == <<x>>
<1>1. IsSeq(items) /\ Len(items) = 1 /\ items[1] = x
  BY SeqSingle
<1>2. \A i \in 1..Len(items) : i = 1 /\ \A j \in 1..(i - 1) : FALSE
  BY <1>1
<1>3. \A i \in 1..Len(items) :
        /\ items[i].do \notin FrameOwers
        /\ Current.do \in Leaving => items[i].do \in Leaving
        /\ \A j \in 1..(i - 1) : MayCover(items[j].do, items[i].do)
        /\ Recalls(items[i], DOMAIN functions, callFrames', Len(callFrames))
  BY <1>1, <1>2 DEF envVars
<1>4. stack' = items \o Below
  OBVIOUS
<1> HIDE DEF items
<1> QED
  BY <1>1, <1>3, <1>4, StillReaches, FramesAlone, GoesOnInCall

(* The arguments evaluated so far reach the frames of the call or those below. *)
LEMMA ArgumentsKept ==
  ASSUME IInv, Kept, stack # <<>>, Current.do \in Leaving \ {"CallEnd"},
         NEW exprs \in Seq(Expressions), NEW got, \A arg \in ToSet(got) : Reaches(arg, callFrames, Len(callFrames)),
         NEW then, TakesArgs(then),
         stack' = ArgList(exprs, got, then) \o Below, UNCHANGED envVars, UNCHANGED tmpResult
  PROVE  Kept'
<1>1. Current.do \notin Registering \cup FrameOwers \cup {"Parameter"}
  BY DEF Leaving, ExpressionKinds, Registering, FrameOwers
<1>2. NoNewReference
  BY DEF NoNewReference
<1>3. CASE exprs = <<>>
  <2> DEFINE x == [then EXCEPT !.args = got]
  <2>1. x.do \in {"Invoke", "BindTarget"} /\ x.args = got
    BY DEF TakesArgs
  <2>2. stack' = <<x>> \o Below
    BY <1>3 DEF ArgList
  <2> HIDE DEF x
  <2>3. x.do \in Gathering /\ x.do \in Leaving /\ x.do \notin FrameOwers /\ ArgsOf(x) = ToSet(got)
    BY <2>1 DEF Gathering, Leaving, FrameOwers, ArgsOf
  <2>4. Recalls(x, DOMAIN functions, callFrames, Len(callFrames))
    BY <2>3, GatheringRecalls
  <2> QED
    BY <1>1, <1>2, <2>2, <2>3, <2>4, GoesOnAs
<1>4. CASE exprs # <<>>
  <2> DEFINE x == Head(exprs)
             y == [do |-> "Argument", rest |-> Tail(exprs), got |-> got, then |-> then]
  <2>1. x \in Expressions
    BY <1>4
  <2>2. stack' = <<x, y>> \o Below
    BY <1>4 DEF ArgList
  <2>3. y.do = "Argument" /\ y.got = got
    OBVIOUS
  <2> HIDE DEF x, y
  <2>4. y.do \in Gathering /\ y.do \in Leaving /\ y.do \notin FrameOwers \cup {"Parameter"} /\ ArgsOf(y) = ToSet(got)
    BY <2>3 DEF Gathering, Leaving, FrameOwers, ArgsOf
  <2>5. Recalls(y, DOMAIN functions, callFrames, Len(callFrames))
    BY <2>4, GatheringRecalls
  <2> QED
    BY <1>1, <1>2, <2>1, <2>2, <2>4, <2>5, Evaluated
<1> QED
  BY <1>3, <1>4

LEMMA CollectArgumentKept == ASSUME IInv, Kept, CollectArgument PROVE Kept'
<1>1. At("Argument")
  BY DEF CollectArgument
<1>2. CASE IsEmpty
  BY <1>2, ThrownKept DEF CollectArgument
<1>3. CASE ~IsEmpty
  <2> DEFINE got == Append(Current.got, tmpResult)
  <2>1. Current.rest \in Seq(Expressions) /\ AreArgs(Current.got, store) /\ TakesArgs(Current.then)
    BY <1>1, AtOperation DEF IsItem
  <2>2. \A arg \in ToSet(Current.got) : Reaches(arg, callFrames, Len(callFrames))
    <3>1. Current.do = "Argument" /\ stack # <<>> /\ Current.do \notin Registering
      BY <1>1, AtOperation
    <3>2. Recalls(Current, DOMAIN functions, callFrames, Len(callFrames))
      BY <3>1, Recalled
    <3>3. Current.do \in Gathering /\ ArgsOf(Current) = ToSet(Current.got)
      BY <3>1 DEF Gathering, ArgsOf
    <3> QED
      BY <3>2, <3>3, GatheringReaches
  <2>3. \A arg \in ToSet(got) : arg \in ToSet(Current.got) \/ arg = tmpResult
    <3>1. IsSeq(Current.got)
      BY <2>1 DEF AreArgs
    <3>2. /\ Len(Current.got) \in Nat /\ DOMAIN Current.got = 1..Len(Current.got)
          /\ DOMAIN got = 1..Len(got) /\ Len(got) = Len(Current.got) + 1
          /\ \A i \in 1..Len(got) : got[i] = IF i <= Len(Current.got) THEN Current.got[i] ELSE tmpResult
      BY <3>1, SeqParts, SeqAppend
    <3> HIDE DEF got
    <3> QED
      BY <3>2 DEF ToSet
  <2>4. \A arg \in ToSet(got) : Reaches(arg, callFrames, Len(callFrames))
    BY <2>2, <2>3 DEF Kept
  <2>5. stack' = ArgList(Current.rest, got, Current.then) \o Below /\ UNCHANGED envVars /\ UNCHANGED tmpResult
    BY <1>3 DEF CollectArgument, Goto, Below
  <2> HIDE DEF got
  <2> QED
    BY <1>1, <2>1, <2>4, <2>5, AtOperation, ArgumentsKept
<1> QED
  BY <1>2, <1>3

LEMMA NothingGot == \A arg \in ToSet(<<>>) : FALSE
BY DEF ToSet

LEMMA GetArgumentsKept == ASSUME IInv, Kept, GetArguments PROVE Kept'
<1> DEFINE then == [do |-> "Invoke", func |-> TmpValue, args |-> <<>>]
<1>1. At("Callee")
  BY DEF GetArguments
<1>2. CASE ~IsCallable(tmpResult, store)
  BY <1>2, ThrownKept DEF GetArguments
<1>3. CASE IsCallable(tmpResult, store)
  <2>1. IsFunction(TmpValue)
    BY <1>1, <1>3, CallableIsFunction, Running
  <2>2. TakesArgs(then)
    BY <2>1 DEF TakesArgs
  <2>3. Current.args \in Seq(Expressions)
    BY <1>1, AtOperation DEF IsItem
  <2>4. stack' = ArgList(Current.args, <<>>, then) \o Below /\ UNCHANGED envVars /\ UNCHANGED tmpResult
    BY <1>3 DEF GetArguments, Goto, Below
  <2> HIDE DEF then
  <2> QED
    BY <1>1, <1>3, <2>2, <2>3, <2>4, NothingGot, AtOperation, ArgumentsKept
<1> QED
  BY <1>2, <1>3

LEMMA VisitBindFrontKept == ASSUME IInv, Kept, VisitBindFront PROVE Kept'
<1> DEFINE then == [do |-> "BindTarget", target |-> Current.target, args |-> <<>>]
<1>1. At("BindFront") /\ "BindFront" \in ExpressionKinds
  BY DEF VisitBindFront, ExpressionKinds
<1>2. Current.args \in Seq(Expressions) /\ Current.target \in Expressions
  BY <1>1, AtExpression DEF IsExpression
<1>3. TakesArgs(then)
  BY <1>2 DEF TakesArgs
<1>4. stack' = ArgList(Current.args, <<>>, then) \o Below /\ UNCHANGED envVars /\ UNCHANGED tmpResult
  BY DEF VisitBindFront, Goto, Below
<1> HIDE DEF then
<1> QED
  BY <1>1, <1>2, <1>3, <1>4, NothingGot, AtExpression, ArgumentsKept

LEMMA VisitBindTargetKept == ASSUME IInv, Kept, VisitBindTarget PROVE Kept'
<1> DEFINE y == [do |-> "Bind", args |-> Current.args]
<1>1. At("BindTarget") /\ "BindTarget" \notin Registering \cup FrameOwers \cup {"Parameter"}
  BY DEF VisitBindTarget, Registering, FrameOwers
<1>2. Current.target \in Expressions
  BY <1>1, AtOperation DEF IsItem
<1>3. stack # <<>> /\ Current.do = "BindTarget"
  BY <1>1, AtPlain
<1>4. \A arg \in ToSet(Current.args) : Reaches(arg, callFrames, Len(callFrames))
  <2>1. Recalls(Current, DOMAIN functions, callFrames, Len(callFrames))
    BY <1>1, <1>3, Recalled
  <2>2. Current.do \in Gathering /\ ArgsOf(Current) = ToSet(Current.args)
    BY <1>3 DEF Gathering, ArgsOf
  <2> QED
    BY <2>1, <2>2, GatheringReaches
<1>5. y.do = "Bind" /\ y.args = Current.args
  OBVIOUS
<1>6. stack' = <<Current.target, y>> \o Below /\ UNCHANGED envVars /\ NoNewReference
  BY DEF VisitBindTarget, Visit, Goto, Below, NoNewReference
<1> HIDE DEF y
<1>7. y.do \in Gathering /\ y.do \in Leaving /\ y.do \notin FrameOwers \cup {"Parameter"} /\ ArgsOf(y) = ToSet(Current.args)
  BY <1>5 DEF Gathering, Leaving, FrameOwers, ArgsOf
<1>8. Recalls(y, DOMAIN functions, callFrames, Len(callFrames))
  BY <1>4, <1>7, GatheringRecalls
<1> QED
  BY <1>1, <1>2, <1>6, <1>7, <1>8, AtPlain, Evaluated
-----------------------------------------------------------------------------
(* Statements that open no scope.                                             *)

LEMMA VisitVariableDeclarationKept == ASSUME IInv, Kept, VisitVariableDeclaration PROVE Kept'
<1> DEFINE y == [do |-> "Declare", name |-> Current.name, vt |-> Current.vt]
           k == Len(callFrames)
           taken == DOMAIN functions
<1>1. At("VariableDeclaration") /\ "VariableDeclaration" \in StatementKinds
      /\ "VariableDeclaration" \notin Registering \cup FrameOwers \cup {"Parameter"} \cup Leaving
  BY DEF VisitVariableDeclaration, StatementKinds, Registering, FrameOwers, Leaving, ExpressionKinds
<1>2. CASE ~Env!CanDefine(Current.name)
  BY <1>2, ThrownKept DEF VisitVariableDeclaration
<1>3. CASE Env!CanDefine(Current.name)
  <2>1. Current.expr \in Expressions
    BY <1>1, AtStatement DEF IsStatement
  <2>2. Recalls(Current, taken, callFrames, k) /\ Current.do = "VariableDeclaration"
    BY <1>1, AtPlain, Recalled
  <2>3. Len(callFrames[k].scopes) > 1
    BY <2>2 DEF Recalls
  <2>4. Current.name \notin taken /\ callFrames[k].scopes[Len(callFrames[k].scopes)][Current.name] = Env!NoHolder
    BY <1>3 DEF Env!CanDefine, Env!IsInCurrentScope, Env!Innermost, Env!Top
  <2>5. y.do = "Declare" /\ y.name = Current.name
    OBVIOUS
  <2>6. stack' = <<Current.expr, y>> \o Below /\ UNCHANGED envVars /\ NoNewReference
    BY <1>3 DEF VisitVariableDeclaration, Visit, Goto, Below, NoNewReference
  <2> HIDE DEF y, k, taken
  <2>7. Recalls(y, taken, callFrames, k)
    BY <2>3, <2>4, <2>5 DEF Recalls, Gathering
  <2>8. y.do \notin FrameOwers \cup {"Parameter"}
    BY <2>5 DEF FrameOwers
  <2> QED
    BY <1>1, <2>1, <2>2, <2>6, <2>7, <2>8, AtPlain, Evaluated DEF k, taken
<1> QED
  BY <1>2, <1>3

LEMMA VisitAssignStatementKept == ASSUME IInv, Kept, VisitAssignStatement PROVE Kept'
<1> DEFINE h == Env!FindVariable(Current.name)
           y == [do |-> "Assign", holder |-> h]
           k == Len(callFrames)
<1>1. At("AssignStatement") /\ "AssignStatement" \in StatementKinds
      /\ "AssignStatement" \notin Registering \cup FrameOwers \cup {"Parameter"} \cup Leaving
  BY DEF VisitAssignStatement, StatementKinds, Registering, FrameOwers, Leaving, ExpressionKinds
<1>2. CASE ~Holds(Current.name)
  BY <1>2, ThrownKept DEF VisitAssignStatement
<1>3. CASE Holds(Current.name) /\ ~h.can
  BY <1>3, ThrownKept DEF VisitAssignStatement
<1>4. CASE Holds(Current.name) /\ h.can
  <2>1. Current.name \in Names /\ Current.expr \in Expressions
    BY <1>1, AtStatement DEF IsStatement
  <2>2. FoundIn(callFrames[k], Current.name) = h
    BY DEF FoundIn, Env!FindVariable, Env!Top
  <2>3. stack' = <<Current.expr, y>> \o Below /\ UNCHANGED envVars /\ NoNewReference
    BY <1>4 DEF VisitAssignStatement, Visit, Goto, Below, NoNewReference
  <2>4. y.do = "Assign" /\ y.holder = h
    OBVIOUS
  <2> HIDE DEF h, y, k
  <2>5. Recalls(y, DOMAIN functions, callFrames, k)
    <3>1. \E n \in Names : FoundIn(callFrames[k], n) = y.holder
      BY <2>1, <2>2, <2>4
    <3> QED
      BY <2>4, <3>1 DEF Recalls, Gathering
  <2>6. y.do \notin FrameOwers \cup {"Parameter"}
    BY <2>4 DEF FrameOwers
  <2>7. stack # <<>> /\ Current.do = "AssignStatement"
    BY <1>1, AtPlain
  <2> QED
    BY <1>1, <2>1, <2>3, <2>5, <2>6, <2>7, Evaluated DEF k
<1> QED
  BY <1>2, <1>3, <1>4

LEMMA AssignVariableKept == ASSUME IInv, Kept, AssignVariable PROVE Kept'
<1>1. At("Assign") /\ "Assign" \notin Registering \cup FrameOwers \cup {"Parameter"}
  BY DEF AssignVariable, Registering, FrameOwers
<1>2. CASE ~Assignable(store[Current.holder.var].type)
  BY <1>2, ThrownKept DEF AssignVariable
<1>3. CASE Assignable(store[Current.holder.var].type)
  <2>1. UNCHANGED <<functions, callFrames>> /\ tmpResult' = Nothing /\ Return
    BY <1>3 DEF AssignVariable, Env!AssignThrough
  <2>2. stack # <<>> /\ Current.do = "Assign"
    BY <1>1, AtPlain
  <2>3. stack' = Below
    BY <2>1, <2>2, Returned DEF IInv, Return, Goto
  <2>4. FramesBelowStay
    BY <2>1 DEF FramesBelowStay
  <2>5. Reaches(tmpResult', callFrames', Len(callFrames'))
    BY <2>1, NothingIsNoReference
  <2> QED
    BY <1>1, <2>1, <2>2, <2>3, <2>4, <2>5, GoneFromTop
<1> QED
  BY <1>2, <1>3

(* Only the innermost scope of the call changes.                               *)
LEMMA VariableAdded ==
  ASSUME IInv, stack # <<>>, Current.do \notin Registering \cup Leaving, NEW id, NEW holder,
         Env!AddVariable(id, holder)
  PROVE  FramesBelowStay /\ Len(callFrames') = Len(callFrames)
<1> DEFINE n == Len(callFrames)
           old == callFrames[n].scopes
           scope == [old[Len(old)] EXCEPT ![id] = holder]
           scopes == [old EXCEPT ![Len(old)] = scope]
<1>1. IsSeq(callFrames) /\ n \in Nat /\ n > 0 /\ n \in 1..n /\ DOMAIN callFrames = 1..n
  BY InCall, SeqParts DEF IInv, EnvironmentOK, AreFrames
<1>2. callFrames[n] = [scopes |-> old, ret |-> callFrames[n].ret] /\ IsSeq(old)
  BY <1>1 DEF IInv, EnvironmentOK, AreFrames, IsFrame
<1>3. Len(old) \in Nat /\ DOMAIN old = 1..Len(old)
  BY <1>2, SeqParts
<1>4. callFrames' = [callFrames EXCEPT ![n] = [callFrames[n] EXCEPT !.scopes = scopes]]
  BY DEF Env!AddVariable, Env!Top
<1> HIDE DEF scope
<1>5. scopes = [j \in 1..Len(old) |-> IF j = Len(old) THEN scope ELSE old[j]]
  BY <1>3
<1>6. Len(scopes) = Len(old)
  <2> HIDE DEF scopes, old
  <2> QED
    BY <1>3, <1>5, SeqMade
<1> HIDE DEF scopes
<1>7. [callFrames[n] EXCEPT !.scopes = scopes].scopes = scopes
  BY <1>2
<1>8. /\ DOMAIN callFrames' = 1..n /\ callFrames' = [i \in 1..n |-> callFrames'[i]]
      /\ \A i \in 1..n : i # n => callFrames'[i] = callFrames[i]
      /\ callFrames'[n].scopes = scopes
  BY <1>1, <1>4, <1>7
<1>9. Len(callFrames') = n
  BY <1>1, <1>8, SeqMade
<1> QED
  BY <1>1, <1>6, <1>8, <1>9 DEF FramesBelowStay

LEMMA DeclareVariableKept == ASSUME IInv, Kept, DeclareVariable PROVE Kept'
<1>1. At("Declare") /\ "Declare" \notin Registering \cup FrameOwers \cup {"Parameter"} \cup Leaving
  BY DEF DeclareVariable, Registering, FrameOwers, Leaving, ExpressionKinds
<1>2. CASE ~Assignable(Current.vt.type)
  BY <1>2, ThrownKept DEF DeclareVariable
<1>3. CASE Assignable(Current.vt.type)
  <2>1. /\ Env!AddVariable(Current.name, [var |-> Len(store) + 1, can |-> Current.vt.mutable])
        /\ UNCHANGED functions /\ tmpResult' = Nothing /\ Return
    BY <1>3 DEF DeclareVariable, Env!DeclareVariable
  <2>2. stack # <<>> /\ Current.do = "Declare"
    BY <1>1, AtPlain
  <2>3. stack' = Below
    BY <2>1, <2>2, Returned DEF IInv, Return, Goto
  <2>4. FramesBelowStay
    BY <1>1, <2>1, <2>2, VariableAdded
  <2>5. Reaches(tmpResult', callFrames', Len(callFrames'))
    BY <2>1, NothingIsNoReference
  <2> QED
    BY <1>1, <2>1, <2>2, <2>3, <2>4, <2>5, GoneFromTop
<1> QED
  BY <1>2, <1>3

LEMMA ReturnedIsNoReference == \A result, type : Returns(result, type) => \A frames, k : Reaches(result, frames, k)
BY NothingIsNoReference, ValueIsNoReference DEF Returns

LEMMA BindParameterKept == ASSUME IInv, Kept, BindParameter PROVE Kept'
<1>1. At("Parameter") /\ "Parameter" \notin Registering \cup FrameOwers \cup Leaving
  BY DEF BindParameter, Registering, FrameOwers, Leaving, ExpressionKinds
<1>2. stack # <<>> /\ Current.do = "Parameter" /\ Returns(tmpResult, Env!CurFuncRetType)
  BY <1>1, AtContinuation
<1>3. \E holder : Env!AddVariable(Current.param.name, holder)
  BY DEF BindParameter, Env!BindParam, Env!DeclareHolder, Env!DeclareVariable
<1>4. UNCHANGED functions /\ UNCHANGED tmpResult /\ Return
  BY DEF BindParameter, Env!BindParam, Env!DeclareHolder, Env!DeclareVariable
<1>5. stack' = Below
  BY <1>2, <1>4, Returned DEF IInv, Return, Goto
<1>6. FramesBelowStay
  BY <1>1, <1>2, <1>3, VariableAdded
<1>7. Reaches(tmpResult', callFrames', Len(callFrames'))
  BY <1>2, <1>4, ReturnedIsNoReference
<1> QED
  BY <1>1, <1>2, <1>4, <1>5, <1>6, <1>7, GoneFromTop
LEMMA BlockIsQuiet == ASSUME NEW x, x.do \in {"CodeBlock", "ElseIf"}, Current.do \notin Leaving PROVE Quiet(x.do)
BY DEF Quiet, FrameOwers, Remembering, Gathering

LEMMA VisitExpressionStatementKept == ASSUME IInv, Kept, VisitExpressionStatement PROVE Kept'
<1> DEFINE y == [do |-> "Discard"]
<1>1. At("ExpressionStatement") /\ "ExpressionStatement" \in StatementKinds
      /\ "ExpressionStatement" \notin Registering \cup FrameOwers \cup {"Parameter"} \cup Leaving
  BY DEF VisitExpressionStatement, StatementKinds, Registering, FrameOwers, Leaving, ExpressionKinds
<1>2. Current.expr \in Expressions
  BY <1>1, AtStatement DEF IsStatement
<1>3. stack # <<>> /\ Current.do = "ExpressionStatement"
  BY <1>1, AtPlain
<1>4. Quiet(y.do)
  BY <1>1, <1>3 DEF Quiet, FrameOwers, Remembering, Gathering
<1>5. stack' = <<Current.expr, y>> \o Below /\ UNCHANGED envVars /\ NoNewReference
  BY DEF VisitExpressionStatement, Visit, Goto, Below, NoNewReference
<1> HIDE DEF y
<1> QED
  BY <1>1, <1>2, <1>3, <1>4, <1>5, ExpressionIsQuiet, QuietPair

LEMMA DiscardResultKept == ASSUME IInv, Kept, DiscardResult PROVE Kept'
<1>1. At("Discard") /\ "Discard" \notin Registering \cup FrameOwers \cup {"Parameter"}
  BY DEF DiscardResult, Registering, FrameOwers
<1>2. Return /\ UNCHANGED envVars /\ Reaches(tmpResult', callFrames', Len(callFrames'))
  BY NothingIsNoReference DEF DiscardResult
<1> QED
  BY <1>1, <1>2, AtPlain, Over

LEMMA VisitReturnStatementKept == ASSUME IInv, Kept, VisitReturnStatement PROVE Kept'
<1> DEFINE y == [do |-> "ReturnResult"]
<1>1. At("ReturnStatement") /\ "ReturnStatement" \in StatementKinds
      /\ "ReturnStatement" \notin Registering \cup FrameOwers \cup {"Parameter"} \cup Leaving
  BY DEF VisitReturnStatement, StatementKinds, Registering, FrameOwers, Leaving, ExpressionKinds
<1>2. Current.optExpr \in AtMostOne(Expressions)
  BY <1>1, AtStatement DEF IsStatement
<1>3. stack # <<>> /\ Current.do = "ReturnStatement"
  BY <1>1, AtPlain
<1>4. Quiet(y.do)
  BY <1>1, <1>3 DEF Quiet, FrameOwers, Remembering, Gathering
<1>5. stack' = (Current.optExpr \o <<y>>) \o Below /\ UNCHANGED envVars /\ NoNewReference
  BY DEF VisitReturnStatement, Goto, Below, NoNewReference
<1> HIDE DEF y
<1>6. CASE Current.optExpr = <<>>
  <2>1. stack' = <<y>> \o Below
    BY <1>5, <1>6
  <2> QED
    BY <1>1, <1>3, <1>4, <1>5, <2>1, QuietItem
<1>7. ASSUME NEW x \in Expressions, Current.optExpr = <<x>>
      PROVE  Kept'
  <2>1. stack' = <<x, y>> \o Below
    BY <1>5, <1>7
  <2> QED
    BY <1>1, <1>3, <1>4, <1>5, <2>1, ExpressionIsQuiet, QuietPair
<1> QED
  BY <1>2, <1>6, <1>7 DEF AtMostOne

LEMMA ReturnResultKept == ASSUME IInv, Kept, ReturnResult PROVE Kept'
<1>1. At("ReturnResult") /\ "ReturnResult" \notin Registering \cup FrameOwers \cup {"Parameter"}
  BY DEF ReturnResult, Registering, FrameOwers
<1>2. CASE ~MatchesReturnType(tmpResult, Env!CurFuncRetType, store)
  BY <1>2, ThrownKept DEF ReturnResult
<1>3. CASE MatchesReturnType(tmpResult, Env!CurFuncRetType, store)
  <2>1. Return /\ UNCHANGED envVars /\ tmpResult' \in {Nothing, ValueArg(TmpValue)}
    BY <1>3 DEF ReturnResult
  <2>2. Reaches(tmpResult', callFrames', Len(callFrames'))
    BY <2>1, NothingIsNoReference, ValueIsNoReference
  <2> QED
    BY <1>1, <2>1, <2>2, AtPlain, Over
<1> QED
  BY <1>2, <1>3

LEMMA VisitContinueKept == ASSUME IInv, Kept, VisitContinue PROVE Kept'
<1>1. At("ContinueStatement") /\ "ContinueStatement" \notin Registering \cup FrameOwers \cup {"Parameter"}
  BY DEF VisitContinue, Registering, FrameOwers
<1>2. CASE ~insideLoop
  BY <1>2, ThrownKept DEF VisitContinue
<1>3. CASE insideLoop
  <2>1. Return /\ UNCHANGED envVars /\ NoNewReference
    BY <1>3 DEF VisitContinue, NoNewReference
  <2> QED
    BY <1>1, <2>1, AtPlain, StillReaches, Over
<1> QED
  BY <1>2, <1>3

LEMMA VisitBreakKept == ASSUME IInv, Kept, VisitBreak PROVE Kept'
<1>1. At("BreakStatement") /\ "BreakStatement" \notin Registering \cup FrameOwers \cup {"Parameter"}
  BY DEF VisitBreak, Registering, FrameOwers
<1>2. CASE ~insideLoop
  BY <1>2, ThrownKept DEF VisitBreak
<1>3. CASE insideLoop
  <2>1. Return /\ UNCHANGED envVars /\ NoNewReference
    BY <1>3 DEF VisitBreak, NoNewReference
  <2> QED
    BY <1>1, <2>1, AtPlain, StillReaches, Over
<1> QED
  BY <1>2, <1>3

LEMMA VisitIfStatementKept == ASSUME IInv, Kept, VisitIfStatement PROVE Kept'
<1> DEFINE y == [do |-> "IfTest", if |-> Current]
<1>1. At("IfStatement") /\ "IfStatement" \in StatementKinds
      /\ "IfStatement" \notin Registering \cup FrameOwers \cup {"Parameter"} \cup Leaving
  BY DEF VisitIfStatement, StatementKinds, Registering, FrameOwers, Leaving, ExpressionKinds
<1>2. Current.cond \in Expressions
  BY <1>1, AtStatement DEF IsStatement
<1>3. stack # <<>> /\ Current.do = "IfStatement"
  BY <1>1, AtPlain
<1>4. Quiet(y.do)
  BY <1>1, <1>3 DEF Quiet, FrameOwers, Remembering, Gathering
<1>5. stack' = <<Current.cond, y>> \o Below /\ UNCHANGED envVars /\ NoNewReference
  BY DEF VisitIfStatement, Visit, Goto, Below, NoNewReference
<1> HIDE DEF y
<1> QED
  BY <1>1, <1>2, <1>3, <1>4, <1>5, ExpressionIsQuiet, QuietPair

LEMMA TestIfKept == ASSUME IInv, Kept, TestIf PROVE Kept'
<1> DEFINE end == [do |-> "IfEnd"]
           others == [do |-> "ElseIfs", rest |-> Current.if.elseIfs, optElse |-> Current.if.optElse]
           body == Current.if.body
<1>1. At("IfTest") /\ "IfTest" \notin Registering \cup FrameOwers \cup {"Parameter"} \cup Leaving
  BY DEF TestIf, Registering, FrameOwers, Leaving, ExpressionKinds
<1>2. stack # <<>> /\ Current.do = "IfTest"
  BY <1>1, AtPlain
<1>3. Quiet(end.do) /\ Quiet(others.do)
  BY <1>1, <1>2 DEF Quiet, FrameOwers, Remembering, Gathering
<1>4. CASE ~IsCondition
  BY <1>4, ThrownKept DEF TestIf
<1>5. CASE IsCondition
  <2>1. Quiet(body.do)
    <3>1. Current.if \in Statements /\ Current.if.do = "IfStatement"
      BY <1>1, AtContinuation DEF IsItem
    <3>2. body \in Blocks
      BY <3>1, StatementComes DEF IsStatement
    <3> QED
      BY <1>1, <1>2, <3>2, BlockComes, BlockIsQuiet
  <2>2. stack' = <<body, end>> \o Below \/ stack' = <<others>> \o Below
    BY <1>5 DEF TestIf, SetCondition, Goto, Below
  <2>3. UNCHANGED envVars /\ tmpResult' = Nothing
    BY <1>5 DEF TestIf, SetCondition
  <2> HIDE DEF end, others, body
  <2> QED
    BY <1>1, <1>2, <1>3, <2>1, <2>2, <2>3, NothingIsNew, QuietItem, QuietPair
<1> QED
  BY <1>4, <1>5

LEMMA NextElseIfKept == ASSUME IInv, Kept, NextElseIf PROVE Kept'
<1> DEFINE end == [do |-> "IfEnd"]
           next == [Current EXCEPT !.rest = Tail(@)]
<1>1. At("ElseIfs") /\ "ElseIfs" \notin Registering \cup FrameOwers \cup {"Parameter"} \cup Leaving
  BY DEF NextElseIf, Registering, FrameOwers, Leaving, ExpressionKinds
<1>2. stack # <<>> /\ Current.do = "ElseIfs" /\ UNCHANGED envVars /\ NoNewReference
  BY <1>1, AtPlain DEF NextElseIf, NoNewReference
<1>3. /\ Current = [do |-> "ElseIfs", rest |-> Current.rest, optElse |-> Current.optElse]
      /\ Current.rest \in Seq(ElseIfs) /\ Current.optElse \in AtMostOne(Blocks)
  BY <1>1, AtContinuation DEF IsItem
<1>4. Quiet(end.do)
  BY <1>1, <1>2 DEF Quiet, FrameOwers, Remembering, Gathering
<1>5. ASSUME stack' = <<end>> \o Below
      PROVE  Kept'
  <2> HIDE DEF end
  <2> QED
    BY <1>1, <1>2, <1>4, <1>5, QuietItem
<1>6. CASE conditionMet
  BY <1>5, <1>6 DEF NextElseIf, Goto, Below
<1>7. CASE ~conditionMet /\ Current.rest = <<>>
  <2>1. stack' = (Current.optElse \o <<end>>) \o Below
    BY <1>7 DEF NextElseIf, Goto, Below
  <2>2. CASE Current.optElse = <<>>
    BY <1>5, <2>1, <2>2
  <2>3. ASSUME NEW x \in Blocks, Current.optElse = <<x>>
        PROVE  Kept'
    <3> HIDE DEF end
    <3>1. stack' = <<x, end>> \o Below
      BY <2>1, <2>3
    <3>2. Quiet(x.do)
      BY <1>1, <1>2, BlockComes, BlockIsQuiet
    <3> QED
      BY <1>1, <1>2, <1>4, <3>1, <3>2, QuietPair
  <2> QED
    BY <1>3, <2>2, <2>3 DEF AtMostOne
<1>8. CASE ~conditionMet /\ Current.rest # <<>>
  <2> DEFINE x == Head(Current.rest)
  <2>1. stack' = <<x, next>> \o Below
    BY <1>8 DEF NextElseIf, Goto, Below
  <2>2. x \in ElseIfs
    BY <1>3, <1>8
  <2>3. next.do = Current.do
    BY <1>3
  <2>4. Quiet(x.do)
    BY <1>1, <1>2, <2>2, BlockIsQuiet DEF ElseIfs
  <2>5. Quiet(next.do)
    BY <1>2, <2>3 DEF Quiet, FrameOwers, Remembering, Gathering
  <2> HIDE DEF next, x
  <2> QED
    BY <1>1, <1>2, <2>1, <2>4, <2>5, QuietPair
<1> QED
  BY <1>6, <1>7, <1>8

LEMMA VisitElseIfKept == ASSUME IInv, Kept, VisitElseIf PROVE Kept'
<1> DEFINE y == [do |-> "ElseIfTest", body |-> Current.body]
<1>1. At("ElseIf") /\ "ElseIf" \notin Registering \cup FrameOwers \cup {"Parameter"} \cup Leaving
  BY DEF VisitElseIf, Registering, FrameOwers, Leaving, ExpressionKinds
<1>2. Current.cond \in Expressions
  BY <1>1, AtStatement DEF IsStatement
<1>3. stack # <<>> /\ Current.do = "ElseIf"
  BY <1>1, AtPlain
<1>4. Quiet(y.do)
  BY <1>1, <1>3 DEF Quiet, FrameOwers, Remembering, Gathering
<1>5. stack' = <<Current.cond, y>> \o Below /\ UNCHANGED envVars /\ NoNewReference
  BY DEF VisitElseIf, Visit, Goto, Below, NoNewReference
<1> HIDE DEF y
<1> QED
  BY <1>1, <1>2, <1>3, <1>4, <1>5, ExpressionIsQuiet, QuietPair

LEMMA TestElseIfKept == ASSUME IInv, Kept, TestElseIf PROVE Kept'
<1>1. At("ElseIfTest") /\ "ElseIfTest" \notin Registering \cup FrameOwers \cup {"Parameter"} \cup Leaving
  BY DEF TestElseIf, Registering, FrameOwers, Leaving, ExpressionKinds
<1>2. stack # <<>> /\ Current.do = "ElseIfTest"
  BY <1>1, AtPlain
<1>3. CASE ~IsCondition
  BY <1>3, ThrownKept DEF TestElseIf
<1>4. CASE IsCondition
  <2> DEFINE body == Current.body
  <2>1. Quiet(body.do)
    <3>1. body \in Blocks
      BY <1>1, AtContinuation DEF IsItem
    <3> QED
      BY <1>1, <1>2, <3>1, BlockComes, BlockIsQuiet
  <2>2. UNCHANGED envVars /\ tmpResult' = Nothing
    BY <1>4 DEF TestElseIf, SetCondition
  <2>3. CASE TmpValue.val
    <3>1. stack' = <<body>> \o Below
      BY <1>4, <2>3 DEF TestElseIf, SetCondition, Goto, Below
    <3> HIDE DEF body
    <3> QED
      BY <1>1, <1>2, <2>1, <2>2, <3>1, NothingIsNew, QuietItem
  <2>4. CASE ~TmpValue.val
    <3>1. Return
      BY <1>4, <2>4 DEF TestElseIf, SetCondition, Return
    <3> QED
      BY <1>1, <1>2, <2>2, <3>1, NothingIsNew, StillReaches, Over
  <2> QED
    BY <2>3, <2>4
<1> QED
  BY <1>3, <1>4

LEMMA EndIfKept == ASSUME IInv, Kept, EndIf PROVE Kept'
<1>1. At("IfEnd") /\ "IfEnd" \notin Registering \cup FrameOwers \cup {"Parameter"}
  BY DEF EndIf, Registering, FrameOwers
<1>2. Return /\ UNCHANGED envVars /\ NoNewReference
  BY DEF EndIf, NoNewReference
<1> QED
  BY <1>1, <1>2, AtPlain, StillReaches, Over
-----------------------------------------------------------------------------
(* Statements that open, go on in or close a scope.                           *)

LEMMA FrameHasScopes ==
  ASSUME IInv, stack # <<>>, Current.do \notin Registering
  PROVE  /\ Len(callFrames[Len(callFrames)].scopes) \in Nat
         /\ Len(callFrames[Len(callFrames)].scopes) > 0
         /\ Current.do \in ScopeOwers => Len(callFrames[Len(callFrames)].scopes) > 1
<1> DEFINE n == Len(callFrames)
           owing == Owing(stack, n, ScopeOwers)
<1>1. IsSeq(stack) /\ AreFrames(callFrames, store) /\ n \in Nat /\ n > 0 /\ n = CallOf(stack, Len(stack))
  BY InCall DEF IInv, StackOK, AreItems, EnvironmentOK
<1>2. n \in 1..n /\ n \in DOMAIN callFrames /\ DOMAIN Scopes = DOMAIN callFrames
  BY <1>1, SeqParts DEF AreFrames, Scopes
<1>3. Len(callFrames[n].scopes) = 1 + Cardinality(owing)
  BY <1>2 DEF IInv, StackOK, Balanced, Scopes
<1>4. IsFiniteSet(owing) /\ Cardinality(owing) \in Nat
  BY <1>1, OwingIsFinite
<1>5. ASSUME Current.do \in ScopeOwers
      PROVE  Cardinality(owing) > 0
  <2>1. Len(stack) = Len(Below) + 1 /\ Len(Below) \in Nat /\ Waiting(stack, Len(Below) + 1) = Current
    BY StackParts, CallAtTop DEF IInv
  <2>2. Len(stack) \in owing
    <3>1. Len(stack) \in 1..Len(stack) /\ Waiting(stack, Len(stack)) = Current
      BY <2>1
    <3> QED
      BY <1>1, <1>5, <3>1 DEF Owing
  <2>3. Cardinality(owing) # 0
    BY <1>4, <2>2, FS_EmptySet
  <2> QED
    BY <1>4, <2>3
<1> QED
  BY <1>3, <1>4, <1>5

LEMMA DeclarationRecalls ==
  ASSUME NEW x, x.do = "VariableDeclaration", NEW taken, NEW frames, NEW k, Len(frames[k].scopes) > 1
  PROVE  Recalls(x, taken, frames, k)
BY DEF Recalls, Gathering

(* Only the first of the items that come may declare a variable.               *)
Opening(items) ==
  \A i \in 1..Len(items) :
    \/ i = 1 /\ items[i].do = "VariableDeclaration"
    \/ items[i].do \notin FrameOwers \cup Remembering \cup {"Call", "Parameter"}

LEMMA ScopeStepKept ==
  ASSUME IInv, Kept, stack # <<>>, Current.do \notin Registering \cup FrameOwers \cup {"Parameter"} \cup Leaving,
         UNCHANGED functions, FramesBelowStay, NEW items, IsSeq(items), stack' = items \o Below, Opening(items),
         Len(callFrames'[Len(callFrames)].scopes) > 1, Reaches(tmpResult', callFrames', Len(callFrames'))
  PROVE  Kept'
<1>1. ASSUME NEW i \in 1..Len(items)
      PROVE  /\ items[i].do \notin FrameOwers
             /\ \A j \in 1..(i - 1) : MayCover(items[j].do, items[i].do)
             /\ Recalls(items[i], DOMAIN functions, callFrames', Len(callFrames))
  <2>1. CASE i = 1 /\ items[i].do = "VariableDeclaration"
    <3>1. items[i].do \notin FrameOwers /\ \A j \in 1..(i - 1) : FALSE
      BY <2>1 DEF FrameOwers
    <3>2. Recalls(items[i], DOMAIN functions, callFrames', Len(callFrames))
      <4> DEFINE frames2 == callFrames'
                 k == Len(callFrames)
                 x == items[i]
      <4>1. Len(frames2[k].scopes) > 1 /\ x.do = "VariableDeclaration"
        BY <2>1
      <4> HIDE DEF frames2, k, x
      <4>2. Recalls(x, DOMAIN functions, frames2, k)
        BY <4>1, DeclarationRecalls
      <4> QED
        BY <4>2 DEF frames2, k, x
    <3> QED
      BY <3>1, <3>2
  <2>2. CASE items[i].do \notin FrameOwers \cup Remembering \cup {"Call", "Parameter"}
    <3>1. Recalls(items[i], DOMAIN functions, callFrames', Len(callFrames))
      <4> DEFINE frames2 == callFrames'
                 k == Len(callFrames)
                 x == items[i]
      <4>1. x.do \notin Remembering \cup {"Call", "Parameter"}
        BY <2>2
      <4> HIDE DEF frames2, k, x
      <4>2. Recalls(x, DOMAIN functions, frames2, k)
        BY <4>1, OthersRecallNothing
      <4> QED
        BY <4>2 DEF frames2, k, x
    <3>2. \A what : MayCover(what, items[i].do)
      BY <2>2 DEF MayCover
    <3> QED
      BY <2>2, <3>1, <3>2
  <2> QED
    BY <2>1, <2>2 DEF Opening
<1> QED
  BY <1>1, GoesOnInCall

LEMMA TopFrameChanged ==
  ASSUME IInv, stack # <<>>, Current.do \notin Registering \cup Leaving \cup {"Parameter"}, NEW frame,
         callFrames' = [callFrames EXCEPT ![Len(callFrames)] = frame]
  PROVE  FramesBelowStay
<1>1. DOMAIN callFrames = 1..Len(callFrames) /\ Len(callFrames) \in Nat
  BY SeqParts DEF IInv, EnvironmentOK, AreFrames
<1>2. \A i \in DOMAIN callFrames : i # Len(callFrames) => callFrames'[i] = callFrames[i]
  OBVIOUS
<1>3. \A n \in Nat : \A i \in 1..n : i < n => i # n
  OBVIOUS
<1>4. \A i \in 1..Len(callFrames) : i < Len(callFrames) => callFrames'[i] = callFrames[i]
  BY <1>1, <1>2, <1>3
<1> QED
  BY <1>4 DEF FramesBelowStay

LEMMA ScopeOpenedKept ==
  ASSUME IInv, Kept, NEW what \in {"CodeBlock", "ForLoop"}, At(what), Env!AddScope,
         NEW items, IsSeq(items), Opening(items), stack' = items \o Below, UNCHANGED tmpResult
  PROVE  Kept'
<1>1. stack # <<>> /\ Current.do = what /\ Returns(tmpResult, Env!CurFuncRetType)
  BY AtStatement DEF StatementKinds
<1>2. Current.do \notin Registering \cup FrameOwers \cup {"Parameter"} \cup Leaving
  BY <1>1 DEF Registering, FrameOwers, Leaving, ExpressionKinds
<1> DEFINE n == Len(callFrames)
<1>3. n > 0 /\ n \in 1..n /\ AreFrames(callFrames, store)
  BY <1>1, <1>2, InCall DEF IInv, EnvironmentOK
<1>4. UNCHANGED functions /\ Len(callFrames'[n].scopes) = Len(callFrames[n].scopes) + 1
  BY <1>3, ScopeAdded
<1>5. Len(callFrames[n].scopes) \in Nat /\ Len(callFrames[n].scopes) > 0
  BY <1>1, <1>2, FrameHasScopes
<1>6. FramesBelowStay
  <2>1. callFrames' = [callFrames EXCEPT ![n] = [callFrames[n] EXCEPT !.scopes = Append(@, Env!EmptyScope)]]
    BY DEF Env!AddScope
  <2> QED
    BY <1>1, <1>2, <2>1, TopFrameChanged
<1>7. Reaches(tmpResult', callFrames', Len(callFrames'))
  BY <1>1, ReturnedIsNoReference
<1>8. UNCHANGED functions /\ Len(callFrames'[Len(callFrames)].scopes) > 1
  BY <1>4, <1>5
<1> QED
  BY <1>1, <1>2, <1>6, <1>7, <1>8, ScopeStepKept

LEMMA ScopeGoesOnKept ==
  ASSUME IInv, Kept, stack # <<>>, Current.do \in ScopeOwers, UNCHANGED envVars, NoNewReference,
         NEW items, IsSeq(items), Opening(items), stack' = items \o Below
  PROVE  Kept'
<1>1. Current.do \notin Registering \cup FrameOwers \cup {"Parameter"} \cup Leaving
  BY DEF ScopeOwers, Registering, FrameOwers, Leaving, ExpressionKinds
<1>2. Len(callFrames'[Len(callFrames)].scopes) > 1
  BY <1>1, FrameHasScopes DEF envVars
<1> QED
  BY <1>1, <1>2, FramesAlone, StillReaches, ScopeStepKept

LEMMA ScopeClosedKept ==
  ASSUME IInv, Kept, NEW what \in {"PopScope", "LoopEnd"}, At(what), Env!PopScope, Return, UNCHANGED tmpResult
  PROVE  Kept'
<1>1. stack # <<>> /\ Current.do = what /\ Returns(tmpResult, Env!CurFuncRetType)
  BY AtScope DEF ScopeOwers
<1>2. Current.do \notin Registering \cup Leaving \cup {"Parameter"}
  BY <1>1 DEF Registering, Leaving, ExpressionKinds
<1>3. FramesBelowStay
  <2> DEFINE n == Len(callFrames)
  <2>1. callFrames' = [callFrames EXCEPT ![n] = [callFrames[n] EXCEPT !.scopes = SubSeq(@, 1, Len(@) - 1)]]
    BY DEF Env!PopScope
  <2> QED
    BY <1>1, <1>2, <2>1, TopFrameChanged
<1>4. stack' = Below
  BY <1>1, Returned DEF IInv, Return, Goto
<1>5. Reaches(tmpResult', callFrames', Len(callFrames'))
  BY <1>1, ReturnedIsNoReference
<1>6. UNCHANGED functions
  BY DEF Env!PopScope
<1> QED
  BY <1>1, <1>2, <1>3, <1>4, <1>5, <1>6, GoneFromTop

(* The items that come are those of a scope.                                  *)
LEMMA StatementOpens ==
  ASSUME NEW x \in Statements
  PROVE  x.do \notin FrameOwers \cup (Remembering \ {"VariableDeclaration"}) \cup {"Call", "Parameter"}
<1>1. x.do \in StatementKinds \cup {"ElseIf"}
  BY StatementComes
<1> QED
  BY <1>1 DEF StatementKinds, FrameOwers, Remembering, Gathering

LEMMA OpeningOne ==
  ASSUME NEW x, x.do \in {"PopScope", "LoopEnd"}
  PROVE  IsSeq(<<x>>) /\ Opening(<<x>>)
<1> DEFINE items == <<x>>
<1>1. IsSeq(items) /\ \A i \in 1..Len(items) : items[i] = x
  BY SeqSingle
<1>2. x.do \notin FrameOwers \cup Remembering \cup {"Call", "Parameter"}
  BY DEF FrameOwers, Remembering, Gathering
<1> HIDE DEF items
<1>3. IsSeq(items) /\ Opening(items)
  BY <1>1, <1>2 DEF Opening
<1> QED
  BY <1>3 DEF items

LEMMA OpeningTwo ==
  ASSUME NEW x \in Statements, NEW y, y.do \in {"StatementEnd", "LoopNext"}
  PROVE  IsSeq(<<x, y>>) /\ Opening(<<x, y>>)
<1> DEFINE items == <<x, y>>
<1>1. IsSeq(items) /\ Len(items) = 2 /\ items[1] = x /\ items[2] = y
  BY SeqPair
<1>2. \A i \in 1..Len(items) : (i = 1 /\ items[i] = x) \/ items[i] = y
  BY <1>1
<1>3. y.do \notin FrameOwers \cup Remembering \cup {"Call", "Parameter"}
  BY DEF FrameOwers, Remembering, Gathering
<1> HIDE DEF items
<1>4. IsSeq(items) /\ Opening(items)
  BY <1>1, <1>2, <1>3, StatementOpens DEF Opening
<1> QED
  BY <1>4 DEF items

LEMMA OpeningThree ==
  ASSUME NEW loop \in Statements, loop.do = "ForLoop", NEW x \in Statements
  PROVE  IsSeq(<<x>> \o TestLoop(loop)) /\ Opening(<<x>> \o TestLoop(loop))
<1> DEFINE cond == loop.cond
           test == [do |-> "LoopTest", loop |-> loop]
           items == <<x, cond, test>>
<1>1. <<x>> \o TestLoop(loop) = items
  BY SeqTriplet DEF TestLoop
<1>2. cond \in Expressions
  BY StatementComes DEF IsStatement
<1>3. test.do \notin FrameOwers \cup Remembering \cup {"Call", "Parameter"}
  BY DEF FrameOwers, Remembering, Gathering
<1> HIDE DEF test, cond
<1>4. cond.do \notin FrameOwers \cup Remembering \cup {"Call", "Parameter"}
  BY <1>2, ExpressionComes DEF ExpressionKinds, FrameOwers, Remembering, Gathering
<1>5. IsSeq(items) /\ Len(items) = 3 /\ items[1] = x /\ items[2] = cond /\ items[3] = test
  BY SeqTriple
<1>6. \A i \in 1..Len(items) : (i = 1 /\ items[i] = x) \/ items[i] = cond \/ items[i] = test
  BY <1>5
<1> HIDE DEF items
<1>7. Opening(items)
  BY <1>3, <1>4, <1>5, <1>6, StatementOpens DEF Opening
<1> QED
  BY <1>1, <1>5, <1>7

LEMMA NextStatementOpens ==
  ASSUME NEW statements \in Seq(NestedStatements)
  PROVE  IsSeq(NextStatement(statements)) /\ Opening(NextStatement(statements))
<1>1. CASE statements = <<>>
  <2> DEFINE y == [do |-> "PopScope"]
  <2>1. NextStatement(statements) = <<y>> /\ y.do \in {"PopScope", "LoopEnd"}
    BY <1>1 DEF NextStatement
  <2> HIDE DEF y
  <2> QED
    BY <2>1, OpeningOne
<1>2. CASE statements # <<>>
  <2> DEFINE x == Head(statements)
             y == [do |-> "StatementEnd", rest |-> Tail(statements)]
  <2>1. x \in Statements /\ y.do \in {"StatementEnd", "LoopNext"}
    BY <1>2 DEF NestedStatements
  <2>2. NextStatement(statements) = <<x, y>>
    BY <1>2 DEF NextStatement
  <2> HIDE DEF x, y
  <2> QED
    BY <2>1, <2>2, OpeningTwo
<1> QED
  BY <1>1, <1>2

LEMMA VisitCodeBlockKept == ASSUME IInv, Kept, VisitCodeBlock PROVE Kept'
<1> DEFINE items == NextStatement(Current.statements)
<1>1. At("CodeBlock") /\ Env!AddScope /\ UNCHANGED tmpResult /\ stack' = items \o Below
  BY DEF VisitCodeBlock, Goto, Below
<1>2. Current.statements \in Seq(NestedStatements)
  BY <1>1, AtStatement DEF IsStatement, StatementKinds
<1>3. IsSeq(items) /\ Opening(items)
  BY <1>2, NextStatementOpens
<1> HIDE DEF items
<1> QED
  BY <1>1, <1>3, ScopeOpenedKept

LEMMA EndStatementKept == ASSUME IInv, Kept, EndStatement PROVE Kept'
<1> DEFINE rest == IF ShouldExitCodeBlock THEN <<>> ELSE Current.rest
           items == NextStatement(rest)
<1>1. At("StatementEnd") /\ UNCHANGED envVars /\ NoNewReference /\ stack' = items \o Below
  BY DEF EndStatement, Goto, Below, NoNewReference
<1>2. stack # <<>> /\ Current.do \in ScopeOwers /\ Current.do = "StatementEnd" /\ IsItem(Current, store)
  BY <1>1, AtScope DEF ScopeOwers
<1>3. rest \in Seq(NestedStatements)
  BY <1>2 DEF IsItem
<1> HIDE DEF rest
<1>4. IsSeq(items) /\ Opening(items)
  BY <1>3, NextStatementOpens
<1> HIDE DEF items
<1> QED
  BY <1>1, <1>2, <1>4, ScopeGoesOnKept

LEMMA LeaveCodeBlockKept == ASSUME IInv, Kept, LeaveCodeBlock PROVE Kept'
BY ScopeClosedKept DEF LeaveCodeBlock

LEMMA VisitForLoopKept == ASSUME IInv, Kept, VisitForLoop PROVE Kept'
<1> DEFINE items == <<Current.decl>> \o TestLoop(Current)
<1>1. At("ForLoop") /\ Env!AddScope /\ UNCHANGED tmpResult /\ stack' = items \o Below
  BY DEF VisitForLoop, Goto, Below
<1>2. Current.decl \in Statements /\ Current \in Statements /\ Current.do = "ForLoop"
  BY <1>1, AtStatement DEF IsStatement, StatementKinds, Declarations
<1>3. IsSeq(items) /\ Opening(items)
  BY <1>2, OpeningThree
<1> HIDE DEF items
<1> QED
  BY <1>1, <1>3, ScopeOpenedKept

LEMMA StartIterationKept == ASSUME IInv, Kept, StartIteration PROVE Kept'
<1> DEFINE next == [do |-> "LoopNext", loop |-> Current.loop]
           end == [do |-> "LoopEnd"]
           body == Current.loop.body
<1>1. At("LoopTest")
  BY DEF StartIteration
<1>2. stack # <<>> /\ Current.do \in ScopeOwers /\ IsItem(Current, store) /\ Current.do = "LoopTest"
  BY <1>1, AtScope DEF ScopeOwers
<1>3. body \in Statements
  <2>1. Current.loop \in Statements /\ Current.loop.do = "ForLoop"
    BY <1>2 DEF IsItem
  <2> QED
    BY <2>1, StatementComes, BlockComes DEF IsStatement
<1>4. CASE ~IsCondition
  BY <1>4, ThrownKept DEF StartIteration
<1>5. CASE IsCondition
  <2>1. UNCHANGED envVars /\ tmpResult' = Nothing /\ (stack' = <<body, next>> \o Below \/ stack' = <<end>> \o Below)
    BY <1>5 DEF StartIteration, SetCondition, Goto, Below
  <2>2. next.do \in {"StatementEnd", "LoopNext"} /\ end.do \in {"PopScope", "LoopEnd"}
    OBVIOUS
  <2> HIDE DEF next, end, body
  <2>3. IsSeq(<<body, next>>) /\ Opening(<<body, next>>) /\ IsSeq(<<end>>) /\ Opening(<<end>>)
    BY <1>3, <2>2, OpeningOne, OpeningTwo
  <2> DEFINE two == <<body, next>>
             one == <<end>>
  <2>4. IsSeq(two) /\ Opening(two) /\ IsSeq(one) /\ Opening(one) /\ (stack' = two \o Below \/ stack' = one \o Below)
    BY <2>1, <2>3
  <2> HIDE DEF two, one
  <2> QED
    BY <1>2, <2>1, <2>4, NothingIsNew, ScopeGoesOnKept
<1> QED
  BY <1>4, <1>5

LEMMA EndIterationKept == ASSUME IInv, Kept, EndIteration PROVE Kept'
<1> DEFINE end == [do |-> "LoopEnd"]
           none == <<end>>
           again == <<Current.loop.update>> \o TestLoop(Current.loop)
<1>1. At("LoopNext") /\ UNCHANGED envVars /\ NoNewReference
  BY DEF EndIteration, NoNewReference
<1>2. stack # <<>> /\ Current.do \in ScopeOwers /\ IsItem(Current, store) /\ Current.do = "LoopNext"
  BY <1>1, AtScope DEF ScopeOwers
<1>3. Current.loop \in Statements /\ Current.loop.do = "ForLoop" /\ Current.loop.update \in Statements
  <2>1. Current.loop \in Statements /\ Current.loop.do = "ForLoop"
    BY <1>2 DEF IsItem
  <2> QED
    BY <2>1, StatementComes DEF IsStatement, Assignments
<1>4. stack' = none \o Below \/ stack' = again \o Below
  BY DEF EndIteration, Goto, Below
<1>5. IsSeq(none) /\ Opening(none)
  <2>1. end.do \in {"PopScope", "LoopEnd"}
    OBVIOUS
  <2> HIDE DEF end
  <2> QED
    BY <2>1, OpeningOne
<1>6. IsSeq(again) /\ Opening(again)
  BY <1>3, OpeningThree
<1> HIDE DEF none, again
<1> QED
  BY <1>1, <1>2, <1>4, <1>5, <1>6, ScopeGoesOnKept

LEMMA ExitLoopKept == ASSUME IInv, Kept, ExitLoop PROVE Kept'
BY ScopeClosedKept DEF ExitLoop
-----------------------------------------------------------------------------
(* Calls.                                                                    *)

LEMMA ReachesStays ==
  ASSUME NEW arg, NEW frames, NEW frames2, NEW k, Reaches(arg, frames, k), \A i \in 1..k : frames2[i] = frames[i]
  PROVE  Reaches(arg, frames2, k)
BY DEF Reaches

LEMMA FrameAdded ==
  ASSUME IInv, Current.do # "Parameter", NEW ret, Env!CallingFunction(ret)
  PROVE  /\ FramesBelowStay /\ UNCHANGED functions
         /\ \A i \in 1..Len(callFrames) : callFrames'[i] = callFrames[i]
<1> DEFINE frame == [scopes |-> <<Env!EmptyScope>>, ret |-> ret]
<1>1. callFrames' = Append(callFrames, frame) /\ UNCHANGED functions
  BY DEF Env!CallingFunction
<1> HIDE DEF frame
<1>2. IsSeq(callFrames) /\ Len(callFrames) \in Nat
  BY SeqParts DEF IInv, EnvironmentOK, AreFrames
<1>3. /\ Len(Append(callFrames, frame)) = Len(callFrames) + 1
      /\ \A i \in 1..Len(Append(callFrames, frame)) :
           Append(callFrames, frame)[i] = IF i <= Len(callFrames) THEN callFrames[i] ELSE frame
  BY <1>2, SeqAppend
<1>4. \A i \in 1..Len(callFrames) : callFrames'[i] = callFrames[i]
  BY <1>1, <1>2, <1>3
<1> QED
  BY <1>1, <1>4 DEF FramesBelowStay

(* A call takes the place of an item, with arguments that reach the frames     *)
(* that are there now.                                                       *)
LEMMA CallBegun ==
  ASSUME IInv, Kept, stack # <<>>, Current.do \notin Registering \cup FrameOwers \cup {"Parameter"},
         NEW ret, Env!CallingFunction(ret), NEW call, NEW end, call.do = "Call", end.do \in FrameOwers,
         \A arg \in ArgsOf(call) : Reaches(arg, callFrames, Len(callFrames)),
         stack' = <<call, end>> \o Below, tmpResult' = Nothing
  PROVE  Kept'
<1> DEFINE frames2 == callFrames'
           taken == DOMAIN functions
           k == CallOf(Below, Len(Below))
<1>1. IsSeq(Below) /\ k = Len(callFrames)
  BY StackParts, CallAtTop DEF IInv
<1>2. FramesBelowStay /\ UNCHANGED functions /\ \A i \in 1..Len(callFrames) : frames2[i] = callFrames[i]
  BY FrameAdded
<1>3. Undisturbed(Below) /\ Remembered(Below, taken, frames2)
  BY <1>2, BelowRemembers
<1> HIDE DEF frames2, taken
<1>4. \A arg \in ArgsOf(call) : Reaches(arg, frames2, CallOf(Below, Len(Below)))
  <2> SUFFICES ASSUME NEW arg \in ArgsOf(call)
               PROVE  Reaches(arg, frames2, Len(callFrames))
    BY <1>1 DEF k
  <2> QED
    BY <1>2, ReachesStays
<1>5. Undisturbed(<<call, end>> \o Below) /\ Remembered(<<call, end>> \o Below, taken, frames2)
  BY <1>1, <1>3, <1>4, BegunAbove
<1>6. Reaches(tmpResult', callFrames', Len(callFrames'))
  BY NothingIsNoReference
<1> QED
  BY <1>2, <1>5, <1>6 DEF Kept, taken, frames2

LEMMA InvokeKept == ASSUME IInv, Kept, Invoke PROVE Kept'
<1> DEFINE call == [do |-> "Call", func |-> Current.func, args |-> Current.args]
           end == [do |-> "CallEnd"]
           ret == Current.func.type.ret
<1>1. At("Invoke") /\ "Invoke" \notin Registering \cup FrameOwers \cup {"Parameter"}
  BY DEF Invoke, Registering, FrameOwers
<1>2. CASE ~ArgsMatchParams(Current.args, Current.func.type.params, store)
  BY <1>2, ThrownKept DEF Invoke
<1>3. CASE ArgsMatchParams(Current.args, Current.func.type.params, store)
  <2>1. Env!CallingFunction(ret) /\ tmpResult' = Nothing /\ stack' = <<call, end>> \o Below
    BY <1>3 DEF Invoke, Goto, Below
  <2>2. stack # <<>> /\ Current.do = "Invoke"
    BY <1>1, AtPlain
  <2>3. call.do = "Call" /\ call.args = Current.args /\ end.do \in FrameOwers
    BY DEF FrameOwers
  <2> HIDE DEF call, end, ret
  <2>4. ArgsOf(call) = ArgsOf(Current)
    BY <2>2, <2>3 DEF ArgsOf
  <2>5. \A arg \in ArgsOf(call) : Reaches(arg, callFrames, Len(callFrames))
    <3>1. Recalls(Current, DOMAIN functions, callFrames, Len(callFrames))
      BY <1>1, <2>2, Recalled
    <3>2. Current.do \in Gathering
      BY <2>2 DEF Gathering
    <3> QED
      BY <2>4, <3>1, <3>2, GatheringReaches
  <2> QED
    BY <1>1, <2>1, <2>2, <2>3, <2>5, CallBegun
<1> QED
  BY <1>2, <1>3

LEMMA CallSecondHalfKept == ASSUME IInv, Kept, CallSecondHalf PROVE Kept'
<1> DEFINE call == [do |-> "Call", func |-> Current.second, args |-> <<tmpResult>>]
           end == [do |-> "HalfEnd"]
           ret == Current.second.type.ret
<1>1. At("SecondHalf")
  BY DEF CallSecondHalf
<1>2. CASE IsEmpty
  BY <1>2, ThrownKept DEF CallSecondHalf
<1>3. CASE ~IsEmpty
  <2>1. Env!CallingFunction(ret) /\ tmpResult' = Nothing /\ stack' = <<call, end>> \o Below
    BY <1>3 DEF CallSecondHalf, Goto, Below
  <2>2. /\ stack # <<>> /\ Current.do = "SecondHalf" /\ Current.do \notin Registering \cup FrameOwers \cup {"Parameter"}
        /\ Returns(tmpResult, Current.second.type.params[1].type)
    <3>1. stack # <<>> /\ Current.do = "SecondHalf" /\ ResultAt(Current, tmpResult, Env!CurFuncRetType)
      BY <1>1, AtCall
    <3> QED
      BY <3>1 DEF ResultAt, Registering, FrameOwers
  <2>3. call.do = "Call" /\ call.args = <<tmpResult>> /\ end.do \in FrameOwers
    BY DEF FrameOwers
  <2> HIDE DEF call, end, ret
  <2>4. \A arg \in ArgsOf(call) : arg = tmpResult
    BY <2>3 DEF ArgsOf, ToSet
  <2>5. Reaches(tmpResult, callFrames, Len(callFrames))
    BY DEF Kept
  <2> QED
    BY <2>1, <2>2, <2>3, <2>4, <2>5, CallBegun
<1> QED
  BY <1>2, <1>3
(* What a call was given reaches the frames below its own.                     *)
LEMMA CallReaches ==
  ASSUME IInv, Kept, At("Call")
  PROVE  /\ \A arg \in ToSet(Current.args) : Reaches(arg, callFrames, Len(callFrames) - 1)
         /\ \A arg \in ToSet(Current.args) : Reaches(arg, callFrames, Len(callFrames))
<1>1. stack # <<>> /\ Current.do = "Call" /\ Current.do \notin Registering
  BY AtCall
<1>2. Recalls(Current, DOMAIN functions, callFrames, Len(callFrames))
  BY <1>1, Recalled
<1>3. ArgsOf(Current) = ToSet(Current.args)
  BY <1>1 DEF ArgsOf
<1>4. \A arg \in ToSet(Current.args) : Reaches(arg, callFrames, Len(callFrames) - 1)
  BY <1>1, <1>2, <1>3 DEF Recalls
<1>5. \A i \in 1..(Len(callFrames) - 1) : i \in 1..Len(callFrames)
  BY <1>1, InCall DEF IInv
<1> QED
  BY <1>4, <1>5 DEF Reaches

LEMMA CallComposedKept == ASSUME IInv, Kept, CallComposed PROVE Kept'
<1> DEFINE first == Current.func.val.first
           ret == first.type.ret
           call == [do |-> "Call", func |-> first, args |-> Current.args]
           end == [do |-> "HalfEnd"]
           other == [do |-> "SecondHalf", second |-> Current.func.val.second]
           items == <<call, end, other>>
           base == <<other>> \o Below
           frames2 == callFrames'
           taken == DOMAIN functions
<1>1. At("Call") /\ Env!CallingFunction(ret) /\ UNCHANGED tmpResult /\ stack' = items \o Below
  BY DEF CallComposed, Calling, Goto, Below
<1>2. /\ stack # <<>> /\ Current.do = "Call" /\ Current.do \notin Registering \cup FrameOwers \cup {"Parameter"} \cup Leaving
      /\ tmpResult = Nothing /\ IsSeq(Below)
  <2>1. stack # <<>> /\ Current.do = "Call" /\ IsSeq(Below) /\ ResultAt(Current, tmpResult, Env!CurFuncRetType)
    BY <1>1, AtCall
  <2> QED
    BY <2>1 DEF ResultAt, Registering, FrameOwers, Leaving, ExpressionKinds
<1>3. call.do = "Call" /\ call.args = Current.args /\ end.do \in FrameOwers /\ other.do = "SecondHalf"
  BY DEF FrameOwers
<1> HIDE DEF call, end, other, ret
<1>4. items \o Below = <<call, end>> \o base
  <2> DEFINE one == <<other>>
             two == <<end>>
             three == <<call>>
             pair == <<call, end>>
             all == items
  <2>1. all = <<call, end, other>> /\ one = <<other>> /\ two = <<end>> /\ three = <<call>> /\ pair = <<call, end>>
    OBVIOUS
  <2>2. IsSeq(one \o Below)
    BY <1>2, SeqSingle, SeqConcat
  <2> HIDE DEF one, two, three, pair, all
  <2>3. Above(all, Below) = Above(three, Above(two, Above(one, Below)))
    BY <1>2, <2>1, ThreeAbove
  <2> DEFINE top == one \o Below
  <2>4. IsSeq(top) /\ top = Above(one, Below)
    BY <2>2 DEF Above
  <2> HIDE DEF top
  <2>5. Above(pair, top) = Above(three, Above(two, top))
    BY <2>1, <2>4, TwoAbove
  <2>6. Above(all, Below) = Above(pair, Above(one, Below))
    BY <2>3, <2>4, <2>5
  <2> QED
    BY <2>6, Zenon DEF Above, one, pair, all
<1>5. IsSeq(<<other>>) /\ Len(<<other>>) = 1 /\ <<other>>[1] = other /\ Len(Below) \in Nat
  BY <1>2, SeqSingle, SeqParts
<1>6. other.do \notin FrameOwers \cup Remembering \cup {"Call", "Parameter"}
  BY <1>3 DEF FrameOwers, Remembering, Gathering
<1>7. IsSeq(base) /\ Len(base) = Len(Below) + 1
  BY <1>2, <1>5, SeqConcat
<1>8. /\ FramesBelowStay /\ UNCHANGED functions
      /\ \A i \in 1..Len(callFrames) : frames2[i] = callFrames[i]
  BY <1>1, <1>2, FrameAdded
<1>9. CallOf(base, Len(base)) = Len(callFrames)
  <2>1. CallOf(Below, Len(Below)) = Len(callFrames)
    BY <1>2, CallAtTop
  <2>2. \A i \in 1..Len(<<other>>) : <<other>>[i].do \notin FrameOwers
    BY <1>5, <1>6
  <2>3. Len(base) \in Len(Below)..Len(Below) + Len(<<other>>)
    BY <1>5, <1>7
  <2> QED
    BY <1>2, <1>5, <2>1, <2>2, <2>3, CallOfAbove
<1>10. Undisturbed(base)
  <2> DEFINE new == <<other>>
  <2>1. stack = <<Current>> \o Below
    BY <1>2, StackParts DEF IInv
  <2>2. Undisturbed(<<Current>> \o Below)
    BY <2>1 DEF Kept
  <2>3. \A i \in 1..Len(new) : i = 1 /\ new[i] = other /\ \A j \in 1..(i - 1) : FALSE
    BY <1>5
  <2>4. IsSeq(new)
    BY <1>5
  <2>5. Undisturbed(new \o Below)
    <3> HIDE DEF new
    <3> QED
      BY <1>2, <1>6, <2>2, <2>3, <2>4, UndisturbedOnTop
  <2> QED
    BY <2>5
<1>11. Remembered(base, taken, frames2)
  <2>1. Remembered(Below, taken, frames2)
    BY <1>2, <1>8, BelowRemembers
  <2> HIDE DEF taken, frames2
  <2>2. \A i \in 1..Len(<<other>>) :
          <<other>>[i].do \notin FrameOwers /\ Recalls(<<other>>[i], taken, frames2, CallOf(Below, Len(Below)))
    BY <1>5, <1>6, OthersRecallNothing
  <2> QED
    BY <1>2, <1>5, <2>1, <2>2, RememberedOnTop
<1> HIDE DEF base, frames2, taken
<1>12. \A arg \in ArgsOf(call) : Reaches(arg, frames2, CallOf(base, Len(base)))
  <2>1. ArgsOf(call) = ToSet(Current.args)
    BY <1>3 DEF ArgsOf
  <2> SUFFICES ASSUME NEW arg \in ToSet(Current.args)
               PROVE  Reaches(arg, frames2, Len(callFrames))
    BY <1>9, <2>1
  <2>2. Reaches(arg, callFrames, Len(callFrames))
    BY <1>1, CallReaches
  <2> QED
    BY <1>8, <2>2, ReachesStays
<1>13. Undisturbed(<<call, end>> \o base) /\ Remembered(<<call, end>> \o base, taken, frames2)
  BY <1>3, <1>7, <1>10, <1>11, <1>12, BegunAbove
<1>14. Reaches(tmpResult', callFrames', Len(callFrames'))
  BY <1>1, <1>2, NothingIsNoReference
<1>15. Undisturbed(stack') /\ Remembered(stack', taken, frames2)
  BY <1>1, <1>4, <1>13
<1> QED
  BY <1>8, <1>14, <1>15 DEF Kept, taken, frames2

LEMMA CallBindFrontKept == ASSUME IInv, Kept, CallBindFront PROVE Kept'
<1> DEFINE target == Current.func.val.target
           bound == Current.func.val.bound
           all == bound \o Current.args
           call == [do |-> "Call", func |-> target, args |-> all]
<1>1. At("Call") /\ Current.func.val.impl = "bindFront" /\ stack' = <<call>> \o Below /\ UNCHANGED envVars /\ NoNewReference
  BY DEF CallBindFront, Calling, Goto, Below, NoNewReference
<1>2. /\ stack # <<>> /\ Current.do = "Call" /\ Current.do \notin Registering \cup FrameOwers \cup {"Parameter"} \cup Leaving
      /\ IsItem(Current, store)
  <2>1. stack # <<>> /\ Current.do = "Call" /\ IsItem(Current, store)
    BY <1>1, AtCall
  <2> QED
    BY <2>1 DEF Registering, FrameOwers, Leaving, ExpressionKinds
<1>3. BindsTo(bound, target.type.params) /\ IsSeq(Current.args)
  BY <1>1, <1>2, FunctionParts DEF IsItem, AreArgs
<1>4. call.do = "Call" /\ call.args = all
  OBVIOUS
<1> HIDE DEF call
<1>5. \A arg \in ToSet(all) : (\E v : arg = ValueArg(v)) \/ arg \in ToSet(Current.args)
  <2> HIDE DEF bound, target
  <2>1. IsSeq(bound) /\ \A i \in 1..Len(bound) : bound[i] = ValueArg(bound[i].value)
    BY <1>3 DEF BindsTo
  <2>2. /\ Len(bound) \in Nat /\ Len(Current.args) \in Nat /\ DOMAIN Current.args = 1..Len(Current.args)
        /\ IsSeq(all) /\ Len(all) = Len(bound) + Len(Current.args)
        /\ \A i \in 1..Len(all) : all[i] = IF i <= Len(bound) THEN bound[i] ELSE Current.args[i - Len(bound)]
    BY <1>3, <2>1, SeqConcat, SeqParts
  <2> HIDE DEF all
  <2>3. DOMAIN all = 1..Len(all)
    BY <2>2, SeqParts
  <2>4. ASSUME NEW i \in 1..Len(all)
        PROVE  (\E v : all[i] = ValueArg(v)) \/ all[i] \in ToSet(Current.args)
    <3>1. CASE i <= Len(bound)
      <4>1. i \in 1..Len(bound)
        BY <2>2, <3>1
      <4> QED
        BY <2>1, <2>2, <3>1, <4>1
    <3>2. CASE ~(i <= Len(bound))
      <4>1. i - Len(bound) \in 1..Len(Current.args)
        BY <2>2, <3>2
      <4> QED
        BY <2>2, <3>2, <4>1 DEF ToSet
    <3> QED
      BY <3>1, <3>2
  <2> QED
    BY <2>3, <2>4 DEF ToSet
<1> HIDE DEF all
<1>6. \A arg \in ArgsOf(call) : Reaches(arg, callFrames, Len(callFrames) - 1)
  <2>1. ArgsOf(call) = ToSet(all)
    BY <1>4 DEF ArgsOf
  <2> QED
    BY <1>1, <1>5, <2>1, CallReaches, ValueIsNoReference
<1>7. Recalls(call, DOMAIN functions, callFrames, Len(callFrames))
  BY <1>4, <1>6, CallRecalls
<1>8. call.do \notin FrameOwers
  BY <1>4 DEF FrameOwers
<1> QED
  BY <1>1, <1>2, <1>7, <1>8, GoesOnAs
(* A call that has just begun has one scope, that of its parameters.           *)
LEMMA CallHasOneScope ==
  ASSUME IInv, At("Call")
  PROVE  Len(callFrames[Len(callFrames)].scopes) = 1
<1> DEFINE n == Len(callFrames)
           end == Below[1]
           rest == Tail(Below)
<1>1. stack # <<>> /\ Current.do = "Call" /\ Current.do \notin Registering \cup FrameOwers \cup ScopeOwers
      /\ IsSeq(Below) /\ Below # <<>> /\ end.do \in FrameOwers
  <2>1. stack # <<>> /\ Current.do = "Call" /\ IsSeq(Below) /\ Below # <<>> /\ end.do \in FrameOwers
    BY AtCall
  <2> QED
    BY <2>1 DEF Registering, FrameOwers, ScopeOwers
<1>2. stack = <<Current>> \o Below
  BY <1>1, StackParts DEF IInv
<1>3. IsSeq(rest) /\ Below = <<end>> \o rest
  BY <1>1, SeqTail DEF IsSeq
<1>4. n \in Nat /\ n > 0 /\ CallOf(Below, Len(Below)) = n
  BY <1>1, CallAtTop
<1>5. /\ IsSeq(<<Current>>) /\ \A i \in 1..Len(<<Current>>) : <<Current>>[i] = Current
      /\ IsSeq(<<end>>) /\ Len(<<end>>) = 1 /\ <<end>>[1] = end
  BY SeqSingle
<1> HIDE DEF end, rest
<1>6. CallOf(Below, Len(Below)) = CallOf(rest, Len(rest)) + 1
  <2>1. Sole(<<end>>, 1) /\ 1 \in 1..Len(<<end>>) /\ <<end>>[1].do \in FrameOwers
    BY <1>1, <1>5 DEF Sole
  <2> QED
    BY <1>3, <1>5, <2>1, CallOfNext
<1>7. CallOf(rest, Len(rest)) \in Nat
  <2>1. Len(rest) \in Nat
    BY <1>3, SeqParts
  <2> QED
    BY <1>3, <2>1, CallsAreCounted
<1> HIDE DEF n
<1>8. Owing(rest, n, ScopeOwers) = {}
  <2>1. n > CallOf(rest, Len(rest))
    BY <1>4, <1>6, <1>7
  <2> QED
    BY <1>3, <1>4, <2>1, NothingOwedAbove
<1>9. Owing(Below, n, ScopeOwers) = Owing(rest, n, ScopeOwers)
  <2>1. end.do \notin ScopeOwers
    BY <1>1 DEF FrameOwers, ScopeOwers
  <2>2. \A i \in 1..Len(<<end>>) : <<end>>[i].do \notin ScopeOwers
    BY <1>5, <2>1
  <2> QED
    BY <1>3, <1>5, <2>2, OwingPlain
<1>10. Owing(stack, n, ScopeOwers) = Owing(Below, n, ScopeOwers)
  BY <1>1, <1>2, <1>5, OwingPlain
<1>11. n \in DOMAIN callFrames /\ DOMAIN Scopes = DOMAIN callFrames
  BY <1>4, SeqParts DEF IInv, EnvironmentOK, AreFrames, Scopes, n
<1>12. Len(callFrames[n].scopes) = 1 + Cardinality(Owing(stack, n, ScopeOwers))
  BY <1>11 DEF IInv, StackOK, Balanced, Scopes
<1>13. Len(callFrames[n].scopes) = 1
  BY <1>8, <1>9, <1>10, <1>12, FS_EmptySet
<1> QED
  BY <1>13 DEF n

(* The parameters come first, then the body.                                  *)
BodyAfter(args, params, body) ==
  [i \in DOMAIN args |-> [do |-> "Parameter", param |-> params[i], arg |-> args[i]]] \o <<body>>

LEMMA ParametersFirst ==
  ASSUME NEW args, IsSeq(args), NEW params, NEW body
  PROVE  /\ IsSeq(BodyAfter(args, params, body)) /\ Len(BodyAfter(args, params, body)) = Len(args) + 1
         /\ \A i \in 1..Len(args) :
              BodyAfter(args, params, body)[i].do = "Parameter" /\ BodyAfter(args, params, body)[i].arg = args[i]
         /\ BodyAfter(args, params, body)[Len(args) + 1] = body
<1> DEFINE first == [i \in DOMAIN args |-> [do |-> "Parameter", param |-> params[i], arg |-> args[i]]]
           all == first \o <<body>>
<1>1. Len(args) \in Nat /\ DOMAIN args = 1..Len(args)
  BY SeqParts
<1>2. IsSeq(first) /\ Len(first) = Len(args)
  BY <1>1, SeqMade
<1>3. \A i \in 1..Len(args) : first[i].do = "Parameter" /\ first[i].arg = args[i]
  BY <1>1
<1>4. IsSeq(<<body>>) /\ Len(<<body>>) = 1 /\ <<body>>[1] = body
  BY SeqSingle
<1> HIDE DEF first
<1>5. /\ IsSeq(all) /\ Len(all) = Len(args) + 1
      /\ \A i \in 1..Len(all) : all[i] = IF i <= Len(args) THEN first[i] ELSE <<body>>[i - Len(args)]
  BY <1>2, <1>4, SeqConcat
<1> HIDE DEF all
<1>6. /\ \A i \in 1..Len(args) : all[i].do = "Parameter" /\ all[i].arg = args[i]
      /\ all[Len(args) + 1] = body
  <2>1. \A i \in 1..Len(args) : i \in 1..Len(all) /\ i <= Len(args)
    BY <1>1, <1>5
  <2>2. Len(args) + 1 \in 1..Len(all) /\ ~(Len(args) + 1 <= Len(args)) /\ Len(args) + 1 - Len(args) = 1
    BY <1>1, <1>5
  <2> QED
    BY <1>3, <1>4, <1>5, <2>1, <2>2
<1>7. all = BodyAfter(args, params, body)
  BY DEF all, first, BodyAfter
<1> QED
  BY <1>5, <1>6, <1>7

LEMMA ParameterRecalls ==
  ASSUME NEW x, x.do = "Parameter", NEW taken, NEW frames, NEW k, Reaches(x.arg, frames, k - 1),
         Len(frames[k].scopes) = 1
  PROVE  Recalls(x, taken, frames, k)
<1>1. ArgsOf(x) = {x.arg}
  BY DEF ArgsOf
<1> QED
  BY <1>1 DEF Recalls, Gathering

LEMMA CallGlobalKept == ASSUME IInv, Kept, CallGlobal PROVE Kept'
<1> DEFINE def == Current.func.val.def
           args == Current.args
           items == BodyAfter(args, def.params, def.body)
           n == Len(callFrames)
<1>1. At("Call") /\ Current.func.val.impl = "global" /\ stack' = items \o Below
      /\ UNCHANGED envVars /\ UNCHANGED tmpResult
  BY DEF CallGlobal, Calling, Goto, Below, BodyAfter
<1>2. /\ stack # <<>> /\ Current.do = "Call" /\ IsItem(Current, store)
      /\ Current.do \notin Registering \cup FrameOwers \cup {"Parameter"} \cup Leaving
      /\ tmpResult = Nothing
  <2>1. stack # <<>> /\ Current.do = "Call" /\ IsItem(Current, store) /\ ResultAt(Current, tmpResult, Env!CurFuncRetType)
    BY <1>1, AtCall
  <2> QED
    BY <2>1 DEF ResultAt, Registering, FrameOwers, Leaving, ExpressionKinds
<1>3. IsSeq(args) /\ def.body.do = "CodeBlock"
  BY <1>1, <1>2, FunctionParts, BlockComes DEF IsItem, AreArgs, IsDefinition
<1> HIDE DEF args, def
<1>4. /\ IsSeq(items) /\ Len(items) = Len(args) + 1
      /\ \A i \in 1..Len(args) : items[i].do = "Parameter" /\ items[i].arg = args[i]
      /\ items[Len(args) + 1] = def.body
  BY <1>3, ParametersFirst
<1>5. Len(args) \in Nat /\ DOMAIN args = 1..Len(args)
  BY <1>3, SeqParts
<1> HIDE DEF items
<1>6. \A i \in 1..Len(items) : i \in 1..Len(args) \/ i = Len(args) + 1
  BY <1>4, <1>5
<1>7. \A i \in 1..Len(items) : items[i].do \in {"Parameter", "CodeBlock"}
  BY <1>3, <1>4, <1>6
<1>8. ASSUME NEW i \in 1..Len(items)
      PROVE  Recalls(items[i], DOMAIN functions, callFrames, n)
  <2>1. CASE i \in 1..Len(args)
    <3>1. items[i].do = "Parameter" /\ items[i].arg \in ToSet(args)
      BY <1>4, <1>5, <2>1 DEF ToSet
    <3>2. Reaches(items[i].arg, callFrames, n - 1) /\ Len(callFrames[n].scopes) = 1
      BY <1>1, <3>1, CallReaches, CallHasOneScope DEF args
    <3> HIDE DEF n
    <3> QED
      BY <3>1, <3>2, ParameterRecalls
  <2>2. CASE i = Len(args) + 1
    <3>1. items[i].do \notin Remembering \cup {"Call", "Parameter"}
      BY <1>3, <1>4, <2>2 DEF Remembering, Gathering
    <3> QED
      BY <3>1, OthersRecallNothing
  <2> QED
    BY <1>6, <2>1, <2>2
<1>9. \A i \in 1..Len(items) :
        /\ items[i].do \notin FrameOwers
        /\ \A j \in 1..(i - 1) : MayCover(items[j].do, items[i].do)
        /\ Recalls(items[i], DOMAIN functions, callFrames', n)
  <2> SUFFICES ASSUME NEW i \in 1..Len(items)
               PROVE  /\ items[i].do \notin FrameOwers
                      /\ \A j \in 1..(i - 1) : MayCover(items[j].do, items[i].do)
                      /\ Recalls(items[i], DOMAIN functions, callFrames', n)
    OBVIOUS
  <2>1. \A j \in 1..(i - 1) : j \in 1..Len(args)
    BY <1>4, <1>5
  <2>2. \A j \in 1..(i - 1) : MayCover(items[j].do, items[i].do)
    BY <1>4, <1>7, <2>1 DEF MayCover, Remembering, Gathering
  <2>3. callFrames' = callFrames
    BY <1>1 DEF envVars
  <2> QED
    BY <1>7, <1>8, <2>2, <2>3 DEF FrameOwers
<1>10. Reaches(tmpResult', callFrames', Len(callFrames'))
  BY <1>1, <1>2, NothingIsNoReference
<1> QED
  BY <1>1, <1>2, <1>4, <1>9, <1>10, FramesAlone, GoesOnInCall DEF n

LEMMA CallBuiltinKept == ASSUME IInv, Kept, CallBuiltin PROVE Kept'
<1>1. At("Call") /\ stack' = Below /\ UNCHANGED envVars
  BY DEF CallBuiltin, Calling, Below
<1>2. stack # <<>> /\ Current.do = "Call" /\ Current.do \notin Registering
  BY <1>1, AtCall
<1>3. Reaches(tmpResult', callFrames', Len(callFrames'))
  BY BuiltinReturns, ReturnedIsNoReference
<1> QED
  BY <1>1, <1>2, <1>3, FramesAlone, GoneFromTop
LEMMA FrameEnded ==
  ASSUME IInv, Kept, stack # <<>>, Current.do \in FrameOwers, Env!ExitingFunction, Return, UNCHANGED tmpResult
  PROVE  Kept'
<1> DEFINE n == Len(callFrames)
<1>1. Current.do \notin Registering /\ Current.do # "Parameter"
  BY DEF FrameOwers, Registering
<1>2. n \in Nat /\ n > 0 /\ CallOf(Below, Len(Below)) = n - 1
  BY <1>1, CallAtTop
<1>3. IsSeq(callFrames)
  BY DEF IInv, EnvironmentOK, AreFrames
<1>4. callFrames' = SubSeq(callFrames, 1, n - 1) /\ UNCHANGED functions
  BY DEF Env!ExitingFunction
<1>5. \A i \in 1..(n - 1) : callFrames'[i] = callFrames[i]
  <2> DEFINE m == n - 1
             s == SubSeq(callFrames, 1, m)
  <2>1. m \in Nat /\ m <= Len(callFrames) /\ 1 \in Nat /\ 1 > 0
    BY <1>2
  <2> HIDE DEF m
  <2>2. Len(s) = (IF 1 <= m THEN m - 1 + 1 ELSE 0) /\ \A i \in 1..Len(s) : s[i] = callFrames[1 + i - 1]
    BY <1>3, <2>1, SeqSub
  <2> HIDE DEF s
  <2>3. \A i \in 1..m : i \in 1..Len(s) /\ 1 + i - 1 = i
    BY <2>1, <2>2
  <2>4. \A i \in 1..m : s[i] = callFrames[i]
    BY <2>2, <2>3
  <2> QED
    BY <1>4, <2>4 DEF s, m
<1>6. FramesBelowStay
  <2>1. \A i \in 1..n : i <= n - 1 => i \in 1..(n - 1)
    BY <1>2
  <2> QED
    BY <1>1, <1>2, <1>5, <2>1 DEF FramesBelowStay
<1>7. stack' = Below
  BY Returned DEF IInv, Return, Goto
<1>8. Reaches(tmpResult', callFrames', Len(callFrames'))
  <2>1. Returns(tmpResult, Env!CurFuncRetType)
    BY DEF IInv, ResultFits, ResultAt, Between, FrameOwers
  <2> QED
    BY <2>1, ReturnedIsNoReference
<1> QED
  BY <1>1, <1>4, <1>6, <1>7, <1>8, GoneFromTop

LEMMA EndCallKept == ASSUME IInv, Kept, EndCall PROVE Kept'
<1>1. At("CallEnd") /\ Env!ExitingFunction /\ Return /\ UNCHANGED tmpResult
  BY DEF EndCall
<1> QED
  BY <1>1, Running, FrameEnded DEF FrameOwers

LEMMA EndHalfKept == ASSUME IInv, Kept, EndHalf PROVE Kept'
<1>1. At("HalfEnd") /\ Env!ExitingFunction /\ Return /\ UNCHANGED tmpResult
  BY DEF EndHalf
<1> QED
  BY <1>1, Running, FrameEnded DEF FrameOwers
-----------------------------------------------------------------------------
(* The start of a program.                                                    *)

LEMMA StartRecallsNothing ==
  ASSUME NEW items, IsSeq(items), \A i \in 1..Len(items) : items[i].do \in Registering, NEW taken, NEW frames
  PROVE  Undisturbed(items) /\ Remembered(items, taken, frames)
<1>1. \A p \in 1..Len(items) : Waiting(items, p).do \in Registering
  <2>1. \A p \in 1..Len(items) : Len(items) + 1 - p \in 1..Len(items)
    BY SeqParts
  <2> QED
    BY <2>1 DEF Waiting
<1>2. \A p \in 1..Len(items) : Waiting(items, p).do \notin Remembering \cup {"Call", "Parameter"}
  BY <1>1 DEF Registering, Remembering, Gathering
<1>3. \A p \in 1..Len(items) : Recalls(Waiting(items, p), taken, frames, CallOf(items, p))
  BY <1>2, OthersRecallNothing
<1>4. \A p \in 1..Len(items) : \A what : MayCover(what, Waiting(items, p).do)
  BY <1>2 DEF MayCover
<1> QED
  BY <1>3, <1>4 DEF Undisturbed, Remembered

LEMMA AtStart ==
  ASSUME IInv, NEW what \in Registering, At(what)
  PROVE  /\ stack # <<>> /\ Current.do = what /\ tmpResult = Nothing
         /\ IsSeq(Below) /\ \A i \in 1..Len(Below) : Below[i].do \in Registering
         /\ callFrames = <<>>
<1>1. stack # <<>> /\ Current.do = what /\ StackOK
  BY Running
<1>2. /\ IsSeq(Below) /\ Len(stack) = Len(Below) + 1 /\ Len(Below) \in Nat /\ Current = stack[1]
      /\ \A i \in 1..Len(Below) : Below[i] = stack[i + 1]
      /\ IsSeq(stack)
  BY <1>1, StackParts DEF StackOK, AreItems
<1>3. Starting(stack)
  <2>1. 1 \in 1..Len(stack)
    BY <1>2
  <2> QED
    BY <1>1, <1>2, <2>1 DEF StackOK, Underway, Registering
<1>4. \A i \in 1..Len(stack) : stack[i].do \in Registering
  <2>1. \A i \in 1..Len(stack) : i \in 1..(Len(stack) - 1) \/ i = Len(stack)
    BY <1>2
  <2> QED
    BY <1>3, <2>1 DEF Starting, Registering
<1>5. \A i \in 1..Len(Below) : Below[i].do \in Registering
  <2>1. \A i \in 1..Len(Below) : i + 1 \in 1..Len(stack)
    BY <1>2
  <2> QED
    BY <1>2, <1>4, <2>1
<1>6. callFrames = <<>>
  <2> DEFINE none == <<>>
  <2>1. \A i \in 1..Len(stack) : stack[i].do \notin FrameOwers
    BY <1>4 DEF Registering, FrameOwers
  <2>2. IsSeq(none) /\ stack = stack \o none /\ Len(none) = 0
    BY <1>2 DEF IsSeq
  <2>3. CallOf(none, 0) = 0
    <3>1. {q \in 1..0 : Waiting(none, q).do \in FrameOwers} = {}
      OBVIOUS
    <3> QED
      BY <3>1, FS_EmptySet DEF CallOf
  <2> HIDE DEF none
  <2>4. CallOf(stack \o none, Len(stack)) = CallOf(none, Len(none))
    <3>1. Len(stack) \in Len(none)..Len(none) + Len(stack)
      BY <1>2, <2>2
    <3> QED
      BY <1>2, <2>1, <2>2, <3>1, CallOfAbove
  <2>5. Len(Scopes) = 0
    BY <2>2, <2>3, <2>4 DEF IInv, StackOK, Balanced
  <2>6. IsSeq(callFrames) /\ Len(callFrames) \in Nat
    BY SeqParts DEF IInv, EnvironmentOK, AreFrames
  <2>7. Len(Scopes) = Len(callFrames)
    <3>1. DOMAIN callFrames = 1..Len(callFrames)
      BY <2>6, SeqParts
    <3> QED
      BY <2>6, <3>1, SeqMade DEF Scopes
  <2> QED
    BY <2>5, <2>6, <2>7, SeqParts
<1>7. tmpResult = Nothing
  BY <1>3 DEF IInv, ResultFits
<1> QED
  BY <1>1, <1>2, <1>5, <1>6, <1>7

LEMMA VisitFunctionDefinitionKept == ASSUME IInv, Kept, VisitFunctionDefinition PROVE Kept'
<1>1. At("FunctionDefinition") /\ "FunctionDefinition" \in Registering
  BY DEF VisitFunctionDefinition, Registering
<1>2. CASE Current.name \in DOMAIN functions
  BY <1>2, ThrownKept DEF VisitFunctionDefinition
<1>3. CASE Current.name \notin DOMAIN functions
  <2>1. Return /\ UNCHANGED tmpResult
    BY <1>3 DEF VisitFunctionDefinition
  <2>2. /\ stack # <<>> /\ tmpResult = Nothing
        /\ IsSeq(Below) /\ \A i \in 1..Len(Below) : Below[i].do \in Registering
    BY <1>1, AtStart
  <2>3. stack' = Below
    BY <2>1, <2>2, Returned DEF IInv, Return, Goto
  <2>4. Undisturbed(Below) /\ \A taken, frames : Remembered(Below, taken, frames)
    BY <2>2, StartRecallsNothing
  <2>5. Reaches(tmpResult', callFrames', Len(callFrames'))
    BY <2>1, <2>2, NothingIsNoReference
  <2> QED
    BY <2>3, <2>4, <2>5 DEF Kept
<1> QED
  BY <1>2, <1>3

LEMMA ExecuteMainKept == ASSUME IInv, Kept, ExecuteMain PROVE Kept'
<1> DEFINE f == functions["main"]
           call == [do |-> "Call", func |-> f, args |-> <<>>]
           end == [do |-> "CallEnd"]
           frames2 == callFrames'
           taken2 == DOMAIN functions'
<1>1. At("ExecuteMain") /\ "ExecuteMain" \in Registering
  BY DEF ExecuteMain, Registering
<1>2. CASE "main" \notin DOMAIN functions
  BY <1>2, ThrownKept DEF ExecuteMain
<1>3. CASE "main" \in DOMAIN functions /\ f.type # MainType
  BY <1>3, ThrownKept DEF ExecuteMain
<1>4. CASE "main" \in DOMAIN functions /\ f.type = MainType
  <2>1. UNCHANGED tmpResult /\ stack' = <<call, end>> \o Below
    BY <1>4 DEF ExecuteMain, Goto, Below
  <2>2. tmpResult = Nothing /\ IsSeq(Below) /\ \A i \in 1..Len(Below) : Below[i].do \in Registering
    BY <1>1, AtStart
  <2>3. call.do = "Call" /\ call.args = <<>> /\ end.do \in FrameOwers
    BY DEF FrameOwers
  <2> HIDE DEF call, end, frames2, taken2
  <2>4. \A arg \in ArgsOf(call) : FALSE
    BY <2>3, NothingGot DEF ArgsOf
  <2>5. Undisturbed(Below) /\ Remembered(Below, taken2, frames2)
    BY <2>2, StartRecallsNothing
  <2>6. Undisturbed(<<call, end>> \o Below) /\ Remembered(<<call, end>> \o Below, taken2, frames2)
    BY <2>2, <2>3, <2>4, <2>5, BegunAbove
  <2>7. Reaches(tmpResult', callFrames', Len(callFrames'))
    BY <2>1, <2>2, NothingIsNoReference
  <2> QED
    BY <2>1, <2>6, <2>7 DEF Kept, frames2, taken2
<1> QED
  BY <1>2, <1>3, <1>4
LEMMA KeptInitially == ASSUME Init PROVE Kept
<1> DEFINE main == [do |-> "ExecuteMain"]
           last == <<main>>
           whole == program \o last
<1>1. program \in Programs /\ stack = whole /\ tmpResult = Nothing
  BY DEF Init, Constructed, VisitProgram
<1>2. IsSeq(program) /\ Len(program) \in Nat
  BY <1>1, ProgramsAreTrees, SeqParts DEF IsSeq
<1>3. IsSeq(last) /\ Len(last) = 1 /\ last[1] = main /\ main.do = "ExecuteMain"
  BY SeqSingle
<1> HIDE DEF main, last
<1>4. /\ IsSeq(whole) /\ Len(whole) = Len(program) + 1
      /\ \A i \in 1..Len(whole) : whole[i] = IF i <= Len(program) THEN program[i] ELSE last[i - Len(program)]
  BY <1>2, <1>3, SeqConcat
<1> HIDE DEF whole
<1>5. Len(whole) \in 1..Len(whole) /\ whole[Len(whole)] = main
  <2>1. Len(whole) \in 1..Len(whole) /\ ~(Len(whole) <= Len(program)) /\ Len(whole) - Len(program) = 1
    BY <1>2, <1>4
  <2> QED
    BY <1>3, <1>4, <2>1
<1>6. Starting(stack)
  <2>1. ~Underway(whole)
    BY <1>3, <1>5 DEF Underway
  <2> QED
    BY <1>1, <2>1, Initially DEF IInv, StackOK
<1>7. \A i \in 1..Len(stack) : stack[i].do \in Registering
  <2>1. \A i \in 1..Len(stack) : i \in 1..(Len(stack) - 1) \/ i = Len(stack)
    BY <1>1, <1>2, <1>4
  <2> QED
    BY <1>6, <2>1 DEF Starting, Registering
<1> QED
  BY <1>1, <1>4, <1>7, StartRecallsNothing, NothingIsNoReference DEF Kept

LEMMA AlwaysKept == IInv /\ Kept /\ [Next]_vars => Kept'
<1> SUFFICES ASSUME IInv, Kept, [Next]_vars
             PROVE  Kept'
  OBVIOUS
<1>1. CASE VisitFunctionDefinition \/ ExecuteMain
  BY <1>1, VisitFunctionDefinitionKept, ExecuteMainKept
<1>2. CASE VisitExpression
  BY <1>2, VisitLiteralKept, VisitIdentifierKept, VisitFunctionCallKept, GetArgumentsKept,
     CollectArgumentKept, InvokeKept, EndCallKept, VisitTypeCastKept, ApplyCastKept, VisitBinaryKept,
     VisitRightOperandKept, ApplyBinaryKept, VisitUnaryKept, ApplyUnaryKept, VisitBindFrontKept,
     VisitBindTargetKept, ApplyBindFrontKept
     DEF VisitExpression
<1>3. CASE CallFunction
  BY <1>3, CallGlobalKept, BindParameterKept, CallBuiltinKept, CallBindFrontKept, CallComposedKept,
     EndHalfKept, CallSecondHalfKept
     DEF CallFunction
<1>4. CASE VisitStatement
  BY <1>4, VisitCodeBlockKept, EndStatementKept, LeaveCodeBlockKept, VisitVariableDeclarationKept,
     DeclareVariableKept, VisitAssignStatementKept, AssignVariableKept, VisitExpressionStatementKept,
     DiscardResultKept, VisitReturnStatementKept, ReturnResultKept, VisitContinueKept, VisitBreakKept,
     VisitForLoopKept, StartIterationKept, EndIterationKept, ExitLoopKept, VisitIfStatementKept,
     TestIfKept, NextElseIfKept, VisitElseIfKept, TestElseIfKept, EndIfKept
     DEF VisitStatement
<1>5. CASE Finish
  BY <1>5, NothingDone DEF Finish
<1>6. CASE UNCHANGED vars
  BY <1>6, NothingDone DEF vars
<1>7. CASE Stopped
  BY <1>6, <1>7 DEF Stopped
<1> QED
  BY <1>1, <1>2, <1>3, <1>4, <1>5, <1>6, <1>7 DEF Next, Run

(* Whatever is looked up before an expression is evaluated is still so when it *)
(* is used: a name that may be declared is still free, the holder of an        *)
(* assignment is still what its name finds, and no argument is a reference     *)
(* that is gone from the frames (interpreter.cpp 86-131, 196-216).            *)
THEOREM LookupsStayTrue == Spec => []Kept
<1>1. Init => IInv /\ Kept
  BY Initially, KeptInitially
<1>2. IInv /\ Kept /\ [Next]_vars => (IInv /\ Kept)'
  BY Always, AlwaysKept
<1>3. IInv /\ Kept => Kept
  OBVIOUS
<1> QED
  BY <1>1, <1>2, <1>3, PTL DEF Spec
-----------------------------------------------------------------------------
(* The refinement: each step of the interpreter is an action of Environment, *)
(* made where the protocol allows it, or leaves the environment alone.       *)

(* What the instance Env is able to say: its sets of types and values have    *)
(* those the program computes, and the program stays below its bounds.       *)
WithinInstance ==
  /\ \A n \in DOMAIN functions : functions[n] \in Values
  /\ \A a \in DOMAIN store : store[a].value \in Values /\ store[a].type \in Types
  /\ \A i \in DOMAIN callFrames : callFrames[i].ret \in Types \cup {NoneType} /\ Len(callFrames[i].scopes) <= 1000
  /\ Len(callFrames) <= 1000 /\ Len(store) < 1000

LEMMA CallIsStep == ASSUME IInv, WithinInstance', NEW ret, Env!CallingFunction(ret) PROVE Env!Next
<1> DEFINE frame == [scopes |-> <<Env!EmptyScope>>, ret |-> ret]
           frames2 == callFrames'
           n == Len(callFrames)
<1>1. IsSeq(callFrames) /\ n \in Nat
  BY SeqParts DEF IInv, EnvironmentOK, AreFrames
<1>2. frames2 = Append(callFrames, frame) /\ frame.ret = ret
  BY DEF Env!CallingFunction
<1> HIDE DEF frame
<1>3. IsSeq(frames2) /\ Len(frames2) = n + 1 /\ frames2[n + 1] = frame /\ n + 1 \in DOMAIN frames2
  <2> DEFINE more == Append(callFrames, frame)
  <2>1. IsSeq(more) /\ Len(more) = n + 1 /\ \A i \in 1..Len(more) : more[i] = IF i <= n THEN callFrames[i] ELSE frame
    BY <1>1, SeqAppend
  <2>2. frames2 = more
    BY <1>2
  <2> HIDE DEF more, frames2
  <2>3. IsSeq(frames2) /\ Len(frames2) = n + 1 /\ n + 1 \in 1..Len(frames2) /\ ~(n + 1 <= n)
    BY <1>1, <2>1, <2>2
  <2> QED
    BY <2>1, <2>2, <2>3, SeqParts
<1>4. ret \in Types \cup {NoneType} /\ n + 1 <= 1000
  BY <1>2, <1>3 DEF WithinInstance
<1>5. Env!Call(ret)
  BY <1>1, <1>4 DEF Env!Call
<1>6. Env!NoneType = NoneType
  BY DEF Env!NoneType, NoneType
<1> QED
  BY <1>4, <1>5, <1>6 DEF Env!Next

(* The scopes opened in a call are closed when it ends.                       *)
LEMMA EndHasOneScope ==
  ASSUME IInv, stack # <<>>, Current.do \in FrameOwers
  PROVE  Len(callFrames[Len(callFrames)].scopes) = 1
<1> DEFINE n == Len(callFrames)
<1>1. Current.do \notin Registering \cup ScopeOwers
  BY DEF Registering, FrameOwers, ScopeOwers
<1>2. IsSeq(Below) /\ stack = <<Current>> \o Below
  BY StackParts DEF IInv
<1>3. n \in Nat /\ n > 0 /\ CallOf(Below, Len(Below)) = n - 1
  BY <1>1, CallAtTop
<1>4. IsSeq(<<Current>>) /\ \A i \in 1..Len(<<Current>>) : <<Current>>[i].do \notin ScopeOwers
  BY <1>1, SeqSingle
<1> HIDE DEF n
<1>5. Owing(Below, n, ScopeOwers) = {}
  <2>1. n > CallOf(Below, Len(Below))
    BY <1>3
  <2> QED
    BY <1>2, <1>3, <2>1, NothingOwedAbove
<1>6. Owing(stack, n, ScopeOwers) = Owing(Below, n, ScopeOwers)
  BY <1>2, <1>4, OwingPlain
<1>7. n \in DOMAIN callFrames /\ DOMAIN Scopes = DOMAIN callFrames
  BY <1>3, SeqParts DEF IInv, EnvironmentOK, AreFrames, Scopes, n
<1>8. Len(callFrames[n].scopes) = 1 + Cardinality(Owing(stack, n, ScopeOwers))
  BY <1>7 DEF IInv, StackOK, Balanced, Scopes
<1>9. Len(callFrames[n].scopes) = 1
  BY <1>5, <1>6, <1>8, FS_EmptySet
<1> QED
  BY <1>9 DEF n

LEMMA InSomeCall ==
  ASSUME IInv, stack # <<>>, Current.do \notin Registering
  PROVE  callFrames # <<>> /\ Len(callFrames) \in Nat /\ Len(callFrames) > 0
BY InCall, SeqParts DEF IInv, EnvironmentOK, AreFrames

LEMMA ExitIsStep == ASSUME IInv, stack # <<>>, Current.do \in FrameOwers, Env!ExitingFunction PROVE Env!Next
<1>1. callFrames # <<>>
  BY InSomeCall DEF FrameOwers, Registering
<1>2. Len(Env!Top.scopes) = 1
  BY EndHasOneScope DEF Env!Top
<1> QED
  BY <1>1, <1>2 DEF Env!Exit, Env!Next

LEMMA EnterIsStep ==
  ASSUME IInv, WithinInstance', stack # <<>>, Current.do \notin Registering, Env!AddScope
  PROVE  Env!Next
<1> DEFINE n == Len(callFrames)
           frames2 == callFrames'
<1>1. callFrames # <<>> /\ n \in Nat /\ n > 0 /\ AreFrames(callFrames, store)
  BY InSomeCall DEF IInv, EnvironmentOK
<1>2. n \in 1..n /\ AreFrames(callFrames', store') /\ SameCalls /\ Len(callFrames'[n].scopes) = Len(callFrames[n].scopes) + 1
  <2>1. n \in 1..n
    BY <1>1
  <2>2. AreFrames(callFrames', store') /\ SameCalls
    BY <1>1, ScopeAdded
  <2>3. Len(callFrames'[n].scopes) = Len(callFrames[n].scopes) + 1
    BY <1>1, <2>1, ScopeAdded
  <2> QED
    BY <2>1, <2>2, <2>3
<1>3. n \in DOMAIN callFrames'
  BY <1>1, <1>2, SeqParts DEF SameCalls, AreFrames
<1>4. Len(callFrames[n].scopes) \in Nat
  BY FrameHasScopes
<1>5. Len(frames2[n].scopes) = Len(callFrames[n].scopes) + 1 /\ Len(frames2[n].scopes) <= 1000
  BY <1>2, <1>3 DEF WithinInstance
<1>6. Len(callFrames[n].scopes) < 1000
  <2> HIDE DEF frames2
  <2> QED
    BY <1>4, <1>5
<1> QED
  BY <1>1, <1>6 DEF Env!EnterBlock, Env!Next, Env!Top

LEMMA LeaveIsStep == ASSUME IInv, stack # <<>>, Current.do \in ScopeOwers, Env!PopScope PROVE Env!Next
<1>1. Current.do \notin Registering
  BY DEF ScopeOwers, Registering
<1>2. callFrames # <<>> /\ Len(Env!Top.scopes) > 1
  BY <1>1, InSomeCall, FrameHasScopes DEF Env!Top
<1> QED
  BY <1>2 DEF Env!LeaveBlock, Env!Next
LEMMA VariableIsKnown ==
  ASSUME IInv, WithinInstance', NEW vt, NEW v,
         store' = Append(store, [type |-> vt.type, mutable |-> vt.mutable, value |-> v])
  PROVE  Len(store) < 1000 /\ vt.type \in Types /\ v \in Values
<1> DEFINE new == [type |-> vt.type, mutable |-> vt.mutable, value |-> v]
           store2 == store'
           n == Len(store)
<1>1. IsSeq(store) /\ n \in Nat
  BY SeqParts DEF IInv, EnvironmentOK, IsStore
<1>2. store2 = Append(store, new) /\ new.type = vt.type /\ new.value = v
  OBVIOUS
<1> HIDE DEF new
<1>3. Len(store2) = n + 1 /\ store2[n + 1] = new /\ n + 1 \in DOMAIN store2
  <2> DEFINE more == Append(store, new)
  <2>1. IsSeq(more) /\ Len(more) = n + 1 /\ \A i \in 1..Len(more) : more[i] = IF i <= n THEN store[i] ELSE new
    BY <1>1, SeqAppend
  <2>2. store2 = more
    BY <1>2
  <2> HIDE DEF more, store2
  <2>3. IsSeq(store2) /\ Len(store2) = n + 1 /\ n + 1 \in 1..Len(store2) /\ ~(n + 1 <= n)
    BY <1>1, <2>1, <2>2
  <2> QED
    BY <2>1, <2>2, <2>3, SeqParts
<1>4. store2[n + 1].value \in Values /\ store2[n + 1].type \in Types /\ Len(store2) < 1000
  BY <1>3 DEF WithinInstance
<1> QED
  BY <1>1, <1>2, <1>3, <1>4

(* The name was looked up before the expression: it is still free.            *)
LEMMA DeclareIsStep ==
  ASSUME IInv, Kept, WithinInstance', DeclareVariable, Assignable(Current.vt.type)
  PROVE  Env!Next
<1> DEFINE id == Current.name
           vt == [type |-> Current.vt.type, mutable |-> Current.vt.mutable]
           v == TmpValue
<1>1. At("Declare") /\ Env!DeclareVariable(id, Current.vt, v)
  BY DEF DeclareVariable
<1>2. stack # <<>> /\ Current.do = "Declare" /\ id \in Names /\ Current.vt.mutable \in BOOLEAN
  BY <1>1, AtContinuation DEF IsItem
<1>3. vt.type = Current.vt.type /\ vt.mutable = Current.vt.mutable
  OBVIOUS
<1>4. Env!DeclareVariable(id, vt, v)
  BY <1>1, <1>3 DEF Env!DeclareVariable
<1>5. Len(store) < 1000 /\ Current.vt.type \in Types /\ v \in Values
  BY <1>1, VariableIsKnown DEF Env!DeclareVariable
<1>6. vt \in Env!Params
  BY <1>2, <1>5 DEF Env!Params
<1>7. v.type = vt.type
  BY DEF Assignable
<1>8. Current.do \notin Registering
  BY <1>2 DEF Registering
<1>9. callFrames # <<>> /\ Recalls(Current, DOMAIN functions, callFrames, Len(callFrames))
  BY <1>2, <1>8, InSomeCall, Recalled
<1>10. Len(Env!Top.scopes) > 1 /\ Env!CanDefine(id)
  BY <1>2, <1>9 DEF Recalls, Env!Top, Env!CanDefine, Env!IsInCurrentScope, Env!Innermost
<1> HIDE DEF vt, id, v
<1>11. Env!Declare(id, vt, v)
  BY <1>4, <1>5, <1>7, <1>9, <1>10 DEF Env!Declare
<1> QED
  BY <1>2, <1>5, <1>6, <1>11 DEF Env!Next

(* A variable that is passed is one of a frame below the frame of the call.    *)
LEMMA BindIsStep == ASSUME IInv, Kept, WithinInstance, WithinInstance', BindParameter PROVE Env!Next
<1> DEFINE id == Current.param.name
           param == Current.param.vt
           arg == Current.arg
           n == Len(callFrames)
           vt == [type |-> param.type, mutable |-> param.mutable]
<1>1. At("Parameter") /\ Env!BindParam(id, param, arg)
  BY DEF BindParameter
<1>2. /\ stack # <<>> /\ Current.do = "Parameter" /\ Current.do \notin Registering
      /\ id \in Names /\ param.mutable \in BOOLEAN /\ IsArg(arg, store) /\ ArgMatchesParam(arg, param, store)
  <2>1. stack # <<>> /\ Current.do = "Parameter" /\ IsItem(Current, store)
    BY <1>1, AtContinuation
  <2> QED
    BY <2>1 DEF IsItem, Registering
<1>3. callFrames # <<>> /\ n \in Nat /\ n > 0 /\ Recalls(Current, DOMAIN functions, callFrames, n)
  BY <1>2, InSomeCall, Recalled
<1>4. Len(Env!Top.scopes) = 1 /\ Reaches(arg, callFrames, n - 1)
  <2>1. arg \in ArgsOf(Current)
    BY <1>2 DEF ArgsOf
  <2> QED
    BY <1>2, <1>3, <2>1 DEF Recalls, Env!Top
<1>5. vt.type = param.type /\ vt.mutable = param.mutable
  OBVIOUS
<1>6. Env!BindParam(id, vt, arg) /\ Env!ArgMatchesParam(arg, vt, store)
  <2>1. Env!BindParam(id, vt, arg)
    BY <1>1, <1>5 DEF Env!BindParam, Env!DeclareHolder, Env!BoundHolder, Env!DeclareVariable
  <2>2. Env!ArgMatchesParam(arg, vt, store)
    BY <1>2, <1>5 DEF ArgMatchesParam, ArgType, Env!ArgMatchesParam, Env!ArgType
  <2> QED
    BY <2>1, <2>2
<1>7. Len(store) < 1000
  BY DEF WithinInstance
<1>8. Env!Bind(id, vt, arg)
  <2> HIDE DEF vt, id, arg
  <2> QED
    BY <1>3, <1>4, <1>6, <1>7 DEF Env!Bind
<1>9. IsStore(store) /\ DOMAIN store = 1..Len(store)
  BY SeqParts DEF IInv, EnvironmentOK, IsStore
<1>10. CASE arg.tag = "holder"
  <2>1. arg = HolderArg(arg.holder) /\ Env!HolderValid(arg.holder, store)
    BY <1>2, <1>10 DEF IsArg, ValueArg
  <2>2. arg.holder # Env!NoHolder /\ store[arg.holder.var].type \in Types
    BY <1>9, <2>1 DEF Env!HolderValid, Env!NoHolder, WithinInstance
  <2>3. vt \in Env!Params
    BY <1>2, <1>10, <2>2 DEF ArgMatchesParam, ArgType, Env!Params
  <2>4. PICK i \in 1..(n - 1) : InFrame(arg.holder, callFrames[i])
    BY <1>4, <1>10 DEF Reaches
  <2>5. \E j \in DOMAIN callFrames[i].scopes : \E m \in Names : callFrames[i].scopes[j][m] = arg.holder
    BY <2>4 DEF InFrame
  <2>6. arg = Env!HolderArg(arg.holder)
    BY <2>1 DEF HolderArg, Env!HolderArg
  <2> HIDE DEF vt, id, arg, param
  <2>7. Env!BindReference(id, vt, i)
    BY <1>8, <2>2, <2>5, <2>6 DEF Env!BindReference
  <2>8. i \in 1..Len(callFrames) - 1
    BY <2>4
  <2> QED
    BY <1>2, <2>3, <2>7, <2>8 DEF Env!Next
<1>11. CASE arg.tag # "holder"
  <2>1. arg = ValueArg(arg.value)
    BY <1>2, <1>11 DEF IsArg, HolderArg
  <2>2. arg = Env!ValueArg(arg.value)
    BY <2>1 DEF ValueArg, Env!ValueArg
  <2>3. store' = Append(store, [type |-> param.type, mutable |-> param.mutable, value |-> arg.value])
    BY <1>1, <1>11 DEF Env!BindParam, Env!DeclareVariable
  <2>4. param.type \in Types /\ arg.value \in Values
    BY <2>3, VariableIsKnown
  <2>5. vt \in Env!Params
    BY <1>2, <2>4 DEF Env!Params
  <2> HIDE DEF vt, id, arg, param
  <2>6. Env!Bind(id, vt, Env!ValueArg(arg.value))
    BY <1>8, <2>2
  <2> QED
    BY <1>2, <2>4, <2>5, <2>6 DEF Env!Next
<1> QED
  BY <1>10, <1>11
(* The holder was looked up before the expression: its name still finds it.   *)
LEMMA AssignIsStep ==
  ASSUME IInv, Kept, WithinInstance', AssignVariable, Assignable(store[Current.holder.var].type)
  PROVE  Env!Next
<1> DEFINE holder == Current.holder
           target == holder.var
           v == TmpValue
           store2 == store'
<1>1. At("Assign") /\ Env!AssignThrough(holder, v)
  BY DEF AssignVariable
<1>2. stack # <<>> /\ Current.do = "Assign" /\ Env!HolderValid(holder, store) /\ holder.can
  BY <1>1, AtContinuation DEF IsItem
<1>3. Current.do \notin Registering
  BY <1>2 DEF Registering
<1>4. callFrames # <<>> /\ Recalls(Current, DOMAIN functions, callFrames, Len(callFrames))
  BY <1>2, <1>3, InSomeCall, Recalled
<1>5. PICK id \in Names : FoundIn(callFrames[Len(callFrames)], id) = holder
  BY <1>2, <1>4 DEF Recalls
<1>6. Env!FindVariable(id) = holder
  BY <1>5 DEF FoundIn, Env!FindVariable, Env!Top
<1>7. /\ IsStore(store) /\ Len(store) \in Nat /\ DOMAIN store = 1..Len(store)
      /\ target \in 1..Len(store)
  BY <1>2, SeqParts DEF IInv, EnvironmentOK, IsStore, IsVariable, Env!HolderValid
<1>8. holder # Env!NoHolder
  BY <1>7 DEF Env!NoHolder
<1>9. v.type = store[target].type
  BY DEF Assignable
<1>10. v \in Values
  <2>1. store2 = [store EXCEPT ![target].value = v]
    BY <1>1 DEF Env!AssignThrough
  <2>2. store[target] = [type |-> store[target].type, mutable |-> store[target].mutable, value |-> store[target].value]
    BY <1>7 DEF IsStore, IsVariable
  <2> HIDE DEF store2, target, v
  <2>3. DOMAIN store2 = DOMAIN store /\ store2[target] = [store[target] EXCEPT !.value = v]
    BY <1>7, <2>1
  <2>4. store2[target].value = v
    BY <2>2, <2>3
  <2>5. store2[target].value \in Values
    BY <1>7, <2>3 DEF WithinInstance, store2
  <2> QED
    BY <2>4, <2>5
<1> HIDE DEF holder, target, v
<1>11. Env!CanAssign(id, v)
  BY <1>2, <1>6, <1>8, <1>9 DEF Env!CanAssign, target
<1>12. Env!Assign(id, v)
  BY <1>1, <1>4, <1>6, <1>11 DEF Env!Assign
<1> QED
  BY <1>10, <1>12 DEF Env!Next

LEMMA RegisterIsStep ==
  ASSUME IInv, WithinInstance', VisitFunctionDefinition, Current.name \notin DOMAIN functions
  PROVE  Env!Next
<1> DEFINE id == Current.name
           f == GlobalFunction(Current)
<1>1. At("FunctionDefinition") /\ Env!RegisterFunction(id, f)
  BY DEF VisitFunctionDefinition
<1>2. callFrames = <<>> /\ IsDefinition(Current)
  <2>1. callFrames = <<>> /\ Current.do = "FunctionDefinition"
    BY <1>1, AtStart DEF Registering
  <2>2. IsItem(Current, store)
    BY <1>1, Running
  <2> QED
    BY <2>1, <2>2 DEF IsItem
<1>3. id \in Names
  BY <1>2 DEF IsDefinition
<1>4. f.type.kind = "FUNCTION"
  BY DEF GlobalFunction, SignatureType, FunctionType
<1> HIDE DEF f, id
<1>5. f \in Values
  <2>1. functions' = [m \in DOMAIN functions \cup {id} |-> IF m = id THEN f ELSE functions[m]]
    BY <1>1 DEF Env!RegisterFunction
  <2>2. id \in DOMAIN functions' /\ functions'[id] = f
    BY <2>1
  <2> QED
    BY <2>2 DEF WithinInstance
<1>6. Env!Register(id, f)
  BY <1>1, <1>2, <1>4 DEF Env!Register, id
<1> QED
  BY <1>3, <1>5, <1>6 DEF Env!Next

EnvStep == Env!Next \/ UNCHANGED envVars

LEMMA ExpressionIsStep == ASSUME IInv, WithinInstance', VisitExpression PROVE EnvStep
<1> USE DEF Return, Goto, Visit, Throw, Deliver, EnvStep
<1>1. CASE VisitLiteral \/ VisitIdentifier \/ VisitFunctionCall \/ GetArguments \/ CollectArgument
  BY <1>1 DEF VisitLiteral, VisitIdentifier, VisitFunctionCall, GetArguments, CollectArgument
<1>2. CASE Invoke
  BY <1>2, CallIsStep DEF Invoke
<1>3. CASE EndCall
  BY <1>3, Running, ExitIsStep DEF EndCall, FrameOwers
<1>4. CASE VisitTypeCast \/ ApplyCast \/ VisitBinary \/ VisitRightOperand
  BY <1>4 DEF VisitTypeCast, ApplyCast, VisitBinary, VisitRightOperand
<1>5. CASE ApplyBinary \/ VisitUnary \/ ApplyUnary
  BY <1>5 DEF ApplyBinary, VisitUnary, ApplyUnary
<1>6. CASE VisitBindFront \/ VisitBindTarget \/ ApplyBindFront
  BY <1>6 DEF VisitBindFront, VisitBindTarget, ApplyBindFront
<1> QED
  BY <1>1, <1>2, <1>3, <1>4, <1>5, <1>6 DEF VisitExpression

LEMMA FunctionIsStep == ASSUME IInv, Kept, WithinInstance, WithinInstance', CallFunction PROVE EnvStep
<1> USE DEF Return, Goto, Throw, EnvStep
<1>1. CASE CallGlobal \/ CallBuiltin \/ CallBindFront
  BY <1>1 DEF CallGlobal, CallBuiltin, CallBindFront
<1>2. CASE BindParameter
  BY <1>2, BindIsStep
<1>3. CASE CallComposed \/ CallSecondHalf
  BY <1>3, CallIsStep DEF CallComposed, CallSecondHalf
<1>4. CASE EndHalf
  BY <1>4, Running, ExitIsStep DEF EndHalf, FrameOwers
<1> QED
  BY <1>1, <1>2, <1>3, <1>4 DEF CallFunction

LEMMA StatementIsStep == ASSUME IInv, Kept, WithinInstance', VisitStatement PROVE EnvStep
<1> USE DEF Return, Goto, Visit, Throw, SetCondition, EnvStep
<1>1. CASE VisitCodeBlock \/ VisitForLoop
  <2>1. PICK what \in {"CodeBlock", "ForLoop"} : At(what) /\ Env!AddScope
    BY <1>1 DEF VisitCodeBlock, VisitForLoop
  <2> QED
    BY <2>1, Running, EnterIsStep DEF Registering
<1>2. CASE LeaveCodeBlock \/ ExitLoop
  <2>1. PICK what \in {"PopScope", "LoopEnd"} : At(what) /\ Env!PopScope
    BY <1>2 DEF LeaveCodeBlock, ExitLoop
  <2> QED
    BY <2>1, Running, LeaveIsStep DEF ScopeOwers
<1>3. CASE DeclareVariable
  BY <1>3, DeclareIsStep DEF DeclareVariable
<1>4. CASE AssignVariable
  BY <1>4, AssignIsStep DEF AssignVariable
<1>5. CASE EndStatement \/ VisitVariableDeclaration \/ VisitAssignStatement \/ VisitExpressionStatement \/ DiscardResult
  BY <1>5 DEF EndStatement, VisitVariableDeclaration, VisitAssignStatement, VisitExpressionStatement, DiscardResult
<1>6. CASE VisitReturnStatement \/ ReturnResult \/ VisitContinue \/ VisitBreak
  BY <1>6 DEF VisitReturnStatement, ReturnResult, VisitContinue, VisitBreak
<1>7. CASE StartIteration \/ EndIteration
  BY <1>7 DEF StartIteration, EndIteration
<1>8. CASE VisitIfStatement \/ TestIf \/ NextElseIf \/ VisitElseIf \/ TestElseIf \/ EndIf
  BY <1>8 DEF VisitIfStatement, TestIf, NextElseIf, VisitElseIf, TestElseIf, EndIf
<1> QED
  BY <1>1, <1>2, <1>3, <1>4, <1>5, <1>6, <1>7, <1>8 DEF VisitStatement

LEMMA NextIsStep ==
  IInv /\ Kept /\ WithinInstance /\ WithinInstance' /\ [Next]_vars => [Env!Next]_(Env!envVars)
<1> SUFFICES ASSUME IInv, Kept, WithinInstance, WithinInstance', [Next]_vars
             PROVE  EnvStep
  BY DEF EnvStep, Env!envVars, envVars
<1>1. CASE VisitFunctionDefinition
  BY <1>1, RegisterIsStep DEF VisitFunctionDefinition, Throw, EnvStep
<1>2. CASE ExecuteMain
  BY <1>2, CallIsStep DEF ExecuteMain, Throw, EnvStep
<1>3. CASE VisitExpression \/ CallFunction \/ VisitStatement
  BY <1>3, ExpressionIsStep, FunctionIsStep, StatementIsStep
<1>4. CASE Finish \/ Stopped \/ UNCHANGED vars
  BY <1>4 DEF Finish, Stopped, vars, EnvStep
<1> QED
  BY <1>1, <1>2, <1>3, <1>4 DEF Next, Run

(* The interpreter implements Environment: every program keeps to the order   *)
(* of calls and to the checks that the environment relies on, as long as it   *)
(* stays below the bounds of the instance (interpreter.cpp 26-65, 86-131,     *)
(* 155-216, 400-412, global_function.cpp 9-29, composed_function.cpp 12-33).  *)
THEOREM ImplementsEnvironment == Spec /\ []WithinInstance => EnvImplemented
<1>1. Init => IInv /\ Kept /\ Env!Init
  BY Initially, KeptInitially DEF Init, Constructed
<1>2. IInv /\ Kept /\ [Next]_vars => (IInv /\ Kept)'
  BY Always, AlwaysKept
<1>3. IInv /\ Kept /\ WithinInstance /\ WithinInstance' /\ [Next]_vars => [Env!Next]_(Env!envVars)
  BY NextIsStep
<1> QED
  BY <1>1, <1>2, <1>3, PTL DEF Spec, EnvImplemented, Env!Spec
-----------------------------------------------------------------------------
(* Names.                                                                     *)

(* Slots of the innermost scope that a step leaves as they are.               *)
SameSlot(n) == Env!Innermost[n] = callFrames'[Len(callFrames)].scopes[Len(Env!Top.scopes)][n]

NewNamesAreFree ==
  \A n \in Names :
    callFrames # <<>> /\ Len(callFrames') = Len(callFrames)
      /\ Len(Env!Top.scopes) = Len(callFrames'[Len(callFrames)].scopes)
      /\ Env!Innermost[n] # callFrames'[Len(callFrames)].scopes[Len(Env!Top.scopes)][n]
    => Env!CanDefine(n)

LEMMA SameFramesFree == ASSUME UNCHANGED callFrames PROVE NewNamesAreFree
BY DEF NewNamesAreFree, Env!Innermost, Env!Top

LEMMA OtherSlotsStay ==
  ASSUME IInv, stack # <<>>, Current.do \notin Registering, NEW id, NEW holder, Env!AddVariable(id, holder),
         NEW n \in Names, n # id
  PROVE  SameSlot(n)
<1> DEFINE k == Len(callFrames)
           old == callFrames[k].scopes
           last == Len(old)
           scope == [old[last] EXCEPT ![id] = holder]
           scopes == [old EXCEPT ![last] = scope]
<1>1. k \in Nat /\ k > 0 /\ IsSeq(callFrames) /\ DOMAIN callFrames = 1..k /\ k \in 1..k
  BY InSomeCall, SeqParts DEF IInv, EnvironmentOK, AreFrames
<1>2. IsFrame(callFrames[k], store)
  BY <1>1 DEF IInv, EnvironmentOK, AreFrames
<1>3. IsSeq(old) /\ DOMAIN old = 1..last /\ last \in Nat /\ last > 0 /\ last \in 1..last
  BY <1>2, SeqParts, FrameHasScopes DEF IsFrame
<1>4. old[last] \in Env!Scope /\ DOMAIN old[last] = Names
  BY <1>2, <1>3 DEF IsFrame, IsScope, Env!Scope
<1>5. scope[n] = old[last][n]
  BY <1>4
<1>6. callFrames' = [callFrames EXCEPT ![k] = [callFrames[k] EXCEPT !.scopes = scopes]]
  BY DEF Env!AddVariable, Env!Top
<1> HIDE DEF scope
<1>7. scopes[last] = scope
  BY <1>3
<1> HIDE DEF scopes
<1>8. [callFrames[k] EXCEPT !.scopes = scopes].scopes = scopes
  BY <1>2 DEF IsFrame
<1>9. callFrames'[k].scopes = scopes
  BY <1>1, <1>6, <1>8
<1> QED
  BY <1>5, <1>7, <1>9 DEF SameSlot, Env!Innermost, Env!Top

LEMMA FrameCounted ==
  ASSUME IInv, NEW ret, Env!CallingFunction(ret) \/ (Env!ExitingFunction /\ callFrames # <<>>)
  PROVE  Len(callFrames') # Len(callFrames)
<1> DEFINE n == Len(callFrames)
           frame == [scopes |-> <<Env!EmptyScope>>, ret |-> ret]
<1>1. IsSeq(callFrames) /\ n \in Nat
  BY SeqParts DEF IInv, EnvironmentOK, AreFrames
<1>2. CASE Env!CallingFunction(ret)
  <2>1. callFrames' = Append(callFrames, frame)
    BY <1>2 DEF Env!CallingFunction
  <2> HIDE DEF frame
  <2>2. Len(Append(callFrames, frame)) = n + 1
    BY <1>1, SeqAppend
  <2> QED
    BY <1>1, <2>1, <2>2
<1>3. CASE Env!ExitingFunction /\ callFrames # <<>>
  <2> DEFINE m == n - 1
             s == SubSeq(callFrames, 1, m)
  <2>1. m \in Nat /\ m <= Len(callFrames) /\ 1 \in Nat /\ 1 > 0
    BY <1>1, <1>3, SeqParts
  <2>2. callFrames' = s
    BY <1>3 DEF Env!ExitingFunction
  <2> HIDE DEF m
  <2>3. Len(s) = IF 1 <= m THEN m - 1 + 1 ELSE 0
    BY <1>1, <2>1, SeqSub
  <2> HIDE DEF s
  <2>4. Len(callFrames') # m + 1
    BY <2>1, <2>2, <2>3
  <2> QED
    BY <1>1, <2>4 DEF m
<1> QED
  BY <1>2, <1>3

LEMMA FrameStepFree ==
  ASSUME IInv, NEW ret, Env!CallingFunction(ret) \/ (Env!ExitingFunction /\ callFrames # <<>>)
  PROVE  NewNamesAreFree
BY FrameCounted DEF NewNamesAreFree

LEMMA ScopeStepFree ==
  ASSUME IInv, stack # <<>>, Current.do \notin Registering,
         Env!AddScope \/ (Env!PopScope /\ Current.do \in ScopeOwers)
  PROVE  NewNamesAreFree
<1> DEFINE k == Len(callFrames)
           old == callFrames[k].scopes
<1>1. k > 0 /\ k \in 1..k /\ AreFrames(callFrames, store)
  BY InSomeCall DEF IInv, EnvironmentOK
<1>2. Len(old) \in Nat /\ Len(old) > 0 /\ (Current.do \in ScopeOwers => Len(old) > 1)
  BY FrameHasScopes
<1>3. CASE Env!AddScope
  <2>1. Len(callFrames'[k].scopes) = Len(old) + 1
    BY <1>1, <1>3, ScopeAdded
  <2> QED
    BY <1>2, <2>1 DEF NewNamesAreFree, Env!Top
<1>4. CASE Env!PopScope /\ Current.do \in ScopeOwers
  <2>1. Len(old) = Len(callFrames'[k].scopes) + 1
    BY <1>1, <1>2, <1>4, ScopeDropped DEF Env!Top
  <2> QED
    BY <1>2, <2>1 DEF NewNamesAreFree, Env!Top
<1> QED
  BY <1>3, <1>4

(* A name that is declared was free before its expression was evaluated, and   *)
(* is so still.                                                              *)
LEMMA DeclareFree == ASSUME IInv, Kept, DeclareVariable PROVE NewNamesAreFree
<1>1. At("Declare")
  BY DEF DeclareVariable
<1>2. stack # <<>> /\ Current.do = "Declare" /\ Current.do \notin Registering
  BY <1>1, Running DEF Registering
<1>3. CASE ~Assignable(Current.vt.type)
  BY <1>3, SameFramesFree DEF DeclareVariable, Throw, envVars
<1>4. CASE Assignable(Current.vt.type)
  <2> DEFINE holder == [var |-> Len(store) + 1, can |-> Current.vt.mutable]
  <2>1. Env!AddVariable(Current.name, holder)
    BY <1>4 DEF DeclareVariable, Env!DeclareVariable
  <2> HIDE DEF holder
  <2>2. \A n \in Names : n # Current.name => SameSlot(n)
    BY <1>2, <2>1, OtherSlotsStay
  <2>3. Env!CanDefine(Current.name)
    BY <1>2, Recalled DEF Recalls, Env!CanDefine, Env!IsInCurrentScope, Env!Innermost, Env!Top
  <2> QED
    BY <2>2, <2>3 DEF NewNamesAreFree, SameSlot
<1> QED
  BY <1>3, <1>4

FreeParameters == At("Parameter") => Env!CanDefine(Current.param.name)

LEMMA BindFree == ASSUME IInv, FreeParameters, BindParameter PROVE NewNamesAreFree
<1>1. At("Parameter") /\ Env!BindParam(Current.param.name, Current.param.vt, Current.arg)
  BY DEF BindParameter
<1>2. stack # <<>> /\ Current.do \notin Registering
  BY <1>1, Running DEF Registering
<1>3. \E holder : Env!AddVariable(Current.param.name, holder)
  BY <1>1 DEF Env!BindParam, Env!DeclareHolder, Env!DeclareVariable
<1>4. \A n \in Names : n # Current.param.name => SameSlot(n)
  BY <1>2, <1>3, OtherSlotsStay
<1> QED
  BY <1>1, <1>4 DEF NewNamesAreFree, SameSlot, FreeParameters

LEMMA ExpressionFree == ASSUME IInv, VisitExpression PROVE NewNamesAreFree
<1> USE DEF Return, Goto, Visit, Throw, Deliver, envVars
<1>1. CASE VisitLiteral \/ VisitIdentifier \/ VisitFunctionCall \/ GetArguments \/ CollectArgument
  BY <1>1, SameFramesFree DEF VisitLiteral, VisitIdentifier, VisitFunctionCall, GetArguments, CollectArgument
<1>2. CASE Invoke
  BY <1>2, FrameStepFree, SameFramesFree DEF Invoke
<1>3. CASE EndCall
  <2>1. Env!ExitingFunction /\ callFrames # <<>>
    BY <1>3, Running, InSomeCall DEF EndCall, Registering
  <2> QED
    BY <2>1, FrameStepFree
<1>4. CASE VisitTypeCast \/ ApplyCast \/ VisitBinary \/ VisitRightOperand
  BY <1>4, SameFramesFree DEF VisitTypeCast, ApplyCast, VisitBinary, VisitRightOperand
<1>5. CASE ApplyBinary \/ VisitUnary \/ ApplyUnary
  BY <1>5, SameFramesFree DEF ApplyBinary, VisitUnary, ApplyUnary
<1>6. CASE VisitBindFront \/ VisitBindTarget \/ ApplyBindFront
  BY <1>6, SameFramesFree DEF VisitBindFront, VisitBindTarget, ApplyBindFront
<1> QED
  BY <1>1, <1>2, <1>3, <1>4, <1>5, <1>6 DEF VisitExpression

LEMMA FunctionFree == ASSUME IInv, FreeParameters, CallFunction PROVE NewNamesAreFree
<1> USE DEF Return, Goto, Throw, envVars
<1>1. CASE CallGlobal \/ CallBuiltin \/ CallBindFront
  BY <1>1, SameFramesFree DEF CallGlobal, CallBuiltin, CallBindFront
<1>2. CASE BindParameter
  BY <1>2, BindFree
<1>3. CASE CallComposed \/ CallSecondHalf
  BY <1>3, FrameStepFree, SameFramesFree DEF CallComposed, CallSecondHalf
<1>4. CASE EndHalf
  <2>1. Env!ExitingFunction /\ callFrames # <<>>
    BY <1>4, Running, InSomeCall DEF EndHalf, Registering
  <2> QED
    BY <2>1, FrameStepFree
<1> QED
  BY <1>1, <1>2, <1>3, <1>4 DEF CallFunction

LEMMA StatementFree == ASSUME IInv, Kept, VisitStatement PROVE NewNamesAreFree
<1> USE DEF Return, Goto, Visit, Throw, SetCondition, envVars
<1>1. CASE VisitCodeBlock \/ VisitForLoop
  <2>1. PICK what \in {"CodeBlock", "ForLoop"} : At(what) /\ Env!AddScope
    BY <1>1 DEF VisitCodeBlock, VisitForLoop
  <2> QED
    BY <2>1, Running, ScopeStepFree DEF Registering
<1>2. CASE LeaveCodeBlock \/ ExitLoop
  <2>1. PICK what \in {"PopScope", "LoopEnd"} : At(what) /\ Env!PopScope
    BY <1>2 DEF LeaveCodeBlock, ExitLoop
  <2> QED
    BY <2>1, Running, ScopeStepFree DEF ScopeOwers, Registering
<1>3. CASE DeclareVariable
  BY <1>3, DeclareFree
<1>4. CASE AssignVariable
  BY <1>4, SameFramesFree DEF AssignVariable, Env!AssignThrough
<1>5. CASE EndStatement \/ VisitVariableDeclaration \/ VisitAssignStatement \/ VisitExpressionStatement \/ DiscardResult
  BY <1>5, SameFramesFree
     DEF EndStatement, VisitVariableDeclaration, VisitAssignStatement, VisitExpressionStatement, DiscardResult
<1>6. CASE VisitReturnStatement \/ ReturnResult \/ VisitContinue \/ VisitBreak
  BY <1>6, SameFramesFree DEF VisitReturnStatement, ReturnResult, VisitContinue, VisitBreak
<1>7. CASE StartIteration \/ EndIteration
  BY <1>7, SameFramesFree DEF StartIteration, EndIteration
<1>8. CASE VisitIfStatement \/ TestIf \/ NextElseIf \/ VisitElseIf \/ TestElseIf \/ EndIf
  BY <1>8, SameFramesFree DEF VisitIfStatement, TestIf, NextElseIf, VisitElseIf, TestElseIf, EndIf
<1> QED
  BY <1>1, <1>2, <1>3, <1>4, <1>5, <1>6, <1>7, <1>8 DEF VisitStatement

LEMMA NextIsFree == IInv /\ Kept /\ FreeParameters /\ [Next]_vars => NewNamesAreFree
<1> SUFFICES ASSUME IInv, Kept, FreeParameters, [Next]_vars
             PROVE  NewNamesAreFree
  OBVIOUS
<1>1. CASE VisitFunctionDefinition
  BY <1>1, SameFramesFree DEF VisitFunctionDefinition, Throw, envVars, Env!RegisterFunction
<1>2. CASE ExecuteMain
  BY <1>2, FrameStepFree, SameFramesFree DEF ExecuteMain, Throw, envVars
<1>3. CASE VisitExpression \/ CallFunction \/ VisitStatement
  BY <1>3, ExpressionFree, FunctionFree, StatementFree
<1>4. CASE Finish \/ Stopped \/ UNCHANGED vars
  BY <1>4, SameFramesFree DEF Finish, Stopped, vars, envVars
<1> QED
  BY <1>1, <1>2, <1>3, <1>4 DEF Next, Run

(* A variable never hides a global function or another one of its scope, in   *)
(* every program whose parameters do not: only a declaration looks its name    *)
(* up (interpreter.cpp 86-104), Scope::add_variable overwrites a parameter     *)
(* (global_function.cpp 15-27).                                              *)
THEOREM NamesStayApart == Spec /\ []FreeParameters => NoNameTaken
<1>1. Init => IInv /\ Kept
  BY Initially, KeptInitially
<1>2. IInv /\ Kept /\ [Next]_vars => (IInv /\ Kept)'
  BY Always, AlwaysKept
<1>3. IInv /\ Kept /\ FreeParameters /\ [Next]_vars => [NewNamesAreFree]_vars
  BY NextIsFree
<1> QED
  BY <1>1, <1>2, <1>3, PTL DEF Spec, NoNameTaken, NewNamesAreFree
=============================================================================
