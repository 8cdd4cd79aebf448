------------------------- MODULE StageLifecycleProofs -------------------------
(***************************************************************************)
(* The safety of the stage lifecycle for a chain of any length, and of the *)
(* times its stages measure.                                               *)
(*                                                                         *)
(* The stages above at wait, each for the call it made of its child, and   *)
(* what a stage waits for bounds the state of both: that is the inductive  *)
(* invariant.  ClosedBelow speaks of all stages below, not of the child    *)
(* alone, so that no induction along the chain is needed.                  *)
(*                                                                         *)
(* The time of a stage includes that of its child, for a clock of any      *)
(* resolution and calls in any order.  What a child has added was spent in *)
(* calls of its parent, so that it is covered, call by call, by what the   *)
(* parent has added and will add.  The invariant says so of a call in      *)
(* progress: all that the child has added is covered by what the parent    *)
(* has added and by its current call up to the time until which the child  *)
(* is accounted for.                                                       *)
(***************************************************************************)
EXTENDS StageTiming, TLAPS

\* Where a child can wait while its parent waits at q, and the calls and
\* results that can be between them.
Fits(q, r) == \/ q = "opening" /\ r \in {"opening", "draining", "rollback"}
              \/ q \in {"draining", "pulling"} /\ r = "pulling"
              \/ q \in {"rollback", "closing"} /\ r = "closing"

Between(q, m) == \/ q = "opening" /\ m \in {"open", "ok", "throw"}
                 \/ /\ q \in {"draining", "pulling"}
                    /\ m \in {"getNext", "kAdvanced", "kEof", "throw"}
                 \/ q \in {"rollback", "closing"} /\ m \in {"close", "ok"}

Stack ==
    /\ \A i \in Stage : pc[i] = "idle" <=> i <= at
    /\ \A i \in Stage : i > at + 1 => Fits(pc[i], pc[i - 1])
    /\ \A i \in Stage : i = at + 1 => Between(pc[i], msg)

\* What the state of a waiting stage is.
Own ==
    \A i \in Stage :
        /\ pc[i] \in {"opening", "draining", "rollback"} => state[i] = "kUnopened"
        /\ pc[i] = "pulling" => state[i] = "kOpen"
        /\ pc[i] = "closing" => state[i] # "kClosed"

\* What the state of the child of a stage is.
ChildOf(i) ==
    /\ pc[i] = "idle" =>
          /\ state[i] = "kUnopened" <=> state[i - 1] = "kUnopened"
          /\ state[i] = "kClosed" <=> state[i - 1] = "kClosed"
    /\ pc[i] = "opening" /\ at = i - 1 =>
          /\ msg = "open"  => state[i - 1] = "kUnopened"
          /\ msg = "ok"    => state[i - 1] = "kOpen"
          /\ msg = "throw" => state[i - 1] = "kClosed"
    /\ pc[i] \in {"draining", "pulling"} => state[i - 1] \in {"kOpen", "kEof"}
    /\ pc[i] \in {"rollback", "closing"} /\ at = i - 1 /\ msg = "ok"
          => state[i - 1] = "kClosed"

Child == \A i \in Stage : i > 1 => ChildOf(i)

ClosedBelow ==
    \A i \in Stage : pc[i] = "idle" /\ state[i] = "kClosed" =>
        \A j \in Stage : j < i => state[j] = "kClosed"

IInv == TypeOK /\ Stack /\ Own /\ Child /\ ClosedBelow /\ ReleasedOnce /\ OnlyOwnerMisuses

LEMMA InitInv == Init => IInv
BY NAssumption, SMTT(60) DEF Init, IInv, TypeOK, Stack, Own, Child, ChildOf, ClosedBelow, ReleasedOnce,
   OnlyOwnerMisuses, Stage, LifecycleState, Results, Fits, Between

LEMMA MisuseInv == ASSUME IInv, NEW i \in Stage, Misuse(i) PROVE IInv'
<1> USE NAssumption DEF Stage
<1>1. i = N
  <2>1. SUFFICES ASSUME i < N PROVE FALSE
    OBVIOUS
  <2>2. i + 1 \in Stage /\ at = i /\ Between(pc[i + 1], msg) /\ pc[i + 1] \in Waiting
    BY <2>1 DEF Misuse, Called, IInv, TypeOK, Stack, Waiting
  <2>3. CASE msg = "open"
    BY <2>2, <2>3 DEF Misuse, Called, Between, Waiting, IInv, Child, ChildOf
  <2>4. CASE msg = "getNext"
    BY <2>2, <2>4 DEF Misuse, Called, Between, Waiting, IInv, Child, ChildOf
  <2>. QED  BY <2>3, <2>4 DEF Misuse, Called
<1>2. TypeOK'
  BY DEF Misuse, Called, Return, IInv, TypeOK, Results
<1>3. Stack'
  BY <1>1 DEF Misuse, Called, Return, IInv, TypeOK, Stack
<1>4. Own' /\ Child' /\ ClosedBelow' /\ ReleasedOnce' /\ OnlyOwnerMisuses'
  BY <1>1 DEF Misuse, Called, Return, IInv, TypeOK, Stack, Own, Child, ChildOf, ClosedBelow, ReleasedOnce, OnlyOwnerMisuses
<1>. QED  BY <1>2, <1>3, <1>4 DEF IInv
-----------------------------------------------------------------------------
\* Stage i, in control, calls its child with c and waits at q.
LEMMA CallStep ==
    ASSUME IInv, NEW i \in Stage, i > 1, at \in {i, i - 1},
           NEW c \in Calls, NEW q \in Waiting, CallChild(i, c, q),
           UNCHANGED <<blocking, state, closes, misused>>,
           Between(q, c),
           i < N => Fits(pc[i + 1], q),
           q \in {"opening", "draining", "rollback"} => state[i] = "kUnopened",
           q = "pulling" => state[i] = "kOpen",
           q = "closing" => state[i] # "kClosed",
           q = "opening" => state[i - 1] = "kUnopened",
           q \in {"draining", "pulling"} => state[i - 1] \in {"kOpen", "kEof"}
    PROVE  IInv'
<1> USE NAssumption DEF Stage
<1>1. TypeOK'
  BY DEF CallChild, IInv, TypeOK
<1>2. pc' = [pc EXCEPT ![i] = q] /\ at' = i - 1 /\ msg' = c /\ i - 1 \in Stage
  BY DEF CallChild
<1>3. pc \in [Stage -> Waiting \cup {"idle"}] /\ q # "idle"
  BY DEF IInv, TypeOK, Waiting
<1>4. Stack'
  <2>1. \A j \in Stage : pc'[j] = "idle" <=> j <= at'
    BY <1>2, <1>3 DEF IInv, Stack
  <2>2. \A j \in Stage : j > at' + 1 => Fits(pc'[j], pc'[j - 1])
    BY <1>2, <1>3 DEF IInv, Stack
  <2>3. \A j \in Stage : j = at' + 1 => Between(pc'[j], msg')
    BY <1>2, <1>3
  <2>. QED  BY <2>1, <2>2, <2>3 DEF Stack
<1>5. Own'
  BY <1>2, <1>3 DEF IInv, Own
<1>6. Child'
  BY <1>2, <1>3 DEF IInv, Child, ChildOf, Calls
<1>7. ClosedBelow' /\ ReleasedOnce' /\ OnlyOwnerMisuses'
  BY <1>2, <1>3 DEF IInv, ClosedBelow, ReleasedOnce, OnlyOwnerMisuses
<1>. QED  BY <1>1, <1>4, <1>5, <1>6, <1>7 DEF IInv

\* What the parent of stage i may rely on when it gets r from a stage in s.
Serviceable(i, r, s) ==
    i < N =>
      /\ Between(pc[i + 1], r)
      /\ pc[i + 1] = "opening" /\ r = "ok" => s = "kOpen"
      /\ pc[i + 1] = "opening" /\ r = "throw" => s = "kClosed"
      /\ pc[i + 1] \in {"draining", "pulling"} => s \in {"kOpen", "kEof"}
      /\ pc[i + 1] \in {"rollback", "closing"} => s = "kClosed"

\* Stage i, in control, enters the state s and returns r.
LEMMA ReturnStep ==
    ASSUME IInv, NEW i \in Stage, at \in {i, i - 1},
           NEW r \in Results, NEW s \in LifecycleState, Return(i, r),
           state' = [state EXCEPT ![i] = s], UNCHANGED <<blocking, misused>>,
           Serviceable(i, r, s),
           i > 1 => /\ s = "kUnopened" <=> state[i - 1] = "kUnopened"
                    /\ s = "kClosed" <=> state[i - 1] = "kClosed",
           s = "kClosed" => \A j \in Stage : j < i => state[j] = "kClosed",
           closes' = IF s = "kClosed" /\ state[i] # "kClosed"
                     THEN [closes EXCEPT ![i] = @ + 1] ELSE closes,
           s # "kClosed" => state[i] # "kClosed"
    PROVE  IInv'
<1> USE NAssumption DEF Stage
<1>1. TypeOK'
  BY DEF Return, IInv, TypeOK
<1>2. pc' = [pc EXCEPT ![i] = "idle"] /\ at' = i /\ msg' = r
  BY DEF Return
<1>3. /\ pc \in [Stage -> Waiting \cup {"idle"}] /\ r \notin Calls
      /\ state \in [Stage -> LifecycleState] /\ closes \in [Stage -> Nat]
  BY DEF IInv, TypeOK, Results, Calls
<1>4. Stack'
  <2>1. \A j \in Stage : pc'[j] = "idle" <=> j <= at'
    BY <1>2, <1>3 DEF IInv, Stack
  <2>2. \A j \in Stage : j > at' + 1 => Fits(pc'[j], pc'[j - 1])
    BY <1>2, <1>3 DEF IInv, Stack
  <2>3. \A j \in Stage : j = at' + 1 => Between(pc'[j], msg')
    BY <1>2, <1>3 DEF Serviceable
  <2>. QED  BY <2>1, <2>2, <2>3 DEF Stack
<1>5. \A j \in Stage : pc[j] = "idle" <=> j <= at
  BY DEF IInv, Stack
<1>6. Own'
  BY <1>2, <1>3 DEF IInv, Own
<1>7. Child'
  <2>1. ASSUME NEW j \in Stage, j > 1, j # i, j # i + 1 PROVE ChildOf(j)'
    <3>1. /\ state'[j] = state[j] /\ state'[j - 1] = state[j - 1] /\ pc'[j] = pc[j]
          /\ at' # j - 1 /\ (pc[j] # "idle" => at # j - 1)
      BY <1>2, <1>3, <1>5, <2>1
    <3>2. ChildOf(j)
      BY <2>1 DEF IInv, Child
    <3>. QED  BY <3>1, <3>2 DEF ChildOf
  <2>2. ASSUME i > 1 PROVE ChildOf(i)'
    BY <1>2, <1>3, <2>2 DEF ChildOf
  <2>3. ASSUME i + 1 \in Stage PROVE ChildOf(i + 1)'
    <3>1. /\ i < N /\ pc'[i + 1] = pc[i + 1] /\ pc[i + 1] # "idle"
          /\ state'[i + 1 - 1] = s /\ msg' = r
      BY <1>2, <1>3, <1>5, <2>3
    <3>. QED  BY <1>3, <3>1 DEF Serviceable, ChildOf, Calls
  <2>. QED  BY <2>1, <2>2, <2>3 DEF Child
<1>8. ClosedBelow'
  BY <1>2, <1>3, <1>5 DEF IInv, ClosedBelow
<1>9. ReleasedOnce' /\ OnlyOwnerMisuses'
  BY <1>2, <1>3 DEF IInv, ReleasedOnce, OnlyOwnerMisuses
<1>. QED  BY <1>1, <1>4, <1>6, <1>7, <1>8, <1>9 DEF IInv
-----------------------------------------------------------------------------
\* Who waits above a stage that is called, or that its child returns to.
LEMMA Caller ==
    ASSUME IInv, NEW i \in Stage, NEW c \in Calls, Called(i, c)
    PROVE  pc[i] = "idle" /\ (i < N => Between(pc[i + 1], c))
<1>1. i < N => i + 1 \in Stage
  BY NAssumption DEF Stage
<1>. QED  BY <1>1 DEF IInv, Stack, Called, Stage

LEMMA Waiter ==
    ASSUME IInv, NEW i \in Stage, i > 1, pc[i] # "idle", at = i - 1
    PROVE  Between(pc[i], msg) /\ (i < N => Fits(pc[i + 1], pc[i]))
<1>1. i < N => i + 1 \in Stage
  BY NAssumption DEF Stage
<1>. QED  BY <1>1 DEF IInv, Stack, Stage

\* The state of the child agrees with that of a stage that does not wait.
LEMMA IdleChild ==
    ASSUME IInv, NEW i \in Stage, i > 1, pc[i] = "idle"
    PROVE  /\ i - 1 \in Stage
           /\ state[i] \in LifecycleState /\ state[i - 1] \in LifecycleState
           /\ state[i] = "kUnopened" <=> state[i - 1] = "kUnopened"
           /\ state[i] = "kClosed" <=> state[i - 1] = "kClosed"
<1>1. i - 1 \in Stage
  BY NAssumption DEF Stage
<1>2. state \in [Stage -> LifecycleState] /\ ChildOf(i)
  BY DEF IInv, TypeOK, Child
<1>. QED  BY <1>1, <1>2 DEF ChildOf

\* Below a child that is closed and at rest every stage is closed.
LEMMA AllBelow ==
    ASSUME IInv, NEW i \in Stage, i > 1, at = i - 1, state[i - 1] = "kClosed"
    PROVE  \A j \in Stage : j < i => state[j] = "kClosed"
<1>1. i - 1 \in Stage /\ pc[i - 1] = "idle"
  BY NAssumption DEF IInv, Stack, Stage
<1>. QED  BY <1>1, NAssumption DEF IInv, ClosedBelow, Stage

\* An onOpen() that succeeds, and one that fails.
LEMMA OpenedInv ==
    ASSUME IInv, NEW i \in Stage, at \in {i, i - 1}, Opened(i),
           state[i] = "kUnopened",
           i < N => pc[i + 1] = "opening",
           i > 1 => state[i - 1] \in {"kOpen", "kEof"}
    PROVE  IInv'
<1>1. Serviceable(i, "ok", "kOpen")
  BY DEF Serviceable, Between
<1>. QED
  BY <1>1, ReturnStep DEF Opened, Enter, Results, LifecycleState

LEMMA RollBackInv ==
    ASSUME IInv, NEW i \in Stage, at \in {i, i - 1}, RollBack(i),
           state[i] = "kUnopened",
           i < N => pc[i + 1] = "opening"
    PROVE  IInv'
<1>1. CASE i = 1
  <2>1. Serviceable(i, "throw", "kClosed")
    BY DEF Serviceable, Between
  <2>2. \A j \in Stage : ~ (j < i)
    BY <1>1 DEF Stage
  <2>. QED
    BY <1>1, <2>1, <2>2, ReturnStep
    DEF RollBack, Released, Enter, Results, LifecycleState
<1>2. CASE i > 1
  <2>1. Between("rollback", "close") /\ (i < N => Fits(pc[i + 1], "rollback"))
    BY DEF Between, Fits
  <2>. QED
    BY <1>2, <2>1, CallStep DEF RollBack, Calls, Waiting
<1>. QED  BY <1>1, <1>2 DEF Stage

\* The child is closed: the stage closes and gives r to a parent that waits at q.
LEMMA ReleasedInv ==
    ASSUME IInv, NEW i \in Stage, Released(i), NEW r \in Results, Return(i, r),
           UNCHANGED <<blocking, misused>>,
           i = 1 => at = 1,
           i > 1 => at = i - 1 /\ state[i - 1] = "kClosed",
           state[i] # "kClosed",
           Serviceable(i, r, "kClosed")
    PROVE  IInv'
<1>1. at \in {i, i - 1}
  BY DEF Stage
<1>2. \A j \in Stage : j < i => state[j] = "kClosed"
  BY AllBelow DEF Stage
<1>. QED
  BY <1>1, <1>2, ReturnStep DEF Released, Enter, LifecycleState
-----------------------------------------------------------------------------
LEMMA OpenCallInv == ASSUME IInv, NEW i \in Stage, OpenCall(i) PROVE IInv'
<1>1. /\ at = i /\ pc[i] = "idle" /\ state[i] = "kUnopened"
      /\ i < N => pc[i + 1] = "opening"
  BY Caller DEF OpenCall, Called, Calls, Between
<1>2. CASE i = 1 /\ Opened(i)
  BY <1>1, <1>2, OpenedInv
<1>3. CASE i = 1 /\ RollBack(i)
  BY <1>1, <1>3, RollBackInv
<1>4. CASE /\ i > 1 /\ CallChild(i, "open", "opening")
           /\ UNCHANGED <<blocking, state, closes, misused>>
  <2>1. Between("opening", "open") /\ (i < N => Fits(pc[i + 1], "opening"))
    BY <1>1 DEF Between, Fits
  <2>2. state[i - 1] = "kUnopened"
    BY <1>1, <1>4, IdleChild
  <2>. QED
    BY <1>1, <1>4, <2>1, <2>2, CallStep DEF Calls, Waiting
<1>. QED  BY <1>2, <1>3, <1>4 DEF OpenCall

LEMMA OpenReturnInv == ASSUME IInv, NEW i \in Stage, OpenReturn(i) PROVE IInv'
<1>1. i > 1 /\ pc[i] = "opening" /\ at = i - 1 /\ i - 1 \in Stage
  BY NAssumption DEF OpenReturn, ChildGave, Stage
<1>2. i < N => pc[i + 1] = "opening"
  BY <1>1, Waiter DEF Fits
<1>3. /\ state[i] = "kUnopened"
      /\ msg = "ok" => state[i - 1] = "kOpen"
  BY <1>1 DEF IInv, Own, Child, ChildOf
<1>4. CASE ChildGave(i, "ok") /\ Opened(i)
  BY <1>1, <1>2, <1>3, <1>4, OpenedInv DEF ChildGave
<1>5. CASE /\ ChildGave(i, "ok") /\ CallChild(i, "getNext", "draining")
           /\ UNCHANGED <<blocking, state, closes, misused>>
  <2>1. Between("draining", "getNext") /\ (i < N => Fits(pc[i + 1], "draining"))
    BY <1>2 DEF Between, Fits
  <2>. QED
    BY <1>1, <1>3, <1>5, <2>1, CallStep DEF Calls, Waiting, ChildGave
<1>6. CASE RollBack(i)
  BY <1>1, <1>2, <1>3, <1>6, RollBackInv
<1>. QED  BY <1>4, <1>5, <1>6 DEF OpenReturn

LEMMA DrainReturnInv == ASSUME IInv, NEW i \in Stage, DrainReturn(i) PROVE IInv'
<1>1. i > 1 /\ pc[i] = "draining" /\ at = i - 1
  BY DEF DrainReturn, ChildGave
<1>2. i < N => pc[i + 1] = "opening"
  BY <1>1, Waiter DEF Fits
<1>3. state[i] = "kUnopened" /\ state[i - 1] \in {"kOpen", "kEof"}
  BY <1>1 DEF IInv, Own, Child, ChildOf
<1>4. CASE CallChild(i, "getNext", "draining") /\ UNCHANGED <<blocking, state, closes, misused>>
  <2>1. Between("draining", "getNext") /\ (i < N => Fits(pc[i + 1], "draining"))
    BY <1>2 DEF Between, Fits
  <2>. QED
    BY <1>1, <1>3, <1>4, <2>1, CallStep DEF Calls, Waiting
<1>5. CASE Opened(i)
  BY <1>1, <1>2, <1>3, <1>5, OpenedInv
<1>6. CASE RollBack(i)
  BY <1>1, <1>2, <1>3, <1>6, RollBackInv
<1>. QED  BY <1>4, <1>5, <1>6 DEF DrainReturn

LEMMA RollbackReturnInv == ASSUME IInv, NEW i \in Stage, RollbackReturn(i) PROVE IInv'
<1>1. i > 1 /\ pc[i] = "rollback" /\ at = i - 1 /\ msg = "ok"
  BY DEF RollbackReturn, ChildGave
<1>2. i < N => pc[i + 1] = "opening"
  BY <1>1, Waiter DEF Fits
<1>3. state[i] = "kUnopened" /\ state[i - 1] = "kClosed"
  BY <1>1 DEF IInv, Own, Child, ChildOf
<1>4. Serviceable(i, "throw", "kClosed")
  BY <1>2 DEF Serviceable, Between
<1>. QED
  BY <1>1, <1>3, <1>4, ReleasedInv DEF RollbackReturn, Results

LEMMA CloseCallInv == ASSUME IInv, NEW i \in Stage, CloseCall(i) PROVE IInv'
<1>1. /\ at = i /\ pc[i] = "idle"
      /\ i < N => pc[i + 1] \in {"rollback", "closing"}
  BY Caller DEF CloseCall, Called, Calls, Between
<1>2. Serviceable(i, "ok", "kClosed")
  BY <1>1 DEF Serviceable, Between
<1>3. CASE state[i] = "kClosed" /\ Return(i, "ok") /\ UNCHANGED <<blocking, state, closes, misused>>
  <2>1. state' = [state EXCEPT ![i] = "kClosed"]
    BY <1>3 DEF IInv, TypeOK
  <2>2. \A j \in Stage : j < i => state[j] = "kClosed"
    BY <1>1, <1>3 DEF IInv, ClosedBelow
  <2>. QED
    BY <1>1, <1>2, <1>3, <2>1, <2>2, IdleChild, ReturnStep DEF Results, LifecycleState
<1>4. CASE state[i] # "kClosed" /\ i = 1 /\ Released(i) /\ Return(i, "ok")
           /\ UNCHANGED <<blocking, misused>>
  BY <1>1, <1>2, <1>4, ReleasedInv DEF Results
<1>5. CASE /\ state[i] # "kClosed" /\ i > 1 /\ CallChild(i, "close", "closing")
           /\ UNCHANGED <<blocking, state, closes, misused>>
  <2>1. Between("closing", "close") /\ (i < N => Fits(pc[i + 1], "closing"))
    BY <1>1 DEF Between, Fits
  <2>. QED
    BY <1>1, <1>5, <2>1, CallStep DEF Calls, Waiting
<1>. QED  BY <1>3, <1>4, <1>5 DEF CloseCall

LEMMA CloseReturnInv == ASSUME IInv, NEW i \in Stage, CloseReturn(i) PROVE IInv'
<1>1. i > 1 /\ pc[i] = "closing" /\ at = i - 1 /\ msg = "ok"
  BY DEF CloseReturn, ChildGave
<1>2. i < N => pc[i + 1] \in {"rollback", "closing"}
  BY <1>1, Waiter DEF Fits
<1>3. state[i] # "kClosed" /\ state[i - 1] = "kClosed"
  BY <1>1 DEF IInv, Own, Child, ChildOf
<1>4. Serviceable(i, "ok", "kClosed")
  BY <1>2 DEF Serviceable, Between
<1>. QED
  BY <1>1, <1>3, <1>4, ReleasedInv DEF CloseReturn, Results
\* A getNext() that answers its caller: it leaves the stage open or at its end.
LEMMA AnswerInv ==
    ASSUME IInv, NEW i \in Stage, at \in {i, i - 1},
           NEW r \in Results, NEW s \in {"kOpen", "kEof"}, Return(i, r),
           state' = [state EXCEPT ![i] = s], UNCHANGED <<blocking, closes, misused>>,
           state[i] \in {"kOpen", "kEof"},
           r \in {"kAdvanced", "kEof", "throw"},
           i < N => pc[i + 1] \in {"draining", "pulling"},
           i > 1 => state[i - 1] \notin {"kUnopened", "kClosed"}
    PROVE  IInv'
<1>1. Serviceable(i, r, s)
  BY DEF Serviceable, Between
<1>. QED
  BY <1>1, ReturnStep DEF LifecycleState

LEMMA GetNextCallInv == ASSUME IInv, NEW i \in Stage, GetNextCall(i) PROVE IInv'
<1>1. /\ at = i /\ pc[i] = "idle" /\ state[i] \in {"kOpen", "kEof"}
      /\ i < N => pc[i + 1] \in {"draining", "pulling"}
  BY Caller DEF GetNextCall, Called, Calls, Between
<1>2. i > 1 => state[i - 1] \in {"kOpen", "kEof"}
  BY <1>1, IdleChild DEF LifecycleState
<1>3. state = [state EXCEPT ![i] = state[i]]
  BY DEF IInv, TypeOK
<1>4. CASE Return(i, "kEof") /\ Enter(i, "kEof") /\ UNCHANGED <<blocking, closes, misused>>
  BY <1>1, <1>2, <1>4, AnswerInv DEF Results, Enter
<1>5. CASE Return(i, "kAdvanced") /\ UNCHANGED <<blocking, state, closes, misused>>
  BY <1>1, <1>2, <1>3, <1>5, AnswerInv DEF Results
<1>6. CASE Return(i, "throw") /\ UNCHANGED <<blocking, state, closes, misused>>
  BY <1>1, <1>2, <1>3, <1>6, AnswerInv DEF Results
<1>7. CASE /\ i > 1 /\ state[i] = "kOpen" /\ CallChild(i, "getNext", "pulling")
           /\ UNCHANGED <<blocking, state, closes, misused>>
  <2>1. Between("pulling", "getNext") /\ (i < N => Fits(pc[i + 1], "pulling"))
    BY <1>1 DEF Between, Fits
  <2>. QED
    BY <1>1, <1>2, <1>7, <2>1, CallStep DEF Calls, Waiting
<1>. QED  BY <1>4, <1>5, <1>6, <1>7 DEF GetNextCall

LEMMA PullReturnInv == ASSUME IInv, NEW i \in Stage, PullReturn(i) PROVE IInv'
<1>1. i > 1 /\ pc[i] = "pulling" /\ at = i - 1
  BY DEF PullReturn, ChildGave
<1>2. i < N => pc[i + 1] \in {"draining", "pulling"}
  BY <1>1, Waiter DEF Fits
<1>3. state[i] = "kOpen" /\ state[i - 1] \in {"kOpen", "kEof"}
  BY <1>1 DEF IInv, Own, Child, ChildOf
<1>4. state = [state EXCEPT ![i] = state[i]]
  BY DEF IInv, TypeOK
<1>5. CASE Return(i, "kAdvanced") /\ UNCHANGED <<blocking, state, closes, misused>>
  BY <1>1, <1>2, <1>3, <1>4, <1>5, AnswerInv DEF Results
<1>6. CASE Return(i, "throw") /\ UNCHANGED <<blocking, state, closes, misused>>
  BY <1>1, <1>2, <1>3, <1>4, <1>6, AnswerInv DEF Results
<1>7. CASE Return(i, "kEof") /\ Enter(i, "kEof") /\ UNCHANGED <<blocking, closes, misused>>
  BY <1>1, <1>2, <1>3, <1>7, AnswerInv DEF Results, Enter
<1>8. CASE CallChild(i, "getNext", "pulling") /\ UNCHANGED <<blocking, state, closes, misused>>
  <2>1. Between("pulling", "getNext") /\ (i < N => Fits(pc[i + 1], "pulling"))
    BY <1>2 DEF Between, Fits
  <2>. QED
    BY <1>1, <1>3, <1>8, <2>1, CallStep DEF Calls, Waiting
<1>. QED  BY <1>5, <1>6, <1>7, <1>8 DEF PullReturn

LEMMA OwnerCallsInv == ASSUME IInv, NEW c \in Calls, OwnerCalls(c) PROVE IInv'
<1> USE NAssumption DEF Stage
<1>1. \A i \in Stage : pc[i] = "idle"
  BY DEF IInv, Stack, OwnerCalls
<1>2. TypeOK' /\ Own' /\ ClosedBelow' /\ ReleasedOnce' /\ OnlyOwnerMisuses'
  BY DEF IInv, TypeOK, Own, ClosedBelow, ReleasedOnce, OnlyOwnerMisuses, OwnerCalls
<1>3. Stack' /\ Child'
  BY <1>1 DEF IInv, Stack, Child, ChildOf, OwnerCalls
<1>. QED  BY <1>2, <1>3 DEF IInv
-----------------------------------------------------------------------------
LEMMA NextInv == IInv /\ [Next]_vars => IInv'
<1>1. SUFFICES ASSUME IInv, [Next]_vars PROVE IInv'
  OBVIOUS
<1>2. CASE UNCHANGED vars
  BY <1>1, <1>2 DEF vars, IInv, TypeOK, Stack, Own, Child, ChildOf, ClosedBelow,
     ReleasedOnce, OnlyOwnerMisuses
<1>3. ASSUME NEW c \in Calls, OwnerCalls(c) PROVE IInv'
  BY <1>1, <1>3, OwnerCallsInv
<1>4. ASSUME NEW i \in Stage, StageStep(i) PROVE IInv'
  BY <1>1, <1>4, MisuseInv, OpenCallInv, OpenReturnInv, DrainReturnInv,
     RollbackReturnInv, GetNextCallInv, PullReturnInv, CloseCallInv, CloseReturnInv
  DEF StageStep
<1>. QED  BY <1>1, <1>2, <1>3, <1>4 DEF Next

LEMMA Invariance == Spec => []IInv
BY InitInv, NextInv, PTL DEF Spec

\* The variables keep their types (plan_stage_base.h: state_ and stats_).
THEOREM LifecycleTypeCorrect == Spec => []TypeOK
<1>1. IInv => TypeOK
  BY DEF IInv
<1>. QED  BY <1>1, Invariance, PTL

\* In a chain of any length no stage misuses its child: open() and close() of
\* PlanStageBase keep the two in step whatever the owner does.
THEOREM ChildrenNeverMisused == Spec => []OnlyOwnerMisuses
<1>1. IInv => OnlyOwnerMisuses
  BY DEF IInv
<1>. QED  BY <1>1, Invariance, PTL

\* Every stage releases its resources once, on whichever path it is closed.
THEOREM StagesReleasedOnce == Spec => []ReleasedOnce
<1>1. IInv => ReleasedOnce
  BY DEF IInv
<1>. QED  BY <1>1, Invariance, PTL

\* Between the owner's calls the whole chain is unopened, open or closed.
THEOREM ChainStaysInStep == Spec => []ChainAgrees
<1>1. IInv => ChainAgrees
  <2>1. SUFFICES ASSUME IInv, Quiet, NEW i \in 2 .. N
                 PROVE  /\ state[i] = "kUnopened" <=> state[i - 1] = "kUnopened"
                        /\ state[i] = "kClosed" <=> state[i - 1] = "kClosed"
    BY DEF ChainAgrees
  <2>2. i \in Stage /\ i > 1 /\ pc[i] = "idle"
    BY <2>1, NAssumption DEF IInv, Stack, Quiet, Stage
  <2>. QED  BY <2>1, <2>2, IdleChild
<1>. QED  BY <1>1, Invariance, PTL

\* open() that throws leaves no stage open below the one it leaves.
THEOREM FailedOpenLeavesNothingOpen == Spec => []FailedOpenReleases
<1>1. IInv => FailedOpenReleases
  <2>1. SUFFICES ASSUME IInv, NEW i \in 2 .. N, pc[i] = "opening", ChildGave(i, "throw"),
                        NEW j \in 1 .. i - 1
                 PROVE  state[j] = "kClosed"
    BY DEF FailedOpenReleases
  <2>2. i \in Stage /\ i > 1 /\ j \in Stage /\ j < i /\ at = i - 1
    BY <2>1, NAssumption DEF Stage, ChildGave
  <2>3. state[i - 1] = "kClosed"
    BY <2>1, <2>2 DEF IInv, Child, ChildOf, ChildGave
  <2>. QED  BY <2>1, <2>2, <2>3, AllBelow
<1>. QED  BY <1>1, Invariance, PTL

\* No stage goes back: not from closed to open, nor from its end to more rows.
THEOREM StagesGoOneWay == Spec => OneWay
<1>1. IInv /\ [Next]_vars => [\A i \in Stage : Rank(state[i]) <= Rank(state'[i])]_vars
  <2>1. SUFFICES ASSUME IInv, Next, NEW j \in Stage
                 PROVE  Rank(state[j]) <= Rank(state'[j])
    OBVIOUS
  <2>2. state \in [Stage -> LifecycleState]
    BY <2>1 DEF IInv, TypeOK
  <2>3. \A s \in LifecycleState : Rank(s) <= Rank(s) /\ Rank(s) <= Rank("kClosed")
    BY DEF LifecycleState, Rank
  <2>4. /\ Rank("kUnopened") <= Rank("kOpen") /\ Rank("kOpen") <= Rank("kEof")
        /\ Rank("kEof") <= Rank("kEof")
    BY DEF Rank
  <2>5. ASSUME NEW i \in Stage, NEW s \in LifecycleState, Enter(i, s), Rank(state[i]) <= Rank(s)
        PROVE  Rank(state[j]) <= Rank(state'[j])
    BY <2>2, <2>3, <2>5 DEF Enter
  <2>6. ASSUME state' = state PROVE Rank(state[j]) <= Rank(state'[j])
    BY <2>2, <2>3, <2>6
  <2>7. ASSUME NEW i \in Stage, Released(i) PROVE Rank(state[j]) <= Rank(state'[j])
    BY <2>2, <2>3, <2>5, <2>7 DEF Released, LifecycleState
  <2>8. ASSUME NEW i \in Stage, RollBack(i) PROVE Rank(state[j]) <= Rank(state'[j])
    BY <2>6, <2>7, <2>8 DEF RollBack
  <2>9. ASSUME NEW i \in Stage, Opened(i), state[i] = "kUnopened"
        PROVE  Rank(state[j]) <= Rank(state'[j])
    BY <2>5, <2>9, <2>4 DEF Opened, LifecycleState
  <2>10. ASSUME NEW i \in Stage, Enter(i, "kEof"), state[i] \in {"kOpen", "kEof"}
        PROVE  Rank(state[j]) <= Rank(state'[j])
    BY <2>5, <2>10, <2>4 DEF LifecycleState
  <2>11. \A i \in Stage : /\ pc[i] \in {"opening", "draining"} => state[i] = "kUnopened"
                          /\ pc[i] = "pulling" => state[i] = "kOpen"
    BY <2>1 DEF IInv, Own
  <2>12. ASSUME NEW i \in Stage, StageStep(i) PROVE Rank(state[j]) <= Rank(state'[j])
    <3>1. CASE Misuse(i) \/ RollbackReturn(i) \/ CloseCall(i) \/ CloseReturn(i)
      BY <2>6, <2>7, <3>1 DEF Misuse, RollbackReturn, CloseCall, CloseReturn
    <3>2. CASE OpenCall(i) \/ OpenReturn(i) \/ DrainReturn(i)
      <4>1. OpenCall(i) => (Opened(i) /\ state[i] = "kUnopened") \/ RollBack(i) \/ state' = state
        BY DEF OpenCall
      <4>2. OpenReturn(i) => (Opened(i) /\ state[i] = "kUnopened") \/ RollBack(i) \/ state' = state
        BY <2>11 DEF OpenReturn
      <4>3. DrainReturn(i) => (Opened(i) /\ state[i] = "kUnopened") \/ RollBack(i) \/ state' = state
        BY <2>11 DEF DrainReturn
      <4>. QED  BY <2>6, <2>8, <2>9, <3>2, <4>1, <4>2, <4>3
    <3>3. CASE GetNextCall(i) \/ PullReturn(i)
      <4>1. \/ Enter(i, "kEof") /\ state[i] \in {"kOpen", "kEof"}
            \/ state' = state
        BY <2>11, <3>3 DEF GetNextCall, PullReturn
      <4>. QED  BY <2>6, <2>10, <4>1
    <3>. QED  BY <2>12, <3>1, <3>2, <3>3 DEF StageStep
  <2>. QED  BY <2>1, <2>6, <2>12 DEF Next, OwnerCalls
<1>. QED  BY <1>1, Invariance, PTL DEF Spec, OneWay
-----------------------------------------------------------------------------
\* Stage i is in a call it will add the time of.
Timed(i) == pc[i] \in {"opening", "draining", "pulling"}

\* The time until which stage i is accounted for.
Until(i) == IF Timed(i) THEN start[i] ELSE now

Covered(i) ==
    IF Timed(i) THEN micros[i - 1] <= micros[i] + Micros(Until(i - 1) - start[i])
                ELSE micros[i - 1] <= micros[i]

TimingTypeOK ==
    /\ now \in Nat
    /\ start \in [Stage -> Nat] /\ \A i \in Stage : start[i] <= now
    /\ micros \in [Stage -> Nat]

AllCovered == \A i \in Stage : i > 1 /\ i \notin lost => Covered(i)

TInv == IInv /\ TimingTypeOK /\ AllCovered

-----------------------------------------------------------------------------
\* Cut off apart, two times are no more than cut off together.
LEMMA MicrosApart ==
    ASSUME NEW a \in Int, NEW b \in Int
    PROVE  /\ Micros(a) \in Int
           /\ Micros(a) + Micros(b) <= Micros(a + b)
<1> DEFINE k == TicksPerMicro
<1>1. k \in Nat /\ k > 0
  BY TicksAssumption
<1>2. ASSUME NEW c \in Int
      PROVE  Micros(c) \in Int /\ k * Micros(c) <= c /\ c < k * Micros(c) + k
  <2>1. Micros(c) \in Int /\ c % k \in 0 .. k - 1 /\ c = k * Micros(c) + (c % k)
    BY <1>1, <1>2 DEF Micros
  <2>2. k * Micros(c) \in Int
    BY <1>1, <2>1
  <2>. HIDE DEF k
  <2>. QED  BY <1>1, <1>2, <2>1, <2>2
<1>. DEFINE x == Micros(a)
            y == Micros(b)
            z == Micros(a + b)
<1>3. /\ x \in Int /\ y \in Int /\ z \in Int
      /\ k * x <= a /\ k * y <= b /\ a + b < k * z + k
  BY <1>2
<1>. HIDE DEF k, x, y, z
<1>4. k * x \in Int /\ k * y \in Int /\ k * z \in Int
  BY <1>1, <1>3
<1>5. k * (x + y) = k * x + k * y /\ k * (z + 1) = k * z + k
  BY <1>1, <1>3
<1>6. k * (x + y) < k * (z + 1)
  BY <1>1, <1>3, <1>4, <1>5
<1>7. x + y < z + 1
  BY <1>1, <1>3, <1>6
<1>. QED  BY <1>3, <1>7 DEF x, y, z

\* More time is not cut off to less, and none to none.
LEMMA MicrosMonotone ==
    ASSUME NEW a \in Int, NEW b \in Int, a <= b PROVE Micros(a) <= Micros(b)
<1>. DEFINE d == b - a
<1>1. d \in Int /\ d >= 0 /\ a + d = b
  OBVIOUS
<1>2. Micros(d) >= 0
  BY <1>1, TicksAssumption DEF Micros
<1>3. Micros(a) + Micros(d) <= Micros(a + d)
  BY <1>1, MicrosApart
<1>4. Micros(a) \in Int /\ Micros(d) \in Int /\ Micros(b) \in Int
  BY <1>1, MicrosApart
<1>5. Micros(a + d) = Micros(b)
  BY <1>1
<1>. HIDE DEF d
<1>. QED  BY <1>2, <1>3, <1>4, <1>5
-----------------------------------------------------------------------------
\* What a step of stage i does to the clock keeps every stage covered: it may begin a
\* call, end one and add its time, or lose it, while its child is at rest.
LEMMA TimingStep ==
    ASSUME TInv, NEW i \in Stage, at \in {i, i - 1},
           NEW q, pc' = [pc EXCEPT ![i] = q],
           now' \in Nat, now <= now',
           \/ Untimed /\ (Timed(i)' <=> Timed(i))
           \/ ~ Timed(i) /\ Timed(i)' /\ Starts(i)
           \/ ~ Timed(i)' /\ AddsSince(i, Until(i)) /\ (i < N => Timed(i + 1))
           \/ ~ Timed(i)' /\ Loses(i)
    PROVE  TimingTypeOK' /\ AllCovered'
<1>. USE NAssumption DEF Stage
<1>1. /\ now \in Nat /\ start \in [Stage -> Nat] /\ micros \in [Stage -> Nat]
      /\ \A j \in Stage : start[j] <= now
      /\ pc \in [Stage -> Waiting \cup {"idle"}]
  BY DEF TInv, TimingTypeOK, IInv, TypeOK
<1>2. \A t \in Int : Micros(t) \in Int /\ (t >= 0 => Micros(t) \in Nat)
  <2>1. \A t \in Int : t >= 0 => Micros(t) \in Nat
    BY TicksAssumption DEF Micros
  <2>. QED  BY <2>1, MicrosApart
<1>3. Until(i) \in Nat /\ Until(i) <= now
  BY <1>1 DEF Until
<1>4. micros' = [micros EXCEPT ![i] = micros'[i]] /\ micros[i] <= micros'[i] /\ micros'[i] \in Nat
  <2>1. CASE UNCHANGED micros
    BY <1>1, <2>1
  <2>2. CASE AddsSince(i, Until(i))
    <3>1. now' - Until(i) \in Int /\ now' - Until(i) >= 0
      BY <1>1, <1>3
    <3>2. Micros(now' - Until(i)) \in Nat
      BY <3>1, <1>2
    <3>. QED  BY <1>1, <2>2, <3>2 DEF AddsSince
  <2>. QED  BY <2>1, <2>2 DEF Untimed, timing, Starts, Loses
<1>5. start' = [start EXCEPT ![i] = start'[i]] /\ start'[i] \in {start[i], now}
  BY <1>1 DEF Untimed, timing, Starts, Loses, AddsSince
<1>6. TimingTypeOK'
  <2>1. micros' \in [Stage -> Nat] /\ start' \in [Stage -> Nat]
    BY <1>1, <1>4, <1>5
  <2>2. ASSUME NEW j \in Stage PROVE start'[j] <= now'
    <3>1. start'[j] \in {start[j], now} /\ start[j] <= now
      BY <1>1, <1>5
    <3>. QED  BY <1>1, <3>1
  <2>. QED  BY <2>1, <2>2 DEF TimingTypeOK
<1>7. lost \subseteq lost'
  BY DEF Untimed, timing, Starts, Loses, AddsSince
<1>8. SUFFICES ASSUME NEW j \in Stage, j > 1, j \notin lost' PROVE Covered(j)'
  BY <1>6 DEF AllCovered
<1>9. Covered(j) /\ j - 1 \in Stage
  BY <1>7, <1>8 DEF TInv, AllCovered
<1>10. /\ now' \in Nat /\ now <= now'
       /\ start[j] \in Nat /\ micros[j] \in Nat /\ micros[j - 1] \in Nat
       /\ Until(j - 1) \in Nat /\ Until(j - 1) <= now
  BY <1>1, <1>9 DEF Until
\* Nothing but the time has moved on.
<1>11. ASSUME micros'[j - 1] = micros[j - 1], micros'[j] = micros[j], start'[j] = start[j],
              Timed(j)' <=> Timed(j), Until(j - 1)' \in Nat, Until(j - 1) <= Until(j - 1)'
       PROVE  Covered(j)'
  <2>. DEFINE s == Until(j - 1) - start[j]
              t == Until(j - 1)' - start[j]
  <2>1. s \in Int /\ t \in Int /\ s <= t
    BY <1>10, <1>11
  <2>2. Micros(s) \in Int /\ Micros(t) \in Int /\ Micros(s) <= Micros(t)
    BY <2>1, <1>2, MicrosMonotone
  <2>3. CASE Timed(j)
    <3>1. micros[j - 1] <= micros[j] + Micros(s)
      BY <1>9, <2>3 DEF Covered
    <3>2. micros[j - 1] <= micros[j] + Micros(t)
      BY <1>10, <2>2, <3>1
    <3>. QED  BY <1>11, <2>3, <3>2 DEF Covered, Micros
  <2>4. CASE ~ Timed(j)
    BY <1>9, <1>11, <2>4 DEF Covered
  <2>. QED  BY <2>3, <2>4
<1>12. \A n \in Stage : n # i => (Timed(n)' <=> Timed(n)) /\ start'[n] = start[n] /\ micros'[n] = micros[n]
  BY <1>1, <1>4, <1>5 DEF Timed
<1>13. CASE j # i /\ j - 1 # i
  <2>1. Until(j - 1)' = IF Timed(j - 1) THEN start[j - 1] ELSE now'
    BY <1>9, <1>12, <1>13 DEF Until
  <2>2. Until(j - 1)' \in Nat /\ Until(j - 1) <= Until(j - 1)'
    BY <1>1, <1>9, <1>10, <2>1 DEF Until
  <2>. QED  BY <1>9, <1>11, <1>12, <1>13, <2>2
\* The stage itself: its child is at rest.
<1>14. CASE j = i
  <2>1. ~ Timed(i - 1) /\ ~ Timed(i - 1)'
    <3>1. pc[i - 1] = "idle"
      BY <1>9, <1>14 DEF TInv, IInv, Stack
    <3>. QED  BY <1>8, <1>9, <1>12, <1>14, <3>1 DEF Timed
  <2>2. /\ Until(i - 1) = now /\ Until(i - 1)' = now'
        /\ micros'[i - 1] = micros[i - 1]
    BY <1>8, <1>9, <1>12, <1>14, <2>1 DEF Until
  <2>3. CASE Untimed /\ (Timed(i)' <=> Timed(i))
    BY <1>10, <1>11, <1>14, <2>2, <2>3 DEF Untimed, timing
  <2>4. CASE ~ Timed(i) /\ Timed(i)' /\ Starts(i)
    <3>1. start'[i] = now /\ micros'[i] = micros[i] /\ micros[i - 1] <= micros[i]
      BY <1>1, <1>9, <1>14, <2>4 DEF Starts, Covered
    <3>2. Micros(now' - now) \in Nat
      <4>1. now' - now \in Int /\ now' - now >= 0
        <5>1. now \in Nat /\ now' \in Nat /\ now <= now'
          BY <1>1
        <5>2. \A x, y \in Nat : x <= y => y - x \in Int /\ y - x >= 0
          OBVIOUS
        <5>. QED  BY <5>1, <5>2
      <4>. QED  BY <4>1, <1>2
    <3>3. micros'[i - 1] <= micros'[i] + Micros(Until(i - 1)' - start'[i])
      BY <1>10, <1>14, <2>2, <3>1, <3>2
    <3>. QED  BY <1>14, <2>4, <3>3 DEF Covered, Micros
  <2>5. CASE ~ Timed(i)' /\ AddsSince(i, Until(i))
    <3>1. micros[i - 1] <= micros'[i]
      <4>1. CASE ~ Timed(i)
        BY <1>1, <1>4, <1>9, <1>10, <1>14, <4>1 DEF Covered
      <4>2. CASE Timed(i)
        <5>. DEFINE s == now - start[i]
                    t == now' - start[i]
        <5>1. micros[i - 1] <= micros[i] + Micros(s) /\ micros'[i] = micros[i] + Micros(t)
          BY <1>1, <1>9, <1>14, <2>2, <2>5, <4>2 DEF Covered, AddsSince, Until
        <5>2. s \in Int /\ t \in Int /\ s <= t
          BY <1>1, <1>10, <1>14
        <5>3. Micros(s) \in Int /\ Micros(t) \in Int /\ Micros(s) <= Micros(t)
          BY <5>2, <1>2, MicrosMonotone
        <5>. HIDE DEF s, t
        <5>. QED  BY <1>10, <1>14, <5>1, <5>3
      <4>. QED  BY <4>1, <4>2
    <3>. QED  BY <1>14, <2>2, <2>5, <3>1 DEF Covered
  <2>6. CASE Loses(i)
    BY <1>8, <1>14, <2>6 DEF Loses
  <2>. QED  BY <2>3, <2>4, <2>5, <2>6
\* The parent, if there is one.
<1>15. CASE j = i + 1
  <2>1. /\ j - 1 = i /\ i # j
        /\ (Timed(j)' <=> Timed(j)) /\ start'[j] = start[j] /\ micros'[j] = micros[j]
    BY <1>12, <1>15
  <2>2. CASE Untimed \/ Starts(i) \/ Loses(i)
    <3>1. Until(i)' \in Nat /\ Until(i) <= Until(i)'
      BY <1>1, <1>10, <2>2 DEF Until, Untimed, timing, Starts, Loses
    <3>2. micros'[i] = micros[i]
      BY <2>2 DEF Untimed, timing, Starts, Loses
    <3>. QED  BY <1>11, <2>1, <3>1, <3>2
  <2>3. CASE ~ Timed(i)' /\ AddsSince(i, Until(i)) /\ (i < N => Timed(i + 1))
    <3>. DEFINE s == Until(i) - start[j]
                t == now' - Until(i)
    <3>1. Timed(j) /\ Timed(j)'
      BY <1>15, <2>1, <2>3
    <3>2. /\ micros[i] <= micros[j] + Micros(s)
          /\ micros'[i] = micros[i] + Micros(t)
          /\ Until(i)' = now'
      BY <1>1, <1>9, <2>1, <2>3, <3>1 DEF Covered, AddsSince, Until
    <3>3. s \in Int /\ t \in Int /\ s + t = now' - start[j]
      BY <1>3, <1>10
    <3>4. /\ Micros(s) \in Int /\ Micros(t) \in Int /\ Micros(s + t) \in Int
          /\ Micros(s) + Micros(t) <= Micros(s + t)
      <4>1. s + t \in Int
        BY <3>3
      <4>. HIDE DEF s, t
      <4>. QED  BY <3>3, <4>1, MicrosApart
    <3>5. micros'[i] <= micros[j] + Micros(s + t)
      <4>. DEFINE x == micros[i]
                  y == micros[j]
      <4>1. x \in Int /\ y \in Int /\ x <= y + Micros(s) /\ micros'[i] = x + Micros(t)
        BY <1>1, <3>2
      <4>. HIDE DEF s, t, x
      <4>2. micros'[i] <= y + Micros(s + t)
        <5>. HIDE DEF y
        <5>. QED  BY <3>4, <4>1
      <4>. QED  BY <4>2
    <3>. QED  BY <2>1, <3>1, <3>2, <3>3, <3>5 DEF Covered, Micros
  <2>. QED  BY <2>2, <2>3
<1>. QED  BY <1>13, <1>14, <1>15
-----------------------------------------------------------------------------
\* Where a stage is when it answers: in control, or its child is; and if it was called
\* by open() or getNext() its parent is timed.
LEMMA ParentTimed ==
    ASSUME IInv, NEW i \in Stage, i < N,
           \/ Called(i, "open") \/ Called(i, "getNext")
           \/ i > 1 /\ at = i - 1 /\ pc[i] \in {"opening", "draining", "pulling"}
    PROVE  Timed(i + 1)
<1>1. CASE Called(i, "open") \/ Called(i, "getNext")
  BY <1>1, Caller DEF Calls, Between, Timed
<1>2. CASE i > 1 /\ at = i - 1 /\ pc[i] \in {"opening", "draining", "pulling"}
  BY <1>2, Waiter DEF Fits, Timed
<1>. QED  BY <1>1, <1>2

LEMMA TimedOpenInv ==
    ASSUME TInv, NEW i \in Stage, TimedOpen(i), now' \in Nat, now <= now'
    PROVE  TimingTypeOK' /\ AllCovered'
<1>1. pc \in [Stage -> Waiting \cup {"idle"}] /\ IInv
  BY DEF TInv, IInv, TypeOK
<1>2. CASE OpenCall(i) /\ IF pc'[i] = "opening" THEN Starts(i) ELSE AddsSince(i, now)
  <2>1. at = i /\ pc[i] = "idle" /\ (i < N => Timed(i + 1))
    BY <1>1, <1>2, Caller, ParentTimed DEF OpenCall, Called, Calls
  <2>2. PICK q \in {"opening", "rollback", "idle"} : pc' = [pc EXCEPT ![i] = q]
    BY <1>2 DEF OpenCall, Opened, RollBack, CallChild, Return
  <2>3. ~ Timed(i) /\ Until(i) = now /\ pc'[i] = q
    BY <1>1, <2>1, <2>2 DEF Timed, Until
  <2>4. \/ ~ Timed(i) /\ Timed(i)' /\ Starts(i)
        \/ ~ Timed(i)' /\ AddsSince(i, Until(i)) /\ (i < N => Timed(i + 1))
    BY <1>2, <2>1, <2>2, <2>3 DEF Timed
  <2>. QED  BY <2>1, <2>2, <2>4, TimingStep
<1>3. CASE /\ OpenReturn(i) \/ DrainReturn(i)
           /\ IF pc'[i] = "draining" THEN Untimed ELSE AddsSince(i, start[i])
  <2>1. i > 1 /\ at = i - 1 /\ pc[i] \in {"opening", "draining"}
    BY <1>3 DEF OpenReturn, DrainReturn, ChildGave
  <2>2. PICK q \in {"draining", "rollback", "idle"} : pc' = [pc EXCEPT ![i] = q]
    BY <1>3 DEF OpenReturn, DrainReturn, Opened, RollBack, CallChild, Return
  <2>3. Timed(i) /\ Until(i) = start[i] /\ pc'[i] = q /\ (i < N => Timed(i + 1))
    BY <1>1, <2>1, <2>2, ParentTimed DEF Timed, Until
  <2>4. \/ Untimed /\ (Timed(i)' <=> Timed(i))
        \/ ~ Timed(i)' /\ AddsSince(i, Until(i)) /\ (i < N => Timed(i + 1))
    BY <1>3, <2>2, <2>3 DEF Timed
  <2>. QED  BY <2>1, <2>2, <2>4, TimingStep
<1>. QED  BY <1>2, <1>3 DEF TimedOpen

LEMMA TimedGetNextInv ==
    ASSUME TInv, NEW i \in Stage, TimedGetNext(i), now' \in Nat, now <= now'
    PROVE  TimingTypeOK' /\ AllCovered'
<1>1. pc \in [Stage -> Waiting \cup {"idle"}] /\ IInv
  BY DEF TInv, IInv, TypeOK
<1>2. CASE GetNextCall(i)
  <2>1. at = i /\ pc[i] = "idle" /\ (i < N => Timed(i + 1))
    BY <1>1, <1>2, Caller, ParentTimed DEF GetNextCall, Called, Calls
  <2>2. PICK q \in {"pulling", "idle"} : pc' = [pc EXCEPT ![i] = q]
    BY <1>2 DEF GetNextCall, CallChild, Return
  <2>3. ~ Timed(i) /\ Until(i) = now /\ pc'[i] = q
    BY <1>1, <2>1, <2>2 DEF Timed, Until
  <2>4. state[i] = "kEof" => pc'[i] = "idle"
    BY <1>1, <1>2 DEF GetNextCall, Return
  <2>5. \/ Untimed /\ (Timed(i)' <=> Timed(i))
        \/ ~ Timed(i) /\ Timed(i)' /\ Starts(i)
        \/ ~ Timed(i)' /\ AddsSince(i, Until(i)) /\ (i < N => Timed(i + 1))
        \/ ~ Timed(i)' /\ Loses(i)
    <3>1. pc[i] # "pulling"
      BY <2>1
    <3>2. \/ state[i] = "kEof" /\ Untimed
          \/ IF pc'[i] = "pulling" THEN Starts(i)
             ELSE IF msg' = "throw" THEN Loses(i) ELSE AddsSince(i, now)
      BY <1>2, <3>1 DEF TimedGetNext, PullReturn
    <3>. QED  BY <2>1, <2>2, <2>3, <2>4, <3>2 DEF Timed
  <2>. QED  BY <2>1, <2>2, <2>5, TimingStep
<1>3. CASE /\ PullReturn(i)
           /\ IF pc'[i] = "pulling" THEN Untimed
              ELSE IF msg' = "throw" THEN Loses(i) ELSE AddsSince(i, start[i])
  <2>1. i > 1 /\ at = i - 1 /\ pc[i] = "pulling"
    BY <1>3 DEF PullReturn, ChildGave
  <2>2. PICK q \in {"pulling", "idle"} : pc' = [pc EXCEPT ![i] = q]
    BY <1>3 DEF PullReturn, CallChild, Return
  <2>3. Timed(i) /\ Until(i) = start[i] /\ pc'[i] = q /\ (i < N => Timed(i + 1))
    BY <1>1, <2>1, <2>2, ParentTimed DEF Timed, Until
  <2>4. \/ Untimed /\ (Timed(i)' <=> Timed(i))
        \/ ~ Timed(i)' /\ AddsSince(i, Until(i)) /\ (i < N => Timed(i + 1))
        \/ ~ Timed(i)' /\ Loses(i)
    BY <1>3, <2>2, <2>3 DEF Timed
  <2>. QED  BY <2>1, <2>2, <2>4, TimingStep
<1>. QED  BY <1>2, <1>3 DEF TimedGetNext

LEMMA NotTimedInv ==
    ASSUME TInv, NEW i \in Stage, NotTimed(i), now' \in Nat, now <= now'
    PROVE  TimingTypeOK' /\ AllCovered'
<1>1. pc \in [Stage -> Waiting \cup {"idle"}] /\ IInv
  BY DEF TInv, IInv, TypeOK
<1>2. at \in {i, i - 1} /\ pc[i] \in {"idle", "rollback", "closing"}
  <2>1. CASE Misuse(i) \/ CloseCall(i)
    BY <1>1, <2>1, Caller DEF Misuse, CloseCall, Called, Calls
  <2>2. CASE RollbackReturn(i) \/ CloseReturn(i)
    BY <2>2 DEF RollbackReturn, CloseReturn, ChildGave
  <2>. QED  BY <2>1, <2>2 DEF NotTimed
<1>3. PICK q \in {"idle", "closing"} : pc' = [pc EXCEPT ![i] = q]
  BY DEF NotTimed, Misuse, RollbackReturn, CloseCall, CloseReturn, Return, CallChild
<1>4. Untimed /\ (Timed(i)' <=> Timed(i))
  BY <1>1, <1>2, <1>3 DEF NotTimed, Timed
<1>. QED  BY <1>2, <1>3, <1>4, TimingStep

\* A call of the owner, or no step at all, is one of stage N that does nothing.
LEMMA RestingInv ==
    ASSUME TInv, Untimed, UNCHANGED pc, now' \in Nat, now <= now', at = N
    PROVE  TimingTypeOK' /\ AllCovered'
<1>1. N \in Stage /\ pc' = [pc EXCEPT ![N] = pc[N]]
  BY NAssumption DEF Stage, TInv, IInv, TypeOK
<1>2. Timed(N)' <=> Timed(N)
  BY DEF Timed
<1>. QED  BY <1>1, <1>2, TimingStep
-----------------------------------------------------------------------------
\* A step that takes time is a step of the lifecycle.
LEMMA TimedStep == TimedNext => Next
BY DEF TimedNext, TimedOpen, TimedGetNext, NotTimed, Next, StageStep

LEMMA TimedInitInv == TimedInit => TInv
<1>1. SUFFICES ASSUME TimedInit PROVE TInv
  OBVIOUS
<1>2. IInv
  BY <1>1, InitInv DEF TimedInit
<1>3. TimingTypeOK
  BY <1>1 DEF TimedInit, TimingTypeOK
<1>4. AllCovered
  BY <1>1, NAssumption DEF TimedInit, Init, AllCovered, Covered, Timed, Stage
<1>. QED  BY <1>2, <1>3, <1>4 DEF TInv

LEMMA TimedNextInv == TInv /\ [TimedNext]_<<vars, now, timing>> => TInv'
<1>1. SUFFICES ASSUME TInv, [TimedNext]_<<vars, now, timing>> PROVE TInv'
  OBVIOUS
<1>2. CASE UNCHANGED <<vars, now, timing>>
  <2>1. IInv'
    BY <1>1, <1>2, NextInv DEF TInv
  <2>2. TimingTypeOK' /\ AllCovered'
    BY <1>1, <1>2 DEF TInv, TimingTypeOK, AllCovered, Covered, Until, Timed, Micros, vars, timing
  <2>. QED  BY <2>1, <2>2 DEF TInv
<1>3. CASE TimedNext
  <2>1. IInv'
    BY <1>1, <1>3, TimedStep, NextInv DEF TInv
  <2>2. now' \in Nat /\ now <= now'
    BY <1>1, <1>3, TicksAssumption DEF TimedNext, TInv, TimingTypeOK
  <2>3. TimingTypeOK' /\ AllCovered'
    <3>1. ASSUME NEW i \in Stage, TimedOpen(i) \/ TimedGetNext(i) \/ NotTimed(i)
          PROVE  TimingTypeOK' /\ AllCovered'
      BY <1>1, <2>2, <3>1, TimedOpenInv, TimedGetNextInv, NotTimedInv
    <3>2. ASSUME NEW c \in Calls, OwnerCalls(c), Untimed PROVE TimingTypeOK' /\ AllCovered'
      BY <1>1, <2>2, <3>2, RestingInv DEF OwnerCalls
    <3>. QED  BY <1>3, <3>1, <3>2 DEF TimedNext
  <2>. QED  BY <2>1, <2>3 DEF TInv
<1>. QED  BY <1>1, <1>2, <1>3

\* Stages that take time go through the lifecycle and no other way, so that what is
\* proved of the one holds of the other.
THEOREM TimingKeepsLifecycle == TimedSpec => Spec
<1>1. TimedInit => Init
  BY DEF TimedInit
<1>2. [TimedNext]_<<vars, now, timing>> => [Next]_vars
  BY TimedStep
<1>. QED  BY <1>1, <1>2, PTL DEF TimedSpec, Spec

\* execution_time_micros of a stage is at least its child's, whatever the chain, the
\* clock and the calls, unless a getNext() of the stage threw (plan_stage_base.cpp).
THEOREM TimesAreInclusive == TimedSpec => []InclusiveTimes
<1>1. TInv => InclusiveTimes
  <2>1. SUFFICES ASSUME TInv, Quiet, NEW i \in 2 .. N, i \notin lost
                 PROVE  micros[i - 1] <= micros[i]
    BY DEF InclusiveTimes
  <2>2. i \in Stage /\ i > 1 /\ pc[i] = "idle"
    BY <2>1, NAssumption DEF TInv, IInv, Stack, Quiet, Stage
  <2>. QED  BY <2>1, <2>2 DEF TInv, AllCovered, Covered, Timed
<1>. QED  BY <1>1, TimedInitInv, TimedNextInv, PTL DEF TimedSpec
===============================================================================
