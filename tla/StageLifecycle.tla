---------------------------- MODULE StageLifecycle ----------------------------
(***************************************************************************)
(* The lifecycle PlanStageBase (src/physical/plan_stage_base.cpp) imposes  *)
(* on a chain of stages.  Stage 1 is the CollectionScanStage, every other  *)
(* stage i owns the stage i - 1 and is the only one to call it, and an     *)
(* arbitrary owner calls open(), getNext() and close() of stage N, in any  *)
(* order, also after a call threw.                                         *)
(*                                                                         *)
(* The call stack is spread over the stages: pc[i] tells where stage i     *)
(* waits for its child, at is the stage that was called or has returned    *)
(* last, and msg is that call or what it returned.  Which rows there are   *)
(* is left open: a stage may report kAdvanced, kEof or an exception of its *)
(* own wherever the code of some stage may, those of the tests included,   *)
(* whose leaf throws in onOpen() or onGetNext()                            *)
(* (tests/execution/plan_stage_test.cpp:321-370).                          *)
(***************************************************************************)
EXTENDS Integers

CONSTANT N  \* the number of stages

ASSUME NAssumption == N \in Nat \ {0}

Stage == 1 .. N

VARIABLES blocking,  \* the stages that drain their child in onOpen()
          state,     \* state_
          pc,        \* where a stage waits for its child
          at,        \* the stage control is at
          msg,       \* the call it got or the result it gave
          closes,    \* history: how often onClose() ran
          misused    \* history: the stages that threw kInvalidStageLifecycle

vars == <<blocking, state, pc, at, msg, closes, misused>>

LifecycleState == {"kUnopened", "kOpen", "kClosed", "kEof"}
Calls == {"open", "getNext", "close"}
Results == {"ok", "kAdvanced", "kEof", "throw"}
Waiting == {"opening", "draining", "pulling", "rollback", "closing"}

-----------------------------------------------------------------------------
Init ==
    /\ blocking \in SUBSET (2 .. N)
    /\ state = [i \in Stage |-> "kUnopened"]
    /\ pc = [i \in Stage |-> "idle"]
    /\ at = N
    /\ msg = "ok"
    /\ closes = [i \in Stage |-> 0]
    /\ misused = {}

\* Stage i has been called with c; its child has returned r to it.
Called(i, c) == at = i /\ msg = c
ChildGave(i, r) == at = i - 1 /\ msg = r

\* Stage i calls its child with c and waits at q; it returns r.
CallChild(i, c, q) == at' = i - 1 /\ msg' = c /\ pc' = [pc EXCEPT ![i] = q]
Return(i, r) == at' = i /\ msg' = r /\ pc' = [pc EXCEPT ![i] = "idle"]

Enter(i, s) == state' = [state EXCEPT ![i] = s]

\* A call the state forbids throws kInvalidStageLifecycle and does nothing.
Misuse(i) ==
    /\ \/ Called(i, "open") /\ state[i] # "kUnopened"
       \/ Called(i, "getNext") /\ state[i] \in {"kUnopened", "kClosed"}
    /\ misused' = misused \cup {i}
    /\ Return(i, "throw")
    /\ UNCHANGED <<blocking, state, closes>>

\* onClose() without a child, and after the child's close() returned.
Released(i) == Enter(i, "kClosed") /\ closes' = [closes EXCEPT ![i] = @ + 1]

\* onOpen() ended: the stage is open, or open() rolls back.
Opened(i) ==
    /\ Enter(i, "kOpen")
    /\ Return(i, "ok")
    /\ UNCHANGED <<blocking, closes, misused>>

\* Seeded faults: open() that rethrows without closing the child, and one that
\* takes the leaf for a stage with a child.
RollBackChildLeftOpen(i) == Released(i) /\ Return(i, "throw") /\ UNCHANGED <<blocking, misused>>

RollBackIntoNowhere(i) ==
    CallChild(i, "close", "rollback") /\ UNCHANGED <<blocking, state, closes, misused>>

RollBack(i) ==
    /\ IF i = 1
       THEN Released(i) /\ Return(i, "throw")
       ELSE CallChild(i, "close", "rollback") /\ UNCHANGED <<state, closes>>
    /\ UNCHANGED <<blocking, misused>>

\* Seeded fault: a closed stage may be opened again.
OpenCallReopens(i) ==
    /\ Called(i, "open") /\ state[i] \in {"kUnopened", "kClosed"}
    /\ \/ i = 1 /\ (Opened(i) \/ RollBack(i))
       \/ /\ i > 1 /\ CallChild(i, "open", "opening")
          /\ UNCHANGED <<blocking, state, closes, misused>>

OpenCall(i) ==
    /\ Called(i, "open") /\ state[i] = "kUnopened"
    /\ \/ i = 1 /\ (Opened(i) \/ RollBack(i))
       \/ /\ i > 1 /\ CallChild(i, "open", "opening")
          /\ UNCHANGED <<blocking, state, closes, misused>>

OpenReturn(i) ==
    /\ i > 1 /\ pc[i] = "opening"
    /\ \/ ChildGave(i, "ok") /\ i \notin blocking /\ Opened(i)
       \/ /\ ChildGave(i, "ok") /\ i \in blocking
          /\ CallChild(i, "getNext", "draining")
          /\ UNCHANGED <<blocking, state, closes, misused>>
       \/ ChildGave(i, "throw") /\ RollBack(i)

\* A blocking stage takes every row, then works on them all; a comparator may
\* throw at a row or at the end.
DrainReturn(i) ==
    /\ i > 1 /\ pc[i] = "draining"
    /\ \/ /\ ChildGave(i, "kAdvanced") /\ CallChild(i, "getNext", "draining")
          /\ UNCHANGED <<blocking, state, closes, misused>>
       \/ ChildGave(i, "kEof") /\ Opened(i)
       \/ (\E r \in {"kAdvanced", "kEof", "throw"} : ChildGave(i, r)) /\ RollBack(i)

\* Seeded fault: open() rethrows before state_ is kClosed.
RollbackReturnUnclosed(i) ==
    /\ i > 1 /\ pc[i] = "rollback" /\ ChildGave(i, "ok")
    /\ Return(i, "throw")
    /\ UNCHANGED <<blocking, state, closes, misused>>

RollbackReturn(i) ==
    /\ i > 1 /\ pc[i] = "rollback" /\ ChildGave(i, "ok")
    /\ Released(i)
    /\ Return(i, "throw")
    /\ UNCHANGED <<blocking, misused>>

\* getNext() of an open stage: at its end or its limit it reports kEof without
\* its child, the leaf and a blocking stage report a row without one, the leaf
\* may fail to copy it, and the others ask their child first.
GetNextCall(i) ==
    /\ Called(i, "getNext") /\ state[i] \in {"kOpen", "kEof"}
    /\ \/ Return(i, "kEof") /\ Enter(i, "kEof")
       \/ /\ state[i] = "kOpen"
          /\ \/ (i = 1 \/ i \in blocking) /\ Return(i, "kAdvanced")
             \/ i = 1 /\ Return(i, "throw")
             \/ i > 1 /\ i \notin blocking /\ CallChild(i, "getNext", "pulling")
          /\ UNCHANGED state
    /\ UNCHANGED <<blocking, closes, misused>>

\* A streaming stage passes the row on, drops it and asks again, or throws.
PullReturn(i) ==
    /\ i > 1 /\ pc[i] = "pulling"
    /\ \/ /\ ChildGave(i, "kAdvanced") /\ UNCHANGED state
          /\ Return(i, "kAdvanced") \/ CallChild(i, "getNext", "pulling")
       \/ ChildGave(i, "kEof") /\ Return(i, "kEof") /\ Enter(i, "kEof")
       \/ /\ ChildGave(i, "kAdvanced") \/ ChildGave(i, "throw")
          /\ Return(i, "throw") /\ UNCHANGED state
    /\ UNCHANGED <<blocking, closes, misused>>

\* Seeded fault: close() of a closed stage releases it once more.
CloseCallAgain(i) ==
    /\ Called(i, "close")
    /\ \/ i = 1 /\ Released(i) /\ Return(i, "ok")
       \/ i > 1 /\ CallChild(i, "close", "closing") /\ UNCHANGED <<state, closes>>
    /\ UNCHANGED <<blocking, misused>>

CloseCall(i) ==
    /\ Called(i, "close")
    /\ \/ state[i] = "kClosed" /\ Return(i, "ok") /\ UNCHANGED <<state, closes>>
       \/ state[i] # "kClosed" /\ i = 1 /\ Released(i) /\ Return(i, "ok")
       \/ /\ state[i] # "kClosed" /\ i > 1
          /\ CallChild(i, "close", "closing") /\ UNCHANGED <<state, closes>>
    /\ UNCHANGED <<blocking, misused>>

CloseReturn(i) ==
    /\ i > 1 /\ pc[i] = "closing" /\ ChildGave(i, "ok")
    /\ Released(i)
    /\ Return(i, "ok")
    /\ UNCHANGED <<blocking, misused>>

\* The owner of stage N calls it once the last call has returned.
OwnerCalls(c) ==
    /\ at = N /\ msg \in Results
    /\ msg' = c
    /\ UNCHANGED <<blocking, state, pc, at, closes, misused>>

StageStep(i) ==
    \/ Misuse(i)
    \/ OpenCall(i) \/ OpenReturn(i) \/ DrainReturn(i) \/ RollbackReturn(i)
    \/ GetNextCall(i) \/ PullReturn(i)
    \/ CloseCall(i) \/ CloseReturn(i)

Next == (\E i \in Stage : StageStep(i)) \/ \E c \in Calls : OwnerCalls(c)

Spec == Init /\ [][Next]_vars

-----------------------------------------------------------------------------
TypeOK ==
    /\ blocking \subseteq Stage
    /\ state \in [Stage -> LifecycleState]
    /\ pc \in [Stage -> Waiting \cup {"idle"}]
    /\ at \in Stage
    /\ msg \in Calls \cup Results
    /\ closes \in [Stage -> Nat]
    /\ misused \subseteq Stage

\* The owner is in control.
Quiet == at = N /\ msg \in Results

\* Whatever the owner does, no stage calls its child against the lifecycle: the
\* only calls that throw kInvalidStageLifecycle are the owner's own
\* (plan_stage.h:31-47).
OnlyOwnerMisuses == misused \subseteq {N}

\* onClose() runs once per stage at most, also when open() rolled back and the
\* owner closes the stage again, and has run just when the stage is closed.
ReleasedOnce == \A i \in Stage : closes[i] = IF state[i] = "kClosed" THEN 1 ELSE 0

\* Between calls a chain is opened and closed as one: a stage is unopened or
\* closed together with its child, and an open stage has an open child.
ChainAgrees ==
    Quiet => \A i \in 2 .. N :
        /\ state[i] = "kUnopened" <=> state[i - 1] = "kUnopened"
        /\ state[i] = "kClosed" <=> state[i - 1] = "kClosed"

\* When open() of a stage throws for any reason but misuse, that stage and all
\* below it are closed before the exception leaves it (plan_stage_base.cpp:30-38).
FailedOpenReleases ==
    \A i \in 2 .. N :
        pc[i] = "opening" /\ ChildGave(i, "throw")
            => \A j \in 1 .. i - 1 : state[j] = "kClosed"

\* A stage is never opened again and never leaves kClosed, and kEof is final
\* but for close(): getNext() stays at the end (plan_stage.h:35-44).
Rank(s) == CASE s = "kUnopened" -> 0 [] s = "kOpen" -> 1 [] s = "kEof" -> 2
             [] s = "kClosed" -> 3

OneWay == [][\A i \in Stage : Rank(state[i]) <= Rank(state'[i])]_vars
===============================================================================
