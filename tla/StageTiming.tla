----------------------------- MODULE StageTiming -----------------------------
(***************************************************************************)
(* The clock of PlanStageBase (src/physical/plan_stage_base.cpp): the      *)
(* steps of StageLifecycle take time, and open() and getNext() add what    *)
(* they took, cut to whole microseconds, to execution_time_micros.         *)
(*                                                                         *)
(* A step begins at now and ends at now'; a call that starts reads the     *)
(* clock at the beginning of its step, one that returns at its end.        *)
(***************************************************************************)
EXTENDS StageLifecycle

CONSTANTS TicksPerMicro,  \* ticks of steady_clock to the microsecond
          MaxNow          \* bound of the clock

ASSUME TicksAssumption == TicksPerMicro \in Nat \ {0} /\ MaxNow \in Nat

VARIABLES now,     \* Clock::now()
          start,   \* start of the call a stage is in
          micros,  \* stats_.execution_time_micros
          lost     \* history: the stages a getNext() of which threw

timing == <<start, micros, lost>>

TimedInit ==
    /\ Init
    /\ now = 0
    /\ start = [i \in Stage |-> 0]
    /\ micros = [i \in Stage |-> 0]
    /\ lost = {}

\* Seeded fault: the time is rounded up.
MicrosRoundedUp(ticks) == (ticks + TicksPerMicro - 1) \div TicksPerMicro

\* duration_cast to microseconds cuts the rest off.
Micros(ticks) == ticks \div TicksPerMicro

Untimed == UNCHANGED timing

Starts(i) == start' = [start EXCEPT ![i] = now] /\ UNCHANGED <<micros, lost>>

\* Stage i adds the time since s.
AddsSince(i, s) ==
    micros' = [micros EXCEPT ![i] = @ + Micros(now' - s)] /\ UNCHANGED <<start, lost>>

\* onGetNext() threw: the line that adds the time is not reached.
Loses(i) == lost' = lost \cup {i} /\ UNCHANGED <<start, micros>>

\* open(): its time is added once onOpen() ended, and by the handler before onClose().
TimedOpen(i) ==
    \/ OpenCall(i) /\ IF pc'[i] = "opening" THEN Starts(i) ELSE AddsSince(i, now)
    \/ /\ OpenReturn(i) \/ DrainReturn(i)
       /\ IF pc'[i] = "draining" THEN Untimed ELSE AddsSince(i, start[i])

\* getNext(): a stage at its end reads no clock.
TimedGetNext(i) ==
    \/ /\ GetNextCall(i)
       /\ \/ state[i] = "kEof" /\ Untimed
          \/ /\ state[i] = "kOpen"
             /\ IF pc'[i] = "pulling" THEN Starts(i)
                ELSE IF msg' = "throw" THEN Loses(i) ELSE AddsSince(i, now)
    \/ /\ PullReturn(i)
       /\ IF pc'[i] = "pulling" THEN Untimed
          ELSE IF msg' = "throw" THEN Loses(i) ELSE AddsSince(i, start[i])

\* The rest of a rollback and close() are not timed.
NotTimed(i) ==
    (Misuse(i) \/ RollbackReturn(i) \/ CloseCall(i) \/ CloseReturn(i)) /\ Untimed

TimedNext ==
    /\ now' \in now .. MaxNow
    /\ \/ \E i \in Stage : TimedOpen(i) \/ TimedGetNext(i) \/ NotTimed(i)
       \/ (\E c \in Calls : OwnerCalls(c)) /\ Untimed

TimedSpec == TimedInit /\ [][TimedNext]_<<vars, now, timing>>
-----------------------------------------------------------------------------
\* The time of a stage includes that of its child, in whatever way the calls went,
\* unless a getNext() of the stage threw: an exception in open() is added on its way
\* out, and what is cut off call by call never makes a child's sum the larger one
\* (plan_stage_base.cpp:25-37,50-52).
InclusiveTimes ==
    Quiet => \A i \in 2 .. N : i \notin lost => micros[i - 1] <= micros[i]

\* What docs/architecture.md:202 says: execution_time_micros is inclusive of every
\* descendant's time.
InclusiveOfEveryDescendant ==
    Quiet => \A i \in Stage : \A j \in 1 .. i : micros[j] <= micros[i]
===============================================================================
