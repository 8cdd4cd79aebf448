------------------------- MODULE QueryExecutionProofs -------------------------
(***************************************************************************)
(* The safety of a query execution, for plans of any length over tables of *)
(* any size.                                                               *)
(*                                                                         *)
(* An execution is one the lifecycle of the stages allows, so the          *)
(* invariant of StageLifecycleProofs holds of it and tells who waits for   *)
(* whom.  What the stages and runPipeline() keep beside it, their          *)
(* counters, buffers and limits, are invariants on top of that one.        *)
(***************************************************************************)
EXTENDS QueryExecution, DataProofs

BlockingStages == {i \in Stage : Blocking(i)}
Closes == [i \in Stage |-> IF state[i] = "kClosed" THEN 1 ELSE 0]

\* QueryExecution has no clock: the one of StageTiming stands still.
LP == INSTANCE StageLifecycleProofs WITH
    blocking <- BlockingStages, closes <- Closes, misused <- {},
    TicksPerMicro <- 1, MaxNow <- 0, now <- 0, lost <- {},
    start <- [i \in Stage |-> 0], micros <- [i \in Stage |-> 0]

\* The lifecycle of QueryExecution and that of the proofs are the same.
LEMMA SameLifecycle ==
    /\ LP!Init <=> Lifecycle!Init
    /\ LP!Next <=> Lifecycle!Next
    /\ LP!vars = Lifecycle!vars
<1>. USE DEF BlockingStages, Closes, LP!Stage, Lifecycle!Stage
<1>1. LP!Init <=> Lifecycle!Init
  BY DEF LP!Init, Lifecycle!Init
<1>2. LP!vars = Lifecycle!vars
  BY DEF LP!vars, Lifecycle!vars
<1>3. ASSUME NEW i \in Stage PROVE LP!StageStep(i) <=> Lifecycle!StageStep(i)
  <2>. USE DEF LP!Called, Lifecycle!Called, LP!ChildGave, Lifecycle!ChildGave,
               LP!CallChild, Lifecycle!CallChild, LP!Return, Lifecycle!Return,
               LP!Enter, Lifecycle!Enter, LP!Released, Lifecycle!Released,
               LP!Opened, Lifecycle!Opened, LP!RollBack, Lifecycle!RollBack
  <2>1. LP!Misuse(i) <=> Lifecycle!Misuse(i)
    BY DEF LP!Misuse, Lifecycle!Misuse
  <2>2. LP!OpenCall(i) <=> Lifecycle!OpenCall(i)
    BY DEF LP!OpenCall, Lifecycle!OpenCall
  <2>3. LP!OpenReturn(i) <=> Lifecycle!OpenReturn(i)
    BY DEF LP!OpenReturn, Lifecycle!OpenReturn
  <2>4. LP!DrainReturn(i) <=> Lifecycle!DrainReturn(i)
    BY DEF LP!DrainReturn, Lifecycle!DrainReturn
  <2>5. LP!RollbackReturn(i) <=> Lifecycle!RollbackReturn(i)
    BY DEF LP!RollbackReturn, Lifecycle!RollbackReturn
  <2>6. LP!GetNextCall(i) <=> Lifecycle!GetNextCall(i)
    BY DEF LP!GetNextCall, Lifecycle!GetNextCall
  <2>7. LP!PullReturn(i) <=> Lifecycle!PullReturn(i)
    BY DEF LP!PullReturn, Lifecycle!PullReturn
  <2>8. LP!CloseCall(i) <=> Lifecycle!CloseCall(i)
    BY DEF LP!CloseCall, Lifecycle!CloseCall
  <2>9. LP!CloseReturn(i) <=> Lifecycle!CloseReturn(i)
    BY DEF LP!CloseReturn, Lifecycle!CloseReturn
  <2>. QED  BY <2>1, <2>2, <2>3, <2>4, <2>5, <2>6, <2>7, <2>8, <2>9
            DEF LP!StageStep, Lifecycle!StageStep
<1>4. \A c : LP!OwnerCalls(c) <=> Lifecycle!OwnerCalls(c)
  BY DEF LP!OwnerCalls, Lifecycle!OwnerCalls, LP!Results, Lifecycle!Results
<1>5. LP!Next <=> Lifecycle!Next
  BY <1>3, <1>4 DEF LP!Next, Lifecycle!Next, LP!Calls, Lifecycle!Calls, Stage
<1>. QED  BY <1>1, <1>2, <1>5
-----------------------------------------------------------------------------
\* Only a waiting stage has a child that can give it something, and a stage that
\* fills its buffer or closes is not closed yet.
LEMMA Waits ==
    ASSUME LP!IInv, NEW i \in Stage, pc[i] # "idle"
    PROVE  /\ i > 1
           /\ pc[i] \in {"opening", "draining", "rollback"} => state[i] = "kUnopened"
           /\ pc[i] = "pulling" => state[i] = "kOpen"
           /\ pc[i] = "closing" => state[i] # "kClosed"
<1>1. at \in Stage /\ (pc[i] = "idle" <=> i <= at)
  BY DEF LP!IInv, LP!TypeOK, LP!Stack, LP!Stage, Stage
<1>. QED  BY <1>1, NAssumption DEF LP!IInv, LP!Own, LP!Stage, Stage

\* Two ways a stage changes its state: it is released, or not.
LEMMA EnterOpen ==
    ASSUME LP!IInv, NEW i \in Stage, NEW s \in {"kOpen", "kEof"},
           state[i] # "kClosed", Enter(i, s)
    PROVE  LP!Enter(i, s) /\ UNCHANGED Closes
<1>1. DOMAIN state = Stage
  BY DEF LP!IInv, LP!TypeOK, LP!Stage, Stage
<1>. QED  BY <1>1 DEF Enter, LP!Enter, Closes

\* A stage that closes is released, for the first time.
LEMMA EnterClosed ==
    ASSUME LP!IInv, NEW i \in Stage, state[i] # "kClosed", Enter(i, "kClosed")
    PROVE  LP!Released(i)
<1>1. DOMAIN state = Stage
  BY DEF LP!IInv, LP!TypeOK, LP!Stage, Stage
<1>2. Closes' = [Closes EXCEPT ![i] = @ + 1]
  <2>1. /\ Closes[i] + 1 = 1
        /\ Closes' = [j \in Stage |-> IF j = i THEN 1 ELSE Closes[j]]
    BY <1>1 DEF Enter, Closes
  <2>2. DOMAIN Closes = Stage
    BY DEF Closes
  <2>. QED  BY <2>1, <2>2
<1>. QED  BY <1>2 DEF Enter, LP!Enter, LP!Released

\* Every step of a stage is one its lifecycle allows.
LEMMA StageStepKeeps ==
    ASSUME LP!IInv, plan \in Plans, NEW i \in Stage, StageStep(i)
    PROVE  LP!StageStep(i)
<1>. USE DEF Called, ChildGave, CallChild, Return, LP!Called, LP!ChildGave, LP!CallChild,
             LP!Return, task
<1>1. /\ plan' = plan => BlockingStages' = BlockingStages
      /\ state' = state => Closes' = Closes
      /\ i \in BlockingStages <=> Blocking(i)
  BY DEF BlockingStages, Blocking, Op, Closes
<1>2. CASE OpenCall(i)
  <2>1. CASE i = 1
    <3>1. LP!Opened(i)
      BY <1>1, <1>2, <2>1, EnterOpen DEF OpenCall, LP!Opened
    <3>. QED  BY <1>2, <2>1, <3>1 DEF OpenCall, LP!OpenCall, LP!StageStep
  <2>2. CASE i # 1
    BY <1>1, <1>2, <2>2 DEF OpenCall, LP!OpenCall, LP!StageStep, Stage
  <2>. QED  BY <2>1, <2>2
<1>3. CASE OpenReturn(i)
  <2>1. i > 1 /\ pc[i] = "opening" /\ state[i] = "kUnopened"
    BY <1>3, Waits DEF OpenReturn
  <2>2. CASE Blocking(i)
    BY <1>1, <1>3, <2>1, <2>2 DEF OpenReturn, LP!OpenReturn, LP!StageStep
  <2>3. CASE ~Blocking(i)
    <3>1. LP!Opened(i)
      BY <1>1, <1>3, <2>1, <2>3, EnterOpen DEF OpenReturn, LP!Opened
    <3>. QED  BY <1>1, <1>3, <2>1, <2>3, <3>1 DEF OpenReturn, LP!OpenReturn, LP!StageStep
  <2>. QED  BY <2>2, <2>3
<1>4. CASE ChildFailedOpen(i)
  <2>1. i > 1 /\ pc[i] \in {"opening", "draining"}
    BY <1>4, Waits DEF ChildFailedOpen
  <2>2. LP!RollBack(i)
    BY <1>1, <1>4, <2>1 DEF ChildFailedOpen, RollBack, LP!RollBack
  <2>. QED  BY <1>4, <2>1, <2>2
            DEF ChildFailedOpen, LP!OpenReturn, LP!DrainReturn, LP!StageStep
<1>5. CASE DrainRow(i)
  <2>1. i > 1
    BY <1>5, Waits DEF DrainRow
  <2>. QED  BY <1>1, <1>5, <2>1 DEF DrainRow, LP!DrainReturn, LP!StageStep
<1>6. CASE DrainThrows(i) \/ SortThrows(i)
  <2>1. i > 1 /\ pc[i] = "draining"
    BY <1>6, Waits DEF DrainThrows, SortThrows
  <2>2. LP!RollBack(i)
    BY <1>1, <1>6, <2>1 DEF DrainThrows, SortThrows, RollBack, LP!RollBack
  <2>. QED  BY <1>6, <2>1, <2>2 DEF DrainThrows, SortThrows, LP!DrainReturn, LP!StageStep
<1>7. CASE SortBuffer(i)
  <2>1. i > 1 /\ pc[i] = "draining" /\ state[i] = "kUnopened"
    BY <1>7, Waits DEF SortBuffer
  <2>2. LP!Opened(i)
    BY <1>1, <1>7, <2>1, EnterOpen DEF SortBuffer, LP!Opened
  <2>. QED  BY <1>7, <2>1, <2>2 DEF SortBuffer, LP!DrainReturn, LP!StageStep
<1>8. CASE RollbackReturn(i)
  <2>1. i > 1 /\ pc[i] = "rollback" /\ state[i] = "kUnopened"
    BY <1>8, Waits DEF RollbackReturn
  <2>2. LP!Released(i)
    BY <1>8, <2>1, EnterClosed DEF RollbackReturn, Release
  <2>. QED  BY <1>1, <1>8, <2>1, <2>2 DEF RollbackReturn, LP!RollbackReturn, LP!StageStep
<1>9. CASE GetNextEof(i)
  <2>1. LP!Enter(i, "kEof") /\ UNCHANGED Closes
    BY <1>9, EnterOpen DEF GetNextEof, GetNext
  <2>. QED  BY <1>1, <1>9, <2>1 DEF GetNextEof, GetNext, LP!GetNextCall, LP!StageStep
<1>10. CASE GetNextRow(i)
  BY <1>1, <1>10 DEF GetNextRow, GetNext, LP!GetNextCall, LP!StageStep
<1>11. CASE GetNextPull(i)
  BY <1>1, <1>11 DEF GetNextPull, GetNext, LP!GetNextCall, LP!StageStep
<1>12. CASE FilterPass(i) \/ FilterDrop(i) \/ FilterThrows(i) \/ ProjectPass(i) \/ LimitPass(i)
  <2>1. i > 1 /\ pc[i] = "pulling" /\ at = i - 1 /\ msg = "kAdvanced"
    BY <1>12, Waits DEF Pulled, FilterPass, FilterDrop, FilterThrows, ProjectPass, LimitPass
  <2>2. UNCHANGED <<plan, state>>
    BY <1>12 DEF FilterPass, FilterDrop, FilterThrows, ProjectPass, LimitPass
  <2>3. LP!Return(i, "kAdvanced") \/ LP!CallChild(i, "getNext", "pulling") \/ LP!Return(i, "throw")
    BY <1>12 DEF FilterPass, FilterDrop, FilterThrows, ProjectPass, LimitPass
  <2>. QED  BY <1>1, <2>1, <2>2, <2>3 DEF LP!PullReturn, LP!StageStep
<1>13. CASE PullEof(i)
  <2>1. i > 1 /\ pc[i] = "pulling" /\ state[i] = "kOpen"
    BY <1>13, Waits DEF PullEof
  <2>2. LP!Enter(i, "kEof") /\ UNCHANGED Closes
    BY <1>13, <2>1, EnterOpen DEF PullEof
  <2>. QED  BY <1>1, <1>13, <2>1, <2>2 DEF PullEof, LP!PullReturn, LP!StageStep
<1>14. CASE PullFailed(i)
  <2>1. i > 1
    BY <1>14, Waits DEF PullFailed
  <2>. QED  BY <1>1, <1>14, <2>1 DEF PullFailed, LP!PullReturn, LP!StageStep
<1>15. CASE CloseCall(i)
  <2>1. state[i] # "kClosed" /\ i = 1 /\ Release(i) => LP!Released(i)
    BY EnterClosed DEF Release
  <2>. QED  BY <1>1, <1>15, <2>1 DEF CloseCall, LP!CloseCall, LP!StageStep
<1>16. CASE CloseReturn(i)
  <2>1. i > 1 /\ state[i] # "kClosed"
    BY <1>16, Waits DEF CloseReturn
  <2>2. LP!Released(i)
    BY <1>16, <2>1, EnterClosed DEF CloseReturn, Release
  <2>. QED  BY <1>1, <1>16, <2>1, <2>2 DEF CloseReturn, LP!CloseReturn, LP!StageStep
<1>. QED  BY <1>2, <1>3, <1>4, <1>5, <1>6, <1>7, <1>8, <1>9, <1>10, <1>11, <1>12, <1>13,
             <1>14, <1>15, <1>16 DEF StageStep

\* What runPipeline() does is a call by the owner, or nothing the stages see.
GuardStep ==
    \/ GuardOpens \/ GuardOpened \/ GuardFails
    \/ FetchRow \/ FetchEof \/ FetchFails \/ GuardCloses

\* The lifecycle sees a step of runPipeline() as a call by the owner or not at all.
LEMMA GuardStepKeeps ==
    ASSUME GuardStep
    PROVE  (\E c \in LP!Calls : LP!OwnerCalls(c)) \/ UNCHANGED LP!vars
<1>. USE DEF RootGave, CallRoot, LP!OwnerCalls, LP!Calls, LP!Results, task
<1>1. plan' = plan /\ state' = state => BlockingStages' = BlockingStages /\ Closes' = Closes
  BY DEF BlockingStages, Blocking, Op, Closes
<1>2. CASE GuardOpens
  BY <1>1, <1>2 DEF GuardOpens
<1>3. CASE GuardOpened \/ FetchRow
  BY <1>1, <1>3 DEF GuardOpened, FetchRow
<1>4. CASE FetchEof \/ FetchFails
  BY <1>1, <1>4 DEF FetchEof, FetchFails
<1>5. CASE GuardFails \/ GuardCloses
  BY <1>1, <1>5 DEF GuardFails, GuardCloses, control, LP!vars
<1>. QED  BY <1>2, <1>3, <1>4, <1>5 DEF GuardStep

\* Every step of the execution is one of the lifecycle, or a stutter of it.
LEMMA StepKeeps == LP!IInv /\ plan \in Plans /\ [Next]_vars => [LP!Next]_(LP!vars)
<1>. SUFFICES ASSUME LP!IInv, plan \in Plans, [Next]_vars PROVE [LP!Next]_(LP!vars)
  OBVIOUS
<1>1. ASSUME NEW i \in Stage, StageStep(i) PROVE LP!Next
  BY <1>1, StageStepKeeps DEF LP!Next, LP!Stage, Stage
<1>2. CASE GuardStep
  BY <1>2, GuardStepKeeps DEF LP!Next
<1>3. CASE UNCHANGED vars
  BY <1>3 DEF vars, control, task, LP!vars, BlockingStages, Blocking, Op, Closes
<1>. QED  BY <1>1, <1>2, <1>3 DEF Next, Over, GuardStep
\* The plan and the table stay.
LEMMA TaskStays == [Next]_vars => UNCHANGED task
<1>. SUFFICES ASSUME [Next]_vars PROVE UNCHANGED task
  OBVIOUS
<1>1. ASSUME NEW i \in Stage, StageStep(i) PROVE UNCHANGED task
  BY <1>1 DEF StageStep, OpenCall, OpenReturn, ChildFailedOpen, DrainRow, DrainThrows,
     SortBuffer, SortThrows, RollbackReturn, GetNextEof, GetNextRow, GetNextPull, FilterPass,
     FilterDrop, FilterThrows, ProjectPass, LimitPass, PullEof, PullFailed, CloseCall,
     CloseReturn
<1>2. CASE GuardStep
  BY <1>2 DEF GuardStep, GuardOpens, GuardOpened, GuardFails, FetchRow, FetchEof, FetchFails,
     GuardCloses
<1>3. CASE UNCHANGED vars
  BY <1>3 DEF vars
<1>. QED  BY <1>1, <1>2, <1>3 DEF Next, Over, GuardStep

InLifecycle == LP!IInv /\ plan \in Plans

\* An execution begins where the lifecycle does.
LEMMA InitLifecycle == Init => LP!Init
<1>. SUFFICES ASSUME Init PROVE LP!Init
  OBVIOUS
<1>1. BlockingStages \in SUBSET (2 .. N)
  <2>1. ASSUME NEW i \in Stage, Blocking(i) PROVE i \in 2 .. N
    <3>1. i # 1
      BY <2>1, PlansAssumption DEF Init, Blocking, Op
    <3>. QED  BY <3>1, NAssumption DEF Stage
  <2>. QED  BY <2>1 DEF BlockingStages
<1>2. Closes = [i \in Stage |-> 0]
  BY DEF Init, Closes
<1>. QED  BY <1>1, <1>2 DEF Init, LP!Init, LP!Stage, Stage

\* It begins in the invariant of the lifecycle,
LEMMA InitInLifecycle == Init => InLifecycle
BY InitLifecycle, LP!InitInv, NAssumption DEF InLifecycle, Init

\* and stays in it.
LEMMA NextInLifecycle == InLifecycle /\ [Next]_vars => InLifecycle'
BY StepKeeps, TaskStays, LP!NextInv, NAssumption DEF InLifecycle, task

\* The execution of a plan keeps the lifecycle of its stages: no stage, and not
\* runPipeline(), makes a call plan_stage.h:31-47 forbids, whatever fails where.
THEOREM ExecutionKeepsLifecycle == Spec => KeepsLifecycle
<1>1. Init => Lifecycle!Init
  BY InitLifecycle, SameLifecycle
<1>2. InLifecycle /\ [Next]_vars => [Lifecycle!Next]_(Lifecycle!vars)
  BY StepKeeps, SameLifecycle
     DEF InLifecycle, LP!vars, Lifecycle!vars, BlockingStages, Closes
<1>. QED  BY <1>1, <1>2, InitInLifecycle, NextInLifecycle, PTL
          DEF Spec, KeepsLifecycle, Lifecycle!Spec
-----------------------------------------------------------------------------
\* Where the root is while runPipeline() is at a place.
Owner ==
    /\ caller \in {"start", "opening", "fetching", "leaving", "unwinding", "done", "failed"}
    /\ caller = "start" => at = N /\ msg = "ok" /\ state[N] = "kUnopened"
    /\ caller = "opening" =>
          /\ at = N => /\ msg \in {"open", "ok", "throw"}
                       /\ msg = "open" => state[N] = "kUnopened"
                       /\ msg = "ok" => state[N] = "kOpen"
                       /\ msg = "throw" => state[N] = "kClosed"
          /\ at # N => pc[N] \in {"opening", "draining", "rollback"}
    /\ caller = "fetching" =>
          /\ at = N => /\ msg \in {"getNext", "kAdvanced", "kEof", "throw"}
                       /\ state[N] \in {"kOpen", "kEof"}
          /\ at # N => pc[N] = "pulling"
    /\ caller \in {"leaving", "unwinding"} =>
          /\ at = N => msg \in {"close", "ok"} /\ (msg = "ok" => state[N] = "kClosed")
          /\ at # N => pc[N] = "closing"
    /\ Finished => at = N /\ msg \in {"ok", "throw"} /\ state[N] = "kClosed"
\* What the variables are functions of.
Counters == {"rows_in", "rows_out", "open_calls", "get_next_calls"}

Shapes ==
    /\ DOMAIN stats = Stage
    /\ \A i \in Stage : DOMAIN stats[i] = Counters \cup {"peak_memory_bytes"}
    /\ DOMAIN next_index = Stage /\ DOMAIN emitted = Stage
    /\ DOMAIN buffer = Stage /\ DOMAIN sorted = Stage

\* Counting changes the counters counted, of one stage.
LEMMA Counting ==
    ASSUME Shapes, NEW i \in Stage, NEW cs, Count(i, cs)
    PROVE  /\ DOMAIN stats' = Stage
           /\ \A j \in Stage : DOMAIN stats'[j] = Counters \cup {"peak_memory_bytes"}
           /\ \A j \in Stage \ {i} : stats'[j] = stats[j]
           /\ \A c \in Counters :
                 stats'[i][c] = IF c \in cs THEN stats[i][c] + 1 ELSE stats[i][c]
<1>1. /\ DOMAIN stats' = Stage
      /\ \A j \in Stage \ {i} : stats'[j] = stats[j]
      /\ stats'[i] = [c \in DOMAIN stats[i] |->
                        IF c \in cs THEN stats[i][c] + 1 ELSE stats[i][c]]
  BY DEF Shapes, Count
<1>. QED  BY <1>1 DEF Shapes

\* Noting the peak changes no counter.
LEMMA Peaking ==
    ASSUME Shapes, NEW i \in Stage, NEW n,
           stats' = [stats EXCEPT ![i].peak_memory_bytes = n]
    PROVE  /\ DOMAIN stats' = Stage
           /\ \A j \in Stage : DOMAIN stats'[j] = Counters \cup {"peak_memory_bytes"}
           /\ \A j \in Stage \ {i} : stats'[j] = stats[j]
           /\ \A c \in Counters : stats'[i][c] = stats[i][c]
<1>1. /\ DOMAIN stats' = Stage
      /\ \A j \in Stage \ {i} : stats'[j] = stats[j]
      /\ stats'[i] = [stats[i] EXCEPT !.peak_memory_bytes = n]
  BY DEF Shapes
<1>2. "peak_memory_bytes" \notin Counters
  BY DEF Counters
<1>. QED  BY <1>1, <1>2 DEF Shapes

\* The variables a step of stage i leaves alone, and where control is before it
\* and after it.
MovesOnly(i) ==
    /\ UNCHANGED <<plan, table, caller, result>>
    /\ \/ at = i /\ msg \in LP!Calls /\ pc[i] = "idle"
       \/ at = i - 1 /\ i > 1 /\ msg \in LP!Results /\ pc[i] # "idle"
    /\ \/ at' = i - 1 /\ i > 1 /\ msg' \in LP!Calls /\ pc'[i] # "idle"
       \/ at' = i /\ msg' \in LP!Results /\ pc'[i] = "idle"
    /\ Shapes'
    /\ \A j \in Stage \ {i} :
          /\ pc'[j] = pc[j] /\ state'[j] = state[j] /\ stats'[j] = stats[j]
          /\ next_index'[j] = next_index[j] /\ emitted'[j] = emitted[j]
          /\ buffer'[j] = buffer[j] /\ sorted'[j] = sorted[j]

\* A step of a stage moves control as MovesOnly says and leaves the other stages alone.
LEMMA Moves ==
    ASSUME LP!IInv, Shapes, NEW i \in Stage, StageStep(i)
    PROVE  MovesOnly(i)
<1>1. /\ DOMAIN pc = Stage /\ DOMAIN state = Stage /\ at \in Stage
      /\ pc[i] = "idle" <=> i <= at
  BY DEF LP!IInv, LP!TypeOK, LP!Stack, LP!Stage, Stage
<1>2. pc[i] # "idle" => i > 1
  BY Waits
<1>3. i \in Nat /\ N \in Nat
  BY NAssumption DEF Stage
<1>4. \/ at = i /\ msg \in LP!Calls /\ pc[i] = "idle"
      \/ at = i - 1 /\ i > 1 /\ msg \in LP!Results /\ pc[i] # "idle"
  BY <1>1, <1>2, <1>3
     DEF StageStep, Called, ChildGave, Pulled, GetNext, OpenCall, OpenReturn, ChildFailedOpen,
         DrainRow, DrainThrows, SortBuffer, SortThrows, RollbackReturn, GetNextEof, GetNextRow,
         GetNextPull, FilterPass, FilterDrop, FilterThrows, ProjectPass, LimitPass, PullEof,
         PullFailed, CloseCall, CloseReturn, LP!Calls, LP!Results
<1>5. (\E c, q : CallChild(i, c, q) /\ i > 1 /\ c \in LP!Calls /\ q # "idle")
      \/ \E r : Return(i, r) /\ r \in LP!Results
  BY <1>2, <1>3
     DEF StageStep, RollBack, Pulled, OpenCall, OpenReturn, ChildFailedOpen, DrainRow, DrainThrows,
         SortBuffer, SortThrows, RollbackReturn, GetNextEof, GetNextRow, GetNextPull, FilterPass,
         FilterDrop, FilterThrows, ProjectPass, LimitPass, PullEof, PullFailed, CloseCall,
         CloseReturn, LP!Calls, LP!Results, Stage
<1>6. /\ \/ at' = i - 1 /\ i > 1 /\ msg' \in LP!Calls /\ pc'[i] # "idle"
         \/ at' = i /\ msg' \in LP!Results /\ pc'[i] = "idle"
      /\ \A j \in Stage \ {i} : pc'[j] = pc[j]
  BY <1>1, <1>5 DEF CallChild, Return
<1>7. UNCHANGED <<plan, table, caller, result>>
  BY DEF StageStep, OpenCall, OpenReturn, ChildFailedOpen, DrainRow, DrainThrows,
     SortBuffer, SortThrows, RollbackReturn, GetNextEof, GetNextRow, GetNextPull, FilterPass,
     FilterDrop, FilterThrows, ProjectPass, LimitPass, PullEof, PullFailed, CloseCall,
     CloseReturn, task
<1>8. \A j \in Stage \ {i} : state'[j] = state[j]
  <2>1. state' = state \/ \E s : Enter(i, s)
    BY DEF StageStep, RollBack, Release, OpenCall, OpenReturn, ChildFailedOpen, DrainRow,
       DrainThrows, SortBuffer, SortThrows, RollbackReturn, GetNextEof, GetNextRow, GetNextPull,
       FilterPass, FilterDrop, FilterThrows, ProjectPass, LimitPass, PullEof, PullFailed,
       CloseCall, CloseReturn
  <2>. QED  BY <1>1, <2>1 DEF Enter
<1>9. /\ DOMAIN stats' = Stage
      /\ \A j \in Stage : DOMAIN stats'[j] = Counters \cup {"peak_memory_bytes"}
      /\ \A j \in Stage \ {i} : stats'[j] = stats[j]
  <2>1. \/ stats' = stats \/ \E cs : Count(i, cs)
        \/ \E n : stats' = [stats EXCEPT ![i].peak_memory_bytes = n]
    BY DEF StageStep, OpenCall, OpenReturn, ChildFailedOpen, DrainRow, DrainThrows,
       SortBuffer, SortThrows, RollbackReturn, GetNextEof, GetNextRow, GetNextPull, FilterPass,
       FilterDrop, FilterThrows, ProjectPass, LimitPass, PullEof, PullFailed, CloseCall,
       CloseReturn
  <2>2. CASE stats' = stats
    BY <2>2 DEF Shapes
  <2>3. ASSUME NEW cs, Count(i, cs)
        PROVE  /\ DOMAIN stats' = Stage
               /\ \A j \in Stage : DOMAIN stats'[j] = Counters \cup {"peak_memory_bytes"}
               /\ \A j \in Stage \ {i} : stats'[j] = stats[j]
    BY <2>3, Counting
  <2>4. ASSUME NEW n, stats' = [stats EXCEPT ![i].peak_memory_bytes = n]
        PROVE  /\ DOMAIN stats' = Stage
               /\ \A j \in Stage : DOMAIN stats'[j] = Counters \cup {"peak_memory_bytes"}
               /\ \A j \in Stage \ {i} : stats'[j] = stats[j]
    BY <2>4, Peaking
  <2>. QED  BY <2>1, <2>2, <2>3, <2>4
<1>10. /\ next_index' = next_index \/ \E v : next_index' = [next_index EXCEPT ![i] = v]
       /\ emitted' = emitted \/ \E v : emitted' = [emitted EXCEPT ![i] = v]
       /\ buffer' = buffer \/ \E v : buffer' = [buffer EXCEPT ![i] = v]
       /\ sorted' = sorted \/ \E v : sorted' = [sorted EXCEPT ![i] = v]
  BY DEF StageStep, OpenCall, OpenReturn, ChildFailedOpen, DrainRow, DrainThrows,
     SortBuffer, SortThrows, RollbackReturn, GetNextEof, GetNextRow, GetNextPull, FilterPass,
     FilterDrop, FilterThrows, ProjectPass, LimitPass, PullEof, PullFailed, CloseCall,
     CloseReturn, Release, data
<1>11. /\ DOMAIN next_index' = Stage /\ DOMAIN emitted' = Stage
       /\ DOMAIN buffer' = Stage /\ DOMAIN sorted' = Stage
       /\ \A j \in Stage \ {i} :
             /\ next_index'[j] = next_index[j] /\ emitted'[j] = emitted[j]
             /\ buffer'[j] = buffer[j] /\ sorted'[j] = sorted[j]
  BY <1>10 DEF Shapes
<1>. QED  BY <1>4, <1>6, <1>7, <1>8, <1>9, <1>11 DEF MovesOnly, Shapes
\* What a call to a stage leads to: open() opens it or leaves it closed, getNext()
\* leaves it open or at its end, and close() closes it.
LEMMA OpenAnswers ==
    ASSUME LP!IInv, NEW i \in Stage, StageStep(i),
           (at = i /\ msg = "open") \/ pc[i] \in {"opening", "draining", "rollback"}
    PROVE  \/ at' = i /\ msg' = "ok" /\ state'[i] = "kOpen"
           \/ at' = i /\ msg' = "throw" /\ state'[i] = "kClosed"
           \/ at' = i - 1 /\ pc'[i] \in {"opening", "draining", "rollback"}
<1>1. DOMAIN pc = Stage /\ DOMAIN state = Stage /\ at \in Stage /\ (pc[i] = "idle" <=> i <= at)
  BY DEF LP!IInv, LP!TypeOK, LP!Stack, LP!Stage, Stage
<1>2. i \in Nat /\ N \in Nat
  BY NAssumption DEF Stage
<1>3. \/ OpenCall(i) \/ OpenReturn(i) \/ ChildFailedOpen(i) \/ DrainRow(i) \/ DrainThrows(i)
      \/ SortBuffer(i) \/ SortThrows(i) \/ RollbackReturn(i)
  BY <1>1, <1>2 DEF StageStep, Called, ChildGave, Pulled, GetNext, GetNextEof, GetNextRow, GetNextPull,
     FilterPass, FilterDrop, FilterThrows, ProjectPass, LimitPass, PullEof, PullFailed,
     CloseCall, CloseReturn
<1>. QED  BY <1>1, <1>3 DEF OpenCall, OpenReturn, ChildFailedOpen, DrainRow, DrainThrows,
     SortBuffer, SortThrows, RollbackReturn, RollBack, Release, Enter, Return, CallChild

\* getNext() reports a row, the end or a failure, and the stage stays open.
LEMMA GetNextAnswers ==
    ASSUME LP!IInv, NEW i \in Stage, StageStep(i),
           (at = i /\ msg = "getNext") \/ pc[i] = "pulling"
    PROVE  \/ /\ at' = i /\ msg' \in {"kAdvanced", "kEof", "throw"}
              /\ state'[i] \in {"kOpen", "kEof"}
           \/ at' = i - 1 /\ pc'[i] = "pulling"
<1>1. DOMAIN pc = Stage /\ DOMAIN state = Stage /\ at \in Stage /\ (pc[i] = "idle" <=> i <= at)
  BY DEF LP!IInv, LP!TypeOK, LP!Stack, LP!Stage, Stage
<1>2. i \in Nat /\ N \in Nat
  BY NAssumption DEF Stage
<1>3. \/ GetNextEof(i) \/ GetNextRow(i) \/ GetNextPull(i) \/ FilterPass(i) \/ FilterDrop(i)
      \/ FilterThrows(i) \/ ProjectPass(i) \/ LimitPass(i) \/ PullEof(i) \/ PullFailed(i)
  BY <1>1, <1>2 DEF StageStep, Called, ChildGave, OpenCall, OpenReturn, ChildFailedOpen, DrainRow,
     DrainThrows, SortBuffer, SortThrows, RollbackReturn, CloseCall, CloseReturn
<1>4. pc[i] = "pulling" => state[i] = "kOpen"
  BY Waits
<1>. QED  BY <1>1, <1>3, <1>4 DEF GetNextEof, GetNextRow, GetNextPull, GetNext, Pulled, FilterPass,
     FilterDrop, FilterThrows, ProjectPass, LimitPass, PullEof, PullFailed, Enter, Return,
     CallChild

\* close() closes the stage and does not throw.
LEMMA CloseAnswers ==
    ASSUME LP!IInv, NEW i \in Stage, StageStep(i),
           (at = i /\ msg = "close") \/ pc[i] = "closing"
    PROVE  \/ at' = i /\ msg' = "ok" /\ state'[i] = "kClosed"
           \/ at' = i - 1 /\ pc'[i] = "closing"
<1>1. DOMAIN pc = Stage /\ DOMAIN state = Stage /\ at \in Stage /\ (pc[i] = "idle" <=> i <= at)
  BY DEF LP!IInv, LP!TypeOK, LP!Stack, LP!Stage, Stage
<1>2. i \in Nat /\ N \in Nat
  BY NAssumption DEF Stage
<1>3. CloseCall(i) \/ CloseReturn(i)
  BY <1>1, <1>2 DEF StageStep, Called, ChildGave, Pulled, OpenCall, OpenReturn, ChildFailedOpen, DrainRow,
     DrainThrows, SortBuffer, SortThrows, RollbackReturn, GetNext, GetNextEof, GetNextRow,
     GetNextPull, FilterPass, FilterDrop, FilterThrows, ProjectPass, LimitPass, PullEof,
     PullFailed
<1>. QED  BY <1>1, <1>3 DEF CloseCall, CloseReturn, Release, Enter, Return, CallChild

\* A step of a stage keeps the root where runPipeline() expects it.
LEMMA StageKeepsOwner ==
    ASSUME LP!IInv, Shapes, Owner, NEW i \in Stage, StageStep(i)
    PROVE  Owner'
<1>1. MovesOnly(i) /\ i \in Nat /\ N \in Stage
  BY Moves, NAssumption DEF Stage
<1>2. CASE i # N
  <2>1. at # N /\ at' # N /\ pc'[N] = pc[N] /\ caller' = caller
    BY <1>1, <1>2, NAssumption DEF MovesOnly, Stage
  <2>. QED  BY <2>1 DEF Owner, Finished
<1>3. CASE i = N
  <2>1. /\ at \in {N, N - 1} /\ at' \in {N, N - 1} /\ N \in Nat /\ caller' = caller
        /\ at = N => msg \in {"open", "getNext", "close"}
    BY <1>1, <1>3, NAssumption DEF MovesOnly, LP!Calls
  <2>2. caller \in {"opening", "fetching", "leaving", "unwinding"}
    BY <2>1 DEF Owner, Finished
  <2>3. CASE caller = "opening"
    <3>1. (at = i /\ msg = "open") \/ pc[i] \in {"opening", "draining", "rollback"}
      BY <1>3, <2>1, <2>3 DEF Owner
    <3>. QED  BY <1>3, <2>1, <2>3, <3>1, OpenAnswers DEF Owner, Finished
  <2>4. CASE caller = "fetching"
    <3>1. (at = i /\ msg = "getNext") \/ pc[i] = "pulling"
      BY <1>3, <2>1, <2>4 DEF Owner
    <3>. QED  BY <1>3, <2>1, <2>4, <3>1, GetNextAnswers DEF Owner, Finished
  <2>5. CASE caller \in {"leaving", "unwinding"}
    <3>1. (at = i /\ msg = "close") \/ pc[i] = "closing"
      BY <1>3, <2>1, <2>5 DEF Owner
    <3>. QED  BY <1>3, <2>1, <2>5, <3>1, CloseAnswers DEF Owner, Finished
  <2>. QED  BY <2>2, <2>3, <2>4, <2>5
<1>. QED  BY <1>2, <1>3

\* So does a step of runPipeline().
LEMMA GuardKeepsOwner ==
    ASSUME Owner, GuardStep
    PROVE  Owner'
<1>. USE DEF RootGave, CallRoot, Owner, Finished
<1>1. CASE GuardOpens \/ GuardOpened \/ FetchRow
  BY <1>1 DEF GuardOpens, GuardOpened, FetchRow
<1>2. CASE FetchEof \/ FetchFails
  BY <1>2 DEF FetchEof, FetchFails
<1>3. CASE GuardFails \/ GuardCloses
  BY <1>3 DEF GuardFails, GuardCloses, control
<1>. QED  BY <1>1, <1>2, <1>3 DEF GuardStep
\* A closed stage has given back its rows.
HoldsNothing ==
    \A i \in Stage : state[i] = "kClosed" => buffer[i] = {} /\ sorted[i] = <<>>

\* A stage that closes gives its rows back.
LEMMA StageKeepsNothing ==
    ASSUME LP!IInv, Shapes, HoldsNothing, NEW i \in Stage, StageStep(i)
    PROVE  HoldsNothing'
<1>1. DOMAIN state = Stage /\ DOMAIN buffer = Stage /\ DOMAIN sorted = Stage
  BY DEF LP!IInv, LP!TypeOK, LP!Stage, Stage, Shapes
<1>2. state'[i] = "kClosed" => buffer'[i] = {} /\ sorted'[i] = <<>>
  <2>1. CASE RollbackReturn(i) \/ CloseReturn(i) \/ CloseCall(i)
    BY <1>1, <2>1 DEF HoldsNothing, RollbackReturn, CloseReturn, CloseCall, Release, Enter
  <2>2. CASE \/ OpenCall(i) \/ OpenReturn(i) \/ ChildFailedOpen(i) \/ DrainRow(i)
             \/ DrainThrows(i) \/ SortBuffer(i) \/ SortThrows(i)
    <3>1. pc[i] = "draining" => state[i] = "kUnopened"
      BY Waits
    <3>. QED  BY <1>1, <2>2, <3>1 DEF HoldsNothing, OpenCall, OpenReturn, ChildFailedOpen, DrainRow,
              DrainThrows, SortBuffer, SortThrows, RollBack, Enter, data
  <2>3. CASE \/ GetNextEof(i) \/ GetNextRow(i) \/ GetNextPull(i) \/ FilterPass(i) \/ FilterDrop(i)
             \/ FilterThrows(i) \/ ProjectPass(i) \/ LimitPass(i) \/ PullEof(i) \/ PullFailed(i)
    BY <1>1, <2>3 DEF HoldsNothing, GetNextEof, GetNextRow, GetNextPull, FilterPass, FilterDrop,
       FilterThrows, ProjectPass, LimitPass, PullEof, PullFailed, Enter, data
  <2>. QED  BY <2>1, <2>2, <2>3 DEF StageStep
<1>. QED  BY <1>2, Moves DEF HoldsNothing, MovesOnly
-----------------------------------------------------------------------------
\* The counters of a stage count what control does: calls that reach it and rows
\* that its child and it report.
Plus(n, P) == IF P THEN n + 1 ELSE n

Tallied(i) ==
    /\ stats'[i].open_calls = Plus(stats[i].open_calls, at = i /\ msg = "open")
    /\ stats'[i].get_next_calls = Plus(stats[i].get_next_calls, at = i /\ msg = "getNext")
    /\ i > 1 => stats'[i].rows_in = Plus(stats[i].rows_in, at = i - 1 /\ msg = "kAdvanced")
    /\ stats'[i].rows_out = Plus(stats[i].rows_out, at' = i /\ msg' = "kAdvanced")

\* Every step of a stage is counted as control moves.
LEMMA Tally ==
    ASSUME LP!IInv, Shapes, NEW i \in Stage, StageStep(i)
    PROVE  Tallied(i)
<1>. USE DEF Called, ChildGave, CallChild, Return, Plus
<1>1. i \in Nat /\ N \in Nat /\ MovesOnly(i)
  BY Moves, NAssumption DEF Stage
<1>2. ASSUME stats' = stats, at = i - 1, msg # "kAdvanced", ~(at' = i /\ msg' = "kAdvanced")
      PROVE  Tallied(i)
  BY <1>1, <1>2 DEF Tallied
<1>3. ASSUME NEW cs, Count(i, cs),
             "open_calls" \in cs <=> at = i /\ msg = "open",
             "get_next_calls" \in cs <=> at = i /\ msg = "getNext",
             i > 1 => ("rows_in" \in cs <=> at = i - 1 /\ msg = "kAdvanced"),
             "rows_out" \in cs <=> at' = i /\ msg' = "kAdvanced"
      PROVE  Tallied(i)
  <2>1. \A c \in Counters : stats'[i][c] = IF c \in cs THEN stats[i][c] + 1 ELSE stats[i][c]
    BY <1>3, Counting
  <2>. QED  BY <1>3, <2>1 DEF Counters, Tallied
<1>4. CASE OpenCall(i)
  BY <1>1, <1>3, <1>4 DEF OpenCall
<1>5. CASE OpenReturn(i) \/ ChildFailedOpen(i) \/ SortThrows(i) \/ RollbackReturn(i)
  BY <1>1, <1>2, <1>5 DEF OpenReturn, ChildFailedOpen, SortThrows, RollbackReturn, RollBack
<1>6. CASE DrainRow(i) \/ DrainThrows(i)
  BY <1>1, <1>3, <1>6 DEF DrainRow, DrainThrows, RollBack
<1>7. CASE SortBuffer(i)
  <2>1. \A c \in Counters : stats'[i][c] = stats[i][c]
    BY <1>7, Peaking DEF SortBuffer
  <2>. QED  BY <1>1, <1>7, <2>1 DEF SortBuffer, Counters, Tallied
<1>8. CASE GetNextEof(i)
  BY <1>1, <1>3, <1>8 DEF GetNextEof, GetNext
<1>9. CASE GetNextRow(i)
  <2>1. CASE i = 1
    BY <1>1, <1>3, <1>9, <2>1 DEF GetNextRow, GetNext
  <2>2. CASE i # 1
    BY <1>1, <1>3, <1>9, <2>2 DEF GetNextRow, GetNext
  <2>. QED  BY <2>1, <2>2
<1>10. CASE GetNextPull(i)
  BY <1>1, <1>3, <1>10 DEF GetNextPull, GetNext
<1>11. CASE FilterPass(i) \/ ProjectPass(i) \/ LimitPass(i)
  BY <1>1, <1>3, <1>11 DEF FilterPass, ProjectPass, LimitPass, Pulled
<1>12. CASE FilterDrop(i) \/ FilterThrows(i)
  BY <1>1, <1>3, <1>12 DEF FilterDrop, FilterThrows, Pulled
<1>13. CASE PullEof(i) \/ PullFailed(i)
  BY <1>1, <1>2, <1>13 DEF PullEof, PullFailed
<1>14. CASE CloseCall(i) \/ CloseReturn(i)
  BY <1>1, <1>14 DEF CloseCall, CloseReturn, Tallied
<1>. QED  BY <1>4, <1>5, <1>6, <1>7, <1>8, <1>9, <1>10, <1>11, <1>12, <1>13, <1>14
          DEF StageStep

\* A blocking stage waits while it fills its buffer, any other one while it pulls.
ByKind ==
    \A i \in Stage : /\ pc[i] = "draining" => Blocking(i)
                     /\ pc[i] = "pulling" => ~Blocking(i)

\* Only a blocking stage fills a buffer, and only a streaming one pulls row by row.
LEMMA StageKeepsByKind ==
    ASSUME LP!IInv, Shapes, ByKind, NEW i \in Stage, StageStep(i)
    PROVE  ByKind'
<1>1. MovesOnly(i) /\ DOMAIN pc = Stage
  BY Moves DEF LP!IInv, LP!TypeOK, LP!Stage, Stage
<1>2. \A j \in Stage : Blocking(j)' <=> Blocking(j)
  BY <1>1 DEF MovesOnly, Blocking, Op
<1>3. /\ pc'[i] = "draining" => Blocking(i)
      /\ pc'[i] = "pulling" => ~Blocking(i)
  BY <1>1 DEF ByKind, CallChild, Return, RollBack, Pulled, StageStep, OpenCall, OpenReturn,
     ChildFailedOpen, DrainRow, DrainThrows, SortBuffer, SortThrows, RollbackReturn, GetNextEof,
     GetNextRow, GetNextPull, FilterPass, FilterDrop, FilterThrows, ProjectPass, LimitPass,
     PullEof, PullFailed, CloseCall, CloseReturn
<1>. QED  BY <1>1, <1>2, <1>3 DEF ByKind, MovesOnly

\* A row given out is taken in by the parent, unless it is on its way to it, and a
\* stage whose open() was not called has counted no call of it.
Ledger ==
    \A i \in Stage :
        /\ \A c \in Counters : stats[i][c] \in Nat
        /\ i > 1 => stats[i - 1].rows_out = Plus(stats[i].rows_in, at = i - 1 /\ msg = "kAdvanced")
        /\ i > 1 => stats[i].rows_out <= stats[i].rows_in
        /\ stats[i].open_calls <= 1
        /\ state[i] = "kUnopened" /\ pc[i] = "idle" => stats[i].open_calls = 0

\* A blocking stage gives out what it has sorted, and has sorted what it took in.
StockOf(i) ==
    /\ next_index[i] = stats[i].rows_out
    /\ state[i] = "kUnopened" =>
          /\ next_index[i] = 0
          /\ IsFiniteSet(buffer[i]) /\ Cardinality(buffer[i]) <= stats[i].rows_in
    /\ state[i] \in {"kOpen", "kEof"} =>
          Len(sorted[i]) \in Nat /\ Len(sorted[i]) <= stats[i].rows_in

Stock == \A i \in Stage : Blocking(i) => StockOf(i)

\* A row more in the buffer, of which a top-k gives up the worst when it is full.
LEMMA BufferGrowsByOne ==
    ASSUME NEW S, IsFiniteSet(S), NEW r, NEW B \in SUBSET (S \cup {r})
    PROVE  IsFiniteSet(B) /\ Cardinality(B) <= Cardinality(S) + 1
<1>1. /\ IsFiniteSet(S \cup {r}) /\ Cardinality(S) \in Nat
      /\ Cardinality(S \cup {r}) <= Cardinality(S) + 1
  BY FS_AddElement, FS_CardinalityType
<1>2. /\ IsFiniteSet(B) /\ Cardinality(B) <= Cardinality(S \cup {r})
      /\ Cardinality(B) \in Nat /\ Cardinality(S \cup {r}) \in Nat
  BY <1>1, FS_Subset, FS_CardinalityType
<1>. QED  BY <1>1, <1>2

\* A blocking stage gives out no more than it took in.
LEMMA StageKeepsStock ==
    ASSUME LP!IInv, Shapes, plan \in Plans, ByKind, Ledger, Stock, NEW i \in Stage, StageStep(i)
    PROVE  Stock'
<1>1. MovesOnly(i) /\ Tallied(i)
  BY Moves, Tally
<1>2. \A j \in Stage : Blocking(j)' <=> Blocking(j)
  BY <1>1 DEF MovesOnly, Blocking, Op
<1>3. ASSUME NEW j \in Stage \ {i}, Blocking(j) PROVE StockOf(j)'
  BY <1>1, <1>3 DEF MovesOnly, Stock, StockOf
<1>4. ASSUME Blocking(i) PROVE StockOf(i)'
  <2>1. /\ DOMAIN state = Stage /\ DOMAIN next_index = Stage /\ DOMAIN buffer = Stage
        /\ DOMAIN sorted = Stage /\ i \in Nat /\ StockOf(i)
        /\ stats[i].rows_in \in Nat /\ stats[i].rows_out \in Nat
    BY <1>4, NAssumption
       DEF LP!IInv, LP!TypeOK, LP!Stage, Stage, Shapes, Ledger, Stock, Counters
  <2>2. i > 1 /\ pc[i] # "pulling"
    BY <1>4, <2>1, PlansAssumption DEF ByKind, Blocking, Op, Stage
  <2>3. pc[i] = "draining" => state[i] = "kUnopened"
    BY Waits
  <2>. USE DEF Called, ChildGave, CallChild, Return, Enter, Plus, Tallied
  <2>4. CASE UNCHANGED <<state, next_index, buffer, sorted>> /\ ~(at' = i /\ msg' = "kAdvanced")
    <3>1. state[i] = "kUnopened" => Cardinality(buffer[i]) \in Nat
      BY <2>1, FS_CardinalityType DEF StockOf
    <3>2. /\ stats'[i].rows_out = stats[i].rows_out
          /\ stats'[i].rows_in \in {stats[i].rows_in, stats[i].rows_in + 1}
      BY <1>1, <2>1, <2>2, <2>4
    <3>. QED  BY <2>1, <2>4, <3>1, <3>2 DEF StockOf
  <2>5. CASE OpenCall(i) \/ OpenReturn(i) \/ ChildFailedOpen(i) \/ DrainThrows(i) \/ SortThrows(i)
    BY <1>1, <1>4, <2>2, <2>4, <2>5
       DEF OpenCall, OpenReturn, ChildFailedOpen, DrainThrows, SortThrows, RollBack, data
  <2>6. CASE DrainRow(i)
    <3>1. PICK B \in SUBSET (buffer[i] \cup {row}) : buffer' = [buffer EXCEPT ![i] = B]
      BY <2>6 DEF DrainRow
    <3>2. state[i] = "kUnopened"
      BY <2>3, <2>6 DEF DrainRow
    <3>3. /\ UNCHANGED <<state, next_index, sorted>>
          /\ stats'[i].rows_in = stats[i].rows_in + 1 /\ stats'[i].rows_out = stats[i].rows_out
      BY <1>1, <2>1, <2>2, <2>6 DEF DrainRow
    <3>4. IsFiniteSet(B) /\ Cardinality(B) <= Cardinality(buffer[i]) + 1
      BY <2>1, <3>2, BufferGrowsByOne DEF StockOf
    <3>5. Cardinality(B) \in Nat /\ Cardinality(buffer[i]) \in Nat
      BY <2>1, <3>2, <3>4, FS_CardinalityType DEF StockOf
    <3>6. buffer'[i] = B
      BY <2>1, <3>1
    <3>. QED  BY <2>1, <3>2, <3>3, <3>4, <3>5, <3>6 DEF StockOf
  <2>7. CASE SortBuffer(i)
    <3>1. /\ sorted'[i] = InOrder(plan[i].sort, buffer[i]) /\ state'[i] = "kOpen"
          /\ next_index' = next_index /\ state[i] = "kUnopened"
          /\ stats'[i].rows_in = stats[i].rows_in /\ stats'[i].rows_out = stats[i].rows_out
      BY <1>1, <2>1, <2>2, <2>3, <2>7 DEF SortBuffer
    <3>2. Cardinality(buffer[i]) \in Nat
      BY <2>1, <3>1, FS_CardinalityType DEF StockOf
    <3>3. Len(sorted'[i]) = Cardinality(buffer[i])
      BY <3>1, <3>2 DEF InOrder
    <3>. QED  BY <2>1, <3>1, <3>2, <3>3 DEF StockOf
  <2>8. CASE GetNextRow(i)
    <3>1. /\ UNCHANGED <<state, buffer, sorted>>
          /\ next_index'[i] = next_index[i] + 1 /\ state[i] = "kOpen"
          /\ stats'[i].rows_in = stats[i].rows_in /\ stats'[i].rows_out = stats[i].rows_out + 1
      BY <1>1, <2>1, <2>2, <2>8 DEF GetNextRow, GetNext
    <3>. QED  BY <2>1, <3>1 DEF StockOf
  <2>9. CASE GetNextEof(i)
    <3>1. /\ UNCHANGED <<next_index, buffer, sorted>>
          /\ state'[i] = "kEof" /\ state[i] \in {"kOpen", "kEof"}
          /\ stats'[i].rows_in = stats[i].rows_in /\ stats'[i].rows_out = stats[i].rows_out
      BY <1>1, <2>1, <2>2, <2>9 DEF GetNextEof, GetNext, data
    <3>. QED  BY <2>1, <3>1 DEF StockOf
  <2>10. CASE RollbackReturn(i) \/ CloseReturn(i) \/ CloseCall(i)
    <3>1. /\ UNCHANGED next_index
          /\ state'[i] = "kClosed" \/ UNCHANGED <<state, buffer, sorted>>
          /\ stats'[i].rows_in = stats[i].rows_in /\ stats'[i].rows_out = stats[i].rows_out
      BY <1>1, <2>1, <2>2, <2>10 DEF RollbackReturn, CloseReturn, CloseCall, Release
    <3>. QED  BY <2>1, <3>1 DEF StockOf
  <2>11. ~GetNextPull(i)
    BY <1>4 DEF GetNextPull
  <2>12. ~(\/ FilterPass(i) \/ FilterDrop(i) \/ FilterThrows(i) \/ ProjectPass(i) \/ LimitPass(i)
           \/ PullEof(i) \/ PullFailed(i))
    BY <2>2 DEF FilterPass, FilterDrop, FilterThrows, ProjectPass, LimitPass, PullEof,
       PullFailed, Pulled
  <2>. QED  BY <2>5, <2>6, <2>7, <2>8, <2>9, <2>10, <2>11, <2>12 DEF StageStep
<1>. QED  BY <1>2, <1>3, <1>4 DEF Stock
\* A stage returns in no state it can be opened in.
LEMMA NoReturnUnopened ==
    ASSUME LP!IInv, Shapes, NEW i \in Stage, StageStep(i), pc'[i] = "idle"
    PROVE  state'[i] # "kUnopened"
<1>1. MovesOnly(i) /\ pc[i] \in LP!Waiting \cup {"idle"} /\ i \in Nat
  BY Moves, NAssumption DEF LP!IInv, LP!TypeOK, LP!Stage, Stage
<1>2. at' = i
  BY <1>1 DEF MovesOnly
<1>3. \/ at = i /\ msg \in {"open", "getNext", "close"}
      \/ pc[i] \in {"opening", "draining", "pulling", "rollback", "closing"}
  BY <1>1 DEF MovesOnly, LP!Calls, LP!Waiting
<1>. QED  BY <1>1, <1>2, <1>3, OpenAnswers, GetNextAnswers, CloseAnswers

\* A stage with a child reports a row it took in just now or has in its buffer.
LEMMA RowFromSomewhere ==
    ASSUME LP!IInv, Shapes, NEW i \in Stage, StageStep(i), at' = i, msg' = "kAdvanced"
    PROVE  GetNextRow(i) \/ (at = i - 1 /\ msg = "kAdvanced")
<1>1. i \in Nat
  BY NAssumption DEF Stage
<1>. QED  BY <1>1 DEF StageStep, Return, CallChild, ChildGave, Pulled, RollBack, OpenCall, OpenReturn, ChildFailedOpen,
     DrainRow, DrainThrows, SortBuffer, SortThrows, RollbackReturn, GetNextEof, GetNextPull,
     FilterPass, FilterDrop, FilterThrows, ProjectPass, LimitPass, PullEof, PullFailed,
     CloseCall, CloseReturn

\* The counters of neighbours agree after a step of a stage.
LEMMA StageKeepsLedger ==
    ASSUME LP!IInv, Shapes, ByKind, Ledger, Stock, NEW i \in Stage, StageStep(i)
    PROVE  Ledger'
<1>1. MovesOnly(i) /\ Tallied(i)
  BY Moves, Tally
<1>2. i \in Nat /\ N \in Nat /\ \A j \in Stage : j \in Nat /\ (j > 1 => j - 1 \in Stage)
  BY NAssumption DEF Stage
<1>3. \A j \in Stage, c \in Counters : stats'[j][c] \in Nat
  <2>1. ASSUME NEW c \in Counters PROVE stats'[i][c] \in Nat
    <3>1. stats'[i][c] = stats[i][c] \/ stats'[i][c] = stats[i][c] + 1
      <4>1. \/ stats' = stats \/ \E cs : Count(i, cs)
            \/ \E n : stats' = [stats EXCEPT ![i].peak_memory_bytes = n]
        BY DEF StageStep, OpenCall, OpenReturn, ChildFailedOpen, DrainRow, DrainThrows,
           SortBuffer, SortThrows, RollbackReturn, GetNextEof, GetNextRow, GetNextPull,
           FilterPass, FilterDrop, FilterThrows, ProjectPass, LimitPass, PullEof, PullFailed,
           CloseCall, CloseReturn
      <4>2. ASSUME NEW cs, Count(i, cs)
            PROVE  stats'[i][c] = stats[i][c] \/ stats'[i][c] = stats[i][c] + 1
        BY <4>2, Counting
      <4>3. ASSUME NEW n, stats' = [stats EXCEPT ![i].peak_memory_bytes = n]
            PROVE  stats'[i][c] = stats[i][c]
        BY <4>3, Peaking
      <4>. QED  BY <4>1, <4>2, <4>3
    <3>. QED  BY <3>1 DEF Ledger
  <2>. QED  BY <1>1, <2>1 DEF MovesOnly, Ledger
<1>4. \A j \in Stage : /\ stats[j].rows_in \in Nat /\ stats[j].rows_out \in Nat
                       /\ stats[j].open_calls \in Nat
  BY DEF Ledger, Counters
<1>5. ASSUME NEW j \in Stage, j > 1
      PROVE  stats'[j - 1].rows_out
                = Plus(stats'[j].rows_in, at' = j - 1 /\ msg' = "kAdvanced")
  <2>1. stats[j - 1].rows_out = Plus(stats[j].rows_in, at = j - 1 /\ msg = "kAdvanced")
    BY <1>5 DEF Ledger
  <2>2. CASE j = i
    <3>1. stats'[j - 1] = stats[j - 1] /\ ~(at' = j - 1 /\ msg' = "kAdvanced")
      BY <1>1, <1>2, <1>5, <2>2 DEF MovesOnly, LP!Calls
    <3>. QED  BY <1>1, <1>4, <1>5, <2>1, <2>2, <3>1 DEF Tallied, Plus
  <2>3. CASE j = i + 1
    <3>1. /\ j - 1 = i /\ stats'[j] = stats[j]
          /\ ~(at = i /\ msg = "kAdvanced")
      BY <1>1, <1>2, <2>3 DEF MovesOnly, LP!Calls
    <3>. QED  BY <1>1, <1>4, <2>1, <3>1 DEF Tallied, Plus
  <2>4. CASE j # i /\ j # i + 1
    <3>1. /\ stats'[j] = stats[j] /\ stats'[j - 1] = stats[j - 1]
          /\ at # j - 1 /\ at' # j - 1
      BY <1>1, <1>2, <1>5, <2>4 DEF MovesOnly
    <3>. QED  BY <2>1, <3>1 DEF Plus
  <2>. QED  BY <2>2, <2>3, <2>4
<1>6. ASSUME i > 1 PROVE stats'[i].rows_out <= stats'[i].rows_in
  <2>1. stats[i].rows_out <= stats[i].rows_in
    BY <1>6 DEF Ledger
  <2>2. CASE ~(at' = i /\ msg' = "kAdvanced")
    BY <1>1, <1>4, <1>6, <2>1, <2>2 DEF Tallied, Plus
  <2>3. CASE at = i - 1 /\ msg = "kAdvanced"
    BY <1>1, <1>4, <1>6, <2>1, <2>3 DEF Tallied, Plus
  <2>4. CASE GetNextRow(i)
    <3>1. Blocking(i) /\ state[i] = "kOpen" /\ next_index[i] < Len(sorted[i])
      BY <1>2, <1>6, <2>4 DEF GetNextRow, AtHand
    <3>2. stats[i].rows_out < stats[i].rows_in
      BY <1>4, <3>1 DEF Stock, StockOf
    <3>. QED  BY <1>1, <1>4, <1>6, <3>2 DEF Tallied, Plus
  <2>. QED  BY <2>2, <2>3, <2>4, RowFromSomewhere
<1>7. /\ stats'[i].open_calls <= 1
      /\ state'[i] = "kUnopened" /\ pc'[i] = "idle" => stats'[i].open_calls = 0
  <2>1. CASE at = i /\ msg = "open"
    <3>1. OpenCall(i)
      BY <1>1, <1>2, <2>1 DEF MovesOnly, StageStep, Called, ChildGave, Pulled, GetNext, OpenReturn,
         ChildFailedOpen, DrainRow, DrainThrows, SortBuffer, SortThrows, RollbackReturn,
         GetNextEof, GetNextRow, GetNextPull, FilterPass, FilterDrop, FilterThrows,
         ProjectPass, LimitPass, PullEof, PullFailed, CloseCall, CloseReturn
    <3>2. stats[i].open_calls = 0
      BY <1>1, <1>2, <2>1, <3>1 DEF OpenCall, MovesOnly, Ledger
    <3>. QED  BY <1>1, <2>1, <3>2, NoReturnUnopened DEF Tallied, Plus
  <2>2. CASE ~(at = i /\ msg = "open")
    BY <1>1, <2>2, NoReturnUnopened DEF Tallied, Plus, Ledger
  <2>. QED  BY <2>1, <2>2
<1>8. ASSUME NEW j \in Stage \ {i}
      PROVE  /\ j > 1 => stats'[j].rows_out <= stats'[j].rows_in
             /\ stats'[j].open_calls <= 1
             /\ state'[j] = "kUnopened" /\ pc'[j] = "idle" => stats'[j].open_calls = 0
  BY <1>1 DEF MovesOnly, Ledger
<1>. QED  BY <1>3, <1>5, <1>6, <1>7, <1>8 DEF Ledger
-----------------------------------------------------------------------------
\* A limit that waits for a row has asked for one more than it has passed on, or is
\* about to; one that waits for nothing has asked for as many, until a row that
\* never came makes the query fail.
PullsOf(i) ==
    LET asked == stats[i - 1].get_next_calls
    IN  /\ emitted[i] \in Nat
        /\ asked <= plan[i].limit
        /\ state[i] = "kUnopened" => asked = 0 /\ emitted[i] = 0
        /\ pc[i] = "pulling" =>
              /\ emitted[i] < plan[i].limit
              /\ asked = IF at = i - 1 /\ msg = "getNext" THEN emitted[i] ELSE emitted[i] + 1
        /\ state[i] = "kOpen" /\ pc[i] = "idle" => asked = emitted[i] \/ msg \in {"throw", "close"}

Pulls == \A i \in Stage : Op(i) = "Limit" => PullsOf(i)

\* What makes a query fail goes up, and a close goes down to what is not closed.
LEMMA FailureGoesOn ==
    ASSUME LP!IInv, Shapes, NEW i \in Stage, i > 1, StageStep(i),
           msg \in {"throw", "close"}, state[i] # "kClosed"
    PROVE  msg' \in {"throw", "close"}
<1>1. ChildFailedOpen(i) \/ PullFailed(i) \/ CloseCall(i)
  BY DEF StageStep, Called, ChildGave, Pulled, GetNext, OpenCall, OpenReturn, DrainRow, DrainThrows,
     SortBuffer, SortThrows, RollbackReturn, GetNextEof, GetNextRow, GetNextPull, FilterPass,
     FilterDrop, FilterThrows, ProjectPass, LimitPass, PullEof, CloseReturn
<1>. QED  BY <1>1 DEF ChildFailedOpen, PullFailed, CloseCall, RollBack, CallChild, Return

\* A step of the limit itself.
LEMMA LimitKeepsPulls ==
    ASSUME LP!IInv, Shapes, ByKind, NEW i \in Stage, i > 1, StageStep(i), Op(i) = "Limit",
           plan[i].limit \in Nat, stats[i - 1].get_next_calls \in Nat, PullsOf(i)
    PROVE  PullsOf(i)'
<1>1. MovesOnly(i) /\ i \in Nat /\ i - 1 \in Stage \ {i}
  BY Moves, NAssumption DEF Stage
<1>2. /\ DOMAIN state = Stage /\ DOMAIN emitted = Stage /\ DOMAIN pc = Stage
      /\ stats'[i - 1] = stats[i - 1] /\ plan' = plan
  BY <1>1 DEF LP!IInv, LP!TypeOK, LP!Stage, Stage, Shapes, MovesOnly
<1>3. /\ pc[i] = "opening" => state[i] = "kUnopened"
      /\ pc[i] = "pulling" => state[i] = "kOpen"
      /\ pc[i] # "draining" /\ ~Blocking(i)
  BY Waits DEF ByKind, Blocking
<1>. USE DEF Called, ChildGave, CallChild, Return, Enter
<1>4. CASE OpenCall(i) \/ OpenReturn(i) \/ ChildFailedOpen(i)
  BY <1>1, <1>2, <1>3, <1>4 DEF OpenCall, OpenReturn, ChildFailedOpen, RollBack, PullsOf, data
<1>5. CASE RollbackReturn(i) \/ CloseReturn(i) \/ CloseCall(i)
  BY <1>1, <1>2, <1>3, <1>5 DEF RollbackReturn, CloseReturn, CloseCall, Release, PullsOf
<1>6. CASE GetNextEof(i) \/ PullEof(i)
  BY <1>1, <1>2, <1>3, <1>6 DEF GetNextEof, GetNext, PullEof, PullsOf, data
<1>7. CASE GetNextPull(i)
  BY <1>1, <1>2, <1>3, <1>7 DEF GetNextPull, GetNext, PullsOf, MovesOnly, data
<1>8. CASE LimitPass(i)
  BY <1>1, <1>2, <1>3, <1>8 DEF LimitPass, Pulled, PullsOf
<1>9. CASE PullFailed(i)
  BY <1>1, <1>2, <1>3, <1>9 DEF PullFailed, PullsOf, data
<1>10. ~(\/ DrainRow(i) \/ DrainThrows(i) \/ SortBuffer(i) \/ SortThrows(i) \/ GetNextRow(i)
         \/ FilterPass(i) \/ FilterDrop(i) \/ FilterThrows(i) \/ ProjectPass(i))
  BY <1>3 DEF DrainRow, DrainThrows, SortBuffer, SortThrows, GetNextRow, FilterPass, FilterDrop,
     FilterThrows, ProjectPass, Pulled
<1>. QED  BY <1>4, <1>5, <1>6, <1>7, <1>8, <1>9, <1>10 DEF StageStep

\* A step of any stage keeps a limit from asking too often.
LEMMA StageKeepsPulls ==
    ASSUME LP!IInv, Shapes, plan \in Plans, ByKind, Ledger, Pulls, NEW m \in Stage, StageStep(m)
    PROVE  Pulls'
<1>1. MovesOnly(m) /\ Tallied(m)
  BY Moves, Tally
<1>2. m \in Nat /\ N \in Nat /\ at \in Nat
  BY NAssumption DEF LP!IInv, LP!TypeOK, LP!Stage, Stage
<1>3. ASSUME NEW i \in Stage, Op(i) = "Limit" PROVE PullsOf(i)'
  <2>1. i > 1 /\ i \in Nat /\ i - 1 \in Stage /\ plan[i].limit \in Nat
    BY <1>3, PlansAssumption, NAssumption DEF Op, Stage
  <2>2. stats[i - 1].get_next_calls \in Nat /\ PullsOf(i) /\ plan' = plan
    BY <1>1, <1>3, <2>1 DEF Ledger, Counters, Pulls, MovesOnly
  <2>3. pc[i] = "idle" <=> i <= at
    BY DEF LP!IInv, LP!Stack, LP!Stage, Stage
  <2>4. CASE m = i
    BY <1>3, <2>1, <2>2, <2>4, LimitKeepsPulls
  <2>5. /\ m # i => /\ pc'[i] = pc[i] /\ state'[i] = state[i] /\ emitted'[i] = emitted[i]
        /\ m # i - 1 => stats'[i - 1] = stats[i - 1]
    BY <1>1, <2>1 DEF MovesOnly
  <2>6. CASE m = i - 1
    <3>1. /\ pc[i] # "idle"
          /\ ~(at' = i - 1 /\ msg' = "getNext")
      BY <1>1, <1>2, <2>1, <2>3, <2>6 DEF MovesOnly, LP!Results
    <3>2. stats'[i - 1].get_next_calls
            = Plus(stats[i - 1].get_next_calls, at = i - 1 /\ msg = "getNext")
      BY <1>1, <2>6 DEF Tallied
    <3>3. at = i - 1 /\ msg = "getNext" => pc[i] = "pulling" /\ state[i] = "kOpen"
      <4>1. at = i - 1 /\ msg = "getNext" => pc[i] \in {"draining", "pulling"}
        BY <2>1 DEF LP!IInv, LP!Stack, LP!Between, LP!Stage, Stage
      <4>. QED  BY <1>3, <4>1, Waits DEF ByKind, Blocking
    <3>4. pc[i] = "pulling" => state[i] = "kOpen"
      BY Waits
    <3>. QED  BY <2>1, <2>2, <2>5, <2>6, <3>1, <3>2, <3>3, <3>4 DEF PullsOf, Plus
  <2>7. CASE m < i - 1
    <3>1. pc[i] # "idle" /\ at # i - 1 /\ at' # i - 1
      BY <1>1, <1>2, <2>1, <2>3, <2>7 DEF MovesOnly
    <3>. QED  BY <2>2, <2>5, <2>7, <3>1, <2>1, <1>2 DEF PullsOf
  <2>8. CASE i < m
    <3>1. pc[i] = "idle"
      BY <1>1, <1>2, <2>1, <2>3, <2>8 DEF MovesOnly
    <3>2. state[i] = "kOpen" /\ msg \in {"throw", "close"} => msg' \in {"throw", "close"}
      <4>1. state[i] = "kOpen" /\ pc[m] = "idle" => state[m] # "kClosed"
        BY <2>8 DEF LP!IInv, LP!ClosedBelow, LP!Stage, Stage
      <4>2. pc[m] # "idle" => state[m] # "kClosed"
        <5>1. pc[m] # "idle" => pc[m] \in LP!Waiting
          BY DEF LP!IInv, LP!TypeOK, LP!Stage, Stage
        <5>. QED  BY <5>1, Waits DEF LP!Waiting
      <4>. QED  BY <1>2, <2>1, <2>8, <4>1, <4>2, FailureGoesOn
    <3>. QED  BY <1>2, <2>1, <2>2, <2>5, <2>8, <3>1, <3>2 DEF PullsOf
  <2>. QED  BY <1>2, <2>1, <2>4, <2>6, <2>7, <2>8
<1>4. \A i \in Stage : Op(i)' = Op(i)
  BY <1>1 DEF MovesOnly, Op
<1>. QED  BY <1>3, <1>4 DEF Pulls
-----------------------------------------------------------------------------
IInv ==
    /\ LP!IInv /\ plan \in Plans
    /\ Shapes /\ Owner /\ HoldsNothing /\ ByKind /\ Ledger /\ Stock /\ Pulls

\* The invariant holds at the beginning,
LEMMA InitInv == Init => IInv
<1>. SUFFICES ASSUME Init PROVE IInv
  OBVIOUS
<1>1. LP!IInv /\ plan \in Plans
  BY InitInLifecycle DEF InLifecycle
<1>2. N \in Stage /\ \A i \in Stage : i \in Nat /\ (i > 1 => i - 1 \in Stage)
  BY NAssumption DEF Stage
<1>3. Shapes
  BY DEF Init, Shapes, Counters
<1>4. Owner /\ HoldsNothing /\ ByKind
  BY <1>2 DEF Init, Owner, HoldsNothing, ByKind, Finished
<1>5. Ledger
  BY <1>2 DEF Init, Ledger, Counters, Plus
<1>6. Stock
  BY <1>2, FS_EmptySet DEF Init, Stock, StockOf
<1>7. Pulls
  <2>1. ASSUME NEW i \in Stage, Op(i) = "Limit" PROVE PullsOf(i)
    <3>1. i - 1 \in Stage /\ plan[i].limit \in Nat
      BY <1>1, <1>2, <2>1, PlansAssumption DEF Op, Stage
    <3>. QED  BY <3>1 DEF Init, PullsOf
  <2>. QED  BY <2>1 DEF Pulls
<1>. QED  BY <1>1, <1>3, <1>4, <1>5, <1>6, <1>7 DEF IInv

\* a step of runPipeline() keeps it,
LEMMA GuardStepInv ==
    ASSUME IInv, GuardStep
    PROVE  /\ Shapes' /\ Owner' /\ HoldsNothing' /\ ByKind' /\ Ledger' /\ Stock' /\ Pulls'
<1>1. /\ UNCHANGED <<plan, state, pc, at, stats, next_index, emitted, buffer, sorted>>
      /\ msg \in {"ok", "kAdvanced", "kEof", "throw"}
      /\ msg' \in {"open", "getNext", "close", msg}
      /\ msg = "throw" => msg' \in {"throw", "close"}
      /\ at = N
  BY DEF IInv, Owner, Finished, GuardStep, GuardOpens, GuardOpened, GuardFails, FetchRow, FetchEof,
     FetchFails, GuardCloses, RootGave, CallRoot, task, data, control
<1>2. Shapes' /\ HoldsNothing' /\ ByKind' /\ Stock'
  BY <1>1 DEF IInv, Shapes, HoldsNothing, ByKind, Stock, StockOf, Blocking, Op
<1>3. \A i \in Stage : i \in Nat /\ i - 1 # N /\ (pc[i] = "idle")
  BY <1>1, NAssumption DEF IInv, LP!IInv, LP!Stack, LP!Stage, Stage
<1>4. Ledger'
  BY <1>1, <1>3 DEF IInv, Ledger, Plus
<1>5. Pulls'
  BY <1>1, <1>3 DEF IInv, Pulls, PullsOf, Op
<1>6. Owner'
  BY GuardKeepsOwner DEF IInv
<1>. QED  BY <1>2, <1>4, <1>5, <1>6

\* and so does every step;
LEMMA NextInv == IInv /\ [Next]_vars => IInv'
<1>. SUFFICES ASSUME IInv, [Next]_vars PROVE IInv'
  OBVIOUS
<1>1. LP!IInv' /\ plan' \in Plans
  BY NextInLifecycle DEF IInv, InLifecycle
<1>2. ASSUME NEW i \in Stage, StageStep(i) PROVE IInv'
  <2>1. MovesOnly(i)
    BY <1>2, Moves DEF IInv
  <2>. QED  BY <1>1, <1>2, <2>1, StageKeepsOwner, StageKeepsNothing, StageKeepsByKind,
            StageKeepsLedger, StageKeepsStock, StageKeepsPulls DEF IInv, MovesOnly
<1>3. CASE GuardStep
  BY <1>1, <1>3, GuardStepInv DEF IInv
<1>4. CASE UNCHANGED vars
  BY <1>1, <1>4 DEF vars, task, control, data, IInv, Shapes, Owner, Finished, HoldsNothing, ByKind,
     Ledger, Stock, StockOf, Pulls, PullsOf, Blocking, Op
<1>. QED  BY <1>2, <1>3, <1>4 DEF Next, Over, GuardStep

\* so that it always holds.
LEMMA Invariance == Spec => []IInv
BY InitInv, NextInv, PTL DEF Spec

\* Whichever way runPipeline() is left, after a last row or an exception anywhere,
\* every stage of the plan is closed and holds no rows
\* (plan_stage_execution_guard.h:7-13, plan_stage_base.cpp:30-38).
THEOREM ExecutionReleasesAll == Spec => []AllReleased
<1>1. IInv => AllReleased
  <2>. SUFFICES ASSUME IInv, Finished, NEW i \in Stage
                PROVE  state[i] = "kClosed" /\ buffer[i] = {} /\ sorted[i] = <<>>
    BY DEF AllReleased
  <2>1. at = N /\ state[N] = "kClosed"
    BY DEF IInv, Owner
  <2>2. N \in Stage /\ i \in Nat /\ i <= N /\ pc[N] = "idle"
    BY <2>1, NAssumption DEF IInv, LP!IInv, LP!Stack, LP!Stage, Stage
  <2>3. state[i] = "kClosed"
    BY <2>1, <2>2, NAssumption DEF IInv, LP!IInv, LP!ClosedBelow, LP!Stage, Stage
  <2>. QED  BY <2>3 DEF IInv, HoldsNothing
<1>. QED  BY <1>1, Invariance, PTL

\* The counters of EXPLAIN ANALYZE add up from the scan to the root, whether the
\* query ended or failed (plan_stage_base.cpp:24-60, query_facade.cpp).
THEOREM CountersAddUp == Spec => []RowsAccounted
<1>1. IInv => RowsAccounted
  <2>. SUFFICES ASSUME IInv, Finished, NEW i \in 2 .. N
                PROVE  /\ stats[i].rows_in = stats[i - 1].rows_out
                       /\ stats[i].rows_out <= stats[i].rows_in
                       /\ stats[i].open_calls <= 1
    BY DEF RowsAccounted
  <2>1. at = N /\ i \in Stage /\ i > 1 /\ i - 1 # N
    BY NAssumption DEF IInv, Owner, Stage
  <2>. QED  BY <2>1 DEF IInv, Ledger, Plus
<1>. QED  BY <1>1, Invariance, PTL

\* A limit stops pulling: whatever is below it and above it, its child is asked for
\* at most as many rows as it may pass on (limit_stage.cpp:16-31).
THEOREM LimitsStopPulling == Spec => []LimitStopsPulling
<1>1. IInv => LimitStopsPulling
  BY DEF IInv, Pulls, PullsOf, LimitStopsPulling
<1>. QED  BY <1>1, Invariance, PTL
-----------------------------------------------------------------------------
\* What a plan yields is foretold by one outcome o[i] of every stage i that is open,
\* of the outcomes f[i] it may have over rows of w[i] columns.
Going(i) == state[i] \in {"kOpen", "kEof"}

\* Nothing has failed and nothing closes.
Calm == msg \notin {"throw", "close"} /\ ~(msg = "ok" /\ state[at] = "kClosed")

Script(f, w) ==
    /\ AreStages(plan, N) /\ FitTogether(plan, N, w) /\ AreRows(table, w[1])
    /\ Passes(f, plan, N, table) /\ Outcomes(plan, table) = f[N]

Chosen(o, f, i) ==
    /\ o[i] \in f[i] /\ o[i] # FailsToOpen
    /\ i > 1 => o[i] \in Apply(plan[i], o[i - 1])

\* What a streaming stage has made of the rows it took in.
Streams(o, i) ==
    LET taken == stats[i].rows_in
        given == stats[i].rows_out
        below == o[i - 1].rows
    IN  /\ Op(i) = "Filter" =>
              /\ Fine(plan[i].predicate, below, taken)
              /\ given = Cardinality(KeptOf(plan[i].predicate, below, taken))
        /\ Op(i) = "Project" => given = taken
        /\ Op(i) = "Limit" => given = taken /\ emitted[i] = taken /\ taken <= plan[i].limit

AtEnd(o, i, fate) == o[i].fate = fate /\ stats[i].rows_out = Len(o[i].rows)

Progress(o, i) ==
    /\ stats[i].rows_out <= Len(o[i].rows)
    /\ state[i] = "kEof" => AtEnd(o, i, "eof")
    /\ i = 1 \/ Blocking(i) =>
          AtHand(i) = o[i].rows /\ next_index[i] = stats[i].rows_out /\ o[i].fate = "eof"
    /\ i > 1 /\ ~Blocking(i) => Streams(o, i)

Taken(o, i) == {o[i - 1].rows[j] : j \in 1 .. stats[i].rows_in}

Drained(o, i) ==
    /\ Op(i) = "Sort" => buffer[i] = Taken(o, i)
    /\ Op(i) = "TopK" => Heap(plan[i].sort, plan[i].k, Taken(o, i), buffer[i])

Fresh(i) ==
    /\ stats[i].rows_out = 0 /\ next_index[i] = 0 /\ emitted[i] = 0
    /\ pc[i] \notin {"draining", "rollback"} => stats[i].rows_in = 0 /\ buffer[i] = {}

StageForetold(o, f, i) ==
    /\ Going(i) => Chosen(o, f, i)
    /\ Going(i) /\ (Calm \/ pc[i] = "pulling") => Progress(o, i)
    /\ pc[i] = "draining" => Drained(o, i)
    /\ state[i] = "kUnopened" => Fresh(i)
    /\ pc[i] = "rollback" => FailsToOpen \in f[i]

\* What a stage has given is what was foretold.
Told(o, f) ==
    /\ msg = "kAdvanced" => /\ Going(at) /\ stats[at].rows_out > 0
                            /\ row = o[at].rows[stats[at].rows_out]
    /\ msg = "kEof" => state[at] = "kEof"
    /\ msg = "throw" => IF Going(at) THEN AtEnd(o, at, "fails") ELSE FailsToOpen \in f[at]

Collected(o, f) ==
    /\ caller \in {"start", "opening"} => result = <<>> /\ stats[N].rows_out = 0
    /\ caller = "fetching" =>
          /\ stats[N].rows_out = Plus(Len(result), at = N /\ msg = "kAdvanced")
          /\ result \in Seq(ToSet(o[N].rows))
          /\ \A j \in 1 .. Len(result) : result[j] = o[N].rows[j]
    /\ caller \in {"leaving", "done"} => /\ Yields(result) \in f[N]
                                         /\ Len(result) = stats[N].rows_out
    /\ caller = "unwinding" => FailsAfter(result) \in f[N]
    /\ caller = "failed" => \/ FailsAfter(result) \in f[N]
                            \/ FailsToOpen \in f[N] /\ result = <<>>

Story(o, f, w) ==
    /\ Script(f, w)
    /\ \A i \in Stage : StageForetold(o, f, i)
    /\ Told(o, f) /\ Collected(o, f)

Foretold == \E o, f, w : Story(o, f, w)

\* The outcomes of a plan are of rows.
LEMMA Scripted ==
    ASSUME NEW f, NEW w, Script(f, w), NEW i \in Stage
    PROVE  /\ f[1] = {Yields(table)}
           /\ i > 1 => /\ i - 1 \in Stage /\ FitsOver(plan[i], w[i - 1])
                       /\ f[i] = After(plan[i], f[i - 1])
                       /\ \A x \in f[i - 1] : Apply(plan[i], x) \subseteq f[i]
                       /\ FailsToOpen \in f[i - 1] => FailsToOpen \in f[i]
           /\ \A x \in f[i] : /\ IsOutcome(x, w[i]) /\ AreRows(x.rows, w[i])
                              /\ Len(x.rows) \in Nat /\ DOMAIN x.rows = 1 .. Len(x.rows)
<1>1. N \in Nat /\ N > 0 /\ i \in Nat /\ i <= N
  BY NAssumption DEF Stage
<1>2. f[1] = {Yields(table)} /\ \A j \in 2 .. N : f[j] = After(plan[j], f[j - 1])
  BY <1>1, PassOn DEF Script
<1>3. ASSUME NEW x \in f[i]
      PROVE  /\ IsOutcome(x, w[i]) /\ AreRows(x.rows, w[i])
             /\ Len(x.rows) \in Nat /\ DOMAIN x.rows = 1 .. Len(x.rows)
  <2>1. IsOutcome(x, w[i])
    BY <1>1, OutcomesFit DEF Script, Stage
  <2>2. AreRows(x.rows, w[i])
    BY <2>1 DEF IsOutcome
  <2>. QED  BY <2>1, <2>2, RowsListed
<1>4. ASSUME i > 1
      PROVE  /\ i - 1 \in Stage /\ FitsOver(plan[i], w[i - 1])
             /\ f[i] = After(plan[i], f[i - 1])
             /\ \A x \in f[i - 1] : Apply(plan[i], x) \subseteq f[i]
             /\ FailsToOpen \in f[i - 1] => FailsToOpen \in f[i]
  <2>1. i \in 2 .. N /\ i - 1 \in Stage
    BY <1>1, <1>4 DEF Stage
  <2>2. FitsOver(plan[i], w[i - 1]) /\ f[i] = After(plan[i], f[i - 1])
    BY <1>2, <2>1 DEF Script, FitTogether
  <2>3. \A x \in f[i - 1] : Apply(plan[i], x) \subseteq f[i]
    BY <2>2 DEF After
  <2>4. FailsToOpen \in f[i - 1] => FailsToOpen \in f[i]
    BY <2>2, <2>3, FailureToOpenGoesUp
  <2>. QED  BY <2>1, <2>2, <2>3, <2>4
<1>. QED  BY <1>2, <1>3, <1>4

\* The rows a stage has taken in so far, as integers and as a row on its way.
LEMMA Received ==
    ASSUME IInv, NEW o, NEW f, NEW w, Story(o, f, w), NEW i \in Stage, i > 1, at = i - 1
    PROVE  /\ msg = "kAdvanced" =>
                 /\ Chosen(o, f, i - 1) /\ stats[i].rows_in \in 0 .. Len(o[i - 1].rows)
                 /\ stats[i].rows_in < Len(o[i - 1].rows)
                 /\ row = o[i - 1].rows[stats[i].rows_in + 1]
           /\ msg = "kEof" =>
                 /\ Chosen(o, f, i - 1) /\ stats[i].rows_in = Len(o[i - 1].rows)
                 /\ o[i - 1].fate = "eof"
           /\ msg = "throw" /\ pc[i] \in {"draining", "pulling"} =>
                 /\ Chosen(o, f, i - 1) /\ stats[i].rows_in = Len(o[i - 1].rows)
                 /\ o[i - 1].fate = "fails"
<1>1. /\ Script(f, w) /\ StageForetold(o, f, i - 1) /\ Told(o, f) /\ i \in Nat
      /\ i - 1 \in Stage
  BY NAssumption DEF Story, Stage
<1>2. /\ stats[i - 1].rows_out = Plus(stats[i].rows_in, msg = "kAdvanced")
      /\ stats[i].rows_in \in Nat /\ stats[i - 1].rows_out \in Nat
  BY <1>1 DEF IInv, Ledger, Counters
<1>3. Chosen(o, f, i - 1) => Len(o[i - 1].rows) \in Nat
  BY <1>1, Scripted DEF Chosen
<1>4. ASSUME msg = "kAdvanced"
      PROVE  /\ Chosen(o, f, i - 1) /\ stats[i].rows_in \in 0 .. Len(o[i - 1].rows)
             /\ stats[i].rows_in < Len(o[i - 1].rows)
             /\ row = o[i - 1].rows[stats[i].rows_in + 1]
  <2>1. Going(i - 1) /\ row = o[i - 1].rows[stats[i - 1].rows_out]
    BY <1>1, <1>4 DEF Told
  <2>2. Chosen(o, f, i - 1) /\ Progress(o, i - 1)
    BY <1>1, <1>4, <2>1 DEF StageForetold, Calm
  <2>3. stats[i - 1].rows_out = stats[i].rows_in + 1 /\ stats[i - 1].rows_out <= Len(o[i - 1].rows)
    BY <1>2, <1>4, <2>2 DEF Plus, Progress
  <2>. QED  BY <1>2, <1>3, <2>1, <2>2, <2>3
<1>5. ASSUME msg = "kEof"
      PROVE  /\ Chosen(o, f, i - 1) /\ stats[i].rows_in = Len(o[i - 1].rows)
             /\ o[i - 1].fate = "eof"
  <2>1. state[i - 1] = "kEof" /\ Going(i - 1)
    BY <1>1, <1>5 DEF Told, Going
  <2>2. Chosen(o, f, i - 1) /\ Progress(o, i - 1)
    BY <1>1, <1>5, <2>1 DEF StageForetold, Calm
  <2>. QED  BY <1>2, <1>5, <2>1, <2>2 DEF Progress, AtEnd, Plus
<1>6. ASSUME msg = "throw", pc[i] \in {"draining", "pulling"}
      PROVE  /\ Chosen(o, f, i - 1) /\ stats[i].rows_in = Len(o[i - 1].rows)
             /\ o[i - 1].fate = "fails"
  <2>1. Going(i - 1)
    BY <1>6 DEF IInv, LP!IInv, LP!Child, LP!ChildOf, LP!Stage, Stage, Going
  <2>2. Chosen(o, f, i - 1) /\ AtEnd(o, i - 1, "fails")
    BY <1>1, <1>6, <2>1 DEF StageForetold, Told
  <2>. QED  BY <1>2, <1>6, <2>2 DEF AtEnd, Plus
<1>. QED  BY <1>4, <1>5, <1>6

\* Once a query fails or closes its plan it does nothing else.
LEMMA NeverCalmAgain ==
    ASSUME IInv, NEW i \in Stage, StageStep(i), Calm'
    PROVE  Calm
<1>1. /\ DOMAIN state = Stage /\ at \in Stage /\ i \in Nat
      /\ pc[i] = "opening" /\ at = i - 1 /\ msg = "ok" => state[i - 1] = "kOpen"
  <2>1. pc[i] # "idle" => i > 1
    BY Waits DEF IInv
  <2>. QED  BY <2>1, NAssumption
            DEF IInv, LP!IInv, LP!TypeOK, LP!Child, LP!ChildOf, LP!Stage, Stage
<1>. SUFFICES ASSUME ~Calm PROVE FALSE
  OBVIOUS
<1>2. msg \in {"throw", "close"} \/ (msg = "ok" /\ state[at] = "kClosed")
  BY DEF Calm
<1>3. \/ ChildFailedOpen(i) \/ PullFailed(i) \/ CloseCall(i) \/ RollbackReturn(i)
      \/ CloseReturn(i)
  BY <1>1, <1>2
     DEF StageStep, Called, ChildGave, Pulled, GetNext, OpenCall, OpenReturn, DrainRow, DrainThrows,
         SortBuffer, SortThrows, GetNextEof, GetNextRow, GetNextPull, FilterPass, FilterDrop,
         FilterThrows, ProjectPass, LimitPass, PullEof
<1>. QED  BY <1>1, <1>3
     DEF ChildFailedOpen, PullFailed, CloseCall, RollbackReturn, CloseReturn, RollBack, Release,
         Enter, Return, CallChild, Called, Calm

\* What is foretold of another stage than the one that moves stays so, also when the
\* one that moves opens and its outcome is chosen.
LEMMA OthersForetold ==
    ASSUME IInv, NEW i \in Stage, StageStep(i), NEW o, NEW f, NEW oo,
           \A j \in Stage \ {i} : oo[j] = o[j] /\ StageForetold(o, f, j),
           oo[i] = o[i] \/ (state[i] = "kUnopened" /\ (i < N => pc[i + 1] \in {"opening", "idle"}))
    PROVE  \A j \in Stage \ {i} : StageForetold(oo, f, j)'
<1>1. MovesOnly(i) /\ i \in Nat /\ N \in Nat /\ at \in Nat
  BY Moves, NAssumption DEF IInv, LP!IInv, LP!TypeOK, LP!Stage, Stage
<1>2. TAKE j \in Stage \ {i}
<1>3. /\ UNCHANGED <<plan, table>> /\ j \in Nat
      /\ pc'[j] = pc[j] /\ state'[j] = state[j] /\ stats'[j] = stats[j]
      /\ next_index'[j] = next_index[j] /\ emitted'[j] = emitted[j]
      /\ buffer'[j] = buffer[j] /\ sorted'[j] = sorted[j]
  BY <1>1 DEF MovesOnly, Stage
<1>4. Calm' => Calm
  BY NeverCalmAgain
<1>5. j > 1 => j - 1 \in Stage
  BY <1>1, <1>3 DEF Stage
<1>6. oo[j] = o[j] /\ StageForetold(o, f, j)
  OBVIOUS
<1>7. CASE j > 1 => oo[j - 1] = o[j - 1]
  <2>1. j > 1 \/ j = 1
    BY <1>3 DEF Stage
  <2>2. Chosen(oo, f, j)' <=> Chosen(o, f, j)
    BY <1>3, <1>6, <1>7, <2>1 DEF Chosen
  <2>3. Blocking(j)' <=> Blocking(j)
    BY <1>3 DEF Blocking, Op
  <2>4. ASSUME NEW q PROVE AtEnd(oo, j, q)' <=> AtEnd(o, j, q)
    BY <1>3, <1>6 DEF AtEnd
  <2>5. j > 1 /\ ~Blocking(j) => (Streams(oo, j)' <=> Streams(o, j))
    BY <1>3, <1>6, <1>7 DEF Streams, Op
  <2>6. j = 1 \/ Blocking(j) =>
           (AtHand(j) = o[j].rows => AtHand(j)' = oo[j].rows)
    BY <1>3, <1>6 DEF AtHand
  <2>7. Progress(o, j) => Progress(oo, j)'
    BY <1>3, <1>6, <2>1, <2>3, <2>4, <2>5, <2>6 DEF Progress
  <2>8. j > 1 /\ Drained(o, j) => Drained(oo, j)'
    BY <1>3, <1>7 DEF Drained, Taken, Op
  <2>9. Fresh(j) => Fresh(j)'
    BY <1>3 DEF Fresh
  <2>10. Going(j)' <=> Going(j)
    BY <1>3 DEF Going
  <2>11. pc[j] = "draining" => j > 1
    BY Waits DEF IInv
  <2>. QED  BY <1>3, <1>4, <1>6, <2>2, <2>7, <2>8, <2>9, <2>10, <2>11 DEF StageForetold
<1>8. CASE j > 1 /\ oo[j - 1] # o[j - 1]
  <2>1. j = i + 1 /\ state[i] = "kUnopened" /\ pc[j] \in {"opening", "idle"}
    BY <1>1, <1>3, <1>5, <1>8 DEF Stage
  <2>2. state[j] = "kUnopened"
    <3>1. pc[j] = "opening" => state[j] = "kUnopened"
      BY Waits DEF IInv
    <3>2. pc[j] = "idle" => state[j] = "kUnopened"
      BY <1>1, <2>1 DEF IInv, LP!IInv, LP!Child, LP!ChildOf, LP!Stage, Stage
    <3>. QED  BY <2>1, <3>1, <3>2
  <2>3. Fresh(j)
    BY <1>6, <2>2 DEF StageForetold
  <2>4. Fresh(j)'
    BY <1>3, <2>3 DEF Fresh
  <2>5. state'[j] = "kUnopened" /\ pc'[j] \in {"opening", "idle"}
    BY <1>3, <2>1, <2>2
  <2>. QED  BY <2>4, <2>5 DEF StageForetold, Going
<1>. QED  BY <1>7, <1>8

\* Below the root nothing is collected, and the root gives out a row at a time.
LEMMA CollectedStays ==
    ASSUME IInv, NEW i \in Stage, StageStep(i), NEW o, NEW f, Collected(o, f), NEW oo,
           i # N => oo[N] = o[N],
           oo[i] = o[i] \/ state[i] = "kUnopened"
    PROVE  Collected(oo, f)'
<1>1. MovesOnly(i) /\ Tallied(i) /\ i \in Nat /\ N \in Nat /\ N \in Stage /\ Owner
  BY Moves, Tally, NAssumption DEF IInv, Stage
<1>2. UNCHANGED <<caller, result>>
  BY <1>1 DEF MovesOnly
<1>3. CASE i # N
  <2>1. /\ stats'[N] = stats[N] /\ at # N /\ at' # N
    BY <1>1, <1>3 DEF MovesOnly, Stage
  <2>. QED  BY <1>2, <1>3, <2>1 DEF Collected, Plus
<1>4. CASE i = N
  <2>1. /\ at = N => msg \in {"open", "getNext", "close"}
        /\ stats'[N].rows_out = Plus(stats[N].rows_out, at' = N /\ msg' = "kAdvanced")
    BY <1>1, <1>4 DEF MovesOnly, LP!Calls, Tallied
  <2>2. caller \in {"opening", "fetching", "leaving", "unwinding"}
    BY <1>1, <2>1 DEF Owner, Finished, MovesOnly
  <2>3. CASE caller = "opening"
    <3>1. (at = i /\ msg = "open") \/ pc[i] \in {"opening", "draining", "rollback"}
      BY <1>1, <1>4, <2>1, <2>3 DEF Owner, MovesOnly
    <3>2. ~(at' = N /\ msg' = "kAdvanced")
      BY <1>1, <1>4, <3>1, OpenAnswers DEF IInv
    <3>. QED  BY <1>2, <2>1, <2>3, <3>2 DEF Collected, Plus
  <2>4. CASE caller = "fetching"
    <3>1. stats[N].rows_out = Len(result)
      BY <2>1, <2>4 DEF Collected, Plus
    <3>2. state[N] # "kUnopened"
      <4>1. pc[N] = "pulling" => state[N] = "kOpen"
        BY <1>1, Waits DEF IInv
      <4>. QED  BY <1>1, <2>4, <4>1 DEF Owner
    <3>3. oo[N] = o[N]
      BY <1>4, <3>2
    <3>4. /\ \A j \in 1 .. Len(result) : result[j] = oo[N].rows[j]
          /\ result \in Seq(ToSet(oo[N].rows))
      BY <2>4, <3>3 DEF Collected
    <3>. QED  BY <1>2, <2>1, <2>4, <3>1, <3>4 DEF Collected
  <2>5. CASE caller \in {"leaving", "unwinding"}
    <3>1. ~(at' = N /\ msg' = "kAdvanced")
      <4>1. (at = i /\ msg = "close") \/ pc[i] = "closing"
        BY <1>1, <1>4, <2>5, <2>1 DEF Owner, MovesOnly
      <4>. QED  BY <1>1, <1>4, <4>1, CloseAnswers DEF IInv
    <3>2. stats'[N].rows_out = stats[N].rows_out
      BY <2>1, <3>1 DEF Plus
    <3>. QED  BY <1>2, <2>5, <3>2 DEF Collected
  <2>. QED  BY <2>2, <2>3, <2>4, <2>5
<1>. QED  BY <1>3, <1>4

\* What the plan may hold.
LEMMA PlanHolds ==
    ASSUME plan \in Plans, NEW i \in Stage, i > 1
    PROVE  /\ Op(i) \in {"Filter", "Project", "Limit", "Sort", "TopK"}
           /\ Op(i) = "Limit" => plan[i].limit \in Nat
           /\ Op(i) = "TopK" => plan[i].k \in Nat
<1>1. i \in 2 .. N
  BY NAssumption DEF Stage
<1>. QED  BY <1>1, PlansAssumption DEF Op

\* What a streaming stage will give, by the rows it has taken in.
LEMMA StreamGives ==
    ASSUME plan \in Plans, NEW o, NEW f, NEW w, Script(f, w), NEW i \in Stage, i > 1,
           ~Blocking(i), Chosen(o, f, i), Chosen(o, f, i - 1), Streams(o, i),
           stats[i].rows_in \in 0 .. Len(o[i - 1].rows)
    PROVE  LET m == stats[i].rows_in
               n == stats[i].rows_out
               below == o[i - 1].rows
               rows == o[i].rows
               next == below[m + 1]
           IN  /\ n <= Len(rows)
               /\ m = Len(below) /\ (Op(i) = "Limit" => emitted[i] < plan[i].limit)
                     => AtEnd(o, i, o[i - 1].fate)
               /\ Op(i) = "Limit" /\ emitted[i] >= plan[i].limit => AtEnd(o, i, "eof")
               /\ m < Len(below) =>
                     /\ Op(i) = "Filter" /\ Evaluate(plan[i].predicate, next) \in ComparisonError
                           => AtEnd(o, i, "fails")
                     /\ Op(i) = "Filter" /\ Evaluate(plan[i].predicate, next) = "false" =>
                           /\ Fine(plan[i].predicate, below, m + 1)
                           /\ Cardinality(KeptOf(plan[i].predicate, below, m + 1)) = n
                     /\ Op(i) = "Filter" /\ Evaluate(plan[i].predicate, next) = "true" =>
                           /\ Fine(plan[i].predicate, below, m + 1)
                           /\ Cardinality(KeptOf(plan[i].predicate, below, m + 1)) = n + 1
                           /\ n + 1 <= Len(rows) /\ rows[n + 1] = next
                     /\ Op(i) = "Project" =>
                           n + 1 <= Len(rows) /\ rows[n + 1] = ProjectRow(plan[i].columns, next)
                     /\ Op(i) = "Limit" /\ emitted[i] < plan[i].limit =>
                           n + 1 <= Len(rows) /\ rows[n + 1] = next
<1> DEFINE m == stats[i].rows_in
           n == stats[i].rows_out
           x == o[i - 1]
           y == o[i]
<1>0. i \in Nat /\ i - 1 \in Stage
  BY NAssumption DEF Stage
<1>1. /\ IsOutcome(x, w[i - 1]) /\ x # FailsToOpen /\ Len(x.rows) \in Nat /\ y \in Apply(plan[i], x)
  BY <1>0, Scripted DEF Chosen
<1>2. m \in 0 .. Len(x.rows)
  OBVIOUS
<1>3. CASE Op(i) = "Filter"
  <2> DEFINE p == plan[i].predicate
  <2>1. y = Filtered(p, x)
    BY <1>1, <1>3 DEF Apply, Op
  <2>2. Fine(p, x.rows, m) /\ n = Cardinality(KeptOf(p, x.rows, m))
    BY <1>3 DEF Streams
  <2>. HIDE DEF m, x, p
  <2>4. LET given == Filtered(p, x)
            k == Cardinality(KeptOf(p, x.rows, m))
        IN  /\ Len(given.rows) \in Nat /\ k \in Nat /\ k <= Len(given.rows)
            /\ m = Len(x.rows) => k = Len(given.rows) /\ given.fate = x.fate
            /\ m < Len(x.rows) =>
                  /\ Evaluate(p, x.rows[m + 1]) \in ComparisonError
                        => k = Len(given.rows) /\ given.fate = "fails"
                  /\ Evaluate(p, x.rows[m + 1]) = "false" =>
                        /\ Fine(p, x.rows, m + 1)
                        /\ Cardinality(KeptOf(p, x.rows, m + 1)) = k
                  /\ Evaluate(p, x.rows[m + 1]) = "true" =>
                        /\ Fine(p, x.rows, m + 1)
                        /\ Cardinality(KeptOf(p, x.rows, m + 1)) = k + 1
                        /\ k + 1 <= Len(given.rows) /\ given.rows[k + 1] = x.rows[m + 1]
    BY <1>1, <1>2, <2>2, FilterGives
  <2>3. LET given == Filtered(p, x)
        IN  /\ Len(given.rows) \in Nat /\ n \in Nat /\ n <= Len(given.rows)
            /\ m = Len(x.rows) => n = Len(given.rows) /\ given.fate = x.fate
            /\ m < Len(x.rows) =>
                  /\ Evaluate(p, x.rows[m + 1]) \in ComparisonError
                        => n = Len(given.rows) /\ given.fate = "fails"
                  /\ Evaluate(p, x.rows[m + 1]) = "false" =>
                        /\ Fine(p, x.rows, m + 1)
                        /\ Cardinality(KeptOf(p, x.rows, m + 1)) = n
                  /\ Evaluate(p, x.rows[m + 1]) = "true" =>
                        /\ Fine(p, x.rows, m + 1)
                        /\ Cardinality(KeptOf(p, x.rows, m + 1)) = n + 1
                        /\ n + 1 <= Len(given.rows) /\ given.rows[n + 1] = x.rows[m + 1]
    BY <2>2, <2>4
  <2>. QED  BY <1>3, <2>1, <2>3 DEF AtEnd, m, x, p
<1>4. CASE Op(i) = "Project"
  <2>1. PICK given : /\ Apply(plan[i], x) = {given} /\ given.fate = x.fate
                     /\ Len(given.rows) = Len(x.rows)
                     /\ \A j \in 1 .. Len(x.rows) :
                           given.rows[j] = ProjectRow(plan[i].columns, x.rows[j])
    BY <1>1, <1>4, ProjectGives DEF Op
  <2>2. y = given
    BY <1>1, <2>1
  <2>3. n = m
    BY <1>4 DEF Streams
  <2>4. m < Len(x.rows) => m + 1 \in 1 .. Len(x.rows) /\ m + 1 <= Len(x.rows)
    BY <1>1, <1>2
  <2>5. m <= Len(x.rows)
    BY <1>1, <1>2
  <2>. QED  BY <1>4, <2>1, <2>2, <2>3, <2>4, <2>5 DEF AtEnd
<1>5. CASE Op(i) = "Limit"
  <2>1. y = Limited(plan[i].limit, x)
    BY <1>1, <1>5 DEF Apply, Op
  <2>2. plan[i].limit \in Nat /\ n = m /\ emitted[i] = m /\ m <= plan[i].limit
    BY <1>5, PlanHolds DEF Streams
  <2>3. LET given == Limited(plan[i].limit, x)
        IN  /\ Len(given.rows) \in Nat /\ m <= Len(given.rows)
            /\ m = plan[i].limit => Len(given.rows) = m /\ given.fate = "eof"
            /\ m < plan[i].limit /\ m = Len(x.rows) => given = x
            /\ m < plan[i].limit /\ m < Len(x.rows) =>
                  m + 1 <= Len(given.rows) /\ given.rows[m + 1] = x.rows[m + 1]
    BY <1>1, <1>2, <2>2, LimitGives
  <2>4. emitted[i] >= plan[i].limit => m = plan[i].limit
    BY <1>1, <1>2, <2>2
  <2>. QED  BY <1>5, <2>1, <2>2, <2>3, <2>4 DEF AtEnd
<1>6. Op(i) \in {"Filter", "Project", "Limit"}
  BY PlanHolds DEF Blocking
<1>. QED  BY <1>3, <1>4, <1>5, <1>6

\* What a stage that has not moved yet will give.
LEMMA StreamStarts ==
    ASSUME plan \in Plans, NEW o, NEW f, NEW w, Script(f, w), NEW i \in Stage, i > 1,
           ~Blocking(i), Chosen(o, f, i - 1)
    PROVE  \E x \in f[i] : x \in Apply(plan[i], o[i - 1]) /\ x # FailsToOpen
<1> DEFINE x == o[i - 1]
<1>0. i \in Nat /\ i - 1 \in Stage
  BY NAssumption DEF Stage
<1>1. /\ IsOutcome(x, w[i - 1]) /\ x # FailsToOpen /\ Apply(plan[i], x) \subseteq f[i]
  BY <1>0, Scripted DEF Chosen
<1>2. x.fate # "opens not"
  BY <1>1 DEF IsOutcome, FailsToOpen
<1>3. Op(i) \in {"Filter", "Project", "Limit"}
  BY PlanHolds DEF Blocking
<1>7. FailsToOpen.fate = "opens not"
  BY DEF FailsToOpen
<1>. SUFFICES \E y \in Apply(plan[i], x) : y.fate # "opens not"
  BY <1>1, <1>7
<1>4. CASE Op(i) = "Filter"
  <2>1. Filtered(plan[i].predicate, x).fate \in {x.fate, "fails"}
    BY DEF Filtered
  <2>. QED  BY <1>2, <1>4, <2>1 DEF Apply, Op
<1>5. CASE Op(i) = "Project"
  BY <1>1, <1>2, <1>5, ProjectGives DEF Op
<1>6. CASE Op(i) = "Limit"
  <2>1. Limited(plan[i].limit, x).fate \in {x.fate, "eof"}
    BY DEF Limited, Yields
  <2>. QED  BY <1>2, <1>6, <2>1 DEF Apply, Op
<1>. QED  BY <1>3, <1>4, <1>5, <1>6

\* What every step of a stage starts from.
LEMMA Before ==
    ASSUME IInv, NEW i \in Stage, StageStep(i)
    PROVE  /\ i \in Nat /\ (i > 1 => i - 1 \in Stage) /\ plan \in Plans /\ UNCHANGED <<plan, table>>
           /\ DOMAIN pc = Stage /\ DOMAIN state = Stage /\ DOMAIN next_index = Stage
           /\ DOMAIN emitted = Stage /\ DOMAIN buffer = Stage /\ DOMAIN sorted = Stage
           /\ stats[i].rows_in \in Nat /\ stats[i].rows_out \in Nat
           /\ i > 1 => stats'[i].rows_in = Plus(stats[i].rows_in, at = i - 1 /\ msg = "kAdvanced")
           /\ stats'[i].rows_out = Plus(stats[i].rows_out, at' = i /\ msg' = "kAdvanced")
           /\ Blocking(i)' <=> Blocking(i)
           /\ pc[i] # "idle" => i > 1
<1>1. MovesOnly(i) /\ Tallied(i)
  BY Moves, Tally DEF IInv
<1>2. pc[i] # "idle" => i > 1
  BY Waits DEF IInv
<1>. QED  BY <1>1, <1>2, NAssumption
          DEF IInv, LP!IInv, LP!TypeOK, LP!Stage, Stage, Shapes, MovesOnly, Tallied, Ledger,
              Counters, Blocking, Op

\* open() of a stage: the scan has its table at hand, the others call on their child.
LEMMA OpenCallForetold ==
    ASSUME IInv, NEW o, NEW f, NEW w, Story(o, f, w), NEW i \in Stage, OpenCall(i),
           NEW oo, i = 1 => oo[1] = Yields(table)
    PROVE  StageForetold(oo, f, i)' /\ Told(oo, f)'
<1>. USE DEF Called, CallChild, Return, Enter
<1>0. StageStep(i)
  BY DEF StageStep
<1>1. /\ Script(f, w) /\ Fresh(i) /\ pc[i] = "idle"
  BY <1>0, Before, Moves DEF IInv, Story, StageForetold, OpenCall, MovesOnly
<1>2. CASE i = 1
  <2>0. /\ state'[1] = "kOpen" /\ at' = 1 /\ msg' = "ok" /\ pc'[1] = "idle"
    BY <1>0, <1>2, Before DEF OpenCall
  <2>1. /\ stats'[1].rows_out = 0 /\ UNCHANGED table /\ next_index'[1] = 0
    <3>1. next_index' = next_index
      BY DEF OpenCall, data
    <3>2. UNCHANGED table /\ stats'[1].rows_out = Plus(stats[1].rows_out, FALSE)
      BY <1>0, <1>2, <2>0, Before
    <3>. QED  BY <1>1, <1>2, <3>1, <3>2 DEF Fresh, Plus
  <2>2. f[1] = {Yields(table)} /\ Len(table) \in Nat
    <3>1. f[1] = {Yields(table)} /\ \A x \in f[1] : Len(x.rows) \in Nat
      BY <1>1, <1>2, Scripted
    <3>. QED  BY <3>1 DEF Yields
  <2>3. Chosen(oo, f, 1)'
    <3>1. Yields(table).fate = "eof" /\ FailsToOpen.fate = "opens not"
      BY DEF Yields, FailsToOpen
    <3>2. oo[1] = Yields(table)
      BY <1>2
    <3>3. Yields(table) # FailsToOpen
      BY <3>1
    <3>. QED  BY <2>2, <3>2, <3>3 DEF Chosen
  <2>4. Progress(oo, 1)'
    <3>1. AtHand(1)' = table /\ oo[1].rows = table /\ oo[1].fate = "eof"
      BY <1>2, <2>1 DEF AtHand, Yields
    <3>. QED  BY <2>0, <2>1, <2>2, <3>1 DEF Progress
  <2>. QED  BY <1>2, <2>0, <2>3, <2>4 DEF StageForetold, Told, Going
<1>3. CASE i > 1
  <2>1. /\ UNCHANGED <<state, next_index, emitted, buffer>> /\ pc'[i] = "opening" /\ msg' = "open"
        /\ stats'[i].rows_out = stats[i].rows_out /\ stats'[i].rows_in = stats[i].rows_in
        /\ state[i] = "kUnopened"
    BY <1>0, <1>3, Before DEF OpenCall, Plus, data
  <2>2. Fresh(i)'
    BY <1>1, <2>1 DEF Fresh
  <2>. QED  BY <2>1, <2>2 DEF StageForetold, Told, Going
<1>. QED  BY <1>0, <1>2, <1>3, NAssumption DEF Stage

\* The child is open: a blocking stage has drained nothing yet, any other one is open.
LEMMA OpenReturnForetold ==
    ASSUME IInv, NEW o, NEW f, NEW w, Story(o, f, w), NEW i \in Stage, OpenReturn(i),
           NEW oo, i > 1 => oo[i - 1] = o[i - 1],
           ~Blocking(i) => /\ oo[i] \in f[i] /\ oo[i] \in Apply(plan[i], o[i - 1])
                           /\ oo[i] # FailsToOpen
    PROVE  StageForetold(oo, f, i)' /\ Told(oo, f)'
<1>. USE DEF ChildGave, CallChild, Return, Enter
<1>0. StageStep(i)
  BY DEF StageStep
<1>1. /\ i > 1 /\ state[i] = "kUnopened" /\ pc[i] = "opening" /\ at = i - 1 /\ msg = "ok"
      /\ i \in Nat /\ i - 1 \in Stage /\ plan \in Plans
  BY <1>0, Waits, Before DEF IInv, OpenReturn
<1>2. Script(f, w) /\ Fresh(i)
  BY <1>1 DEF Story, StageForetold
<1>3. /\ UNCHANGED <<plan, next_index, emitted, buffer>>
      /\ stats'[i].rows_out = 0 /\ stats'[i].rows_in = 0
      /\ Blocking(i)' <=> Blocking(i)
  BY <1>0, <1>1, <1>2, Before DEF OpenReturn, Plus, Fresh, data
<1>4. CASE Blocking(i)
  <2>1. UNCHANGED state /\ pc'[i] = "draining" /\ msg' = "getNext"
    BY <1>0, <1>4, Before DEF OpenReturn
  <2>2. Fresh(i)'
    BY <1>2, <1>3 DEF Fresh, OpenReturn
  <2>3. buffer'[i] = {} /\ Taken(oo, i)' = {}
    BY <1>1, <1>2, <1>3 DEF Fresh, Taken
  <2>4. Op(i) = "TopK" => plan[i].k \in Nat
    BY <1>1, PlanHolds
  <2>5. Drained(oo, i)'
    <3>1. Cardinality({}) = 0
      BY FS_EmptySet
    <3>2. \A k \in Nat : Heap(plan[i].sort, k, {}, {})
      BY <3>1 DEF Heap
    <3>. QED  BY <1>3, <2>3, <2>4, <3>2 DEF Drained, Op
  <2>. QED  BY <1>1, <2>1, <2>2, <2>5 DEF StageForetold, Told, Going
<1>5. CASE ~Blocking(i)
  <2>1. state'[i] = "kOpen" /\ at' = i /\ msg' = "ok" /\ pc'[i] = "idle"
    BY <1>0, <1>5, Before DEF OpenReturn
  <2>2. Chosen(oo, f, i)'
    BY <1>1, <1>3, <1>5 DEF Chosen
  <2>3. Len(oo[i].rows) \in Nat
    BY <1>2, <1>5, Scripted
  <2>4. Streams(oo, i)'
    <3>1. Op(i) = "Limit" => plan[i].limit \in Nat
      BY <1>1, PlanHolds
    <3> DEFINE p == plan[i].predicate
               rows == oo[i - 1].rows
    <3>2. Fine(p, rows, 0) /\ Cardinality(KeptOf(p, rows, 0)) = 0
      <4>1. KeptOf(p, rows, 0) = {}
        BY DEF KeptOf
      <4>. QED  BY <4>1, FS_EmptySet DEF Fine
    <3>3. emitted'[i] = 0
      BY <1>2, <1>3 DEF Fresh
    <3>4. plan' = plan
      BY <1>3
    <3>. HIDE DEF p, rows
    <3>5. /\ Fine(p, rows, stats'[i].rows_in)
          /\ stats'[i].rows_out = Cardinality(KeptOf(p, rows, stats'[i].rows_in))
      BY <1>3, <3>2
    <3>6. Op(i) = "Limit" => stats'[i].rows_in <= plan[i].limit
      BY <1>3, <3>1
    <3>. QED  BY <1>3, <3>3, <3>4, <3>5, <3>6 DEF Streams, Op, p, rows
  <2>5. Progress(oo, i)'
    BY <1>1, <1>3, <1>5, <2>1, <2>3, <2>4 DEF Progress
  <2>. QED  BY <2>1, <2>2, <2>5 DEF StageForetold, Told, Going
<1>. QED  BY <1>4, <1>5

\* A failure to open is one of the outcomes.
LEMMA RollBackForetold ==
    ASSUME IInv, NEW o, NEW f, NEW w, Story(o, f, w), NEW i \in Stage, StageStep(i),
           pc[i] \in {"opening", "draining"}, RollBack(i), FailsToOpen \in f[i],
           UNCHANGED <<next_index, emitted, buffer>>
    PROVE  StageForetold(o, f, i)' /\ Told(o, f)'
<1>1. state[i] = "kUnopened"
  BY Waits DEF IInv
<1>2. UNCHANGED state /\ pc'[i] = "rollback" /\ msg' = "close"
  BY Before DEF RollBack, CallChild
<1>3. Fresh(i)
  BY <1>1 DEF Story, StageForetold
<1>4. stats'[i].rows_out = stats[i].rows_out
  BY <1>2, Before DEF Plus
<1>5. Fresh(i)'
  BY <1>2, <1>3, <1>4 DEF Fresh
<1>. QED  BY <1>1, <1>2, <1>5 DEF StageForetold, Told, Going

\* Rows taken one by one are never the same.
LEMMA TakeNext ==
    ASSUME NEW rows, NEW width, AreRows(rows, width), NEW m \in Nat, m < Len(rows),
           NEW S, S = {rows[j] : j \in 1 .. m}
    PROVE  /\ rows[m + 1] \notin S /\ S \cup {rows[m + 1]} \subseteq ToSet(rows)
           /\ {rows[j] : j \in 1 .. m + 1} = S \cup {rows[m + 1]}
<1>1. Len(rows) \in Nat /\ DOMAIN rows = 1 .. Len(rows)
  BY RowsListed
<1>2. m + 1 \in DOMAIN rows /\ \A j \in 1 .. m : j \in DOMAIN rows /\ j # m + 1
  BY <1>1
<1>3. \A j \in 1 .. m : rows[j] # rows[m + 1]
  BY <1>2 DEF AreRows
<1>4. \A j \in 1 .. m + 1 : j \in 1 .. m \/ j = m + 1
  OBVIOUS
<1>5. m + 1 \in 1 .. m + 1 /\ \A j \in 1 .. m : j \in 1 .. m + 1
  OBVIOUS
<1>6. ToSet(rows) = {rows[j] : j \in DOMAIN rows}
  BY DEF ToSet, Range
<1>. QED  BY <1>2, <1>3, <1>4, <1>5, <1>6

\* All the rows taken are all the rows.
LEMMA TakeAll ==
    ASSUME NEW rows, NEW width, AreRows(rows, width)
    PROVE  {rows[j] : j \in 1 .. Len(rows)} = ToSet(rows)
<1>1. DOMAIN rows = 1 .. Len(rows)
  BY RowsListed
<1>. QED  BY <1>1 DEF ToSet, Range

\* What a blocking stage that fills its buffer stands on.
LEMMA Draining ==
    ASSUME IInv, NEW o, NEW f, NEW w, Story(o, f, w), NEW i \in Stage, pc[i] = "draining",
           Chosen(o, f, i - 1)
    PROVE  /\ i > 1 /\ i \in Nat /\ state[i] = "kUnopened" /\ Blocking(i) /\ plan[i].stage \in {"Sort", "TopK"}
           /\ Drained(o, i) /\ Fresh(i)
           /\ IsOutcome(o[i - 1], w[i - 1]) /\ AreRows(o[i - 1].rows, w[i - 1])
           /\ Apply(plan[i], o[i - 1]) \subseteq f[i]
           /\ plan[i].sort.column \in 1 .. w[i - 1] /\ plan[i].sort.direction \in SortDirection
           /\ plan[i].stage = "TopK" => plan[i].k \in Nat
           /\ Script(f, w)
<1>1. i > 1 /\ state[i] = "kUnopened" /\ i \in Nat /\ i - 1 \in Stage
  BY Waits, NAssumption DEF IInv, Stage
<1>2. Blocking(i) /\ plan[i].stage \in {"Sort", "TopK"}
  BY DEF IInv, ByKind, Blocking, Op
<1>3. Script(f, w) /\ Drained(o, i) /\ Fresh(i)
  BY <1>1 DEF Story, StageForetold
<1>4. /\ IsOutcome(o[i - 1], w[i - 1]) /\ AreRows(o[i - 1].rows, w[i - 1])
      /\ Apply(plan[i], o[i - 1]) \subseteq f[i] /\ FitsOver(plan[i], w[i - 1])
  BY <1>1, <1>3, Scripted DEF Chosen
<1>. QED  BY <1>1, <1>2, <1>3, <1>4 DEF FitsOver

\* The child failed.
LEMMA ChildFailedForetold ==
    ASSUME IInv, NEW o, NEW f, NEW w, Story(o, f, w), NEW i \in Stage, ChildFailedOpen(i)
    PROVE  StageForetold(o, f, i)' /\ Told(o, f)'
<1>0. StageStep(i) /\ pc[i] \in {"opening", "draining"} /\ at = i - 1 /\ msg = "throw"
  BY DEF StageStep, ChildFailedOpen, ChildGave
<1>1. i > 1 /\ i - 1 \in Stage
  BY <1>0, Before
<1>2. FailsToOpen \in f[i]
  <2>1. CASE pc[i] = "opening"
    <3>1. state[i - 1] = "kClosed"
      BY <1>0, <1>1, <2>1 DEF IInv, LP!IInv, LP!Child, LP!ChildOf, LP!Stage, Stage
    <3>2. FailsToOpen \in f[i - 1] /\ Script(f, w)
      BY <1>0, <1>1, <3>1 DEF Story, Told, Going
    <3>. QED  BY <1>1, <3>2, Scripted
  <2>2. CASE pc[i] = "draining"
    <3>1. Chosen(o, f, i - 1) /\ o[i - 1].fate = "fails"
      BY <1>0, <1>1, <2>2, Received
    <3>2. /\ IsOutcome(o[i - 1], w[i - 1]) /\ plan[i].stage \in {"Sort", "TopK"}
          /\ Apply(plan[i], o[i - 1]) \subseteq f[i]
      BY <2>2, <3>1, Draining
    <3>. QED  BY <3>1, <3>2, SortGives
  <2>. QED  BY <1>0, <2>1, <2>2
<1>3. RollBack(i) /\ UNCHANGED <<next_index, emitted, buffer>>
  BY DEF ChildFailedOpen, data
<1>. QED  BY <1>0, <1>2, <1>3, RollBackForetold

\* A row more is taken.
LEMMA DrainRowForetold ==
    ASSUME IInv, NEW o, NEW f, NEW w, Story(o, f, w), NEW i \in Stage, DrainRow(i)
    PROVE  StageForetold(o, f, i)' /\ Told(o, f)'
<1> DEFINE x == o[i - 1].rows
           m == stats[i].rows_in
           S == Taken(o, i)
           sort == plan[i].sort
           k == plan[i].k
           X == buffer[i] \cup {row}
<1>0. /\ StageStep(i) /\ pc[i] = "draining" /\ at = i - 1 /\ msg = "kAdvanced"
      /\ UNCHANGED <<state, next_index, emitted>>
  BY DEF StageStep, DrainRow, ChildGave
<1>1. i > 1 /\ i \in Nat /\ plan' = plan /\ DOMAIN buffer = Stage /\ DOMAIN pc = Stage
  BY <1>0, Before
<1>2. /\ Chosen(o, f, i - 1) /\ m \in 0 .. Len(x) /\ m < Len(x) /\ row = x[m + 1]
  BY <1>0, <1>1, Received
<1>3. /\ state[i] = "kUnopened" /\ Drained(o, i) /\ Fresh(i) /\ AreRows(x, w[i - 1])
      /\ plan[i].stage \in {"Sort", "TopK"} /\ (plan[i].stage = "TopK" => k \in Nat)
      /\ sort.column \in 1 .. w[i - 1] /\ sort.direction \in SortDirection
  BY <1>0, <1>2, Draining
<1>4. /\ stats'[i].rows_in = m + 1 /\ stats'[i].rows_out = stats[i].rows_out
      /\ pc'[i] = "draining" /\ msg' = "getNext"
  <2>1. pc'[i] = "draining" /\ msg' = "getNext"
    BY <1>1 DEF DrainRow, CallChild
  <2>. QED  BY <1>0, <1>1, <2>1, Before DEF Plus
<1>5. /\ row \notin S /\ S \cup {row} \subseteq ToSet(x)
      /\ {x[j] : j \in 1 .. m + 1} = S \cup {row}
  <2>1. S = {x[j] : j \in 1 .. m} /\ m \in Nat
    BY <1>2 DEF Taken
  <2>. HIDE DEF S, x, m
  <2>. QED  BY <1>2, <1>3, <2>1, TakeNext
<1>6. Taken(o, i)' = S \cup {row}
  BY <1>4, <1>5 DEF Taken
<1>7. /\ IsFiniteSet(S) /\ Sortable(sort, S \cup {row})
  BY <1>3, <1>5, RowsSortable, SortablePart, FS_Subset
<1>8. PICK B \in SUBSET X :
         /\ IF Op(i) = "TopK" /\ Cardinality(X) > k
            THEN \E r \in X : Worst(i, X, r) /\ B = X \ {r}
            ELSE B = X
         /\ buffer' = [buffer EXCEPT ![i] = B]
  BY DEF DrainRow
<1>9. buffer'[i] = B
  BY <1>1, <1>8
<1>10. plan[i].stage = "Sort" => B = S \cup {row}
  BY <1>3, <1>8 DEF Drained, Op
<1>11. ASSUME plan[i].stage = "TopK" PROVE Heap(sort, k, S \cup {row}, B)
  <2>1. Heap(sort, k, S, buffer[i]) /\ k \in Nat
    BY <1>3, <1>11 DEF Drained, Op
  <2>. HIDE DEF S, sort, k
  <2>2. /\ Cardinality(X) \in Nat
        /\ Cardinality(X) <= k => Heap(sort, k, S \cup {row}, X)
        /\ Cardinality(X) > k =>
              \A r \in X : (\A q \in X \ {r} : RowBefore(sort, q, r))
                              => Heap(sort, k, S \cup {row}, X \ {r})
    BY <1>5, <1>7, <2>1, HeapKeeps
  <2>3. CASE Cardinality(X) > k
    <3>1. PICK r \in X : Worst(i, X, r) /\ B = X \ {r}
      BY <1>8, <1>11, <2>3 DEF Op
    <3>2. \A q \in X \ {r} : RowBefore(sort, q, r)
      BY <3>1 DEF Worst, sort
    <3>. QED  BY <2>2, <2>3, <3>1, <3>2
  <2>4. CASE ~(Cardinality(X) > k)
    BY <1>8, <2>1, <2>2, <2>4
  <2>. QED  BY <2>3, <2>4
<1>. HIDE DEF S, sort, k, X
<1>12. Drained(o, i)'
  BY <1>1, <1>6, <1>9, <1>10, <1>11 DEF Drained, Op, sort, k
<1>13. Fresh(i)'
  BY <1>0, <1>3, <1>4 DEF Fresh
<1>. QED  BY <1>0, <1>3, <1>4, <1>12, <1>13 DEF StageForetold, Told, Going

\* The rows cannot be compared.
LEMMA ClashForetold ==
    ASSUME IInv, NEW o, NEW f, NEW w, Story(o, f, w), NEW i \in Stage,
           DrainThrows(i) \/ SortThrows(i)
    PROVE  StageForetold(o, f, i)' /\ Told(o, f)'
<1> DEFINE x == o[i - 1].rows
           S == Taken(o, i)
           sort == plan[i].sort
<1>0. /\ StageStep(i) /\ pc[i] = "draining" /\ at = i - 1 /\ msg \in {"kAdvanced", "kEof"}
  BY DEF StageStep, DrainThrows, SortThrows, ChildGave
<1>1. i > 1
  BY <1>0, Before
<1>2. Chosen(o, f, i - 1)
  BY <1>0, <1>1, Received
<1>3. /\ Drained(o, i) /\ IsOutcome(o[i - 1], w[i - 1]) /\ AreRows(x, w[i - 1])
      /\ plan[i].stage \in {"Sort", "TopK"} /\ (plan[i].stage = "TopK" => plan[i].k \in Nat)
      /\ sort.column \in 1 .. w[i - 1] /\ sort.direction \in SortDirection
      /\ Apply(plan[i], o[i - 1]) \subseteq f[i]
  BY <1>0, <1>2, Draining
<1>4. CASE DrainThrows(i)
  <2>1. /\ stats[i].rows_in \in 0 .. Len(x) /\ stats[i].rows_in < Len(x)
        /\ row = x[stats[i].rows_in + 1]
    BY <1>0, <1>1, <1>4, Received DEF DrainThrows, ChildGave
  <2>2. S \cup {row} \subseteq ToSet(x)
    <3>1. S = {x[j] : j \in 1 .. stats[i].rows_in} /\ stats[i].rows_in \in Nat
      BY <2>1 DEF Taken
    <3>. HIDE DEF S, x
    <3>. QED  BY <1>3, <2>1, <3>1, TakeNext
  <2>3. plan[i].stage = "TopK" /\ plan[i].k > 0 /\ Clashing(sort, buffer[i] \cup {row})
    BY <1>4 DEF DrainThrows, Op
  <2>4. buffer[i] \cup {row} \subseteq ToSet(x)
    BY <1>3, <2>2, <2>3 DEF Drained, Heap, Op
  <2>5. Clashing(sort, ToSet(x))
    BY <2>3, <2>4 DEF Clashing
  <2>6. FailsToOpen \in f[i]
    BY <1>3, <2>3, <2>5, SortGives
  <2>7. RollBack(i) /\ UNCHANGED <<next_index, emitted, buffer>>
    BY <1>4 DEF DrainThrows, data
  <2>. QED  BY <1>0, <2>6, <2>7, RollBackForetold
<1>5. CASE SortThrows(i)
  <2>1. stats[i].rows_in = Len(x) /\ o[i - 1].fate = "eof"
    BY <1>0, <1>1, <1>5, Received DEF SortThrows, ChildGave
  <2>2. S = ToSet(x)
    BY <1>3, <2>1, TakeAll DEF Taken
  <2>3. Clashing(sort, buffer[i])
    BY <1>5 DEF SortThrows
  <2>4. IsFiniteSet(ToSet(x))
    BY <1>3, RowsSortable
  <2>5. CASE plan[i].stage = "Sort"
    <3>1. Clashing(sort, ToSet(x))
      BY <1>3, <2>2, <2>3, <2>5 DEF Drained, Op
    <3>. QED
      <4>1. FailsToOpen \in f[i]
        BY <1>3, <2>5, <3>1, SortGives
      <4>2. RollBack(i) /\ UNCHANGED <<next_index, emitted, buffer>>
        BY <1>5 DEF SortThrows, data
      <4>. QED  BY <1>0, <4>1, <4>2, RollBackForetold
  <2>6. CASE plan[i].stage = "TopK"
    <3>1. Heap(sort, plan[i].k, ToSet(x), buffer[i])
      BY <1>3, <2>2, <2>6 DEF Drained, Op
    <3>2. FailsToOpen \in f[i]
      BY <1>3, <2>3, <2>4, <2>6, <3>1, SortGives
    <3>3. RollBack(i) /\ UNCHANGED <<next_index, emitted, buffer>>
      BY <1>5 DEF SortThrows, data
    <3>. QED  BY <1>0, <3>2, <3>3, RollBackForetold
  <2>. QED  BY <1>3, <2>5, <2>6
<1>. QED  BY <1>4, <1>5

\* The rows are sorted: the stage has them at hand.
LEMMA SortBufferForetold ==
    ASSUME IInv, NEW o, NEW f, NEW w, Story(o, f, w), NEW i \in Stage, SortBuffer(i),
           NEW oo, i > 1 => oo[i - 1] = o[i - 1],
           oo[i] = Yields(InOrder(plan[i].sort, buffer[i]))
    PROVE  StageForetold(oo, f, i)' /\ Told(oo, f)'
<1> DEFINE x == o[i - 1].rows
           S == Taken(o, i)
           sort == plan[i].sort
           s == InOrder(sort, buffer[i])
<1>0. /\ StageStep(i) /\ pc[i] = "draining" /\ at = i - 1 /\ msg = "kEof"
  BY DEF StageStep, SortBuffer, ChildGave
<1>1. i > 1 /\ i \in Nat /\ DOMAIN state = Stage /\ DOMAIN pc = Stage /\ DOMAIN sorted = Stage /\ plan' = plan
  BY <1>0, Before
<1>2. Chosen(o, f, i - 1) /\ stats[i].rows_in = Len(x) /\ o[i - 1].fate = "eof"
  BY <1>0, <1>1, Received
<1>3. /\ Drained(o, i) /\ IsOutcome(o[i - 1], w[i - 1]) /\ AreRows(x, w[i - 1])
      /\ plan[i].stage \in {"Sort", "TopK"} /\ (plan[i].stage = "TopK" => plan[i].k \in Nat)
      /\ sort.column \in 1 .. w[i - 1] /\ sort.direction \in SortDirection
      /\ Apply(plan[i], o[i - 1]) \subseteq f[i] /\ Fresh(i) /\ Blocking(i) /\ Script(f, w)
  BY <1>0, <1>2, Draining
<1>4. S = ToSet(x)
  BY <1>2, <1>3, TakeAll DEF Taken
<1>5. ~Clashing(sort, buffer[i]) /\ IsFiniteSet(ToSet(x))
  BY <1>3, RowsSortable DEF SortBuffer
<1>6. oo[i] \in Apply(plan[i], o[i - 1])
  <2>1. oo[i] = Yields(InOrder(plan[i].sort, buffer[i]))
    OBVIOUS
  <2>2. plan[i].stage = "Sort" => buffer[i] = ToSet(x)
    BY <1>3, <1>4 DEF Drained, Op
  <2>3. plan[i].stage = "TopK" => Heap(sort, plan[i].k, ToSet(x), buffer[i])
    BY <1>3, <1>4 DEF Drained, Op
  <2>4. CASE plan[i].stage = "Sort"
    BY <1>2, <1>3, <1>5, <2>1, <2>2, <2>4, SortGives
  <2>5. CASE plan[i].stage = "TopK"
    BY <1>2, <1>3, <1>5, <2>1, <2>3, <2>5, SortGives
  <2>. QED  BY <1>3, <2>4, <2>5
<1>7. oo[i] \in f[i] /\ Len(oo[i].rows) \in Nat
  BY <1>3, <1>6, Scripted
<1>8. oo[i].rows = s /\ oo[i].fate = "eof" /\ oo[i] # FailsToOpen
  <2>1. FailsToOpen.fate = "opens not"
    BY DEF FailsToOpen
  <2>2. Yields(s).rows = s /\ Yields(s).fate = "eof"
    BY DEF Yields
  <2>3. oo[i] = Yields(s)
    OBVIOUS
  <2>. HIDE DEF s
  <2>. QED  BY <2>1, <2>2, <2>3
<1>9. /\ state'[i] = "kOpen" /\ at' = i /\ msg' = "ok" /\ pc'[i] = "idle"
      /\ sorted'[i] = s /\ next_index' = next_index
  BY <1>1 DEF SortBuffer, Enter, Return
<1>. HIDE DEF s, x, sort, S
<1>10. stats'[i].rows_out = 0 /\ next_index[i] = 0
  <2>1. stats'[i].rows_out = Plus(stats[i].rows_out, FALSE)
    BY <1>0, <1>9, Before
  <2>. QED  BY <1>3, <2>1 DEF Fresh, Plus
<1>11. Chosen(oo, f, i)'
  <2>1. oo[i] \in Apply(plan'[i], oo[i - 1])
    BY <1>1, <1>6
  <2>. QED  BY <1>7, <1>8, <2>1 DEF Chosen
<1>12. Progress(oo, i)'
  <2>1. AtHand(i)' = oo[i].rows /\ next_index'[i] = stats'[i].rows_out
    BY <1>1, <1>8, <1>9, <1>10 DEF AtHand
  <2>2. Blocking(i)'
    BY <1>1, <1>3 DEF Blocking, Op
  <2>. QED  BY <1>1, <1>7, <1>8, <1>9, <1>10, <2>1, <2>2 DEF Progress
<1>. QED  BY <1>9, <1>11, <1>12 DEF StageForetold, Told, Going

\* The child is closed, and the exception goes on.
LEMMA RollbackReturnForetold ==
    ASSUME IInv, NEW o, NEW f, NEW w, Story(o, f, w), NEW i \in Stage, RollbackReturn(i)
    PROVE  StageForetold(o, f, i)' /\ Told(o, f)'
<1>0. StageStep(i) /\ pc[i] = "rollback"
  BY DEF StageStep, RollbackReturn
<1>1. state'[i] = "kClosed" /\ at' = i /\ msg' = "throw" /\ pc'[i] = "idle"
  BY <1>0, Before DEF RollbackReturn, Release, Enter, Return
<1>2. FailsToOpen \in f[i]
  BY <1>0 DEF Story, StageForetold
<1>. QED  BY <1>1, <1>2 DEF StageForetold, Told, Going

\* What an open stage that was called stands on.
LEMMA Answering ==
    ASSUME IInv, NEW o, NEW f, NEW w, Story(o, f, w), NEW i \in Stage, GetNext(i)
    PROVE  /\ Going(i) /\ Chosen(o, f, i) /\ Progress(o, i) /\ Script(f, w) /\ Calm /\ pc[i] = "idle"
           /\ Len(o[i].rows) \in Nat
           /\ i > 1 => /\ Chosen(o, f, i - 1)
                       /\ stats[i].rows_in \in 0 .. Len(o[i - 1].rows)
<1>1. Going(i) /\ Calm /\ i \in Nat /\ at = i /\ msg = "getNext" /\ (i > 1 => i - 1 \in Stage)
  BY NAssumption DEF GetNext, Called, Going, Calm, Stage
<1>2. Chosen(o, f, i) /\ Progress(o, i) /\ Script(f, w)
  BY <1>1 DEF Story, StageForetold
<1>3. Len(o[i].rows) \in Nat
  BY <1>2, Scripted DEF Chosen
<1>4. pc[i] = "idle"
  BY <1>1 DEF IInv, LP!IInv, LP!Stack, LP!Stage, Stage
<1>5. ASSUME i > 1
      PROVE  Chosen(o, f, i - 1) /\ stats[i].rows_in \in 0 .. Len(o[i - 1].rows)
  <2>1. Going(i - 1)
    <3>1. /\ state[i] = "kUnopened" <=> state[i - 1] = "kUnopened"
          /\ state[i] = "kClosed" <=> state[i - 1] = "kClosed"
      BY <1>4, <1>5 DEF IInv, LP!IInv, LP!Child, LP!ChildOf, LP!Stage, Stage
    <3>2. state[i - 1] \in {"kUnopened", "kOpen", "kClosed", "kEof"}
      BY <1>1, <1>5 DEF IInv, LP!IInv, LP!TypeOK, LP!LifecycleState, LP!Stage, Stage
    <3>. QED  BY <1>1, <3>1, <3>2 DEF Going
  <2>2. Chosen(o, f, i - 1) /\ Progress(o, i - 1)
    BY <1>1, <1>5, <2>1 DEF Story, StageForetold
  <2>3. stats[i - 1].rows_out = stats[i].rows_in /\ stats[i].rows_in \in Nat
    BY <1>1, <1>5 DEF IInv, Ledger, Counters, Plus
  <2>4. Len(o[i - 1].rows) \in Nat
    BY <1>1, <1>2, <1>5, <2>2, Scripted DEF Chosen
  <2>. QED  BY <2>2, <2>3, <2>4 DEF Progress
<1>. QED  BY <1>1, <1>2, <1>3, <1>4, <1>5

\* A stage reports its end where its outcome ends.
LEMMA GetNextEofForetold ==
    ASSUME IInv, NEW o, NEW f, NEW w, Story(o, f, w), NEW i \in Stage, GetNextEof(i)
    PROVE  StageForetold(o, f, i)' /\ Told(o, f)'
<1>0. /\ StageStep(i) /\ GetNext(i) /\ UNCHANGED <<next_index, emitted, sorted>>
  BY DEF StageStep, GetNextEof, data
<1>1. /\ i \in Nat /\ DOMAIN state = Stage /\ DOMAIN pc = Stage /\ plan \in Plans
      /\ UNCHANGED <<plan, table>> /\ (Blocking(i)' <=> Blocking(i))
  BY <1>0, Before
<1>2. /\ Going(i) /\ Chosen(o, f, i) /\ Progress(o, i) /\ Script(f, w) /\ at = i /\ msg = "getNext"
      /\ Len(o[i].rows) \in Nat
      /\ i > 1 => Chosen(o, f, i - 1) /\ stats[i].rows_in \in 0 .. Len(o[i - 1].rows)
  BY <1>0, Answering DEF GetNext, Called
<1>3. state'[i] = "kEof" /\ at' = i /\ msg' = "kEof" /\ pc'[i] = "idle"
  BY <1>1 DEF GetNextEof, Enter, Return
<1>4. /\ stats'[i].rows_out = stats[i].rows_out /\ stats[i].rows_out \in Nat
      /\ i > 1 => stats'[i].rows_in = stats[i].rows_in
  BY <1>0, <1>2, <1>3, Before DEF Plus
<1>5. AtEnd(o, i, "eof")
  <2>1. CASE state[i] = "kEof"
    BY <1>2, <2>1 DEF Progress
  <2>2. CASE (i = 1 \/ Blocking(i)) /\ next_index[i] >= Len(AtHand(i))
    BY <1>2, <1>4, <2>2 DEF Progress, AtEnd
  <2>3. CASE Op(i) = "Limit" /\ emitted[i] >= plan[i].limit /\ i > 1
    <3>1. ~Blocking(i)
      BY <2>3 DEF Blocking
    <3>2. Streams(o, i)
      BY <1>2, <2>3, <3>1 DEF Progress
    <3>. QED  BY <1>1, <1>2, <2>3, <3>1, <3>2, StreamGives
  <2>4. Op(i) = "Limit" => i > 1
    BY <1>1, PlansAssumption DEF Op, Stage
  <2>. QED  BY <2>1, <2>2, <2>3, <2>4 DEF GetNextEof
<1>6. Chosen(o, f, i)'
  BY <1>1, <1>2 DEF Chosen
<1>7. Progress(o, i)'
  <2>1. AtEnd(o, i, "eof")'
    BY <1>4, <1>5 DEF AtEnd
  <2>2. i > 1 /\ ~Blocking(i) => Streams(o, i)'
    BY <1>0, <1>1, <1>2, <1>4 DEF Progress, Streams, Op
  <2>3. i = 1 \/ Blocking(i) => AtHand(i)' = o[i].rows /\ next_index'[i] = stats'[i].rows_out
    BY <1>0, <1>1, <1>2, <1>4 DEF Progress, AtHand
  <2>4. stats'[i].rows_out <= Len(o[i].rows)
    BY <1>2, <1>4 DEF Progress
  <2>. QED  BY <1>1, <1>2, <2>1, <2>2, <2>3, <2>4 DEF Progress
<1>. QED  BY <1>3, <1>6, <1>7 DEF StageForetold, Told, Going

\* A row at hand is the next row of the outcome of its stage.
LEMMA GetNextRowForetold ==
    ASSUME IInv, NEW o, NEW f, NEW w, Story(o, f, w), NEW i \in Stage, GetNextRow(i)
    PROVE  StageForetold(o, f, i)' /\ Told(o, f)'
<1>0. /\ StageStep(i) /\ GetNext(i) /\ state[i] = "kOpen" /\ (i = 1 \/ Blocking(i))
      /\ UNCHANGED <<state, sorted>> /\ next_index[i] < Len(AtHand(i))
      /\ row' = AtHand(i)[next_index[i] + 1]
  BY DEF StageStep, GetNextRow
<1>1. /\ i \in Nat /\ DOMAIN next_index = Stage /\ DOMAIN pc = Stage
      /\ UNCHANGED <<plan, table>> /\ (Blocking(i)' <=> Blocking(i))
  BY <1>0, Before
<1>2. /\ Chosen(o, f, i) /\ Progress(o, i) /\ Len(o[i].rows) \in Nat
  BY <1>0, Answering
<1>3. /\ at' = i /\ msg' = "kAdvanced" /\ pc'[i] = "idle"
      /\ next_index'[i] = next_index[i] + 1
  BY <1>1 DEF GetNextRow, Return
<1>4. stats'[i].rows_out = stats[i].rows_out + 1 /\ stats[i].rows_out \in Nat
  BY <1>0, <1>3, Before DEF Plus
<1>5. AtHand(i) = o[i].rows /\ next_index[i] = stats[i].rows_out /\ o[i].fate = "eof"
  BY <1>0, <1>2 DEF Progress
<1>6. AtHand(i)' = AtHand(i)
  BY <1>0, <1>1 DEF AtHand
<1>7. Progress(o, i)'
  BY <1>0, <1>1, <1>2, <1>3, <1>4, <1>5, <1>6 DEF Progress
<1>8. Chosen(o, f, i)' /\ state'[i] = "kOpen"
  BY <1>0, <1>1, <1>2 DEF Chosen
<1>9. row' = o[i].rows[stats'[i].rows_out] /\ stats'[i].rows_out > 0
  BY <1>0, <1>4, <1>5
<1>. QED  BY <1>3, <1>7, <1>8, <1>9 DEF StageForetold, Told, Going

\* A stage that asks its child for a row has given what it will have given.
LEMMA GetNextPullForetold ==
    ASSUME IInv, NEW o, NEW f, NEW w, Story(o, f, w), NEW i \in Stage, GetNextPull(i)
    PROVE  StageForetold(o, f, i)' /\ Told(o, f)'
<1>0. /\ StageStep(i) /\ GetNext(i) /\ state[i] = "kOpen" /\ i > 1 /\ ~Blocking(i)
      /\ UNCHANGED <<state, next_index, emitted>>
  BY DEF StageStep, GetNextPull, data
<1>1. /\ i \in Nat /\ DOMAIN pc = Stage
      /\ UNCHANGED <<plan, table>> /\ (Blocking(i)' <=> Blocking(i))
  BY <1>0, Before
<1>2. /\ Chosen(o, f, i) /\ Progress(o, i) /\ Len(o[i].rows) \in Nat
  BY <1>0, Answering
<1>3. at' = i - 1 /\ msg' = "getNext" /\ pc'[i] = "pulling"
  BY <1>1 DEF GetNextPull, CallChild
<1>4. stats'[i].rows_out = stats[i].rows_out /\ stats'[i].rows_in = stats[i].rows_in
  <2>1. at = i /\ msg = "getNext"
    BY <1>0 DEF GetNext, Called
  <2>. QED  BY <1>0, <1>1, <1>3, <2>1, Before DEF Plus
<1>5. Streams(o, i)'
  BY <1>0, <1>1, <1>2, <1>4 DEF Progress, Streams, Op
<1>6. Progress(o, i)'
  BY <1>0, <1>1, <1>2, <1>4, <1>5 DEF Progress
<1>7. Chosen(o, f, i)' /\ state'[i] = "kOpen"
  BY <1>0, <1>1, <1>2 DEF Chosen
<1>. QED  BY <1>3, <1>6, <1>7 DEF StageForetold, Told, Going

\* What a streaming stage that waits for its child stands on.
LEMMA Pulling ==
    ASSUME IInv, NEW o, NEW f, NEW w, Story(o, f, w), NEW i \in Stage, pc[i] = "pulling"
    PROVE  /\ i > 1 /\ i \in Nat /\ state[i] = "kOpen" /\ ~Blocking(i) /\ Script(f, w) /\ plan \in Plans
           /\ Chosen(o, f, i) /\ Progress(o, i) /\ Streams(o, i) /\ Len(o[i].rows) \in Nat
           /\ Op(i) = "Limit" => emitted[i] < plan[i].limit
           /\ at = i - 1 => msg \in {"getNext", "kAdvanced", "kEof", "throw"}
<1>1. i > 1 /\ state[i] = "kOpen" /\ i \in Nat
  BY Waits, NAssumption DEF IInv, Stage
<1>2. ~Blocking(i) /\ plan \in Plans
  BY DEF IInv, ByKind
<1>3. Chosen(o, f, i) /\ Progress(o, i) /\ Script(f, w)
  BY <1>1 DEF Story, StageForetold, Going
<1>4. Len(o[i].rows) \in Nat
  BY <1>3, Scripted DEF Chosen
<1>5. Op(i) = "Limit" => emitted[i] < plan[i].limit
  BY DEF IInv, Pulls, PullsOf
<1>6. at = i - 1 => msg \in {"getNext", "kAdvanced", "kEof", "throw"}
  BY <1>1 DEF IInv, LP!IInv, LP!Stack, LP!Between, LP!Stage, Stage
<1>7. Streams(o, i)
  BY <1>1, <1>2, <1>3 DEF Progress
<1>. QED  BY <1>1, <1>2, <1>3, <1>4, <1>5, <1>6, <1>7

\* A row comes from the child.
LEMMA PulledRow ==
    ASSUME IInv, NEW o, NEW f, NEW w, Story(o, f, w), NEW i \in Stage,
           pc[i] = "pulling", at = i - 1, msg = "kAdvanced"
    PROVE  /\ Chosen(o, f, i - 1) /\ stats[i].rows_in \in 0 .. Len(o[i - 1].rows)
           /\ stats[i].rows_in < Len(o[i - 1].rows) /\ stats[i].rows_in \in Nat
           /\ row = o[i - 1].rows[stats[i].rows_in + 1]
           /\ stats[i].rows_out \in Nat
<1>1. i > 1 /\ i \in Nat
  BY Pulling
<1>2. stats[i].rows_out \in Nat /\ stats[i].rows_in \in Nat
  BY DEF IInv, Ledger, Counters
<1>. QED  BY <1>1, <1>2, Received

\* A row passed on is the next one foretold.
LEMMA PassForetold ==
    ASSUME IInv, NEW o, NEW f, NEW w, Story(o, f, w), NEW i \in Stage, StageStep(i),
           pc[i] = "pulling", at = i - 1, msg = "kAdvanced",
           at' = i, msg' = "kAdvanced", pc' = [pc EXCEPT ![i] = "idle"], UNCHANGED state,
           Streams(o, i)', stats[i].rows_out + 1 <= Len(o[i].rows),
           row' = o[i].rows[stats[i].rows_out + 1]
    PROVE  StageForetold(o, f, i)' /\ Told(o, f)'
<1>1. /\ i > 1 /\ i \in Nat /\ state[i] = "kOpen" /\ ~Blocking(i) /\ Chosen(o, f, i)
  BY Pulling
<1>2. /\ DOMAIN pc = Stage /\ UNCHANGED plan /\ (Blocking(i)' <=> Blocking(i))
      /\ stats'[i].rows_out = stats[i].rows_out + 1 /\ stats[i].rows_out \in Nat
  BY Before DEF Plus
<1>3. Progress(o, i)'
  BY <1>1, <1>2 DEF Progress
<1>4. Chosen(o, f, i)' /\ state'[i] = "kOpen" /\ pc'[i] = "idle"
  BY <1>1, <1>2 DEF Chosen
<1>5. row' = o[i].rows[stats'[i].rows_out] /\ stats'[i].rows_out > 0
  BY <1>2
<1>. QED  BY <1>3, <1>4, <1>5 DEF StageForetold, Told, Going

\* A filter passes on the next row of its outcome, drops one that is not in it, or fails with it.
LEMMA FilterForetold ==
    ASSUME IInv, NEW o, NEW f, NEW w, Story(o, f, w), NEW i \in Stage,
           FilterPass(i) \/ FilterDrop(i) \/ FilterThrows(i)
    PROVE  StageForetold(o, f, i)' /\ Told(o, f)'
<1> DEFINE p == plan[i].predicate
           below == o[i - 1].rows
           m == stats[i].rows_in
           n == stats[i].rows_out
<1>0. /\ StageStep(i) /\ pc[i] = "pulling" /\ at = i - 1 /\ msg = "kAdvanced" /\ Op(i) = "Filter"
      /\ UNCHANGED <<state, emitted>>
  BY DEF StageStep, FilterPass, FilterDrop, FilterThrows, Pulled, ChildGave, data
<1>1. /\ i > 1 /\ i \in Nat /\ state[i] = "kOpen" /\ ~Blocking(i) /\ Script(f, w) /\ plan \in Plans
      /\ Chosen(o, f, i) /\ Progress(o, i) /\ Streams(o, i) /\ Len(o[i].rows) \in Nat
  BY <1>0, Pulling
<1>2. /\ Chosen(o, f, i - 1) /\ m \in 0 .. Len(below) /\ m < Len(below)
      /\ row = below[m + 1] /\ n \in Nat
  BY <1>0, PulledRow
<1>3. /\ DOMAIN pc = Stage /\ UNCHANGED plan /\ (Blocking(i)' <=> Blocking(i))
      /\ stats'[i].rows_in = m + 1
      /\ stats'[i].rows_out = Plus(n, at' = i /\ msg' = "kAdvanced")
  BY <1>0, <1>1, Before DEF Plus
<1>4. /\ Evaluate(p, row) \in ComparisonError => AtEnd(o, i, "fails")
      /\ Evaluate(p, row) = "false" => /\ Fine(p, below, m + 1)
                                       /\ Cardinality(KeptOf(p, below, m + 1)) = n
      /\ Evaluate(p, row) = "true" => /\ Fine(p, below, m + 1)
                                      /\ Cardinality(KeptOf(p, below, m + 1)) = n + 1
                                      /\ n + 1 <= Len(o[i].rows) /\ o[i].rows[n + 1] = row
  BY <1>0, <1>1, <1>2, StreamGives
<1>5. ASSUME Fine(p, below, m + 1), stats'[i].rows_out = Cardinality(KeptOf(p, below, m + 1))
      PROVE  Streams(o, i)'
  BY <1>0, <1>3, <1>5 DEF Streams, Op
<1>6. CASE FilterPass(i)
  <2>1. /\ at' = i /\ msg' = "kAdvanced" /\ pc' = [pc EXCEPT ![i] = "idle"] /\ row' = row
        /\ Evaluate(p, row) = "true"
    BY <1>6 DEF FilterPass, Return
  <2>2. stats'[i].rows_out = n + 1
    BY <1>3, <2>1 DEF Plus
  <2>. HIDE DEF p, below, m, n
  <2>3. Streams(o, i)'
    BY <1>4, <1>5, <2>1, <2>2
  <2>4. n + 1 <= Len(o[i].rows) /\ row' = o[i].rows[n + 1]
    BY <1>4, <2>1
  <2>. QED  BY <1>0, <2>1, <2>3, <2>4, PassForetold DEF n
<1>7. CASE FilterDrop(i)
  <2>1. /\ at' = i - 1 /\ msg' = "getNext" /\ pc'[i] = "pulling" /\ Evaluate(p, row) = "false"
    BY <1>3, <1>7 DEF FilterDrop, CallChild
  <2>2. stats'[i].rows_out = n
    BY <1>3, <2>1 DEF Plus
  <2>3. Streams(o, i)'
    BY <1>4, <1>5, <2>1, <2>2
  <2>4. Progress(o, i)'
    BY <1>0, <1>1, <1>3, <2>2, <2>3 DEF Progress
  <2>5. Chosen(o, f, i)' /\ state'[i] = "kOpen"
    BY <1>0, <1>1, <1>3 DEF Chosen
  <2>. QED  BY <2>1, <2>4, <2>5 DEF StageForetold, Told, Going
<1>8. CASE FilterThrows(i)
  <2>1. /\ at' = i /\ msg' = "throw" /\ pc'[i] = "idle" /\ Evaluate(p, row) \in ComparisonError
    BY <1>3, <1>8 DEF FilterThrows, Return
  <2>2. stats'[i].rows_out = n
    BY <1>3, <2>1 DEF Plus
  <2>3. AtEnd(o, i, "fails")'
    BY <1>4, <2>1, <2>2 DEF AtEnd
  <2>4. Chosen(o, f, i)' /\ state'[i] = "kOpen"
    BY <1>0, <1>1, <1>3 DEF Chosen
  <2>. QED  BY <2>1, <2>3, <2>4 DEF StageForetold, Told, Going, Calm
<1>. QED  BY <1>6, <1>7, <1>8

\* A projection gives the next row of its outcome.
LEMMA ProjectForetold ==
    ASSUME IInv, NEW o, NEW f, NEW w, Story(o, f, w), NEW i \in Stage, ProjectPass(i)
    PROVE  StageForetold(o, f, i)' /\ Told(o, f)'
<1> DEFINE below == o[i - 1].rows
           m == stats[i].rows_in
           n == stats[i].rows_out
<1>0. /\ StageStep(i) /\ pc[i] = "pulling" /\ at = i - 1 /\ msg = "kAdvanced" /\ Op(i) = "Project"
      /\ UNCHANGED <<state, emitted>>
      /\ at' = i /\ msg' = "kAdvanced" /\ pc' = [pc EXCEPT ![i] = "idle"]
  BY DEF StageStep, ProjectPass, Pulled, ChildGave, Return, data
<1>1. /\ i > 1 /\ i \in Nat /\ ~Blocking(i) /\ Script(f, w) /\ plan \in Plans
      /\ Chosen(o, f, i) /\ Streams(o, i) /\ i - 1 \in Stage
  BY <1>0, Pulling, Before
<1>2. /\ Chosen(o, f, i - 1) /\ m \in 0 .. Len(below) /\ m < Len(below)
      /\ row = below[m + 1] /\ n \in Nat
  BY <1>0, PulledRow
<1>3. /\ UNCHANGED plan /\ stats'[i].rows_in = m + 1 /\ stats'[i].rows_out = n + 1
  BY <1>0, <1>1, Before DEF Plus
<1>4. n + 1 <= Len(o[i].rows) /\ o[i].rows[n + 1] = ProjectRow(plan[i].columns, row)
  BY <1>0, <1>1, <1>2, StreamGives
<1>5. row' = ProjectRow(plan[i].columns, row)
  <2>1. row \in RowsOf(w[i - 1])
    <3>1. AreRows(below, w[i - 1])
      BY <1>1, <1>2, Scripted DEF Chosen
    <3>2. m + 1 \in 1 .. Len(below)
      BY <1>2
    <3>. QED  BY <1>2, <3>1, <3>2, RowsListed
  <2>2. row = [ordinal |-> row.ordinal, values |-> row.values]
    BY <2>1 DEF RowsOf
  <2>. QED  BY <2>2 DEF ProjectPass, ProjectRow
<1>6. Streams(o, i)'
  BY <1>0, <1>1, <1>3 DEF Streams, Op
<1>. QED  BY <1>0, <1>4, <1>5, <1>6, PassForetold

\* A limit passes on the next row of its outcome.
LEMMA LimitForetold ==
    ASSUME IInv, NEW o, NEW f, NEW w, Story(o, f, w), NEW i \in Stage, LimitPass(i)
    PROVE  StageForetold(o, f, i)' /\ Told(o, f)'
<1> DEFINE below == o[i - 1].rows
           m == stats[i].rows_in
           n == stats[i].rows_out
<1>0. /\ StageStep(i) /\ pc[i] = "pulling" /\ at = i - 1 /\ msg = "kAdvanced" /\ Op(i) = "Limit"
      /\ UNCHANGED <<state, row>>
      /\ at' = i /\ msg' = "kAdvanced" /\ pc' = [pc EXCEPT ![i] = "idle"]
      /\ emitted' = [emitted EXCEPT ![i] = @ + 1]
  BY DEF StageStep, LimitPass, Pulled, ChildGave, Return
<1>1. /\ i > 1 /\ i \in Nat /\ ~Blocking(i) /\ Script(f, w) /\ plan \in Plans
      /\ Chosen(o, f, i) /\ Streams(o, i) /\ emitted[i] < plan[i].limit /\ plan[i].limit \in Nat
  BY <1>0, Pulling, PlanHolds
<1>2. /\ Chosen(o, f, i - 1) /\ m \in 0 .. Len(below) /\ m < Len(below)
      /\ row = below[m + 1] /\ n \in Nat
  BY <1>0, PulledRow
<1>3. /\ UNCHANGED plan /\ stats'[i].rows_in = m + 1 /\ stats'[i].rows_out = n + 1
      /\ DOMAIN emitted = Stage
  BY <1>0, <1>1, Before DEF Plus
<1>4. n + 1 <= Len(o[i].rows) /\ o[i].rows[n + 1] = row
  BY <1>0, <1>1, <1>2, StreamGives
<1>5. Streams(o, i)'
  BY <1>0, <1>1, <1>2, <1>3 DEF Streams, Op
<1>. QED  BY <1>0, <1>4, <1>5, PassForetold

\* The child is at its end, or failed.
LEMMA PullEndForetold ==
    ASSUME IInv, NEW o, NEW f, NEW w, Story(o, f, w), NEW i \in Stage, PullEof(i) \/ PullFailed(i)
    PROVE  StageForetold(o, f, i)' /\ Told(o, f)'
<1>0. /\ StageStep(i) /\ pc[i] = "pulling" /\ at = i - 1 /\ msg \in {"kEof", "throw"}
      /\ UNCHANGED <<stats, emitted>>
  BY DEF StageStep, PullEof, PullFailed, ChildGave, data
<1>1. /\ i > 1 /\ i \in Nat /\ state[i] = "kOpen" /\ ~Blocking(i) /\ Script(f, w) /\ plan \in Plans
      /\ Chosen(o, f, i) /\ Progress(o, i) /\ Streams(o, i) /\ Len(o[i].rows) \in Nat
      /\ Op(i) = "Limit" => emitted[i] < plan[i].limit
  BY <1>0, Pulling
<1>2. /\ Chosen(o, f, i - 1) /\ stats[i].rows_in = Len(o[i - 1].rows)
      /\ msg = "kEof" => o[i - 1].fate = "eof"
      /\ msg = "throw" => o[i - 1].fate = "fails"
  BY <1>0, <1>1, Received
<1>3. /\ DOMAIN pc = Stage /\ DOMAIN state = Stage /\ UNCHANGED plan /\ (Blocking(i)' <=> Blocking(i))
      /\ i - 1 \in Stage /\ stats[i].rows_in \in Nat
  BY <1>0, <1>1, Before
<1>4. AtEnd(o, i, o[i - 1].fate)
  <2>1. stats[i].rows_in \in 0 .. Len(o[i - 1].rows)
    BY <1>2, <1>3
  <2>. QED  BY <1>1, <1>2, <2>1, StreamGives
<1>5. Chosen(o, f, i)'
  BY <1>1, <1>3 DEF Chosen
<1>6. CASE PullEof(i)
  <2>1. msg = "kEof" /\ state'[i] = "kEof" /\ at' = i /\ msg' = "kEof" /\ pc'[i] = "idle"
    BY <1>3, <1>6 DEF PullEof, ChildGave, Enter, Return
  <2>2. AtEnd(o, i, "eof")'
    BY <1>0, <1>2, <1>4, <2>1 DEF AtEnd
  <2>3. Streams(o, i)'
    BY <1>0, <1>1, <1>3 DEF Streams, Op
  <2>4. Progress(o, i)'
    BY <1>0, <1>1, <1>3, <2>2, <2>3 DEF Progress
  <2>. QED  BY <1>5, <2>1, <2>4 DEF StageForetold, Told, Going
<1>7. CASE PullFailed(i)
  <2>1. msg = "throw" /\ state'[i] = "kOpen" /\ at' = i /\ msg' = "throw" /\ pc'[i] = "idle"
    BY <1>1, <1>3, <1>7 DEF PullFailed, ChildGave, Return
  <2>2. AtEnd(o, i, "fails")'
    BY <1>0, <1>2, <1>4, <2>1 DEF AtEnd
  <2>. QED  BY <1>5, <2>1, <2>2 DEF StageForetold, Told, Going, Calm
<1>. QED  BY <1>6, <1>7

\* The plan is closed.
LEMMA CloseForetold ==
    ASSUME IInv, NEW o, NEW f, NEW w, Story(o, f, w), NEW i \in Stage, CloseCall(i) \/ CloseReturn(i)
    PROVE  StageForetold(o, f, i)' /\ Told(o, f)'
<1>0. StageStep(i) /\ UNCHANGED <<stats, next_index, emitted>>
  BY DEF StageStep, CloseCall, CloseReturn
<1>1. /\ i \in Nat /\ DOMAIN pc = Stage /\ DOMAIN state = Stage /\ UNCHANGED plan
  BY <1>0, Before
<1>2. \/ state'[i] = "kClosed" /\ at' = i /\ msg' = "ok" /\ pc'[i] = "idle"
      \/ /\ UNCHANGED <<state, buffer>> /\ state[i] # "kClosed"
         /\ at' = i - 1 /\ msg' = "close" /\ pc'[i] = "closing" /\ at = i /\ msg = "close"
  BY <1>1 DEF CloseCall, CloseReturn, Called, CallChild, Release, Enter, Return
<1>3. CASE state'[i] = "kClosed" /\ at' = i /\ msg' = "ok" /\ pc'[i] = "idle"
  BY <1>3 DEF StageForetold, Told, Going, Calm
<1>4. CASE /\ UNCHANGED <<state, buffer>> /\ state[i] # "kClosed"
           /\ at' = i - 1 /\ msg' = "close" /\ pc'[i] = "closing" /\ at = i /\ msg = "close"
  <2>1. pc[i] = "idle"
    BY <1>1, <1>4 DEF IInv, LP!IInv, LP!Stack, LP!Stage, Stage
  <2>2. StageForetold(o, f, i)
    BY DEF Story
  <2>3. Fresh(i) => Fresh(i)'
    BY <1>0, <1>4, <2>1 DEF Fresh
  <2>4. Chosen(o, f, i) => Chosen(o, f, i)'
    BY <1>1 DEF Chosen
  <2>. QED  BY <1>4, <2>2, <2>3, <2>4 DEF StageForetold, Told, Going, Calm
<1>. QED  BY <1>2, <1>3, <1>4

\* A step of stage i, by what it leaves foretold of the stage.
LEMMA StoryGoesOn ==
    ASSUME IInv, NEW o, NEW f, NEW w, Story(o, f, w), NEW i \in Stage, StageStep(i), NEW oo,
           \A j \in Stage \ {i} : oo[j] = o[j],
           oo[i] = o[i] \/ (state[i] = "kUnopened" /\ (i < N => pc[i + 1] \in {"opening", "idle"})),
           StageForetold(oo, f, i)', Told(oo, f)'
    PROVE  Foretold'
<1>1. UNCHANGED <<plan, table>> /\ N \in Stage
  BY Before, NAssumption DEF Stage
<1>2. Script(f, w)'
  BY <1>1 DEF Story, Script
<1>3. \A j \in Stage \ {i} : StageForetold(oo, f, j)'
  <2>1. \A j \in Stage \ {i} : oo[j] = o[j] /\ StageForetold(o, f, j)
    BY DEF Story
  <2>. QED  BY <2>1, OthersForetold
<1>4. Collected(oo, f)'
  <2>1. Collected(o, f) /\ (i # N => oo[N] = o[N])
    BY <1>1 DEF Story
  <2>. QED  BY <2>1, CollectedStays
<1>5. \A j \in Stage : StageForetold(oo, f, j)'
  BY <1>3
<1>. QED  BY <1>2, <1>4, <1>5 DEF Story, Foretold

\* While a stage opens, the stage above it opens or has not been called.
LEMMA OpensInOrder ==
    ASSUME IInv, NEW i \in Stage,
           (at = i /\ msg = "open") \/ pc[i] \in {"opening", "draining"}, i < N
    PROVE  pc[i + 1] \in {"opening", "idle"}
<1>1. /\ i \in Nat /\ N \in Nat /\ i + 1 \in Stage /\ at \in Stage
      /\ pc[i] = "idle" <=> i <= at
      /\ i + 1 > at + 1 => LP!Fits(pc[i + 1], pc[i])
      /\ i + 1 = at + 1 => LP!Between(pc[i + 1], msg)
  <2>1. i \in Nat /\ N \in Nat /\ i + 1 \in Stage /\ (i + 1) - 1 = i
    BY NAssumption DEF Stage
  <2>2. LP!Stack /\ at \in Stage
    BY DEF IInv, LP!IInv, LP!TypeOK, LP!Stage, Stage
  <2>. QED  BY <2>1, <2>2 DEF LP!Stack, LP!Stage, Stage
<1>2. CASE at = i /\ msg = "open"
  BY <1>1, <1>2 DEF LP!Between
<1>3. CASE pc[i] \in {"opening", "draining"}
  <2>1. i > at /\ at \in Nat
    BY <1>1, <1>3 DEF Stage
  <2>. QED  BY <1>1, <1>3, <2>1 DEF LP!Fits
<1>. QED  BY <1>2, <1>3

\* Every step of a stage keeps to what is foretold.
LEMMA StageKeepsForetold ==
    ASSUME IInv, Foretold, NEW i \in Stage, StageStep(i)
    PROVE  Foretold'
<1>1. PICK o, f, w : Story(o, f, w)
  BY DEF Foretold
<1>2. /\ i \in Nat /\ (i > 1 => i - 1 \in Stage) /\ plan \in Plans /\ Script(f, w)
      /\ pc[i] # "idle" => i > 1
  BY <1>1, Before DEF Story
<1>3. ASSUME StageForetold(o, f, i)' /\ Told(o, f)' PROVE Foretold'
  <2>1. \A j \in Stage \ {i} : o[j] = o[j]
    OBVIOUS
  <2>. QED  BY <1>1, <1>3, <2>1, StoryGoesOn
<1>4. CASE OpenCall(i)
  <2>1. CASE i = 1
    <3>0. PICK x : x = Yields(table)
      OBVIOUS
    <3>4. PICK oo : oo = [j \in Stage |-> IF j = i THEN x ELSE o[j]]
      OBVIOUS
    <3>1. oo[i] = x /\ \A j \in Stage \ {i} : oo[j] = o[j]
      BY <3>4
    <3>2. StageForetold(oo, f, i)' /\ Told(oo, f)'
      BY <1>1, <1>4, <2>1, <3>0, <3>1, OpenCallForetold
    <3>3. state[i] = "kUnopened" /\ at = i /\ msg = "open"
      BY <1>4 DEF OpenCall, Called
    <3>. QED  BY <1>1, <3>1, <3>2, <3>3, OpensInOrder, StoryGoesOn
  <2>2. CASE i # 1
    BY <1>1, <1>3, <1>4, <2>2, OpenCallForetold
  <2>. QED  BY <2>1, <2>2
<1>5. CASE OpenReturn(i)
  <2>1. state[i] = "kUnopened" /\ pc[i] = "opening" /\ at = i - 1 /\ msg = "ok"
    BY <1>5, Waits DEF IInv, OpenReturn, ChildGave
  <2>2. CASE Blocking(i)
    BY <1>1, <1>3, <1>5, <2>2, OpenReturnForetold
  <2>3. CASE ~Blocking(i)
    <3>1. Chosen(o, f, i - 1)
      <4>1. state[i - 1] = "kOpen"
        BY <1>2, <2>1 DEF IInv, LP!IInv, LP!Child, LP!ChildOf, LP!Stage, Stage
      <4>. QED  BY <1>1, <1>2, <2>1, <4>1 DEF Story, StageForetold, Going
    <3>2. PICK x \in f[i] : x \in Apply(plan[i], o[i - 1]) /\ x # FailsToOpen
      BY <1>2, <2>1, <2>3, <3>1, StreamStarts
    <3>6. PICK oo : oo = [j \in Stage |-> IF j = i THEN x ELSE o[j]]
      OBVIOUS
    <3>3. oo[i] = x /\ \A j \in Stage \ {i} : oo[j] = o[j]
      BY <3>6
    <3>4. i > 1 => oo[i - 1] = o[i - 1]
      BY <1>2, <3>3
    <3>5. StageForetold(oo, f, i)' /\ Told(oo, f)'
      BY <1>1, <1>5, <3>2, <3>3, <3>4, OpenReturnForetold
    <3>. QED  BY <1>1, <2>1, <3>3, <3>5, OpensInOrder, StoryGoesOn
  <2>. QED  BY <2>2, <2>3
<1>6. CASE SortBuffer(i)
  <2>1. state[i] = "kUnopened" /\ pc[i] = "draining"
    BY <1>6, Waits DEF IInv, SortBuffer
  <2>0. PICK x : x = Yields(InOrder(plan[i].sort, buffer[i]))
    OBVIOUS
  <2>5. PICK oo : oo = [j \in Stage |-> IF j = i THEN x ELSE o[j]]
    OBVIOUS
  <2>2. oo[i] = x /\ \A j \in Stage \ {i} : oo[j] = o[j]
    BY <2>5
  <2>3. i > 1 => oo[i - 1] = o[i - 1]
    BY <1>2, <2>2
  <2>4. StageForetold(oo, f, i)' /\ Told(oo, f)'
    BY <1>1, <1>6, <2>0, <2>2, <2>3, SortBufferForetold
  <2>. QED  BY <1>1, <2>1, <2>2, <2>4, OpensInOrder, StoryGoesOn
<1>7. CASE ChildFailedOpen(i)
  BY <1>1, <1>3, <1>7, ChildFailedForetold
<1>8. CASE DrainRow(i)
  BY <1>1, <1>3, <1>8, DrainRowForetold
<1>9. CASE DrainThrows(i) \/ SortThrows(i)
  BY <1>1, <1>3, <1>9, ClashForetold
<1>10. CASE RollbackReturn(i)
  BY <1>1, <1>3, <1>10, RollbackReturnForetold
<1>11. CASE GetNextEof(i)
  BY <1>1, <1>3, <1>11, GetNextEofForetold
<1>12. CASE GetNextRow(i)
  BY <1>1, <1>3, <1>12, GetNextRowForetold
<1>13. CASE GetNextPull(i)
  BY <1>1, <1>3, <1>13, GetNextPullForetold
<1>14. CASE FilterPass(i) \/ FilterDrop(i) \/ FilterThrows(i)
  BY <1>1, <1>3, <1>14, FilterForetold
<1>15. CASE ProjectPass(i)
  BY <1>1, <1>3, <1>15, ProjectForetold
<1>16. CASE LimitPass(i)
  BY <1>1, <1>3, <1>16, LimitForetold
<1>17. CASE PullEof(i) \/ PullFailed(i)
  BY <1>1, <1>3, <1>17, PullEndForetold
<1>18. CASE CloseCall(i) \/ CloseReturn(i)
  BY <1>1, <1>3, <1>18, CloseForetold
<1>. QED  BY <1>4, <1>5, <1>6, <1>7, <1>8, <1>9, <1>10, <1>11, <1>12, <1>13, <1>14, <1>15,
             <1>16, <1>17, <1>18 DEF StageStep

\* What the plans and tables that are run have in common: the stages of a plan fit
\* over one another and over the rows of the table.
LEMMA PlansFit ==
    ASSUME plan \in Plans, table \in Tables
    PROVE  \E f, w : Script(f, w)
<1>1. /\ DOMAIN plan = 1 .. N /\ Len(plan) = N /\ AreStages(plan, N)
      /\ WellBound(plan, Width) /\ AreRows(table, Width)
  BY PlansAssumption, TablesAssumption, NAssumption DEF AreStages
<1>2. PICK w : w = WidthAt(plan, Width)
  OBVIOUS
<1>3. w[1] = Width /\ \A i \in 2 .. N : w[i] = WidthOver(plan[i], w[i - 1])
  BY <1>1, <1>2, WidthsOf
<1>4. ASSUME NEW i \in 2 .. N PROVE FitsOver(plan[i], w[i - 1])
  <2>1. ColumnsUsed(plan[i]) \subseteq 1 .. w[i - 1]
    BY <1>1, <1>2 DEF WellBound
  <2>2. \/ plan[i].stage = "Filter"
        \/ plan[i].stage = "Project" /\ plan[i].columns \in Seq(Nat)
        \/ plan[i].stage = "Limit" /\ plan[i].limit \in Nat
        \/ plan[i].stage = "Sort" /\ plan[i].sort.direction \in SortDirection
        \/ /\ plan[i].stage = "TopK" /\ plan[i].sort.direction \in SortDirection
           /\ plan[i].k \in Nat
    BY PlansAssumption
  <2>3. CASE plan[i].stage = "Project"
    <3>1. plan[i].columns \in Seq(Nat) /\ ToSet(plan[i].columns) \subseteq 1 .. w[i - 1]
      BY <2>1, <2>2, <2>3 DEF ColumnsUsed
    <3> DEFINE c == plan[i].columns
    <3>2. \A j \in 1 .. Len(c) : c[j] \in 1 .. w[i - 1]
      <4>1. DOMAIN c = 1 .. Len(c)
        BY <3>1
      <4>. QED  BY <3>1, <4>1 DEF ToSet
    <3>. HIDE DEF c
    <3>3. c \in Seq(1 .. w[i - 1])
      <4>1. c \in Seq(Nat)
        BY <3>1 DEF c
      <4>2. Len(c) \in Nat /\ c \in [1 .. Len(c) -> 1 .. w[i - 1]]
        BY <3>2, <4>1
      <4>. QED  BY <4>2, ListIsSequence
    <3>. QED  BY <2>3, <3>3 DEF FitsOver, c
  <2>4. CASE plan[i].stage \in {"Sort", "TopK"}
    <3>1. plan[i].sort.column \in 1 .. w[i - 1]
      BY <2>1, <2>4 DEF ColumnsUsed
    <3>. QED  BY <2>2, <2>4, <3>1 DEF FitsOver
  <2>. QED  BY <2>2, <2>3, <2>4 DEF FitsOver
<1>5. FitTogether(plan, N, w)
  BY <1>3, <1>4 DEF FitTogether
<1>6. PICK f : Passes(f, plan, N, table) /\ Outcomes(plan, table) = f[N]
  BY <1>1, OutcomesOf
<1>. QED  BY <1>1, <1>3, <1>5, <1>6 DEF Script

\* Before anything opens, everything may be foretold.
LEMMA InitForetold == Init => Foretold
<1>. SUFFICES ASSUME Init PROVE Foretold
  OBVIOUS
<1>1. PICK f, w : Script(f, w)
  BY PlansFit DEF Init
<1>2. PICK o : o = [i \in Stage |-> FailsToOpen]
  OBVIOUS
<1>3. N \in Stage
  BY NAssumption DEF Stage
<1>4. \A i \in Stage : StageForetold(o, f, i)
  BY DEF Init, StageForetold, Going, Fresh
<1>5. Told(o, f) /\ Collected(o, f)
  BY <1>3 DEF Init, Told, Collected
<1>. QED  BY <1>1, <1>4, <1>5 DEF Story, Foretold

\* The steps of runPipeline() collect what is foretold.
LEMMA GuardKeepsForetold ==
    ASSUME IInv, Foretold, GuardStep
    PROVE  Foretold'
<1>1. PICK o, f, w : Story(o, f, w)
  BY DEF Foretold
<1>. USE DEF RootGave, CallRoot
<1>2. /\ UNCHANGED <<plan, table, state, pc, at, stats, next_index, emitted, buffer, sorted, row>>
      /\ at = N /\ N \in Stage /\ Owner
  BY NAssumption
     DEF IInv, GuardStep, GuardOpens, GuardOpened, GuardFails, FetchRow, FetchEof, FetchFails,
         GuardCloses, task, data, control, Owner, Finished, Stage
<1>3. Calm' => Calm
  BY <1>2 DEF Calm, GuardStep, GuardOpens, GuardOpened, GuardFails, FetchRow, FetchEof, FetchFails,
     GuardCloses, Owner, control
<1>4. Script(f, w)'
  BY <1>1, <1>2 DEF Story, Script
<1>5. ASSUME NEW i \in Stage PROVE StageForetold(o, f, i)'
  <2>1. StageForetold(o, f, i)
    BY <1>1 DEF Story
  <2>2. Chosen(o, f, i)' <=> Chosen(o, f, i)
    BY <1>2 DEF Chosen
  <2>3. Progress(o, i)' <=> Progress(o, i)
    <3>1. Streams(o, i)' <=> Streams(o, i)
      BY <1>2 DEF Streams, Op
    <3>2. /\ AtEnd(o, i, "eof")' <=> AtEnd(o, i, "eof")
          /\ Blocking(i)' <=> Blocking(i)
      BY <1>2 DEF AtEnd, Blocking, Op
    <3>3. (AtHand(i) = o[i].rows)' <=> AtHand(i) = o[i].rows
      BY <1>2 DEF AtHand
    <3>. QED  BY <1>2, <3>1, <3>2, <3>3 DEF Progress
  <2>4. Drained(o, i)' <=> Drained(o, i)
    BY <1>2 DEF Drained, Taken, Op
  <2>5. (Fresh(i)' <=> Fresh(i)) /\ (Going(i)' <=> Going(i))
    BY <1>2 DEF Fresh, Going
  <2>. QED  BY <1>2, <1>3, <2>1, <2>2, <2>3, <2>4, <2>5 DEF StageForetold
<1>6. Told(o, f)'
  BY <1>1, <1>2 DEF Story, Told, AtEnd, Going, GuardStep, GuardOpens, GuardOpened, GuardFails, FetchRow,
     FetchEof, FetchFails, GuardCloses, control
<1>7. Collected(o, f)'
  <2>. USE <1>2
  <2>1. Collected(o, f) /\ Told(o, f) /\ StageForetold(o, f, N) /\ Script(f, w)
    BY <1>1 DEF Story
  <2>2. CASE GuardOpens
    BY <2>1, <2>2 DEF GuardOpens, Collected
  <2>3. CASE GuardOpened
    BY <2>1, <2>3 DEF GuardOpened, Collected, Plus
  <2>4. CASE GuardFails
    <3>1. state[N] = "kClosed"
      BY <2>4 DEF Owner, GuardFails
    <3>2. FailsToOpen \in f[N]
      BY <2>1, <2>4, <3>1 DEF GuardFails, Told, Going
    <3>. QED  BY <2>1, <2>4, <3>2 DEF GuardFails, Collected
  <2>5. CASE FetchRow
    <3>1. /\ Going(N) /\ stats[N].rows_out > 0 /\ row = o[N].rows[stats[N].rows_out]
          /\ caller = "fetching" /\ caller' = "fetching" /\ msg = "kAdvanced" /\ msg' = "getNext"
          /\ result' = Append(result, row)
      BY <2>1, <2>5 DEF FetchRow, Told
    <3>2. Chosen(o, f, N) /\ Progress(o, N)
      BY <2>1, <3>1 DEF StageForetold, Calm
    <3>3. /\ result \in Seq(ToSet(o[N].rows)) /\ stats[N].rows_out = Len(result) + 1
          /\ \A j \in 1 .. Len(result) : result[j] = o[N].rows[j]
      BY <2>1, <3>1 DEF Collected, Plus
    <3>4. /\ stats[N].rows_out <= Len(o[N].rows) /\ Len(o[N].rows) \in Nat
          /\ DOMAIN o[N].rows = 1 .. Len(o[N].rows)
      BY <2>1, <3>2, Scripted DEF Progress, Chosen
    <3>5. row \in ToSet(o[N].rows)
      <4>1. Len(result) \in Nat
        BY <3>3
      <4>2. stats[N].rows_out \in DOMAIN o[N].rows
        BY <3>3, <3>4, <4>1
      <4>. QED  BY <3>1, <4>2 DEF ToSet
    <3>6. /\ result' \in Seq(ToSet(o[N].rows)) /\ Len(result') = Len(result) + 1
          /\ \A j \in 1 .. Len(result') : result'[j] = o[N].rows[j]
      <4> DEFINE S == ToSet(o[N].rows)
                 rows == o[N].rows
      <4>1. result \in Seq(S) /\ row \in S /\ row = rows[Len(result) + 1]
        BY <3>1, <3>3, <3>5
      <4>2. \A j \in 1 .. Len(result) : result[j] = rows[j]
        BY <3>3
      <4>. HIDE DEF S, rows
      <4>3. /\ Append(result, row) \in Seq(S) /\ Len(Append(result, row)) = Len(result) + 1
            /\ \A j \in 1 .. Len(result) + 1 : Append(result, row)[j] = rows[j]
        BY <4>1, <4>2
      <4>. QED  BY <3>1, <4>3 DEF S, rows
    <3>7. stats'[N].rows_out = Plus(Len(result'), at' = N /\ msg' = "kAdvanced")
      BY <3>1, <3>3, <3>6 DEF Plus
    <3>. QED  BY <3>1, <3>6, <3>7 DEF Collected
  <2>6. CASE FetchEof \/ FetchFails
    <3>1. caller = "fetching" /\ msg \in {"kEof", "throw"} /\ result' = result
      BY <2>6 DEF FetchEof, FetchFails
    <3>2. stats[N].rows_out = Len(result)
      BY <2>1, <3>1 DEF Collected, Plus
    <3>3. Going(N) /\ (msg = "kEof" => state[N] = "kEof")
      BY <2>1, <3>1 DEF Owner, Going, Told
    <3>4. Chosen(o, f, N) /\ (msg = "kEof" => Progress(o, N))
      BY <2>1, <3>3 DEF StageForetold, Calm
    <3>5. AtEnd(o, N, IF msg = "kEof" THEN "eof" ELSE "fails")
      BY <2>1, <3>1, <3>3, <3>4 DEF Progress, Told
    <3>6. /\ IsOutcome(o[N], w[N]) /\ DOMAIN o[N].rows = 1 .. Len(o[N].rows)
          /\ o[N] \in f[N]
      BY <2>1, <3>4, Scripted DEF Chosen
    <3>7. result = o[N].rows
      <4>1. /\ result \in Seq(ToSet(o[N].rows)) /\ Len(result) = Len(o[N].rows)
            /\ \A j \in 1 .. Len(result) : result[j] = o[N].rows[j]
        BY <2>1, <3>1, <3>2, <3>5 DEF Collected, AtEnd
      <4>2. /\ o[N].rows = [j \in 1 .. Len(result) |-> o[N].rows[j]]
        <5>1. AreRows(o[N].rows, w[N])
          BY <3>6 DEF IsOutcome
        <5>2. o[N].rows \in Seq(RowsOf(w[N]))
          BY <5>1 DEF AreRows, RowsOf
        <5>. QED  BY <4>1, <5>2
      <4>3. result = [j \in 1 .. Len(result) |-> result[j]]
        BY <4>1
      <4>. QED  BY <4>1, <4>2, <4>3
    <3>8. o[N] = [rows |-> result, fate |-> IF msg = "kEof" THEN "eof" ELSE "fails"]
      BY <3>5, <3>6, <3>7 DEF IsOutcome, AtEnd
    <3>9. CASE FetchEof
      <4>1. msg = "kEof" /\ caller' = "leaving"
        BY <3>9 DEF FetchEof
      <4>2. Yields(result) \in f[N]
        BY <3>6, <3>8, <4>1 DEF Yields
      <4>. QED  BY <3>1, <3>2, <4>1, <4>2 DEF Collected
    <3>10. CASE FetchFails
      <4>1. msg = "throw" /\ caller' = "unwinding"
        BY <3>10 DEF FetchFails
      <4>2. FailsAfter(result) \in f[N]
        BY <3>6, <3>8, <4>1 DEF FailsAfter
      <4>. QED  BY <3>1, <4>1, <4>2 DEF Collected
    <3>. QED  BY <2>6, <3>9, <3>10
  <2>7. CASE GuardCloses
    BY <2>1, <2>7 DEF GuardCloses, Collected
  <2>. QED  BY <2>2, <2>3, <2>4, <2>5, <2>6, <2>7 DEF GuardStep
<1>. QED  BY <1>4, <1>5, <1>6, <1>7 DEF Story, Foretold

\* Every step keeps to what is foretold,
LEMMA NextForetold == IInv /\ Foretold /\ [Next]_vars => Foretold'
<1>. SUFFICES ASSUME IInv, Foretold, [Next]_vars PROVE Foretold'
  OBVIOUS
<1>1. ASSUME NEW i \in Stage, StageStep(i) PROVE Foretold'
  BY <1>1, StageKeepsForetold
<1>2. CASE GuardStep
  BY <1>2, GuardKeepsForetold
<1>3. CASE UNCHANGED vars
  <2>. USE <1>3 DEF vars, task, control, data
  <2>1. PICK o, f, w : Story(o, f, w)
    BY DEF Foretold
  <2>2. Script(f, w)'
    BY <2>1 DEF Story, Script
  <2>3. ASSUME NEW i \in Stage PROVE StageForetold(o, f, i)'
    <3>1. StageForetold(o, f, i)
      BY <2>1 DEF Story
    <3>2. (Chosen(o, f, i)' <=> Chosen(o, f, i)) /\ (Calm' <=> Calm)
      BY DEF Chosen, Calm
    <3>3. /\ Streams(o, i)' <=> Streams(o, i)
          /\ AtEnd(o, i, "eof")' <=> AtEnd(o, i, "eof")
          /\ Blocking(i)' <=> Blocking(i)
          /\ (AtHand(i) = o[i].rows)' <=> AtHand(i) = o[i].rows
      BY DEF Streams, AtEnd, Blocking, Op, AtHand
    <3>4. Progress(o, i)' <=> Progress(o, i)
      BY <3>3 DEF Progress
    <3>5. Drained(o, i)' <=> Drained(o, i)
      BY DEF Drained, Taken, Op
    <3>6. (Fresh(i)' <=> Fresh(i)) /\ (Going(i)' <=> Going(i))
      BY DEF Fresh, Going
    <3>. QED  BY <3>1, <3>2, <3>4, <3>5, <3>6 DEF StageForetold
  <2>4. Told(o, f)'
    BY <2>1 DEF Story, Told, AtEnd, Going
  <2>5. Collected(o, f)'
    BY <2>1 DEF Story, Collected, Plus
  <2>. QED  BY <2>2, <2>3, <2>4, <2>5 DEF Story, Foretold
<1>. QED  BY <1>1, <1>2, <1>3 DEF Next, Over, GuardStep

\* so that it always comes true.
LEMMA AllForetold == Spec => [](IInv /\ Foretold)
<1>1. Init => IInv /\ Foretold
  BY InitInv, InitForetold
<1>2. IInv /\ Foretold /\ [Next]_vars => (IInv /\ Foretold)'
  BY NextInv, NextForetold
<1>. QED  BY <1>1, <1>2, PTL DEF Spec

\* A query that ends returns rows its plan yields, in their order, and one that fails
\* has a plan that fails, after the rows collected or when it opens
\* (query_facade.cpp:46-60, src/physical).
THEOREM ResultsAreMeaning == Spec => []ResultIsMeaning
<1>1. Foretold => ResultIsMeaning
  BY DEF Foretold, Story, Script, Collected, ResultIsMeaning
<1>. QED  BY <1>1, AllForetold, PTL
-----------------------------------------------------------------------------
\* Where no row is on its way, the stages of a plan that streams so far have given what
\* the plan means over the rows the scan has given.
LEMMA BeginningMeans ==
    ASSUME IInv, NEW o, NEW f, NEW w, Story(o, f, w), NEW i \in Stage, msg # "kAdvanced",
           \A j \in 1 .. i : Chosen(o, f, j) /\ Progress(o, j) /\ ~Blocking(j)
    PROVE  LET n == stats[1].rows_out
           IN  /\ n \in 0 .. Len(table) /\ Len(table) \in Nat
               /\ Outcomes(SubSeq(plan, 1, i), SubSeq(table, 1, n))
                     = {Yields(SubSeq(o[i].rows, 1, stats[i].rows_out))}
               /\ stats[i].rows_out \in Nat
               /\ Len(SubSeq(o[i].rows, 1, stats[i].rows_out)) = stats[i].rows_out
<1> DEFINE p == SubSeq(plan, 1, i)
           n == stats[1].rows_out
           t == SubSeq(table, 1, n)
           first(j) == SubSeq(o[j].rows, 1, stats[j].rows_out)
<1>1. /\ i \in Nat /\ i > 0 /\ N \in Nat /\ i <= N /\ plan \in Plans /\ Script(f, w) /\ 1 \in 1 .. i
      /\ \A j \in 1 .. i : j \in Stage /\ j \in Nat /\ (j > 1 => j - 1 \in 1 .. i)
  BY NAssumption DEF Stage, IInv, Story
<1>2. /\ AreStages(p, i) /\ \A j \in 1 .. i : p[j] = plan[j]
  <2>1. plan \in Seq(ToSet(plan)) /\ Len(plan) = N
    BY <1>1, PlansAssumption
  <2> DEFINE S == ToSet(plan)
  <2>2. plan \in Seq(S) /\ Len(plan) = N
    BY <2>1
  <2>. HIDE DEF S
  <2>3. /\ SubSeq(plan, 1, i) = [j \in 1 .. i |-> plan[j]]
        /\ Len(SubSeq(plan, 1, i)) = i
    BY <1>1, <2>2
  <2>. QED  BY <1>1, <2>3 DEF AreStages
<1>. HIDE DEF p
<1>3. ASSUME NEW j \in 1 .. i
      PROVE  /\ IsOutcome(o[j], w[j]) /\ AreRows(o[j].rows, w[j])
             /\ stats[j].rows_out \in 0 .. Len(o[j].rows) /\ Len(o[j].rows) \in Nat
             /\ stats[j].rows_out \in Nat
  <2>1. /\ IsOutcome(o[j], w[j]) /\ AreRows(o[j].rows, w[j]) /\ Len(o[j].rows) \in Nat
    BY <1>1, Scripted DEF Chosen
  <2>2. stats[j].rows_out <= Len(o[j].rows) /\ stats[j].rows_out \in Nat
    BY <1>1 DEF Progress, IInv, Ledger, Counters
  <2>. QED  BY <2>1, <2>2
<1>4. o[1] = Yields(table)
  <2>1. f[1] = {Yields(table)} /\ o[1] \in f[1]
    BY <1>1, Scripted DEF Chosen
  <2>. QED  BY <2>1
<1>5. n \in 0 .. Len(table) /\ Len(table) \in Nat
  BY <1>1, <1>3, <1>4 DEF Yields
<1>6. PICK g : Passes(g, p, i, t) /\ Outcomes(p, t) = g[i]
  BY <1>2, OutcomesOf
<1>7. g[1] = {Yields(t)} /\ \A j \in 2 .. i : g[j] = After(p[j], g[j - 1])
  BY <1>1, <1>6, PassOn
<1>. HIDE DEF t, n
<1>8. g[1] = {Yields(first(1))}
  BY <1>4, <1>7 DEF Yields, t, n
<1>9. ASSUME NEW j \in 2 .. i, g[j - 1] = {Yields(first(j - 1))}
      PROVE  g[j] = {Yields(first(j))}
  <2>1. /\ j \in 1 .. i /\ j - 1 \in 1 .. i /\ j > 1 /\ j \in Stage /\ j - 1 \in Stage /\ j \in Nat
    BY <1>1
  <2> DEFINE x == o[j - 1]
             y == o[j]
             m == stats[j - 1].rows_out
  <2>2. /\ IsOutcome(x, w[j - 1]) /\ m \in 0 .. Len(x.rows) /\ x # FailsToOpen
        /\ y \in Apply(plan[j], x) /\ Streams(o, j) /\ ~Blocking(j)
    BY <1>3, <2>1 DEF Chosen, Progress
  <2>3. m = stats[j].rows_in /\ m \in Nat
    BY <1>3, <2>1 DEF IInv, Ledger, Plus
  <2>4. g[j] = Apply(plan[j], Yields(SubSeq(x.rows, 1, m)))
    <3>1. g[j] = UNION {Apply(plan[j], z) : z \in {Yields(first(j - 1))}}
      BY <1>2, <1>7, <1>9, <2>1 DEF After
    <3>. QED  BY <3>1
  <2>5. Op(j) \in {"Filter", "Project", "Limit"}
    BY <1>1, <2>1, <2>2, PlanHolds DEF Blocking
  <2>6. CASE Op(j) = "Filter"
    <3> DEFINE q == plan[j].predicate
    <3>1. y = Filtered(q, x)
      BY <2>2, <2>6 DEF Apply, Op
    <3>2. Fine(q, x.rows, m) /\ stats[j].rows_out = Cardinality(KeptOf(q, x.rows, m))
      BY <2>2, <2>3, <2>6 DEF Streams
    <3>3. g[j] = {Filtered(q, Yields(SubSeq(x.rows, 1, m)))}
      BY <2>4, <2>6 DEF Apply, Op
    <3>. HIDE DEF x, q, m
    <3>4. Filtered(q, Yields(SubSeq(x.rows, 1, m)))
            = Yields(SubSeq(Filtered(q, x).rows, 1, Cardinality(KeptOf(q, x.rows, m))))
      BY <2>2, <3>2, FilterOfFirst
    <3>. QED  BY <3>1, <3>2, <3>3, <3>4
  <2>7. CASE Op(j) = "Project"
    <3>1. m = stats[j].rows_out
      BY <2>2, <2>3, <2>7 DEF Streams
    <3> DEFINE st == plan[j]
               b == w[j - 1]
    <3>. HIDE DEF x, y, m
    <3>2. st.stage = "Project" /\ y \in Apply(st, x) /\ IsOutcome(x, b) /\ m \in 0 .. Len(x.rows)
      BY <2>2, <2>7 DEF Op
    <3>. HIDE DEF st, b
    <3>3. Apply(st, Yields(SubSeq(x.rows, 1, m))) = {Yields(SubSeq(y.rows, 1, m))}
      BY ONLY <3>2, ProjectOfFirst
    <3>. QED  BY <2>4, <3>1, <3>3 DEF y, st
  <2>8. CASE Op(j) = "Limit"
    <3> DEFINE k == plan[j].limit
    <3>1. m = stats[j].rows_out /\ m <= k /\ k \in Nat
      BY <1>1, <2>1, <2>2, <2>3, <2>8, PlanHolds DEF Streams
    <3>2. y = Limited(k, x) /\ g[j] = {Limited(k, Yields(SubSeq(x.rows, 1, m)))}
      BY <2>2, <2>4, <2>8 DEF Apply, Op
    <3>. HIDE DEF x, k, m
    <3>3. Limited(k, Yields(SubSeq(x.rows, 1, m))) = Yields(SubSeq(Limited(k, x).rows, 1, m))
      BY <2>2, <3>1, LimitOfFirst
    <3>. QED  BY <3>1, <3>2, <3>3
  <2>. QED  BY <2>5, <2>6, <2>7, <2>8
<1> DEFINE Odd == {j \in 1 .. i : g[j] # {Yields(first(j))}}
<1>10. Odd = {}
  <2>. SUFFICES ASSUME Odd # {} PROVE FALSE
    OBVIOUS
  <2>1. PICK j \in Odd : \A k \in Odd : j <= k
    <3>1. Odd \in SUBSET (1 .. i)
      OBVIOUS
    <3>. QED  BY <1>1, <3>1, LeastPlace
  <2>. HIDE DEF first
  <2>2. j # 1 /\ j \in Nat /\ j \in 1 .. i
    BY <1>1, <1>8
  <2>3. j \in 2 .. i /\ j - 1 \in 1 .. i /\ ~(j <= j - 1)
    BY <1>1, <2>2
  <2>4. j - 1 \notin Odd
    BY <2>1, <2>3
  <2>5. g[j - 1] = {Yields(first(j - 1))}
    BY <2>3, <2>4
  <2>. QED  BY <1>9, <2>3, <2>5
<1>11. i \in 1 .. i
  BY <1>1
<1>12. Len(first(i)) = stats[i].rows_out
  BY <1>3, <1>11, FirstRows
<1>. HIDE DEF first
<1>13. Outcomes(p, t) = {Yields(first(i))}
  BY <1>6, <1>10, <1>11
<1>. QED  BY <1>3, <1>5, <1>11, <1>12, <1>13 DEF p, t, n, first

\* The limits that may end a query before its scan is at the end of the table.
FirstLimits == {i \in Stage : Op(i) = "Limit" /\ \A j \in 1 .. i : ~Blocking(j)}

\* Why a stage is at its end, or may be: the one below it is, or it is a full limit.
Ended(i) ==
    Calm /\ Going(i) =>
        /\ Blocking(i) => state[i - 1] = "kEof"
        /\ state[i] = "kEof" /\ ~Blocking(i) =>
              state[i - 1] = "kEof" \/ (Op(i) = "Limit" /\ emitted[i] >= plan[i].limit)

\* The scan has not gone on once a limit was full.
NothingSpare == \A i \in FirstLimits : \A n \in FillsLimit(i) : stats[1].rows_out <= n

\* And it has gone on until one was, or to the end of the table.
Enough == \/ stats[1].rows_out = Len(table)
          \/ \E i \in FirstLimits : stats[1].rows_out \in FillsLimit(i)

Examining ==
    /\ \A i \in Stage : i > 1 => Ended(i)
    /\ NothingSpare
    /\ caller \in {"leaving", "done"} => Enough

\* Why the scan is asked for a row: every stage above opens or pulls, and where the plan
\* streams it pulls.
LEMMA AskedFromAbove ==
    ASSUME IInv, at = 1, msg = "getNext", NEW i \in Stage, i > 1
    PROVE  /\ pc[i] \in {"opening", "draining", "pulling"}
           /\ (\A j \in 1 .. i : ~Blocking(j)) => \A j \in 2 .. i : pc[j] = "pulling"
<1>1. /\ i \in Nat /\ i > 1 /\ i <= N /\ N \in Nat
      /\ \A j \in 2 .. i : j \in Stage /\ j \in Nat
  BY NAssumption DEF Stage
<1>2. /\ pc[2] \in {"draining", "pulling"}
      /\ \A j \in 2 .. i : j > 2 => LP!Fits(pc[j], pc[j - 1])
      /\ \A j \in 2 .. i : ~Blocking(j) => pc[j] # "draining"
  <2>1. LP!Stack /\ ByKind /\ 2 \in Stage
    BY <1>1 DEF IInv, LP!IInv, Stage
  <2>2. LP!Between(pc[2], "getNext")
    BY <2>1 DEF LP!Stack, LP!Stage, Stage
  <2>3. \A j \in 2 .. i : j > 2 => LP!Fits(pc[j], pc[j - 1])
    BY <1>1, <2>1 DEF LP!Stack, LP!Stage, Stage
  <2>. QED  BY <1>1, <2>1, <2>2, <2>3 DEF LP!Between, ByKind
<1> DEFINE Odd == {j \in 2 .. i : pc[j] \notin {"opening", "draining", "pulling"}}
           Off == {j \in 2 .. i : pc[j] # "pulling"}
<1>3. ASSUME Odd # {} PROVE FALSE
  <2>1. PICK j \in Odd : \A k \in Odd : j <= k
    <3>1. Odd \in SUBSET (1 .. i)
      BY <1>1
    <3>. QED  BY <1>1, <1>3, <3>1, LeastPlace
  <2>2. j \in 2 .. i /\ j # 2 /\ j \in Nat
    BY <1>2
  <2>3. j - 1 \in 2 .. i /\ ~(j <= j - 1) /\ j > 2
    BY <1>1, <2>2
  <2>4. j - 1 \notin Odd
    BY <2>1, <2>3
  <2>. QED  BY <1>2, <2>2, <2>3, <2>4 DEF LP!Fits
<1>4. ASSUME \A j \in 1 .. i : ~Blocking(j), Off # {} PROVE FALSE
  <2>1. PICK j \in Off : \A k \in Off : j <= k
    <3>1. Off \in SUBSET (1 .. i)
      BY <1>1
    <3>. QED  BY <1>1, <1>4, <3>1, LeastPlace
  <2>2. j \in 2 .. i /\ j \in Nat /\ ~Blocking(j)
    BY <1>1, <1>4
  <2>3. j # 2
    BY <1>2, <2>2
  <2>4. j - 1 \in 2 .. i /\ ~(j <= j - 1) /\ j > 2
    BY <1>1, <2>2, <2>3
  <2>5. j - 1 \notin Off
    BY <2>1, <2>4
  <2>. QED  BY <1>2, <2>2, <2>4, <2>5 DEF LP!Fits
<1>. QED  BY <1>1, <1>3, <1>4

\* A stage at its end stays there until it is closed.
LEMMA StaysAtEnd ==
    ASSUME IInv, NEW i \in Stage, StageStep(i), state[i] = "kEof", Calm'
    PROVE  state'[i] = "kEof"
<1>1. /\ DOMAIN state = Stage /\ i \in Nat
      /\ pc[i] \in {"opening", "draining", "rollback"} => state[i] = "kUnopened"
      /\ pc[i] = "pulling" => state[i] = "kOpen"
  <2>1. pc[i] # "idle" => i > 1
    BY Waits DEF IInv
  <2>. QED  BY Waits, NAssumption DEF IInv, LP!IInv, LP!TypeOK, LP!Stage, Stage
<1>2. GetNextEof(i) \/ CloseCall(i) \/ CloseReturn(i)
  BY <1>1 DEF StageStep, OpenCall, OpenReturn, ChildFailedOpen, DrainRow, DrainThrows, SortBuffer,
     SortThrows, RollbackReturn, GetNextRow, GetNextPull, Pulled, FilterPass, FilterDrop, FilterThrows,
     ProjectPass, LimitPass, PullEof, PullFailed
<1>. QED  BY <1>1, <1>2 DEF GetNextEof, CloseCall, CloseReturn, Release, Enter, Return, CallChild, Calm

\* Why the stage that moves is at its end.
LEMMA StageEnds ==
    ASSUME IInv, Foretold, NEW i \in Stage, i > 1, Ended(i), StageStep(i)
    PROVE  Ended(i)'
<1>. SUFFICES ASSUME Calm', Going(i)'
              PROVE  /\ Blocking(i)' => state'[i - 1] = "kEof"
                     /\ state'[i] = "kEof" /\ ~Blocking(i)' =>
                           \/ state'[i - 1] = "kEof"
                           \/ (Op(i) = "Limit" /\ emitted[i] >= plan[i].limit)'
  BY DEF Ended
<1>1. /\ MovesOnly(i) /\ Calm /\ i \in Nat /\ i - 1 \in Stage /\ UNCHANGED plan
      /\ DOMAIN state = Stage /\ (Blocking(i)' <=> Blocking(i))
  BY Moves, Before, NeverCalmAgain DEF IInv
<1>2. state'[i - 1] = state[i - 1] /\ i - 1 # i
  BY <1>1 DEF MovesOnly
<1>3. at = i - 1 /\ msg = "kEof" => state[i - 1] = "kEof"
  BY DEF Foretold, Story, Told
<1>4. state'[i] # "kClosed" /\ state'[i] # "kUnopened"
  BY DEF Going
<1>5. /\ pc[i] \in {"draining", "rollback", "opening"} => state[i] = "kUnopened"
      /\ pc[i] = "pulling" => state[i] = "kOpen"
      /\ pc[i] = "draining" => Blocking(i)
      /\ pc[i] = "pulling" => ~Blocking(i)
  BY Waits DEF IInv, ByKind
<1>6. CASE OpenReturn(i)
  BY <1>1, <1>4, <1>5, <1>6 DEF OpenReturn, Enter
<1>7. CASE SortBuffer(i)
  BY <1>1, <1>2, <1>3, <1>5, <1>7 DEF SortBuffer, ChildGave
<1>8. CASE PullEof(i)
  BY <1>1, <1>2, <1>3, <1>5, <1>8 DEF PullEof, ChildGave
<1>9. CASE GetNextEof(i)
  <2>1. /\ emitted' = emitted /\ Going(i)
        /\ \/ state[i] = "kEof" \/ Blocking(i)
           \/ Op(i) = "Limit" /\ emitted[i] >= plan[i].limit
    BY <1>1, <1>9 DEF GetNextEof, GetNext, Going, data
  <2>. QED  BY <1>1, <1>2, <2>1 DEF Ended, Op
<1>10. CASE state'[i] = state[i] /\ (state[i] = "kOpen" \/ emitted' = emitted)
  <2>1. Going(i)
    BY <1>10 DEF Going
  <2>. QED  BY <1>1, <1>2, <1>10, <2>1 DEF Ended, Op
<1>11. CASE \/ OpenCall(i) \/ ChildFailedOpen(i) \/ DrainRow(i) \/ DrainThrows(i) \/ SortThrows(i)
            \/ RollbackReturn(i) \/ GetNextRow(i) \/ GetNextPull(i)
  BY <1>1, <1>4, <1>10, <1>11
     DEF OpenCall, ChildFailedOpen, DrainRow, DrainThrows, SortThrows, RollbackReturn, GetNextRow,
         GetNextPull, GetNext, RollBack, Release, Enter, data
<1>12. CASE \/ FilterPass(i) \/ FilterDrop(i) \/ FilterThrows(i) \/ ProjectPass(i) \/ LimitPass(i)
            \/ PullFailed(i)
  BY <1>5, <1>10, <1>12
     DEF FilterPass, FilterDrop, FilterThrows, ProjectPass, LimitPass, PullFailed, Pulled, data
<1>13. ~(CloseReturn(i))
  BY <1>1, <1>4 DEF CloseReturn, Release, Enter
<1>14. CASE CloseCall(i)
  BY <1>1, <1>4, <1>14 DEF CloseCall, Called, Calm
<1>. QED  BY <1>6, <1>7, <1>8, <1>9, <1>11, <1>12, <1>13, <1>14 DEF StageStep

\* Which limits may end a query, and what fills them, is settled by the plan and the
\* table.
LEMMA LimitsStay ==
    ASSUME UNCHANGED <<plan, table>>
    PROVE  /\ FirstLimits' = FirstLimits
           /\ \A i \in Stage : FillsLimit(i)' = FillsLimit(i)
BY DEF FirstLimits, FillsLimit, Op, Blocking

\* A limit is over another stage, and full of rows from the beginning of the table.
LEMMA LimitHolds ==
    ASSUME IInv, NEW i \in FirstLimits
    PROVE  /\ i \in Stage /\ i > 1 /\ i \in Nat /\ Op(i) = "Limit" /\ plan[i].limit \in Nat
           /\ \A j \in 1 .. i : j \in Stage /\ j \in Nat /\ ~Blocking(j) /\ (j > 1 => j - 1 \in 1 .. i)
           /\ PullsOf(i) /\ FillsLimit(i) \subseteq 0 .. Len(table)
<1>1. i \in Stage /\ Op(i) = "Limit" /\ plan \in Plans /\ i \in Nat /\ i > 0 /\ i <= N /\ N \in Nat
  BY NAssumption DEF FirstLimits, IInv, Stage
<1>2. i > 1
  BY <1>1, PlansAssumption DEF Op
<1>3. \A j \in 1 .. i : j \in Stage /\ j \in Nat /\ ~Blocking(j) /\ (j > 1 => j - 1 \in 1 .. i)
  BY <1>1 DEF FirstLimits, Stage
<1>. QED  BY <1>1, <1>2, <1>3, PlanHolds DEF IInv, Pulls, FillsLimit

\* Before the scan gives out a row no limit over it is full.
LEMMA NotFullYet ==
    ASSUME IInv, Foretold, at = 1, msg = "getNext", NEW i \in FirstLimits
    PROVE  stats[1].rows_out \notin FillsLimit(i)
<1>1. /\ i \in Stage /\ i > 1 /\ i \in Nat /\ Op(i) = "Limit" /\ plan[i].limit \in Nat
      /\ \A j \in 1 .. i : j \in Stage /\ j \in Nat /\ ~Blocking(j) /\ (j > 1 => j - 1 \in 1 .. i)
      /\ PullsOf(i) /\ i \in 1 .. i /\ 1 \in 1 .. i /\ 2 \in 2 .. i
  BY LimitHolds
<1>2. \A j \in 2 .. i : pc[j] = "pulling" /\ state[j] = "kOpen"
  <2>1. \A j \in 2 .. i : pc[j] = "pulling" /\ j \in Stage
    BY <1>1, AskedFromAbove
  <2>. QED  BY <2>1, Waits DEF IInv
<1>3. Going(1)
  <2>1. LP!ChildOf(2) /\ pc[2] = "pulling"
    BY <1>1, <1>2 DEF IInv, LP!IInv, LP!Child, LP!Stage, Stage
  <2>. QED  BY <2>1 DEF LP!ChildOf, Going
<1>4. PICK o, f, w : Story(o, f, w)
  BY DEF Foretold
<1>5. ASSUME NEW j \in 1 .. i PROVE Chosen(o, f, j) /\ Progress(o, j) /\ ~Blocking(j)
  <2>1. Going(j)
    <3>1. j = 1 \/ j \in 2 .. i
      BY <1>1
    <3>. QED  BY <1>2, <1>3, <3>1 DEF Going
  <2>. QED  BY <1>1, <1>4, <2>1 DEF Story, StageForetold, Calm
<1> DEFINE n == stats[1].rows_out
           s == SubSeq(o[i].rows, 1, stats[i].rows_out)
<1>6. /\ Outcomes(SubSeq(plan, 1, i), SubSeq(table, 1, n)) = {Yields(s)}
      /\ Len(s) = stats[i].rows_out
  BY <1>1, <1>4, <1>5, BeginningMeans
<1>7. stats[i].rows_out = emitted[i] /\ emitted[i] < plan[i].limit /\ emitted[i] \in Nat
  <2>1. pc[i] = "pulling" /\ Streams(o, i)
    BY <1>1, <1>2, <1>5 DEF Progress
  <2>. QED  BY <1>1, <2>1 DEF Streams, PullsOf
<1>8. Yields(s).rows = s
  BY DEF Yields
<1>. HIDE DEF n, s
<1>9. n \notin FillsLimit(i)
  BY <1>1, <1>6, <1>7, <1>8 DEF FillsLimit
<1>. QED  BY <1>9 DEF n

\* The scan counts a row when it is asked for one, and by then the query has not ended.
LEMMA ScanGives ==
    ASSUME IInv, NEW i \in Stage, StageStep(i), stats'[1].rows_out # stats[1].rows_out
    PROVE  /\ at = 1 /\ msg = "getNext" /\ caller \notin {"leaving", "done"}
           /\ stats'[1].rows_out = stats[1].rows_out + 1
<1>1. MovesOnly(i) /\ Tallied(i) /\ 1 \in Stage /\ N \in Stage /\ at \in Stage /\ at # 0 /\ N \in Nat /\ N > 0
  BY Moves, Tally, NAssumption DEF IInv, LP!IInv, LP!TypeOK, LP!Stage, Stage
<1>2. i = 1
  BY <1>1 DEF MovesOnly
<1>3. at' = 1 /\ msg' = "kAdvanced" /\ stats'[1].rows_out = stats[1].rows_out + 1
  BY <1>1, <1>2 DEF Tallied, Plus
<1>4. GetNextRow(1)
  BY <1>1, <1>2, <1>3, RowFromSomewhere DEF IInv
<1>5. at = 1 /\ msg = "getNext"
  BY <1>4 DEF GetNextRow, GetNext, Called
<1>6. caller \notin {"leaving", "done"}
  <2>1. CASE N = 1
    BY <1>5, <2>1 DEF IInv, Owner, Finished
  <2>2. CASE N # 1
    <3>1. pc[N] \in {"opening", "draining", "pulling"}
      BY <1>1, <1>5, <2>2, AskedFromAbove
    <3>. QED  BY <1>5, <2>2, <3>1 DEF IInv, Owner, Finished
  <2>. QED  BY <2>1, <2>2
<1>. QED  BY <1>3, <1>5, <1>6

\* A step of a stage does not take the scan past a full limit, nor end the query early.
LEMMA StageKeepsExamining ==
    ASSUME IInv, Foretold, Examining, NEW i \in Stage, StageStep(i)
    PROVE  Examining'
<1>1. MovesOnly(i) /\ UNCHANGED <<plan, table>> /\ caller' = caller
  BY Moves DEF IInv, MovesOnly
<1>2. /\ FirstLimits' = FirstLimits
      /\ \A j \in Stage : FillsLimit(j)' = FillsLimit(j)
  BY <1>1, LimitsStay
<1>3. ASSUME NEW j \in Stage, j > 1 PROVE Ended(j)'
  <2>1. CASE j = i
    BY <1>3, <2>1, StageEnds DEF Examining
  <2>2. CASE j # i
    <3>. SUFFICES ASSUME Calm', Going(j)'
                  PROVE  /\ Blocking(j)' => state'[j - 1] = "kEof"
                         /\ state'[j] = "kEof" /\ ~Blocking(j)' =>
                              \/ state'[j - 1] = "kEof"
                              \/ (Op(j) = "Limit" /\ emitted[j] >= plan[j].limit)'
      BY DEF Ended
    <3>1. /\ state'[j] = state[j] /\ emitted'[j] = emitted[j] /\ j - 1 \in Stage /\ Calm
          /\ (Blocking(j)' <=> Blocking(j)) /\ plan' = plan
      BY <1>1, <1>3, <2>2, NeverCalmAgain, NAssumption DEF MovesOnly, Stage, Blocking, Op
    <3>2. Ended(j) /\ Going(j)
      BY <1>3, <3>1 DEF Examining, Going
    <3>3. state[j - 1] = "kEof" => state'[j - 1] = "kEof"
      <4>1. CASE j - 1 = i
        BY <4>1, StaysAtEnd
      <4>2. CASE j - 1 # i
        BY <1>1, <3>1, <4>2 DEF MovesOnly
      <4>. QED  BY <4>1, <4>2
    <3>. QED  BY <3>1, <3>2, <3>3 DEF Ended, Op
  <2>. QED  BY <2>1, <2>2
<1>4. NothingSpare'
  <2>1. ASSUME NEW l \in FirstLimits, NEW n \in FillsLimit(l) PROVE stats'[1].rows_out <= n
    <3>1. stats[1].rows_out <= n
      BY DEF Examining, NothingSpare
    <3>2. CASE stats'[1].rows_out = stats[1].rows_out
      BY <3>1, <3>2
    <3>3. CASE stats'[1].rows_out # stats[1].rows_out
      <4>1. at = 1 /\ msg = "getNext" /\ stats'[1].rows_out = stats[1].rows_out + 1
        BY <3>3, ScanGives
      <4>2. stats[1].rows_out # n
        BY <4>1, NotFullYet
      <4>3. n \in Int /\ stats[1].rows_out \in Nat
        BY <1>1, NAssumption DEF FillsLimit, IInv, Ledger, Counters, Stage
      <4>. QED  BY <3>1, <4>1, <4>2, <4>3
    <3>. QED  BY <3>2, <3>3
  <2>2. \A l \in FirstLimits : l \in Stage
    BY DEF FirstLimits
  <2>. QED  BY <1>2, <2>1, <2>2 DEF NothingSpare
<1>5. caller' \in {"leaving", "done"} => Enough'
  <2>. SUFFICES ASSUME caller \in {"leaving", "done"} PROVE Enough'
    BY <1>1
  <2>1. stats'[1].rows_out = stats[1].rows_out
    BY ScanGives
  <2>2. \A l \in FirstLimits : l \in Stage
    BY DEF FirstLimits
  <2>. QED  BY <1>1, <1>2, <2>1, <2>2 DEF Examining, Enough
<1>. QED  BY <1>3, <1>4, <1>5 DEF Examining

\* While the root is open and nothing waits, every stage is open.
LEMMA AllGoing ==
    ASSUME IInv, at = N, Going(N)
    PROVE  \A i \in Stage : Going(i) /\ pc[i] = "idle"
<1>1. /\ N \in Stage /\ N \in Nat /\ \A i \in Stage : pc[i] = "idle" /\ i \in Nat /\ i <= N
      /\ \A i \in Stage : i # N => i + 1 \in Stage /\ i + 1 > 1 /\ (i + 1) - 1 = i
  BY NAssumption DEF IInv, LP!IInv, LP!Stack, LP!Stage, Stage
<1> DEFINE Odd == {i \in Stage : ~Going(i)}
<1>2. Odd = {}
  <2>. SUFFICES ASSUME Odd # {} PROVE FALSE
    OBVIOUS
  <2>1. PICK i \in Odd : \A j \in Odd : j <= i
    <3>1. Odd \in SUBSET Int /\ IsFiniteSet(Odd)
      <4>1. Odd \subseteq 1 .. N
        BY DEF Stage
      <4>. QED  BY <1>1, <4>1, FS_Interval, FS_Subset
    <3>. QED  BY <3>1, LeastAndGreatest
  <2>2. i \in Stage /\ i # N /\ ~Going(i)
    OBVIOUS
  <2>3. i + 1 \in Stage /\ ~(i + 1 <= i) /\ LP!ChildOf(i + 1) /\ pc[i + 1] = "idle"
    BY <1>1, <2>2 DEF IInv, LP!IInv, LP!Child, LP!Stage, Stage
  <2>4. Going(i + 1)
    BY <2>1, <2>3
  <2>5. state[i] \in {"kUnopened", "kOpen", "kEof", "kClosed"}
    BY <2>2 DEF IInv, LP!IInv, LP!TypeOK, LP!LifecycleState, LP!Stage, Stage
  <2>. QED  BY <1>1, <2>2, <2>3, <2>4, <2>5 DEF LP!ChildOf, Going
<1>. QED  BY <1>1, <1>2

\* The root is at its end because the lowest stage at its end is: the scan, or a limit
\* that is full.
LEMMA EndsForReason ==
    ASSUME IInv, Foretold, Examining, at = N, msg = "kEof"
    PROVE  Enough
<1>1. PICK o, f, w : Story(o, f, w)
  BY DEF Foretold
<1>2. /\ N \in Stage /\ N \in Nat /\ 1 \in Stage /\ Calm
      /\ \A i \in Stage : i \in Nat /\ (i > 1 => i - 1 \in Stage)
  BY NAssumption DEF Calm, Stage
<1>3. state[N] = "kEof"
  BY <1>1 DEF Story, Told
<1>4. \A i \in Stage : Going(i) /\ Chosen(o, f, i) /\ Progress(o, i)
  <2>1. \A i \in Stage : Going(i)
    BY <1>3, AllGoing DEF Going
  <2>. QED  BY <1>1, <1>2, <2>1 DEF Story, StageForetold
<1> DEFINE AtEof == {i \in Stage : state[i] = "kEof"}
<1>5. PICK m \in AtEof : \A i \in AtEof : m <= i
  <2>1. AtEof \in SUBSET (1 .. N) /\ AtEof # {}
    BY <1>2, <1>3 DEF Stage
  <2>. QED  BY <1>2, <2>1, LeastPlace
<1>6. m \in Stage /\ m \in Nat /\ state[m] = "kEof"
  BY <1>2
<1>7. CASE m = 1
  <2>1. stats[1].rows_out = Len(o[1].rows)
    BY <1>2, <1>4, <1>6, <1>7 DEF Progress, AtEnd
  <2>2. o[1] = Yields(table)
    <3>1. f[1] = {Yields(table)} /\ o[1] \in f[1]
      BY <1>1, <1>2, <1>4, Scripted DEF Story, Chosen
    <3>. QED  BY <3>1
  <2>. QED  BY <2>1, <2>2 DEF Enough, Yields
<1>8. CASE m # 1
  <2>1. m > 1 /\ m - 1 \in Stage /\ ~(m <= m - 1)
    BY <1>2, <1>6, <1>8 DEF Stage
  <2>2. state[m - 1] # "kEof"
    BY <1>5, <2>1
  <2>3. ~Blocking(m) /\ Op(m) = "Limit" /\ emitted[m] >= plan[m].limit
    BY <1>2, <1>4, <1>6, <2>1, <2>2 DEF Examining, Ended
  <2>4. ASSUME NEW j \in 1 .. m PROVE j \in Stage /\ ~Blocking(j)
    <3>1. j \in Stage /\ j \in Nat /\ j <= m
      BY <1>2, <1>6 DEF Stage
    <3>2. CASE j = 1
      BY <1>2, <3>2, PlansAssumption DEF IInv, Blocking, Op
    <3>3. CASE j = m
      BY <2>3, <3>3
    <3>4. CASE j > 1 /\ j # m
      <4>1. j - 1 \in Stage /\ ~(m <= j - 1)
        BY <1>2, <1>6, <3>1, <3>4
      <4>2. state[j - 1] # "kEof"
        BY <1>5, <4>1
      <4>. QED  BY <1>2, <1>4, <3>1, <3>4, <4>2 DEF Examining, Ended
    <3>. QED  BY <3>1, <3>2, <3>3, <3>4 DEF Stage
  <2>5. m \in FirstLimits
    BY <1>6, <2>3, <2>4 DEF FirstLimits
  <2>6. \A j \in 1 .. m : Chosen(o, f, j) /\ Progress(o, j) /\ ~Blocking(j)
    BY <1>4, <2>4
  <2> DEFINE n == stats[1].rows_out
             s == SubSeq(o[m].rows, 1, stats[m].rows_out)
  <2>7. /\ n \in 0 .. Len(table) /\ Len(s) = stats[m].rows_out
        /\ Outcomes(SubSeq(plan, 1, m), SubSeq(table, 1, n)) = {Yields(s)}
    BY <1>1, <1>6, <2>6, BeginningMeans
  <2>8. stats[m].rows_out = plan[m].limit
    <3>1. Streams(o, m)
      BY <1>4, <1>6, <2>1, <2>3 DEF Progress
    <3>2. stats[m].rows_out = emitted[m] /\ emitted[m] <= plan[m].limit
      BY <2>3, <3>1 DEF Streams
    <3>3. plan[m].limit \in Nat /\ emitted[m] \in Nat
      BY <2>5, LimitHolds DEF PullsOf
    <3>. QED  BY <2>3, <3>2, <3>3
  <2>9. Yields(s).rows = s
    BY DEF Yields
  <2>. HIDE DEF n, s
  <2>10. n \in FillsLimit(m)
    BY <2>7, <2>8, <2>9 DEF FillsLimit
  <2>. QED  BY <2>5, <2>10 DEF Enough, n
<1>. QED  BY <1>7, <1>8

\* runPipeline() ends a query only where there is a reason to.
LEMMA GuardKeepsExamining ==
    ASSUME IInv, Foretold, Examining, GuardStep
    PROVE  Examining'
<1>. USE DEF RootGave, CallRoot
<1>1. /\ UNCHANGED <<plan, table, state, stats, emitted>> /\ at = N
      /\ caller' \in {"leaving", "done"} => caller = "leaving" \/ msg = "kEof"
  BY DEF IInv, GuardStep, GuardOpens, GuardOpened, GuardFails, FetchRow, FetchEof, FetchFails,
     GuardCloses, task, data, control, Owner, Finished
<1>2. Calm' => Calm
  BY <1>1 DEF Calm, GuardStep, GuardOpens, GuardOpened, GuardFails, FetchRow, FetchEof, FetchFails,
     GuardCloses, IInv, Owner, control
<1>3. /\ FirstLimits' = FirstLimits /\ \A l \in FirstLimits : l \in Stage
      /\ \A j \in Stage : FillsLimit(j)' = FillsLimit(j)
  BY <1>1, LimitsStay DEF FirstLimits
<1>4. ASSUME NEW j \in Stage, j > 1 PROVE Ended(j)'
  <2>1. Ended(j)
    BY <1>4 DEF Examining
  <2>. QED  BY <1>1, <1>2, <2>1 DEF Ended, Going, Blocking, Op
<1>5. NothingSpare'
  BY <1>1, <1>3 DEF Examining, NothingSpare
<1>6. caller' \in {"leaving", "done"} => Enough'
  <2>1. Enough => Enough'
    BY <1>1, <1>3 DEF Enough
  <2>. QED  BY <1>1, <2>1, EndsForReason DEF Examining
<1>. QED  BY <1>4, <1>5, <1>6 DEF Examining

\* Nothing is examined before the plan is open.
LEMMA InitExamining == Init => Examining
<1>. SUFFICES ASSUME Init PROVE Examining
  OBVIOUS
<1>1. \A i \in Stage : ~Going(i)
  BY DEF Init, Going
<1>2. stats[1].rows_out = 0 /\ caller = "start" /\ 1 \in Stage
  BY NAssumption DEF Init, Stage
<1>3. NothingSpare
  BY <1>2 DEF NothingSpare, FillsLimit
<1>. QED  BY <1>1, <1>2, <1>3 DEF Examining, Ended

\* Every step examines just what it must.
LEMMA NextExamining == IInv /\ Foretold /\ Examining /\ [Next]_vars => Examining'
<1>. SUFFICES ASSUME IInv, Foretold, Examining, [Next]_vars PROVE Examining'
  OBVIOUS
<1>1. ASSUME NEW i \in Stage, StageStep(i) PROVE Examining'
  BY <1>1, StageKeepsExamining
<1>2. CASE GuardStep
  BY <1>2, GuardKeepsExamining
<1>3. CASE UNCHANGED vars
  <2>. USE <1>3 DEF vars, task, control, data
  <2>1. /\ FirstLimits' = FirstLimits /\ \A l \in FirstLimits : l \in Stage
        /\ \A j \in Stage : FillsLimit(j)' = FillsLimit(j)
    BY LimitsStay DEF FirstLimits
  <2>2. ASSUME NEW j \in Stage, j > 1 PROVE Ended(j)'
    <3>1. Ended(j)
      BY <2>2 DEF Examining
    <3>. QED  BY <3>1 DEF Ended, Calm, Going, Blocking, Op
  <2>3. NothingSpare' /\ (Enough => Enough')
    BY <2>1 DEF Examining, NothingSpare, Enough
  <2>. QED  BY <2>2, <2>3 DEF Examining
<1>. QED  BY <1>1, <1>2, <1>3 DEF Next, Over, GuardStep

\* documentsExamined is just what the answer takes: the scan stops where the first
\* streaming limit over it is full, or else at the end of the table, and not a row later
\* (limit_stage.cpp:16-31, query_facade.cpp:90-91).
THEOREM ExaminesNoMore == Spec => []ExaminesJustEnough
<1>1. Init => Examining
  BY InitExamining
<1>2. IInv /\ Foretold /\ Examining /\ [Next]_vars => Examining'
  BY NextExamining
<1>3. IInv /\ Foretold /\ Examining => ExaminesJustEnough
  <2>. SUFFICES ASSUME IInv, Foretold, Examining, caller = "done"
                PROVE  /\ stats[1].rows_out = Min({Len(table)} \cup UNION {FillsLimit(i) : i \in FirstLimits})
                       /\ Len(result) = stats[N].rows_out
    BY DEF ExaminesJustEnough, DocumentsExamined, DocumentsReturned, FirstLimits
  <2>1. PICK o, f, w : Story(o, f, w)
    BY DEF Foretold
  <2>2. Len(result) = stats[N].rows_out
    BY <2>1 DEF Story, Collected
  <2>3. Len(table) \in Nat /\ \A i \in FirstLimits : FillsLimit(i) \subseteq 0 .. Len(table)
    <3>1. AreRows(table, w[1])
      BY <2>1 DEF Story, Script
    <3>. QED  BY <3>1, RowsListed DEF FillsLimit
  <2> DEFINE S == {Len(table)} \cup UNION {FillsLimit(i) : i \in FirstLimits}
             t == stats[1].rows_out
  <2>4. S \subseteq 0 .. Len(table) /\ Len(table) \in S
    BY <2>3
  <2>5. t \in S
    <3>1. Enough
      BY DEF Examining
    <3>. QED  BY <3>1 DEF Enough
  <2>6. \A x \in S : t <= x
    <3>1. \A x \in 0 .. Len(table) : x <= Len(table)
      BY <2>3
    <3>2. \A x \in S \ {Len(table)} : t <= x
      BY DEF Examining, NothingSpare
    <3>3. t <= Len(table)
      BY <2>4, <2>5, <3>1
    <3>. QED  BY <3>2, <3>3
  <2>. HIDE DEF S, t
  <2>7. S \subseteq Int /\ Min(S) \in S /\ \A x \in S : Min(S) <= x
    <3>1. IsFiniteSet(0 .. Len(table))
      BY <2>3, FS_Interval
    <3>2. IsFiniteSet(S)
      BY <2>4, <3>1, FS_Subset
    <3>3. S \in SUBSET Int /\ S # {}
      BY <2>4
    <3>. QED  BY <3>2, <3>3, LeastAndGreatest
  <2>8. t = Min(S)
    <3>1. t <= Min(S) /\ Min(S) <= t
      BY <2>5, <2>6, <2>7
    <3>2. t \in Int /\ Min(S) \in Int
      BY ONLY <2>5, <2>7
    <3>. QED  BY <3>1, <3>2
  <2>. QED  BY <2>2, <2>8 DEF S, t
<1>. QED  BY <1>1, <1>2, <1>3, AllForetold, PTL DEF Spec
==============================================================================
