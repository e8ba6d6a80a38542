------------------------- MODULE BotPipelineProofs -------------------------
(***************************************************************************)
(* Proofs about BotPipeline, for any numbers of events, instances, runs,   *)
(* crashes and failed Redis commands: types, the invariant of windows and  *)
(* lock, the refinement of OnceOnlyWindows, and what a run may send and    *)
(* with which configuration.                                               *)
(***************************************************************************)
EXTENDS BotPipeline, SequenceTheorems, TLAPS

-----------------------------------------------------------------------------
(* Type correctness *)

\* The initial state is well typed.
LEMMA InitTypeOK == Init => TypeOK
  <1> SUFFICES ASSUME Init PROVE TypeOK
    OBVIOUS
  <1> USE BoundsAssumption
  <1>1. RedisTypeOK BY DEF Init, RedisTypeOK, Stages
  <1>2. MemTypeOK BY DEF Init, MemTypeOK, Phases
  <1>3. ProcTypeOK BY DEF Init, ProcTypeOK, ProcPCs, ProcHolds
  <1>4. PollTypeOK BY DEF Init, PollTypeOK, PollPCs, Seen, NothingSeen
  <1>5. RunTypeOK BY DEF Init, RunTypeOK, RunPCs, Runs
  <1> QED BY <1>1, <1>2, <1>3, <1>4, <1>5 DEF Init, TypeOK

\* What a run launched by LaunchAIStage is.
LEMMA LaunchTypeOK ==
    ASSUME RunTypeOK, NEW i \in Instances, entries[i] \in Ctxs \cup {None},
           NEW win \in Events \cup {None}, NEW prompt \in SUBSET Events,
           LaunchAIStage(i, win, prompt)
    PROVE  RunTypeOK'
  <1> USE BoundsAssumption DEF RunTypeOK, LaunchAIStage, Runs
  <1>1. CASE entries[i] = None
    BY <1>1 DEF runVars
  <1>2. CASE entries[i] # None
    <2> DEFINE j == [ctx |-> entries[i], at |-> i, win |-> win, prompt |-> prompt]
    <2>1. j \in Job BY <1>2 DEF Job
    <2>2. launches' \in 0..MaxRuns /\ launches + 1 \in 1..MaxRuns BY <1>2
    <2>3. run' \in [1..MaxRuns -> RunPCs] BY <1>2, <2>2 DEF RunPCs
    <2> HIDE DEF j
    <2>4. job' = [job EXCEPT ![launches + 1] = j] BY <1>2 DEF j
    <2>5. job' \in [1..MaxRuns -> Job \cup {None}] BY <2>1, <2>2, <2>4
    <2>6. \A r \in 1..MaxRuns : run'[r] # "idle" <=> r <= launches' BY <1>2, <2>2
    <2>7. \A r \in 1..MaxRuns : r <= launches' => job'[r] \in Job BY <1>2, <2>1, <2>2, <2>4
    <2> QED BY <1>2, <2>2, <2>3, <2>5, <2>6, <2>7
  <1> QED BY <1>1, <1>2

\* Steps of Process keep the types.
LEMMA ProcessTypeOK == \A ev \in Events : TypeOK /\ Process(ev) => TypeOK'
  <1> SUFFICES ASSUME NEW ev \in Events, TypeOK, Process(ev) PROVE TypeOK'
    OBVIOUS
  <1> USE BoundsAssumption, NamesAssumption DEF redisVars, memVars, procVars, pollVars, runVars, TypeOK,
          Outcomes, Answer, Fault, SetState, Applied
  <1>a. at[ev] \in Instances \/ proc[ev] \notin {"lock"} \cup ProcHolds
    BY DEF ProcTypeOK
  <1>b. OwnCtx(ev) \in Ctxs
    BY DEF OwnCtx, Ctxs
  <1>1. CASE ProcLock(ev)
    <2> USE <1>1 DEF ProcLock, AcquireLock, LockFailed
    <2>1. RedisTypeOK' BY DEF RedisTypeOK
    <2>2. ProcTypeOK' BY DEF ProcTypeOK, ProcGoto, ProcPCs, ProcHolds, ProcEnds
    <2> QED BY <2>1, <2>2 DEF MemTypeOK, PollTypeOK, RunTypeOK
  <1>2. CASE ProcRead(ev)
    <2> USE <1>2 DEF ProcRead
    <2>2. ProcTypeOK' BY DEF ProcTypeOK, ProcGoto, ProcPCs, ProcHolds, ProcEnds, Route
    <2> QED BY <2>2 DEF RedisTypeOK, MemTypeOK, PollTypeOK, RunTypeOK
  <1>3. CASE ProcCancelPair(ev)
    <2> USE <1>3 DEF ProcCancelPair, CancelPair
    <2>1. MemTypeOK' BY <1>a DEF MemTypeOK, ProcHolds
    <2>2. ProcTypeOK' BY DEF ProcTypeOK, ProcGoto, ProcPCs, ProcHolds, ProcEnds
    <2> QED BY <2>1, <2>2 DEF RedisTypeOK, PollTypeOK, RunTypeOK
  <1>4. CASE ProcClear(ev)
    <2> USE <1>4 DEF ProcClear, ClearState
    <2>1. RedisTypeOK' BY DEF RedisTypeOK, Stages
    <2>2. ProcTypeOK' BY DEF ProcTypeOK, ProcGoto, ProcPCs, ProcHolds, ProcEnds
    <2> QED BY <2>1, <2>2 DEF MemTypeOK, PollTypeOK, RunTypeOK
  <1>5. CASE ProcOpen(ev)
    <2> USE <1>5 DEF ProcOpen, AppendToBuffer, OrAbandon
    <2>1. RedisTypeOK' BY DEF RedisTypeOK
    <2>2. MemTypeOK' BY <1>a, <1>b DEF MemTypeOK, ProcHolds
    <2>3. ProcTypeOK' BY DEF ProcTypeOK, ProcGoto, ProcPCs, ProcHolds, ProcEnds
    <2> QED BY <2>1, <2>2, <2>3 DEF PollTypeOK, RunTypeOK
  <1>6. CASE ProcTimer(ev)
    <2> USE <1>6 DEF ProcTimer, SetTimer, OrAbandon
    <2>1. RedisTypeOK' BY DEF RedisTypeOK
    <2>2. MemTypeOK' BY <1>a, <1>b DEF MemTypeOK, ProcHolds
    <2>3. ProcTypeOK' BY DEF ProcTypeOK, ProcGoto, ProcPCs, ProcHolds, ProcEnds
    <2> QED BY <2>1, <2>2, <2>3 DEF PollTypeOK, RunTypeOK
  <1>7. CASE ProcWindow(ev)
    <2> USE <1>7 DEF ProcWindow, OrAbandon
    <2>1. RedisTypeOK' BY DEF RedisTypeOK, Stages
    <2>2. MemTypeOK' BY <1>a, <1>b DEF MemTypeOK, ProcHolds
    <2>3. ProcTypeOK' BY DEF ProcTypeOK, ProcGoto, ProcPCs, ProcHolds, ProcEnds
    <2> QED BY <2>1, <2>2, <2>3 DEF PollTypeOK, RunTypeOK
  <1>8. CASE ProcGrab(ev)
    <2> USE <1>8 DEF ProcGrab, OrAbandon
    <2>2. MemTypeOK' BY <1>a, <1>b DEF MemTypeOK, ProcHolds
    <2>3. ProcTypeOK' BY DEF ProcTypeOK, RedisTypeOK, ProcGoto, ProcPCs, ProcHolds, ProcEnds
    <2> QED BY <2>2, <2>3 DEF RedisTypeOK, PollTypeOK, RunTypeOK
  <1>9. CASE ProcSkip(ev)
    <2> USE <1>9 DEF ProcSkip, OrAbandon
    <2>1. RedisTypeOK' BY DEF RedisTypeOK, Stages
    <2>2. MemTypeOK' BY <1>a, <1>b DEF MemTypeOK, ProcHolds
    <2>3. ProcTypeOK' BY DEF ProcTypeOK, ProcGoto, ProcPCs, ProcHolds, ProcEnds
    <2>4. RunTypeOK'
      <3>1. at[ev] \in Instances BY <1>a DEF ProcHolds
      <3>2. grab[ev] \in SUBSET Events BY DEF ProcTypeOK
      <3>3. entries[at[ev]] \in Ctxs \cup {None} BY <3>1 DEF MemTypeOK
      <3>4. CASE LaunchAIStage(at[ev], ev, grab[ev]) BY <3>1, <3>2, <3>3, <3>4, LaunchTypeOK
      <3>5. CASE UNCHANGED runVars BY <3>5 DEF RunTypeOK
      <3> QED BY <3>4, <3>5
    <2> QED BY <2>1, <2>2, <2>3, <2>4 DEF PollTypeOK
  <1>10. CASE ProcAppend(ev)
    <2> USE <1>10 DEF ProcAppend, AppendToBuffer
    <2>1. RedisTypeOK' BY DEF RedisTypeOK
    <2>2. ProcTypeOK' BY DEF ProcTypeOK, ProcGoto, ProcPCs, ProcHolds, ProcEnds
    <2> QED BY <2>1, <2>2 DEF MemTypeOK, PollTypeOK, RunTypeOK
  <1>11. CASE ProcResetTimer(ev)
    <2> USE <1>11 DEF ProcResetTimer, SetTimer
    <2>1. RedisTypeOK' BY DEF RedisTypeOK
    <2>2. ProcTypeOK' BY DEF ProcTypeOK, ProcGoto, ProcPCs, ProcHolds, ProcEnds
    <2> QED BY <2>1, <2>2 DEF MemTypeOK, PollTypeOK, RunTypeOK
  <1>12. CASE ProcUnlock(ev)
    <2> USE <1>12 DEF ProcUnlock, Unlock
    <2>1. RedisTypeOK' BY DEF RedisTypeOK
    <2>2. ProcTypeOK' BY DEF ProcTypeOK, ProcGoto, ProcPCs, ProcHolds, ProcEnds
    <2> QED BY <2>1, <2>2 DEF MemTypeOK, PollTypeOK, RunTypeOK
  <1> QED BY <1>1, <1>2, <1>3, <1>4, <1>5, <1>6, <1>7, <1>8, <1>9, <1>10, <1>11, <1>12 DEF Process

\* Steps of a poller or of a starting instance keep the types.
LEMMA PollerTypeOK == \A i \in Instances : TypeOK /\ (Poller(i) \/ Start(i)) => TypeOK'
  <1> SUFFICES ASSUME NEW i \in Instances, TypeOK, Poller(i) \/ Start(i) PROVE TypeOK'
    OBVIOUS
  <1> USE BoundsAssumption, NamesAssumption DEF redisVars, memVars, procVars, pollVars, runVars, TypeOK,
          Outcomes, Answer, Fault, SetState, Applied
  <1>a. /\ seen[i].ctx \in Ctxs \cup {None} /\ seen[i].win \in Events \cup {None}
        /\ seen[i].prompt \in SUBSET Events
    BY DEF PollTypeOK, Seen
  <1>1. CASE PollEntry(i)
    <2> USE <1>1 DEF PollEntry
    <2>1. PollTypeOK' BY DEF PollTypeOK, MemTypeOK, PollGoto, PollPCs, Seen
    <2> QED BY <2>1 DEF RedisTypeOK, MemTypeOK, ProcTypeOK, RunTypeOK
  <1>2. CASE PollTimer(i)
    <2> USE <1>2 DEF PollTimer
    <2>1. PollTypeOK' BY DEF PollTypeOK, PollGoto, PollPCs
    <2> QED BY <2>1 DEF RedisTypeOK, MemTypeOK, ProcTypeOK, RunTypeOK
  <1>3. CASE PollAcquire(i)
    <2> USE <1>3 DEF PollAcquire, AcquireLock, LockFailed
    <2>1. PollTypeOK' BY DEF PollTypeOK, PollGoto, PollPCs, PollHolds
    <2>2. RedisTypeOK' BY DEF RedisTypeOK
    <2> QED BY <2>1, <2>2 DEF MemTypeOK, ProcTypeOK, RunTypeOK
  <1>4. CASE PollRead(i)
    <2> USE <1>4 DEF PollRead
    <2>1. PollTypeOK' BY DEF PollTypeOK, RedisTypeOK, PollGoto, PollPCs, PollHolds, Seen
    <2> QED BY <2>1 DEF RedisTypeOK, MemTypeOK, ProcTypeOK, RunTypeOK
  <1>5. CASE PollRecheck(i)
    <2> USE <1>5 DEF PollRecheck
    <2>1. PollTypeOK' BY DEF PollTypeOK, PollGoto, PollPCs, PollHolds
    <2> QED BY <2>1 DEF RedisTypeOK, MemTypeOK, ProcTypeOK, RunTypeOK
  <1>6. CASE PollCollect(i)
    <2> USE <1>6 DEF PollCollect
    <2>1. PollTypeOK' BY DEF PollTypeOK, RedisTypeOK, PollGoto, PollPCs, PollHolds, Seen
    <2> QED BY <2>1 DEF RedisTypeOK, MemTypeOK, ProcTypeOK, RunTypeOK
  <1>7. CASE PollAdvance(i)
    <2> USE <1>7 DEF PollAdvance
    <2>1. PollTypeOK' BY DEF PollTypeOK, PollGoto, PollPCs, PollHolds
    <2>2. RedisTypeOK' BY DEF RedisTypeOK, Stages
    <2>3. RunTypeOK'
      <3>1. entries[i] \in Ctxs \cup {None} BY DEF MemTypeOK
      <3>2. CASE LaunchAIStage(i, seen[i].win, seen[i].prompt)
        BY <1>a, <3>1, <3>2, LaunchTypeOK
      <3>3. CASE UNCHANGED runVars BY <3>3 DEF RunTypeOK
      <3> QED BY <3>2, <3>3
    <2> QED BY <2>1, <2>2, <2>3 DEF MemTypeOK, ProcTypeOK
  <1>8. CASE PollUnlock(i)
    <2> USE <1>8 DEF PollUnlock, Unlock
    <2>1. PollTypeOK' BY DEF PollTypeOK, PollGoto, PollPCs
    <2>2. RedisTypeOK' BY DEF RedisTypeOK
    <2> QED BY <2>1, <2>2 DEF MemTypeOK, ProcTypeOK, RunTypeOK
  <1>9. CASE StartScan(i)
    <2> USE <1>9 DEF StartScan
    <2>1. PollTypeOK' BY DEF PollTypeOK, PollGoto, PollPCs
    <2> QED BY <2>1 DEF RedisTypeOK, MemTypeOK, ProcTypeOK, RunTypeOK
  <1>10. CASE StartRecover(i)
    <2> USE <1>10 DEF StartRecover
    <2>1. PollTypeOK' BY DEF PollTypeOK, PollGoto, PollPCs
    <2>2. cfg = None \/ <<cfg, boot[i]>> \in Ctxs BY DEF RedisTypeOK, MemTypeOK, Ctxs
    <2>3. stage = "debounce" => cfg # None BY DEF RedisTypeOK
    <2>4. MemTypeOK' BY <2>2, <2>3 DEF MemTypeOK
    <2> QED BY <2>1, <2>4 DEF RedisTypeOK, ProcTypeOK, RunTypeOK
  <1>11. CASE StartTimer(i)
    <2> USE <1>11 DEF StartTimer
    <2>1. PollTypeOK' BY DEF PollTypeOK, PollGoto, PollPCs
    <2> QED BY <2>1 DEF RedisTypeOK, MemTypeOK, ProcTypeOK, RunTypeOK
  <1>12. CASE StartServing(i)
    <2> USE <1>12 DEF StartServing
    <2>1. MemTypeOK' BY DEF MemTypeOK, Phases
    <2> QED BY <2>1 DEF RedisTypeOK, PollTypeOK, ProcTypeOK, RunTypeOK
  <1> QED BY <1>1, <1>2, <1>3, <1>4, <1>5, <1>6, <1>7, <1>8, <1>9, <1>10, <1>11, <1>12
          DEF Poller, Start

\* Steps of a run keep the types.
LEMMA PipelineTypeOK == \A r \in Runs : TypeOK /\ (Pipeline(r) \/ RunPanic(r)) => TypeOK'
  <1> SUFFICES ASSUME NEW r \in Runs, TypeOK, Pipeline(r) \/ RunPanic(r) PROVE TypeOK'
    OBVIOUS
  <1> USE BoundsAssumption DEF redisVars, memVars, procVars, pollVars, runVars, TypeOK,
          Outcomes, Answer, Fault, SetState, Applied
  <1>a. run[r] # "idle" => r <= launches /\ job[r].at \in Instances
    BY DEF RunTypeOK, Job
  <1>1. CASE RunStart(r)
    <2> USE <1>1 DEF RunStart
    <2>1. RunTypeOK' BY DEF RunTypeOK, RunGoto, RunPCs, RunEnds
    <2> QED BY <2>1 DEF RedisTypeOK, MemTypeOK, ProcTypeOK, PollTypeOK
  <1>2. CASE RunCall(r)
    <2> USE <1>2 DEF RunCall
    <2>1. RunTypeOK' BY DEF RunTypeOK, RunGoto, RunPCs, RunEnds
    <2> QED BY <2>1 DEF RedisTypeOK, MemTypeOK, ProcTypeOK, PollTypeOK
  <1>3. CASE RunReply(r)
    <2> USE <1>3 DEF RunReply
    <2>1. RunTypeOK' BY DEF RunTypeOK, RunGoto, RunPCs, RunEnds
    <2>2. RedisTypeOK' BY DEF RedisTypeOK, Stages
    <2> QED BY <2>1, <2>2 DEF MemTypeOK, ProcTypeOK, PollTypeOK
  <1>4. CASE RunCheck(r)
    <2> USE <1>4 DEF RunCheck
    <2>1. RunTypeOK' BY DEF RunTypeOK, RunGoto, RunPCs, RunEnds
    <2> QED BY <2>1 DEF RedisTypeOK, MemTypeOK, ProcTypeOK, PollTypeOK
  <1>5. CASE RunSend(r)
    <2> USE <1>5 DEF RunSend
    <2>1. RunTypeOK' BY DEF RunTypeOK, RunGoto, RunPCs, RunEnds
    <2> QED BY <2>1 DEF RedisTypeOK, MemTypeOK, ProcTypeOK, PollTypeOK
  <1>6. CASE RunMarkDone(r)
    <2> USE <1>6 DEF RunMarkDone
    <2>1. RunTypeOK' BY DEF RunTypeOK, RunGoto, RunPCs, RunEnds
    <2>2. RedisTypeOK' BY DEF RedisTypeOK, Stages
    <2> QED BY <2>1, <2>2 DEF MemTypeOK, ProcTypeOK, PollTypeOK
  <1>7. CASE RunClearDone(r)
    <2> USE <1>7 DEF RunClearDone, ClearState
    <2>1. RunTypeOK' BY DEF RunTypeOK, RunGoto, RunPCs, RunEnds
    <2>2. RedisTypeOK' BY DEF RedisTypeOK, Stages
    <2> QED BY <2>1, <2>2 DEF MemTypeOK, ProcTypeOK, PollTypeOK
  <1>8. CASE RunDelete(r)
    <2> USE <1>8 DEF RunDelete
    <2>1. RunTypeOK' BY DEF RunTypeOK, RunGoto, RunPCs, RunEnds
    <2>2. MemTypeOK' BY DEF MemTypeOK
    <2> QED BY <2>1, <2>2 DEF RedisTypeOK, ProcTypeOK, PollTypeOK
  <1>9. CASE RunClear(r)
    <2> USE <1>9 DEF RunClear, ClearState
    <2>1. RunTypeOK' BY DEF RunTypeOK, RunGoto, RunPCs, RunEnds
    <2>2. RedisTypeOK' BY DEF RedisTypeOK, Stages
    <2> QED BY <2>1, <2>2 DEF MemTypeOK, ProcTypeOK, PollTypeOK
  <1>10. CASE RunPanic(r)
    <2> USE <1>10 DEF RunPanic
    <2>1. RunTypeOK' BY DEF RunTypeOK, RunGoto, RunPCs
    <2> QED BY <2>1 DEF RedisTypeOK, MemTypeOK, ProcTypeOK, PollTypeOK
  <1> QED BY <1>1, <1>2, <1>3, <1>4, <1>5, <1>6, <1>7, <1>8, <1>9, <1>10 DEF Pipeline


\* Expiries, crashes, restarts and shutdowns keep the types.
LEMMA WorldTypeOK ==
    TypeOK /\ (TimerExpires \/ LockExpires
               \/ \E i \in Instances : Shutdown(i) \/ Exit(i) \/ Crash(i) \/ Restart(i))
        => TypeOK'
  <1> USE BoundsAssumption, NamesAssumption DEF redisVars, memVars, procVars, pollVars, runVars,
          TypeOK
  <1>1. ASSUME TypeOK, TimerExpires PROVE TypeOK'
    BY <1>1 DEF TimerExpires, RedisTypeOK, MemTypeOK, ProcTypeOK, PollTypeOK, RunTypeOK
  <1>2. ASSUME TypeOK, LockExpires PROVE TypeOK'
    BY <1>2 DEF LockExpires, RedisTypeOK, MemTypeOK, ProcTypeOK, PollTypeOK, RunTypeOK
  <1>3. ASSUME TypeOK, NEW i \in Instances, Shutdown(i) PROVE TypeOK'
    <2> USE <1>3 DEF Shutdown, CountStop
    <2>1. MemTypeOK' BY DEF MemTypeOK, Phases
    <2> QED BY <2>1 DEF RedisTypeOK, ProcTypeOK, PollTypeOK, RunTypeOK
  <1>4. ASSUME TypeOK, NEW i \in Instances, Die(i), boot' \in [Instances -> 0..MaxCrashes],
               crashes' \in 0..MaxCrashes
        PROVE TypeOK'
    <2> USE <1>4 DEF Die
    <2>1. MemTypeOK' BY DEF MemTypeOK, Phases
    <2>2. ProcTypeOK' BY DEF ProcTypeOK, ProcPCs, ProcHolds, ProcEnds
    <2>3. PollTypeOK' BY DEF PollTypeOK, PollPCs, Seen, NothingSeen
    <2>4. RunTypeOK' BY DEF RunTypeOK, RunPCs, RunEnds
    <2> QED BY <2>1, <2>2, <2>3, <2>4 DEF RedisTypeOK
  <1>5. ASSUME TypeOK, NEW i \in Instances, Exit(i) PROVE TypeOK'
    BY <1>4, <1>5 DEF Exit, MemTypeOK
  <1>6. ASSUME TypeOK, NEW i \in Instances, Crash(i) PROVE TypeOK'
    BY <1>4, <1>6 DEF Crash, CountStop, MemTypeOK
  <1>7. ASSUME TypeOK, NEW i \in Instances, Restart(i) PROVE TypeOK'
    <2> USE <1>7 DEF Restart
    <2>1. MemTypeOK' BY DEF MemTypeOK, Phases
    <2>2. PollTypeOK' BY DEF PollTypeOK, PollGoto, PollPCs
    <2> QED BY <2>1, <2>2 DEF RedisTypeOK, ProcTypeOK, RunTypeOK
  <1> QED BY <1>1, <1>2, <1>3, <1>5, <1>6, <1>7

\* Accepting or refusing an event keeps the types.
LEMMA HandleEventTypeOK ==
    \A ev \in Events, i \in Instances : TypeOK /\ HandleEvent(ev, i) => TypeOK'
  <1> SUFFICES ASSUME NEW ev \in Events, NEW i \in Instances, TypeOK, HandleEvent(ev, i)
               PROVE  TypeOK'
    OBVIOUS
  <1> USE BoundsAssumption DEF TypeOK, HandleEvent, Outcomes, Answer, Fault, SetState, Applied,
          memVars, pollVars, runVars
  <1>1. RedisTypeOK' BY DEF RedisTypeOK, Stages
  <1>2. ProcTypeOK' BY DEF ProcTypeOK, ProcGoto, ProcPCs, ProcHolds, ProcEnds
  <1> QED BY <1>1, <1>2 DEF MemTypeOK, PollTypeOK, RunTypeOK

\* Every step keeps the types.
LEMMA NextTypeOK == TypeOK /\ [Next]_vars => TypeOK'
  <1> SUFFICES ASSUME TypeOK, [Next]_vars PROVE TypeOK'
    OBVIOUS
  <1>1. CASE Next
    BY <1>1, HandleEventTypeOK, ProcessTypeOK, PollerTypeOK, PipelineTypeOK, WorldTypeOK DEF Next
  <1>2. CASE UNCHANGED vars
    BY <1>2 DEF vars, redisVars, memVars, procVars, pollVars, runVars, TypeOK, RedisTypeOK,
                MemTypeOK, ProcTypeOK, PollTypeOK, RunTypeOK
  <1> QED BY <1>1, <1>2

\* TypeCorrect: every behaviour of the pipeline stays in the states the code
\* can name.
THEOREM TypeCorrect == Spec => []TypeOK
  BY InitTypeOK, NextTypeOK, PTL DEF Spec

-----------------------------------------------------------------------------
(***************************************************************************)
(* While no lock expires under its holder, no debounce window gets a       *)
(* second run: the inductive invariant WindowInv, what follows from it,    *)
(* and the refinement of OnceOnlyWindows.                                  *)
(***************************************************************************)

\* The counters of Process at which a window is being opened.
Opening == ProcHolds \ {"read", "append", "resetTimer", "unlock"}

\* There is no window yet.
LEMMA InitWindowInv == Init => WindowInv
  BY BoundsAssumption DEF Init, WindowInv, LockHeld, ExactlyOnce, WindowFresh, FiredSettled,
         OpeningAlone, AdvanceReady, PromptReady, Launched, ProcHolds, PollHolds

\* The holder of the lock is alone between Lock and Unlock.
LEMMA ProcessAlone ==
    ASSUME TypeOK, LockHeld, NEW ev \in Events, proc[ev] \in ProcHolds
    PROVE  /\ \A e \in Events : proc[e] \in ProcHolds => e = ev
           /\ \A i \in Instances : poll[i] \notin PollHolds
  BY NamesAssumption DEF LockHeld

\* While a poller holds a window, no other one does.
LEMMA PollerAlone ==
    ASSUME TypeOK, LockHeld, NEW i \in Instances, poll[i] \in PollHolds
    PROVE  /\ \A e \in Events : proc[e] \notin ProcHolds
           /\ \A k \in Instances : poll[k] \in PollHolds => k = i
  BY NamesAssumption DEF LockHeld

-----------------------------------------------------------------------------
(* Three kinds of steps *)

\* A step of anyone who does not hold the lock, or gives it up: the open
\* window may close, the buffer shrink and the timer stop, nobody moves on
\* inside the critical section.
LEMMA OutsideStep ==
    ASSUME TypeOK, WindowInv, LockHeld',
           stage' = "debounce" => stage = "debounce" /\ cfg' = cfg,
           buffer' \subseteq buffer, timer' => timer,
           \A e \in Events : proc'[e] \in ProcHolds => proc'[e] = proc[e] /\ grab'[e] = grab[e],
           \A e \in Events : Settled(e) => Settled(e)',
           \A i \in Instances : poll'[i] \in PollHolds => poll'[i] = poll[i] /\ seen'[i] = seen[i],
           UNCHANGED <<launches, job>>
    PROVE  WindowInv'
  <1> USE DEF WindowInv
  <1>1. Fired' = Fired /\ Launched' = Launched BY DEF Fired, Launched
  <1>2. ExactlyOnce' BY DEF ExactlyOnce, Launched
  <1>3. \A e : Fresh(e) => Fresh(e)' BY <1>1 DEF Fresh
  <1>4. WindowFresh' BY <1>3 DEF WindowFresh
  <1>5. FiredSettled' BY <1>1 DEF FiredSettled
  <1>6. OpeningAlone' BY DEF OpeningAlone, ProcHolds
  <1>7. AdvanceReady'
    <2> SUFFICES ASSUME NEW i \in Instances, poll'[i] \in {"recheck", "collect", "advance"}
                 PROVE  /\ Fresh(seen[i].win)'
                        /\ stage' = "debounce" => cfg' = seen'[i].win
                        /\ poll'[i] # "recheck" /\ stage' = "debounce" => ~timer'
      BY DEF AdvanceReady
    <2>1. poll'[i] = poll[i] /\ seen'[i] = seen[i] BY DEF PollHolds
    <2>2. Fresh(seen[i].win) BY <2>1 DEF AdvanceReady
    <2>3. Fresh(seen[i].win)' BY <2>1, <2>2, <1>1 DEF Fresh
    <2> QED BY <2>1, <2>3 DEF AdvanceReady
  <1>8. PromptReady'
    BY DEF PromptReady, ProcHolds, PollHolds
  <1> QED BY <1>2, <1>4, <1>5, <1>6, <1>7, <1>8

\* A step of the Process that holds the lock, from one command to the next.
LEMMA ProcessStep ==
    ASSUME TypeOK, WindowInv, NEW ev \in Events, NEW pc \in ProcHolds,
           proc[ev] \in ProcHolds \ {"unlock"}, proc' = [proc EXCEPT ![ev] = pc],
           lock' = lock, UNCHANGED <<poll, seen, launches, job>>,
           stage' = "debounce" => \/ stage = "debounce" /\ cfg' = cfg
                                  \/ cfg' = ev /\ pc = "unlock",
           pc \in Opening => stage' # "debounce",
           pc = "skip" => buffer' \subseteq grab'[ev]
    PROVE  WindowInv'
  <1> USE DEF WindowInv, TypeOK
  <1>1. Fired' = Fired /\ Launched' = Launched BY DEF Fired, Launched
  <1>2. ExactlyOnce' BY DEF ExactlyOnce, Launched
  <1>a. /\ \A e \in Events : proc[e] \in ProcHolds => e = ev
        /\ \A i \in Instances : poll[i] \notin PollHolds
    BY ProcessAlone
  <1>b. /\ proc'[ev] = pc
        /\ \A e \in Events : e # ev => proc'[e] = proc[e]
    BY DEF ProcTypeOK
  <1>c. ~Settled(ev) /\ ev \notin Fired
    BY DEF Settled, ProcHolds, ProcEnds, FiredSettled, Fired
  <1>3. LockHeld' BY <1>a, <1>b DEF LockHeld
  <1>d. \A e \in Events : Settled(e) => Settled(e)' BY <1>b, <1>c DEF Settled
  <1>4. WindowFresh' BY <1>1, <1>b, <1>c, <1>d DEF WindowFresh, Fresh, Settled
  <1>5. FiredSettled' BY <1>1, <1>d DEF FiredSettled
  <1>6. OpeningAlone' BY <1>a, <1>b DEF OpeningAlone, Opening
  <1>7. AdvanceReady' BY <1>a DEF AdvanceReady, PollHolds
  <1>8. PromptReady' BY <1>a, <1>b DEF PromptReady, PollHolds, ProcHolds
  <1> QED BY <1>2, <1>3, <1>4, <1>5, <1>6, <1>7, <1>8

\* A step of the poller that holds the lock, from one command to the next.
LEMMA PollerStep ==
    ASSUME TypeOK, WindowInv, NEW i \in Instances, NEW pc \in PollHolds,
           poll[i] \in PollHolds, poll' = [poll EXCEPT ![i] = pc],
           UNCHANGED <<stage, cfg, buffer, timer, lock, proc, grab, launches, job>>,
           pc \in {"recheck", "collect", "advance"} =>
               /\ Fresh(seen'[i].win)
               /\ stage = "debounce" => cfg = seen'[i].win
               /\ pc # "recheck" /\ stage = "debounce" => ~timer,
           pc = "advance" => buffer \subseteq seen'[i].prompt
    PROVE  WindowInv'
  <1> USE DEF WindowInv, TypeOK
  <1>1. Fired' = Fired /\ Launched' = Launched BY DEF Fired, Launched
  <1>2. ExactlyOnce' BY DEF ExactlyOnce, Launched
  <1>a. /\ \A e \in Events : proc[e] \notin ProcHolds
        /\ \A k \in Instances : poll[k] \in PollHolds => k = i
    BY PollerAlone
  <1>b. /\ poll'[i] = pc
        /\ \A k \in Instances : k # i => poll'[k] = poll[k]
    BY DEF PollTypeOK
  <1>c. \A e : Fresh(e) <=> Fresh(e)' BY <1>1 DEF Fresh, Settled
  <1>3. LockHeld' BY <1>a, <1>b DEF LockHeld
  <1>4. WindowFresh' BY <1>c DEF WindowFresh
  <1>5. FiredSettled' BY <1>1 DEF FiredSettled, Settled
  <1>6. OpeningAlone' BY DEF OpeningAlone
  <1>7. AdvanceReady'
    <2> SUFFICES ASSUME NEW k \in Instances, poll'[k] \in {"recheck", "collect", "advance"}
                 PROVE  /\ Fresh(seen[k].win)'
                        /\ stage' = "debounce" => cfg' = seen'[k].win
                        /\ poll'[k] # "recheck" /\ stage' = "debounce" => ~timer'
      BY DEF AdvanceReady
    <2>1. k = i BY <1>a, <1>b DEF PollHolds
    <2>2. Fresh(seen'[i].win) BY <2>1, <1>b
    <2>3. Fresh(seen[i].win)' BY <2>2, <1>1 DEF Fresh, Settled
    <2> QED BY <2>1, <2>3, <1>b
  <1>8. PromptReady' BY <1>a, <1>b DEF PromptReady, PollHolds, ProcHolds
  <1> QED BY <1>2, <1>3, <1>4, <1>5, <1>6, <1>7, <1>8

-----------------------------------------------------------------------------
(* Launching a run *)

\* A launch adds one run or none.
LEMMA LaunchFacts ==
    ASSUME TypeOK, NEW i \in Instances, NEW win, NEW prompt, LaunchAIStage(i, win, prompt)
    PROVE  \/ UNCHANGED <<launches, job>>
           \/ /\ launches' = launches + 1 /\ launches' \in Runs
              /\ job'[launches'] = [ctx |-> entries[i], at |-> i, win |-> win, prompt |-> prompt]
              /\ \A r \in Launched : job'[r] = job[r]
              /\ Launched' = Launched \cup {launches'} /\ launches' \notin Launched
  <1> USE BoundsAssumption DEF TypeOK, RunTypeOK, Runs
  <1>1. CASE entries[i] = None BY <1>1 DEF LaunchAIStage, runVars
  <1>2. CASE entries[i] # None
    <2>1. launches' = launches + 1 /\ launches' \in 1..MaxRuns BY <1>2 DEF LaunchAIStage
    <2>2. job' = [job EXCEPT ![launches'] =
                     [ctx |-> entries[i], at |-> i, win |-> win, prompt |-> prompt]]
      BY <1>2, <2>1 DEF LaunchAIStage
    <2>3. Launched' = Launched \cup {launches'} /\ launches' \notin Launched
      BY <2>1 DEF Launched
    <2>4. \A r \in Launched : r # launches' /\ r \in 1..MaxRuns BY <2>1, <2>3 DEF Launched
    <2> QED BY <2>1, <2>2, <2>3, <2>4
  <1> QED BY <1>1, <1>2

\* Launching a window that has not fired keeps the launches distinct.
LEMMA LaunchOnce ==
    ASSUME TypeOK, ExactlyOnce, NEW i \in Instances, NEW win, NEW prompt, win \notin Fired,
           LaunchAIStage(i, win, prompt) \/ UNCHANGED <<launches, job>>
    PROVE  /\ ExactlyOnce' /\ Fired' \subseteq Fired \cup {win}
           /\ \A r \in Launched' : job'[r].win \in Fired \cup {win}
  <1>1. CASE UNCHANGED <<launches, job>>
    BY <1>1 DEF ExactlyOnce, Fired, Launched
  <1>2. CASE LaunchAIStage(i, win, prompt) /\ ~UNCHANGED <<launches, job>>
    <2> DEFINE j == [ctx |-> entries[i], at |-> i, win |-> win, prompt |-> prompt]
    <2>a. j.win = win OBVIOUS
    <2> HIDE DEF j
    <2>b. /\ job'[launches'] = j
          /\ \A r \in Launched : job'[r] = job[r]
          /\ Launched' = Launched \cup {launches'} /\ launches' \notin Launched
      BY <1>2, LaunchFacts DEF j
    <2>1. /\ job'[launches'].win = win
          /\ \A r \in Launched : job'[r] = job[r]
          /\ Launched' = Launched \cup {launches'} /\ launches' \notin Launched
      BY <2>a, <2>b
    <2>2. \A r \in Launched : job[r].win # win BY DEF Fired
    <2>3. ExactlyOnce' BY <2>1, <2>2 DEF ExactlyOnce
    <2> QED BY <2>1, <2>3 DEF Fired
  <1> QED BY <1>1, <1>2

\* The holder of the lock closes the window and perhaps launches its run.
LEMMA AdvanceStep ==
    ASSUME TypeOK, WindowInv, LockHeld', NEW i \in Instances, NEW win \in Events, NEW prompt,
           win \notin Fired, Settled(win)',
           LaunchAIStage(i, win, prompt) \/ UNCHANGED <<launches, job>>,
           stage' = "debounce" => FALSE,
           \A e \in Events : proc'[e] # "skip",
           \A e \in Events : Settled(e) => Settled(e)',
           \A k \in Instances : poll'[k] \notin {"recheck", "collect", "advance"}
    PROVE  WindowInv'
  <1> USE DEF WindowInv
  <1>1. ExactlyOnce' /\ \A r \in Launched' : job'[r].win \in Fired \cup {win} BY LaunchOnce
  <1>2. WindowFresh' BY DEF WindowFresh
  <1>3. FiredSettled' BY <1>1 DEF FiredSettled, Fired
  <1>4. OpeningAlone' BY DEF OpeningAlone
  <1>5. AdvanceReady' BY DEF AdvanceReady
  <1>6. PromptReady' BY DEF PromptReady
  <1> QED BY <1>1, <1>2, <1>3, <1>4, <1>5, <1>6

-----------------------------------------------------------------------------
(* Every action is a step of one of these kinds *)

\* Process appends to a window or opens one, under the lock.
LEMMA ProcessWindowInv ==
    ASSUME TypeOK, WindowInv, NEW ev \in Events, Process(ev)
    PROVE  WindowInv'
  <1> USE DEF redisVars, memVars, procVars, pollVars, runVars, WindowInv
  <1>a. /\ proc \in [Events -> ProcPCs] /\ stage \in Stages
        /\ proc[ev] \in ProcHolds => at[ev] \in Instances
    BY DEF TypeOK, ProcTypeOK, RedisTypeOK
  <1>b. proc[ev] \in Opening => stage # "debounce"
    BY DEF OpeningAlone, Opening
  <1>1. CASE ProcLock(ev)
    <2>1. CASE AcquireLock(ev) /\ ProcGoto(ev, "read")
      <3> USE <2>1, <1>1, <1>a DEF ProcLock, AcquireLock, ProcGoto
      <3>1. /\ \A e \in Events : proc[e] \notin ProcHolds
            /\ \A i \in Instances : poll[i] \notin PollHolds
        BY NamesAssumption DEF LockHeld
      <3>2. ~Settled(ev) BY DEF Settled, ProcEnds
      <3>3. \A e \in Events : e # ev => proc'[e] = proc[e] OBVIOUS
      <3>4. proc'[ev] = "read" OBVIOUS
      <3>5. \A e \in Events : Settled(e) => Settled(e)' BY <3>2, <3>3 DEF Settled
      <3>6. LockHeld' BY <3>1, <3>3 DEF LockHeld
      <3>7. Fired' = Fired /\ ExactlyOnce' BY DEF Fired, ExactlyOnce, Launched
      <3>8. WindowFresh' BY <3>5, <3>7 DEF WindowFresh, Fresh
      <3>9. FiredSettled' BY <3>5 DEF FiredSettled, Launched
      <3>10. OpeningAlone' BY <3>1, <3>3, <3>4 DEF OpeningAlone
      <3>11. AdvanceReady' BY <3>1 DEF AdvanceReady, PollHolds
      <3>12. PromptReady' BY <3>1, <3>3, <3>4 DEF PromptReady, PollHolds, ProcHolds
      <3> QED BY <3>6, <3>7, <3>8, <3>9, <3>10, <3>11, <3>12
    <2>2. CASE LockFailed /\ ProcGoto(ev, "lost")
      <3> USE <2>2, <1>1, <1>a DEF ProcLock, LockFailed, ProcGoto
      <3>1. LockHeld' BY DEF LockHeld, ProcHolds
      <3>2. \A e \in Events : Settled(e) => Settled(e)' BY DEF Settled, ProcEnds
      <3>3. \A e \in Events : proc'[e] \in ProcHolds => proc'[e] = proc[e] BY DEF ProcHolds
      <3> QED BY <3>1, <3>2, <3>3, OutsideStep
    <2> QED BY <1>1, <2>1, <2>2 DEF ProcLock
  <1>2. CASE ProcRead(ev)
    <2> PICK pc \in {Route(stage), "unlock"} : ProcGoto(ev, pc) BY <1>2 DEF ProcRead
    <2>1. pc \in ProcHolds /\ pc # "skip" /\ (pc \in Opening => stage # "debounce")
      BY DEF Route, Opening, ProcHolds
    <2> QED BY <1>2, <2>1, ProcessStep DEF ProcRead, ProcGoto, ProcHolds
  <1>3. CASE ProcCancelPair(ev)
    <2> PICK pc \in {"open", "clear"} : ProcGoto(ev, pc) BY <1>3 DEF ProcCancelPair
    <2>1. stage # "debounce" BY <1>3, <1>b DEF ProcCancelPair, Opening, ProcHolds
    <2> QED BY <1>3, <2>1, ProcessStep DEF ProcCancelPair, ProcGoto, ProcHolds
  <1>4. CASE ProcClear(ev)
    <2> PICK pc \in {"open", "unlock"} : ProcGoto(ev, pc) BY <1>4 DEF ProcClear
    <2>1. stage' # "debounce"
      BY <1>4, <1>b DEF ProcClear, Opening, ProcHolds, ClearState, SetState
    <2> QED BY <1>4, <2>1, ProcessStep DEF ProcClear, ProcGoto, ProcHolds, ClearState
  <1>5. CASE ProcOpen(ev)
    <2> PICK pc \in {"timer", "grab", "unlock"} : ProcGoto(ev, pc)
      BY <1>5 DEF ProcOpen, OrAbandon
    <2>1. stage # "debounce" BY <1>5, <1>b DEF ProcOpen, Opening, ProcHolds
    <2> QED BY <1>5, <2>1, ProcessStep DEF ProcOpen, ProcGoto, ProcHolds
  <1>6. CASE ProcTimer(ev)
    <2> PICK pc \in {"window", "unlock"} : ProcGoto(ev, pc) BY <1>6 DEF ProcTimer, OrAbandon
    <2>1. stage # "debounce" BY <1>6, <1>b DEF ProcTimer, Opening, ProcHolds
    <2> QED BY <1>6, <2>1, ProcessStep DEF ProcTimer, ProcGoto, ProcHolds
  <1>7. CASE ProcWindow(ev)
    <2>1. ProcGoto(ev, "unlock") BY <1>7 DEF ProcWindow, OrAbandon
    <2>2. stage' = "debounce" => cfg' = ev
      BY <1>7, <1>b DEF ProcWindow, Opening, ProcHolds, SetState
    <2>3. "unlock" \notin Opening BY DEF Opening
    <2> QED BY <1>7, <2>1, <2>2, <2>3, ProcessStep DEF ProcWindow, ProcGoto, ProcHolds
  <1>8. CASE ProcGrab(ev)
    <2> PICK pc \in {"skip", "unlock"} : ProcGoto(ev, pc) BY <1>8 DEF ProcGrab, OrAbandon
    <2>1. stage # "debounce" BY <1>8, <1>b DEF ProcGrab, Opening, ProcHolds
    <2>2. buffer' \subseteq grab'[ev] BY <1>8 DEF ProcGrab, TypeOK, ProcTypeOK
    <2> QED BY <1>8, <2>1, <2>2, ProcessStep DEF ProcGrab, ProcGoto, ProcHolds
  <1>9. CASE ProcSkip(ev)
    <2> USE <1>9, <1>a DEF ProcSkip
    <2>1. proc' = [proc EXCEPT ![ev] = "unlock"] BY DEF OrAbandon, ProcGoto
    <2>2. /\ \A e \in Events : proc[e] \in ProcHolds => e = ev
          /\ \A i \in Instances : poll[i] \notin PollHolds
      BY ProcessAlone DEF ProcHolds
    <2>3. LockHeld' BY <2>1, <2>2 DEF LockHeld, ProcHolds
    <2>4. ev \notin Fired BY DEF FiredSettled, Fired, Settled, ProcEnds
    <2>5. Settled(ev)' /\ \A e \in Events : Settled(e) => Settled(e)'
      BY <2>1 DEF Settled
    <2>6. LaunchAIStage(at[ev], ev, grab[ev]) \/ UNCHANGED <<launches, job>> OBVIOUS
    <2>7. stage' # "debounce" BY <1>b DEF Opening, ProcHolds, SetState
    <2>8. \A e \in Events : proc'[e] # "skip" BY <2>1, <2>2 DEF ProcHolds
    <2>9. \A k \in Instances : poll'[k] \notin {"recheck", "collect", "advance"}
      BY <2>2 DEF PollHolds
    <2>10. at[ev] \in Instances BY DEF ProcHolds
    <2> QED BY <2>3, <2>4, <2>5, <2>6, <2>7, <2>8, <2>9, <2>10, AdvanceStep
  <1>10. CASE ProcAppend(ev)
    <2> PICK pc \in {"resetTimer", "unlock"} : ProcGoto(ev, pc) BY <1>10 DEF ProcAppend
    <2>1. pc \notin Opening BY DEF Opening
    <2> QED BY <1>10, <2>1, ProcessStep DEF ProcAppend, ProcGoto, ProcHolds
  <1>11. CASE ProcResetTimer(ev)
    <2>1. "unlock" \notin Opening BY DEF Opening
    <2> QED BY <1>11, <2>1, ProcessStep DEF ProcResetTimer, ProcGoto, ProcHolds
  <1>12. CASE ProcUnlock(ev)
    <2> USE <1>12, <1>a DEF ProcUnlock, Unlock, ProcGoto
    <2>1. /\ \A e \in Events : proc[e] \in ProcHolds => e = ev
          /\ \A i \in Instances : poll[i] \notin PollHolds
      BY ProcessAlone DEF ProcHolds
    <2>2. LockHeld' BY <2>1 DEF LockHeld, ProcHolds
    <2>3. \A e \in Events : Settled(e) => Settled(e)' BY DEF Settled, ProcEnds
    <2>4. \A e \in Events : proc'[e] \in ProcHolds => proc'[e] = proc[e] BY DEF ProcHolds
    <2> QED BY <2>2, <2>3, <2>4, OutsideStep
  <1> QED BY <1>1, <1>2, <1>3, <1>4, <1>5, <1>6, <1>7, <1>8, <1>9, <1>10, <1>11, <1>12 DEF Process

\* A poller or a starting instance advances a window under the lock.
LEMMA PollerWindowInv ==
    ASSUME TypeOK, WindowInv, NEW i \in Instances, Poller(i) \/ Start(i)
    PROVE  WindowInv'
  <1> USE DEF redisVars, memVars, procVars, pollVars, runVars, WindowInv
  <1>a. poll \in [Instances -> PollPCs] /\ seen \in [Instances -> Seen]
    BY DEF TypeOK, PollTypeOK
  <1>b. ASSUME NEW pc \in PollPCs \ PollHolds, PollGoto(i, pc), lock' = lock,
               UNCHANGED <<stage, cfg, buffer, timer, procVars, launches, job>>,
               \A k \in Instances : k # i => seen'[k] = seen[k]
        PROVE  WindowInv'
    <2> USE <1>a, <1>b DEF PollGoto
    <2>1. \A k \in Instances : poll'[k] \in PollHolds => k # i /\ poll'[k] = poll[k] OBVIOUS
    <2>2. LockHeld' BY <2>1 DEF LockHeld
    <2>3. \A e \in Events : Settled(e) => Settled(e)' BY DEF Settled
    <2> QED BY <2>1, <2>2, <2>3, OutsideStep
  <1>1. CASE PollEntry(i)
    BY <1>1, <1>a, <1>b DEF PollEntry, PollPCs, PollHolds
  <1>2. CASE PollTimer(i)
    <2> PICK pc \in {"acquire", "idle"} : PollGoto(i, pc) BY <1>2 DEF PollTimer
    <2> QED BY <1>2, <1>b DEF PollTimer, PollPCs, PollHolds
  <1>3. CASE PollAcquire(i)
    <2>1. CASE AcquireLock(i) /\ PollGoto(i, "read")
      <3> USE <2>1, <1>3, <1>a DEF PollAcquire, AcquireLock, PollGoto
      <3>1. /\ \A e \in Events : proc[e] \notin ProcHolds
            /\ \A k \in Instances : poll[k] \notin PollHolds
        BY NamesAssumption DEF LockHeld
      <3>2. poll'[i] = "read" /\ \A k \in Instances : k # i => poll'[k] = poll[k] OBVIOUS
      <3>3. LockHeld' BY <3>1, <3>2 DEF LockHeld
      <3>4. Fired' = Fired /\ ExactlyOnce' BY DEF Fired, ExactlyOnce, Launched
      <3>5. WindowFresh' BY <3>4 DEF WindowFresh, Fresh, Settled
      <3>6. FiredSettled' BY DEF FiredSettled, Launched, Settled
      <3>7. OpeningAlone' BY DEF OpeningAlone
      <3>8. AdvanceReady' BY <3>1, <3>2 DEF AdvanceReady, PollHolds
      <3>9. PromptReady' BY <3>1, <3>2 DEF PromptReady, PollHolds
      <3> QED BY <3>3, <3>4, <3>5, <3>6, <3>7, <3>8, <3>9
    <2>2. CASE LockFailed /\ PollGoto(i, "idle")
      BY <2>2, <1>3, <1>b DEF PollAcquire, LockFailed, PollPCs, PollHolds
    <2> QED BY <1>3, <2>1, <2>2 DEF PollAcquire
  <1>4. CASE PollRead(i)
    <2>1. CASE stage = "debounce" /\ seen' = [seen EXCEPT ![i].win = cfg] /\ PollGoto(i, "recheck")
      <3>1. seen'[i].win = cfg BY <2>1, <1>a DEF Seen
      <3>2. Fresh(cfg) BY <2>1 DEF WindowFresh
      <3> QED BY <1>4, <2>1, <3>1, <3>2, PollerStep DEF PollRead, PollGoto, PollHolds
    <2>2. CASE PollGoto(i, "unlock") /\ UNCHANGED seen
      BY <1>4, <2>2, PollerStep DEF PollRead, PollGoto, PollHolds
    <2> QED BY <1>4, <2>1, <2>2 DEF PollRead
  <1>c. poll[i] \in {"recheck", "collect", "advance"} =>
            /\ Fresh(seen[i].win)
            /\ stage = "debounce" => cfg = seen[i].win
            /\ poll[i] # "recheck" /\ stage = "debounce" => ~timer
    BY DEF AdvanceReady
  <1>5. CASE PollRecheck(i)
    <2> USE <1>5 DEF PollRecheck
    <2>1. CASE ~timer /\ PollGoto(i, "collect")
      BY <2>1, <1>c, PollerStep DEF PollGoto, PollHolds
    <2>2. CASE PollGoto(i, "unlock")
      BY <2>2, PollerStep DEF PollGoto, PollHolds
    <2> QED BY <2>1, <2>2
  <1>6. CASE PollCollect(i)
    <2> USE <1>6 DEF PollCollect
    <2>1. CASE seen' = [seen EXCEPT ![i].prompt = buffer] /\ PollGoto(i, "advance")
      <3>1. seen'[i].win = seen[i].win /\ seen'[i].prompt = buffer BY <2>1, <1>a DEF Seen
      <3> QED BY <2>1, <3>1, <1>c, PollerStep DEF PollGoto, PollHolds
    <2>2. CASE PollGoto(i, "unlock")
      BY <2>2, PollerStep DEF PollGoto, PollHolds
    <2> QED BY <2>1, <2>2
  <1>7. CASE PollAdvance(i)
    <2> USE <1>7, <1>a DEF PollAdvance, PollGoto
    <2>1. /\ \A e \in Events : proc[e] \notin ProcHolds
          /\ \A k \in Instances : poll[k] \in PollHolds => k = i
      BY PollerAlone DEF PollHolds
    <2>2. LockHeld' BY <2>1 DEF LockHeld, PollHolds
    <2>3. Fresh(seen[i].win) BY <1>c
    <2>4. Settled(seen[i].win)' BY <2>3 DEF Fresh, Settled
    <2>5. \/ stage' # "debounce"
          \/ UNCHANGED <<stage, cfg, launches, job>>
      BY DEF SetState, Applied
    <2>6. \A k \in Instances : poll'[k] \notin {"recheck", "collect", "advance"}
      BY <2>1 DEF PollHolds
    <2>7. \A e \in Events : proc'[e] # "skip" BY <2>1 DEF ProcHolds
    <2>8. CASE stage' # "debounce"
      BY <2>2, <2>3, <2>4, <2>6, <2>7, <2>8, AdvanceStep DEF Fresh, Settled
    <2>9. CASE UNCHANGED <<stage, cfg, launches, job>>
      BY <2>9, PollerStep DEF PollHolds
    <2> QED BY <2>5, <2>8, <2>9
  <1>8. CASE PollUnlock(i)
    <2> USE <1>8, <1>a DEF PollUnlock, Unlock, PollGoto
    <2>1. /\ \A e \in Events : proc[e] \notin ProcHolds
          /\ \A k \in Instances : poll[k] \in PollHolds => k = i
      BY PollerAlone DEF PollHolds
    <2>2. \A k \in Instances : poll'[k] \notin PollHolds BY <2>1 DEF PollHolds
    <2>3. LockHeld' BY <2>1, <2>2 DEF LockHeld
    <2>4. \A e \in Events : Settled(e) => Settled(e)' BY DEF Settled
    <2> QED BY <2>1, <2>2, <2>3, <2>4, OutsideStep
  <1>9. CASE StartScan(i)
    <2> PICK pc \in {"recover", "idle"} : PollGoto(i, pc) BY <1>9 DEF StartScan
    <2> QED BY <1>9, <1>b DEF StartScan, PollPCs, PollHolds
  <1>10. CASE StartRecover(i)
    <2> PICK pc \in {"bootTimer", "idle"} : PollGoto(i, pc) BY <1>10 DEF StartRecover
    <2> QED BY <1>10, <1>b DEF StartRecover, PollPCs, PollHolds
  <1>11. CASE StartTimer(i)
    <2> PICK pc \in {"acquire", "idle"} : PollGoto(i, pc) BY <1>11 DEF StartTimer
    <2> QED BY <1>11, <1>b DEF StartTimer, PollPCs, PollHolds
  <1>12. CASE StartServing(i)
    <2>1. LockHeld' /\ \A e \in Events : Settled(e) => Settled(e)'
      BY <1>12 DEF StartServing, LockHeld, Settled
    <2> QED BY <1>12, <2>1, OutsideStep DEF StartServing
  <1> QED BY <1>1, <1>2, <1>3, <1>4, <1>5, <1>6, <1>7, <1>8, <1>9, <1>10, <1>11, <1>12
          DEF Poller, Start

\* Accepting an event touches no window.
LEMMA HandleEventWindowInv ==
    ASSUME TypeOK, WindowInv, NEW ev \in Events, NEW i \in Instances, HandleEvent(ev, i)
    PROVE  WindowInv'
  <1> USE DEF HandleEvent, memVars, pollVars, runVars, WindowInv
  <1>1. PICK pc \in {"lock", "refused"} : proc' = [proc EXCEPT ![ev] = pc]
    BY DEF ProcGoto
  <1>2. proc \in [Events -> ProcPCs] BY DEF TypeOK, ProcTypeOK
  <1>3. \A e \in Events : proc'[e] \in ProcHolds => proc'[e] = proc[e]
    BY <1>1, <1>2 DEF ProcHolds
  <1>4. \A e \in Events : Settled(e) => Settled(e)' BY <1>1, <1>2 DEF Settled, ProcEnds
  <1>5. LockHeld' BY <1>3 DEF LockHeld
  <1>6. stage' = "debounce" => stage = "debounce" /\ cfg' = cfg BY DEF SetState
  <1> QED BY <1>3, <1>4, <1>5, <1>6, OutsideStep

\* A run clears or keeps the state, and opens no window.
LEMMA PipelineWindowInv ==
    ASSUME TypeOK, WindowInv, NEW r \in Runs, Pipeline(r) \/ RunPanic(r)
    PROVE  WindowInv'
  <1> USE DEF redisVars, memVars, procVars, pollVars, runVars, SetState, ClearState
  <1>1. UNCHANGED <<procVars, pollVars, lock, launches, job>>
    BY DEF Pipeline, RunStart, RunCall, RunReply, RunCheck, RunSend, RunMarkDone, RunClearDone,
           RunDelete, RunClear, RunPanic
  <1> DEFINE Shrinks == /\ stage' = "debounce" => stage = "debounce" /\ cfg' = cfg
                        /\ buffer' \subseteq buffer
                        /\ timer' => timer
  <1>2. Shrinks
    <2>1. CASE UNCHANGED redisVars BY <2>1
    <2>2. CASE RunReply(r) BY <2>2 DEF RunReply
    <2>3. CASE RunMarkDone(r) BY <2>3 DEF RunMarkDone
    <2>4. CASE RunClearDone(r) BY <2>4 DEF RunClearDone
    <2>5. CASE RunClear(r) BY <2>5 DEF RunClear
    <2> HIDE DEF Shrinks
    <2> QED BY <2>1, <2>2, <2>3, <2>4, <2>5
            DEF Pipeline, RunStart, RunCall, RunCheck, RunSend, RunDelete, RunPanic
  <1>3. LockHeld' /\ \A e \in Events : Settled(e) => Settled(e)'
    BY <1>1 DEF WindowInv, LockHeld, Settled
  <1> QED BY <1>1, <1>2, <1>3, OutsideStep

\* A crash leaves the windows in Redis, without pollers.
LEMMA WorldWindowInv ==
    ASSUME ~LockMayExpire, TypeOK, WindowInv,
           \/ TimerExpires \/ LockExpires
           \/ \E i \in Instances : Shutdown(i) \/ Exit(i) \/ Crash(i) \/ Restart(i)
    PROVE  WindowInv'
  <1> USE DEF redisVars, memVars, procVars, pollVars, runVars, WindowInv
  <1>a. proc \in [Events -> ProcPCs] /\ poll \in [Instances -> PollPCs]
    BY DEF TypeOK, ProcTypeOK, PollTypeOK
  <1>1. CASE TimerExpires
    <2>1. LockHeld' /\ \A e \in Events : Settled(e) => Settled(e)'
      BY <1>1 DEF TimerExpires, LockHeld, Settled
    <2> QED BY <1>1, <2>1, OutsideStep DEF TimerExpires
  <1>2. CASE LockExpires
    <2>1. LockHeld' BY <1>2 DEF LockExpires, HolderWorks, LockHeld
    <2>2. \A e \in Events : Settled(e) => Settled(e)' BY <1>2 DEF LockExpires, Settled
    <2> QED BY <1>2, <2>1, <2>2, OutsideStep DEF LockExpires
  <1>3. ASSUME NEW i \in Instances, Shutdown(i) PROVE WindowInv'
    <2>1. LockHeld' /\ \A e \in Events : Settled(e) => Settled(e)'
      BY <1>3 DEF Shutdown, LockHeld, Settled
    <2> QED BY <1>3, <2>1, OutsideStep DEF Shutdown
  <1>4. ASSUME NEW i \in Instances, Die(i) PROVE WindowInv'
    <2> USE <1>4, <1>a DEF Die
    <2>1. \A e \in Events : proc'[e] \in ProcHolds => proc'[e] = proc[e] BY DEF ProcHolds
    <2>2. \A k \in Instances : poll'[k] \in PollHolds => poll'[k] = poll[k] /\ seen'[k] = seen[k]
      BY DEF PollHolds, TypeOK, PollTypeOK
    <2>3. LockHeld' BY <2>1, <2>2 DEF LockHeld
    <2>4. \A e \in Events : Settled(e) => Settled(e)' BY DEF Settled, ProcEnds
    <2> QED BY <2>1, <2>2, <2>3, <2>4, OutsideStep
  <1>5. ASSUME NEW i \in Instances, Restart(i) PROVE WindowInv'
    <2> USE <1>5, <1>a DEF Restart, PollGoto
    <2>1. \A k \in Instances : poll'[k] \in PollHolds => poll'[k] = poll[k] BY DEF PollHolds
    <2>2. LockHeld' BY <2>1 DEF LockHeld
    <2>3. \A e \in Events : Settled(e) => Settled(e)' BY DEF Settled
    <2> QED BY <2>1, <2>2, <2>3, OutsideStep
  <1> QED BY <1>1, <1>2, <1>3, <1>4, <1>5 DEF Exit, Crash

\* Every step keeps the invariant.
LEMMA NextWindowInv ==
    ASSUME ~LockMayExpire, TypeOK, WindowInv, [Next]_vars
    PROVE  WindowInv'
  <1>1. ASSUME NEW ev \in Events, NEW i \in Instances, HandleEvent(ev, i) PROVE WindowInv'
    BY <1>1, HandleEventWindowInv
  <1>2. ASSUME NEW ev \in Events, Process(ev) PROVE WindowInv'
    BY <1>2, ProcessWindowInv
  <1>3. ASSUME NEW i \in Instances, Poller(i) \/ Start(i) PROVE WindowInv'
    BY <1>3, PollerWindowInv
  <1>4. ASSUME NEW r \in Runs, Pipeline(r) \/ RunPanic(r) PROVE WindowInv'
    BY <1>4, PipelineWindowInv
  <1>5. CASE \/ TimerExpires \/ LockExpires
             \/ \E i \in Instances : Shutdown(i) \/ Exit(i) \/ Crash(i) \/ Restart(i)
    BY <1>5, WorldWindowInv
  <1>6. CASE UNCHANGED vars
    <2> USE <1>6 DEF vars, redisVars, memVars, procVars, pollVars, runVars, WindowInv
    <2>1. LockHeld' /\ \A e \in Events : Settled(e) => Settled(e)' BY DEF LockHeld, Settled
    <2> QED BY <2>1, OutsideStep
  <1> QED BY <1>1, <1>2, <1>3, <1>4, <1>5, <1>6 DEF Next

-----------------------------------------------------------------------------
(* The theorems *)

\* WindowInvariant: as long as no lock expires under its holder, the lock
\* protects what was read under it: the open window has not fired, and what
\* the poller read before the launch is still true at the launch.
THEOREM WindowInvariant ==
    ASSUME ~LockMayExpire
    PROVE  Spec => []WindowInv
  <1>1. TypeOK /\ WindowInv /\ [Next]_vars => WindowInv' BY NextWindowInv
  <1> QED BY <1>1, InitWindowInv, TypeCorrect, PTL DEF Spec

\* OnceOnly: no window gets a second AI run, whatever the number of instances,
\* crashes, restarts and failed Redis commands.
THEOREM OnceOnly ==
    ASSUME ~LockMayExpire
    PROVE  Spec => []ExactlyOnce
  <1>1. WindowInv => ExactlyOnce BY DEF WindowInv
  <1> QED BY <1>1, WindowInvariant, PTL

\* QuietLaunch: an open window is advanced only when its timer has run out.
THEOREM QuietLaunch ==
    ASSUME ~LockMayExpire
    PROVE  Spec => LaunchIsQuiet
  <1>1. ASSUME WindowInv, Next, stage = "debounce", stage' = "ai" PROVE ~timer
    <2> USE <1>1 DEF SetState, redisVars
    <2>1. ASSUME NEW ev \in Events, NEW i \in Instances, HandleEvent(ev, i) PROVE FALSE
      BY <2>1 DEF HandleEvent
    <2>2. ASSUME NEW ev \in Events, Process(ev) PROVE FALSE
      <3>1. \A e \in Events : proc[e] # "skip"
        BY DEF WindowInv, OpeningAlone, ProcHolds
      <3> QED BY <2>2, <3>1 DEF Process, ProcLock, ProcRead, ProcCancelPair, ProcClear, ProcOpen,
            ProcTimer, ProcWindow, ProcGrab, ProcSkip, ProcAppend, ProcResetTimer, ProcUnlock,
            ClearState
    <2>3. ASSUME NEW i \in Instances, Poller(i) \/ Start(i) PROVE ~timer
      <3>1. CASE PollAdvance(i)
        BY <3>1 DEF PollAdvance, WindowInv, AdvanceReady
      <3> QED BY <2>3, <3>1 DEF Poller, Start, PollEntry, PollTimer, PollAcquire, PollRead,
            PollRecheck, PollCollect, PollUnlock, StartScan, StartRecover, StartTimer, StartServing
    <2>4. ASSUME NEW r \in Runs, Pipeline(r) \/ RunPanic(r) PROVE FALSE
      BY <2>4 DEF Pipeline, RunStart, RunCall, RunReply, RunCheck, RunSend, RunMarkDone,
            RunClearDone, RunDelete, RunClear, RunPanic, ClearState
    <2>5. ASSUME \/ TimerExpires \/ LockExpires
                 \/ \E i \in Instances : Shutdown(i) \/ Exit(i) \/ Crash(i) \/ Restart(i)
          PROVE FALSE
      BY <2>5 DEF TimerExpires, LockExpires, Shutdown, Exit, Crash, Die, Restart
    <2> QED BY <2>1, <2>2, <2>3, <2>4, <2>5 DEF Next
  <1>2. WindowInv /\ [Next]_vars => [stage = "debounce" /\ stage' = "ai" => ~timer]_vars
    BY <1>1
  <1> QED BY <1>2, WindowInvariant, PTL DEF Spec, LaunchIsQuiet

\* FullPrompt: a run is launched with everything the buffer then holds.
THEOREM FullPrompt ==
    ASSUME ~LockMayExpire
    PROVE  Spec => PromptCoversBuffer
  <1>1. ASSUME TypeOK, WindowInv, Next, launches' # launches
        PROVE  buffer \subseteq job'[launches'].prompt
    <2> USE <1>1 DEF runVars
    <2>1. ASSUME NEW ev \in Events, ProcSkip(ev) PROVE buffer \subseteq job'[launches'].prompt
      <3>1. LaunchAIStage(at[ev], ev, grab[ev]) /\ at[ev] \in Instances
        BY <2>1 DEF ProcSkip, TypeOK, ProcTypeOK, ProcHolds
      <3>2. job'[launches'] = [ctx |-> entries[at[ev]], at |-> at[ev], win |-> ev,
                               prompt |-> grab[ev]]
        BY <3>1, LaunchFacts
      <3>3. job'[launches'].prompt = grab[ev] BY <3>2
      <3> QED BY <2>1, <3>3 DEF ProcSkip, WindowInv, PromptReady
    <2>2. ASSUME NEW i \in Instances, PollAdvance(i)
          PROVE  buffer \subseteq job'[launches'].prompt
      <3>1. LaunchAIStage(i, seen[i].win, seen[i].prompt)
        BY <2>2 DEF PollAdvance
      <3>2. job'[launches'] = [ctx |-> entries[i], at |-> i, win |-> seen[i].win,
                               prompt |-> seen[i].prompt]
        BY <3>1, LaunchFacts
      <3>3. job'[launches'].prompt = seen[i].prompt BY <3>2
      <3> QED BY <2>2, <3>3 DEF PollAdvance, WindowInv, PromptReady
    <2>3. \/ \E ev \in Events : ProcSkip(ev)
          \/ \E i \in Instances : PollAdvance(i)
      BY DEF Next, HandleEvent, Process, ProcLock, ProcRead, ProcCancelPair, ProcClear, ProcOpen,
         ProcTimer, ProcWindow, ProcGrab, ProcAppend, ProcResetTimer, ProcUnlock,
         Poller, Start, PollEntry, PollTimer, PollAcquire, PollRead, PollRecheck, PollCollect,
         PollUnlock, StartScan, StartRecover, StartTimer, StartServing, Pipeline, RunStart,
         RunCall, RunReply, RunCheck, RunSend, RunMarkDone, RunClearDone, RunDelete, RunClear,
         RunPanic, TimerExpires, LockExpires, Shutdown, Exit, Crash, Die, Restart
    <2> QED BY <2>1, <2>2, <2>3
  <1>2. TypeOK /\ WindowInv /\ [Next]_vars
            => [launches' # launches => buffer \subseteq job'[launches'].prompt]_vars
    BY <1>1
  <1> QED BY <1>2, TypeCorrect, WindowInvariant, PTL DEF Spec, PromptCoversBuffer

-----------------------------------------------------------------------------
(***************************************************************************)
(* BotPipeline implements OnceOnlyWindows, while no lock expires under its *)
(* holder.                                                                 *)
(***************************************************************************)

Arrived == {e \in Events : proc[e] # "idle"}
OpenWindow == IF stage = "debounce" THEN cfg ELSE None
Log == [r \in Launched |-> job[r].win]

\* Appending to a sequence given as a function.
LEMMA AppendAsFunction ==
    ASSUME NEW S, NEW n \in Nat, NEW w \in S, NEW f, \A r \in 1..n : f[r] \in S
    PROVE  [r \in 1..(n+1) |-> IF r = n+1 THEN w ELSE f[r]] = Append([r \in 1..n |-> f[r]], w)
  <1> DEFINE s == [r \in 1..n |-> f[r]]
             t == [r \in 1..(n+1) |-> IF r = n+1 THEN w ELSE f[r]]
  <1>1. s \in Seq(S) /\ Len(s) = n OBVIOUS
  <1>2. t \in Seq(S) /\ Len(t) = n + 1 OBVIOUS
  <1>3. /\ Append(s, w) \in Seq(S) /\ Len(Append(s, w)) = n + 1
        /\ \A i \in 1..n : Append(s, w)[i] = s[i]
        /\ Append(s, w)[n+1] = w
    BY <1>1, AppendProperties
  <1>4. \A i \in 1..(n+1) : t[i] = Append(s, w)[i] BY <1>3
  <1> HIDE DEF s, t
  <1>5. t = Append(s, w) BY <1>2, <1>3, <1>4, SeqEqual
  <1> QED BY <1>5 DEF s, t

-----------------------------------------------------------------------------
(* What a step of the pipeline does to the three abstract variables *)

\* The initial state maps to one of OnceOnlyWindows.
LEMMA WindowsInit == Init => Windows!Init
  <1> SUFFICES ASSUME Init PROVE Windows!Init
    OBVIOUS
  <1>1. Arrived = {} BY DEF Init, Arrived
  <1>2. OpenWindow = None BY DEF Init, OpenWindow
  <1>3. Log = <<>> BY DEF Init, Log, Launched
  <1> QED BY <1>1, <1>2, <1>3 DEF Windows!Init, Arrived, OpenWindow, Log

\* What the mapping calls fired is what the runs have answered.
LEMMA FiredIsRange == Windows!Fired = Fired
  BY DEF Windows!Fired, Fired

\* Nothing happens to the windows, or the open one closes.
LEMMA StutterOrClose ==
    ASSUME TypeOK, UNCHANGED <<launches, job>>,
           \A e \in Events : proc'[e] = "idle" <=> proc[e] = "idle",
           stage' = "debounce" => stage = "debounce" /\ cfg' = cfg
    PROVE  [Windows!Next]_(Windows!vars)
  <1>1. Arrived' = Arrived BY DEF Arrived
  <1>2. Log' = Log BY DEF Log, Launched
  <1>3. OpenWindow' \in {OpenWindow, None} BY DEF OpenWindow
  <1> QED BY <1>1, <1>2, <1>3 DEF Windows!Next, Windows!Close, Windows!vars, Arrived, OpenWindow, Log

\* A run is launched for a window that has not fired, and nothing stays open.
LEMMA FireStep ==
    ASSUME TypeOK, NEW i \in Instances, NEW win \in Events, NEW prompt,
           LaunchAIStage(i, win, prompt), proc[win] # "idle", win \notin Fired, FiredSettled,
           \A e \in Events : proc'[e] = "idle" <=> proc[e] = "idle",
           OpenWindow \in {win, None}, stage' # "debounce"
    PROVE  [Windows!Next]_(Windows!vars)
  <1>1. CASE UNCHANGED <<launches, job>> BY <1>1, StutterOrClose
  <1>2. CASE ~UNCHANGED <<launches, job>>
    <2> DEFINE j == [ctx |-> entries[i], at |-> i, win |-> win, prompt |-> prompt]
    <2>1. j.win = win OBVIOUS
    <2> HIDE DEF j
    <2>2. /\ launches' = launches + 1 /\ job'[launches'] = j
          /\ \A r \in Launched : job'[r] = job[r]
      BY <1>2, LaunchFacts DEF j
    <2>3. launches \in Nat BY BoundsAssumption DEF TypeOK, RunTypeOK
    <2>4. Log' = [r \in 1..(launches+1) |-> IF r = launches+1 THEN win ELSE job[r].win]
      BY <2>1, <2>2, <2>3 DEF Log, Launched
    <2> DEFINE f == [r \in 1..launches |-> job[r].win]
    <2>5. \A r \in 1..launches : f[r] \in Events BY DEF FiredSettled, Launched
    <2>6. Log = [r \in 1..launches |-> f[r]] BY DEF Log, Launched
    <2>7. Log' = [r \in 1..(launches+1) |-> IF r = launches+1 THEN win ELSE f[r]]
      BY <2>3, <2>4
    <2> HIDE DEF f
    <2>8. Log' = Append(Log, win) BY <2>3, <2>5, <2>6, <2>7, AppendAsFunction
    <2>9. Arrived' = Arrived /\ win \in Arrived BY DEF Arrived
    <2>10. OpenWindow' = None BY DEF OpenWindow
    <2>11. Windows!Fire(win)
      BY <2>8, <2>9, <2>10, FiredIsRange DEF Windows!Fire, Arrived, OpenWindow, Log
    <2> QED BY <2>11 DEF Windows!Next
  <1> QED BY <1>1, <1>2

-----------------------------------------------------------------------------
\* Process opens a window, adds to it, or stutters.
LEMMA ProcessRefines ==
    ASSUME TypeOK, WindowInv, NEW ev \in Events, Process(ev)
    PROVE  [Windows!Next]_(Windows!vars)
  <1> USE DEF WindowInv, redisVars, memVars, procVars, pollVars, runVars
  <1>a. /\ proc \in [Events -> ProcPCs]
        /\ proc[ev] \in ProcHolds => at[ev] \in Instances
    BY DEF TypeOK, ProcTypeOK
  <1>1. proc[ev] \in {"lock"} \cup ProcHolds
    BY DEF Process, ProcLock, ProcRead, ProcCancelPair, ProcClear, ProcOpen, ProcTimer, ProcWindow,
           ProcGrab, ProcSkip, ProcAppend, ProcResetTimer, ProcUnlock, ProcHolds
  <1>2. \E pc \in ProcPCs \ {"idle"} : ProcGoto(ev, pc)
    <2> USE DEF ProcPCs, ProcHolds, ProcEnds, OrAbandon
    <2>1. CASE ProcLock(ev) \/ ProcRead(ev) \/ ProcCancelPair(ev) \/ ProcClear(ev)
      BY <2>1 DEF ProcLock, ProcRead, Route, ProcCancelPair, ProcClear
    <2>2. CASE ProcOpen(ev) BY <2>2 DEF ProcOpen
    <2>3. CASE ProcTimer(ev) \/ ProcWindow(ev) BY <2>3 DEF ProcTimer, ProcWindow
    <2>4. CASE ProcGrab(ev) BY <2>4 DEF ProcGrab
    <2>5. CASE ProcSkip(ev) BY <2>5 DEF ProcSkip
    <2>6. CASE ProcAppend(ev) \/ ProcResetTimer(ev) \/ ProcUnlock(ev)
      BY <2>6 DEF ProcAppend, ProcResetTimer, ProcUnlock
    <2> QED BY <2>1, <2>2, <2>3, <2>4, <2>5, <2>6 DEF Process
  <1>3. \A e \in Events : proc'[e] = "idle" <=> proc[e] = "idle"
    BY <1>a, <1>1, <1>2 DEF ProcGoto, ProcHolds
  <1>4. CASE ProcWindow(ev)
    <2>1. stage # "debounce" BY <1>4 DEF ProcWindow, OpeningAlone, ProcHolds
    <2>2. UNCHANGED <<launches, job>> BY <1>4 DEF ProcWindow
    <2>3. CASE stage' # "debounce" BY <1>3, <2>2, <2>3, StutterOrClose
    <2>4. CASE stage' = "debounce"
      <3>1. cfg' = ev BY <1>4, <2>1, <2>4 DEF ProcWindow, SetState
      <3>2. ev \notin Fired
        BY <1>4 DEF ProcWindow, FiredSettled, Fired, Settled, ProcEnds
      <3>3. Arrived' = Arrived /\ ev \in Arrived BY <1>3, <1>4 DEF Arrived, ProcWindow
      <3>4. Log' = Log BY <2>2 DEF Log, Launched
      <3>5. OpenWindow = None /\ OpenWindow' = ev BY <2>1, <2>4, <3>1 DEF OpenWindow
      <3>6. Windows!Open(ev)
        BY <3>2, <3>3, <3>4, <3>5, FiredIsRange DEF Windows!Open, Arrived, OpenWindow, Log
      <3> QED BY <3>6 DEF Windows!Next
    <2> QED BY <2>3, <2>4
  <1>5. CASE ProcSkip(ev)
    <2>1. stage # "debounce" BY <1>5 DEF ProcSkip, OpeningAlone, ProcHolds
    <2>2. stage' # "debounce" BY <1>5, <2>1 DEF ProcSkip, SetState
    <2>3. ev \notin Fired BY <1>5 DEF ProcSkip, FiredSettled, Fired, Settled, ProcEnds
    <2>4. at[ev] \in Instances BY <1>5, <1>a DEF ProcSkip, ProcHolds
    <2>5. OpenWindow = None BY <2>1 DEF OpenWindow
    <2>6. CASE LaunchAIStage(at[ev], ev, grab[ev])
      BY <1>3, <1>5, <2>2, <2>3, <2>4, <2>5, <2>6, FireStep DEF ProcSkip
    <2>7. CASE UNCHANGED runVars BY <1>3, <2>2, <2>7, StutterOrClose
    <2> QED BY <1>5, <2>6, <2>7 DEF ProcSkip
  <1>6. CASE ~ProcWindow(ev) /\ ~ProcSkip(ev)
    <2>1. UNCHANGED <<launches, job>>
      BY <1>6 DEF Process, ProcLock, ProcRead, ProcCancelPair, ProcClear, ProcOpen, ProcTimer,
         ProcGrab, ProcAppend, ProcResetTimer, ProcUnlock
    <2>2. stage' = "debounce" => stage = "debounce" /\ cfg' = cfg
      BY <1>6 DEF Process, ProcLock, ProcRead, ProcCancelPair, ProcClear, ProcOpen, ProcTimer,
         ProcGrab, ProcAppend, ProcResetTimer, ProcUnlock, ClearState, SetState
    <2> QED BY <1>3, <2>1, <2>2, StutterOrClose
  <1> QED BY <1>4, <1>5, <1>6

\* A poller or a starting instance fires the window, or stutters.
LEMMA PollerRefines ==
    ASSUME TypeOK, WindowInv, NEW i \in Instances, Poller(i) \/ Start(i)
    PROVE  [Windows!Next]_(Windows!vars)
  <1> USE DEF WindowInv, redisVars, memVars, procVars, pollVars, runVars
  <1>1. UNCHANGED proc
    BY DEF Poller, Start, PollEntry, PollTimer, PollAcquire, PollRead, PollRecheck, PollCollect,
           PollAdvance, PollUnlock, StartScan, StartRecover, StartTimer, StartServing
  <1>2. CASE PollAdvance(i)
    <2> DEFINE win == seen[i].win
    <2>1. Fresh(win) /\ (stage = "debounce" => cfg = win)
      BY <1>2 DEF PollAdvance, AdvanceReady
    <2>2. /\ proc[win] # "idle" /\ win \in Events /\ win \notin Fired
          /\ OpenWindow \in {win, None}
      BY <2>1 DEF Fresh, Settled, ProcEnds, OpenWindow
    <2>3. stage' = "debounce" => UNCHANGED <<stage, cfg, launches, job>>
      BY <1>2 DEF PollAdvance, SetState, Applied
    <2>4. CASE stage' = "debounce" BY <1>1, <2>3, <2>4, StutterOrClose
    <2>5. CASE stage' # "debounce"
      <3>1. CASE LaunchAIStage(i, win, seen[i].prompt)
        BY <1>1, <2>2, <2>5, <3>1, FireStep
      <3>2. CASE UNCHANGED runVars BY <1>1, <2>5, <3>2, StutterOrClose
      <3> QED BY <1>2, <3>1, <3>2 DEF PollAdvance
    <2> QED BY <2>4, <2>5
  <1>3. CASE ~PollAdvance(i)
    <2>1. UNCHANGED <<stage, cfg, launches, job>>
      BY <1>3 DEF Poller, Start, PollEntry, PollTimer, PollAcquire, PollRead, PollRecheck,
         PollCollect, PollUnlock, StartScan, StartRecover, StartTimer, StartServing
    <2> QED BY <1>1, <2>1, StutterOrClose
  <1> QED BY <1>2, <1>3

\* Runs, expiries, crashes and restarts close a window, or stutter.
LEMMA OthersRefine ==
    ASSUME TypeOK,
           \/ \E r \in Runs : Pipeline(r) \/ RunPanic(r)
           \/ TimerExpires \/ LockExpires
           \/ \E i \in Instances : Shutdown(i) \/ Exit(i) \/ Crash(i) \/ Restart(i)
    PROVE  [Windows!Next]_(Windows!vars)
  <1> USE NamesAssumption DEF redisVars, memVars, procVars, pollVars, runVars
  <1>1. ASSUME NEW r \in Runs, Pipeline(r) \/ RunPanic(r) PROVE [Windows!Next]_(Windows!vars)
    <2>1. UNCHANGED <<proc, launches, job>>
      BY <1>1 DEF Pipeline, RunStart, RunCall, RunReply, RunCheck, RunSend, RunMarkDone,
         RunClearDone, RunDelete, RunClear, RunPanic
    <2>2. stage' = "debounce" => stage = "debounce" /\ cfg' = cfg
      BY <1>1 DEF Pipeline, RunStart, RunCall, RunReply, RunCheck, RunSend, RunMarkDone,
         RunClearDone, RunDelete, RunClear, RunPanic, ClearState, SetState
    <2> QED BY <2>1, <2>2, StutterOrClose
  <1>2. CASE TimerExpires \/ LockExpires
    BY <1>2, StutterOrClose DEF TimerExpires, LockExpires
  <1>3. ASSUME NEW i \in Instances, Shutdown(i) \/ Restart(i) PROVE [Windows!Next]_(Windows!vars)
    BY <1>3, StutterOrClose DEF Shutdown, Restart
  <1>4. ASSUME NEW i \in Instances, Exit(i) \/ Crash(i) PROVE [Windows!Next]_(Windows!vars)
    <2>1. \A e \in Events : proc'[e] = "idle" <=> proc[e] = "idle"
      BY <1>4 DEF Exit, Crash, Die, TypeOK, ProcTypeOK
    <2> QED BY <1>4, <2>1, StutterOrClose DEF Exit, Crash, Die
  <1> QED BY <1>1, <1>2, <1>3, <1>4

\* An accepted or refused event arrives in OnceOnlyWindows.
LEMMA HandleEventRefines ==
    ASSUME TypeOK, NEW ev \in Events, NEW i \in Instances, HandleEvent(ev, i)
    PROVE  [Windows!Next]_(Windows!vars)
  <1> USE DEF HandleEvent, memVars, pollVars, runVars
  <1>1. \E pc \in {"lock", "refused"} : proc' = [proc EXCEPT ![ev] = pc] BY DEF ProcGoto
  <1>2. Arrived' = Arrived \cup {ev} /\ ev \notin Arrived
    BY <1>1 DEF Arrived, TypeOK, ProcTypeOK
  <1>3. OpenWindow' \in {OpenWindow, None} BY DEF OpenWindow, SetState
  <1>4. Log' = Log BY DEF Log, Launched
  <1>5. Windows!Arrive(ev) BY <1>2, <1>3, <1>4 DEF Windows!Arrive, Arrived, OpenWindow, Log
  <1> QED BY <1>5 DEF Windows!Next

\* Every step maps to a step of OnceOnlyWindows or to a stutter.
LEMMA NextRefines == TypeOK /\ WindowInv /\ [Next]_vars => [Windows!Next]_(Windows!vars)
  <1> SUFFICES ASSUME TypeOK, WindowInv, [Next]_vars PROVE [Windows!Next]_(Windows!vars)
    OBVIOUS
  <1>1. CASE UNCHANGED vars
    BY <1>1, StutterOrClose DEF vars, redisVars, procVars, runVars
  <1>2. CASE Next
    BY <1>2, HandleEventRefines, ProcessRefines, PollerRefines, OthersRefine DEF Next
  <1> QED BY <1>1, <1>2

\* Implements: the pipeline, with any number of instances, crashes and failed
\* commands, implements OnceOnlyWindows.
THEOREM Implements ==
    ASSUME ~LockMayExpire
    PROVE  Spec => ImplementsWindows
  BY WindowsInit, NextRefines, TypeCorrect, WindowInvariant, PTL
     DEF Spec, ImplementsWindows, Windows!Spec

-----------------------------------------------------------------------------
(***************************************************************************)
(* What a run may send, and with which configuration.                      *)
(***************************************************************************)

-----------------------------------------------------------------------------
(* A cancelled dispatch posts at most one more part *)

\* A run that posted a part after its cancellation is about to notice.
Overshot(r) ==
    /\ late[r] <= 1
    /\ late[r] > 0 => /\ r <= launches
                      /\ run[r] \notin {"start", "call", "reply", "send"}
                      /\ run[r] = "check" => IsCancelled(r)
OvershootInv == \A r \in Runs : Overshot(r)

\* The steps that leave the runs alone, or launch one, or end some.
LEMMA OvershootFrame ==
    ASSUME TypeOK, OvershootInv, UNCHANGED late, launches' \in {launches, launches + 1},
           cancelled \subseteq cancelled',
           \A r \in Runs : r <= launches =>
               job'[r] = job[r] /\ (run'[r] = run[r] \/ run'[r] \in RunEnds)
    PROVE  OvershootInv'
  <1> SUFFICES ASSUME NEW r \in Runs, late[r] > 0 PROVE Overshot(r)'
    BY DEF OvershootInv, Overshot, TypeOK, RunTypeOK
  <1>1. r <= launches BY DEF OvershootInv, Overshot
  <1>2. r <= launches' BY <1>1, BoundsAssumption DEF TypeOK, RunTypeOK, Runs
  <1>3. job'[r] = job[r] /\ (run'[r] = run[r] \/ run'[r] \in RunEnds) BY <1>1
  <1> QED BY <1>1, <1>2, <1>3 DEF OvershootInv, Overshot, IsCancelled, RunEnds

\* A launch leaves the runs already there alone.
LEMMA LaunchKeepsRuns ==
    ASSUME TypeOK, NEW i \in Instances, NEW win, NEW prompt, LaunchAIStage(i, win, prompt)
    PROVE  /\ UNCHANGED late /\ launches' \in {launches, launches + 1}
           /\ \A r \in Runs : r <= launches => job'[r] = job[r] /\ run'[r] = run[r]
  <1> USE BoundsAssumption DEF TypeOK, RunTypeOK, Runs
  <1>1. CASE entries[i] = None BY <1>1 DEF LaunchAIStage, runVars
  <1>2. CASE entries[i] # None
    <2>1. UNCHANGED late /\ launches' = launches + 1 BY <1>2 DEF LaunchAIStage
    <2>2. run' = [run EXCEPT ![launches'] = "start"] BY <1>2, <2>1 DEF LaunchAIStage
    <2>3. \E j : job' = [job EXCEPT ![launches'] = j] BY <1>2, <2>1 DEF LaunchAIStage
    <2>4. \A r \in Runs : r <= launches => r # launches' BY <2>1
    <2> QED BY <2>1, <2>2, <2>3, <2>4
  <1> QED BY <1>1, <1>2

\* A run posts one part at a time and looks at its context in between.
LEMMA PipelineOvershoot ==
    ASSUME TypeOK, OvershootInv, NEW r \in Runs, Pipeline(r) \/ RunPanic(r)
    PROVE  OvershootInv'
  <1> USE DEF memVars, redisVars, RunGoto
  <1>1. UNCHANGED <<cancelled, launches, job>>
    BY DEF Pipeline, RunStart, RunCall, RunReply, RunCheck, RunSend, RunMarkDone, RunClearDone,
           RunDelete, RunClear, RunPanic
  <1>2. \E pc : run' = [run EXCEPT ![r] = pc]
    BY DEF Pipeline, RunStart, RunCall, RunReply, RunCheck, RunSend, RunMarkDone, RunClearDone,
           RunDelete, RunClear, RunPanic
  <1>3. run \in [Runs -> RunPCs] /\ late \in [Runs -> Nat] /\ (run[r] # "idle" => r <= launches)
    BY DEF TypeOK, RunTypeOK
  <1>4. Overshot(r)'
    <2> USE <1>3 DEF OvershootInv, Overshot, IsCancelled
    <2>1. CASE RunStart(r) BY <1>1, <2>1 DEF RunStart
    <2>2. CASE RunCall(r) BY <1>1, <2>2 DEF RunCall
    <2>3. CASE RunReply(r) BY <1>1, <2>3 DEF RunReply
    <2>4. CASE RunCheck(r) BY <1>1, <2>4 DEF RunCheck
    <2>5. CASE RunSend(r) BY <1>1, <2>5 DEF RunSend
    <2>6. CASE RunMarkDone(r) BY <1>1, <2>6 DEF RunMarkDone
    <2>7. CASE RunClearDone(r) BY <1>1, <2>7 DEF RunClearDone
    <2>8. CASE RunDelete(r) BY <1>1, <2>8 DEF RunDelete
    <2>9. CASE RunClear(r) BY <1>1, <2>9 DEF RunClear
    <2>10. CASE RunPanic(r) BY <1>1, <2>10 DEF RunPanic
    <2> QED BY <2>1, <2>2, <2>3, <2>4, <2>5, <2>6, <2>7, <2>8, <2>9, <2>10 DEF Pipeline
  <1>5. \A q \in Runs : q # r => late'[q] = late[q]
    BY <1>3 DEF Pipeline, RunStart, RunCall, RunReply, RunCheck, RunSend, RunMarkDone,
       RunClearDone, RunDelete, RunClear, RunPanic
  <1>6. ASSUME NEW q \in Runs, q # r PROVE Overshot(q)'
    <2>1. run'[q] = run[q] /\ late'[q] = late[q] BY <1>2, <1>3, <1>5, <1>6
    <2> QED BY <1>1, <2>1 DEF OvershootInv, Overshot, IsCancelled
  <1> QED BY <1>4, <1>6 DEF OvershootInv

\* Every step keeps the overshoot at one.
LEMMA NextOvershoot ==
    ASSUME TypeOK, OvershootInv, [Next]_vars
    PROVE  OvershootInv'
  <1> USE DEF redisVars, memVars, procVars, pollVars, runVars
  <1>1. ASSUME NEW ev \in Events, NEW i \in Instances, HandleEvent(ev, i) PROVE OvershootInv'
    BY <1>1, OvershootFrame DEF HandleEvent, TypeOK, RunTypeOK
  <1>2. ASSUME NEW ev \in Events, Process(ev) PROVE OvershootInv'
    <2>1. cancelled \subseteq cancelled'
      BY <1>2 DEF Process, ProcLock, ProcRead, ProcCancelPair, ProcClear, ProcOpen, ProcTimer,
         ProcWindow, ProcGrab, ProcSkip, ProcAppend, ProcResetTimer, ProcUnlock, CancelPair,
         OrAbandon
    <2>2. CASE ProcSkip(ev) /\ ~UNCHANGED runVars
      <3>1. LaunchAIStage(at[ev], ev, grab[ev]) /\ at[ev] \in Instances
        BY <2>2 DEF ProcSkip, TypeOK, ProcTypeOK, ProcHolds
      <3> QED BY <2>1, <3>1, LaunchKeepsRuns, OvershootFrame
    <2>3. CASE UNCHANGED runVars BY <2>1, <2>3, OvershootFrame
    <2>4. ProcSkip(ev) \/ UNCHANGED runVars
      BY <1>2 DEF Process, ProcLock, ProcRead, ProcCancelPair, ProcClear, ProcOpen, ProcTimer,
         ProcWindow, ProcGrab, ProcAppend, ProcResetTimer, ProcUnlock
    <2> QED BY <2>2, <2>3, <2>4
  <1>3. ASSUME NEW i \in Instances, Poller(i) \/ Start(i) PROVE OvershootInv'
    <2>1. UNCHANGED cancelled
      BY <1>3 DEF Poller, Start, PollEntry, PollTimer, PollAcquire, PollRead, PollRecheck,
         PollCollect, PollAdvance, PollUnlock, StartScan, StartRecover, StartTimer, StartServing
    <2>2. CASE PollAdvance(i) /\ ~UNCHANGED runVars
      <3>1. LaunchAIStage(i, seen[i].win, seen[i].prompt) BY <2>2 DEF PollAdvance
      <3> QED BY <2>1, <3>1, LaunchKeepsRuns, OvershootFrame
    <2>3. CASE UNCHANGED runVars BY <2>1, <2>3, OvershootFrame
    <2>4. PollAdvance(i) \/ UNCHANGED runVars
      BY <1>3 DEF Poller, Start, PollEntry, PollTimer, PollAcquire, PollRead, PollRecheck,
         PollCollect, PollUnlock, StartScan, StartRecover, StartTimer, StartServing
    <2> QED BY <2>2, <2>3, <2>4
  <1>4. ASSUME NEW r \in Runs, Pipeline(r) \/ RunPanic(r) PROVE OvershootInv'
    BY <1>4, PipelineOvershoot
  <1>5. CASE TimerExpires \/ LockExpires
    BY <1>5, OvershootFrame DEF TimerExpires, LockExpires
  <1>6. ASSUME NEW i \in Instances, Shutdown(i) \/ Exit(i) \/ Crash(i) \/ Restart(i)
        PROVE  OvershootInv'
    <2>1. UNCHANGED <<launches, job, late>> /\ cancelled \subseteq cancelled'
      BY <1>6 DEF Shutdown, Exit, Crash, Die, Restart
    <2>2. \A r \in Runs : run'[r] = run[r] \/ run'[r] \in RunEnds
      BY <1>6 DEF Shutdown, Exit, Crash, Die, Restart, RunEnds
    <2> QED BY <2>1, <2>2, OvershootFrame
  <1>7. CASE UNCHANGED vars
    BY <1>7, OvershootFrame DEF vars
  <1> QED BY <1>1, <1>2, <1>3, <1>4, <1>5, <1>6, <1>7 DEF Next

\* Overshoot: whatever happens to locks, commands and instances, a cancelled
\* dispatch posts at most the part it was already sending.
THEOREM Overshoot == Spec => []OvershootOne
  <1>1. Init => OvershootInv
    BY BoundsAssumption DEF Init, OvershootInv, Overshot, Runs
  <1>2. TypeOK /\ OvershootInv /\ [Next]_vars => OvershootInv' BY NextOvershoot
  <1>3. OvershootInv => OvershootOne BY DEF OvershootInv, Overshot, OvershootOne
  <1> QED BY <1>1, <1>2, <1>3, TypeCorrect, PTL DEF Spec

-----------------------------------------------------------------------------
(***************************************************************************)
(* With one instance, a run uses the BotConfig of the event that opened    *)
(* its window, whatever was recovered, replaced or interrupted on the way. *)
(***************************************************************************)

OneInstance == \A i, k \in Instances : i = k

\* The counters of Process between entries.Store and the use of the entry,
\* and those of the poller once it has read the open window under the lock.
Opened == {"timer", "window", "grab", "skip"}
Advancing == {"recheck", "collect", "advance"}

\* The entry carries the BotConfig of event e, or there is none.
Carries(i, e) == entries[i] # None => entries[i][1] = e

\* The entry is the one of the open window, of the window being opened, and
\* of the window being advanced.
EntryOfWindow == stage = "debounce" => \A i \in Instances : Carries(i, cfg)
EntryOfOpener == \A e \in Events : proc[e] \in Opened => Carries(at[e], e)
EntryOfAdvance == \A i \in Instances : poll[i] \in Advancing => Carries(i, seen[i].win)

ConfigInv ==
    /\ EntryOfWindow /\ EntryOfOpener /\ EntryOfAdvance
    /\ ConfigMatchesWindow

\* A step that at most removes entries and closes the window, moves nobody
\* into the counters above and launches nothing.
LEMMA ConfigFrame ==
    ASSUME TypeOK, ConfigInv,
           stage' = "debounce" => stage = "debounce" /\ cfg' = cfg,
           \A i \in Instances : entries'[i] \in {entries[i], None},
           \A e \in Events : proc'[e] \in Opened => proc[e] \in Opened /\ at'[e] = at[e],
           \A i \in Instances : poll'[i] \in Advancing =>
               poll[i] \in Advancing /\ seen'[i].win = seen[i].win,
           UNCHANGED <<launches, job>>
    PROVE  ConfigInv'
  <1>1. \A i \in Instances, e \in Events : Carries(i, e) => Carries(i, e)' BY DEF Carries
  <1>2. \A e \in Events : proc[e] \in Opened => at[e] \in Instances
    BY DEF TypeOK, ProcTypeOK, Opened, ProcHolds
  <1>3. EntryOfWindow' BY <1>1 DEF ConfigInv, EntryOfWindow, Carries
  <1>4. EntryOfOpener' BY <1>2 DEF ConfigInv, EntryOfOpener, Carries
  <1>5. EntryOfAdvance' BY DEF ConfigInv, EntryOfAdvance, Carries
  <1>6. ConfigMatchesWindow' BY DEF ConfigInv, ConfigMatchesWindow, Launched
  <1> QED BY <1>3, <1>4, <1>5, <1>6 DEF ConfigInv

\* Launching with the entry of the window keeps every run's configuration.
LEMMA ConfigLaunch ==
    ASSUME TypeOK, ConfigMatchesWindow, NEW i \in Instances, NEW win, NEW prompt,
           Carries(i, win), LaunchAIStage(i, win, prompt) \/ UNCHANGED <<launches, job>>
    PROVE  ConfigMatchesWindow'
  <1>1. CASE UNCHANGED <<launches, job>> BY <1>1 DEF ConfigMatchesWindow, Launched
  <1>2. CASE LaunchAIStage(i, win, prompt) /\ ~UNCHANGED <<launches, job>>
    <2> DEFINE j == [ctx |-> entries[i], at |-> i, win |-> win, prompt |-> prompt]
    <2>1. entries[i] # None BY <1>2 DEF LaunchAIStage, runVars
    <2>2. j.ctx[1] = j.win BY <2>1 DEF Carries
    <2> HIDE DEF j
    <2>3. /\ job'[launches'] = j
          /\ \A r \in Launched : job'[r] = job[r]
          /\ Launched' = Launched \cup {launches'}
      BY <1>2, LaunchFacts DEF j
    <2> QED BY <2>2, <2>3 DEF ConfigMatchesWindow
  <1> QED BY <1>1, <1>2

\* Process stores the configuration where it opens a window.
LEMMA ProcessConfig ==
    ASSUME OneInstance, TypeOK, WindowInv, ConfigInv, NEW ev \in Events, Process(ev)
    PROVE  ConfigInv'
  <1> USE DEF redisVars, memVars, procVars, pollVars, runVars
  <1>a. /\ proc \in [Events -> ProcPCs] /\ entries \in [Instances -> Ctxs \cup {None}]
        /\ proc[ev] \in ProcHolds => at[ev] \in Instances
    BY DEF TypeOK, ProcTypeOK, MemTypeOK
  <1>b. proc[ev] \in Opening => stage # "debounce" BY DEF WindowInv, OpeningAlone, Opening
  <1>c. proc[ev] \in ProcHolds =>
            /\ \A e \in Events : proc[e] \in ProcHolds => e = ev
            /\ \A i \in Instances : poll[i] \notin PollHolds
    BY ProcessAlone DEF WindowInv
  <1>1. CASE /\ \E pc \in ProcPCs \ Opened : ProcGoto(ev, pc)
             /\ stage' = "debounce" => stage = "debounce" /\ cfg' = cfg
             /\ \A i \in Instances : entries'[i] \in {entries[i], None}
             /\ UNCHANGED <<at, poll, seen, launches, job>>
    <2>1. \A e \in Events : proc'[e] \in Opened => proc[e] \in Opened
      BY <1>1, <1>a DEF ProcGoto
    <2> QED BY <1>1, <2>1, ConfigFrame
  <1>2. CASE ProcLock(ev)
    BY <1>1, <1>2 DEF ProcLock, ProcPCs, ProcHolds, ProcEnds, Opened
  <1>3. CASE ProcRead(ev)
    <2>1. \E pc \in ProcPCs \ Opened : ProcGoto(ev, pc)
      BY <1>3 DEF ProcRead, Route, ProcPCs, ProcHolds, Opened
    <2> QED BY <1>1, <1>3, <2>1 DEF ProcRead
  <1>4. CASE ProcCancelPair(ev)
    <2>1. \E pc \in ProcPCs \ Opened : ProcGoto(ev, pc)
      BY <1>4 DEF ProcCancelPair, ProcPCs, ProcHolds, Opened
    <2>2. \A i \in Instances : entries'[i] \in {entries[i], None}
      BY <1>4, <1>a DEF ProcCancelPair, CancelPair
    <2> QED BY <1>1, <1>4, <2>1, <2>2 DEF ProcCancelPair
  <1>5. CASE ProcClear(ev)
    <2>1. \E pc \in ProcPCs \ Opened : ProcGoto(ev, pc)
      BY <1>5 DEF ProcClear, ProcPCs, ProcHolds, Opened
    <2>2. stage' = "debounce" => stage = "debounce" /\ cfg' = cfg
      BY <1>5 DEF ProcClear, ClearState, SetState
    <2> QED BY <1>1, <1>5, <2>1, <2>2 DEF ProcClear
  <1>6. CASE ProcOpen(ev)
    <2> USE <1>6, <1>a DEF ProcOpen
    <2>1. stage' # "debounce" BY <1>b DEF Opening, ProcHolds
    <2>2. at[ev] \in Instances /\ entries'[at[ev]] \in {None, OwnCtx(ev)}
      BY DEF ProcHolds, OrAbandon
    <2>3. Carries(at[ev], ev)' BY <2>2 DEF Carries, OwnCtx
    <2>4. \A e \in Events : proc'[e] \in Opened => e = ev
      BY <1>c DEF OrAbandon, ProcGoto, Opened, ProcHolds
    <2>5. EntryOfOpener' BY <2>3, <2>4 DEF EntryOfOpener, Carries
    <2>6. EntryOfAdvance' BY <1>c DEF EntryOfAdvance, Advancing, PollHolds, ProcHolds
    <2>7. ConfigMatchesWindow' BY DEF ConfigInv, ConfigMatchesWindow, Launched
    <2> QED BY <2>1, <2>5, <2>6, <2>7 DEF ConfigInv, EntryOfWindow
  <1>d. ASSUME proc[ev] \in Opened, \E o, pc : OrAbandon(o, ev, pc), UNCHANGED at
        PROVE  /\ \A i \in Instances : entries'[i] \in {entries[i], None}
               /\ \A e \in Events : proc'[e] \in Opened => proc[e] \in Opened /\ at'[e] = at[e]
    BY <1>a, <1>d DEF OrAbandon, ProcGoto, Opened
  <1>7. CASE ProcTimer(ev)
    BY <1>7, <1>d, ConfigFrame DEF ProcTimer, Opened
  <1>8. CASE ProcWindow(ev)
    <2> USE <1>8, <1>a DEF ProcWindow
    <2>1. stage' = "debounce" => cfg' = ev
      BY <1>b DEF Opening, ProcHolds, SetState
    <2>2. /\ \A i \in Instances : entries'[i] \in {entries[i], None}
          /\ \A e \in Events : proc'[e] \in Opened => proc[e] \in Opened
      BY <1>d DEF Opened
    <2>3. \A i \in Instances : Carries(i, ev)
      BY DEF ConfigInv, EntryOfOpener, Opened, OneInstance, ProcHolds
    <2>4. EntryOfWindow' BY <2>1, <2>2, <2>3 DEF EntryOfWindow, Carries
    <2>5. EntryOfOpener' BY <2>2 DEF ConfigInv, EntryOfOpener, Carries, TypeOK, ProcTypeOK,
                                     Opened, ProcHolds
    <2>6. EntryOfAdvance' BY <2>2 DEF ConfigInv, EntryOfAdvance, Carries
    <2>7. ConfigMatchesWindow' BY DEF ConfigInv, ConfigMatchesWindow, Launched
    <2> QED BY <2>4, <2>5, <2>6, <2>7 DEF ConfigInv
  <1>9. CASE ProcGrab(ev)
    BY <1>9, <1>d, ConfigFrame DEF ProcGrab, Opened
  <1>10. CASE ProcSkip(ev)
    <2> USE <1>10, <1>a DEF ProcSkip
    <2>1. stage' # "debounce" BY <1>b DEF Opening, ProcHolds, SetState
    <2>2. /\ \A i \in Instances : entries'[i] \in {entries[i], None}
          /\ \A e \in Events : proc'[e] \in Opened => proc[e] \in Opened
      BY <1>d DEF Opened
    <2>3. at[ev] \in Instances /\ Carries(at[ev], ev)
      BY DEF ConfigInv, EntryOfOpener, Opened, ProcHolds
    <2>4. LaunchAIStage(at[ev], ev, grab[ev]) \/ UNCHANGED <<launches, job>> OBVIOUS
    <2>5. ConfigMatchesWindow' BY <2>3, <2>4, ConfigLaunch DEF ConfigInv
    <2>6. EntryOfOpener' BY <2>2 DEF ConfigInv, EntryOfOpener, Carries, TypeOK, ProcTypeOK,
                                     Opened, ProcHolds
    <2>7. EntryOfAdvance' BY <2>2 DEF ConfigInv, EntryOfAdvance, Carries
    <2> QED BY <2>1, <2>5, <2>6, <2>7 DEF ConfigInv, EntryOfWindow
  <1>11. CASE ProcAppend(ev)
    BY <1>1, <1>11 DEF ProcAppend, ProcPCs, ProcHolds, Opened
  <1>12. CASE ProcResetTimer(ev)
    BY <1>1, <1>12 DEF ProcResetTimer, ProcPCs, ProcHolds, Opened
  <1>13. CASE ProcUnlock(ev)
    BY <1>1, <1>13 DEF ProcUnlock, ProcPCs, ProcHolds, ProcEnds, Opened
  <1> QED BY <1>2, <1>3, <1>4, <1>5, <1>6, <1>7, <1>8, <1>9, <1>10, <1>11, <1>12, <1>13
          DEF Process

\* A poller hands the run the configuration of its window.
LEMMA PollerConfig ==
    ASSUME TypeOK, WindowInv, ConfigInv, NEW i \in Instances, Poller(i) \/ Start(i)
    PROVE  ConfigInv'
  <1> USE DEF redisVars, memVars, procVars, pollVars, runVars
  <1>a. /\ poll \in [Instances -> PollPCs] /\ seen \in [Instances -> Seen]
        /\ entries \in [Instances -> Ctxs \cup {None}]
    BY DEF TypeOK, PollTypeOK, MemTypeOK
  \* Most steps only move the poller outside the critical section, or on
  \* inside them without another look at the window.
  <1>b. ASSUME UNCHANGED <<stage, cfg, entries, proc, at, launches, job>>,
               \A k \in Instances : poll'[k] \in Advancing =>
                   poll[k] \in Advancing /\ seen'[k].win = seen[k].win
        PROVE  ConfigInv'
    BY <1>b, ConfigFrame
  <1>1. CASE PollEntry(i) BY <1>1, <1>a, <1>b DEF PollEntry, PollGoto, Advancing
  <1>2. CASE PollTimer(i) BY <1>2, <1>a, <1>b DEF PollTimer, PollGoto, Advancing
  <1>3. CASE PollAcquire(i) BY <1>3, <1>a, <1>b DEF PollAcquire, PollGoto, Advancing
  <1>4. CASE PollRead(i)
    <2>1. CASE PollGoto(i, "unlock") /\ UNCHANGED seen
      BY <1>4, <2>1, <1>a, <1>b DEF PollRead, PollGoto, Advancing
    <2>2. CASE /\ stage = "debounce" /\ seen' = [seen EXCEPT ![i].win = cfg]
               /\ PollGoto(i, "recheck")
      <3> USE <1>4, <2>2, <1>a DEF PollRead, PollGoto
      <3>1. seen'[i].win = cfg BY DEF Seen
      <3>2. \A k \in Instances : k # i => seen'[k] = seen[k] /\ poll'[k] = poll[k] OBVIOUS
      <3>3. Carries(i, cfg) BY DEF ConfigInv, EntryOfWindow
      <3>4. EntryOfAdvance' BY <3>1, <3>2, <3>3 DEF ConfigInv, EntryOfAdvance, Carries
      <3> QED BY <3>4 DEF ConfigInv, EntryOfWindow, EntryOfOpener, ConfigMatchesWindow,
                          Carries, Launched
    <2> QED BY <1>4, <2>1, <2>2 DEF PollRead
  <1>5. CASE PollRecheck(i) BY <1>5, <1>a, <1>b DEF PollRecheck, PollGoto, Advancing
  <1>6. CASE PollCollect(i)
    <2>1. seen'[i].win = seen[i].win BY <1>6, <1>a DEF PollCollect, Seen
    <2>2. \A k \in Instances : k # i => seen'[k] = seen[k] BY <1>6, <1>a DEF PollCollect
    <2> QED BY <1>6, <2>1, <2>2, <1>a, <1>b DEF PollCollect, PollGoto, Advancing
  <1>7. CASE PollAdvance(i)
    <2> USE <1>7, <1>a DEF PollAdvance
    <2>1. Carries(i, seen[i].win) BY DEF ConfigInv, EntryOfAdvance, Advancing
    <2>2. LaunchAIStage(i, seen[i].win, seen[i].prompt) \/ UNCHANGED <<launches, job>> OBVIOUS
    <2>3. ConfigMatchesWindow' BY <2>1, <2>2, ConfigLaunch DEF ConfigInv
    <2>4. EntryOfWindow' BY DEF ConfigInv, EntryOfWindow, SetState, Carries
    <2>5. EntryOfOpener' BY DEF ConfigInv, EntryOfOpener, Carries
    <2>6. EntryOfAdvance' BY DEF ConfigInv, EntryOfAdvance, PollGoto, Carries, Advancing
    <2> QED BY <2>3, <2>4, <2>5, <2>6 DEF ConfigInv
  <1>8. CASE PollUnlock(i) BY <1>8, <1>a, <1>b DEF PollUnlock, PollGoto, Advancing
  <1>9. CASE StartScan(i) BY <1>9, <1>a, <1>b DEF StartScan, PollGoto, Advancing
  <1>10. CASE StartRecover(i)
    <2>1. CASE UNCHANGED entries
      BY <1>10, <2>1, <1>a, <1>b DEF StartRecover, PollGoto, Advancing
    <2>2. CASE stage = "debounce" /\ entries' = [entries EXCEPT ![i] = IF @ = None THEN <<cfg, boot[i]>> ELSE @]
      <3> USE <1>10, <2>2, <1>a DEF StartRecover
      <3>1. \A e \in Events : proc[e] \notin Opened
        BY DEF WindowInv, OpeningAlone, Opened, ProcHolds
      <3>2. EntryOfOpener' BY <3>1 DEF EntryOfOpener
      <3>3. \A k \in Instances : k # i => entries'[k] = entries[k] OBVIOUS
      <3>4. entries'[i] = entries[i] \/ entries'[i] = <<cfg, boot[i]>> OBVIOUS
      <3>5. EntryOfWindow' BY <3>3, <3>4 DEF ConfigInv, EntryOfWindow, Carries
      <3>6. EntryOfAdvance' BY <3>3 DEF ConfigInv, EntryOfAdvance, PollGoto, Carries, Advancing
      <3>7. ConfigMatchesWindow' BY DEF ConfigInv, ConfigMatchesWindow, Launched
      <3> QED BY <3>2, <3>5, <3>6, <3>7 DEF ConfigInv
    <2> QED BY <1>10, <2>1, <2>2 DEF StartRecover
  <1>11. CASE StartTimer(i) BY <1>11, <1>a, <1>b DEF StartTimer, PollGoto, Advancing
  <1>12. CASE StartServing(i) BY <1>12, <1>a, <1>b DEF StartServing
  <1> QED BY <1>1, <1>2, <1>3, <1>4, <1>5, <1>6, <1>7, <1>8, <1>9, <1>10, <1>11, <1>12
          DEF Poller, Start

\* The other steps leave configurations alone.
LEMMA OthersConfig ==
    ASSUME TypeOK, ConfigInv,
           \/ \E ev \in Events, i \in Instances : HandleEvent(ev, i)
           \/ \E r \in Runs : Pipeline(r) \/ RunPanic(r)
           \/ TimerExpires \/ LockExpires
           \/ \E i \in Instances : Shutdown(i) \/ Exit(i) \/ Crash(i) \/ Restart(i)
           \/ UNCHANGED vars
    PROVE  ConfigInv'
  <1> USE DEF redisVars, memVars, procVars, pollVars, runVars
  <1>a. /\ proc \in [Events -> ProcPCs] /\ poll \in [Instances -> PollPCs]
        /\ seen \in [Instances -> Seen] /\ entries \in [Instances -> Ctxs \cup {None}]
    BY DEF TypeOK, ProcTypeOK, PollTypeOK, MemTypeOK
  <1>1. ASSUME NEW ev \in Events, NEW i \in Instances, HandleEvent(ev, i) PROVE ConfigInv'
    <2>1. \A e \in Events : proc'[e] \in Opened => proc[e] \in Opened /\ at'[e] = at[e]
      BY <1>1, <1>a DEF HandleEvent, ProcGoto, Opened, TypeOK, ProcTypeOK
    <2>2. stage' = "debounce" => stage = "debounce" /\ cfg' = cfg
      BY <1>1 DEF HandleEvent, SetState
    <2> QED BY <1>1, <2>1, <2>2, ConfigFrame DEF HandleEvent
  <1>2. ASSUME NEW r \in Runs, Pipeline(r) \/ RunPanic(r) PROVE ConfigInv'
    <2>1. UNCHANGED <<procVars, pollVars, launches, job>>
      BY <1>2 DEF Pipeline, RunStart, RunCall, RunReply, RunCheck, RunSend, RunMarkDone,
             RunClearDone, RunDelete, RunClear, RunPanic
    <2>2. stage' = "debounce" => stage = "debounce" /\ cfg' = cfg
      BY <1>2 DEF Pipeline, RunStart, RunCall, RunReply, RunCheck, RunSend, RunMarkDone,
             RunClearDone, RunDelete, RunClear, RunPanic, SetState, ClearState
    <2>3. \A i \in Instances : entries'[i] \in {entries[i], None}
      BY <1>2, <1>a DEF Pipeline, RunStart, RunCall, RunReply, RunCheck, RunSend, RunMarkDone,
             RunClearDone, RunDelete, RunClear, RunPanic
    <2> QED BY <2>1, <2>2, <2>3, ConfigFrame
  <1>3. CASE TimerExpires \/ LockExpires
    BY <1>3, ConfigFrame DEF TimerExpires, LockExpires
  <1>4. ASSUME NEW i \in Instances, Die(i) PROVE ConfigInv'
    <2> USE <1>4, <1>a DEF Die
    <2>1. \A e \in Events : proc'[e] \in Opened => proc[e] \in Opened BY DEF Opened
    <2>2. \A k \in Instances : poll'[k] \in Advancing =>
              poll[k] \in Advancing /\ seen'[k].win = seen[k].win
      BY DEF Advancing
    <2> QED BY <2>1, <2>2, ConfigFrame
  <1>5. ASSUME NEW i \in Instances, Shutdown(i) \/ Restart(i) PROVE ConfigInv'
    <2>1. \A k \in Instances : poll'[k] \in Advancing =>
              poll[k] \in Advancing /\ seen'[k].win = seen[k].win
      BY <1>5, <1>a DEF Shutdown, Restart, PollGoto, Advancing
    <2> QED BY <1>5, <2>1, ConfigFrame DEF Shutdown, Restart
  <1>6. CASE UNCHANGED vars BY <1>6, ConfigFrame DEF vars
  <1> QED BY <1>1, <1>2, <1>3, <1>4, <1>5, <1>6 DEF Exit, Crash

\* OwnConfig: with one instance whose lock does not expire under its holder, a
\* run uses the BotConfig of its window, also after restarts and
\* interruptions: the map entry found at the launch is the window's own.
THEOREM OwnConfig ==
    ASSUME ~LockMayExpire, OneInstance
    PROVE  Spec => []ConfigMatchesWindow
  <1>1. Init => ConfigInv
    BY BoundsAssumption DEF Init, ConfigInv, EntryOfWindow, EntryOfOpener, EntryOfAdvance,
           ConfigMatchesWindow, Launched, Opened, Advancing
  <1>2. TypeOK /\ WindowInv /\ ConfigInv /\ [Next]_vars => ConfigInv'
    BY ProcessConfig, PollerConfig, OthersConfig DEF Next
  <1>3. ConfigInv => ConfigMatchesWindow BY DEF ConfigInv
  <1> QED BY <1>1, <1>2, <1>3, TypeCorrect, WindowInvariant, PTL DEF Spec

=============================================================================
