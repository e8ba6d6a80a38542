----------------------------- MODULE BotPipeline -----------------------------
(***************************************************************************)
(* The message pipeline of evo-bot-runtime for ONE contact + conversation  *)
(* pair, run by several instances of the service over one Redis.           *)
(*                                                                         *)
(* POST /events writes the stage "incoming" and starts a Process goroutine *)
(* for the event.  Process takes the pair's Redis lock and opens a         *)
(* debounce window, extends the open one, or interrupts the run in         *)
(* progress.  Each instance has one poller that turns an expired window    *)
(* into a run: a call to the AI service, then the parts of the answer      *)
(* posted one by one.  Every Redis key is per pair, so pairs are           *)
(* independent and one pair is the whole model.                            *)
(*                                                                         *)
(* A Redis command is one atomic step; work on the instance's memory is    *)
(* merged with a neighbouring command only where the two commute.          *)
(*                                                                         *)
(* A definition that no action uses (AcquireLockAlways, RouteReopens,      *)
(* PollReadBlind, ...) is a bug the one below it could have had; TLC       *)
(* confirms that the properties at the end tell the two apart.             *)
(***************************************************************************)
EXTENDS Naturals, FiniteSets

CONSTANTS
    Events,         \* deliveries of POST /events for the pair
    Debounced,      \* those whose BotConfig.DebounceTime is positive
    Instances,      \* evo-bot-runtime processes sharing the Redis
    None,           \* "no entry", "no lock holder", "no persisted config"
    MaxParts,       \* bound: parts a reply is segmented into
    MaxRuns,        \* bound: runs launched in a behaviour
    MaxCrashes,     \* bound: crashes and shutdowns in a behaviour
    MaxFaults,      \* bound: failed Redis commands and panics in a behaviour
    LockMayExpire   \* may the lock's TTL pass while its holder still works?

ASSUME DebouncedAssumption == Debounced \subseteq Events
ASSUME BoundsAssumption ==
    /\ MaxParts \in Nat \ {0} /\ MaxRuns \in Nat
    /\ MaxCrashes \in Nat /\ MaxFaults \in Nat
ASSUME LockAssumption == LockMayExpire \in BOOLEAN

Runs == 1..MaxRuns

\* A pipeline context.  Its first component is the event whose BotConfig the
\* entry carries; the second is 0 when that event's Process created the entry
\* and the number of the restart when Start recovered it from Redis.
Ctxs == Events \X (0..MaxCrashes)

ASSUME NamesAssumption ==
    /\ Events \cap Instances = {}
    /\ None \notin Events \cup Instances \cup Ctxs

VARIABLES
    \* Redis, the keys of the pair
    stage,          \* state key: the Stage, "none" when the key is absent
    cfg,            \* state key: event whose BotConfig it carries
    buffer,         \* buffer key: the events whose content was appended
    timer,          \* timer key: does it exist?
    lock,           \* lock key: the Process or the poller that holds it
    \* the memory of each instance
    phase,          \* life cycle of the process
    boot,           \* number of the crash it was last restarted after
    entries,        \* sync.Map: context of the pair's pipelineEntry
    cancelled,      \* contexts whose CancelFunc was called
    \* Process goroutines, one per event
    proc,           \* program counter
    at,             \* instance that accepted the event
    grab,           \* buffer read by skipDebounce
    \* the poller of each instance
    poll,           \* program counter
    seen,           \* what the current iteration has read
    \* runAIStage / runDispatchStage goroutines
    launches,       \* how many were launched
    run,            \* program counter
    job,            \* arguments the goroutine was launched with
    left,           \* parts still to be sent
    late,           \* history: parts posted after the context was cancelled
    \* bounds
    crashes, faults

redisVars == <<stage, cfg, buffer, timer, lock>>
memVars   == <<phase, boot, entries, cancelled>>
procVars  == <<proc, at, grab>>
pollVars  == <<poll, seen>>
runVars   == <<launches, run, job, left, late>>
vars == <<redisVars, memVars, procVars, pollVars, runVars, crashes, faults>>

-----------------------------------------------------------------------------
(* Types *)

Stages == {"none", "incoming", "debounce", "ai", "dispatch", "done"}
Phases == {"booting", "serving", "stopping", "down"}

ProcHolds == {"read", "cancel", "interrupt", "clear", "open", "timer",
              "window", "grab", "skip", "append", "resetTimer", "unlock"}
ProcEnds  == {"done", "lost", "refused", "gone"}
ProcPCs   == {"idle", "lock"} \cup ProcHolds \cup ProcEnds

PollHolds == {"read", "recheck", "collect", "advance", "unlock"}
PollPCs   == {"scan", "recover", "bootTimer", "idle", "timer", "acquire"}
                \cup PollHolds

RunEnds   == {"done", "gone"}
RunPCs    == {"idle", "start", "call", "reply", "check", "send", "clear",
              "markDone", "clearDone", "delete"} \cup RunEnds

Seen == [ctx: Ctxs \cup {None}, win: Events \cup {None}, prompt: SUBSET Events]
Job  == [ctx: Ctxs, at: Instances, win: Events \cup {None},
         prompt: SUBSET Events]

NothingSeen == [ctx |-> None, win |-> None, prompt |-> {}]

RedisTypeOK ==
    /\ stage \in Stages
    /\ cfg \in Events \cup {None}
    /\ stage = "debounce" <=> cfg # None
    /\ buffer \in SUBSET Events
    /\ timer \in BOOLEAN
    /\ lock \in Events \cup Instances \cup {None}

MemTypeOK ==
    /\ phase \in [Instances -> Phases]
    /\ boot \in [Instances -> 0..MaxCrashes]
    /\ entries \in [Instances -> Ctxs \cup {None}]
    /\ cancelled \in SUBSET Ctxs

ProcTypeOK ==
    /\ proc \in [Events -> ProcPCs]
    /\ at \in [Events -> Instances \cup {None}]
    /\ \A e \in Events : proc[e] \in {"lock"} \cup ProcHolds => at[e] \in Instances
    /\ \A e \in Events : proc[e] = "idle" => at[e] = None
    /\ grab \in [Events -> SUBSET Events]

PollTypeOK ==
    /\ poll \in [Instances -> PollPCs]
    /\ seen \in [Instances -> Seen]

RunTypeOK ==
    /\ launches \in 0..MaxRuns
    /\ run \in [Runs -> RunPCs]
    /\ job \in [Runs -> Job \cup {None}]
    /\ \A r \in Runs : run[r] # "idle" <=> r <= launches
    /\ \A r \in Runs : r <= launches => job[r] \in Job
    /\ left \in [Runs -> 0..MaxParts]
    /\ \A r \in Runs : run[r] \in {"check", "send"} => left[r] > 0
    /\ late \in [Runs -> Nat]

\* TypeOK: every key, map and goroutine is in a state the code can name; a
\* goroutine past its launch has its arguments.
TypeOK ==
    /\ RedisTypeOK /\ MemTypeOK /\ ProcTypeOK /\ PollTypeOK /\ RunTypeOK
    /\ crashes \in 0..MaxCrashes /\ faults \in 0..MaxFaults

-----------------------------------------------------------------------------
(* Helpers *)

\* A write to Redis succeeds, fails without effect, or takes effect although
\* its reply never reaches the caller.
Outcomes == {"ok", "failed", "unknown"}
Fault == faults < MaxFaults /\ faults' = faults + 1
Answer(o) == IF o = "ok" THEN UNCHANGED faults ELSE Fault
Applied(o) == o # "failed"

\* SetState: the whole value of the state key is replaced.
SetState(o, s, c) ==
    /\ stage' = IF Applied(o) THEN s ELSE stage
    /\ cfg'   = IF Applied(o) THEN c ELSE cfg

\* ClearState: one DEL of the state, buffer and timer keys.
ClearState(o) ==
    /\ SetState(o, "none", None)
    /\ buffer' = IF Applied(o) THEN {} ELSE buffer
    /\ timer'  = IF Applied(o) THEN FALSE ELSE timer

AppendToBuffer(o, ev) == buffer' = IF Applied(o) THEN buffer \cup {ev} ELSE buffer
SetTimer(o) == timer' = IF Applied(o) THEN TRUE ELSE timer

ProcGoto(ev, pc) == proc' = [proc EXCEPT ![ev] = pc]
PollGoto(i, pc)  == poll' = [poll EXCEPT ![i] = pc]
RunGoto(r, pc)   == run' = [run EXCEPT ![r] = pc]

\* AcquireLock: SET NX, tried once; any error is ErrLockFailed for the caller.
AcquireLockAlways(holder) == lock' = holder
AcquireLock(holder) == lock = None /\ lock' = holder
LockFailed == \/ lock # None /\ UNCHANGED <<lock, faults>>
              \/ Fault /\ UNCHANGED lock

\* The deferred Unlock: Redis deletes the key only if it still holds the
\* caller's token.
Unlock(holder) ==
    \/ lock' = (IF lock = holder THEN None ELSE lock) /\ UNCHANGED faults
    \/ UNCHANGED lock /\ Fault

\* cancelPair: LoadAndDelete the entry and cancel its context.
CancelPair(i) ==
    /\ entries' = [entries EXCEPT ![i] = None]
    /\ cancelled' = cancelled \cup ({entries[i]} \ {None})

OwnCtx(ev) == <<ev, 0>>

\* launchAIStage: the run gets the entry found in the map at this moment.
LaunchAIStage(i, win, prompt) ==
    IF entries[i] = None
    THEN UNCHANGED runVars
    ELSE /\ launches < MaxRuns
         /\ launches' = launches + 1
         /\ run' = [run EXCEPT ![launches + 1] = "start"]
         /\ job' = [job EXCEPT ![launches + 1] =
                        [ctx |-> entries[i], at |-> i, win |-> win, prompt |-> prompt]]
         /\ UNCHANGED <<left, late>>

Launched == 1..launches
IsCancelled(r) == job[r].ctx \in cancelled

-----------------------------------------------------------------------------
Init ==
    /\ stage = "none" /\ cfg = None /\ buffer = {} /\ timer = FALSE /\ lock = None
    /\ phase = [i \in Instances |-> "serving"]
    /\ boot = [i \in Instances |-> 0]
    /\ entries = [i \in Instances |-> None]
    /\ cancelled = {}
    /\ proc = [e \in Events |-> "idle"]
    /\ at = [e \in Events |-> None]
    /\ grab = [e \in Events |-> {}]
    /\ poll = [i \in Instances |-> "idle"]
    /\ seen = [i \in Instances |-> NothingSeen]
    /\ launches = 0
    /\ run = [r \in Runs |-> "idle"]
    /\ job = [r \in Runs |-> None]
    /\ left = [r \in Runs |-> 0]
    /\ late = [r \in Runs |-> 0]
    /\ crashes = 0 /\ faults = 0

-----------------------------------------------------------------------------
(* POST /events and the Process goroutine *)

\* handleEvent: persist StageIncoming, without the lock, then start Process
\* and answer 202; a failed write is answered 500 and nothing is started.
HandleEvent(ev, i) ==
    /\ phase[i] = "serving" /\ proc[ev] = "idle"
    /\ \E o \in Outcomes :
          /\ Answer(o)
          /\ SetState(o, "incoming", None)
          /\ ProcGoto(ev, IF o = "ok" THEN "lock" ELSE "refused")
    /\ at' = [at EXCEPT ![ev] = i]
    /\ UNCHANGED <<buffer, timer, lock, memVars, grab, pollVars, runVars, crashes>>

\* The loser of the lock returns ErrLockFailed for good.
ProcLock(ev) ==
    /\ proc[ev] = "lock"
    /\ \/ AcquireLock(ev) /\ ProcGoto(ev, "read") /\ UNCHANGED faults
       \/ LockFailed /\ ProcGoto(ev, "lost")
    /\ UNCHANGED <<stage, cfg, buffer, timer, memVars, at, grab, pollVars, runVars, crashes>>

\* The switch of Process; it has no case for StageDone, which leaves Process.
RouteReopens(s) ==
    IF s \in {"none", "incoming", "debounce"} THEN "cancel"
    ELSE IF s \in {"ai", "dispatch"} THEN "interrupt" ELSE "unlock"
Route(s) ==
    IF s \in {"none", "incoming"} THEN "cancel"
    ELSE IF s = "debounce" THEN "append"
    ELSE IF s \in {"ai", "dispatch"} THEN "interrupt" ELSE "unlock"

ProcRead(ev) ==
    /\ proc[ev] = "read"
    /\ \/ ProcGoto(ev, Route(stage)) /\ UNCHANGED faults
       \/ ProcGoto(ev, "unlock") /\ Fault
    /\ UNCHANGED <<redisVars, memVars, at, grab, pollVars, runVars, crashes>>

ProcCancelPair(ev) ==
    /\ proc[ev] \in {"cancel", "interrupt"}
    /\ CancelPair(at[ev])
    /\ ProcGoto(ev, IF proc[ev] = "cancel" THEN "open" ELSE "clear")
    /\ UNCHANGED <<redisVars, phase, boot, at, grab, pollVars, runVars, crashes, faults>>

ProcClear(ev) ==
    /\ proc[ev] = "clear"
    /\ \E o \in Outcomes :
          /\ Answer(o)
          /\ ClearState(o)
          /\ ProcGoto(ev, IF o = "ok" THEN "open" ELSE "unlock")
    /\ UNCHANGED <<lock, memVars, at, grab, pollVars, runVars, crashes>>

\* What startDebounce and skipDebounce do on an error: cancel the context just
\* created and delete the map entry, whatever it holds; otherwise go on.
OrAbandon(o, ev, next) ==
    /\ ProcGoto(ev, IF o = "ok" THEN next ELSE "unlock")
    /\ IF o = "ok"
       THEN UNCHANGED <<entries, cancelled>>
       ELSE /\ entries' = [entries EXCEPT ![at[ev]] = None]
            /\ cancelled' = cancelled \cup {OwnCtx(ev)}

\* entries.Store, then the RPUSH of debounce.Start.
ProcOpen(ev) ==
    /\ proc[ev] = "open"
    /\ \E o \in Outcomes :
          /\ Answer(o)
          /\ AppendToBuffer(o, ev)
          /\ IF o = "ok"
             THEN /\ entries' = [entries EXCEPT ![at[ev]] = OwnCtx(ev)]
                  /\ ProcGoto(ev, IF ev \in Debounced THEN "timer" ELSE "grab")
                  /\ UNCHANGED cancelled
             ELSE OrAbandon(o, ev, "unlock")
    /\ UNCHANGED <<stage, cfg, timer, lock, phase, boot, at, grab, pollVars, runVars, crashes>>

\* The SET of the timer key in debounce.Start.
ProcTimer(ev) ==
    /\ proc[ev] = "timer"
    /\ \E o \in Outcomes :
          /\ Answer(o)
          /\ SetTimer(o)
          /\ OrAbandon(o, ev, "window")
    /\ UNCHANGED <<stage, cfg, buffer, lock, phase, boot, at, grab, pollVars, runVars, crashes>>

\* startDebounce persists StageDebounce together with the event's BotConfig.
ProcWindow(ev) ==
    /\ proc[ev] = "window"
    /\ \E o \in Outcomes :
          /\ Answer(o)
          /\ SetState(o, "debounce", ev)
          /\ OrAbandon(o, ev, "unlock")
    /\ UNCHANGED <<buffer, timer, lock, phase, boot, at, grab, pollVars, runVars, crashes>>

\* skipDebounce reads the buffer back ...
ProcGrab(ev) ==
    /\ proc[ev] = "grab"
    /\ \E o \in {"ok", "failed"} :
          /\ Answer(o)
          /\ OrAbandon(o, ev, "skip")
    /\ grab' = [grab EXCEPT ![ev] = buffer]
    /\ UNCHANGED <<redisVars, phase, boot, at, pollVars, runVars, crashes>>

\* ... sets StageAI and launches the run.
ProcSkip(ev) ==
    /\ proc[ev] = "skip"
    /\ \E o \in Outcomes :
          /\ Answer(o)
          /\ SetState(o, "ai", None)
          /\ OrAbandon(o, ev, "unlock")
          /\ IF o = "ok" THEN LaunchAIStage(at[ev], ev, grab[ev]) ELSE UNCHANGED runVars
    /\ UNCHANGED <<buffer, timer, lock, phase, boot, at, grab, pollVars, crashes>>

\* resetDebounce: the two commands of debounce.Reset.
ProcAppendStores(ev) ==
    /\ proc[ev] = "append"
    /\ AppendToBuffer("ok", ev)
    /\ entries' = [entries EXCEPT ![at[ev]] = OwnCtx(ev)]
    /\ ProcGoto(ev, IF ev \in Debounced THEN "resetTimer" ELSE "unlock")
    /\ UNCHANGED <<stage, cfg, timer, lock, phase, boot, cancelled, at, grab, pollVars, runVars,
                   crashes, faults>>

ProcAppend(ev) ==
    /\ proc[ev] = "append"
    /\ \E o \in Outcomes :
          /\ Answer(o)
          /\ AppendToBuffer(o, ev)
          /\ ProcGoto(ev, IF o = "ok" /\ ev \in Debounced THEN "resetTimer" ELSE "unlock")
    /\ UNCHANGED <<stage, cfg, timer, lock, memVars, at, grab, pollVars, runVars, crashes>>

ProcResetTimer(ev) ==
    /\ proc[ev] = "resetTimer"
    /\ \E o \in Outcomes : Answer(o) /\ SetTimer(o)
    /\ ProcGoto(ev, "unlock")
    /\ UNCHANGED <<stage, cfg, buffer, lock, memVars, at, grab, pollVars, runVars, crashes>>

\* The deferred mu.Unlock.
ProcUnlock(ev) ==
    /\ proc[ev] = "unlock"
    /\ Unlock(ev)
    /\ ProcGoto(ev, "done")
    /\ UNCHANGED <<stage, cfg, buffer, timer, memVars, at, grab, pollVars, runVars, crashes>>

Process(ev) ==
    \/ ProcLock(ev) \/ ProcRead(ev) \/ ProcCancelPair(ev) \/ ProcClear(ev)
    \/ ProcOpen(ev) \/ ProcTimer(ev) \/ ProcWindow(ev)
    \/ ProcGrab(ev) \/ ProcSkip(ev)
    \/ ProcAppend(ev) \/ ProcResetTimer(ev) \/ ProcUnlock(ev)

-----------------------------------------------------------------------------
(* The poller: pollDebounceExpiry and advanceToAI *)

\* An iteration that finds an entry, not cancelled, in StageDebounce; one that
\* finds anything else changes nothing.
PollEntry(i) ==
    /\ phase[i] = "serving" /\ poll[i] = "idle"
    /\ entries[i] # None /\ entries[i] \notin cancelled
    /\ stage = "debounce"
    /\ seen' = [seen EXCEPT ![i].ctx = entries[i]]
    /\ PollGoto(i, "timer")
    /\ UNCHANGED <<redisVars, memVars, procVars, runVars, crashes, faults>>

\* TimerExists is asked under the entry's context.
PollTimer(i) ==
    /\ poll[i] = "timer"
    /\ \/ ~timer /\ seen[i].ctx \notin cancelled /\ PollGoto(i, "acquire") /\ UNCHANGED faults
       \/ (timer \/ seen[i].ctx \in cancelled) /\ PollGoto(i, "idle") /\ UNCHANGED faults
       \/ PollGoto(i, "idle") /\ Fault
    /\ UNCHANGED <<redisVars, memVars, procVars, seen, runVars, crashes>>

PollAcquire(i) ==
    /\ poll[i] = "acquire"
    /\ \/ AcquireLock(i) /\ PollGoto(i, "read") /\ UNCHANGED faults
       \/ LockFailed /\ PollGoto(i, "idle")
    /\ UNCHANGED <<stage, cfg, buffer, timer, memVars, procVars, seen, runVars, crashes>>

\* The stage is re-checked under the lock; the window is the one now open.
PollReadBlind(i) ==
    /\ poll[i] = "read"
    /\ seen' = [seen EXCEPT ![i].win = cfg]
    /\ PollGoto(i, "recheck")
    /\ UNCHANGED <<redisVars, memVars, procVars, runVars, crashes, faults>>

PollRead(i) ==
    /\ poll[i] = "read"
    /\ \/ /\ stage = "debounce" /\ UNCHANGED faults
          /\ seen' = [seen EXCEPT ![i].win = cfg]
          /\ PollGoto(i, "recheck")
       \/ /\ \/ stage # "debounce" /\ UNCHANGED faults
             \/ Fault
          /\ PollGoto(i, "unlock")
          /\ UNCHANGED seen
    /\ UNCHANGED <<redisVars, memVars, procVars, runVars, crashes>>

PollRecheckSkipped(i) ==
    /\ poll[i] = "recheck"
    /\ PollGoto(i, "collect")
    /\ UNCHANGED <<redisVars, memVars, procVars, seen, runVars, crashes, faults>>

PollRecheck(i) ==
    /\ poll[i] = "recheck"
    /\ \/ ~timer /\ PollGoto(i, "collect") /\ UNCHANGED faults
       \/ timer /\ PollGoto(i, "unlock") /\ UNCHANGED faults
       \/ PollGoto(i, "unlock") /\ Fault
    /\ UNCHANGED <<redisVars, memVars, procVars, seen, runVars, crashes>>

PollCollect(i) ==
    /\ poll[i] = "collect"
    /\ \/ /\ seen' = [seen EXCEPT ![i].prompt = buffer]
          /\ PollGoto(i, "advance") /\ UNCHANGED faults
       \/ PollGoto(i, "unlock") /\ UNCHANGED seen /\ Fault
    /\ UNCHANGED <<redisVars, memVars, procVars, runVars, crashes>>

PollAdvanceUnpersisted(i) ==
    /\ poll[i] = "advance"
    /\ LaunchAIStage(i, seen[i].win, seen[i].prompt)
    /\ PollGoto(i, "unlock")
    /\ UNCHANGED <<redisVars, memVars, procVars, seen, crashes, faults>>

PollAdvance(i) ==
    /\ poll[i] = "advance"
    /\ \E o \in Outcomes :
          /\ Answer(o)
          /\ SetState(o, "ai", None)
          /\ IF o = "ok" THEN LaunchAIStage(i, seen[i].win, seen[i].prompt)
                         ELSE UNCHANGED runVars
    /\ PollGoto(i, "unlock")
    /\ UNCHANGED <<buffer, timer, lock, memVars, procVars, seen, crashes>>

PollUnlock(i) ==
    /\ poll[i] = "unlock"
    /\ Unlock(i)
    /\ PollGoto(i, "idle")
    /\ UNCHANGED <<stage, cfg, buffer, timer, memVars, procVars, seen, runVars, crashes>>

Poller(i) ==
    \/ PollEntry(i) \/ PollTimer(i) \/ PollAcquire(i) \/ PollRead(i)
    \/ PollRecheck(i) \/ PollCollect(i) \/ PollAdvance(i) \/ PollUnlock(i)

-----------------------------------------------------------------------------
(* Start: recovery before the poller and the HTTP server run *)

StartScanNothing(i) ==
    /\ phase[i] = "booting" /\ poll[i] = "scan"
    /\ PollGoto(i, "idle")
    /\ UNCHANGED <<redisVars, memVars, procVars, seen, runVars, crashes, faults>>

StartScan(i) ==
    /\ phase[i] = "booting" /\ poll[i] = "scan"
    /\ PollGoto(i, IF stage = "none" THEN "idle" ELSE "recover")
    /\ UNCHANGED <<redisVars, memVars, procVars, seen, runVars, crashes, faults>>

\* Only StageDebounce is recovered; the entry gets the persisted BotConfig.
StartRecover(i) ==
    /\ phase[i] = "booting" /\ poll[i] = "recover"
    /\ \/ /\ stage = "debounce" /\ UNCHANGED faults
          /\ entries' = [entries EXCEPT ![i] = IF @ = None THEN <<cfg, boot[i]>> ELSE @]
          /\ PollGoto(i, "bootTimer")
       \/ /\ \/ stage # "debounce" /\ UNCHANGED faults
             \/ Fault
          /\ PollGoto(i, "idle")
          /\ UNCHANGED entries
    /\ UNCHANGED <<redisVars, phase, boot, cancelled, procVars, seen, runVars, crashes>>

\* A timer that expired during the restart: advanceToAI at once.
StartTimer(i) ==
    /\ phase[i] = "booting" /\ poll[i] = "bootTimer"
    /\ \/ PollGoto(i, IF timer THEN "idle" ELSE "acquire") /\ UNCHANGED faults
       \/ PollGoto(i, "idle") /\ Fault
    /\ UNCHANGED <<redisVars, memVars, procVars, seen, runVars, crashes>>

StartServing(i) ==
    /\ phase[i] = "booting" /\ poll[i] = "idle"
    /\ phase' = [phase EXCEPT ![i] = "serving"]
    /\ UNCHANGED <<redisVars, boot, entries, cancelled, procVars, pollVars, runVars, crashes, faults>>

Start(i) == StartScan(i) \/ StartRecover(i) \/ StartTimer(i) \/ StartServing(i)

-----------------------------------------------------------------------------
(* A run: runAIStage followed by runDispatchStage *)

\* The URL and key of the AI service are read from the map again; without an
\* entry the URL is empty and the call fails at once.
RunStart(r) ==
    /\ run[r] = "start"
    /\ RunGoto(r, IF entries[job[r].at] # None THEN "call"
                  ELSE IF IsCancelled(r) THEN "done" ELSE "clear")
    /\ UNCHANGED <<redisVars, memVars, procVars, pollVars, launches, job, left, late,
                   crashes, faults>>

\* aiAdapter.Call.  A request that fails after cancellation is
\* ErrPipelineCancelled; a timeout, a bad status or a reply that cannot be
\* read to the end is not, cancelled or not.
RunCall(r) ==
    /\ run[r] = "call"
    /\ \/ IsCancelled(r) /\ RunGoto(r, "done")
       \/ RunGoto(r, "clear")
       \/ RunGoto(r, "reply")
    /\ UNCHANGED <<redisVars, memVars, procVars, pollVars, launches, job, left, late,
                   crashes, faults>>

\* The answer is there: StageDispatch is set without the lock and without a
\* look at the context, and the answer is cut into parts.
RunReply(r) ==
    /\ run[r] = "reply"
    /\ \E o \in Outcomes, n \in 1..MaxParts :
          /\ Answer(o)
          /\ SetState(o, "dispatch", None)
          /\ RunGoto(r, IF o = "ok" THEN "check" ELSE "clear")
          /\ left' = [left EXCEPT ![r] = n]
    /\ UNCHANGED <<buffer, timer, lock, memVars, procVars, pollVars, launches, job, late, crashes>>

RunCheckSkipped(r) ==
    /\ run[r] = "check"
    /\ RunGoto(r, "send")
    /\ UNCHANGED <<redisVars, memVars, procVars, pollVars, launches, job, left, late,
                   crashes, faults>>

RunCheck(r) ==
    /\ run[r] = "check"
    /\ RunGoto(r, IF IsCancelled(r) THEN "done" ELSE "send")
    /\ UNCHANGED <<redisVars, memVars, procVars, pollVars, launches, job, left, late,
                   crashes, faults>>

RunSendOffByOne(r) ==
    /\ run[r] = "send"
    /\ left' = [left EXCEPT ![r] = @ - 1]
    /\ late' = [late EXCEPT ![r] = IF IsCancelled(r) THEN @ + 1 ELSE @]
    /\ RunGoto(r, IF left[r] = 0 THEN "markDone" ELSE "check")
    /\ UNCHANGED <<redisVars, memVars, procVars, pollVars, launches, job, crashes, faults>>

\* sendPart: the CRM may have taken the part although the caller sees an error.
RunSend(r) ==
    /\ run[r] = "send"
    /\ \E delivered, ok \in BOOLEAN :
          /\ ok => delivered
          /\ left' = [left EXCEPT ![r] = IF ok THEN @ - 1 ELSE @]
          /\ late' = [late EXCEPT ![r] = IF delivered /\ IsCancelled(r) THEN @ + 1 ELSE @]
          /\ RunGoto(r, IF ~ok THEN "clear" ELSE IF left[r] = 1 THEN "markDone" ELSE "check")
    /\ UNCHANGED <<redisVars, memVars, procVars, pollVars, launches, job, crashes, faults>>

\* Success: StageDone, ClearState and entries.Delete, errors ignored.
RunMarkDone(r) ==
    /\ run[r] = "markDone"
    /\ \E o \in Outcomes : Answer(o) /\ SetState(o, "done", None)
    /\ RunGoto(r, "clearDone")
    /\ UNCHANGED <<buffer, timer, lock, memVars, procVars, pollVars, launches, job, left, late,
                   crashes>>

\* ClearState on the success path and in recoverPipeline, which both go on to
\* delete the map entry ...
RunClearDone(r) ==
    /\ run[r] = "clearDone"
    /\ \E o \in Outcomes : Answer(o) /\ ClearState(o)
    /\ RunGoto(r, "delete")
    /\ UNCHANGED <<lock, memVars, procVars, pollVars, launches, job, left, late, crashes>>

\* ... whatever entry the map holds by then.
RunDelete(r) ==
    /\ run[r] = "delete"
    /\ entries' = [entries EXCEPT ![job[r].at] = None]
    /\ RunGoto(r, "done")
    /\ UNCHANGED <<redisVars, phase, boot, cancelled, procVars, pollVars, launches, job, left,
                   late, crashes, faults>>

\* The error branches: ClearState only.
RunClear(r) ==
    /\ run[r] = "clear"
    /\ \E o \in Outcomes : Answer(o) /\ ClearState(o)
    /\ RunGoto(r, "done")
    /\ UNCHANGED <<lock, memVars, procVars, pollVars, launches, job, left, late, crashes>>

\* A panic in either stage is recovered by clearing the state and the entry.
RunPanic(r) ==
    /\ run[r] \in {"start", "call", "check", "send"}
    /\ Fault
    /\ RunGoto(r, "clearDone")
    /\ UNCHANGED <<redisVars, memVars, procVars, pollVars, launches, job, left, late, crashes>>

Pipeline(r) ==
    \/ RunStart(r) \/ RunCall(r) \/ RunReply(r) \/ RunCheck(r) \/ RunSend(r)
    \/ RunMarkDone(r) \/ RunClearDone(r) \/ RunDelete(r) \/ RunClear(r)

-----------------------------------------------------------------------------
(* Time, crashes, restarts *)

TimerExpires ==
    /\ timer
    /\ timer' = FALSE
    /\ UNCHANGED <<stage, cfg, buffer, lock, memVars, procVars, pollVars, runVars, crashes, faults>>

\* Is the holder named by the lock key still between Lock and Unlock?
HolderWorks ==
    \/ \E e \in Events : lock = e /\ proc[e] \in ProcHolds
    \/ \E i \in Instances : lock = i /\ poll[i] \in PollHolds

LockExpires ==
    /\ lock # None
    /\ LockMayExpire \/ ~HolderWorks
    /\ lock' = None
    /\ UNCHANGED <<stage, cfg, buffer, timer, memVars, procVars, pollVars, runVars, crashes, faults>>

\* Each stop takes the next number, which marks what the restart recovers.
CountStop(i) ==
    /\ crashes < MaxCrashes
    /\ crashes' = crashes + 1
    /\ boot' = [boot EXCEPT ![i] = crashes + 1]

\* Shutdown: no more requests, contexts cancelled (and left in the map), no
\* further iteration of the poller; goroutines go on until the process ends.
Shutdown(i) ==
    /\ phase[i] = "serving"
    /\ CountStop(i)
    /\ phase' = [phase EXCEPT ![i] = "stopping"]
    /\ cancelled' = cancelled \cup ({entries[i]} \ {None})
    /\ UNCHANGED <<redisVars, entries, procVars, pollVars, runVars, faults>>

\* The process is gone, with its map and all its goroutines; Redis stays.
Die(i) ==
    /\ phase' = [phase EXCEPT ![i] = "down"]
    /\ entries' = [entries EXCEPT ![i] = None]
    /\ proc' = [e \in Events |-> IF at[e] = i /\ proc[e] \notin ProcEnds THEN "gone" ELSE proc[e]]
    /\ poll' = [poll EXCEPT ![i] = "idle"]
    /\ seen' = [seen EXCEPT ![i] = NothingSeen]
    /\ run' = [r \in Runs |-> IF /\ r <= launches
                                 /\ job[r].at = i
                                 /\ run[r] \notin RunEnds THEN "gone" ELSE run[r]]
    /\ UNCHANGED <<redisVars, cancelled, at, grab, launches, job, left, late, faults>>

Exit(i)  == phase[i] = "stopping" /\ Die(i) /\ UNCHANGED <<boot, crashes>>
Crash(i) == phase[i] \in {"booting", "serving"} /\ CountStop(i) /\ Die(i)

Restart(i) ==
    /\ phase[i] = "down"
    /\ phase' = [phase EXCEPT ![i] = "booting"]
    /\ PollGoto(i, "scan")
    /\ UNCHANGED <<redisVars, boot, entries, cancelled, procVars, seen, runVars, crashes, faults>>

-----------------------------------------------------------------------------
Next ==
    \/ \E ev \in Events, i \in Instances : HandleEvent(ev, i)
    \/ \E ev \in Events : Process(ev)
    \/ \E i \in Instances : Poller(i) \/ Start(i)
    \/ \E r \in Runs : Pipeline(r) \/ RunPanic(r)
    \/ TimerExpires \/ LockExpires
    \/ \E i \in Instances : Shutdown(i) \/ Exit(i) \/ Crash(i) \/ Restart(i)

Spec == Init /\ [][Next]_vars

\* Goroutines are scheduled, the poller's ticker keeps ticking, keys with a
\* TTL expire, a stopping process ends and Kubernetes restarts it.
Fairness ==
    /\ \A ev \in Events : WF_vars(Process(ev))
    /\ \A i \in Instances : WF_vars(Poller(i)) /\ WF_vars(Start(i))
    /\ \A r \in Runs : WF_vars(Pipeline(r))
    /\ WF_vars(TimerExpires) /\ WF_vars(LockExpires)
    /\ \A i \in Instances : WF_vars(Exit(i)) /\ WF_vars(Restart(i))

FairSpec == Spec /\ Fairness
-----------------------------------------------------------------------------
(* Properties *)

\* ExactlyOnce: one debounce window, or one immediate event, is turned into at
\* most one AI run, whichever instances poll it, crash and recover it
\* (advanceToAI re-checks the stage under the lock; skipDebounce holds it).
ExactlyOnce ==
    \A r, q \in Launched : r # q => job[r].win # job[q].win

\* LaunchIsQuiet: an open window is advanced to the AI stage only when its
\* timer has run out, also when a message extended it after the poller first
\* saw the timer expired (the second TimerExists of advanceToAI).
LaunchIsQuiet == [][stage = "debounce" /\ stage' = "ai" => ~timer]_vars

\* PromptCoversBuffer: a run is launched with everything the buffer holds at
\* that moment: no message slips in between GetBuffer and the launch to be
\* left behind (the lock spans both, in advanceToAI and in skipDebounce).
PromptCoversBuffer ==
    [][launches' # launches => buffer \subseteq job'[launches'].prompt]_vars

\* OvershootOne: once its context is cancelled, a dispatch posts at most the
\* part whose sending had already begun (Dispatch looks at the context before
\* each part).
OvershootOne == \A r \in Runs : late[r] <= 1

\* ConfigMatchesWindow: a run uses the BotConfig of the event that opened its
\* window, also when the window was recovered after a restart and when other
\* events replaced the map entry in between.  Promised for one instance: with
\* two, the map entry of the polling instance can be a stale one.
ConfigMatchesWindow ==
    \A r \in Launched : job[r].ctx[1] = job[r].win

Processed(ev) == \E r \in Launched : ev \in job[r].prompt

\* WindowFires: a debounce window that was persisted is eventually turned into
\* a run carrying its messages, across crashes and restarts of any instance
\* (the recovery in Start, "zero message loss").  For a single event: what
\* later events do to an open window is the subject of the properties below.
WindowFires == \A ev \in Events :
    (stage = "debounce" /\ cfg = ev) ~> Processed(ev)

\* The windows of the pair as a reader of the Redis keys and of the launches
\* sees them.
Windows == INSTANCE OnceOnlyWindows WITH
    arrived <- {e \in Events : proc[e] # "idle"},
    open    <- IF stage = "debounce" THEN cfg ELSE None,
    log     <- [r \in Launched |-> job[r].win]

\* ImplementsWindows: the pipeline implements OnceOnlyWindows: windows never
\* nest, a run belongs to the open window or to the one just superseded, and
\* none gets a second run, with any number of instances, crashes and failed
\* commands (the two checks of advanceToAI under the lock).
ImplementsWindows == Windows!Spec

-----------------------------------------------------------------------------
(* The inductive invariant behind these properties *)

LockHeld ==
    /\ \A e \in Events : proc[e] \in ProcHolds => lock = e
    /\ \A i \in Instances : poll[i] \in PollHolds => lock = i

\* Process has opened its window or launched its run, or never will.
Settled(e) == proc[e] \in {"unlock"} \cup ProcEnds
Fired == {job[r].win : r \in Launched}

Fresh(e) == e \in Events /\ Settled(e) /\ e \notin Fired

WindowFresh == stage = "debounce" => Fresh(cfg)
FiredSettled == \A r \in Launched : job[r].win \in Events /\ Settled(job[r].win)

OpeningAlone == \A e \in Events :
    proc[e] \in ProcHolds \ {"read", "append", "resetTimer", "unlock"} => stage # "debounce"

AdvanceReady == \A i \in Instances :
    poll[i] \in {"recheck", "collect", "advance"} =>
        /\ Fresh(seen[i].win)
        /\ stage = "debounce" => cfg = seen[i].win
        /\ poll[i] # "recheck" /\ stage = "debounce" => ~timer

PromptReady ==
    /\ \A i \in Instances : poll[i] = "advance" => buffer \subseteq seen[i].prompt
    /\ \A e \in Events : proc[e] = "skip" => buffer \subseteq grab[e]

\* WindowInv: whoever is between Lock and Unlock is the only one, an open
\* window has not fired and its opener will not touch it again, and what the
\* poller read under the lock is still true when it advances the window.
WindowInv ==
    /\ LockHeld /\ ExactlyOnce
    /\ WindowFresh /\ FiredSettled /\ OpeningAlone /\ AdvanceReady /\ PromptReady

-----------------------------------------------------------------------------
(* Statements of the source that the model refutes *)

\* LockLoserProcessed (e2e_test.go on ErrLockFailed): the event that loses the
\* lock "is not lost; it is processed once the lock is released".
LockLoserProcessed == \A ev \in Events : proc[ev] = "lost" ~> Processed(ev)

\* WindowNotDestroyed (runAIStage and runDispatchStage, "Do NOT call
\* ClearState: would destroy the new active state"): an open window ends by
\* being advanced or by the arrival of a new event, never by the clean-up of
\* an older run.
WindowNotDestroyed ==
    [][stage = "debounce" => stage' \in {"debounce", "ai", "incoming"}]_vars

\* OwnEntryOnly (runDispatchStage, "could delete the replacement entry"): a
\* finished run removes from the map the entry it was launched with, never the
\* one a newer event has stored.
OwnEntryOnly ==
    [][\A r \in Runs : run[r] = "delete" /\ run'[r] = "done"
            => entries[job[r].at] \in {None, job[r].ctx}]_vars

Live(r) == run[r] \notin {"idle"} \cup RunEnds /\ ~IsCancelled(r)

\* OnePipeline (AcquireLock, "exactly-one-pipeline semantics per
\* contact+conversation pair"): no two runs that nobody has cancelled.
OnePipeline == \A r, q \in Launched : Live(r) /\ Live(q) => r = q

\* IncomingIsDurable (handleEvent, "Guarantees event durability if the process
\* goroutine never runs"): an accepted event whose instance died while the
\* pair was in StageIncoming is still processed, after the restart.
IncomingIsDurable == \A ev \in Events :
    (proc[ev] = "gone" /\ stage = "incoming") ~> Processed(ev)
=============================================================================
