------------------------------- MODULE ChatSync -------------------------------
(***************************************************************************)
(* How the terminal server delivers logged chat messages to PostgreSQL:    *)
(* ChatLogger.append writes a line to the JSONL log and puts the message   *)
(* into the memory queue of ChatSyncQueue, whose drain loop posts one      *)
(* message at a time to /api/chat-messages and keeps the failed ones for   *)
(* the next round; a full queue spills to the .pending file.  One session, *)
(* hence one .synced and one .pending file; a message counts as one unit   *)
(* of the queue's size.  The backend inserts a row once per uuid, behind   *)
(* the highest seq of the session.                                         *)
(*                                                                         *)
(* _drain iterates the live array: what append pushes while it awaits an   *)
(* answer is still visited before the array is replaced.                   *)
(***************************************************************************)
EXTENDS Naturals, Sequences

CONSTANTS
    Messages,    \* uuids of the messages of the session
    QueueLimit,  \* maxQueueSize: a longer queue spills
    MaxFaults,   \* bound: failed or unanswered posts
    MaxCrashes   \* bound: restarts of the terminal server

ASSUME BoundsAssumption ==
    QueueLimit \in Nat /\ MaxFaults \in Nat /\ MaxCrashes \in Nat

VARIABLES
    log,       \* the JSONL log
    queue,     \* this.queue
    failed,    \* stillPending of the drain under way
    pos,       \* the array iterator of the drain, 0 between drains
    running,   \* this.running: a drain or its retry timer is active
    synced,    \* the .synced file
    pending,   \* the .pending file
    wire,      \* posts the backend may still process
    rows,      \* agent_chat_messages by seq
    lost,      \* history variable: messages a restart dropped from memory
    faults, crashes

diskVars   == <<log, synced, pending>>
memoryVars == <<queue, failed, pos, running>>
countVars  == <<lost, faults, crashes>>
vars == <<diskVars, memoryVars, wire, rows, countVars>>

-----------------------------------------------------------------------------
Elems(s) == {s[i] : i \in 1..Len(s)}
Logged == Elems(log)
Stored == Elems(rows)

Current == queue[pos]

Init ==
    /\ log = <<>> /\ queue = <<>> /\ failed = <<>> /\ pos = 0 /\ running = FALSE
    /\ synced = {} /\ pending = {} /\ wire = {} /\ rows = <<>>
    /\ lost = {} /\ faults = 0 /\ crashes = 0

\* Mutant of AppendMessage: every message starts a drain of its own.
AppendStartsAgain(m) ==
    /\ m \notin Logged
    /\ log' = Append(log, m)
    /\ queue' = Append(queue, m) /\ running' = TRUE
    /\ pos' = (IF pos = 0 THEN 1 ELSE pos) /\ wire' = wire \cup {m}
    /\ UNCHANGED <<failed, synced, pending, rows, countVars>>

\* append and enqueue: the log first; start() runs the drain up to its first
\* await, that is, until the message is on the wire.
AppendMessage(m) ==
    /\ m \notin Logged
    /\ log' = Append(log, m)
    /\ IF Len(queue) > QueueLimit
       THEN pending' = pending \cup {m} /\ UNCHANGED <<memoryVars, wire>>
       ELSE /\ queue' = Append(queue, m)
            /\ running' = TRUE
            /\ IF running THEN UNCHANGED <<pos, wire>>
                          ELSE pos' = 1 /\ wire' = wire \cup {m}
            /\ UNCHANGED <<failed, pending>>
    /\ UNCHANGED <<synced, rows, countVars>>

\* create_chat_message: one row per uuid, at MAX(seq) + 1.
Insert(m) ==
    /\ m \in wire
    /\ wire' = wire \ {m}
    /\ rows' = IF m \in Stored THEN rows ELSE Append(rows, m)
    /\ UNCHANGED <<diskVars, memoryVars, countVars>>

\* Mutants of Advance: the loop is bounded by a length read before the awaits,
\* no timer is set for what is left.
AdvanceCachedLength(kept) ==
    \E n \in pos..Len(queue) :
        IF pos < n
        THEN /\ pos' = pos + 1 /\ failed' = kept
             /\ UNCHANGED <<queue, running>>
        ELSE /\ pos' = 0 /\ failed' = <<>> /\ queue' = kept
             /\ running' = (kept # <<>>)

AdvanceStops(kept) ==
    IF pos < Len(queue)
    THEN /\ pos' = pos + 1 /\ failed' = kept
         /\ UNCHANGED <<queue, running>>
    ELSE pos' = 0 /\ failed' = <<>> /\ queue' = kept /\ running' = FALSE

\* The loop of _drain goes on with the items that kept; behind the last one the
\* array is replaced, and tick sets the retry timer or stops.
Advance(kept) ==
    IF pos < Len(queue)
    THEN /\ pos' = pos + 1 /\ failed' = kept
         /\ UNCHANGED <<queue, running>>
    ELSE /\ pos' = 0 /\ failed' = <<>> /\ queue' = kept
         /\ running' = (kept # <<>>)

\* Where the loop sends next, it puts that message on the wire.
Posted(w) == IF pos < Len(queue) THEN w \cup {queue[pos + 1]} ELSE w

\* Mutant of Answered: any status counts as delivered.
AnsweredAnyhow ==
    /\ pos > 0
    /\ synced' \in {synced, synced \cup {Current}}
    /\ Advance(failed)
    /\ wire' = Posted(wire \ {Current})
    /\ UNCHANGED <<log, pending, rows, countVars>>

\* 201: the post was processed; _markSynced may fail, which is only logged.
Answered ==
    /\ pos > 0 /\ Current \in Stored /\ Current \notin wire
    /\ synced' \in {synced, synced \cup {Current}}
    /\ Advance(failed)
    /\ wire' = Posted(wire)
    /\ UNCHANGED <<log, pending, rows, countVars>>

\* An error, another status or five silent seconds: resolve(false), and the
\* message is kept.  The post may be on its way still.
PostFails ==
    /\ pos > 0 /\ faults < MaxFaults
    /\ faults' = faults + 1
    /\ Advance(Append(failed, Current))
    /\ \E w \in {wire, wire \ {Current}} : wire' = Posted(w)
    /\ UNCHANGED <<diskVars, rows, lost, crashes>>

\* The retry timer fires.
Retry ==
    /\ running /\ pos = 0
    /\ pos' = 1 /\ wire' = wire \cup {queue[1]}
    /\ UNCHANGED <<diskVars, queue, failed, running, rows, countVars>>

\* The server restarts: the queue is memory, and recoverPending has no caller.
Restart ==
    /\ crashes < MaxCrashes
    /\ crashes' = crashes + 1
    /\ lost' = lost \cup (Elems(queue) \ Stored)
    /\ queue' = <<>> /\ failed' = <<>> /\ pos' = 0 /\ running' = FALSE
    /\ wire' \in SUBSET wire
    /\ UNCHANGED <<diskVars, rows, faults>>

Next ==
    \/ \E m \in Messages : AppendMessage(m) \/ Insert(m)
    \/ Answered \/ PostFails \/ Retry \/ Restart

Spec == Init /\ [][Next]_vars

\* The backend answers and the timer fires; posts fail MaxFaults times at most.
FairSpec ==
    /\ Spec /\ WF_vars(Answered) /\ WF_vars(Retry)
    /\ \A m \in Messages : WF_vars(Insert(m))

-----------------------------------------------------------------------------
(* Properties.                                                             *)

\* Values of the variables.
TypeOK ==
    /\ log \in Seq(Messages) /\ queue \in Seq(Messages)
    /\ failed \in Seq(Messages) /\ rows \in Seq(Messages)
    /\ pos \in 0..Len(queue) /\ running \in BOOLEAN
    /\ synced \subseteq Messages /\ pending \subseteq Messages
    /\ wire \subseteq Messages /\ lost \subseteq Messages
    /\ faults \in 0..MaxFaults /\ crashes \in 0..MaxCrashes

\* What the drain loop will still visit, in this round or the next.
ToVisit == {queue[i] : i \in {j \in 1..Len(queue) : j >= pos}} \cup Elems(failed)

\* No message slips between the rounds of the drain loop: one that was logged is
\* stored, still to be visited, in the .pending file or was in memory when the
\* server restarted; and the loop runs while there is one to visit.
NothingForgotten ==
    /\ \A m \in Logged : m \in Stored \cup ToVisit \cup pending \cup lost
    /\ running <=> queue # <<>>
    /\ pos = 0 => failed = <<>>

\* A message that .synced lists, and retries would skip, is in the database,
\* and in it once.
SyncedMeansStored ==
    /\ synced \subseteq Stored
    /\ \A i, j \in 1..Len(rows) : rows[i] = rows[j] => i = j

\* As long as no post fails, seq is the order of the log.
Position(s, m) == CHOOSE i \in 1..Len(s) : s[i] = m
RowsInLogOrder ==
    faults = 0 /\ crashes = 0 =>
        \A i, j \in 1..Len(rows) :
            i < j => Position(log, rows[i]) < Position(log, rows[j])

\* A logged message reaches the database unless it was spilled to .pending or
\* in memory when the server restarted.
DeliveredUnlessDropped ==
    \A m \in Messages : m \in Logged ~> m \in Stored \cup pending \cup lost

\* What the heads of chat-logger.js and sync-queue.js promise: every logged
\* message is delivered, at least once.
Delivered == \A m \in Messages : m \in Logged ~> m \in Stored
===============================================================================
