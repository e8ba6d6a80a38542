----------------------------- MODULE ChatTurns -----------------------------
(***************************************************************************)
(* One chat session of the evo-nexus terminal server: the WebSocket        *)
(* handlers chat_send (with its rewind), chat_stop and permission_response *)
(* of server.js, the ChatBridge that streams a turn from the agent SDK or  *)
(* from an OpenAI compatible provider, the JSONL log of ChatLogger and the *)
(* cache in sessions.json.                                                 *)
(*                                                                         *)
(* The server is one thread.  A step is what runs between two awaits that  *)
(* wait for I/O: the save in a rewind, the loading of the SDK, the stream. *)
(* An await of a promise that is already settled is no step of its own.    *)
(*                                                                         *)
(* ApplyLineAfter, AskStoppedFreely, RespondVerbatim, CompleteUnlogged and *)
(* ChatStopRecords are bugs that the properties rule out; no action uses   *)
(* them.                                                                   *)
(***************************************************************************)
EXTENDS Naturals, SequencesExt

CONSTANTS
    Turns,           \* chat_send messages, each the uuid of its two entries
    None,
    Asking,          \* turns that use a tool which needs an approval
    OverlapRewinds,  \* may a rewind arrive while another one is being saved?
    MaxCrashes

ASSUME TurnsAssumption == None \notin Turns /\ Asking \subseteq Turns
ASSUME BoundsAssumption == OverlapRewinds \in BOOLEAN /\ MaxCrashes \in Nat

VARIABLES
    history,  \* chatSession.chatHistory, the cache
    log,      \* lines of the JSONL file
    disk,     \* sessions.json: history and sdk when it was last saved
    sdk,      \* chatSession.sdkSessionId: the conversation to resume
    active,   \* chatSession.active
    bridge,   \* the turn whose session object ChatBridge.sessions holds
    pc,       \* where each turn is
    target,   \* rewindFromUuid, while a rewind is being saved
    cut,      \* cutIdx, computed before the save
    resume,   \* options.sdkSessionId of each turn
    agent,    \* does the turn run on the agent SDK?
    conv,     \* session.sdkSessionId of each turn's session object
    spoke,    \* assistantBlocks is not empty
    ask,      \* the tool approval of each turn
    holder,   \* the session object whose pendingApprovals holds it
    said,     \* the user's answer to it
    crashes

vars == <<history, log, disk, sdk, active, bridge, pc, target, cut, resume,
          agent, conv, spoke, ask, holder, said, crashes>>
store == <<history, log>>
approvals == <<ask, holder, said>>
rewinding == <<target, cut>>
session == <<agent, conv>>

MaybeTurn == Turns \cup {None}
Message == [role : {"user", "assistant"}, turn : Turns]
Line == [kind : {"message", "rewind"}, of : Message]
NoMessage == [role |-> "none", turn |-> None]
User(t) == [role |-> "user", turn |-> t]
Assistant(t) == [role |-> "assistant", turn |-> t]
Logged(m) == [kind |-> "message", of |-> m]
Marker(m) == [kind |-> "rewind", of |-> m]

TypeOK ==
    /\ history \in Seq(Message) /\ log \in Seq(Line)
    /\ disk.history \in Seq(Message) /\ disk.sdk \in MaybeTurn
    /\ sdk \in MaybeTurn /\ bridge \in MaybeTurn /\ active \in BOOLEAN
    /\ pc \in [Turns -> {"new", "rewinding", "starting", "streaming",
                         "stopped", "ended"}]
    /\ target \in [Turns -> Message \cup {NoMessage}]
    /\ cut \in [Turns -> Nat]
    /\ resume \in [Turns -> MaybeTurn] /\ conv \in [Turns -> MaybeTurn]
    /\ agent \in [Turns -> BOOLEAN] /\ spoke \in [Turns -> BOOLEAN]
    /\ ask \in [Turns -> {"none", "waiting", "allowed", "denied"}]
    /\ holder \in [Turns -> MaybeTurn]
    /\ said \in [Turns -> {"nothing", "yes", "no"}]
    /\ crashes \in 0..MaxCrashes

Init ==
    /\ history = <<>> /\ log = <<>>
    /\ disk = [history |-> <<>>, sdk |-> None]
    /\ sdk = None /\ bridge = None /\ active = FALSE
    /\ pc = [t \in Turns |-> "new"]
    /\ target = [t \in Turns |-> NoMessage] /\ cut = [t \in Turns |-> 0]
    /\ resume = [t \in Turns |-> None] /\ conv = [t \in Turns |-> None]
    /\ agent = [t \in Turns |-> FALSE] /\ spoke = [t \in Turns |-> FALSE]
    /\ ask = [t \in Turns |-> "none"]
    /\ holder = [t \in Turns |-> None]
    /\ said = [t \in Turns |-> "nothing"]
    /\ crashes = 0

-----------------------------------------------------------------------------
(* The log and its reader.                                                 *)

\* findIndex on the uuid; 0 stands for -1.
IndexOf(messages, m) == SelectInSeq(messages, LAMBDA x : x = m)

\* slice(0, cutIdx), for the index i of the first message dropped: of a
\* cache that has become shorter since, slice keeps all.
KeepBefore(messages, i) == SubSeq(messages, 1, Min({i - 1, Len(messages)}))

ApplyLineAfter(messages, line) ==
    IF line.kind = "message" THEN Append(messages, line.of)
    ELSE LET i == IndexOf(messages, line.of)
         IN  IF i = 0 THEN messages ELSE KeepBefore(messages, i + 1)

\* A marker drops the message it names and everything after it; a marker
\* whose message is gone does nothing.
ApplyLine(messages, line) ==
    IF line.kind = "message" THEN Append(messages, line.of)
    ELSE LET i == IndexOf(messages, line.of)
         IN  IF i = 0 THEN messages ELSE KeepBefore(messages, i)

Replay(lines) ==
    LET after[n \in 0..Len(lines)] ==
            IF n = 0 THEN <<>> ELSE ApplyLine(after[n - 1], lines[n])
    IN  after[Len(lines)]

\* chatHistory.push and chatLogger.append.
Record(messages, lines, m) ==
    /\ history' = Append(messages, m)
    /\ log' = Append(lines, Logged(m))

-----------------------------------------------------------------------------
(* ChatBridge.stopSession of whatever the map holds for the session.       *)

PcStopped == [t \in Turns |-> IF t = bridge THEN "stopped" ELSE pc[t]]

AskStoppedFreely ==
    [r \in Turns |-> IF ask[r] = "waiting" /\ holder[r] = bridge
                     THEN "allowed" ELSE ask[r]]

AskStopped ==
    [r \in Turns |-> IF ask[r] = "waiting" /\ holder[r] = bridge
                     THEN "denied" ELSE ask[r]]

\* saveSessions: what it wrote, unless it failed.
Saved == [history |-> history, sdk |-> sdk]

-----------------------------------------------------------------------------
(* chat_send.                                                              *)

\* The user's message is recorded and startSession is called with the SDK
\* session id of that moment; startSession first awaits loadSDK.
Send(t, messages, lines) ==
    /\ Record(messages, lines, User(t))
    /\ resume' = [resume EXCEPT ![t] = sdk]

ChatSend(t) ==
    /\ pc[t] = "new"
    /\ active' = TRUE
    /\ Send(t, history, log)
    /\ pc' = [pc EXCEPT ![t] = "starting"]
    /\ UNCHANGED <<disk, sdk, bridge, rewinding, session, spoke, approvals,
                   crashes>>

\* The cache is looked up first, then the log, which replaces the cache.  The
\* client lets the user edit his own messages only.
RewindSource(m) ==
    IF IndexOf(history, m) > 0 THEN history
    ELSE IF IndexOf(Replay(log), m) > 0 THEN Replay(log) ELSE <<>>

RewindStop(t, m) ==
    LET source == RewindSource(m)
        index  == IndexOf(source, m)
    IN  /\ pc[t] = "new"
        /\ OverlapRewinds \/ \A u \in Turns : pc[u] # "rewinding"
        /\ index > 0
        /\ history' = source
        /\ active' = TRUE
        /\ target' = [target EXCEPT ![t] = m]
        /\ cut' = [cut EXCEPT ![t] = index]
        /\ pc' = [PcStopped EXCEPT ![t] = "rewinding"]
        /\ ask' = AskStopped
        /\ bridge' = None
        /\ sdk' = None
        /\ UNCHANGED <<log, disk, resume, session, spoke, holder, said, crashes>>

RewindUnknown(t, m) ==
    /\ pc[t] = "new"
    /\ RewindSource(m) = <<>>
    /\ active' = FALSE
    /\ pc' = [pc EXCEPT ![t] = "ended"]
    /\ UNCHANGED <<store, disk, sdk, bridge, rewinding, resume, session, spoke,
                   approvals, crashes>>

\* The save is over: cut the cache at the index found before it, log the
\* marker, and go on as for any message.
RewindCut(t) ==
    /\ pc[t] = "rewinding"
    /\ disk' \in {disk, Saved}
    /\ Send(t, KeepBefore(history, cut[t]), Append(log, Marker(target[t])))
    /\ pc' = [pc EXCEPT ![t] = "starting"]
    /\ target' = [target EXCEPT ![t] = NoMessage]
    /\ cut' = [cut EXCEPT ![t] = 0]
    /\ UNCHANGED <<sdk, active, bridge, session, spoke, approvals, crashes>>

\* startSession behind loadSDK: a session in the map is stopped, and the
\* turn's own session object takes its place.  A compatible provider has no
\* conversation to resume.
StartSession(t) ==
    /\ pc[t] = "starting"
    /\ pc' = [PcStopped EXCEPT ![t] = "streaming"]
    /\ ask' = AskStopped
    /\ bridge' = t
    /\ \/ /\ agent' = [agent EXCEPT ![t] = TRUE]
          /\ conv' = [conv EXCEPT ![t] = resume[t]]
       \/ UNCHANGED session
    /\ UNCHANGED <<store, disk, sdk, active, rewinding, resume, spoke, holder,
                   said, crashes>>

\* No SDK (nothing is stopped), or a provider without model or key (the old
\* session has been stopped).
StartFails(t) ==
    /\ pc[t] = "starting"
    /\ active' = FALSE
    /\ \/ /\ pc' = [pc EXCEPT ![t] = "ended"]
          /\ UNCHANGED <<ask, bridge>>
       \/ /\ pc' = [PcStopped EXCEPT ![t] = "ended"]
          /\ ask' = AskStopped
          /\ bridge' = None
    /\ UNCHANGED <<store, disk, sdk, rewinding, resume, session, spoke, holder,
                   said, crashes>>

-----------------------------------------------------------------------------
(* The stream of a turn.                                                   *)

\* The first message that carries a session id; named after the turn that
\* began the conversation.
Announce(t) ==
    /\ pc[t] = "streaming" /\ agent[t] /\ conv[t] = None
    /\ conv' = [conv EXCEPT ![t] = t]
    /\ sdk' = t
    /\ UNCHANGED <<store, disk, active, bridge, pc, rewinding, resume, agent,
                   spoke, approvals, crashes>>

Speak(t) ==
    /\ pc[t] = "streaming" /\ ~spoke[t]
    /\ spoke' = [spoke EXCEPT ![t] = TRUE]
    /\ UNCHANGED <<store, disk, sdk, active, bridge, pc, rewinding, resume,
                   session, approvals, crashes>>

\* requestApprovalFromUser: it asks under the session object the map holds
\* now, which is not always the turn's own.
RequestApproval(t) ==
    /\ t \in Asking /\ ask[t] = "none"
    /\ pc[t] \in {"streaming", "stopped"} /\ agent[t]
    /\ IF bridge = None
       THEN ask' = [ask EXCEPT ![t] = "denied"] /\ UNCHANGED holder
       ELSE /\ ask' = [ask EXCEPT ![t] = "waiting"]
            /\ holder' = [holder EXCEPT ![t] = bridge]
    /\ UNCHANGED <<store, disk, sdk, active, bridge, pc, rewinding, resume,
                   session, spoke, said, crashes>>

RespondVerbatim(t, answer) ==
    /\ ask[t] = "waiting" /\ bridge # None /\ holder[t] = bridge
    /\ said' = [said EXCEPT ![t] = answer]
    /\ ask' = [ask EXCEPT ![t] = answer]
    /\ UNCHANGED <<store, disk, sdk, active, bridge, pc, rewinding, resume,
                   session, spoke, holder, crashes>>

\* permission_response and respondToApproval.
RespondToApproval(t, answer) ==
    /\ ask[t] = "waiting" /\ bridge # None /\ holder[t] = bridge
    /\ said' = [said EXCEPT ![t] = answer]
    /\ ask' = [ask EXCEPT ![t] = IF answer = "yes" THEN "allowed" ELSE "denied"]
    /\ UNCHANGED <<store, disk, sdk, active, bridge, pc, rewinding, resume,
                   session, spoke, holder, crashes>>

\* A stream ends by itself, unless it waits for an approval, or because it
\* was stopped.
Ending(t) ==
    \/ pc[t] = "stopped"
    \/ pc[t] = "streaming" /\ ask[t] # "waiting"

CompleteUnlogged(t) ==
    /\ Ending(t)
    /\ pc' = [pc EXCEPT ![t] = "ended"]
    /\ bridge' = None
    /\ active' = FALSE
    /\ sdk' = IF conv[t] # None THEN conv[t] ELSE sdk
    /\ history' = IF spoke[t] THEN Append(history, Assistant(t)) ELSE history
    /\ disk' \in {disk, [history |-> history', sdk |-> sdk']}
    /\ UNCHANGED <<log, rewinding, resume, session, spoke, approvals, crashes>>

\* onComplete, also after an AbortError.  The map entry of the session is
\* deleted whichever turn it belongs to.
Complete(t) ==
    /\ Ending(t)
    /\ pc' = [pc EXCEPT ![t] = "ended"]
    /\ bridge' = None
    /\ active' = FALSE
    /\ sdk' = IF conv[t] # None THEN conv[t] ELSE sdk
    /\ IF spoke[t] THEN Record(history, log, Assistant(t)) ELSE UNCHANGED store
    /\ disk' \in {disk, [history |-> history', sdk |-> sdk']}
    /\ UNCHANGED <<rewinding, resume, session, spoke, approvals, crashes>>

\* onError.
Fail(t) ==
    /\ Ending(t)
    /\ pc' = [pc EXCEPT ![t] = "ended"]
    /\ bridge' = None
    /\ active' = FALSE
    /\ UNCHANGED <<store, disk, sdk, rewinding, resume, session, spoke, approvals,
                   crashes>>

\* The partial answer is recorded at once; the stream that ends later records
\* it again.
ChatStopRecords ==
    /\ bridge # None
    /\ pc' = PcStopped
    /\ ask' = AskStopped
    /\ bridge' = None
    /\ active' = FALSE
    /\ IF spoke[bridge] THEN Record(history, log, Assistant(bridge))
                        ELSE UNCHANGED store
    /\ UNCHANGED <<disk, sdk, rewinding, resume, session, spoke, holder, said,
                   crashes>>

\* chat_stop.
ChatStop ==
    /\ bridge # None
    /\ pc' = PcStopped
    /\ ask' = AskStopped
    /\ bridge' = None
    /\ active' = FALSE
    /\ UNCHANGED <<store, disk, sdk, rewinding, resume, session, spoke, holder,
                   said, crashes>>

-----------------------------------------------------------------------------
(* The rest of the server.                                                 *)

AutoSave ==
    /\ disk' = Saved
    /\ UNCHANGED <<store, sdk, active, bridge, pc, rewinding, resume, session,
                   spoke, approvals, crashes>>

\* join_session: an empty cache is filled from the log.
JoinSession ==
    /\ history = <<>>
    /\ history' = Replay(log)
    /\ UNCHANGED <<log, disk, sdk, active, bridge, pc, rewinding, resume, session,
                   spoke, approvals, crashes>>

\* The process dies and starts again from sessions.json.
Restart ==
    /\ crashes < MaxCrashes
    /\ crashes' = crashes + 1
    /\ history' = disk.history
    /\ sdk' = disk.sdk
    /\ active' = FALSE
    /\ bridge' = None
    /\ pc' = [t \in Turns |-> IF pc[t] = "new" THEN "new" ELSE "ended"]
    /\ target' = [t \in Turns |-> NoMessage]
    /\ cut' = [t \in Turns |-> 0]
    /\ ask' = [t \in Turns |-> IF ask[t] = "waiting" THEN "denied" ELSE ask[t]]
    /\ UNCHANGED <<log, disk, resume, session, spoke, holder, said>>

Next ==
    \/ \E t \in Turns :
        \/ ChatSend(t)
        \/ \E u \in Turns : RewindStop(t, User(u)) \/ RewindUnknown(t, User(u))
        \/ RewindCut(t)
        \/ StartSession(t) \/ StartFails(t)
        \/ Announce(t) \/ Speak(t)
        \/ RequestApproval(t)
        \/ \E answer \in {"yes", "no"} : RespondToApproval(t, answer)
        \/ Complete(t) \/ Fail(t)
    \/ ChatStop \/ AutoSave \/ JoinSession \/ Restart

Spec == Init /\ [][Next]_vars

-----------------------------------------------------------------------------
(* Properties.                                                             *)

\* While the process lives, the cache a client is shown is what a reader of
\* the log would rebuild, whatever turn is completing, stopped or rewound
\* meanwhile: the index of a rewind is found before the save and used after it.
CacheIsReplay == crashes = 0 => history = Replay(log)

\* The log is written ahead: also after a restart from an old sessions.json,
\* everything shown is in the log, in the order in which it was written.
HistoryInLogOrder ==
    LET at(i) == CHOOSE j \in DOMAIN log : log[j] = Logged(history[i])
    IN  /\ \A i \in DOMAIN history : \E j \in DOMAIN log : log[j] = Logged(history[i])
        /\ \A i, j \in DOMAIN history : i < j => at(i) < at(j)

\* A turn that was stopped, superseded or failed leaves at most one answer,
\* behind the message it answers.
AnswerOnce ==
    \A t \in Turns : \A i \in DOMAIN log :
        log[i] = Logged(Assistant(t)) =>
            /\ \A j \in DOMAIN log : log[j] = Logged(Assistant(t)) => j = i
            /\ \E j \in 1..(i - 1) : log[j] = Logged(User(t))

\* A tool runs only if the user agreed to that very request, whichever
\* session object it waited in and whoever stopped it meanwhile.
ToolsApproved ==
    \A t \in Turns : ask[t] = "allowed" => said[t] = "yes"

\* server.js:676 "Null out sdkSessionId so the next turn starts fresh": the
\* turn of a rewind does not resume a conversation older than the rewind.
RewindStartsFresh ==
    [][\A t \in Turns : pc[t] = "rewinding" /\ pc'[t] = "starting"
                         => resume'[t] = None]_vars
============================================================================
