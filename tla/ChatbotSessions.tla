-------------------------- MODULE ChatbotSessions --------------------------
(***************************************************************************)
(* One chatbot integration of evolution-api and one contact: the handler   *)
(* emit of BaseChatbotController, its debounce, process of                 *)
(* BaseChatbotService, and changeStatus.  The integration's sessions are   *)
(* rows of the database; every await in the code is a step boundary.       *)
(*                                                                         *)
(* The debounce map is keyed by the contact alone, although the contact    *)
(* may write to several WhatsApp numbers (instances) of the same server.   *)
(*                                                                         *)
(* LatestRowAny, FireKeepsEntry and FireLastOnly are bugs that the         *)
(* properties rule out; no action uses them.                               *)
(***************************************************************************)
EXTENDS Naturals, SequencesExt

CONSTANTS
    Messages,
    Numbers,    \* WhatsApp instances
    To(_),      \* the number a message goes through
    FromMe,     \* messages the owner of the number sent himself
    Triggers,   \* messages that some bot's trigger matches
    Finish      \* messages whose text is keywordFinish

ASSUME NamesAssumption == "nobody" \notin Messages
ASSUME NumbersAssumption == \A m \in Messages : To(m) \in Numbers

VARIABLES
    settings,   \* merged settings of the bot
    rows,       \* integrationSession, in order of createdAt
    pc,         \* where the handling of each message is
    snap,       \* the session each handler has read: its row (0: none), status
    buffer,     \* userMessageDebounce[remoteJid].message, <<>> for no entry
    owner,      \* the message whose callback the timer will call
    batch,      \* the content a callback was called with
    accepted,   \* history: messages in the order they entered the debounce
    handed      \* history: messages in the order process received them

vars == <<settings, rows, pc, snap, buffer, owner, batch, accepted, handed>>
queue == <<buffer, owner, accepted, handed>>
debounce == <<queue, batch>>

Statuses == {"opened", "paused", "closed"}
NoSession == [row |-> 0, status |-> "none"]
Sessions == {NoSession} \cup [row : DOMAIN rows, status : Statuses]

TypeOK ==
    /\ settings \in [stopBotFromMe : BOOLEAN, listeningFromMe : BOOLEAN,
                     keepOpen : BOOLEAN, debounceTime : BOOLEAN]
    /\ rows \in Seq([number : Numbers, status : Statuses \cup {"deleted"}])
    /\ pc \in [Messages -> {"new", "routing", "waiting", "process", "open",
                            "send", "sending", "done"}]
    /\ snap \in [Messages -> Sessions]
    /\ buffer \in Seq(Messages) /\ owner \in Messages \cup {"nobody"}
    /\ batch \in [Messages -> Seq(Messages)]
    /\ accepted \in Seq(Messages) /\ handed \in Seq(Messages)
    /\ (buffer = <<>>) = (owner = "nobody")

Init ==
    /\ settings \in [stopBotFromMe : BOOLEAN, listeningFromMe : BOOLEAN,
                     keepOpen : BOOLEAN, debounceTime : BOOLEAN]
    /\ rows = <<>>
    /\ pc = [m \in Messages |-> "new"]
    /\ snap = [m \in Messages |-> NoSession]
    /\ buffer = <<>> /\ owner = "nobody"
    /\ batch = [m \in Messages |-> <<>>]
    /\ accepted = <<>> /\ handed = <<>>

-----------------------------------------------------------------------------
(* The database.                                                           *)

Exists(i) == i \in DOMAIN rows /\ rows[i].status # "deleted"

LatestRowAny(number) ==
    LET own == {i \in DOMAIN rows : rows[i].number = number}
    IN  IF own = {} THEN NoSession
        ELSE LET i == Max(own) IN [row |-> i, status |-> rows[i].status]

\* findFirst by createdAt, newest first.
LatestRow(number) ==
    LET own == {i \in DOMAIN rows : Exists(i) /\ rows[i].number = number}
    IN  IF own = {} THEN NoSession
        ELSE LET i == Max(own) IN [row |-> i, status |-> rows[i].status]

\* An update of a row that is gone throws; the caller logs it.
UpdateRow(i, status) ==
    rows' = IF Exists(i) THEN [rows EXCEPT ![i].status = status] ELSE rows

-----------------------------------------------------------------------------
(* emit.                                                                   *)

Goto(m, place) == pc' = [pc EXCEPT ![m] = place]

\* The handler ends; its session and content go with it.
Ends(m) ==
    /\ Goto(m, "done")
    /\ snap' = [snap EXCEPT ![m] = NoSession]
    /\ batch' = [batch EXCEPT ![m] = <<>>]
    /\ UNCHANGED <<settings, queue>>

EmitReadsSession(m) ==
    /\ pc[m] = "new"
    /\ snap' = [snap EXCEPT ![m] = LatestRow(To(m))]
    /\ Goto(m, "routing")
    /\ UNCHANGED <<settings, rows, debounce>>

\* findBotTrigger is over: without a session and a trigger nobody answers.
NoBot(m) == snap[m] = NoSession /\ m \notin Triggers

StopsBot(m) ==
    settings.stopBotFromMe /\ m \in FromMe /\ snap[m] # NoSession

RouteDrop(m) ==
    /\ pc[m] = "routing"
    /\ \/ NoBot(m)
       \/ ~StopsBot(m) /\ m \in FromMe /\ ~settings.listeningFromMe
    /\ Ends(m)
    /\ UNCHANGED rows

RoutePause(m) ==
    /\ pc[m] = "routing" /\ StopsBot(m)
    /\ UpdateRow(snap[m].row, "paused")
    /\ Ends(m)

Accepts(m) ==
    /\ pc[m] = "routing"
    /\ ~NoBot(m) /\ ~StopsBot(m)
    /\ m \in FromMe => settings.listeningFromMe

\* A closed session is forgotten.
Kept(m) == IF snap[m].status = "closed" THEN NoSession ELSE snap[m]

\* processDebounce: the text is appended to the entry, and the timer now
\* belongs to the callback of this message.
JoinDebounce(m) ==
    /\ accepted' = Append(accepted, m)
    /\ buffer' = Append(buffer, m)
    /\ owner' = m
    /\ UNCHANGED <<batch, handed>>

RouteDebounced(m) ==
    /\ Accepts(m) /\ settings.debounceTime
    /\ snap' = [n \in Messages |-> IF n = m THEN Kept(m)
                                   ELSE IF n = owner THEN NoSession ELSE snap[n]]
    /\ JoinDebounce(m)
    /\ pc' = [n \in Messages |-> IF n = m THEN "waiting"
                                 ELSE IF n = owner THEN "done" ELSE pc[n]]
    /\ UNCHANGED <<settings, rows>>

RouteDirect(m) ==
    /\ Accepts(m) /\ ~settings.debounceTime
    /\ snap' = [snap EXCEPT ![m] = Kept(m)]
    /\ batch' = [batch EXCEPT ![m] = <<m>>]
    /\ accepted' = Append(accepted, m)
    /\ handed' = Append(handed, m)
    /\ Goto(m, "process")
    /\ UNCHANGED <<settings, rows, buffer, owner>>

FireKeepsEntry ==
    /\ buffer # <<>> /\ pc[owner] = "waiting"
    /\ batch' = [batch EXCEPT ![owner] = buffer]
    /\ handed' = handed \o buffer
    /\ Goto(owner, "process")
    /\ UNCHANGED <<settings, rows, snap, buffer, owner, accepted>>

FireLastOnly ==
    /\ buffer # <<>>
    /\ batch' = [batch EXCEPT ![owner] = <<owner>>]
    /\ handed' = Append(handed, owner)
    /\ Goto(owner, "process")
    /\ buffer' = <<>> /\ owner' = "nobody"
    /\ UNCHANGED <<settings, rows, snap, accepted>>

\* The timer: what was gathered goes to the callback of the last message.
DebounceFires ==
    /\ buffer # <<>>
    /\ batch' = [batch EXCEPT ![owner] = buffer]
    /\ handed' = handed \o buffer
    /\ Goto(owner, "process")
    /\ buffer' = <<>> /\ owner' = "nobody"
    /\ UNCHANGED <<settings, rows, snap, accepted>>

-----------------------------------------------------------------------------
(* process.                                                                *)

RunStep == UNCHANGED <<settings, debounce>>

\* initNewSession.
ProcessCreates(m) ==
    /\ pc[m] = "process" /\ snap[m] = NoSession
    /\ rows' = Append(rows, [number |-> To(m), status |-> "opened"])
    /\ snap' = [snap EXCEPT ![m] = [row |-> Len(rows) + 1, status |-> "opened"]]
    /\ Goto(m, "open")
    /\ RunStep

ProcessOpens(m) ==
    /\ pc[m] = "open"
    /\ UpdateRow(snap[m].row, "opened")
    /\ IF Exists(snap[m].row)
       THEN Goto(m, "send") /\ UNCHANGED snap /\ RunStep
       ELSE Ends(m)

ProcessIgnores(m) ==
    /\ pc[m] = "process" /\ snap[m].status = "paused"
    /\ Ends(m)
    /\ UNCHANGED rows

\* The text is the keyword and nothing else.
Finishes(m) == Len(batch[m]) = 1 /\ Head(batch[m]) \in Finish

ProcessFinishes(m) ==
    /\ pc[m] = "process" /\ snap[m].status = "opened" /\ Finishes(m)
    /\ UpdateRow(snap[m].row, "closed")
    /\ Ends(m)

\* sendMessageToBot: the request to the bot, and the reply to the contact.  It
\* catches its errors, so that the caller goes on in any case.
CallBot(m) ==
    /\ \/ /\ pc[m] = "process" /\ snap[m].status = "opened" /\ ~Finishes(m)
          /\ Goto(m, "sending")
          /\ UNCHANGED snap /\ RunStep
       \/ /\ pc[m] = "send"
          /\ Ends(m)
    /\ UNCHANGED rows

BotReplied(m) ==
    /\ pc[m] = "sending"
    /\ UpdateRow(snap[m].row, "opened")
    /\ Ends(m)

-----------------------------------------------------------------------------
(* changeStatus.                                                           *)

SetRows(concerned, status) ==
    rows' = [i \in DOMAIN rows |->
                IF Exists(i) /\ i \in concerned
                THEN [rows[i] EXCEPT !.status = status] ELSE rows[i]]

\* Deleting and closing reach the contact's sessions of every number.
ChangeStatusDelete ==
    /\ SetRows(DOMAIN rows, "deleted")
    /\ UNCHANGED <<settings, pc, snap, debounce>>

ChangeStatusClosed ==
    /\ SetRows(DOMAIN rows, IF settings.keepOpen THEN "closed" ELSE "deleted")
    /\ UNCHANGED <<settings, pc, snap, debounce>>

ChangeStatus(number, status) ==
    /\ SetRows({i \in DOMAIN rows : rows[i].number = number}, status)
    /\ UNCHANGED <<settings, pc, snap, debounce>>

-----------------------------------------------------------------------------
Handle(m) ==
    \/ EmitReadsSession(m)
    \/ RouteDrop(m) \/ RoutePause(m) \/ RouteDebounced(m) \/ RouteDirect(m)
    \/ ProcessCreates(m) \/ ProcessOpens(m) \/ ProcessIgnores(m)
    \/ ProcessFinishes(m) \/ CallBot(m) \/ BotReplied(m)

Next ==
    \/ \E m \in Messages : Handle(m)
    \/ DebounceFires
    \/ ChangeStatusDelete \/ ChangeStatusClosed
    \/ \E n \in Numbers, s \in {"opened", "paused"} : ChangeStatus(n, s)

Spec == Init /\ [][Next]_vars

\* The event loop runs every handler on, and timers fire.  Nothing is assumed
\* of arrivals or of changeStatus.
FairSpec ==
    /\ Spec
    /\ \A m \in Messages : WF_vars(pc[m] # "new" /\ Handle(m))
    /\ WF_vars(DebounceFires)

-----------------------------------------------------------------------------
(* Properties.                                                             *)

\* The batches given to process are the accepted messages, each once and in
\* the order of arrival, and the rest of them is in the debounce entry.
BatchesTile == handed \o buffer = accepted

\* However the timer is reset and whoever owns it, an accepted message is
\* given to process in the end, and process comes to an end.
AcceptedIsHandled ==
    \A m \in Messages :
        (\E i \in DOMAIN accepted : accepted[i] = m)
            ~> (\E i \in DOMAIN handed : handed[i] = m) /\ pc[m] = "done"

\* base-chatbot.service.ts:134 "If session is paused, ignore the message": the
\* bot is not called for a session that is paused.
PausedIgnored ==
    [][\A m \in Messages :
        pc[m] = "process" /\ pc'[m] = "sending"
            => rows[snap[m].row].status # "paused"]_vars
============================================================================
