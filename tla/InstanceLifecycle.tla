-------------------------- MODULE InstanceLifecycle --------------------------
(***************************************************************************)
(* The life of one WhatsApp instance of evolution-api: the connect,        *)
(* restart, logout and delete calls of the instance controller, the        *)
(* connection events of the WhatsApp library, the reconnection timer, and  *)
(* what the monitor cleans up.                                             *)
(*                                                                         *)
(* Node runs one piece of code between two awaits at a time: such a piece  *)
(* is a step.  What follows an await is a task, run later, and any other   *)
(* step may come before it.  Events of all sockets go through one queue.   *)
(* Close codes are abstracted to what connectionUpdate tells apart; clocks *)
(* (3 s before a reconnection, 30 s after a 515) end at any moment.        *)
(* Left out: proxies, webhooks, Chatwoot, DEL_INSTANCE (off by default),   *)
(* and the content of messages.                                            *)
(***************************************************************************)
EXTENDS Naturals, Sequences, FiniteSets

CONSTANTS
  QrLimit,    \* QRCODE.LIMIT
  MaxMoves,   \* bound on calls of the user and accidents of the network
  MaxCrashes  \* bound on restarts of the process

ASSUME BoundsAssumption ==
  QrLimit \in Nat \ {0} /\ MaxMoves \in Nat /\ MaxCrashes \in Nat

VARIABLES
  registered,  \* is the instance in waInstances?
  db,          \* connectionStatus of its row, or "gone"
  creds,       \* are there stored credentials of a paired device?
  linked,      \* does WhatsApp accept these credentials?
  state,       \* stateConnection.state
  isDeleting, endSession, count, wuid, \* fields of the service; wuid: is it set?
  sockets,     \* what each socket does; the last one is this.client
  queue,       \* the events of eventProcessingQueue
  checked,     \* the first of them has passed the test of endSession
  creating,    \* calls of createClient on their way
  timers,      \* pending reconnection timers
  tasks,       \* continuations of handlers that await something
  grace,       \* was there a 515 less than 30 s ago?
  moves, crashes,
  wanted,      \* history: the user has connected, and nothing has ended that
  skipped,     \* history: the code gave up on a connection without a refusal
  quiet        \* history: at the last logout only this.client was active

flags == <<isDeleting, endSession, count, wuid>>
stored == <<registered, db, creds, linked>>
pending == <<creating, timers, tasks>>
bounds == <<moves, crashes>>
history == <<wanted, skipped, quiet>>
vars == <<stored, state, flags, sockets, queue, checked, pending, grace,
          bounds, history>>

States == {"close", "connecting", "open"}
Live == {s \in DOMAIN sockets : sockets[s] # "dead"}
client == Len(sockets)
Events == [kind : {"connecting", "qr", "paired", "open"}]
          \cup [kind : {"close"},
                code : {"dropped", "timeout", "loggedOut", "restart", "none"}]

Event(k) == [kind |-> k]
Close(c) == [kind |-> "close", code |-> c]

Move == moves < MaxMoves /\ moves' = moves + 1 /\ UNCHANGED crashes

\* UPDATE of the row; on a deleted row it fails and changes nothing.
SetStatus(s) == db' = IF db = "gone" THEN "gone" ELSE s

\* A service as the constructor and setInstance leave it: ownerJid is
\* restored from the row, wuid is not.
NewService ==
  /\ state' = "close"
  /\ isDeleting' = FALSE
  /\ endSession' = FALSE
  /\ count' = 0
  /\ wuid' = FALSE

\* The process has just started with an instance never connected, or with a
\* paired one that was open, which setInstance connects.
Init ==
  /\ registered = TRUE
  /\ creds \in BOOLEAN
  /\ linked = creds
  /\ db = IF creds THEN "open" ELSE "close"
  /\ state = "close"
  /\ isDeleting = FALSE
  /\ endSession = FALSE
  /\ count = 0
  /\ wuid = FALSE
  /\ sockets = <<>>
  /\ queue = <<>>
  /\ checked = FALSE
  /\ creating = IF creds THEN 1 ELSE 0
  /\ timers = 0
  /\ tasks = {}
  /\ grace = FALSE
  /\ moves = 0
  /\ crashes = 0
  /\ wanted = creds
  /\ skipped = FALSE
  /\ quiet = FALSE

-----------------------------------------------------------------------------
(* Sockets. *)

\* createClient: the credentials are loaded, the session is no longer ended,
\* and a new socket takes the place of this.client, whatever the old one does.
CreateClient ==
  /\ creating > 0
  /\ creating' = creating - 1
  /\ endSession' = FALSE
  /\ sockets' = Append(sockets, IF creds THEN "joining" ELSE "pairing")
  /\ queue' = Append(queue, Event("connecting"))
  /\ UNCHANGED <<stored, state, isDeleting, count, wuid, checked, timers,
                 tasks, grace, bounds, history>>

\* createClient throws; in the callback of the timer nobody catches it.
CreateFails ==
  /\ creating > 0
  /\ Move
  /\ creating' = creating - 1
  /\ skipped' = TRUE
  /\ UNCHANGED <<stored, state, flags, sockets, queue, checked, timers, tasks,
                 grace, wanted, quiet>>

\* Mutant: the callback goes on only while the service is connecting.
TimerFiresConnecting ==
  /\ timers > 0
  /\ timers' = timers - 1
  /\ creating' = IF state = "connecting" THEN creating + 1 ELSE creating
  /\ UNCHANGED <<stored, state, flags, sockets, queue, checked, tasks, grace,
                 bounds, history>>

\* The callback of the 3 s timer: it looks at nothing before it connects.
TimerFires ==
  /\ timers > 0
  /\ timers' = timers - 1
  /\ creating' = creating + 1
  /\ UNCHANGED <<stored, state, flags, sockets, queue, checked, tasks, grace,
                 bounds, history>>

SocketDies(s, events) ==
  /\ sockets' = [sockets EXCEPT ![s] = "dead"]
  /\ queue' = queue \o events

SocketShowsQr(s) ==
  /\ sockets[s] = "pairing"
  /\ Move
  /\ queue' = Append(queue, Event("qr"))
  /\ UNCHANGED <<stored, state, flags, sockets, checked, pending, grace,
                 history>>

\* The user scans the code: the library reports the credentials and closes
\* with 515, or with loggedOut after a stream error 515.
SocketPairs(s) ==
  /\ sockets[s] = "pairing"
  /\ Move
  /\ linked' = TRUE
  /\ grace' = TRUE
  /\ \E code \in {"restart", "loggedOut"} :
       SocketDies(s, <<Event("paired"), Close(code)>>)
  /\ UNCHANGED <<registered, db, creds, state, flags, checked, pending,
                 history>>

SocketOpens(s) ==
  /\ sockets[s] = "joining"
  /\ linked
  /\ sockets' = [sockets EXCEPT ![s] = "open"]
  /\ queue' = Append(queue, Event("open"))
  /\ UNCHANGED <<stored, state, flags, checked, pending, grace, bounds,
                 history>>

\* The device is no longer linked: WhatsApp closes with 401.
SocketRefused(s) ==
  /\ sockets[s] \in {"joining", "open"}
  /\ ~linked
  /\ SocketDies(s, <<Close("loggedOut")>>)
  /\ UNCHANGED <<stored, state, flags, checked, pending, grace, bounds,
                 history>>

\* "timeout" is 408, one of the codes after which nobody reconnects.
SocketDrops(s) ==
  /\ sockets[s] # "dead"
  /\ Move
  /\ \E code \in {"dropped", "timeout"} : SocketDies(s, <<Close(code)>>)
  /\ UNCHANGED <<stored, state, flags, checked, pending, grace, history>>

PhoneUnlinks ==
  /\ linked
  /\ Move
  /\ linked' = FALSE
  /\ UNCHANGED <<registered, db, creds, state, flags, sockets, queue, checked,
                 pending, grace, history>>

\* The 30 s are over; the close that belongs to a 515 comes within them.
GraceFades ==
  /\ grace
  /\ \A i \in DOMAIN queue : queue[i] # Close("loggedOut")
  /\ grace' = FALSE
  /\ UNCHANGED <<stored, state, flags, sockets, queue, checked, pending,
                 bounds, history>>

\* ws.close and client.end of this.client, if it is still alive.
EndClient(code) ==
  IF client # 0 /\ sockets[client] # "dead"
    THEN SocketDies(client, <<Close(code)>>)
    ELSE UNCHANGED <<sockets, queue>>

\* client.logout: an open connection tells WhatsApp to forget the device.
LogoutClient ==
  /\ linked' = (linked /\ ~(client # 0 /\ sockets[client] = "open"))
  /\ EndClient("loggedOut")

-----------------------------------------------------------------------------
(* The queue of events. *)

\* An event of an ended session is dropped; any other one goes on after the
\* settings have been read.
CheckEvent ==
  /\ queue # <<>>
  /\ ~checked
  /\ IF endSession
       THEN queue' = Tail(queue) /\ UNCHANGED checked
       ELSE checked' = TRUE /\ UNCHANGED queue
  /\ UNCHANGED <<stored, state, flags, sockets, pending, grace, bounds,
                 history>>

Handling(kind) ==
  /\ checked
  /\ Head(queue).kind = kind
  /\ queue' = Tail(queue)
  /\ checked' = FALSE

\* saveCreds
HandlePaired ==
  /\ Handling("paired")
  /\ creds' = TRUE
  /\ UNCHANGED <<registered, db, linked, state, flags, sockets, pending, grace,
                 bounds, history>>

HandleConnecting ==
  /\ Handling("connecting")
  /\ state' = "connecting"
  /\ UNCHANGED <<stored, flags, sockets, pending, grace, bounds, history>>

\* Mutant: the limit is looked at only after the code has been shown.
HandleQrUnlimited ==
  /\ Handling("qr")
  /\ count' = count + 1
  /\ SetStatus("connecting")
  /\ UNCHANGED <<registered, creds, linked, state, isDeleting, endSession,
                 wuid, sockets, pending, grace, bounds, history>>

HandleQr ==
  /\ Handling("qr")
  /\ count < QrLimit
  /\ count' = count + 1
  /\ SetStatus("connecting")
  /\ UNCHANGED <<registered, creds, linked, state, isDeleting, endSession,
                 wuid, sockets, pending, grace, bounds, history>>

HandleQrAtLimit ==
  /\ Handling("qr")
  /\ count = QrLimit
  /\ tasks' = tasks \cup {"limit"}
  /\ UNCHANGED <<stored, state, flags, sockets, creating, timers, grace,
                 bounds, history>>

\* The row is updated after the profile picture and name have been fetched.
HandleOpen ==
  /\ Handling("open")
  /\ state' = "open"
  /\ wuid' = TRUE
  /\ tasks' = tasks \cup {"opened"}
  /\ UNCHANGED <<stored, isDeleting, endSession, count, sockets, creating,
                 timers, grace, bounds, history>>

HandlingClose == Handling("close") /\ state' = "close"

\* Mutant: the flags are left to the test at the head of the queue.
EndingUnchecked == FALSE

Ending == isDeleting \/ endSession

InitialConnection == ~wuid /\ count = 0

\* Mutant: a loggedOut that belongs to a 515 counts as a logout.
ShouldReconnectPlain(code) == code \notin {"loggedOut", "timeout"}

ShouldReconnect(code) ==
  \/ code \notin {"loggedOut", "timeout"}
  \/ code = "loggedOut" /\ grace

CloseSkipped ==
  /\ HandlingClose
  /\ Ending \/ InitialConnection
  /\ skipped' = TRUE
  /\ UNCHANGED <<stored, flags, sockets, pending, grace, bounds, wanted, quiet>>

CloseReconnects ==
  /\ HandlingClose
  /\ ~Ending /\ ~InitialConnection
  /\ ShouldReconnect(Head(queue).code)
  /\ timers' = timers + 1
  /\ UNCHANGED <<stored, flags, sockets, creating, tasks, grace, bounds,
                 history>>

\* A refusal: the row is closed, and after the UPDATE the rest is cleaned up.
CloseGivesUp ==
  /\ HandlingClose
  /\ ~Ending /\ ~InitialConnection
  /\ ~ShouldReconnect(Head(queue).code)
  /\ SetStatus("close")
  /\ tasks' = tasks \cup {"terminal"}
  /\ wanted' = (wanted /\ grace /\ Head(queue).code = "loggedOut")
  /\ UNCHANGED <<registered, creds, linked, flags, sockets, creating, timers,
                 grace, bounds, skipped, quiet>>

HandleEvent ==
  \/ HandlePaired \/ HandleConnecting \/ HandleQr \/ HandleQrAtLimit
  \/ HandleOpen \/ CloseSkipped \/ CloseReconnects \/ CloseGivesUp

-----------------------------------------------------------------------------
(* Continuations. *)

Runs(task, next) == task \in tasks /\ tasks' = (tasks \ {task}) \cup next

\* connectionUpdate at the limit of QR codes, and the monitor's no.connection.
RunLimit ==
  /\ Runs("limit", IF registered THEN {"noConnection"} ELSE {})
  /\ endSession' = TRUE
  /\ wanted' = FALSE
  /\ UNCHANGED <<stored, state, isDeleting, count, wuid, sockets, queue,
                 checked, creating, timers, grace, bounds, skipped, quiet>>

RunNoConnection ==
  /\ Runs("noConnection", {})
  /\ LogoutClient
  /\ IF registered THEN state' = "close" /\ count' = 0
                   ELSE UNCHANGED <<state, count>>
  /\ UNCHANGED <<registered, db, creds, isDeleting, endSession, wuid, checked,
                 creating, timers, grace, bounds, history>>

\* After a refusal this.client is ended, which need not be the refused one.
RunTerminal ==
  /\ Runs("terminal", {"cleanup"})
  /\ EndClient("none")
  /\ UNCHANGED <<stored, state, flags, checked, creating, timers, grace,
                 bounds, history>>

\* cleaningUp, on logout.instance.
RunCleanup ==
  /\ Runs("cleanup", {})
  /\ creds' = FALSE
  /\ SetStatus("close")
  /\ UNCHANGED <<registered, linked, state, flags, sockets, queue, checked,
                 creating, timers, grace, bounds, history>>

RunOpened ==
  /\ Runs("opened", {})
  /\ SetStatus("open")
  /\ UNCHANGED <<registered, creds, linked, state, flags, sockets, queue,
                 checked, creating, timers, grace, bounds, history>>

\* logoutInstance after client.logout has returned or failed...
RunLogout(task, next) ==
  /\ Runs(task, {next})
  /\ LogoutClient
  /\ state' = "close"
  /\ UNCHANGED <<registered, db, creds, flags, checked, creating, timers,
                 grace, bounds, history>>

\* ... and its end; deleteInstance goes on to remove the instance.
RunForget(task, next) ==
  /\ Runs(task, next)
  /\ creds' = FALSE
  /\ SetStatus("close")
  /\ UNCHANGED <<registered, linked, state, flags, sockets, queue, checked,
                 creating, timers, grace, bounds, history>>

\* remove.instance: the session and the rows are deleted and the service is
\* forgotten; its sockets and timers are not looked at.
RunRemove ==
  /\ Runs("remove", {})
  /\ creds' = FALSE
  /\ db' = "gone"
  /\ registered' = FALSE
  /\ wanted' = FALSE
  /\ UNCHANGED <<linked, state, flags, sockets, queue, checked, creating,
                 timers, grace, bounds, skipped, quiet>>

RunTask ==
  \/ RunLimit \/ RunNoConnection \/ RunTerminal \/ RunCleanup \/ RunOpened
  \/ RunLogout("logout", "forget")
  \/ RunLogout("logoutAndRemove", "forgetAndRemove")
  \/ RunForget("forget", {}) \/ RunForget("forgetAndRemove", {"remove"})
  \/ RunRemove

-----------------------------------------------------------------------------
(* Calls of the user. *)

Connect ==
  /\ registered
  /\ state = "close"
  /\ Move
  /\ creating' = creating + 1
  /\ wanted' = TRUE
  /\ skipped' = FALSE
  /\ quiet' = FALSE
  /\ UNCHANGED <<stored, state, flags, sockets, queue, checked, timers, tasks,
                 grace>>

StartLogout(task) ==
  /\ isDeleting' = TRUE
  /\ endSession' = TRUE
  /\ tasks' = tasks \cup {task}
  /\ wanted' = FALSE
  /\ quiet' = (creating = 0 /\ timers = 0 /\ Live \subseteq {client})
  /\ UNCHANGED <<stored, state, count, wuid, sockets, queue, checked, creating,
                 timers, grace, skipped>>

Logout ==
  /\ registered
  /\ state # "close"
  /\ Move
  /\ StartLogout("logout")

\* The socket is ended, and its close event makes the service reconnect: the
\* call of connectToWhatsapp still sees the old state and does nothing.
RestartInstance ==
  /\ registered
  /\ state # "close"
  /\ Move
  /\ EndClient("none")
  /\ UNCHANGED <<stored, state, flags, checked, pending, grace, history>>

DeleteConnected ==
  /\ registered
  /\ state # "close"
  /\ Move
  /\ StartLogout("logoutAndRemove")

\* A closed instance is not logged out first, so no flag is set.
DeleteClosed ==
  /\ registered
  /\ state = "close"
  /\ Move
  /\ tasks' = tasks \cup {"remove"}
  /\ wanted' = FALSE
  /\ UNCHANGED <<stored, state, flags, sockets, queue, checked, creating,
                 timers, grace, skipped, quiet>>

\* A new process: everything in memory is gone, and loadInstance connects
\* what the rows call open or connecting.
RestartProcess ==
  /\ crashes < MaxCrashes
  /\ crashes' = crashes + 1
  /\ NewService
  /\ registered' = (db # "gone")
  /\ sockets' = [s \in DOMAIN sockets |-> "dead"]
  /\ queue' = <<>>
  /\ checked' = FALSE
  /\ creating' = IF db \in {"open", "connecting"} THEN 1 ELSE 0
  /\ timers' = 0
  /\ tasks' = {}
  /\ grace' = FALSE
  /\ skipped' = (db = "close")
  /\ quiet' = FALSE
  /\ UNCHANGED <<db, creds, linked, moves, wanted>>

User == Connect \/ Logout \/ RestartInstance \/ DeleteConnected \/ DeleteClosed

Network ==
  \/ \E s \in DOMAIN sockets :
       SocketShowsQr(s) \/ SocketPairs(s) \/ SocketOpens(s) \/ SocketRefused(s)
         \/ SocketDrops(s)
  \/ PhoneUnlinks \/ GraceFades

Next ==
  \/ CreateClient \/ CreateFails \/ TimerFires
  \/ CheckEvent \/ HandleEvent \/ RunTask
  \/ Network \/ User \/ RestartProcess

Spec == Init /\ [][Next]_vars

(***************************************************************************)
(* The event loop runs timers and whatever is no longer awaited.  Nothing  *)
(* is assumed of the user and of the network.                              *)
(***************************************************************************)
FairSpec ==
  /\ Spec
  /\ WF_vars(CreateClient)
  /\ WF_vars(TimerFires)
  /\ WF_vars(CheckEvent)
  /\ WF_vars(HandleEvent)
  /\ WF_vars(RunTask)

-----------------------------------------------------------------------------
(* Properties. *)

TypeOK ==
  /\ registered \in BOOLEAN
  /\ db \in States \cup {"gone"}
  /\ creds \in BOOLEAN /\ linked \in BOOLEAN
  /\ state \in States
  /\ isDeleting \in BOOLEAN /\ endSession \in BOOLEAN /\ wuid \in BOOLEAN
  /\ count \in 0..QrLimit
  /\ sockets \in Seq({"pairing", "joining", "open", "dead"})
  /\ queue \in Seq(Events)
  /\ checked \in BOOLEAN
  /\ checked => queue # <<>>
  /\ creating \in Nat /\ timers \in Nat
  /\ tasks \subseteq {"limit", "noConnection", "terminal", "cleanup", "opened",
                      "logout", "forget", "logoutAndRemove",
                      "forgetAndRemove", "remove"}
  /\ grace \in BOOLEAN
  /\ moves \in 0..MaxMoves /\ crashes \in 0..MaxCrashes
  /\ wanted \in BOOLEAN /\ skipped \in BOOLEAN /\ quiet \in BOOLEAN

\* Nothing is left that could bring the instance up again.
Stranded ==
  /\ Live = {} /\ creating = 0 /\ timers = 0
  /\ \A i \in DOMAIN queue : queue[i].kind # "close"

\* An instance that the user has connected, and that was neither logged out,
\* deleted nor refused, is up or about to come up, whatever closes, 515s,
\* restarts and stale continuations of other sockets come in between; unless
\* the code has given up on it on purpose (CloseSkipped, a failed connect).
WantedIsNotStranded == wanted /\ Stranded => skipped

\* Once logoutInstance has ended the socket, nothing connects the instance
\* behind the user's back: also not an event that had passed the test of
\* endSession when the logout began.  This needs the logout to begin while
\* this.client is all there is (no timer, no second socket).
LogoutHolds ==
  quiet /\ {"logout", "logoutAndRemove"} \cap tasks = {} =>
    Live = {} /\ creating = 0 /\ timers = 0

\* A wanted instance without a socket gets a new one, or the code has given it
\* up: no event stays unhandled in the queue.
WantedComesUp == wanted ~> (Live # {} \/ ~wanted \/ skipped)

\* What the comment above isInitialConnection says: a close is skipped as that of
\* an initial connection only while a QR code is waited for.  Refuted: in a new
\* process wuid and the count of QR codes are empty for a paired device, too,
\* and a first connection that drops is its last.
InitialIsUnpaired ==
  [][CloseSkipped /\ InitialConnection /\ ~Ending => ~creds]_vars

\* What the comment on isDeleting says: it prevents reconnection during deletion.
\* Refuted: logoutInstance sets it and nothing clears it, so an instance that is
\* paired again after a logout is never reconnected.
SkipsOnlyWhileDeleting == [][CloseSkipped /\ isDeleting => ~wanted]_vars

\* What the changelog says of remove.instance: it leaves no zombie instance.
\* Refuted: a reconnection timer that was pending connects the deleted instance.
DeletedIsDown ==
  ~registered /\ tasks = {} => Live = {} /\ creating = 0 /\ timers = 0

=============================================================================
