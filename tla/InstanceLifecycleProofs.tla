----------------------- MODULE InstanceLifecycleProofs -----------------------
(***************************************************************************)
(* Proofs about InstanceLifecycle, for any limit of QR codes, any number   *)
(* of calls and accidents, and any number of restarts.                     *)
(***************************************************************************)
EXTENDS InstanceLifecycle, SequenceTheorems, TLAPS

SocketStates == {"pairing", "joining", "open", "dead"}
Codes == {"dropped", "timeout", "loggedOut", "restart", "none"}
Tasks == {"limit", "noConnection", "terminal", "cleanup", "opened", "logout",
          "forget", "logoutAndRemove", "forgetAndRemove", "remove"}

-----------------------------------------------------------------------------
(* Sockets and queue *)

\* The constructors of events make events.
LEMMA EventType ==
    /\ \A k \in {"connecting", "qr", "paired", "open"} : Event(k) \in Events
    /\ \A c \in Codes : Close(c) \in Events /\ Close(c).kind = "close"
  BY DEF Event, Close, Events, Codes

\* An event that arrives joins the others at the end.
LEMMA Arrives ==
    ASSUME queue \in Seq(Events), NEW e \in Events, queue' = Append(queue, e)
    PROVE  /\ queue' \in Seq(Events)
           /\ queue' # <<>>
           /\ \A i \in DOMAIN queue : i \in DOMAIN queue' /\ queue'[i] = queue[i]
           /\ \E i \in DOMAIN queue' : queue'[i] = e
  <1>1. /\ queue' \in Seq(Events) /\ Len(queue') = Len(queue) + 1
        /\ \A i \in 1..Len(queue) : queue'[i] = queue[i]
        /\ queue'[Len(queue) + 1] = e
    BY AppendProperties
  <1>2. /\ Len(queue) \in Nat /\ DOMAIN queue = 1..Len(queue)
        /\ DOMAIN queue' = 1..Len(queue')
    BY <1>1, LenProperties
  <1> QED BY <1>1, <1>2

\* The first event goes.
LEMMA Leaves ==
    ASSUME queue \in Seq(Events), queue # <<>>, queue' = Tail(queue)
    PROVE  /\ queue' \in Seq(Events)
           /\ Head(queue) \in Events
           /\ \A i \in DOMAIN queue :
                queue[i] = Head(queue) \/ \E k \in DOMAIN queue' : queue'[k] = queue[i]
  <1>1. /\ Head(queue) \in Events /\ Head(queue) = queue[1]
        /\ queue' \in Seq(Events) /\ Len(queue') = Len(queue) - 1
        /\ \A i \in 1..Len(queue') : queue'[i] = queue[i + 1]
    BY HeadTailProperties
  <1>2. /\ Len(queue) \in Nat /\ DOMAIN queue = 1..Len(queue)
        /\ DOMAIN queue' = 1..Len(queue')
    BY <1>1, LenProperties
  <1>3. ASSUME NEW i \in DOMAIN queue, i # 1
        PROVE  i - 1 \in DOMAIN queue' /\ queue'[i - 1] = queue[i]
    BY <1>1, <1>2, <1>3
  <1> QED BY <1>1, <1>3

\* A socket that changes leaves the others alone.
LEMMA SocketChanges ==
    ASSUME sockets \in Seq(SocketStates), NEW s \in DOMAIN sockets,
           NEW to \in SocketStates, sockets' = [sockets EXCEPT ![s] = to]
    PROVE  /\ sockets' \in Seq(SocketStates)
           /\ DOMAIN sockets' = DOMAIN sockets /\ client' = client
           /\ Live' = IF to = "dead" THEN Live \ {s} ELSE Live \cup {s}
  <1>1. s \in 1..Len(sockets) BY LenProperties
  <1>2. /\ sockets' \in Seq(SocketStates) /\ Len(sockets') = Len(sockets)
        /\ \A i \in 1..Len(sockets) : sockets'[i] = IF i = s THEN to ELSE sockets[i]
    BY <1>1, ExceptSeq
  <1> QED BY <1>1, <1>2, LenProperties DEF Live, client

\* A socket that dies leaves a close behind the events in the queue.
LEMMA DiesFacts ==
    ASSUME sockets \in Seq(SocketStates), queue \in Seq(Events),
           NEW s \in DOMAIN sockets, NEW events \in Seq(Events), SocketDies(s, events)
    PROVE  /\ sockets' \in Seq(SocketStates) /\ queue' \in Seq(Events)
           /\ client' = client /\ Live' = Live \ {s}
           /\ queue # <<>> => queue' # <<>>
           /\ \A e \in DOMAIN events : \E i \in DOMAIN queue' : queue'[i] = events[e]
           /\ \A i \in DOMAIN queue : \E k \in DOMAIN queue' : queue'[k] = queue[i]
  <1>1. sockets' \in Seq(SocketStates) /\ client' = client /\ Live' = Live \ {s}
    BY SocketChanges DEF SocketDies, SocketStates
  <1>2. /\ queue' \in Seq(Events) /\ Len(queue') = Len(queue) + Len(events)
        /\ \A i \in 1..(Len(queue) + Len(events)) :
             queue'[i] = IF i <= Len(queue) THEN queue[i] ELSE events[i - Len(queue)]
    BY ConcatProperties DEF SocketDies
  <1>3. /\ Len(queue) \in Nat /\ DOMAIN queue = 1..Len(queue)
        /\ Len(events) \in Nat /\ DOMAIN events = 1..Len(events)
        /\ DOMAIN queue' = 1..Len(queue')
    BY <1>2, LenProperties
  <1>4. ASSUME NEW e \in DOMAIN events
        PROVE  Len(queue) + e \in DOMAIN queue' /\ queue'[Len(queue) + e] = events[e]
    BY <1>2, <1>3, <1>4
  <1>5. queue # <<>> => queue' # <<>>
    <2>1. queue # <<>> => Len(queue) # 0 BY EmptySeq
    <2>2. queue' = <<>> => Len(queue') = 0 OBVIOUS
    <2> QED BY <1>2, <1>3, <2>1, <2>2
  <1>6. \A i \in DOMAIN queue : i \in DOMAIN queue' /\ queue'[i] = queue[i]
    BY <1>2, <1>3
  <1> QED BY <1>1, <1>2, <1>4, <1>5, <1>6

\* EndClient ends the current socket, or there is no current socket to end.
LEMMA EndClientFacts ==
    ASSUME sockets \in Seq(SocketStates), queue \in Seq(Events),
           NEW code \in Codes, EndClient(code)
    PROVE  /\ sockets' \in Seq(SocketStates) /\ queue' \in Seq(Events)
           /\ client' = client /\ Live' = Live \ {client}
           /\ queue # <<>> => queue' # <<>>
           /\ \/ UNCHANGED <<sockets, queue>>
              \/ \E i \in DOMAIN queue' : queue'[i].kind = "close"
  <1>1. Len(sockets) \in Nat /\ DOMAIN sockets = 1..Len(sockets) BY LenProperties
  <1>2. CASE client # 0 /\ sockets[client] # "dead"
    <2> DEFINE events == <<Close(code)>>
    <2>1. client \in DOMAIN sockets BY <1>1, <1>2 DEF client
    <2>2. events \in Seq(Events) /\ 1 \in DOMAIN events /\ events[1].kind = "close"
      BY EventType
    <2>3. SocketDies(client, events) BY <1>2 DEF EndClient
    <2> HIDE DEF events
    <2> QED BY <2>1, <2>2, <2>3, DiesFacts
  <1>3. CASE ~(client # 0 /\ sockets[client] # "dead")
    <2>1. UNCHANGED <<sockets, queue>> BY <1>3 DEF EndClient
    <2>2. client \notin Live BY <1>1, <1>3 DEF Live, client
    <2> QED BY <2>1, <2>2 DEF Live, client
  <1> QED BY <1>2, <1>3

-----------------------------------------------------------------------------
(* Types *)

\* The names of the tasks the proofs use.
LEMMA TaskNames ==
  /\ "limit" \in Tasks /\ "noConnection" \in Tasks /\ "terminal" \in Tasks
  /\ "cleanup" \in Tasks /\ "opened" \in Tasks /\ "logout" \in Tasks
  /\ "forget" \in Tasks /\ "logoutAndRemove" \in Tasks
  /\ "forgetAndRemove" \in Tasks /\ "remove" \in Tasks
  BY DEF Tasks

\* The parts of TypeOK, each with a lemma of its own.
NumbersTypeOK ==
  /\ count \in 0..QrLimit
  /\ creating \in Nat /\ timers \in Nat
  /\ moves \in 0..MaxMoves /\ crashes \in 0..MaxCrashes

RowTypeOK ==
  /\ registered \in BOOLEAN
  /\ db \in States \cup {"gone"}
  /\ creds \in BOOLEAN /\ linked \in BOOLEAN
  /\ state \in States

ServiceTypeOK ==
  /\ isDeleting \in BOOLEAN /\ endSession \in BOOLEAN /\ wuid \in BOOLEAN
  /\ checked \in BOOLEAN
  /\ grace \in BOOLEAN

HistoryTypeOK == wanted \in BOOLEAN /\ skipped \in BOOLEAN /\ quiet \in BOOLEAN

SequencesTypeOK ==
  /\ sockets \in Seq(SocketStates)
  /\ queue \in Seq(Events)
  /\ checked => queue # <<>>

\* TypeOK, in parts that one step disturbs.
LEMMA TypeParts ==
  /\ TypeOK <=> /\ NumbersTypeOK /\ RowTypeOK /\ ServiceTypeOK /\ HistoryTypeOK
                /\ SequencesTypeOK /\ tasks \subseteq Tasks
  /\ TypeOK' <=> /\ NumbersTypeOK' /\ RowTypeOK' /\ ServiceTypeOK' /\ HistoryTypeOK'
                 /\ SequencesTypeOK' /\ tasks' \subseteq Tasks
  BY DEF TypeOK, NumbersTypeOK, RowTypeOK, ServiceTypeOK, HistoryTypeOK, SequencesTypeOK,
     SocketStates, Tasks

\* The initial state is well typed.
LEMMA InitTypeOK == Init => TypeOK
  <1> SUFFICES ASSUME Init PROVE TypeOK
    OBVIOUS
  <1>1. NumbersTypeOK BY BoundsAssumption DEF Init, NumbersTypeOK
  <1>2. RowTypeOK BY DEF Init, RowTypeOK, States
  <1>3. ServiceTypeOK BY DEF Init, ServiceTypeOK
  <1>4. HistoryTypeOK BY DEF Init, HistoryTypeOK
  <1>5. SequencesTypeOK BY DEF Init, SequencesTypeOK
  <1> QED BY <1>1, <1>2, <1>3, <1>4, <1>5, TypeParts DEF Init

\* Every step keeps counters and sockets well typed.
LEMMA NextNumbers == NumbersTypeOK /\ [Next]_vars => NumbersTypeOK'
  <1> SUFFICES ASSUME NumbersTypeOK, [Next]_vars PROVE NumbersTypeOK'
    OBVIOUS
  <1> USE BoundsAssumption DEF NumbersTypeOK, flags, stored, pending, bounds, Move
  <1>1. CASE CreateClient \/ CreateFails \/ TimerFires \/ Network
    BY <1>1 DEF CreateClient, CreateFails, TimerFires, Network, SocketShowsQr, SocketPairs,
       SocketOpens, SocketRefused, SocketDrops, PhoneUnlinks, GraceFades
  <1>2. CASE CheckEvent \/ HandleEvent
    BY <1>2 DEF CheckEvent, HandleEvent, HandlePaired, HandleConnecting, HandleQr,
       HandleQrAtLimit, HandleOpen, CloseSkipped, CloseReconnects, CloseGivesUp
  <1>3. CASE RunTask
    BY <1>3 DEF RunTask, RunLimit, RunNoConnection, RunTerminal, RunCleanup, RunOpened,
       RunLogout, RunForget, RunRemove
  <1>4. CASE User \/ RestartProcess
    BY <1>4 DEF User, Connect, Logout, RestartInstance, DeleteConnected, DeleteClosed,
       StartLogout, RestartProcess, NewService
  <1>5. CASE UNCHANGED vars
    BY <1>5 DEF vars
  <1> QED BY <1>1, <1>2, <1>3, <1>4, <1>5 DEF Next

\* Every step keeps the row of the database well typed.
LEMMA NextRow == RowTypeOK /\ [Next]_vars => RowTypeOK'
  <1> SUFFICES ASSUME RowTypeOK, [Next]_vars PROVE RowTypeOK'
    OBVIOUS
  <1> USE DEF RowTypeOK, stored, States
  <1>1. CASE CreateClient \/ CreateFails \/ TimerFires \/ Network
    BY <1>1 DEF CreateClient, CreateFails, TimerFires, Network, SocketShowsQr, SocketPairs,
       SocketOpens, SocketRefused, SocketDrops, PhoneUnlinks, GraceFades
  <1>2. CASE CheckEvent \/ HandleEvent
    BY <1>2 DEF CheckEvent, HandleEvent, HandlePaired, HandleConnecting, HandleQr,
       HandleQrAtLimit, HandleOpen, CloseSkipped, CloseReconnects, CloseGivesUp,
       Handling, HandlingClose, SetStatus
  <1>3. CASE RunTask
    BY <1>3 DEF RunTask, RunLimit, RunNoConnection, RunTerminal, RunCleanup, RunOpened,
       RunLogout, RunForget, RunRemove, LogoutClient, SetStatus
  <1>4. CASE User \/ RestartProcess
    BY <1>4 DEF User, Connect, Logout, RestartInstance, DeleteConnected, DeleteClosed,
       StartLogout, RestartProcess, NewService
  <1>5. CASE UNCHANGED vars
    BY <1>5 DEF vars
  <1> QED BY <1>1, <1>2, <1>3, <1>4, <1>5 DEF Next

\* Every step keeps the service object well typed.
LEMMA NextService == ServiceTypeOK /\ [Next]_vars => ServiceTypeOK'
  <1> SUFFICES ASSUME ServiceTypeOK, [Next]_vars PROVE ServiceTypeOK'
    OBVIOUS
  <1> USE DEF ServiceTypeOK, flags
  <1>1. CASE CreateClient \/ CreateFails \/ TimerFires \/ Network
    BY <1>1 DEF CreateClient, CreateFails, TimerFires, Network, SocketShowsQr, SocketPairs,
       SocketOpens, SocketRefused, SocketDrops, PhoneUnlinks, GraceFades
  <1>2. CASE CheckEvent \/ HandleEvent
    BY <1>2 DEF CheckEvent, HandleEvent, HandlePaired, HandleConnecting, HandleQr,
       HandleQrAtLimit, HandleOpen, CloseSkipped, CloseReconnects, CloseGivesUp,
       Handling, HandlingClose, SetStatus
  <1>3. CASE RunTask
    BY <1>3 DEF RunTask, RunLimit, RunNoConnection, RunTerminal, RunCleanup, RunOpened,
       RunLogout, RunForget, RunRemove, LogoutClient, SetStatus
  <1>4. CASE User \/ RestartProcess
    BY <1>4 DEF User, Connect, Logout, RestartInstance, DeleteConnected, DeleteClosed,
       StartLogout, RestartProcess, NewService
  <1>5. CASE UNCHANGED vars
    BY <1>5 DEF vars
  <1> QED BY <1>1, <1>2, <1>3, <1>4, <1>5 DEF Next

\* Every step keeps the history variables well typed.
LEMMA NextHistory == HistoryTypeOK /\ [Next]_vars => HistoryTypeOK'
  <1> SUFFICES ASSUME HistoryTypeOK, [Next]_vars PROVE HistoryTypeOK'
    OBVIOUS
  <1> USE DEF HistoryTypeOK, history
  <1>1. CASE CreateClient \/ CreateFails \/ TimerFires \/ Network
    BY <1>1 DEF CreateClient, CreateFails, TimerFires, Network, SocketShowsQr, SocketPairs,
       SocketOpens, SocketRefused, SocketDrops, PhoneUnlinks, GraceFades
  <1>2. CASE CheckEvent \/ HandleEvent
    BY <1>2 DEF CheckEvent, HandleEvent, HandlePaired, HandleConnecting, HandleQr,
       HandleQrAtLimit, HandleOpen, CloseSkipped, CloseReconnects, CloseGivesUp,
       Handling, HandlingClose, SetStatus
  <1>3. CASE RunTask
    BY <1>3 DEF RunTask, RunLimit, RunNoConnection, RunTerminal, RunCleanup, RunOpened,
       RunLogout, RunForget, RunRemove, LogoutClient, SetStatus
  <1>4. CASE User \/ RestartProcess
    BY <1>4 DEF User, Connect, Logout, RestartInstance, DeleteConnected, DeleteClosed,
       StartLogout, RestartProcess, NewService
  <1>5. CASE UNCHANGED vars
    BY <1>5 DEF vars
  <1> QED BY <1>1, <1>2, <1>3, <1>4, <1>5 DEF Next

\* Every step keeps the tasks well typed.
LEMMA NextTasks == tasks \subseteq Tasks /\ [Next]_vars => tasks' \subseteq Tasks
  <1> SUFFICES ASSUME tasks \subseteq Tasks, [Next]_vars PROVE tasks' \subseteq Tasks
    OBVIOUS
  <1> USE TaskNames DEF pending
  <1>1. CASE CreateClient \/ CreateFails \/ TimerFires \/ Network
    BY <1>1 DEF CreateClient, CreateFails, TimerFires, Network, SocketShowsQr, SocketPairs,
       SocketOpens, SocketRefused, SocketDrops, PhoneUnlinks, GraceFades
  <1>2. CASE CheckEvent \/ HandleEvent
    BY <1>2 DEF CheckEvent, HandleEvent, HandlePaired, HandleConnecting, HandleQr,
       HandleQrAtLimit, HandleOpen, CloseSkipped, CloseReconnects, CloseGivesUp
  <1>3. CASE RunTask
    BY <1>3 DEF RunTask, RunLimit, RunNoConnection, RunTerminal, RunCleanup, RunOpened,
       RunLogout, RunForget, RunRemove, Runs
  <1>4. CASE User \/ RestartProcess
    BY <1>4 DEF User, Connect, Logout, RestartInstance, DeleteConnected, DeleteClosed,
       StartLogout, RestartProcess
  <1>5. CASE UNCHANGED vars
    BY <1>5 DEF vars
  <1> QED BY <1>1, <1>2, <1>3, <1>4, <1>5 DEF Next

\* Every step keeps the queues well typed.
LEMMA NextSequences == SequencesTypeOK /\ [Next]_vars => SequencesTypeOK'
  <1> SUFFICES ASSUME SequencesTypeOK, [Next]_vars PROVE SequencesTypeOK'
    OBVIOUS
  <1> USE DEF SequencesTypeOK
  <1>1. CASE CreateClient
    <2>1. (IF creds THEN "joining" ELSE "pairing") \in SocketStates BY DEF SocketStates
    <2>2. sockets' \in Seq(SocketStates) BY <1>1, <2>1, AppendProperties DEF CreateClient
    <2> QED BY <1>1, <2>2, Arrives, EventType DEF CreateClient
  <1>2. ASSUME NEW s \in DOMAIN sockets, SocketShowsQr(s) PROVE SequencesTypeOK'
    BY <1>2, Arrives, EventType DEF SocketShowsQr
  <1>3. ASSUME NEW s \in DOMAIN sockets, SocketPairs(s) PROVE SequencesTypeOK'
    <2> PICK code \in {"restart", "loggedOut"} :
               SocketDies(s, <<Event("paired"), Close(code)>>)
      BY <1>3 DEF SocketPairs
    <2>1. <<Event("paired"), Close(code)>> \in Seq(Events) BY EventType DEF Codes
    <2> QED BY <1>3, <2>1, DiesFacts DEF SocketPairs
  <1>4. ASSUME NEW s \in DOMAIN sockets, SocketOpens(s) PROVE SequencesTypeOK'
    BY <1>4, SocketChanges, Arrives, EventType DEF SocketOpens, SocketStates
  <1>5. ASSUME NEW s \in DOMAIN sockets, SocketRefused(s) \/ SocketDrops(s)
        PROVE  SequencesTypeOK'
    <2> PICK code \in Codes : SocketDies(s, <<Close(code)>>)
      BY <1>5 DEF SocketRefused, SocketDrops, Codes
    <2>1. <<Close(code)>> \in Seq(Events) BY EventType
    <2>2. UNCHANGED checked BY <1>5 DEF SocketRefused, SocketDrops
    <2> DEFINE events == <<Close(code)>>
    <2> HIDE DEF events
    <2> QED BY <2>1, <2>2, DiesFacts DEF events
  <1>6. CASE CheckEvent
    BY <1>6, Leaves DEF CheckEvent
  <1>7. CASE HandleEvent
    <2>1. queue' = Tail(queue) /\ checked /\ checked' = FALSE /\ UNCHANGED sockets
      BY <1>7 DEF HandleEvent, HandlePaired, HandleConnecting, HandleQr, HandleQrAtLimit,
         HandleOpen, CloseSkipped, CloseReconnects, CloseGivesUp, HandlingClose, Handling
    <2> QED BY <2>1, Leaves
  <1>8. CASE RunNoConnection \/ RunTerminal \/ RestartInstance
             \/ \E task, next \in Tasks : RunLogout(task, next)
    <2>1. UNCHANGED checked /\ \E code \in Codes : EndClient(code)
      BY <1>8 DEF RunNoConnection, RunTerminal, RestartInstance, RunLogout, LogoutClient, Codes
    <2> QED BY <2>1, EndClientFacts
  <1>9. CASE RestartProcess
    <2>1. Len(sockets) \in Nat /\ DOMAIN sockets = 1..Len(sockets) BY LenProperties
    <2>2. sockets' = [s \in 1..Len(sockets) |-> "dead"]
      BY <1>9, <2>1 DEF RestartProcess
    <2>3. "dead" \in SocketStates BY DEF SocketStates
    <2>4. queue' = <<>> /\ checked' = FALSE BY <1>9 DEF RestartProcess
    <2>5. sockets' \in Seq(SocketStates) BY <2>1, <2>2, <2>3
    <2> QED BY <2>4, <2>5
  <1>10. CASE UNCHANGED <<sockets, queue, checked>>
    BY <1>10
  <1> QED
    BY <1>1, <1>2, <1>3, <1>4, <1>5, <1>6, <1>7, <1>8, <1>9, <1>10, TaskNames
    DEF Next, vars, Network, User, RunTask, CreateFails, TimerFires, PhoneUnlinks, GraceFades,
        RunLimit, RunCleanup, RunOpened, RunForget, RunRemove, Connect, Logout,
        DeleteConnected, DeleteClosed, StartLogout

\* Every step keeps the types.
LEMMA NextTypeOK == TypeOK /\ [Next]_vars => TypeOK'
  BY TypeParts, NextNumbers, NextRow, NextService, NextHistory, NextTasks, NextSequences

\* Flags, rows, sockets, the event queue and the tasks are well typed, for any
\* QR limit, moves and restarts; an event that is being handled is in the queue.
THEOREM TypeCorrect == Spec => []TypeOK
  BY InitTypeOK, NextTypeOK, PTL DEF Spec

-----------------------------------------------------------------------------
(* A logout holds *)

LogoutTasks == {"logout", "logoutAndRemove"}

\* When the user logs out while this.client is all there is, this.client stays
\* all there is until logoutInstance has ended it.
LogoutInv ==
  quiet =>
    /\ isDeleting /\ creating = 0 /\ timers = 0
    /\ Live \subseteq {client}
    /\ LogoutTasks \cap tasks = {} => Live = {}

\* Only createClient makes a socket.
LEMMA NextLive ==
    ASSUME TypeOK, Next, ~CreateClient, ~RestartProcess
    PROVE  Live' \subseteq Live /\ client' = client
  <1>0. sockets \in Seq(SocketStates) /\ queue \in Seq(Events)
    BY TypeParts DEF SequencesTypeOK
  <1>1. ASSUME NEW s \in DOMAIN sockets, SocketPairs(s) PROVE Live' \subseteq Live /\ client' = client
    BY <1>0, <1>1, SocketChanges DEF SocketPairs, SocketDies, SocketStates
  <1>2. ASSUME NEW s \in DOMAIN sockets, SocketOpens(s) PROVE Live' \subseteq Live /\ client' = client
    BY <1>0, <1>2, SocketChanges DEF SocketOpens, SocketStates, Live
  <1>3. ASSUME NEW s \in DOMAIN sockets, SocketRefused(s) \/ SocketDrops(s)
        PROVE  Live' \subseteq Live /\ client' = client
    BY <1>0, <1>3, SocketChanges DEF SocketRefused, SocketDrops, SocketDies, SocketStates
  <1>4. CASE RunNoConnection \/ RunTerminal \/ RestartInstance
             \/ \E task, next \in Tasks : RunLogout(task, next)
    <2>1. \E code \in Codes : EndClient(code)
      BY <1>4 DEF RunNoConnection, RunTerminal, RestartInstance, RunLogout, LogoutClient, Codes
    <2> QED BY <1>0, <2>1, EndClientFacts
  <1>5. CASE UNCHANGED sockets
    BY <1>5 DEF Live, client
  <1> QED
    BY <1>1, <1>2, <1>3, <1>4, <1>5, TaskNames
    DEF Next, Network, User, RunTask, HandleEvent, CreateFails, TimerFires, SocketShowsQr,
        PhoneUnlinks, GraceFades, CheckEvent, HandlePaired, HandleConnecting, HandleQr,
        HandleQrAtLimit, HandleOpen, CloseSkipped, CloseReconnects, CloseGivesUp, RunLimit,
        RunCleanup, RunOpened, RunForget, RunRemove, Connect, Logout, DeleteConnected,
        DeleteClosed, StartLogout

\* What the steps that neither begin nor carry out a logout do to it.
LEMMA LogoutGoesOn ==
    ASSUME LogoutInv, Next, quiet', quiet,
           ~CreateClient, ~RestartProcess, ~Logout, ~DeleteConnected,
           ~RunLogout("logout", "forget"),
           ~RunLogout("logoutAndRemove", "forgetAndRemove")
    PROVE  /\ isDeleting' /\ creating' = 0 /\ timers' = 0
           /\ LogoutTasks \cap tasks \subseteq tasks'
  <1> USE DEF LogoutInv, LogoutTasks, flags, pending, history
  <1>1. CASE CreateFails \/ TimerFires \/ Network
    <2>1. CASE CreateFails \/ TimerFires
      BY <2>1 DEF CreateFails, TimerFires
    <2>2. CASE Network
      <3>1. UNCHANGED flags /\ UNCHANGED pending
        BY <2>2 DEF Network, SocketShowsQr, SocketPairs, SocketOpens, SocketRefused,
           SocketDrops, PhoneUnlinks, GraceFades
      <3> QED BY <3>1
    <2> QED BY <1>1, <2>1, <2>2
  <1>2. CASE CheckEvent \/ HandleEvent
    BY <1>2 DEF CheckEvent, HandleEvent, HandlePaired, HandleConnecting, HandleQr,
       HandleQrAtLimit, HandleOpen, CloseSkipped, CloseReconnects, CloseGivesUp, Ending
  <1>3. CASE RunTask
    BY <1>3 DEF RunTask, RunLimit, RunNoConnection, RunTerminal, RunCleanup, RunOpened,
       RunForget, RunRemove, Runs
  <1>4. CASE User
    BY <1>4 DEF User, Connect, RestartInstance, DeleteClosed
  <1> QED BY <1>1, <1>2, <1>3, <1>4 DEF Next

\* Every step keeps what a logout has left behind.
LEMMA NextLogoutInv == TypeOK /\ LogoutInv /\ [Next]_vars => LogoutInv'
  <1> SUFFICES ASSUME TypeOK, LogoutInv, Next, quiet' PROVE LogoutInv'
    BY DEF LogoutInv, LogoutTasks, Live, client, vars, flags, pending, history
  <1>0. sockets \in Seq(SocketStates) /\ queue \in Seq(Events)
    BY TypeParts DEF SequencesTypeOK
  <1>1. CASE CreateClient
    BY <1>1 DEF LogoutInv, CreateClient, history
  <1>2. CASE RestartProcess
    BY <1>2 DEF RestartProcess
  <1>3. CASE Logout \/ DeleteConnected
    <2>1. PICK task \in LogoutTasks : StartLogout(task)
      BY <1>3 DEF Logout, DeleteConnected, LogoutTasks
    <2>2. task \in LogoutTasks \cap tasks' BY <2>1 DEF StartLogout
    <2>3. Live' = Live /\ client' = client BY <2>1 DEF StartLogout, Live, client
    <2>4. isDeleting' /\ creating' = 0 /\ timers' = 0 /\ Live \subseteq {client}
      BY <2>1 DEF StartLogout
    <2> QED BY <2>2, <2>3, <2>4 DEF LogoutInv
  <1>4. CASE RunLogout("logout", "forget") \/ RunLogout("logoutAndRemove", "forgetAndRemove")
    <2>1. EndClient("loggedOut") /\ quiet
      BY <1>4 DEF RunLogout, LogoutClient, history
    <2>2. Live' = Live \ {client}
      BY <1>0, <2>1, EndClientFacts DEF Codes
    <2>3. isDeleting' /\ creating' = 0 /\ timers' = 0
      BY <1>4, <2>1 DEF RunLogout, LogoutInv, flags
    <2> QED BY <2>1, <2>2, <2>3 DEF LogoutInv
  <1>5. CASE ~(CreateClient \/ RestartProcess \/ Logout \/ DeleteConnected
               \/ RunLogout("logout", "forget")
               \/ RunLogout("logoutAndRemove", "forgetAndRemove"))
    <2>1. quiet
      BY <1>5 DEF Next, Network, User, RunTask, HandleEvent, CreateFails, TimerFires,
         SocketShowsQr, SocketPairs, SocketOpens, SocketRefused, SocketDrops,
         PhoneUnlinks, GraceFades, CheckEvent, HandlePaired, HandleConnecting, HandleQr,
         HandleQrAtLimit, HandleOpen, CloseSkipped, CloseReconnects, CloseGivesUp,
         RunLimit, RunNoConnection, RunTerminal, RunCleanup, RunOpened, RunForget,
         RunRemove, Connect, RestartInstance, DeleteClosed, history
    <2> QED BY <1>5, <2>1, LogoutGoesOn, NextLive DEF LogoutInv
  <1> QED BY <1>1, <1>2, <1>3, <1>4, <1>5

\* Once logoutInstance has ended the socket, nothing connects the instance
\* again behind the user's back.
THEOREM LogoutCorrect == Spec => []LogoutHolds
  <1>1. Init => LogoutInv BY DEF Init, LogoutInv
  <1>2. LogoutInv => LogoutHolds BY DEF LogoutInv, LogoutHolds, LogoutTasks
  <1> QED BY <1>1, <1>2, NextLogoutInv, TypeCorrect, PTL DEF Spec

-----------------------------------------------------------------------------
(* A wanted instance comes up *)

ClosePending == \E i \in DOMAIN queue : queue[i].kind = "close"

\* What will bring the instance up, or already has.
ComingUp == Live # {} \/ creating > 0 \/ timers > 0 \/ ClosePending

\* A wanted instance exists, is coming up, and its session is ended only as
\* long as a new client, which takes that back, is on its way: a close that is
\* dropped as the event of an ended session is therefore not missed.
WantedInv ==
  /\ wanted \/ registered => db # "gone"
  /\ wanted /\ ~skipped => ComingUp
  /\ wanted /\ ~skipped /\ endSession => creating > 0

\* A row is removed with the instance only.
LEMMA NextExists ==
    ASSUME wanted \/ registered => db # "gone", Next
    PROVE  wanted' \/ registered' => db' # "gone"
  <1> USE DEF stored, history, SetStatus
  <1>1. CASE CreateClient \/ CreateFails \/ TimerFires \/ Network
    BY <1>1 DEF CreateClient, CreateFails, TimerFires, Network, SocketShowsQr, SocketPairs,
       SocketOpens, SocketRefused, SocketDrops, PhoneUnlinks, GraceFades
  <1>2. CASE CheckEvent \/ HandleEvent
    BY <1>2 DEF CheckEvent, HandleEvent, HandlePaired, HandleConnecting, HandleQr,
       HandleQrAtLimit, HandleOpen, CloseSkipped, CloseReconnects, CloseGivesUp
  <1>3. CASE RunTask
    BY <1>3 DEF RunTask, RunLimit, RunNoConnection, RunTerminal, RunCleanup, RunOpened,
       RunLogout, RunForget, RunRemove
  <1>4. CASE User \/ RestartProcess
    BY <1>4 DEF User, Connect, Logout, RestartInstance, DeleteConnected, DeleteClosed,
       StartLogout, RestartProcess
  <1> QED BY <1>1, <1>2, <1>3, <1>4 DEF Next

\* Whatever the sockets and the network do, a close takes the place of a
\* socket that dies.
LEMMA NetworkComingUp ==
    ASSUME TypeOK, ComingUp, Network
    PROVE  ComingUp'
  <1>0. sockets \in Seq(SocketStates) /\ queue \in Seq(Events)
    BY TypeParts DEF SequencesTypeOK
  <1>1. ASSUME NEW s \in DOMAIN sockets, SocketShowsQr(s) PROVE ComingUp'
    <2>1. ClosePending => ClosePending'
      BY <1>0, <1>1, Arrives, EventType DEF SocketShowsQr, ClosePending
    <2> QED BY <1>1, <2>1 DEF ComingUp, SocketShowsQr, pending, Live
  <1>2. ASSUME NEW s \in DOMAIN sockets, SocketPairs(s) PROVE ComingUp'
    <2> PICK code \in {"restart", "loggedOut"} :
               SocketDies(s, <<Event("paired"), Close(code)>>)
      BY <1>2 DEF SocketPairs
    <2> DEFINE events == <<Event("paired"), Close(code)>>
    <2>1. events \in Seq(Events) /\ 2 \in DOMAIN events /\ events[2].kind = "close"
      BY EventType DEF Codes
    <2>2. SocketDies(s, events) OBVIOUS
    <2> HIDE DEF events
    <2> QED BY <1>0, <2>1, <2>2, DiesFacts DEF ComingUp, ClosePending
  <1>3. ASSUME NEW s \in DOMAIN sockets, SocketOpens(s) PROVE ComingUp'
    BY <1>0, <1>3, SocketChanges DEF ComingUp, SocketOpens, SocketStates
  <1>4. ASSUME NEW s \in DOMAIN sockets, SocketRefused(s) \/ SocketDrops(s) PROVE ComingUp'
    <2> PICK code \in Codes : SocketDies(s, <<Close(code)>>)
      BY <1>4 DEF SocketRefused, SocketDrops, Codes
    <2> DEFINE events == <<Close(code)>>
    <2>1. events \in Seq(Events) /\ 1 \in DOMAIN events /\ events[1].kind = "close"
      BY EventType
    <2>2. SocketDies(s, events) OBVIOUS
    <2> HIDE DEF events
    <2> QED BY <1>0, <2>1, <2>2, DiesFacts DEF ComingUp, ClosePending
  <1>5. CASE PhoneUnlinks \/ GraceFades
    BY <1>5 DEF PhoneUnlinks, GraceFades, ComingUp, ClosePending, Live, pending
  <1> QED BY <1>1, <1>2, <1>3, <1>4, <1>5 DEF Network

\* Ending this.client leaves a close behind, if it was alive.
LEMMA EndClientComingUp ==
    ASSUME TypeOK, ComingUp, NEW code \in Codes, EndClient(code), UNCHANGED <<creating, timers>>
    PROVE  ComingUp'
  <1>0. sockets \in Seq(SocketStates) /\ queue \in Seq(Events)
    BY TypeParts DEF SequencesTypeOK
  <1>1. CASE UNCHANGED <<sockets, queue>>
    BY <1>1 DEF ComingUp, ClosePending, Live
  <1>2. CASE ~ UNCHANGED <<sockets, queue>>
    BY <1>0, <1>2, EndClientFacts DEF ComingUp, ClosePending
  <1> QED BY <1>1, <1>2

\* A handled event that is no close takes nothing away.
LEMMA OtherEventComingUp ==
    ASSUME TypeOK, ComingUp, NEW kind, kind # "close", Handling(kind),
           UNCHANGED <<sockets, creating, timers>>
    PROVE  ComingUp'
  <1>0. queue \in Seq(Events) /\ queue # <<>>
    BY TypeParts DEF SequencesTypeOK, Handling
  <1>1. ClosePending => ClosePending'
    BY <1>0, Leaves DEF Handling, ClosePending
  <1> QED BY <1>1 DEF ComingUp, Live

\* Every step keeps a wanted instance on its way up.
LEMMA NextWantedInv == TypeOK /\ WantedInv /\ [Next]_vars => WantedInv'
  <1> SUFFICES ASSUME TypeOK, WantedInv, Next, wanted', ~skipped'
               PROVE  ComingUp' /\ (endSession' => creating' > 0)
    <2>1. CASE Next BY <2>1, NextExists DEF WantedInv
    <2>2. CASE UNCHANGED vars
      BY <2>2 DEF WantedInv, ComingUp, ClosePending, Live, vars, stored, flags, pending, history
    <2> QED BY <2>1, <2>2
  <1>0. creating \in Nat /\ timers \in Nat BY TypeParts DEF NumbersTypeOK
  <1>00. sockets \in Seq(SocketStates) /\ queue \in Seq(Events)
         /\ (checked => queue # <<>>)
    BY TypeParts DEF SequencesTypeOK
  <1>1. CASE CreateClient
    <2>1. (IF creds THEN "joining" ELSE "pairing") \in SocketStates \ {"dead"}
      BY DEF SocketStates
    <2>2. Len(sockets) + 1 \in Live'
      BY <1>00, <1>1, <2>1, AppendProperties, LenProperties DEF CreateClient, Live
    <2> QED BY <1>1, <2>2 DEF CreateClient, ComingUp, history
  <1>2. CASE CreateFails
    BY <1>2 DEF CreateFails
  <1>3. CASE TimerFires
    BY <1>0, <1>3 DEF TimerFires, ComingUp, history
  <1>4. CASE Network
    <2>1. UNCHANGED flags /\ UNCHANGED pending /\ UNCHANGED history
      BY <1>4 DEF Network, SocketShowsQr, SocketPairs, SocketOpens, SocketRefused,
         SocketDrops, PhoneUnlinks, GraceFades
    <2> QED BY <1>4, <2>1, NetworkComingUp DEF WantedInv, flags, pending, history
  <1>5. CASE CheckEvent
    <2>1. /\ UNCHANGED sockets /\ UNCHANGED pending /\ UNCHANGED flags /\ UNCHANGED history
          /\ endSession \/ UNCHANGED queue
      BY <1>5 DEF CheckEvent
    <2>2. wanted /\ ~skipped /\ UNCHANGED <<creating, timers>>
      BY <2>1 DEF history, pending
    <2>3. CASE endSession
      BY <2>2, <2>3 DEF WantedInv, ComingUp
    <2>4. CASE ~endSession
      BY <2>1, <2>2, <2>4 DEF WantedInv, ComingUp, ClosePending, Live, flags
    <2> QED BY <2>3, <2>4
  <1>6. CASE HandlePaired \/ HandleConnecting \/ HandleQr \/ HandleQrAtLimit \/ HandleOpen
    <2>1. UNCHANGED <<sockets, creating, timers>> /\ UNCHANGED endSession /\ UNCHANGED history
      BY <1>6 DEF HandlePaired, HandleConnecting, HandleQr, HandleQrAtLimit, HandleOpen,
         flags, pending
    <2>2. \E kind : kind # "close" /\ Handling(kind)
      BY <1>6 DEF HandlePaired, HandleConnecting, HandleQr, HandleQrAtLimit, HandleOpen
    <2> QED BY <2>1, <2>2, OtherEventComingUp DEF WantedInv, history
  <1>7. CASE CloseSkipped
    BY <1>7 DEF CloseSkipped
  <1>8. CASE CloseReconnects
    <2>1. ~endSession /\ UNCHANGED endSession /\ timers' = timers + 1
      BY <1>8 DEF CloseReconnects, Ending, flags
    <2> QED BY <1>0, <2>1 DEF ComingUp
  <1>9. CASE CloseGivesUp
    BY <1>9 DEF CloseGivesUp, ShouldReconnect, history
  <1>10. CASE RunNoConnection \/ RunTerminal \/ RestartInstance
              \/ \E task, next \in Tasks : RunLogout(task, next)
    <2>1. UNCHANGED <<creating, timers>> /\ UNCHANGED endSession /\ UNCHANGED history
      BY <1>10 DEF RunNoConnection, RunTerminal, RestartInstance, RunLogout, flags, pending
    <2>2. \E code \in Codes : EndClient(code)
      BY <1>10 DEF RunNoConnection, RunTerminal, RestartInstance, RunLogout, LogoutClient, Codes
    <2> QED BY <2>1, <2>2, EndClientComingUp DEF WantedInv, history
  <1>11. CASE RunCleanup \/ RunOpened
              \/ \E task \in Tasks, next \in SUBSET Tasks : RunForget(task, next)
    <2>1. UNCHANGED <<sockets, queue, creating, timers>> /\ UNCHANGED flags /\ UNCHANGED history
      BY <1>11 DEF RunCleanup, RunOpened, RunForget
    <2> QED BY <2>1 DEF WantedInv, ComingUp, ClosePending, Live, flags, history
  <1>12. CASE RunLimit \/ RunRemove \/ Logout \/ DeleteConnected \/ DeleteClosed
    BY <1>12 DEF RunLimit, RunRemove, Logout, DeleteConnected, DeleteClosed, StartLogout
  <1>13. CASE Connect
    BY <1>0, <1>13 DEF Connect, ComingUp
  <1>14. CASE RestartProcess
    <2>1. wanted /\ db # "gone" /\ db # "close" BY <1>14 DEF RestartProcess, WantedInv
    <2>2. creating' = 1 /\ endSession' = FALSE
      BY <1>14, <2>1, TypeParts DEF RestartProcess, NewService, RowTypeOK, States
    <2> QED BY <2>2 DEF ComingUp
  <1> QED
    BY <1>1, <1>2, <1>3, <1>4, <1>5, <1>6, <1>7, <1>8, <1>9, <1>10, <1>11, <1>12, <1>13,
       <1>14, TaskNames DEF Next, User, RunTask, HandleEvent

\* An instance that the user has connected, and that was neither logged out,
\* deleted nor refused, is up or coming up, unless the code gave it up.
THEOREM NotStranded == Spec => []WantedIsNotStranded
  <1>1. Init => WantedInv
    BY DEF Init, WantedInv, ComingUp
  <1>2. TypeOK /\ WantedInv => WantedIsNotStranded
    BY TypeParts DEF NumbersTypeOK, WantedInv, WantedIsNotStranded, Stranded, ComingUp, ClosePending
  <1> QED BY <1>1, <1>2, NextWantedInv, TypeCorrect, PTL DEF Spec

=============================================================================
