----------------------- MODULE ChatbotSessionsProofs -----------------------
(***************************************************************************)
(* Proofs about ChatbotSessions, for any messages, numbers and settings:   *)
(* types, and what the debounce does with the accepted messages.           *)
(***************************************************************************)
EXTENDS ChatbotSessions, SequenceTheorems, WellFoundedInduction, TLAPS

-----------------------------------------------------------------------------
(* The database *)

Rows == [number : Numbers, status : Statuses \cup {"deleted"}]

\* Any set of natural numbers has a first one, and any set of positions a last.
LEMMA FirstNatural ==
    ASSUME NEW T \in SUBSET Nat, T # {}
    PROVE  \E x \in T : \A y \in T : x <= y
  <1> DEFINE Less == {ss \in Nat \X Nat : ss[1] < ss[2]}
  <1>1. IsWellFoundedOn(Less, Nat)
    BY NatLessThanWellFounded DEF OpToRel
  <1>2. \A x, y \in Nat : <<y, x>> \notin Less => x <= y
    OBVIOUS
  <1> HIDE DEF Less
  <1>3. PICK x \in T : \A y \in T : ~ (<<y, x>> \in Less)
    BY <1>1, WFMin, Zenon
  <1> QED BY <1>2, <1>3

\* Max of a set of positions is its last one.
LEMMA LastPosition ==
    ASSUME NEW n \in Nat, NEW T \in SUBSET (1..n), T # {}
    PROVE  Max(T) \in T /\ \A t \in T : t <= Max(T)
  <1> DEFINE D == {n - t : t \in T}
  <1>1. D \in SUBSET Nat /\ D # {}
    <2>1. \A t \in T : n - t \in Nat OBVIOUS
    <2>2. \E t \in T : n - t \in D OBVIOUS
    <2> QED BY <2>1, <2>2
  <1> HIDE DEF D
  <1>2. PICK d \in D : \A e \in D : d <= e BY <1>1, FirstNatural
  <1>3. PICK t \in T : d = n - t BY <1>2 DEF D
  <1>4. \A u \in T : n - u \in D BY DEF D
  <1>5. \A u \in T : t >= u BY <1>2, <1>3, <1>4
  <1>6. \E x \in T : \A y \in T : x >= y BY <1>5
  <1> DEFINE x == Max(T)
  <1>7. x \in T /\ \A y \in T : x >= y BY <1>6, Zenon DEF Max
  <1> QED BY <1>7

\* getSession finds a session or none.
LEMMA LatestRowType ==
    ASSUME rows \in Seq(Rows), NEW number
    PROVE  LatestRow(number) \in Sessions
  <1> DEFINE own == {i \in DOMAIN rows : Exists(i) /\ rows[i].number = number}
  <1>1. CASE own = {}
    BY <1>1 DEF LatestRow, Sessions
  <1>2. CASE own # {}
    <2>1. Len(rows) \in Nat /\ own \subseteq 1..Len(rows) BY LenProperties
    <2> DEFINE i == Max(own)
    <2>2. i \in own
      <3> HIDE DEF own
      <3> QED BY <1>2, <2>1, LastPosition
    <2>3. i \in DOMAIN rows /\ rows[i].status # "deleted" /\ rows[i] \in Rows
      BY <2>1, <2>2, ElementOfSeq DEF Exists
    <2>4. rows[i].status \in Statuses
      BY <2>3 DEF Rows
    <2>5. LatestRow(number) = [row |-> i, status |-> rows[i].status]
      BY <1>2 DEF LatestRow
    <2> HIDE DEF i
    <2> QED BY <2>3, <2>4, <2>5 DEF Sessions
  <1> QED BY <1>1, <1>2

\* No update makes a row come or go.
LEMMA UpdateRowType ==
    ASSUME rows \in Seq(Rows), NEW i, NEW status \in Statuses, UpdateRow(i, status)
    PROVE  rows' \in Seq(Rows) /\ DOMAIN rows' = DOMAIN rows
  <1>1. CASE Exists(i)
    <2>1. i \in 1..Len(rows) BY <1>1 DEF Exists
    <2>2. rows' = [rows EXCEPT ![i] = [rows[i] EXCEPT !.status = status]]
      BY <1>1 DEF UpdateRow
    <2>3. rows[i] \in Rows BY <2>1, ElementOfSeq
    <2>4. [rows[i] EXCEPT !.status = status] \in Rows BY <2>3 DEF Rows
    <2> QED BY <2>1, <2>2, <2>4, ExceptSeq
  <1> QED BY <1>1 DEF UpdateRow

\* An update of many rows makes none come or go.
LEMMA SetRowsType ==
    ASSUME rows \in Seq(Rows), NEW concerned,
           NEW status \in Statuses \cup {"deleted"}, SetRows(concerned, status)
    PROVE  rows' \in Seq(Rows) /\ DOMAIN rows' = DOMAIN rows
  <1> DEFINE n == Len(rows)
  <1>1. n \in Nat /\ DOMAIN rows = 1..n OBVIOUS
  <1>2. \A i \in 1..n : rows[i] \in Rows OBVIOUS
  <1>3. \A i \in 1..n : [rows[i] EXCEPT !.status = status] \in Rows
    BY <1>2 DEF Rows
  <1>4. rows' \in [1..n -> Rows]
    BY <1>1, <1>2, <1>3 DEF SetRows
  <1> QED BY <1>1, <1>4, IsASeq

-----------------------------------------------------------------------------
(* Types *)

\* The initial state is well typed.
LEMMA InitTypeOK == Init => TypeOK
  <1> SUFFICES ASSUME Init PROVE TypeOK
    OBVIOUS
  <1>1. /\ rows \in Seq(Rows) /\ buffer \in Seq(Messages)
        /\ accepted \in Seq(Messages) /\ handed \in Seq(Messages)
    BY DEF Init
  <1>2. snap \in [Messages -> Sessions] BY DEF Init, Sessions
  <1>3. batch \in [Messages -> Seq(Messages)]
    <2>1. <<>> \in Seq(Messages) OBVIOUS
    <2> QED BY <2>1 DEF Init
  <1> QED BY <1>1, <1>2, <1>3 DEF Init, TypeOK, Rows

\* A handler's end.
LEMMA EndsType ==
    ASSUME TypeOK, NEW m \in Messages, Ends(m),
           rows' \in Seq(Rows), DOMAIN rows' = DOMAIN rows
    PROVE  TypeOK'
  <1>1. snap' \in [Messages -> Sessions']
    BY DEF TypeOK, Ends, Sessions
  <1>2. batch' \in [Messages -> Seq(Messages)]
    <2>1. <<>> \in Seq(Messages) OBVIOUS
    <2> QED BY <2>1 DEF TypeOK, Ends
  <1> QED BY <1>1, <1>2 DEF TypeOK, Ends, Goto, queue, Rows

\* The steps of the bot's handler keep the types.
LEMMA HandleTypeOK == \A m \in Messages : TypeOK /\ Handle(m) => TypeOK'
  <1> SUFFICES ASSUME NEW m \in Messages, TypeOK, Handle(m) PROVE TypeOK'
    OBVIOUS
  <1>0. rows \in Seq(Rows) BY DEF TypeOK, Rows
  <1> USE DEF queue, debounce, Goto
  <1>1. CASE EmitReadsSession(m)
    <2>1. LatestRow(To(m)) \in Sessions BY <1>0, LatestRowType
    <2> QED BY <1>1, <2>1 DEF TypeOK, EmitReadsSession, Sessions
  <1>2. CASE RouteDrop(m)
    BY <1>0, <1>2, EndsType DEF RouteDrop
  <1>3. CASE RoutePause(m)
    BY <1>0, <1>3, EndsType, UpdateRowType DEF RoutePause, Statuses
  <1>4. CASE RouteDebounced(m)
    <2>1. Kept(m) \in Sessions /\ NoSession \in Sessions
      BY DEF TypeOK, Kept, Sessions
    <2>2. snap' \in [Messages -> Sessions']
      BY <1>4, <2>1 DEF TypeOK, RouteDebounced, Sessions
    <2>3. /\ Append(buffer, m) # <<>> /\ Append(buffer, m) \in Seq(Messages)
          /\ Append(accepted, m) \in Seq(Messages)
      <3>1. buffer \in Seq(Messages) /\ accepted \in Seq(Messages) BY DEF TypeOK
      <3>2. Len(Append(buffer, m)) = Len(buffer) + 1 /\ Len(buffer) \in Nat
        BY <3>1, AppendProperties, LenProperties
      <3>3. Append(buffer, m) # <<>> BY <3>2
      <3> QED BY <3>1, <3>3, AppendProperties
    <2>4. pc' \in [Messages -> {"new", "routing", "waiting", "process", "open",
                                "send", "sending", "done"}]
      BY <1>4 DEF TypeOK, RouteDebounced
    <2> QED BY <1>4, <2>2, <2>3, <2>4, NamesAssumption DEF TypeOK, RouteDebounced, JoinDebounce
  <1>5. CASE RouteDirect(m)
    <2>1. Kept(m) \in Sessions
      BY DEF TypeOK, Kept, Sessions
    <2>2. <<m>> \in Seq(Messages) /\ Append(handed, m) \in Seq(Messages)
          /\ Append(accepted, m) \in Seq(Messages)
      BY AppendProperties DEF TypeOK
    <2> QED BY <1>5, <2>1, <2>2 DEF TypeOK, RouteDirect, Sessions
  <1>6. CASE ProcessCreates(m)
    <2> DEFINE row == [number |-> To(m), status |-> "opened"]
    <2>1. row \in Rows BY NumbersAssumption DEF Rows, Statuses
    <2>2. rows' = Append(rows, row) BY <1>6 DEF ProcessCreates
    <2> HIDE DEF row
    <2>3. rows' \in Seq(Rows) /\ DOMAIN rows' = 1..(Len(rows) + 1) /\ Len(rows) \in Nat
      BY <1>0, <2>1, <2>2, AppendProperties, LenProperties
    <2>4. snap' \in [Messages -> Sessions']
      <3>1. [row |-> Len(rows) + 1, status |-> "opened"] \in Sessions'
        BY <2>3 DEF Sessions, Statuses
      <3>2. Sessions \subseteq Sessions'
        BY <1>0, <2>3, LenProperties DEF Sessions
      <3> QED BY <1>6, <3>1, <3>2 DEF TypeOK, ProcessCreates
    <2> QED BY <1>6, <2>3, <2>4 DEF TypeOK, ProcessCreates, RunStep, Rows
  <1>7. CASE ProcessOpens(m)
    <2>1. rows' \in Seq(Rows) /\ DOMAIN rows' = DOMAIN rows
      BY <1>0, <1>7, UpdateRowType DEF ProcessOpens, Statuses
    <2>2. CASE Ends(m) BY <2>1, <2>2, EndsType
    <2>3. CASE ~Ends(m)
      BY <1>7, <2>1, <2>3 DEF TypeOK, ProcessOpens, RunStep, Sessions, Rows
    <2> QED BY <2>2, <2>3
  <1>8. CASE ProcessIgnores(m)
    BY <1>0, <1>8, EndsType DEF ProcessIgnores
  <1>9. CASE ProcessFinishes(m)
    BY <1>0, <1>9, EndsType, UpdateRowType DEF ProcessFinishes, Statuses
  <1>10. CASE CallBot(m)
    <2>1. CASE Ends(m) BY <1>0, <1>10, <2>1, EndsType DEF CallBot
    <2>2. CASE ~Ends(m)
      BY <1>10, <2>2 DEF TypeOK, CallBot, RunStep, Sessions
    <2> QED BY <2>1, <2>2
  <1>11. CASE BotReplied(m)
    BY <1>0, <1>11, EndsType, UpdateRowType DEF BotReplied, Statuses
  <1> QED BY <1>1, <1>2, <1>3, <1>4, <1>5, <1>6, <1>7, <1>8, <1>9, <1>10, <1>11 DEF Handle

\* Every step keeps the types.
LEMMA NextTypeOK == TypeOK /\ [Next]_vars => TypeOK'
  <1> SUFFICES ASSUME TypeOK, [Next]_vars PROVE TypeOK'
    OBVIOUS
  <1>1. CASE \E m \in Messages : Handle(m)
    BY <1>1, HandleTypeOK
  <1>2. CASE DebounceFires
    <2>1. owner \in Messages /\ buffer \in Seq(Messages) /\ <<>> \in Seq(Messages)
      BY <1>2 DEF TypeOK, DebounceFires
    <2>2. handed \o buffer \in Seq(Messages)
      BY <2>1, ConcatProperties DEF TypeOK
    <2> QED BY <1>2, <2>1, <2>2 DEF TypeOK, DebounceFires, Goto, Sessions
  <1>3. CASE ChangeStatusDelete \/ ChangeStatusClosed
             \/ \E n \in Numbers, s \in {"opened", "paused"} : ChangeStatus(n, s)
    <2>1. rows' \in Seq(Rows) /\ DOMAIN rows' = DOMAIN rows
      BY <1>3, SetRowsType DEF TypeOK, Rows, Statuses, ChangeStatusDelete,
         ChangeStatusClosed, ChangeStatus
    <2>2. UNCHANGED <<settings, pc, snap, debounce>>
      BY <1>3 DEF ChangeStatusDelete, ChangeStatusClosed, ChangeStatus
    <2> QED BY <2>1, <2>2 DEF TypeOK, debounce, queue, Sessions, Rows
  <1>4. CASE UNCHANGED vars
    BY <1>4 DEF TypeOK, vars, Sessions
  <1> QED BY <1>1, <1>2, <1>3, <1>4 DEF Next

\* Every state of the handlers, sessions and debounce is well typed; a handler
\* holds the session of a row that exists or has existed.
THEOREM TypeCorrect == Spec => []TypeOK
  BY InitTypeOK, NextTypeOK, PTL DEF Spec

-----------------------------------------------------------------------------
(* The debounce *)

\* Without a debounce time nothing is gathered.
DirectIsEmpty == ~settings.debounceTime => buffer = <<>>
TileInv == BatchesTile /\ DirectIsEmpty

\* Every step keeps the tiling.
LEMMA NextTileInv == TypeOK /\ TileInv /\ [Next]_vars => TileInv'
  <1> SUFFICES ASSUME TypeOK, TileInv, [Next]_vars PROVE TileInv'
    OBVIOUS
  <1>0. /\ handed \in Seq(Messages) /\ buffer \in Seq(Messages)
        /\ accepted \in Seq(Messages)
    BY DEF TypeOK
  <1>1. ASSUME NEW m \in Messages, RouteDebounced(m) PROVE TileInv'
    <2>1. handed \o Append(buffer, m) = Append(handed \o buffer, m)
      <3> DEFINE one == <<m>>
      <3>1. one \in Seq(Messages) /\ handed \o buffer \in Seq(Messages)
        BY <1>0, <1>1, ConcatProperties
      <3>2. /\ Append(buffer, m) = buffer \o one
            /\ Append(handed \o buffer, m) = (handed \o buffer) \o one
        BY <1>0, <1>1, <3>1, AppendIsConcat
      <3> HIDE DEF one
      <3>3. (handed \o buffer) \o one = handed \o (buffer \o one)
        BY <1>0, <3>1, ConcatAssociative
      <3> QED BY <3>2, <3>3, Zenon
    <2> QED BY <1>1, <2>1 DEF RouteDebounced, JoinDebounce, TileInv, BatchesTile, DirectIsEmpty
  <1>2. ASSUME NEW m \in Messages, RouteDirect(m) PROVE TileInv'
    <2>1. buffer = <<>> BY <1>2 DEF RouteDirect, TileInv, DirectIsEmpty
    <2>2. handed = accepted BY <1>0, <2>1, ConcatEmptySeq DEF TileInv, BatchesTile
    <2>3. Append(handed, m) \o <<>> = Append(accepted, m)
      BY <1>0, <2>2, AppendProperties, ConcatEmptySeq
    <2> QED BY <1>2, <2>1, <2>3 DEF RouteDirect, TileInv, BatchesTile, DirectIsEmpty
  <1>3. CASE DebounceFires
    <2>1. (handed \o buffer) \o <<>> = handed \o buffer
      BY <1>0, ConcatProperties, ConcatEmptySeq
    <2> QED BY <1>3, <2>1 DEF DebounceFires, TileInv, BatchesTile, DirectIsEmpty
  <1>4. CASE UNCHANGED <<settings, queue>>
    BY <1>4 DEF queue, TileInv, BatchesTile, DirectIsEmpty
  <1> QED
    BY <1>1, <1>2, <1>3, <1>4 DEF Next, Handle, vars, queue, debounce, Ends, RunStep,
       EmitReadsSession, RouteDrop, RoutePause, ProcessCreates, ProcessOpens,
       ProcessIgnores, ProcessFinishes, CallBot, BotReplied, ChangeStatusDelete,
       ChangeStatusClosed, ChangeStatus

\* The batches given to process are the accepted messages, each once and in
\* the order of arrival; the rest is in the debounce entry.
THEOREM BatchesTileAccepted == Spec => []BatchesTile
  <1>1. Init => TileInv
    <2>1. <<>> \o <<>> = <<>> OBVIOUS
    <2> QED BY <2>1 DEF Init, TileInv, BatchesTile, DirectIsEmpty
  <1>2. TileInv => BatchesTile BY DEF TileInv
  <1> QED BY <1>1, <1>2, NextTileInv, TypeCorrect, PTL DEF Spec

=============================================================================
