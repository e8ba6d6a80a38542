---------------------------- MODULE ChatSyncProofs ----------------------------
(***************************************************************************)
(* For any messages, queue limit and bounds: the drain loop forgets no     *)
(* message, and what .synced lists is in the database, once.               *)
(***************************************************************************)
EXTENDS ChatSync, TLAPS

\* A message appended to a sequence.
LEMMA ElemsAppend ==
    ASSUME NEW S, NEW s \in Seq(S), NEW x \in S
    PROVE  /\ Append(s, x) \in Seq(S) /\ Len(Append(s, x)) = Len(s) + 1
           /\ Elems(Append(s, x)) = Elems(s) \cup {x}
           /\ \A i \in 1..Len(s) : Append(s, x)[i] = s[i]
           /\ Append(s, x)[Len(s) + 1] = x
<1>1. /\ Append(s, x) \in Seq(S) /\ Len(Append(s, x)) = Len(s) + 1
      /\ \A i \in 1..Len(s) : Append(s, x)[i] = s[i]
      /\ Append(s, x)[Len(s) + 1] = x
  OBVIOUS
<1>2. Len(s) \in Nat
  OBVIOUS
<1>3. 1..(Len(s) + 1) = 1..Len(s) \cup {Len(s) + 1}
  BY <1>2
<1>4. Elems(Append(s, x)) = Elems(s) \cup {x}
  BY <1>1, <1>3 DEF Elems
<1> QED
  BY <1>1, <1>4

\* The messages the loop has not reached.
Ahead(q, p) == {q[i] : i \in {j \in 1..Len(q) : j >= p}}

\* What is ahead of the loop at its ends, and one step on.
LEMMA AheadFacts ==
    ASSUME NEW S, NEW q \in Seq(S), NEW p \in 0..Len(q)
    PROVE  /\ Ahead(q, p) \subseteq Elems(q)
           /\ p \in {0, 1} => Ahead(q, p) = Elems(q)
           /\ p > 0 => Ahead(q, p) = {q[p]} \cup Ahead(q, p + 1)
           /\ p = Len(q) => Ahead(q, p + 1) = {}
           /\ p > 0 => q[p] \in S
<1>1. Len(q) \in Nat /\ p \in Nat
  OBVIOUS
<1>2. Ahead(q, p) \subseteq Elems(q)
  BY DEF Ahead, Elems
<1>3. ASSUME p \in {0, 1} PROVE Ahead(q, p) = Elems(q)
  <2>1. {j \in 1..Len(q) : j >= p} = 1..Len(q)
    BY <1>1, <1>3
  <2> QED
    BY <2>1 DEF Ahead, Elems
<1>4. ASSUME p > 0 PROVE Ahead(q, p) = {q[p]} \cup Ahead(q, p + 1)
  <2>1. {j \in 1..Len(q) : j >= p} = {p} \cup {j \in 1..Len(q) : j >= p + 1}
    BY <1>1, <1>4
  <2> QED
    BY <2>1 DEF Ahead
<1>5. ASSUME p = Len(q) PROVE Ahead(q, p + 1) = {}
  <2>1. {j \in 1..Len(q) : j >= p + 1} = {}
    BY <1>1, <1>5
  <2> QED
    BY <2>1 DEF Ahead
<1>6. ASSUME p > 0 PROVE q[p] \in S
  BY <1>1, <1>6
<1> QED
  BY <1>2, <1>3, <1>4, <1>5, <1>6

\* A message pushed at the end is still ahead of the loop.
LEMMA AheadAppend ==
    ASSUME NEW S, NEW q \in Seq(S), NEW x \in S, NEW p \in 0..Len(q)
    PROVE  Ahead(Append(q, x), p) = Ahead(q, p) \cup {x}
<1> DEFINE r == Append(q, x)
           n == Len(q)
<1>1. n \in Nat /\ p \in Nat /\ p <= n /\ Len(r) = n + 1
  BY ElemsAppend
<1>2. /\ \A i \in 1..n : r[i] = q[i]
      /\ r[n + 1] = x
  BY ElemsAppend
<1> HIDE DEF r
<1>3. {j \in 1..(n + 1) : j >= p} = {j \in 1..n : j >= p} \cup {n + 1}
  BY <1>1
<1>4. {r[i] : i \in {j \in 1..n : j >= p}} = {q[i] : i \in {j \in 1..n : j >= p}}
  BY <1>2
<1> HIDE DEF n
<1>5. Ahead(r, p) = {q[i] : i \in {j \in 1..n : j >= p}} \cup {x}
  BY <1>1, <1>2, <1>3, <1>4 DEF Ahead
<1> QED
  BY <1>5 DEF Ahead, r, n

\* ToVisit, by the name the lemmas use.
LEMMA ToVisitIsAhead == ToVisit = Ahead(queue, pos) \cup Elems(failed)
BY DEF ToVisit, Ahead

-----------------------------------------------------------------------------
(* The drain loop.                                                         *)

MemoryOK ==
    /\ queue \in Seq(Messages) /\ failed \in Seq(Messages)
    /\ pos \in 0..Len(queue) /\ running \in BOOLEAN
    /\ running <=> queue # <<>>
    /\ pos = 0 => failed = <<>>
    /\ Elems(failed) \subseteq Elems(queue)

\* Advance passes the current message, and only that one.
LEMMA AdvanceStep ==
    ASSUME MemoryOK, pos > 0, NEW kept \in Seq(Messages), Advance(kept),
           Elems(kept) \subseteq Elems(queue)
    PROVE  MemoryOK' /\ ToVisit' = Ahead(queue, pos + 1) \cup Elems(kept)
<1>1. Len(queue) \in Nat /\ pos \in 1..Len(queue)
  BY DEF MemoryOK
<1>2. ToVisit' = Ahead(queue', pos') \cup Elems(failed')
  BY DEF ToVisit, Ahead
<1>3. CASE pos < Len(queue)
  <2>1. pos' = pos + 1 /\ failed' = kept /\ queue' = queue /\ running' = running
    BY <1>3 DEF Advance
  <2>2. pos + 1 \in 0..Len(queue) /\ pos + 1 # 0
    BY <1>1, <1>3
  <2> QED
    BY <1>2, <2>1, <2>2 DEF MemoryOK, Elems
<1>4. CASE ~(pos < Len(queue))
  <2>1. /\ pos' = 0 /\ failed' = <<>> /\ queue' = kept
        /\ running' = (kept # <<>>) /\ pos = Len(queue)
    BY <1>1, <1>4 DEF Advance
  <2>2. Ahead(queue, pos + 1) = {}
    BY <1>1, <2>1, AheadFacts DEF MemoryOK
  <2>3. 0 \in 0..Len(kept) /\ <<>> \in Seq(Messages) /\ Elems(<<>>) = {}
    BY DEF Elems
  <2>4. Ahead(kept, 0) = Elems(kept)
    BY <2>3, AheadFacts
  <2>5. MemoryOK'
    BY <2>1, <2>3 DEF MemoryOK, Elems
  <2> QED
    BY <1>2, <2>1, <2>2, <2>3, <2>4, <2>5
<1> QED
  BY <1>3, <1>4

\* Nothing of this is disturbed by a step that leaves the memory alone.
LEMMA MemoryUnchanged ==
    ASSUME MemoryOK, UNCHANGED memoryVars
    PROVE  MemoryOK' /\ ToVisit' = ToVisit
<1>1. queue' = queue /\ failed' = failed /\ pos' = pos /\ running' = running
  BY DEF memoryVars
<1>2. Elems(queue)' = Elems(queue) /\ Elems(failed)' = Elems(failed)
  BY <1>1 DEF Elems
<1>3. ToVisit' = ToVisit
  BY <1>1, <1>2 DEF ToVisit
<1>4. MemoryOK'
  BY <1>1, <1>2 DEF MemoryOK
<1> QED
  BY <1>3, <1>4

\* Every other variable keeps its type.
RestOK ==
    /\ log \in Seq(Messages) /\ rows \in Seq(Messages)
    /\ synced \subseteq Messages /\ pending \subseteq Messages
    /\ wire \subseteq Messages /\ lost \subseteq Messages
    /\ faults \in 0..MaxFaults /\ crashes \in 0..MaxCrashes

Kept == \A m \in Logged : m \in Stored \cup ToVisit \cup pending \cup lost

IInv == MemoryOK /\ RestOK /\ Kept /\ SyncedMeansStored

\* What the invariant says of types and forgotten messages.
LEMMA IInvImplies == IInv => TypeOK /\ NothingForgotten
BY DEF IInv, MemoryOK, RestOK, Kept, TypeOK, NothingForgotten

\* Nothing is logged yet.
LEMMA InitIInv == Init => IInv
<1> SUFFICES ASSUME Init PROVE IInv
  OBVIOUS
<1>1. 0 \in 0..MaxFaults /\ 0 \in 0..MaxCrashes
  BY BoundsAssumption
<1>2. <<>> \in Seq(Messages) /\ Len(<<>>) = 0 /\ 1..0 = {}
  OBVIOUS
<1>3. Elems(<<>>) = {}
  BY <1>2 DEF Elems
<1>4. MemoryOK
  <2>1. 0 \in 0..Len(<<>>) /\ FALSE \in BOOLEAN
    BY <1>2
  <2> QED
    BY <1>2, <2>1 DEF Init, MemoryOK
<1>5. RestOK
  BY <1>1, <1>2 DEF Init, RestOK
<1>6. Kept /\ SyncedMeansStored
  BY <1>2, <1>3 DEF Init, Kept, SyncedMeansStored, Logged, Stored
<1> QED
  BY <1>4, <1>5, <1>6 DEF IInv

\* append and enqueue: the new message is spilled or ahead of the loop.
LEMMA AppendStep ==
    ASSUME IInv, NEW m \in Messages, AppendMessage(m)
    PROVE  IInv'
<1> USE DEF IInv
<1>1. /\ log' = Append(log, m) /\ rows' = rows /\ synced' = synced
      /\ UNCHANGED countVars
  BY DEF AppendMessage
<1>2. log' \in Seq(Messages) /\ Logged' = Logged \cup {m}
  BY <1>1, ElemsAppend DEF RestOK, Logged
<1>3. Stored' = Stored /\ SyncedMeansStored'
  BY <1>1 DEF Stored, SyncedMeansStored
<1>4. CASE Len(queue) > QueueLimit
  <2>1. pending' = pending \cup {m} /\ UNCHANGED <<memoryVars, wire>>
    BY <1>4 DEF AppendMessage
  <2>2. MemoryOK' /\ ToVisit' = ToVisit
    BY <2>1, MemoryUnchanged
  <2>3. RestOK'
    BY <1>1, <1>2, <2>1 DEF RestOK, countVars
  <2> QED
    BY <1>1, <1>2, <1>3, <2>1, <2>2, <2>3 DEF Kept, countVars
<1>5. CASE ~(Len(queue) > QueueLimit)
  <2>1. /\ queue' = Append(queue, m) /\ running' = TRUE
        /\ failed' = failed /\ pending' = pending
        /\ IF running THEN UNCHANGED <<pos, wire>>
                      ELSE pos' = 1 /\ wire' = wire \cup {m}
    BY <1>5 DEF AppendMessage
  <2>2. /\ queue' \in Seq(Messages) /\ Len(queue') = Len(queue) + 1
        /\ Elems(queue') = Elems(queue) \cup {m}
    BY <2>1, ElemsAppend DEF MemoryOK
  <2>3. Len(queue) \in Nat /\ pos \in 0..Len(queue) /\ pos \in Nat
    BY DEF MemoryOK
  <2>4. queue' # <<>>
    BY <2>2, <2>3
  <2>5. pos' \in 0..Len(queue') /\ (pos' = 0 => pos = 0)
    BY <2>1, <2>2, <2>3
  <2>6. MemoryOK'
    <3>1. Elems(failed') \subseteq Elems(queue')
      BY <2>1, <2>2 DEF MemoryOK, Elems
    <3> QED
      BY <2>1, <2>2, <2>4, <2>5, <3>1 DEF MemoryOK, Elems
  <2>7. ToVisit' = ToVisit \cup {m}
    <3>1. ToVisit' = Ahead(queue', pos') \cup Elems(failed)
      BY <2>1 DEF ToVisit, Ahead, Elems
    <3>2. CASE running
      <4>1. Ahead(queue', pos') = Ahead(queue, pos) \cup {m}
        BY <2>1, <2>3, <3>2, AheadAppend DEF MemoryOK
      <4> QED
        BY <3>1, <4>1, ToVisitIsAhead
    <3>3. CASE ~running
      <4>1. queue = <<>> /\ pos = 0 /\ pos' = 1 /\ 1 \in 0..Len(queue')
        BY <2>1, <2>2, <2>3, <3>3 DEF MemoryOK
      <4>2. Ahead(queue', pos') = Elems(queue) \cup {m}
        BY <2>2, <4>1, AheadFacts
      <4>3. Ahead(queue, pos) = Elems(queue)
        BY <4>1, AheadFacts DEF MemoryOK
      <4> QED
        BY <3>1, <4>2, <4>3, ToVisitIsAhead
    <3> QED
      BY <3>2, <3>3
  <2>8. RestOK'
    BY <1>1, <1>2, <2>1 DEF RestOK, countVars
  <2>9. Kept'
    BY <1>1, <1>2, <1>3, <2>1, <2>7 DEF Kept, countVars
  <2> QED
    BY <1>3, <2>6, <2>8, <2>9
<1> QED
  BY <1>4, <1>5

\* create_chat_message: a row per uuid.
LEMMA InsertStep ==
    ASSUME IInv, NEW m \in Messages, Insert(m)
    PROVE  IInv'
<1> USE DEF IInv
<1>1. /\ UNCHANGED diskVars /\ UNCHANGED memoryVars /\ UNCHANGED countVars
      /\ wire' = wire \ {m}
      /\ rows' = IF m \in Stored THEN rows ELSE Append(rows, m)
  BY DEF Insert
<1>2. MemoryOK' /\ ToVisit' = ToVisit
  BY <1>1, MemoryUnchanged
<1>3. /\ rows' \in Seq(Messages) /\ Stored' = Stored \cup {m}
      /\ \A i, j \in 1..Len(rows') : rows'[i] = rows'[j] => i = j
  <2>1. CASE m \in Stored
    BY <1>1, <2>1 DEF Stored, RestOK, SyncedMeansStored
  <2>2. CASE m \notin Stored
    <3> DEFINE r == Append(rows, m)
               n == Len(rows)
    <3>1. /\ r \in Seq(Messages) /\ Len(r) = n + 1 /\ Elems(r) = Elems(rows) \cup {m}
          /\ \A i \in 1..n : r[i] = rows[i]
          /\ r[n + 1] = m
      BY ElemsAppend DEF RestOK
    <3>2. \A i \in 1..n : rows[i] # m
      BY <2>2 DEF Stored, Elems
    <3>3. n \in Nat /\ \A i \in 1..(n + 1) : i \in 1..n \/ i = n + 1
      BY DEF RestOK
    <3>4. \A i, j \in 1..n : rows[i] = rows[j] => i = j
      BY DEF SyncedMeansStored
    <3>5. rows' = r
      BY <1>1, <2>2
    <3> HIDE DEF r, n
    <3>6. \A i, j \in 1..(n + 1) : r[i] = r[j] => i = j
      BY <3>1, <3>2, <3>3, <3>4
    <3> QED
      BY <3>1, <3>5, <3>6 DEF Stored
  <2> QED
    BY <2>1, <2>2
<1>4. RestOK'
  BY <1>1, <1>3 DEF RestOK, diskVars, countVars
<1>5. Kept' /\ SyncedMeansStored'
  BY <1>1, <1>2, <1>3 DEF Kept, SyncedMeansStored, Logged, diskVars, countVars
<1> QED
  BY <1>2, <1>4, <1>5

\* An answer and a failure both pass the current message: the one because it
\* is stored, the other because it is kept.
LEMMA DrainStep ==
    ASSUME IInv, Answered \/ PostFails
    PROVE  IInv'
<1> USE DEF IInv
<1>1. /\ pos > 0 /\ queue[pos] \in Messages /\ pos \in 0..Len(queue)
      /\ failed \in Seq(Messages) /\ queue \in Seq(Messages)
  <2>1. pos > 0
    BY DEF Answered, PostFails
  <2> QED
    BY <2>1, AheadFacts DEF MemoryOK
<1>2. /\ ToVisit = {queue[pos]} \cup Ahead(queue, pos + 1) \cup Elems(failed)
  BY <1>1, AheadFacts, ToVisitIsAhead
<1>3. Posted(wire) \subseteq Messages /\ Posted(wire \ {queue[pos]}) \subseteq Messages
  <2>1. pos < Len(queue) => queue[pos + 1] \in Messages
    BY <1>1
  <2> QED
    BY <2>1 DEF Posted, RestOK
<1>4. CASE Answered
  <2>1. /\ Advance(failed) /\ queue[pos] \in Stored
        /\ synced' \in {synced, synced \cup {queue[pos]}}
        /\ log' = log /\ pending' = pending /\ rows' = rows /\ UNCHANGED countVars
        /\ wire' = Posted(wire)
    BY <1>4 DEF Answered, Current
  <2>2. MemoryOK' /\ ToVisit' = Ahead(queue, pos + 1) \cup Elems(failed)
    BY <1>1, <2>1, AdvanceStep DEF MemoryOK
  <2>3. RestOK'
    BY <1>1, <1>3, <2>1 DEF RestOK, countVars
  <2>4. Kept' /\ SyncedMeansStored'
    BY <1>2, <2>1, <2>2 DEF Kept, SyncedMeansStored, Logged, Stored, countVars
  <2> QED
    BY <2>2, <2>3, <2>4
<1>5. CASE PostFails
  <2>1. /\ Advance(Append(failed, queue[pos])) /\ faults' = faults + 1
        /\ faults < MaxFaults /\ UNCHANGED diskVars /\ rows' = rows
        /\ lost' = lost /\ crashes' = crashes
        /\ wire' \in {Posted(wire), Posted(wire \ {queue[pos]})}
    BY <1>5 DEF PostFails, Current
  <2>2. /\ Append(failed, queue[pos]) \in Seq(Messages)
        /\ Elems(Append(failed, queue[pos])) = Elems(failed) \cup {queue[pos]}
    BY <1>1, ElemsAppend
  <2>3. /\ MemoryOK'
        /\ ToVisit' = Ahead(queue, pos + 1) \cup Elems(Append(failed, queue[pos]))
    <3>1. queue[pos] \in Elems(queue)
      BY <1>1 DEF Elems
    <3>2. Elems(Append(failed, queue[pos])) \subseteq Elems(queue)
      BY <2>2, <3>1 DEF MemoryOK
    <3> QED
      BY <1>1, <2>1, <2>2, <3>2, AdvanceStep
  <2>4. faults' \in 0..MaxFaults
    <3>1. faults \in Nat /\ MaxFaults \in Nat
      BY BoundsAssumption DEF RestOK
    <3> QED
      BY <2>1, <3>1
  <2>5. RestOK'
    BY <1>3, <2>1, <2>4 DEF RestOK, diskVars
  <2>6. Kept' /\ SyncedMeansStored'
    BY <1>2, <2>1, <2>2, <2>3 DEF Kept, SyncedMeansStored, Logged, Stored, diskVars
  <2> QED
    BY <2>3, <2>5, <2>6
<1> QED
  BY <1>4, <1>5

\* The retry timer starts at the first message again.
LEMMA RetryStep ==
    ASSUME IInv, Retry
    PROVE  IInv'
<1> USE DEF IInv
<1>1. /\ running /\ pos = 0 /\ pos' = 1 /\ wire' = wire \cup {queue[1]}
      /\ UNCHANGED diskVars /\ UNCHANGED countVars /\ queue' = queue
      /\ failed' = failed /\ running' = running /\ rows' = rows
  BY DEF Retry
<1>2. queue \in Seq(Messages) /\ queue # <<>>
  BY <1>1 DEF MemoryOK
<1>3. 1 \in 0..Len(queue) /\ 0 \in 0..Len(queue) /\ queue[1] \in Messages
  BY <1>2
<1>4. MemoryOK'
  BY <1>1, <1>3 DEF MemoryOK, Elems
<1>5. ToVisit' = ToVisit
  <2>1. Ahead(queue, 1) = Elems(queue) /\ Ahead(queue, 0) = Elems(queue)
    BY <1>2, <1>3, AheadFacts
  <2>2. ToVisit' = Ahead(queue, 1) \cup Elems(failed)
    BY <1>1 DEF ToVisit, Ahead, Elems
  <2> QED
    BY <1>1, <2>1, <2>2, ToVisitIsAhead
<1>6. RestOK'
  BY <1>1, <1>3 DEF RestOK, diskVars, countVars
<1>7. Kept' /\ SyncedMeansStored'
  BY <1>1, <1>5 DEF Kept, SyncedMeansStored, Logged, Stored, diskVars, countVars
<1> QED
  BY <1>4, <1>6, <1>7

\* A restart drops from memory what the loop would still have visited.
LEMMA RestartStep ==
    ASSUME IInv, Restart
    PROVE  IInv'
<1> USE DEF IInv
<1>1. /\ crashes < MaxCrashes /\ crashes' = crashes + 1
      /\ lost' = lost \cup (Elems(queue) \ Stored)
      /\ queue' = <<>> /\ failed' = <<>> /\ pos' = 0 /\ running' = FALSE
      /\ wire' \subseteq wire
      /\ UNCHANGED diskVars /\ rows' = rows /\ faults' = faults
  BY DEF Restart
<1>2. <<>> \in Seq(Messages) /\ 0 \in 0..Len(<<>>)
  OBVIOUS
<1>3. MemoryOK'
  BY <1>1, <1>2 DEF MemoryOK, Elems
<1>4. ToVisit \subseteq Elems(queue)
  BY AheadFacts, ToVisitIsAhead DEF MemoryOK
<1>5. Elems(queue) \subseteq Messages
  BY DEF Elems, MemoryOK
<1>6. crashes' \in 0..MaxCrashes
  <2>1. crashes \in Nat /\ MaxCrashes \in Nat
    BY BoundsAssumption DEF RestOK
  <2> QED
    BY <1>1, <2>1
<1>7. RestOK'
  BY <1>1, <1>5, <1>6 DEF RestOK, diskVars
<1>8. Logged' = Logged /\ Stored' = Stored /\ pending' = pending /\ synced' = synced
  BY <1>1 DEF Logged, Stored, diskVars
<1>9. Kept' /\ SyncedMeansStored'
  BY <1>1, <1>4, <1>8 DEF Kept, SyncedMeansStored
<1> QED
  BY <1>3, <1>7, <1>9

\* Every step keeps the invariant.
LEMMA NextIInv == IInv /\ [Next]_vars => IInv'
<1> SUFFICES ASSUME IInv, [Next]_vars PROVE IInv'
  OBVIOUS
<1>1. ASSUME NEW m \in Messages, AppendMessage(m) PROVE IInv'
  BY <1>1, AppendStep
<1>2. ASSUME NEW m \in Messages, Insert(m) PROVE IInv'
  BY <1>2, InsertStep
<1>3. CASE Answered \/ PostFails
  BY <1>3, DrainStep
<1>4. CASE Retry
  BY <1>4, RetryStep
<1>5. CASE Restart
  BY <1>5, RestartStep
<1>6. CASE UNCHANGED vars
  <2>1. MemoryOK' /\ ToVisit' = ToVisit
    BY <1>6, MemoryUnchanged DEF vars, IInv
  <2>2. RestOK' /\ SyncedMeansStored'
    BY <1>6
    DEF vars, diskVars, countVars, IInv, RestOK, SyncedMeansStored, Stored
  <2>3. Kept'
    BY <1>6, <2>1 DEF vars, diskVars, countVars, IInv, Kept, Logged, Stored
  <2> QED
    BY <2>1, <2>2, <2>3 DEF IInv
<1> QED
  BY <1>1, <1>2, <1>3, <1>4, <1>5, <1>6 DEF Next

\* The inductive invariant of log, queue, files and rows (IInv).
THEOREM Inductive == Spec => []IInv
BY InitIInv, NextIInv, PTL DEF Spec

-----------------------------------------------------------------------------
\* Every reachable state is of the right type (TypeOK).
THEOREM TypeCorrect == Spec => []TypeOK
BY Inductive, IInvImplies, PTL

\* Whatever is pushed, fails or answers while the drain loop runs, no logged
\* message slips between two rounds of it (NothingForgotten).
THEOREM NothingForgottenCorrect == Spec => []NothingForgotten
BY Inductive, IInvImplies, PTL

\* What .synced lists is in the database, and once, however often a message is
\* posted (SyncedMeansStored).
THEOREM SyncedCorrect == Spec => []SyncedMeansStored
<1>1. IInv => SyncedMeansStored
  BY DEF IInv
<1> QED
  BY <1>1, Inductive, PTL

-----------------------------------------------------------------------------
(* The order of the rows.                                                  *)

\* x was logged before y.
Earlier(lines, x, y) ==
    \A p, q \in 1..Len(lines) : lines[p] = x /\ lines[q] = y => p < q

\* Before the first failure: one post at a time, of the message the loop is at,
\* and the rows end where the loop is.
OrderInv ==
    faults = 0 /\ crashes = 0 =>
        /\ failed = <<>>
        /\ Elems(queue) \subseteq Logged /\ Stored \subseteq Logged
        /\ pos = 0 => queue = <<>> /\ wire = {}
        /\ pos > 0 => wire \subseteq {queue[pos]}
        /\ \A i, j \in 1..Len(queue) : i < j => Earlier(log, queue[i], queue[j])
        /\ \A i, j \in 1..Len(rows) : i < j => Earlier(log, rows[i], rows[j])
        /\ \A k \in 1..Len(rows) : \A i \in 1..Len(queue) :
              /\ i > pos => Earlier(log, rows[k], queue[i])
              /\ i = pos => rows[k] = queue[i] \/ Earlier(log, rows[k], queue[i])

\* A new line is later than all others and disturbs none of them.
LEMMA EarlierAppend ==
    ASSUME NEW lines \in Seq(Messages), NEW m \in Messages, m \notin Elems(lines)
    PROVE  /\ \A x, y \in Elems(lines) :
                 Earlier(lines, x, y) => Earlier(Append(lines, m), x, y)
           /\ \A x \in Elems(lines) : Earlier(Append(lines, m), x, m)
<1> DEFINE more == Append(lines, m)
           n == Len(lines)
<1>1. /\ n \in Nat /\ Len(more) = n + 1 /\ more[n + 1] = m
      /\ \A p \in 1..n : more[p] = lines[p]
  BY ElemsAppend
<1>2. \A p \in 1..n : lines[p] # m
  BY DEF Elems
<1> HIDE DEF more, n
<1>3. ASSUME NEW x \in Elems(lines)
      PROVE  \A p \in 1..(n + 1) : more[p] = x => p \in 1..n /\ lines[p] = x
  <2>1. x # m
    BY <1>3
  <2> QED
    BY <1>1, <2>1
<1>4. ASSUME NEW x \in Elems(lines), NEW y \in Elems(lines), Earlier(lines, x, y)
      PROVE  Earlier(more, x, y)
  BY <1>1, <1>3, <1>4 DEF Earlier, n
<1>5. ASSUME NEW x \in Elems(lines)
      PROVE  Earlier(more, x, m)
  <2>1. \A p \in 1..(n + 1) : more[p] = x => p \in 1..n
    BY <1>3
  <2>2. \A q \in 1..(n + 1) : more[q] = m => q = n + 1
    BY <1>1, <1>2
  <2> QED
    BY <1>1, <2>1, <2>2 DEF Earlier
<1> QED
  BY <1>4, <1>5 DEF more

\* An element of a sequence, by its index.
LEMMA ElemsIndex ==
    ASSUME NEW s, NEW i \in 1..Len(s)
    PROVE  s[i] \in Elems(s)
BY DEF Elems

\* A new message is behind all others, in the log as in the queue.
LEMMA AppendOrder ==
    ASSUME IInv, OrderInv, NEW m \in Messages, AppendMessage(m)
    PROVE  OrderInv'
<1> SUFFICES ASSUME faults = 0, crashes = 0 PROVE OrderInv'
  BY DEF AppendMessage, countVars, OrderInv
<1>1. /\ queue \in Seq(Messages) /\ rows \in Seq(Messages) /\ log \in Seq(Messages)
      /\ pos \in 0..Len(queue) /\ (running <=> queue # <<>>)
      /\ pos \in Nat /\ Len(queue) \in Nat
  BY DEF IInv, MemoryOK, RestOK
<1>2. /\ m \notin Logged /\ log' = Append(log, m) /\ rows' = rows
      /\ UNCHANGED countVars
  BY DEF AppendMessage
<1>3. /\ failed = <<>> /\ Elems(queue) \subseteq Logged /\ Stored \subseteq Logged
      /\ (pos = 0 => queue = <<>> /\ wire = {})
      /\ (pos > 0 => wire \subseteq {queue[pos]})
  BY DEF OrderInv
<1>4. Logged' = Logged \cup {m}
  BY <1>1, <1>2, ElemsAppend DEF Logged
<1>5. /\ \A x, y \in Logged : Earlier(log, x, y) => Earlier(log', x, y)
      /\ \A x \in Logged : Earlier(log', x, m)
  BY <1>1, <1>2, EarlierAppend DEF Logged
<1>6. /\ \A i \in 1..Len(queue) : queue[i] \in Logged
      /\ \A k \in 1..Len(rows) : rows[k] \in Logged
  BY <1>3, ElemsIndex DEF Stored
<1>7. /\ \A i, j \in 1..Len(queue) : i < j => Earlier(log', queue[i], queue[j])
      /\ \A i, j \in 1..Len(rows) : i < j => Earlier(log', rows[i], rows[j])
      /\ \A k \in 1..Len(rows) : \A i \in 1..Len(queue) :
            /\ i > pos => Earlier(log', rows[k], queue[i])
            /\ i = pos => rows[k] = queue[i] \/ Earlier(log', rows[k], queue[i])
  BY <1>5, <1>6 DEF OrderInv
<1>8. CASE Len(queue) > QueueLimit
  <2>1. UNCHANGED <<memoryVars, wire>>
    BY <1>8 DEF AppendMessage
  <2>2. Elems(queue)' = Elems(queue) /\ Stored' = Stored
    BY <1>2, <2>1 DEF memoryVars, Stored
  <2> QED
    BY <1>2, <1>3, <1>4, <1>7, <2>1, <2>2 DEF memoryVars, OrderInv
<1>9. CASE ~(Len(queue) > QueueLimit)
  <2> DEFINE more == Append(queue, m)
             n == Len(queue)
  <2>1. /\ queue' = more /\ failed' = failed
        /\ IF running THEN UNCHANGED <<pos, wire>>
                      ELSE pos' = 1 /\ wire' = wire \cup {m}
    BY <1>9 DEF AppendMessage
  <2>2. /\ n \in Nat /\ Len(more) = n + 1 /\ more[n + 1] = m
        /\ Elems(more) = Elems(queue) \cup {m}
        /\ \A i \in 1..n : more[i] = queue[i]
    BY <1>1, ElemsAppend
  <2>3. \A i \in 1..(n + 1) : i \in 1..n \/ i = n + 1
    BY <2>2
  <2> HIDE DEF more
  <2>4. CASE running
    <3>1. pos' = pos /\ wire' = wire /\ pos > 0 /\ pos \in 1..n
      BY <1>1, <1>3, <2>1, <2>4
    <3> HIDE DEF n
    <3>2. wire \subseteq {more[pos]}
      BY <1>3, <2>2, <3>1
    <3>3. \A i, j \in 1..(n + 1) : i < j => Earlier(log', more[i], more[j])
      <4> TAKE i, j \in 1..(n + 1)
      <4>1. CASE j = n + 1
        BY <1>5, <1>6, <2>2, <2>3, <4>1 DEF n
      <4>2. CASE j # n + 1 /\ i < j
        <5>1. i \in 1..n /\ j \in 1..n
          BY <2>2, <4>2
        <5> QED
          BY <1>7, <2>2, <5>1 DEF n
      <4> QED
        BY <4>1, <4>2
    <3>4. \A k \in 1..Len(rows) : \A i \in 1..(n + 1) :
             /\ i > pos => Earlier(log', rows[k], more[i])
             /\ i = pos => rows[k] = more[i] \/ Earlier(log', rows[k], more[i])
      <4> TAKE k \in 1..Len(rows)
      <4> TAKE i \in 1..(n + 1)
      <4>1. CASE i = n + 1
        <5>1. i # pos
          BY <2>2, <3>1, <4>1
        <5> QED
          BY <1>5, <1>6, <2>2, <4>1, <5>1
      <4>2. CASE i \in 1..n
        BY <1>7, <2>2, <4>2 DEF n
      <4> QED
        BY <2>3, <4>1, <4>2
    <3> QED
      BY <1>2, <1>3, <1>4, <1>7, <2>1, <2>2, <3>1, <3>2, <3>3, <3>4
      DEF OrderInv, Stored
  <2>5. CASE ~running
    <3>1. /\ queue = <<>> /\ pos = 0 /\ wire = {} /\ n = 0
          /\ pos' = 1 /\ wire' = {m}
      BY <1>1, <1>3, <2>1, <2>5
    <3>2. Len(more) = 1 /\ more[1] = m /\ Elems(more) \subseteq Logged'
      BY <1>3, <1>4, <2>2, <3>1
    <3> HIDE DEF n
    <3>3. \A i \in 1..1 : i = 1
      OBVIOUS
    <3>4. \A k \in 1..Len(rows) : Earlier(log', rows[k], m)
      BY <1>5, <1>6
    <3> QED
      BY <1>2, <1>3, <1>4, <1>7, <2>1, <3>1, <3>2, <3>3, <3>4
      DEF OrderInv, Stored
  <2> QED
    BY <2>4, <2>5
<1> QED
  BY <1>8, <1>9

\* The row of the message the loop is at goes behind those of the messages
\* before it.
LEMMA InsertOrder ==
    ASSUME IInv, OrderInv, NEW m \in Messages, Insert(m)
    PROVE  OrderInv'
<1> SUFFICES ASSUME faults = 0, crashes = 0 PROVE OrderInv'
  BY DEF Insert, countVars, OrderInv
<1>1. /\ UNCHANGED diskVars /\ UNCHANGED memoryVars /\ UNCHANGED countVars
      /\ m \in wire /\ wire' = wire \ {m}
      /\ rows' = IF m \in Stored THEN rows ELSE Append(rows, m)
  BY DEF Insert
<1>2. /\ queue' = queue /\ failed' = failed /\ pos' = pos /\ log' = log
      /\ Logged' = Logged
  BY <1>1 DEF memoryVars, diskVars, Logged
<1>3. /\ pos \in 1..Len(queue) /\ queue[pos] = m /\ pos > 0
      /\ rows \in Seq(Messages) /\ Len(rows) \in Nat /\ Len(queue) \in Nat
  BY <1>1 DEF IInv, MemoryOK, RestOK, OrderInv
<1>4. CASE m \in Stored
  <2>1. rows' = rows /\ Stored' = Stored
    BY <1>1, <1>4 DEF Stored
  <2> QED
    BY <1>1, <1>2, <1>3, <2>1 DEF OrderInv
<1>5. CASE m \notin Stored
  <2> DEFINE more == Append(rows, m)
             n == Len(rows)
  <2>1. rows' = more
    BY <1>1, <1>5
  <2>2. /\ Len(more) = n + 1 /\ more[n + 1] = m /\ Elems(more) = Elems(rows) \cup {m}
        /\ \A k \in 1..n : more[k] = rows[k]
    BY <1>3, ElemsAppend
  <2>3. \A k \in 1..(n + 1) : k \in 1..n \/ k = n + 1
    BY <1>3
  <2>4. \A k \in 1..n : rows[k] # m
    BY <1>5 DEF Stored, Elems
  <2>5. \A k \in 1..n : Earlier(log, rows[k], m)
    BY <1>3, <2>4 DEF OrderInv
  <2>6. m \in Logged
    BY <1>3, ElemsIndex DEF OrderInv
  <2> HIDE DEF more
  <2>7. \A i, j \in 1..(n + 1) : i < j => Earlier(log, more[i], more[j])
    <3> TAKE i, j \in 1..(n + 1)
    <3>1. CASE i < j /\ j = n + 1
      <4>1. i \in 1..n
        BY <1>3, <3>1
      <4> QED
        BY <2>2, <2>5, <3>1, <4>1
    <3>2. CASE i < j /\ j # n + 1
      <4>1. i \in 1..n /\ j \in 1..n
        BY <1>3, <3>2
      <4> QED
        BY <2>2, <3>2, <4>1 DEF OrderInv
    <3> QED
      BY <3>1, <3>2
  <2>8. \A k \in 1..(n + 1) : \A i \in 1..Len(queue) :
           /\ i > pos => Earlier(log, more[k], queue[i])
           /\ i = pos => more[k] = queue[i] \/ Earlier(log, more[k], queue[i])
    <3> TAKE k \in 1..(n + 1)
    <3> TAKE i \in 1..Len(queue)
    <3>1. CASE k \in 1..n
      BY <2>2, <3>1 DEF OrderInv
    <3>2. CASE k = n + 1
      BY <1>3, <2>2, <3>2 DEF OrderInv
    <3> QED
      BY <2>3, <3>1, <3>2
  <2> QED
    BY <1>1, <1>2, <1>3, <2>1, <2>2, <2>6, <2>7, <2>8 DEF OrderInv, Stored
<1> QED
  BY <1>4, <1>5

\* 201: the rows end at the current message, and the loop goes on to the next
\* one or has reached the end of the queue.
LEMMA AnsweredOrder ==
    ASSUME IInv, OrderInv, Answered
    PROVE  OrderInv'
<1> SUFFICES ASSUME faults = 0, crashes = 0 PROVE OrderInv'
  BY DEF Answered, countVars, OrderInv
<1>1. /\ pos > 0 /\ queue[pos] \notin wire /\ Advance(failed)
      /\ wire' = Posted(wire) /\ log' = log /\ rows' = rows /\ UNCHANGED countVars
  BY DEF Answered, Current
<1>2. /\ pos \in 1..Len(queue) /\ Len(queue) \in Nat /\ wire = {} /\ failed = <<>>
  BY <1>1 DEF IInv, MemoryOK, OrderInv
<1>3. Logged' = Logged /\ Stored' = Stored
  BY <1>1 DEF Logged, Stored
<1>4. CASE pos < Len(queue)
  <2>1. pos' = pos + 1 /\ failed' = failed /\ queue' = queue
        /\ wire' = {queue[pos + 1]}
    BY <1>1, <1>2, <1>4 DEF Advance, Posted
  <2>2. pos + 1 > 0 /\ pos + 1 # 0 /\ Elems(queue)' = Elems(queue)
        /\ \A i \in 1..Len(queue) : i >= pos + 1 => i > pos
    BY <1>2, <2>1
  <2>3. \A k \in 1..Len(rows) : \A i \in 1..Len(queue) :
           i >= pos + 1 => Earlier(log, rows[k], queue[i])
    BY <2>2 DEF OrderInv
  <2>4. \A i \in 1..Len(queue) : (i > pos + 1 \/ i = pos + 1) => i >= pos + 1
    BY <1>2
  <2> QED
    BY <1>1, <1>2, <1>3, <2>1, <2>2, <2>3, <2>4 DEF OrderInv
<1>5. CASE ~(pos < Len(queue))
  <2>1. pos' = 0 /\ failed' = <<>> /\ queue' = <<>> /\ wire' = {}
    BY <1>1, <1>2, <1>5 DEF Advance, Posted
  <2>2. Len(<<>>) = 0 /\ 1..0 = {} /\ Elems(<<>>) = {}
    BY DEF Elems
  <2> QED
    BY <1>1, <1>3, <2>1, <2>2 DEF OrderInv
<1> QED
  BY <1>4, <1>5

\* A failed post and a restart end the claim; without a failure there is
\* nothing to retry.
LEMMA NextOrderInv == IInv /\ OrderInv /\ [Next]_vars => OrderInv'
<1> SUFFICES ASSUME IInv, OrderInv, [Next]_vars PROVE OrderInv'
  OBVIOUS
<1>1. ASSUME NEW m \in Messages, AppendMessage(m) PROVE OrderInv'
  BY <1>1, AppendOrder
<1>2. ASSUME NEW m \in Messages, Insert(m) PROVE OrderInv'
  BY <1>2, InsertOrder
<1>3. CASE Answered
  BY <1>3, AnsweredOrder
<1>4. CASE PostFails
  <2>1. faults' # 0
    BY <1>4 DEF PostFails, IInv, RestOK
  <2> QED
    BY <2>1 DEF OrderInv
<1>5. CASE Retry
  <2>1. faults # 0 \/ crashes # 0
    BY <1>5 DEF Retry, IInv, MemoryOK, OrderInv
  <2> QED
    BY <1>5, <2>1 DEF Retry, countVars, OrderInv
<1>6. CASE Restart
  <2>1. crashes' # 0
    BY <1>6 DEF Restart, IInv, RestOK
  <2> QED
    BY <2>1 DEF OrderInv
<1>7. CASE UNCHANGED vars
  <2>1. Elems(queue)' = Elems(queue) /\ Logged' = Logged /\ Stored' = Stored
    BY <1>7 DEF vars, diskVars, memoryVars, Logged, Stored
  <2> QED
    BY <1>7, <2>1 DEF vars, diskVars, memoryVars, countVars, OrderInv
<1> QED
  BY <1>1, <1>2, <1>3, <1>4, <1>5, <1>6, <1>7 DEF Next

\* There is no row yet.
LEMMA InitOrderInv == Init => OrderInv
<1>1. Len(<<>>) = 0 /\ 1..0 = {} /\ Elems(<<>>) = {}
  BY DEF Elems
<1> QED
  BY <1>1 DEF Init, OrderInv, Stored

\* Rows in the order of the log are at increasing positions of it.
LEMMA OrderInvImplies == IInv /\ OrderInv => RowsInLogOrder
<1> SUFFICES ASSUME IInv, OrderInv, faults = 0, crashes = 0,
                    NEW i \in 1..Len(rows), NEW j \in 1..Len(rows), i < j
             PROVE  Position(log, rows[i]) < Position(log, rows[j])
  BY DEF RowsInLogOrder
<1>1. Earlier(log, rows[i], rows[j]) /\ rows[i] \in Logged /\ rows[j] \in Logged
  BY ElemsIndex DEF OrderInv, Stored
<1>2. ASSUME NEW x \in Logged
      PROVE  Position(log, x) \in 1..Len(log) /\ log[Position(log, x)] = x
  <2>1. \E p \in 1..Len(log) : log[p] = x
    BY DEF Logged, Elems
  <2> DEFINE p == Position(log, x)
  <2>2. p \in 1..Len(log) /\ log[p] = x
    BY <2>1, Zenon DEF Position
  <2> QED
    BY <2>2
<1> QED
  BY <1>1, <1>2 DEF Earlier

\* As long as no post fails and nothing restarts, seq is the order of the log,
\* whatever is appended while a post is on its way (RowsInLogOrder).
THEOREM RowsInLogOrderCorrect == Spec => []RowsInLogOrder
BY Inductive, InitOrderInv, NextOrderInv, OrderInvImplies, PTL DEF Spec
===============================================================================
