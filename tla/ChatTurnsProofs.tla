--------------------------- MODULE ChatTurnsProofs ---------------------------
(***************************************************************************)
(* Proofs about ChatTurns, for any turns, approvals and number of          *)
(* restarts.                                                               *)
(***************************************************************************)
EXTENDS ChatTurns, SequenceTheorems, WellFoundedInduction, TLAPS

-----------------------------------------------------------------------------
(* Replay                                                                  *)

\* f computes the replay of the first n lines.
Replays(f, n, lines) ==
    f = [k \in 0..n |-> IF k = 0 THEN <<>> ELSE ApplyLine(f[k - 1], lines[k])]

\* Any set of natural numbers has a first one.
LEMMA FirstNatural ==
    ASSUME NEW T \in SUBSET Nat, T # {}
    PROVE  \E x \in T : \A y \in T : x <= y
  <1> DEFINE Less == {ss \in Nat \X Nat : ss[1] < ss[2]}
  <1>1. IsWellFoundedOn(Less, Nat)
    BY NatLessThanWellFounded DEF OpToRel
  <1>2. \A x, y \in Nat : <<y, x>> \notin Less => x <= y
    OBVIOUS
  <1> HIDE DEF Less
  <1>3. PICK x \in T : \A y \in T : ~ (<<y, x>> \in Less)
    BY <1>1, WFMin, Zenon
  <1> QED BY <1>2, <1>3

\* The recursion is well founded: there is such a function.
LEMMA ReplaysExists ==
    ASSUME NEW lines, NEW n \in Nat
    PROVE  \E f : Replays(f, n, lines)
  <1> DEFINE T == {k \in Nat : ~ \E f : Replays(f, k, lines)}
  <1> SUFFICES ASSUME T # {} PROVE FALSE
    OBVIOUS
  <1> HIDE DEF T
  <1>1. T \in SUBSET Nat BY DEF T
  <1>2. PICK x \in T : \A y \in T : x <= y BY <1>1, FirstNatural
  <1>3. x \in Nat BY <1>1
  <1>4. CASE x = 0
    <2> DEFINE f == [k \in 0..0 |-> <<>>]
    <2>1. Replays(f, 0, lines) BY DEF Replays
    <2> QED BY <1>2, <1>4, <2>1 DEF T
  <1>5. CASE x # 0
    <2>1. x - 1 \in Nat /\ x - 1 \notin T BY <1>2, <1>3, <1>5
    <2>2. PICK f : Replays(f, x - 1, lines) BY <2>1 DEF T
    <2> DEFINE last == ApplyLine(f[x - 1], lines[x])
               g == [k \in 0..x |-> IF k < x THEN f[k] ELSE last]
    <2>3. \A k \in 0..(x - 1) :
             f[k] = IF k = 0 THEN <<>> ELSE ApplyLine(f[k - 1], lines[k])
      BY <2>2 DEF Replays
    <2>4. \A k \in 0..x :
             g[k] = IF k = 0 THEN <<>> ELSE ApplyLine(g[k - 1], lines[k])
      <3> TAKE k \in 0..x
      <3>1. CASE k = 0 BY <3>1, <1>3, <1>5, <2>3
      <3>2. CASE k # 0 /\ k < x
        <4>1. k - 1 \in 0..x /\ k - 1 < x /\ k \in 0..(x - 1) BY <3>2, <1>3
        <4>2. g[k] = f[k] /\ g[k - 1] = f[k - 1] BY <3>2, <4>1
        <4> QED BY <2>3, <3>2, <4>1, <4>2
      <3>3. CASE k = x
        <4>1. k - 1 \in 0..x /\ k - 1 < x BY <3>3, <1>3, <1>5
        <4>2. g[k] = last /\ g[k - 1] = f[k - 1] BY <3>3, <4>1
        <4> QED BY <1>5, <3>3, <4>2
      <3> QED BY <1>3, <3>1, <3>2, <3>3
    <2>5. Replays(g, x, lines) BY <2>4 DEF Replays
    <2> QED BY <1>2, <2>5 DEF T
  <1> QED BY <1>4, <1>5

\* Replays that agree on their lines agree on their values.
LEMMA ReplaysAgree ==
    ASSUME NEW f, NEW g, NEW lines, NEW more, NEW n \in Nat, NEW m \in Nat,
           n <= m, Replays(f, n, lines), Replays(g, m, more),
           \A k \in 1..n : lines[k] = more[k]
    PROVE  f[n] = g[n]
  <1> DEFINE T == {k \in 0..n : f[k] # g[k]}
  <1>1. ASSUME T # {} PROVE FALSE
    <2> HIDE DEF T
    <2>1. T \in SUBSET Nat BY DEF T
    <2>2. PICK x \in T : \A y \in T : x <= y BY <1>1, <2>1, FirstNatural
    <2>3. x \in 0..n /\ f[x] # g[x] BY DEF T
    <2>4. /\ f[x] = IF x = 0 THEN <<>> ELSE ApplyLine(f[x - 1], lines[x])
          /\ g[x] = IF x = 0 THEN <<>> ELSE ApplyLine(g[x - 1], more[x])
      <3>1. x \in 0..m BY <2>3
      <3> QED BY <2>3, <3>1 DEF Replays
    <2>5. x # 0 BY <2>3, <2>4
    <2>6. x - 1 \in 0..n /\ x - 1 \notin T /\ x \in 1..n BY <2>2, <2>3, <2>5
    <2>7. f[x - 1] = g[x - 1] BY <2>6 DEF T
    <2> QED BY <2>3, <2>4, <2>5, <2>6, <2>7
  <1> QED BY <1>1

\* Replay is the last value of that function.
LEMMA ReplayIsReplays ==
    ASSUME NEW lines \in Seq(Line)
    PROVE  \E f : Replays(f, Len(lines), lines) /\ Replay(lines) = f[Len(lines)]
  <1>1. Len(lines) \in Nat OBVIOUS
  <1> DEFINE after == CHOOSE f : Replays(f, Len(lines), lines)
  <1>2. Replays(after, Len(lines), lines) BY <1>1, ReplaysExists
  <1>3. Replay(lines) = after[Len(lines)] BY DEF Replay, Replays
  <1> QED BY <1>2, <1>3

\* What a reader of one more line does.
LEMMA ReplayAppend ==
    ASSUME NEW lines \in Seq(Line), NEW line \in Line
    PROVE  Replay(Append(lines, line)) = ApplyLine(Replay(lines), line)
  <1> DEFINE more == Append(lines, line)
             n == Len(lines)
  <1>1. more \in Seq(Line) /\ Len(more) = n + 1 /\ n \in Nat
        /\ more[n + 1] = line /\ \A k \in 1..n : lines[k] = more[k]
    BY AppendProperties
  <1>2. PICK f : Replays(f, n, lines) /\ Replay(lines) = f[n]
    BY ReplayIsReplays
  <1>3. PICK g : Replays(g, n + 1, more) /\ Replay(more) = g[n + 1]
    BY <1>1, ReplayIsReplays
  <1> HIDE DEF more
  <1>4. f[n] = g[n]
    <2> HIDE DEF n
    <2>1. n + 1 \in Nat /\ n <= n + 1 BY <1>1
    <2> QED BY <1>1, <1>2, <1>3, <2>1, ReplaysAgree
  <1>5. g[n + 1] = ApplyLine(g[n], more[n + 1])
    <2> HIDE DEF n
    <2>1. n + 1 \in 0..(n + 1) /\ n + 1 # 0 /\ (n + 1) - 1 = n BY <1>1
    <2> QED BY <1>3, <2>1 DEF Replays
  <1> QED BY <1>1, <1>2, <1>3, <1>4, <1>5 DEF more

\* An empty log shows nothing.
LEMMA ReplayEmpty == Replay(<<>>) = <<>>
  <1>1. <<>> \in Seq(Line) /\ Len(<<>>) = 0 OBVIOUS
  <1>2. PICK f : Replays(f, 0, <<>>) /\ Replay(<<>>) = f[0]
    BY <1>1, ReplayIsReplays
  <1> QED BY <1>2 DEF Replays

\* findIndex: the first position, or none.
LEMMA IndexOfFirst ==
    ASSUME NEW messages \in Seq(Message), NEW m
    PROVE  /\ IndexOf(messages, m) \in 0..Len(messages)
           /\ IndexOf(messages, m) > 0 =>
                  /\ messages[IndexOf(messages, m)] = m
                  /\ \A k \in 1..Len(messages) :
                        messages[k] = m => IndexOf(messages, m) <= k
           /\ IndexOf(messages, m) = 0 =>
                  \A k \in 1..Len(messages) : messages[k] # m
  <1> DEFINE I == {i \in 1..Len(messages) : messages[i] = m}
  <1>1. IndexOf(messages, m) = IF I # {} THEN Min(I) ELSE 0
    BY DEF IndexOf, SelectInSeq
  <1>2. Len(messages) \in Nat /\ I \in SUBSET Nat /\ I \subseteq 1..Len(messages)
    OBVIOUS
  <1>3. CASE I = {}
    BY <1>1, <1>2, <1>3
  <1>4. CASE I # {}
    <2>1. Min(I) \in I /\ \A k \in I : Min(I) <= k
      <3> HIDE DEF I
      <3>1. \E x \in I : \A y \in I : x <= y BY <1>2, <1>4, FirstNatural
      <3> DEFINE x == Min(I)
      <3>2. x \in I /\ \A y \in I : x =< y BY <3>1, Zenon DEF Min
      <3> QED BY <3>2
    <2> DEFINE x == IndexOf(messages, m)
    <2>2. x = Min(I) BY <1>1, <1>4
    <2>3. x \in 1..Len(messages) /\ messages[x] = m BY <2>1, <2>2
    <2>4. \A k \in 1..Len(messages) : messages[k] = m => x <= k BY <2>1, <2>2
    <2> HIDE DEF x
    <2>5. x > 0 BY <1>2, <2>3
    <2> QED BY <2>3, <2>4, <2>5 DEF x
  <1> QED BY <1>3, <1>4

\* Nothing is found in an empty cache.
LEMMA IndexOfNone ==
    ASSUME NEW m
    PROVE  IndexOf(<<>>, m) = 0
  <1>1. {i \in 1..Len(<<>>) : (<<>>)[i] = m} = {} OBVIOUS
  <1> QED BY <1>1 DEF IndexOf, SelectInSeq

\* A message appended at the end moves no first position.
LEMMA IndexOfAppend ==
    ASSUME NEW messages \in Seq(Message), NEW m, NEW x \in Message,
           IndexOf(messages, m) > 0
    PROVE  IndexOf(Append(messages, x), m) = IndexOf(messages, m)
  <1> DEFINE more == Append(messages, x)
             i == IndexOf(messages, m)
             j == IndexOf(more, m)
             n == Len(messages)
  <1>1. more \in Seq(Message) /\ Len(more) = n + 1 /\ n \in Nat
        /\ \A k \in 1..n : more[k] = messages[k]
    BY AppendProperties
  <1>2. i \in 1..n /\ messages[i] = m
        /\ \A k \in 1..n : messages[k] = m => i <= k
    BY IndexOfFirst
  <1>3. /\ j \in 0..(n + 1)
        /\ j > 0 => more[j] = m /\ \A k \in 1..(n + 1) : more[k] = m => j <= k
        /\ j = 0 => \A k \in 1..(n + 1) : more[k] # m
    BY <1>1, IndexOfFirst
  <1> HIDE DEF i, j, n, more
  <1>4. more[i] = m /\ i \in 1..(n + 1) BY <1>1, <1>2
  <1>5. j > 0 /\ j <= i BY <1>3, <1>4
  <1>6. j \in 1..n /\ messages[j] = m BY <1>1, <1>2, <1>3, <1>5
  <1>7. i <= j BY <1>2, <1>6
  <1> QED BY <1>2, <1>3, <1>5, <1>7 DEF i, j, more

\* slice(0, i) keeps the messages before i.
LEMMA KeepBeforeProperties ==
    ASSUME NEW messages \in Seq(Message), NEW i \in Nat
    PROVE  /\ KeepBefore(messages, i) \in Seq(Message)
           /\ Len(KeepBefore(messages, i)) <= Len(messages)
           /\ \A k \in 1..Len(KeepBefore(messages, i)) :
                 KeepBefore(messages, i)[k] = messages[k]
  <1> DEFINE n == Min({i - 1, Len(messages)})
             kept == SubSeq(messages, 1, n)
  <1>1. n \in Int /\ n <= Len(messages) /\ n >= -1
    <2>1. Len(messages) \in Nat OBVIOUS
    <2> DEFINE l == Len(messages)
               S == {i - 1, l}
    <2>2. \E x \in S : \A y \in S : x =< y
      <3>1. CASE i - 1 <= l BY <3>1, <2>1
      <3>2. CASE ~ (i - 1 <= l) BY <3>2, <2>1
      <3> QED BY <3>1, <3>2
    <2> HIDE DEF S
    <2>3. n \in S /\ \A y \in S : n =< y
      <3> DEFINE x == Min(S)
      <3>1. x \in S /\ \A y \in S : x =< y BY <2>2, Zenon DEF Min
      <3> QED BY <3>1 DEF S
    <2> QED BY <2>1, <2>3 DEF S
  <1>2. KeepBefore(messages, i) = kept BY DEF KeepBefore
  <1> HIDE DEF n
  <1>3. Len(messages) \in Nat /\ \A k \in 1..n : messages[k] \in Message
    BY <1>1, ElementOfSeq
  <1>4. /\ kept \in Seq(Message)
        /\ Len(kept) = IF 1 <= n THEN n ELSE 0
        /\ \A k \in 1..n : kept[k] = messages[k]
    <2>1. /\ kept \in Seq(Message)
          /\ Len(kept) = IF 1 <= n THEN n - 1 + 1 ELSE 0
          /\ \A k \in 1..(n - 1 + 1) : kept[k] = messages[1 + k - 1]
      <3>1. \A k \in 1..n : messages[k] \in Message BY <1>3
      <3>2. 1 \in Int /\ n \in Int BY <1>1
      <3> HIDE DEF kept
      <3> QED BY <1>1, <1>3, <3>1, <3>2, SubSeqProperties DEF kept
    <2>2. n - 1 + 1 = n /\ \A k \in 1..n : 1 + k - 1 = k BY <1>1
    <2> HIDE DEF kept
    <2> QED BY <2>1, <2>2, <1>1
  <1> HIDE DEF kept
  <1>5. \A k \in 1..Len(kept) : k \in 1..n BY <1>1, <1>4
  <1> QED BY <1>1, <1>2, <1>3, <1>4, <1>5

\* A line makes a sequence of messages from one.
LEMMA ApplyLineType ==
    ASSUME NEW messages \in Seq(Message), NEW line \in Line
    PROVE  ApplyLine(messages, line) \in Seq(Message)
  <1>1. line.of \in Message BY DEF Line
  <1>2. IndexOf(messages, line.of) \in Nat BY IndexOfFirst
  <1>3. Append(messages, line.of) \in Seq(Message) BY <1>1, AppendProperties
  <1>4. KeepBefore(messages, IndexOf(messages, line.of)) \in Seq(Message)
    BY <1>2, KeepBeforeProperties
  <1> QED BY <1>3, <1>4 DEF ApplyLine

\* A replay is a sequence of messages.
LEMMA ReplayType ==
    ASSUME NEW lines \in Seq(Line)
    PROVE  Replay(lines) \in Seq(Message)
  <1> DEFINE n == Len(lines)
  <1>1. n \in Nat /\ \A k \in 1..n : lines[k] \in Line BY ElementOfSeq
  <1>2. PICK f : Replays(f, n, lines) /\ Replay(lines) = f[n]
    BY ReplayIsReplays
  <1> HIDE DEF n
  <1> DEFINE T == {k \in 0..n : f[k] \notin Seq(Message)}
  <1>3. ASSUME T # {} PROVE FALSE
    <2> HIDE DEF T
    <2>1. T \in SUBSET Nat BY DEF T
    <2>2. PICK x \in T : \A y \in T : x <= y BY <1>3, <2>1, FirstNatural
    <2>3. x \in 0..n /\ f[x] \notin Seq(Message) BY DEF T
    <2>4. f[x] = IF x = 0 THEN <<>> ELSE ApplyLine(f[x - 1], lines[x])
      BY <1>2, <2>3 DEF Replays
    <2>5. <<>> \in Seq(Message) OBVIOUS
    <2>6. x # 0 BY <2>3, <2>4, <2>5
    <2>7. x - 1 \in 0..n /\ x - 1 \notin T /\ x \in 1..n
      BY <1>1, <2>2, <2>3, <2>6
    <2>8. f[x - 1] \in Seq(Message) BY <2>7 DEF T
    <2>9. ApplyLine(f[x - 1], lines[x]) \in Seq(Message)
      BY <1>1, <2>7, <2>8, ApplyLineType
    <2> QED BY <2>3, <2>4, <2>6, <2>9
  <1>4. n \in 0..n BY <1>1
  <1> QED BY <1>2, <1>3, <1>4

-----------------------------------------------------------------------------
(* Types                                                                   *)

StoreTypeOK ==
    /\ history \in Seq(Message) /\ log \in Seq(Line)
    /\ disk.history \in Seq(Message) /\ disk.sdk \in MaybeTurn
    /\ sdk \in MaybeTurn

RewindTypeOK ==
    /\ target \in [Turns -> Message \cup {NoMessage}]
    /\ cut \in [Turns -> Nat]
    /\ \A t \in Turns : pc[t] = "rewinding" => target[t] \in Message
    /\ crashes \in 0..MaxCrashes

TurnTypeOK ==
    /\ bridge \in MaybeTurn /\ active \in BOOLEAN
    /\ pc \in [Turns -> {"new", "rewinding", "starting", "streaming",
                         "stopped", "ended"}]
    /\ resume \in [Turns -> MaybeTurn] /\ conv \in [Turns -> MaybeTurn]
    /\ agent \in [Turns -> BOOLEAN] /\ spoke \in [Turns -> BOOLEAN]

AskTypeOK ==
    /\ ask \in [Turns -> {"none", "waiting", "allowed", "denied"}]
    /\ holder \in [Turns -> MaybeTurn]
    /\ said \in [Turns -> {"nothing", "yes", "no"}]

\* A rewind that is being saved names a message, which a marker can name.
TypeInv == StoreTypeOK /\ RewindTypeOK /\ TurnTypeOK /\ AskTypeOK

\* TypeInv is TypeOK and a little more.
LEMMA TypeInvImplies == TypeInv => TypeOK
  BY DEF TypeInv, StoreTypeOK, RewindTypeOK, TurnTypeOK, AskTypeOK, TypeOK

\* The initial state is well typed.
LEMMA InitTypeInv == Init => TypeInv
  <1> SUFFICES ASSUME Init PROVE TypeInv
    OBVIOUS
  <1>1. StoreTypeOK
    <2>1. <<>> \in Seq(Message) /\ <<>> \in Seq(Line) OBVIOUS
    <2> QED BY <2>1 DEF Init, StoreTypeOK, MaybeTurn
  <1>2. RewindTypeOK BY BoundsAssumption DEF Init, RewindTypeOK
  <1>3. TurnTypeOK /\ AskTypeOK BY DEF Init, TurnTypeOK, AskTypeOK, MaybeTurn
  <1> QED BY <1>1, <1>2, <1>3 DEF TypeInv

\* The two messages of a turn, and their lines.
LEMMA MessageTypes ==
    ASSUME NEW t \in Turns
    PROVE  /\ User(t) \in Message /\ Assistant(t) \in Message
           /\ Logged(User(t)) \in Line /\ Logged(Assistant(t)) \in Line
  BY DEF User, Assistant, Message, Logged, Line

\* Recording a message keeps cache and log well typed.
LEMMA RecordType ==
    ASSUME NEW messages \in Seq(Message), NEW lines \in Seq(Line),
           NEW m \in Message, Record(messages, lines, m)
    PROVE  history' \in Seq(Message) /\ log' \in Seq(Line)
  <1>1. Logged(m) \in Line BY DEF Logged, Line
  <1> QED BY <1>1, AppendProperties DEF Record

\* So does a marker.
LEMMA MarkerAppendType ==
    ASSUME NEW lines \in Seq(Line), NEW m \in Message
    PROVE  Marker(m) \in Line /\ Append(lines, Marker(m)) \in Seq(Line)
  <1>1. Marker(m) \in Line BY DEF Marker, Line
  <1> QED BY <1>1, AppendProperties

\* Whatever a rewind cuts is a sequence of messages.
LEMMA RewindSourceType ==
    ASSUME StoreTypeOK, NEW m
    PROVE  RewindSource(m) \in Seq(Message)
  <1>1. Replay(log) \in Seq(Message) BY ReplayType DEF StoreTypeOK
  <1>2. <<>> \in Seq(Message) OBVIOUS
  <1> QED BY <1>1, <1>2 DEF RewindSource, StoreTypeOK

\* Where the turns are.
LEMMA TurnTypeStep == TypeInv /\ [Next]_vars => TurnTypeOK'
  <1> SUFFICES ASSUME TypeInv, [Next]_vars PROVE TurnTypeOK'
    OBVIOUS
  <1>1. ASSUME NEW t \in Turns, ChatSend(t) PROVE TurnTypeOK'
    BY <1>1
       DEF ChatSend, Send, TypeInv, StoreTypeOK, TurnTypeOK, store,
           approvals, rewinding, session
  <1>2. ASSUME NEW t \in Turns, RewindCut(t) PROVE TurnTypeOK'
    BY <1>2
       DEF RewindCut, Send, TypeInv, StoreTypeOK, TurnTypeOK, store,
           approvals, rewinding, session
  <1>3. ASSUME NEW t \in Turns, StartSession(t) PROVE TurnTypeOK'
    BY <1>3
       DEF StartSession, TypeInv, TurnTypeOK, MaybeTurn, PcStopped,
           store, rewinding, session
  <1>4. ASSUME NEW t \in Turns, StartFails(t) PROVE TurnTypeOK'
    BY <1>4
       DEF StartFails, TypeInv, TurnTypeOK, MaybeTurn, PcStopped, store,
           rewinding, session
  <1>5. ASSUME NEW t \in Turns, Announce(t) PROVE TurnTypeOK'
    BY <1>5
       DEF Announce, TypeInv, TurnTypeOK, MaybeTurn, store, approvals,
           rewinding, session
  <1>6. ASSUME NEW t \in Turns, Speak(t) PROVE TurnTypeOK'
    BY <1>6
       DEF Speak, TypeInv, TurnTypeOK, MaybeTurn, store, approvals,
           rewinding, session
  <1>7. ASSUME NEW t \in Turns, RequestApproval(t) PROVE TurnTypeOK'
    BY <1>7
       DEF RequestApproval, TypeInv, TurnTypeOK, MaybeTurn, store,
           rewinding, session
  <1>8. ASSUME NEW t \in Turns, Complete(t) PROVE TurnTypeOK'
    BY <1>8
       DEF Complete, TypeInv, TurnTypeOK, MaybeTurn, store, approvals,
           rewinding, session
  <1>9. ASSUME NEW t \in Turns, Fail(t) PROVE TurnTypeOK'
    BY <1>9
       DEF Fail, TypeInv, TurnTypeOK, MaybeTurn, store, approvals,
           rewinding, session
  <1>10. ASSUME NEW t \in Turns, NEW u \in Turns, RewindStop(t, User(u))
         PROVE TurnTypeOK'
    BY <1>10
       DEF RewindStop, TypeInv, TurnTypeOK, MaybeTurn, PcStopped,
           rewinding, session
  <1>11. ASSUME NEW t \in Turns, NEW u \in Turns, RewindUnknown(t, User(u))
         PROVE TurnTypeOK'
    BY <1>11
       DEF RewindUnknown, TypeInv, TurnTypeOK, MaybeTurn, store,
           approvals, rewinding, session
  <1>12. ASSUME NEW t \in Turns, NEW answer \in {"yes", "no"},
              RespondToApproval(t, answer) PROVE TurnTypeOK'
    BY <1>12
       DEF RespondToApproval, TypeInv, TurnTypeOK, MaybeTurn, store,
           rewinding, session
  <1>13. ASSUME ChatStop PROVE TurnTypeOK'
    BY <1>13
       DEF ChatStop, TypeInv, TurnTypeOK, MaybeTurn, PcStopped, store,
           rewinding, session
  <1>14. ASSUME AutoSave PROVE TurnTypeOK'
    BY <1>14
       DEF AutoSave, TypeInv, TurnTypeOK, MaybeTurn, store, approvals,
           rewinding, session
  <1>15. ASSUME JoinSession PROVE TurnTypeOK'
    BY <1>15
       DEF JoinSession, TypeInv, TurnTypeOK, MaybeTurn, approvals,
           rewinding, session
  <1>16. ASSUME Restart PROVE TurnTypeOK'
    BY <1>16 DEF Restart, TypeInv, TurnTypeOK, MaybeTurn, session
  <1>17. CASE UNCHANGED vars
    BY <1>17 DEF TypeInv, TurnTypeOK, vars
  <1> QED BY <1>1, <1>2, <1>3, <1>4, <1>5, <1>6, <1>7, <1>8, <1>9, <1>10,
     <1>11, <1>12, <1>13, <1>14, <1>15, <1>16, <1>17 DEF Next

\* Approvals.
LEMMA AskTypeStep == TypeInv /\ [Next]_vars => AskTypeOK'
  <1> SUFFICES ASSUME TypeInv, [Next]_vars PROVE AskTypeOK'
    OBVIOUS
  <1>1. ASSUME NEW t \in Turns, ChatSend(t) PROVE AskTypeOK'
    BY <1>1
       DEF ChatSend, TypeInv, TurnTypeOK, AskTypeOK, approvals,
           rewinding, session
  <1>2. ASSUME NEW t \in Turns, RewindCut(t) PROVE AskTypeOK'
    BY <1>2
       DEF RewindCut, TypeInv, TurnTypeOK, AskTypeOK, approvals,
           rewinding, session
  <1>3. ASSUME NEW t \in Turns, StartSession(t) PROVE AskTypeOK'
    BY <1>3
       DEF StartSession, TypeInv, TurnTypeOK, AskTypeOK, AskStopped,
           store, rewinding, session
  <1>4. ASSUME NEW t \in Turns, StartFails(t) PROVE AskTypeOK'
    BY <1>4
       DEF StartFails, TypeInv, TurnTypeOK, AskTypeOK, AskStopped, store,
           rewinding, session
  <1>5. ASSUME NEW t \in Turns, Announce(t) PROVE AskTypeOK'
    BY <1>5
       DEF Announce, TypeInv, TurnTypeOK, AskTypeOK, store, approvals,
           rewinding
  <1>6. ASSUME NEW t \in Turns, Speak(t) PROVE AskTypeOK'
    BY <1>6
       DEF Speak, TypeInv, TurnTypeOK, AskTypeOK, store, approvals,
           rewinding, session
  <1>7. ASSUME NEW t \in Turns, RequestApproval(t) PROVE AskTypeOK'
    BY <1>7
       DEF RequestApproval, TypeInv, TurnTypeOK, AskTypeOK, store,
           rewinding, session
  <1>8. ASSUME NEW t \in Turns, Complete(t) PROVE AskTypeOK'
    BY <1>8
       DEF Complete, TypeInv, TurnTypeOK, AskTypeOK, store, approvals,
           rewinding, session
  <1>9. ASSUME NEW t \in Turns, Fail(t) PROVE AskTypeOK'
    BY <1>9
       DEF Fail, TypeInv, TurnTypeOK, AskTypeOK, store, approvals,
           rewinding, session
  <1>10. ASSUME NEW t \in Turns, NEW u \in Turns, RewindStop(t, User(u))
         PROVE AskTypeOK'
    BY <1>10
       DEF RewindStop, TypeInv, TurnTypeOK, AskTypeOK, AskStopped,
           rewinding, session
  <1>11. ASSUME NEW t \in Turns, NEW u \in Turns, RewindUnknown(t, User(u))
         PROVE AskTypeOK'
    BY <1>11
       DEF RewindUnknown, TypeInv, TurnTypeOK, AskTypeOK, store,
           approvals, rewinding, session
  <1>12. ASSUME NEW t \in Turns, NEW answer \in {"yes", "no"},
              RespondToApproval(t, answer) PROVE AskTypeOK'
    BY <1>12
       DEF RespondToApproval, TypeInv, TurnTypeOK, AskTypeOK, store,
           rewinding, session
  <1>13. ASSUME ChatStop PROVE AskTypeOK'
    BY <1>13
       DEF ChatStop, TypeInv, TurnTypeOK, AskTypeOK, AskStopped, store,
           rewinding, session
  <1>14. ASSUME AutoSave PROVE AskTypeOK'
    BY <1>14
       DEF AutoSave, TypeInv, TurnTypeOK, AskTypeOK, store, approvals,
           rewinding, session
  <1>15. ASSUME JoinSession PROVE AskTypeOK'
    BY <1>15
       DEF JoinSession, TypeInv, TurnTypeOK, AskTypeOK, approvals,
           rewinding, session
  <1>16. ASSUME Restart PROVE AskTypeOK'
    BY <1>16 DEF Restart, TypeInv, TurnTypeOK, AskTypeOK, session
  <1>17. CASE UNCHANGED vars
    BY <1>17 DEF TypeInv, AskTypeOK, vars, store, approvals, rewinding, session
  <1> QED BY <1>1, <1>2, <1>3, <1>4, <1>5, <1>6, <1>7, <1>8, <1>9, <1>10,
     <1>11, <1>12, <1>13, <1>14, <1>15, <1>16, <1>17 DEF Next

\* Rewinds.
LEMMA RewindTypeStep == TypeInv /\ [Next]_vars => RewindTypeOK'
  <1> SUFFICES ASSUME TypeInv, [Next]_vars PROVE RewindTypeOK'
    OBVIOUS
  <1>1. ASSUME NEW t \in Turns, ChatSend(t) PROVE RewindTypeOK'
    BY <1>1
       DEF ChatSend, TypeInv, TurnTypeOK, RewindTypeOK, Send, approvals,
           rewinding, session
  <1>2. ASSUME NEW t \in Turns, RewindCut(t) PROVE RewindTypeOK'
    BY <1>2
       DEF RewindCut, TypeInv, TurnTypeOK, RewindTypeOK, Send, approvals,
           rewinding, session
  <1>3. ASSUME NEW t \in Turns, StartSession(t) PROVE RewindTypeOK'
    BY <1>3
       DEF StartSession, TypeInv, TurnTypeOK, RewindTypeOK, PcStopped,
           store, rewinding, session
  <1>4. ASSUME NEW t \in Turns, StartFails(t) PROVE RewindTypeOK'
    BY <1>4
       DEF StartFails, TypeInv, TurnTypeOK, RewindTypeOK, PcStopped,
           store, rewinding, session
  <1>5. ASSUME NEW t \in Turns, Announce(t) PROVE RewindTypeOK'
    BY <1>5
       DEF Announce, TypeInv, TurnTypeOK, RewindTypeOK, store, approvals,
           rewinding
  <1>6. ASSUME NEW t \in Turns, Speak(t) PROVE RewindTypeOK'
    BY <1>6
       DEF Speak, TypeInv, TurnTypeOK, RewindTypeOK, store, approvals,
           rewinding, session
  <1>7. ASSUME NEW t \in Turns, RequestApproval(t) PROVE RewindTypeOK'
    BY <1>7
       DEF RequestApproval, TypeInv, TurnTypeOK, RewindTypeOK, store,
           rewinding, session
  <1>8. ASSUME NEW t \in Turns, Complete(t) PROVE RewindTypeOK'
    BY <1>8
       DEF Complete, TypeInv, TurnTypeOK, RewindTypeOK, store, approvals,
           rewinding, session
  <1>9. ASSUME NEW t \in Turns, Fail(t) PROVE RewindTypeOK'
    BY <1>9
       DEF Fail, TypeInv, TurnTypeOK, RewindTypeOK, store, approvals,
           rewinding, session
  <1>10. ASSUME NEW t \in Turns, NEW u \in Turns, RewindStop(t, User(u))
         PROVE RewindTypeOK'
    <2> DEFINE m == User(u)
    <2>1. m \in Message BY MessageTypes
    <2>2. IndexOf(RewindSource(m), m) \in Nat
      BY RewindSourceType, IndexOfFirst DEF TypeInv
    <2> HIDE DEF m
    <2> QED BY <1>10, <2>1, <2>2
            DEF RewindStop, TypeInv, TurnTypeOK, RewindTypeOK, PcStopped, m
  <1>11. ASSUME NEW t \in Turns, NEW u \in Turns, RewindUnknown(t, User(u))
         PROVE RewindTypeOK'
    BY <1>11
       DEF RewindUnknown, TypeInv, TurnTypeOK, RewindTypeOK, store,
           approvals, rewinding, session
  <1>12. ASSUME NEW t \in Turns, NEW answer \in {"yes", "no"},
              RespondToApproval(t, answer) PROVE RewindTypeOK'
    BY <1>12
       DEF RespondToApproval, TypeInv, TurnTypeOK, RewindTypeOK, store,
           rewinding, session
  <1>13. ASSUME ChatStop PROVE RewindTypeOK'
    BY <1>13
       DEF ChatStop, TypeInv, TurnTypeOK, RewindTypeOK, PcStopped, store,
           rewinding, session
  <1>14. ASSUME AutoSave PROVE RewindTypeOK'
    BY <1>14
       DEF AutoSave, TypeInv, TurnTypeOK, RewindTypeOK, store, approvals,
           rewinding, session
  <1>15. ASSUME JoinSession PROVE RewindTypeOK'
    BY <1>15
       DEF JoinSession, TypeInv, TurnTypeOK, RewindTypeOK, approvals,
           rewinding, session
  <1>16. ASSUME Restart PROVE RewindTypeOK'
    <2>1. crashes \in Nat /\ crashes + 1 \in 0..MaxCrashes
      BY <1>16, BoundsAssumption DEF Restart, TypeInv, RewindTypeOK
    <2>2. /\ target' \in [Turns -> Message \cup {NoMessage}]
          /\ cut' \in [Turns -> Nat]
      BY <1>16 DEF Restart
    <2> QED BY <1>16, <2>1, <2>2 DEF Restart, RewindTypeOK
  <1>17. CASE UNCHANGED vars
    BY <1>17
       DEF TypeInv, RewindTypeOK, vars, store, approvals, rewinding,
           session
  <1> QED BY <1>1, <1>2, <1>3, <1>4, <1>5, <1>6, <1>7, <1>8, <1>9, <1>10,
     <1>11, <1>12, <1>13, <1>14, <1>15, <1>16, <1>17 DEF Next

\* Cache, log and file.
LEMMA StoreTypeStep == TypeInv /\ [Next]_vars => StoreTypeOK'
  <1> SUFFICES ASSUME TypeInv, [Next]_vars PROVE StoreTypeOK'
    OBVIOUS
  <1>1. ASSUME NEW t \in Turns, ChatSend(t) PROVE StoreTypeOK'
    BY <1>1, MessageTypes, RecordType DEF ChatSend, Send, TypeInv, StoreTypeOK
  <1>2. ASSUME NEW t \in Turns, RewindCut(t) PROVE StoreTypeOK'
    <2>1. KeepBefore(history, cut[t]) \in Seq(Message)
      BY KeepBeforeProperties DEF TypeInv, StoreTypeOK, RewindTypeOK
    <2>2. Append(log, Marker(target[t])) \in Seq(Line)
      BY <1>2, MarkerAppendType
         DEF RewindCut, TypeInv, StoreTypeOK, RewindTypeOK
    <2>3. history' \in Seq(Message) /\ log' \in Seq(Line)
      BY <1>2, <2>1, <2>2, MessageTypes, RecordType DEF RewindCut, Send
    <2> QED BY <1>2, <2>3 DEF RewindCut, TypeInv, StoreTypeOK, Saved
  <1>3. ASSUME NEW t \in Turns, StartSession(t) PROVE StoreTypeOK'
    BY <1>3
       DEF StartSession, TypeInv, StoreTypeOK, MaybeTurn, store,
           rewinding, session
  <1>4. ASSUME NEW t \in Turns, StartFails(t) PROVE StoreTypeOK'
    BY <1>4
       DEF StartFails, TypeInv, StoreTypeOK, MaybeTurn, store, rewinding,
           session
  <1>5. ASSUME NEW t \in Turns, Announce(t) PROVE StoreTypeOK'
    BY <1>5
       DEF Announce, TypeInv, StoreTypeOK, MaybeTurn, store, approvals,
           rewinding
  <1>6. ASSUME NEW t \in Turns, Speak(t) PROVE StoreTypeOK'
    BY <1>6
       DEF Speak, TypeInv, StoreTypeOK, MaybeTurn, store, approvals,
           rewinding, session
  <1>7. ASSUME NEW t \in Turns, RequestApproval(t) PROVE StoreTypeOK'
    BY <1>7
       DEF RequestApproval, TypeInv, StoreTypeOK, MaybeTurn, store,
           rewinding, session
  <1>8. ASSUME NEW t \in Turns, Complete(t) PROVE StoreTypeOK'
    <2>1. history' \in Seq(Message) /\ log' \in Seq(Line)
      BY <1>8, MessageTypes, RecordType
         DEF Complete, TypeInv, StoreTypeOK, store
    <2>2. sdk' \in MaybeTurn
      BY <1>8 DEF Complete, TypeInv, StoreTypeOK, TurnTypeOK
    <2> QED BY <1>8, <2>1, <2>2 DEF Complete, TypeInv, StoreTypeOK
  <1>9. ASSUME NEW t \in Turns, Fail(t) PROVE StoreTypeOK'
    BY <1>9
       DEF Fail, TypeInv, StoreTypeOK, MaybeTurn, store, approvals,
           rewinding, session
  <1>10. ASSUME NEW t \in Turns, NEW u \in Turns, RewindStop(t, User(u))
         PROVE StoreTypeOK'
    BY <1>10, RewindSourceType DEF RewindStop, TypeInv, StoreTypeOK, MaybeTurn
  <1>11. ASSUME NEW t \in Turns, NEW u \in Turns, RewindUnknown(t, User(u))
         PROVE StoreTypeOK'
    BY <1>11
       DEF RewindUnknown, TypeInv, StoreTypeOK, MaybeTurn, store,
           approvals, rewinding, session
  <1>12. ASSUME NEW t \in Turns, NEW answer \in {"yes", "no"},
              RespondToApproval(t, answer) PROVE StoreTypeOK'
    BY <1>12
       DEF RespondToApproval, TypeInv, StoreTypeOK, MaybeTurn, store,
           rewinding, session
  <1>13. ASSUME ChatStop PROVE StoreTypeOK'
    BY <1>13
       DEF ChatStop, TypeInv, StoreTypeOK, MaybeTurn, store, rewinding,
           session
  <1>14. ASSUME AutoSave PROVE StoreTypeOK'
    BY <1>14
       DEF AutoSave, TypeInv, StoreTypeOK, MaybeTurn, Saved, store,
           approvals, rewinding, session
  <1>15. ASSUME JoinSession PROVE StoreTypeOK'
    BY <1>15, ReplayType DEF JoinSession, TypeInv, StoreTypeOK
  <1>16. ASSUME Restart PROVE StoreTypeOK'
    BY <1>16 DEF Restart, TypeInv, StoreTypeOK, MaybeTurn, session
  <1>17. CASE UNCHANGED vars
    BY <1>17 DEF TypeInv, StoreTypeOK, vars
  <1> QED BY <1>1, <1>2, <1>3, <1>4, <1>5, <1>6, <1>7, <1>8, <1>9, <1>10,
     <1>11, <1>12, <1>13, <1>14, <1>15, <1>16, <1>17 DEF Next

\* Every state is well typed, whichever turns overlap and whatever a restart
\* reads back.
THEOREM TypeCorrect == Spec => []TypeOK
  <1>1. TypeInv /\ [Next]_vars => TypeInv'
    BY TurnTypeStep, AskTypeStep, RewindTypeStep, StoreTypeStep DEF TypeInv
  <1> QED BY <1>1, InitTypeInv, TypeInvImplies, PTL DEF Spec

-----------------------------------------------------------------------------
(* What a turn leaves in the log                                           *)

Unsent == {"new", "rewinding"}
Running == {"starting", "streaming", "stopped"}

Fresh(lines, m) == \A i \in DOMAIN lines : lines[i] # Logged(m)

\* No message is logged twice.
Once(lines) ==
    \A m \in Message : \A i, j \in DOMAIN lines :
        lines[i] = Logged(m) /\ lines[j] = Logged(m) => i = j

AnswersFollow(lines) ==
    \A t \in Turns : \A i \in DOMAIN lines :
        lines[i] = Logged(Assistant(t)) =>
            \E j \in 1..(i - 1) : lines[j] = Logged(User(t))

\* Where a turn is tells what it has logged.  A turn that a restart ended
\* while its rewind was being saved has logged nothing.
LogInv ==
    /\ Once(log)
    /\ AnswersFollow(log)
    /\ \A t \in Turns :
         /\ pc[t] \in Unsent => Fresh(log, User(t)) /\ Fresh(log, Assistant(t))
         /\ pc[t] \in Running => ~Fresh(log, User(t)) /\ Fresh(log, Assistant(t))

\* Only a turn that streams is in the map, so stopSession stops no other.
BridgeStreams == \A t \in Turns : bridge = t => pc[t] = "streaming"

\* Markers, messages, their roles and turns are told apart.
LEMMA LineKinds ==
    /\ \A m, x : Logged(m) # Marker(x)
    /\ \A m, x : Logged(m) = Logged(x) <=> m = x
    /\ \A t, u \in Turns : User(t) # Assistant(u)
    /\ \A t, u \in Turns : User(t) = User(u) => t = u
    /\ \A t, u \in Turns : Assistant(t) = Assistant(u) => t = u
  <1>1. \A m, x : Logged(m).kind = "message" /\ Marker(x).kind = "rewind"
                 /\ Logged(m).of = m
    BY DEF Logged, Marker
  <1>2. \A t \in Turns : /\ User(t).role = "user"
                         /\ Assistant(t).role = "assistant"
                         /\ User(t).turn = t /\ Assistant(t).turn = t
    BY DEF User, Assistant
  <1>3. \A m, x : Logged(m) # Marker(x)
    <2> TAKE m, x
    <2>1. Logged(m).kind # Marker(x).kind BY <1>1
    <2> QED BY <2>1
  <1>4. \A m, x : Logged(m) = Logged(x) <=> m = x
    <2> TAKE m, x
    <2>1. Logged(m).of = m /\ Logged(x).of = x BY <1>1
    <2> QED BY <2>1
  <1>5. \A t, u \in Turns : User(t) # Assistant(u)
    <2> TAKE t, u \in Turns
    <2>1. User(t).role # Assistant(u).role BY <1>2
    <2> QED BY <2>1
  <1>6. \A t, u \in Turns : User(t) = User(u) => t = u
    <2> TAKE t, u \in Turns
    <2>1. User(t).turn = t /\ User(u).turn = u BY <1>2
    <2> QED BY <2>1
  <1>7. \A t, u \in Turns : Assistant(t) = Assistant(u) => t = u
    <2> TAKE t, u \in Turns
    <2>1. Assistant(t).turn = t /\ Assistant(u).turn = u BY <1>2
    <2> QED BY <2>1
  <1> QED BY <1>3, <1>4, <1>5, <1>6, <1>7

\* A line at the end of the log.
LEMMA AppendLine ==
    ASSUME NEW lines \in Seq(Line), NEW line \in Line
    PROVE  /\ Append(lines, line) \in Seq(Line)
           /\ Len(lines) \in Nat
           /\ DOMAIN lines = 1..Len(lines)
           /\ DOMAIN Append(lines, line) = 1..(Len(lines) + 1)
           /\ \A k \in 1..Len(lines) : Append(lines, line)[k] = lines[k]
           /\ Append(lines, line)[Len(lines) + 1] = line
  BY AppendProperties

\* A marker is no message: it makes nothing fresh and nothing stale.
LEMMA MarkerKeeps ==
    ASSUME NEW lines \in Seq(Line), NEW x \in Message
    PROVE  LET more == Append(lines, Marker(x))
           IN  /\ more \in Seq(Line)
               /\ Once(lines) => Once(more)
               /\ AnswersFollow(lines) => AnswersFollow(more)
               /\ \A m : Fresh(lines, m) <=> Fresh(more, m)
  <1> DEFINE more == Append(lines, Marker(x))
             n == Len(lines)
  <1>1. /\ more \in Seq(Line) /\ n \in Nat /\ DOMAIN lines = 1..n
        /\ DOMAIN more = 1..(n + 1) /\ \A k \in 1..n : more[k] = lines[k]
        /\ more[n + 1] = Marker(x)
    BY MarkerAppendType, AppendLine
  <1> HIDE DEF more, n
  <1>2. \A m : \A k \in 1..(n + 1) :
             more[k] = Logged(m) => k \in 1..n /\ lines[k] = Logged(m)
    BY <1>1, LineKinds
  <1>3. Once(lines) => Once(more) BY <1>1, <1>2 DEF Once
  <1>4. AnswersFollow(lines) => AnswersFollow(more)
    <2> SUFFICES ASSUME AnswersFollow(lines), NEW t \in Turns,
                        NEW i \in 1..(n + 1), more[i] = Logged(Assistant(t))
                 PROVE  \E j \in 1..(i - 1) : more[j] = Logged(User(t))
      BY <1>1 DEF AnswersFollow
    <2>1. i \in 1..n /\ lines[i] = Logged(Assistant(t)) BY <1>2
    <2>2. PICK j \in 1..(i - 1) : lines[j] = Logged(User(t))
      BY <2>1, <1>1 DEF AnswersFollow
    <2> QED BY <1>1, <2>1, <2>2
  <1>5. \A m : Fresh(lines, m) <=> Fresh(more, m)
    <2> TAKE m
    <2>1. \A k \in 1..n : k \in 1..(n + 1) BY <1>1
    <2> QED BY <1>1, <1>2, <2>1 DEF Fresh
  <1> QED BY <1>1, <1>3, <1>4, <1>5 DEF more

\* A message that was fresh is logged once, and the others are as before.
LEMMA MessageLogged ==
    ASSUME NEW lines \in Seq(Line), NEW m \in Message, Fresh(lines, m)
    PROVE  LET more == Append(lines, Logged(m))
           IN  /\ more \in Seq(Line)
               /\ Once(lines) => Once(more)
               /\ ~Fresh(more, m)
               /\ \A x : x # m => (Fresh(lines, x) <=> Fresh(more, x))
  <1> DEFINE more == Append(lines, Logged(m))
             n == Len(lines)
  <1>1. Logged(m) \in Line BY DEF Logged, Line
  <1>2. /\ more \in Seq(Line) /\ n \in Nat /\ DOMAIN lines = 1..n
        /\ DOMAIN more = 1..(n + 1) /\ \A k \in 1..n : more[k] = lines[k]
        /\ more[n + 1] = Logged(m)
    BY <1>1, AppendLine
  <1> HIDE DEF more, n
  <1>3. \A k \in 1..(n + 1) : k = n + 1 \/ k \in 1..n BY <1>2
  <1>4. Once(lines) => Once(more)
    <2> SUFFICES ASSUME Once(lines), NEW x \in Message,
                        NEW i \in 1..(n + 1), NEW j \in 1..(n + 1),
                        more[i] = Logged(x), more[j] = Logged(x)
                 PROVE  i = j
      BY <1>2 DEF Once
    <2>1. CASE x = m
      <3>1. \A k \in 1..n : more[k] # Logged(m) BY <1>2 DEF Fresh
      <3> QED BY <1>3, <2>1, <3>1
    <2>2. CASE x # m
      <3>1. i \in 1..n /\ j \in 1..n BY <1>2, <1>3, <2>2, LineKinds
      <3> QED BY <1>2, <3>1 DEF Once
    <2> QED BY <2>1, <2>2
  <1>5. ~Fresh(more, m)
    <2>1. n + 1 \in 1..(n + 1) BY <1>2
    <2> QED BY <1>2, <2>1 DEF Fresh
  <1>6. ASSUME NEW x, x # m PROVE Fresh(lines, x) <=> Fresh(more, x)
    <2>1. more[n + 1] # Logged(x) BY <1>2, <1>6, LineKinds
    <2>2. \A k \in 1..n : k \in 1..(n + 1) BY <1>2
    <2> QED BY <1>2, <1>3, <2>1, <2>2 DEF Fresh
  <1> QED BY <1>2, <1>4, <1>5, <1>6 DEF more

\* The user's message is no answer, and an answer follows the message that
\* is in the log already.
LEMMA AnswersFollowAppend ==
    ASSUME NEW lines \in Seq(Line), NEW m \in Message, AnswersFollow(lines),
           \A t \in Turns : m = Assistant(t) => ~Fresh(lines, User(t))
    PROVE  AnswersFollow(Append(lines, Logged(m)))
  <1> DEFINE more == Append(lines, Logged(m))
             n == Len(lines)
  <1>1. Logged(m) \in Line BY DEF Logged, Line
  <1>2. /\ more \in Seq(Line) /\ n \in Nat /\ DOMAIN lines = 1..n
        /\ DOMAIN more = 1..(n + 1) /\ \A k \in 1..n : more[k] = lines[k]
        /\ more[n + 1] = Logged(m)
    BY <1>1, AppendLine
  <1> HIDE DEF more, n
  <1> SUFFICES ASSUME NEW t \in Turns, NEW i \in 1..(n + 1),
                      more[i] = Logged(Assistant(t))
               PROVE  \E j \in 1..(i - 1) : more[j] = Logged(User(t))
    BY <1>2 DEF AnswersFollow, more
  <1>3. CASE i = n + 1
    <2>1. m = Assistant(t) BY <1>2, <1>3, LineKinds
    <2>2. PICK j \in 1..n : lines[j] = Logged(User(t)) BY <1>2, <2>1 DEF Fresh
    <2> QED BY <1>2, <1>3, <2>2
  <1>4. CASE i # n + 1
    <2>1. i \in 1..n /\ lines[i] = Logged(Assistant(t)) BY <1>2, <1>4
    <2>2. PICK j \in 1..(i - 1) : lines[j] = Logged(User(t))
      BY <1>2, <2>1 DEF AnswersFollow
    <2> QED BY <1>2, <2>1, <2>2
  <1> QED BY <1>3, <1>4

\* What the steps do to the log.  Most leave it alone, and none takes a turn
\* back.
LeavesLog ==
    /\ log' = log
    /\ \A t \in Turns : /\ pc'[t] \in Unsent => pc[t] \in Unsent
                        /\ pc'[t] \in Running => pc[t] \in Running

Sends(t) ==
    /\ pc[t] \in Unsent /\ pc' = [pc EXCEPT ![t] = "starting"]
    /\ \/ log' = Append(log, Logged(User(t)))
       \/ /\ pc[t] = "rewinding"
          /\ log' = Append(Append(log, Marker(target[t])), Logged(User(t)))

Answers(t) ==
    /\ pc[t] \in Running /\ pc' = [pc EXCEPT ![t] = "ended"]
    /\ log' = Append(log, Logged(Assistant(t)))

LogStep == LeavesLog \/ \E t \in Turns : Sends(t) \/ Answers(t)

\* Every step is one of these.
LEMMA LogStepHolds == TypeInv /\ BridgeStreams /\ [Next]_vars => LogStep
  <1> SUFFICES ASSUME TypeInv, BridgeStreams, [Next]_vars PROVE LogStep
    OBVIOUS
  <1>1. ASSUME NEW t \in Turns, ChatSend(t) PROVE LogStep
    BY <1>1 DEF ChatSend, Send, Record, LogStep, Sends, Unsent
  <1>2. ASSUME NEW t \in Turns, RewindCut(t) PROVE LogStep
    BY <1>2 DEF RewindCut, Send, Record, LogStep, Sends, Unsent
  <1>3. ASSUME NEW t \in Turns, StartSession(t) PROVE LogStep
    BY <1>3
       DEF StartSession, PcStopped, TypeInv, TurnTypeOK, BridgeStreams,
           LogStep, LeavesLog, Unsent, Running, store
  <1>4. ASSUME NEW t \in Turns, StartFails(t) PROVE LogStep
    BY <1>4
       DEF StartFails, PcStopped, TypeInv, TurnTypeOK, BridgeStreams,
           LogStep, LeavesLog, Unsent, Running, store
  <1>5. ASSUME NEW t \in Turns, Announce(t) PROVE LogStep
    BY <1>5
       DEF Announce, TypeInv, TurnTypeOK, BridgeStreams, LogStep,
           LeavesLog, Unsent, Running, store
  <1>6. ASSUME NEW t \in Turns, Speak(t) PROVE LogStep
    BY <1>6
       DEF Speak, TypeInv, TurnTypeOK, BridgeStreams, LogStep, LeavesLog,
           Unsent, Running, store
  <1>7. ASSUME NEW t \in Turns, RequestApproval(t) PROVE LogStep
    BY <1>7
       DEF RequestApproval, TypeInv, TurnTypeOK, BridgeStreams, LogStep,
           LeavesLog, Unsent, Running, store
  <1>8. ASSUME NEW t \in Turns, Complete(t) PROVE LogStep
    <2>1. CASE spoke[t]
      BY <1>8, <2>1 DEF Complete, Ending, Record, LogStep, Answers, Running
    <2>2. CASE ~spoke[t]
      BY <1>8, <2>2
         DEF Complete, store, TypeInv, TurnTypeOK, LogStep, LeavesLog,
                      Unsent, Running
    <2> QED BY <2>1, <2>2
  <1>9. ASSUME NEW t \in Turns, Fail(t) PROVE LogStep
    BY <1>9
       DEF Fail, Ending, TypeInv, TurnTypeOK, BridgeStreams, LogStep,
           LeavesLog, Unsent, Running, store
  <1>10. ASSUME NEW t \in Turns, NEW u \in Turns, RewindStop(t, User(u))
         PROVE LogStep
    BY <1>10
       DEF RewindStop, PcStopped, TypeInv, TurnTypeOK, BridgeStreams,
           LogStep, LeavesLog, Unsent, Running
  <1>11. ASSUME NEW t \in Turns, NEW u \in Turns, RewindUnknown(t, User(u))
         PROVE LogStep
    BY <1>11
       DEF RewindUnknown, TypeInv, TurnTypeOK, BridgeStreams, LogStep,
           LeavesLog, Unsent, Running, store
  <1>12. ASSUME NEW t \in Turns, NEW answer \in {"yes", "no"},
              RespondToApproval(t, answer) PROVE LogStep
    BY <1>12
       DEF RespondToApproval, TypeInv, TurnTypeOK, BridgeStreams,
           LogStep, LeavesLog, Unsent, Running, store
  <1>13. ASSUME ChatStop PROVE LogStep
    BY <1>13
       DEF ChatStop, PcStopped, TypeInv, TurnTypeOK, BridgeStreams,
           LogStep, LeavesLog, Unsent, Running, store
  <1>14. ASSUME AutoSave PROVE LogStep
    BY <1>14
       DEF AutoSave, TypeInv, TurnTypeOK, BridgeStreams, LogStep,
           LeavesLog, Unsent, Running, store
  <1>15. ASSUME JoinSession PROVE LogStep
    BY <1>15
       DEF JoinSession, TypeInv, TurnTypeOK, BridgeStreams, LogStep,
           LeavesLog, Unsent, Running
  <1>16. ASSUME Restart PROVE LogStep
    BY <1>16
       DEF Restart, TypeInv, TurnTypeOK, BridgeStreams, LogStep,
           LeavesLog, Unsent, Running
  <1>17. CASE UNCHANGED vars
    BY <1>17 DEF vars, LogStep, LeavesLog
  <1> QED BY <1>1, <1>2, <1>3, <1>4, <1>5, <1>6, <1>7, <1>8, <1>9, <1>10,
     <1>11, <1>12, <1>13, <1>14, <1>15, <1>16, <1>17 DEF Next

\* The map.
LEMMA BridgeStep == TypeInv /\ BridgeStreams /\ [Next]_vars => BridgeStreams'
  <1> SUFFICES ASSUME TypeInv, BridgeStreams, [Next]_vars PROVE BridgeStreams'
    OBVIOUS
  <1>1. ASSUME NEW t \in Turns, ChatSend(t) PROVE BridgeStreams'
    BY <1>1, TurnsAssumption DEF ChatSend, TypeInv, TurnTypeOK, BridgeStreams
  <1>2. ASSUME NEW t \in Turns, RewindCut(t) PROVE BridgeStreams'
    BY <1>2, TurnsAssumption DEF RewindCut, TypeInv, TurnTypeOK, BridgeStreams
  <1>3. ASSUME NEW t \in Turns, StartSession(t) PROVE BridgeStreams'
    BY <1>3, TurnsAssumption
       DEF StartSession, PcStopped, TypeInv, TurnTypeOK, BridgeStreams
  <1>4. ASSUME NEW t \in Turns, StartFails(t) PROVE BridgeStreams'
    BY <1>4, TurnsAssumption
       DEF StartFails, PcStopped, TypeInv, TurnTypeOK, BridgeStreams
  <1>5. ASSUME NEW t \in Turns, Announce(t) PROVE BridgeStreams'
    BY <1>5, TurnsAssumption DEF Announce, TypeInv, TurnTypeOK, BridgeStreams
  <1>6. ASSUME NEW t \in Turns, Speak(t) PROVE BridgeStreams'
    BY <1>6, TurnsAssumption DEF Speak, TypeInv, TurnTypeOK, BridgeStreams
  <1>7. ASSUME NEW t \in Turns, RequestApproval(t) PROVE BridgeStreams'
    BY <1>7, TurnsAssumption
       DEF RequestApproval, TypeInv, TurnTypeOK, BridgeStreams
  <1>8. ASSUME NEW t \in Turns, Complete(t) PROVE BridgeStreams'
    BY <1>8, TurnsAssumption
       DEF Complete, Ending, TypeInv, TurnTypeOK, BridgeStreams
  <1>9. ASSUME NEW t \in Turns, Fail(t) PROVE BridgeStreams'
    BY <1>9, TurnsAssumption
       DEF Fail, Ending, TypeInv, TurnTypeOK, BridgeStreams
  <1>10. ASSUME NEW t \in Turns, NEW u \in Turns, RewindStop(t, User(u))
         PROVE BridgeStreams'
    BY <1>10, TurnsAssumption
       DEF RewindStop, PcStopped, TypeInv, TurnTypeOK, BridgeStreams
  <1>11. ASSUME NEW t \in Turns, NEW u \in Turns, RewindUnknown(t, User(u))
         PROVE BridgeStreams'
    BY <1>11, TurnsAssumption
       DEF RewindUnknown, TypeInv, TurnTypeOK, BridgeStreams
  <1>12. ASSUME NEW t \in Turns, NEW answer \in {"yes", "no"},
              RespondToApproval(t, answer) PROVE BridgeStreams'
    BY <1>12, TurnsAssumption
       DEF RespondToApproval, TypeInv, TurnTypeOK, BridgeStreams
  <1>13. ASSUME ChatStop PROVE BridgeStreams'
    BY <1>13, TurnsAssumption
       DEF ChatStop, PcStopped, TypeInv, TurnTypeOK, BridgeStreams
  <1>14. ASSUME AutoSave PROVE BridgeStreams'
    BY <1>14, TurnsAssumption DEF AutoSave, TypeInv, TurnTypeOK, BridgeStreams
  <1>15. ASSUME JoinSession PROVE BridgeStreams'
    BY <1>15, TurnsAssumption
       DEF JoinSession, TypeInv, TurnTypeOK, BridgeStreams
  <1>16. ASSUME Restart PROVE BridgeStreams'
    BY <1>16, TurnsAssumption DEF Restart, TypeInv, TurnTypeOK, BridgeStreams
  <1>17. CASE UNCHANGED vars
    BY <1>17 DEF vars, BridgeStreams
  <1> QED BY <1>1, <1>2, <1>3, <1>4, <1>5, <1>6, <1>7, <1>8, <1>9, <1>10,
     <1>11, <1>12, <1>13, <1>14, <1>15, <1>16, <1>17 DEF Next

\* Each of these steps keeps the log in shape.
LEMMA LogInvStep == TypeInv /\ LogInv /\ LogStep => LogInv'
  <1> SUFFICES ASSUME TypeInv, LogInv, LogStep PROVE LogInv'
    OBVIOUS
  <1>1. log \in Seq(Line) /\ pc \in [Turns -> {"new", "rewinding", "starting",
                                            "streaming", "stopped", "ended"}]
    BY DEF TypeInv, StoreTypeOK, TurnTypeOK
  <1>2. CASE LeavesLog
    <2>1. log' = log BY <1>2 DEF LeavesLog
    <2>2. Once(log)' /\ AnswersFollow(log)'
      BY <2>1 DEF LogInv, Once, AnswersFollow, Logged, User, Assistant
    <2>3. \A x : Fresh(log, x) <=> Fresh(log, x)' BY <2>1 DEF Fresh, Logged
    <2> QED BY <1>2, <2>2, <2>3 DEF LeavesLog, LogInv
  <1>3. ASSUME NEW t \in Turns, Sends(t) PROVE LogInv'
    <2>1. User(t) \in Message BY MessageTypes
    <2>2. PICK lines \in Seq(Line) :
             /\ Once(lines) /\ AnswersFollow(lines)
             /\ \A m : Fresh(lines, m) <=> Fresh(log, m)
             /\ log' = Append(lines, Logged(User(t)))
      <3>1. CASE log' = Append(log, Logged(User(t)))
        BY <1>1, <3>1 DEF LogInv
      <3>2. CASE /\ pc[t] = "rewinding"
                 /\ log' = Append(Append(log, Marker(target[t])), Logged(User(t)))
        <4>1. target[t] \in Message BY <1>3, <3>2 DEF TypeInv, RewindTypeOK
        <4> QED BY <1>1, <3>2, <4>1, MarkerKeeps DEF LogInv
      <3> QED BY <1>3, <3>1, <3>2 DEF Sends
    <2>3. Fresh(lines, User(t)) BY <1>3, <2>2 DEF LogInv, Sends
    <2>4. Once(log)' BY <2>1, <2>2, <2>3, MessageLogged
    <2>5. AnswersFollow(log)'
      <3>1. \A u \in Turns : User(t) # Assistant(u) BY LineKinds
      <3> QED BY <2>1, <2>2, <3>1, AnswersFollowAppend
    <2>6. /\ ~Fresh(log, User(t))'
          /\ \A x : x # User(t) => (Fresh(log, x) <=> Fresh(log, x)')
      <3>1. /\ ~Fresh(log', User(t))
            /\ \A x : x # User(t) => (Fresh(lines, x) <=> Fresh(log', x))
        BY <2>1, <2>2, <2>3, MessageLogged
      <3> QED BY <2>2, <3>1 DEF Fresh, Logged, User
    <2>7. ASSUME NEW u \in Turns
          PROVE  /\ pc'[u] \in Unsent => /\ Fresh(log, User(u))'
                                         /\ Fresh(log, Assistant(u))'
                 /\ pc'[u] \in Running => /\ ~Fresh(log, User(u))'
                                          /\ Fresh(log, Assistant(u))'
      <3>1. Assistant(u) # User(t) BY LineKinds
      <3>2. Fresh(log, Assistant(u)) <=> Fresh(log, Assistant(u))' BY <2>6, <3>1
      <3>3. CASE u = t
        BY <1>1, <1>3, <2>6, <3>2, <3>3 DEF Sends, LogInv, Unsent, Running
      <3>4. CASE u # t
        <4>1. User(u) # User(t) BY <3>4, LineKinds
        <4>2. Fresh(log, User(u)) <=> Fresh(log, User(u))' BY <2>6, <4>1
        <4>3. pc'[u] = pc[u] BY <1>1, <1>3, <3>4 DEF Sends
        <4> QED BY <3>2, <4>2, <4>3 DEF LogInv
      <3> QED BY <3>3, <3>4
    <2> QED BY <2>4, <2>5, <2>7 DEF LogInv
  <1>4. ASSUME NEW t \in Turns, Answers(t) PROVE LogInv'
    <2>1. Assistant(t) \in Message BY MessageTypes
    <2>2. Fresh(log, Assistant(t)) /\ ~Fresh(log, User(t))
      BY <1>4 DEF LogInv, Answers
    <2>3. Once(log)'
      BY <1>1, <1>4, <2>1, <2>2, MessageLogged DEF Answers, LogInv
    <2>4. AnswersFollow(log)'
      <3>1. \A u \in Turns : Assistant(t) = Assistant(u) => u = t BY LineKinds
      <3> QED BY <1>1, <1>4, <2>1, <2>2, <3>1, AnswersFollowAppend
              DEF Answers, LogInv
    <2>5. \A x : x # Assistant(t) => (Fresh(log, x) <=> Fresh(log, x)')
      <3>1. \A x : x # Assistant(t) => (Fresh(log, x) <=> Fresh(log', x))
        BY <1>1, <1>4, <2>1, <2>2, MessageLogged DEF Answers
      <3> QED BY <3>1 DEF Fresh, Logged, Assistant
    <2>6. ASSUME NEW u \in Turns
          PROVE  /\ pc'[u] \in Unsent => /\ Fresh(log, User(u))'
                                         /\ Fresh(log, Assistant(u))'
                 /\ pc'[u] \in Running => /\ ~Fresh(log, User(u))'
                                          /\ Fresh(log, Assistant(u))'
      <3>1. CASE u = t
        BY <1>1, <1>4, <3>1 DEF Answers, Unsent, Running
      <3>2. CASE u # t
        <4>1. Assistant(u) # Assistant(t) /\ User(u) # Assistant(t)
          BY <3>2, LineKinds
        <4>2. /\ Fresh(log, Assistant(u)) <=> Fresh(log, Assistant(u))'
              /\ Fresh(log, User(u)) <=> Fresh(log, User(u))'
          BY <2>5, <4>1
        <4>3. pc'[u] = pc[u] BY <1>1, <1>4, <3>2 DEF Answers
        <4> QED BY <4>2, <4>3 DEF LogInv
      <3> QED BY <3>1, <3>2
    <2> QED BY <2>3, <2>4, <2>6 DEF LogInv
  <1> QED BY <1>2, <1>3, <1>4 DEF LogStep

\* The log is empty and no turn has been sent.
LEMMA LogInvInit == Init => LogInv /\ BridgeStreams
  <1> SUFFICES ASSUME Init PROVE LogInv /\ BridgeStreams
    OBVIOUS
  <1>1. DOMAIN <<>> = {} OBVIOUS
  <1>2. log = <<>> /\ bridge = None /\ pc = [t \in Turns |-> "new"] BY DEF Init
  <1> QED BY <1>1, <1>2, TurnsAssumption
          DEF LogInv, BridgeStreams, Once, AnswersFollow, Fresh, Unsent, Running

\* A log in this shape holds one answer a turn, behind its question.
LEMMA LogInvImplies == TypeInv /\ LogInv => AnswerOnce
  <1> SUFFICES ASSUME TypeInv, LogInv PROVE AnswerOnce
    OBVIOUS
  <1>1. \A t \in Turns : Assistant(t) \in Message BY MessageTypes
  <1> QED BY <1>1 DEF LogInv, AnswerOnce, Once, AnswersFollow

\* The invariant the other theorems rest on.
LEMMA Safe == Spec => [](TypeInv /\ BridgeStreams /\ LogInv)
  <1>1. TypeInv /\ [Next]_vars => TypeInv'
    BY TurnTypeStep, AskTypeStep, RewindTypeStep, StoreTypeStep DEF TypeInv
  <1> QED BY <1>1, InitTypeInv, LogInvInit, LogStepHolds, BridgeStep, LogInvStep,
             PTL DEF Spec

\* However a turn is stopped, superseded, failed or rewound, it logs one answer
\* at most, and behind the message it answers.
THEOREM AnswersOnce == Spec => []AnswerOnce
  BY Safe, LogInvImplies, PTL

-----------------------------------------------------------------------------
(* What is shown is in the log, in its order                               *)

ShownIn(messages, lines) ==
    /\ \A i \in DOMAIN messages : ~Fresh(lines, messages[i])
    /\ \A i, j \in DOMAIN messages : i < j =>
          \A p, q \in DOMAIN lines :
             lines[p] = Logged(messages[i]) /\ lines[q] = Logged(messages[j])
                => p < q

\* A restart takes the cache from the file, a rewind may take it from a
\* replay: all three are in the order of the log.
OrderInv ==
    /\ ShownIn(history, log)
    /\ ShownIn(disk.history, log)
    /\ ShownIn(Replay(log), log)

\* An empty cache shows nothing wrong.
LEMMA ShownEmpty ==
    ASSUME NEW lines
    PROVE  ShownIn(<<>>, lines)
  <1>1. DOMAIN <<>> = {} OBVIOUS
  <1> QED BY <1>1 DEF ShownIn

\* More lines, as long as no message is logged again.
LEMMA ShownStays ==
    ASSUME NEW messages \in Seq(Message), NEW lines \in Seq(Line),
           NEW line \in Line,
           ShownIn(messages, lines),
           \A m : line = Logged(m) => Fresh(lines, m)
    PROVE  ShownIn(messages, Append(lines, line))
  <1> DEFINE more == Append(lines, line)
             n == Len(lines)
  <1>1. /\ n \in Nat /\ DOMAIN lines = 1..n /\ DOMAIN more = 1..(n + 1)
        /\ \A k \in 1..n : more[k] = lines[k]
        /\ more[n + 1] = line
    BY AppendLine
  <1> HIDE DEF more, n
  <1>2. \A i \in DOMAIN messages : ~Fresh(more, messages[i])
    <2> TAKE i \in DOMAIN messages
    <2>1. PICK p \in 1..n : lines[p] = Logged(messages[i])
      BY <1>1 DEF ShownIn, Fresh
    <2>2. p \in 1..(n + 1) /\ more[p] = Logged(messages[i]) BY <1>1, <2>1
    <2> QED BY <1>1, <2>2 DEF Fresh
  <1>3. \A i \in DOMAIN messages : \A p \in 1..(n + 1) :
             more[p] = Logged(messages[i]) =>
                 p \in 1..n /\ lines[p] = Logged(messages[i])
    <2> TAKE i \in DOMAIN messages
    <2>1. line # Logged(messages[i]) BY DEF ShownIn
    <2> QED BY <1>1, <2>1
  <1> QED BY <1>1, <1>2, <1>3 DEF ShownIn, more

\* A message shown and logged at the same time.
LEMMA ShownGrows ==
    ASSUME NEW messages \in Seq(Message), NEW lines \in Seq(Line),
           NEW m \in Message,
           ShownIn(messages, lines), Fresh(lines, m)
    PROVE  ShownIn(Append(messages, m), Append(lines, Logged(m)))
  <1> DEFINE shown == Append(messages, m)
             more == Append(lines, Logged(m))
             k == Len(messages)
             n == Len(lines)
  <1>1. Logged(m) \in Line BY DEF Logged, Line
  <1>2. /\ n \in Nat /\ DOMAIN more = 1..(n + 1) /\ DOMAIN lines = 1..n
        /\ \A p \in 1..n : more[p] = lines[p]
        /\ more[n + 1] = Logged(m)
    BY <1>1, AppendLine
  <1>3. /\ k \in Nat /\ DOMAIN shown = 1..(k + 1) /\ DOMAIN messages = 1..k
        /\ \A i \in 1..k : shown[i] = messages[i]
        /\ shown[k + 1] = m
    BY AppendProperties
  <1>4. ShownIn(messages, more)
    <2>1. \A x : Logged(m) = Logged(x) => Fresh(lines, x) BY LineKinds
    <2> QED BY <1>1, <2>1, ShownStays
  <1> HIDE DEF shown, more, k, n
  <1>5. \A p \in 1..(n + 1) : more[p] = Logged(m) => p = n + 1
    BY <1>2 DEF Fresh
  <1>6. \A i \in 1..k : messages[i] # m
    BY <1>3 DEF ShownIn, Fresh
  <1>7. ASSUME NEW i \in 1..(k + 1) PROVE ~Fresh(more, shown[i])
    <2>1. CASE i = k + 1
      <3>1. n + 1 \in 1..(n + 1) BY <1>2
      <3> QED BY <1>2, <1>3, <2>1, <3>1 DEF Fresh
    <2>2. CASE i # k + 1
      <3>1. i \in 1..k BY <1>3, <2>2
      <3> QED BY <1>3, <1>4, <3>1 DEF ShownIn
    <2> QED BY <2>1, <2>2
  <1>8. ASSUME NEW i \in 1..(k + 1), NEW j \in 1..(k + 1), i < j,
               NEW p \in 1..(n + 1), NEW q \in 1..(n + 1),
               more[p] = Logged(shown[i]), more[q] = Logged(shown[j])
        PROVE  p < q
    <2>1. i \in 1..k BY <1>3, <1>8
    <2>2. CASE j = k + 1
      <3>1. q = n + 1 BY <1>3, <1>5, <1>8, <2>2
      <3>2. p # n + 1 BY <1>2, <1>3, <1>6, <1>8, <2>1, LineKinds
      <3> QED BY <1>2, <3>1, <3>2
    <2>3. CASE j # k + 1
      <3>1. j \in 1..k BY <1>3, <2>3
      <3> QED BY <1>2, <1>3, <1>4, <1>8, <2>1, <3>1 DEF ShownIn
    <2> QED BY <2>2, <2>3
  <1> QED BY <1>2, <1>3, <1>7, <1>8 DEF ShownIn, shown, more

\* A cut shows a prefix of what was shown.
LEMMA ShownCut ==
    ASSUME NEW messages \in Seq(Message), NEW i \in Nat, NEW lines,
           ShownIn(messages, lines)
    PROVE  ShownIn(KeepBefore(messages, i), lines)
  <1> DEFINE kept == KeepBefore(messages, i)
  <1>1. /\ DOMAIN kept \subseteq DOMAIN messages
        /\ \A k \in DOMAIN kept : kept[k] = messages[k]
    <2>1. /\ kept \in Seq(Message) /\ Len(kept) <= Len(messages)
          /\ \A k \in 1..Len(kept) : kept[k] = messages[k]
      BY KeepBeforeProperties
    <2> HIDE DEF kept
    <2> QED BY <2>1
  <1> HIDE DEF kept
  <1>2. \A k \in DOMAIN kept : ~Fresh(lines, kept[k])
    BY <1>1 DEF ShownIn
  <1> QED BY <1>1, <1>2 DEF ShownIn, kept

\* A marker cuts the replay, or does nothing.
LEMMA ShownMarker ==
    ASSUME NEW messages \in Seq(Message), NEW x \in Message, NEW lines,
           ShownIn(messages, lines)
    PROVE  ShownIn(ApplyLine(messages, Marker(x)), lines)
  <1>1. IndexOf(messages, x) \in Nat BY IndexOfFirst
  <1>2. Marker(x).kind # "message" /\ Marker(x).of = x BY DEF Marker
  <1> QED BY <1>1, <1>2, ShownCut DEF ApplyLine

\* What the steps do to cache and file.
Kept ==
    /\ log' = log
    /\ history' \in {history, Replay(log), disk.history}

Recorded(m) == Fresh(log, m) /\ Record(history, log, m)

Cut(t) ==
    /\ Fresh(log, User(t)) /\ target[t] \in Message /\ cut[t] \in Nat
    /\ Record(KeepBefore(history, cut[t]), Append(log, Marker(target[t])),
              User(t))

StoreStep ==
    /\ disk'.history \in {disk.history, history, history'}
    /\ Kept \/ (\E m \in Message : Recorded(m)) \/ (\E t \in Turns : Cut(t))

\* Every step is one of these.
LEMMA StoreStepHolds == TypeInv /\ LogInv /\ [Next]_vars => StoreStep
  <1> SUFFICES ASSUME TypeInv, LogInv, [Next]_vars PROVE StoreStep
    OBVIOUS
  <1>1. ASSUME NEW t \in Turns, ChatSend(t) PROVE StoreStep
    <2>1. User(t) \in Message BY MessageTypes
    <2>2. Recorded(User(t))
      BY <1>1 DEF ChatSend, Send, LogInv, Unsent, Recorded
    <2> QED BY <1>1, <2>1, <2>2 DEF ChatSend, StoreStep
  <1>2. ASSUME NEW t \in Turns, RewindCut(t) PROVE StoreStep
    <2>1. Cut(t)
      BY <1>2 DEF RewindCut, Send, LogInv, Unsent, Cut, TypeInv, RewindTypeOK
    <2>2. disk'.history \in {disk.history, history} BY <1>2 DEF RewindCut, Saved
    <2> QED BY <2>1, <2>2 DEF StoreStep
  <1>3. ASSUME NEW t \in Turns, StartSession(t) PROVE StoreStep
    BY <1>3 DEF StartSession, store, StoreStep, Kept
  <1>4. ASSUME NEW t \in Turns, StartFails(t) PROVE StoreStep
    BY <1>4 DEF StartFails, store, StoreStep, Kept
  <1>5. ASSUME NEW t \in Turns, Announce(t) PROVE StoreStep
    BY <1>5 DEF Announce, store, StoreStep, Kept
  <1>6. ASSUME NEW t \in Turns, Speak(t) PROVE StoreStep
    BY <1>6 DEF Speak, store, StoreStep, Kept
  <1>7. ASSUME NEW t \in Turns, RequestApproval(t) PROVE StoreStep
    BY <1>7 DEF RequestApproval, store, StoreStep, Kept
  <1>8. ASSUME NEW t \in Turns, Complete(t) PROVE StoreStep
    <2>1. disk'.history \in {disk.history, history'} BY <1>8 DEF Complete
    <2>2. CASE spoke[t]
      <3>1. Assistant(t) \in Message BY MessageTypes
      <3>2. Recorded(Assistant(t))
        BY <1>8, <2>2 DEF Complete, Ending, LogInv, Running, Recorded
      <3> QED BY <2>1, <3>1, <3>2 DEF StoreStep
    <2>3. CASE ~spoke[t]
      BY <1>8, <2>1, <2>3 DEF Complete, store, StoreStep, Kept
    <2> QED BY <2>2, <2>3
  <1>9. ASSUME NEW t \in Turns, Fail(t) PROVE StoreStep
    BY <1>9 DEF Fail, store, StoreStep, Kept
  <1>10. ASSUME NEW t \in Turns, NEW u \in Turns, RewindStop(t, User(u))
         PROVE StoreStep
    <2>1. history' \in {history, Replay(log)}
      <3>1. RewindSource(User(u)) # <<>>
        <4>1. IndexOf(RewindSource(User(u)), User(u)) > 0 BY <1>10
           DEF RewindStop
        <4> QED BY <4>1, IndexOfNone
      <3> QED BY <1>10, <3>1 DEF RewindStop, RewindSource
    <2> QED BY <1>10, <2>1 DEF RewindStop, StoreStep, Kept
  <1>11. ASSUME NEW t \in Turns, NEW u \in Turns, RewindUnknown(t, User(u))
         PROVE StoreStep
    BY <1>11 DEF RewindUnknown, store, StoreStep, Kept
  <1>12. ASSUME NEW t \in Turns, NEW answer \in {"yes", "no"},
              RespondToApproval(t, answer) PROVE StoreStep
    BY <1>12 DEF RespondToApproval, store, StoreStep, Kept
  <1>13. ASSUME ChatStop PROVE StoreStep
    BY <1>13 DEF ChatStop, store, StoreStep, Kept
  <1>14. ASSUME AutoSave PROVE StoreStep
    BY <1>14 DEF AutoSave, Saved, store, StoreStep, Kept
  <1>15. ASSUME JoinSession PROVE StoreStep
    BY <1>15 DEF JoinSession, StoreStep, Kept
  <1>16. ASSUME Restart PROVE StoreStep
    BY <1>16 DEF Restart, StoreStep, Kept
  <1>17. CASE UNCHANGED vars
    BY <1>17 DEF vars, StoreStep, Kept
  <1> QED BY <1>1, <1>2, <1>3, <1>4, <1>5, <1>6, <1>7, <1>8, <1>9, <1>10,
     <1>11, <1>12, <1>13, <1>14, <1>15, <1>16, <1>17 DEF Next

\* The replay of a log that has grown.
LEMMA ReplayRecorded ==
    ASSUME NEW lines \in Seq(Line), NEW m \in Message
    PROVE  Replay(Append(lines, Logged(m))) = Append(Replay(lines), m)
  <1>1. Logged(m) \in Line BY DEF Logged, Line
  <1>2. Logged(m).kind = "message" /\ Logged(m).of = m BY DEF Logged
  <1> QED BY <1>1, <1>2, ReplayAppend DEF ApplyLine

\* Each of these steps keeps cache, file and replay in the order of the log.
LEMMA OrderInvStep == TypeInv /\ LogInv /\ OrderInv /\ StoreStep => OrderInv'
  <1> SUFFICES ASSUME TypeInv, LogInv, OrderInv, StoreStep PROVE OrderInv'
    OBVIOUS
  <1> DEFINE InOrder(lines) == /\ ShownIn(history', lines)
                               /\ ShownIn(history, lines)
                               /\ ShownIn(disk.history, lines)
                               /\ ShownIn(Replay(log'), lines)
  <1>1. /\ log \in Seq(Line) /\ history \in Seq(Message)
        /\ disk.history \in Seq(Message) /\ Replay(log) \in Seq(Message)
    BY ReplayType DEF TypeInv, StoreTypeOK
  <1>2. ASSUME Kept PROVE InOrder(log')
    <2>1. log' = log /\ history' \in {history, Replay(log), disk.history}
      BY <1>2 DEF Kept
    <2>2. ShownIn(history', log) BY <2>1 DEF OrderInv
    <2> QED BY <2>1, <2>2 DEF OrderInv
  <1>3. ASSUME NEW m \in Message, Recorded(m) PROVE InOrder(log')
    <2>1. Fresh(log, m) /\ history' = Append(history, m)
          /\ log' = Append(log, Logged(m))
      BY <1>3 DEF Recorded, Record
    <2>2. Replay(log') = Append(Replay(log), m) BY <1>1, <2>1, ReplayRecorded
    <2>3. Logged(m) \in Line /\ \A x : Logged(m) = Logged(x) => Fresh(log, x)
      BY <2>1, LineKinds DEF Logged, Line
    <2>4. ShownIn(history, log') /\ ShownIn(disk.history, log')
      BY <1>1, <2>1, <2>3, ShownStays DEF OrderInv
    <2>5. ShownIn(history', log') BY <1>1, <2>1, ShownGrows DEF OrderInv
    <2>6. ShownIn(Replay(log'), log')
      BY <1>1, <2>1, <2>2, ShownGrows DEF OrderInv
    <2> QED BY <2>4, <2>5, <2>6
  <1>4. ASSUME NEW t \in Turns, Cut(t) PROVE InOrder(log')
    <2> DEFINE m == User(t)
               lines == Append(log, Marker(target[t]))
               kept == KeepBefore(history, cut[t])
               replayed == ApplyLine(Replay(log), Marker(target[t]))
    <2>1. /\ Fresh(log, m) /\ history' = Append(kept, m)
          /\ log' = Append(lines, Logged(m)) /\ target[t] \in Message
          /\ cut[t] \in Nat /\ m \in Message
      BY <1>4, MessageTypes DEF Cut, Record
    <2>2. /\ lines \in Seq(Line) /\ Fresh(lines, m)
          /\ Marker(target[t]) \in Line
          /\ \A x : Marker(target[t]) = Logged(x) => Fresh(log, x)
      BY <1>1, <2>1, MarkerKeeps, MarkerAppendType, LineKinds
    <2>3. kept \in Seq(Message) /\ ShownIn(kept, log)
      BY <1>1, <2>1, KeepBeforeProperties, ShownCut DEF OrderInv
    <2>4. replayed \in Seq(Message) /\ ShownIn(replayed, log)
      BY <1>1, <2>1, <2>2, ApplyLineType, ShownMarker DEF OrderInv
    <2>5. Replay(log') = Append(replayed, m)
      <3>1. Replay(lines) = replayed BY <1>1, <2>2, ReplayAppend
      <3> QED BY <2>1, <2>2, <3>1, ReplayRecorded
    <2> HIDE DEF m, kept, replayed
    <2>6. /\ ShownIn(history, lines) /\ ShownIn(disk.history, lines)
          /\ ShownIn(kept, lines) /\ ShownIn(replayed, lines)
      BY <1>1, <2>2, <2>3, <2>4, ShownStays DEF OrderInv
    <2>7. Logged(m) \in Line /\ \A x : Logged(m) = Logged(x) => Fresh(lines, x)
      BY <2>1, <2>2, LineKinds DEF Logged, Line
    <2> HIDE DEF lines
    <2>8. ShownIn(history, log') /\ ShownIn(disk.history, log')
      BY <1>1, <2>1, <2>2, <2>6, <2>7, ShownStays
    <2>9. ShownIn(history', log')
      BY <2>1, <2>2, <2>3, <2>6, ShownGrows
    <2>10. ShownIn(Replay(log'), log')
      BY <2>1, <2>2, <2>4, <2>5, <2>6, ShownGrows
    <2> QED BY <2>8, <2>9, <2>10
  <1>5. ASSUME InOrder(log') PROVE OrderInv'
    <2>1. ShownIn(disk'.history, log')
      BY <1>5 DEF StoreStep
    <2> QED BY <1>5, <2>1 DEF OrderInv
  <1> HIDE DEF InOrder
  <1> QED BY <1>2, <1>3, <1>4, <1>5 DEF StoreStep

\* Nothing is shown yet.
LEMMA OrderInvInit == Init => OrderInv
  <1> SUFFICES ASSUME Init PROVE OrderInv
    OBVIOUS
  <1>1. history = <<>> /\ log = <<>> /\ disk.history = <<>> BY DEF Init
  <1> QED BY <1>1, ReplayEmpty, ShownEmpty DEF OrderInv

\* As no message is logged twice, each has one position.
LEMMA OrderInvImplies == TypeInv /\ LogInv /\ OrderInv => HistoryInLogOrder
  <1> SUFFICES ASSUME TypeInv, LogInv, OrderInv PROVE HistoryInLogOrder
    OBVIOUS
  <1> DEFINE at(i) == CHOOSE j \in DOMAIN log : log[j] = Logged(history[i])
  <1>1. \A i \in DOMAIN history :
             \E j \in DOMAIN log : log[j] = Logged(history[i])
    BY DEF OrderInv, ShownIn, Fresh
  <1>2. \A i \in DOMAIN history :
             at(i) \in DOMAIN log /\ log[at(i)] = Logged(history[i])
    BY <1>1
  <1> HIDE DEF at
  <1>3. \A i, j \in DOMAIN history : i < j => at(i) < at(j)
    BY <1>2 DEF OrderInv, ShownIn
  <1> QED BY <1>1, <1>3 DEF HistoryInLogOrder, at

\* Whatever the cache has been rebuilt from, everything shown has been logged,
\* in the order of the log; also when rewinds overlap.
THEOREM ShownInLogOrder == Spec => []HistoryInLogOrder
  <1>1. TypeInv /\ LogInv /\ OrderInv /\ [Next]_vars => OrderInv'
    BY StoreStepHolds, OrderInvStep
  <1> QED BY <1>1, OrderInvInit, OrderInvImplies, Safe, PTL DEF Spec

-----------------------------------------------------------------------------
(* The cache is a replay of the log                                        *)

\* The index a rewind found before its save is still the one it must cut at:
\* what is appended meanwhile moves no first position, and no other rewind
\* cuts.
CacheInv ==
    crashes = 0 =>
        /\ history = Replay(log)
        /\ \A t \in Turns : pc[t] = "rewinding" =>
              cut[t] > 0 /\ cut[t] = IndexOf(history, target[t])

OneRewind ==
    \A t, u \in Turns : pc[t] = "rewinding" /\ pc[u] = "rewinding" => t = u

\* One rewind at a time.
LEMMA OneRewindStep ==
    ASSUME ~OverlapRewinds
    PROVE  TypeInv /\ OneRewind /\ [Next]_vars => OneRewind'
  <1> SUFFICES ASSUME TypeInv, OneRewind, [Next]_vars PROVE OneRewind'
    OBVIOUS
  <1>1. ASSUME NEW t \in Turns, ChatSend(t) PROVE OneRewind'
    BY <1>1 DEF ChatSend, TypeInv, TurnTypeOK, OneRewind
  <1>2. ASSUME NEW t \in Turns, RewindCut(t) PROVE OneRewind'
    BY <1>2 DEF RewindCut, TypeInv, TurnTypeOK, OneRewind
  <1>3. ASSUME NEW t \in Turns, StartSession(t) PROVE OneRewind'
    BY <1>3 DEF StartSession, PcStopped, TypeInv, TurnTypeOK, OneRewind
  <1>4. ASSUME NEW t \in Turns, StartFails(t) PROVE OneRewind'
    BY <1>4 DEF StartFails, PcStopped, TypeInv, TurnTypeOK, OneRewind
  <1>5. ASSUME NEW t \in Turns, Announce(t) PROVE OneRewind'
    BY <1>5 DEF Announce, TypeInv, TurnTypeOK, OneRewind
  <1>6. ASSUME NEW t \in Turns, Speak(t) PROVE OneRewind'
    BY <1>6 DEF Speak, TypeInv, TurnTypeOK, OneRewind
  <1>7. ASSUME NEW t \in Turns, RequestApproval(t) PROVE OneRewind'
    BY <1>7 DEF RequestApproval, TypeInv, TurnTypeOK, OneRewind
  <1>8. ASSUME NEW t \in Turns, Complete(t) PROVE OneRewind'
    BY <1>8 DEF Complete, TypeInv, TurnTypeOK, OneRewind
  <1>9. ASSUME NEW t \in Turns, Fail(t) PROVE OneRewind'
    BY <1>9 DEF Fail, TypeInv, TurnTypeOK, OneRewind
  <1>10. ASSUME NEW t \in Turns, NEW u \in Turns, RewindStop(t, User(u))
         PROVE OneRewind'
    <2>1. \A v \in Turns : pc[v] # "rewinding"
      BY <1>10 DEF RewindStop
    <2>2. \A v \in Turns : pc'[v] = "rewinding" => v = t
      BY <1>10, <2>1 DEF RewindStop, PcStopped, TypeInv, TurnTypeOK
    <2> QED BY <2>2 DEF OneRewind
  <1>11. ASSUME NEW t \in Turns, NEW u \in Turns, RewindUnknown(t, User(u))
         PROVE OneRewind'
    BY <1>11 DEF RewindUnknown, TypeInv, TurnTypeOK, OneRewind
  <1>12. ASSUME NEW t \in Turns, NEW answer \in {"yes", "no"},
              RespondToApproval(t, answer) PROVE OneRewind'
    BY <1>12 DEF RespondToApproval, TypeInv, TurnTypeOK, OneRewind
  <1>13. ASSUME ChatStop PROVE OneRewind'
    BY <1>13 DEF ChatStop, PcStopped, TypeInv, TurnTypeOK, OneRewind
  <1>14. ASSUME AutoSave PROVE OneRewind'
    BY <1>14 DEF AutoSave, TypeInv, TurnTypeOK, OneRewind
  <1>15. ASSUME JoinSession PROVE OneRewind'
    BY <1>15 DEF JoinSession, TypeInv, TurnTypeOK, OneRewind
  <1>16. ASSUME Restart PROVE OneRewind'
    BY <1>16 DEF Restart, TypeInv, TurnTypeOK, OneRewind
  <1>17. CASE UNCHANGED vars
    BY <1>17 DEF vars, OneRewind
  <1> QED BY <1>1, <1>2, <1>3, <1>4, <1>5, <1>6, <1>7, <1>8, <1>9, <1>10,
     <1>11, <1>12, <1>13, <1>14, <1>15, <1>16, <1>17 DEF Next

\* A message shown and logged, with the rewinds left as they were.
LEMMA CacheRecorded ==
    ASSUME TypeInv, CacheInv, NEW m \in Message, Record(history, log, m),
           crashes' = crashes, target' = target, cut' = cut,
           \A t \in Turns : pc'[t] = "rewinding" => pc[t] = "rewinding"
    PROVE  CacheInv'
  <1> SUFFICES ASSUME crashes = 0 PROVE CacheInv'
    BY DEF CacheInv
  <1>1. /\ history = Replay(log) /\ history \in Seq(Message)
        /\ log \in Seq(Line)
        /\ history' = Append(history, m) /\ log' = Append(log, Logged(m))
    BY DEF CacheInv, TypeInv, StoreTypeOK, Record
  <1>2. history' = Replay(log') BY <1>1, ReplayRecorded
  <1>3. ASSUME NEW t \in Turns, pc'[t] = "rewinding"
        PROVE  cut[t] > 0 /\ cut[t] = IndexOf(history', target[t])
    <2>1. cut[t] > 0 /\ cut[t] = IndexOf(history, target[t])
      BY <1>3 DEF CacheInv
    <2>2. IndexOf(history', target[t]) = IndexOf(history, target[t])
      BY <1>1, <2>1, IndexOfAppend
    <2> QED BY <2>1, <2>2
  <1> QED BY <1>2, <1>3 DEF CacheInv

\* A step that leaves cache and log alone.
LEMMA CacheLeft ==
    ASSUME CacheInv, history' = history, log' = log,
           crashes' = crashes, target' = target, cut' = cut,
           \A t \in Turns : pc'[t] = "rewinding" => pc[t] = "rewinding"
    PROVE  CacheInv'
  <1> SUFFICES ASSUME crashes = 0 PROVE CacheInv'
    BY DEF CacheInv
  <1>1. history' = Replay(log') BY DEF CacheInv
  <1>2. ASSUME NEW t \in Turns, pc'[t] = "rewinding"
        PROVE  cut'[t] > 0 /\ cut'[t] = IndexOf(history', target'[t])
    BY <1>2 DEF CacheInv
  <1> QED BY <1>1, <1>2 DEF CacheInv

\* The cut of the cache is the cut of the replay that the marker makes.
LEMMA CacheCut ==
    ASSUME TypeInv, CacheInv, OneRewind, NEW t \in Turns, RewindCut(t)
    PROVE  CacheInv'
  <1> SUFFICES ASSUME crashes = 0 PROVE CacheInv'
    BY DEF RewindCut, CacheInv
  <1> DEFINE m == target[t]
             lines == Append(log, Marker(m))
             kept == KeepBefore(history, cut[t])
  <1>1. /\ pc[t] = "rewinding" /\ m \in Message /\ log \in Seq(Line)
        /\ history \in Seq(Message) /\ history = Replay(log)
        /\ cut[t] > 0 /\ cut[t] = IndexOf(history, m)
    BY DEF RewindCut, TypeInv, RewindTypeOK, StoreTypeOK, CacheInv
  <1>2. /\ history' = Append(kept, User(t)) /\ log' = Append(lines, Logged(User(t)))
    BY DEF RewindCut, Send, Record
  <1>3. lines \in Seq(Line) /\ Marker(m) \in Line BY <1>1, MarkerAppendType
  <1>4. Marker(m).kind # "message" /\ Marker(m).of = m BY DEF Marker
  <1>5. Replay(lines) = kept
    <2>1. Replay(lines) = ApplyLine(Replay(log), Marker(m))
      BY <1>1, <1>3, ReplayAppend
    <2>2. cut[t] # 0 BY <1>1
    <2> HIDE DEF m
    <2> QED BY <1>1, <1>4, <2>1, <2>2 DEF ApplyLine
  <1>6. User(t) \in Message BY MessageTypes
  <1> HIDE DEF m, lines, kept
  <1>7. history' = Replay(log') BY <1>2, <1>3, <1>5, <1>6, ReplayRecorded
  <1>8. \A u \in Turns : pc'[u] # "rewinding"
    BY <1>1 DEF RewindCut, OneRewind, TypeInv, TurnTypeOK
  <1> QED BY <1>7, <1>8 DEF CacheInv

\* The source of a rewind is the cache, or a replay that equals it.
LEMMA CacheStop ==
    ASSUME TypeInv, CacheInv, NEW t \in Turns, NEW m, RewindStop(t, m),
           \A u \in Turns : pc[u] # "rewinding"
    PROVE  CacheInv'
  <1> SUFFICES ASSUME crashes = 0 PROVE CacheInv'
    BY DEF RewindStop, CacheInv
  <1>1. history = Replay(log) BY DEF CacheInv
  <1>2. IndexOf(RewindSource(m), m) > 0 /\ history' = RewindSource(m)
    BY DEF RewindStop
  <1>3. RewindSource(m) # <<>> BY <1>2, IndexOfNone
  <1>4. history' = history BY <1>1, <1>2, <1>3 DEF RewindSource
  <1>5. log' = log /\ target'[t] = m /\ cut'[t] = IndexOf(history', m)
    BY <1>2 DEF RewindStop, TypeInv, RewindTypeOK
  <1>6. \A u \in Turns : pc'[u] = "rewinding" => u = t
    BY DEF RewindStop, PcStopped, TypeInv, TurnTypeOK
  <1>7. history' = Replay(log') BY <1>1, <1>4, <1>5
  <1>8. cut'[t] > 0 BY <1>2, <1>5
  <1> QED BY <1>5, <1>6, <1>7, <1>8 DEF CacheInv

\* Each step keeps the cache a replay.
LEMMA CacheInvStep ==
    ASSUME ~OverlapRewinds
    PROVE  TypeInv /\ CacheInv /\ OneRewind /\ [Next]_vars => CacheInv'
  <1> SUFFICES ASSUME TypeInv, CacheInv, OneRewind, [Next]_vars PROVE CacheInv'
    OBVIOUS
  <1>1. ASSUME NEW t \in Turns, ChatSend(t) PROVE CacheInv'
    <2>1. User(t) \in Message /\ Record(history, log, User(t))
      BY <1>1, MessageTypes DEF ChatSend, Send
    <2>2. \A u \in Turns : pc'[u] = "rewinding" => pc[u] = "rewinding"
      BY <1>1 DEF ChatSend, TypeInv, TurnTypeOK
    <2> QED BY <1>1, <2>1, <2>2, CacheRecorded DEF ChatSend, rewinding
  <1>2. ASSUME NEW t \in Turns, RewindCut(t) PROVE CacheInv'
    BY <1>2, CacheCut
  <1>3. ASSUME NEW t \in Turns, StartSession(t) PROVE CacheInv'
    BY <1>3, CacheLeft
       DEF StartSession, PcStopped, TypeInv, TurnTypeOK, store, rewinding
  <1>4. ASSUME NEW t \in Turns, StartFails(t) PROVE CacheInv'
    BY <1>4, CacheLeft
       DEF StartFails, PcStopped, TypeInv, TurnTypeOK, store, rewinding
  <1>5. ASSUME NEW t \in Turns, Announce(t) PROVE CacheInv'
    BY <1>5, CacheLeft DEF Announce, TypeInv, TurnTypeOK, store, rewinding
  <1>6. ASSUME NEW t \in Turns, Speak(t) PROVE CacheInv'
    BY <1>6, CacheLeft DEF Speak, TypeInv, TurnTypeOK, store, rewinding
  <1>7. ASSUME NEW t \in Turns, RequestApproval(t) PROVE CacheInv'
    BY <1>7, CacheLeft
       DEF RequestApproval, TypeInv, TurnTypeOK, store, rewinding
  <1>8. ASSUME NEW t \in Turns, Complete(t) PROVE CacheInv'
    <2>1. \A u \in Turns : pc'[u] = "rewinding" => pc[u] = "rewinding"
      BY <1>8 DEF Complete, TypeInv, TurnTypeOK
    <2>2. CASE spoke[t]
      <3>1. Assistant(t) \in Message /\ Record(history, log, Assistant(t))
        BY <1>8, <2>2, MessageTypes DEF Complete
      <3> QED BY <1>8, <2>1, <3>1, CacheRecorded DEF Complete, rewinding
    <2>3. CASE ~spoke[t]
      BY <1>8, <2>1, <2>3, CacheLeft DEF Complete, rewinding, store
    <2> QED BY <2>2, <2>3
  <1>9. ASSUME NEW t \in Turns, Fail(t) PROVE CacheInv'
    BY <1>9, CacheLeft DEF Fail, TypeInv, TurnTypeOK, store, rewinding
  <1>10. ASSUME NEW t \in Turns, NEW u \in Turns, RewindStop(t, User(u))
         PROVE CacheInv'
    BY <1>10, CacheStop DEF RewindStop
  <1>11. ASSUME NEW t \in Turns, NEW u \in Turns, RewindUnknown(t, User(u))
         PROVE CacheInv'
    BY <1>11, CacheLeft DEF RewindUnknown, TypeInv, TurnTypeOK, store, rewinding
  <1>12. ASSUME NEW t \in Turns, NEW answer \in {"yes", "no"},
              RespondToApproval(t, answer) PROVE CacheInv'
    BY <1>12, CacheLeft
       DEF RespondToApproval, TypeInv, TurnTypeOK, store, rewinding
  <1>13. ASSUME ChatStop PROVE CacheInv'
    BY <1>13, CacheLeft
       DEF ChatStop, PcStopped, TypeInv, TurnTypeOK, store, rewinding
  <1>14. ASSUME AutoSave PROVE CacheInv'
    BY <1>14, CacheLeft DEF AutoSave, TypeInv, TurnTypeOK, store, rewinding
  <1>15. ASSUME JoinSession PROVE CacheInv'
    <2>1. crashes = 0 => history' = history
      BY <1>15 DEF JoinSession, CacheInv
    <2>2. CASE crashes = 0
      BY <1>15, <2>1, <2>2, CacheLeft DEF JoinSession, rewinding
    <2>3. CASE crashes # 0
      BY <1>15, <2>3 DEF JoinSession, CacheInv
    <2> QED BY <2>2, <2>3
  <1>16. ASSUME Restart PROVE CacheInv'
    <2>1. crashes' # 0
      BY <1>16 DEF Restart, TypeInv, RewindTypeOK
    <2> QED BY <2>1 DEF CacheInv
  <1>17. CASE UNCHANGED vars
    BY <1>17, CacheLeft DEF vars
  <1> QED BY <1>1, <1>2, <1>3, <1>4, <1>5, <1>6, <1>7, <1>8, <1>9, <1>10,
     <1>11, <1>12, <1>13, <1>14, <1>15, <1>16, <1>17 DEF Next

\* An empty cache replays an empty log.
LEMMA CacheInvInit == Init => CacheInv /\ OneRewind
  BY ReplayEmpty DEF Init, CacheInv, OneRewind

\* While the process lives and rewinds come one at a time, a client is shown
\* what a reader of the log would rebuild.  ChatRewindsOverlap shows that the
\* assumption is needed.
THEOREM CacheFollowsLog ==
    ASSUME ~OverlapRewinds
    PROVE  Spec => []CacheIsReplay
  <1>1. TypeInv /\ CacheInv /\ OneRewind /\ [Next]_vars => (CacheInv /\ OneRewind)'
    BY CacheInvStep, OneRewindStep
  <1>2. CacheInv => CacheIsReplay BY DEF CacheInv, CacheIsReplay
  <1> QED BY <1>1, <1>2, CacheInvInit, Safe, PTL DEF Spec

-----------------------------------------------------------------------------
(* Approvals                                                               *)

\* Who is asked, stopped or restarted is never allowed without a yes.
LEMMA ToolsApprovedStep == TypeInv /\ ToolsApproved /\ [Next]_vars => ToolsApproved'
  <1> SUFFICES ASSUME TypeInv, ToolsApproved, [Next]_vars PROVE ToolsApproved'
    OBVIOUS
  <1>1. ASSUME NEW t \in Turns, ChatSend(t) PROVE ToolsApproved'
    BY <1>1 DEF ChatSend, TypeInv, AskTypeOK, ToolsApproved, approvals
  <1>2. ASSUME NEW t \in Turns, RewindCut(t) PROVE ToolsApproved'
    BY <1>2 DEF RewindCut, TypeInv, AskTypeOK, ToolsApproved, approvals
  <1>3. ASSUME NEW t \in Turns, StartSession(t) PROVE ToolsApproved'
    BY <1>3 DEF StartSession, AskStopped, TypeInv, AskTypeOK, ToolsApproved
  <1>4. ASSUME NEW t \in Turns, StartFails(t) PROVE ToolsApproved'
    BY <1>4 DEF StartFails, AskStopped, TypeInv, AskTypeOK, ToolsApproved
  <1>5. ASSUME NEW t \in Turns, Announce(t) PROVE ToolsApproved'
    BY <1>5 DEF Announce, TypeInv, AskTypeOK, ToolsApproved, approvals
  <1>6. ASSUME NEW t \in Turns, Speak(t) PROVE ToolsApproved'
    BY <1>6 DEF Speak, TypeInv, AskTypeOK, ToolsApproved, approvals
  <1>7. ASSUME NEW t \in Turns, RequestApproval(t) PROVE ToolsApproved'
    BY <1>7 DEF RequestApproval, TypeInv, AskTypeOK, ToolsApproved
  <1>8. ASSUME NEW t \in Turns, Complete(t) PROVE ToolsApproved'
    BY <1>8 DEF Complete, TypeInv, AskTypeOK, ToolsApproved, approvals
  <1>9. ASSUME NEW t \in Turns, Fail(t) PROVE ToolsApproved'
    BY <1>9 DEF Fail, TypeInv, AskTypeOK, ToolsApproved, approvals
  <1>10. ASSUME NEW t \in Turns, NEW u \in Turns, RewindStop(t, User(u))
         PROVE ToolsApproved'
    BY <1>10 DEF RewindStop, AskStopped, TypeInv, AskTypeOK, ToolsApproved
  <1>11. ASSUME NEW t \in Turns, NEW u \in Turns, RewindUnknown(t, User(u))
         PROVE ToolsApproved'
    BY <1>11 DEF RewindUnknown, TypeInv, AskTypeOK, ToolsApproved, approvals
  <1>12. ASSUME NEW t \in Turns, NEW answer \in {"yes", "no"},
              RespondToApproval(t, answer) PROVE ToolsApproved'
    BY <1>12 DEF RespondToApproval, TypeInv, AskTypeOK, ToolsApproved
  <1>13. ASSUME ChatStop PROVE ToolsApproved'
    BY <1>13 DEF ChatStop, AskStopped, TypeInv, AskTypeOK, ToolsApproved
  <1>14. ASSUME AutoSave PROVE ToolsApproved'
    BY <1>14 DEF AutoSave, TypeInv, AskTypeOK, ToolsApproved, approvals
  <1>15. ASSUME JoinSession PROVE ToolsApproved'
    BY <1>15 DEF JoinSession, TypeInv, AskTypeOK, ToolsApproved, approvals
  <1>16. ASSUME Restart PROVE ToolsApproved'
    BY <1>16 DEF Restart, TypeInv, AskTypeOK, ToolsApproved
  <1>17. CASE UNCHANGED vars
    BY <1>17 DEF vars, approvals, ToolsApproved
  <1> QED BY <1>1, <1>2, <1>3, <1>4, <1>5, <1>6, <1>7, <1>8, <1>9, <1>10,
     <1>11, <1>12, <1>13, <1>14, <1>15, <1>16, <1>17 DEF Next

\* No tool runs without the user's yes to that request, whoever stops the turn
\* and whichever session object the request waits in.
THEOREM ToolsAsked == Spec => []ToolsApproved
  <1>1. Init => ToolsApproved BY DEF Init, ToolsApproved
  <1> QED BY <1>1, ToolsApprovedStep, Safe, PTL DEF Spec
=============================================================================
