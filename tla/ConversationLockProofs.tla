----------------------- MODULE ConversationLockProofs -----------------------
(***************************************************************************)
(* Proofs about ConversationLock, for any messages and settings: types,    *)
(* the lock leaves with its holders, a second conversation needs two       *)
(* holders, and no message is dropped for having lost a race.              *)
(***************************************************************************)
EXTENDS ConversationLock, SequenceTheorems, TLAPS

Statuses == {"open", "pending", "resolved", "deleted"}

-----------------------------------------------------------------------------
(* Types *)

\* The initial state is well typed.
LEMMA InitTypeOK == Init => TypeOK
  <1> SUFFICES ASSUME Init PROVE TypeOK
    OBVIOUS
  <1>1. conversations \in Seq(Statuses) BY DEF Init
  <1>2. /\ at \in [Messages -> Steps]
        /\ \A m \in Messages : at[m] = "hasCached"
    BY DEF Init, Steps
  <1> QED BY <1>1, <1>2 DEF Init, TypeOK, NoConversation, Statuses

\* Agents and toggleStatus change a status in place.
LEMMA StatusChange ==
    ASSUME conversations \in Seq(Statuses), NEW c \in Ids, NEW s \in Statuses,
           conversations' = [conversations EXCEPT ![c] = s]
    PROVE  /\ conversations' \in Seq(Statuses)
           /\ Len(conversations') = Len(conversations)
           /\ Ids' = Ids
           /\ \A d \in Ids : conversations'[d] = IF d = c THEN s ELSE conversations[d]
  BY ExceptSeq DEF Ids

\* A new conversation is known by the number of those before it.
LEMMA NewConversationFacts ==
    ASSUME conversations \in Seq(Statuses), NewConversation
    PROVE  /\ conversations' \in Seq(Statuses)
           /\ Len(conversations') = Len(conversations) + 1
           /\ Ids \subseteq Ids'
           /\ Len(conversations') \in Ids'
  <1>1. (IF settings.conversationPending THEN "pending" ELSE "open") \in Statuses
    BY DEF Statuses
  <1> QED BY <1>1, AppendProperties DEF NewConversation, Ids

\* The steps of a handler, one by one.
LEMMA HandleTypeOK == \A m \in Messages : TypeOK /\ Handle(m) => TypeOK'
  <1> SUFFICES ASSUME NEW m \in Messages, TypeOK, Handle(m) PROVE TypeOK'
    OBVIOUS
  <1> USE DEF TypeOK, Goto, Take, Ids, crm, history
  <1>1. CASE HasCached(m)
    BY <1>1 DEF HasCached, Steps
  <1>2. CASE GetCached(m)
    BY <1>2 DEF GetCached, Steps
  <1>3. CASE ProbeFinds(m)
    BY <1>3 DEF ProbeFinds, Steps
  <1>4. CASE ProbeMisses(m)
    BY <1>4 DEF ProbeMisses, Steps
  <1>5. CASE HasLock(m)
    BY <1>5 DEF HasLock, Steps
  <1>6. CASE Waiting(m)
    BY <1>6 DEF Waiting, Steps
  <1>7. CASE Recheck(m)
    BY <1>7 DEF Recheck, Steps
  <1>8. CASE GetAwaited(m)
    BY <1>8 DEF GetAwaited, Lookup, Excuse, Steps
  <1>9. CASE Acquire(m)
    BY <1>9 DEF Acquire, Steps, Section
  <1>10. CASE DoubleCheck(m)
    BY <1>10 DEF DoubleCheck, Steps, Section
  <1>11. CASE DoubleGet(m)
    BY <1>11 DEF DoubleGet, Lookup, Excuse, Steps, Section
  <1>12. CASE FindContact(m)
    BY <1>12 DEF FindContact, Steps, Section
  <1>13. CASE CreateContact(m)
    BY <1>13 DEF CreateContact, Steps, Section
  <1>14. CASE ListFinds(m)
    BY <1>14 DEF ListFinds, Usable, Steps, Section
  <1>15. CASE ListMisses(m)
    BY <1>15 DEF ListMisses, Steps, Section
  <1>16. CASE Toggle(m)
    BY <1>16, StatusChange DEF Toggle, Steps, Section
  <1>17. CASE CreateConversation(m)
    BY <1>17, NewConversationFacts DEF CreateConversation, NewConversation, Steps, Section
  <1>18. CASE CreateUnanswered(m)
    BY <1>18, NewConversationFacts DEF CreateUnanswered, NewConversation, Excuse, Steps, Section
  <1>19. CASE CallFails(m)
    BY <1>19 DEF CallFails, Excuse, Steps, Section
  <1>20. CASE Publish(m)
    BY <1>20 DEF Publish, Steps, Section
  <1>21. CASE Release(m)
    BY <1>21 DEF Release, Steps, Section
  <1> QED
    BY <1>1, <1>2, <1>3, <1>4, <1>5, <1>6, <1>7, <1>8, <1>9, <1>10, <1>11, <1>12, <1>13,
       <1>14, <1>15, <1>16, <1>17, <1>18, <1>19, <1>20, <1>21 DEF Handle

\* Agents, webhooks and expiries keep the types.
LEMMA WorldTypeOK ==
    ASSUME TypeOK,
           \/ AgentResolves \/ AgentDeletes \/ ReceiveWebhook
           \/ CacheExpires \/ LockExpires \/ UNCHANGED vars
    PROVE  TypeOK'
  <1> USE DEF TypeOK, Ids, crm, history
  <1>1. CASE AgentResolves
    <2> PICK c \in Ids : /\ conversations' = [conversations EXCEPT ![c] = "resolved"]
                         /\ webhooks' = webhooks \cup {c}
      BY <1>1 DEF AgentResolves
    <2> QED BY <1>1, StatusChange DEF AgentResolves, Statuses
  <1>2. CASE AgentDeletes
    <2> PICK c \in Ids : conversations' = [conversations EXCEPT ![c] = "deleted"]
      BY <1>2 DEF AgentDeletes
    <2> QED BY <1>2, StatusChange DEF AgentDeletes, Statuses
  <1>3. CASE ReceiveWebhook
    BY <1>3 DEF ReceiveWebhook
  <1>4. CASE CacheExpires
    BY <1>4 DEF CacheExpires
  <1>5. CASE LockExpires
    BY <1>5 DEF LockExpires
  <1>6. CASE UNCHANGED vars
    BY <1>6 DEF vars
  <1> QED BY <1>1, <1>2, <1>3, <1>4, <1>5, <1>6

\* Every step keeps the types.
LEMMA NextTypeOK == TypeOK /\ [Next]_vars => TypeOK'
  BY HandleTypeOK, WorldTypeOK DEF Next

\* Every state of the handlers, the cache and Chatwoot is well typed, for any
\* messages and settings.
THEOREM TypeCorrect == Spec => []TypeOK
  BY InitTypeOK, NextTypeOK, PTL DEF Spec

-----------------------------------------------------------------------------
(* The lock goes with its holders *)

\* How a step of m's handler enters and leaves the section, and what it does
\* there.
LEMMA HandleFacts ==
    ASSUME TypeOK, NEW m \in Messages, Handle(m)
    PROVE  /\ \A g \in Messages \ {m} : at'[g] = at[g] /\ result'[g] = result[g]
           /\ (at'[m] \in Section /\ at[m] \notin Section) => Acquire(m)
           /\ lock' => (at'[m] \in Section \/ (lock /\ at[m] \notin Section))
           /\ at'[m] = "create" => Usable = {}
           /\ overlapped => overlapped'
           /\ doubled' => (doubled \/ (at[m] = "create" /\ Usable # {}))
           /\ \/ UNCHANGED <<conversations, settings>>
              \/ at[m] \in Section /\ at'[m] # "create"
  <1> USE DEF TypeOK, Goto, Take, Section, crm, history
  <1>1. CASE HasCached(m)
    BY <1>1 DEF HasCached
  <1>2. CASE GetCached(m)
    BY <1>2 DEF GetCached
  <1>3. CASE ProbeFinds(m)
    BY <1>3 DEF ProbeFinds
  <1>4. CASE ProbeMisses(m)
    BY <1>4 DEF ProbeMisses
  <1>5. CASE HasLock(m)
    BY <1>5 DEF HasLock
  <1>6. CASE Waiting(m)
    BY <1>6 DEF Waiting
  <1>7. CASE Recheck(m)
    BY <1>7 DEF Recheck
  <1>8. CASE GetAwaited(m)
    BY <1>8 DEF GetAwaited, Lookup
  <1>9. CASE Acquire(m)
    BY <1>9 DEF Acquire
  <1>10. CASE DoubleCheck(m)
    BY <1>10 DEF DoubleCheck
  <1>11. CASE DoubleGet(m)
    BY <1>11 DEF DoubleGet, Lookup
  <1>12. CASE FindContact(m)
    BY <1>12 DEF FindContact
  <1>13. CASE CreateContact(m)
    BY <1>13 DEF CreateContact
  <1>14. CASE ListFinds(m)
    BY <1>14 DEF ListFinds
  <1>15. CASE ListMisses(m)
    BY <1>15 DEF ListMisses
  <1>16. CASE Toggle(m)
    BY <1>16 DEF Toggle
  <1>17. CASE CreateConversation(m)
    BY <1>17 DEF CreateConversation, NewConversation
  <1>18. CASE CreateUnanswered(m)
    BY <1>18 DEF CreateUnanswered, NewConversation
  <1>19. CASE CallFails(m)
    BY <1>19 DEF CallFails
  <1>20. CASE Publish(m)
    BY <1>20 DEF Publish
  <1>21. CASE Release(m)
    BY <1>21 DEF Release
  <1> QED
    BY <1>1, <1>2, <1>3, <1>4, <1>5, <1>6, <1>7, <1>8, <1>9, <1>10, <1>11, <1>12, <1>13,
       <1>14, <1>15, <1>16, <1>17, <1>18, <1>19, <1>20, <1>21 DEF Handle

\* Every step keeps the lock with a holder.
LEMMA NextLockHasOwner == TypeOK /\ LockHasOwner /\ [Next]_vars => LockHasOwner'
  <1> SUFFICES ASSUME TypeOK, LockHasOwner, [Next]_vars, lock' PROVE LockHasOwner'
    BY DEF LockHasOwner
  <1>1. ASSUME NEW m \in Messages, Handle(m) PROVE LockHasOwner'
    BY <1>1, HandleFacts DEF LockHasOwner
  <1>2. CASE ~ \E m \in Messages : Handle(m)
    BY <1>2 DEF LockHasOwner, Next, vars, crm, history, AgentResolves, AgentDeletes,
       ReceiveWebhook, CacheExpires, LockExpires
  <1> QED BY <1>1, <1>2

\* Whichever way a handler leaves createConversation, it takes the lock along.
THEOREM LockOwned == Spec => []LockHasOwner
  <1>1. Init => LockHasOwner BY DEF Init, LockHasOwner
  <1> QED BY <1>1, NextLockHasOwner, TypeCorrect, PTL DEF Spec

-----------------------------------------------------------------------------
(* A second conversation *)

\* Without an overlap the section is exclusive, and the one about to create a
\* conversation has found none that is still there.
SectionAlone ==
    \A m, g \in Messages : at[m] \in Section /\ at[g] \in Section => m = g
CreatesFirst == \A m \in Messages : at[m] = "create" => Usable = {}
CreationInv == ~overlapped => SectionAlone /\ CreatesFirst /\ ~doubled

\* Agents and webhooks make no conversation usable.
LEMMA WorldFacts ==
    ASSUME TypeOK,
           \/ AgentResolves \/ AgentDeletes \/ ReceiveWebhook
           \/ CacheExpires \/ LockExpires \/ UNCHANGED vars
    PROVE  Usable' \subseteq Usable /\ UNCHANGED <<at, result, history>>
  <1> USE DEF crm, history
  <1>1. CASE AgentResolves
    <2> PICK c \in Ids : /\ conversations[c] \in {"open", "pending"}
                         /\ conversations' = [conversations EXCEPT ![c] = "resolved"]
      BY <1>1 DEF AgentResolves
    <2> QED BY <1>1, StatusChange DEF AgentResolves, Statuses, TypeOK, Usable
  <1>2. CASE AgentDeletes
    <2> PICK c \in Ids : conversations' = [conversations EXCEPT ![c] = "deleted"]
      BY <1>2 DEF AgentDeletes
    <2> QED BY <1>2, StatusChange DEF AgentDeletes, Statuses, TypeOK, Usable
  <1>3. CASE UNCHANGED conversations
    BY <1>3 DEF AgentResolves, AgentDeletes, ReceiveWebhook, CacheExpires, LockExpires,
       vars, Usable, Ids
  <1> QED BY <1>1, <1>2, <1>3 DEF ReceiveWebhook, CacheExpires, LockExpires, vars

\* Every step keeps that: until two handlers overlap, nothing is created twice.
LEMMA NextCreationInv == TypeOK /\ CreationInv /\ [Next]_vars => CreationInv'
  <1> SUFFICES ASSUME TypeOK, CreationInv, [Next]_vars, ~overlapped'
               PROVE  (SectionAlone /\ CreatesFirst /\ ~doubled)'
    BY DEF CreationInv
  <1>1. ASSUME NEW m \in Messages, Handle(m)
        PROVE  (SectionAlone /\ CreatesFirst /\ ~doubled)'
    <2>1. SectionAlone /\ CreatesFirst /\ ~doubled
      BY <1>1, HandleFacts DEF CreationInv
    <2>2. ~doubled'
      BY <1>1, <2>1, HandleFacts DEF CreatesFirst
    <2>3. SectionAlone'
      BY <1>1, <2>1, HandleFacts DEF SectionAlone, Acquire
    <2>4. ASSUME NEW g \in Messages, at'[g] = "create" PROVE Usable' = {}
      <3>1. at'[g] \in Section BY <2>4 DEF Section
      <3>2. CASE UNCHANGED <<conversations, settings>>
        BY <1>1, <2>1, <2>4, <3>2, HandleFacts DEF CreatesFirst, Usable, Ids
      <3>3. CASE at[m] \in Section /\ at'[m] # "create"
        BY <1>1, <2>1, <2>4, <3>1, <3>3, HandleFacts DEF SectionAlone
      <3> QED BY <1>1, <3>2, <3>3, HandleFacts
    <2> QED BY <2>2, <2>3, <2>4 DEF CreatesFirst
  <1>2. CASE ~ \E m \in Messages : Handle(m)
    BY <1>2, WorldFacts DEF Next, history, CreationInv, SectionAlone, CreatesFirst
  <1> QED BY <1>1, <1>2

\* A conversation is created beside a usable one only when two handlers were
\* under the lock at once: the lookup itself misses none.
THEOREM OnlyOverlapDoubles == Spec => []DoubledByOverlap
  <1>1. Init => CreationInv
    BY DEF Init, CreationInv, SectionAlone, CreatesFirst, Section
  <1>2. CreationInv => DoubledByOverlap BY DEF CreationInv, DoubledByOverlap
  <1> QED BY <1>1, <1>2, NextCreationInv, TypeCorrect, PTL DEF Spec

-----------------------------------------------------------------------------
(* Dropped messages *)

\* Whoever leaves, or is about to, without an id has been let down.
LeavesForCause ==
    \A m \in Messages :
        at[m] \in {"release", "done"} /\ result[m] = NoConversation => m \in excused

\* Every step that gives up has a cause.
LEMMA NextLeavesForCause == TypeOK /\ LeavesForCause /\ [Next]_vars => LeavesForCause'
  <1> SUFFICES ASSUME TypeOK, LeavesForCause, [Next]_vars PROVE LeavesForCause'
    OBVIOUS
  <1>1. ASSUME NEW m \in Messages, Handle(m) PROVE LeavesForCause'
    <2>1. /\ excused \subseteq excused'
          /\ \/ at'[m] \notin {"release", "done"}
             \/ m \in excused'
             \/ result'[m] # NoConversation
             \/ at[m] = "release" /\ result'[m] = result[m]
      BY <1>1 DEF TypeOK, Handle, HasCached, GetCached, ProbeFinds, ProbeMisses, HasLock,
         Waiting, Recheck, GetAwaited, Acquire, DoubleCheck, DoubleGet, FindContact,
         CreateContact, ListFinds, ListMisses, Toggle, CreateConversation,
         CreateUnanswered, CallFails, Publish, Release, Lookup, Goto, Take, Excuse, Ids,
         NoConversation, crm, history
    <2> QED BY <1>1, <2>1, HandleFacts DEF LeavesForCause
  <1>2. CASE ~ \E m \in Messages : Handle(m)
    BY <1>2, WorldFacts DEF Next, history, LeavesForCause
  <1> QED BY <1>1, <1>2

\* createConversation returns null only after a failed call, or when the key
\* vanished between EXISTS and GET.
THEOREM NoRaceDrops == Spec => []DroppedForCause
  <1>1. Init => LeavesForCause BY DEF Init, LeavesForCause
  <1>2. LeavesForCause => DroppedForCause BY DEF LeavesForCause, DroppedForCause
  <1> QED BY <1>1, <1>2, NextLeavesForCause, TypeCorrect, PTL DEF Spec

=============================================================================
