-------------------------- MODULE ConversationLock --------------------------
(***************************************************************************)
(* createConversation of the Chatwoot integration of evolution-api: every  *)
(* message of a WhatsApp contact asks for the id of the contact's          *)
(* conversation in Chatwoot.  The id is cached; a miss is served under a   *)
(* lock kept in the same cache, so that two messages at the same moment do *)
(* not open two conversations.                                             *)
(*                                                                         *)
(* The keys carry the instance and the contact, so one instance and one    *)
(* contact (not a group) are the whole model.  Every command to the cache  *)
(* and every call of Chatwoot is a step, and the handlers of all messages  *)
(* interleave between them: Node runs other handlers at every await.       *)
(* Clocks are abstracted: a TTL or the waiting time may end at any moment. *)
(* Left out: the renaming and merging of contacts with a LID, the profile  *)
(* picture, groups.                                                        *)
(***************************************************************************)
EXTENDS Naturals, Sequences, FiniteSets

CONSTANTS
  Messages, \* the messages of the contact, each handled once
  Settings  \* the combinations of the provider's two settings to look at

AllSettings == [reopenConversation : BOOLEAN, conversationPending : BOOLEAN]

ASSUME MessagesAssumption == IsFiniteSet(Messages)
ASSUME SettingsAssumption == Settings \subseteq AllSettings

VARIABLES
  settings,      \* reopenConversation and conversationPending of the provider
  cached,        \* the id under cacheKey, or NoConversation
  lock,          \* is there a value under lockKey?
  contact,       \* does Chatwoot know the contact?
  conversations, \* the status of each conversation in Chatwoot, by id
  webhooks,      \* conversations whose "resolved" webhook is on its way
  at,            \* what each message's handler does next
  result,        \* the id each handler has in hand, and returns at last
  excused,       \* history: messages a call failed, or the cache let down
  overlapped,    \* history: two handlers have held the lock at once
  doubled        \* history: a conversation was created beside a usable one

crm == <<contact, conversations, webhooks>>
history == <<excused, overlapped, doubled>>
vars == <<settings, cached, lock, crm, at, result, history>>

NoConversation == 0

Ids == 1..Len(conversations)

Section == {"double", "doubleGet", "contact", "newContact", "list", "toggle",
            "create", "publish", "release"}

Steps == Section \cup {"hasCached", "getCached", "probe", "hasLock", "waiting",
                       "recheck", "getAwaited", "acquire", "done"}

(***************************************************************************)
(* The conversations that createConversation may return instead of         *)
(* creating one: any that exists, or only an unresolved one, according to  *)
(* the settings.                                                           *)
(***************************************************************************)
Usable ==
  {c \in Ids : /\ conversations[c] # "deleted"
               /\ settings.reopenConversation \/ conversations[c] # "resolved"}

Goto(m, step) == at' = [at EXCEPT ![m] = step]

Take(m, c) == result' = [result EXCEPT ![m] = c]

Excuse(m) == excused' = excused \cup {m}

Init ==
  /\ settings \in Settings
  /\ cached = NoConversation
  /\ lock = FALSE
  /\ contact = FALSE
  /\ conversations = <<>>
  /\ webhooks = {}
  /\ at = [m \in Messages |-> "hasCached"]
  /\ result = [m \in Messages |-> NoConversation]
  /\ excused = {}
  /\ overlapped = FALSE
  /\ doubled = FALSE

-----------------------------------------------------------------------------
(* Before the lock. *)

\* EXISTS of one of the two keys; the answer decides how the handler goes on.
HasCached(m) ==
  /\ at[m] = "hasCached"
  /\ Goto(m, IF cached # NoConversation THEN "getCached" ELSE "hasLock")
  /\ UNCHANGED <<settings, cached, lock, crm, result, history>>

GetCached(m) ==
  /\ at[m] = "getCached"
  /\ Take(m, cached)
  /\ Goto(m, "probe")
  /\ UNCHANGED <<settings, cached, lock, crm, history>>

\* Chatwoot knows the cached conversation, and the handler returns it.
ProbeFinds(m) ==
  /\ at[m] = "probe"
  /\ result[m] \in Ids
  /\ conversations[result[m]] # "deleted"
  /\ Goto(m, "done")
  /\ UNCHANGED <<settings, cached, lock, crm, result, history>>

\* Mutant: the recursive call finds the same entry again.
ProbeKeepsKey(m) ==
  /\ at[m] = "probe"
  /\ Take(m, NoConversation)
  /\ Goto(m, "hasCached")
  /\ UNCHANGED <<settings, cached, lock, crm, history>>

\* An error of the call counts as a conversation that is gone: the key is
\* deleted, whatever it holds by now, and createConversation starts again.
ProbeMisses(m) ==
  /\ at[m] = "probe"
  /\ cached' = NoConversation
  /\ Take(m, NoConversation)
  /\ Goto(m, "hasCached")
  /\ UNCHANGED <<settings, lock, crm, history>>

HasLock(m) ==
  /\ at[m] = "hasLock"
  /\ Goto(m, IF lock THEN "waiting" ELSE "acquire")
  /\ UNCHANGED <<settings, cached, lock, crm, result, history>>

\* One turn of the while loop, which ends when the lock is gone or after
\* maxWaitTime.
Waiting(m) ==
  /\ at[m] = "waiting"
  /\ \/ Goto(m, "acquire")
     \/ lock /\ Goto(m, "recheck")
  /\ UNCHANGED <<settings, cached, lock, crm, result, history>>

Recheck(m) ==
  /\ at[m] = "recheck"
  /\ Goto(m, IF cached # NoConversation THEN "getAwaited" ELSE "waiting")
  /\ UNCHANGED <<settings, cached, lock, crm, result, history>>

\* The key may be gone since the EXISTS; nothing checks what GET returns.
Lookup(m, step) ==
  /\ Take(m, cached)
  /\ Goto(m, step)
  /\ IF cached = NoConversation THEN Excuse(m) ELSE UNCHANGED excused
  /\ UNCHANGED <<settings, cached, lock, crm, overlapped, doubled>>

GetAwaited(m) == at[m] = "getAwaited" /\ Lookup(m, "done")

\* An unconditional SET: nothing says whether the lock was free.
Acquire(m) ==
  /\ at[m] = "acquire"
  /\ lock' = TRUE
  /\ overlapped' = (overlapped \/ \E g \in Messages \ {m} : at[g] \in Section)
  /\ Goto(m, "double")
  /\ UNCHANGED <<settings, cached, crm, result, excused, doubled>>

-----------------------------------------------------------------------------
(* Under the lock. *)

DoubleCheck(m) ==
  /\ at[m] = "double"
  /\ Goto(m, IF cached # NoConversation THEN "doubleGet" ELSE "contact")
  /\ UNCHANGED <<settings, cached, lock, crm, result, history>>

\* Mutant: the second check returns from before the try block.
DoubleGetEarly(m) == at[m] = "doubleGet" /\ Lookup(m, "done")

DoubleGet(m) == at[m] = "doubleGet" /\ Lookup(m, "release")

FindContact(m) ==
  /\ at[m] = "contact"
  /\ Goto(m, IF contact THEN "list" ELSE "newContact")
  /\ UNCHANGED <<settings, cached, lock, crm, result, history>>

\* Mutant: without the branch for the answer 422.
CreateContactOnce(m) ==
  /\ at[m] = "newContact"
  /\ contact' = TRUE
  /\ Goto(m, IF contact THEN "release" ELSE "list")
  /\ UNCHANGED <<settings, cached, lock, conversations, webhooks, result,
                 history>>

\* createContact; when another handler was faster Chatwoot answers 422, and
\* the existing contact is looked up and used.
CreateContact(m) ==
  /\ at[m] = "newContact"
  /\ contact' = TRUE
  /\ Goto(m, "list")
  /\ UNCHANGED <<settings, cached, lock, conversations, webhooks, result,
                 history>>

ListFinds(m) ==
  /\ at[m] = "list"
  /\ \E c \in Usable :
       /\ Take(m, c)
       /\ Goto(m, IF /\ settings.reopenConversation
                     /\ settings.conversationPending
                     /\ conversations[c] # "open"
                  THEN "toggle" ELSE "publish")
  /\ UNCHANGED <<settings, cached, lock, crm, history>>

\* Mutant: only an open conversation is reused.
ListMissesPending(m) ==
  /\ at[m] = "list"
  /\ \A c \in Usable : conversations[c] # "open"
  /\ Goto(m, "create")
  /\ UNCHANGED <<settings, cached, lock, crm, result, history>>

ListMisses(m) ==
  /\ at[m] = "list"
  /\ Usable = {}
  /\ Goto(m, "create")
  /\ UNCHANGED <<settings, cached, lock, crm, result, history>>

\* toggleStatus; the call fails when the conversation was deleted meanwhile.
Toggle(m) ==
  /\ at[m] = "toggle"
  /\ conversations[result[m]] # "deleted"
  /\ conversations' = [conversations EXCEPT ![result[m]] = "pending"]
  /\ Goto(m, "publish")
  /\ UNCHANGED <<settings, cached, lock, contact, webhooks, result, history>>

NewConversation ==
  /\ conversations' = Append(conversations,
                IF settings.conversationPending THEN "pending" ELSE "open")
  /\ doubled' = (doubled \/ Usable # {})

CreateConversation(m) ==
  /\ at[m] = "create"
  /\ NewConversation
  /\ Take(m, Len(conversations'))
  /\ Goto(m, "publish")
  /\ UNCHANGED <<settings, cached, lock, contact, webhooks, excused,
                 overlapped>>

\* Mutant: an answer without a conversation is not looked at.
CreateUnchecked(m) ==
  /\ at[m] = "create"
  /\ NewConversation
  /\ Goto(m, "publish")
  /\ Excuse(m)
  /\ UNCHANGED <<settings, cached, lock, contact, webhooks, result,
                 overlapped>>

\* Chatwoot created the conversation but the answer is lost.
CreateUnanswered(m) ==
  /\ at[m] = "create"
  /\ NewConversation
  /\ Goto(m, "release")
  /\ Excuse(m)
  /\ UNCHANGED <<settings, cached, lock, contact, webhooks, result,
                 overlapped>>

\* A call of Chatwoot fails: the exception leaves through the finally block
\* and the outer catch returns null.
CallFails(m) ==
  /\ at[m] \in {"contact", "newContact", "list", "toggle", "create"}
  /\ Take(m, NoConversation)
  /\ Excuse(m)
  /\ Goto(m, "release")
  /\ UNCHANGED <<settings, cached, lock, crm, overlapped, doubled>>

\* cache.set is not awaited, and the DEL of the finally block is sent in the
\* same turn of the event loop: no other handler's command comes between.
Publish(m) ==
  /\ at[m] = "publish"
  /\ cached' = result[m]
  /\ lock' = FALSE
  /\ Goto(m, "done")
  /\ UNCHANGED <<settings, crm, result, history>>

\* The finally block, whoever set the lock last.
Release(m) ==
  /\ at[m] = "release"
  /\ lock' = FALSE
  /\ Goto(m, "done")
  /\ UNCHANGED <<settings, cached, crm, result, history>>

Handle(m) ==
  \/ HasCached(m) \/ GetCached(m) \/ ProbeFinds(m) \/ ProbeMisses(m)
  \/ HasLock(m) \/ Waiting(m) \/ Recheck(m) \/ GetAwaited(m) \/ Acquire(m)
  \/ DoubleCheck(m) \/ DoubleGet(m) \/ FindContact(m) \/ CreateContact(m)
  \/ ListFinds(m) \/ ListMisses(m) \/ Toggle(m)
  \/ CreateConversation(m) \/ CreateUnanswered(m) \/ CallFails(m)
  \/ Publish(m) \/ Release(m)

-----------------------------------------------------------------------------
(* The surroundings. *)

\* An agent resolves a conversation, and Chatwoot sends a webhook.
AgentResolves ==
  /\ \E c \in Ids :
       /\ conversations[c] \in {"open", "pending"}
       /\ conversations' = [conversations EXCEPT ![c] = "resolved"]
       /\ webhooks' = webhooks \cup {c}
  /\ UNCHANGED <<settings, cached, lock, contact, at, result, history>>

AgentDeletes ==
  /\ \E c \in Ids :
       /\ conversations[c] # "deleted"
       /\ conversations' = [conversations EXCEPT ![c] = "deleted"]
  /\ UNCHANGED <<settings, cached, lock, contact, webhooks, at, result,
                 history>>

\* The webhook names the contact, not the conversation: the key is deleted
\* whatever conversation it holds.
ReceiveWebhook ==
  /\ \E c \in webhooks : webhooks' = webhooks \ {c}
  /\ cached' = IF settings.reopenConversation THEN cached ELSE NoConversation
  /\ UNCHANGED <<settings, lock, contact, conversations, at, result, history>>

CacheExpires ==
  /\ cached # NoConversation
  /\ cached' = NoConversation
  /\ UNCHANGED <<settings, lock, crm, at, result, history>>

LockExpires ==
  /\ lock
  /\ lock' = FALSE
  /\ UNCHANGED <<settings, cached, crm, at, result, history>>

Next ==
  \/ \E m \in Messages : Handle(m)
  \/ AgentResolves \/ AgentDeletes \/ ReceiveWebhook
  \/ CacheExpires \/ LockExpires

Spec == Init /\ [][Next]_vars

(***************************************************************************)
(* The event loop runs every handler whose awaited call has returned; that *)
(* every call of the cache and of Chatwoot returns, with an answer or an   *)
(* error, is assumed.                                                      *)
(***************************************************************************)
FairSpec == Spec /\ \A m \in Messages : WF_vars(Handle(m))

-----------------------------------------------------------------------------
(* Properties. *)

\* Types; a handler about to publish has a conversation in hand.
TypeOK ==
  /\ settings \in Settings
  /\ conversations \in Seq({"open", "pending", "resolved", "deleted"})
  /\ cached \in Ids \cup {NoConversation}
  /\ lock \in BOOLEAN
  /\ contact \in BOOLEAN
  /\ webhooks \subseteq Ids
  /\ at \in [Messages -> Steps]
  /\ result \in [Messages -> Ids \cup {NoConversation}]
  /\ \A m \in Messages : at[m] \in {"toggle", "publish"} => result[m] \in Ids
  /\ excused \subseteq Messages
  /\ overlapped \in BOOLEAN
  /\ doubled \in BOOLEAN

\* Whichever way a handler leaves (a conversation, null, an exception), it
\* takes the lock with it: a lock without a handler behind it would make
\* every message of the contact wait maxWaitTime.
LockHasOwner == lock => \E m \in Messages : at[m] \in Section

\* A conversation is created beside a usable one only when two handlers were
\* under the lock at once, whatever agents, webhooks and TTLs do: the lookup
\* itself, on every combination of the settings, misses no conversation.
DoubledByOverlap == doubled => overlapped

\* A message is dropped (createConversation returns null) only after a failed
\* call, or when its key vanished between EXISTS and GET: losing a race, for
\* the lock or for the creation of the contact, is no reason.
DroppedForCause ==
  \A m \in Messages :
    at[m] = "done" /\ result[m] = NoConversation => m \in excused

\* Every call returns, however often others delete the conversation it has
\* found, hold the lock, or let it expire.
EveryCallReturns == <>(\A m \in Messages : at[m] = "done")

\* What the double check is written for: nobody creates a second conversation
\* between the end of the while loop and the SET of the lock.  Refuted: SET
\* does not fail when the lock is taken, and the check looks for a
\* conversation that the other handler has not created yet.
OneConversation == ~doubled

=============================================================================
