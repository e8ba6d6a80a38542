------------------------- MODULE MCConversationLock -------------------------
(* Three messages of one contact for TLC. *)
EXTENDS ConversationLock, TLC

CONSTANTS m1, m2, m3

Three == {m1, m2, m3}

\* Both settings on, and both off: between them every branch is taken.
BothOrNeither ==
  {[reopenConversation |-> b, conversationPending |-> b] : b \in BOOLEAN}
MessageSymmetry == Permutations(Messages)
=============================================================================
