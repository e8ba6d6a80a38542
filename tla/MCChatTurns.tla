---------------------------- MODULE MCChatTurns ----------------------------
(* Small instances of ChatTurns for TLC. *)
EXTENDS ChatTurns

CONSTANTS t1, t2, t3

TwoTurns   == {t1, t2}
ThreeTurns == {t1, t2, t3}

\* Turns differ in nothing but the order in which they are sent.
InOrder ==
    /\ pc'[t2] # "new" => pc'[t1] # "new"
    /\ pc'[t3] # "new" => pc'[t2] # "new"

\* Two turns with approvals, saves and restarts, or three turns without:
\* sessions.json is read by a restart only.
AllUsed == \A t \in Turns : pc[t] # "new"
Quiet ==
    /\ crashes = 0
    /\ \A t \in Turns : ask[t] = "none"
    /\ disk = [history |-> <<>>, sdk |-> None]

TwoOrQuiet == AllUsed' => Quiet'
============================================================================
