------------------------- MODULE MCChatbotSessions -------------------------
(* Small instances of ChatbotSessions for TLC. *)
EXTENDS ChatbotSessions

\* Two messages of the contact, through two numbers, and the keyword, which
\* the owner of the first number sends himself.
MCMessages == {"hello", "again", "bye"}
MCTo(m) == IF m = "again" THEN "two" ELSE "one"
SameTo(m) == "one"

\* Only with debounce, and with a bot that stops when the owner writes.
PausedSpec ==
    /\ Init /\ settings.debounceTime /\ settings.stopBotFromMe
    /\ [][Next]_vars
============================================================================
