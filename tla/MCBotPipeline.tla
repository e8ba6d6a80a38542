--------------------------- MODULE MCBotPipeline ---------------------------
(* Small instances of BotPipeline for TLC. *)
EXTENDS BotPipeline, TLC

CONSTANTS e1, e2, i1, i2

OneEvent  == {e1}
TwoEvents == {e1, e2}
FirstOnly == {e1}
OneInstance  == {i1}
TwoInstances == {i1, i2}

\* Instances run the same program, and events that are all debounced differ
\* in nothing else.
InstanceSymmetry == Permutations(Instances)
Symmetry == InstanceSymmetry \cup Permutations(Events)

\* Either one crash or shutdown, or one failed Redis command.
OneBadThing == crashes' + faults' <= 1
============================================================================
