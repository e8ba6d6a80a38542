----------------------------- MODULE MCDispatch -----------------------------
(* All replies of a few short words, and BotConfigs around their lengths. *)
EXTENDS Dispatch
LOCAL INSTANCE SequencesExt

CONSTANTS
    MaxWords,       \* bound: words of a reply
    MaxWidth,       \* bound: runes of a word
    Limits,         \* values of TextSegmentationLimit
    MinSizes        \* values of TextSegmentationMinSize

Offsets(widths) ==
    [n |-> Len(widths),
     at |-> [k \in 0..Len(widths) |-> FoldLeft(+, 0, SubSeq(widths, 1, k))]]

ShortTexts == {Offsets(w) : w \in UNION {[1..n -> 1..MaxWidth] : n \in 0..MaxWords}}

\* Validate refuses a configuration that segments without a limit.
SmallConfigs ==
    {c \in [enabled: BOOLEAN, limit: Limits, minSize: MinSizes, signed: BOOLEAN,
            delayed: BOOLEAN] : c.enabled => c.limit > 0}
=============================================================================
