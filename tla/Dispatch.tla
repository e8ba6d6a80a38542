------------------------------ MODULE Dispatch ------------------------------
(***************************************************************************)
(* One call of Dispatch in evo-bot-runtime: the AI reply is cut into parts *)
(* and the parts are posted to the CRM one by one, until the last one, an  *)
(* error, or the cancellation of the pipeline context.                     *)
(*                                                                         *)
(* A reply is known by its words (strings.Fields) and their lengths in     *)
(* runes; a part is an interval of words.  BotPipeline abstracts this      *)
(* module to the number of parts still to be sent.                         *)
(*                                                                         *)
(* FitsBlankless, FitsBelow, CutPartWithoutReset, CutPartAhead,            *)
(* MergeableFreely, PauseAlways and PostRetried are bugs that the          *)
(* properties rule out; no action uses them.                               *)
(***************************************************************************)
EXTENDS Naturals, Sequences, FiniteSets

CONSTANTS
    Texts,      \* the replies: n words, at[k] runes in the first k of them
    Configs     \* the BotConfigs

IsText(t) ==
    /\ t.n \in Nat /\ t.at \in [0..t.n -> Nat]
    /\ \A j, k \in 0..t.n : j < k => t.at[j] < t.at[k]

\* BotConfig; signed says whether there is a MessageSignature, delayed whether
\* DelayPerCharacter is positive.
BotConfig == [enabled: BOOLEAN, limit: Nat, minSize: Nat, signed: BOOLEAN, delayed: BOOLEAN]

ASSUME TextsAssumption == \A t \in Texts : IsText(t)
ASSUME ConfigsAssumption == Configs \subseteq BotConfig

VARIABLES
    text, cfg,                  \* the arguments
    pc,
    word,                       \* words consumed by the first loop
    current, currentRunes,      \* first word of the part being built, and its length
    rawParts,                   \* what the first loop produced
    taken,                      \* raw parts consumed by the second loop
    merged, lastPartRunes,      \* what the second loop has produced
    parts,                      \* the result of segmentContent
    sent,                       \* parts sendPart has returned from without an error
    posted,                     \* parts that reached the CRM
    cancelled                   \* is the pipeline context done?

splitVars == <<word, current, currentRunes, rawParts>>
mergeVars == <<taken, merged, lastPartRunes>>
sendVars  == <<sent, posted>>
vars == <<text, cfg, pc, splitVars, mergeVars, parts, sendVars, cancelled>>

Part(from, to) == [from |-> from, to |-> to]

\* The length of words from..to joined by single blanks.
Width(t, from, to) == (t.at[to] - t.at[from - 1]) + (to - from)
PartRunes(t, p) == Width(t, p.from, p.to)

Segmented == cfg.enabled /\ cfg.limit > 0 /\ text.n > 0

Working == {"split", "merge", "check", "post", "delay"}
Results == {"completed", "interrupted", "failed"}
PartType == [from: Nat, to: Nat]
PostedType == [part: PartType, signed: BOOLEAN]

\* TypeOK: indices point into the text and into the parts produced so far.
TypeOK ==
    /\ IsText(text) /\ cfg \in BotConfig
    /\ pc \in Working \cup Results
    /\ word \in 0..text.n /\ current \in 0..text.n /\ currentRunes \in Nat
    /\ rawParts \in Seq(PartType) /\ merged \in Seq(PartType) /\ parts \in Seq(PartType)
    /\ taken \in 0..Len(rawParts) /\ lastPartRunes \in Nat
    /\ sent \in 0..Len(parts)
    /\ posted \in Seq(PostedType)
    /\ cancelled \in BOOLEAN

Init ==
    /\ text \in Texts /\ cfg \in Configs
    /\ pc = "split"
    /\ word = 0 /\ current = 0 /\ currentRunes = 0 /\ rawParts = <<>>
    /\ taken = 0 /\ merged = <<>> /\ lastPartRunes = 0
    /\ parts = <<>>
    /\ sent = 0 /\ posted = <<>>
    /\ cancelled = FALSE

-----------------------------------------------------------------------------
(* segmentContent *)

\* Segmentation is off, or there is no word: the content is the only part.
KeepWhole ==
    /\ pc = "split" /\ ~Segmented
    /\ parts' = <<Part(1, text.n)>>
    /\ pc' = "check"
    /\ UNCHANGED <<text, cfg, splitVars, mergeVars, sendVars, cancelled>>

NextWord ==
    /\ pc = "split" /\ Segmented /\ word < text.n
    /\ word' = word + 1
    /\ UNCHANGED <<text, cfg, pc, mergeVars, parts, sendVars, cancelled>>

StartPart ==
    /\ NextWord
    /\ currentRunes = 0
    /\ current' = word + 1 /\ currentRunes' = Width(text, word + 1, word + 1)
    /\ UNCHANGED rawParts

\* The word and the blank before it still fit into the current part.
FitsBlankless(runes) == currentRunes + runes <= cfg.limit
FitsBelow(runes) == currentRunes + 1 + runes < cfg.limit
Fits(runes) == currentRunes + 1 + runes <= cfg.limit

ExtendPart ==
    /\ NextWord
    /\ currentRunes > 0 /\ Fits(Width(text, word + 1, word + 1))
    /\ currentRunes' = currentRunes + 1 + Width(text, word + 1, word + 1)
    /\ UNCHANGED <<current, rawParts>>

CutPartWithoutReset ==
    /\ NextWord
    /\ currentRunes > 0 /\ ~Fits(Width(text, word + 1, word + 1))
    /\ rawParts' = Append(rawParts, Part(current, word))
    /\ currentRunes' = Width(text, word + 1, word + 1)
    /\ UNCHANGED current

CutPartAhead ==
    /\ NextWord
    /\ currentRunes > 0 /\ ~Fits(Width(text, word + 1, word + 1))
    /\ rawParts' = Append(rawParts, Part(current, word))
    /\ current' = word + 2 /\ currentRunes' = Width(text, word + 1, word + 1)

CutPart ==
    /\ NextWord
    /\ currentRunes > 0 /\ ~Fits(Width(text, word + 1, word + 1))
    /\ rawParts' = Append(rawParts, Part(current, word))
    /\ current' = word + 1 /\ currentRunes' = Width(text, word + 1, word + 1)

\* After the last word; without a minimum size or a second part there is
\* nothing to merge.
FlushPart ==
    /\ pc = "split" /\ Segmented /\ word = text.n
    /\ rawParts' = IF currentRunes > 0 THEN Append(rawParts, Part(current, word)) ELSE rawParts
    /\ IF cfg.minSize = 0 \/ Len(rawParts') <= 1
       THEN parts' = rawParts' /\ pc' = "check"
       ELSE UNCHANGED parts /\ pc' = "merge"
    /\ UNCHANGED <<text, cfg, word, current, currentRunes, mergeVars, sendVars, cancelled>>

\* The part is short, and fits behind its predecessor.
MergeableFreely(runes) == merged # <<>> /\ runes < cfg.minSize
Mergeable(runes) ==
    /\ merged # <<>>
    /\ runes < cfg.minSize
    /\ lastPartRunes + 1 + runes <= cfg.limit

MergeRawPart ==
    /\ pc = "merge" /\ taken < Len(rawParts)
    /\ LET p == rawParts[taken + 1] IN
       IF Mergeable(PartRunes(text, p))
       THEN /\ merged' = [merged EXCEPT ![Len(merged)].to = p.to]
            /\ lastPartRunes' = lastPartRunes + 1 + PartRunes(text, p)
       ELSE /\ merged' = Append(merged, p)
            /\ lastPartRunes' = PartRunes(text, p)
    /\ taken' = taken + 1
    /\ UNCHANGED <<text, cfg, pc, splitVars, parts, sendVars, cancelled>>

Merged ==
    /\ pc = "merge" /\ taken = Len(rawParts)
    /\ parts' = merged
    /\ pc' = "check"
    /\ UNCHANGED <<text, cfg, splitVars, mergeVars, sendVars, cancelled>>

-----------------------------------------------------------------------------
(* Dispatch *)

\* The context is looked at before each part.
Check ==
    /\ pc = "check"
    /\ pc' = IF cancelled THEN "interrupted" ELSE "post"
    /\ UNCHANGED <<text, cfg, splitVars, mergeVars, parts, sendVars, cancelled>>

\* The signature goes in front of the first part.
Signed(k) == [part |-> parts[k], signed |-> k = 1 /\ cfg.signed]

\* The loop goes on, or ends after the last part.
LoopFrom(k) == IF k = Len(parts) THEN "completed" ELSE "check"

\* With a delay per character there is a pause, but not after the last part.
PauseAlways == IF cfg.delayed THEN "delay" ELSE LoopFrom(sent + 1)
Pause == IF sent + 1 < Len(parts) /\ cfg.delayed THEN "delay" ELSE LoopFrom(sent + 1)

\* A part may have reached the CRM although sendPart returns an error; a
\* retry of such a part would post it twice.
PostRetried ==
    /\ pc = "post"
    /\ posted' = Append(posted, Signed(sent + 1))
    /\ \/ sent' = sent + 1 /\ pc' = Pause
       \/ UNCHANGED sent /\ pc' = "check"
    /\ UNCHANGED <<text, cfg, splitVars, mergeVars, parts, cancelled>>

Post ==
    /\ pc = "post"
    /\ \E delivered, ok \in BOOLEAN :
          /\ ok => delivered
          /\ posted' = IF delivered THEN Append(posted, Signed(sent + 1)) ELSE posted
          /\ sent' = IF ok THEN sent + 1 ELSE sent
          /\ pc' = IF ok THEN Pause ELSE "failed"
    /\ UNCHANGED <<text, cfg, splitVars, mergeVars, parts, cancelled>>

\* select: both cases may be ready.
Delay ==
    /\ pc = "delay"
    /\ \/ cancelled /\ pc' = "interrupted"
       \/ pc' = LoopFrom(sent)
    /\ UNCHANGED <<text, cfg, splitVars, mergeVars, parts, sendVars, cancelled>>

Cancel ==
    /\ ~cancelled /\ pc \in Working
    /\ cancelled' = TRUE
    /\ UNCHANGED <<text, cfg, pc, splitVars, mergeVars, parts, sendVars>>

segmentContent ==
    \/ KeepWhole \/ StartPart \/ ExtendPart \/ CutPart \/ FlushPart
    \/ MergeRawPart \/ Merged

Next == segmentContent \/ Check \/ Post \/ Delay \/ Cancel

Spec == Init /\ [][Next]_vars

-----------------------------------------------------------------------------
(* Properties *)

Cut == pc \notin {"split", "merge"}

\* Consecutive parts, together the words first..last, none of them empty.
Tiles(ps, last) ==
    /\ ps[1].from = 1 /\ ps[Len(ps)].to = last
    /\ \A k \in 1..Len(ps) : ps[k].from <= ps[k].to
    /\ \A k \in 1..(Len(ps) - 1) : ps[k + 1].from = ps[k].to + 1

\* PartsTileReply: the parts of a segmented reply are its words, all of them,
\* once each and in order (the two loops of segmentContent).
PartsTileReply == Cut /\ Segmented => parts # <<>> /\ Tiles(parts, text.n)

FitsAlone(t, c, from, to) == from = to \/ Width(t, from, to) <= c.limit

\* WithinLimit: a part is longer than TextSegmentationLimit only when it is a
\* single word, with or without the second loop ("prevents overflow").
WithinLimit == Cut /\ Segmented =>
    \A k \in 1..Len(parts) : FitsAlone(text, cfg, parts[k].from, parts[k].to)

\* FewestParts: no other way of cutting the reply at word boundaries within
\* the limit makes fewer parts; stated when the loops have just ended.
FewestParts == Segmented /\ pc = "check" /\ sent = 0 =>
    \A cuts \in SUBSET (1..(text.n - 1)) :
        LET ends == cuts \cup {0, text.n} IN
        (\A a, b \in ends : a < b /\ (\A c \in ends : c <= a \/ b <= c)
                => FitsAlone(text, cfg, a + 1, b))
            => Len(parts) <= Cardinality(cuts) + 1

\* NothingMerged: the second loop never merges anything: two neighbours that
\* fit together would have been one part after the first loop.
NothingMerged == Cut /\ Segmented => parts = rawParts

\* PostedInOrder: what reached the CRM is a prefix of the parts, none skipped
\* and none twice, with the signature on the first one only; and only a failed
\* call may have posted more than it counted (the loop of Dispatch).
PostedInOrder ==
    /\ \A k \in 1..Len(posted) : k <= Len(parts) /\ posted[k] = Signed(k)
    /\ Len(posted) = sent \/ (pc = "failed" /\ Len(posted) = sent + 1)

\* InterruptedUnfinished: a reply that was posted completely is never reported
\* as interrupted, after which runDispatchStage would not clear the state (no
\* delay and no look at the context after the last part).
InterruptedUnfinished == pc = "interrupted" => sent < Len(parts)

-----------------------------------------------------------------------------
(* Statements of the source that the model refutes *)

\* SmallPartsMerged (segmentContent, "merges any part shorter than
\* TextSegmentationMinSize with its predecessor").
SmallPartsMerged == Cut /\ Segmented =>
    \A k \in 2..Len(parts) : PartRunes(text, parts[k]) >= cfg.minSize
=============================================================================
