--------------------------- MODULE DispatchProofs ---------------------------
(***************************************************************************)
(* For every reply and every BotConfig: the parts are the words in order,  *)
(* the second loop of segmentContent never merges, and what is posted is a *)
(* prefix of the parts.                                                    *)
(***************************************************************************)
EXTENDS Dispatch, SequenceTheorems, FiniteSetTheorems, TLAPS

Runes(t, w) == Width(t, w, w)

\* What the first loop has produced when it has consumed words 1..last: parts
\* that tile them, each within the limit, no two neighbours fitting together.
InText(t, c, ps, last) ==
    /\ \A k \in 1..Len(ps) : /\ ps[k].from \in 1..last /\ ps[k].to \in 1..last
                             /\ ps[k].from <= ps[k].to
                             /\ FitsAlone(t, c, ps[k].from, ps[k].to)
    /\ \A k \in 1..(Len(ps) - 1) : ps[k + 1].from = ps[k].to + 1
    /\ ps # <<>> => ps[1].from = 1 /\ ps[Len(ps)].to = last
    /\ ps = <<>> => last = 0

\* The first word of the next part would not have fitted.
Apart(t, c, p, next) == PartRunes(t, p) + 1 + Runes(t, next) > c.limit

Tight(t, c, ps) == \A k \in 1..(Len(ps) - 1) : Apart(t, c, ps[k], ps[k + 1].from)

Greedy(t, c, ps, last) == InText(t, c, ps, last) /\ Tight(t, c, ps)

\* A part is being built, behind the raw parts.
Building(t, c, ps, first, last) ==
    /\ first \in 1..last
    /\ FitsAlone(t, c, first, last)
    /\ Greedy(t, c, ps, first - 1)
    /\ ps # <<>> => Apart(t, c, ps[Len(ps)], first)

SplitInv == pc = "split" /\ Segmented =>
    \/ word = 0 /\ currentRunes = 0 /\ rawParts = <<>>
    \/ /\ Building(text, cfg, rawParts, current, word)
       /\ currentRunes = Width(text, current, word)

MergeInv ==
    /\ pc = "merge" => Segmented
    /\ pc = "split" => taken = 0 /\ merged = <<>>
    /\ pc # "split" /\ Segmented => rawParts # <<>> /\ Greedy(text, cfg, rawParts, text.n)
    /\ pc = "merge" => /\ Len(merged) = taken
                       /\ \A k \in 1..taken : merged[k] = rawParts[k]
                       /\ taken > 0 => lastPartRunes = PartRunes(text, rawParts[taken])

SendInv ==
    /\ ~Cut => parts = <<>> /\ sent = 0 /\ posted = <<>>
    /\ pc \in {"check", "post", "delay", "interrupted"} => sent < Len(parts)

LoopInv ==
    /\ TypeOK /\ SplitInv /\ MergeInv /\ SendInv
    /\ NothingMerged /\ PostedInOrder

-----------------------------------------------------------------------------
(* Widths *)

\* Widths are positive, and grow by a blank and the next word.
LEMMA WidthFacts ==
    ASSUME NEW t, IsText(t), NEW from \in 1..t.n, NEW to \in from..t.n
    PROVE  /\ Width(t, from, to) \in Nat \ {0}
           /\ Runes(t, from) \in Nat \ {0}
           /\ Runes(t, from) <= Width(t, from, to)
           /\ to < t.n => Width(t, from, to + 1) = Width(t, from, to) + 1 + Runes(t, to + 1)
  <1> USE DEF IsText
  <1> DEFINE at == t.at
  <1>1. at[from - 1] \in Nat /\ at[from] \in Nat /\ at[to] \in Nat OBVIOUS
  <1>2. at[from - 1] < at[from] OBVIOUS
  <1>3. at[from] <= at[to] BY <1>1
  <1>4. to < t.n => at[to + 1] \in Nat /\ to + 1 - 1 = to OBVIOUS
  <1>5. from \in Nat /\ to \in Nat /\ from <= to OBVIOUS
  <1> HIDE DEF IsText
  <1> QED BY <1>1, <1>2, <1>3, <1>4, <1>5 DEF Width, Runes

\* Closing a part keeps the parts tight.
LEMMA GreedyAppend ==
    ASSUME NEW t, IsText(t), NEW c, NEW ps \in Seq(PartType),
           NEW from, NEW to, to \in 1..t.n, Building(t, c, ps, from, to)
    PROVE  LET qs == Append(ps, Part(from, to)) IN
           /\ qs \in Seq(PartType) /\ qs # <<>>
           /\ Greedy(t, c, qs, to)
           /\ qs[Len(qs)] = Part(from, to)
  <1> DEFINE q == Part(from, to)
             qs == Append(ps, q)
  <1>a. /\ to \in Nat /\ from \in Nat /\ from \in 1..to /\ FitsAlone(t, c, from, to)
        /\ InText(t, c, ps, from - 1) /\ Tight(t, c, ps)
        /\ ps # <<>> => Apart(t, c, ps[Len(ps)], from)
    BY DEF Building, Greedy, IsText
  <1>1. q \in PartType /\ q.from = from /\ q.to = to BY <1>a DEF Part, PartType
  <1> HIDE DEF q
  <1>2. qs \in Seq(PartType) /\ Len(qs) = Len(ps) + 1 /\ qs[Len(ps) + 1] = q
        /\ \A k \in 1..Len(ps) : qs[k] = ps[k]
    BY <1>1, AppendProperties
  <1>3. Len(ps) \in Nat /\ (ps = <<>> <=> Len(ps) = 0) BY EmptySeq, LenProperties
  <1>4. qs # <<>> /\ qs[Len(qs)] = q BY <1>2, <1>3, EmptySeq
  <1> HIDE DEF qs
  <1>5. \A k \in 1..(Len(qs) - 1) : k \in 1..Len(ps) /\ qs[k] = ps[k] BY <1>2, <1>3
  <1>6. InText(t, c, qs, to)
    <2>1. ASSUME NEW k \in 1..Len(qs)
          PROVE  /\ qs[k].from \in 1..to /\ qs[k].to \in 1..to
                 /\ qs[k].from <= qs[k].to
                 /\ FitsAlone(t, c, qs[k].from, qs[k].to)
      <3>1. CASE k = Len(qs) BY <3>1, <1>a, <1>1, <1>4
      <3>2. CASE k # Len(qs)
        <4>1. k \in 1..Len(ps) /\ qs[k] = ps[k] BY <3>2, <1>2, <1>3
        <4>2. ps[k].from \in 1..(from - 1) /\ ps[k].to \in 1..(from - 1)
              /\ ps[k].from <= ps[k].to /\ FitsAlone(t, c, ps[k].from, ps[k].to)
          BY <4>1, <1>a DEF InText
        <4> QED BY <4>1, <4>2, <1>a
      <3> QED BY <3>1, <3>2
    <2>2. ASSUME NEW k \in 1..(Len(qs) - 1) PROVE qs[k + 1].from = qs[k].to + 1
      <3>1. CASE k = Len(ps)
        <4>1. ps # <<>> BY <3>1, <1>3, <1>2
        <4>2. ps[Len(ps)].to = from - 1 BY <4>1, <1>a DEF InText
        <4> QED BY <3>1, <4>2, <1>1, <1>2, <1>5, <1>a
      <3>2. CASE k # Len(ps)
        <4>1. k \in 1..(Len(ps) - 1) /\ k + 1 \in 1..Len(ps) BY <3>2, <1>2, <1>3
        <4>2. ps[k + 1].from = ps[k].to + 1 BY <4>1, <1>a DEF InText
        <4> QED BY <4>1, <4>2, <1>2, <1>5
      <3> QED BY <3>1, <3>2
    <2>3. qs[1].from = 1
      <3>1. CASE ps = <<>> BY <3>1, <1>1, <1>2, <1>3, <1>a DEF InText
      <3>2. CASE ps # <<>> BY <3>2, <1>2, <1>3, <1>a DEF InText
      <3> QED BY <3>1, <3>2
    <2> QED BY <2>1, <2>2, <2>3, <1>1, <1>4 DEF InText
  <1>7. Tight(t, c, qs)
    <2> SUFFICES ASSUME NEW k \in 1..(Len(qs) - 1) PROVE Apart(t, c, qs[k], qs[k + 1].from)
      BY DEF Tight
    <2>1. CASE k = Len(ps) BY <2>1, <1>a, <1>1, <1>2, <1>3, <1>5
    <2>2. CASE k # Len(ps)
      <3>1. k \in 1..(Len(ps) - 1) /\ k + 1 \in 1..Len(ps) BY <2>2, <1>2, <1>3
      <3>2. Apart(t, c, ps[k], ps[k + 1].from) BY <3>1, <1>a DEF Tight
      <3> QED BY <3>1, <3>2, <1>2, <1>5
    <2> QED BY <2>1, <2>2
  <1> QED BY <1>2, <1>4, <1>6, <1>7 DEF Greedy, qs, q

\* Nothing the first loop has produced can be merged.
LEMMA TightMeansUnmergeable ==
    ASSUME NEW t, IsText(t), NEW c \in BotConfig, NEW ps \in Seq(PartType),
           Greedy(t, c, ps, t.n), NEW k \in 1..(Len(ps) - 1)
    PROVE  ~(PartRunes(t, ps[k]) + 1 + PartRunes(t, ps[k + 1]) <= c.limit)
  <1> DEFINE p == ps[k]
             q == ps[k + 1]
  <1>1. k + 1 \in 1..Len(ps) /\ k \in 1..Len(ps) BY LenProperties
  <1>2. /\ q.from \in 1..t.n /\ q.to \in q.from..t.n
        /\ p.from \in 1..t.n /\ p.to \in p.from..t.n
    BY <1>1 DEF Greedy, InText, IsText
  <1>3. PartRunes(t, p) + 1 + Runes(t, q.from) > c.limit BY DEF Greedy, Tight, Apart
  <1> HIDE DEF p, q
  <1>4. PartRunes(t, p) \in Nat /\ PartRunes(t, q) \in Nat /\ Runes(t, q.from) \in Nat
        /\ Runes(t, q.from) <= PartRunes(t, q)
    BY <1>2, WidthFacts DEF PartRunes
  <1>5. c.limit \in Nat BY DEF BotConfig
  <1>6. ~(PartRunes(t, p) + 1 + PartRunes(t, q) <= c.limit) BY <1>3, <1>4, <1>5
  <1> QED BY <1>6 DEF p, q

-----------------------------------------------------------------------------
(* The loop invariant *)

\* No word has been read.
LEMMA InitLoopInv == Init => LoopInv
  <1> SUFFICES ASSUME Init PROVE LoopInv OBVIOUS
  <1>1. IsText(text) /\ cfg \in BotConfig
    BY TextsAssumption, ConfigsAssumption DEF Init
  <1>2. text.n \in Nat BY <1>1 DEF IsText
  <1>3. /\ rawParts \in Seq(PartType) /\ merged \in Seq(PartType) /\ parts \in Seq(PartType)
        /\ posted \in Seq(PostedType)
        /\ Len(rawParts) = 0 /\ Len(merged) = 0 /\ Len(parts) = 0 /\ Len(posted) = 0
    BY EmptySeq DEF Init
  <1>4. TypeOK
    <2>1. word = 0 /\ current = 0 /\ currentRunes = 0 /\ lastPartRunes = 0 BY DEF Init
    <2>3. word \in 0..text.n /\ current \in 0..text.n
      BY <1>2, <2>1
    <2>4. pc \in Working /\ cancelled \in BOOLEAN BY DEF Init, Working
    <2>2. taken \in 0..Len(rawParts) /\ sent \in 0..Len(parts) BY <1>3 DEF Init
    <2> QED BY <1>1, <1>3, <2>1, <2>2, <2>3, <2>4 DEF TypeOK
  <1>5. SplitInv /\ MergeInv BY DEF Init, SplitInv, MergeInv
  <1>6. SendInv /\ NothingMerged /\ PostedInOrder
    BY <1>3 DEF Init, SendInv, NothingMerged, PostedInOrder, Cut
  <1> QED BY <1>4, <1>5, <1>6 DEF LoopInv

\* A step of the first loop changes nothing but its own variables.
LEMMA SplitStep ==
    ASSUME LoopInv, NextWord, SplitInv', current' \in 0..text.n, currentRunes' \in Nat,
           rawParts' \in Seq(PartType)
    PROVE  LoopInv'
  <1> USE DEF LoopInv, NextWord, mergeVars, sendVars
  <1>1. text.n \in Nat /\ word' \in 0..text.n BY DEF TypeOK, IsText
  <1>2. taken = 0 /\ taken' = 0 BY DEF MergeInv
  <1>3. taken' \in 0..Len(rawParts') BY <1>2, LenProperties
  <1>4. TypeOK' BY <1>1, <1>3 DEF TypeOK
  <1>5. MergeInv' BY DEF MergeInv
  <1>6. SendInv' /\ NothingMerged' /\ PostedInOrder'
    BY DEF SendInv, NothingMerged, PostedInOrder, Cut
  <1> QED BY <1>4, <1>5, <1>6

\* The first loop of segmentContent keeps its parts tight.
LEMMA FirstLoop ==
    ASSUME LoopInv, StartPart \/ ExtendPart \/ CutPart
    PROVE  LoopInv'
  <1> USE DEF LoopInv
  <1>a. /\ IsText(text) /\ text.n \in Nat /\ word \in 0..text.n /\ cfg.limit \in Nat
        /\ currentRunes \in Nat /\ rawParts \in Seq(PartType) /\ cfg \in BotConfig
    BY DEF TypeOK, IsText, BotConfig
  <1>b. /\ NextWord
        /\ word < text.n /\ word' = word + 1 /\ text' = text /\ cfg' = cfg /\ pc = "split"
        /\ Segmented
    BY DEF StartPart, ExtendPart, CutPart, NextWord
  <1>c. word + 1 \in 1..text.n /\ word + 1 \in (word + 1)..text.n BY <1>a, <1>b
  <1>d. Runes(text, word + 1) \in Nat \ {0} BY <1>a, <1>c, WidthFacts
  \* The invariant after the step, in terms of the new values.
  <1>e. ASSUME Building(text, cfg, rawParts', current', word + 1),
               currentRunes' = Width(text, current', word + 1)
        PROVE  SplitInv'
    BY <1>b, <1>e DEF SplitInv
  <1>1. CASE StartPart
    <2>1. word = 0 /\ rawParts = <<>>
      <3>1. ASSUME current \in 1..word, currentRunes = Width(text, current, word) PROVE FALSE
        <4>1. word \in current..text.n /\ current \in 1..text.n BY <1>a, <3>1
        <4>2. Width(text, current, word) \in Nat \ {0} BY <1>a, <4>1, WidthFacts
        <4> QED BY <1>1, <3>1, <4>2 DEF StartPart
      <3> QED BY <1>b, <3>1 DEF SplitInv, Building
    <2>2. /\ current' = 1 /\ word + 1 = 1 /\ currentRunes' = Runes(text, 1)
          /\ rawParts' = <<>> /\ current' = word + 1
      BY <1>1, <2>1 DEF StartPart, Runes
    <2>3. Len(rawParts') = 0 BY <2>2, EmptySeq
    <2>4. Greedy(text, cfg, rawParts', 0) BY <2>2, <2>3 DEF Greedy, InText, Tight
    <2>5. Building(text, cfg, rawParts', 1, 1) BY <2>2, <2>4 DEF Building, FitsAlone
    <2>6. SplitInv' BY <1>e, <2>2, <2>5 DEF Runes
    <2>7. current' \in 0..text.n /\ currentRunes' \in Nat /\ rawParts' \in Seq(PartType)
      BY <1>a, <1>c, <1>d, <2>1, <2>2
    <2> QED BY <1>b, <2>6, <2>7, SplitStep
  <1>2. ASSUME currentRunes > 0
        PROVE  /\ Building(text, cfg, rawParts, current, word)
               /\ currentRunes = Width(text, current, word)
               /\ current \in 1..text.n /\ word \in current..text.n /\ word \in 1..text.n
    <2>1. ~(currentRunes = 0) BY <1>2, <1>a
    <2>2. Building(text, cfg, rawParts, current, word)
          /\ currentRunes = Width(text, current, word)
      BY <1>b, <2>1 DEF SplitInv
    <2> QED BY <2>2, <1>a DEF Building
  <1>3. CASE ExtendPart
    <2> USE <1>3 DEF ExtendPart
    <2>1. /\ Building(text, cfg, rawParts, current, word)
          /\ currentRunes = Width(text, current, word)
          /\ current \in 1..text.n /\ word \in current..text.n
      BY <1>2
    <2>2. currentRunes' = currentRunes + 1 + Runes(text, word + 1) BY DEF Runes
    <2>3. Width(text, current, word + 1) = Width(text, current, word) + 1 + Runes(text, word + 1)
      BY <1>a, <1>b, <2>1, WidthFacts
    <2>4. currentRunes' <= cfg.limit /\ currentRunes' \in Nat
      BY <1>a, <1>d DEF Fits, Runes
    <2>5. FitsAlone(text, cfg, current, word + 1) BY <2>1, <2>2, <2>3, <2>4 DEF FitsAlone
    <2>6. current' = current /\ rawParts' = rawParts OBVIOUS
    <2>7. current \in 1..(word + 1) BY <1>a, <2>1
    <2>8. Building(text, cfg, rawParts', current', word + 1)
      BY <2>1, <2>5, <2>6, <2>7 DEF Building
    <2>9. SplitInv' BY <1>e, <2>1, <2>2, <2>3, <2>6, <2>8
    <2> QED BY <1>a, <1>b, <2>1, <2>4, <2>6, <2>9, SplitStep
  <1>4. CASE CutPart
    <2>0. /\ currentRunes > 0 /\ ~Fits(Runes(text, word + 1))
          /\ rawParts' = Append(rawParts, Part(current, word))
          /\ current' = word + 1 /\ currentRunes' = Runes(text, word + 1)
      BY <1>4 DEF CutPart, Runes
    <2>1. /\ Building(text, cfg, rawParts, current, word)
          /\ currentRunes = Width(text, current, word)
          /\ word \in 1..text.n
      BY <1>2, <2>0
    <2>2. /\ rawParts' \in Seq(PartType) /\ Greedy(text, cfg, rawParts', word)
          /\ rawParts'[Len(rawParts')] = Part(current, word)
      BY <1>a, <2>0, <2>1, GreedyAppend
    <2>3. PartRunes(text, Part(current, word)) = currentRunes BY <2>1 DEF PartRunes, Part
    <2>4. currentRunes + 1 + Runes(text, word + 1) > cfg.limit
      BY <1>a, <1>d, <2>0 DEF Fits
    <2>5. Apart(text, cfg, Part(current, word), word + 1) BY <2>3, <2>4 DEF Apart
    <2>6. (word + 1) - 1 = word /\ word + 1 \in 1..(word + 1) BY <1>a
    <2>7. Building(text, cfg, rawParts', word + 1, word + 1)
      BY <2>2, <2>5, <2>6 DEF Building, FitsAlone
    <2>8. SplitInv' BY <1>e, <2>0, <2>7 DEF Runes
    <2> QED BY <1>b, <1>c, <1>a, <1>d, <2>0, <2>2, <2>8, SplitStep
  <1> QED BY <1>1, <1>3, <1>4

\* Its end closes the last part.
LEMMA EndOfFirstLoop ==
    ASSUME LoopInv, KeepWhole \/ FlushPart
    PROVE  LoopInv'
  <1> USE DEF LoopInv
  <1>a. /\ IsText(text) /\ text.n \in Nat /\ word \in 0..text.n /\ cfg \in BotConfig
        /\ currentRunes \in Nat /\ rawParts \in Seq(PartType) /\ cfg.minSize \in Nat
        /\ pc = "split"
    BY DEF TypeOK, IsText, BotConfig, KeepWhole, FlushPart
  <1>b. taken = 0 /\ merged = <<>> /\ parts = <<>> /\ sent = 0 /\ posted = <<>>
        /\ Len(posted) = 0
    BY <1>a, EmptySeq DEF MergeInv, SendInv, Cut
  <1>1. CASE KeepWhole
    <2> USE <1>1 DEF KeepWhole, splitVars, mergeVars, sendVars
    <2>1. parts' \in Seq(PartType) /\ Len(parts') = 1 BY <1>a DEF Part, PartType
    <2>2. ~Segmented' BY DEF Segmented
    <2>3. TypeOK' BY <1>a, <1>b, <2>1 DEF TypeOK, Working
    <2>4. SendInv' /\ PostedInOrder' BY <1>b, <2>1 DEF SendInv, PostedInOrder, Cut
    <2> QED BY <2>2, <2>3, <2>4 DEF SplitInv, MergeInv, NothingMerged
  <1>2. CASE FlushPart
    <2> USE <1>2 DEF FlushPart, mergeVars, sendVars
    <2>1. word > 0 /\ word = text.n /\ Segmented BY <1>a DEF Segmented
    <2>2. /\ Building(text, cfg, rawParts, current, word)
          /\ currentRunes = Width(text, current, word)
      BY <1>a, <2>1 DEF SplitInv
    <2>3. current \in 1..text.n /\ word \in current..text.n /\ word \in 1..text.n
      BY <1>a, <2>1, <2>2 DEF Building
    <2>4. Width(text, current, word) \in Nat \ {0} BY <1>a, <2>3, WidthFacts
    <2>5. rawParts' = Append(rawParts, Part(current, word)) BY <2>2, <2>4
    <2>6. /\ rawParts' \in Seq(PartType) /\ rawParts' # <<>>
          /\ Greedy(text, cfg, rawParts', text.n)
      BY <1>a, <2>1, <2>2, <2>3, <2>5, GreedyAppend
    <2>7. text' = text /\ cfg' = cfg /\ word' = word /\ current' = current
          /\ currentRunes' = currentRunes /\ cancelled' = cancelled
          /\ taken' = taken /\ merged' = merged /\ lastPartRunes' = lastPartRunes
          /\ sent' = sent /\ posted' = posted
      OBVIOUS
    <2>8. Segmented' BY <2>1, <2>7 DEF Segmented
    <2>9. \/ pc' = "check" /\ parts' = rawParts'
          \/ pc' = "merge" /\ parts' = <<>>
      BY <1>b
    <2>10. Len(rawParts') \in Nat /\ Len(rawParts') > 0 BY <2>6, EmptySeq, LenProperties
    <2>11. parts' \in Seq(PartType) /\ 0 \in 0..Len(parts')
      <3>1. CASE parts' = rawParts' BY <2>6, <2>10, <3>1
      <3>2. CASE parts' = <<>>
        <4>1. <<>> \in Seq(PartType) /\ Len(<<>>) = 0 BY EmptySeq
        <4> HIDE <1>2
        <4> QED BY <3>2, <4>1
      <3> QED BY <2>9, <3>1, <3>2
    <2> HIDE <1>2 DEF FlushPart, mergeVars, sendVars
    <2>12. TypeOK' BY <1>b, <2>6, <2>7, <2>9, <2>10, <2>11 DEF TypeOK, Working
    <2>13. MergeInv'
      <3>1. Len(merged') = taken' /\ \A k \in 1..taken' : merged'[k] = rawParts'[k]
        BY <1>b, <2>7, EmptySeq
      <3>2. Greedy(text, cfg, rawParts, text.n)' BY <2>6, <2>7
      <3> QED BY <1>b, <2>6, <2>7, <2>8, <2>9, <3>1, <3>2 DEF MergeInv
    <2>14. SendInv' /\ PostedInOrder'
      BY <1>b, <2>7, <2>9, <2>10 DEF SendInv, PostedInOrder, Cut
    <2>15. SplitInv' BY <2>9 DEF SplitInv
    <2>16. NothingMerged' BY <2>9 DEF NothingMerged, Cut
    <2> QED BY <2>12, <2>13, <2>14, <2>15, <2>16
  <1> QED BY <1>1, <1>2

\* The second loop copies what is tight.
LEMMA SecondLoop ==
    ASSUME LoopInv, MergeRawPart \/ Merged
    PROVE  LoopInv'
  <1> USE DEF LoopInv
  <1>a. /\ Segmented /\ pc = "merge" /\ Greedy(text, cfg, rawParts, text.n) /\ rawParts # <<>>
        /\ Len(merged) = taken /\ \A k \in 1..taken : merged[k] = rawParts[k]
        /\ taken > 0 => lastPartRunes = PartRunes(text, rawParts[taken])
        /\ parts = <<>> /\ sent = 0 /\ posted = <<>>
    BY DEF MergeRawPart, Merged, MergeInv, SendInv, Cut
  <1>b. /\ rawParts \in Seq(PartType) /\ merged \in Seq(PartType) /\ taken \in 0..Len(rawParts)
        /\ Len(rawParts) \in Nat /\ IsText(text) /\ cfg \in BotConfig
        /\ Len(rawParts) > 0 /\ Len(posted) = 0
    BY <1>a, EmptySeq, LenProperties DEF TypeOK
  <1>c. text' = text /\ cfg' = cfg /\ rawParts' = rawParts /\ sent' = sent /\ posted' = posted
        /\ word' = word /\ current' = current /\ currentRunes' = currentRunes
        /\ cancelled' = cancelled
    BY DEF MergeRawPart, Merged, splitVars, sendVars
  <1>d. Segmented' /\ Greedy(text, cfg, rawParts, text.n)'
    BY <1>a, <1>c DEF Segmented
  <1>1. CASE MergeRawPart
    <2> DEFINE p == rawParts[taken + 1]
    <2>0. taken < Len(rawParts) /\ pc' = "merge" /\ parts' = parts /\ taken' = taken + 1
      BY <1>1, <1>a DEF MergeRawPart
    <2>1. taken + 1 \in 1..Len(rawParts) /\ p \in PartType
          /\ p.from \in 1..text.n /\ p.to \in p.from..text.n
      BY <1>a, <1>b, <2>0, ElementOfSeq DEF Greedy, InText, IsText
    <2>2. ~Mergeable(PartRunes(text, p))
      <3>1. CASE taken = 0 BY <3>1, <1>a, <1>b, EmptySeq DEF Mergeable
      <3>2. CASE taken > 0
        <4>1. taken \in 1..(Len(rawParts) - 1) BY <3>2, <2>0, <1>b
        <4>2. ~(PartRunes(text, rawParts[taken]) + 1 + PartRunes(text, p) <= cfg.limit)
          BY <4>1, <1>a, <1>b, TightMeansUnmergeable
        <4> QED BY <3>2, <4>2, <1>a DEF Mergeable
      <3> QED BY <1>b, <3>1, <3>2
    <2>3. merged' = Append(merged, p) /\ lastPartRunes' = PartRunes(text, p)
      BY <1>1, <2>2 DEF MergeRawPart
    <2>4. PartRunes(text, p) \in Nat BY <1>b, <2>1, WidthFacts DEF PartRunes
    <2>5. /\ merged' \in Seq(PartType) /\ Len(merged') = taken + 1
          /\ merged'[taken + 1] = p /\ \A k \in 1..taken : merged'[k] = merged[k]
      BY <1>a, <1>b, <2>1, <2>3, AppendProperties
    <2> HIDE DEF p
    <2>6. \A k \in 1..(taken + 1) : merged'[k] = rawParts[k]
      BY <1>a, <1>b, <2>5 DEF p
    <2>7. TypeOK' BY <1>a, <1>b, <1>c, <2>0, <2>1, <2>3, <2>4, <2>5 DEF TypeOK
    <2>8. MergeInv'
      BY <1>a, <1>c, <1>d, <2>0, <2>3, <2>5, <2>6 DEF MergeInv, p
    <2>9. SplitInv' /\ SendInv' /\ NothingMerged' /\ PostedInOrder'
      BY <1>a, <1>b, <1>c, <2>0 DEF SplitInv, SendInv, Cut, NothingMerged, PostedInOrder
    <2> QED BY <2>7, <2>8, <2>9
  <1>2. CASE Merged
    <2>0. taken = Len(rawParts) /\ parts' = merged /\ pc' = "check"
          /\ taken' = taken /\ merged' = merged /\ lastPartRunes' = lastPartRunes
      BY <1>2 DEF Merged, mergeVars
    <2>1. merged = rawParts BY <1>a, <1>b, <2>0, SeqEqual
    <2>3. TypeOK' BY <1>a, <1>b, <1>c, <2>0, <2>1 DEF TypeOK, Working
    <2>4. MergeInv' BY <1>a, <1>c, <1>d, <2>0 DEF MergeInv
    <2>5. SendInv' /\ PostedInOrder' BY <1>a, <1>b, <1>c, <2>0, <2>1 DEF SendInv, PostedInOrder, Cut
    <2>6. SplitInv' /\ NothingMerged' BY <1>c, <2>0, <2>1 DEF SplitInv, NothingMerged
    <2> QED BY <2>3, <2>4, <2>5, <2>6
  <1> QED BY <1>1, <1>2

\* The sending loop posts the next part, or stops.
LEMMA Sending ==
    ASSUME LoopInv, Check \/ Post \/ Delay \/ Cancel \/ UNCHANGED vars
    PROVE  LoopInv'
  <1> USE DEF LoopInv, vars, splitVars, mergeVars, sendVars
  <1>a. UNCHANGED <<text, cfg, splitVars, mergeVars, parts>>
    BY DEF Check, Post, Delay, Cancel
  <1>b. /\ parts \in Seq(PartType) /\ sent \in 0..Len(parts) /\ posted \in Seq(PostedType)
        /\ Len(parts) \in Nat
    BY DEF TypeOK
  <1>1. CASE UNCHANGED <<pc, sent, posted>>
    <2>1. cancelled' \in BOOLEAN BY <1>1 DEF TypeOK, Check, Post, Delay, Cancel
    <2>2. TypeOK' BY <1>a, <1>1, <2>1 DEF TypeOK
    <2>3. SplitInv' /\ MergeInv'
      BY <1>a, <1>1 DEF SplitInv, MergeInv, Segmented
    <2>4. SendInv' /\ NothingMerged' /\ PostedInOrder'
      BY <1>a, <1>1 DEF SendInv, NothingMerged, PostedInOrder, Cut, Segmented, Signed
    <2> QED BY <2>2, <2>3, <2>4
  <1>2. ASSUME Cut, Cut', pc' \in Working \cup Results, cancelled' = cancelled,
               sent' \in 0..Len(parts), posted' \in Seq(PostedType),
               pc' \in {"check", "post", "delay", "interrupted"} => sent' < Len(parts),
               PostedInOrder'
        PROVE  LoopInv'
    <2>1. TypeOK' BY <1>a, <1>2 DEF TypeOK
    <2>2. SplitInv' /\ MergeInv'
      BY <1>a, <1>2 DEF SplitInv, MergeInv, Segmented, Cut
    <2>3. SendInv' /\ NothingMerged'
      BY <1>a, <1>2 DEF SendInv, NothingMerged, Segmented
    <2> QED BY <1>2, <2>1, <2>2, <2>3
  <1>3. CASE Check
    <2> USE <1>3 DEF Check, Cut
    <2>1. PostedInOrder' BY <1>a DEF PostedInOrder, Signed
    <2> QED BY <1>2, <1>b, <2>1 DEF SendInv, Working, Results
  <1>4. CASE Delay
    <2> USE <1>4 DEF Delay, Cut, LoopFrom
    <2>1. PostedInOrder' BY <1>a DEF PostedInOrder, Signed
    <2> QED BY <1>2, <1>b, <2>1 DEF SendInv, Working, Results
  <1>5. CASE Post
    <2> USE <1>5 DEF Post
    <2>1. sent < Len(parts) /\ Len(posted) = sent
          /\ \A k \in 1..Len(posted) : k <= Len(parts) /\ posted[k] = Signed(k)
      BY DEF SendInv, PostedInOrder
    <2>2. sent + 1 \in 1..Len(parts) BY <1>b, <2>1
    <2>3. Signed(sent + 1) \in PostedType
      BY <1>b, <2>2 DEF Signed, PostedType, TypeOK, BotConfig
    <2> DEFINE more == Append(posted, Signed(sent + 1))
    <2>4. /\ more \in Seq(PostedType) /\ Len(more) = sent + 1
          /\ \A k \in 1..Len(more) : k <= Len(parts) /\ more[k] = Signed(k)
      BY <1>b, <2>1, <2>2, <2>3
    <2> HIDE DEF more
    <2>5. \/ posted' = more /\ sent' = sent + 1 /\ pc' = Pause
          \/ posted' \in {more, posted} /\ sent' = sent /\ pc' = "failed"
      BY DEF more
    <2>6. PostedInOrder' BY <1>a, <1>b, <2>1, <2>4, <2>5 DEF PostedInOrder, Signed
    <2>7. pc' \in {"check", "delay", "completed", "failed"} BY <2>5 DEF Pause, LoopFrom
    <2>8. pc' \in {"check", "delay"} => sent' < Len(parts)
      BY <1>b, <2>2, <2>5 DEF Pause, LoopFrom
    <2>9. sent' \in 0..Len(parts) /\ posted' \in Seq(PostedType) BY <1>b, <2>2, <2>4, <2>5
    <2> QED BY <1>2, <2>6, <2>7, <2>8, <2>9 DEF Working, Results, Cut
  <1> QED BY <1>1, <1>3, <1>4, <1>5 DEF Cancel

\* Every step keeps the invariant.
LEMMA NextLoopInv == LoopInv /\ [Next]_vars => LoopInv'
  BY FirstLoop, EndOfFirstLoop, SecondLoop, Sending DEF Next, segmentContent

\* The inductive invariant of the three loops.
LEMMA LoopInvariant == Spec => []LoopInv
  BY InitLoopInv, NextLoopInv, PTL DEF Spec

-----------------------------------------------------------------------------
(* No other way of cutting makes fewer parts                               *)

\* Any set of natural numbers has a first one.
LEMMA FirstNatural ==
    ASSUME NEW T \in SUBSET Nat, T # {}
    PROVE  \E x \in T : \A y \in T : x <= y
  <1> DEFINE Less == {ss \in Nat \X Nat : ss[1] < ss[2]}
  <1>1. IsWellFoundedOn(Less, Nat)
    BY NatLessThanWellFounded DEF OpToRel
  <1>2. \A x, y \in Nat : <<y, x>> \notin Less => x <= y
    OBVIOUS
  <1> HIDE DEF Less
  <1>3. PICK x \in T : \A y \in T : ~ (<<y, x>> \in Less)
    BY <1>1, WFMin, Zenon
  <1> QED BY <1>2, <1>3

\* A text of n words, cut at its ends and elsewhere, but not within or right
\* behind the words from..to.
Uncut(n, ends, from, to) ==
  /\ n \in Nat /\ ends \in SUBSET (0..n) /\ 0 \in ends /\ n \in ends
  /\ from \in 1..n /\ to \in from..n /\ to < n
  /\ \A c \in ends : c < from \/ to < c

\* Two cuts with no cut between them enclose these words.
LEMMA Neighbours ==
    ASSUME NEW n, NEW ends, NEW from, NEW to, Uncut(n, ends, from, to)
    PROVE  \E a, b \in ends : /\ a < from /\ to < b
                              /\ \A c \in ends : c <= a \/ b <= c
  <1> USE DEF Uncut
  <1> DEFINE above == {c \in ends : to < c}
             below == {n - c : c \in {d \in ends : d < from}}
  <1>1. \A c \in ends : c \in 0..n OBVIOUS
  <1>2. above \in SUBSET Nat /\ n \in above
    <2>1. \A c \in above : c \in Nat BY <1>1
    <2>2. n \in above OBVIOUS
    <2> HIDE DEF above
    <2> QED BY <2>1, <2>2
  <1>3. below \in SUBSET Nat /\ n - 0 \in below BY <1>1
  <1>4. PICK b \in above : \A c \in above : b <= c BY <1>2, FirstNatural
  <1>5. PICK d \in below : \A e \in below : d <= e BY <1>3, FirstNatural
  <1>6. PICK a \in ends : a < from /\ d = n - a BY <1>5
  <1>7. \A c \in ends : c < from => c <= a
    <2> TAKE c \in ends
    <2>1. c < from => n - c \in below OBVIOUS
    <2> HIDE DEF below
    <2>2. c < from => n - a <= n - c BY <1>5, <1>6, <2>1
    <2> QED BY <1>1, <2>2
  <1>8. b \in ends /\ to < b /\ \A c \in ends : to < c => b <= c BY <1>4
  <1> HIDE DEF above, below
  <1> QED BY <1>6, <1>7, <1>8

\* A stretch of words that contains a part and the word behind it is longer
\* than the limit.
LEMMA WiderStretch ==
    ASSUME NEW t, IsText(t), NEW c \in BotConfig,
           NEW from \in 1..t.n, NEW to \in from..t.n, to < t.n,
           Apart(t, c, Part(from, to), to + 1),
           NEW a \in 0..t.n, NEW b \in 0..t.n, a < from, to < b
    PROVE  ~FitsAlone(t, c, a + 1, b)
  <1>1. /\ t.n \in Nat /\ t.at \in [0..t.n -> Nat]
        /\ \A j, k \in 0..t.n : j < k => t.at[j] < t.at[k]
    BY DEF IsText
  <1>2. /\ from - 1 \in 0..t.n /\ to \in 0..t.n /\ to + 1 \in 0..t.n
        /\ from \in Nat /\ to \in Nat /\ a \in Nat /\ b \in Nat
    BY <1>1
  <1>3. \A j, k \in 0..t.n : j <= k => t.at[j] <= t.at[k]
    <2> TAKE j, k \in 0..t.n
    <2>1. t.at[j] \in Nat /\ t.at[k] \in Nat BY <1>1
    <2>2. CASE j = k BY <2>1, <2>2
    <2>3. CASE j < k BY <1>1, <2>1, <2>3
    <2> QED BY <1>1, <2>2, <2>3
  <1>4. t.at[a] <= t.at[from - 1] /\ t.at[to + 1] <= t.at[b]
    BY <1>2, <1>3
  <1>5. /\ t.at[a] \in Nat /\ t.at[b] \in Nat /\ t.at[from - 1] \in Nat
        /\ t.at[to] \in Nat /\ t.at[to + 1] \in Nat
    BY <1>1, <1>2
  <1>6. c.limit \in Nat BY DEF BotConfig
  <1>7. (t.at[to] - t.at[from - 1]) + (to - from) + 1
           + ((t.at[to + 1] - t.at[(to + 1) - 1]) + ((to + 1) - (to + 1))) > c.limit
    BY DEF Apart, PartRunes, Runes, Width, Part
  <1>8. (to + 1) - 1 = to /\ (a + 1) - 1 = a BY <1>2
  <1>9. Width(t, a + 1, b) = (t.at[b] - t.at[a]) + (b - (a + 1))
    BY <1>8 DEF Width
  <1>10. Width(t, a + 1, b) > c.limit
    BY <1>2, <1>4, <1>5, <1>6, <1>7, <1>8, <1>9
  <1>11. Width(t, a + 1, b) \in Int BY <1>2, <1>5, <1>9
  <1>12. a + 1 # b BY <1>2
  <1> QED BY <1>6, <1>10, <1>11, <1>12 DEF FitsAlone

\* Parts that are tight cannot be saved: any other way of cutting has a cut
\* inside each part but the last.
LEMMA CutInside ==
    ASSUME NEW t, IsText(t), NEW c \in BotConfig, NEW ps \in Seq(PartType),
           Greedy(t, c, ps, t.n), NEW k \in 1..(Len(ps) - 1),
           NEW cuts \in SUBSET (1..(t.n - 1)),
           \A a, b \in cuts \cup {0, t.n} :
              a < b /\ (\A e \in cuts \cup {0, t.n} : e <= a \/ b <= e)
                 => FitsAlone(t, c, a + 1, b)
    PROVE  \E e \in cuts : ps[k].from <= e /\ e <= ps[k].to
  <1> DEFINE ends == cuts \cup {0, t.n}
             from == ps[k].from
             to == ps[k].to
  <1>1. t.n \in Nat BY DEF IsText
  <1>2. /\ Len(ps) \in Nat /\ k \in 1..Len(ps) /\ k + 1 \in 1..Len(ps)
    BY DEF Greedy
  <1>3. /\ from \in 1..t.n /\ to \in 1..t.n /\ from <= to
        /\ ps[k + 1].from = to + 1 /\ ps[k + 1].from \in 1..t.n
    BY <1>2 DEF Greedy, InText
  <1>4. Apart(t, c, ps[k], to + 1)
    BY <1>3 DEF Greedy, Tight
  <1>5. Apart(t, c, Part(from, to), to + 1)
    BY <1>4 DEF Apart, PartRunes, Part
  <1> HIDE DEF from, to
  <1>6. to \in from..t.n /\ to < t.n BY <1>1, <1>3
  <1> SUFFICES ASSUME \A e \in cuts : e < from \/ to < e PROVE FALSE
    <2>1. \A e \in cuts : e \in Nat BY <1>1
    <2> QED BY <1>3, <2>1 DEF from, to
  <1>7. ends \in SUBSET (0..t.n) /\ 0 \in ends /\ t.n \in ends
    <2>1. \A e \in cuts : e \in 0..t.n BY <1>1
    <2>2. 0 \in 0..t.n /\ t.n \in 0..t.n BY <1>1
    <2>3. \A e \in ends : e \in 0..t.n BY <2>1, <2>2
    <2>4. 0 \in ends /\ t.n \in ends OBVIOUS
    <2> HIDE DEF ends
    <2> QED BY <2>3, <2>4
  <1>8. \A e \in ends : e < from \/ to < e BY <1>1, <1>3, <1>6
  <1>9. \A a, b \in ends : a < b /\ (\A e \in ends : e <= a \/ b <= e)
            => FitsAlone(t, c, a + 1, b)
    OBVIOUS
  <1> HIDE DEF ends
  <1>10. PICK a, b \in ends : /\ a < from /\ to < b
                              /\ \A e \in ends : e <= a \/ b <= e
    <2>1. Uncut(t.n, ends, from, to) BY <1>1, <1>3, <1>6, <1>7, <1>8 DEF Uncut
    <2> QED BY <2>1, Neighbours
  <1>11. a \in 0..t.n /\ b \in 0..t.n BY <1>7
  <1>12. a < b BY <1>3, <1>10, <1>11
  <1>13. FitsAlone(t, c, a + 1, b) BY <1>9, <1>10, <1>12
  <1> QED BY <1>1, <1>3, <1>5, <1>6, <1>10, <1>11, <1>13, WiderStretch

\* The parts are in order.
LEMMA PartsDisjoint ==
    ASSUME NEW t, IsText(t), NEW c, NEW ps \in Seq(PartType), InText(t, c, ps, t.n),
           NEW j \in 1..Len(ps), NEW k \in 1..Len(ps), j < k
    PROVE  ps[j].to < ps[k].from
  <1> DEFINE T == {i \in (j + 1)..Len(ps) : ~(ps[j].to < ps[i].from)}
  <1>1. Len(ps) \in Nat /\ t.n \in Nat BY DEF IsText
  <1>2. \A i \in 1..Len(ps) : /\ ps[i].from \in Nat /\ ps[i].to \in Nat
                              /\ ps[i].from <= ps[i].to
    BY <1>1 DEF InText
  <1>3. ASSUME T # {} PROVE FALSE
    <2>1. T \in SUBSET Nat BY <1>1
    <2> HIDE DEF T
    <2>2. PICK i \in T : \A x \in T : i <= x BY <1>3, <2>1, FirstNatural
    <2>3. i \in (j + 1)..Len(ps) /\ ~(ps[j].to < ps[i].from) BY DEF T
    <2>4. i - 1 \in 1..(Len(ps) - 1) /\ (i - 1) + 1 = i BY <1>1, <2>3
    <2>5. ps[i].from = ps[i - 1].to + 1 BY <2>4 DEF InText
    <2>6. i - 1 \in 1..Len(ps) BY <1>1, <2>4
    <2>7. CASE i = j + 1
      <3>1. i - 1 = j BY <1>1, <2>7
      <3> QED BY <1>2, <2>3, <2>5, <3>1
    <2>8. CASE i # j + 1
      <3>1. i - 1 \in (j + 1)..Len(ps) BY <1>1, <2>3, <2>8
      <3>2. i - 1 \notin T BY <2>1, <2>2
      <3>3. ps[j].to < ps[i - 1].from BY <3>1, <3>2 DEF T
      <3> QED BY <1>2, <2>3, <2>5, <2>6, <3>3
    <2> QED BY <2>7, <2>8
  <1>4. k \in (j + 1)..Len(ps) BY <1>1
  <1> QED BY <1>3, <1>4

\* Fewest: whatever the reply and the limit, the greedy loop makes as few parts
\* as any way of cutting at word boundaries.
LEMMA GreedyIsFewest ==
    ASSUME NEW t, IsText(t), NEW c \in BotConfig, NEW ps \in Seq(PartType),
           Greedy(t, c, ps, t.n), ps # <<>>,
           NEW cuts \in SUBSET (1..(t.n - 1)),
           \A a, b \in cuts \cup {0, t.n} :
              a < b /\ (\A e \in cuts \cup {0, t.n} : e <= a \/ b <= e)
                 => FitsAlone(t, c, a + 1, b)
    PROVE  Len(ps) <= Cardinality(cuts) + 1
  <1> DEFINE Ks == 1..(Len(ps) - 1)
             inside(k) == {e \in cuts : ps[k].from <= e /\ e <= ps[k].to}
             f == [k \in Ks |-> CHOOSE e \in cuts : e \in inside(k)]
  <1>1. t.n \in Nat /\ Len(ps) \in Nat /\ Len(ps) >= 1 BY DEF IsText
  <1>2. \A k \in Ks : f[k] \in cuts /\ ps[k].from <= f[k] /\ f[k] <= ps[k].to
    <2> TAKE k \in Ks
    <2>1. \E e \in cuts : e \in inside(k) BY CutInside
    <2>2. f[k] \in cuts /\ f[k] \in inside(k) BY <2>1, Zenon
    <2> QED BY <2>2
  <1> HIDE DEF f
  <1>3. \A e \in cuts : e \in Nat BY <1>1
  <1>4. \A k \in Ks : k \in 1..Len(ps) /\ ps[k].from \in Nat /\ ps[k].to \in Nat
    BY <1>1 DEF Greedy, InText
  <1>5. ASSUME NEW j \in Ks, NEW k \in Ks, j < k PROVE f[j] < f[k]
    <2>1. ps[j].to < ps[k].from BY <1>4, <1>5, PartsDisjoint DEF Greedy
    <2>2. f[j] <= ps[j].to /\ ps[k].from <= f[k] BY <1>2
    <2>3. /\ f[j] \in Nat /\ f[k] \in Nat
          /\ ps[j].to \in Nat /\ ps[k].from \in Nat
      BY <1>2, <1>3, <1>4
    <2> QED BY <2>1, <2>2, <2>3
  <1>6. \A j, k \in Ks : f[j] = f[k] => j = k
    <2> TAKE j, k \in Ks
    <2>1. j < k \/ k < j \/ j = k BY <1>1
    <2>2. f[j] \in Nat /\ f[k] \in Nat BY <1>2, <1>3
    <2> QED BY <1>5, <2>1, <2>2
  <1>7. f \in Injection(Ks, cuts)
    <2>1. f \in [Ks -> cuts] BY <1>2 DEF f
    <2> QED BY <1>6, <2>1 DEF Injection, IsInjective
  <1>8. IsFiniteSet(cuts) /\ Cardinality(cuts) \in Nat
    <2>1. IsFiniteSet(1..(t.n - 1)) BY <1>1, FS_Interval
    <2>2. IsFiniteSet(cuts) BY <2>1, FS_Subset
    <2> QED BY <2>2, FS_CardinalityType
  <1>9. Cardinality(Ks) <= Cardinality(cuts) BY <1>7, <1>8, FS_Injection
  <1>10. Cardinality(Ks) = Len(ps) - 1
    <2>1. Len(ps) - 1 \in Int /\ 1 \in Int BY <1>1
    <2>2. Cardinality(Ks) = IF 1 > Len(ps) - 1 THEN 0 ELSE (Len(ps) - 1) - 1 + 1
      BY <2>1, FS_Interval
    <2> QED BY <1>1, <2>2
  <1> QED BY <1>1, <1>8, <1>9, <1>10

-----------------------------------------------------------------------------
(* The theorems *)

\* DispatchTypes: every index of the two loops and of the sending loop stays
\* within what it indexes.
THEOREM DispatchTypes == Spec => []TypeOK
  <1>1. LoopInv => TypeOK BY DEF LoopInv
  <1> QED BY <1>1, LoopInvariant, PTL

\* MergingIsIdle: whatever the reply and the configuration, the second loop of
\* segmentContent returns what the first one produced.
THEOREM MergingIsIdle == Spec => []NothingMerged
  <1>1. LoopInv => NothingMerged BY DEF LoopInv
  <1> QED BY <1>1, LoopInvariant, PTL

\* Tiling: the parts of a segmented reply are its words, once each, in order.
THEOREM Tiling == Spec => []PartsTileReply
  <1>1. LoopInv => PartsTileReply
    <2> SUFFICES ASSUME LoopInv, Cut, Segmented PROVE parts # <<>> /\ Tiles(parts, text.n)
      BY DEF PartsTileReply
    <2>1. parts = rawParts /\ rawParts # <<>> /\ Greedy(text, cfg, rawParts, text.n)
      BY DEF LoopInv, NothingMerged, MergeInv, Cut
    <2> QED BY <2>1 DEF Greedy, InText, Tiles
  <1> QED BY <1>1, LoopInvariant, PTL

\* LimitHolds: a part longer than the limit is a single word.
THEOREM LimitHolds == Spec => []WithinLimit
  <1>1. LoopInv => WithinLimit
    <2> SUFFICES ASSUME LoopInv, Cut, Segmented
                 PROVE  \A k \in 1..Len(parts) : FitsAlone(text, cfg, parts[k].from, parts[k].to)
      BY DEF WithinLimit
    <2>1. parts = rawParts /\ Greedy(text, cfg, rawParts, text.n)
      BY DEF LoopInv, NothingMerged, MergeInv, Cut
    <2> QED BY <2>1 DEF Greedy, InText
  <1> QED BY <1>1, LoopInvariant, PTL

\* OrderedPosts: the CRM sees a prefix of the parts, in order, none twice.
THEOREM OrderedPosts == Spec => []PostedInOrder
  <1>1. LoopInv => PostedInOrder BY DEF LoopInv
  <1> QED BY <1>1, LoopInvariant, PTL

\* InterruptedMeansUnfinished: Dispatch reports an interruption only when some
\* part was never sent.
THEOREM InterruptedMeansUnfinished == Spec => []InterruptedUnfinished
  <1>1. LoopInv => InterruptedUnfinished BY DEF LoopInv, SendInv, InterruptedUnfinished
  <1> QED BY <1>1, LoopInvariant, PTL

\* Fewest: no other way of cutting the reply at word boundaries within the limit
\* makes fewer parts than segmentContent (FewestParts).
THEOREM Fewest == Spec => []FewestParts
  <1>1. LoopInv => FewestParts
    <2> SUFFICES ASSUME LoopInv, Segmented, pc = "check",
                        NEW cuts \in SUBSET (1..(text.n - 1)),
                        \A a, b \in cuts \cup {0, text.n} :
                           a < b /\ (\A e \in cuts \cup {0, text.n} : e <= a \/ b <= e)
                              => FitsAlone(text, cfg, a + 1, b)
                 PROVE  Len(parts) <= Cardinality(cuts) + 1
      BY DEF FewestParts
    <2>1. /\ parts = rawParts /\ rawParts # <<>>
          /\ Greedy(text, cfg, rawParts, text.n)
      BY DEF LoopInv, MergeInv, NothingMerged, Cut
    <2>2. IsText(text) /\ cfg \in BotConfig /\ parts \in Seq(PartType)
      BY DEF LoopInv, TypeOK
    <2> QED BY <2>1, <2>2, GreedyIsFewest
  <1> QED BY <1>1, LoopInvariant, PTL
=============================================================================
