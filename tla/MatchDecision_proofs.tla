------------------------- MODULE MatchDecision_proofs -------------------------
(***************************************************************************)
(* The loop invariant of MatchDecision and the verdict it gives, for every *)
(* gallery, number of samples, score and gate.                             *)
(***************************************************************************)
EXTENDS MatchDecision, SequenceTheorems, TLAPS

----
\* What the loops have worked through: the prints before `print`, and of that one
\* the samples before `sample`.
Reached(p, k) == p < print \/ (p = print /\ k < sample)

SeenShape ==
  /\ valid_templates > 0 =>
       \E p \in DOMAIN gallery : \E k \in DOMAIN gallery[p].samples : Scored(p, k)
  /\ unusable_templates > 0 =>
       \E p \in DOMAIN gallery : \E k \in DOMAIN gallery[p].samples :
         gallery[p].samples[k].status = "UNUSABLE"
  /\ valid_templates = 0 =>
       \A p \in DOMAIN gallery : \A k \in DOMAIN gallery[p].samples :
         Reached(p, k) => ~Scored(p, k)
  /\ valid_templates = 0 /\ unusable_templates = 0 =>
       \A p \in DOMAIN gallery : \A k \in DOMAIN gallery[p].samples :
         Reached(p, k) => gallery[p].samples[k].status # "UNUSABLE"

\* The best score of the print at hand, of its samples so far.
PrintShape ==
  loop = "SAMPLES" =>
    /\ \A k \in DOMAIN Samples :
         k < sample /\ Scored(print, k) => Samples[k].score <= tmpl_best_score
    /\ tmpl_best_score > 0 =>
         /\ valid_templates > 0
         /\ \E k \in DOMAIN Samples : Scored(print, k) /\ Samples[k].score = tmpl_best_score

\* The match, if there is one, is a good one, and the best unless the loops stop.
MatchShape ==
  /\ match = 0 => /\ best_match_score = 0
                  /\ \A p \in DOMAIN gallery : p < print => p \notin Accepted
  /\ match # 0 =>
       /\ match \in Accepted /\ valid_templates > 0
       /\ \E k \in DOMAIN gallery[match].samples :
            Scored(match, k) /\ gallery[match].samples[k].score = best_match_score
       /\ best_match_score >= BestMin
       /\ ~StopsEarly =>
            \A p \in DOMAIN gallery : \A k \in DOMAIN gallery[p].samples :
              p < print /\ Scored(p, k) => gallery[p].samples[k].score <= best_match_score

LoopShape ==
  /\ loop = "EXTRACT" => /\ print = 1 /\ sample = 1 /\ tmpl_best_score = 0 /\ match = 0
                         /\ valid_templates = 0 /\ unusable_templates = 0
  /\ loop = "SAMPLES" /\ StopsEarly => match = 0
  /\ loop = "DECIDE" => (StopsEarly /\ match # 0) \/ print = Len(gallery) + 1
  /\ loop # "DONE" => verdict = "NONE"
  /\ action = "VERIFY" => Len(gallery) = 1

Loops == TypeOK /\ SeenShape /\ PrintShape /\ MatchShape /\ LoopShape
Inv == Loops /\ VerdictIsExpected /\ NobodyElseScoredBetter

----
\* The gallery is a sequence of prints whose samples are sequences.
LEMMA GalleryShape ==
  ASSUME TypeOK
  PROVE  /\ Len(gallery) \in Nat /\ DOMAIN gallery = 1 .. Len(gallery)
         /\ gallery = <<>> <=> Len(gallery) = 0
         /\ \A p \in DOMAIN gallery :
              /\ Len(gallery[p].samples) \in Nat
              /\ DOMAIN gallery[p].samples = 1 .. Len(gallery[p].samples)
              /\ \A k \in DOMAIN gallery[p].samples :
                   /\ gallery[p].samples[k].score \in Nat
                   /\ gallery[p].samples[k].status \in {"EMPTY", "UNUSABLE", "OK"}
<1>1. gallery \in Seq(EnrolledPrint) BY DEF TypeOK
<1>2. /\ Len(gallery) \in Nat /\ DOMAIN gallery = 1 .. Len(gallery)
      /\ gallery = <<>> <=> Len(gallery) = 0
  BY <1>1, LenProperties, EmptySeq
<1>3. ASSUME NEW p \in DOMAIN gallery
      PROVE  /\ Len(gallery[p].samples) \in Nat
             /\ DOMAIN gallery[p].samples = 1 .. Len(gallery[p].samples)
             /\ \A k \in DOMAIN gallery[p].samples :
                  /\ gallery[p].samples[k].score \in Nat
                  /\ gallery[p].samples[k].status \in {"EMPTY", "UNUSABLE", "OK"}
  <2>1. gallery[p] \in EnrolledPrint BY <1>1, <1>2, ElementOfSeq
  <2>2. gallery[p].samples \in Seq(Sample) BY <2>1 DEF EnrolledPrint
  <2>3. /\ Len(gallery[p].samples) \in Nat
        /\ DOMAIN gallery[p].samples = 1 .. Len(gallery[p].samples)
    BY <2>2, LenProperties
  <2>4. \A k \in DOMAIN gallery[p].samples : gallery[p].samples[k] \in Sample
    BY <2>2, <2>3, ElementOfSeq
  <2> QED BY <2>3, <2>4 DEF Sample
<1> QED BY <1>2, <1>3

\* What the request asks stays the same.
LEMMA RequestStays ==
  ASSUME UNCHANGED requestVars
  PROVE  /\ UNCHANGED <<action, gallery, exhaustive>>
         /\ StopsEarly' <=> StopsEarly
         /\ Accepted' = Accepted
         /\ \A p, k : Scored(p, k)' <=> Scored(p, k)
BY DEF requestVars, StopsEarly, SingleUsername, Accepted, Scored

LEMMA InitLoops == Init => Inv
<1> SUFFICES ASSUME Init PROVE Inv OBVIOUS
<1>1. gallery \in Seq(EnrolledPrint) BY MatchAssumption DEF Init
<1>2. TypeOK
  BY <1>1, MatchAssumption, LenProperties DEF Init, TypeOK
<1>3. SeenShape /\ PrintShape /\ MatchShape /\ LoopShape
  BY <1>2, GalleryShape DEF Init, SeenShape, PrintShape, MatchShape, LoopShape, Reached
<1>4. VerdictIsExpected /\ NobodyElseScoredBetter
  BY DEF Init, VerdictIsExpected, NobodyElseScoredBetter
<1> QED BY <1>2, <1>3, <1>4 DEF Inv, Loops

----
\* The steps that do not decide.

\* Without a verdict there is nothing to say of it.
LEMMA NoVerdict ==
  ASSUME verdict' \in {"NONE", "RETRY"}
  PROVE  VerdictIsExpected' /\ NobodyElseScoredBetter'
BY DEF VerdictIsExpected, NobodyElseScoredBetter

LEMMA RetryKeeps == Inv /\ TooFewKeypoints => Inv'
<1> SUFFICES ASSUME Inv, TooFewKeypoints PROVE Inv' OBVIOUS
<1> USE RequestStays DEF TooFewKeypoints, matchVars, seenVars
<1>1. TypeOK' BY DEF Inv, Loops, TypeOK
<1>2. SeenShape' BY DEF Inv, Loops, SeenShape, Reached
<1>3. PrintShape' /\ LoopShape' BY DEF Inv, Loops, PrintShape, LoopShape
<1>4. MatchShape' BY DEF Inv, Loops, MatchShape
<1> QED BY <1>1, <1>2, <1>3, <1>4, NoVerdict DEF Inv, Loops

LEMMA ExtractedKeeps == Inv /\ Extracted => Inv'
<1> SUFFICES ASSUME Inv, Extracted PROVE Inv' OBVIOUS
<1> USE RequestStays, GalleryShape DEF Extracted, matchVars, seenVars
<1>1. TypeOK' BY DEF Inv, Loops, TypeOK, LoopShape, Samples
<1>2. SeenShape' BY DEF Inv, Loops, SeenShape, Reached
<1>3. PrintShape' /\ LoopShape'
  BY DEF Inv, Loops, PrintShape, LoopShape, Samples
<1>4. MatchShape' BY DEF Inv, Loops, MatchShape
<1>5. verdict' = "NONE" BY DEF Inv, Loops, LoopShape
<1> QED BY <1>1, <1>2, <1>3, <1>4, <1>5, NoVerdict DEF Inv, Loops

\* A sample of either kind is looked at.
LEMMA SampleKeeps == Inv /\ (SkipEmpty \/ SkipUnusable \/ Score) => Inv'
<1> SUFFICES ASSUME Inv, SkipEmpty \/ SkipUnusable \/ Score PROVE Inv' OBVIOUS
<1> USE DEF matchVars, seenVars
<1> DEFINE S == gallery[print].samples
<1>1. TypeOK BY DEF Inv, Loops
<1>2. /\ loop = "SAMPLES" /\ print \in DOMAIN gallery /\ sample \in DOMAIN S
      /\ sample' = sample + 1
      /\ UNCHANGED <<requestVars, loop, print, matchVars, verdict>>
  BY <1>1, GalleryShape DEF SkipEmpty, SkipUnusable, Score, AtSample, TypeOK, Samples
<1>3. /\ UNCHANGED <<action, gallery, exhaustive>> /\ (StopsEarly' <=> StopsEarly)
      /\ Accepted' = Accepted
  BY <1>2, RequestStays
<1>4. \/ S[sample].status = "EMPTY" /\ UNCHANGED <<tmpl_best_score, seenVars>>
      \/ /\ S[sample].status = "UNUSABLE"
         /\ unusable_templates' = unusable_templates + 1
         /\ UNCHANGED <<tmpl_best_score, valid_templates>>
      \/ /\ S[sample].status = "OK"
         /\ valid_templates' = valid_templates + 1
         /\ tmpl_best_score' = IF S[sample].score > tmpl_best_score
                                 THEN S[sample].score ELSE tmpl_best_score
         /\ UNCHANGED unusable_templates
  BY DEF SkipEmpty, SkipUnusable, Score, AtSample, Samples
<1>5. /\ valid_templates \in Nat /\ unusable_templates \in Nat /\ tmpl_best_score \in Nat
      /\ print \in Nat /\ sample \in Nat
      /\ Len(S) \in Nat /\ DOMAIN S = 1 .. Len(S) /\ DOMAIN gallery = 1 .. Len(gallery)
      /\ \A k \in DOMAIN S : S[k].score \in Nat
  BY <1>1, <1>2, GalleryShape DEF TypeOK
<1>6. TypeOK'
  <2>1. /\ valid_templates' \in Nat /\ unusable_templates' \in Nat
        /\ tmpl_best_score' \in Nat
    BY SMTT(30), <1>2, <1>4, <1>5
  <2>2. sample' \in Nat \ {0} /\ sample' <= Len(S) + 1
    BY <1>2, <1>5
  <2> QED BY <1>1, <1>2, <1>3, <2>1, <2>2 DEF TypeOK, Samples
<1>7. SeenShape'
  <2>1. /\ valid_templates' > 0 => valid_templates > 0 \/ S[sample].status = "OK"
        /\ unusable_templates' > 0 =>
             unusable_templates > 0 \/ S[sample].status = "UNUSABLE"
        /\ valid_templates' = 0 => valid_templates = 0 /\ S[sample].status # "OK"
        /\ unusable_templates' = 0 =>
             unusable_templates = 0 /\ S[sample].status # "UNUSABLE"
    BY SMTT(30), <1>4, <1>5
  <2>2. ASSUME NEW p \in DOMAIN gallery, NEW k \in DOMAIN gallery[p].samples,
               Reached(p, k)'
        PROVE  Reached(p, k) \/ (p = print /\ k = sample)
    <3>1. k \in Nat BY GalleryShape, <1>1
    <3> QED BY <1>2, <1>5, <2>2, <3>1 DEF Reached
  <2> QED BY <1>2, <1>3, <2>1, <2>2 DEF Inv, Loops, SeenShape, Scored
<1>8. PrintShape'
  <2>1. /\ \A k \in DOMAIN S :
             k < sample /\ S[k].status = "OK" => S[k].score <= tmpl_best_score
        /\ tmpl_best_score > 0 =>
             /\ valid_templates > 0
             /\ \E k \in DOMAIN S : S[k].status = "OK" /\ S[k].score = tmpl_best_score
    BY <1>2 DEF Inv, Loops, PrintShape, Samples, Scored
  <2>2. /\ \A k \in DOMAIN S :
             k < sample + 1 /\ S[k].status = "OK" => S[k].score <= tmpl_best_score'
        /\ tmpl_best_score' > 0 =>
             /\ valid_templates' > 0
             /\ \E k \in DOMAIN S : S[k].status = "OK" /\ S[k].score = tmpl_best_score'
    <3>1. CASE S[sample].status # "OK"
      <4>1. UNCHANGED <<tmpl_best_score, valid_templates>> BY <1>4, <3>1
      <4> QED BY <1>2, <1>5, <2>1, <3>1, <4>1
    <3>2. CASE S[sample].status = "OK"
      <4>1. /\ valid_templates' = valid_templates + 1
            /\ \/ S[sample].score > tmpl_best_score /\ tmpl_best_score' = S[sample].score
               \/ S[sample].score <= tmpl_best_score /\ tmpl_best_score' = tmpl_best_score
        BY <1>2, <1>4, <1>5, <3>2
      <4>2. S[sample].score \in Nat /\ tmpl_best_score' \in Nat BY <1>2, <1>4, <1>5
      <4>3. tmpl_best_score <= tmpl_best_score' /\ S[sample].score <= tmpl_best_score'
        BY <1>5, <4>1, <4>2
      <4>4. ASSUME NEW k \in DOMAIN S, k < sample + 1, S[k].status = "OK"
            PROVE  S[k].score <= tmpl_best_score'
        <5>1. CASE k = sample BY <4>3, <5>1
        <5>2. CASE k # sample
          <6>1. k < sample BY <1>5, <4>4, <5>2
          <6>2. S[k].score <= tmpl_best_score BY <2>1, <4>4, <6>1
          <6>3. S[k].score \in Nat /\ tmpl_best_score \in Nat BY <1>5
          <6> QED BY <4>2, <4>3, <6>2, <6>3
        <5> QED BY <5>1, <5>2
      <4>5. valid_templates' > 0 BY <1>5, <4>1
      <4>6. ASSUME tmpl_best_score' > 0
            PROVE  \E k \in DOMAIN S : S[k].status = "OK" /\ S[k].score = tmpl_best_score'
        <5>1. CASE tmpl_best_score' = S[sample].score BY <1>2, <1>5, <3>2, <5>1
        <5>2. CASE tmpl_best_score' = tmpl_best_score BY <2>1, <4>6, <5>2
        <5> QED BY <4>1, <5>1, <5>2
      <4> QED BY <4>4, <4>5, <4>6
    <3> QED BY <3>1, <3>2
  <2> QED BY <1>2, <1>3, <2>2 DEF PrintShape, Samples, Scored
<1>9. MatchShape'
  <2>1. valid_templates > 0 => valid_templates' > 0 BY <1>4, <1>5
  <2> QED BY <1>2, <1>3, <2>1 DEF Inv, Loops, MatchShape, Scored
<1>10. LoopShape' /\ verdict' = "NONE"
  BY <1>2, <1>3 DEF Inv, Loops, LoopShape
<1> QED BY <1>6, <1>7, <1>8, <1>9, <1>10, NoVerdict DEF Inv, Loops

\* The samples of a print are done: all are reached, or the print is a match.
LEMMA EndPrintKeeps == Inv /\ EndPrint => Inv'
<1> SUFFICES ASSUME Inv, EndPrint PROVE Inv' OBVIOUS
<1> USE DEF matchVars, seenVars
<1> DEFINE S == gallery[print].samples
<1>1. TypeOK BY DEF Inv, Loops
<1>2. /\ loop = "SAMPLES" /\ print \in DOMAIN gallery
      /\ UNCHANGED <<requestVars, valid_templates, unusable_templates, verdict>>
      /\ print' = print + 1 /\ sample' = 1 /\ tmpl_best_score' = 0
      /\ loop' \in {"SAMPLES", "DECIDE"}
      /\ loop' = "SAMPLES" => print # Len(gallery) /\ (StopsEarly => match' = 0)
      /\ loop' = "DECIDE" => print = Len(gallery) \/ (StopsEarly /\ match' # 0)
  BY <1>1, GalleryShape DEF EndPrint, SamplesDone, LastPrint, TypeOK
<1>3. /\ UNCHANGED <<action, gallery, exhaustive>> /\ (StopsEarly' <=> StopsEarly)
      /\ Accepted' = Accepted
  BY <1>2, RequestStays
<1>4. /\ valid_templates \in Nat /\ unusable_templates \in Nat /\ tmpl_best_score \in Nat
      /\ print \in Nat /\ sample \in Nat /\ best_match_score \in Nat /\ match \in Nat
      /\ BestMin \in Nat /\ BestMin > 0 /\ Len(gallery) \in Nat
      /\ Len(S) \in Nat /\ DOMAIN S = 1 .. Len(S) /\ DOMAIN gallery = 1 .. Len(gallery)
      /\ \A p \in DOMAIN gallery : \A k \in DOMAIN gallery[p].samples :
           k \in Nat \ {0} /\ gallery[p].samples[k].score \in Nat
  BY <1>1, <1>2, GalleryShape, MatchAssumption DEF TypeOK
<1>5. /\ \A k \in DOMAIN S :
           k < sample /\ S[k].status = "OK" => S[k].score <= tmpl_best_score
      /\ tmpl_best_score > 0 =>
           /\ valid_templates > 0
           /\ \E k \in DOMAIN S : S[k].status = "OK" /\ S[k].score = tmpl_best_score
  BY <1>2 DEF Inv, Loops, PrintShape, Samples, Scored
\* Every sample of the print is reached, unless it is good enough already.
<1>6. (\A k \in DOMAIN S : k < sample) \/ (StopsEarly /\ tmpl_best_score >= BestMin)
  <2>1. sample > Len(S) \/ (StopsEarly /\ tmpl_best_score >= BestMin)
    BY DEF EndPrint, SamplesDone, GoodEnough, Samples
  <2> QED BY <1>4, <2>1
<1>7. \/ /\ tmpl_best_score >= BestMin /\ tmpl_best_score > best_match_score
         /\ match' = print /\ best_match_score' = tmpl_best_score
      \/ /\ ~(tmpl_best_score >= BestMin /\ tmpl_best_score > best_match_score)
         /\ match' = match /\ best_match_score' = best_match_score
  BY DEF EndPrint, Better, GoodEnough
<1>8. TypeOK'
  <2>1. match' \in 0 .. Len(gallery) /\ best_match_score' \in Nat
    BY <1>1, <1>2, <1>4, <1>7 DEF TypeOK
  <2>2. print' \in 1 .. Len(gallery) + 1 /\ (loop' = "SAMPLES" => print' \in DOMAIN gallery)
    BY <1>2, <1>4
  <2>3. loop' = "SAMPLES" => Len(gallery[print'].samples) \in Nat
    BY <1>1, <2>2, GalleryShape
  <2> QED BY <1>1, <1>2, <1>3, <1>4, <2>1, <2>2, <2>3 DEF TypeOK, Samples
<1>9. SeenShape'
  <2>1. valid_templates = 0 => \A k \in DOMAIN S : k < sample
    BY <1>4, <1>5, <1>6
  <2>2. ASSUME valid_templates = 0, NEW p \in DOMAIN gallery,
               NEW k \in DOMAIN gallery[p].samples, Reached(p, k)'
        PROVE  Reached(p, k)
    <3>1. k \in Nat \ {0} /\ p \in Nat BY <1>4
    <3> QED BY <1>2, <1>4, <2>1, <2>2, <3>1 DEF Reached
  <2> QED BY <1>2, <1>3, <2>2 DEF Inv, Loops, SeenShape, Scored
<1>10. MatchShape'
  <2>1. tmpl_best_score >= BestMin => print \in Accepted
    BY <1>2, <1>4, <1>5 DEF Accepted, Scored
  <2>2. tmpl_best_score < BestMin => print \notin Accepted
    BY <1>4, <1>5, <1>6 DEF Accepted, Scored
  <2>3. /\ match = 0 => /\ best_match_score = 0
                        /\ \A p \in DOMAIN gallery : p < print => p \notin Accepted
        /\ match # 0 =>
             /\ match \in Accepted /\ valid_templates > 0
             /\ \E k \in DOMAIN gallery[match].samples :
                  Scored(match, k) /\ gallery[match].samples[k].score = best_match_score
             /\ best_match_score >= BestMin
             /\ ~StopsEarly =>
                  \A p \in DOMAIN gallery : \A k \in DOMAIN gallery[p].samples :
                    p < print /\ Scored(p, k) =>
                      gallery[p].samples[k].score <= best_match_score
    BY DEF Inv, Loops, MatchShape
  <2>4. match' = 0 => /\ best_match_score' = 0
                      /\ \A p \in DOMAIN gallery : p < print + 1 => p \notin Accepted
    BY <1>2, <1>4, <1>7, <2>2, <2>3
  <2>5. match' # 0 =>
          /\ match' \in Accepted /\ valid_templates > 0 /\ best_match_score' >= BestMin
          /\ \E k \in DOMAIN gallery[match'].samples :
               /\ gallery[match'].samples[k].status = "OK"
               /\ gallery[match'].samples[k].score = best_match_score'
    <3>1. CASE match' = print /\ best_match_score' = tmpl_best_score
                 /\ tmpl_best_score >= BestMin
      BY <1>4, <1>5, <2>1, <3>1
    <3>2. CASE match' = match /\ best_match_score' = best_match_score
      BY <2>3, <3>2 DEF Scored
    <3> QED BY <1>7, <3>1, <3>2
  <2>6. ASSUME match' # 0, ~StopsEarly, NEW p \in DOMAIN gallery,
               NEW k \in DOMAIN gallery[p].samples, p < print + 1,
               gallery[p].samples[k].status = "OK"
        PROVE  gallery[p].samples[k].score <= best_match_score'
    <3>1. CASE p = print
      <4>1. gallery[p].samples[k].score <= tmpl_best_score BY <1>5, <1>6, <2>6, <3>1
      <4> QED BY <1>4, <1>7, <2>3, <2>6, <4>1
    <3>2. CASE p < print
      <4>1. CASE match # 0 BY <1>4, <1>7, <2>3, <2>6, <3>2, <4>1 DEF Scored
      <4>2. CASE match = 0
        <5>1. p \notin Accepted BY <2>3, <3>2, <4>2
        <5>2. gallery[p].samples[k].score < BestMin
          BY <1>4, <2>6, <5>1 DEF Accepted, Scored
        <5>3. best_match_score' >= BestMin BY <2>5, <2>6
        <5>4. best_match_score' \in Nat BY <1>4, <1>7
        <5> QED BY <1>4, <5>2, <5>3, <5>4
      <4> QED BY <4>1, <4>2
    <3> QED BY <1>4, <2>6, <3>1, <3>2
  <2> QED BY <1>2, <1>3, <2>4, <2>5, <2>6 DEF MatchShape, Scored
<1>11. PrintShape'
  <2>1. ASSUME loop' = "SAMPLES", NEW k \in DOMAIN gallery[print'].samples
        PROVE  ~(k < 1)
    <3>1. print' \in DOMAIN gallery BY <1>2, <1>4, <2>1
    <3> QED BY <1>4, <3>1
  <2> QED BY <1>2, <1>3, <2>1 DEF PrintShape, Samples
<1>12. LoopShape' /\ verdict' = "NONE"
  BY <1>2, <1>3, <1>4 DEF Inv, Loops, LoopShape
<1> QED BY <1>8, <1>9, <1>10, <1>11, <1>12, NoVerdict DEF Inv, Loops
----
\* The verdict: all is reached, or a good print of the one person is found.
LEMMA DecideKeeps == Inv /\ Decide => Inv'
<1> SUFFICES ASSUME Inv, Decide PROVE Inv' OBVIOUS
<1> USE DEF matchVars, seenVars
<1>1. TypeOK BY DEF Inv, Loops
<1>2. /\ loop = "DECIDE" /\ loop' = "DONE"
      /\ UNCHANGED <<requestVars, print, sample, tmpl_best_score, matchVars, seenVars>>
      /\ verdict' = IF valid_templates = 0 /\ unusable_templates > 0 THEN "DATA_INVALID"
                    ELSE IF match # 0 THEN "MATCH" ELSE "NO_MATCH"
  BY DEF Decide
<1>3. /\ UNCHANGED <<action, gallery, exhaustive>> /\ (StopsEarly' <=> StopsEarly)
      /\ Accepted' = Accepted
  BY <1>2, RequestStays
<1>4. /\ valid_templates \in Nat /\ unusable_templates \in Nat /\ print \in Nat
      /\ best_match_score \in Nat /\ Len(gallery) \in Nat
      /\ DOMAIN gallery = 1 .. Len(gallery)
      /\ \A p \in DOMAIN gallery : \A k \in DOMAIN gallery[p].samples :
           gallery[p].samples[k].score \in Nat
  BY <1>1, GalleryShape DEF TypeOK
<1>5. TypeOK' BY <1>1, <1>2, <1>3 DEF TypeOK
<1>6. SeenShape' /\ PrintShape'
  BY <1>2, <1>3 DEF Inv, Loops, SeenShape, PrintShape, Reached, Scored
<1>7. MatchShape' /\ LoopShape'
  BY <1>2, <1>3 DEF Inv, Loops, MatchShape, LoopShape, Scored
<1>8. \/ StopsEarly /\ match # 0
      \/ \A p \in DOMAIN gallery : p < print
  BY <1>2, <1>4 DEF Inv, Loops, LoopShape
<1>9. match # 0 => match \in Accepted /\ valid_templates > 0
  BY DEF Inv, Loops, MatchShape
<1>10. Accepted # {} <=> match # 0
  <2>1. CASE match # 0 BY <1>9, <2>1
  <2>2. CASE match = 0
    <3>1. \A p \in DOMAIN gallery : p \notin Accepted
      BY <1>8, <2>2 DEF Inv, Loops, MatchShape
    <3> QED BY <2>2, <3>1 DEF Accepted
  <2> QED BY <2>1, <2>2
<1>11. Unusable <=> valid_templates = 0 /\ unusable_templates > 0
  <2>1. CASE valid_templates > 0
    BY <1>4, <2>1 DEF Unusable, Inv, Loops, SeenShape
  <2>2. CASE valid_templates = 0
    <3>1. \A p \in DOMAIN gallery : p < print BY <1>8, <1>9, <2>2
    <3>2. \A p \in DOMAIN gallery : \A k \in DOMAIN gallery[p].samples : Reached(p, k)
      BY <3>1 DEF Reached
    <3>3. CASE unusable_templates > 0
      BY <2>2, <3>2, <3>3 DEF Unusable, Inv, Loops, SeenShape
    <3>4. CASE unusable_templates = 0
      BY <1>4, <2>2, <3>2, <3>4 DEF Unusable, Inv, Loops, SeenShape
    <3> QED BY <1>4, <3>3, <3>4
  <2> QED BY <1>4, <2>1, <2>2
<1>12. VerdictIsExpected'
  <2>1. Unusable' <=> Unusable BY <1>3 DEF Unusable, Scored
  <2>2. verdict' = Expected
    BY <1>2, <1>10, <1>11 DEF Expected
  <2>3. Expected' = Expected BY <1>3, <2>1 DEF Expected
  <2> QED BY <2>2, <2>3 DEF VerdictIsExpected
<1>13. NobodyElseScoredBetter'
  <2>1. CASE verdict' # "MATCH" BY <2>1 DEF NobodyElseScoredBetter
  <2>2. CASE verdict' = "MATCH"
    <3>1. match # 0 /\ match \in Accepted BY <1>2, <1>9, <2>2
    <3>2. match \in DOMAIN gallery BY <3>1 DEF Accepted
    <3>3. PICK l \in DOMAIN gallery[match].samples :
            Scored(match, l) /\ gallery[match].samples[l].score = best_match_score
      BY <3>1 DEF Inv, Loops, MatchShape
    <3>4. ASSUME NEW p \in DOMAIN gallery, NEW k \in DOMAIN gallery[p].samples,
                 Scored(p, k), ~SamePerson(match, p)
          PROVE  gallery[match].samples[l].score >= gallery[p].samples[k].score
      <4>1. CASE StopsEarly
        <5>1. CASE action = "VERIFY"
          <6>1. Len(gallery) = 1 BY <5>1 DEF Inv, Loops, LoopShape
          <6>2. p = match BY <1>4, <3>2, <6>1
          <6> QED BY <3>4, <6>2 DEF SamePerson
        <5>2. CASE SingleUsername
          BY <3>2, <3>4, <5>2 DEF SingleUsername, SamePerson
        <5> QED BY <4>1, <5>1, <5>2 DEF StopsEarly
      <4>2. CASE ~StopsEarly
        <5>1. p < print BY <1>8, <4>2
        <5>2. gallery[p].samples[k].score <= best_match_score
          BY <3>1, <3>4, <4>2, <5>1 DEF Inv, Loops, MatchShape
        <5> QED BY <1>4, <3>3, <3>4, <5>2
      <4> QED BY <4>1, <4>2
    <3> QED
      BY <1>2, <1>3, <3>1, <3>3, <3>4 DEF NobodyElseScoredBetter, SamePerson, Scored
  <2> QED BY <2>1, <2>2
<1> QED BY <1>5, <1>6, <1>7, <1>12, <1>13 DEF Inv, Loops

LEMMA StutterKeeps == Inv /\ UNCHANGED vars => Inv'
<1> SUFFICES ASSUME Inv, UNCHANGED vars PROVE Inv' OBVIOUS
<1> USE DEF vars, matchVars, seenVars
<1>1. /\ UNCHANGED <<action, gallery, exhaustive>> /\ (StopsEarly' <=> StopsEarly)
      /\ Accepted' = Accepted
  BY RequestStays
<1>2. TypeOK' /\ SeenShape' /\ PrintShape'
  BY <1>1 DEF Inv, Loops, TypeOK, SeenShape, PrintShape, Reached, Samples, Scored
<1>3. MatchShape' /\ LoopShape'
  BY <1>1 DEF Inv, Loops, MatchShape, LoopShape, Scored
<1>4. VerdictIsExpected' /\ NobodyElseScoredBetter'
  BY <1>1 DEF Inv, VerdictIsExpected, Expected, Unusable, NobodyElseScoredBetter,
     SamePerson, Scored
<1> QED BY <1>2, <1>3, <1>4 DEF Inv, Loops

LEMMA NextKeeps == Inv /\ [Next]_vars => Inv'
BY RetryKeeps, ExtractedKeeps, SampleKeeps, EndPrintKeeps, DecideKeeps, StutterKeeps
   DEF Next

----
\* The loops keep their invariant.
THEOREM MatchInvariant == Spec => []Inv
BY InitLoops, NextKeeps, PTL DEF Spec

\* Type correctness: the loops never leave the gallery.
THEOREM MatchTypeOK == Spec => []TypeOK
<1>1. Inv => TypeOK BY DEF Inv, Loops
<1>2. QED BY <1>1, MatchInvariant, PTL

\* The verdict is that of all samples, wherever the loops stop.
THEOREM VerdictIsRight == Spec => []VerdictIsExpected
<1>1. Inv => VerdictIsExpected BY DEF Inv
<1>2. QED BY <1>1, MatchInvariant, PTL

\* The person who is reported scored best.
THEOREM BestPersonIsReported == Spec => []NobodyElseScoredBetter
<1>1. Inv => NobodyElseScoredBetter BY DEF Inv
<1>2. QED BY <1>1, MatchInvariant, PTL

==============================================================================
