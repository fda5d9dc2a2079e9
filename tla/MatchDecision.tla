---------------------------- MODULE MatchDecision ----------------------------
(***************************************************************************)
(* The verdict on a capture (GOODIX_VERIFY_MATCH of goodix53x5-auth.c):    *)
(* the loops that score the probe against the samples of each print, stop  *)
(* at a good enough one when nothing more can change, skip what cannot be  *)
(* used, and report.                                                       *)
(*                                                                         *)
(* A step is one turn of a loop.  What the matcher says of a sample is     *)
(* data: a status and a score.  A print without fpi-data has no samples.   *)
(***************************************************************************)
EXTENDS Integers, Sequences

CONSTANTS
  Users, NoUser,  \* user names, and the missing or empty one
  Galleries,      \* the sequences of prints a request may carry
  BestMin         \* GOODIX_SIGFM_BEST_MIN

\* A sample is empty, of no use to the matcher, or scored.
Sample == [status : {"EMPTY", "UNUSABLE", "OK"}, score : Nat]
EnrolledPrint == [user : Users \cup {NoUser}, samples : Seq(Sample)]

ASSUME MatchAssumption ==
  /\ NoUser \notin Users /\ BestMin \in Nat \ {0}
  /\ Galleries \subseteq Seq(EnrolledPrint)

VARIABLES
  action,             \* "IDENTIFY" or "VERIFY"
  gallery,            \* the prints; a verify has one
  exhaustive,         \* "YES" if the debug log wants every score, else "NO"
  loop,               \* "EXTRACT", "SAMPLES", "DECIDE", "DONE"
  print, sample,      \* the loops' positions
  tmpl_best_score,    \* best score of the print's samples so far
  best_match_score, match,  \* best print good enough so far, match = 0 if none
  valid_templates, unusable_templates,  \* samples seen of either kind
  verdict             \* what is queued for libfprint

requestVars == <<action, gallery, exhaustive>>
matchVars   == <<best_match_score, match>>
seenVars    == <<valid_templates, unusable_templates>>
vars == <<requestVars, loop, print, sample, tmpl_best_score, matchVars, seenVars, verdict>>

Init ==
  /\ action \in {"IDENTIFY", "VERIFY"} /\ gallery \in Galleries
  /\ action = "VERIFY" => Len(gallery) = 1
  /\ exhaustive \in {"YES", "NO"}
  /\ loop = "EXTRACT" /\ print = 1 /\ sample = 1 /\ tmpl_best_score = 0
  /\ best_match_score = 0 /\ match = 0
  /\ valid_templates = 0 /\ unusable_templates = 0 /\ verdict = "NONE"

\* A bug to tell apart: prints without a user name count as one user's.
MutantSingleUsername ==
  /\ gallery # <<>>
  /\ \A p \in DOMAIN gallery : gallery[p].user = gallery[1].user
\* goodix_gallery_has_single_username
SingleUsername ==
  /\ gallery # <<>> /\ gallery[1].user # NoUser
  /\ \A p \in DOMAIN gallery : gallery[p].user = gallery[1].user

\* stop_after_match for an identify; a verify has one print to match.
StopsEarly == exhaustive = "NO" /\ (action = "VERIFY" \/ SingleUsername)

\* A bug to tell apart: the gate itself is not enough.
MutantGoodEnough(score) == score > BestMin
GoodEnough(score) == score >= BestMin

Samples == gallery[print].samples

\* Too few keypoints: the user is asked to try again, without a match.
TooFewKeypoints ==
  /\ loop = "EXTRACT"
  /\ loop' = "DONE" /\ verdict' = "RETRY"
  /\ UNCHANGED <<requestVars, print, sample, tmpl_best_score, matchVars, seenVars>>

Extracted ==
  /\ loop = "EXTRACT"
  /\ loop' = IF gallery = <<>> THEN "DECIDE" ELSE "SAMPLES"
  /\ UNCHANGED <<requestVars, print, sample, tmpl_best_score, matchVars, seenVars, verdict>>

----
\* One turn of the loop over the samples.

AtSample(status) ==
  /\ loop = "SAMPLES" /\ sample <= Len(Samples)
  /\ ~(StopsEarly /\ GoodEnough(tmpl_best_score))
  /\ Samples[sample].status = status
  /\ sample' = sample + 1
  /\ UNCHANGED <<requestVars, loop, print, matchVars, verdict>>

SkipEmpty == AtSample("EMPTY") /\ UNCHANGED <<tmpl_best_score, seenVars>>

SkipUnusable ==
  /\ AtSample("UNUSABLE")
  /\ unusable_templates' = unusable_templates + 1
  /\ UNCHANGED <<tmpl_best_score, valid_templates>>

Score ==
  /\ AtSample("OK")
  /\ valid_templates' = valid_templates + 1
  /\ tmpl_best_score' = IF Samples[sample].score > tmpl_best_score
                          THEN Samples[sample].score ELSE tmpl_best_score
  /\ UNCHANGED unusable_templates

----
\* The end of a print's samples: keep the better print, go on or stop.

SamplesDone ==
  /\ loop = "SAMPLES"
  /\ sample > Len(Samples) \/ (StopsEarly /\ GoodEnough(tmpl_best_score))

Better == GoodEnough(tmpl_best_score) /\ tmpl_best_score > best_match_score

\* A bug to tell apart: the loop runs past the last print.
MutantLastPrint == print > Len(gallery)
LastPrint == print = Len(gallery)

EndPrint ==
  /\ SamplesDone
  /\ match' = IF Better THEN print ELSE match
  /\ best_match_score' = IF Better THEN tmpl_best_score ELSE best_match_score
  /\ tmpl_best_score' = 0 /\ sample' = 1 /\ print' = print + 1
  /\ loop' = IF LastPrint \/ (StopsEarly /\ match' # 0) THEN "DECIDE" ELSE "SAMPLES"
  /\ UNCHANGED <<requestVars, seenVars, verdict>>

Decide ==
  /\ loop = "DECIDE" /\ loop' = "DONE"
  /\ verdict' = IF valid_templates = 0 /\ unusable_templates > 0 THEN "DATA_INVALID"
                ELSE IF match # 0 THEN "MATCH" ELSE "NO_MATCH"
  /\ UNCHANGED <<requestVars, print, sample, tmpl_best_score, matchVars, seenVars>>

Next == TooFewKeypoints \/ Extracted \/ SkipEmpty \/ SkipUnusable \/ Score \/ EndPrint
          \/ Decide

Spec == Init /\ [][Next]_vars

----
\* Type invariant: the loops stay within the gallery.
TypeOK ==
  /\ action \in {"IDENTIFY", "VERIFY"} /\ gallery \in Seq(EnrolledPrint)
  /\ exhaustive \in {"YES", "NO"}
  /\ loop \in {"EXTRACT", "SAMPLES", "DECIDE", "DONE"}
  /\ print \in 1 .. Len(gallery) + 1 /\ sample \in Nat \ {0}
  /\ loop = "SAMPLES" => print <= Len(gallery) /\ sample <= Len(Samples) + 1
  /\ tmpl_best_score \in Nat /\ best_match_score \in Nat
  /\ match \in 0 .. Len(gallery)
  /\ valid_templates \in Nat /\ unusable_templates \in Nat
  /\ verdict \in {"NONE", "RETRY", "DATA_INVALID", "MATCH", "NO_MATCH"}

----
\* What the request amounts to, whatever order it is worked through.

Scored(p, k) == gallery[p].samples[k].status = "OK"

\* The prints with a sample that is good enough.
Accepted == {p \in DOMAIN gallery : \E k \in DOMAIN gallery[p].samples :
                Scored(p, k) /\ gallery[p].samples[k].score >= BestMin}

Unusable ==
  /\ \E p \in DOMAIN gallery : \E k \in DOMAIN gallery[p].samples :
        gallery[p].samples[k].status = "UNUSABLE"
  /\ \A p \in DOMAIN gallery : \A k \in DOMAIN gallery[p].samples : ~Scored(p, k)

Expected ==
  IF Unusable THEN "DATA_INVALID" ELSE IF Accepted # {} THEN "MATCH" ELSE "NO_MATCH"

\* Whether the loops stop early or visit all, and whatever samples in between are
\* empty or of no use, a capture that is matched at all gets the verdict that all
\* the samples give, and no stored data is called invalid that holds a usable one.
VerdictIsExpected == verdict \notin {"NONE", "RETRY"} => verdict = Expected

\* p and q stand for the same person as far as libfprint can tell.
SamePerson(p, q) ==
  p = q \/ (gallery[p].user = gallery[q].user /\ gallery[p].user # NoUser)

\* The person who is reported was good enough, and nobody else scored better,
\* although an early stop may report another print of that person than the best.
NobodyElseScoredBetter ==
  verdict = "MATCH" =>
    /\ match \in Accepted
    /\ \A p \in DOMAIN gallery : \A k \in DOMAIN gallery[p].samples :
         Scored(p, k) /\ ~SamePerson(match, p) =>
           \E l \in DOMAIN gallery[match].samples :
             /\ Scored(match, l)
             /\ gallery[match].samples[l].score >= gallery[p].samples[k].score
=============================================================================
