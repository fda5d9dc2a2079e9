-------------------------- MODULE MCMatchDecision --------------------------
(* Galleries of up to three prints: three with a sample each, two with two, *)
(* one with three.  Scores below, at and above the gate.                    *)
EXTENDS MatchDecision, SequencesExt

MCSamples == {[status |-> "EMPTY", score |-> 0], [status |-> "UNUSABLE", score |-> 0]}
               \cup [status : {"OK"}, score : BestMin - 1 .. BestMin + 1]
Prints(n) == [user : Users \cup {NoUser}, samples : BoundedSeq(MCSamples, n)]
MCGalleries ==
  BoundedSeq(Prints(1), 3) \cup BoundedSeq(Prints(2), 2) \cup BoundedSeq(Prints(3), 1)
=============================================================================
