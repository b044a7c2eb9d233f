---------------------------- MODULE MCCoSpeakers ----------------------------
(* TLC instances of co-speaker invitations. *)
EXTENDS CoSpeakers, TLC

MCKeys == Speakers \X Generations

Symmetry == Permutations(Workers)
=============================================================================
