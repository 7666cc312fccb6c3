------------------------- MODULE MCContentPublishing -------------------------
(***************************************************************************)
(* Small instances of ContentPublishing.                                   *)
(***************************************************************************)
EXTENDS ContentPublishing, TLC

Keep == [status |-> "keep", when |-> "keep",
         retarget |-> FALSE, targets |-> {}, clears |-> FALSE]

\* A new caption; new media; other targets.
MCEditInput == {Keep, [Keep EXCEPT !.clears = TRUE],
                [Keep EXCEPT !.retarget = TRUE, !.targets = Target]}
CaptionOnly == {Keep}

NotYetPublished == \A c \in Content : content[c].status # "PUBLISHED"
Undisturbed == disturbed = {}
TargetSymmetry == Permutations(Target)
SweepSymmetry == Permutations(Instance) \cup Permutations(Target)
=============================================================================
