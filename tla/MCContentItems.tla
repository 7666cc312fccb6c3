--------------------------- MODULE MCContentItems ---------------------------
(***************************************************************************)
(* Small instances of ContentItems and of ContentPublishing.               *)
(***************************************************************************)
EXTENDS ContentItems, TLC

Keep == [status |-> "keep", when |-> "keep",
         retarget |-> FALSE, targets |-> {}, clears |-> FALSE]

\* A new caption; a status set by hand.
MCEditInput == {Keep, [Keep EXCEPT !.status = "APPROVED"]}

MCSymmetry == Permutations(Decider)
=============================================================================
