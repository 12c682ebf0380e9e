------------------------ MODULE MCExperimentalUpdate ------------------------
(***************************************************************************)
(* Instances of ExperimentalUpdate: an image with DSH 1, the Managed copy  *)
(* of its Deployment, two Experimental candidates and two Stable targets.  *)
(***************************************************************************)
EXTENDS ExperimentalUpdate

MCRecord == {"image", "managed", "candidate-2", "candidate-3", "stable-3", "stable-4"}
MCCopy == [r \in MCRecord |-> IF r = "image" THEN "managed" ELSE r]
MCCandidate == [n \in 1..MaxUpdates |-> IF n = 1 THEN "candidate-2" ELSE "candidate-3"]
MCTarget == [n \in 1..MaxStable |-> IF n = 1 THEN "stable-3" ELSE "stable-4"]
MCDshVersion ==
  [r \in MCRecord |-> CASE r \in {"image", "managed"} -> 1
                       [] r = "candidate-2" -> 2
                       [] r \in {"candidate-3", "stable-3"} -> 3
                       [] r = "stable-4" -> 4]

=============================================================================
