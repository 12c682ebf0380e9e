-------------------------- MODULE AtomicDeployment --------------------------
(***************************************************************************)
(* What Bootstrap's Deployment slots promise to everybody else: the        *)
(* Deployment installed on this platform changes in one step, to the       *)
(* candidate of a transaction, to the Deployment retained for rollback, or *)
(* to the image's own; and whatever it replaces is retained.               *)
(***************************************************************************)
CONSTANTS Record, NoRecord, Image, Materialized

VARIABLES installed,  \* what the next start is to run
          retained,   \* what a rollback goes back to
          pending     \* the candidate of a transaction that is not decided

vars == <<installed, retained, pending>>

Other(r) == IF r = installed' THEN NoRecord ELSE r

Init == installed = NoRecord /\ retained = NoRecord /\ pending = NoRecord

Begin(r) == /\ installed # NoRecord
            /\ r # installed
            /\ pending' = r
            /\ UNCHANGED <<installed, retained>>

Abort == pending' = NoRecord /\ UNCHANGED <<installed, retained>>

Commit == /\ pending # NoRecord
          /\ installed' = pending
          /\ retained' = installed
          /\ pending' = NoRecord

(* The installed Deployment does not start, the retained one does. *)
Fallback == /\ pending = NoRecord
            /\ retained # NoRecord
            /\ installed' = retained
            /\ retained' = installed
            /\ UNCHANGED pending

(* The container runs another image, or the same one again. *)
AdoptImage(i) == /\ pending = NoRecord
                 /\ installed' = i
                 /\ retained' \in {installed, NoRecord}
                 /\ UNCHANGED pending

(* The image's Deployment is copied to the store before it is replaced. *)
Materialize(i) == /\ pending = NoRecord
                  /\ installed = i
                  /\ installed' = Materialized[i]
                  /\ retained' = Other(retained)
                  /\ UNCHANGED pending

Next == \/ \E r \in Record : Begin(r)
        \/ Abort
        \/ Commit
        \/ Fallback
        \/ \E i \in Image : AdoptImage(i) \/ Materialize(i)

Spec == Init /\ [][Next]_vars
=============================================================================
