--------------------------- MODULE CompleteState ---------------------------
(***************************************************************************)
(* What an update promises to the user of DSH: the Deployment and the data *)
(* in /data/dsh form one state.  DSH works on the data; an update replaces *)
(* the Deployment, after which the new DSH works on them; an update that   *)
(* is not committed leaves no trace in either.                             *)
(*                                                                         *)
(* The data are described by the Deployments whose DSH wrote them.         *)
(***************************************************************************)
CONSTANTS Record

VARIABLES deployment, data

vars == <<deployment, data>>

Init == deployment \in Record /\ data = {deployment}

Work == data' = data \union {deployment} /\ UNCHANGED deployment

(* While a candidate is on probation its DSH works already; both become     *)
(* visible in the step that commits it.                                     *)
Update(r) == deployment' = r /\ data' \in {data, data \union {r}}

Next == Work \/ \E r \in Record : Update(r)

Spec == Init /\ [][Next]_vars
=============================================================================
