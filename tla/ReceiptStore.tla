---------------------------- MODULE ReceiptStore ----------------------------
(***************************************************************************)
(* The trusted receipts Stage-0 keeps on disk (platform/stage0/lib/        *)
(* artifacts.mjs).  A receipt says that one downloaded artifact was        *)
(* verified; a Deployment Record names the receipts it was built from, and *)
(* switching to a Deployment activates them.                               *)
(*                                                                         *)
(* Every receipt is a file of its own.  TrustedArtifactStore.activate      *)
(* decides the new status of every receipt first and then replaces the     *)
(* files one after the other, so a container that dies in between leaves   *)
(* some of them rewritten.  goal is the status each file will have once    *)
(* the running activation has written them all; it lives in Stage-0's      *)
(* memory, and the store's exclusive queue is free when goal = receipts.   *)
(***************************************************************************)
EXTENDS FiniteSets

CONSTANT Token        \* receipt tokens; a set of them stands for the set
                      \* closed under parentReceipt that activate selects

VARIABLES receipts,   \* the status in each receipt file
          goal        \* the statuses the running activation is writing

receiptVars == <<receipts, goal>>

Status == {"absent", "staged", "active", "previous", "retired", "revoked"}

ReceiptTypeOK == /\ receipts \in [Token -> Status]
                 /\ goal \in [Token -> Status]

ReceiptInit == /\ receipts = [t \in Token |-> "absent"]
               /\ goal = receipts

-----------------------------------------------------------------------------
(* activeReceipts(), and the statuses activate() accepts.  An authority     *)
(* that has moved on makes a staged receipt unusable: that is what          *)
(* RevokeReceipt below does to its status.                                 *)
Active == {t \in Token : receipts[t] = "active"}

Usable(tokens) == \A t \in tokens : receipts[t] \in {"staged", "active", "previous"}

Quiet == goal = receipts

(* Defect: what an activation replaces is retired at once. *)
DefectAfterActivation(tokens) ==
  [t \in Token |-> IF t \in tokens THEN "active"
                   ELSE IF receipts[t] \in {"active", "previous"} THEN "retired"
                   ELSE receipts[t]]

AfterActivation(tokens) ==
  [t \in Token |-> IF t \in tokens THEN "active"
                   ELSE IF receipts[t] = "active" THEN "previous"
                   ELSE IF receipts[t] = "previous" THEN "retired"
                   ELSE receipts[t]]

-----------------------------------------------------------------------------
(* One artifact of a candidate is downloaded and verified. *)
ImportReceipt(t) ==
  /\ Quiet
  /\ receipts[t] = "absent"
  /\ receipts' = [receipts EXCEPT ![t] = "staged"]
  /\ goal' = receipts'

(* A new keyring, target or Registry policy: staged receipts only. *)
RevokeReceipt(t) ==
  /\ Quiet
  /\ receipts[t] = "staged"
  /\ receipts' = [receipts EXCEPT ![t] = "revoked"]
  /\ goal' = receipts'

BeginActivation(tokens) ==
  /\ Quiet
  /\ Usable(tokens)
  /\ goal' = AfterActivation(tokens)
  /\ UNCHANGED receipts

WriteReceipt(t) ==
  /\ receipts[t] # goal[t]
  /\ receipts' = [receipts EXCEPT ![t] = goal[t]]
  /\ UNCHANGED goal

(* Stage-0 dies with the container: what is not written yet never will be. *)
AbandonActivation == /\ goal' = receipts
                     /\ UNCHANGED receipts
=============================================================================
