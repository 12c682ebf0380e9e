----------------------------- MODULE AccountState -----------------------------
(***************************************************************************)
(* How the administrator account comes to be (access-manager/lib/store):   *)
(* initialization.json says whether anyone may still create the account,   *)
(* account.json is the account, and they are written one after the other.  *)
(* Bootstrap has them classified when the container starts.                *)
(***************************************************************************)
EXTENDS Naturals

CONSTANTS
  MaxAccounts,  \* bound: accounts created
  MaxDamage     \* bound: files damaged or lost from outside

VARIABLES
  initialization,  \* initialization.json: a state, "missing" or "damaged"
  accountFile,     \* account.json: "missing", "damaged" or "valid"
  resetKey,        \* an authentication reset key has been generated
  creating,        \* createAccount has written account.json
  classified,      \* Bootstrap has had the state classified since it started
  answered,        \* the last account whose creation was answered
  accounts, damages

stateVars == <<initialization, accountFile, resetKey, creating, classified, answered, accounts, damages>>

StateInit ==
  /\ initialization = "missing" /\ accountFile = "missing"
  /\ resetKey = FALSE /\ creating = FALSE /\ classified = FALSE
  /\ answered = 0 /\ accounts = 0 /\ damages = 0

(* state(). *)
AccessState ==
  CASE initialization \in {"missing", "damaged"} -> "classification-pending"
    [] initialization = "initialized" /\ accountFile # "valid" -> "recovery-required"
    [] OTHER -> initialization

DefectClassified(evidence) ==
  CASE initialization = "never-initialized" /\ accountFile = "valid" -> "initialized"
    [] initialization = "initialized" /\ accountFile = "missing" -> "recovery-required"
    [] initialization \in {"missing", "damaged"} ->
         IF evidence THEN "migration-required" ELSE "never-initialized"
    [] accountFile = "damaged" -> "recovery-required"
    [] OTHER -> initialization

(* classify.  The evidence is what an earlier release has left on the      *)
(* volumes.                                                                *)
Classified(evidence) ==
  CASE initialization = "never-initialized" /\ accountFile = "valid" -> "initialized"
    [] initialization = "initialized" /\ accountFile # "valid" -> "recovery-required"
    [] initialization = "damaged" -> "recovery-required"
    [] initialization = "missing" ->
         IF accountFile # "missing" THEN "recovery-required"
         ELSE IF evidence THEN "migration-required" ELSE "never-initialized"
    [] accountFile = "damaged" -> "recovery-required"
    [] OTHER -> initialization
Classify ==
  /\ ~classified /\ ~creating /\ classified' = TRUE
  /\ \E evidence \in BOOLEAN : initialization' = Classified(evidence)
  /\ UNCHANGED <<accountFile, resetKey, creating, answered, accounts, damages>>

(* generateAuthenticationResetKey, from the root console. *)
GenerateResetKey ==
  /\ ~creating /\ AccessState \in {"migration-required", "recovery-required"}
  /\ resetKey' = TRUE
  /\ UNCHANGED <<initialization, accountFile, creating, classified, answered, accounts, damages>>

(* createAccount, for initialize, migrate and recover; the operations are  *)
(* serialized.                                                             *)
CreateAccount ==
  /\ ~creating /\ accounts < MaxAccounts
  /\ \/ AccessState = "never-initialized" /\ UNCHANGED resetKey
     \/ AccessState \in {"migration-required", "recovery-required"} /\ resetKey /\ UNCHANGED resetKey
  /\ accountFile' = "valid" /\ accounts' = accounts + 1 /\ creating' = TRUE
  /\ UNCHANGED <<initialization, classified, answered, damages>>
CreationAnswered ==
  /\ creating /\ creating' = FALSE
  /\ initialization' = "initialized" /\ resetKey' = FALSE /\ answered' = accounts
  /\ UNCHANGED <<accountFile, classified, accounts, damages>>

(* The Access Manager alone, or the container, starts again. *)
AccessRestarts ==
  /\ creating' = FALSE /\ resetKey' = FALSE
  /\ \E container \in BOOLEAN : classified' = (classified /\ ~container)
  /\ UNCHANGED <<initialization, accountFile, answered, accounts, damages>>

(* One of the files is lost or damaged while nothing runs. *)
Damage ==
  /\ ~classified /\ ~creating /\ damages < MaxDamage /\ damages' = damages + 1
  /\ \/ initialization' \in {"missing", "damaged"} /\ UNCHANGED accountFile
     \/ accountFile' \in {"missing", "damaged"} /\ UNCHANGED initialization
  /\ UNCHANGED <<resetKey, creating, classified, answered, accounts>>

StateNext ==
  \/ Classify \/ GenerateResetKey \/ CreateAccount \/ CreationAnswered \/ AccessRestarts \/ Damage
StateSpec == StateInit /\ [][StateNext]_stateVars

(* Once the creation of an account has been answered, nobody creates another *)
(* one without a reset key from the root console, whatever file is lost and  *)
(* wherever a creation was interrupted.                                      *)
OpenOnce == answered > 0 => AccessState # "never-initialized"

=============================================================================
