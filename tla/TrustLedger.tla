---------------------------- MODULE TrustLedger ----------------------------
(***************************************************************************)
(* What Stage-0 trusts (platform/stage0/lib/ledger.mjs): the Recovery      *)
(* signed keyring, the release target signed by the keyring's current key  *)
(* and the official DSH version.  Each is one file replaced atomically,    *)
(* but a keyring is kept a second time under its generation, for targets   *)
(* signed before the next rotation, and a crash may come between the two.  *)
(***************************************************************************)
EXTENDS Naturals, Sequences

CONSTANTS
  Keyring,   \* signed documents: [generation, current, next, revoked]
  Target,    \* signed documents: [sequence, generation, key, dsh]
  Official,  \* verified candidates: [version, content]
  None       \* a file that does not exist

LedgerAssumption ==
  /\ \A k \in Keyring : k.generation \in Nat \ {0}
  /\ \A t \in Target : t.sequence \in Nat /\ t.generation \in Nat \ {0}
  /\ \A o \in Official : o.version \in Nat
  /\ None \notin Keyring \union Target \union Official
ASSUME LedgerAssumption

VARIABLES
  keyring,      \* keyring/current.record.json
  generations,  \* keyring/generations/*.record.json, the set of documents
  target,       \* target/current.record.json
  official,     \* official-dsh/current.record.json
  accepting     \* the keyring whose generation is written and which is not yet current

trust == <<keyring, generations, target, official, accepting>>

LedgerType ==
  /\ keyring \in Keyring \union {None}
  /\ generations \subseteq Keyring
  /\ target \in Target \union {None}
  /\ official \in Official \union {None}
  /\ accepting \in Keyring \union {None}

LedgerInit ==
  /\ keyring = None /\ generations = {} /\ target = None /\ official = None
  /\ accepting = None

(* validateKeyringTransition: a key leaves by being revoked, and for good. *)
ValidKeyringTransition(k, n) ==
  /\ n.generation > k.generation
  /\ k.revoked \subseteq n.revoked
  /\ {k.current, k.next} \subseteq {n.current, n.next} \union n.revoked
  /\ {n.current, n.next} \cap k.revoked = {}

(* The queue runs one operation at a time. *)
Unlocked == accepting = None

(* acceptKeyringUnlocked up to its first write.  A generation that was     *)
(* written by an interrupted acceptance is only completed, never replaced. *)

Acceptable(k) ==
  /\ keyring # None => ValidKeyringTransition(keyring, k)
  /\ \A g \in generations : g.generation = k.generation => g = k

RecordGeneration(k) ==
  /\ Unlocked /\ Acceptable(k)
  /\ accepting' = k
  /\ generations' = generations \union {k}
  /\ UNCHANGED <<keyring, target, official>>

ReplaceKeyring ==
  /\ accepting # None
  /\ keyring' = accepting
  /\ accepting' = None
  /\ UNCHANGED <<generations, target, official>>

(* verifyReleaseTarget with a keyring. *)
Signed(t, k) == t.generation = k.generation /\ t.key = k.current

(* currentTarget: the accepted target is verified with the keyring of its  *)
(* generation, the current one or one from the history.                    *)
TargetReadable == target # None => \E k \in generations : Signed(target, k)

DefectAcceptTarget(t) ==
  /\ Unlocked /\ keyring # None /\ Signed(t, keyring)
  /\ target' = t
  /\ UNCHANGED <<keyring, generations, official, accepting>>

AcceptTarget(t) ==
  /\ Unlocked /\ keyring # None /\ Signed(t, keyring)
  /\ TargetReadable
  /\ target # None =>
       /\ t.sequence >= target.sequence
       /\ t.sequence = target.sequence => t = target
  /\ target' = t
  /\ UNCHANGED <<keyring, generations, official, accepting>>

(* The policy in the target is authorised by the keyring of this moment. *)
Authorized == target # None /\ keyring # None /\ Signed(target, keyring)

AcceptOfficialDsh(o) ==
  /\ Unlocked /\ Authorized
  /\ o.version >= target.dsh.version
  /\ o.version = target.dsh.version => o.content = target.dsh.content
  /\ official # None =>
       /\ o.version >= official.version
       /\ o.version = official.version => o = official
  /\ official' = o
  /\ UNCHANGED <<keyring, generations, target, accepting>>

LedgerNext ==
  \/ \E k \in Keyring : RecordGeneration(k)
  \/ \E t \in Target : AcceptTarget(t)
  \/ \E o \in Official : AcceptOfficialDsh(o)

(* Stage-0 dies: what is not in a file is gone. *)
LedgerLost == accepting' = None /\ UNCHANGED <<keyring, generations, target, official>>

-----------------------------------------------------------------------------
(* A generation number identifies one keyring for ever, also when its      *)
(* acceptance was interrupted between the two files and another keyring of *)
(* the same generation arrives (ledger.mjs, acceptKeyringUnlocked).        *)
GenerationsUnique ==
  /\ \A g, h \in generations : g.generation = h.generation => g = h
  /\ keyring # None => keyring \in generations

(* The target that was accepted can be verified whatever keyring has been  *)
(* accepted since: otherwise no update would ever be accepted again        *)
(* (ledger.mjs, currentTarget).                                            *)
TargetVerifiable == TargetReadable

(* Nothing that was superseded or revoked is trusted again: sequences and  *)
(* versions never go back over crashes and image changes, and the key of a *)
(* keyring or of a new target was revoked by no keyring before it.         *)
NoTrustRollback ==
  [][ /\ keyring # None => /\ keyring' # None
                           /\ keyring'.generation >= keyring.generation
                           /\ keyring.revoked \subseteq keyring'.revoked
      /\ target # None => target' # None /\ target'.sequence >= target.sequence
      /\ official # None => official' # None /\ official'.version >= official.version
      /\ keyring' # None =>
           \A g \in generations : g.generation <= keyring'.generation =>
             {keyring'.current, keyring'.next} \cap g.revoked = {}
    ]_trust
=============================================================================
