---------------------------- MODULE SystemSkills ----------------------------
(***************************************************************************)
(* System Skills (control-plane/modules/skill-manager): the catalog an     *)
(* Environment brings, the stored selection, and the view of symbolic      *)
(* links DSH reads.  A change goes through Bootstrap's deployment queue, as *)
(* do the starts and reloads that adopt the catalog of the selected        *)
(* Environment; the recovery of DSH adopts it outside the queue, so that a *)
(* change and an adoption may overlap.  Overlaps, crashes and failed       *)
(* writes leave the three apart until the next start or change.            *)
(***************************************************************************)
EXTENDS Naturals, FiniteSets

CONSTANTS
  SkillEnvs,        \* Environments
  Catalog,          \* the Skills each Environment brings
  MaxSkillChanges,  \* changes a behaviour asks for
  MaxSkillFaults,   \* failed steps and crashes
  MaxSkillStarts    \* starts of DSH, each of the same or of another Environment

VARIABLES
  skillEnv,   \* the Environment of the selected Deployment
  sourceEnv,  \* the Environment whose catalog the manager uses
  skillSelection,  \* the stored selection
  links,      \* the view: the Environment each linked Skill comes from
  skillChange,     \* the change being carried out
  adopt,      \* the catalog being adopted
  adopted,    \* the last start of DSH got through
  tangled,    \* history: a change and an adoption overlap ("now"), or an overlap or
              \* a failure was the last to write ("left"), or neither ("no")
  skillUses   \* bounds: changes, faults and starts so far

skillVars == <<skillEnv, sourceEnv, skillSelection, links, skillChange, adopt, adopted, tangled, skillUses>>
envVars == <<skillEnv, sourceEnv>>

NoChange == [step |-> "idle", env |-> 0, before |-> <<>>, next |-> <<>>]
NoAdopt == [step |-> "idle", by |-> "queue", env |-> 0, next |-> <<>>]

\* What is stored for the Skills of a catalog; a new Skill is on by default.
Normalized(stored, e) ==
  [s \in Catalog[e] |-> IF s \in DOMAIN stored THEN stored[s] ELSE "on"]
Enabled(choice) == {s \in DOMAIN choice : choice[s] = "on"}

\* synchronizeSystemSkillView first removes what is not enabled, then links.
Pruned(choice) == [s \in DOMAIN links \cap Enabled(choice) |-> links[s]]
Linked(choice, e) == [s \in DOMAIN links \cup Enabled(choice) |->
                        IF s \in Enabled(choice) THEN e ELSE links[s]]

SkillsInit ==
  /\ skillEnv \in SkillEnvs /\ sourceEnv = skillEnv
  /\ skillSelection = Normalized(<<>>, skillEnv)
  /\ links = [s \in Catalog[skillEnv] |-> skillEnv]
  /\ skillChange = NoChange /\ adopt = NoAdopt /\ adopted = TRUE
  /\ tangled = "no"
  /\ skillUses = [changes |-> 0, faults |-> 0, starts |-> 0]

Use(kind, bound) == skillUses[kind] < bound /\ skillUses' = [skillUses EXCEPT ![kind] = @ + 1]

\* A task begins, and ends well or not, beside the other, or alone.
SkillsBegin(other) == tangled' = IF other.step = "idle" THEN tangled ELSE "now"
EndsWell(other) ==
  tangled' = IF other.step # "idle" THEN "now" ELSE IF tangled = "now" THEN "left" ELSE "no"
EndsBadly(other) == tangled' = IF other.step # "idle" THEN "now" ELSE "left"

-----------------------------------------------------------------------------
(* A change: written, then shown; undone when a step fails.                *)

\* install, uninstall, enable (only what is installed) and disable.
Outcomes(now) == {"on", "gone"} \cup (IF now = "gone" THEN {} ELSE {"off"})

Configure ==
  /\ skillChange.step = "idle"
  /\ adopt.step = "idle" \/ adopt.by = "recovery"
  /\ \E s \in Catalog[sourceEnv] :
       LET before == Normalized(skillSelection, sourceEnv) IN
       \E to \in Outcomes(before[s]) \ {before[s]} :
         skillChange' = [step |-> "write", env |-> sourceEnv, before |-> before,
                    next |-> [before EXCEPT ![s] = to]]
  /\ SkillsBegin(adopt) /\ Use("changes", MaxSkillChanges)
  /\ UNCHANGED <<envVars, skillSelection, links, adopt, adopted>>

WriteChange ==
  /\ skillChange.step = "write"
  /\ skillSelection' = skillChange.next
  /\ skillChange' = [skillChange EXCEPT !.step = "prune"]
  /\ UNCHANGED <<envVars, links, adopt, adopted, tangled, skillUses>>
Afterwards(step) == skillChange' = [skillChange EXCEPT !.step = step] /\ UNCHANGED tangled
ShowChange ==
  /\ \/ skillChange.step = "prune" /\ links' = Pruned(skillChange.next) /\ Afterwards("link")
     \/ skillChange.step = "reprune" /\ links' = Pruned(skillChange.next) /\ Afterwards("relink")
     \/ /\ skillChange.step \in {"link", "relink"}
        /\ links' = Linked(skillChange.next, skillChange.env)
        /\ skillChange' = NoChange /\ EndsWell(adopt)
  /\ UNCHANGED <<envVars, skillSelection, adopt, adopted, skillUses>>

\* A step fails: the change is undone; if it is the undo's, that is the end.
ChangeFails ==
  /\ \/ /\ skillChange.step \in {"write", "prune", "link"}
        /\ skillChange' = [skillChange EXCEPT !.step = "undo", !.next = skillChange.before]
        /\ UNCHANGED tangled
     \/ /\ skillChange.step \in {"undo", "reprune", "relink"}
        /\ skillChange' = NoChange /\ EndsBadly(adopt)
  /\ Use("faults", MaxSkillFaults)
  /\ UNCHANGED <<envVars, skillSelection, links, adopt, adopted>>
\* The selection is written back and the view is made from it again.
UndoChange ==
  /\ skillChange.step = "undo"
  /\ skillSelection' = skillChange.before
  /\ skillChange' = [skillChange EXCEPT !.step = "reprune"]
  /\ UNCHANGED <<envVars, links, adopt, adopted, tangled, skillUses>>

-----------------------------------------------------------------------------
(* A start of DSH adopts the catalog of the selected Environment; what the *)
(* queue starts waits for a change, and may have selected another one.     *)

StartDsh ==
  /\ adopt.step = "idle"
  /\ \E by \in {"queue", "recovery"} :
       /\ IF by = "queue" THEN skillChange.step = "idle" /\ skillEnv' \in SkillEnvs
          ELSE UNCHANGED skillEnv
       /\ adopt' = [step |-> "read", by |-> by, env |-> skillEnv', next |-> <<>>]
  /\ adopted' = FALSE
  /\ SkillsBegin(skillChange) /\ Use("starts", MaxSkillStarts)
  /\ UNCHANGED <<sourceEnv, skillSelection, links, skillChange>>

DefectUseSourceRoot ==
  /\ adopt.step = "read"
  /\ adopt' = [adopt EXCEPT !.step = "write", !.next = Normalized(<<>>, adopt.env)]
  /\ UNCHANGED <<envVars, skillSelection, links, skillChange, adopted, tangled, skillUses>>
UseSourceRoot ==
  /\ adopt.step = "read"
  /\ adopt' = [adopt EXCEPT !.step = "write", !.next = Normalized(skillSelection, adopt.env)]
  /\ UNCHANGED <<envVars, skillSelection, links, skillChange, adopted, tangled, skillUses>>
\* What is written are the Skills of the new catalog only.
WriteAdopted ==
  /\ adopt.step = "write"
  /\ skillSelection' = adopt.next
  /\ adopt' = [adopt EXCEPT !.step = "prune"]
  /\ UNCHANGED <<envVars, links, skillChange, adopted, tangled, skillUses>>
ShowAdopted ==
  \/ /\ adopt.step = "prune"
     /\ links' = Pruned(adopt.next)
     /\ adopt' = [adopt EXCEPT !.step = "link"]
     /\ UNCHANGED <<envVars, skillSelection, skillChange, adopted, tangled, skillUses>>
  \/ /\ adopt.step = "link"
     /\ links' = Linked(adopt.next, adopt.env)
     /\ sourceEnv' = adopt.env
     /\ adopt' = NoAdopt /\ adopted' = TRUE /\ EndsWell(skillChange)
     /\ UNCHANGED <<skillEnv, skillSelection, skillChange, skillUses>>

\* DSH is not started; the next start adopts again.  Bootstrap's own start
\* ends with it, and Stage-0 launches it anew.
AdoptFails ==
  /\ adopt.step # "idle"
  /\ adopt' = IF adopt.by = "boot" THEN [adopt EXCEPT !.step = "read", !.next = <<>>] ELSE NoAdopt
  /\ EndsBadly(skillChange) /\ Use("faults", MaxSkillFaults)
  /\ UNCHANGED <<envVars, skillSelection, links, skillChange, adopted>>
\* initialize adopts before any request is answered.
BootstrapCrashes ==
  /\ skillChange' = NoChange /\ tangled' = "left"
  /\ adopt' = [step |-> "read", by |-> "boot", env |-> skillEnv, next |-> <<>>]
  /\ adopted' = FALSE /\ sourceEnv' = skillEnv
  /\ Use("faults", MaxSkillFaults)
  /\ UNCHANGED <<skillEnv, skillSelection, links>>

SkillsNext ==
  \/ Configure \/ WriteChange \/ ShowChange \/ ChangeFails \/ UndoChange
  \/ StartDsh \/ UseSourceRoot \/ WriteAdopted \/ ShowAdopted \/ AdoptFails \/ BootstrapCrashes
SkillsSpec == SkillsInit /\ [][SkillsNext]_skillVars

-----------------------------------------------------------------------------
(* DSH sees what was chosen: with no change under way and DSH started, the *)
(* view links exactly the enabled Skills of the selected Environment, each *)
(* to that Environment's copy.  An overlap, and a change whose undo failed, *)
(* may leave it otherwise; the next start or change that runs alone makes  *)
(* it right, whatever was left.                                            *)
ViewRight ==
  skillChange.step = "idle" /\ adopt.step = "idle" /\ adopted /\ tangled = "no" =>
    links = [s \in Enabled(Normalized(skillSelection, skillEnv)) |-> skillEnv]

(* A choice stands until the user makes another: starting DSH, with the    *)
(* same Environment or another one that has the Skill, changes no stored   *)
(* choice, unless a recovery overlaps the change that makes it.            *)
ChoiceStands ==
  [][skillChange' = skillChange /\ tangled # "now"
     => \A s \in DOMAIN skillSelection \cap DOMAIN skillSelection' : skillSelection'[s] = skillSelection[s]]_skillVars

(* DSH has the Skills that were chosen, and only the user chooses; what an *)
(* overlap or a failed undo leaves apart is put right.                     *)
SkillsAsChosen == []ViewRight /\ ChoiceStands
=============================================================================
