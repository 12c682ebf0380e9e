------------------------------ MODULE MCConsole ------------------------------
(***************************************************************************)
(* What people use the console for, what lets them in, and the rollback of *)
(* an Experimental update: parts that share no state, side by side.  A     *)
(* behaviour is one of the part that 'focus' names, and in the others      *)
(* nothing happens; each is explored as if it were checked alone, from     *)
(* each of its initial states.                                             *)
(***************************************************************************)
EXTENDS ConsoleFiles, ExperimentalUpdate, AccessManager, AccountState, LoginLimits, TwoFactor,
        BrowserLogin, TerminalSessions, LogStream, ConsoleProxy

VARIABLE focus

(* Experimental updates: an image with DSH 1, the Managed copy of its        *)
(* Deployment, two Experimental candidates and two Stable targets.  With     *)
(* complete rollbacks and every event that can befall them, or with Stable   *)
(* updates in between and lost containers.                                   *)
Releases == {"image", "managed", "candidate-2", "candidate-3", "stable-3", "stable-4"}
Copies == [r \in Releases |-> IF r = "image" THEN "managed" ELSE r]
Candidates == <<"candidate-2", "candidate-3">>
DshVersions ==
  [r \in Releases |-> CASE r = "candidate-2" -> 2 [] r \in {"candidate-3", "stable-3"} -> 3
                         [] r = "stable-4" -> 4 [] OTHER -> 1]
Targets == <<"stable-3", "stable-4">>
ASSUME NewerBuilds == Upgrades

Rollbacks == INSTANCE ExperimentalUpdate WITH
  Events <- EventName, Target <- <<>>, MaxStable <- 0, MaxRollbacks <- 2, MaxExits <- 1

(* The account, replaced by every call and more than once. *)
Replacements == INSTANCE AccessManager WITH Changing <- Calls, MaxWrites <- 3

Focus ==
  { "transfers", "editor", "restorations", "stable", "access", "replaced", "account",
    "limits", "factor", "login", "terminal", "logs", "switches" }

ConsoleInit ==
  /\ focus \in Focus
  /\ ConsoleFilesInit
  /\ focus = "transfers" \/ (/\ browse.path = CHOOSE d \in FileDirs : TRUE
                             /\ standing \in [DOMAIN standing -> {"none"}])
  /\ Init
  /\ AccessInit /\ (focus = "access" \/ account.extraOn)
  /\ StateInit
  /\ LimitInit
  /\ FactorInit
  /\ LoginInit /\ (focus = "login" \/ access.extra)
  /\ TerminalInit
  /\ LogInit
  /\ ProxyTabInit

ConsoleNext ==
  /\ UNCHANGED focus
  /\ CASE focus = "transfers" -> ListingNext \/ TransferNext
       [] focus = "editor" -> ListingNext \/ EditorNext
       [] OTHER -> UNCHANGED filesVars
  /\ CASE focus = "restorations" -> Rollbacks!Next
       [] focus = "stable" -> Next
       [] OTHER -> UNCHANGED vars
  /\ CASE focus = "access" -> AccessNext
       [] focus = "replaced" -> Replacements!AccessNext
       [] OTHER -> UNCHANGED accessVars
  /\ IF focus = "account" THEN StateNext ELSE UNCHANGED stateVars
  /\ IF focus = "limits" THEN LimitNext ELSE UNCHANGED limitVars
  /\ IF focus = "factor" THEN FactorNext ELSE UNCHANGED factorVars
  /\ IF focus = "login" THEN LoginNext ELSE UNCHANGED loginVars
  /\ IF focus = "terminal" THEN TerminalNext ELSE UNCHANGED termVars
  /\ IF focus = "logs" THEN LogNext ELSE UNCHANGED logVars
  /\ IF focus = "switches" THEN ProxyTabNext ELSE UNCHANGED proxyTabVars

everything ==
  <<focus, filesVars, vars, accessVars, stateVars, limitVars, factorVars,
    loginVars, termVars, logVars, proxyTabVars>>
ConsoleSpec == ConsoleInit /\ [][ConsoleNext]_everything
==============================================================================
