----------------------------- MODULE MCPlatform -----------------------------
(***************************************************************************)
(* The parts of the platform that keep something on disk, and share no     *)
(* state with one another, side by side: a behaviour is one of the part    *)
(* that 'focus' names, and in the others nothing happens.  Each part is    *)
(* explored as if it were checked alone, from each of its initial states.  *)
(***************************************************************************)
EXTENDS BootstrapSlots, FileTasks, ManagementTasks, UserPluginTransaction, ProxyRevisions,
        ManagerLaunch, SystemPlugins, ManagedStore, SystemSkills, RuntimeReset

VARIABLE focus

(* Stage 0: three images (release 1, release 3 with a rotated keyring, a    *)
(* development one) and two staged Bootstraps: a broken one that claims the *)
(* sequence of image-3, and one of release 4 with the content of image-3.   *)
Key(number, key, following, old) ==
  [generation |-> number, current |-> key, next |-> following, revoked |-> old]
K1 == Key(1, "A", "B", {})
K2 == Key(2, "B", "C", {"A"})
Keys == {K1, K2, Key(2, "B", "D", {"A"})}
SignedTargets ==
  { [sequence |-> n, generation |-> 1, key |-> "A",
     dsh |-> [version |-> n, content |-> "x"]] : n \in {1, 2} }
OfficialReleases == {[version |-> v, content |-> "x"] : v \in {2, 3}}

Images == {"image-1", "image-3", "development"}
OwnRecord == [i \in Images |-> i]
Seeds == [i \in Images |-> IF i = "image-3" THEN K2 ELSE K1]
Staged == {"store-3", "store-4"}
Contents == [r \in Images \union Staged |-> IF r = "store-4" THEN "image-3" ELSE r]
Sequences == [r \in Images \union Staged |->
  CASE r = "image-1" -> 1 [] r \in {"image-3", "store-3"} -> 3
    [] r = "development" -> 0 [] r = "store-4" -> 4]

(* Files: directories 1 and 2 on the root, 3 on a volume; n and k are names. *)
Paths == {"1n", "1k", "2n", "3n", "3k"}
Parents == [p \in Paths |-> CASE p \in {"1n", "1k"} -> 1 [] p = "2n" -> 2 [] OTHER -> 3]
Present == {"1n", "1k", "2n"}
Places == [x \in Paths \X {1, 2, 3} |->
  IF x[1] \in {"1k", "3k"} THEN IF x[2] = 3 THEN "3k" ELSE "1k"
  ELSE CASE x[2] = 1 -> "1n" [] x[2] = 2 -> "2n" [] OTHER -> "3n"]
Devices == [d \in {1, 2, 3} |-> IF d = 3 THEN "volume" ELSE "root"]
FileRequests ==
  LET Asking(what, from, dir, on) ==
        [operation |-> what, sources |-> from, to |-> dir, conflict |-> on]
  IN { Asking("move", <<"1n", "1k">>, 3, "reject"),
       Asking("move", <<"2n">>, 1, "overwrite"),
       Asking("move", <<"2n">>, 3, "overwrite"),
       Asking("copy", <<"1n">>, 2, "overwrite"),
       Asking("copy", <<"2n">>, 3, "reject"),
       Asking("delete", <<"1n", "1k">>, 1, "reject") }

(* Skills: two environments, whose sources share one. *)
Catalogs == [e \in {1, 2} |-> IF e = 1 THEN {"s1", "s2"} ELSE {"s2", "s3"}]

Focus ==
  { "stage0", "files", "tasks", "userPlugins", "proxy", "manager", "apply",
    "store", "skills", "resets" }

PlatformInit ==
  /\ focus \in Focus
  /\ Init /\ (focus = "stage0" \/ image = "image-1")
  /\ FileInit /\ ManagementInit
  /\ PluginInit
  /\ ProxyInit
  /\ ManagerInit
  /\ SystemPluginsInit
  /\ StoreInit
  /\ SkillsInit /\ (focus = "skills" \/ skillEnv = 1)
  /\ ResetInit
  /\ (focus = "resets" \/ (resetSlots.previous = "old" /\ inPlace = "none"))

PlatformNext ==
  /\ UNCHANGED focus
  /\ IF focus = "stage0" THEN Next ELSE UNCHANGED vars
  /\ IF focus = "files" THEN FileNext ELSE UNCHANGED fileVars
  /\ IF focus = "tasks" THEN ManagementNext ELSE UNCHANGED managementVars
  /\ IF focus = "userPlugins" THEN PluginNext ELSE UNCHANGED pluginVars
  /\ IF focus = "proxy" THEN ProxyNext ELSE UNCHANGED proxyVars
  /\ IF focus = "manager" THEN ManagerNext ELSE UNCHANGED managerVars
  /\ IF focus = "apply" THEN PluginServerNext \/ PluginPageNext
     ELSE UNCHANGED applyVars
  /\ IF focus = "store" THEN StoreNext ELSE UNCHANGED storeVars
  /\ IF focus = "skills" THEN SkillsNext ELSE UNCHANGED skillVars
  /\ IF focus = "resets" THEN ResetNext ELSE UNCHANGED resetVars

everything ==
  <<focus, vars, fileVars, managementVars, pluginVars, proxyVars, managerVars,
    applyVars, storeVars, skillVars, resetVars>>
PlatformSpec == PlatformInit /\ [][PlatformNext]_everything

(* Every variable holds what its module says it may hold.                   *)
PlatformTypes ==
  /\ TypeOK /\ FileType /\ ManagementType
  /\ PluginType /\ ProxyType
==============================================================================
