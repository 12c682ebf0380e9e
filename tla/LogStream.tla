------------------------------- MODULE LogStream -------------------------------
(***************************************************************************)
(* Logs: several processes append to the files of one source, each with a  *)
(* JsonlLogManager of its own, rotate and prune them; the Management       *)
(* service streams them to the console (query, follow, query again, then   *)
(* scans), and the console keeps what it was sent, clears its view and     *)
(* opens the stream again when it falls silent. Entries are numbered in    *)
(* the order they were written; one file holds RotateAt of them.           *)
(***************************************************************************)
EXTENDS Naturals, Sequences, FiniteSets

CONSTANTS
  LogWriters,   \* processes that append to the source
  MaxLogEntries,   \* bound on the entries written
  RotateAt,     \* entries a file holds before it is rotated
  KeepFiles,    \* files the byte budget leaves room for
  MaxLosses,    \* bound on broken streams and clears
  MidScan       \* whether a file may be rotated between being listed and being read

ASSUME BudgetIsNumber == KeepFiles \in Nat

VARIABLES
  files,    \* every file ever written: its name now and its entries
  writer,   \* the append a process is in the middle of
  written,  \* entries given a number
  stream,   \* the open stream: its phase, and the listing it reads from
  offsets,  \* how far the follower has read each file it knows
  sent,     \* entries the stream has sent
  wire,     \* entries under way to the page
  shown,    \* entries on the page
  cutoff,   \* the newest entry the user cleared
  breaks

diskVars == <<files, writer, written>>
pageVars == <<shown, cutoff>>
logVars == <<diskVars, stream, offsets, sent, wire, pageVars, breaks>>

Unlisted == <<>>
NoStream == [at |-> "off", listing |-> Unlisted]
LogInit ==
  /\ files = <<>> /\ writer = [w \in LogWriters |-> "idle"] /\ written = 0
  /\ stream = NoStream /\ offsets = <<>> /\ sent = {} /\ wire = {}
  /\ shown = {} /\ cutoff = 0 /\ breaks = 0

Kept == {f \in DOMAIN files : files[f].name # "gone"}
CurrentFile == {f \in Kept : files[f].name = "current"}
EntriesOf(f) == {files[f].entries[i] : i \in DOMAIN files[f].entries}
Stored == UNION {EntriesOf(f) : f \in Kept}
Unread == MidScan \/ stream.listing = Unlisted

(* ---- Appending (append, pruneUnlocked). ---------------------------------- *)

(* The size is read first; only this process's appends wait for each other.*)
StatLog(w) ==
  /\ writer[w] = "idle" /\ written < MaxLogEntries
  /\ writer' = [writer EXCEPT ![w] =
       IF \E f \in CurrentFile : Len(files[f].entries) >= RotateAt THEN "rotate" ELSE "append"]
  /\ UNCHANGED <<files, written, stream, offsets, sent, wire, pageVars, breaks>>
(* The rename takes whatever bears the name by then; without one the entry *)
(* is lost.                                                                 *)
RotateLog(w) ==
  /\ writer[w] = "rotate" /\ Unread
  /\ IF CurrentFile = {} THEN writer' = [writer EXCEPT ![w] = "idle"] /\ UNCHANGED files
     ELSE /\ writer' = [writer EXCEPT ![w] = "append"]
          /\ files' = [f \in DOMAIN files |->
               IF f \in CurrentFile THEN [files[f] EXCEPT !.name = "rotated"] ELSE files[f]]
  /\ UNCHANGED <<written, stream, offsets, sent, wire, pageVars, breaks>>
AppendLog(w) ==
  /\ writer[w] = "append"
  /\ written' = written + 1 /\ writer' = [writer EXCEPT ![w] = "prune"]
  /\ files' = IF CurrentFile = {}
              THEN Append(files, [name |-> "current", entries |-> <<written + 1>>])
              ELSE [f \in DOMAIN files |->
                IF f \in CurrentFile THEN [files[f] EXCEPT !.entries = Append(@, written + 1)]
                ELSE files[f]]
  /\ UNCHANGED <<stream, offsets, sent, wire, pageVars, breaks>>
(* Beyond the budget the files written longest ago are removed.            *)
Newest(f) == files[f].entries[Len(files[f].entries)]
Pruned == {f \in Kept : Cardinality({g \in Kept : Newest(g) > Newest(f)}) >= KeepFiles}
PruneLogs(w) ==
  /\ writer[w] = "prune"
  /\ writer' = [writer EXCEPT ![w] = "idle"]
  /\ files' = [f \in DOMAIN files |->
       IF f \in Pruned THEN [files[f] EXCEPT !.name = "gone"] ELSE files[f]]
  /\ UNCHANGED <<written, stream, offsets, sent, wire, pageVars, breaks>>

(* ---- The stream (logs/stream, query, follow). ---------------------------- *)

StreamIs(at, listing) == stream' = [at |-> at, listing |-> listing]
(* files(): names, identities and sizes.                                    *)
Listing == [f \in Kept |-> [name |-> files[f].name, size |-> Len(files[f].entries)]]
SendEntries(entries) == sent' = sent \union entries /\ wire' = wire \union (entries \ sent)
(* A path leads to the file that bears the name when it is opened.         *)
StreamOpened(f) ==
  IF stream.listing[f].name = "current" THEN CurrentFile ELSE {f} \intersect Kept
ReadFails == \E f \in DOMAIN stream.listing : StreamOpened(f) = {}
Prefix(f, n) == {files[f].entries[i] : i \in 1 .. n}

ListFiles ==
  /\ stream.at \in {"query", "follow", "again", "live"} /\ stream.listing = Unlisted
  /\ Kept # {} /\ StreamIs(stream.at, Listing)
  /\ UNCHANGED <<diskVars, offsets, sent, wire, pageVars, breaks>>
NextPhase == CASE stream.at = "query" -> "follow"
               [] stream.at = "follow" -> "again"
               [] OTHER -> "live"
(* query: everything the listed paths hold now; a missing one ends it.     *)
QueryFiles ==
  /\ stream.at \in {"query", "again"}
  /\ \/ /\ stream.listing = Unlisted /\ Kept = {}
        /\ StreamIs(NextPhase, Unlisted) /\ UNCHANGED <<sent, wire>>
     \/ /\ stream.listing # Unlisted /\ ReadFails
        /\ StreamIs("stuck", Unlisted) /\ UNCHANGED <<sent, wire>>
     \/ /\ stream.listing # Unlisted /\ ~ReadFails
        /\ SendEntries(UNION {EntriesOf(g) : g \in UNION {StreamOpened(f) : f \in DOMAIN stream.listing}})
        /\ StreamIs(NextPhase, Unlisted)
  /\ UNCHANGED <<diskVars, offsets, pageVars, breaks>>
(* follow: each file is known from its size on.                            *)
DefectFollowFiles ==
  /\ stream.at = "follow" /\ (stream.listing # Unlisted \/ Kept = {})
  /\ offsets' = [f \in DOMAIN stream.listing |-> stream.listing[f].size]
  /\ StreamIs("live", Unlisted)
  /\ UNCHANGED <<diskVars, sent, wire, pageVars, breaks>>
FollowFiles ==
  /\ stream.at = "follow" /\ (stream.listing # Unlisted \/ Kept = {})
  /\ offsets' = [f \in DOMAIN stream.listing |-> stream.listing[f].size]
  /\ StreamIs(NextPhase, Unlisted)
  /\ UNCHANGED <<diskVars, sent, wire, pageVars, breaks>>
(* scan: from where the file was left, by its identity, to its listed size;*)
(* an unknown file from its start, one that is gone is forgotten.          *)
From(f) == IF f \in DOMAIN offsets THEN offsets[f] ELSE 0
ScanFiles ==
  /\ stream.at = "live" /\ stream.listing # Unlisted
  /\ IF ReadFails THEN UNCHANGED <<offsets, sent, wire>>
     ELSE /\ offsets' = [f \in DOMAIN stream.listing |-> stream.listing[f].size]
          /\ SendEntries(UNION {UNION {Prefix(g, IF stream.listing[f].size < Len(files[g].entries)
                                          THEN stream.listing[f].size
                                          ELSE Len(files[g].entries))
                                  \ Prefix(g, IF From(f) < Len(files[g].entries)
                                              THEN From(f) ELSE Len(files[g].entries))
                                : g \in StreamOpened(f)} : f \in DOMAIN stream.listing})
  /\ StreamIs("live", Unlisted)
  /\ UNCHANGED <<diskVars, pageVars, breaks>>

(* ---- The console page. --------------------------------------------------- *)

(* connectLogs; the watchdog and the browser open a broken stream again.   *)
OpenStream == StreamIs("query", Unlisted) /\ offsets' = <<>> /\ sent' = {} /\ wire' = {}
ConnectLogs ==
  /\ stream.at \in {"off", "stuck"} /\ OpenStream
  /\ UNCHANGED <<diskVars, pageVars, breaks>>
BreakStream ==
  /\ stream.at # "off" /\ breaks < MaxLosses /\ breaks' = breaks + 1
  /\ stream' = NoStream /\ offsets' = <<>> /\ sent' = {} /\ wire' = {}
  /\ UNCHANGED <<diskVars, pageVars>>
(* appendLog: nothing twice, and nothing the user cleared.                 *)
ShowLog(e) ==
  /\ e \in wire /\ wire' = wire \ {e}
  /\ shown' = IF e <= cutoff THEN shown ELSE shown \union {e}
  /\ UNCHANGED <<diskVars, stream, offsets, sent, cutoff, breaks>>
(* refreshLogs: a query of its own, then the stream from its start.        *)
RefreshLogs ==
  /\ breaks < MaxLosses /\ breaks' = breaks + 1
  /\ shown' = shown \union {e \in Stored : e > cutoff}
  /\ OpenStream
  /\ UNCHANGED <<diskVars, cutoff>>
ClearView ==
  /\ shown # {} /\ breaks < MaxLosses /\ breaks' = breaks + 1
  /\ shown' = {} /\ cutoff' = written
  /\ UNCHANGED <<diskVars, stream, offsets, sent, wire>>

LogNext ==
  \/ \E w \in LogWriters : StatLog(w) \/ RotateLog(w) \/ AppendLog(w) \/ PruneLogs(w)
  \/ ListFiles \/ QueryFiles \/ FollowFiles \/ ScanFiles
  \/ ConnectLogs \/ BreakStream \/ (\E e \in wire : ShowLog(e))
  \/ RefreshLogs \/ ClearView
LogSpec == LogInit /\ [][LogNext]_logVars

(* ---- Properties. --------------------------------------------------------- *)

(* The follower has sent whatever it will not read again: between two      *)
(* scans, an entry it counts as read was sent, also across rotations       *)
(* (log-manager: follow keeps a file's offset under its identity).         *)
FollowedIsSent ==
  stream.at = "live" =>
    \A f \in DOMAIN offsets \intersect Kept : Prefix(f, offsets[f]) \subseteq sent

(* The newest entries survive: pruning leaves the entry written last, and  *)
(* never one older than another it removed (log-manager: pruneUnlocked).   *)
PruningOldest ==
  \A f \in DOMAIN files : files[f].name = "gone" =>
    \A g \in Kept : Newest(f) < Newest(g)

(* What the user cleared does not come back, whatever is queried, followed *)
(* or streamed again (app.js: appendLog, clear-logs).                      *)
ClearedStays == \A e \in shown : e > cutoff

(* Logs lose nothing on the way from the store to the page, keep the       *)
(* newest, and show nothing that was cleared.                              *)
LogsFaithful == FollowedIsSent /\ PruningOldest /\ ClearedStays
=============================================================================
