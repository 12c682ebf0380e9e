----------------------------- MODULE FileTasks -----------------------------
(***************************************************************************)
(* The file manager's task queue (modules/file-manager/tasks.mjs): copy,   *)
(* move and delete run one after the other, each task persisted at every   *)
(* phase, cancelled before its commit boundary, and finished or marked     *)
(* interrupted at the next start.  A file is the path its data were at in  *)
(* the beginning; a step is what happens up to the next durable write.     *)
(***************************************************************************)
EXTENDS Naturals, Sequences

CONSTANTS
  FileTask,      \* task identifiers, in the order of their files' names
  Path, Parent,  \* paths and [Path -> directories]
  Existing,      \* paths there is a file at in the beginning
  Placed,        \* [Path \X directories -> Path]: the path of that name there
  Device,        \* [directories -> file systems]
  FileRequest,   \* [operation, sources, to, conflict] a user may ask for
  MaxFileCrashes, Missing

ASSUME FileAssumption ==
  /\ FileTask \subseteq Nat /\ Existing \subseteq Path /\ Missing \notin Path
  /\ \A r \in FileRequest : r.operation \in {"copy", "move", "delete"}
                            /\ r.conflict \in {"reject", "overwrite"}
                            /\ r.sources # <<>> /\ r.sources \in Seq(Path)
                            /\ \A p \in Path : Placed[<<p, r.to>>] \in Path

VARIABLES
  files,       \* [Path -> Path \union {Missing}]: the data at each path
  stagingFile,     \* [FileTask -> ...]: the data in the task's staging file
  hidden,      \* the same of the renamed source of a delete
  fileTask,    \* the tasks in memory
  saved,       \* the tasks on disk
  chain,       \* tasks scheduled whose completion is pending, in their order
  loading,     \* tasks a start has not read yet
  given,       \* history: data a task was asked to delete or to overwrite
  early,       \* history: has a task queued again begun while a later one is not read yet
  crossed,     \* history: data a recovery took for what was moved while that was so
  fileCrashes

fileVars == <<files, stagingFile, hidden, fileTask, saved, chain, loading, given, early, crossed,
              fileCrashes>>

Unused == [status |-> "none", at |-> "none"]
Ended == {"success", "failed", "cancelled", "interrupted"}

FileType ==
  /\ files \in [Path -> Path \union {Missing}]
  /\ \A t \in FileTask :
       /\ stagingFile[t] \in Path \union {Missing} /\ hidden[t] \in Path \union {Missing}
       /\ fileTask[t].status \in {"none", "queued", "running"} \union Ended
       /\ saved[t].status \in {"none", "queued", "running"} \union Ended
       /\ fileTask[t].at \in {"none", "new", "saved", "validate", "next", "prepared", "cleared",
            "moved", "staged", "copied", "published", "committed", "hidden", "marked", "erased", "ended"}
  /\ loading \subseteq FileTask /\ early \in {"no", "yes"}

FileInit ==
  /\ files = [p \in Path |-> IF p \in Existing THEN p ELSE Missing]
  /\ stagingFile = [t \in FileTask |-> Missing] /\ hidden = [t \in FileTask |-> Missing]
  /\ fileTask = [t \in FileTask |-> Unused] /\ saved = [t \in FileTask |-> Unused]
  /\ chain = <<>> /\ loading = {} /\ given = {} /\ early = "no" /\ crossed = {}
  /\ fileCrashes = MaxFileCrashes

Queue == SelectSeq(chain, LAMBDA t : fileTask[t].status \in {"queued", "running"})

(* A task that runs is at one step; some steps write it to disk. *)
InMemory(t, changed) == fileTask' = [fileTask EXCEPT ![t] = changed] /\ UNCHANGED saved
Persisted(t, changed) ==
  fileTask' = [fileTask EXCEPT ![t] = changed] /\ saved' = [saved EXCEPT ![t] = changed]
Phase(t, phase, at) == Persisted(t, [fileTask[t] EXCEPT !.phase = phase, !.at = at])
Terminal(t, status) ==
  Persisted(t, [fileTask[t] EXCEPT !.status = status, !.phase = status, !.at = "ended"])

Runs(t, at) == fileTask[t].at = at /\ fileTask[t].status = "running"
Source(t) == Head(fileTask[t].left)
Destination(t) == Placed[<<Source(t), fileTask[t].to>>]
Far(t) == Device[Parent[Source(t)]] # Device[fileTask[t].to]
Queued == UNCHANGED <<chain, loading, early, crossed, fileCrashes>>
Untouched == UNCHANGED <<files, stagingFile, hidden, given>>

-----------------------------------------------------------------------------
(* The queue. *)

FileStart(t, r) ==
  /\ fileTask[t] = Unused /\ saved[t] = Unused /\ loading = {}
  /\ fileTask' = [fileTask EXCEPT ![t] =
       [status |-> IF Queue = <<>> THEN "running" ELSE "queued", phase |-> "queued", at |-> "new",
        operation |-> r.operation, sources |-> r.sources, to |-> r.to, conflict |-> r.conflict,
        seen |-> [s \in DOMAIN r.sources |-> files[r.sources[s]]], left |-> r.sources,
        current |-> Missing, lists |-> {}, cancel |-> FALSE]]
  /\ chain' = Append(chain, t)
  /\ Untouched /\ UNCHANGED <<saved, loading, early, crossed, fileCrashes>>

FileSaved(t) ==
  /\ fileTask[t].at = "new"
  /\ Persisted(t, [fileTask[t] EXCEPT !.at = "saved"])
  /\ Untouched /\ Queued

FileCancel(t) ==
  /\ fileTask[t].status \in {"queued", "running"} /\ ~fileTask[t].cancel
  /\ \/ /\ fileTask[t].status = "queued"
        /\ InMemory(t, [fileTask[t] EXCEPT !.status = "cancelled", !.cancel = TRUE])
     \/ /\ fileTask[t].status = "running"
        /\ fileTask[t].phase \notin {"destination-committed", "source-hidden", "cleaning"}
        /\ InMemory(t, [fileTask[t] EXCEPT !.cancel = TRUE])
  /\ Untouched /\ Queued

(* The cancellation of a queued task is written after the task itself. *)
FileCancelSaved(t) ==
  /\ fileTask[t].at = "saved" /\ fileTask[t].status = "cancelled" /\ saved[t].status # "cancelled"
  /\ Persisted(t, fileTask[t])
  /\ Untouched /\ Queued

(* The next task begins when the completion of the one before is over, and *)
(* that may be while a start is still reading the tasks after it.  A task  *)
(* that was cancelled meanwhile is left as it is.                          *)
FileBegins(t) ==
  /\ fileTask[t].at = "saved" /\ chain # <<>> /\ Head(chain) = t
  /\ fileTask[t].status = "cancelled" => saved[t].status = "cancelled"
  /\ \/ /\ fileTask[t].cancel
        /\ InMemory(t, [fileTask[t] EXCEPT !.at = "ended"])
        /\ UNCHANGED early
     \/ /\ ~fileTask[t].cancel
        /\ Persisted(t, [fileTask[t] EXCEPT !.status = "running", !.phase = "validating", !.at = "validate"])
        /\ early' = IF loading # {} THEN "yes" ELSE early
  /\ Untouched /\ UNCHANGED <<chain, loading, crossed, fileCrashes>>

(* The report and the pruning of old tasks, then the next one's turn. *)
FileCompletes(t) ==
  /\ fileTask[t].at = "ended" /\ chain # <<>> /\ Head(chain) = t
  /\ chain' = Tail(chain)
  /\ Untouched /\ UNCHANGED <<fileTask, saved, loading, early, crossed, fileCrashes>>

-----------------------------------------------------------------------------
(* The body. *)

FileValidates(t) ==
  /\ Runs(t, "validate")
  /\ \A s \in DOMAIN fileTask[t].sources :
       files[fileTask[t].sources[s]] = fileTask[t].seen[s] /\ fileTask[t].seen[s] # Missing
  /\ Phase(t, "mutating", "next")
  /\ Untouched /\ Queued

(* A refused validation or destination, a cancellation seen at the next    *)
(* source or after the copy, or whatever the file system refuses.          *)
FileFails(t) ==
  /\ \E at \in {"validate", "next", "prepared", "cleared", "staged", "copied", "published",
                "committed", "hidden", "marked"} : Runs(t, at)
  /\ fileTask[t].at = "next" => fileTask[t].left # <<>>
  /\ stagingFile' = [stagingFile EXCEPT ![t] = IF "staging" \in fileTask[t].lists THEN Missing ELSE @]
  /\ Persisted(t, [fileTask[t] EXCEPT !.status = IF fileTask[t].cancel THEN "cancelled" ELSE "failed",
                                      !.phase = "failed", !.at = "ended", !.lists = @ \ {"staging"}])
  /\ Queued /\ UNCHANGED <<files, hidden, given>>

FileSucceeds(t) ==
  /\ Runs(t, "next") /\ fileTask[t].left = <<>>
  /\ Terminal(t, "success")
  /\ Untouched /\ Queued

Proceeds(t, operations) ==
  Runs(t, "next") /\ fileTask[t].left # <<>> /\ ~fileTask[t].cancel
  /\ fileTask[t].operation \in operations

Free(t) == files[Destination(t)] = Missing \/ fileTask[t].conflict = "overwrite"

FilePrepares(t) ==
  /\ Proceeds(t, {"move"}) /\ Free(t) /\ Source(t) # Destination(t)
  /\ Persisted(t, [fileTask[t] EXCEPT !.current = Source(t), !.phase = "move-prepared", !.at = "prepared"])
  /\ Untouched /\ Queued

(* An overwritten destination is removed before the rename, and before a   *)
(* move finds out that it has to copy.                                     *)
FileClears(t) ==
  /\ \/ Runs(t, "prepared")
     \/ Runs(t, "copied") /\ ~fileTask[t].cancel
  /\ fileTask[t].conflict = "overwrite" /\ files[Destination(t)] # Missing
  /\ files' = [files EXCEPT ![Destination(t)] = Missing]
  /\ given' = given \union {files[Destination(t)]}
  /\ InMemory(t, [fileTask[t] EXCEPT !.at = IF @ = "prepared" THEN "cleared" ELSE "copied"])
  /\ Queued /\ UNCHANGED <<stagingFile, hidden>>

Cleared(t, at) ==
  \/ Runs(t, at) /\ (fileTask[t].conflict = "reject" \/ files[Destination(t)] = Missing)
  \/ at = "prepared" /\ Runs(t, "cleared")

FileMoves(t) ==
  /\ Cleared(t, "prepared") /\ ~Far(t) /\ files[Source(t)] # Missing
  /\ files' = [files EXCEPT ![Destination(t)] = files[Source(t)], ![Source(t)] = Missing]
  /\ InMemory(t, [fileTask[t] EXCEPT !.at = "moved"])
  /\ Queued /\ UNCHANGED <<stagingFile, hidden, given>>

FileStages(t) ==
  /\ \/ Cleared(t, "prepared") /\ Far(t)
     \/ Proceeds(t, {"copy"}) /\ Free(t) /\ Source(t) # Destination(t)
  /\ Persisted(t, [fileTask[t] EXCEPT !.lists = @ \union {"staging"}, !.current = Source(t), !.at = "staged"])
  /\ Untouched /\ Queued

FileCopies(t) ==
  /\ Runs(t, "staged") /\ files[Source(t)] # Missing
  /\ stagingFile' = [stagingFile EXCEPT ![t] = files[Source(t)]]
  /\ InMemory(t, [fileTask[t] EXCEPT !.at = "copied"])
  /\ Queued /\ UNCHANGED <<files, hidden, given>>

FilePublishes(t) ==
  /\ Cleared(t, "copied") /\ ~fileTask[t].cancel
  /\ files' = [files EXCEPT ![Destination(t)] = stagingFile[t]]
  /\ stagingFile' = [stagingFile EXCEPT ![t] = Missing]
  /\ InMemory(t, [fileTask[t] EXCEPT !.lists = @ \ {"staging"}, !.at = "published"])
  /\ Queued /\ UNCHANGED <<hidden, given>>

FileCommits(t) ==
  /\ Runs(t, "moved") \/ Runs(t, "published")
  /\ Phase(t, IF fileTask[t].operation = "move" THEN "destination-committed" ELSE "mutating", "committed")
  /\ Untouched /\ Queued

FileRemovesSource(t) ==
  /\ Runs(t, "committed") /\ fileTask[t].operation = "move" /\ Far(t) /\ files[Source(t)] # Missing
  /\ files' = [files EXCEPT ![Source(t)] = Missing]
  /\ UNCHANGED <<fileTask, saved, stagingFile, hidden, given>> /\ Queued

FileGoesOn(t) ==
  /\ Runs(t, "committed")
  /\ fileTask[t].operation = "move" /\ Far(t) => files[Source(t)] = Missing
  /\ Persisted(t, [fileTask[t] EXCEPT !.current = Missing, !.left = Tail(@), !.phase = "mutating", !.at = "next"])
  /\ Untouched /\ Queued

FileHides(t) ==
  /\ Proceeds(t, {"delete"}) /\ files[Source(t)] # Missing
  /\ files' = [files EXCEPT ![Source(t)] = Missing]
  /\ hidden' = [hidden EXCEPT ![t] = files[Source(t)]]
  /\ given' = given \union {files[Source(t)]}
  /\ InMemory(t, [fileTask[t] EXCEPT !.at = "hidden"])
  /\ Queued /\ UNCHANGED stagingFile

FileMarks(t) ==
  /\ Runs(t, "hidden")
  /\ Persisted(t, [fileTask[t] EXCEPT !.lists = {"hidden"}, !.phase = "source-hidden", !.at = "marked"])
  /\ Untouched /\ Queued

FileErases(t) ==
  /\ Runs(t, "marked")
  /\ hidden' = [hidden EXCEPT ![t] = Missing]
  /\ InMemory(t, [fileTask[t] EXCEPT !.lists = {}, !.at = "erased"])
  /\ Queued /\ UNCHANGED <<files, stagingFile, given>>

FileCleans(t) ==
  /\ Runs(t, "erased")
  /\ Persisted(t, [fileTask[t] EXCEPT !.left = Tail(@), !.phase = "cleaning", !.at = "next"])
  /\ Untouched /\ Queued

-----------------------------------------------------------------------------
(* A start reads the tasks in the order of their names. *)

FileCrash ==
  /\ fileCrashes > 0 /\ fileCrashes' = fileCrashes - 1
  /\ fileTask' = [t \in FileTask |-> Unused] /\ chain' = <<>>
  /\ loading' = {t \in FileTask : saved[t] # Unused}
  /\ UNCHANGED <<files, stagingFile, hidden, saved, given, early, crossed>>

Reads(t) == t \in loading /\ \A u \in loading : t <= u
Loaded(t) == loading' = loading \ {t} /\ early' = IF loading' = {} THEN "no" ELSE early
(* Early: the file system is not the one the task was interrupted in. *)
Crosses(data) == crossed' = IF early = "yes" THEN crossed \union (data \ {Missing}) ELSE crossed
Read(t, status) ==
  /\ Persisted(t, [saved[t] EXCEPT !.status = status, !.phase = status, !.lists = {}, !.at = "ended"])
  /\ Loaded(t)
  /\ UNCHANGED <<chain, fileCrashes>>

DefectCommitted(t) ==
  saved[t].operation = "move" /\ saved[t].phase \in {"move-prepared", "destination-committed"}
Committed(t) ==
  saved[t].operation = "move" /\ saved[t].phase = "destination-committed"
Moved(t) ==
  /\ saved[t].operation = "move" /\ saved[t].phase = "move-prepared"
  /\ files[saved[t].current] = Missing /\ files[Placed[<<saved[t].current, saved[t].to>>]] # Missing

(* #recover of a task that was running. *)
FileRecovers(t) ==
  /\ Reads(t) /\ saved[t].status = "running"
  /\ \/ /\ saved[t].operation = "delete"
        /\ hidden' = [hidden EXCEPT ![t] = IF "hidden" \in saved[t].lists THEN Missing ELSE @]
        /\ Read(t, "success")
        /\ UNCHANGED <<files, stagingFile, given, crossed>>
     \/ /\ Committed(t)
        /\ files' = IF saved[t].current = Missing THEN files
                    ELSE [files EXCEPT ![saved[t].current] = Missing]
        /\ Crosses(IF saved[t].current = Missing THEN {} ELSE {files[saved[t].current]})
        /\ Read(t, "success")
        /\ UNCHANGED <<stagingFile, hidden, given>>
     \/ /\ Moved(t)
        /\ Crosses({stagingFile[t]})
        /\ Read(t, "success")
        /\ Untouched
     \/ /\ saved[t].operation # "delete" /\ ~Committed(t) /\ ~Moved(t)
        /\ stagingFile' = [stagingFile EXCEPT ![t] = IF "staging" \in saved[t].lists THEN Missing ELSE @]
        /\ Read(t, "interrupted")
        /\ UNCHANGED <<files, hidden, given, crossed>>

FileLoads(t) ==
  /\ Reads(t) /\ saved[t].status # "running"
  /\ Loaded(t)
  /\ IF saved[t].status = "queued"
     THEN /\ fileTask' = [fileTask EXCEPT ![t] = [saved[t] EXCEPT !.at = "new"]]
          /\ chain' = Append(chain, t)
     ELSE /\ fileTask' = [fileTask EXCEPT ![t] = [saved[t] EXCEPT !.at = "ended"]]
          /\ UNCHANGED chain
  /\ Untouched /\ UNCHANGED <<saved, crossed, fileCrashes>>

FileQueueing(t) == FileSaved(t) \/ FileCancelSaved(t) \/ FileBegins(t) \/ FileCompletes(t)
FileSteps(t) ==
  \/ FileValidates(t) \/ FileFails(t) \/ FileSucceeds(t)
  \/ FilePrepares(t) \/ FileClears(t) \/ FileMoves(t) \/ FileStages(t) \/ FileCopies(t)
  \/ FilePublishes(t) \/ FileCommits(t) \/ FileRemovesSource(t) \/ FileGoesOn(t)
  \/ FileHides(t) \/ FileMarks(t) \/ FileErases(t) \/ FileCleans(t)

FileNext ==
  \/ \E t \in FileTask, r \in FileRequest : FileStart(t, r)
  \/ \E t \in FileTask : FileCancel(t) \/ FileQueueing(t) \/ FileSteps(t) \/ FileRecovers(t) \/ FileLoads(t)
  \/ FileCrash

-----------------------------------------------------------------------------
(* No data disappear that no task was asked to delete or to overwrite:     *)
(* whatever is interrupted, cancelled, refused or recovered, a file that   *)
(* is copied or moved can be found under its old path or its new one.      *)
(* The one exception is the start that lets a task it queued again begin   *)
(* before it has read the later ones: the recovery of a later task may     *)
(* then take what the early one did for what that task was doing.          *)
NothingLost ==
  \A p \in Existing : p \in given \union crossed \/ \E q \in Path : files[q] = p

(* Two tasks never work on files at the same time, whatever is cancelled   *)
(* or queued again in between; a task cancelled before it begins does not. *)
OneTaskWorks ==
  \A t, u \in FileTask :
     fileTask[t].at \notin {"none", "new", "saved", "ended"}
       /\ fileTask[u].at \notin {"none", "new", "saved", "ended"} => t = u

(* What a task staged is gone when the task is over, after a restart too,  *)
(* but for what a recovery that an early task crossed took for published.  *)
StagingRemoved ==
  \A t \in FileTask : saved[t].status \in Ended /\ loading = {} =>
                        stagingFile[t] \in {Missing} \union crossed

(* Moving and copying keep everyone's data, one task at a time, and leave  *)
(* nothing of theirs behind, whatever interrupts them.                     *)
FilesSafe == NothingLost /\ OneTaskWorks /\ StagingRemoved
=============================================================================
