------------------------------ MODULE ConsoleFiles ------------------------------
(***************************************************************************)
(* The files tab of the console: the directory it shows, uploads and       *)
(* pastes that go item by item and ask about what already exists, and the  *)
(* text editor, which saves over the revision it was opened at. What a     *)
(* task does on the server is the file manager's own module; here one task *)
(* succeeds, meets an existing target, or fails.                           *)
(***************************************************************************)
EXTENDS Naturals, FiniteSets

CONSTANTS
  FileDirs,        \* directories the page can show
  Batch,           \* items of a transfer, 1..Batch
  Texts,           \* files that are opened in the editor
  Transfers,       \* loops of pasteFiles and uploadFiles that may be under way
  Saves,           \* saves of the editor that may be under way
  NoFile,          \* a model value: nothing open, nothing asked
  MaxTransfers, MaxListings, MaxOpens, MaxKeys, MaxOthers, MaxTaskFailures
                   \* bounds: transfers begun, listings asked by the user, files opened,
                   \* texts typed, changes made by others, tasks that fail

Items == 1..Batch
ASSUME FilesAssumption == Batch \in Nat \ {0} /\ NoFile \notin FileDirs \union Texts

VARIABLES
  browse,    \* the directory shown and the listing asked for (fileLoading)
  transfer,  \* the loops
  conflict,  \* the conflict dialog: whose it is, the target it names, and whether the
             \* directory shown has changed since it was opened
  busySeen,  \* fileTasksActive or fileUploadQueue has a task: the buttons are off
  standing,     \* what stands at each target: nothing, something of theirs, our item
  agreed,    \* targets the user, shown them, chose to overwrite
  astray,    \* history: targets an answer went to that was given for another directory's
  editor,    \* fileEditor and the text in the dialog
  opening,   \* files whose content was asked for
  saveBusy,  \* fileEditorSaving
  saveOut,   \* the saves under way
  mixed,     \* history: files whose save was answered over another file's text
  disk,      \* the files: a revision, and the file its text was written for
  spent      \* what of the bounds is used up

transferVars == <<transfer, conflict, busySeen, standing, agreed, astray>>
editorVars == <<editor, opening, saveBusy, saveOut, mixed, disk>>
filesVars == <<browse, transferVars, editorVars, spent>>

NoTransfer == [at |-> "idle"]
NoEditor == [path |-> NoFile]
NoSaveOut == [at |-> "none"]
NoConflict == [of |-> NoFile]
ConsoleFilesInit ==
  /\ browse \in [path : FileDirs, asked : {NoFile}]
  /\ transfer = [t \in Transfers |-> NoTransfer] /\ conflict = NoConflict
  /\ busySeen = FALSE /\ agreed = {} /\ astray = {}
  /\ standing \in [FileDirs \X Items -> {"none", "theirs"}]
  /\ editor = NoEditor /\ opening = {} /\ saveBusy = FALSE
  /\ saveOut = [s \in Saves |-> NoSaveOut] /\ mixed = {}
  /\ disk = [f \in Texts |-> [rev |-> 1, of |-> f]]
  /\ spent = [begun |-> 0, lists |-> 0, opens |-> 0, keys |-> 0, others |-> 0, fails |-> 0]

SpendOn(what, most) == spent[what] < most /\ spent' = [spent EXCEPT ![what] = @ + 1]

(* ---- navigateFiles: one listing at a time. -------------------------------- *)

Modal == conflict.of # NoFile \/ editor # NoEditor
Navigate(d) ==
  /\ browse.asked = NoFile /\ ~Modal /\ SpendOn("lists", MaxListings)
  /\ browse' = [browse EXCEPT !.asked = d]
  /\ UNCHANGED <<transferVars, editorVars>>
(* A listing arrives whatever dialog is open by then. *)
Listed ==
  /\ browse.asked # NoFile
  /\ browse' \in {[path |-> browse.asked, asked |-> NoFile], [browse EXCEPT !.asked = NoFile]}
  /\ conflict' = IF conflict.of # NoFile /\ browse'.path # browse.path
                 THEN [conflict EXCEPT !.moved = "yes"] ELSE conflict
  /\ UNCHANGED <<transfer, busySeen, standing, agreed, astray, editorVars, spent>>
(* What is asked for while a listing is awaited is not listed.             *)
Relist == [browse EXCEPT !.asked = IF @ = NoFile THEN browse.path ELSE @]

(* ---- pasteFiles and uploadFiles. ------------------------------------------ *)

Opening(all) == IF all \in {"overwrite", "rename"} THEN all ELSE "reject"
Item(kind, i, all) ==
  [at |-> "send", kind |-> kind, item |-> i, into |-> browse.path,
   how |-> Opening(all), all |-> all]
BeginTransfer(t, kind) ==
  /\ transfer[t] = NoTransfer /\ ~busySeen /\ ~Modal /\ SpendOn("begun", MaxTransfers)
  /\ kind = "upload" => \A u \in Transfers : transfer[u] # NoTransfer => transfer[u].kind = "paste"
  /\ transfer' = [transfer EXCEPT ![t] = Item(kind, 1, "none")]
  /\ busySeen' = (kind = "upload")
  /\ UNCHANGED <<browse, conflict, standing, agreed, astray, editorVars>>
(* A paste names the directory shown when its task is made, an upload the  *)
(* one shown when its item's turn came.                                    *)
RequestItem(t) ==
  /\ transfer[t].at = "send"
  /\ transfer' = [transfer EXCEPT ![t].at = "running",
                     ![t].into = IF transfer[t].kind = "paste" THEN browse.path ELSE @]
  /\ UNCHANGED <<browse, conflict, busySeen, standing, agreed, astray, editorVars, spent>>

Finished(t) == [transfer EXCEPT ![t].at = "closing"]
DefectNext(t) ==
  IF transfer[t].item = Batch THEN Finished(t)
  ELSE [transfer EXCEPT ![t] =
          [Item(@.kind, @.item + 1, @.all) EXCEPT !.how = transfer[t].how]]
NextItem(t) ==
  IF transfer[t].item = Batch THEN Finished(t)
  ELSE [transfer EXCEPT ![t] = Item(@.kind, @.item + 1, @.all)]

Executes(t) ==
  /\ transfer[t].at = "running"
  /\ LET r == transfer[t]
         target == <<r.into, r.item>>
     IN \/ /\ standing[target] = "none" \/ r.how = "overwrite"
           /\ standing' = [standing EXCEPT ![target] = "ours"]
           /\ transfer' = NextItem(t) /\ UNCHANGED spent
        \/ /\ standing[target] # "none" /\ r.how = "rename"
           /\ transfer' = NextItem(t) /\ UNCHANGED <<standing, spent>>
        \/ /\ standing[target] # "none" /\ r.how = "reject"
           /\ transfer' = IF r.all = "skip" THEN NextItem(t) ELSE [transfer EXCEPT ![t].at = "exists"]
           /\ UNCHANGED <<standing, spent>>
        \/ /\ SpendOn("fails", MaxTaskFailures)
           /\ transfer' = Finished(t) /\ UNCHANGED standing
  /\ UNCHANGED <<browse, conflict, busySeen, agreed, astray, editorVars>>
(* chooseFileConflict: a second question takes the dialog over.            *)
Asks(t) ==
  /\ transfer[t].at = "exists"
  /\ transfer' = [transfer EXCEPT ![t].at = "asking"]
  /\ conflict' = [of |-> t, target |-> <<IF transfer[t].kind = "paste" THEN browse.path
                                         ELSE transfer[t].into, transfer[t].item>>,
                  moved |-> "no"]
  /\ UNCHANGED <<browse, busySeen, standing, agreed, astray, editorVars, spent>>
(* finishFileConflict: the same item is asked for again at once, a pasted  *)
(* one in the directory shown by then.                                     *)
Decide(choice, forAll) ==
  /\ conflict.of # NoFile /\ conflict' = NoConflict
  /\ LET t == conflict.of
         r == [transfer[t] EXCEPT !.all = IF forAll THEN choice ELSE @]
     IN transfer' = IF choice = "skip"
          THEN IF r.item = Batch THEN Finished(t)
               ELSE [transfer EXCEPT ![t] = Item(r.kind, r.item + 1, r.all)]
          ELSE [transfer EXCEPT ![t] =
                  [r EXCEPT !.how = choice, !.at = "running",
                            !.into = IF r.kind = "paste" THEN browse.path ELSE @]]
  /\ agreed' = IF choice = "overwrite" THEN agreed \union {conflict.target} ELSE agreed
  /\ astray' = IF choice = "overwrite" /\ conflict.moved = "yes" /\ transfer[conflict.of].kind = "paste"
               THEN astray \union {<<browse.path, transfer[conflict.of].item>>} ELSE astray
  /\ UNCHANGED <<browse, busySeen, standing, editorVars, spent>>
Dismiss ==
  /\ conflict.of # NoFile /\ conflict' = NoConflict
  /\ transfer' = Finished(conflict.of)
  /\ UNCHANGED <<browse, busySeen, standing, agreed, astray, editorVars, spent>>
(* A running upload is aborted; the server may have placed it already.     *)
CancelUpload(t) ==
  /\ transfer[t].at = "running" /\ transfer[t].kind = "upload" /\ ~Modal
  /\ transfer' = NextItem(t)
  /\ UNCHANGED <<browse, conflict, busySeen, standing, agreed, astray, editorVars, spent>>
Closes(t) ==
  /\ transfer[t].at = "closing" /\ browse' = Relist
  /\ transfer' = [transfer EXCEPT ![t] = NoTransfer]
  /\ busySeen' = FALSE
  /\ UNCHANGED <<conflict, standing, agreed, astray, editorVars, spent>>
(* refreshFileTasks: what the manager lists, and the page's own uploads.   *)
RefreshTasks ==
  /\ busySeen' = \E t \in Transfers : \/ transfer[t].at = "running"
                                      \/ transfer[t] # NoTransfer /\ transfer[t].kind = "upload"
  /\ busySeen' # busySeen
  /\ UNCHANGED <<browse, transfer, conflict, standing, agreed, astray, editorVars, spent>>
OthersPlace ==
  /\ SpendOn("others", MaxOthers)
  /\ \E g \in FileDirs \X Items : standing[g] = "none" /\ standing' = [standing EXCEPT ![g] = "theirs"]
  /\ UNCHANGED <<browse, transfer, conflict, busySeen, agreed, astray, editorVars>>

(* ---- The editor. ----------------------------------------------------------- *)

OpenEditor(f) ==
  /\ \/ conflict.of = NoFile /\ editor = NoEditor
     \/ editor # NoEditor /\ editor.path = f /\ ~saveBusy
  /\ f \notin opening /\ SpendOn("opens", MaxOpens)
  /\ opening' = opening \union {f}
  /\ UNCHANGED <<browse, transferVars, editor, saveBusy, saveOut, mixed, disk>>
(* The text may be older than what a save under way writes. *)
Opened(f) ==
  /\ f \in opening /\ opening' = opening \ {f}
  /\ editor' = [path |-> f, rev |-> disk[f].rev, of |-> f, dirty |-> FALSE,
                typed |-> \E s \in Saves : saveOut[s].at = "sent" /\ saveOut[s].path = f]
  /\ UNCHANGED <<browse, transferVars, saveBusy, saveOut, mixed, disk, spent>>
TypeText ==
  /\ editor # NoEditor /\ conflict.of = NoFile /\ SpendOn("keys", MaxKeys)
  /\ editor' = [editor EXCEPT !.dirty = TRUE, !.typed = TRUE]
  /\ UNCHANGED <<browse, transferVars, opening, saveBusy, saveOut, mixed, disk>>
(* saveFileEditor                                                          *)
SaveText(s) ==
  /\ editor # NoEditor /\ editor.dirty /\ ~saveBusy /\ conflict.of = NoFile /\ saveOut[s] = NoSaveOut
  /\ saveOut' = [saveOut EXCEPT ![s] = [at |-> "sent", path |-> editor.path, rev |-> editor.rev,
                                        of |-> editor.of]]
  /\ editor' = [editor EXCEPT !.typed = FALSE]
  /\ saveBusy' = TRUE
  /\ UNCHANGED <<browse, transferVars, opening, mixed, disk, spent>>
Written(s) ==
  /\ saveOut[s].at = "sent"
  /\ LET save == saveOut[s]
     IN IF disk[save.path].rev = save.rev
        THEN /\ saveOut' = [saveOut EXCEPT ![s] = [save EXCEPT !.at = "saved", !.rev = @ + 1]]
             /\ disk' = [disk EXCEPT ![save.path] = [rev |-> @.rev + 1, of |-> save.of]]
        ELSE saveOut' = [saveOut EXCEPT ![s] = [save EXCEPT !.at = "changed"]] /\ UNCHANGED disk
  /\ UNCHANGED <<browse, transferVars, editor, opening, saveBusy, mixed, spent>>
(* The answer is merged into whatever file the editor has by then; merged  *)
(* into none, it opens no dialog.                                          *)
SaveTextAnswered(s) ==
  /\ saveOut[s].at \in {"saved", "changed"}
  /\ saveOut' = [saveOut EXCEPT ![s] = NoSaveOut] /\ saveBusy' = FALSE
  /\ LET save == saveOut[s]
         merged == save.at = "saved" /\ editor # NoEditor
     IN /\ browse' = IF save.at = "saved" THEN Relist ELSE browse
        /\ editor' = IF merged THEN [editor EXCEPT !.path = save.path, !.rev = save.rev,
                                        !.dirty = editor.typed \/ editor.of # save.of]
                     ELSE editor
        /\ mixed' = IF merged /\ editor.of # save.of THEN mixed \union {save.path} ELSE mixed
  /\ UNCHANGED <<transferVars, opening, disk, spent>>
(* closeFileEditor, unsaved text discarded after a question; a save goes on. *)
CloseEditor ==
  /\ editor # NoEditor /\ conflict.of = NoFile
  /\ editor' = NoEditor /\ saveBusy' = FALSE
  /\ UNCHANGED <<browse, transferVars, opening, saveOut, mixed, disk, spent>>
OthersWrite(f) ==
  /\ SpendOn("others", MaxOthers)
  /\ disk' = [disk EXCEPT ![f] = [rev |-> @.rev + 1, of |-> f]]
  /\ UNCHANGED <<browse, transferVars, editor, opening, saveBusy, saveOut, mixed>>

ListingNext == Listed \/ \E d \in FileDirs : Navigate(d)
TransferNext ==
  \/ Dismiss \/ RefreshTasks \/ OthersPlace
  \/ \E t \in Transfers :
       \/ \E kind \in {"paste", "upload"} : BeginTransfer(t, kind)
       \/ RequestItem(t) \/ Executes(t) \/ Asks(t) \/ CancelUpload(t) \/ Closes(t)
  \/ \E choice \in {"overwrite", "rename", "skip"}, forAll \in BOOLEAN : Decide(choice, forAll)
EditorNext ==
  \/ \E f \in Texts : OpenEditor(f) \/ Opened(f) \/ OthersWrite(f)
  \/ \E s \in Saves : SaveText(s) \/ Written(s) \/ SaveTextAnswered(s)
  \/ TypeText \/ CloseEditor
ConsoleFilesNext == ListingNext \/ TransferNext \/ EditorNext

ConsoleFilesSpec == ConsoleFilesInit /\ [][ConsoleFilesNext]_filesVars

(* What stands at the target of an upload or a paste is overwritten only   *)
(* after the user was shown that very target and chose so, or chose so for *)
(* all that follow; an earlier item's answer never carries over.  The one  *)
(* case let through is a paste's answer given after a listing asked for    *)
(* before has arrived: the item then goes to the directory shown by then,  *)
(* under the same name.                                                    *)
OverwriteAsked ==
  [][\A g \in FileDirs \X Items : standing[g] = "theirs" /\ standing'[g] = "ours" =>
       \/ g \in agreed \union astray
       \/ \E t \in Transfers : transfer[t] # NoTransfer /\ transfer[t].all = "overwrite"
    ]_filesVars

(* The editor never saves into a file the text that was opened from        *)
(* another, and the path it shows is that of its text, but for a file      *)
(* whose save was answered when the editor, closed during the save, had    *)
(* another file's text open already.                                       *)
EditsOwnFile ==
  /\ \A f \in Texts \ mixed : disk[f].of = f
  /\ editor # NoEditor /\ editor.path \notin mixed => editor.of = editor.path

(* The tab and the editor never write over a file nobody chose.            *)
OthersKept == []EditsOwnFile /\ OverwriteAsked
=============================================================================
