------------------------------- MODULE Folders -------------------------------
(***************************************************************************)
(* The folders of an engagement: FolderTree.tsx in an accountant's tab,    *)
(* the actions of documents/folders/actions.ts, and the writes of          *)
(* packages/db/src/repositories/folder.ts.                                 *)
(*                                                                         *)
(* A write goes over the pool and stays whatever becomes of the            *)
(* transaction around it, in which only the audit row is written.  The     *)
(* tree is loaded with the page; then the tab keeps its own copy and       *)
(* changes it when an action answers.                                      *)
(***************************************************************************)
EXTENDS Naturals, FiniteSets, Null

CONSTANTS
  Folder,        \* Folder ids
  SeededFolder,  \* those of them that are there from the start
  FolderName,    \* what accountants name folders
  SeededName,    \* the name of the seeded ones
  PlacedDoc,     \* documents that are placed in folders
  TreeTab,       \* tabs that show the page
  TreeFaulty,    \* those whose action may fail after the write
  MaxWrites      \* bound on the writes

ASSUME FoldersAssumption ==
  /\ TreeFaulty \subseteq TreeTab
  /\ SeededFolder \subseteq Folder
  /\ IsFiniteSet(TreeTab)
  /\ MaxWrites \in Nat
  /\ NULL \notin Folder

VARIABLES
  tree,       \* the Folder rows: a function from those that exist
  placed,     \* Document.folderId
  treeAudit,  \* number of audit rows
  treeWrites, \* writes so far
  treeView,   \* the `folders` of a tab, NULL while it is not open
  pending,    \* the action a tab waits for, NULL for none
  treeStale   \* history: tabs that missed a write

foldersVars == <<tree, placed, treeAudit, treeWrites, treeView, pending, treeStale>>

Row == [name : FolderName \cup {SeededName}, parent : Folder \cup {NULL}]
Trees == UNION {[F -> Row] : F \in SUBSET Folder}

FoldersInit ==
  /\ tree = [f \in SeededFolder |-> [name |-> SeededName, parent |-> NULL]]
  /\ placed = [d \in PlacedDoc |-> NULL]
  /\ treeAudit = 0
  /\ treeWrites = 0
  /\ treeView = [t \in TreeTab |-> NULL]
  /\ pending = [t \in TreeTab |-> NULL]
  /\ treeStale = {}

(***************************************************************************)
(* What an action is to do.  A rename leaves the parent alone and a move   *)
(* the name, so that the two of different tabs do not undo each other.     *)
(***************************************************************************)
Creation == [kind : {"create"}, name : FolderName, parent : Folder \cup {NULL}]
Renaming == [kind : {"rename"}, folder : Folder, name : FolderName]
Moving   == [kind : {"move"}, folder : Folder, parent : Folder \cup {NULL}]
Placing  == [kind : {"place"}, doc : PlacedDoc, folder : Folder]

\* `heard` while the page that submitted the action is still there.
FolderAction == [op : Creation \cup Renaming \cup Moving \cup Placing,
                 step : {"write", "audit", "answer"}, folder : Folder \cup {NULL},
                 ok : BOOLEAN, heard : BOOLEAN]

ASSUME NoActionAssumption == NULL \notin FolderAction /\ NULL \notin Trees

Apply(T, op, f) ==
  CASE op.kind = "create" ->
         [g \in DOMAIN T \cup {f} |->
            IF g = f THEN [name |-> op.name, parent |-> op.parent] ELSE T[g]]
    [] op.kind = "rename" -> [T EXCEPT ![f].name = op.name]
    [] op.kind = "move"   -> [T EXCEPT ![f].parent = op.parent]
    [] op.kind = "place"  -> T

-----------------------------------------------------------------------------
(***************************************************************************)
(* The tab.                                                                *)
(***************************************************************************)

\* The page is loaded.  What an earlier page was waiting for is not heard any more.
listEngagementFolders(t) ==
  /\ treeView' = [treeView EXCEPT ![t] = tree]
  /\ pending' = IF pending[t] = NULL THEN pending ELSE [pending EXCEPT ![t].heard = FALSE]
  /\ treeStale' = treeStale \ {t}
  /\ UNCHANGED <<tree, placed, treeAudit, treeWrites>>

\* A folder may go below any other that the tab shows, its own subfolders included.
eligibleParents(t, f) == DOMAIN treeView[t] \ {f}

\* What the forms offer; all are disabled while an action is pending.
Offered(t) ==
  LET shown == DOMAIN treeView[t]
  IN  [kind : {"create"}, name : FolderName, parent : shown \cup {NULL}]
        \cup [kind : {"rename"}, folder : shown, name : FolderName]
        \cup {op \in Moving : /\ op.folder \in shown
                              /\ op.parent \in eligibleParents(t, op.folder) \cup {NULL}}
        \cup [kind : {"place"}, doc : PlacedDoc, folder : shown]

Submit(t) ==
  /\ treeView[t] # NULL
  /\ pending[t] = NULL
  /\ \E op \in Offered(t) :
       pending' = [pending EXCEPT ![t] = [op |-> op, step |-> "write", folder |-> NULL,
                                          ok |-> TRUE, heard |-> TRUE]]
  /\ UNCHANGED <<tree, placed, treeAudit, treeWrites, treeView, treeStale>>

-----------------------------------------------------------------------------
(***************************************************************************)
(* The action on the server: the write is committed, then the audit row.   *)
(***************************************************************************)

Target(op) ==
  IF op.kind = "create" THEN Folder \ DOMAIN tree
  ELSE IF op.folder \in DOMAIN tree THEN {op.folder} ELSE {}

WriteFolder(t) ==
  /\ pending[t] # NULL
  /\ pending[t].step = "write"
  /\ treeWrites < MaxWrites
  /\ treeWrites' = treeWrites + 1
  /\ LET op == pending[t].op
     IN  \E f \in Target(op) :
           /\ tree' = Apply(tree, op, f)
           /\ placed' = IF op.kind = "place" THEN [placed EXCEPT ![op.doc] = f] ELSE placed
           /\ pending' = [pending EXCEPT ![t].step = "audit", ![t].folder = f]
  /\ treeStale' = treeStale \cup (TreeTab \ {t})
                    \cup (IF pending[t].heard THEN {} ELSE {t})
  /\ UNCHANGED <<treeAudit, treeView>>

RecordFolderEvent(t) ==
  /\ pending[t] # NULL
  /\ pending[t].step = "audit"
  /\ \/ /\ treeAudit' = treeAudit + 1
        /\ pending' = [pending EXCEPT ![t].step = "answer"]
     \/ /\ t \in TreeFaulty
        /\ pending' = [pending EXCEPT ![t].step = "answer", ![t].ok = FALSE]
        /\ UNCHANGED treeAudit
  /\ UNCHANGED <<tree, placed, treeWrites, treeView, treeStale>>

\* Mutant: the tree is left alone when a folder was moved.
AnswerUnlessMoved(t) ==
  /\ pending[t] # NULL
  /\ pending[t].step = "answer"
  /\ pending' = [pending EXCEPT ![t] = NULL]
  /\ IF pending[t].heard /\ pending[t].ok
     THEN /\ treeView' = IF pending[t].op.kind = "move" THEN treeView
                        ELSE [treeView EXCEPT ![t] = Apply(@, pending[t].op, pending[t].folder)]
          /\ UNCHANGED treeStale
     ELSE /\ treeStale' = IF pending[t].heard THEN treeStale \cup {t} ELSE treeStale
          /\ UNCHANGED treeView
  /\ UNCHANGED <<tree, placed, treeAudit, treeWrites>>

(***************************************************************************)
(* The answer.  On success the tab makes the same change to its copy.  On  *)
(* a failure it shows the error: the change that was committed before the  *)
(* failure is not shown.                                                   *)
(***************************************************************************)
Answer(t) ==
  /\ pending[t] # NULL
  /\ pending[t].step = "answer"
  /\ pending' = [pending EXCEPT ![t] = NULL]
  /\ IF pending[t].heard /\ pending[t].ok
     THEN /\ treeView' = [treeView EXCEPT ![t] = Apply(@, pending[t].op, pending[t].folder)]
          /\ UNCHANGED treeStale
     ELSE /\ treeStale' = IF pending[t].heard THEN treeStale \cup {t} ELSE treeStale
          /\ UNCHANGED treeView
  /\ UNCHANGED <<tree, placed, treeAudit, treeWrites>>

FoldersNext ==
  \E t \in TreeTab :
    \/ listEngagementFolders(t)
    \/ Submit(t)
    \/ WriteFolder(t)
    \/ RecordFolderEvent(t)
    \/ Answer(t)

-----------------------------------------------------------------------------
\* Every variable of the folders keeps its type.
FoldersTypeOK ==
  /\ tree \in Trees
  /\ placed \in [PlacedDoc -> Folder \cup {NULL}]
  /\ treeAudit \in 0 .. MaxWrites
  /\ treeWrites \in 0 .. MaxWrites
  /\ treeView \in [TreeTab -> Trees \cup {NULL}]
  /\ pending \in [TreeTab -> FolderAction \cup {NULL}]
  /\ treeStale \subseteq TreeTab

(***************************************************************************)
(* A tab that waits for nothing shows the folders as they are, unless      *)
(* another tab has written since it was loaded, or an action of its own    *)
(* failed after its write: the copy is kept by hand, change by change.     *)
(***************************************************************************)
TreeShowsRowsUnlessStale ==
  \A t \in TreeTab :
    treeView[t] # NULL /\ pending[t] = NULL /\ t \notin treeStale => treeView[t] = tree
=============================================================================
