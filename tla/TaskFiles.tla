------------------------------- MODULE TaskFiles -------------------------------
(***************************************************************************)
(* The task files of the developers (scripts/task.ts): a command reads the *)
(* file of a task, changes its status and the head of its work log, and    *)
(* replaces the file by a rename.  Nothing keeps two commands from working *)
(* on the same task, and a replacement is not conditional on what was      *)
(* read.  A finished task is moved to another directory.                   *)
(*                                                                         *)
(* The fields that no guard looks at, and the record of metrics that every *)
(* command appends at its end, are left out.  So is the refusal to finish  *)
(* before the start, which takes a clock that was set back.                *)
(***************************************************************************)
EXTENDS Naturals, Sequences, SequencesExt, Null

CONSTANTS
  Task,
  Cli,        \* invocations of the command line
  MaxEntries  \* bound on the entries of a work log

ASSUME TaskFilesAssumption == MaxEntries \in Nat

VARIABLES
  tasksDir,  \* the file of each task in tasks/, NULL when there is none
  doneDir,   \* and in tasks/done/
  edit,      \* what a command has read and is about to write, NULL when idle
  raced      \* history: tasks with a file that was replaced by one made from an older

taskFilesVars == <<tasksDir, doneDir, edit, raced>>

TaskStatus == {"backlog", "in-progress", "review", "done"}
Entry == {"start", "review", "reject", "done", "note"}
File == [status : TaskStatus, complexity_actual : BOOLEAN, log : Seq(Entry)]

ASSUME NoFileAssumption == NULL \notin File

TaskFilesInit ==
  /\ tasksDir = [t \in Task |-> [status |-> "backlog", complexity_actual |-> FALSE,
                                 log |-> <<>>]]
  /\ doneDir = [t \in Task |-> NULL]
  /\ edit = [c \in Cli |-> NULL]
  /\ raced = {}

\* resolveTaskFile looks into done/ only for the command `log`.
resolveTaskFile(t, searchDone) ==
  CASE tasksDir[t] # NULL               -> "tasks"
    [] tasksDir[t] = NULL /\ searchDone -> "done"
    [] OTHER                            -> NULL

FileIn(dir, t) == IF dir = "tasks" THEN tasksDir[t] ELSE doneDir[t]

workLogHasEntry(file, entry) == entry \in ToSet(file.log)

-----------------------------------------------------------------------------
(***************************************************************************)
(* The commands up to their last guard.  A command that changes nothing,   *)
(* because it was run before or because the status forbids it, is no step. *)
(***************************************************************************)

ReadAndEdit(c, t, dir, entry, new) ==
  /\ edit[c] = NULL
  /\ dir # NULL
  /\ Len(FileIn(dir, t).log) < MaxEntries
  /\ edit' = [edit EXCEPT ![c] = [task |-> t, dir |-> dir, read |-> FileIn(dir, t),
                                  write |-> [new EXCEPT !.log = Append(@, entry)]]]
  /\ UNCHANGED <<tasksDir, doneDir, raced>>

cmdStart(c, t) ==
  LET dir == resolveTaskFile(t, FALSE)
      old == FileIn(dir, t)
  IN  /\ dir # NULL
      /\ old.status \in {"backlog", "in-progress"}
      /\ old.status = "in-progress" => ~workLogHasEntry(old, "start")
      /\ ReadAndEdit(c, t, dir, "start", [old EXCEPT !.status = "in-progress"])

cmdReview(c, t) ==
  LET dir == resolveTaskFile(t, FALSE)
      old == FileIn(dir, t)
  IN  /\ dir # NULL
      /\ old.status = "in-progress"
      /\ ReadAndEdit(c, t, dir, "review",
                     [old EXCEPT !.status = "review", !.complexity_actual = TRUE])

\* The complexity must have been supplied, by a review.
cmdDone(c, t) ==
  LET dir == resolveTaskFile(t, FALSE)
      old == FileIn(dir, t)
  IN  /\ dir # NULL
      /\ old.status = "review"
      /\ old.complexity_actual
      /\ ReadAndEdit(c, t, dir, "done", [old EXCEPT !.status = "done"])

\* Mutant: a rejection is a status of its own.
RejectAsStatus(c, t) ==
  LET dir == resolveTaskFile(t, FALSE)
      old == FileIn(dir, t)
  IN  /\ dir # NULL
      /\ old.status = "review"
      /\ ReadAndEdit(c, t, dir, "reject", [old EXCEPT !.status = "rejected"])

cmdReject(c, t) ==
  LET dir == resolveTaskFile(t, FALSE)
      old == FileIn(dir, t)
  IN  /\ dir # NULL
      /\ old.status = "review"
      /\ ReadAndEdit(c, t, dir, "reject", [old EXCEPT !.status = "in-progress"])

\* The front matter is written back as it was read.
cmdLog(c, t) ==
  LET dir == resolveTaskFile(t, TRUE)
  IN  ReadAndEdit(c, t, dir, "note", FileIn(dir, t))

(***************************************************************************)
(* atomicWriteFile: a temporary file takes the place of the target,        *)
(* whatever is there now.  A command that dies before leaves the target as *)
(* it was.                                                                 *)
(***************************************************************************)
atomicWriteFile(c) ==
  /\ edit[c] # NULL
  /\ edit[c].dir # "archive"
  /\ LET e == edit[c]
         t == e.task
     IN  /\ raced' = IF FileIn(e.dir, t) = e.read THEN raced ELSE raced \cup {t}
         /\ IF e.dir = "tasks"
            THEN /\ tasksDir' = [tasksDir EXCEPT ![t] = e.write]
                 /\ UNCHANGED doneDir
            ELSE /\ doneDir' = [doneDir EXCEPT ![t] = e.write]
                 /\ UNCHANGED tasksDir
  /\ edit' = [edit EXCEPT ![c] = NULL]

CommandDies(c) ==
  /\ edit[c] # NULL
  /\ edit' = [edit EXCEPT ![c] = NULL]
  /\ UNCHANGED <<tasksDir, doneDir, raced>>

-----------------------------------------------------------------------------
(***************************************************************************)
(* cmdArchive, for one entry of the directory: the status is read from the *)
(* file, and then the file is moved, whatever it says by then.             *)
(***************************************************************************)
ArchiveRead(c, t) ==
  /\ edit[c] = NULL
  /\ tasksDir[t] # NULL
  /\ tasksDir[t].status = "done"
  /\ edit' = [edit EXCEPT ![c] = [task |-> t, dir |-> "archive", read |-> tasksDir[t]]]
  /\ UNCHANGED <<tasksDir, doneDir, raced>>

\* When the file is gone the entry is reported and the next one follows.
ArchiveMove(c) ==
  /\ edit[c] # NULL
  /\ edit[c].dir = "archive"
  /\ LET t == edit[c].task
     IN  IF tasksDir[t] = NULL
         THEN UNCHANGED <<tasksDir, doneDir, raced>>
         ELSE /\ doneDir' = [doneDir EXCEPT ![t] = tasksDir[t]]
              /\ tasksDir' = [tasksDir EXCEPT ![t] = NULL]
              /\ raced' = IF tasksDir[t] = edit[c].read THEN raced ELSE raced \cup {t}
  /\ edit' = [edit EXCEPT ![c] = NULL]

-----------------------------------------------------------------------------
TaskCommand(c, t) ==
  \/ cmdStart(c, t)
  \/ cmdReview(c, t)
  \/ cmdDone(c, t)
  \/ cmdReject(c, t)
  \/ cmdLog(c, t)
  \/ ArchiveRead(c, t)

TaskFilesNext ==
  \E c \in Cli :
    \/ \E t \in Task : TaskCommand(c, t)
    \/ atomicWriteFile(c)
    \/ ArchiveMove(c)
    \/ CommandDies(c)

TaskFilesSpec == TaskFilesInit /\ [][TaskFilesNext]_taskFilesVars

-----------------------------------------------------------------------------
(***************************************************************************)
(* Properties.                                                             *)
(***************************************************************************)

FileOrNull == File \cup {NULL}

\* Every variable of the task files keeps its type.
TaskFilesTypeOK ==
  /\ tasksDir \in [Task -> FileOrNull]
  /\ doneDir \in [Task -> FileOrNull]
  /\ \A c \in Cli : edit[c] # NULL =>
       /\ edit[c].task \in Task
       /\ edit[c].dir \in {"tasks", "done", "archive"}
       /\ edit[c].read \in File
       /\ edit[c].dir # "archive" => edit[c].write \in File
  /\ raced \subseteq Task

\* The entries of a log that moved the task, by their places.
Moves(log) == {i \in 1 .. Len(log) : log[i] # "note"}

MayFollow(entry) ==
  CASE entry = "start"  -> {"review"}
    [] entry = "review" -> {"done", "reject"}
    [] entry = "reject" -> {"review"}
    [] entry = "done"   -> {}

StatusAfter(entry) ==
  CASE entry = "review"              -> "review"
    [] entry = "done"                -> "done"
    [] entry \in {"start", "reject"} -> "in-progress"

(***************************************************************************)
(* The log of a file tells its status, and is a way through the lifecycle: *)
(* no task is done without a review after its last rejection.  That is so  *)
(* although commands overwrite each other's files: a file is lost as a     *)
(* whole.  And unless one was overwritten, the archived tasks are those    *)
(* that are done, and a task has one file.                                 *)
(***************************************************************************)
LegalFile(file) ==
  LET log == file.log
  IN  /\ Moves(log) = {} => file.status = "backlog"
      /\ \A i \in Moves(log) :
           /\ (\A j \in Moves(log) : i <= j) => log[i] = "start"
           /\ (\A j \in Moves(log) : j <= i) => file.status = StatusAfter(log[i])
           /\ \A j \in Moves(log) :
                i < j /\ (\A k \in i + 1 .. j - 1 : k \notin Moves(log))
                  => log[j] \in MayFollow(log[i])

TaskHistoryLegal ==
  \A t \in Task :
    /\ \A file \in {tasksDir[t], doneDir[t]} \ {NULL} : LegalFile(file)
    /\ t \notin raced => /\ doneDir[t] # NULL => doneDir[t].status = "done"
                         /\ tasksDir[t] = NULL \/ doneDir[t] = NULL
                         /\ tasksDir[t] # NULL \/ doneDir[t] # NULL
=============================================================================
