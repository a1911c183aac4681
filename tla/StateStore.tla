------------------------------ MODULE StateStore ------------------------------
(***************************************************************************)
(* The state of the developers' process (scripts/state-store.ts and the    *)
(* commands of scripts/task.ts that change it): a command reads state.json *)
(* as a whole, replaces it as a whole, and then appends an event to        *)
(* events.jsonl.  Nothing keeps two commands from overlapping.             *)
(*                                                                         *)
(* The state is a function of keys: the brief, the phase, and for each     *)
(* pull request its record, if it awaits its merge; the branch and the     *)
(* description go with the brief, and the retro items are left out.  The   *)
(* BUG file of a failed merge is another file and is left out; the event   *)
(* of a failure changes no key.                                            *)
(***************************************************************************)
EXTENDS Naturals, Sequences, Null

CONSTANTS
  Brief,
  Phase,
  PullRequest,
  StateCli,   \* invocations of the command line
  Migrator,   \* those that may be of state-store.ts itself
  MaxEvents   \* bound on the events

ASSUME StateStoreAssumption ==
  /\ {"brief", "phase"} \cap PullRequest = {}
  /\ Migrator \subseteq StateCli
  /\ NULL \notin Brief
  /\ MaxEvents \in Nat

VARIABLES
  progress,  \* what can be read from PROGRESS.md, which no command writes
  state,     \* state.json
  events,    \* events.jsonl
  change,    \* what a command has read and is about to write, NULL when idle
  astray     \* history: keys whose last change and last event need not agree

stateStoreVars == <<progress, state, events, change, astray>>

Key == {"brief", "phase"} \cup PullRequest
Value == Brief \cup Phase \cup {"awaiting", NULL}

\* The values of some keys, and what a command has read and is about to write.
KeyValues == UNION {[K -> Value] : K \in SUBSET Key}
Change == [new : KeyValues, tells : SUBSET Key, read : [Key -> Value], written : BOOLEAN]

ASSUME NoChangeAssumption == NULL \notin Change

\* A brief, a phase, and one pull request at most.
ProgressSections ==
  {s \in [Key -> Value] :
    /\ s["brief"] \in Brief \cup {NULL}
    /\ s["phase"] \in Phase \cup {NULL}
    /\ \A pr \in PullRequest : s[pr] \in {"awaiting", NULL}
    /\ \A p, q \in PullRequest : s[p] # NULL /\ s[q] # NULL => p = q}

StateStoreInit ==
  /\ progress \in ProgressSections
  /\ state = [k \in Key |-> NULL]
  /\ events = <<>>
  /\ change = [c \in StateCli |-> NULL]
  /\ astray = {}

-----------------------------------------------------------------------------
\* The change of a command replaces the keys of `new`, and its event tells those of `tells`.
\* A command that finds nothing to change, or no record, ends without a step.
Prepare(c, new, tells) ==
  /\ change[c] = NULL
  /\ Len(events) < MaxEvents
  /\ change' = [change EXCEPT ![c] =
                 [new |-> new, tells |-> tells, read |-> state, written |-> FALSE]]
  /\ UNCHANGED <<progress, state, events, astray>>

PrepareOne(c, k, v) == Prepare(c, [j \in {k} |-> v], {k})

cmdPhaseTransition(c, to) ==
  /\ state["phase"] # to
  /\ PrepareOne(c, "phase", to)

cmdMergeCheckpoint(c, pr) ==
  /\ state[pr] = NULL
  /\ PrepareOne(c, pr, "awaiting")

\* The merge passed and its record is cleared, or it failed and the record is kept.
cmdPostMerge(c, pr, passed) ==
  /\ state[pr] # NULL
  /\ PrepareOne(c, pr, IF passed THEN NULL ELSE "awaiting")

(***************************************************************************)
(* The state is made from PROGRESS.md, unless it has the same brief        *)
(* already: then it may have moved on.  The event tells no pull request.   *)
(* Without a brief a second migration is not a no-op.                      *)
(***************************************************************************)
AlreadyMigrated == state["brief"] # NULL /\ state["brief"] = progress["brief"]

migrate(c) ==
  /\ c \in Migrator
  /\ ~AlreadyMigrated
  /\ Prepare(c, progress, {"brief", "phase"})

-----------------------------------------------------------------------------
Unappended(k) == {c \in StateCli : change[c] # NULL /\ change[c].written /\ k \in change[c].tells}

(***************************************************************************)
(* writeState: the whole of the new state, made from what was read, takes  *)
(* the place of the old.  It takes back what others changed in between,    *)
(* and the events of two changes of one key may come in either order.      *)
(***************************************************************************)
writeState(c) ==
  /\ change[c] # NULL
  /\ ~change[c].written
  /\ LET new == change[c].new
         tells == change[c].tells
     IN  /\ state' = [k \in Key |-> IF k \in DOMAIN new THEN new[k] ELSE change[c].read[k]]
         /\ astray' = {k \in Key : IF k \in tells THEN Unappended(k) # {}
                                   ELSE k \in astray \/ state'[k] # state[k]}
  /\ change' = [change EXCEPT ![c].written = TRUE]
  /\ UNCHANGED <<progress, events>>

\* Mutant: the event holds the values from before the change.
AppendPrevious(c) ==
  /\ change[c] # NULL
  /\ change[c].written
  /\ events' = Append(events, [k \in change[c].tells |-> change[c].read[k]])
  /\ change' = [change EXCEPT ![c] = NULL]
  /\ UNCHANGED <<progress, state, astray>>

appendEvent(c) ==
  /\ change[c] # NULL
  /\ change[c].written
  /\ events' = Append(events, [k \in change[c].tells |-> change[c].new[k]])
  /\ change' = [change EXCEPT ![c] = NULL]
  /\ UNCHANGED <<progress, state, astray>>

\* Between the two writes the state has changed and there is no event.
StateCommandDies(c) ==
  /\ change[c] # NULL
  /\ change' = [change EXCEPT ![c] = NULL]
  /\ astray' = IF change[c].written THEN astray \cup change[c].tells ELSE astray
  /\ UNCHANGED <<progress, state, events>>

StateStoreNext ==
  \E c \in StateCli :
    \/ \E to \in Phase : cmdPhaseTransition(c, to)
    \/ \E pr \in PullRequest : \/ cmdMergeCheckpoint(c, pr)
                               \/ \E passed \in BOOLEAN : cmdPostMerge(c, pr, passed)
    \/ migrate(c)
    \/ writeState(c)
    \/ appendEvent(c)
    \/ StateCommandDies(c)

StateStoreSpec == StateStoreInit /\ [][StateStoreNext]_stateStoreVars

-----------------------------------------------------------------------------
(***************************************************************************)
(* Properties.                                                             *)
(***************************************************************************)

\* Every variable of the state store keeps its type.
StateStoreTypeOK ==
  /\ progress \in ProgressSections
  /\ state \in [Key -> Value]
  /\ events \in Seq(KeyValues)
  /\ change \in [StateCli -> Change \cup {NULL}]
  /\ \A c \in StateCli : change[c] # NULL => change[c].tells \subseteq DOMAIN change[c].new
  /\ astray \subseteq Key

\* The events that tell of a key.
Telling(k) == {i \in 1 .. Len(events) : k \in DOMAIN events[i]}

\* The events say v of k: the last that tells of it does, or v is NULL and none tells.
TheySay(k, v) ==
  \/ Telling(k) = {} /\ v = NULL
  \/ \E i \in Telling(k) : events[i][k] = v /\ \A j \in Telling(k) : j <= i

(***************************************************************************)
(* The events account for the state ("the append-only audit log"): the     *)
(* brief, the phase, and whether a pull request awaits its merge, are what *)
(* the last event that tells of them says, once that is appended.  An      *)
(* overlap or a death loses this for the keys it hits, and until the next  *)
(* change of each: a command that took back others' changes leaves the     *)
(* rest of the state intact.  A migration loses the pull requests.         *)
(***************************************************************************)
EventsAccountForState ==
  \A k \in Key \ astray : Unappended(k) = {} => TheySay(k, state[k])
=============================================================================
