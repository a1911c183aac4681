-------------------------------- MODULE Downloads --------------------------------
(***************************************************************************)
(* Handing out a signed URL for a document or one of its versions: the     *)
(* download actions of both apps (documents/actions.ts) around             *)
(* authorizeThenSignDownload and listDocumentVersions                      *)
(* (packages/db/src/repositories/document.ts).                             *)
(*                                                                         *)
(* The row is read, a URL is signed for a key, an event is recorded, and   *)
(* only then is the URL given.  Between any two of these the document may  *)
(* be replaced, deleted or recovered, and the action may die.  A client    *)
(* finds no row, and no version, of a deleted document (RowPolicies); an   *)
(* accountant does.                                                        *)
(***************************************************************************)
EXTENDS Naturals, FiniteSets, Null

CONSTANTS
  Held,         \* Document ids
  Asker,        \* download actions under way
  ClientAsker,  \* those of the portal
  AskerFaulty,  \* those that may die between two steps
  MaxHeld       \* bound on the versions of a document

ASSUME DownloadsAssumption ==
  /\ ClientAsker \subseteq Asker
  /\ AskerFaulty \subseteq Asker
  /\ MaxHeld \in Nat \ {0}

VARIABLES
  held,     \* per document its row, [active, key, deleted]; a key is a version number
  asking,   \* per action [doc, version, step, key], or NULL; a version of 0 is the current one
  logged,   \* the document.download events, <<action, document>>
  given     \* per action what it answered, [doc, key], or NULL

downloadsVars == <<held, asking, logged, given>>

DownloadsInit ==
  /\ held = [d \in Held |-> [active |-> TRUE, key |-> 1, deleted |-> FALSE]]
  /\ asking = [p \in Asker |-> NULL]
  /\ logged = {}
  /\ given = [p \in Asker |-> NULL]

-----------------------------------------------------------------------------
\* A replacement is pending until its scan.  Its statements are in the module Documents.
ReplaceHeld(d) ==
  /\ held[d].key < MaxHeld
  /\ held' = [held EXCEPT ![d].active = FALSE, ![d].key = @ + 1]
  /\ UNCHANGED <<asking, logged, given>>

PromoteHeld(d) ==
  /\ ~held[d].active
  /\ held' = [held EXCEPT ![d].active = TRUE]
  /\ UNCHANGED <<asking, logged, given>>

DeleteOrRecover(d) ==
  /\ held' = [held EXCEPT ![d].deleted = ~@]
  /\ UNCHANGED <<asking, logged, given>>

-----------------------------------------------------------------------------
\* Does an action find the rows of a document, and of its versions?
Finds(p, d) == p \in ClientAsker => ~held[d].deleted

\* Version 1 has no row of its own.
VersionRows(d) == 2 .. held[d].key

\* Each action runs once.  Version 0 is the current one.
Begin(p, d, v) ==
  /\ asking[p] = NULL
  /\ given[p] = NULL
  /\ asking' = [asking EXCEPT ![p] = [doc |-> d, version |-> v, step |-> "authorize", key |-> NULL]]
  /\ UNCHANGED <<held, logged, given>>

\* The two actions of the office, and those of the portal.
requestDownloadUrl(p, d) == p \notin ClientAsker /\ Begin(p, d, 0)
requestDownloadUrlForVersion(p, d, v) == p \notin ClientAsker /\ Begin(p, d, v)
portalRequestDownloadUrl(p, d) == p \in ClientAsker /\ Begin(p, d, 0)
portalRequestDownloadUrlForVersion(p, d, v) == p \in ClientAsker /\ Begin(p, d, v)

Step(p, from, to) ==
  /\ asking[p] # NULL
  /\ asking[p].step = from
  /\ asking' = [asking EXCEPT ![p].step = to]

\* The URL of the current version is signed for the key of the row that was read.
authorizeThenSignDownload(p) ==
  /\ asking[p] # NULL
  /\ asking[p].step = "authorize"
  /\ LET d == asking[p].doc
     IN  asking' = [asking EXCEPT ![p] =
           IF Finds(p, d) /\ held[d].active
           THEN [@ EXCEPT !.step = IF asking[p].version # 0 THEN "versions" ELSE "log",
                          !.key = held[d].key]
           ELSE NULL]
  /\ UNCHANGED <<held, logged, given>>

\* Mutant: the version is taken by its number, whether or not its row is found.
TakeVersionUnseen(p) ==
  /\ asking[p] # NULL
  /\ asking[p].step = "versions"
  /\ asking' = [asking EXCEPT ![p].step = "log", ![p].key = asking[p].version]
  /\ UNCHANGED <<held, logged, given>>

\* requestDownloadUrlForVersionAction: the version is looked for among those of the document.
FindVersion(p) ==
  /\ asking[p] # NULL
  /\ asking[p].step = "versions"
  /\ LET d == asking[p].doc
     IN  asking' = [asking EXCEPT ![p] =
           IF Finds(p, d) /\ @.version \in VersionRows(d)
           THEN [@ EXCEPT !.step = "log", !.key = asking[p].version]
           ELSE NULL]
  /\ UNCHANGED <<held, logged, given>>

recordDownload(p) ==
  /\ Step(p, "log", "answer")
  /\ logged' = logged \cup {<<p, asking[p].doc>>}
  /\ UNCHANGED <<held, given>>

AnswerUrl(p) ==
  /\ asking[p] # NULL
  /\ asking[p].step = "answer"
  /\ given' = [given EXCEPT ![p] = [doc |-> asking[p].doc, key |-> asking[p].key]]
  /\ asking' = [asking EXCEPT ![p] = NULL]
  /\ UNCHANGED <<held, logged>>

\* The process dies, or a call throws: no URL is given.
AskerFails(p) ==
  /\ p \in AskerFaulty
  /\ asking[p] # NULL
  /\ asking' = [asking EXCEPT ![p] = NULL]
  /\ UNCHANGED <<held, logged, given>>

DownloadsNext ==
  \/ \E d \in Held : ReplaceHeld(d) \/ PromoteHeld(d) \/ DeleteOrRecover(d)
  \/ \E p \in Asker :
       \/ \E d \in Held :
            \/ requestDownloadUrl(p, d)
            \/ portalRequestDownloadUrl(p, d)
            \/ \E v \in 1 .. MaxHeld :
                 \/ requestDownloadUrlForVersion(p, d, v)
                 \/ portalRequestDownloadUrlForVersion(p, d, v)
       \/ authorizeThenSignDownload(p)
       \/ FindVersion(p)
       \/ recordDownload(p)
       \/ AnswerUrl(p)
       \/ AskerFails(p)

-----------------------------------------------------------------------------
(***************************************************************************)
(* Properties.                                                             *)
(***************************************************************************)

\* The variables keep their types.
DownloadsTypeOK ==
  /\ held \in [Held -> [active : BOOLEAN, key : 1..MaxHeld, deleted : BOOLEAN]]
  /\ asking \in [Asker -> [doc : Held, version : 0..MaxHeld, key : 1..MaxHeld \cup {NULL},
                           step : {"authorize", "versions", "log", "answer"}] \cup {NULL}]
  /\ logged \subseteq Asker \X Held
  /\ given \in [Asker -> [doc : Held, key : 1..MaxHeld] \cup {NULL}]

(***************************************************************************)
(* A URL is given for a version that the document has, and only after the  *)
(* download was recorded, whatever happened to the document meanwhile and  *)
(* wherever the action died (documents/actions.ts of both apps).           *)
(***************************************************************************)
GivenIsLogged ==
  \A p \in Asker : given[p] # NULL =>
    /\ <<p, given[p].doc>> \in logged
    /\ given[p].key <= held[given[p].doc].key
=============================================================================
