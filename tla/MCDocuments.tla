--------------------------- MODULE MCDocuments ---------------------------
(***************************************************************************)
(* Small instance of Documents.  Each behaviour is of one part:            *)
(*   "versions"    one document with three versions, each object PUT once: *)
(*     a handler that survives and one that may die at every statement     *)
(*     give two replacements of the same version that race, one that died  *)
(*     before another starts, and a scan beside either;                    *)
(*   "tombstones"  the same with deletion, and two versions;               *)
(*   "bytes"       objects are PUT over, and a second document, which is   *)
(*     only uploaded, has a key that may be named for the first.           *)
(***************************************************************************)
EXTENDS Documents

CONSTANTS
  Lent,  \* the documents of which only the key matters
  Parts  \* of "versions", "tombstones" and "bytes"

VARIABLE part

Alone == \A d \in Lent : status'[d] = "none"

\* A replacement of the second version is not begun.
TwoVersions == \A p \in Proc : pc'[p] = "insertVersion" => work'[p].version = 1

NoDeletion == \A d \in Doc : ~deletedAt'[d]

PutOnce(docs) == \A d \in docs, v \in Version : blob[d][v] # NULL => blob'[d][v] = blob[d][v]

OnlyUploaded(d) ==
  \A p \in Proc : pc'[p] \in {"scan", "insertVersion"} => work'[p].doc # d

Bounds ==
  /\ part = "versions"   => Alone /\ NoDeletion /\ PutOnce(Doc)
  /\ part = "tombstones" => Alone /\ TwoVersions /\ PutOnce(Doc)
  /\ part = "bytes"      => /\ NoDeletion /\ TwoVersions /\ PutOnce(Lent)
                            /\ \A d \in Lent : OnlyUploaded(d)

vars == <<docVars, part>>

Init == DocumentsInit /\ part \in Parts

Next == DocumentsNext /\ Bounds /\ UNCHANGED part

Spec == Init /\ [][Next]_vars

\* The fairness of Documents: nothing that is fair is bounded.
FairSpec == Spec /\ \A p \in Proc \ Faulty : WF_docVars(Resume(p))
=============================================================================
