------------------------------- MODULE Services -------------------------------
(***************************************************************************)
(* The catalogue of services: the page on which an accountant maintains it *)
(* (apps/admin/src/app/services: ServiceList, AddServiceForm,              *)
(* EditServiceForm and actions.ts), and the repository service.ts.         *)
(*                                                                         *)
(* An edit sends every field of the form, and none that is not in it.  The *)
(* calls of a tab go to the server one after the other, and each brings    *)
(* back the page as it is then (revalidatePath).                           *)
(***************************************************************************)
EXTENDS Naturals, FiniteSets, Null

CONSTANTS
  Service,       \* Service ids
  SeededService, \* those that the seed made
  ServiceText,   \* what the fields name, description and sortOrder may hold together
  ServiceTab,
  MaxCalls       \* bound on the calls of the accountants' tabs

ASSUME ServicesAssumption ==
  /\ SeededService \subseteq Service
  /\ NULL \notin Service
  /\ ServiceText # {}
  /\ MaxCalls \in Nat

VARIABLES
  catalog,     \* the Service rows, [text, active]; a function from those that exist
  listed,      \* a tab's ServiceList, NULL while it is not open
  calls,       \* calls so far
  retired      \* history: services that were deactivated

servicesVars == <<catalog, listed, calls, retired>>

Closed == [kind |-> "none", service |-> NULL, text |-> NULL]

ServicesInit ==
  /\ catalog = [s \in SeededService |-> [text |-> CHOOSE x \in ServiceText : TRUE, active |-> TRUE]]
  /\ listed = [t \in ServiceTab |-> NULL]
  /\ calls = 0
  /\ retired = {}

-----------------------------------------------------------------------------
(***************************************************************************)
(* The page.  One form is open at a time, to add a service or to edit one. *)
(***************************************************************************)
OpenServicesPage(t) ==
  /\ listed' = [listed EXCEPT ![t] = [rows |-> catalog, form |-> Closed, call |-> NULL]]
  /\ UNCHANGED <<catalog, calls, retired>>

ClickAdd(t) ==
  /\ listed[t] # NULL
  /\ \E x \in ServiceText :
       listed' = [listed EXCEPT ![t].form = [Closed EXCEPT !.kind = "add", !.text = x]]
  /\ UNCHANGED <<catalog, calls, retired>>

(***************************************************************************)
(* The fields take their values from the service when the form appears.    *)
(* A form that is open already is given the other service, and keeps the   *)
(* values of the one before.                                               *)
(***************************************************************************)
EditServiceForm(t, s) ==
  /\ listed[t] # NULL
  /\ s \in DOMAIN listed[t].rows
  /\ listed' = [listed EXCEPT ![t].form =
                IF @.kind = "edit" THEN [@ EXCEPT !.service = s]
                ELSE [kind |-> "edit", service |-> s, text |-> listed[t].rows[s].text]]
  /\ UNCHANGED <<catalog, calls, retired>>

\* While its call is under way a form is disabled, but not the rows of the page.
Disabled(t) == listed[t].call # NULL /\ listed[t].call.kind # "deactivate"

TypeField(t) ==
  /\ listed[t] # NULL
  /\ listed[t].form.kind = "edit"
  /\ ~Disabled(t)
  /\ \E x \in ServiceText \ {listed[t].form.text} :
       listed' = [listed EXCEPT ![t].form.text = x]
  /\ UNCHANGED <<catalog, calls, retired>>

Cancel(t) ==
  /\ listed[t] # NULL
  /\ listed[t].form.kind # "none"
  /\ ~Disabled(t)
  /\ listed' = [listed EXCEPT ![t].form = Closed]
  /\ UNCHANGED <<catalog, calls, retired>>

Call(t, c) ==
  /\ listed[t] # NULL
  /\ listed[t].call = NULL
  /\ calls < MaxCalls
  /\ calls' = calls + 1
  /\ listed' = [listed EXCEPT ![t].call = c]
  /\ UNCHANGED <<catalog, retired>>

SubmitForm(t) ==
  /\ listed[t] # NULL
  /\ listed[t].form.kind # "none"
  /\ Call(t, [kind |-> listed[t].form.kind, service |-> listed[t].form.service,
              text |-> listed[t].form.text])

\* The button is there while the row is shown as active.
handleDeactivate(t, s) ==
  /\ listed[t] # NULL
  /\ s \in DOMAIN listed[t].rows
  /\ listed[t].rows[s].active
  /\ Call(t, [kind |-> "deactivate", service |-> s, text |-> NULL])

-----------------------------------------------------------------------------
(***************************************************************************)
(* The actions.                                                            *)
(***************************************************************************)
createService(x) ==
  \E s \in Service \ DOMAIN catalog :
    catalog' = [i \in DOMAIN catalog \cup {s} |->
                  IF i = s THEN [text |-> x, active |-> TRUE] ELSE catalog[i]]

\* Mutant: an edit writes the whole row that the tab shows.
UpdateRow(s, x) == catalog' = [catalog EXCEPT ![s] = [text |-> x, active |-> TRUE]]

updateService(s, x) == catalog' = [catalog EXCEPT ![s].text = x]

deactivateService(s) == catalog' = [catalog EXCEPT ![s].active = FALSE]

\* A call that succeeds closes its form, if that is still open.
ServiceAction(t) ==
  /\ listed[t] # NULL
  /\ listed[t].call # NULL
  /\ LET c == listed[t].call
     IN  /\ \/ c.kind = "add"        /\ createService(c.text) /\ UNCHANGED retired
            \/ c.kind = "edit"       /\ updateService(c.service, c.text) /\ UNCHANGED retired
            \/ c.kind = "deactivate" /\ deactivateService(c.service)
                                     /\ retired' = retired \cup {c.service}
         /\ listed' = [listed EXCEPT ![t] =
                       [rows |-> catalog', call |-> NULL,
                        form |-> IF @.form.kind = c.kind THEN Closed ELSE @.form]]
  /\ UNCHANGED calls

\* A call is refused and an error shown; what is thrown at a form takes the page down.
ServiceActionFails(t) ==
  /\ listed[t] # NULL
  /\ listed[t].call # NULL
  /\ \/ listed' = [listed EXCEPT ![t].call = NULL]
     \/ /\ listed[t].call.kind # "deactivate"
        /\ listed' = [listed EXCEPT ![t] = NULL]
  /\ UNCHANGED <<catalog, calls, retired>>

ServicesNext ==
  \E t \in ServiceTab :
    \/ OpenServicesPage(t)
    \/ ClickAdd(t)
    \/ \E s \in Service : EditServiceForm(t, s) \/ handleDeactivate(t, s)
    \/ TypeField(t)
    \/ Cancel(t)
    \/ SubmitForm(t)
    \/ ServiceAction(t)
    \/ ServiceActionFails(t)

ServicesSpec == ServicesInit /\ [][ServicesNext]_servicesVars

-----------------------------------------------------------------------------
\* Every variable of the catalogue keeps its type.
ServicesTypeOK ==
  /\ DOMAIN catalog \subseteq Service
  /\ \A s \in DOMAIN catalog : catalog[s] \in [text : ServiceText, active : BOOLEAN]
  /\ \A t \in ServiceTab : listed[t] # NULL =>
       /\ DOMAIN listed[t].rows \subseteq DOMAIN catalog
       /\ listed[t].form.kind \in {"none", "add", "edit"}
       /\ listed[t].form.service \in Service \cup {NULL}
  /\ calls \in 0 .. MaxCalls
  /\ retired \subseteq Service

(***************************************************************************)
(* A service that was deactivated is never active again: not by an edit    *)
(* from a tab that still shows it as active, nor one begun before.         *)
(***************************************************************************)
RetiredStaysRetired == \A s \in retired : s \in DOMAIN catalog /\ ~catalog[s].active
=============================================================================
