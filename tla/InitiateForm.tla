----------------------------- MODULE InitiateForm -----------------------------
(***************************************************************************)
(* The form on which an accountant begins an engagement                    *)
(* (apps/admin/src/app/engagements/new: page.tsx, InitiateEngagementForm,  *)
(* DuplicateWarning and the calls of actions.ts).  What the server does in *)
(* its transaction, and the notices, are in Intake.tla.                    *)
(*                                                                         *)
(* The form is a machine of three phases, and an answer puts it into the   *)
(* one it names, whatever it is in by then.  Of the controls, only the     *)
(* button of the form is disabled while a call is under way: the choice    *)
(* may be changed, and "Create anyway" may be clicked again.               *)
(***************************************************************************)
EXTENDS Naturals, FiniteSets, Null

CONSTANTS
  Choice,      \* what may be chosen: a client, services and a tax year
  Initiated,   \* Engagement ids
  NewTab,      \* tabs with the form
  NewCall,     \* calls of initiateEngagement under way, per tab
  NewFaulty    \* tabs whose calls may throw, or be refused

ASSUME InitiateFormAssumption ==
  /\ NewFaulty \subseteq NewTab
  /\ NULL \notin Choice \cup Initiated \cup NewTab

VARIABLES
  initiated,  \* the Engagement rows, [choice, by], NULL before the INSERT
  sheet,      \* per tab [phase, choice, pending, matches, made, submitting, error], or NULL
  sending,    \* per tab its calls, [choice, override, step, found], or NULL
  warned,     \* history: what each tab was shown a warning about
  strayed     \* history: tabs in which the choice was changed during a call

initiateFormVars == <<initiated, sheet, sending, warned, strayed>>

\* An engagement, the form and a call.
InitiatedRow == [choice : Choice, by : NewTab \cup {NULL}]
Sheet == [phase : {"form", "duplicate_warning", "success"}, choice : Choice,
          pending : Choice \cup {NULL}, matches : SUBSET Initiated, made : Initiated \cup {NULL},
          submitting : BOOLEAN, error : BOOLEAN]
Sending == [choice : Choice, override : BOOLEAN, step : {"look", "warn", "create", "created"},
            found : SUBSET Initiated]

ASSUME NoSheetAssumption == NULL \notin InitiatedRow /\ NULL \notin Sheet /\ NULL \notin Sending

InitiateFormInit ==
  /\ initiated = [i \in Initiated |-> NULL]
  /\ sheet = [t \in NewTab |-> NULL]
  /\ sending = [t \in NewTab |-> [c \in NewCall |-> NULL]]
  /\ warned = [t \in NewTab |-> {}]
  /\ strayed = {}

-----------------------------------------------------------------------------
(***************************************************************************)
(* The form.                                                               *)
(***************************************************************************)
Quiet(t) == \A c \in NewCall : sending[t][c] = NULL

\* A form that was left while it waited is taken up in another tab.
NewEngagementPage(t) ==
  /\ sheet[t] = NULL
  /\ Quiet(t)
  /\ \E x \in Choice :
       sheet' = [sheet EXCEPT ![t] =
                  [phase |-> "form", choice |-> x, pending |-> NULL, matches |-> {},
                   made |-> NULL, submitting |-> FALSE, error |-> FALSE]]
  /\ warned' = [warned EXCEPT ![t] = {}]
  /\ strayed' = strayed \ {t}
  /\ UNCHANGED <<initiated, sending>>

\* By a link, or by the redirection behind the success message.
LeaveForm(t) ==
  /\ sheet[t] # NULL
  /\ sheet' = [sheet EXCEPT ![t] = NULL]
  /\ UNCHANGED <<initiated, sending, warned, strayed>>

\* The fields are there in the phase of the form, and never disabled.
ChangeChoice(t) ==
  /\ sheet[t] # NULL
  /\ sheet[t].phase = "form"
  /\ \E x \in Choice \ {sheet[t].choice} : sheet' = [sheet EXCEPT ![t].choice = x]
  /\ strayed' = IF Quiet(t) THEN strayed ELSE strayed \cup {t}
  /\ UNCHANGED <<initiated, sending, warned>>

\* The call is made for what is chosen now, not for what the warning was about.
handleSubmit(t, override) ==
  /\ \E c \in NewCall :
       /\ sending[t][c] = NULL
       /\ sending' = [sending EXCEPT ![t][c] =
                       [choice |-> sheet[t].choice, override |-> override,
                        step |-> "look", found |-> {}]]
  /\ sheet' = [sheet EXCEPT ![t].submitting = TRUE, ![t].error = FALSE]
  /\ UNCHANGED <<initiated, warned, strayed>>

\* What the fields do not allow is refused on the spot.
SubmitInitiate(t) ==
  /\ sheet[t] # NULL
  /\ sheet[t].phase = "form"
  /\ ~sheet[t].submitting
  /\ \/ handleSubmit(t, FALSE)
     \/ /\ sheet' = [sheet EXCEPT ![t].error = TRUE]
        /\ UNCHANGED <<initiated, sending, warned, strayed>>

handleOverride(t) ==
  /\ sheet[t] # NULL
  /\ sheet[t].phase = "duplicate_warning"
  /\ handleSubmit(t, TRUE)

handleCancelOverride(t) ==
  /\ sheet[t] # NULL
  /\ sheet[t].phase = "duplicate_warning"
  /\ sheet' = [sheet EXCEPT ![t].phase = "form", ![t].error = FALSE]
  /\ UNCHANGED <<initiated, sending, warned, strayed>>

-----------------------------------------------------------------------------
(***************************************************************************)
(* The action.                                                             *)
(***************************************************************************)
Sent(t, c, step) == sending[t][c] # NULL /\ sending[t][c].step = step

DuplicatesOf(x) == {i \in Initiated : initiated[i] # NULL /\ initiated[i].choice = x}

\* Mutant: an empty list of matches is a warning too.
WarnAlways(t, c) ==
  /\ Sent(t, c, "look")
  /\ LET x == sending[t][c].choice
     IN  sending' = [sending EXCEPT ![t][c] =
           [@ EXCEPT !.step = IF sending[t][c].override THEN "create" ELSE "warn",
                     !.found = IF sending[t][c].override THEN {} ELSE DuplicatesOf(x)]]
  /\ UNCHANGED <<initiated, sheet, warned, strayed>>

LookBeforeCreating(t, c) ==
  /\ Sent(t, c, "look")
  /\ LET x == sending[t][c].choice
         matches == IF sending[t][c].override THEN {} ELSE DuplicatesOf(x)
     IN  sending' = [sending EXCEPT ![t][c].step = IF matches = {} THEN "create" ELSE "warn",
                                    ![t][c].found = matches]
  /\ UNCHANGED <<initiated, sheet, warned, strayed>>

CreateInitiated(t, c) ==
  /\ Sent(t, c, "create")
  /\ \E i \in Initiated :
       /\ initiated[i] = NULL
       /\ initiated' = [initiated EXCEPT ![i] =
                         [choice |-> sending[t][c].choice, by |-> t]]
       /\ sending' = [sending EXCEPT ![t][c].step = "created", ![t][c].found = {i}]
  /\ UNCHANGED <<sheet, warned, strayed>>

\* An engagement begins in another way: a request is accepted.
AcceptedElsewhere(x) ==
  /\ \E i \in Initiated :
       /\ initiated[i] = NULL
       /\ initiated' = [initiated EXCEPT ![i] = [choice |-> x, by |-> NULL]]
  /\ UNCHANGED <<sheet, sending, warned, strayed>>

\* An answer is shown; to a form that was left, it is not.
AnswerForm(t, c, next) ==
  /\ sending' = [sending EXCEPT ![t][c] = NULL]
  /\ sheet' = IF sheet[t] = NULL THEN sheet ELSE [sheet EXCEPT ![t] = next]
  /\ UNCHANGED <<initiated, strayed>>

AnswerWarning(t, c) ==
  /\ Sent(t, c, "warn")
  /\ AnswerForm(t, c, [sheet[t] EXCEPT !.phase = "duplicate_warning", !.submitting = FALSE,
                         !.matches = sending[t][c].found, !.pending = sending[t][c].choice])
  /\ warned' = IF sheet[t] = NULL THEN warned
               ELSE [warned EXCEPT ![t] = @ \cup {sending[t][c].choice}]

AnswerInitiated(t, c) ==
  /\ Sent(t, c, "created")
  /\ \E i \in sending[t][c].found :
       AnswerForm(t, c, [sheet[t] EXCEPT !.phase = "success", !.submitting = FALSE, !.made = i])
  /\ UNCHANGED warned

\* The call is refused, throws, or its answer is lost.  In the phase of the
\* warning the error is kept and not shown.
InitiatingFails(t, c) ==
  /\ t \in NewFaulty
  /\ sending[t][c] # NULL
  /\ AnswerForm(t, c, [sheet[t] EXCEPT !.submitting = FALSE, !.error = TRUE])
  /\ UNCHANGED warned

InitiateFormNext ==
  \/ \E x \in Choice : AcceptedElsewhere(x)
  \/ \E t \in NewTab :
       \/ NewEngagementPage(t)
       \/ LeaveForm(t)
       \/ ChangeChoice(t)
       \/ SubmitInitiate(t)
       \/ handleOverride(t)
       \/ handleCancelOverride(t)
       \/ \E c \in NewCall :
            \/ LookBeforeCreating(t, c)
            \/ CreateInitiated(t, c)
            \/ AnswerWarning(t, c)
            \/ AnswerInitiated(t, c)
            \/ InitiatingFails(t, c)

-----------------------------------------------------------------------------
(***************************************************************************)
(* Properties.                                                             *)
(***************************************************************************)

\* The variables keep their types.
InitiateFormTypeOK ==
  /\ initiated \in [Initiated -> InitiatedRow \cup {NULL}]
  /\ sheet \in [NewTab -> Sheet \cup {NULL}]
  /\ sending \in [NewTab -> [NewCall -> Sending \cup {NULL}]]
  /\ warned \in [NewTab -> SUBSET Choice]
  /\ strayed \subseteq NewTab

(***************************************************************************)
(* The form says what is (AC-LIFE-011-02): it warns of engagements that    *)
(* there are, for what was submitted, and reports the success of one that  *)
(* this tab has created.  And "Create anyway" is for what the tab was      *)
(* warned about, unless the choice was changed while the warning was on    *)
(* its way: it submits the choice and not what the warning is about.       *)
(***************************************************************************)
FormTellsWhatIs ==
  \A t \in NewTab :
    /\ sheet[t] # NULL /\ sheet[t].phase = "duplicate_warning" =>
         /\ sheet[t].matches # {}
         /\ \A i \in sheet[t].matches :
              initiated[i] # NULL /\ initiated[i].choice = sheet[t].pending
    /\ sheet[t] # NULL /\ sheet[t].phase = "success" =>
         sheet[t].made # NULL /\ initiated[sheet[t].made] # NULL /\ initiated[sheet[t].made].by = t
    /\ t \notin strayed => \A c \in NewCall :
         sending[t][c] # NULL /\ sending[t][c].override => sending[t][c].choice \in warned[t]
=============================================================================
