---------------------------- MODULE Questionnaires ----------------------------
(***************************************************************************)
(* The questionnaire of a service: its template, which accountants edit    *)
(* (settings/questionnaire-templates: QuestionnaireTemplateEditor and      *)
(* actions.ts, repository questionnaire-template.ts), and the answers of a *)
(* client (QuestionnaireStep.tsx, onboarding/actions.ts, repository        *)
(* questionnaire-answer.ts).                                               *)
(*                                                                         *)
(* A template is changed in place, and which one an engagement has is      *)
(* worked out anew each time: it is that of its first service, by an order *)
(* that accountants may change.  So a client may answer what is no longer  *)
(* asked.  One engagement with all services is enough: nothing is shared   *)
(* between two but the templates.  What the submission does to onboarding  *)
(* is in Onboarding.tla.                                                   *)
(***************************************************************************)
EXTENDS Naturals, FiniteSets, Null

CONSTANTS
  Kind,          \* service types, by id
  Question,      \* question ids: random, and never used twice
  Editor,        \* tabs of accountants
  LapsedEditor,  \* those whose session may lapse for a while
  AnswerTab,     \* tabs of the client
  MaxSaves       \* bound on the saves of the editors

ASSUME QuestionnairesAssumption ==
  LapsedEditor \subseteq Editor /\ NULL \notin Kind /\ MaxSaves \in Nat

VARIABLES
  primary,   \* the first service of the engagement
  template,  \* QuestionnaireTemplate rows by serviceId: the questions, NULL for no row
  answer,    \* the QuestionnaireAnswer row: the questions with a text, NULL for none
  editor,    \* an editor, NULL while it is not open
  saves,     \* saves so far
  form,      \* a client's QuestionnaireStep, NULL while not open
  home,      \* history: the service a question was written for, NULL before
  mixed,     \* history: did an editor keep the questions of another service?
  asked      \* history: the template that the answers were checked against

questionnairesVars == <<primary, template, answer, editor, saves, form, home, mixed, asked>>
editorVars == <<template, editor, saves, home, mixed>>
answerVars == <<answer, form, asked>>

\* A question, and whether an answer is required.
Def == [id : Question, required : BOOLEAN]
Ids(T) == {q.id : q \in T}
Required(T) == {q.id : q \in {x \in T : x.required}}
Questions(s) == IF template[s] = NULL THEN {} ELSE template[s]

QuestionnairesInit ==
  /\ primary \in Kind
  /\ template = [s \in Kind |-> NULL]
  /\ answer = NULL
  /\ editor = [e \in Editor |-> NULL]
  /\ saves = 0
  /\ form = [c \in AnswerTab |-> NULL]
  /\ home = [q \in Question |-> NULL]
  /\ mixed = FALSE
  /\ asked = NULL

\* An accountant edits sort orders: another service of the engagement is first.
SortOrderChanges ==
  /\ primary' \in Kind \ {primary}
  /\ UNCHANGED <<editorVars, answerVars>>

-----------------------------------------------------------------------------
(***************************************************************************)
(* The editor.  All of it is disabled while it loads or saves.             *)
(***************************************************************************)
OpenEditor(e) ==
  /\ \E s \in Kind :
       editor' = [editor EXCEPT ![e] = [service |-> s, questions |-> Questions(s), step |-> "idle"]]
  /\ UNCHANGED <<primary, template, saves, home, mixed, answerVars>>

In(e, step) == editor[e] # NULL /\ editor[e].step = step

\* The picker turns to the other service at once, its questions come later.
handleServiceChange(e) ==
  /\ In(e, "idle")
  /\ \E s \in Kind \ {editor[e].service} :
       editor' = [editor EXCEPT ![e].service = s, ![e].step = "load"]
  /\ UNCHANGED <<primary, template, saves, home, mixed, answerVars>>

\* When the call is refused, the questions of the former service stay.
getQuestionnaireTemplate(e) ==
  /\ In(e, "load")
  /\ \/ /\ editor' = [editor EXCEPT ![e].questions = Questions(editor[e].service),
                                       ![e].step = "idle"]
        /\ UNCHANGED mixed
     \/ /\ e \in LapsedEditor
        /\ editor' = [editor EXCEPT ![e].step = "idle"]
        /\ mixed' = TRUE
  /\ UNCHANGED <<primary, template, saves, home, answerVars>>

addQuestion(e) ==
  /\ In(e, "idle")
  /\ \E q \in Question, r \in BOOLEAN :
       /\ home[q] = NULL
       /\ home' = [home EXCEPT ![q] = editor[e].service]
       /\ editor' = [editor EXCEPT ![e].questions = @ \cup {[id |-> q, required |-> r]}]
  /\ UNCHANGED <<primary, template, saves, mixed, answerVars>>

removeQuestion(e) ==
  /\ In(e, "idle")
  /\ \E x \in editor[e].questions :
       editor' = [editor EXCEPT ![e].questions = @ \ {x}]
  /\ UNCHANGED <<primary, template, saves, home, mixed, answerVars>>

updateQuestion(e) ==
  /\ In(e, "idle")
  /\ \E x \in editor[e].questions :
       editor' = [editor EXCEPT ![e].questions =
                    (@ \ {x}) \cup {[x EXCEPT !.required = ~@]}]
  /\ UNCHANGED <<primary, template, saves, home, mixed, answerVars>>

\* Mutant: the editor can be used while it loads.
SaveAnyTime(e) ==
  /\ In(e, "idle") \/ In(e, "load")
  /\ editor[e].questions # {}
  /\ saves < MaxSaves
  /\ saves' = saves + 1
  /\ editor' = [editor EXCEPT ![e].step = "update"]
  /\ UNCHANGED <<primary, template, home, mixed, answerVars>>

\* An empty list is refused; so is the call of a lapsed session, to no effect.
handleSave(e) ==
  /\ In(e, "idle")
  /\ editor[e].questions # {}
  /\ saves < MaxSaves
  /\ saves' = saves + 1
  /\ editor' = [editor EXCEPT ![e].step = "update"]
  /\ UNCHANGED <<primary, template, home, mixed, answerVars>>

(***************************************************************************)
(* upsertTemplateForService: an UPDATE; an INSERT when there was no row;   *)
(* an UPDATE again when another accountant has inserted meanwhile.         *)
(***************************************************************************)
Put(e, next) ==
  /\ template' = [template EXCEPT ![editor[e].service] = editor[e].questions]
  /\ editor' = [editor EXCEPT ![e].step = next]

UpdateTemplate(e) ==
  /\ In(e, "update")
  /\ IF template[editor[e].service] # NULL
     THEN Put(e, "idle")
     ELSE /\ editor' = [editor EXCEPT ![e].step = "insert"]
          /\ UNCHANGED template
  /\ UNCHANGED <<primary, saves, home, mixed, answerVars>>

InsertTemplate(e) ==
  /\ In(e, "insert")
  /\ IF template[editor[e].service] = NULL
     THEN Put(e, "idle")
     ELSE /\ editor' = [editor EXCEPT ![e].step = "update"]
          /\ UNCHANGED template
  /\ UNCHANGED <<primary, saves, home, mixed, answerVars>>

-----------------------------------------------------------------------------
(***************************************************************************)
(* The client.                                                             *)
(***************************************************************************)

\* A form, unless there is no template yet or an answer already.
QuestionnaireStep(c) ==
  /\ answer = NULL
  /\ template[primary] # NULL
  /\ form' = [form EXCEPT ![c] = [shown |-> template[primary], texts |-> NULL, found |-> NULL]]
  /\ UNCHANGED <<primary, editorVars, answer, asked>>

\* The button waits for a text for every required question that is shown.
handleSubmitAnswers(c) ==
  /\ form[c] # NULL
  /\ form[c].texts = NULL
  /\ \E T \in SUBSET Ids(form[c].shown) :
       /\ Required(form[c].shown) \subseteq T
       /\ form' = [form EXCEPT ![c].texts = T]
  /\ UNCHANGED <<primary, editorVars, answer, asked>>

\* The server works out the service of the engagement, and then reads its template.
getMyQuestionnaire(c) ==
  /\ form[c] # NULL
  /\ form[c].texts # NULL
  /\ form[c].found = NULL
  /\ form' = [form EXCEPT ![c].found = primary]
  /\ UNCHANGED <<primary, editorVars, answer, asked>>

\* Mutant: the form has seen to it that what is required is answered.
StoreUnchecked(c, T) ==
  /\ answer' = Ids(T) \cap form[c].texts
  /\ asked' = T

(***************************************************************************)
(* The INSERT, once a template was found and its required questions are    *)
(* answered; of the texts, those are kept that answer it.  An engagement   *)
(* has one answer, and a second INSERT fails.                              *)
(***************************************************************************)
StoreAnswer(c, T) ==
  /\ IF answer = NULL /\ T # {} /\ Required(T) \subseteq form[c].texts
     THEN /\ answer' = Ids(T) \cap form[c].texts
          /\ asked' = T
     ELSE UNCHANGED <<answer, asked>>

submitQuestionnaire(c) ==
  /\ form[c] # NULL
  /\ form[c].found # NULL
  /\ StoreAnswer(c, Questions(form[c].found))
  /\ form' = [form EXCEPT ![c].texts = NULL, ![c].found = NULL]
  /\ UNCHANGED <<primary, editorVars>>

QuestionnairesNext ==
  \/ SortOrderChanges
  \/ \E e \in Editor :
       \/ OpenEditor(e)
       \/ handleServiceChange(e)
       \/ getQuestionnaireTemplate(e)
       \/ addQuestion(e)
       \/ removeQuestion(e)
       \/ updateQuestion(e)
       \/ handleSave(e)
       \/ UpdateTemplate(e)
       \/ InsertTemplate(e)
  \/ \E c \in AnswerTab :
       \/ QuestionnaireStep(c)
       \/ handleSubmitAnswers(c)
       \/ getMyQuestionnaire(c)
       \/ submitQuestionnaire(c)

-----------------------------------------------------------------------------
\* Every variable of the questionnaires keeps its type.
QuestionnairesTypeOK ==
  /\ primary \in Kind
  /\ template \in [Kind -> (SUBSET Def) \cup {NULL}]
  /\ answer \in (SUBSET Question) \cup {NULL}
  /\ \A e \in Editor : editor[e] # NULL =>
       editor[e] \in [service : Kind, questions : SUBSET Def,
                      step : {"idle", "load", "update", "insert"}]
  /\ saves \in 0 .. MaxSaves
  /\ \A c \in AnswerTab : form[c] # NULL =>
       form[c] \in [shown : SUBSET Def, texts : (SUBSET Question) \cup {NULL},
                    found : Kind \cup {NULL}]
  /\ home \in [Question -> Kind \cup {NULL}]
  /\ mixed \in BOOLEAN
  /\ asked \in (SUBSET Def) \cup {NULL}

(***************************************************************************)
(* A template asks what was written for its service, whichever editors     *)
(* save, or turn to another service, at the same time; unless an editor    *)
(* was refused the questions of the service it turned to.                  *)
(***************************************************************************)
TemplateKeepsToItsService ==
  ~mixed => \A s \in Kind : \A q \in Ids(Questions(s)) : home[q] = s

(***************************************************************************)
(* The answers that are kept hold a text for every required question of    *)
(* the template they were checked against, though the client may have      *)
(* answered an earlier one, or the one of another service.                 *)
(***************************************************************************)
RequiredAnswered ==
  answer # NULL => /\ Required(asked) \subseteq answer
                   /\ answer \subseteq Ids(asked)
=============================================================================
