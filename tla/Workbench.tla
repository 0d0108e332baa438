------------------------------ MODULE Workbench -----------------------------
(***************************************************************************)
(* The decisions workbench (decisions/DecisionsPage.tsx, lib/decisions.ts) *)
(* and the portal's validation of what it sends (portal-rs decisions.rs).  *)
(*                                                                         *)
(* A form is what the two editors say: the kind of state, how many         *)
(* questions, and the shape those questions have.  The limits are          *)
(* constants, so that both sides of each can be reached.                   *)
(***************************************************************************)
EXTENDS Naturals, FiniteSets

CONSTANTS
  MaxQuestions,   \* MAX_QUESTIONS, 32 in the code
  MaxChoices,     \* MAX_CHOICES, 255
  MaxLevels,      \* MAX_LEVELS, 10
  MaxRuns         \* requests sent

ASSUME BenchAssumption ==
  /\ {MaxQuestions, MaxChoices, MaxLevels, MaxRuns} \subseteq Nat
  /\ MaxQuestions > 0 /\ MaxChoices > 1 /\ MaxLevels > 1

VARIABLES bench, sent

benchVars == <<bench, sent>>

-----------------------------------------------------------------------------
(* What the editors can say                                                *)

States == {"blank", "text", "json", "null", "large"}
Kinds == {"noul", "choice", "score", "unknown"}
Instructions == {"absent", "blank", "text", "object"}

\* criteria: absent, or an object or a list of n entries, all texts (a text
\* or null for an object) or not.
Criteria ==
  [shape : {"absent"}, n : {0}, texts : {TRUE}] \cup
  [shape : {"object"}, n : {1, 2, MaxChoices, MaxChoices + 1}, texts : BOOLEAN] \cup
  [shape : {"list"}, n : {1, 2, MaxLevels, MaxLevels + 1}, texts : BOOLEAN]

Forms ==
  [state : States, count : {0, 1, MaxQuestions, MaxQuestions + 1}, id : {"", "q"},
   kind : Kinds, says : Instructions, criteria : Criteria]

\* An example of the browser (lib/decision-examples.ts).
Example ==
  [state |-> "json", count |-> 1, id |-> "q", kind |-> "noul", says |-> "text",
   criteria |-> [shape |-> "absent", n |-> 0, texts |-> TRUE]]

-----------------------------------------------------------------------------
(* The page's validation and the portal's                                  *)

\* Text that is not JSON is sent as it is; only a blank one is refused.
parseState(f) == f.state # "blank"

\* Mutant: one entry is enough.
oneQuestionAlone(f) ==
  /\ f.kind # "unknown" /\ f.says = "text"
  /\ f.kind = "choice" => f.criteria.shape = "object" /\ f.criteria.n \in 1..MaxChoices
  /\ f.kind = "score" =>
       f.criteria.shape = "list" /\ f.criteria.n \in 1..MaxLevels /\ f.criteria.texts

oneQuestion(f) ==
  /\ f.kind # "unknown" /\ f.says = "text"
  /\ f.kind = "choice" =>
       f.criteria.shape = "object" /\ f.criteria.n \in 2..MaxChoices
  /\ f.kind = "score" =>
       f.criteria.shape = "list" /\ f.criteria.n \in 2..MaxLevels /\ f.criteria.texts

validatePayload(f) ==
  /\ parseState(f) /\ f.state # "large"
  /\ f.count \in 1..MaxQuestions
  /\ f.id # "" /\ oneQuestion(f)

\* The body: a question of type noul goes without its criteria.
Body(f) ==
  IF f.kind = "noul"
  THEN [f EXCEPT !.criteria = [shape |-> "absent", n |-> 0, texts |-> TRUE]] ELSE f

\* portal-rs decisions.rs: check_noul() and validate().
checkNoul(f) ==
  f.criteria.shape = "absent" \/ (f.criteria.shape = "object" /\ f.criteria.n <= 2 /\ f.criteria.texts)

validate(f) ==
  /\ f.state \notin {"blank", "large", "null"}
  /\ f.count \in 1..MaxQuestions
  /\ f.id # "" /\ f.says \in {"blank", "text", "object"}
  /\ \/ f.kind = "noul" /\ checkNoul(f)
     \/ f.kind = "choice" /\ f.criteria.shape = "object" /\ f.criteria.n \in 2..MaxChoices
          /\ f.criteria.texts
     \/ f.kind = "score" /\ f.criteria.shape = "list" /\ f.criteria.n \in 2..MaxLevels
          /\ f.criteria.texts

-----------------------------------------------------------------------------
(* The page                                                                *)

\* sent: every body that left; bench.runs: those whose answer is awaited;
\* bench.result: the body whose answers are on screen.
NoForm == [Example EXCEPT !.state = "blank"]

BenchInit ==
  /\ \E f \in Forms :
       bench = [form |-> f, result |-> NoForm, error |-> FALSE, busy |-> FALSE,
                examples |-> FALSE, up |-> TRUE, runs |-> {}, made |-> 0]
  /\ sent = {}

\* run(): Ctrl+Enter calls it at any time, also while a request is under way
\* and with a blank state; the button only when neither.
Run ==
  /\ bench.made < MaxRuns
  /\ IF validatePayload(bench.form)
     THEN /\ bench' = [bench EXCEPT !.error = FALSE, !.busy = TRUE, !.examples = FALSE,
                         !.result = NoForm, !.made = @ + 1,
                         !.runs = @ \cup {[nr |-> bench.made + 1, form |-> Body(bench.form)]}]
          /\ sent' = sent \cup {Body(bench.form)}
     ELSE /\ bench' = [bench EXCEPT !.error = TRUE, !.examples = FALSE]
          /\ UNCHANGED sent

\* The answer, then the status of the service, then busy is over.
RunAnswers(r) ==
  /\ \/ validate(r.form) /\ bench' = [bench EXCEPT !.result = r.form, !.busy = FALSE,
                                        !.runs = @ \ {r}]
     \/ \E up \in BOOLEAN :
          bench' = [bench EXCEPT !.error = TRUE, !.busy = FALSE, !.up = up, !.runs = @ \ {r}]
  /\ UNCHANGED sent

\* "Des exemples" and ExamplesPanel.
OpenExamples ==
  /\ ~bench.examples
  /\ bench' = [bench EXCEPT !.examples = TRUE, !.error = FALSE]
  /\ UNCHANGED sent

CloseExamples ==
  /\ bench.examples
  /\ bench' = [bench EXCEPT !.examples = FALSE]
  /\ UNCHANGED sent

\* format(): a state that is not JSON is refused and left as it is, another
\* one is laid out anew, which changes nothing here.
Format ==
  /\ bench.form.state \in {"text", "json", "null", "large"}
  /\ bench' = [bench EXCEPT !.error = @ \/ bench.form.state = "text"]
  /\ UNCHANGED sent

PickExample ==
  /\ bench.examples
  /\ bench' = [bench EXCEPT !.form = Example, !.examples = FALSE,
                            !.result = NoForm, !.error = FALSE]
  /\ UNCHANGED sent

BenchNext ==
  \/ Run
  \/ \E r \in bench.runs : RunAnswers(r)
  \/ OpenExamples
  \/ CloseExamples
  \/ Format
  \/ PickExample

BenchSpec == BenchInit /\ [][BenchNext]_benchVars

-----------------------------------------------------------------------------
(* Properties                                                              *)

\* The page holds what the code can put there.
BenchTypeOK ==
  /\ bench.form \in Forms /\ bench.made \in 0..MaxRuns
  /\ {r.nr : r \in bench.runs} \subseteq 1..MaxRuns
  /\ {bench.error, bench.busy, bench.examples, bench.up} \subseteq BOOLEAN

\* What the page lets go, the portal accepts: validatePayload() and
\* validate() are two hand-written copies of one format, in two languages
\* ("a drift between the two would only surface as a 400 far from the
\* editor", lib/decisions.ts).  Excepted, because the page does not look at
\* them: a JSON null as state, and a choice described by something else than
\* a text.
PortalAccepts ==
  \A f \in sent :
    (f.state # "null" /\ (f.kind = "choice" => f.criteria.texts)) => validate(f)

\* The same without the exceptions.
NoDrift == \A f \in sent : validate(f)
=============================================================================
