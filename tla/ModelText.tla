----------------------------- MODULE ModelText -----------------------------
(***************************************************************************)
(* Reading what a model wrote when it stopped too early or closed its      *)
(* brackets wrong: finalDepth, which tells whether a script was cut, and   *)
(* the repairs of a JSON block.                                            *)
(*                                                                         *)
(* A text is a sequence of tokens.  Of a script: the brackets (one kind),  *)
(* the backquote of a template, "${" and the quote of a string; of a JSON  *)
(* text: the two kinds of brackets and the quote.  Escapes, comments,      *)
(* regular expressions and everything else are plain text, left out.       *)
(***************************************************************************)
EXTENDS Integers, Sequences, SequencesExt

CONSTANT MaxText        \* bound on the length of a text

ASSUME TextAssumption == MaxText \in Nat

VARIABLE written        \* the text so far: what it is, and its tokens

textVars == <<written>>

ScriptTokens == {"{", "}", "tick", "subst", "quote"}
JsonTokens == {"{", "}", "[", "]", "q"}

-----------------------------------------------------------------------------
(***************************************************************************)
(* finalDepth: brackets open at the end, read left to right.  templates    *)
(* holds the depths at which a "${" was opened: the bracket that returns   *)
(* to one of them drops back into the template.                            *)
(***************************************************************************)
ScriptStart == [in |-> "code", depth |-> 0, templates |-> <<>>]

\* Mutant: a bracket never drops back into the template it came from
ScriptStepFlat(tok, st) ==
    CASE st.in = "string" -> IF tok = "quote" THEN [st EXCEPT !.in = "code"] ELSE st
      [] st.in = "template" ->
           IF tok = "tick" THEN [st EXCEPT !.in = "code"]
           ELSE IF tok = "subst" THEN [st EXCEPT !.in = "code", !.depth = @ + 1] ELSE st
      [] st.in = "code" /\ tok = "quote" -> [st EXCEPT !.in = "string"]
      [] st.in = "code" /\ tok = "tick" -> [st EXCEPT !.in = "template"]
      [] st.in = "code" /\ tok \in {"{", "subst"} -> [st EXCEPT !.depth = @ + 1]
      [] st.in = "code" /\ tok = "}" -> [st EXCEPT !.depth = @ - 1]

ScriptStep(tok, st) ==
    CASE st.in = "string" -> IF tok = "quote" THEN [st EXCEPT !.in = "code"] ELSE st
      [] st.in = "template" ->
           IF tok = "tick" THEN [st EXCEPT !.in = "code"]
           ELSE IF tok = "subst"
           THEN [in |-> "code", depth |-> st.depth + 1, templates |-> Append(st.templates, st.depth)]
           ELSE st
      [] st.in = "code" /\ tok = "quote" -> [st EXCEPT !.in = "string"]
      [] st.in = "code" /\ tok = "tick" -> [st EXCEPT !.in = "template"]
      [] st.in = "code" /\ tok \in {"{", "subst"} -> [st EXCEPT !.depth = @ + 1]
      [] st.in = "code" /\ tok = "}" ->
           IF st.templates # <<>> /\ st.depth - 1 = Last(st.templates)
           THEN [in |-> "template", depth |-> st.depth - 1, templates |-> Front(st.templates)]
           ELSE [st EXCEPT !.depth = @ - 1]

\* A template never closed counts as one bracket
finalDepth(s) ==
    LET end == FoldLeft(LAMBDA st, tok : ScriptStep(tok, st), ScriptStart, s)
    IN IF end.in = "template" THEN 1 ELSE end.depth

\* brokenScript: only brackets still open make a script broken
brokenScript(s) == finalDepth(s) > 0

-----------------------------------------------------------------------------
(***************************************************************************)
(* The repairs of a JSON text.  The stack holds the closers expected.      *)
(***************************************************************************)
Closer(tok) == IF tok = "{" THEN "}" ELSE "]"

JsonStart == [out |-> <<>>, stack |-> <<>>, str |-> FALSE]

\* What is still open, innermost first
Closing(st) == Reverse(st.stack)

\* The last place of a closer in the stack
Above(stack, tok) == SelectLastInSeq(stack, LAMBDA c : c = tok)

\* Mutant: a mismatched closer closes the innermost bracket as it is
RepairStepBlind(tok, st) ==
    IF st.str THEN [st EXCEPT !.out = Append(@, tok), !.str = tok # "q"]
    ELSE IF tok = "q" THEN [st EXCEPT !.out = Append(@, tok), !.str = TRUE]
    ELSE IF tok \in {"{", "["}
    THEN [st EXCEPT !.out = Append(@, tok), !.stack = Append(@, Closer(tok))]
    ELSE IF st.stack = <<>> THEN st
    ELSE [st EXCEPT !.out = Append(@, tok), !.stack = Front(@)]

\* repairClosings: a closer first closes what is open inside what it closes,
\* and is dropped when nothing it could close is open
RepairStep(tok, st) ==
    LET k == Above(st.stack, tok)
    IN IF st.str THEN [st EXCEPT !.out = Append(@, tok), !.str = tok # "q"]
       ELSE IF tok = "q" THEN [st EXCEPT !.out = Append(@, tok), !.str = TRUE]
       ELSE IF tok \in {"{", "["}
       THEN [st EXCEPT !.out = Append(@, tok), !.stack = Append(@, Closer(tok))]
       ELSE IF k = 0 THEN st
       ELSE [st EXCEPT !.out = @ \o Reverse(SubSeq(st.stack, k, Len(st.stack))),
                       !.stack = SubSeq(@, 1, k - 1)]

repairClosings(s) ==
    LET end == FoldLeft(LAMBDA st, tok : RepairStep(tok, st), JsonStart, s)
    IN end.out \o (IF end.str THEN <<"q">> ELSE <<>>) \o Closing(end)

\* balanceJson: closes what was cut, trusting the closers that are there
BalanceStep(tok, st) ==
    IF st.str THEN [st EXCEPT !.str = tok # "q"]
    ELSE IF tok = "q" THEN [st EXCEPT !.str = TRUE]
    ELSE IF tok \in {"{", "["} THEN [st EXCEPT !.stack = Append(@, Closer(tok))]
    ELSE IF st.stack = <<>> THEN st ELSE [st EXCEPT !.stack = Front(@)]

balanceJson(s) ==
    LET end == FoldLeft(LAMBDA st, tok : BalanceStep(tok, st), JsonStart, s)
    IN s \o (IF end.str THEN <<"q">> ELSE <<>>) \o Closing(end)

\* firstJsonValue: from the first opener to where the depth is zero again;
\* <<>> when it never is
FirstStep(tok, st) ==
    IF st.done THEN st
    ELSE IF st.str THEN [st EXCEPT !.out = Append(@, tok), !.str = tok # "q"]
    ELSE IF tok = "q" THEN [st EXCEPT !.out = Append(@, tok), !.str = TRUE]
    ELSE IF tok \in {"{", "["} THEN [st EXCEPT !.out = Append(@, tok), !.depth = @ + 1]
    ELSE [st EXCEPT !.out = Append(@, tok), !.depth = @ - 1, !.done = st.depth = 1]

firstJsonValue(s) ==
    LET k == SelectInSeq(s, LAMBDA tok : tok \in {"{", "["})
        end == FoldLeft(LAMBDA st, tok : FirstStep(tok, st),
                        [out |-> <<>>, str |-> FALSE, depth |-> 0, done |-> FALSE],
                        SubSeq(s, k, Len(s)))
    IN IF k = 0 \/ ~end.done THEN <<>> ELSE end.out

-----------------------------------------------------------------------------
(***************************************************************************)
(* A text, written token by token.                                         *)
(***************************************************************************)
TextInit == written = [what |-> "script", s |-> <<>>]

WriteScript(tok) ==
    /\ written.what = "script" /\ Len(written.s) < MaxText
    /\ written' = [written EXCEPT !.s = Append(@, tok)]

WriteJson(tok) ==
    /\ written.what = "json" \/ written.s = <<>>
    /\ Len(written.s) < MaxText
    /\ written' = [what |-> "json", s |-> Append(written.s, tok)]

TextNext ==
    \/ \E tok \in ScriptTokens : WriteScript(tok)
    \/ \E tok \in JsonTokens : WriteJson(tok)

TextSpec == TextInit /\ [][TextNext]_textVars

-----------------------------------------------------------------------------
(***************************************************************************)
(* The references: what a complete text is, by a grammar.                  *)
(***************************************************************************)
NoQuote(s, i, j, q) == \A k \in i..j : s[k] # q

\* complete[<<"code", i, j>>]: s[i..j - 1] is a complete script;
\* complete[<<"template", i, j>>]: the rest of a template, then one
CompleteScript(s) ==
    LET n == Len(s) + 1
        complete[x \in {"code", "template"} \X (1..n) \X (1..n)] ==
            LET i == x[2]  j == x[3]
            IN IF i >= j THEN x[1] = "code" /\ i = j
               ELSE IF x[1] = "template"
               THEN CASE s[i] = "tick" -> complete[<<"code", i + 1, j>>]
                      [] s[i] = "subst" -> \E k \in (i + 1)..(j - 1) :
                            s[k] = "}" /\ complete[<<"code", i + 1, k>>] /\ complete[<<"template", k + 1, j>>]
                      [] OTHER -> complete[<<"template", i + 1, j>>]
               ELSE CASE s[i] = "{" -> \E k \in (i + 1)..(j - 1) :
                            s[k] = "}" /\ complete[<<"code", i + 1, k>>] /\ complete[<<"code", k + 1, j>>]
                      [] s[i] = "quote" -> \E k \in (i + 1)..(j - 1) :
                            s[k] = "quote" /\ NoQuote(s, i + 1, k - 1, "quote") /\ complete[<<"code", k + 1, j>>]
                      [] s[i] = "tick" -> complete[<<"template", i + 1, j>>]
                      [] OTHER -> FALSE
    IN complete[<<"code", 1, n>>]

Balanced(s) ==
    LET n == Len(s) + 1
        ok[x \in (1..n) \X (1..n)] ==
            LET i == x[1]  j == x[2]
            IN IF i >= j THEN i = j
               ELSE CASE s[i] \in {"{", "["} -> \E k \in (i + 1)..(j - 1) :
                            s[k] = Closer(s[i]) /\ ok[<<i + 1, k>>] /\ ok[<<k + 1, j>>]
                      [] s[i] = "q" -> \E k \in (i + 1)..(j - 1) :
                            s[k] = "q" /\ NoQuote(s, i + 1, k - 1, "q") /\ ok[<<k + 1, j>>]
                      [] OTHER -> FALSE
    IN ok[<<1, n>>]

TextTypeOK ==
    /\ written.what \in {"script", "json"} /\ Len(written.s) <= MaxText
    /\ ToSet(written.s) \subseteq (ScriptTokens \cup JsonTokens)

\* The cut fell inside a string that no bracket encloses: finalDepth cannot
\* see it
InTopString(s) ==
    \E j \in 1..Len(s) :
        s[j] = "quote" /\ NoQuote(s, j + 1, Len(s), "quote") /\ CompleteScript(SubSeq(s, 1, j - 1))

\* A complete script is not broken, and a script cut anywhere is, unless what
\* is left is complete or ends in a string at top level
CutIsSeen ==
    (written.what = "script" /\ CompleteScript(written.s)) =>
        \A k \in 0..Len(written.s) :
            LET cut == SubSeq(written.s, 1, k)
            IN brokenScript(cut) <=> ~(CompleteScript(cut) \/ InTopString(cut))

\* Whatever the model wrote, repairClosings balances it and leaves a balanced
\* text alone; balanceJson does so for a balanced text that was cut, and
\* firstJsonValue finds the first value of one followed by anything
RepairsBalance ==
    LET s == written.s
    IN written.what = "json" =>
        /\ Balanced(repairClosings(s))
        /\ Balanced(s) =>
              /\ repairClosings(s) = s
              /\ \A k \in 0..Len(s) : Balanced(balanceJson(SubSeq(s, 1, k)))
        /\ \A k \in 1..Len(s) :
              (s[1] \in {"{", "["} /\ Balanced(SubSeq(s, 1, k))
                 /\ \A m \in 1..(k - 1) : ~Balanced(SubSeq(s, 1, m)))
                => firstJsonValue(s) = SubSeq(s, 1, k)
=============================================================================
