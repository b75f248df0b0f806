----------------------------- MODULE TaskExpression ----------------------------
(* The language of task expressions, "(1&2)|3" over the numbers of a task's     *)
(* conditions: how service/user_task_progress_helpers.go accepts a text when a  *)
(* task is saved and evaluates it when a condition is completed.                *)
(*                                                                              *)
(* A text is a sequence of characters.  Compiling and running the normalised    *)
(* text is left by the code to expr-lang, whose grammar is modelled as far as   *)
(* such texts can reach it.  A result is a set: {TRUE}, {FALSE}, or {} for an   *)
(* error.                                                                       *)
EXTENDS Naturals, Sequences

Digits == {"0", "1", "2", "3", "4", "5", "6", "7", "8", "9"}

(* taskExpressionDSLPattern. *)
DSLChars == Digits \cup {"&", "|", "(", ")", " "}

DigitValue(ch) ==
    CHOOSE n \in 0..9 : <<"0", "1", "2", "3", "4", "5", "6", "7", "8", "9">>[n + 1] = ch

CharsOf(text) == {text[i] : i \in DOMAIN text}

(* A number not given is the place of the condition in the list. *)
ResolveConditionNo(no, index) == IF no = 0 THEN index ELSE no

(* The numbers of a list of conditions. *)
ConditionNos(nos) == {ResolveConditionNo(nos[i], i) : i \in DOMAIN nos}

--------------------------------------------------------------------------------
(* conditionNumberPattern: a number is a run of digits that is not part of a    *)
(* longer one.                                                                  *)

IsDigit(text, i) == i \in DOMAIN text /\ text[i] \in Digits

EndOfNumber(text, i) ==
    CHOOSE j \in i..Len(text) :
        /\ \A k \in i..j : IsDigit(text, k)
        /\ ~IsDigit(text, j + 1)

(* strconv.Atoi. *)
Atoi(digits) ==
    LET upto[k \in 0..Len(digits)] ==
            IF k = 0 THEN 0 ELSE 10 * upto[k - 1] + DigitValue(digits[k])
    IN  upto[Len(digits)]

(* The number that starts at i. *)
Number(text, i) == Atoi(SubSeq(text, i, EndOfNumber(text, i)))

NumbersOf(text) ==
    {Number(text, i) : i \in {k \in DOMAIN text : IsDigit(text, k) /\ ~IsDigit(text, k - 1)}}

(* Faulty: every operator is doubled, those that already are as well. *)
OperatorEnd_Single(text, i) == i

(* normalizeLogicalOperators: "&" and "&&" become "&&", "|" and "||" become     *)
(* "||", in pairs from the left.                                                *)
OperatorEnd(text, i) ==
    IF i < Len(text) /\ text[i + 1] = text[i] THEN i + 1 ELSE i

(* The tokens that expr-lang sees of the normalised text from i on, blanks left *)
(* out.                                                                         *)
TokensAt(text, from, i) ==
    IF i > Len(text) THEN <<>>
    ELSE IF text[i] = " " THEN from[i + 1]
    ELSE IF text[i] \in Digits
         THEN <<[kind |-> "no", no |-> Number(text, i)]>> \o from[EndOfNumber(text, i) + 1]
    ELSE IF text[i] \in {"&", "|"}
         THEN <<[kind |-> text[i]]>> \o from[OperatorEnd(text, i) + 1]
    ELSE <<[kind |-> text[i]]>> \o from[i + 1]

TokensFrom(text) == LET from[i \in 1..(Len(text) + 1)] == TokensAt(text, from, i) IN from

Tokens(text) == TokensFrom(text)[1]

--------------------------------------------------------------------------------

(* "&&" binds tighter than "||". *)
Levels == {"or", "and", "primary"}

Below(level) == IF level = "or" THEN "and" ELSE "primary"

Combine(level, kind) == kind = IF level = "or" THEN "|" ELSE "&"

Joined(kind, V, W) == {IF kind = "&" THEN v /\ w ELSE v \/ w : v \in V, w \in W}

(* The tokens from i to j, taken for a primary, a conjunction or a disjunction. *)
Span(level, i, j) == [level |-> level, i |-> i, j |-> j]

Spans(tokens) == [level : Levels, i : 1..(Len(tokens) + 1), j : 0..Len(tokens)]

(* expr-lang: the value of a span, from those of the spans in it, where the     *)
(* conditions in completed are true.                                            *)
SpanValue(tokens, completed, value, s) ==
    IF s.i > s.j THEN {}
    ELSE IF s.level = "primary"
         THEN IF tokens[s.i].kind = "no" /\ s.i = s.j
              THEN {tokens[s.i].no \in completed}
              ELSE IF tokens[s.i].kind = "(" /\ tokens[s.j].kind = ")"
                   THEN value[Span("or", s.i + 1, s.j - 1)]
                   ELSE {}
         ELSE value[Span(Below(s.level), s.i, s.j)] \cup
              UNION {Joined(tokens[k].kind, value[Span(s.level, s.i, k - 1)],
                                            value[Span(Below(s.level), k + 1, s.j)]) :
                     k \in {m \in s.i..s.j : Combine(s.level, tokens[m].kind)}}

Values(tokens, completed) ==
    LET value[s \in Spans(tokens)] == SpanValue(tokens, completed, value, s) IN value

Value(tokens, completed) == Values(tokens, completed)[Span("or", 1, Len(tokens))]

(* compileAndRunTaskExpression. *)
CompileAndRun(text, completed) == Value(Tokens(text), completed)

(* parseAndValidateTaskExpressionDSL: what is asked before the text is compiled. *)
WellFormed(text, nos) ==
    /\ CharsOf(text) \subseteq DSLChars
    /\ NumbersOf(text) # {}
    /\ NumbersOf(text) \subseteq nos

(* Faulty: the text is not compiled when it is saved. *)
ValidateTaskExpression_NotCompiled(text, nos) == WellFormed(text, nos)

(* A text is accepted if it runs with no condition completed. *)
ValidateTaskExpression(text, nos) ==
    /\ WellFormed(text, nos)
    /\ CompileAndRun(text, {}) # {}

EvaluateTaskExpression(text, nos, completed) ==
    IF WellFormed(text, nos) THEN CompileAndRun(text, completed) ELSE {}

--------------------------------------------------------------------------------

(* A text that can be used: whatever conditions are completed it has a value,   *)
(* false as long as none is, true when all are, and completing one more never   *)
(* makes it false.  These are the expressions of module TaskProgress, the sets  *)
(* of non-empty conjunctions.                                                   *)
Usable(text, nos) ==
    /\ \A completed \in SUBSET nos : EvaluateTaskExpression(text, nos, completed) # {}
    /\ EvaluateTaskExpression(text, nos, {}) = {FALSE}
    /\ EvaluateTaskExpression(text, nos, nos) = {TRUE}
    /\ \A completed \in SUBSET nos : \A no \in nos :
           EvaluateTaskExpression(text, nos, completed) = {TRUE} =>
               EvaluateTaskExpression(text, nos, completed \cup {no}) = {TRUE}
================================================================================
