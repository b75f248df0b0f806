------------------------------ MODULE MCTaskAdmin ------------------------------
(* Small instances of TaskAdmin. *)
EXTENDS TaskAdmin, TLC

(* One condition; two conditions that get the same number, one by being given   *)
(* it and one by its place; a text over a condition that is not there; a text   *)
(* that does not compile.                                                       *)
MCContents ==
    {[nos |-> <<0>>,    expr |-> <<"1">>],
     [nos |-> <<2, 0>>, expr |-> <<"2", "|", "|", "2">>],
     [nos |-> <<0>>,    expr |-> <<"1", "|", "2">>],
     [nos |-> <<0>>,    expr |-> <<"1", "&">>]}

(* The clients are interchangeable, and so are the tasks. *)
Symmetry == Permutations(Clients) \cup Permutations(Tasks)

--------------------------------------------------------------------------------
(* The same run goes through the short texts of the expression language, one    *)
(* character after the other, as a body that is written before any call.        *)

VARIABLE text

MaxText == 5

Chars == {"1", "2", "&", "|", "(", ")", " "}

MCInit == Init /\ text = <<>>

NoCallYet == saves = 0 /\ faults = 0 /\ \A g \in Groups : group[g] = "None"

(* No blank in the texts of full length. *)
Write(ch) ==
    /\ NoCallYet
    /\ \A c \in Clients : At(c, "idle")
    /\ Len(text) < MaxText
    /\ text' = Append(text, ch)
    /\ Len(text') = MaxText => \A i \in DOMAIN text' : text'[i] # " "
    /\ UNCHANGED vars

MCNext ==
    \/ text = <<>> /\ Next /\ UNCHANGED text
    \/ \E ch \in Chars : Write(ch)

MCSpec == MCInit /\ [][MCNext]_<<vars, text>>

(* Every text that is accepted for two conditions can be used with them,        *)
(* although ValidateTaskExpression runs it with nothing completed only.         *)
AcceptedTextIsUsable == ValidateTaskExpression(text, {1, 2}) => Usable(text, {1, 2})

(* A text with its operators written as in Go. *)
Written(ch) == IF ch \in {"&", "|"} THEN <<ch, ch>> ELSE <<ch>>

DoubledFrom(t) ==
    LET from[i \in 1..(Len(t) + 1)] ==
            IF i > Len(t) THEN <<>> ELSE Written(t[i]) \o from[i + 1]
    IN  from

Doubled(t) == DoubledFrom(t)[1]

NoPair(t) == \A i \in 1..(Len(t) - 1) : t[i] \notin {"&", "|"} \/ t[i + 1] # t[i]

(* "converts task DSL operators (&, |) to expr-lang syntax (&&, ||)", and takes  *)
(* those that are written in that syntax: a text means the same either way.     *)
DoublingChangesNothing ==
    NoPair(text) => \A completed \in SUBSET {1, 2} :
        EvaluateTaskExpression(Doubled(text), {1, 2}, completed) =
            EvaluateTaskExpression(text, {1, 2}, completed)
================================================================================
