------------------------------- MODULE MCHttpApi -------------------------------
(* A small instance of HttpApi. *)
EXTENDS HttpApi, TLC

(* A task that is accepted, and a text that does not compile. *)
MCContents == {[nos |-> <<0>>, expr |-> <<"1">>], [nos |-> <<0>>, expr |-> <<"1", "&">>]}

(* The clients are interchangeable, and so are the tasks. *)
Symmetry == Permutations(Clients) \cup Permutations(Tasks)
================================================================================
