---------------------------- MODULE TaskCompletion -----------------------------
(* What task progress promises to whoever reads it, without the workers, the    *)
(* events and the claims: conditions are met once and for all, a task is        *)
(* completed only when the conditions met so far satisfy its expression, and    *)
(* only completed tasks are announced.                                          *)
CONSTANTS
    Tasks,       \* the task executions
    Conditions,  \* their condition rows
    Expr         \* [Tasks -> set of sets of conditions]: any of them suffices

VARIABLES
    met,         \* the conditions met so far
    completed,   \* the tasks completed so far
    announced    \* the tasks announced so far

vars == <<met, completed, announced>>

Init ==
    /\ met = {}
    /\ completed = {}
    /\ announced = {}

MeetCondition(c) ==
    /\ c \notin met
    /\ met' = met \cup {c}
    /\ UNCHANGED <<completed, announced>>

CompleteTask(t) ==
    /\ t \notin completed
    /\ \E conj \in Expr[t] : conj \subseteq met
    /\ completed' = completed \cup {t}
    /\ UNCHANGED <<met, announced>>

AnnounceTask(t) ==
    /\ t \in completed
    /\ announced' = announced \cup {t}
    /\ UNCHANGED <<met, completed>>

Next ==
    \/ \E c \in Conditions : MeetCondition(c)
    \/ \E t \in Tasks : CompleteTask(t) \/ AnnounceTask(t)

Spec == Init /\ [][Next]_vars
================================================================================
