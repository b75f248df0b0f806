---------------------------- MODULE MCTaskProgress -----------------------------
(* Small instances of TaskProgress: a user with two tasks of one group.  The    *)
(* first takes two trades and a deposit, the second a trade or a deposit; every *)
(* event reaches a row of either task.                                          *)
EXTENDS TaskProgress, FiniteSetsExt, TLC

CONSTANTS x1, x2, a, b, c, d, trade1, trade1bad, trade2, deposit

MCExecInfo ==
    x1 :> [user |-> "u", group |-> "g", expr |-> {{a, b}}] @@
    x2 :> [user |-> "u", group |-> "g", expr |-> {{c}, {d}}]

(* The second task without its alternative (the runs with every fault). *)
ShortExecInfo ==
    x1 :> [user |-> "u", group |-> "g", expr |-> {{a, b}}] @@
    x2 :> [user |-> "u", group |-> "g", expr |-> {{c}}]

MCRowInfo ==
    a :> [exec |-> x1, metric |-> "trade_amount_accum", op |-> "ge", target |-> {2}] @@
    b :> [exec |-> x1, metric |-> "deposit_amount",     op |-> "gt", target |-> {5}] @@
    c :> [exec |-> x2, metric |-> "trade_amount_accum", op |-> "gt", target |-> {0}] @@
    d :> [exec |-> x2, metric |-> "deposit_amount",     op |-> "in", target |-> {7, 9}]

(* The second trade is later than the first and its time is rounded up when it  *)
(* is stored.  An order may be sent again in a record of its own, whose amount  *)
(* is not a number.                                                             *)
Trade(amount, at, order) ==
    [user |-> "u", metric |-> "trade_amount_accum", value |-> amount,
     time |-> at, biz |-> order]

MCEventInfo ==
    trade1    :> Trade(1, 3, "order1") @@
    trade1bad :> Trade(Unparsable, 5, "order1") @@
    trade2    :> Trade(1, 5, "order2") @@
    deposit   :> [user |-> "u", metric |-> "deposit_amount", value |-> 9,
                  time |-> 3, biz |-> "deposit1"]

(* The workers are interchangeable (safety runs only). *)
WorkerSymmetry == Permutations(Workers)

--------------------------------------------------------------------------------

(* The current value of a row of an accumulating metric is the sum of the      *)
(* values that were added to it.                                               *)
AccumulatedValueIsSum ==
    \A r \in Rows : IsAccumMetric(RowInfo[r].metric) =>
        row[r].value = MapThenSumSet(LAMBDA e : added[r][e] * EventInfo[e].value,
                                     {e \in Events : added[r][e] > 0})

--------------------------------------------------------------------------------
(* What a comment of the code says of a call that failed half-way, at the end   *)
(* of a behaviour: nothing is left to be delivered.                             *)

AllIdle == \A w \in Workers : pc[w] = "idle"

(* "Kafka: sent when task execution is Complete (fresh CAS or already Complete *)
(* for retry after publish failure)".                                          *)
PublishIsRetried ==
    AllIdle /\ acked = Events =>
        \A x \in Execs : exec[x] = "Complete" => \E m \in announced : m.exec = x
================================================================================
