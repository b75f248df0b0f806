------------------------------ MODULE MetricRules ------------------------------
(* The pure rules of service/user_task_progress_helpers.go: how a metric       *)
(* value is folded into a condition's current value, when a condition is met   *)
(* and when an event is stale.                                                 *)
(*                                                                             *)
(* A metric value is a string in the code.  What the rules tell apart is kept: *)
(* the number it denotes, or the fact that strconv.ParseFloat rejects it.  The *)
(* blank current value of a fresh row counts as 0, which is the base the code  *)
(* gives it.  Float rounding is abstracted: values are integers.               *)
EXTENDS Integers

CONSTANTS
    AccumMetrics,  \* the metrics whose code ends with "_accum"
    Unparsable     \* a value that does not parse as a number

ASSUME UnparsableAssumption == Unparsable \notin Int

Values == Int \cup {Unparsable}

--------------------------------------------------------------------------------
(* Folding an incoming value into the current value. *)

IsAccumMetric(metric) == metric \in AccumMetrics

Resolvable(metric, current, incoming) ==
    IsAccumMetric(metric) => {current, incoming} \subseteq Int

ResolveMetricValue(metric, current, incoming) ==
    IF IsAccumMetric(metric) THEN current + incoming ELSE incoming

--------------------------------------------------------------------------------
(* Comparing a value with the target of a condition.  A target is the set of   *)
(* the values it lists: one value for every operator but "in" and "not_in".    *)

NumericOperators == {"gt", "lt", "ge", "le"}

Operators == NumericOperators \cup {"eq", "neq", "in", "not_in"}

Evaluable(op, value, target) ==
    /\ op \in Operators
    /\ op \in NumericOperators => {value} \cup target \subseteq Int

EvaluateMetricOperator(op, value, target) ==
    \/ op = "eq"     /\ target = {value}
    \/ op = "neq"    /\ target # {value}
    \/ op = "gt"     /\ \A t \in target : value > t
    \/ op = "lt"     /\ \A t \in target : value < t
    \/ op = "ge"     /\ \A t \in target : value >= t
    \/ op = "le"     /\ \A t \in target : value <= t
    \/ op = "in"     /\ value \in target
    \/ op = "not_in" /\ value \notin target

--------------------------------------------------------------------------------
(* Event times.  Time is counted in thirds of the precision of the column      *)
(* last_event_time (a DATETIME(3) under AutoMigrate), so that a time can be     *)
(* exact, round down or round up when it is stored.  A NULL column is NoTime.  *)

NoTime == -1

StoredTime(t) == ((t + 1) \div 3) * 3

IsStaleEvent(eventTime, lastEventTime) == eventTime < lastEventTime
================================================================================
