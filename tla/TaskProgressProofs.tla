--------------------------- MODULE TaskProgressProofs --------------------------
(* Proofs about TaskProgress, for every set of workers, events, executions and  *)
(* rows, every kind and number of faults and every bound on deliveries.         *)
EXTENDS TaskProgress, FiniteSetTheorems, TLAPS

(* A value that can be resolved is resolved to a value. *)
LEMMA ResolvedValue ==
    ASSUME NEW metric, NEW current \in Values, NEW incoming \in Values,
           Resolvable(metric, current, incoming)
    PROVE  ResolveMetricValue(metric, current, incoming) \in Values
BY SMT DEF Resolvable, ResolveMetricValue, Values

(* Storing a time neither leaves the integers nor goes below a stored time the  *)
(* exact time is not below.                                                     *)
LEMMA StoredTimeInt ==
    ASSUME NEW t \in Int
    PROVE  StoredTime(t) \in Int
BY SMT DEF StoredTime

LEMMA StoredTimeMonotone ==
    ASSUME NEW s \in Int, NEW t \in Int, StoredTime(s) <= t
    PROVE  StoredTime(s) <= StoredTime(t)
BY SMT DEF StoredTime

LEMMA UpdateRowTypeOK ==
    ASSUME TypeOK, NEW w \in Workers, NEW r \in Rows,
           NEW status \in {"InProgress", "Complete"},
           AtRow(w, r), Valid(w, r), UpdateRow(w, r, status)
    PROVE  /\ row' \in [Rows -> RowRecord]
           /\ added' \in [Rows -> [Events -> Nat]]
<1>1. ev[w] \in Events
  BY SMT DEF TypeOK, ControlType, SnapType, AtRow
<1>2. snap[w][r] \in RowRecord
  BY SMT DEF TypeOK, ControlType, SnapType, AtRow
<1>3. snap[w][r].value \in Values
  BY <1>2 DEF RowRecord
<1>4. Effective(w, r) \in Values
  BY <1>1, <1>3, ProgressAssumption, ResolvedValue, SMT DEF Effective, Valid
<1>5. EventInfo[ev[w]].time \in Int
  BY <1>1, ProgressAssumption, SMT
<1>6. StoredTime(EventInfo[ev[w]].time) \in Int
  BY <1>5, StoredTimeInt
<1>. DEFINE new == [status |-> status, value |-> Effective(w, r),
                    last |-> StoredTime(EventInfo[ev[w]].time)]
<1>7. new \in RowRecord
  BY <1>4, <1>6 DEF RowRecord
<1>. HIDE DEF new
<1>8. CASE CanUpdate(r, EventInfo[ev[w]].time)
  <2>1. row' = [row EXCEPT ![r] = new]
    BY <1>8 DEF UpdateRow, new
  <2>2. added' = [added EXCEPT ![r][ev[w]] = @ + 1]
    BY <1>8 DEF UpdateRow
  <2>. QED
    BY <1>1, <1>7, <2>1, <2>2, SMT DEF TypeOK, StoreType
<1>9. CASE ~CanUpdate(r, EventInfo[ev[w]].time)
  BY <1>9 DEF UpdateRow, TypeOK, StoreType
<1>. QED
  BY <1>8, <1>9

LEMMA EmptySnapType ==
    DOMAIN EmptySnap = {} /\ EmptySnap \in [{} -> RowRecord]
BY DEF EmptySnap

(* The three ways a worker leaves a step keep its locals well-typed. *)
LEMMA ReturnType ==
    ASSUME ControlType, SnapType, NEW w \in Workers, Return(w)
    PROVE  ControlType' /\ SnapType'
<1>1. ControlType'
  BY SMT DEF ControlType, Return, Goto, Steps, CompletionSteps
<1>2. SnapType'
  BY EmptySnapType, SMT DEF ControlType, SnapType, Return, Goto
<1>. QED
  BY <1>1, <1>2

LEMMA AbortType ==
    ASSUME ControlType, SnapType, NEW w \in Workers, pc[w] # "idle", Abort(w)
    PROVE  ControlType' /\ SnapType'
<1>1. CASE Keyed(ev[w]) /\ pc[w] # "claim"
  <2>1. ControlType'
    BY <1>1, SMT DEF ControlType, Abort, Goto, Steps, CompletionSteps
  <2>2. /\ snap' = [snap EXCEPT ![w] = EmptySnap]
        /\ pc' = [pc EXCEPT ![w] = "release"]
    BY <1>1 DEF Abort, Goto
  <2>3. SnapType'
    BY <2>2, EmptySnapType, SMT DEF ControlType, SnapType
  <2>. QED
    BY <2>1, <2>3
<1>2. CASE ~(Keyed(ev[w]) /\ pc[w] # "claim")
  BY <1>2, ReturnType DEF Abort
<1>. QED
  BY <1>1, <1>2

LEMMA NextRowType ==
    ASSUME StoreType, ControlType, SnapType, NEW w \in Workers,
           NEW rest \in SUBSET DOMAIN snap[w], pc[w] # "idle", NextRow(w, rest)
    PROVE  ControlType' /\ SnapType' /\ finished' \subseteq Events
<1>1. ControlType'
  BY SMT DEF ControlType, NextRow, Goto, Steps, CompletionSteps
<1>2. SnapType'
  BY SMT DEF ControlType, SnapType, NextRow, Goto, Restrict, CompletionSteps
<1>3. finished' \subseteq Events
  BY SMT DEF StoreType, ControlType, NextRow
<1>. QED
  BY <1>1, <1>2, <1>3

(* A worker goes on from a row it has processed to the execution of that row,   *)
(* or from one step of the completion to the next or back to the loop.          *)
ToExec(w, r) ==
    /\ pc[w] = "row"
    /\ snap' = [snap EXCEPT ![w] = Restrict(@, DOMAIN @ \ {r})]
    /\ cur' = [cur EXCEPT ![w] = r]
    /\ pc' = [pc EXCEPT ![w] = "exec"]
    /\ UNCHANGED <<ev, seen>>

LEMMA ToExecType ==
    ASSUME ControlType, SnapType, NEW w \in Workers, NEW r \in Rows, ToExec(w, r)
    PROVE  ControlType' /\ SnapType'
<1>1. ControlType'
  BY ProgressAssumption, SMT DEF ControlType, ToExec, Steps, CompletionSteps
<1>2. SnapType'
  BY SMT DEF ControlType, SnapType, ToExec, Restrict, CompletionSteps
<1>. QED
  BY <1>1, <1>2

Advance(w, from, to) ==
    /\ pc[w] = from
    /\ \/ /\ Goto(w, to)
          /\ UNCHANGED <<ev, snap, cur, seen, finished>>
       \/ NextRow(w, Rest(w))

LEMMA AdvanceType ==
    ASSUME StoreType, ControlType, SnapType, NEW w \in Workers,
           NEW from \in CompletionSteps, NEW to \in CompletionSteps,
           Advance(w, from, to)
    PROVE  ControlType' /\ SnapType' /\ finished' \subseteq Events
<1>1. CASE Goto(w, to) /\ UNCHANGED <<ev, snap, cur, seen, finished>>
  <2>1. ControlType'
    BY <1>1, SMT DEF ControlType, Advance, Goto, Steps, CompletionSteps
  <2>2. SnapType'
    BY <1>1, SMT DEF ControlType, SnapType, Advance, Goto, CompletionSteps
  <2>. QED
    BY <1>1, <2>1, <2>2 DEF StoreType
<1>2. CASE NextRow(w, Rest(w))
  BY <1>2, NextRowType DEF Advance, Rest, CompletionSteps
<1>. QED
  BY <1>1, <1>2 DEF Advance

LEMMA ExecOfType ==
    ASSUME ControlType, NEW w \in Workers, pc[w] \in CompletionSteps
    PROVE  cur[w] \in Rows /\ ExecOf(w) \in Execs
BY ProgressAssumption, SMT DEF ExecOf, ControlType

LEMMA MessageType ==
    ASSUME ControlType, NEW w \in Workers, pc[w] = "publish"
    PROVE  Message(w) \in [exec : Execs, completed : Nat]
BY ProgressAssumption, SMT DEF Message, ExecOf, ControlType, CompletionSteps

--------------------------------------------------------------------------------
(* Every variable keeps its type, whatever the workers do and whatever fails.   *)
LEMMA InitTypeOK == Init => TypeOK
<1>. SUFFICES ASSUME Init
              PROVE  TypeOK
  OBVIOUS
<1>1. StoreType
  BY ProgressAssumption, SMT DEF Init, StoreType, RowRecord, Values, NoTime
<1>2. ControlType
  BY ProgressAssumption, SMT DEF Init, ControlType, Steps, CompletionSteps
<1>3. SnapType
  BY EmptySnapType, SMT DEF Init, SnapType
<1>. QED
  BY <1>1, <1>2, <1>3 DEF TypeOK

LEMMA NextTypeOK == TypeOK /\ [Next]_vars => TypeOK'
<1>. SUFFICES ASSUME StoreType, ControlType, SnapType, [Next]_vars
              PROVE  StoreType' /\ ControlType' /\ SnapType'
  BY DEF TypeOK
<1>. USE DEF db, broker, locals, history
<1>1. ASSUME NEW x \in Execs, EnrollTask(x)
      PROVE  StoreType' /\ ControlType' /\ SnapType'
  <2>1. row' \in [Rows -> RowRecord]
    BY <1>1, SMT DEF EnrollTask, StoreType, RowRecord
  <2>2. exec' \in [Execs -> {"None", "InProgress", "Complete"}]
    BY <1>1, SMT DEF EnrollTask, StoreType
  <2>3. UNCHANGED <<claims, announced, acked, tries, faults, pc, ev, snap, cur,
                    seen, added, finished, released>>
    BY <1>1 DEF EnrollTask
  <2>. QED
    BY <2>1, <2>2, <2>3 DEF StoreType, ControlType, SnapType
<1>2. ASSUME NEW w \in Workers, NEW e \in Events, Deliver(w, e)
      PROVE  StoreType' /\ ControlType' /\ SnapType'
  <2>1. StoreType'
    BY <1>2, ProgressAssumption, SMT DEF Deliver, StoreType
  <2>2. ControlType'
    BY <1>2, ProgressAssumption, SMT
    DEF Deliver, ControlType, Goto, Steps, CompletionSteps
  <2>3. SnapType'
    BY <1>2, SMT DEF Deliver, ControlType, SnapType, Goto, CompletionSteps
  <2>. QED
    BY <2>1, <2>2, <2>3
<1>3. ASSUME NEW w \in Workers, TryClaim(w)
      PROVE  StoreType' /\ ControlType' /\ SnapType'
  <2>1. StoreType'
    BY <1>3, SMT DEF TryClaim, StoreType, ControlType
  <2>2. ControlType'
    BY <1>3, SMT DEF TryClaim, ControlType, Goto, Steps, CompletionSteps
  <2>3. SnapType'
    BY <1>3, SMT DEF TryClaim, ControlType, SnapType, Goto, CompletionSteps
  <2>. QED
    BY <2>1, <2>2, <2>3
<1>4. ASSUME NEW w \in Workers, ListInProgress(w)
      PROVE  StoreType' /\ ControlType' /\ SnapType'
  <2>1. StoreType'
    BY <1>4, SMT DEF ListInProgress, StoreType, ControlType
  <2>2. ControlType'
    BY <1>4, SMT DEF ListInProgress, ControlType, Goto, Steps, CompletionSteps
  <2>. DEFINE listed == InProgressRows(ev[w])
  <2>3. listed \subseteq Rows
    BY DEF InProgressRows
  <2>4. /\ snap' = [snap EXCEPT ![w] = Restrict(row, listed)]
        /\ pc' = [pc EXCEPT ![w] = IF listed = {} THEN "ack" ELSE "row"]
    BY <1>4 DEF ListInProgress, Goto
  <2>. HIDE DEF listed
  <2>5. Restrict(row, listed) \in [listed -> RowRecord]
    BY <2>3, SMT DEF Restrict, StoreType
  <2>6. SnapType'
    BY <2>3, <2>4, <2>5, SMT DEF ControlType, SnapType
  <2>. QED
    BY <2>1, <2>2, <2>6
<1>5. ASSUME NEW w \in Workers, NEW r \in Rows, SkipStale(w, r)
      PROVE  StoreType' /\ ControlType' /\ SnapType'
  <2>1. pc[w] # "idle" /\ NextRow(w, DOMAIN snap[w] \ {r})
    BY <1>5 DEF SkipStale, AtRow
  <2>. QED
    BY <1>5, <2>1, NextRowType DEF SkipStale, StoreType
<1>6. ASSUME NEW w \in Workers, NEW r \in Rows, RejectValue(w, r)
      PROVE  StoreType' /\ ControlType' /\ SnapType'
  <2>1. pc[w] # "idle" /\ Abort(w)
    BY <1>6 DEF RejectValue, AtRow
  <2>. QED
    BY <1>6, <2>1, AbortType DEF RejectValue, StoreType
<1>7. ASSUME NEW w \in Workers, NEW r \in Rows, UpdateCurrentValue(w, r)
      PROVE  StoreType' /\ ControlType' /\ SnapType'
  <2>1. /\ row' \in [Rows -> RowRecord]
        /\ added' \in [Rows -> [Events -> Nat]]
    BY <1>7, UpdateRowTypeOK DEF UpdateCurrentValue, TypeOK
  <2>2. StoreType'
    BY <1>7, <2>1 DEF UpdateCurrentValue, StoreType
  <2>3. ToExec(w, r)
    BY <1>7 DEF UpdateCurrentValue, ToExec, AtRow, Goto
  <2>. QED
    BY <2>2, <2>3, ToExecType
<1>8. ASSUME NEW w \in Workers, NEW r \in Rows, MarkConditionComplete(w, r)
      PROVE  StoreType' /\ ControlType' /\ SnapType'
  <2>1. /\ row' \in [Rows -> RowRecord]
        /\ added' \in [Rows -> [Events -> Nat]]
    BY <1>8, UpdateRowTypeOK DEF MarkConditionComplete, TypeOK
  <2>2. CASE CanUpdate(r, EventInfo[ev[w]].time)
    <3>1. StoreType'
      BY <1>8, <2>1, <2>2 DEF MarkConditionComplete, StoreType
    <3>2. ToExec(w, r)
      BY <1>8, <2>2 DEF MarkConditionComplete, ToExec, AtRow, Goto
    <3>. QED
      BY <3>1, <3>2, ToExecType
  <2>3. CASE ~CanUpdate(r, EventInfo[ev[w]].time)
    <3>1. pc[w] # "idle" /\ NextRow(w, DOMAIN snap[w] \ {r})
      BY <1>8, <2>3 DEF MarkConditionComplete, AtRow
    <3>. QED
      BY <1>8, <2>1, <3>1, NextRowType DEF MarkConditionComplete, StoreType
  <2>. QED
    BY <2>2, <2>3
<1>9. ASSUME NEW w \in Workers, ReadExecution(w)
      PROVE  StoreType' /\ ControlType' /\ SnapType'
  <2>1. Advance(w, "exec", "eval")
    BY <1>9 DEF ReadExecution, Advance
  <2>. QED
    BY <1>9, <2>1, AdvanceType DEF ReadExecution, StoreType, CompletionSteps
<1>10. ASSUME NEW w \in Workers, EvaluateTask(w)
       PROVE  StoreType' /\ ControlType' /\ SnapType'
  <2>1. Advance(w, "eval", "cas")
    BY <1>10 DEF EvaluateTask, Advance
  <2>. QED
    BY <1>10, <2>1, AdvanceType DEF EvaluateTask, StoreType, CompletionSteps
<1>11. ASSUME NEW w \in Workers, CompleteExecution(w)
       PROVE  StoreType' /\ ControlType' /\ SnapType'
  <2>1. StoreType'
    BY <1>11, SMT DEF CompleteExecution, StoreType
  <2>2. ControlType'
    BY <1>11, SMT DEF CompleteExecution, ControlType, Goto, Steps, CompletionSteps
  <2>3. SnapType'
    BY <1>11, SMT DEF CompleteExecution, ControlType, SnapType, Goto, CompletionSteps
  <2>. QED
    BY <2>1, <2>2, <2>3
<1>12. ASSUME NEW w \in Workers, ReloadExecution(w)
       PROVE  StoreType' /\ ControlType' /\ SnapType'
  <2>1. Advance(w, "reload", "count")
    BY <1>12 DEF ReloadExecution, Advance
  <2>. QED
    BY <1>12, <2>1, AdvanceType DEF ReloadExecution, StoreType, CompletionSteps
<1>13. ASSUME NEW w \in Workers, CountCompleted(w)
       PROVE  StoreType' /\ ControlType' /\ SnapType'
  <2>1. Cardinality(CompletedInGroup(ExecOf(w))) \in Nat
    BY ProgressAssumption, FS_Subset, FS_CardinalityType DEF CompletedInGroup
  <2>2. ControlType'
    BY <1>13, <2>1, SMT DEF CountCompleted, ControlType, Goto, Steps, CompletionSteps
  <2>3. SnapType'
    BY <1>13, SMT DEF CountCompleted, ControlType, SnapType, Goto, CompletionSteps
  <2>. QED
    BY <1>13, <2>2, <2>3 DEF CountCompleted, StoreType
<1>14. ASSUME NEW w \in Workers, PublishTaskCompleted(w)
       PROVE  StoreType' /\ ControlType' /\ SnapType'
  <2>1. Message(w) \in [exec : Execs, completed : Nat]
    BY <1>14, MessageType DEF PublishTaskCompleted
  <2>2. pc[w] # "idle" /\ NextRow(w, DOMAIN snap[w])
    BY <1>14 DEF PublishTaskCompleted, Rest
  <2>. QED
    BY <1>14, <2>1, <2>2, NextRowType DEF PublishTaskCompleted, StoreType
<1>15. ASSUME NEW w \in Workers, Commit(w)
       PROVE  StoreType' /\ ControlType' /\ SnapType'
  <2>1. StoreType'
    BY <1>15, SMT DEF Commit, StoreType, ControlType
  <2>. QED
    BY <1>15, <2>1, ReturnType DEF Commit
<1>16. ASSUME NEW w \in Workers, Release(w)
       PROVE  StoreType' /\ ControlType' /\ SnapType'
  <2>1. ev[w] \in Events
    BY <1>16, SMT DEF Release, ControlType
  <2>2. released' \subseteq {Key(e) : e \in Events}
    BY <1>16, <2>1 DEF Release, StoreType
  <2>3. claims' \subseteq {Key(e) : e \in Events}
    BY <1>16 DEF Release, StoreType
  <2>4. StoreType'
    BY <1>16, <2>2, <2>3 DEF Release, StoreType
  <2>. QED
    BY <1>16, <2>4, ReturnType DEF Release, StoreType
<1>17. ASSUME NEW w \in Workers, CommitFails(w) \/ ReleaseFails(w) \/ Crash(w)
       PROVE  StoreType' /\ ControlType' /\ SnapType'
  <2>1. faults' \in 0..MaxFaults
    BY <1>17, ProgressAssumption, SMT DEF CommitFails, ReleaseFails, Crash, Fault, StoreType
  <2>. QED
    BY <1>17, <2>1, ReturnType DEF CommitFails, ReleaseFails, Crash, StoreType
<1>18. ASSUME NEW w \in Workers, StatementFails(w)
       PROVE  StoreType' /\ ControlType' /\ SnapType'
  <2>1. faults' \in 0..MaxFaults
    BY <1>18, ProgressAssumption, SMT DEF StatementFails, Fault, StoreType
  <2>2. pc[w] # "idle"
    BY <1>18 DEF StatementFails
  <2>. QED
    BY <1>18, <2>1, <2>2, AbortType DEF StatementFails, StoreType
<1>19. ASSUME NEW w \in Workers, PublishFails(w)
       PROVE  StoreType' /\ ControlType' /\ SnapType'
  <2>1. faults' \in 0..MaxFaults
    BY <1>19, ProgressAssumption, SMT DEF PublishFails, Fault, StoreType
  <2>2. Message(w) \in [exec : Execs, completed : Nat]
    BY <1>19, MessageType DEF PublishFails
  <2>3. announced' \subseteq [exec : Execs, completed : Nat]
    BY <1>19, <2>2 DEF PublishFails, StoreType
  <2>. QED
    BY <1>19, <2>1, <2>3, AbortType DEF PublishFails, StoreType
<1>20. CASE UNCHANGED vars
  BY <1>20 DEF vars, StoreType, ControlType, SnapType
<1>. QED
  BY <1>1, <1>2, <1>3, <1>4, <1>5, <1>6, <1>7, <1>8, <1>9, <1>10, <1>11, <1>12,
     <1>13, <1>14, <1>15, <1>16, <1>17, <1>18, <1>19, <1>20
  DEF Next, Step, Process, Complete, Fail

(* The tables, the broker and every worker's locals keep their shape, whatever  *)
(* statements fail and whichever workers crash.                                 *)
THEOREM TypeCorrect == Spec => []TypeOK
BY InitTypeOK, NextTypeOK, PTL DEF Spec

--------------------------------------------------------------------------------
(* What a step does to the control of the worker that takes it, and that it     *)
(* leaves the control of the others alone.                                      *)
SameControl(v) == pc'[v] = pc[v] /\ cur'[v] = cur[v] /\ ev'[v] = ev[v]

OthersSame(w) == \A v \in Workers \ {w} : SameControl(v)

LEMMA ReturnControl ==
    ASSUME ControlType, NEW w \in Workers, Return(w)
    PROVE  pc'[w] = "idle" /\ OthersSame(w)
BY SMT DEF ControlType, Return, Goto, OthersSame, SameControl

LEMMA AbortControl ==
    ASSUME ControlType, NEW w \in Workers, Abort(w)
    PROVE  /\ \/ pc'[w] = "idle"
              \/ pc'[w] = "release" /\ pc[w] # "claim" /\ ev'[w] = ev[w]
           /\ OthersSame(w)
<1>1. CASE Keyed(ev[w]) /\ pc[w] # "claim"
  BY <1>1, SMT DEF ControlType, Abort, Goto, OthersSame, SameControl
<1>2. CASE ~(Keyed(ev[w]) /\ pc[w] # "claim")
  BY <1>2, ReturnControl DEF Abort
<1>. QED
  BY <1>1, <1>2

LEMMA NextRowControl ==
    ASSUME ControlType, NEW w \in Workers, NEW rest, NextRow(w, rest)
    PROVE  pc'[w] \in {"row", "ack"} /\ ev'[w] = ev[w] /\ OthersSame(w)
BY SMT DEF ControlType, NextRow, Goto, OthersSame, SameControl

LEMMA ToExecControl ==
    ASSUME ControlType, NEW w \in Workers, NEW r \in Rows, ToExec(w, r)
    PROVE  pc'[w] = "exec" /\ cur'[w] = r /\ ev'[w] = ev[w] /\ OthersSame(w)
BY SMT DEF ControlType, ToExec, OthersSame, SameControl

LEMMA GotoControl ==
    ASSUME ControlType, NEW w \in Workers, NEW to, Goto(w, to), UNCHANGED <<ev, cur>>
    PROVE  pc'[w] = to /\ cur'[w] = cur[w] /\ ev'[w] = ev[w] /\ OthersSame(w)
BY SMT DEF ControlType, Goto, OthersSame, SameControl

(* A row is written by an enrolment, which takes it from "None", or by an       *)
(* update that finds it in progress, after which the worker looks at the        *)
(* execution of the row.                                                        *)
Updated(w, r) ==
    /\ AtRow(w, r)
    /\ ToExec(w, r)
    /\ CanUpdate(r, EventInfo[ev[w]].time)
    /\ row' = [row EXCEPT ![r] = [status |-> row'[r].status,
                                  value  |-> Effective(w, r),
                                  last   |-> StoredTime(EventInfo[ev[w]].time)]]

LEMMA RowSteps ==
    ASSUME TypeOK, [Next]_vars
    PROVE  \/ UNCHANGED row
           \/ \E x \in Execs : EnrollTask(x)
           \/ \E w \in Workers, r \in Rows : Updated(w, r)
<1>. USE DEF db
<1>1. ASSUME NEW w \in Workers, NEW r \in Rows, NEW status \in {"InProgress", "Complete"},
             AtRow(w, r), UpdateRow(w, r, status),
             CanUpdate(r, EventInfo[ev[w]].time) => ToExec(w, r)
      PROVE  UNCHANGED row \/ Updated(w, r)
  <2>1. row' = row \/ (/\ CanUpdate(r, EventInfo[ev[w]].time)
                       /\ row' = [row EXCEPT ![r] =
                                   [status |-> status, value |-> Effective(w, r),
                                    last |-> StoredTime(EventInfo[ev[w]].time)]])
    BY <1>1 DEF UpdateRow
  <2>2. row \in [Rows -> RowRecord]
    BY DEF TypeOK, StoreType
  <2>. QED
    BY <1>1, <2>1, <2>2, SMT DEF Updated
<1>2. ASSUME NEW w \in Workers, NEW r \in Rows, Process(w, r)
      PROVE  UNCHANGED row \/ Updated(w, r)
  <2>1. UpdateCurrentValue(w, r) => ToExec(w, r)
    BY DEF UpdateCurrentValue, ToExec, AtRow, Goto
  <2>2. MarkConditionComplete(w, r) /\ CanUpdate(r, EventInfo[ev[w]].time) => ToExec(w, r)
    BY DEF MarkConditionComplete, ToExec, AtRow, Goto
  <2>. QED
    BY <1>1, <1>2, <2>1, <2>2
    DEF Process, SkipStale, RejectValue, UpdateCurrentValue, MarkConditionComplete
<1>3. ASSUME NEW w \in Workers, Step(w), ~ \E r \in Rows : Process(w, r)
      PROVE  UNCHANGED row
  BY <1>3
  DEF Step, TryClaim, ListInProgress, Complete, ReadExecution, EvaluateTask,
      CompleteExecution, ReloadExecution, CountCompleted, PublishTaskCompleted,
      Commit, Release
<1>4. ASSUME NEW w \in Workers, Fail(w)
      PROVE  UNCHANGED row
  BY <1>4 DEF Fail, CommitFails, StatementFails, ReleaseFails, PublishFails, Crash
<1>5. ASSUME NEW w \in Workers, NEW e \in Events, Deliver(w, e)
      PROVE  UNCHANGED row
  BY <1>5 DEF Deliver
<1>. QED
  BY <1>2, <1>3, <1>4, <1>5 DEF Next, vars

(* An execution changes by its enrolment or by the update of a worker that has  *)
(* evaluated its expression.                                                    *)
LEMMA ExecSteps ==
    ASSUME TypeOK, [Next]_vars
    PROVE  \/ UNCHANGED exec
           \/ \E x \in Execs : EnrollTask(x)
           \/ \E w \in Workers : CompleteExecution(w)
<1>. USE DEF db
<1>1. ASSUME NEW w \in Workers, Step(w), ~ CompleteExecution(w)
      PROVE  UNCHANGED exec
  BY <1>1
  DEF Step, TryClaim, ListInProgress, Complete, ReadExecution, EvaluateTask, Process,
      SkipStale, RejectValue, UpdateCurrentValue, MarkConditionComplete,
      ReloadExecution, CountCompleted, PublishTaskCompleted, Commit, Release
<1>2. ASSUME NEW w \in Workers, Fail(w)
      PROVE  UNCHANGED exec
  BY <1>2 DEF Fail, CommitFails, StatementFails, ReleaseFails, PublishFails, Crash
<1>3. ASSUME NEW w \in Workers, NEW e \in Events, Deliver(w, e)
      PROVE  UNCHANGED exec
  BY <1>3 DEF Deliver
<1>. QED
  BY <1>1, <1>2, <1>3 DEF Next, vars

--------------------------------------------------------------------------------
(* Rows only advance.  The invariant behind it: a row exists only with its      *)
(* execution, and a time in the database is one that was stored.                *)
RowInv ==
    /\ \A r \in Rows : exec[RowInfo[r].exec] = "None" => row[r].status = "None"
    /\ \A r \in Rows : row[r].last = NoTime \/ \E t \in Nat : row[r].last = StoredTime(t)

LEMMA ExecNeverLeaves ==
    ASSUME TypeOK, [Next]_vars, NEW x \in Execs
    PROVE  /\ exec[x] = "Complete" => exec'[x] = "Complete"
           /\ exec[x] # "None" => exec'[x] # "None"
<1>1. CASE UNCHANGED exec
  BY <1>1
<1>2. ASSUME NEW y \in Execs, EnrollTask(y)
      PROVE  /\ exec[x] = "Complete" => exec'[x] = "Complete"
             /\ exec[x] # "None" => exec'[x] # "None"
  BY <1>2, SMT DEF EnrollTask, TypeOK, StoreType
<1>3. ASSUME NEW w \in Workers, CompleteExecution(w)
      PROVE  /\ exec[x] = "Complete" => exec'[x] = "Complete"
             /\ exec[x] # "None" => exec'[x] # "None"
  BY <1>3, SMT DEF CompleteExecution, TypeOK, StoreType
<1>. QED
  BY <1>1, <1>2, <1>3, ExecSteps

LEMMA RowInvCorrect == Spec => []RowInv
<1>1. Init => RowInv
  BY ProgressAssumption, SMT DEF Init, RowInv
<1>2. TypeOK /\ RowInv /\ [Next]_vars => RowInv'
  <2>. SUFFICES ASSUME TypeOK, RowInv, [Next]_vars, NEW r \in Rows
                PROVE  /\ exec'[RowInfo[r].exec] = "None" => row'[r].status = "None"
                       /\ row'[r].last = NoTime \/ \E t \in Nat : row'[r].last = StoredTime(t)
    BY DEF RowInv
  <2>1. RowInfo[r].exec \in Execs
    BY ProgressAssumption
  <2>2. exec'[RowInfo[r].exec] = "None" => exec[RowInfo[r].exec] = "None"
    BY <2>1, ExecNeverLeaves
  <2>3. CASE UNCHANGED row
    BY <2>2, <2>3 DEF RowInv
  <2>4. ASSUME NEW x \in Execs, EnrollTask(x)
        PROVE  /\ exec'[RowInfo[r].exec] = "None" => row'[r].status = "None"
               /\ row'[r].last = NoTime \/ \E t \in Nat : row'[r].last = StoredTime(t)
    <3>1. /\ exec' = [exec EXCEPT ![x] = "InProgress"]
          /\ row'[r] = IF RowInfo[r].exec = x THEN [row[r] EXCEPT !.status = "InProgress"]
                                              ELSE row[r]
      BY <2>4 DEF EnrollTask, RowsOf
    <3>2. row[r] \in RowRecord /\ exec \in [Execs -> {"None", "InProgress", "Complete"}]
      BY DEF TypeOK, StoreType
    <3>3. row'[r].last = row[r].last
      BY <3>1, <3>2, SMT DEF RowRecord
    <3>4. exec'[RowInfo[r].exec] = "None" => row'[r].status = "None"
      BY <2>1, <2>2, <3>1, <3>2, SMT DEF RowInv
    <3>. QED
      BY <3>3, <3>4 DEF RowInv
  <2>5. ASSUME NEW w \in Workers, NEW q \in Rows, Updated(w, q)
        PROVE  /\ exec'[RowInfo[r].exec] = "None" => row'[r].status = "None"
               /\ row'[r].last = NoTime \/ \E t \in Nat : row'[r].last = StoredTime(t)
    <3>1. CASE r # q
      <4>1. row'[r] = row[r]
        BY <2>5, <3>1, SMT DEF Updated, TypeOK, StoreType
      <4>. QED
        BY <2>2, <4>1 DEF RowInv
    <3>2. CASE r = q
      <4>1. EventInfo[ev[w]].time \in Nat
        BY <2>5, ProgressAssumption, SMT DEF Updated, AtRow, TypeOK, ControlType
      <4>2. row'[r].last = StoredTime(EventInfo[ev[w]].time)
        BY <2>5, <3>2, SMT DEF Updated, TypeOK, StoreType
      <4>3. row[r].status = "InProgress"
        BY <2>5, <3>2 DEF Updated, CanUpdate
      <4>. QED
        BY <2>2, <4>1, <4>2, <4>3 DEF RowInv
    <3>. QED
      BY <3>1, <3>2
  <2>. QED
    BY <2>3, <2>4, <2>5, RowSteps
<1>. QED
  BY <1>1, <1>2, TypeCorrect, PTL DEF Spec

LEMMA CompleteRowFrozen ==
    ASSUME TypeOK, RowInv, [Next]_vars, NEW r \in Rows, row[r].status = "Complete"
    PROVE  row'[r] = row[r]
<1>1. ASSUME NEW x \in Execs, EnrollTask(x)
      PROVE  row'[r] = row[r]
  BY <1>1, SMT DEF EnrollTask, RowsOf, RowInv
<1>2. ASSUME NEW w \in Workers, NEW q \in Rows, Updated(w, q)
      PROVE  row'[r] = row[r]
  BY <1>2, SMT DEF Updated, CanUpdate, TypeOK, StoreType
<1>. QED
  BY <1>1, <1>2, RowSteps

LEMMA LastEventTimeMonotone ==
    ASSUME TypeOK, RowInv, [Next]_vars, NEW r \in Rows
    PROVE  row[r].last <= row'[r].last
<1>1. row[r] \in RowRecord
  BY DEF TypeOK, StoreType
<1>2. row[r].last \in Int
  BY <1>1 DEF RowRecord
<1>3. CASE row'[r].last = row[r].last
  BY <1>2, <1>3, SMT
<1>4. ASSUME NEW x \in Execs, EnrollTask(x)
      PROVE  row'[r].last = row[r].last
  <2>1. row'[r] = [row[r] EXCEPT !.status = "InProgress"] \/ row'[r] = row[r]
    BY <1>4 DEF EnrollTask
  <2>. QED
    BY <1>1, <2>1, SMT DEF RowRecord
<1>5. ASSUME NEW w \in Workers, NEW q \in Rows, Updated(w, q), r # q
      PROVE  row'[r].last = row[r].last
  BY <1>5, SMT DEF Updated, TypeOK, StoreType
<1>6. ASSUME NEW w \in Workers, Updated(w, r)
      PROVE  row[r].last <= row'[r].last
  <2>. DEFINE time == EventInfo[ev[w]].time
  <2>1. time \in Nat
    BY <1>6, ProgressAssumption, SMT DEF Updated, AtRow, TypeOK, ControlType
  <2>2. row'[r].last = StoredTime(time) /\ row[r].last <= time
    BY <1>6, SMT DEF Updated, CanUpdate, TypeOK, StoreType
  <2>. HIDE DEF time
  <2>3. CASE row[r].last = NoTime
    BY <2>1, <2>2, <2>3, SMT DEF NoTime, StoredTime
  <2>4. CASE \E t \in Nat : row[r].last = StoredTime(t)
    BY <2>1, <2>2, <2>4, StoredTimeMonotone, SMT
  <2>. QED
    BY <2>3, <2>4 DEF RowInv
<1>. QED
  BY <1>3, <1>4, <1>5, <1>6, RowSteps

(* A Complete row is frozen, no row's last event time goes back (the rounding   *)
(* of the column included) and a completed execution stays completed.           *)
THEOREM OnlyAdvance == Spec => RowsOnlyAdvance
<1>1. TypeOK /\ RowInv /\ [Next]_vars =>
        [/\ \A r \in Rows : /\ row[r].status = "Complete" => row'[r] = row[r]
                            /\ row[r].last <= row'[r].last
         /\ \A x \in Execs : exec[x] = "Complete" => exec'[x] = "Complete"]_vars
  BY CompleteRowFrozen, LastEventTimeMonotone, ExecNeverLeaves
<1>. QED
  BY <1>1, TypeCorrect, RowInvCorrect, PTL DEF Spec, RowsOnlyAdvance

--------------------------------------------------------------------------------
(* Completion.  What a worker knows between the step that reads something and   *)
(* the step that relies on it stays true, because rows and executions only      *)
(* advance.                                                                     *)
CompletionInv ==
    /\ CompleteIsJustified
    /\ \A w \in Workers : pc[w] = "cas" => Satisfied(ExecOf(w))
    /\ \A w \in Workers : pc[w] \in {"count", "publish"} => exec[ExecOf(w)] = "Complete"
    /\ \A m \in announced : exec[m.exec] = "Complete"

LEMMA StepLeavesOthers ==
    ASSUME TypeOK, NEW w \in Workers, Step(w)
    PROVE  OthersSame(w)
<1>. USE DEF TypeOK
<1>1. CASE TryClaim(w)
  BY <1>1, SMT DEF TryClaim, ControlType, Goto, OthersSame, SameControl
<1>2. CASE ListInProgress(w)
  BY <1>2, SMT DEF ListInProgress, ControlType, Goto, OthersSame, SameControl
<1>3. ASSUME NEW r \in Rows, Process(w, r)
      PROVE  OthersSame(w)
  <2>1. CASE SkipStale(w, r)
    BY <2>1, NextRowControl DEF SkipStale
  <2>2. CASE RejectValue(w, r)
    BY <2>2, AbortControl DEF RejectValue
  <2>3. CASE UpdateCurrentValue(w, r)
    <3>1. ToExec(w, r)
      BY <2>3 DEF UpdateCurrentValue, ToExec, AtRow, Goto
    <3>. QED
      BY <3>1, ToExecControl
  <2>4. CASE MarkConditionComplete(w, r)
    <3>1. ToExec(w, r) \/ NextRow(w, DOMAIN snap[w] \ {r})
      BY <2>4 DEF MarkConditionComplete, ToExec, AtRow, Goto
    <3>. QED
      BY <3>1, ToExecControl, NextRowControl
  <2>. QED
    BY <1>3, <2>1, <2>2, <2>3, <2>4 DEF Process
<1>4. CASE Complete(w)
  <2>1. \/ \E to \in Steps : Goto(w, to) /\ UNCHANGED <<ev, cur>>
        \/ NextRow(w, Rest(w))
    BY <1>4
    DEF Complete, ReadExecution, EvaluateTask, CompleteExecution, ReloadExecution,
        CountCompleted, PublishTaskCompleted, Steps, CompletionSteps
  <2>. QED
    BY <2>1, GotoControl, NextRowControl
<1>5. CASE Commit(w) \/ Release(w)
  BY <1>5, ReturnControl DEF Commit, Release
<1>. QED
  BY <1>1, <1>2, <1>3, <1>4, <1>5 DEF Step

LEMMA FailLeavesOthers ==
    ASSUME TypeOK, NEW w \in Workers, Fail(w)
    PROVE  pc'[w] \in {"idle", "release"} /\ OthersSame(w)
BY AbortControl, ReturnControl
DEF TypeOK, Fail, CommitFails, StatementFails, ReleaseFails, PublishFails, Crash

LEMMA DeliverLeavesOthers ==
    ASSUME TypeOK, NEW w \in Workers, NEW e \in Events, Deliver(w, e)
    PROVE  pc'[w] \in {"claim", "list"} /\ OthersSame(w)
BY SMT DEF TypeOK, ControlType, Deliver, Goto, OthersSame, SameControl

(* How a worker can come to hold something that CompletionInv speaks of. *)
LEMMA CompletionControl ==
    ASSUME TypeOK, [Next]_vars, NEW w \in Workers
    PROVE  \/ pc'[w] \notin {"cas", "count", "publish"}
           \/ SameControl(w)
           \/ /\ EvaluateTask(w)
              /\ pc'[w] = "cas" /\ cur'[w] = cur[w]
              /\ EvaluateTaskExpression(ExecOf(w), CompletedRows(ExecOf(w)))
           \/ /\ pc'[w] = "count" /\ cur'[w] = cur[w]
              /\ exec'[ExecOf(w)] = "Complete"
           \/ pc[w] = "count" /\ pc'[w] = "publish" /\ cur'[w] = cur[w]
<1>. DEFINE Goal == \/ pc'[w] \notin {"cas", "count", "publish"}
                    \/ SameControl(w)
                    \/ /\ EvaluateTask(w)
                       /\ pc'[w] = "cas" /\ cur'[w] = cur[w]
                       /\ EvaluateTaskExpression(ExecOf(w), CompletedRows(ExecOf(w)))
                    \/ /\ pc'[w] = "count" /\ cur'[w] = cur[w]
                       /\ exec'[ExecOf(w)] = "Complete"
                    \/ pc[w] = "count" /\ pc'[w] = "publish" /\ cur'[w] = cur[w]
<1>. SUFFICES Goal
  OBVIOUS
<1>. USE DEF TypeOK
<1>1. ASSUME NEW v \in Workers, v # w, OthersSame(v)
      PROVE  Goal
  BY <1>1 DEF OthersSame
<1>2. CASE Fail(w) \/ \E e \in Events : Deliver(w, e)
  BY <1>2, FailLeavesOthers, DeliverLeavesOthers
<1>3. CASE TryClaim(w) \/ ListInProgress(w)
  BY <1>3, SMT DEF TryClaim, ListInProgress, Goto, ControlType
<1>4. ASSUME NEW r \in Rows, Process(w, r)
      PROVE  Goal
  <2>1. CASE SkipStale(w, r)
    BY <2>1, NextRowControl DEF SkipStale
  <2>2. CASE RejectValue(w, r)
    BY <2>2, AbortControl DEF RejectValue
  <2>3. CASE UpdateCurrentValue(w, r) \/ MarkConditionComplete(w, r)
    <3>1. ToExec(w, r) \/ NextRow(w, DOMAIN snap[w] \ {r})
      BY <2>3 DEF UpdateCurrentValue, MarkConditionComplete, ToExec, AtRow, Goto
    <3>. QED
      BY <3>1, ToExecControl, NextRowControl
  <2>. QED
    BY <1>4, <2>1, <2>2, <2>3 DEF Process
<1>5. CASE ReadExecution(w)
  <2>1. NextRow(w, Rest(w)) \/ (Goto(w, "eval") /\ UNCHANGED <<ev, cur>>)
    BY <1>5 DEF ReadExecution
  <2>. QED
    BY <2>1, NextRowControl, GotoControl
<1>6. CASE EvaluateTask(w)
  <2>1. \/ NextRow(w, Rest(w))
        \/ /\ Goto(w, "cas") /\ UNCHANGED <<ev, cur>>
           /\ EvaluateTaskExpression(ExecOf(w), CompletedRows(ExecOf(w)))
    BY <1>6 DEF EvaluateTask
  <2>. QED
    BY <1>6, <2>1, NextRowControl, GotoControl
<1>7. CASE CompleteExecution(w)
  <2>1. \/ Goto(w, "reload") /\ UNCHANGED <<ev, cur>>
        \/ /\ Goto(w, "count") /\ UNCHANGED <<ev, cur>>
           /\ exec' = [exec EXCEPT ![ExecOf(w)] = "Complete"]
    BY <1>7 DEF CompleteExecution
  <2>2. ExecOf(w) \in Execs
    BY <1>7, ExecOfType DEF CompleteExecution, CompletionSteps
  <2>. QED
    BY <2>1, <2>2, GotoControl, SMT DEF StoreType
<1>8. CASE ReloadExecution(w)
  <2>1. \/ NextRow(w, Rest(w))
        \/ /\ Goto(w, "count") /\ UNCHANGED <<ev, cur>>
           /\ exec[ExecOf(w)] = "Complete" /\ UNCHANGED exec
    BY <1>8 DEF ReloadExecution, db
  <2>. QED
    BY <2>1, NextRowControl, GotoControl
<1>9. CASE CountCompleted(w)
  <2>1. pc[w] = "count" /\ Goto(w, "publish") /\ UNCHANGED <<ev, cur>>
    BY <1>9 DEF CountCompleted
  <2>. QED
    BY <2>1, GotoControl
<1>10. CASE PublishTaskCompleted(w)
  BY <1>10, NextRowControl DEF PublishTaskCompleted
<1>11. CASE Commit(w) \/ Release(w)
  BY <1>11, ReturnControl DEF Commit, Release
<1>12. CASE UNCHANGED vars \/ \E x \in Execs : EnrollTask(x)
  BY <1>12 DEF vars, EnrollTask, locals, SameControl
<1>. HIDE DEF Goal
<1>13. Step(w) => Goal
  BY <1>3, <1>4, <1>5, <1>6, <1>7, <1>8, <1>9, <1>10, <1>11 DEF Step, Complete
<1>. QED
  BY <1>1, <1>2, <1>12, <1>13, StepLeavesOthers, FailLeavesOthers, DeliverLeavesOthers
  DEF Next

LEMMA EvaluatedIffSatisfied ==
    ASSUME NEW x \in Execs
    PROVE  EvaluateTaskExpression(x, CompletedRows(x)) <=> Satisfied(x)
<1>1. ASSUME NEW conj \in ExecInfo[x].expr
      PROVE  conj \subseteq CompletedRows(x) <=> \A r \in conj : row[r].status = "Complete"
  BY ProgressAssumption DEF CompletedRows, RowsOf
<1>. QED
  BY <1>1 DEF EvaluateTaskExpression, Satisfied

LEMMA SatisfiedStays ==
    ASSUME TypeOK, RowInv, [Next]_vars, NEW x \in Execs, Satisfied(x)
    PROVE  Satisfied(x)'
<1>1. PICK conj \in ExecInfo[x].expr : \A r \in conj : row[r].status = "Complete"
  BY DEF Satisfied
<1>2. \A r \in conj : row'[r].status = "Complete"
  BY <1>1, CompleteRowFrozen, ProgressAssumption
<1>. QED
  BY <1>2 DEF Satisfied

(* Messages come from workers that publish. *)
LEMMA AnnouncementSteps ==
    ASSUME TypeOK, [Next]_vars
    PROVE  \/ UNCHANGED announced
           \/ \E w \in Workers : pc[w] = "publish" /\ announced' \subseteq announced \cup {Message(w)}
<1>. USE DEF broker, locals, history
<1>1. ASSUME NEW w \in Workers, Step(w), ~PublishTaskCompleted(w)
      PROVE  UNCHANGED announced
  BY <1>1
  DEF Step, TryClaim, ListInProgress, Complete, ReadExecution, EvaluateTask, Process,
      SkipStale, RejectValue, UpdateCurrentValue, MarkConditionComplete,
      CompleteExecution, ReloadExecution, CountCompleted, Commit, Release
<1>2. ASSUME NEW w \in Workers, Fail(w)
      PROVE  \/ UNCHANGED announced
             \/ pc[w] = "publish" /\ announced' \subseteq announced \cup {Message(w)}
  BY <1>2 DEF Fail, CommitFails, StatementFails, ReleaseFails, PublishFails, Crash
<1>3. ASSUME NEW w \in Workers, PublishTaskCompleted(w)
      PROVE  pc[w] = "publish" /\ announced' \subseteq announced \cup {Message(w)}
  BY <1>3 DEF PublishTaskCompleted
<1>4. ASSUME NEW w \in Workers, NEW e \in Events, Deliver(w, e)
      PROVE  UNCHANGED announced
  BY <1>4 DEF Deliver
<1>5. ASSUME NEW x \in Execs, EnrollTask(x)
      PROVE  UNCHANGED announced
  BY <1>5 DEF EnrollTask
<1>. QED
  BY <1>1, <1>2, <1>3, <1>4, <1>5 DEF Next, vars

LEMMA CompletionInvCorrect == Spec => []CompletionInv
<1>1. Init => CompletionInv
  BY SMT DEF Init, CompletionInv, CompleteIsJustified
<1>2. TypeOK /\ RowInv /\ CompletionInv /\ [Next]_vars => CompletionInv'
  <2>. SUFFICES ASSUME TypeOK, RowInv, CompletionInv, [Next]_vars
                PROVE  CompletionInv'
    OBVIOUS
  <2>1. CompleteIsJustified'
    <3>. SUFFICES ASSUME NEW x \in Execs, exec'[x] = "Complete"
                  PROVE  Satisfied(x)'
      BY DEF CompleteIsJustified
    <3>1. CASE exec[x] = "Complete"
      BY <3>1, SatisfiedStays DEF CompletionInv, CompleteIsJustified
    <3>2. CASE exec[x] # "Complete"
      <4>1. PICK w \in Workers : CompleteExecution(w)
        <5>1. ASSUME NEW y \in Execs, EnrollTask(y)
              PROVE  FALSE
          BY <3>2, <5>1, SMT DEF EnrollTask, TypeOK, StoreType
        <5>. QED
          BY <3>2, <5>1, ExecSteps
      <4>2. pc[w] = "cas" /\ x = ExecOf(w)
        BY <3>2, <4>1, SMT DEF CompleteExecution, TypeOK, StoreType
      <4>. QED
        BY <4>2, SatisfiedStays DEF CompletionInv
    <3>. QED
      BY <3>1, <3>2
  <2>2. ASSUME NEW w \in Workers, pc'[w] = "cas"
        PROVE  Satisfied(ExecOf(w))'
    <3>1. /\ cur'[w] = cur[w]
          /\ pc[w] = "cas" \/ pc[w] = "eval"
          /\ Satisfied(ExecOf(w))
      <4>1. CASE SameControl(w)
        BY <2>2, <4>1 DEF SameControl, CompletionInv
      <4>2. CASE EvaluateTask(w)
        <5>1. ExecOf(w) \in Execs
          BY <4>2, ExecOfType DEF EvaluateTask, TypeOK, CompletionSteps
        <5>. QED
          BY <2>2, <4>2, <5>1, CompletionControl, EvaluatedIffSatisfied
          DEF EvaluateTask, SameControl, CompletionInv
      <4>. QED
        BY <2>2, <4>1, <4>2, CompletionControl
    <3>2. ExecOf(w) \in Execs
      BY <3>1, ExecOfType DEF TypeOK, CompletionSteps
    <3>3. ExecOf(w)' = ExecOf(w)
      BY <3>1 DEF ExecOf
    <3>. QED
      BY <3>1, <3>2, <3>3, SatisfiedStays DEF Satisfied
  <2>3. ASSUME NEW w \in Workers, pc'[w] \in {"count", "publish"}
        PROVE  exec'[ExecOf(w)'] = "Complete"
    <3>1. /\ cur'[w] = cur[w]
          /\ \/ exec'[ExecOf(w)] = "Complete"
             \/ pc[w] \in {"count", "publish"} /\ exec[ExecOf(w)] = "Complete"
      BY <2>3, CompletionControl DEF SameControl, CompletionInv
    <3>2. exec'[ExecOf(w)] = "Complete"
      BY <3>1, ExecOfType, ExecNeverLeaves DEF TypeOK, CompletionSteps
    <3>. QED
      BY <3>1, <3>2 DEF ExecOf
  <2>4. ASSUME NEW m \in announced'
        PROVE  exec'[m.exec] = "Complete"
    <3>1. CASE m \in announced
      <4>1. m.exec \in Execs
        BY <3>1 DEF TypeOK, StoreType
      <4>. QED
        BY <3>1, <4>1, ExecNeverLeaves DEF CompletionInv
    <3>2. CASE m \notin announced
      <4>1. PICK w \in Workers : pc[w] = "publish" /\ m = Message(w)
        BY <3>2, AnnouncementSteps
      <4>2. ExecOf(w) \in Execs
        BY <4>1, ExecOfType DEF TypeOK, CompletionSteps
      <4>. QED
        BY <4>1, <4>2, ExecNeverLeaves DEF CompletionInv, Message
    <3>. QED
      BY <3>1, <3>2
  <2>. QED
    BY <2>1, <2>2, <2>3, <2>4 DEF CompletionInv
<1>. QED
  BY <1>1, <1>2, TypeCorrect, RowInvCorrect, PTL DEF Spec

(* An execution is Complete only if its condition expression holds. *)
THEOREM CompletionIsJustified == Spec => []CompleteIsJustified
<1>1. CompletionInv => CompleteIsJustified
  BY DEF CompletionInv
<1>. QED
  BY <1>1, CompletionInvCorrect, PTL

--------------------------------------------------------------------------------
(* Claims.  A worker that holds a key has its claim in the database; a worker   *)
(* comes to hold a key by inserting the claim, and only its holder deletes it.  *)
ClaimInv ==
    /\ ClaimIsExclusive
    /\ \A w \in Workers : Holds(w) => Key(ev[w]) \in claims

LEMMA HoldSteps ==
    ASSUME TypeOK, [Next]_vars, NEW w \in Workers, Holds(w)'
    PROVE  /\ ev'[w] = ev[w]
           /\ Holds(w) \/ (TryClaim(w) /\ Key(ev[w]) \notin claims)
<1>. DEFINE Goal == /\ ev'[w] = ev[w]
                    /\ Holds(w) \/ (TryClaim(w) /\ Key(ev[w]) \notin claims)
<1>. SUFFICES Goal
  OBVIOUS
<1>1. /\ pc'[w] \in {"list", "row", "release"} \cup CompletionSteps
      /\ EventInfo[ev'[w]].biz # NoBiz
  BY DEF Holds, Keyed
<1>. USE DEF TypeOK
<1>2. ASSUME pc[w] \in {"list", "row", "release"} \cup CompletionSteps, ev'[w] = ev[w]
      PROVE  Goal
  BY <1>1, <1>2 DEF Holds, Keyed
<1>3. ASSUME NEW v \in Workers, v # w, OthersSame(v)
      PROVE  Goal
  BY <1>1, <1>3 DEF OthersSame, SameControl, Holds, Keyed
<1>4. ASSUME NEW e \in Events, Deliver(w, e)
      PROVE  Goal
  <2>1. ev'[w] = e
    BY <1>4, SMT DEF Deliver, ControlType
  <2>2. pc'[w] = "claim"
    BY <1>1, <1>4, <2>1, SMT DEF Deliver, ControlType, Goto, Keyed
  <2>. QED
    BY <1>1, <2>2 DEF CompletionSteps
<1>5. CASE TryClaim(w)
  <2>1. Key(ev[w]) \notin claims
    BY <1>1, <1>5, SMT DEF TryClaim, Goto, ControlType, CompletionSteps
  <2>. QED
    BY <1>5, <2>1 DEF TryClaim
<1>6. CASE ListInProgress(w)
  BY <1>2, <1>6 DEF ListInProgress
<1>7. ASSUME Abort(w), pc[w] \in Steps \ {"idle", "ack"}
      PROVE  Goal
  <2>1. pc'[w] = "release" /\ pc[w] # "claim" /\ ev'[w] = ev[w]
    BY <1>1, <1>7, AbortControl DEF CompletionSteps
  <2>. QED
    BY <1>2, <1>7, <2>1 DEF Steps
<1>8. CASE Return(w)
  BY <1>1, <1>8, ReturnControl DEF CompletionSteps
<1>9. ASSUME NEW r \in Rows, Process(w, r)
      PROVE  Goal
  <2>1. pc[w] = "row"
    BY <1>9
    DEF Process, SkipStale, RejectValue, UpdateCurrentValue, MarkConditionComplete, AtRow
  <2>2. CASE RejectValue(w, r)
    BY <1>7, <2>1, <2>2 DEF RejectValue, Steps
  <2>3. CASE ~RejectValue(w, r)
    <3>1. UNCHANGED ev
      BY <1>9, <2>3
      DEF Process, SkipStale, UpdateCurrentValue, MarkConditionComplete, NextRow
    <3>. QED
      BY <1>2, <2>1, <3>1
  <2>. QED
    BY <2>2, <2>3
<1>10. CASE Complete(w)
  <2>1. pc[w] \in CompletionSteps /\ UNCHANGED ev
    BY <1>10
    DEF Complete, ReadExecution, EvaluateTask, CompleteExecution, ReloadExecution,
        CountCompleted, PublishTaskCompleted, NextRow, CompletionSteps
  <2>. QED
    BY <1>2, <2>1
<1>11. CASE Fail(w)
  BY <1>7, <1>8, <1>11
  DEF Fail, CommitFails, StatementFails, ReleaseFails, PublishFails, Crash, Steps,
      CompletionSteps
<1>12. CASE UNCHANGED vars \/ \E x \in Execs : EnrollTask(x)
  BY <1>1, <1>12 DEF vars, EnrollTask, locals, Holds, Keyed
<1>. HIDE DEF Goal
<1>13. Step(w) => Goal
  BY <1>5, <1>6, <1>8, <1>9, <1>10 DEF Step, Commit, Release
<1>. QED
  BY <1>3, <1>4, <1>11, <1>12, <1>13, StepLeavesOthers, FailLeavesOthers,
     DeliverLeavesOthers
  DEF Next

LEMMA ClaimSteps ==
    ASSUME TypeOK, [Next]_vars
    PROVE  \/ UNCHANGED claims
           \/ \E w \in Workers : TryClaim(w) \/ Release(w)
<1>. USE DEF db
<1>1. ASSUME NEW w \in Workers, Step(w), ~TryClaim(w), ~Release(w)
      PROVE  UNCHANGED claims
  BY <1>1
  DEF Step, ListInProgress, Complete, ReadExecution, EvaluateTask, Process,
      SkipStale, RejectValue, UpdateCurrentValue, MarkConditionComplete,
      CompleteExecution, ReloadExecution, CountCompleted, PublishTaskCompleted, Commit
<1>2. ASSUME NEW w \in Workers, Fail(w)
      PROVE  UNCHANGED claims
  BY <1>2 DEF Fail, CommitFails, StatementFails, ReleaseFails, PublishFails, Crash
<1>. QED
  BY <1>1, <1>2 DEF Next, vars, Deliver, EnrollTask

LEMMA ClaimInvCorrect == Spec => []ClaimInv
<1>1. Init => ClaimInv
  BY SMT DEF Init, ClaimInv, ClaimIsExclusive, Holds, CompletionSteps
<1>2. TypeOK /\ ClaimInv /\ [Next]_vars => ClaimInv'
  <2>. SUFFICES ASSUME TypeOK, ClaimInv, [Next]_vars
                PROVE  ClaimInv'
    OBVIOUS
  <2>1. ClaimIsExclusive'
    <3>. SUFFICES ASSUME NEW v \in Workers, NEW w \in Workers,
                         Holds(v)', Holds(w)', Key(ev'[v]) = Key(ev'[w])
                  PROVE  v = w
      BY DEF ClaimIsExclusive, Key
    <3>1. Key(ev[v]) = Key(ev[w])
      BY HoldSteps
    <3>2. CASE Holds(v) /\ Holds(w)
      BY <3>1, <3>2 DEF ClaimInv, ClaimIsExclusive
    <3>3. CASE TryClaim(v) /\ Key(ev[v]) \notin claims
      <4>1. TryClaim(w)
        BY <3>1, <3>3, HoldSteps DEF ClaimInv
      <4>2. w # v => SameControl(w)
        BY <3>3, StepLeavesOthers DEF Step, OthersSame
      <4>3. pc[w] = "claim" /\ pc'[w] # "claim"
        BY <4>1 DEF TryClaim, Holds, CompletionSteps
      <4>. QED
        BY <4>2, <4>3 DEF SameControl
    <3>4. CASE TryClaim(w) /\ Key(ev[w]) \notin claims
      <4>1. TryClaim(v)
        BY <3>1, <3>4, HoldSteps DEF ClaimInv
      <4>2. v # w => SameControl(v)
        BY <3>4, StepLeavesOthers DEF Step, OthersSame
      <4>3. pc[v] = "claim" /\ pc'[v] # "claim"
        BY <4>1 DEF TryClaim, Holds, CompletionSteps
      <4>. QED
        BY <4>2, <4>3 DEF SameControl
    <3>. QED
      BY <3>2, <3>3, <3>4, HoldSteps
  <2>2. ASSUME NEW w \in Workers, Holds(w)'
        PROVE  Key(ev'[w]) \in claims'
    <3>1. ev'[w] = ev[w]
      BY <2>2, HoldSteps
    <3>2. CASE TryClaim(w)
      BY <3>1, <3>2 DEF TryClaim
    <3>3. CASE Holds(w)
      <4>1. Key(ev[w]) \in claims
        BY <3>3 DEF ClaimInv
      <4>2. ASSUME NEW v \in Workers, Release(v)
            PROVE  Key(ev[w]) # Key(ev[v])
        <5>. SUFFICES ASSUME Key(ev[w]) = Key(ev[v])
                      PROVE  FALSE
          OBVIOUS
        <5>1. EventInfo[ev[w]].biz = EventInfo[ev[v]].biz
          BY DEF Key
        <5>2. Holds(v)
          BY <3>3, <4>2, <5>1 DEF Holds, Keyed, Release
        <5>3. v = w
          BY <3>3, <5>2 DEF ClaimInv, ClaimIsExclusive
        <5>4. pc'[w] = "idle"
          BY <4>2, <5>3, ReturnControl DEF Release, TypeOK
        <5>. QED
          BY <2>2, <5>4 DEF Holds, CompletionSteps
      <4>. QED
        BY <3>1, <4>1, <4>2, ClaimSteps DEF TryClaim, Release
    <3>. QED
      BY <2>2, <3>2, <3>3, HoldSteps
  <2>. QED
    BY <2>1, <2>2 DEF ClaimInv, Key
<1>. QED
  BY <1>1, <1>2, TypeCorrect, PTL DEF Spec

(* No two workers work on the same (metric, biz) pair at a time. *)
THEOREM ClaimsAreExclusive == Spec => []ClaimIsExclusive
<1>1. ClaimInv => ClaimIsExclusive
  BY DEF ClaimInv
<1>. QED
  BY <1>1, ClaimInvCorrect, PTL

--------------------------------------------------------------------------------
(* Nothing is lost as long as nothing failed: some worker that completed a      *)
(* condition reads the rows after all of them are complete.                     *)
LEMMA NoFaultStep ==
    ASSUME TypeOK, [Next]_vars, faults' = 0
    PROVE  /\ faults = 0
           /\ \A w \in Workers : ~Fail(w)
<1>1. faults \in Nat
  BY ProgressAssumption, SMT DEF TypeOK, StoreType
<1>2. ASSUME NEW w \in Workers, Fail(w)
      PROVE  FALSE
  <2>1. faults' = faults + 1
    BY <1>2
    DEF Fail, CommitFails, StatementFails, ReleaseFails, PublishFails, Crash, Fault
  <2>. QED
    BY <1>1, <2>1, SMT
<1>3. ASSUME NEW w \in Workers, Step(w)
      PROVE  UNCHANGED faults
  BY <1>3
  DEF Step, TryClaim, ListInProgress, Process, SkipStale, RejectValue,
      UpdateCurrentValue, MarkConditionComplete, Complete, ReadExecution, EvaluateTask,
      CompleteExecution, ReloadExecution, CountCompleted, PublishTaskCompleted,
      Commit, Release
<1>4. UNCHANGED faults
  BY <1>2, <1>3 DEF Next, Deliver, EnrollTask, vars
<1>. QED
  BY <1>2, <1>4

(* What a worker that is completing an execution does next, unless it fails. *)
LEMMA CompletionProceeds ==
    ASSUME TypeOK, [Next]_vars, faults' = 0, NEW w \in Workers,
           pc[w] \in CompletionSteps
    PROVE  \/ SameControl(w)
           \/ Complete(w)
<1>1. ~Fail(w)
  BY NoFaultStep
<1>2. ASSUME NEW v \in Workers, v # w, OthersSame(v)
      PROVE  SameControl(w)
  BY <1>2 DEF OthersSame
<1>3. CASE UNCHANGED vars \/ \E x \in Execs : EnrollTask(x)
  BY <1>3 DEF vars, EnrollTask, locals, SameControl
<1>4. ASSUME NEW e \in Events
      PROVE  ~Deliver(w, e)
  BY DEF Deliver, CompletionSteps
<1>5. Step(w) => Complete(w)
  BY DEF Step, TryClaim, ListInProgress, Process, SkipStale, RejectValue,
         UpdateCurrentValue, MarkConditionComplete, AtRow, Commit, Release,
         CompletionSteps
<1>. QED
  BY <1>1, <1>2, <1>3, <1>4, <1>5, NoFaultStep, StepLeavesOthers, DeliverLeavesOthers
  DEF Next

LEMMA SatisfiedHasRow ==
    ASSUME NEW x \in Execs, Satisfied(x)
    PROVE  \E r \in Rows : RowInfo[r].exec = x /\ row[r].status = "Complete"
<1>1. PICK conj \in ExecInfo[x].expr : \A r \in conj : row[r].status = "Complete"
  BY DEF Satisfied
<1>2. {} \notin ExecInfo[x].expr
  BY ProgressAssumption, Zenon
<1>3. PICK r \in conj : TRUE
  BY <1>1, <1>2, Zenon
<1>. QED
  BY <1>1, <1>3, ProgressAssumption

LEMMA NoLostCompletionStep ==
    ASSUME TypeOK, RowInv, NoLostCompletion, [Next]_vars
    PROVE  NoLostCompletion'
<1>. SUFFICES ASSUME faults' = 0, NEW x \in Execs, Satisfied(x)', exec'[x] # "Complete"
              PROVE  \E w \in Workers : /\ pc'[w] \in {"exec", "eval", "cas"}
                                       /\ RowInfo[cur'[w]].exec = x
  BY DEF NoLostCompletion, ExecOf
<1>1. faults = 0
  BY NoFaultStep
<1>2. CASE Satisfied(x)
  <2>1. exec[x] = "InProgress"
    <3>1. PICK r \in Rows : RowInfo[r].exec = x /\ row[r].status = "Complete"
      BY <1>2, SatisfiedHasRow
    <3>2. exec[x] # "None" /\ exec[x] # "Complete"
      BY <3>1, ExecNeverLeaves DEF RowInv
    <3>. QED
      BY <3>2 DEF TypeOK, StoreType
  <2>2. PICK w \in Workers : pc[w] \in {"exec", "eval", "cas"} /\ ExecOf(w) = x
    BY <1>1, <1>2, <2>1 DEF NoLostCompletion
  <2>3. SameControl(w) \/ Complete(w)
    BY <2>2, CompletionProceeds DEF CompletionSteps
  <2>4. CASE SameControl(w)
    BY <2>2, <2>4 DEF SameControl, ExecOf
  <2>5. CASE ReadExecution(w)
    <3>1. Goto(w, "eval") /\ UNCHANGED <<ev, cur>>
      BY <2>1, <2>2, <2>5 DEF ReadExecution
    <3>. QED
      BY <2>2, <3>1, GotoControl DEF TypeOK, ExecOf
  <2>6. CASE EvaluateTask(w)
    <3>1. Goto(w, "cas") /\ UNCHANGED <<ev, cur>>
      BY <1>2, <2>2, <2>6, EvaluatedIffSatisfied DEF EvaluateTask
    <3>. QED
      BY <2>2, <3>1, GotoControl DEF TypeOK, ExecOf
  <2>7. CASE CompleteExecution(w)
    <3>1. exec' = [exec EXCEPT ![x] = "Complete"]
      BY <2>1, <2>2, <2>7 DEF CompleteExecution
    <3>2. exec'[x] = "Complete"
      BY <3>1 DEF TypeOK, StoreType
    <3>. QED
      BY <3>2
  <2>. QED
    BY <2>2, <2>3, <2>4, <2>5, <2>6, <2>7
    DEF Complete, ReloadExecution, CountCompleted, PublishTaskCompleted
<1>3. CASE ~Satisfied(x)
  <2>1. PICK conj \in ExecInfo[x].expr : \A r \in conj : row'[r].status = "Complete"
    BY DEF Satisfied
  <2>2. PICK r \in conj : row[r].status # "Complete"
    BY <1>3, <2>1 DEF Satisfied
  <2>3. r \in Rows /\ RowInfo[r].exec = x /\ row'[r] # row[r]
    BY <2>1, <2>2, ProgressAssumption
  <2>4. ASSUME NEW y \in Execs, EnrollTask(y)
        PROVE  FALSE
    <3>1. row'[r] = [row[r] EXCEPT !.status = "InProgress"]
      BY <2>3, <2>4 DEF EnrollTask
    <3>2. row[r] \in RowRecord
      BY <2>3 DEF TypeOK, StoreType
    <3>. QED
      BY <2>1, <2>2, <3>1, <3>2, SMT DEF RowRecord
  <2>5. PICK w \in Workers, q \in Rows : Updated(w, q)
    BY <2>3, <2>4, RowSteps
  <2>6. q = r
    BY <2>3, <2>5, SMT DEF Updated, TypeOK, StoreType
  <2>. QED
    BY <2>3, <2>5, <2>6, ToExecControl DEF Updated, TypeOK
<1>. QED
  BY <1>2, <1>3

(* An execution whose expression holds is Complete or being completed. *)
THEOREM CompletionIsNotLost == Spec => []NoLostCompletion
<1>1. Init => NoLostCompletion
  <2>. SUFFICES ASSUME Init, NEW x \in Execs
                PROVE  ~Satisfied(x)
    BY DEF NoLostCompletion
  <2>1. \A r \in Rows : row[r].status = "None"
    BY DEF Init
  <2>. QED
    BY <2>1, SatisfiedHasRow
<1>2. NoLostCompletion /\ TypeOK /\ RowInv /\ [Next]_vars => NoLostCompletion'
  BY NoLostCompletionStep
<1>. QED
  BY <1>1, <1>2, TypeCorrect, RowInvCorrect, PTL DEF Spec

LEMMA AnnouncedStays ==
    ASSUME [Next]_vars
    PROVE  announced \subseteq announced'
<1>. USE DEF broker, locals, history
<1>1. ASSUME NEW w \in Workers, Step(w)
      PROVE  announced \subseteq announced'
  BY <1>1
  DEF Step, TryClaim, ListInProgress, Complete, ReadExecution, EvaluateTask, Process,
      SkipStale, RejectValue, UpdateCurrentValue, MarkConditionComplete,
      CompleteExecution, ReloadExecution, CountCompleted, PublishTaskCompleted,
      Commit, Release
<1>2. ASSUME NEW w \in Workers, Fail(w)
      PROVE  announced \subseteq announced'
  BY <1>2 DEF Fail, CommitFails, StatementFails, ReleaseFails, PublishFails, Crash
<1>. QED
  BY <1>1, <1>2 DEF Next, vars, Deliver, EnrollTask

LEMMA NoLostAnnouncementStep ==
    ASSUME TypeOK, NoLostAnnouncement, [Next]_vars
    PROVE  NoLostAnnouncement'
<1>. SUFFICES ASSUME faults' = 0, NEW x \in Execs, exec'[x] = "Complete",
                     \A m \in announced' : m.exec # x
              PROVE  \E w \in Workers : /\ pc'[w] \in {"count", "publish"}
                                       /\ RowInfo[cur'[w]].exec = x
  BY DEF NoLostAnnouncement, ExecOf
<1>1. faults = 0
  BY NoFaultStep
<1>2. CASE exec[x] = "Complete"
  <2>1. PICK w \in Workers : pc[w] \in {"count", "publish"} /\ ExecOf(w) = x
    BY <1>1, <1>2, AnnouncedStays DEF NoLostAnnouncement
  <2>2. SameControl(w) \/ Complete(w)
    BY <2>1, CompletionProceeds DEF CompletionSteps
  <2>3. CASE SameControl(w)
    BY <2>1, <2>3 DEF SameControl, ExecOf
  <2>4. CASE CountCompleted(w)
    <3>1. Goto(w, "publish") /\ UNCHANGED <<ev, cur>>
      BY <2>4 DEF CountCompleted
    <3>. QED
      BY <2>1, <3>1, GotoControl DEF TypeOK, ExecOf
  <2>5. CASE PublishTaskCompleted(w)
    <3>1. Message(w) \in announced' /\ Message(w).exec = x
      BY <2>1, <2>5 DEF PublishTaskCompleted, Message
    <3>. QED
      BY <3>1
  <2>. QED
    BY <2>1, <2>2, <2>3, <2>4, <2>5
    DEF Complete, ReadExecution, EvaluateTask, CompleteExecution, ReloadExecution
<1>3. CASE exec[x] # "Complete"
  <2>1. ASSUME NEW y \in Execs, EnrollTask(y)
        PROVE  FALSE
    BY <1>3, <2>1, SMT DEF EnrollTask, TypeOK, StoreType
  <2>2. PICK w \in Workers : CompleteExecution(w)
    BY <1>3, <2>1, ExecSteps
  <2>3. exec[ExecOf(w)] = "InProgress" /\ ExecOf(w) = x
    BY <1>3, <2>2, SMT DEF CompleteExecution, TypeOK, StoreType
  <2>4. Goto(w, "count") /\ UNCHANGED <<ev, cur>>
    BY <2>2, <2>3 DEF CompleteExecution
  <2>. QED
    BY <2>3, <2>4, GotoControl DEF TypeOK, ExecOf
<1>. QED
  BY <1>2, <1>3

(* A Complete execution is announced or being announced. *)
THEOREM AnnouncementIsNotLost == Spec => []NoLostAnnouncement
<1>1. Init => NoLostAnnouncement
  BY SMT DEF Init, NoLostAnnouncement
<1>2. NoLostAnnouncement /\ TypeOK /\ [Next]_vars => NoLostAnnouncement'
  BY NoLostAnnouncementStep
<1>. QED
  BY <1>1, <1>2, TypeCorrect, PTL DEF Spec

--------------------------------------------------------------------------------
(* Refinement.  A step of the code that writes a row, an execution or a message *)
(* is a step of the abstract service; every other step is a stutter.            *)
Met       == {r \in Rows : row[r].status = "Complete"}
Completed == {x \in Execs : exec[x] = "Complete"}
Announced == {x \in Execs : \E m \in announced : m.exec = x}

LEMMA SatisfiedByMet ==
    ASSUME NEW x \in Execs
    PROVE  Satisfied(x) <=> \E conj \in ExecInfo[x].expr : conj \subseteq Met
<1>1. ASSUME NEW conj \in ExecInfo[x].expr
      PROVE  conj \subseteq Met <=> \A r \in conj : row[r].status = "Complete"
  BY ProgressAssumption DEF Met
<1>. QED
  BY <1>1 DEF Satisfied

LEMMA MetSteps ==
    ASSUME TypeOK, RowInv, [Next]_vars
    PROVE  Met' = Met \/ \E r \in Rows \ Met : Met' = Met \cup {r}
<1>1. CASE UNCHANGED row
  BY <1>1 DEF Met
<1>2. ASSUME NEW x \in Execs, EnrollTask(x)
      PROVE  Met' = Met
  <2>1. ASSUME NEW r \in Rows
        PROVE  row'[r].status = "Complete" <=> row[r].status = "Complete"
    <3>1. row[r] \in RowRecord
      BY DEF TypeOK, StoreType
    <3>2. CASE RowInfo[r].exec = x
      BY <1>2, <3>1, <3>2, SMT DEF EnrollTask, RowsOf, RowInv, RowRecord
    <3>3. CASE RowInfo[r].exec # x
      BY <1>2, <3>3 DEF EnrollTask, RowsOf
    <3>. QED
      BY <3>2, <3>3
  <2>. QED
    BY <2>1 DEF Met
<1>3. ASSUME NEW w \in Workers, NEW q \in Rows, Updated(w, q)
      PROVE  Met' = Met \/ (q \notin Met /\ Met' = Met \cup {q})
  <2>1. \A r \in Rows \ {q} : row'[r] = row[r]
    BY <1>3, SMT DEF Updated, TypeOK, StoreType
  <2>2. q \notin Met
    BY <1>3 DEF Updated, CanUpdate, Met
  <2>. QED
    BY <2>1, <2>2 DEF Met
<1>. QED
  BY <1>1, <1>2, <1>3, RowSteps DEF Met

LEMMA StepRefines ==
    ASSUME TypeOK, RowInv, CompletionInv, [Next]_vars
    PROVE  [Completion!Next]_<<Met, Completed, Announced>>
<1>. USE DEF Completion!Next, Completion!MeetCondition, Completion!CompleteTask,
             Completion!AnnounceTask
<1>. USE DEF db, broker, locals, history
<1>1. ASSUME UNCHANGED <<exec, announced>>
      PROVE  [Completion!Next]_<<Met, Completed, Announced>>
  <2>1. Completed' = Completed /\ Announced' = Announced
    BY <1>1 DEF Completed, Announced
  <2>. QED
    BY <2>1, MetSteps DEF Met, Completed, Announced
<1>2. ASSUME NEW x \in Execs, EnrollTask(x)
      PROVE  [Completion!Next]_<<Met, Completed, Announced>>
  <2>1. Completed' = Completed
    BY <1>2, SMT DEF EnrollTask, Completed, TypeOK, StoreType
  <2>2. Announced' = Announced
    BY <1>2 DEF EnrollTask, Announced
  <2>. QED
    BY <2>1, <2>2, MetSteps DEF Met, Completed, Announced
<1>3. ASSUME NEW w \in Workers, CompleteExecution(w)
      PROVE  [Completion!Next]_<<Met, Completed, Announced>>
  <2>1. ExecOf(w) \in Execs /\ pc[w] = "cas"
    BY <1>3, ExecOfType DEF CompleteExecution, TypeOK, CompletionSteps
  <2>2. \E conj \in ExecInfo[ExecOf(w)].expr : conj \subseteq Met
    BY <2>1, SatisfiedByMet DEF CompletionInv
  <2>3. Met' = Met /\ Announced' = Announced
    BY <1>3 DEF CompleteExecution, Met, Announced
  <2>4. \/ Completed' = Completed
        \/ ExecOf(w) \notin Completed /\ Completed' = Completed \cup {ExecOf(w)}
    BY <1>3, <2>1, SMT DEF CompleteExecution, Completed, TypeOK, StoreType
  <2>. QED
    BY <2>1, <2>2, <2>3, <2>4 DEF Met, Completed, Announced
<1>4. ASSUME NEW w \in Workers, PublishTaskCompleted(w) \/ PublishFails(w)
      PROVE  [Completion!Next]_<<Met, Completed, Announced>>
  <2>1. ExecOf(w) \in Execs /\ pc[w] = "publish"
    BY <1>4, ExecOfType DEF PublishTaskCompleted, PublishFails, TypeOK, CompletionSteps
  <2>2. ExecOf(w) \in Completed
    BY <2>1 DEF CompletionInv, Completed
  <2>3. Met' = Met /\ Completed' = Completed
    BY <1>4 DEF PublishTaskCompleted, PublishFails, Met, Completed
  <2>4. announced' = announced \/ announced' = announced \cup {Message(w)}
    BY <1>4 DEF PublishTaskCompleted, PublishFails
  <2>5. Announced' = Announced \/ Announced' = Announced \cup {ExecOf(w)}
    BY <2>1, <2>4 DEF Announced, Message
  <2>. QED
    BY <2>1, <2>2, <2>3, <2>5 DEF Met, Completed, Announced
<1>5. ASSUME NEW w \in Workers, Step(w), ~CompleteExecution(w), ~PublishTaskCompleted(w)
      PROVE  UNCHANGED <<exec, announced>>
  BY <1>5
  DEF Step, TryClaim, ListInProgress, Complete, ReadExecution, EvaluateTask, Process,
      SkipStale, RejectValue, UpdateCurrentValue, MarkConditionComplete,
      ReloadExecution, CountCompleted, Commit, Release
<1>6. ASSUME NEW w \in Workers, Fail(w), ~PublishFails(w)
      PROVE  UNCHANGED <<exec, announced>>
  BY <1>6 DEF Fail, CommitFails, StatementFails, ReleaseFails, Crash
<1>7. ASSUME NEW w \in Workers, NEW e \in Events, Deliver(w, e)
      PROVE  UNCHANGED <<exec, announced>>
  BY <1>7 DEF Deliver
<1>8. CASE UNCHANGED vars
  BY <1>1, <1>8 DEF vars
<1>. QED
  BY <1>1, <1>2, <1>3, <1>4, <1>5, <1>6, <1>7, <1>8 DEF Next

(* TaskProgress implements TaskCompletion: conditions are met for good, a task  *)
(* is completed when they satisfy its expression and announced only then.       *)
THEOREM ProgressImplementsCompletion == Spec => ImplementsCompletion
<1>1. Init => Completion!Init
  BY DEF Init, Completion!Init
<1>2. TypeOK /\ RowInv /\ CompletionInv /\ [Next]_vars => [Completion!Next]_Completion!vars
  BY StepRefines DEF Completion!vars, Met, Completed, Announced
<1>. QED
  BY <1>1, <1>2, TypeCorrect, RowInvCorrect, CompletionInvCorrect, PTL
  DEF Spec, ImplementsCompletion, Completion!Spec
================================================================================
