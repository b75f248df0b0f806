------------------------------ MODULE TaskProgress -----------------------------
(* UpdateUserTaskProgress of service/user_task_progress_service.go: workers     *)
(* (consumer replicas of task-mservice) apply metric events to the progress     *)
(* rows of a shared database, complete task executions and announce them on     *)
(* Kafka.                                                                       *)
(*                                                                              *)
(* The code runs outside any transaction (repository/init.go sets               *)
(* SkipDefaultTransaction), so an action is one database statement or one Kafka *)
(* call with the local computation up to the next one.  Between two actions of  *)
(* a worker the others may run, the statement may fail or the worker may crash. *)
EXTENDS MetricRules, FiniteSets, Functions

CONSTANTS
    Workers,    \* replicas that consume events
    Events,     \* calls of UpdateUserTaskProgress that the Kafka records lead to
    Execs,      \* rows of task_execution_progress: a user's run of a task
    Rows,       \* rows of task_condition_execution_progress
    EventInfo,  \* [Events -> [user, metric, value, time, biz]]
    ExecInfo,   \* [Execs -> [user, group, expr]], expr in disjunctive form
    RowInfo,    \* [Rows -> [exec, metric, op, target]]
    NoBiz,      \* the biz of an event without a business id
    NoEvent,    \* the event of an idle worker
    NoRow,      \* the row of a worker that is not completing an execution
    Faults,     \* the kinds of fault that may happen
    MaxTries,   \* bound: deliveries of one event
    MaxFaults   \* bound: faults in a behaviour

FaultKinds == {"db", "publish", "commit", "crash"}

(* A task's expression is over its own conditions (ValidateTaskExpression runs  *)
(* when the task is saved) and an enrolment holds one row for each of them.     *)
ASSUME ProgressAssumption ==
    /\ NoRow \notin Rows
    /\ NoEvent \notin Events
    /\ \A e \in Events : EventInfo[e].value \in Values /\ EventInfo[e].time \in Nat
    /\ \A r \in Rows : RowInfo[r].exec \in Execs
    /\ \A x \in Execs :
          /\ {} \notin ExecInfo[x].expr
          /\ \A conj \in ExecInfo[x].expr : \A r \in conj :
                r \in Rows /\ RowInfo[r].exec = x
    /\ IsFiniteSet(Execs)
    /\ Faults \subseteq FaultKinds
    /\ MaxTries \in Nat
    /\ MaxFaults \in Nat

VARIABLES
    row,        \* task_condition_execution_progress, by row
    exec,       \* task_execution_progress.status, by row
    claims,     \* metric_event_dedup: the (metric, biz) pairs it holds
    announced,  \* messages on task.events.completed
    acked,      \* events whose offset is committed
    tries,      \* how often each event was delivered
    faults,     \* faults so far
    pc,         \* where each worker is
    ev,         \* the event each worker handles
    snap,       \* the listed rows it has still to process, as it read them
    cur,        \* the row whose execution it is completing
    seen,       \* its count of the completed tasks in the group
    added,      \* history: how often each event was folded into each row
    finished,   \* history: the events that were applied without an error
    released    \* history: the (metric, biz) pairs whose claim was given back

db      == <<row, exec, claims>>
broker  == <<announced, acked, tries>>
locals  == <<pc, ev, snap, cur, seen>>
history == <<added, finished, released>>
vars    == <<row, exec, claims, announced, acked, tries, faults, pc, ev, snap,
             cur, seen, added, finished, released>>

--------------------------------------------------------------------------------
(* Reading the database. *)

Key(e)  == <<EventInfo[e].metric, EventInfo[e].biz>>
Keyed(e) == EventInfo[e].biz # NoBiz

UserOf(r) == ExecInfo[RowInfo[r].exec].user
RowsOf(x) == {r \in Rows : RowInfo[r].exec = x}

InProgressRows(e) ==
    {r \in Rows : /\ row[r].status = "InProgress"
                  /\ UserOf(r) = EventInfo[e].user
                  /\ RowInfo[r].metric = EventInfo[e].metric}

CompletedRows(x) == {r \in RowsOf(x) : row[r].status = "Complete"}

(* Faulty: every alternative of an "|" is asked for. *)
EvaluateTaskExpression_AllAlternatives(x, completed) ==
    \A conj \in ExecInfo[x].expr : conj \subseteq completed

(* Faulty: one condition of an "&" is enough. *)
EvaluateTaskExpression_AnyCondition(x, completed) ==
    \E conj \in ExecInfo[x].expr : conj \cap completed # {}

(* The expression language has only & and | over condition numbers, so an       *)
(* expression is a set of conjunctions.                                         *)
EvaluateTaskExpression(x, completed) ==
    \E conj \in ExecInfo[x].expr : conj \subseteq completed

CompletedInGroup(x) ==
    {y \in Execs : /\ exec[y] = "Complete"
                   /\ ExecInfo[y].user = ExecInfo[x].user
                   /\ ExecInfo[y].group = ExecInfo[x].group}

EmptySnap == [r \in {} |-> NoTime]

Init ==
    /\ row  = [r \in Rows |-> [status |-> "None", value |-> 0, last |-> NoTime]]
    /\ exec = [x \in Execs |-> "None"]
    /\ claims = {}
    /\ announced = {}
    /\ acked = {}
    /\ tries = [e \in Events |-> 0]
    /\ faults = 0
    /\ pc   = [w \in Workers |-> "idle"]
    /\ ev   = [w \in Workers |-> NoEvent]
    /\ snap = [w \in Workers |-> EmptySnap]
    /\ cur  = [w \in Workers |-> NoRow]
    /\ seen = [w \in Workers |-> 0]
    /\ added = [r \in Rows |-> [e \in Events |-> 0]]
    /\ finished = {}
    /\ released = {}

--------------------------------------------------------------------------------
(* Local control of a worker. *)

Goto(w, step) == pc' = [pc EXCEPT ![w] = step]

(* UpdateUserTaskProgress returns and so does the handler. *)
Return(w) ==
    /\ Goto(w, "idle")
    /\ ev'   = [ev   EXCEPT ![w] = NoEvent]
    /\ snap' = [snap EXCEPT ![w] = EmptySnap]
    /\ cur'  = [cur  EXCEPT ![w] = NoRow]
    /\ seen' = [seen EXCEPT ![w] = 0]

(* Faulty: the loop goes on with the row of the last completion still in scope. *)
NextRow_KeepsRow(w, rest) ==
    /\ Goto(w, IF rest = {} THEN "ack" ELSE "row")
    /\ finished' = IF rest = {} THEN finished \cup {ev[w]} ELSE finished
    /\ snap' = [snap EXCEPT ![w] = Restrict(@, rest)]
    /\ seen' = [seen EXCEPT ![w] = 0]
    /\ UNCHANGED <<ev, cur>>

(* The loop of applyMetricToProgresses moves on to the rows left in `rest`. *)
NextRow(w, rest) ==
    /\ Goto(w, IF rest = {} THEN "ack" ELSE "row")
    /\ finished' = IF rest = {} THEN finished \cup {ev[w]} ELSE finished
    /\ snap' = [snap EXCEPT ![w] = Restrict(@, rest)]
    /\ cur'  = [cur EXCEPT ![w] = NoRow]
    /\ seen' = [seen EXCEPT ![w] = 0]
    /\ UNCHANGED ev

(* Faulty: the claim is released although this worker did not take it. *)
Abort_ReleasesAnyClaim(w) ==
    IF Keyed(ev[w])
        THEN /\ Goto(w, "release")
             /\ snap' = [snap EXCEPT ![w] = EmptySnap]
             /\ cur'  = [cur  EXCEPT ![w] = NoRow]
             /\ seen' = [seen EXCEPT ![w] = 0]
             /\ UNCHANGED ev
        ELSE Return(w)

(* An error leaves the loop: what was claimed has to be released. *)
Abort(w) ==
    IF Keyed(ev[w]) /\ pc[w] # "claim"
        THEN /\ Goto(w, "release")
             /\ snap' = [snap EXCEPT ![w] = EmptySnap]
             /\ cur'  = [cur  EXCEPT ![w] = NoRow]
             /\ seen' = [seen EXCEPT ![w] = 0]
             /\ UNCHANGED ev
        ELSE Return(w)

Fault(kind) ==
    /\ kind \in Faults
    /\ faults < MaxFaults
    /\ faults' = faults + 1

--------------------------------------------------------------------------------
(* EnrollTask commits an execution with its condition rows in one transaction. *)
EnrollTask(x) ==
    /\ exec[x] = "None"
    /\ exec' = [exec EXCEPT ![x] = "InProgress"]
    /\ row'  = [r \in Rows |-> IF r \in RowsOf(x)
                                THEN [row[r] EXCEPT !.status = "InProgress"]
                                ELSE row[r]]
    /\ UNCHANGED <<claims, broker, faults, locals, history>>

(* A record that is not committed is consumed, for the first time or again     *)
(* after an error, a crash or a rebalance.                                     *)
Deliver(w, e) ==
    /\ pc[w] = "idle"
    /\ e \notin acked
    /\ tries[e] < MaxTries
    /\ tries' = [tries EXCEPT ![e] = @ + 1]
    /\ ev' = [ev EXCEPT ![w] = e]
    /\ Goto(w, IF Keyed(e) THEN "claim" ELSE "list")
    /\ UNCHANGED <<db, announced, acked, faults, snap, cur, seen, history>>

(* Faulty: a duplicate pair is not noticed. *)
TryClaim_NoDuplicates(w) ==
    /\ pc[w] = "claim"
    /\ claims' = claims \cup {Key(ev[w])}
    /\ Goto(w, "list")
    /\ UNCHANGED <<row, exec, broker, faults, ev, snap, cur, seen, history>>

(* INSERT ... DO NOTHING: a pair that is already there is a duplicate event. *)
TryClaim(w) ==
    /\ pc[w] = "claim"
    /\ claims' = claims \cup {Key(ev[w])}
    /\ Goto(w, IF Key(ev[w]) \in claims THEN "ack" ELSE "list")
    /\ UNCHANGED <<row, exec, broker, faults, ev, snap, cur, seen, history>>

(* Faulty: no row to update is an error. *)
ListInProgress_NoneIsError(w) ==
    /\ pc[w] = "list"
    /\ LET listed == InProgressRows(ev[w])
       IN  IF listed = {}
           THEN Abort(w)
           ELSE /\ snap' = [snap EXCEPT ![w] = Restrict(row, listed)]
                /\ Goto(w, "row")
                /\ UNCHANGED <<ev, cur, seen>>
    /\ UNCHANGED <<db, broker, faults, history>>

ListInProgress(w) ==
    /\ pc[w] = "list"
    /\ LET listed == InProgressRows(ev[w])
       IN  /\ snap' = [snap EXCEPT ![w] = Restrict(row, listed)]
           /\ Goto(w, IF listed = {} THEN "ack" ELSE "row")
           /\ finished' = IF listed = {} THEN finished \cup {ev[w]} ELSE finished
    /\ UNCHANGED <<db, broker, faults, ev, cur, seen, added, released>>

--------------------------------------------------------------------------------
(* processConditionProgress, on any of the rows still to process: the list has *)
(* no ORDER BY.  What it decides on is the row as it was listed.               *)

Stale(w, r) == IsStaleEvent(EventInfo[ev[w]].time, snap[w][r].last)

Effective(w, r) ==
    ResolveMetricValue(EventInfo[ev[w]].metric, snap[w][r].value, EventInfo[ev[w]].value)

Valid(w, r) ==
    /\ Resolvable(EventInfo[ev[w]].metric, snap[w][r].value, EventInfo[ev[w]].value)
    /\ Evaluable(RowInfo[r].op, Effective(w, r), RowInfo[r].target)

Matched(w, r) ==
    EvaluateMetricOperator(RowInfo[r].op, Effective(w, r), RowInfo[r].target)

AtRow(w, r) == pc[w] = "row" /\ r \in DOMAIN snap[w]

SkipStale(w, r) ==
    /\ AtRow(w, r)
    /\ Stale(w, r)
    /\ NextRow(w, DOMAIN snap[w] \ {r})
    /\ UNCHANGED <<db, broker, faults, added, released>>

RejectValue(w, r) ==
    /\ AtRow(w, r)
    /\ ~Stale(w, r)
    /\ ~Valid(w, r)
    /\ Abort(w)
    /\ UNCHANGED <<db, broker, faults, history>>

(* Faulty: the status is not part of the condition. *)
CanUpdate_AnyStatus(r, time) == row[r].last <= time

(* UPDATE ... WHERE id AND status IN (active) AND last_event_time <= eventTime. *)
CanUpdate(r, time) == row[r].status = "InProgress" /\ row[r].last <= time

UpdateRow(w, r, status) ==
    LET time == EventInfo[ev[w]].time
    IN  IF CanUpdate(r, time)
        THEN /\ row' = [row EXCEPT ![r] = [status |-> status,
                                           value  |-> Effective(w, r),
                                           last   |-> StoredTime(time)]]
             /\ added' = [added EXCEPT ![r][ev[w]] = @ + 1]
        ELSE UNCHANGED <<row, added>>

(* Not matched: only the value is written, and the execution is looked at      *)
(* whether the write took effect or not.                                       *)
UpdateCurrentValue(w, r) ==
    /\ AtRow(w, r)
    /\ ~Stale(w, r)
    /\ Valid(w, r)
    /\ ~Matched(w, r)
    /\ UpdateRow(w, r, "InProgress")
    /\ snap' = [snap EXCEPT ![w] = Restrict(@, DOMAIN @ \ {r})]
    /\ cur'  = [cur EXCEPT ![w] = r]
    /\ Goto(w, "exec")
    /\ UNCHANGED <<exec, claims, broker, faults, ev, seen, finished, released>>

(* Faulty: the execution is not looked at once the condition is complete. *)
MarkConditionComplete_Only(w, r) ==
    /\ AtRow(w, r)
    /\ ~Stale(w, r)
    /\ Valid(w, r)
    /\ Matched(w, r)
    /\ UpdateRow(w, r, "Complete")
    /\ NextRow(w, DOMAIN snap[w] \ {r})
    /\ UNCHANGED <<exec, claims, broker, faults, released>>

(* Matched: value, status and time in one statement; when it misses, another   *)
(* worker took the row over and the execution is left to it.                   *)
MarkConditionComplete(w, r) ==
    /\ AtRow(w, r)
    /\ ~Stale(w, r)
    /\ Valid(w, r)
    /\ Matched(w, r)
    /\ UpdateRow(w, r, "Complete")
    /\ IF CanUpdate(r, EventInfo[ev[w]].time)
        THEN /\ snap' = [snap EXCEPT ![w] = Restrict(@, DOMAIN @ \ {r})]
             /\ cur'  = [cur EXCEPT ![w] = r]
             /\ Goto(w, "exec")
             /\ UNCHANGED <<ev, seen, finished>>
        ELSE NextRow(w, DOMAIN snap[w] \ {r})
    /\ UNCHANGED <<exec, claims, broker, faults, released>>

--------------------------------------------------------------------------------
(* tryCompleteTaskExecution and markTaskExecutionCompleteAndPublish.           *)

ExecOf(w) == RowInfo[cur[w]].exec

Rest(w) == DOMAIN snap[w]

(* Faulty: the execution is completed without a look at its expression. *)
ReadExecution_NoEvaluation(w) ==
    /\ pc[w] = "exec"
    /\ Goto(w, "cas")
    /\ UNCHANGED <<db, broker, faults, ev, snap, cur, seen, history>>

ReadExecution(w) ==
    /\ pc[w] = "exec"
    /\ IF exec[ExecOf(w)] = "InProgress"
        THEN /\ Goto(w, "eval")
             /\ UNCHANGED <<ev, snap, cur, seen, finished>>
        ELSE NextRow(w, Rest(w))
    /\ UNCHANGED <<db, broker, faults, added, released>>

EvaluateTask(w) ==
    /\ pc[w] = "eval"
    /\ IF EvaluateTaskExpression(ExecOf(w), CompletedRows(ExecOf(w)))
        THEN /\ Goto(w, "cas")
             /\ UNCHANGED <<ev, snap, cur, seen, finished>>
        ELSE NextRow(w, Rest(w))
    /\ UNCHANGED <<db, broker, faults, added, released>>

(* Faulty: the worker whose update took effect does not publish. *)
CompleteExecution_NoPublish(w) ==
    /\ pc[w] = "cas"
    /\ exec' = [exec EXCEPT ![ExecOf(w)] = "Complete"]
    /\ NextRow(w, Rest(w))
    /\ UNCHANGED <<row, claims, broker, faults, added, released>>

(* Faulty: the completed tasks are counted before this one is. *)
CompleteExecution_CountsBefore(w) ==
    /\ pc[w] = "cas"
    /\ IF exec[ExecOf(w)] = "InProgress"
        THEN /\ exec' = [exec EXCEPT ![ExecOf(w)] = "Complete"]
             /\ seen' = [seen EXCEPT ![w] = Cardinality(CompletedInGroup(ExecOf(w)))]
             /\ Goto(w, "publish")
        ELSE /\ Goto(w, "reload")
             /\ UNCHANGED <<exec, seen>>
    /\ UNCHANGED <<row, claims, broker, faults, ev, snap, cur, history>>

(* UPDATE ... SET status = Complete WHERE id AND status IN (Init, InProgress). *)
CompleteExecution(w) ==
    /\ pc[w] = "cas"
    /\ IF exec[ExecOf(w)] = "InProgress"
        THEN /\ exec' = [exec EXCEPT ![ExecOf(w)] = "Complete"]
             /\ Goto(w, "count")
        ELSE /\ Goto(w, "reload")
             /\ UNCHANGED exec
    /\ UNCHANGED <<row, claims, broker, faults, ev, snap, cur, seen, history>>

ReloadExecution(w) ==
    /\ pc[w] = "reload"
    /\ IF exec[ExecOf(w)] = "Complete"
        THEN /\ Goto(w, "count")
             /\ UNCHANGED <<ev, snap, cur, seen, finished>>
        ELSE NextRow(w, Rest(w))
    /\ UNCHANGED <<db, broker, faults, added, released>>

CountCompleted(w) ==
    /\ pc[w] = "count"
    /\ seen' = [seen EXCEPT ![w] = Cardinality(CompletedInGroup(ExecOf(w)))]
    /\ Goto(w, "publish")
    /\ UNCHANGED <<db, broker, faults, ev, snap, cur, history>>

Message(w) == [exec |-> ExecOf(w), completed |-> seen[w]]

PublishTaskCompleted(w) ==
    /\ pc[w] = "publish"
    /\ announced' = announced \cup {Message(w)}
    /\ NextRow(w, Rest(w))
    /\ UNCHANGED <<db, acked, tries, faults, added, released>>

--------------------------------------------------------------------------------
(* The end of a call, and what may go wrong in it. *)

Commit(w) ==
    /\ pc[w] = "ack"
    /\ acked' = acked \cup {ev[w]}
    /\ Return(w)
    /\ UNCHANGED <<db, announced, tries, faults, history>>

Release(w) ==
    /\ pc[w] = "release"
    /\ claims' = claims \ {Key(ev[w])}
    /\ released' = released \cup {Key(ev[w])}
    /\ Return(w)
    /\ UNCHANGED <<row, exec, broker, faults, added, finished>>

(* A failed commit is only logged: the record will come again. *)
CommitFails(w) ==
    /\ Fault("commit")
    /\ pc[w] = "ack"
    /\ Return(w)
    /\ UNCHANGED <<db, broker, history>>

(* A statement fails: the error goes up to UpdateUserTaskProgress. *)
StatementFails(w) ==
    /\ Fault("db")
    /\ pc[w] \in {"claim", "list", "row", "exec", "eval", "cas", "reload", "count"}
    /\ Abort(w)
    /\ UNCHANGED <<db, broker, history>>

(* A failed release is only logged: the claim stays. *)
ReleaseFails(w) ==
    /\ Fault("db")
    /\ pc[w] = "release"
    /\ Return(w)
    /\ UNCHANGED <<db, broker, history>>

(* ProduceSync reports an error; the broker may have the message or not. *)
PublishFails(w) ==
    /\ Fault("publish")
    /\ pc[w] = "publish"
    /\ announced' \in {announced, announced \cup {Message(w)}}
    /\ Abort(w)
    /\ UNCHANGED <<db, acked, tries, history>>

(* The process stops: main returns without waiting for the consumer. *)
Crash(w) ==
    /\ Fault("crash")
    /\ pc[w] # "idle"
    /\ Return(w)
    /\ UNCHANGED <<db, broker, history>>

--------------------------------------------------------------------------------

Process(w, r) ==
    \/ SkipStale(w, r)
    \/ RejectValue(w, r)
    \/ UpdateCurrentValue(w, r)
    \/ MarkConditionComplete(w, r)

Complete(w) ==
    \/ ReadExecution(w)
    \/ EvaluateTask(w)
    \/ CompleteExecution(w)
    \/ ReloadExecution(w)
    \/ CountCompleted(w)
    \/ PublishTaskCompleted(w)

Step(w) ==
    \/ TryClaim(w)
    \/ ListInProgress(w)
    \/ \E r \in Rows : Process(w, r)
    \/ Complete(w)
    \/ Commit(w)
    \/ Release(w)

Fail(w) ==
    \/ CommitFails(w)
    \/ StatementFails(w)
    \/ ReleaseFails(w)
    \/ PublishFails(w)
    \/ Crash(w)

Next ==
    \/ \E x \in Execs : EnrollTask(x)
    \/ \E w \in Workers, e \in Events : Deliver(w, e)
    \/ \E w \in Workers : Step(w) \/ Fail(w)

Spec == Init /\ [][Next]_vars

(* A replica's goroutine keeps running, and a record that is not committed     *)
(* keeps being offered to some replica.                                        *)
Fairness ==
    /\ \A w \in Workers : WF_vars(Step(w))
    /\ \A e \in Events : WF_vars(\E w \in Workers : Deliver(w, e))

FairSpec == Spec /\ Fairness

--------------------------------------------------------------------------------
(* Types: every variable has the shape its comment gives, and a worker's       *)
(* locals are set exactly where the code has them in scope.                    *)

RowRecord == [status : {"None", "InProgress", "Complete"},
              value  : Values,
              last   : Int]

CompletionSteps == {"exec", "eval", "cas", "reload", "count", "publish"}

Steps == {"idle", "claim", "list", "row", "release", "ack"} \cup CompletionSteps

StoreType ==
    /\ row \in [Rows -> RowRecord]
    /\ exec \in [Execs -> {"None", "InProgress", "Complete"}]
    /\ claims \subseteq {Key(e) : e \in Events}
    /\ announced \subseteq [exec : Execs, completed : Nat]
    /\ acked \subseteq Events
    /\ tries \in [Events -> 0..MaxTries]
    /\ faults \in 0..MaxFaults
    /\ added \in [Rows -> [Events -> Nat]]
    /\ finished \subseteq Events
    /\ released \subseteq {Key(e) : e \in Events}

ControlType ==
    /\ pc \in [Workers -> Steps]
    /\ ev \in [Workers -> Events \cup {NoEvent}]
    /\ cur \in [Workers -> Rows \cup {NoRow}]
    /\ seen \in [Workers -> Nat]
    /\ \A w \in Workers : /\ ev[w] = NoEvent <=> pc[w] = "idle"
                          /\ cur[w] = NoRow <=> pc[w] \notin CompletionSteps

SnapType ==
    /\ DOMAIN snap = Workers
    /\ \A w \in Workers : /\ DOMAIN snap[w] \subseteq Rows
                          /\ snap[w] \in [DOMAIN snap[w] -> RowRecord]
                          /\ pc[w] \notin {"row"} \cup CompletionSteps => DOMAIN snap[w] = {}

TypeOK == StoreType /\ ControlType /\ SnapType

--------------------------------------------------------------------------------
(* Safety, whatever faults happen. *)

(* An expression holds when the rows of one of its conjunctions are Complete. *)
Satisfied(x) ==
    \E conj \in ExecInfo[x].expr : \A r \in conj : row[r].status = "Complete"

(* A task execution is Complete only if its condition expression holds in the  *)
(* database: the rows are read at one step and the status is written at a      *)
(* later one, and nothing in between may undo what was read.                   *)
CompleteIsJustified ==
    \A x \in Execs : exec[x] = "Complete" => Satisfied(x)

(* A completion message names a Complete execution, and the count of completed *)
(* tasks it carries was true when it was taken: never less than the task it    *)
(* announces, never more than what the database shows later.                   *)
AnnouncementIsJustified ==
    \A m \in announced :
        /\ exec[m.exec] = "Complete"
        /\ m.completed \in 1..Cardinality(CompletedInGroup(m.exec))

(* A worker is past TryClaim and has not returned from UpdateUserTaskProgress. *)
Holds(w) ==
    /\ pc[w] \in {"list", "row", "release"} \cup CompletionSteps
    /\ Keyed(ev[w])

(* A (metric, biz) pair is worked on by one worker at a time, however the      *)
(* record is redelivered and whoever crashes: no release frees the claim of    *)
(* another worker.                                                             *)
ClaimIsExclusive ==
    \A w1, w2 \in Workers :
        Holds(w1) /\ Holds(w2) /\ Key(ev[w1]) = Key(ev[w2]) => w1 = w2

(* A Complete row is never written again, a row's last event time never goes   *)
(* back (rounding included), and a completed execution stays completed.        *)
RowsOnlyAdvance ==
    [][/\ \A r \in Rows : /\ row[r].status = "Complete" => row'[r] = row[r]
                          /\ row[r].last <= row'[r].last
       /\ \A x \in Execs : exec[x] = "Complete" => exec'[x] = "Complete"]_vars

(* A worker takes steps of the abstract service only: a row is completed once,  *)
(* an execution only when its expression holds at that very moment, although    *)
(* the expression was evaluated earlier, and only then is it announced.         *)
Completion == INSTANCE TaskCompletion WITH
    Tasks      <- Execs,
    Conditions <- Rows,
    Expr       <- [x \in Execs |-> ExecInfo[x].expr],
    met        <- {r \in Rows : row[r].status = "Complete"},
    completed  <- {x \in Execs : exec[x] = "Complete"},
    announced  <- {x \in Execs : \E m \in announced : m.exec = x}

ImplementsCompletion == Completion!Spec

--------------------------------------------------------------------------------
(* Safety as long as nothing failed. *)

(* However the conditions of a task are completed by concurrent workers, one   *)
(* of them sees them all: an execution whose expression holds is Complete or   *)
(* some worker is on its way to complete it.                                   *)
NoLostCompletion ==
    faults = 0 =>
        \A x \in Execs : Satisfied(x) /\ exec[x] # "Complete" =>
            \E w \in Workers : pc[w] \in {"exec", "eval", "cas"} /\ ExecOf(w) = x

(* A Complete execution is announced or some worker is on its way to do it.    *)
NoLostAnnouncement ==
    faults = 0 =>
        \A x \in Execs : exec[x] = "Complete" =>
            \/ \E m \in announced : m.exec = x
            \/ \E w \in Workers : pc[w] \in {"count", "publish"} /\ ExecOf(w) = x

SameGroup(x, y) ==
    /\ ExecInfo[x].user  = ExecInfo[y].user
    /\ ExecInfo[x].group = ExecInfo[y].group

(* When the workers that complete tasks of a group are done, some message      *)
(* carries the count of all the tasks completed in it: the consumer that waits *)
(* for completed = total is not left waiting by two counts taken too early.    *)
LastAnnouncementCountsAll ==
    faults = 0 =>
        \A x \in Execs : exec[x] = "Complete" =>
            \/ \E w \in Workers : /\ pc[w] \in {"count", "publish"}
                                  /\ SameGroup(ExecOf(w), x)
            \/ \E m \in announced :
                   /\ SameGroup(m.exec, x)
                   /\ m.completed = Cardinality(CompletedInGroup(x))

--------------------------------------------------------------------------------
(* Safety of the claims.                                                        *)

(* The events that were folded into a row. *)
Counted(r) == {e \in Events : added[r][e] > 0}

CountedOnce(r, e) ==
    /\ added[r][e] = 1
    /\ \A f \in Counted(r) : Key(f) = Key(e) => f = e

(* A business event reaches a row at most once, in whatever records and however *)
(* often it is delivered, as long as no call is cut short by an error.          *)
CountedAtMostOnce == \A r \in Rows : \A e \in Counted(r) : Keyed(e) => CountedOnce(r, e)

(* The same whatever crashes, failed commits and failed messages there are,     *)
(* unless an error made the service release the claim.                          *)
CountedOnceUnlessReleased ==
    \A r \in Rows : \A e \in Counted(r) :
        Keyed(e) /\ Key(e) \notin released => CountedOnce(r, e)

--------------------------------------------------------------------------------
(* Liveness of a system in which nothing fails.                                 *)

(* Every event is eventually consumed for good. *)
EveryEventIsCommitted == \A e \in Events : <>[](e \in acked)

(* A task whose conditions are met is eventually announced as completed. *)
SatisfiedIsAnnounced ==
    \A x \in Execs : Satisfied(x) ~> \E m \in announced : m.exec = x
================================================================================
