# A verification development of task-mservice

task-mservice keeps tasks ("trade for 1000 and deposit once"), enrols users in
them, and consumes Kafka records about orders, deposits and identity checks to
advance the users' progress; a completed task is announced on
`task.events.completed`. This directory holds TLA+ models of the parts of it in
which concurrency, failure or order matter, the TLC runs that check them, and
TLAPS proofs of their safety properties.

Paths below are relative to the repository root; `service/`, `kafka/`, `repository/`
are under `server/`.

## The system

| Part | State | Operations | Talks to |
|---|---|---|---|
| User task progress (`service/user_task_progress_service.go`, `_helpers.go`) | `task_execution_progress`, `task_condition_execution_progress`, `metric_event_dedup` | `UpdateUserTaskProgress`, `EnrollTask`, list | MySQL, Kafka producer, both caches |
| Metric rules (`_helpers.go`) | none | accumulate or set, eight operators, staleness | called by the above |
| Expression language (`_helpers.go`) | none | `ValidateTaskExpression`, evaluation of `1&(2\|3)` | called by task service and progress |
| Task service (`service/task_service.go`) | `task`, `task_condition` | `CreateTask`, `SaveTask`, `PublishTask`, list, detail | MySQL, task group service's table |
| Task group service (`service/task_group_service.go`) | `task_group` | `SaveTaskGroup`, `PublishTaskGroup`, list | MySQL |
| Kafka consumer (`kafka/listener/consumer.go`, `kafka/handler.go`) | committed offsets, the client's position, the batch in hand | poll, handle, commit | broker, event handlers |
| Event handlers (`kafka/listener/*.go`) | none | parse and validate a record, one to three metric updates | metric cache, progress service |
| Metric and operator caches (`repository/dao/data_metric_dao.go`, `metric_operator_dao.go`) | an in-memory copy of a table, in a singleton | load at first use, refresh each minute, look up | MySQL |
| Kafka producer (`kafka/producer`) | a singleton, client or no-op | synchronous publish, no-op when disabled or misconfigured | broker |
| Process (`main.go`, `http/init.go`, `grpc/init.go`, `kafka/listener/init.go`) | which parts run, the context of the consumer | start, listen, stop on a signal | all of the above |
| HTTP API (`http/api`, `http/router`), gRPC server (`grpc`) | none | authorise, decode, one service call, one answer | services |
| Reference service (`service/reference_service.go`) | none | list metrics, list operators | both caches |
| Items, configuration, telemetry, logs, client, generated code | rows nobody contends for, or none | one statement each | - |

How they interact: HTTP and gRPC requests and the consumer's goroutine call the
services, in any number of replicas, over one shared database. There is no lock
and, outside `ReplaceByTaskID` and `EnrollUserTasks`, no transaction
(`repository/init.go` sets `SkipDefaultTransaction`), so **every statement is a
step of its own** and whatever was read may be out of date when it is used. The
only concurrency control of the progress service is in its statements: the unique key
of `metric_event_dedup`, and updates whose `WHERE` names the status they expect.
The consumer commits the offset of a record after its handler returned without an
error; `main` stops without waiting for it.

What is hard, and the property that makes each part correct:

* *Progress.* Two workers complete the conditions of one task, or the tasks of
  one group, at the same time; a worker stops between any two statements; a
  record comes again. Nothing may be completed whose expression does not hold,
  a completion may not fall between two workers, an event counts once, a claim is
  not freed by somebody else, and the count in an announcement may not be short.
* *Catalogue and enrolment.* All checks are made on rows read earlier. What is
  published should stay as it is, and an execution should refer to conditions
  that exist.
* *Consumer.* Crashes, rebalances and failed commits should pass over no record;
  what does pass over one should be known exactly.
* *Expressions.* A text is run once, with nothing completed, when it is saved, and
  again with other values when a user completes a condition: what was accepted has to
  work then, and mean what was written.
* *Process.* Parts start one after the other, each using what earlier ones set up, and
  anything may end the process at any point. `main` cancels the consumer's context and
  leaves: the record in hand is cut off wherever it is. Caches fail to load, and load
  late.
* *Answers.* A service makes several statements with checks between them, while others
  change the same rows. What a caller is told should be so: a refusal changed nothing,
  what was acknowledged is there, what was listed fits together.

`PROJECT.json` lists every component, with those left out and why, and the
hazards at their lines.

## Modules

| Module | Models |
|---|---|
| `MetricRules` | The pure rules: folding a value, the operators, staleness, rounding of times |
| `TaskProgress` | `UpdateUserTaskProgress`, statement by statement, in several workers |
| `TaskCompletion` | What progress promises: an abstract specification in three actions |
| `TaskProgressProofs`, `TaskProgressCountProofs` | TLAPS proofs about `TaskProgress`: its types, completions and claims; what is counted |
| `TaskExpression` | The expression language: validation, normalisation, evaluation of a text |
| `TaskExpressionProofs`, `MCTaskAdminProofs` | TLAPS proofs about the expression language, for every text; and that they give what a run of `MCTaskAdmin` checks of short ones |
| `TaskAdmin` | Tasks, groups and enrolment, statement by statement, in several calls |
| `TaskAdminProofs`, `HttpApiProofs`, `KafkaConsumerProofs`, `ServiceProcessProofs` | TLAPS proofs about the modules they are named after |
| `HttpApi` | The HTTP and gRPC handlers over `TaskAdmin`, with the reads, and what callers are told |
| `KafkaConsumer` | The consumer group, the poll loop and the handlers |
| `ServiceProcess` | One replica from `main` to its end and again: boot, caches, signals, and the consumer under `main`'s context |
| `MCTaskProgress`, `MCTaskAdmin`, `MCKafkaConsumer`, `MCServiceProcess`, `MCHttpApi` | Small instances, and the properties that only runs check |

How they compose: `TaskAdmin` extends `TaskExpression`, `HttpApi` extends `TaskAdmin`,
`TaskProgress` extends `MetricRules` and implements `TaskCompletion`. What `TaskProgress`
leaves open about the delivery of events is `KafkaConsumer`; what both leave open about
the life of a process is `ServiceProcess`, in which each of them is a few steps.

### TaskProgress

`row`, `exec` and `claims` are the three tables; `announced` and `acked` are the
topic and the committed offsets. A worker's `pc` says which statement it is about to
make, and `snap`, `cur` and `seen` are the locals of the call: the listed rows with
what was read of them, the row whose execution is being completed, and the count it
publishes.

| Action | Code |
|---|---|
| `Deliver`, `TryClaim` | entry of `UpdateUserTaskProgress`, the insert into `metric_event_dedup` |
| `ListInProgress` | `ListInProgressByUserAndMetric`; the rows come in no order, so the loop takes them in any |
| `SkipStale`, `RejectValue`, `UpdateCurrentValue`, `MarkConditionComplete` | the four outcomes of `processConditionProgress`, each with its one `UPDATE` |
| `ReadExecution`, `EvaluateTask` | `tryCompleteTaskExecution` |
| `CompleteExecution`, `ReloadExecution` | `markTaskExecutionCompleteAndPublish` |
| `CountCompleted`, `PublishTaskCompleted` | `publishTaskCompletedEvent` |
| `Commit`, `Release` | the return without and with an error |
| `StatementFails`, `ReleaseFails`, `PublishFails`, `CommitFails`, `Crash` | every error path |

Abstractions. A value is an integer or "does not parse"; the blank value of a fresh
row is 0, the base the code gives it. A target is the set of values it lists. An
expression is its disjunctive form: a set of sets of rows. Time counts thirds of the
precision of `last_event_time`, so that the rounding the database does
(`user_task_progress_service.go:342-344`) may go either way. Tasks and conditions do
not change here (that is `TaskAdmin`), a user is enrolled in one step, and the total
number of tasks in an announcement, which is read and never compared, is left out.
Start and end time of a task and the status `Expired` are not enforced by the code and
not modelled. A write whose answer is lost is a write followed by a failure of the
next step; for the claim it is a claim followed by a crash. `Deliver` says that an
uncommitted event may be given to any idle worker: which events that is after a
failure is the subject of `KafkaConsumer`.

`added`, `finished` and `released` are history variables: no action reads them.

### TaskExpression

A text is a sequence of characters. `WellFormed` is what
`parseAndValidateTaskExpressionDSL` asks, `Tokens` the text after
`normalizeLogicalOperators` (`TokensFrom` gives them from every place on), `Value` the part
of expr-lang's grammar that such texts can reach: numbers, `&&`, `||`, parentheses, with `&&`
binding tighter (`Values` gives the value of every span of tokens, taken for a primary, a
conjunction or a disjunction). A result is a set, empty for an error. All white space is one blank. `Usable` says what the rest of the system
needs of a text: it has a value whatever is completed, is false at first and true at the
end, and completing a condition never makes it false. Such texts are the sets of
conjunctions that `TaskProgress` takes for expressions.

### TaskAdmin

A content is a list of the numbers given to the conditions and a text; `ValidContents`
are those that `validateTaskInput` accepts.
`group`, `task`, `conds`, `enrolled` are the tables. A call is a record with
the variables it still needs, `call[c].step` naming its next statement: for example
`SaveTask` reads the row and checks its status, `CheckGroup` reads the group, `SaveRow`
writes *all* columns of the row read at first (gorm's `Save`), `ReplaceConditions`
deletes and inserts in a transaction. A condition row is identified by the save that
made it, since replacing conditions gives new ids. `CutShort` is a failed statement or
a crash. Enrolment does not ask whether a task is published, as in the code. The
name of a group is not kept. `Settled` and `overlapped` are
notions of the properties: a task is settled when it is published and no call that
passed the checks earlier still writes it. The properties of settled tasks and groups are
thus what the code keeps, not that it has no race: a call that is past its checks may
write to what was published meanwhile (`Admin_publish_race`). Likewise
`StoredExpressionIsUsable` is about tasks on which no call was cut short and no two saves
overlapped.

### KafkaConsumer

The broker and the client library (franz-go) are external and modelled from their use:
a partition has at most one owner, who starts at the committed offset; a poll moves the
position past everything it returned, also when the loop drops it because the poll
reported an error (`consumer.go:80`); a commit is accepted from whoever makes it. A record is a
kind; `Updates` lists the metric updates its handler makes in order, the first error
ends the handler. Each
topic has one handler, so `invokeHandlersParallel` waits for one. The log is fixed, and
each order or deposit has an id of its own (a sender that repeats one is in `TaskProgress`).

`UpdateUserTaskProgress` returns nil also where it applies nothing, so its dealings with
`metric_event_dedup` are steps of their own:

| Action | Code |
|---|---|
| `SkipDuplicate` | the claim is there, whoever made it: the call returns nil |
| `TryClaim` | the insert, for a record with an id; without one nothing is claimed |
| `ApplyMetric`, `ApplyFails` | `applyMetricToProgresses` as one step, and its errors |
| `Release`, `ReleaseFails` | the delete of the claim after an error; an error of it is logged |
| `UpdateFails` | an unknown metric, or an error up to `TryClaim` |

A `TryClaim` whose answer is lost is a claim followed by a failing update and release.
`applied`, `abandoned` and `overtaken` are history variables: the updates made, those whose
claim a crash or a failed release left behind, and those taken for duplicates while another
member was still at them.

### ServiceProcess

`table`, `claims`, `applied` and `committed` outlive the process; everything else is in
its memory and `Exit` clears it. `main` names the next step of `main.go`:

| Action | Code |
|---|---|
| `InitConfig`, `InitDatabase`, `InitTelemetry`, `Panic` | the four calls that precede any goroutine; the first, the logger's and the second may panic, telemetry falls back to a local tracer |
| `LaunchServers`, `ServerListens`, `ServerFails` | `go grpc.Init`, `go http.Init`, and `Fatalf` in them |
| `InitListener`, `Notify`, `ReceiveSignal`, `Return` | the producer, the consumer, and the end of `main` with its deferred calls |
| `Signal`, `Kill`, `Start` | from outside: a signal before `Notify` kills |
| `FirstUse`, `LoadFromDB`, `LoadFails`, `SwapCache` | the `sync.Once` of a cache, and one round of its refresh |
| `Poll` .. `CommitFails` | one record in the consumer: look the metric up, claim, update, release after an error, commit. Each call may fail, and fails once the context is cancelled (`CallFails`) |

The Kafka section of the configuration is chosen when `listener.Init` looks at it, since
nothing looks before. The update of a user's progress is one step; one that fails may have
updated some rows (`halfway`) or none. A record needs row 1
of both reference tables; rows are added while the process runs, so an update also fails
for want of its operator. `abandoned`, the records whose claim was left behind by a stop, a
crash or a failed release, and `halfway` are history variables.

### HttpApi

A handler decodes, calls one method of a service and answers. Decoding touches nothing
shared and is one step with the first statement; every further statement is an action of
`TaskAdmin` with what the handler makes of its result. `http[c]` keeps the answers given to
the request of a client, in the three classes a caller can act on (done, refused, failed),
whether every id of the request was above zero, and two pieces of history: whether the request
has changed a table, and what its last answer said. `parsePathID` returns a nil error
for an id that is not above zero, so a handler goes on after it has answered: `BelowOne` is
such an id. The ids of the path of a request and its body are chosen freely. `IdLeft` is a
bound: a creation starts only while an unused task id is left for it.

The tables keep `updated_at` by the second, so the second of two publications within one
second changes nothing: MySQL reports no row affected, and `UpdateStatus` takes that for a
row that is not there (`task_dao.go:103`, `task_group_dao.go:80`). `NoRowAffected` lets such
a call be refused with 404, of what is published.

## Runs

All runs set `CHECK_DEADLOCK FALSE`: deliveries, saves and records are bounded, and a
system with nothing left to do stops. What must not get stuck is stated as liveness.

| Run | Question and answer |
|---|---|
| `Progress_concurrent` | Two workers, no fault: no completion, announcement or group count is lost; rows only advance; everything is committed and announced |
| `Progress_faults` | Up to two faults of any kind, repeated deliveries and a value that does not parse: what is Complete and announced is justified, claims exclude, nothing counts twice unless an error gave the claim back, and the steps are those of `TaskCompletion` |
| `Admin_concurrent` | Three calls, two saves, one cut short: what is settled is frozen, enrolled users keep its conditions, and a stored expression can be evaluated over them. Also every text of up to five characters: what is accepted can be used |
| `Consumer_faults` | Two replicas, two partitions, two faults: every record below a committed offset is accounted for, in order. The updates of a record that was handled are made, unless a crash or a failed release left a claim behind, or it was passed over while another replica was at it and that one fails |
| `Consumer_progress` | A crash, a rebalance or a failed commit keeps no record from being handled |
| `Process_lives` | Two lives, one fault, signals anywhere: nothing runs untraced or over a producer that drops messages, what a cache has it keeps, a claim without its update was left behind by a stop, a crash or a failed release, a record applies once unless an update failed halfway; a start ends in service or in the end of the process, a stop is honoured, a new row is found |
| `Http_answers` | Two requests, one failing statement, bad ids: each is answered once, a refusal changed nothing, what was acknowledged, detailed or listed is so |

`Progress_*` use one user with two tasks of a group. The first needs two conditions
(`a & b`), the second either of two (`c | d`), and each event reaches a row of either
task: two workers may thus complete the two conditions of one task, the two tasks of
the group, or the same task by different alternatives. `Progress_faults` leaves the
alternative `d` out, to afford two faults. One trade has a time that is
rounded up when it is stored. Two workers suffice for every race of the code
we know of, each of which is between a read and a write of one worker and one statement
of another. Two faults let a fault hit the handling of an earlier one (a
release that fails). `MaxTries` bounds deliveries, `MaxFaults` faults.
`Admin_concurrent` has one group, two tasks, one user: a request for a task meets two
others, which is what a check, a write and a publication between them take.
`Consumer_*` put a record that does not parse and one of an unregistered topic before
records that are handled. Of those, a deposit has two updates with claims and an identity
check one without, which is every way a delivery can find the updates of an earlier one.
`MCTaskAdmin` puts a second body before the calls: as long as nothing was called, a text
over `1 2 & | ( )` and the blank grows by one character a step, to five (no blank at
that length), which has every nesting of two operators with a missing or doubled part, a
number of two digits, and every run of operators. `AcceptedTextIsUsable` and
`DoublingChangesNothing` are about that text, `StoredExpressionIsUsable` about what the
calls make of the contents of the instance.
`Process_lives` has two records, so that one follows the record that is cut off, two
lives, so that what the first left is met by the second, and one row, absent at first. Its
sections of the configuration lack one thing each. One fault is enough for a release that
fails after its update did: the update fails without a fault as long as its operator is not
there. `Http_answers` has two clients, since a
request is compared with what one other does to it; three would only add what
`Admin_concurrent` covers for the tables.

Five runs show a disagreement between the code and what it says of itself
(`PROJECT.json`, "findings"):

| Run | What happens |
|---|---|
| `Progress_double_count` | An error after a row was updated releases the claim; the retry adds the amount a second time |
| `Progress_lost_publish` | A failed publish is never repeated: the row is Complete and no longer listed |
| `Progress_lost_update` | Two workers add to the same value: the update does not compare the value it was computed from |
| `Admin_publish_race` | `SaveTask` reads a draft, `PublishTask` publishes it, `SaveTask` writes the draft back |
| `Consumer_skipped` | A record whose handler failed is passed over by the commit of the next record |

`user_task_progress_service.go:558-561` also warns that concurrent updates of
conditions of one task race before the expression is evaluated and that reads are not
isolated. No completion is lost to that: a worker evaluates the
expression after its own row is written, so the last one sees all rows. That is the
property `NoLostCompletion`, checked in `Progress_concurrent` and proved for any number
of workers; with faults it is false, and nothing in the code repairs it.

### Fairness

`TaskProgress` assumes weak fairness of each worker's steps (a goroutine keeps running)
and of the delivery of each uncommitted event (its record is offered to some replica).
The second would be too much after an error, since the consumer goes on
to the next record; it is used in `Progress_concurrent` only, where nothing fails.
`KafkaConsumer` assumes weak fairness of starting a stopped replica, of the cache's
refresh loop, of the consumer's own steps and of the assignment of an unowned partition;
faults have no fairness and are bounded.
`ServiceProcess` assumes weak fairness of `main`'s steps, of a server that is about to
listen, and of the load and the swap of each cache, which the ticker repeats each minute. It
assumes none for the consumer, for requests or for signals: `StopIsHonoured` holds with a
consumer that hangs.

## Proofs

Every safety property that a passing run checks is also a theorem for every value of the
constants. What the constants have to satisfy are the named assumptions of the modules,
which TLC evaluates on every run; there are no others.
Each theorem follows from an inductive invariant, which TLC checked on the instance of a
run before it was proved.

| Module | Theorems | Inductive invariants |
|---|---|---|
| `TaskProgressProofs` | `TypeCorrect`, `OnlyAdvance`, `CompletionIsJustified`, `ClaimsAreExclusive`, `CompletionIsNotLost`, `AnnouncementIsNotLost`, `ProgressImplementsCompletion` | `TypeOK`, `RowInv`, `CompletionInv`, `ClaimInv`, and two for steps without a fault |
| `TaskProgressCountProofs` | `AnnouncementIsJustifiedCorrect`, `LastAnnouncementCountsAllCorrect`, `CountedOnceUnlessReleasedCorrect` | `CountInv`, `LastCountInv`, `CountedInv` |
| `TaskExpressionProofs` | `AcceptedIsUsable` | none: about every text |
| `MCTaskAdminProofs` | `DoubledMeansTheSame`, `AcceptedTextIsUsableCorrect`, `DoublingChangesNothingCorrect` | `TextOK` |
| `TaskAdminProofs` | `TypeCorrect`, `SettledTaskIsFrozenCorrect`, `SettledGroupIsFrozenCorrect`, `EnrolmentIsOfOneSaveCorrect`, `SettledEnrolmentKeepsItsConditionsCorrect`, `StoredIsAcceptedCorrect`, `StoredExpressionIsUsableCorrect` | `TypeOK /\ CallInv`, `OneSaveInv`, `SettledInv`, `StoredInv` |
| `HttpApiProofs` | `ApiTypeCorrect`, `RefusedChangedNothingCorrect`, `AnsweredOnceCorrect`, `AcknowledgedWriteStaysCorrect`, `SettledDetailIsCurrentCorrect`, `ListShowsWhatWasThereCorrect`, `ApiSettledTaskIsFrozen`, `ApiSettledGroupIsFrozen`, `ApiEnrolmentIsConsistent`, `ApiStoredExpressionIsUsable` | `AdminInv`, `RequestInv`, `ToldInv` |
| `KafkaConsumerProofs` | `TypeCorrect`, `HandledIsAppliedCorrect`, `CommittedIsAccountedForCorrect`, `AttemptedInOrderCorrect` | `TypeOK`, `AppliedInv`, `OrderInv` |
| `ServiceProcessProofs` | `TypeCorrect`, `EverythingIsTracedCorrect`, `ConsumerAnnouncesCorrect`, `MetricStaysFoundCorrect`, `ClaimIsJustifiedCorrect`, `AppliedAtMostOnceCorrect` | `TypeOK /\ BootInv`, `CacheInv`, `ClaimInv` |

The arguments.

*`TaskProgress`.* `TypeOK` is inductive and falls into the tables, the control state and
the snapshots; the last two say in which steps a worker has an event, a row and a
snapshot. `RowInv` says that a row
is there only with its execution, and that every time in the database was rounded when
it was stored: since rounding is monotone, the `WHERE` of the update keeps a time from
going back even where the stored time is below or above the event's own. This gives
`OnlyAdvance`, and with it a Complete row is frozen. Hence an expression that held when it
was evaluated still holds when the status is written. `CompletionInv` records that for
the steps in between, and gives `CompletionIsJustified` and the refinement, in which a
completion of a row, the completion of an execution and its announcement map to the three
actions of `TaskCompletion` and all other steps stutter. `ClaimInv` says that a worker
past `TryClaim` finds its pair in the table, from which exclusion follows: a second
worker can only have got past `TryClaim` if the pair was missing. The two "not lost"
theorems are inductive with `CompletionInv` once steps are restricted to those without a
fault (`NoFaultStep`): the worker that completes the last row of a conjunction is the
witness, and each step of it hands the obligation on.

*What is counted.* `CompletedInGroup` only grows, so that its cardinality, once read, is a
lower bound for good (`CountInv`). `LastCountInv` names the witness: some worker has yet to
count the group, or has a count of all that it has yet to publish, or has published one;
whoever completes another execution, and so makes a count short, has itself yet to count.
`CountedInv` says that an event that was folded into a row has its key claimed, and that
whoever holds that key cannot come to the row any more (`MayAdd`).

*`TaskAdmin`.* All checks are made on what was read earlier, so `CallInv` says what of it
still holds: a task that is about to be written is there and has not changed its group,
and what is going to be written was accepted. A settled task is one that no call past its
checks writes, and a call that starts later is refused by the status, hence it is settled
for good; a group likewise, where `SaveRow` writes back the group of the row it read.
`OneSaveInv` and `SettledInv` carry this through the two reads of an enrolment. `StoredInv`
says that, until a call is cut short, a task no two saves overlapped on has the expression
of the one call that will replace its conditions, or fits its conditions: text and
conditions are those of *one accepted body* (`StoredIsAcceptedCorrect`). What an accepted
body is good for is a fact about its text, `AcceptedIsUsable`; with both,
`StoredExpressionIsUsableCorrect` says that such a task can be evaluated and completed.

*The expression language.* `Values` and `TokensFrom` are recursive functions; their
equations (`ValuesEquation`, `TokensEquation`) and what follows from them are proved by
induction, which the library's theorem about least elements (`WFMin`) gives for *sets* of
naturals (`Induction`): on the size of a span, in which a disjunction is larger than the
same span taken for a conjunction, and on the distance from the end of a text.
`ValuesFollow` compares the values of a span under two sets of completed conditions, the
second with all numbers that the first has: if it has a value under one, it has one under the
other, and none that is true becomes false. That every token is a number of the text or one
of its other characters (`TokensTyped`) gives the two ends: nothing completed is false,
everything completed is true. Together this is `AcceptedIsUsable`: running a text once, with nothing
completed, as `ValidateTaskExpression` does, is enough. For `DoubledMeansTheSame` the
characters of a text are followed to their places in the doubled one (`PlacesOf`): numbers
keep their length and value, a doubled operator is one token, so the tokens are the same.

*`HttpApi`.* `HttpApiProofs` takes over `TaskAdminProofs` by instance, with the calls that
only read shown as idle (`AdminCall`). `ApiStepAdmin` proves that every step of a handler is then
a step of `TaskAdmin`, a stutter, or a failure that touches nothing but the count of
faults; so what is proved of `TaskAdmin` holds under the handlers, which the four `Api...`
theorems state. `RequestInv` says that an open request has neither been refused nor told
anything, and has written only if it stands before `ReplaceConditions`, which cannot be
refused: hence a refusal changed nothing. `ToldInv` says that what a call keeps to answer
with (`ReadOK`) and what was told (`ToldOK`) is in the database; each part is about
something that only `TaskAdmin`'s invariants keep from changing. A caller of
`PublishTask` whose call a save overlapped is told nothing here, as `Admin_publish_race` shows why.
One that is refused because no row was affected has changed none (`NoRowChanged`).

*`KafkaConsumer`.* `AppliedInv`: a claim is of an update that was made, was given up without
a release, or is in some member's hand (`ClaimOK`); so what a handler takes for a duplicate
need not or will not be made any more (`Met`), and that, with what the handler has left, covers
what its record asks for. `StepOf` says what a step of one member may do to what the others
rely on: an update in a hand stays there, is made or given up, or its claim goes and its record
has failed. `OrderInv`: what comes before the position of a
member is accounted for or in its hands, what comes before the record it handles is
accounted for, and it commits only a record that was handled; so every commit is safe, by
whatever owner, present or past, in whatever order.

*`ServiceProcess`.* `BootInv` says what is there by the time `main` is at a step, which gives
the two properties of the start. `CacheInv`: no row is ever deleted, so a load reads at
least what the cache has, and none loses a row. `ClaimInv`: a record without a claim was
never applied, and the one being updated was claimed by that call and not applied yet, each
but for the rows of an update that failed halfway.

Only model-checked: liveness (the prover does not reason about fairness or `ENABLED`). The
violations of the five
runs that expect one are counterexamples and need no proof.

## Plan

Done, in this order: `MetricRules`, `TaskProgress` with `TaskCompletion`, its proofs,
`TaskAdmin`, `KafkaConsumer`, `TaskExpression`, `ServiceProcess`, `HttpApi`.

The safety properties of all of them are proved. Left, in order of worth:

1. `CountedAtMostOnce` for a system in which calls are only interrupted, never in error:
   then nothing is released and `CountedOnceUnlessReleased` gives it.
2. An abstract specification of `KafkaConsumer` (a log, each record attempted in order)
   and of enrolment, with the detailed ones shown to implement them.
3. The rules of `MetricRules`, and that every usable text is the set of conjunctions that
   `TaskProgress` takes for it.

## Not modelled

* The item service and its two endpoints: one insert or one read, unconnected to tasks.
* The recovery middleware, CORS, `SayHello`, `/ping`, Swagger: no state and one answer.
* Logging, trace propagation, topic prefixes, samplers, resources and metrics of the
  telemetry: output or strings. Whether a tracer is there, and the panic of a log file
  that cannot be opened, are in `ServiceProcess`.
* The client helper (`client/`), mocks and generated code.
* A condition value that is no number, which `validateTaskInput` accepts: it fails every
  event of its metric for the users enrolled, and the code promises nothing for it.
* Start and end times of tasks, which nothing enforces.

The unique keys of `scripts/init.sql` are assumed; a database without them would enrol a
user twice. That script, taken as it is, does not create
`task_condition_execution_progress`: `init.sql:77` indexes a column `execution_id` that the
table does not have. The models take the table as the code uses it.
