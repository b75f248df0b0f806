-------------------------------- MODULE HttpApi --------------------------------
(* What callers are told: the HTTP handlers of http/api behind the middleware   *)
(* of http/router, and EnrollTask of grpc/grpc_service.go, over the calls of    *)
(* TaskAdmin and the reads that TaskAdmin leaves out.                           *)
(*                                                                              *)
(* A handler decodes its request, calls one method of a service and turns what  *)
(* that returns into an answer.  Decoding touches nothing shared, so that it is *)
(* one step with the first statement of the service.                            *)
EXTENDS TaskAdmin, Functions

CONSTANT
    BelowOne    \* an id that is a number and not above zero

ASSUME ApiAssumption == BelowOne \notin Groups \cup Tasks \cup Users

VARIABLE
    http        \* the request of each client and what it was told: [answers,
                \* open, sound, changed, told]; changed and told are history

apiVars == <<vars, http>>

service == <<db, call, counts, history>>

--------------------------------------------------------------------------------

(* The answers, by what they say of the request: 200 and OK; 400, 401, 403 and  *)
(* 404, INVALID_PARAM and DATA_NOT_EXIST; 500 and UNKNOWN_ERROR.                *)
Done    == "done"
Refusal == "refused"
Failure == "failed"

NothingTold == [kind |-> "nothing"]

NoRequest == [answers |-> <<>>, open |-> FALSE, sound |-> TRUE, changed |-> FALSE,
              told |-> NothingTold]

ApiInit ==
    /\ Init
    /\ http = [c \in Clients |-> NoRequest]

Refused(ids) == [n \in 1..Cardinality({i \in DOMAIN ids : ids[i] = BelowOne}) |-> Refusal]

(* parsePathID writes 400 for a number that is not above zero, but returns no   *)
(* error: the handler goes on with id 0, and answers again.                     *)
Opened(ids) ==
    [NoRequest EXCEPT !.open = TRUE,
                      !.answers = Refused(ids),
                      !.sound = Refused(ids) = <<>>]

(* c.JSON, and the return of the handler. *)
Answer(c, h, a, told) ==
    http' = [http EXCEPT ![c] = [h EXCEPT !.answers = Append(@, a),
                                          !.open = FALSE,
                                          !.changed = @ \/ db' # db,
                                          !.told = told]]

GoOn(c, h) == http' = [http EXCEPT ![c] = [h EXCEPT !.changed = @ \/ db' # db]]

(* The first statement of a service is also its last. *)
AnswerAtOnce(c, ids, a) ==
    /\ At(c, "idle")
    /\ UNCHANGED service
    /\ Answer(c, Opened(ids), a, NothingTold)

StatusOf(row, S, id) == IF id \in S THEN row[id] ELSE "None"

GroupStatus(g) == StatusOf(group, Groups, g)

TaskStatus(t) == StatusOf([s \in Tasks |-> task[s].status], Tasks, t)

InGroup(t, g) == TaskStatus(t) # "None" /\ task[t].group = g

--------------------------------------------------------------------------------
(* Before the service. *)

(* commonauth.RequireRole and RequireUser, external. *)
AuthFails(c) == AnswerAtOnce(c, <<>>, Refusal)

(* After the ids that are numbers comes one that is not, or a body that does    *)
(* not bind to its struct; or the status that is asked for is unknown.          *)
DecodeFails(c) ==
    \E ids \in {<<>>, <<BelowOne>>, <<BelowOne, BelowOne>>} : AnswerAtOnce(c, ids, Refusal)

(* The first statement of a service fails: ErrServerError is none of the texts  *)
(* that writeServiceError looks for.                                            *)
FirstStatementFails(c) ==
    /\ At(c, "idle")
    /\ faults < MaxFaults
    /\ faults' = faults + 1
    /\ UNCHANGED <<db, call, saves, history>>
    /\ Answer(c, Opened(<<>>), Failure, NothingTold)

--------------------------------------------------------------------------------
(* The handlers, each up to the first statement of its service. *)

HttpCreateTaskGroup(c, g) ==
    /\ CreateTaskGroup(c, g)
    /\ Answer(c, Opened(<<>>), Done, NothingTold)

(* The id is in the body; a name has to be, or the body does not bind. *)
HttpSaveTaskGroup(c, g) ==
    \/ GroupStatus(g) = "None" /\ AnswerAtOnce(c, <<>>, Refusal)
    \/ GroupStatus(g) = "Published" /\ AnswerAtOnce(c, <<>>, Refusal)
    \/ SaveTaskGroup(c, g) /\ GoOn(c, Opened(<<>>))

(* Looks at the id itself, and returns when it is bad. *)
HttpPublishTaskGroup(c, g) ==
    \/ GroupStatus(g) = "None" /\ AnswerAtOnce(c, <<>>, Refusal)
    \/ GroupStatus(g) = "Published" /\ AnswerAtOnce(c, <<>>, Done)
    \/ PublishTaskGroup(c, g) /\ GoOn(c, Opened(<<>>))

(* Bound: a task that is created will find an id. *)
IdLeft ==
    Cardinality({c \in Clients : At(c, "insert")}) < Cardinality({t \in Tasks : ~Exists(t)})

(* The group is looked at before the input. *)
HttpCreateTask(c, g, content) ==
    \/ GroupStatus(g) = "None" /\ AnswerAtOnce(c, <<g>>, Refusal)
    \/ GroupStatus(g) = "Published" /\ AnswerAtOnce(c, <<g>>, Refusal)
    \/ GroupStatus(g) = "Draft" /\ content \notin ValidContents /\ AnswerAtOnce(c, <<g>>, Refusal)
    \/ g \in Groups /\ IdLeft /\ CreateTask(c, g, content) /\ GoOn(c, Opened(<<g>>))

(* Faulty: the task is looked up without the group. *)
HttpSaveTask_AnyGroup(c, g, t, content) ==
    \/ content \notin ValidContents /\ AnswerAtOnce(c, <<g, t>>, Refusal)
    \/ content \in ValidContents /\ TaskStatus(t) = "None" /\ AnswerAtOnce(c, <<g, t>>, Refusal)
    \/ content \in ValidContents /\ TaskStatus(t) = "Published"
        /\ AnswerAtOnce(c, <<g, t>>, Refusal)
    \/ t \in Tasks /\ SaveTask(c, t, content) /\ GoOn(c, Opened(<<g, t>>))

(* The input is looked at before the task. *)
HttpSaveTask(c, g, t, content) ==
    \/ content \notin ValidContents /\ AnswerAtOnce(c, <<g, t>>, Refusal)
    \/ content \in ValidContents /\ ~InGroup(t, g) /\ AnswerAtOnce(c, <<g, t>>, Refusal)
    \/ content \in ValidContents /\ InGroup(t, g) /\ TaskStatus(t) = "Published"
        /\ AnswerAtOnce(c, <<g, t>>, Refusal)
    \/ InGroup(t, g) /\ SaveTask(c, t, content) /\ GoOn(c, Opened(<<g, t>>))

HttpPublishTask(c, t) ==
    \/ TaskStatus(t) = "None" /\ AnswerAtOnce(c, <<t>>, Refusal)
    \/ TaskStatus(t) = "Published" /\ AnswerAtOnce(c, <<t>>, Done)
    \/ t \in Tasks /\ PublishTask(c, t) /\ GoOn(c, Opened(<<t>>))

(* validateEnrollTaskRequest: a user, and either a task or a group. *)
GrpcEnrollTask(c, u, t, g) ==
    \/ /\ u \notin Users \/ (t \in Tasks <=> g \in Groups)
       /\ AnswerAtOnce(c, <<>>, Refusal)
    \/ /\ u \in Users /\ g \notin Groups /\ t \in Tasks
       /\ \/ TaskStatus(t) = "None" /\ AnswerAtOnce(c, <<>>, Refusal)
          \/ EnrollSingleTask(c, u, t) /\ GoOn(c, Opened(<<>>))
    \/ /\ u \in Users /\ g \in Groups /\ t \notin Tasks
       /\ \/ GroupStatus(g) = "None" /\ AnswerAtOnce(c, <<>>, Refusal)
          \/ EnrollGroup(c, u, g) /\ GoOn(c, Opened(<<>>))

--------------------------------------------------------------------------------
(* The calls that only read. *)

Reads(c, local, h) ==
    /\ At(c, "idle")
    /\ Become(c, local)
    /\ UNCHANGED <<db, counts, history>>
    /\ GoOn(c, h)

GetTaskDetail(c, g, t) ==
    \/ ~InGroup(t, g) /\ AnswerAtOnce(c, <<g, t>>, Refusal)
    \/ /\ InGroup(t, g)
       /\ Reads(c, [step |-> "detail", task |-> t, row |-> task[t],
                    settled |-> Settled(t)], Opened(<<g, t>>))

(* ListByTaskID, after the row: the two need not fit each other. *)
BuildTaskVO(c) ==
    /\ At(c, "detail")
    /\ Return(c)
    /\ UNCHANGED <<db, counts, history>>
    /\ Answer(c, http[c], Done,
              IF call[c].settled
                THEN [kind |-> "detail", task |-> call[c].task, row |-> call[c].row,
                      conds |-> ConditionsOf(call[c].task)]
                ELSE NothingTold)

Published(g) == {t \in TasksOf(g) : task[t].status = "Published"}

EnrolledIn(u) == {t \in Tasks : enrolled[u][t] # {}}

(* ListTasksByGroupID, and ListUserTaskProgressInGroup for the tasks of a user; *)
(* what is there at the start is kept for the properties.                       *)
ListTasksByGroup(c, g) ==
    \/ GroupStatus(g) = "None" /\ AnswerAtOnce(c, <<g>>, Refusal)
    \/ /\ GroupStatus(g) # "None"
       /\ Reads(c, [step |-> "tasks", group |-> g, had |-> TasksOf(g)], Opened(<<g>>))

ListTasksByGroupID(c) ==
    /\ At(c, "tasks")
    /\ Return(c)
    /\ UNCHANGED <<db, counts, history>>
    /\ Answer(c, http[c], Done, [kind |-> "list",
                                  missing |-> call[c].had \ TasksOf(call[c].group)])

ListUserTaskProgress(c, g, u) ==
    \/ BelowOne \in {g, u} /\ AnswerAtOnce(c, <<g, u>>, Refusal)
    \/ /\ BelowOne \notin {g, u} /\ GroupStatus(g) = "None"
       /\ AnswerAtOnce(c, <<g, u>>, Refusal)
    \/ /\ BelowOne \notin {g, u} /\ GroupStatus(g) # "None"
       /\ Reads(c, [step |-> "published", group |-> g, user |-> u,
                    settled |-> {t \in Published(g) : Settled(t)},
                    had |-> EnrolledIn(u)], Opened(<<g, u>>))

ListPublished(c) ==
    /\ At(c, "published")
    /\ Become(c, [step |-> "progress", tasks |-> Published(call[c].group),
                  user |-> call[c].user, settled |-> call[c].settled,
                  had |-> call[c].had])
    /\ UNCHANGED <<db, counts, history>>
    /\ GoOn(c, http[c])

(* What of `settled` is not among the tasks listed, and what of `had` is among  *)
(* them and not listed as started.                                              *)
MissingOf(l, tasks, started) == (l.settled \ tasks) \cup ((l.had \cap tasks) \ started)

(* Faulty: a task without an execution of the user is left out. *)
JoinProgress_Inner(c) ==
    /\ At(c, "progress")
    /\ Return(c)
    /\ UNCHANGED <<db, counts, history>>
    /\ LET started == call[c].tasks \cap EnrolledIn(call[c].user)
       IN  Answer(c, http[c], Done,
                  [kind |-> "list", missing |-> MissingOf(call[c], started, started)])

(* A task without an execution of the user is listed as Init. *)
JoinProgress(c) ==
    /\ At(c, "progress")
    /\ Return(c)
    /\ UNCHANGED <<db, counts, history>>
    /\ LET started == call[c].tasks \cap EnrolledIn(call[c].user)
       IN  Answer(c, http[c], Done,
                  [kind |-> "list", missing |-> MissingOf(call[c], call[c].tasks, started)])

(* ListTaskGroups, ListDataMetrics and ListDataMetricOperators: one read. *)
OneRead(c) == AnswerAtOnce(c, <<>>, Done)

--------------------------------------------------------------------------------
(* The further statements of a service, and the answer after the last. *)

Ends(c) == call'[c] = Idle

FinishSaveGroup(c) ==
    /\ SaveGroupRow(c)
    /\ Answer(c, http[c], Done, NothingTold)

(* Published by another call within the same second, the row already has the    *)
(* status and updated_at that are set: no row is affected, and what a service   *)
(* takes that for is a row that is not there.                                   *)
NoRowAffected(c) ==
    \/ At(c, "publishGroup") /\ group[call[c].group] = "Published"
    \/ At(c, "publishTask") /\ task[call[c].task].status = "Published"

FinishPublishGroup(c) ==
    /\ UpdateGroupStatus(c)
    /\ \/ Answer(c, http[c], Done, NothingTold)
       \/ NoRowAffected(c) /\ Answer(c, http[c], Refusal, NothingTold)

GoOnInsert(c) ==
    /\ \E t \in Tasks : InsertTask(c, t)
    /\ GoOn(c, http[c])

(* Faulty: an error of validateTaskGroupWritable is returned without an answer. *)
AnswerCheckGroup_Silent(c) ==
    /\ CheckGroup(c)
    /\ GoOn(c, http[c])

AnswerCheckGroup(c) ==
    /\ CheckGroup(c)
    /\ IF Ends(c) THEN Answer(c, http[c], Refusal, NothingTold) ELSE GoOn(c, http[c])

(* Faulty: the answer is given before the conditions are replaced. *)
GoOnSave_Early(c) ==
    /\ SaveRow(c)
    /\ Answer(c, http[c], Done, [kind |-> "saved", task |-> call[c].task])

GoOnSave(c) ==
    /\ SaveRow(c)
    /\ GoOn(c, http[c])

FinishSave(c) ==
    /\ ReplaceConditions(c)
    /\ Answer(c, http[c], Done, [kind |-> "saved", task |-> call[c].task])

(* A save that read the row before writes it back: nobody is told. *)
FinishPublish(c) ==
    /\ UpdateTaskStatus(c)
    /\ \/ Answer(c, http[c], Done,
                 IF \E d \in Clients : Writes(d, call[c].task) THEN NothingTold
                 ELSE [kind |-> "published", task |-> call[c].task])
       \/ NoRowAffected(c) /\ Answer(c, http[c], Refusal, NothingTold)

AnswerListTasks(c) ==
    /\ ListTasks(c)
    /\ IF Ends(c) THEN Answer(c, http[c], Refusal, NothingTold)
                  ELSE GoOn(c, http[c])

AnswerLoadConditions(c) ==
    /\ LoadConditions(c)
    /\ IF Ends(c) THEN Answer(c, http[c], Refusal, NothingTold)
                  ELSE GoOn(c, http[c])

(* Faulty: a duplicate is taken for success. *)
FinishEnroll_DuplicateIsOK(c) ==
    /\ EnrollUserTasks(c)
    /\ Answer(c, http[c], Done, [kind |-> "enrolled", user |-> call[c].user,
                                 rows |-> call[c].rows])

FinishEnroll(c) ==
    /\ EnrollUserTasks(c)
    /\ IF DuplicateEnrolment(call[c].user, DOMAIN call[c].rows)
        THEN Answer(c, http[c], Refusal, NothingTold)
        ELSE Answer(c, http[c], Done, [kind |-> "enrolled", user |-> call[c].user,
                                       rows |-> call[c].rows])

(* A later statement fails, with what was written before it left there. *)
StatementFails(c) ==
    /\ CutShort(c)
    /\ Answer(c, http[c], Failure, NothingTold)

--------------------------------------------------------------------------------

MayBe(S) == S \cup {BelowOne}

Receive(c) ==
    \/ AuthFails(c)
    \/ DecodeFails(c)
    \/ FirstStatementFails(c)
    \/ OneRead(c)
    \/ \E g \in Groups :
        \/ HttpCreateTaskGroup(c, g)
        \/ HttpSaveTaskGroup(c, g)
        \/ HttpPublishTaskGroup(c, g)
    \/ \E g \in MayBe(Groups) :
        \/ ListTasksByGroup(c, g)
        \/ \E u \in MayBe(Users) : ListUserTaskProgress(c, g, u)
        \/ \E content \in Contents : HttpCreateTask(c, g, content)
        \/ \E t \in MayBe(Tasks) :
            \/ GetTaskDetail(c, g, t)
            \/ \E content \in Contents : HttpSaveTask(c, g, t, content)
            \/ \E u \in MayBe(Users) : GrpcEnrollTask(c, u, t, g)
    \/ \E t \in MayBe(Tasks) : HttpPublishTask(c, t)

Serve(c) ==
    \/ BuildTaskVO(c)
    \/ ListTasksByGroupID(c)
    \/ ListPublished(c)
    \/ JoinProgress(c)
    \/ FinishSaveGroup(c)
    \/ FinishPublishGroup(c)
    \/ GoOnInsert(c)
    \/ AnswerCheckGroup(c)
    \/ GoOnSave(c)
    \/ FinishSave(c)
    \/ FinishPublish(c)
    \/ AnswerListTasks(c)
    \/ AnswerLoadConditions(c)
    \/ FinishEnroll(c)

ApiNext == \E c \in Clients : Receive(c) \/ Serve(c) \/ StatementFails(c)

ApiSpec == ApiInit /\ [][ApiNext]_apiVars

--------------------------------------------------------------------------------

(* A request is open as long as a service works on it, and the statuses are     *)
(* those of http/data, writeServiceError and taskpb.ErrorCode.                  *)
ApiTypeOK ==
    \A c \in Clients :
        /\ http[c].open <=> ~At(c, "idle")
        /\ http[c].answers \in Seq({Done, Refusal, Failure})
        /\ Len(http[c].answers) <= 3
        /\ http[c].sound \in BOOLEAN
        /\ http[c].changed \in BOOLEAN

(* writeServiceError and the codes of EnrollTask tell a caller that its request *)
(* was refused, which it will take for "nothing happened".  Although the checks *)
(* of a service are spread over its statements, and a handler goes on after     *)
(* parsePathID has refused an id, no request that is ever answered with a       *)
(* refusal changes a table, before or after the answer.                         *)
RefusedChangedNothing ==
    \A c \in Clients : Refusal \in Range(http[c].answers) => ~http[c].changed

(* Every path of a handler answers exactly once, unless an id of the path is    *)
(* not above zero: parsePathID then answers for itself, and the service after   *)
(* it.  The status is the first answer, which then is 400.                      *)
AnsweredOnce ==
    \A c \in Clients : LET h == http[c] IN
        IF h.sound THEN Len(h.answers) = IF h.open \/ h = NoRequest THEN 0 ELSE 1
        ELSE h.answers[1] = Refusal

(* What a caller was told was done is there, whatever others do to it, for as   *)
(* long as it is remembered: a task that was saved has conditions, a task that  *)
(* was published by a call that no save overlapped is published, and the        *)
(* progress rows whose ids EnrollTask answered are those of the user.           *)
AcknowledgedWriteStays ==
    \A c \in Clients : LET told == http[c].told IN
        /\ told.kind = "saved" => Exists(told.task) /\ ConditionsOf(told.task) # {}
        /\ told.kind = "published" => Settled(told.task)
        /\ told.kind = "enrolled" =>
                \A t \in DOMAIN told.rows : enrolled[told.user][t] = told.rows[t]

(* GetTaskDetail reads a task and then its conditions.  If the task was settled *)
(* when it was read, the detail fits together and stays what the task is.       *)
SettledDetailIsCurrent ==
    \A c \in Clients : LET told == http[c].told IN
        told.kind = "detail" =>
            told.row = task[told.task] /\ told.conds = ConditionsOf(told.task)

(* A list is read after its group, and progresses after the tasks they are      *)
(* joined to: what was there when the request came is in the answer.            *)
ListShowsWhatWasThere ==
    \A c \in Clients : LET told == http[c].told IN told.kind = "list" => told.missing = {}
================================================================================
