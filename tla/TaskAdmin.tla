------------------------------- MODULE TaskAdmin -------------------------------
(* The catalogue of tasks and the enrolment of users in it: CreateTask,         *)
(* SaveTask and PublishTask of service/task_service.go, SaveTaskGroup and       *)
(* PublishTaskGroup of service/task_group_service.go and EnrollTask of          *)
(* service/user_task_progress_service.go, called concurrently over HTTP and     *)
(* gRPC.                                                                        *)
(*                                                                              *)
(* Every statement is its own action: only ReplaceByTaskID and EnrollUserTasks  *)
(* are transactions, and no check is repeated when its result is used.  What a  *)
(* call keeps in its local variables is the record call[c].                     *)
EXTENDS Naturals, FiniteSets, TaskExpression

CONSTANTS
    Clients,    \* concurrent calls
    Groups,     \* ids of task groups
    Tasks,      \* ids of tasks
    Users,      \* ids of users
    Contents,   \* bodies of CreateTask and SaveTask: [nos, expr], the numbers given
                \* to the conditions (0 for none) and the text of the expression
    MaxSaves,   \* bound: calls of CreateTask and SaveTask
    MaxFaults   \* bound: calls cut short

ASSUME AdminAssumption ==
    /\ MaxSaves \in Nat
    /\ MaxFaults \in Nat

ASSUME ContentsAssumption ==
    \A k \in Contents : k.nos \in Seq(Nat) /\ k.expr \in Seq(STRING)

VARIABLES
    group,      \* task_group.status
    task,       \* task: [status, group, expr]
    conds,      \* task_condition: {[task, save, at, no]}, a row is told by the
                \* save that made it and its place there
    enrolled,   \* [Users -> [Tasks -> the condition rows of the execution]]
    call,       \* the call each client is in, with its local variables
    saves,      \* calls of CreateTask and SaveTask so far
    faults,     \* calls cut short so far
    overlapped, \* history: tasks saved by two calls whose writes overlapped
    settled     \* history: the enrolments made from settled tasks

db      == <<group, task, conds, enrolled>>
counts  == <<saves, faults>>
history == <<overlapped, settled>>
vars    == <<group, task, conds, enrolled, call, saves, faults, overlapped, settled>>

--------------------------------------------------------------------------------

NoTask == [status |-> "None"]

Exists(t) == task[t].status # "None"

Idle == [step |-> "idle"]

At(c, step) == call[c].step = step

Become(c, local) == call' = [call EXCEPT ![c] = local]

Return(c) == Become(c, Idle)

ConditionsOf(t) == {k \in conds : k.task = t}

TasksOf(g) == {t \in Tasks : Exists(t) /\ task[t].group = g}

(* A call has passed its checks on task t and is going to write it. *)
Writes(c, t) == call[c].step \in {"group", "save", "replace"} /\ call[c].task = t

(* A published task that no call still writes. *)
Settled(t) ==
    /\ task[t].status = "Published"
    /\ ~ \E c \in Clients : Writes(c, t)

Init ==
    /\ group = [g \in Groups |-> "None"]
    /\ task = [t \in Tasks |-> NoTask]
    /\ conds = {}
    /\ enrolled = [u \in Users |-> [t \in Tasks |-> {}]]
    /\ call = [c \in Clients |-> Idle]
    /\ saves = 0
    /\ faults = 0
    /\ overlapped = {}
    /\ settled = {}

--------------------------------------------------------------------------------
(* Task groups. *)

CreateTaskGroup(c, g) ==
    /\ At(c, "idle")
    /\ group[g] = "None"
    /\ group' = [group EXCEPT ![g] = "Draft"]
    /\ UNCHANGED <<task, conds, enrolled, call, counts, history>>

(* The row is read, and refused if it is published, before it is saved. *)
SaveTaskGroup(c, g) ==
    /\ At(c, "idle")
    /\ group[g] = "Draft"
    /\ Become(c, [step |-> "saveGroup", group |-> g, status |-> group[g]])
    /\ UNCHANGED <<db, counts, history>>

(* Save writes every column of the row that was read, the status with it. *)
SaveGroupRow(c) ==
    /\ At(c, "saveGroup")
    /\ group' = [group EXCEPT ![call[c].group] = call[c].status]
    /\ Return(c)
    /\ UNCHANGED <<task, conds, enrolled, counts, history>>

PublishTaskGroup(c, g) ==
    /\ At(c, "idle")
    /\ group[g] = "Draft"
    /\ Become(c, [step |-> "publishGroup", group |-> g])
    /\ UNCHANGED <<db, counts, history>>

UpdateGroupStatus(c) ==
    /\ At(c, "publishGroup")
    /\ group' = [group EXCEPT ![call[c].group] = "Published"]
    /\ Return(c)
    /\ UNCHANGED <<task, conds, enrolled, counts, history>>

--------------------------------------------------------------------------------
(* Tasks. *)

(* validateTaskGroupWritable, for a group that is there. *)
Writable(g) == group[g] = "Draft"

(* validateTaskInput: there are conditions, and the expression is over them.    *)
ValidateTaskInput(content) ==
    /\ content.nos # <<>>
    /\ ValidateTaskExpression(content.expr, ConditionNos(content.nos))

ValidContents == {k \in Contents : ValidateTaskInput(k)}

CreateTask(c, g, content) ==
    /\ At(c, "idle")
    /\ saves < MaxSaves
    /\ content \in ValidContents
    /\ Writable(g)
    /\ saves' = saves + 1
    /\ Become(c, [step |-> "insert", group |-> g, content |-> content, save |-> saves'])
    /\ UNCHANGED <<db, faults, history>>

InsertTask(c, t) ==
    /\ At(c, "insert")
    /\ ~Exists(t)
    /\ task' = [task EXCEPT ![t] = [status |-> "Draft", group |-> call[c].group,
                                    expr |-> call[c].content.expr]]
    /\ Become(c, [step |-> "replace", task |-> t, content |-> call[c].content,
                  save |-> call[c].save])
    /\ UNCHANGED <<group, conds, enrolled, counts, history>>

(* Faulty: a published task is not refused. *)
SaveTask_NoPublishedCheck(c, t, content) ==
    /\ At(c, "idle")
    /\ saves < MaxSaves
    /\ content \in ValidContents
    /\ Exists(t)
    /\ saves' = saves + 1
    /\ Become(c, [step |-> "group", task |-> t, row |-> task[t],
                  content |-> content, save |-> saves'])
    /\ UNCHANGED <<db, faults, history>>

(* Faulty: a task that is not there is not refused. *)
SaveTask_NoNilCheck(c, t, content) ==
    /\ At(c, "idle")
    /\ saves < MaxSaves
    /\ content \in ValidContents
    /\ task[t].status # "Published"
    /\ saves' = saves + 1
    /\ Become(c, [step |-> "group", task |-> t, row |-> task[t],
                  content |-> content, save |-> saves'])
    /\ UNCHANGED <<db, faults, history>>

(* A published task is refused on the row as it is read here. *)
SaveTask(c, t, content) ==
    /\ At(c, "idle")
    /\ saves < MaxSaves
    /\ content \in ValidContents
    /\ task[t].status = "Draft"
    /\ saves' = saves + 1
    /\ Become(c, [step |-> "group", task |-> t, row |-> task[t],
                  content |-> content, save |-> saves'])
    /\ UNCHANGED <<db, faults, history>>

(* Faulty: the group is not looked at. *)
CheckGroup_NotAsked(c) ==
    /\ At(c, "group")
    /\ Become(c, [call[c] EXCEPT !.step = "save"])
    /\ UNCHANGED <<db, counts, history>>

CheckGroup(c) ==
    /\ At(c, "group")
    /\ IF Writable(call[c].row.group)
        THEN Become(c, [call[c] EXCEPT !.step = "save"])
        ELSE Return(c)
    /\ UNCHANGED <<db, counts, history>>

(* Save writes every column of the row that was read, the status with it. *)
SaveRow(c) ==
    /\ At(c, "save")
    /\ LET t == call[c].task
       IN  /\ task' = [task EXCEPT ![t] = [call[c].row EXCEPT !.expr = call[c].content.expr]]
           /\ overlapped' = IF \E d \in Clients \ {c} : At(d, "replace") /\ call[d].task = t
                                THEN overlapped \cup {t}
                                ELSE overlapped
    /\ Become(c, [step |-> "replace", task |-> call[c].task,
                  content |-> call[c].content, save |-> call[c].save])
    /\ UNCHANGED <<group, conds, enrolled, counts, settled>>

(* toTaskConditions. *)
ConditionRows(t, save, content) ==
    {[task |-> t, save |-> save, at |-> i, no |-> ResolveConditionNo(content.nos[i], i)] :
        i \in DOMAIN content.nos}

(* Faulty: the old conditions are not deleted. *)
ReplaceConditions_KeepsOld(c) ==
    /\ At(c, "replace")
    /\ conds' = conds \cup ConditionRows(call[c].task, call[c].save, call[c].content)
    /\ Return(c)
    /\ UNCHANGED <<group, task, enrolled, counts, history>>

(* Faulty: the conditions of a task that has some are left alone. *)
ReplaceConditions_OnlyFirst(c) ==
    /\ At(c, "replace")
    /\ conds' = IF ConditionsOf(call[c].task) = {}
                THEN conds \cup ConditionRows(call[c].task, call[c].save, call[c].content)
                ELSE conds
    /\ Return(c)
    /\ UNCHANGED <<group, task, enrolled, counts, history>>

(* ReplaceByTaskID: delete and create in one transaction, with new ids. *)
ReplaceConditions(c) ==
    /\ At(c, "replace")
    /\ conds' = (conds \ ConditionsOf(call[c].task))
                    \cup ConditionRows(call[c].task, call[c].save, call[c].content)
    /\ Return(c)
    /\ UNCHANGED <<group, task, enrolled, counts, history>>

(* Neither the group nor the conditions of the task are looked at. *)
PublishTask(c, t) ==
    /\ At(c, "idle")
    /\ task[t].status = "Draft"
    /\ Become(c, [step |-> "publishTask", task |-> t])
    /\ UNCHANGED <<db, counts, history>>

UpdateTaskStatus(c) ==
    /\ At(c, "publishTask")
    /\ task' = [task EXCEPT ![call[c].task].status = "Published"]
    /\ Return(c)
    /\ UNCHANGED <<group, conds, enrolled, counts, history>>

--------------------------------------------------------------------------------
(* EnrollTask: in a task, or in all the tasks of a group.  Published or not is  *)
(* not asked.                                                                   *)

Listed(c, u, ts) ==
    Become(c, [step |-> "conditions", user |-> u, tasks |-> ts,
               settled |-> {t \in ts : Settled(t)}])

EnrollSingleTask(c, u, t) ==
    /\ At(c, "idle")
    /\ Exists(t)
    /\ Listed(c, u, {t})
    /\ UNCHANGED <<db, counts, history>>

EnrollGroup(c, u, g) ==
    /\ At(c, "idle")
    /\ group[g] # "None"
    /\ Become(c, [step |-> "list", user |-> u, group |-> g])
    /\ UNCHANGED <<db, counts, history>>

ListTasks(c) ==
    /\ At(c, "list")
    /\ IF TasksOf(call[c].group) = {}
        THEN Return(c)
        ELSE Listed(c, call[c].user, TasksOf(call[c].group))
    /\ UNCHANGED <<db, counts, history>>

(* An execution with a progress row for each condition, by task. *)
EnrollProgressItems(ts) == [t \in ts |-> ConditionsOf(t)]

(* A task without conditions fails the call, for the whole group. *)
LoadConditions(c) ==
    /\ At(c, "conditions")
    /\ IF \E t \in call[c].tasks : ConditionsOf(t) = {}
        THEN Return(c)
        ELSE Become(c, [step |-> "enroll", user |-> call[c].user,
                        settled |-> call[c].settled,
                        rows |-> EnrollProgressItems(call[c].tasks)])
    /\ UNCHANGED <<db, counts, history>>

(* The unique key on (task, user): the error is taken for a bad request. *)
DuplicateEnrolment(u, ts) == \E t \in ts : enrolled[u][t] # {}

(* One transaction; a duplicate rolls all of it back. *)
EnrollUserTasks(c) ==
    /\ At(c, "enroll")
    /\ LET u == call[c].user
           rows == call[c].rows
       IN  IF DuplicateEnrolment(u, DOMAIN rows)
           THEN UNCHANGED <<enrolled, settled>>
           ELSE /\ enrolled' = [enrolled EXCEPT ![u] =
                                   [t \in Tasks |-> IF t \in DOMAIN rows
                                                    THEN rows[t] ELSE @[t]]]
                /\ settled' = settled \cup {<<u, t>> : t \in call[c].settled}
    /\ Return(c)
    /\ UNCHANGED <<group, task, conds, counts, overlapped>>

--------------------------------------------------------------------------------

(* A statement fails, or the process stops: what was written stays. *)
CutShort(c) ==
    /\ ~At(c, "idle")
    /\ faults < MaxFaults
    /\ faults' = faults + 1
    /\ Return(c)
    /\ UNCHANGED <<db, saves, history>>

AdminStep(c) ==
    \/ SaveGroupRow(c)
    \/ UpdateGroupStatus(c)
    \/ \E t \in Tasks : InsertTask(c, t)
    \/ CheckGroup(c)
    \/ SaveRow(c)
    \/ ReplaceConditions(c)
    \/ UpdateTaskStatus(c)

EnrollStep(c) ==
    \/ ListTasks(c)
    \/ LoadConditions(c)
    \/ EnrollUserTasks(c)

(* The request names a task or a group. *)
EnrollTask(c) ==
    \E u \in Users :
        \/ \E t \in Tasks : EnrollSingleTask(c, u, t)
        \/ \E g \in Groups : EnrollGroup(c, u, g)

Request(c) ==
    \/ EnrollTask(c)
    \/ \E g \in Groups :
        \/ CreateTaskGroup(c, g)
        \/ SaveTaskGroup(c, g)
        \/ PublishTaskGroup(c, g)
        \/ \E content \in Contents : CreateTask(c, g, content)
    \/ \E t \in Tasks :
        \/ PublishTask(c, t)
        \/ \E content \in Contents : SaveTask(c, t, content)

Next == \E c \in Clients : Request(c) \/ AdminStep(c) \/ EnrollStep(c) \/ CutShort(c)

Spec == Init /\ [][Next]_vars

--------------------------------------------------------------------------------

TaskRow == {NoTask} \cup [status : {"Draft", "Published"}, group : Groups,
                          expr : {k.expr : k \in Contents}]

Places == UNION {DOMAIN k.nos : k \in Contents}

Numbers == UNION {ConditionNos(k.nos) : k \in Contents}

ConditionRow == [task : Tasks, save : 1..MaxSaves, at : Places, no : Numbers]

Saving == [step : {"group", "save"}, task : Tasks, row : TaskRow \ {NoTask},
           content : Contents, save : 1..MaxSaves]

Calls ==
    {Idle}
        \cup [step : {"saveGroup"}, group : Groups, status : {"Draft", "Published"}]
        \cup [step : {"publishGroup"}, group : Groups]
        \cup [step : {"insert"}, group : Groups, content : Contents, save : 1..MaxSaves]
        \cup Saving
        \cup [step : {"replace"}, task : Tasks, content : Contents, save : 1..MaxSaves]
        \cup [step : {"publishTask"}, task : Tasks]
        \cup [step : {"list"}, user : Users, group : Groups]
        \cup [step : {"conditions"}, user : Users, tasks : SUBSET Tasks,
              settled : SUBSET Tasks]

Enrolling(l) ==
    /\ DOMAIN l = {"step", "user", "rows", "settled"}
    /\ l.step = "enroll"
    /\ l.user \in Users
    /\ l.settled \subseteq DOMAIN l.rows
    /\ DOMAIN l.rows \subseteq Tasks
    /\ \A t \in DOMAIN l.rows : l.rows[t] \subseteq ConditionRow

(* Every table and every call has the shape its comment gives. *)
TypeOK ==
    /\ group \in [Groups -> {"None", "Draft", "Published"}]
    /\ task \in [Tasks -> TaskRow]
    /\ conds \subseteq ConditionRow
    /\ enrolled \in [Users -> [Tasks -> SUBSET ConditionRow]]
    /\ DOMAIN call = Clients
    /\ \A c \in Clients : call[c] \in Calls \/ Enrolling(call[c])
    /\ saves \in 0..MaxSaves
    /\ faults \in 0..MaxFaults
    /\ overlapped \subseteq Tasks
    /\ settled \subseteq Users \X Tasks

--------------------------------------------------------------------------------

(* A task that is published and that no call still writes is frozen: neither   *)
(* its row nor its conditions change, and no call gets hold of it to write it. *)
SettledTaskIsFrozen ==
    [][\A t \in Tasks : Settled(t) =>
           /\ Settled(t)'
           /\ task'[t] = task[t]
           /\ ConditionsOf(t)' = ConditionsOf(t)]_vars

(* A call that writes group g or a task of it, its check of the group behind it. *)
WritesGroup(c, g) ==
    \/ call[c].step \in {"saveGroup", "insert"} /\ call[c].group = g
    \/ call[c].step \in {"save", "replace"} /\ task[call[c].task].group = g

SettledGroup(g) ==
    /\ group[g] = "Published"
    /\ ~ \E c \in Clients : WritesGroup(c, g)

(* A group that is published and that no call still writes is frozen: it stays *)
(* published, gets no further task, and its tasks may only be published.       *)
SettledGroupIsFrozen ==
    [][\A g \in Groups : SettledGroup(g) =>
           /\ SettledGroup(g)'
           /\ TasksOf(g)' = TasksOf(g)
           /\ \A t \in TasksOf(g) : /\ task'[t].expr = task[t].expr
                                    /\ ConditionsOf(t)' = ConditionsOf(t)]_vars

(* The condition rows of an execution come from one save of its task: no        *)
(* enrolment reads a half-replaced list and none is made of two.                *)
EnrolmentIsOfOneSave ==
    \A u \in Users, t \in Tasks : \A k, l \in enrolled[u][t] :
        k.save = l.save /\ k.task = t

(* Enrolment is in draft tasks too, and saving a draft gives its conditions new *)
(* ids.  The conditions of an execution that was enrolled from a settled task   *)
(* are those of the task, for good: its events find them and its expression can *)
(* come true.                                                                   *)
SettledEnrolmentKeepsItsConditions ==
    \A p \in settled : enrolled[p[1]][p[2]] = ConditionsOf(p[2])

UsableExpressions ==
    {p \in {k.expr : k \in Contents} \X SUBSET Numbers : Usable(p[1], p[2])}

(* ValidateTaskExpression is asked about the conditions of the same request,    *)
(* and runs the text once, with nothing completed; row and conditions are then  *)
(* written by two statements.  Unless a call was cut short or two saves         *)
(* overlapped, the expression of a task that is not being written can be used   *)
(* with the conditions the task has: no event finds it without a value, and it  *)
(* becomes true when they are met.                                              *)
StoredExpressionIsUsable ==
    faults = 0 =>
        \A t \in Tasks : Exists(t) /\ t \notin overlapped =>
            \/ \E c \in Clients : At(c, "replace") /\ call[c].task = t
            \/ <<task[t].expr, {k.no : k \in ConditionsOf(t)}>> \in UsableExpressions

(* "published task cannot be modified" (http/data/common.go).                   *)
PublishedTaskIsNotModified ==
    [][\A t \in Tasks : task[t].status = "Published" =>
           /\ task'[t] = task[t]
           /\ ConditionsOf(t)' = ConditionsOf(t)]_vars
================================================================================
