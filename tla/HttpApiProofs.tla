------------------------------ MODULE HttpApiProofs -----------------------------
(* Proofs about HttpApi, for every number of concurrent requests.  What the     *)
(* services do under the handlers is what module TaskAdmin says: the proofs     *)
(* there are taken over by instance.                                            *)
EXTENDS HttpApi, FiniteSetTheorems, TLAPS

(* The steps of the calls that only read, which TaskAdmin does not know. *)
Reading == {"detail", "tasks", "published", "progress"}

AdminCall == [c \in Clients |-> IF call[c].step \in Reading THEN Idle ELSE call[c]]

A == INSTANCE TaskAdminProofs WITH call <- AdminCall

--------------------------------------------------------------------------------
(* The inductive invariants. *)

Answers == {Done, Refusal, Failure}

WellShaped(h) ==
    h \in [answers : Seq(Answers), open : BOOLEAN, sound : BOOLEAN, changed : BOOLEAN,
           told : {h.told}]

(* A request that is open was not refused, nor told anything, and has not       *)
(* written before it comes to replace conditions; one that is not is answered   *)
(* once, or was refused at its first id and has changed nothing.                *)
RequestOK(c) ==
    LET h == http[c]
    IN  /\ WellShaped(h)
        /\ h.open <=> ~At(c, "idle")
        /\ h.open => /\ h.sound /\ h.answers = <<>> /\ h.told = NothingTold
                     /\ h.changed => At(c, "replace")
        /\ ~h.open => IF h.sound THEN h = NoRequest \/ Len(h.answers) = 1
                      ELSE Len(h.answers) \in 2..3 /\ h.answers[1] = Refusal
        /\ Refusal \in Range(h.answers) => ~h.changed

(* What a call has read and keeps to answer with is there. *)
ReadOK(c) ==
    /\ At(c, "detail") =>
           /\ call[c].task \in Tasks
           /\ call[c].settled => Settled(call[c].task) /\ call[c].row = task[call[c].task]
    /\ At(c, "tasks") => call[c].had \subseteq TasksOf(call[c].group)
    /\ At(c, "published") =>
           /\ \A t \in call[c].settled : t \in Published(call[c].group) /\ Settled(t)
           /\ call[c].user \in Users /\ call[c].had \subseteq EnrolledIn(call[c].user)
    /\ At(c, "progress") =>
           /\ call[c].settled \subseteq call[c].tasks
           /\ call[c].user \in Users /\ call[c].had \subseteq EnrolledIn(call[c].user)
    /\ At(c, "enroll") => \A t \in DOMAIN call[c].rows : call[c].rows[t] # {}

(* What a caller was told is there. *)
ToldOK(c) ==
    LET told == http[c].told
    IN  /\ told.kind = "saved" =>
               told.task \in Tasks /\ Exists(told.task) /\ ConditionsOf(told.task) # {}
        /\ told.kind = "published" => told.task \in Tasks /\ Settled(told.task)
        /\ told.kind = "enrolled" =>
               /\ told.user \in Users /\ DOMAIN told.rows \subseteq Tasks
               /\ \A t \in DOMAIN told.rows : /\ enrolled[told.user][t] = told.rows[t]
                                              /\ told.rows[t] # {}
        /\ told.kind = "detail" =>
               /\ told.task \in Tasks /\ Settled(told.task)
               /\ told.row = task[told.task] /\ told.conds = ConditionsOf(told.task)
        /\ told.kind = "list" => told.missing = {}

Shape == DOMAIN call = Clients /\ DOMAIN http = Clients

AdminInv == Shape /\ A!TypeOK /\ A!CallInv

RequestInv == \A c \in Clients : RequestOK(c)

ToldInv == \A c \in Clients : ReadOK(c) /\ ToldOK(c)

--------------------------------------------------------------------------------
(* What the handlers do to the catalogue are the steps of TaskAdmin. *)

LEMMA AtAdmin ==
    ASSUME NEW c \in Clients, NEW step, step \notin Reading, At(c, step)
    PROVE  A!At(c, step) /\ AdminCall[c] = call[c]
BY DEF At, A!At, AdminCall

LEMMA BecomeAdmin ==
    ASSUME Shape, NEW c \in Clients, NEW local, local.step \notin Reading, Become(c, local)
    PROVE  A!Become(c, local)
BY DEF Shape, A!Become, Become, AdminCall

LEMMA ReturnAdmin ==
    ASSUME Shape, NEW c \in Clients, Return(c)
    PROVE  A!Return(c)
BY BecomeAdmin DEF Return, A!Return, Idle, A!Idle, Reading

LEMMA BecomeReading ==
    ASSUME Shape, NEW c \in Clients, AdminCall[c] = Idle, NEW local,
           local.step \in Reading \/ local = Idle, Become(c, local)
    PROVE  UNCHANGED AdminCall
BY DEF Shape, Become, AdminCall, Idle, Reading

LEMMA ReadingIsIdle ==
    ASSUME NEW c \in Clients, call[c].step \in Reading \/ call[c] = Idle
    PROVE  AdminCall[c] = Idle
BY DEF AdminCall, Idle

LEMMA SettledAdmin ==
    /\ \A c \in Clients, t \in Tasks : A!Writes(c, t) <=> Writes(c, t)
    /\ \A t \in Tasks : A!Settled(t) <=> Settled(t)
BY DEF A!Writes, Writes, AdminCall, Reading, Idle, A!Settled, Settled

(* A text is accepted or not whoever calls. *)
LEMMA ValidContentsAdmin == A!ValidContents = ValidContents
<1>1. \A text, nos : A!ValidateTaskExpression(text, nos) <=> ValidateTaskExpression(text, nos)
  BY DEF A!ValidateTaskExpression, ValidateTaskExpression, A!WellFormed, WellFormed,
         A!CompileAndRun, CompileAndRun, A!Value, Value, A!Values, Values, A!SpanValue, SpanValue,
         A!Spans, Spans, A!Span, Span, A!Levels, Levels, A!Below, Below, A!Joined, Joined,
         A!Combine, Combine, A!Tokens, Tokens, A!TokensFrom, TokensFrom, A!TokensAt, TokensAt,
         A!OperatorEnd, OperatorEnd, A!NumbersOf, NumbersOf, A!Number, Number, A!Atoi, Atoi,
         A!EndOfNumber, EndOfNumber, A!IsDigit, IsDigit, A!DigitValue, DigitValue,
         A!Digits, Digits, A!DSLChars, DSLChars, A!CharsOf, CharsOf
<1>2. \A k \in Contents : A!ValidateTaskInput(k) <=> ValidateTaskInput(k)
  BY <1>1
  DEF A!ValidateTaskInput, ValidateTaskInput, A!ConditionNos, ConditionNos,
      A!ResolveConditionNo, ResolveConditionNo
<1>. QED
  BY <1>2 DEF A!ValidContents, ValidContents

(* The calls that take up a request. *)
LEMMA RequestAdmin ==
    ASSUME Shape, NEW c \in Clients
    PROVE  Request(c) => A!Request(c)
<1>. USE DEF db, A!db, counts, A!counts, history, A!history
<1>1. At(c, "idle") => A!At(c, "idle") /\ AdminCall[c] = call[c]
  BY AtAdmin DEF Reading
<1>2. ASSUME NEW g \in Groups
      PROVE  CreateTaskGroup(c, g) => A!CreateTaskGroup(c, g)
  <2>1. UNCHANGED call => UNCHANGED AdminCall
    BY DEF AdminCall
  <2>. QED
    BY <1>1, <2>1 DEF CreateTaskGroup, A!CreateTaskGroup
<1>3. ASSUME NEW g \in Groups
      PROVE  SaveTaskGroup(c, g) => A!SaveTaskGroup(c, g)
  BY <1>1, BecomeAdmin DEF SaveTaskGroup, A!SaveTaskGroup, Reading
<1>4. ASSUME NEW g \in Groups
      PROVE  PublishTaskGroup(c, g) => A!PublishTaskGroup(c, g)
  BY <1>1, BecomeAdmin DEF PublishTaskGroup, A!PublishTaskGroup, Reading
<1>5. ASSUME NEW g \in Groups, NEW content \in Contents
      PROVE  CreateTask(c, g, content) => A!CreateTask(c, g, content)
  <2>. SUFFICES ASSUME CreateTask(c, g, content)
                PROVE  A!CreateTask(c, g, content)
    OBVIOUS
  <2>1. A!Become(c, [step |-> "insert", group |-> g, content |-> content, save |-> saves'])
    BY BecomeAdmin DEF CreateTask, Reading
  <2>. QED
    BY <1>1, <2>1, ValidContentsAdmin DEF CreateTask, A!CreateTask, Writable, A!Writable
<1>6. ASSUME NEW t \in Tasks, NEW content \in Contents
      PROVE  SaveTask(c, t, content) => A!SaveTask(c, t, content)
  <2>. SUFFICES ASSUME SaveTask(c, t, content)
                PROVE  A!SaveTask(c, t, content)
    OBVIOUS
  <2>1. A!Become(c, [step |-> "group", task |-> t, row |-> task[t], content |-> content,
                     save |-> saves'])
    BY BecomeAdmin DEF SaveTask, Reading
  <2>. QED
    BY <1>1, <2>1, ValidContentsAdmin DEF SaveTask, A!SaveTask
<1>7. ASSUME NEW t \in Tasks
      PROVE  PublishTask(c, t) => A!PublishTask(c, t)
  BY <1>1, BecomeAdmin DEF PublishTask, A!PublishTask, Reading
<1>8. ASSUME NEW u \in Users, NEW t \in Tasks
      PROVE  EnrollSingleTask(c, u, t) => A!EnrollSingleTask(c, u, t)
  <2>. SUFFICES ASSUME EnrollSingleTask(c, u, t)
                PROVE  A!EnrollSingleTask(c, u, t)
    OBVIOUS
  <2>1. A!Listed(c, u, {t})
    BY SettledAdmin, BecomeAdmin DEF EnrollSingleTask, Listed, A!Listed, Reading
  <2>. QED
    BY <1>1, <2>1 DEF EnrollSingleTask, A!EnrollSingleTask, Exists, A!Exists
<1>9. ASSUME NEW u \in Users, NEW g \in Groups
      PROVE  EnrollGroup(c, u, g) => A!EnrollGroup(c, u, g)
  BY <1>1, BecomeAdmin DEF EnrollGroup, A!EnrollGroup, Reading
<1>. QED
  BY <1>2, <1>3, <1>4, <1>5, <1>6, <1>7, <1>8, <1>9
  DEF Request, A!Request, EnrollTask, A!EnrollTask

(* The further statements of a call that writes. *)
LEMMA AdminStepAdmin ==
    ASSUME Shape, A!TypeOK, NEW c \in Clients
    PROVE  AdminStep(c) => A!AdminStep(c)
<1>. USE DEF db, A!db, counts, A!counts, history, A!history
<1>1. SaveGroupRow(c) => A!SaveGroupRow(c)
  BY AtAdmin, ReturnAdmin DEF SaveGroupRow, A!SaveGroupRow, Reading
<1>2. UpdateGroupStatus(c) => A!UpdateGroupStatus(c)
  BY AtAdmin, ReturnAdmin DEF UpdateGroupStatus, A!UpdateGroupStatus, Reading
<1>3. ASSUME NEW t \in Tasks, InsertTask(c, t)
      PROVE  A!InsertTask(c, t)
  <2>1. A!At(c, "insert") /\ AdminCall[c] = call[c]
    BY <1>3, AtAdmin DEF InsertTask, Reading
  <2>2. A!Become(c, [step |-> "replace", task |-> t, content |-> AdminCall[c].content,
                     save |-> AdminCall[c].save])
    BY <1>3, <2>1, BecomeAdmin DEF InsertTask, Reading
  <2>. QED
    BY <1>3, <2>1, <2>2 DEF InsertTask, A!InsertTask, Exists, A!Exists
<1>4. ASSUME CheckGroup(c)
      PROVE  A!CheckGroup(c)
  <2>1. A!At(c, "group") /\ AdminCall[c] = call[c]
    BY <1>4, AtAdmin DEF CheckGroup, Reading
  <2>2. AdminCall[c] \in A!Saving
    BY <1>4, <2>1, A!CallType, AdminAssumption, ContentsAssumption
  <2>3. [call[c] EXCEPT !.step = "save"].step \notin Reading
    BY <2>1, <2>2 DEF A!Saving, Reading
  <2>. QED
    BY <1>4, <2>1, <2>3, BecomeAdmin, ReturnAdmin
    DEF CheckGroup, A!CheckGroup, Writable, A!Writable
<1>5. ASSUME SaveRow(c)
      PROVE  A!SaveRow(c)
  <2>1. A!At(c, "save") /\ AdminCall[c] = call[c]
    BY <1>5, AtAdmin DEF SaveRow, Reading
  <2>2. A!Become(c, [step |-> "replace", task |-> AdminCall[c].task,
                     content |-> AdminCall[c].content, save |-> AdminCall[c].save])
    BY <1>5, <2>1, BecomeAdmin DEF SaveRow, Reading
  <2>3. \A d \in Clients : \A t : At(d, "replace") /\ call[d].task = t
                                <=> A!At(d, "replace") /\ AdminCall[d].task = t
    BY DEF At, A!At, AdminCall, Reading, Idle
  <2>. QED
    BY <1>5, <2>1, <2>2, <2>3 DEF SaveRow, A!SaveRow
<1>6. ASSUME ReplaceConditions(c)
      PROVE  A!ReplaceConditions(c)
  <2>1. A!At(c, "replace") /\ AdminCall[c] = call[c]
    BY <1>6, AtAdmin DEF ReplaceConditions, Reading
  <2>2. \A t, save, content :
          /\ A!ConditionsOf(t) = ConditionsOf(t)
          /\ A!ConditionRows(t, save, content) = ConditionRows(t, save, content)
    BY DEF ConditionsOf, A!ConditionsOf, ConditionRows, A!ConditionRows, ResolveConditionNo,
           A!ResolveConditionNo
  <2>. QED
    BY <1>6, <2>1, <2>2, ReturnAdmin DEF ReplaceConditions, A!ReplaceConditions
<1>7. UpdateTaskStatus(c) => A!UpdateTaskStatus(c)
  BY AtAdmin, ReturnAdmin DEF UpdateTaskStatus, A!UpdateTaskStatus, Reading
<1>. QED
  BY <1>1, <1>2, <1>3, <1>4, <1>5, <1>6, <1>7 DEF AdminStep, A!AdminStep

(* The further statements of an enrolment. *)
LEMMA EnrollStepAdmin ==
    ASSUME Shape, NEW c \in Clients
    PROVE  EnrollStep(c) => A!EnrollStep(c)
<1>. USE DEF db, A!db, counts, A!counts, history, A!history
<1>1. ASSUME ListTasks(c)
      PROVE  A!ListTasks(c)
  <2>1. A!At(c, "list") /\ AdminCall[c] = call[c]
    BY <1>1, AtAdmin DEF ListTasks, Reading
  <2>2. A!TasksOf(call[c].group) = TasksOf(call[c].group) /\ TasksOf(call[c].group) \subseteq Tasks
    BY DEF A!TasksOf, TasksOf, A!Exists, Exists
  <2>3. Listed(c, call[c].user, TasksOf(call[c].group))
          => A!Listed(c, call[c].user, TasksOf(call[c].group))
    BY <2>2, SettledAdmin, BecomeAdmin DEF Listed, A!Listed, Reading
  <2>. QED
    BY <1>1, <2>1, <2>2, <2>3, ReturnAdmin DEF ListTasks, A!ListTasks
<1>2. ASSUME LoadConditions(c)
      PROVE  A!LoadConditions(c)
  <2>1. A!At(c, "conditions") /\ AdminCall[c] = call[c]
    BY <1>2, AtAdmin DEF LoadConditions, Reading
  <2>2. /\ \A t : A!ConditionsOf(t) = ConditionsOf(t)
        /\ A!EnrollProgressItems(call[c].tasks) = EnrollProgressItems(call[c].tasks)
    BY DEF A!ConditionsOf, ConditionsOf, A!EnrollProgressItems, EnrollProgressItems
  <2>3. ASSUME Become(c, [step |-> "enroll", user |-> call[c].user,
                          settled |-> call[c].settled,
                          rows |-> EnrollProgressItems(call[c].tasks)])
        PROVE  A!Become(c, [step |-> "enroll", user |-> AdminCall[c].user,
                            settled |-> AdminCall[c].settled,
                            rows |-> A!EnrollProgressItems(AdminCall[c].tasks)])
    BY <2>1, <2>2, <2>3, BecomeAdmin DEF Reading
  <2>. QED
    BY <1>2, <2>1, <2>2, <2>3, ReturnAdmin DEF LoadConditions, A!LoadConditions
<1>3. EnrollUserTasks(c) => A!EnrollUserTasks(c)
  BY AtAdmin, ReturnAdmin
  DEF EnrollUserTasks, A!EnrollUserTasks, DuplicateEnrolment, A!DuplicateEnrolment, Reading
<1>. QED
  BY <1>1, <1>2, <1>3 DEF EnrollStep, A!EnrollStep


(* A request is refused, taken up as TaskAdmin says, or one that only reads. *)
LEMMA ReceiveSteps ==
    ASSUME NEW c \in Clients, Receive(c)
    PROVE  \/ UNCHANGED service
           \/ FirstStatementFails(c)
           \/ Request(c)
           \/ /\ At(c, "idle") /\ UNCHANGED <<db, counts, history>>
              /\ \E local : local.step \in Reading /\ Become(c, local)
<1>. DEFINE Goal == \/ UNCHANGED service
                    \/ FirstStatementFails(c)
                    \/ Request(c)
                    \/ /\ At(c, "idle") /\ UNCHANGED <<db, counts, history>>
                       /\ \E local : local.step \in Reading /\ Become(c, local)
<1>. SUFFICES Goal
  OBVIOUS
<1>1. ASSUME NEW ids, NEW a, AnswerAtOnce(c, ids, a)
      PROVE  UNCHANGED service
  BY <1>1 DEF AnswerAtOnce
<1>2. ASSUME NEW local, NEW h, Reads(c, local, h), local.step \in Reading
      PROVE  Goal
  BY <1>2 DEF Reads
<1>3. ASSUME AuthFails(c) \/ DecodeFails(c) \/ OneRead(c)
      PROVE  UNCHANGED service
  BY <1>1, <1>3 DEF AuthFails, DecodeFails, OneRead
<1>4. ASSUME NEW g \in Groups,
             HttpCreateTaskGroup(c, g) \/ HttpSaveTaskGroup(c, g) \/ HttpPublishTaskGroup(c, g)
      PROVE  UNCHANGED service \/ Request(c)
  BY <1>1, <1>4
  DEF HttpCreateTaskGroup, HttpSaveTaskGroup, HttpPublishTaskGroup, Request
<1>5. ASSUME NEW g \in MayBe(Groups), NEW content \in Contents, HttpCreateTask(c, g, content)
      PROVE  UNCHANGED service \/ Request(c)
  BY <1>1, <1>5 DEF HttpCreateTask, Request
<1>6. ASSUME NEW g \in MayBe(Groups), NEW t \in MayBe(Tasks), NEW content \in Contents,
             HttpSaveTask(c, g, t, content)
      PROVE  UNCHANGED service \/ Request(c)
  <2>1. InGroup(t, g) => t \in Tasks
    BY DEF InGroup, TaskStatus, StatusOf
  <2>. QED
    BY <1>1, <1>6, <2>1 DEF HttpSaveTask, Request
<1>7. ASSUME NEW g \in MayBe(Groups), NEW t \in MayBe(Tasks), NEW u \in MayBe(Users),
             GrpcEnrollTask(c, u, t, g)
      PROVE  UNCHANGED service \/ Request(c)
  BY <1>1, <1>7 DEF GrpcEnrollTask, Request, EnrollTask
<1>8. ASSUME NEW t \in MayBe(Tasks), HttpPublishTask(c, t)
      PROVE  UNCHANGED service \/ Request(c)
  BY <1>1, <1>8 DEF HttpPublishTask, Request
<1>9. ASSUME NEW g, NEW t, GetTaskDetail(c, g, t)
      PROVE  Goal
  <2>1. [step |-> "detail", task |-> t, row |-> task[t], settled |-> Settled(t)].step \in Reading
    BY DEF Reading
  <2>. QED
    BY <1>1, <1>2, <1>9, <2>1 DEF GetTaskDetail
<1>10. ASSUME NEW g, ListTasksByGroup(c, g)
       PROVE  Goal
  <2>1. [step |-> "tasks", group |-> g, had |-> TasksOf(g)].step \in Reading
    BY DEF Reading
  <2>. QED
    BY <1>1, <1>2, <1>10, <2>1 DEF ListTasksByGroup
<1>11. ASSUME NEW g, NEW u, ListUserTaskProgress(c, g, u)
       PROVE  Goal
  <2>1. [step |-> "published", group |-> g, user |-> u,
         settled |-> {t \in Published(g) : Settled(t)}, had |-> EnrolledIn(u)].step \in Reading
    BY DEF Reading
  <2>. QED
    BY <1>1, <1>2, <1>11, <2>1 DEF ListUserTaskProgress
<1>. HIDE DEF Goal
<1>12. UNCHANGED service \/ Request(c) \/ FirstStatementFails(c) => Goal
  BY DEF Goal
<1>. QED
  BY <1>3, <1>4, <1>5, <1>6, <1>7, <1>8, <1>9, <1>10, <1>11, <1>12 DEF Receive

LEMMA ServeSteps ==
    ASSUME NEW c \in Clients, Serve(c)
    PROVE  \/ AdminStep(c)
           \/ EnrollStep(c)
           \/ /\ call[c].step \in Reading /\ UNCHANGED <<db, counts, history>>
              /\ \E local : (local.step \in Reading \/ local = Idle) /\ Become(c, local)
<1>1. CASE BuildTaskVO(c) \/ ListTasksByGroupID(c) \/ JoinProgress(c)
  BY <1>1 DEF BuildTaskVO, ListTasksByGroupID, JoinProgress, At, Return, Reading
<1>2. CASE ListPublished(c)
  <2>1. call[c].step \in Reading /\ UNCHANGED <<db, counts, history>>
    BY <1>2 DEF ListPublished, At, Reading
  <2>2. PICK local : /\ Become(c, local)
                     /\ local = [step |-> "progress", tasks |-> Published(call[c].group),
                                 user |-> call[c].user, settled |-> call[c].settled,
                                 had |-> call[c].had]
    BY <1>2 DEF ListPublished
  <2>. QED
    BY <2>1, <2>2 DEF Reading
<1>. QED
  BY <1>1, <1>2
  DEF Serve, AdminStep, EnrollStep, FinishSaveGroup, FinishPublishGroup, GoOnInsert,
      AnswerCheckGroup, GoOnSave, FinishSave, FinishPublish, AnswerListTasks,
      AnswerLoadConditions, FinishEnroll

(* A statement that fails where TaskAdmin knows of no call. *)
FaultOnly == UNCHANGED <<db, AdminCall, saves, history>> /\ faults' \in 1..MaxFaults

LEMMA FaultIsCounted ==
    ASSUME A!TypeOK, faults < MaxFaults, faults' = faults + 1
    PROVE  faults' \in 1..MaxFaults
BY AdminAssumption, SMT DEF A!TypeOK

LEMMA IdleIsIdle ==
    ASSUME A!TypeOK, NEW c \in Clients, At(c, "idle")
    PROVE  call[c] = Idle /\ AdminCall[c] = Idle
<1>1. AdminCall[c] = call[c] /\ call[c].step = "idle"
  BY AtAdmin DEF Reading, At
<1>2. call[c] \in A!Calls \/ A!Enrolling(call[c])
  BY <1>1 DEF A!TypeOK
<1>. QED
  BY <1>1, <1>2 DEF A!Calls, A!Saving, A!Idle, A!Enrolling, Idle

(* The steps of the handlers are those of TaskAdmin. *)
LEMMA ApiStepAdmin ==
    ASSUME Shape, A!TypeOK, [ApiNext]_apiVars
    PROVE  [A!Next]_A!vars \/ FaultOnly
<1>1. UNCHANGED <<db, AdminCall, counts, history>> => UNCHANGED A!vars
  BY DEF db, counts, history, A!vars
<1>2. UNCHANGED call => UNCHANGED AdminCall
  BY DEF AdminCall
<1>3. ASSUME NEW c \in Clients, Receive(c)
      PROVE  [A!Next]_A!vars \/ FaultOnly
  <2>1. CASE FirstStatementFails(c)
    <3>1. faults' \in 1..MaxFaults
      BY <2>1, FaultIsCounted DEF FirstStatementFails
    <3>. QED
      BY <1>2, <2>1, <3>1 DEF FirstStatementFails, FaultOnly
  <2>2. CASE UNCHANGED service
    BY <1>1, <1>2, <2>2 DEF service
  <2>3. CASE Request(c)
    BY <2>3, RequestAdmin DEF A!Next
  <2>4. CASE /\ At(c, "idle") /\ UNCHANGED <<db, counts, history>>
             /\ \E local : local.step \in Reading /\ Become(c, local)
    BY <1>1, <2>4, IdleIsIdle, BecomeReading
  <2>. QED
    BY <1>3, <2>1, <2>2, <2>3, <2>4, ReceiveSteps
<1>4. ASSUME NEW c \in Clients, Serve(c)
      PROVE  [A!Next]_A!vars
  <2>1. CASE AdminStep(c) \/ EnrollStep(c)
    BY <2>1, AdminStepAdmin, EnrollStepAdmin DEF A!Next
  <2>2. CASE /\ call[c].step \in Reading /\ UNCHANGED <<db, counts, history>>
             /\ \E local : (local.step \in Reading \/ local = Idle) /\ Become(c, local)
    BY <1>1, <2>2, ReadingIsIdle, BecomeReading
  <2>. QED
    BY <1>4, <2>1, <2>2, ServeSteps
<1>5. ASSUME NEW c \in Clients, StatementFails(c)
      PROVE  [A!Next]_A!vars \/ FaultOnly
  <2>1. CutShort(c)
    BY <1>5 DEF StatementFails
  <2>2. CASE call[c].step \in Reading
    <3>1. UNCHANGED AdminCall
      BY <2>1, <2>2, ReadingIsIdle, BecomeReading DEF CutShort, Return
    <3>2. faults' \in 1..MaxFaults
      BY <2>1, FaultIsCounted DEF CutShort
    <3>. QED
      BY <2>1, <3>1, <3>2 DEF CutShort, FaultOnly
  <2>3. CASE call[c].step \notin Reading
    <3>1. AdminCall[c] = call[c]
      BY <2>3 DEF AdminCall
    <3>2. A!CutShort(c)
      BY <2>1, <3>1, ReturnAdmin
      DEF CutShort, A!CutShort, At, A!At, db, A!db, history, A!history
    <3>. QED
      BY <3>2 DEF A!Next
  <2>. QED
    BY <2>2, <2>3
<1>6. UNCHANGED apiVars => UNCHANGED A!vars
  BY <1>2 DEF apiVars, vars, A!vars
<1>. QED
  BY <1>3, <1>4, <1>5, <1>6 DEF ApiNext


(* A step is about the call and the request of one client. *)
OneCall(c) == UNCHANGED call \/ \E local : Become(c, local)

OneRequest(c) == \E h : http' = [http EXCEPT ![c] = h]

LEMMA OneClient ==
    ASSUME NEW c \in Clients, Receive(c) \/ Serve(c) \/ StatementFails(c)
    PROVE  OneCall(c) /\ OneRequest(c)
<1>1. \A h, a, told : Answer(c, h, a, told) => OneRequest(c)
  BY DEF OneRequest, Answer
<1>2. \A h : GoOn(c, h) => OneRequest(c)
  BY DEF OneRequest, GoOn
<1>3. ASSUME Request(c) \/ AdminStep(c) \/ EnrollStep(c) \/ CutShort(c)
      PROVE  OneCall(c)
  BY <1>3
  DEF Request, EnrollTask, EnrollSingleTask, EnrollGroup, Listed, CreateTaskGroup,
      SaveTaskGroup, PublishTaskGroup, CreateTask, SaveTask, PublishTask, AdminStep,
      SaveGroupRow, UpdateGroupStatus, InsertTask, CheckGroup, SaveRow,
      ReplaceConditions, UpdateTaskStatus, EnrollStep, ListTasks, LoadConditions,
      EnrollUserTasks, CutShort, Return, OneCall
<1>4. ASSUME Receive(c)
      PROVE  OneCall(c)
  <2>1. CASE UNCHANGED service
    BY <2>1 DEF service, OneCall
  <2>2. CASE FirstStatementFails(c)
    BY <2>2 DEF FirstStatementFails, OneCall
  <2>. QED
    BY <1>3, <1>4, <2>1, <2>2, ReceiveSteps DEF OneCall
<1>5. ASSUME Serve(c) \/ StatementFails(c)
      PROVE  OneCall(c)
  BY <1>3, <1>5, ServeSteps DEF StatementFails, OneCall
<1>6. \A ids, a : AnswerAtOnce(c, ids, a) => OneRequest(c)
  BY <1>1 DEF AnswerAtOnce
<1>7. \A local, h : Reads(c, local, h) => OneRequest(c)
  BY <1>2 DEF Reads
<1>8. ASSUME Receive(c)
      PROVE  OneRequest(c)
  <2>1. CASE AuthFails(c) \/ DecodeFails(c) \/ FirstStatementFails(c) \/ OneRead(c)
    BY <1>1, <1>6, <2>1 DEF AuthFails, DecodeFails, FirstStatementFails, OneRead
  <2>2. ASSUME NEW g \in Groups,
               HttpCreateTaskGroup(c, g) \/ HttpSaveTaskGroup(c, g) \/ HttpPublishTaskGroup(c, g)
        PROVE  OneRequest(c)
    BY <1>1, <1>2, <1>6, <2>2 DEF HttpCreateTaskGroup, HttpSaveTaskGroup, HttpPublishTaskGroup
  <2>3. ASSUME NEW g, NEW u, ListTasksByGroup(c, g) \/ ListUserTaskProgress(c, g, u)
        PROVE  OneRequest(c)
    BY <1>6, <1>7, <2>3 DEF ListTasksByGroup, ListUserTaskProgress
  <2>4. ASSUME NEW g, NEW t, NEW u, NEW content,
               HttpCreateTask(c, g, content) \/ HttpSaveTask(c, g, t, content)
                   \/ GetTaskDetail(c, g, t)
        PROVE  OneRequest(c)
    BY <1>2, <1>6, <1>7, <2>4 DEF HttpCreateTask, HttpSaveTask, GetTaskDetail
  <2>5. ASSUME NEW g, NEW t, NEW u, GrpcEnrollTask(c, u, t, g) \/ HttpPublishTask(c, t)
        PROVE  OneRequest(c)
    BY <1>2, <1>6, <2>5 DEF GrpcEnrollTask, HttpPublishTask
  <2>. QED
    BY <1>8, <2>1, <2>2, <2>3, <2>4, <2>5 DEF Receive
<1>9. ASSUME Serve(c) \/ StatementFails(c)
      PROVE  OneRequest(c)
  BY <1>1, <1>2, <1>9
  DEF Serve, BuildTaskVO, ListTasksByGroupID, ListPublished, JoinProgress, FinishSaveGroup,
      FinishPublishGroup, GoOnInsert, AnswerCheckGroup, GoOnSave, FinishSave, FinishPublish,
      AnswerListTasks, AnswerLoadConditions, FinishEnroll, StatementFails
<1>. QED
  BY <1>4, <1>5, <1>8, <1>9

LEMMA ShapeStep ==
    ASSUME Shape, [ApiNext]_apiVars
    PROVE  Shape'
<1>1. \A c \in Clients : OneCall(c) => DOMAIN call' = Clients
  BY DEF Shape, Become, OneCall
<1>2. \A c \in Clients : OneRequest(c) => DOMAIN http' = Clients
  BY DEF Shape, OneRequest
<1>3. UNCHANGED apiVars => Shape'
  BY DEF apiVars, vars, Shape
<1>. QED
  BY <1>1, <1>2, <1>3, OneClient DEF ApiNext, Shape

LEMMA OthersKept ==
    ASSUME Shape, NEW c \in Clients, Receive(c) \/ Serve(c) \/ StatementFails(c)
    PROVE  \A d \in Clients \ {c} : call'[d] = call[d] /\ http'[d] = http[d]
BY OneClient DEF Shape, OneCall, OneRequest, Become

(* What is proved of a step of TaskAdmin holds of a fault as well. *)
LEMMA AdminInvStep == AdminInv /\ [ApiNext]_apiVars => AdminInv'
<1>. SUFFICES ASSUME AdminInv, [ApiNext]_apiVars
              PROVE  AdminInv'
  OBVIOUS
<1>1. Shape'
  BY ShapeStep DEF AdminInv
<1>2. CASE [A!Next]_A!vars
  BY <1>1, <1>2, A!NextTypeOK, A!CallInvStep, AdminAssumption, ContentsAssumption DEF AdminInv
<1>3. CASE FaultOnly
  <2>1. A!TypeOK'
    BY <1>3 DEF AdminInv, FaultOnly, A!TypeOK, db, history
  <2>2. A!CallInv'
    BY <1>3
    DEF AdminInv, FaultOnly, db, A!CallInv, A!CallOK, A!Exists, A!At, A!ValidContents
  <2>. QED
    BY <1>1, <2>1, <2>2 DEF AdminInv
<1>. QED
  BY <1>2, <1>3, ApiStepAdmin DEF AdminInv

LEMMA AdminInvInit == ApiInit => AdminInv
<1>. SUFFICES ASSUME ApiInit
              PROVE  AdminInv
  OBVIOUS
<1>1. AdminCall = call
  BY DEF ApiInit, Init, AdminCall, Idle, Reading
<1>2. A!Init
  BY <1>1 DEF ApiInit, Init, A!Init, A!NoTask, NoTask, A!Idle, Idle
<1>3. Shape
  BY DEF ApiInit, Init, Shape
<1>4. A!CallInv
  BY <1>2 DEF A!Init, A!CallInv, A!CallOK, A!Idle, A!At
<1>. QED
  BY <1>2, <1>3, <1>4, A!InitTypeOK, AdminAssumption, ContentsAssumption DEF AdminInv

LEMMA AdminInvCorrect == ApiSpec => []AdminInv
BY AdminInvInit, AdminInvStep, PTL DEF ApiSpec


--------------------------------------------------------------------------------
(* The answers. *)

LEMMA IntervalSize ==
    ASSUME NEW n \in Nat
    PROVE  IsFiniteSet(1..n) /\ Cardinality(1..n) = n
<1>1. IsFiniteSet(1..n) /\ Cardinality(1..n) = IF 1 > n THEN 0 ELSE n - 1 + 1
  BY FS_Interval
<1>. QED
  BY <1>1

LEMMA RefusedType ==
    ASSUME NEW S, NEW ids \in Seq(S), Len(ids) <= 2
    PROVE  /\ Refused(ids) \in Seq(Answers)
           /\ Len(Refused(ids)) \in 0..2
           /\ Refused(ids) # <<>> => Len(Refused(ids)) \in 1..2 /\ Refused(ids)[1] = Refusal
           /\ (\A i \in DOMAIN ids : ids[i] # BelowOne) => Refused(ids) = <<>>
<1>. DEFINE bad == {i \in DOMAIN ids : ids[i] = BelowOne}
<1>0. Len(ids) \in Nat /\ DOMAIN ids = 1..Len(ids)
  OBVIOUS
<1>1. Len(ids) \in 0..2 /\ DOMAIN ids = 1..Len(ids)
  BY <1>0
<1>2. IsFiniteSet(1..Len(ids)) /\ Cardinality(1..Len(ids)) = Len(ids)
  BY <1>0, IntervalSize
<1>3. bad \subseteq 1..Len(ids)
  BY <1>1
<1>4. Cardinality(bad) \in Nat /\ Cardinality(bad) <= Len(ids)
  BY <1>2, <1>3, FS_Subset, FS_CardinalityType
<1>5. Refused(ids) = [n \in 1..Cardinality(bad) |-> Refusal]
  BY DEF Refused
<1>6. (\A i \in DOMAIN ids : ids[i] # BelowOne) => Cardinality(bad) = 0
  BY FS_EmptySet
<1>. HIDE DEF bad
<1>7. /\ Refused(ids) \in Seq(Answers) /\ Len(Refused(ids)) = Cardinality(bad)
      /\ \A n \in 1..Cardinality(bad) : Refused(ids)[n] = Refusal
  BY <1>4, <1>5 DEF Answers
<1>8. Cardinality(bad) \in 0..2
  BY <1>1, <1>4
<1>9. Refused(ids) = <<>> <=> Cardinality(bad) = 0
  BY <1>7, <1>8
<1>. QED
  BY <1>6, <1>7, <1>8, <1>9

LEMMA OpenedType ==
    ASSUME NEW S, NEW ids \in Seq(S), Len(ids) <= 2
    PROVE  LET h == Opened(ids)
           IN  /\ WellShaped(h) /\ h.open /\ ~h.changed /\ h.told = NothingTold
               /\ IF h.sound THEN h.answers = <<>>
                  ELSE Len(h.answers) \in 1..2 /\ h.answers[1] = Refusal
               /\ (\A i \in DOMAIN ids : ids[i] # BelowOne) => h.sound
<1>1. ASSUME NEW r, NEW s
      PROVE  LET h == [NoRequest EXCEPT !.open = TRUE, !.answers = r, !.sound = s]
             IN  /\ h.answers = r /\ h.open = TRUE /\ h.sound = s
                 /\ h.changed = FALSE /\ h.told = NothingTold
                 /\ h \in [answers : {r}, open : {TRUE}, sound : {s}, changed : {FALSE},
                           told : {NothingTold}]
  BY DEF NoRequest
<1>2. /\ Opened(ids).answers = Refused(ids) /\ Opened(ids).open = TRUE
      /\ Opened(ids).sound = (Refused(ids) = <<>>)
      /\ Opened(ids).changed = FALSE /\ Opened(ids).told = NothingTold
      /\ Opened(ids) \in [answers : {Refused(ids)}, open : {TRUE},
                          sound : {Refused(ids) = <<>>}, changed : {FALSE},
                          told : {NothingTold}]
  BY <1>1 DEF Opened
<1>3. /\ Refused(ids) \in Seq(Answers)
      /\ Refused(ids) # <<>> => Len(Refused(ids)) \in 1..2 /\ Refused(ids)[1] = Refusal
      /\ (\A i \in DOMAIN ids : ids[i] # BelowOne) => Refused(ids) = <<>>
  BY RefusedType
<1>4. WellShaped(Opened(ids))
  BY <1>2, <1>3 DEF WellShaped
<1>. QED
  BY <1>2, <1>3, <1>4

(* The answer of a request that was open. *)
LEMMA Answered ==
    ASSUME Shape, NEW c \in Clients, NEW h, WellShaped(h), NEW a \in Answers, NEW told,
           IF h.sound THEN h.answers = <<>>
           ELSE Len(h.answers) \in 1..2 /\ h.answers[1] = Refusal,
           (h.sound /\ a # Refusal) \/ (~h.changed /\ UNCHANGED db),
           At(c, "idle")', Answer(c, h, a, told)
    PROVE  RequestOK(c)' /\ http'[c].told = told /\ http'[c].open = FALSE
<1>. DEFINE i == [answers |-> Append(h.answers, a), open |-> FALSE, sound |-> h.sound,
                  changed |-> h.changed \/ db' # db, told |-> told]
<1>1. http'[c] = i
  BY DEF Answer, WellShaped, Shape
<1>2. i.answers = Append(h.answers, a) /\ i.answers \in Seq(Answers)
  BY DEF WellShaped
<1>3. i.changed = (h.changed \/ db' # db) /\ i.changed \in BOOLEAN
  OBVIOUS
<1>4. i.sound = h.sound /\ i.sound \in BOOLEAN /\ i.open = FALSE /\ i.told = told
  BY DEF WellShaped
<1>5. WellShaped(i)
  BY <1>2, <1>3, <1>4 DEF WellShaped
<1>. HIDE DEF i
<1>6. IF i.sound THEN Len(i.answers) = 1 /\ i.answers[1] = a
      ELSE Len(i.answers) \in 2..3 /\ i.answers[1] = Refusal
  <2>1. h.answers \in Seq(Answers)
    BY DEF WellShaped
  <2>2. CASE h.sound
    BY <1>2, <1>4, <2>1, <2>2
  <2>3. CASE ~h.sound
    <3>1. Len(i.answers) = Len(h.answers) + 1 /\ Len(h.answers) \in 1..2
      BY <1>2, <2>1, <2>3
    <3>2. i.answers[1] = h.answers[1]
      BY <1>2, <2>1, <3>1
    <3>3. Len(i.answers) \in 2..3
      <4>1. PICK n \in 1..2 : Len(h.answers) = n
        BY <3>1
      <4>. QED
        BY <3>1, <4>1
    <3>4. h.answers[1] = Refusal
      BY <2>3
    <3>. QED
      BY <1>4, <2>3, <3>2, <3>3, <3>4
  <2>. QED
    BY <2>2, <2>3
<1>7. Refusal \in Range(i.answers) => ~i.changed
  <2>1. CASE ~h.changed /\ UNCHANGED db
    BY <1>3, <2>1
  <2>2. CASE h.sound /\ a # Refusal
    <3>1. DOMAIN i.answers = {1} /\ i.answers[1] = a
      BY <1>2, <1>4, <1>6, <2>2
    <3>. QED
      BY <2>2, <3>1 DEF Range
  <2>. QED
    BY <2>1, <2>2
<1>. QED
  BY <1>1, <1>4, <1>5, <1>6, <1>7 DEF RequestOK

LEMMA AnsweredWell ==
    ASSUME Shape, NEW c \in Clients, NEW h, WellShaped(h), NEW a \in Answers, NEW told,
           h.sound, h.answers = <<>>, a # Refusal, At(c, "idle")', Answer(c, h, a, told)
    PROVE  RequestOK(c)' /\ http'[c].told = told /\ http'[c].open = FALSE
<1>1. /\ IF h.sound THEN h.answers = <<>>
         ELSE Len(h.answers) \in 1..2 /\ h.answers[1] = Refusal
  OBVIOUS
<1>2. (h.sound /\ a # Refusal) \/ (~h.changed /\ UNCHANGED db)
  OBVIOUS
<1>. QED
  BY <1>1, <1>2, Answered

LEMMA AnsweredRefusal ==
    ASSUME Shape, NEW c \in Clients, NEW h, WellShaped(h), NEW told,
           h.sound, h.answers = <<>>, ~h.changed, UNCHANGED db, At(c, "idle")',
           Answer(c, h, Refusal, told)
    PROVE  RequestOK(c)' /\ http'[c].told = told /\ http'[c].open = FALSE
<1>1. /\ IF h.sound THEN h.answers = <<>>
         ELSE Len(h.answers) \in 1..2 /\ h.answers[1] = Refusal
      /\ (h.sound /\ Refusal # Refusal) \/ (~h.changed /\ UNCHANGED db)
      /\ Refusal \in Answers
  BY DEF Answers
<1>. QED
  BY <1>1, Answered

(* A request that goes on. *)
LEMMA GoneOn ==
    ASSUME Shape, NEW c \in Clients, NEW h, WellShaped(h),
           h.open, h.sound, h.answers = <<>>, h.told = NothingTold,
           h.changed \/ db' # db => At(c, "replace")',
           ~At(c, "idle")', GoOn(c, h)
    PROVE  RequestOK(c)' /\ http'[c].told = NothingTold
<1>. DEFINE i == [answers |-> <<>>, open |-> TRUE, sound |-> TRUE,
                  changed |-> h.changed \/ db' # db, told |-> NothingTold]
<1>1. http'[c] = i
  BY DEF GoOn, WellShaped, Shape
<1>2. i.changed = (h.changed \/ db' # db) /\ i.changed \in BOOLEAN
  OBVIOUS
<1>3. i.answers = <<>> /\ i.sound = TRUE /\ i.open = TRUE /\ i.told = NothingTold
  OBVIOUS
<1>4. WellShaped(i)
  BY <1>2, <1>3 DEF WellShaped
<1>. HIDE DEF i
<1>5. Refusal \notin Range(i.answers)
  BY <1>3 DEF Range
<1>. QED
  BY <1>1, <1>2, <1>3, <1>4, <1>5 DEF RequestOK

LEMMA RequestKept ==
    ASSUME RequestInv, NEW d \in Clients, call'[d] = call[d], http'[d] = http[d]
    PROVE  RequestOK(d)'
BY DEF RequestInv, RequestOK, At, WellShaped

(* What is known of a request that a service works on. *)
LEMMA RequestOpen ==
    ASSUME RequestInv, NEW c \in Clients, ~At(c, "idle")
    PROVE  /\ WellShaped(http[c]) /\ http[c].open /\ http[c].sound
           /\ http[c].answers = <<>> /\ http[c].told = NothingTold
           /\ ~At(c, "replace") => ~http[c].changed
BY DEF RequestInv, RequestOK, WellShaped


Ids == MayBe(Groups \cup Tasks \cup Users)

IdList(ids) == ids \in Seq(Ids) /\ Len(ids) <= 2

AboveZero(ids) == \A i \in DOMAIN ids : ids[i] # BelowOne

LEMMA IdLists ==
    /\ IdList(<<>>) /\ AboveZero(<<>>)
    /\ \A a \in Ids : IdList(<<a>>) /\ (a # BelowOne => AboveZero(<<a>>))
    /\ \A a, b \in Ids : IdList(<<a, b>>)
                          /\ (a # BelowOne /\ b # BelowOne => AboveZero(<<a, b>>))
<1>1. \A a \in Ids : <<a>> \in Seq(Ids) /\ Len(<<a>>) = 1 /\ DOMAIN <<a>> = {1} /\ <<a>>[1] = a
  OBVIOUS
<1>2. ASSUME NEW a \in Ids, NEW b \in Ids
      PROVE  /\ <<a, b>> \in Seq(Ids) /\ Len(<<a, b>>) = 2 /\ DOMAIN <<a, b>> = {1, 2}
             /\ <<a, b>>[1] = a /\ <<a, b>>[2] = b
  OBVIOUS
<1>3. <<>> \in Seq(Ids) /\ Len(<<>>) = 0 /\ DOMAIN <<>> = {}
  OBVIOUS
<1>4. IdList(<<>>) /\ AboveZero(<<>>)
  BY <1>3 DEF IdList, AboveZero
<1>5. \A a \in Ids : IdList(<<a>>) /\ (a # BelowOne => AboveZero(<<a>>))
  BY <1>1 DEF IdList, AboveZero
<1>6. ASSUME NEW a \in Ids, NEW b \in Ids
      PROVE  IdList(<<a, b>>) /\ (a # BelowOne /\ b # BelowOne => AboveZero(<<a, b>>))
  BY <1>2 DEF IdList, AboveZero
<1>. QED
  BY <1>4, <1>5, <1>6

(* The answer of the first statement. *)
LEMMA AnsweredAtOnce ==
    ASSUME Shape, NEW c \in Clients, NEW ids, IdList(ids), NEW a \in Answers,
           AnswerAtOnce(c, ids, a)
    PROVE  RequestOK(c)' /\ http'[c].told = NothingTold
<1>1. /\ WellShaped(Opened(ids)) /\ ~Opened(ids).changed
      /\ IF Opened(ids).sound THEN Opened(ids).answers = <<>>
         ELSE Len(Opened(ids).answers) \in 1..2 /\ Opened(ids).answers[1] = Refusal
  BY OpenedType DEF IdList
<1>2. At(c, "idle")' /\ UNCHANGED db /\ Answer(c, Opened(ids), a, NothingTold)
  BY DEF AnswerAtOnce, service, At
<1>. QED
  BY <1>1, <1>2, Answered

(* A request that a service has begun to work on. *)
LEMMA TakenUp ==
    ASSUME Shape, NEW c \in Clients, NEW ids, IdList(ids), AboveZero(ids),
           UNCHANGED db, ~At(c, "idle")', GoOn(c, Opened(ids))
    PROVE  RequestOK(c)' /\ http'[c].told = NothingTold
<1>1. /\ WellShaped(Opened(ids)) /\ Opened(ids).open /\ ~Opened(ids).changed
      /\ Opened(ids).told = NothingTold /\ Opened(ids).sound /\ Opened(ids).answers = <<>>
  BY OpenedType DEF IdList, AboveZero
<1>. QED
  BY <1>1, GoneOn

LEMMA Begun ==
    ASSUME Shape, NEW c \in Clients, NEW local, local.step # "idle", Become(c, local)
    PROVE  ~At(c, "idle")'
BY DEF Shape, Become, At

LEMMA ReceiveRequest ==
    ASSUME AdminInv, NEW c \in Clients, Receive(c)
    PROVE  RequestOK(c)' /\ http'[c].told = NothingTold
<1>. DEFINE Goal == RequestOK(c)' /\ http'[c].told = NothingTold
<1>. SUFFICES Goal
  OBVIOUS
<1>. USE DEF AdminInv
<1>1. ASSUME NEW ids, IdList(ids), NEW a \in Answers, AnswerAtOnce(c, ids, a)
      PROVE  Goal
  BY <1>1, AnsweredAtOnce
<1>2. ASSUME NEW ids, IdList(ids), AboveZero(ids), UNCHANGED db, NEW local,
             local.step # "idle", Become(c, local), GoOn(c, Opened(ids))
      PROVE  Goal
  BY <1>2, TakenUp, Begun
<1>3. Done \in Answers /\ Refusal \in Answers /\ Failure \in Answers /\ Done # Refusal
      /\ Failure # Refusal
  BY DEF Answers, Done, Refusal, Failure
<1>4. BelowOne \in Ids /\ Groups \subseteq Ids /\ Tasks \subseteq Ids /\ Users \subseteq Ids
      /\ MayBe(Groups) \subseteq Ids /\ MayBe(Tasks) \subseteq Ids /\ MayBe(Users) \subseteq Ids
  BY DEF Ids, MayBe
<1>5. BelowOne \notin Groups /\ BelowOne \notin Tasks /\ BelowOne \notin Users
  BY ApiAssumption
<1>. HIDE DEF Goal
<1>6. CASE AuthFails(c) \/ DecodeFails(c) \/ OneRead(c)
  BY <1>1, <1>3, <1>4, <1>6, IdLists DEF AuthFails, DecodeFails, OneRead
<1>7. CASE FirstStatementFails(c)
  <2>1. IdList(<<>>) /\ AboveZero(<<>>)
    BY IdLists
  <2>2. /\ WellShaped(Opened(<<>>)) /\ ~Opened(<<>>).changed
        /\ Opened(<<>>).sound /\ Opened(<<>>).answers = <<>>
    BY <2>1, OpenedType DEF IdList, AboveZero
  <2>3. /\ At(c, "idle")' /\ UNCHANGED db /\ Answer(c, Opened(<<>>), Failure, NothingTold)
    BY <1>7 DEF FirstStatementFails, At
  <2>. QED
    BY <1>3, <2>2, <2>3, Answered DEF Goal
<1>8. ASSUME NEW g \in Groups, HttpCreateTaskGroup(c, g)
      PROVE  Goal
  <2>1. IdList(<<>>) /\ AboveZero(<<>>)
    BY IdLists
  <2>2. /\ WellShaped(Opened(<<>>)) /\ ~Opened(<<>>).changed
        /\ Opened(<<>>).sound /\ Opened(<<>>).answers = <<>>
    BY <2>1, OpenedType DEF IdList, AboveZero
  <2>3. At(c, "idle")' /\ Answer(c, Opened(<<>>), Done, NothingTold)
    BY <1>8 DEF HttpCreateTaskGroup, CreateTaskGroup, At
  <2>. QED
    BY <1>3, <2>2, <2>3, AnsweredWell DEF Goal
<1>9. ASSUME NEW g \in Groups, HttpSaveTaskGroup(c, g) \/ HttpPublishTaskGroup(c, g)
      PROVE  Goal
  BY <1>1, <1>2, <1>3, <1>9, IdLists
  DEF HttpSaveTaskGroup, HttpPublishTaskGroup, SaveTaskGroup, PublishTaskGroup
<1>10. ASSUME NEW g \in MayBe(Groups), ListTasksByGroup(c, g)
       PROVE  Goal
  <2>1. g \in Ids /\ IdList(<<g>>) /\ (g \in Groups => AboveZero(<<g>>))
    BY <1>4, <1>5, IdLists
  <2>2. GroupStatus(g) # "None" => g \in Groups
    BY DEF GroupStatus, StatusOf
  <2>. QED
    BY <1>1, <1>2, <1>3, <1>10, <2>1, <2>2 DEF ListTasksByGroup, Reads
<1>11. ASSUME NEW g \in MayBe(Groups), NEW u \in MayBe(Users), ListUserTaskProgress(c, g, u)
       PROVE  Goal
  <2>1. g \in Ids /\ u \in Ids /\ IdList(<<g, u>>)
        /\ (g # BelowOne /\ u # BelowOne => AboveZero(<<g, u>>))
    BY <1>4, IdLists
  <2>. QED
    BY <1>1, <1>2, <1>3, <1>11, <2>1 DEF ListUserTaskProgress, Reads
<1>12. ASSUME NEW g \in MayBe(Groups), NEW content \in Contents, HttpCreateTask(c, g, content)
       PROVE  Goal
  <2>1. g \in Ids /\ IdList(<<g>>) /\ (g \in Groups => AboveZero(<<g>>))
    BY <1>4, <1>5, IdLists
  <2>. QED
    BY <1>1, <1>2, <1>3, <1>12, <2>1 DEF HttpCreateTask, CreateTask
<1>13. ASSUME NEW g \in MayBe(Groups), NEW t \in MayBe(Tasks)
       PROVE  /\ IdList(<<g, t>>)
              /\ InGroup(t, g) => AboveZero(<<g, t>>)
  <2>1. g \in Ids /\ t \in Ids /\ IdList(<<g, t>>)
        /\ (g # BelowOne /\ t # BelowOne => AboveZero(<<g, t>>))
    BY <1>4, IdLists
  <2>2. ASSUME InGroup(t, g)
        PROVE  t \in Tasks /\ g \in Groups
    <3>1. t \in Tasks /\ task[t].status # "None" /\ task[t].group = g
      BY <2>2 DEF InGroup, TaskStatus, StatusOf
    <3>2. A!Exists(t)
      BY <3>1 DEF A!Exists
    <3>3. task[t].group \in Groups
      BY <3>1, <3>2, A!TaskType, AdminAssumption, ContentsAssumption
    <3>. QED
      BY <3>1, <3>3
  <2>. QED
    BY <1>5, <2>1, <2>2
<1>14. ASSUME NEW g \in MayBe(Groups), NEW t \in MayBe(Tasks), GetTaskDetail(c, g, t)
       PROVE  Goal
  BY <1>1, <1>2, <1>3, <1>13, <1>14 DEF GetTaskDetail, Reads
<1>15. ASSUME NEW g \in MayBe(Groups), NEW t \in MayBe(Tasks), NEW content \in Contents,
              HttpSaveTask(c, g, t, content)
       PROVE  Goal
  BY <1>1, <1>2, <1>3, <1>13, <1>15 DEF HttpSaveTask, SaveTask
<1>16. ASSUME NEW g \in MayBe(Groups), NEW t \in MayBe(Tasks), NEW u \in MayBe(Users),
              GrpcEnrollTask(c, u, t, g)
       PROVE  Goal
  BY <1>1, <1>2, <1>3, <1>16, IdLists DEF GrpcEnrollTask, EnrollSingleTask, EnrollGroup, Listed
<1>17. ASSUME NEW t \in MayBe(Tasks), HttpPublishTask(c, t)
       PROVE  Goal
  <2>1. t \in Ids /\ IdList(<<t>>) /\ (t \in Tasks => AboveZero(<<t>>))
    BY <1>4, <1>5, IdLists
  <2>. QED
    BY <1>1, <1>2, <1>3, <1>17, <2>1 DEF HttpPublishTask, PublishTask
<1>. QED
  BY <1>6, <1>7, <1>8, <1>9, <1>10, <1>11, <1>12, <1>14, <1>15, <1>16, <1>17 DEF Receive


LEMMA Ended ==
    ASSUME Shape, NEW c \in Clients, Return(c)
    PROVE  At(c, "idle")' /\ call'[c] = Idle /\ Ends(c)
BY DEF Shape, Return, Become, At, Idle, Ends

(* An update that affects no row changes nothing. *)
LEMMA NoRowChanged ==
    ASSUME AdminInv, NEW c \in Clients, NoRowAffected(c),
           UpdateGroupStatus(c) \/ UpdateTaskStatus(c)
    PROVE  ~At(c, "replace") /\ UNCHANGED db
<1>. USE AdminAssumption, ContentsAssumption
<1>1. CASE UpdateGroupStatus(c)
  <2>1. /\ At(c, "publishGroup") /\ group[call[c].group] = "Published"
        /\ group' = [group EXCEPT ![call[c].group] = "Published"]
        /\ UNCHANGED <<task, conds, enrolled>>
    BY <1>1 DEF NoRowAffected, UpdateGroupStatus, At
  <2>2. group \in [Groups -> {"None", "Draft", "Published"}]
    BY DEF AdminInv, A!TypeOK
  <2>. QED
    BY <2>1, <2>2 DEF db, At
<1>2. CASE UpdateTaskStatus(c)
  <2>1. /\ At(c, "publishTask") /\ task[call[c].task].status = "Published"
        /\ task' = [task EXCEPT ![call[c].task].status = "Published"]
        /\ UNCHANGED <<group, conds, enrolled>>
    BY <1>2 DEF NoRowAffected, UpdateTaskStatus, At
  <2>2. AdminCall[c] = call[c] /\ A!At(c, "publishTask")
    BY <2>1, AtAdmin DEF Reading
  <2>3. PICK t \in Tasks : t = call[c].task
    BY <2>2, A!CallType DEF AdminInv
  <2>4. A!Exists(t)
    BY <2>2, <2>3 DEF AdminInv, A!CallInv, A!CallOK, A!At
  <2>5. task[t].status = "Published" => [task[t] EXCEPT !.status = "Published"] = task[t]
    BY <2>4, A!TaskType DEF AdminInv
  <2>6. task' = task
    BY <2>1, <2>3, <2>5 DEF AdminInv, A!TypeOK
  <2>. QED
    BY <2>1, <2>6 DEF db, At
<1>. QED
  BY <1>1, <1>2

LEMMA ServeRequest ==
    ASSUME AdminInv, RequestInv, NEW c \in Clients, Serve(c) \/ StatementFails(c)
    PROVE  RequestOK(c)'
<1>. USE DEF AdminInv
<1>1. Done \in Answers /\ Failure \in Answers /\ Done # Refusal /\ Failure # Refusal
  BY DEF Answers, Done, Refusal, Failure
<1>2. ASSUME NEW a \in {Done, Failure}, NEW told, ~At(c, "idle"), Return(c),
             Answer(c, http[c], a, told)
      PROVE  RequestOK(c)'
  BY <1>1, <1>2, Ended, RequestOpen, AnsweredWell
<1>3. ASSUME NEW told, ~At(c, "idle"), ~At(c, "replace"), Return(c), UNCHANGED db,
             Answer(c, http[c], Refusal, told)
      PROVE  RequestOK(c)'
  BY <1>3, Ended, RequestOpen, AnsweredRefusal
<1>4. ASSUME ~At(c, "idle"), ~At(c, "replace"), ~At(c, "idle")', UNCHANGED db, GoOn(c, http[c])
      PROVE  RequestOK(c)'
  BY <1>4, RequestOpen, GoneOn
<1>5. ASSUME ~At(c, "idle"), At(c, "replace")', GoOn(c, http[c])
      PROVE  RequestOK(c)'
  <2>1. ~At(c, "idle")'
    BY <1>5 DEF At
  <2>. QED
    BY <1>5, <2>1, RequestOpen, GoneOn
<1>6. CASE BuildTaskVO(c)
  <2>1. ~At(c, "idle") /\ Return(c)
    BY <1>6 DEF BuildTaskVO, At
  <2>. QED
    BY <1>2, <1>6, <2>1 DEF BuildTaskVO
<1>7. CASE ListTasksByGroupID(c)
  <2>1. ~At(c, "idle") /\ Return(c)
    BY <1>7 DEF ListTasksByGroupID, At
  <2>. QED
    BY <1>2, <1>7, <2>1 DEF ListTasksByGroupID
<1>8. CASE JoinProgress(c)
  <2>1. ~At(c, "idle") /\ Return(c)
    BY <1>8 DEF JoinProgress, At
  <2>. QED
    BY <1>2, <1>8, <2>1 DEF JoinProgress
<1>9. CASE ListPublished(c)
  <2>1. ~At(c, "idle") /\ ~At(c, "replace")
    BY <1>9 DEF ListPublished, At
  <2>2. call'[c] = [step |-> "progress", tasks |-> Published(call[c].group),
                    user |-> call[c].user, settled |-> call[c].settled, had |-> call[c].had]
    BY <1>9 DEF ListPublished, Become, Shape
  <2>3. ~At(c, "idle")'
    BY <2>2 DEF At
  <2>. QED
    BY <1>4, <1>9, <2>1, <2>3 DEF ListPublished
<1>10. CASE FinishSaveGroup(c) \/ FinishPublishGroup(c) \/ FinishSave(c) \/ FinishPublish(c)
  <2>1. ~At(c, "idle") /\ Return(c)
    BY <1>10
    DEF FinishSaveGroup, SaveGroupRow, FinishPublishGroup, UpdateGroupStatus, FinishSave,
        ReplaceConditions, FinishPublish, UpdateTaskStatus, At
  <2>2. CASE FinishSaveGroup(c) \/ FinishSave(c)
    BY <1>2, <2>1, <2>2 DEF FinishSaveGroup, FinishSave
  <2>3. CASE FinishPublishGroup(c) \/ FinishPublish(c)
    <3>1. ASSUME NoRowAffected(c), Answer(c, http[c], Refusal, NothingTold)
          PROVE  RequestOK(c)'
      BY <1>3, <2>1, <2>3, <3>1, NoRowChanged DEF FinishPublishGroup, FinishPublish
    <3>. QED
      BY <1>2, <2>1, <2>3, <3>1 DEF FinishPublishGroup, FinishPublish
  <2>. QED
    BY <1>10, <2>2, <2>3
<1>11. CASE GoOnInsert(c)
  <2>1. PICK t \in Tasks : InsertTask(c, t)
    BY <1>11 DEF GoOnInsert
  <2>2. call'[c] = [step |-> "replace", task |-> t, content |-> call[c].content,
                    save |-> call[c].save]
    BY <2>1 DEF InsertTask, Become, Shape
  <2>3. ~At(c, "idle") /\ At(c, "replace")'
    BY <2>1, <2>2 DEF InsertTask, At
  <2>. QED
    BY <1>5, <1>11, <2>3 DEF GoOnInsert
<1>12. CASE GoOnSave(c)
  <2>1. call'[c] = [step |-> "replace", task |-> call[c].task, content |-> call[c].content,
                    save |-> call[c].save]
    BY <1>12 DEF GoOnSave, SaveRow, Become, Shape
  <2>2. ~At(c, "idle") /\ At(c, "replace")'
    BY <1>12, <2>1 DEF GoOnSave, SaveRow, At
  <2>. QED
    BY <1>5, <1>12, <2>2 DEF GoOnSave
<1>13. CASE AnswerCheckGroup(c)
  <2>1. ~At(c, "idle") /\ ~At(c, "replace") /\ UNCHANGED db
    BY <1>13 DEF AnswerCheckGroup, CheckGroup, At
  <2>2. CASE Return(c)
    BY <1>3, <1>13, <2>1, <2>2, Ended DEF AnswerCheckGroup
  <2>3. CASE ~Return(c)
    <3>1. AdminCall[c] = call[c] /\ A!At(c, "group")
      BY <1>13, AtAdmin DEF AnswerCheckGroup, CheckGroup, Reading
    <3>2. call[c] \in A!Saving
      BY <3>1, A!CallType, AdminAssumption, ContentsAssumption
    <3>3. call'[c] = [call[c] EXCEPT !.step = "save"]
      BY <1>13, <2>3 DEF AnswerCheckGroup, CheckGroup, Become, Shape
    <3>4. call'[c].step = "save"
      BY <3>2, <3>3 DEF A!Saving
    <3>5. ~At(c, "idle")' /\ ~Ends(c)
      BY <3>4 DEF At, Ends, Idle
    <3>. QED
      BY <1>4, <1>13, <2>1, <3>5 DEF AnswerCheckGroup
  <2>. QED
    BY <2>2, <2>3
<1>14. CASE AnswerListTasks(c)
  <2>1. ~At(c, "idle") /\ ~At(c, "replace") /\ UNCHANGED db
    BY <1>14 DEF AnswerListTasks, ListTasks, At
  <2>2. CASE Return(c)
    BY <1>3, <1>14, <2>1, <2>2, Ended DEF AnswerListTasks
  <2>3. CASE ~Return(c)
    <3>1. call'[c] = [step |-> "conditions", user |-> call[c].user,
                      tasks |-> TasksOf(call[c].group),
                      settled |-> {t \in TasksOf(call[c].group) : Settled(t)}]
      BY <1>14, <2>3 DEF AnswerListTasks, ListTasks, Listed, Become, Shape
    <3>2. call'[c].step = "conditions"
      BY <3>1
    <3>3. ~At(c, "idle")' /\ ~Ends(c)
      BY <3>2 DEF At, Ends, Idle
    <3>. QED
      BY <1>4, <1>14, <2>1, <3>3 DEF AnswerListTasks
  <2>. QED
    BY <2>2, <2>3
<1>15. CASE AnswerLoadConditions(c)
  <2>1. ~At(c, "idle") /\ ~At(c, "replace") /\ UNCHANGED db
    BY <1>15 DEF AnswerLoadConditions, LoadConditions, At
  <2>2. CASE Return(c)
    BY <1>3, <1>15, <2>1, <2>2, Ended DEF AnswerLoadConditions
  <2>3. CASE ~Return(c)
    <3>1. call'[c] = [step |-> "enroll", user |-> call[c].user, settled |-> call[c].settled,
                      rows |-> EnrollProgressItems(call[c].tasks)]
      BY <1>15, <2>3 DEF AnswerLoadConditions, LoadConditions, Become, Shape
    <3>2. call'[c].step = "enroll"
      BY <3>1
    <3>3. ~At(c, "idle")' /\ ~Ends(c)
      BY <3>2 DEF At, Ends, Idle
    <3>. QED
      BY <1>4, <1>15, <2>1, <3>3 DEF AnswerLoadConditions
  <2>. QED
    BY <2>2, <2>3
<1>16. CASE FinishEnroll(c)
  <2>1. ~At(c, "idle") /\ ~At(c, "replace") /\ Return(c)
    BY <1>16 DEF FinishEnroll, EnrollUserTasks, At
  <2>2. DuplicateEnrolment(call[c].user, DOMAIN call[c].rows) => UNCHANGED db
    BY <1>16 DEF FinishEnroll, EnrollUserTasks, db
  <2>. QED
    BY <1>2, <1>3, <1>16, <2>1, <2>2 DEF FinishEnroll
<1>17. CASE StatementFails(c)
  <2>1. ~At(c, "idle") /\ Return(c)
    BY <1>17 DEF StatementFails, CutShort
  <2>. QED
    BY <1>2, <1>17, <2>1 DEF StatementFails
<1>. QED
  BY <1>6, <1>7, <1>8, <1>9, <1>10, <1>11, <1>12, <1>13, <1>14, <1>15, <1>16, <1>17 DEF Serve

LEMMA RequestInvStep == AdminInv /\ RequestInv /\ [ApiNext]_apiVars => RequestInv'
<1>. SUFFICES ASSUME AdminInv, RequestInv, [ApiNext]_apiVars, NEW d \in Clients
              PROVE  RequestOK(d)'
  BY DEF RequestInv
<1>1. ASSUME NEW c \in Clients, Receive(c) \/ Serve(c) \/ StatementFails(c)
      PROVE  RequestOK(d)'
  <2>1. CASE d = c
    BY <1>1, <2>1, ReceiveRequest, ServeRequest
  <2>2. CASE d # c
    BY <1>1, <2>2, OthersKept, RequestKept DEF AdminInv
  <2>. QED
    BY <2>1, <2>2
<1>2. CASE UNCHANGED apiVars
  BY <1>2, RequestKept DEF apiVars, vars
<1>. QED
  BY <1>1, <1>2 DEF ApiNext

LEMMA RequestInvInit == ApiInit => RequestInv
<1>. SUFFICES ASSUME ApiInit, NEW c \in Clients
              PROVE  RequestOK(c)
  BY DEF RequestInv
<1>1. call[c].step = "idle" /\ http[c] = NoRequest
  BY DEF ApiInit, Init, Idle
<1>2. WellShaped(NoRequest)
  BY DEF WellShaped, NoRequest
<1>. QED
  BY <1>1, <1>2 DEF RequestOK, NoRequest, At, Range

LEMMA RequestCorrect == ApiSpec => [](AdminInv /\ RequestInv)
BY AdminInvInit, AdminInvStep, RequestInvInit, RequestInvStep, PTL DEF ApiSpec

(* A request is open as long as a service works on it, and is answered with the *)
(* statuses there are, at most three times.                                     *)
THEOREM ApiTypeCorrect == ApiSpec => []ApiTypeOK
<1>1. ASSUME RequestInv
      PROVE  ApiTypeOK
  <2>. SUFFICES ASSUME NEW c \in Clients
                PROVE  /\ http[c].open <=> ~At(c, "idle")
                       /\ http[c].answers \in Seq({Done, Refusal, Failure})
                       /\ Len(http[c].answers) <= 3
                       /\ http[c].sound \in BOOLEAN
                       /\ http[c].changed \in BOOLEAN
    BY DEF ApiTypeOK
  <2>1. RequestOK(c) /\ WellShaped(http[c])
    BY <1>1 DEF RequestInv, RequestOK
  <2>2. http[c].answers \in Seq(Answers) /\ http[c].sound \in BOOLEAN /\ http[c].changed \in BOOLEAN
    BY <2>1 DEF WellShaped
  <2>3. \/ Len(http[c].answers) \in 2..3 \/ Len(http[c].answers) = 1
        \/ http[c].answers = <<>> \/ http[c] = NoRequest
    BY <2>1 DEF RequestOK
  <2>4. http[c] = NoRequest => http[c].answers = <<>>
    BY DEF NoRequest
  <2>5. \E n \in 0..3 : Len(http[c].answers) = n
    <3>1. CASE Len(http[c].answers) \in 2..3
      <4>1. PICK n \in 2..3 : Len(http[c].answers) = n
        BY <3>1
      <4>. QED
        BY <4>1
    <3>2. CASE Len(http[c].answers) = 1
      BY <3>2
    <3>3. CASE http[c].answers = <<>>
      BY <3>3
    <3>. QED
      BY <2>3, <2>4, <3>1, <3>2, <3>3
  <2>6. Len(http[c].answers) <= 3
    BY <2>5
  <2>. QED
    BY <2>1, <2>2, <2>5, <2>6 DEF RequestOK, Answers
<1>. QED
  BY <1>1, RequestCorrect, PTL

(* No request that is ever answered with a refusal changes a table, before or   *)
(* after the answer.                                                            *)
THEOREM RefusedChangedNothingCorrect == ApiSpec => []RefusedChangedNothing
<1>1. RequestInv => RefusedChangedNothing
  BY DEF RequestInv, RequestOK, RefusedChangedNothing
<1>. QED
  BY <1>1, RequestCorrect, PTL

(* Every path of a handler answers exactly once, unless an id of the path is    *)
(* not above zero: then the first answer is 400.                                *)
THEOREM AnsweredOnceCorrect == ApiSpec => []AnsweredOnce
<1>1. ASSUME RequestInv, NEW c \in Clients
      PROVE  IF http[c].sound
             THEN Len(http[c].answers) = IF http[c].open \/ http[c] = NoRequest THEN 0 ELSE 1
             ELSE http[c].answers[1] = Refusal
  <2>1. RequestOK(c)
    BY <1>1 DEF RequestInv
  <2>2. http[c] = NoRequest => http[c].answers = <<>> /\ http[c].sound
    BY DEF NoRequest
  <2>3. CASE http[c].open
    BY <2>1, <2>3 DEF RequestOK
  <2>4. CASE ~http[c].open
    BY <2>1, <2>2, <2>4 DEF RequestOK
  <2>. QED
    BY <2>3, <2>4
<1>2. RequestInv => AnsweredOnce
  BY <1>1 DEF AnsweredOnce
<1>. QED
  BY <1>2, RequestCorrect, PTL


--------------------------------------------------------------------------------
(* What callers are told. *)

LEMMA SettledAdminNext == \A t \in Tasks : A!Settled(t)' <=> Settled(t)'
BY DEF A!Writes, Writes, AdminCall, Reading, Idle, A!Settled, Settled

(* What a caller may have been told of the catalogue stays. *)
LEMMA CatalogueKept ==
    ASSUME AdminInv, [ApiNext]_apiVars
    PROVE  /\ \A t \in Tasks : Settled(t) =>
                  Settled(t)' /\ task'[t] = task[t] /\ ConditionsOf(t)' = ConditionsOf(t)
           /\ \A t \in Tasks : Exists(t) => Exists(t)' /\ task'[t].group = task[t].group
           /\ \A t \in Tasks : ConditionsOf(t) # {} => ConditionsOf(t)' # {}
           /\ \A u \in Users, t \in Tasks :
                  enrolled[u][t] # {} => enrolled'[u][t] = enrolled[u][t]
<1>. USE AdminAssumption, ContentsAssumption DEF AdminInv
<1>1. \A t : /\ A!ConditionsOf(t) = ConditionsOf(t) /\ A!ConditionsOf(t)' = ConditionsOf(t)'
             /\ (A!Exists(t) <=> Exists(t)) /\ (A!Exists(t)' <=> Exists(t)')
  BY DEF A!ConditionsOf, ConditionsOf, A!Exists, Exists
<1>2. CASE [A!Next]_A!vars
  <2>1. ASSUME NEW t \in Tasks, Settled(t)
        PROVE  Settled(t)' /\ task'[t] = task[t] /\ ConditionsOf(t)' = ConditionsOf(t)
    <3>1. A!Settled(t)
      BY <2>1, SettledAdmin
    <3>2. A!Settled(t)' /\ task'[t] = task[t] /\ A!ConditionsOf(t)' = A!ConditionsOf(t)
      BY <1>2, <3>1, A!SettledStays
    <3>. QED
      BY <1>1, <3>2, SettledAdminNext
  <2>2. \A t \in Tasks : Exists(t) => Exists(t)' /\ task'[t].group = task[t].group
    BY <1>1, <1>2, A!TaskSteps
  <2>3. \A t \in Tasks : ConditionsOf(t) # {} => ConditionsOf(t)' # {}
    BY <1>1, <1>2, A!ConditionsStay
  <2>4. \A u \in Users, t \in Tasks : enrolled[u][t] # {} => enrolled'[u][t] = enrolled[u][t]
    BY <1>2, A!EnrolmentStays
  <2>. QED
    BY <2>1, <2>2, <2>3, <2>4
<1>3. CASE FaultOnly
  <2>1. UNCHANGED db /\ UNCHANGED AdminCall
    BY <1>3 DEF FaultOnly
  <2>2. \A t \in Tasks : A!Settled(t) => A!Settled(t)'
    BY <2>1 DEF A!Settled, A!Writes, db
  <2>3. \A t \in Tasks : Settled(t) => Settled(t)'
    BY <2>2, SettledAdmin, SettledAdminNext
  <2>. QED
    BY <2>1, <2>3 DEF db, ConditionsOf, Exists
<1>. QED
  BY <1>2, <1>3, ApiStepAdmin

LEMMA ToldKept ==
    ASSUME AdminInv, [ApiNext]_apiVars, NEW d \in Clients, ReadOK(d), ToldOK(d),
           call'[d] = call[d], http'[d] = http[d]
    PROVE  ReadOK(d)' /\ ToldOK(d)'
<1>1. \A g : TasksOf(g) \subseteq TasksOf(g)'
  BY CatalogueKept DEF TasksOf
<1>2. \A g : \A t \in Published(g) : Settled(t) => t \in Published(g)' /\ Settled(t)'
  <2>. SUFFICES ASSUME NEW g, NEW t \in Published(g), Settled(t)
                PROVE  t \in Published(g)' /\ Settled(t)'
    OBVIOUS
  <2>1. t \in Tasks /\ t \in TasksOf(g) /\ task[t].status = "Published"
    BY DEF Published, TasksOf
  <2>2. task'[t] = task[t] /\ Settled(t)'
    BY <2>1, CatalogueKept
  <2>. QED
    BY <1>1, <2>1, <2>2 DEF Published
<1>3. \A u \in Users : EnrolledIn(u) \subseteq EnrolledIn(u)'
  BY CatalogueKept DEF EnrolledIn
<1>4. ReadOK(d)'
  <2>1. PICK l : l = call[d] /\ l = call'[d]
    OBVIOUS
  <2>2. l.step = "detail" =>
            /\ l.task \in Tasks
            /\ l.settled => Settled(l.task)' /\ l.row = task'[l.task]
    BY <2>1, CatalogueKept DEF ReadOK, At
  <2>3. l.step = "tasks" => l.had \subseteq TasksOf(l.group)'
    BY <1>1, <2>1 DEF ReadOK, At
  <2>4. l.step = "published" =>
            /\ \A t \in l.settled : t \in Published(l.group)' /\ Settled(t)'
            /\ l.user \in Users /\ l.had \subseteq EnrolledIn(l.user)'
    BY <1>2, <1>3, <2>1 DEF ReadOK, At
  <2>5. l.step = "progress" =>
            /\ l.settled \subseteq l.tasks
            /\ l.user \in Users /\ l.had \subseteq EnrolledIn(l.user)'
    BY <1>3, <2>1 DEF ReadOK, At
  <2>6. l.step = "enroll" => \A t \in DOMAIN l.rows : l.rows[t] # {}
    BY <2>1 DEF ReadOK, At
  <2>. QED
    BY <2>1, <2>2, <2>3, <2>4, <2>5, <2>6 DEF ReadOK, At
<1>5. ToldOK(d)'
  <2>. DEFINE told == http[d].told
  <2>1. told.kind = "saved" => /\ told.task \in Tasks
                               /\ Exists(told.task)' /\ ConditionsOf(told.task)' # {}
    BY CatalogueKept DEF ToldOK
  <2>2. told.kind = "published" => told.task \in Tasks /\ Settled(told.task)'
    BY CatalogueKept DEF ToldOK
  <2>3. told.kind = "enrolled" =>
            /\ told.user \in Users /\ DOMAIN told.rows \subseteq Tasks
            /\ \A t \in DOMAIN told.rows : /\ enrolled'[told.user][t] = told.rows[t]
                                           /\ told.rows[t] # {}
    BY CatalogueKept DEF ToldOK
  <2>4. told.kind = "detail" =>
            /\ told.task \in Tasks /\ Settled(told.task)'
            /\ told.row = task'[told.task] /\ told.conds = ConditionsOf(told.task)'
    BY CatalogueKept DEF ToldOK
  <2>5. told.kind = "list" => told.missing = {}
    BY DEF ToldOK
  <2>. QED
    BY <2>1, <2>2, <2>3, <2>4, <2>5 DEF ToldOK
<1>. QED
  BY <1>4, <1>5


LEMMA NothingToldOK ==
    ASSUME NEW c \in Clients, http'[c].told = NothingTold
    PROVE  ToldOK(c)'
BY DEF ToldOK, NothingTold

LEMMA NothingReadOK ==
    ASSUME NEW c \in Clients, call'[c].step \notin Reading \cup {"enroll"}
    PROVE  ReadOK(c)'
BY DEF ReadOK, At, Reading

(* What a call that only reads has read is there. *)
LEMMA ReceiveTold ==
    ASSUME AdminInv, [ApiNext]_apiVars, NEW c \in Clients, Receive(c)
    PROVE  ReadOK(c)' /\ ToldOK(c)'
<1>1. ToldOK(c)'
  BY ReceiveRequest, NothingToldOK
<1>2. \A local : Become(c, local) => call'[c] = local
  BY DEF Become, AdminInv, Shape
<1>3. At(c, "idle") /\ UNCHANGED call => ReadOK(c)'
  BY NothingReadOK DEF At, Reading
<1>4. ASSUME NEW ids, NEW a, AnswerAtOnce(c, ids, a)
      PROVE  ReadOK(c)'
  BY <1>3, <1>4 DEF AnswerAtOnce, service
<1>5. ASSUME AuthFails(c) \/ DecodeFails(c) \/ OneRead(c)
      PROVE  ReadOK(c)'
  <2>1. \E ids, a : AnswerAtOnce(c, ids, a)
    BY <1>5 DEF AuthFails, DecodeFails, OneRead
  <2>. QED
    BY <1>4, <2>1
<1>6. ASSUME FirstStatementFails(c)
      PROVE  ReadOK(c)'
  <2>1. At(c, "idle") /\ UNCHANGED call
    BY <1>6 DEF FirstStatementFails
  <2>. QED
    BY <1>3, <2>1
<1>7. ASSUME NEW g \in Groups,
             HttpCreateTaskGroup(c, g) \/ HttpSaveTaskGroup(c, g) \/ HttpPublishTaskGroup(c, g)
      PROVE  ReadOK(c)'
  <2>1. CASE CreateTaskGroup(c, g)
    BY <1>3, <2>1 DEF CreateTaskGroup
  <2>2. CASE SaveTaskGroup(c, g) \/ PublishTaskGroup(c, g)
    <3>1. call'[c].step \in {"saveGroup", "publishGroup"}
      BY <1>2, <2>2 DEF SaveTaskGroup, PublishTaskGroup
    <3>. QED
      BY <3>1, NothingReadOK DEF Reading
  <2>. QED
    BY <1>4, <1>7, <2>1, <2>2
    DEF HttpCreateTaskGroup, HttpSaveTaskGroup, HttpPublishTaskGroup
<1>8. ASSUME NEW g, NEW content, HttpCreateTask(c, g, content)
      PROVE  ReadOK(c)'
  <2>1. CASE CreateTask(c, g, content)
    <3>1. call'[c].step = "insert"
      BY <1>2, <2>1 DEF CreateTask
    <3>. QED
      BY <3>1, NothingReadOK DEF Reading
  <2>. QED
    BY <1>4, <1>8, <2>1 DEF HttpCreateTask
<1>9. ASSUME NEW g, NEW t, NEW content, HttpSaveTask(c, g, t, content)
      PROVE  ReadOK(c)'
  <2>1. CASE SaveTask(c, t, content)
    <3>1. call'[c].step = "group"
      BY <1>2, <2>1 DEF SaveTask
    <3>. QED
      BY <3>1, NothingReadOK DEF Reading
  <2>. QED
    BY <1>4, <1>9, <2>1 DEF HttpSaveTask
<1>10. ASSUME NEW t, HttpPublishTask(c, t)
       PROVE  ReadOK(c)'
  <2>1. CASE PublishTask(c, t)
    <3>1. call'[c].step = "publishTask"
      BY <1>2, <2>1 DEF PublishTask
    <3>. QED
      BY <3>1, NothingReadOK DEF Reading
  <2>. QED
    BY <1>4, <1>10, <2>1 DEF HttpPublishTask
<1>11. ASSUME NEW u, NEW t, NEW g, GrpcEnrollTask(c, u, t, g)
       PROVE  ReadOK(c)'
  <2>1. CASE EnrollSingleTask(c, u, t)
    <3>1. call'[c].step = "conditions"
      BY <1>2, <2>1 DEF EnrollSingleTask, Listed
    <3>. QED
      BY <3>1, NothingReadOK DEF Reading
  <2>2. CASE EnrollGroup(c, u, g)
    <3>1. call'[c].step = "list"
      BY <1>2, <2>2 DEF EnrollGroup
    <3>. QED
      BY <3>1, NothingReadOK DEF Reading
  <2>. QED
    BY <1>4, <1>11, <2>1, <2>2 DEF GrpcEnrollTask
<1>12. ASSUME NEW g, NEW t \in MayBe(Tasks), GetTaskDetail(c, g, t)
       PROVE  ReadOK(c)'
  <2>1. CASE InGroup(t, g) /\ Become(c, [step |-> "detail", task |-> t, row |-> task[t],
                                         settled |-> Settled(t)])
    <3>1. t \in Tasks
      BY <2>1 DEF InGroup, TaskStatus, StatusOf
    <3>2. call'[c].step = "detail" /\ call'[c].task = t /\ call'[c].row = task[t]
          /\ call'[c].settled = Settled(t)
      BY <1>2, <2>1
    <3>3. Settled(t) => Settled(t)' /\ task'[t] = task[t]
      BY <3>1, CatalogueKept
    <3>4. call'[c].settled => Settled(t)' /\ task[t] = task'[t]
      BY <3>2, <3>3
    <3>. QED
      BY <3>1, <3>2, <3>4 DEF ReadOK, At
  <2>. QED
    BY <1>4, <1>12, <2>1 DEF GetTaskDetail, Reads
<1>13. ASSUME NEW g, ListTasksByGroup(c, g)
       PROVE  ReadOK(c)'
  <2>1. CASE UNCHANGED db /\ Become(c, [step |-> "tasks", group |-> g, had |-> TasksOf(g)])
    <3>1. call'[c].step = "tasks" /\ call'[c].group = g /\ call'[c].had = TasksOf(g)
      BY <1>2, <2>1
    <3>2. TasksOf(g)' = TasksOf(g)
      BY <2>1 DEF db, TasksOf, Exists
    <3>. QED
      BY <3>1, <3>2 DEF ReadOK, At
  <2>. QED
    BY <1>4, <1>13, <2>1 DEF ListTasksByGroup, Reads
<1>14. ASSUME NEW g \in MayBe(Groups), NEW u \in MayBe(Users), ListUserTaskProgress(c, g, u)
       PROVE  ReadOK(c)'
  <2>1. CASE /\ BelowOne \notin {g, u} /\ UNCHANGED db
             /\ Become(c, [step |-> "published", group |-> g, user |-> u,
                           settled |-> {t \in Published(g) : Settled(t)},
                           had |-> EnrolledIn(u)])
    <3>1. u \in Users
      BY <2>1 DEF MayBe
    <3>2. /\ call'[c].step = "published" /\ call'[c].group = g /\ call'[c].user = u
          /\ call'[c].settled = {t \in Published(g) : Settled(t)}
          /\ call'[c].had = EnrolledIn(u)
      BY <1>2, <2>1
    <3>3. Published(g)' = Published(g) /\ EnrolledIn(u)' = EnrolledIn(u)
      BY <2>1 DEF db, Published, TasksOf, Exists, EnrolledIn
    <3>4. Published(g) \subseteq Tasks
      BY DEF Published, TasksOf
    <3>5. \A t \in call'[c].settled : t \in Published(g)' /\ Settled(t)'
      BY <3>2, <3>3, <3>4, CatalogueKept
    <3>. QED
      BY <3>1, <3>2, <3>3, <3>5 DEF ReadOK, At
  <2>. QED
    BY <1>4, <1>14, <2>1 DEF ListUserTaskProgress, Reads
<1>15. ReadOK(c)'
  BY <1>5, <1>6, <1>7, <1>8, <1>9, <1>10, <1>11, <1>12, <1>13, <1>14 DEF Receive
<1>. QED
  BY <1>1, <1>15

LEMMA AnswerTells ==
    ASSUME Shape, NEW c \in Clients, NEW h, WellShaped(h)
    PROVE  /\ \A a, told : Answer(c, h, a, told) => http'[c].told = told
           /\ GoOn(c, h) => http'[c].told = h.told
BY DEF Shape, WellShaped, Answer, GoOn


LEMMA ServeTold ==
    ASSUME AdminInv, RequestInv, [ApiNext]_apiVars, NEW c \in Clients, ReadOK(c),
           Serve(c) \/ StatementFails(c)
    PROVE  ReadOK(c)' /\ ToldOK(c)'
<1>. USE AdminAssumption, ContentsAssumption DEF AdminInv
<1>1. \A local : Become(c, local) => call'[c] = local
  BY DEF Become, Shape
<1>2. ASSUME Return(c)
      PROVE  ReadOK(c)'
  <2>1. call'[c].step = "idle"
    BY <1>1, <1>2 DEF Return, Idle
  <2>. QED
    BY <2>1, NothingReadOK DEF Reading
<1>3. ASSUME NEW step, step \notin Reading, At(c, step)
      PROVE  AdminCall[c] = call[c] /\ A!At(c, step)
  BY <1>3, AtAdmin
<1>4. ASSUME ~At(c, "idle")
      PROVE  /\ \A a, told : Answer(c, http[c], a, told) => http'[c].told = told
             /\ GoOn(c, http[c]) => ToldOK(c)'
  BY <1>4, RequestOpen, AnswerTells, NothingToldOK
<1>5. ASSUME NEW a, ~At(c, "idle"), Answer(c, http[c], a, NothingTold)
      PROVE  ToldOK(c)'
  BY <1>4, <1>5, NothingToldOK
<1>6. CASE BuildTaskVO(c)
  <2>1. PICK t \in Tasks : t = call[c].task
    BY <1>6 DEF BuildTaskVO, ReadOK, At
  <2>2. PICK told : /\ told = IF call[c].settled
                              THEN [kind |-> "detail", task |-> t, row |-> call[c].row,
                                    conds |-> ConditionsOf(t)]
                              ELSE NothingTold
                    /\ http'[c].told = told
    BY <1>4, <1>6, <2>1 DEF BuildTaskVO, At
  <2>3. ASSUME call[c].settled
        PROVE  ToldOK(c)'
    <3>1. Settled(t) /\ call[c].row = task[t]
      BY <1>6, <2>1, <2>3 DEF BuildTaskVO, ReadOK, At
    <3>2. Settled(t)' /\ task'[t] = task[t] /\ ConditionsOf(t)' = ConditionsOf(t)
      BY <3>1, CatalogueKept
    <3>3. /\ told.kind = "detail" /\ told.task = t /\ told.row = call[c].row
          /\ told.conds = ConditionsOf(t)
      BY <2>2, <2>3
    <3>. QED
      BY <2>2, <3>1, <3>2, <3>3 DEF ToldOK
  <2>4. ~call[c].settled => ToldOK(c)'
    BY <2>2, NothingToldOK
  <2>. QED
    BY <1>2, <1>6, <2>3, <2>4 DEF BuildTaskVO
<1>7. ASSUME NEW missing, missing = {}, NEW a, ~At(c, "idle"),
             Answer(c, http[c], a, [kind |-> "list", missing |-> missing])
      PROVE  ToldOK(c)'
  <2>1. http'[c].told.kind = "list" /\ http'[c].told.missing = {}
    BY <1>4, <1>7
  <2>. QED
    BY <2>1 DEF ToldOK
<1>8. CASE ListTasksByGroupID(c)
  <2>1. call[c].had \ TasksOf(call[c].group) = {}
    BY <1>8 DEF ListTasksByGroupID, ReadOK
  <2>. QED
    BY <1>2, <1>7, <1>8, <2>1 DEF ListTasksByGroupID, At
<1>9. CASE JoinProgress(c)
  <2>1. MissingOf(call[c], call[c].tasks, call[c].tasks \cap EnrolledIn(call[c].user)) = {}
    BY <1>9 DEF JoinProgress, ReadOK, MissingOf
  <2>. QED
    BY <1>2, <1>7, <1>9, <2>1 DEF JoinProgress, At
<1>10. CASE ListPublished(c)
  <2>1. /\ At(c, "published") /\ UNCHANGED db
        /\ call'[c] = [step |-> "progress", tasks |-> Published(call[c].group),
                       user |-> call[c].user, settled |-> call[c].settled,
                       had |-> call[c].had]
    BY <1>1, <1>10 DEF ListPublished
  <2>2. PICK l : l = call'[c]
    OBVIOUS
  <2>3. /\ l.step = "progress" /\ l.tasks = Published(call[c].group)
        /\ l.user = call[c].user /\ l.settled = call[c].settled /\ l.had = call[c].had
    BY <2>1, <2>2
  <2>4. PICK u \in Users : u = call[c].user
    BY <2>1 DEF ReadOK
  <2>5. EnrolledIn(u)' = EnrolledIn(u)
    BY <2>1 DEF db, EnrolledIn
  <2>6. l.settled \subseteq l.tasks /\ l.user = u /\ l.had \subseteq EnrolledIn(u)'
    BY <2>1, <2>3, <2>4, <2>5 DEF ReadOK
  <2>7. ReadOK(c)'
    BY <2>2, <2>3, <2>6 DEF ReadOK, At
  <2>. QED
    BY <1>4, <1>10, <2>7 DEF ListPublished, At
<1>11. CASE FinishSaveGroup(c)
  BY <1>2, <1>5, <1>11 DEF FinishSaveGroup, SaveGroupRow, At
<1>12. CASE FinishPublishGroup(c)
  BY <1>2, <1>5, <1>12 DEF FinishPublishGroup, UpdateGroupStatus, At
<1>13. CASE GoOnInsert(c)
  <2>1. call'[c].step = "replace" /\ ~At(c, "idle")
    BY <1>1, <1>13 DEF GoOnInsert, InsertTask, At
  <2>2. ReadOK(c)'
    BY <2>1, NothingReadOK DEF Reading
  <2>. QED
    BY <1>4, <1>13, <2>1, <2>2 DEF GoOnInsert
<1>14. CASE GoOnSave(c)
  <2>1. call'[c].step = "replace" /\ ~At(c, "idle")
    BY <1>1, <1>14 DEF GoOnSave, SaveRow, At
  <2>2. ReadOK(c)'
    BY <2>1, NothingReadOK DEF Reading
  <2>. QED
    BY <1>4, <1>14, <2>1, <2>2 DEF GoOnSave
<1>15. CASE AnswerCheckGroup(c)
  <2>1. ~At(c, "idle") /\ At(c, "group")
    BY <1>15 DEF AnswerCheckGroup, CheckGroup, At
  <2>2. ToldOK(c)'
    BY <1>4, <1>5, <1>15, <2>1 DEF AnswerCheckGroup
  <2>3. CASE ~Return(c)
    <3>1. call[c] \in A!Saving
      BY <1>3, <2>1, A!CallType DEF Reading
    <3>2. call'[c] = [call[c] EXCEPT !.step = "save"]
      BY <1>1, <1>15, <2>3 DEF AnswerCheckGroup, CheckGroup
    <3>3. call'[c].step = "save"
      BY <3>1, <3>2 DEF A!Saving
    <3>4. ReadOK(c)'
      BY <3>3, NothingReadOK DEF Reading
    <3>. QED
      BY <2>2, <3>4
  <2>. QED
    BY <1>2, <2>2, <2>3
<1>16. CASE AnswerListTasks(c)
  <2>1. ~At(c, "idle")
    BY <1>16 DEF AnswerListTasks, ListTasks, At
  <2>2. ToldOK(c)'
    BY <1>4, <1>5, <1>16, <2>1 DEF AnswerListTasks
  <2>3. CASE ~Return(c)
    <3>1. call'[c].step = "conditions"
      BY <1>1, <1>16, <2>3 DEF AnswerListTasks, ListTasks, Listed
    <3>2. ReadOK(c)'
      BY <3>1, NothingReadOK DEF Reading
    <3>. QED
      BY <2>2, <3>2
  <2>. QED
    BY <1>2, <2>2, <2>3
<1>17. CASE AnswerLoadConditions(c)
  <2>1. ~At(c, "idle") /\ LoadConditions(c)
    BY <1>17 DEF AnswerLoadConditions, LoadConditions, At
  <2>2. ToldOK(c)'
    BY <1>4, <1>5, <1>17, <2>1 DEF AnswerLoadConditions
  <2>3. CASE ~Return(c)
    <3>1. /\ call'[c] = [step |-> "enroll", user |-> call[c].user,
                         settled |-> call[c].settled,
                         rows |-> EnrollProgressItems(call[c].tasks)]
          /\ \A t \in call[c].tasks : ConditionsOf(t) # {}
      BY <1>1, <2>1, <2>3 DEF LoadConditions
    <3>2. call'[c].step = "enroll" /\ call'[c].rows = [t \in call[c].tasks |-> ConditionsOf(t)]
      BY <3>1 DEF EnrollProgressItems
    <3>3. ReadOK(c)'
      BY <3>1, <3>2 DEF ReadOK, At
    <3>. QED
      BY <2>2, <3>3
  <2>. QED
    BY <1>2, <2>2, <2>3
<1>18. CASE FinishSave(c)
  <2>1. At(c, "replace") /\ ~At(c, "idle") /\ Return(c) /\ ReplaceConditions(c)
    BY <1>18 DEF FinishSave, ReplaceConditions, At
  <2>2. AdminCall[c] = call[c] /\ A!At(c, "replace")
    BY <1>3, <2>1 DEF Reading
  <2>3. /\ call[c].task \in Tasks /\ A!Exists(call[c].task)
        /\ call[c].content \in ValidContents
    BY <2>2, A!CallType, ValidContentsAdmin DEF A!CallInv, A!CallOK, A!At
  <2>4. PICK t \in Tasks : t = call[c].task
    BY <2>3
  <2>5. Exists(t)
    BY <2>3, <2>4 DEF A!Exists, Exists
  <2>6. call[c].content.nos \in Seq(Nat) /\ call[c].content.nos # <<>>
    BY <2>3 DEF ValidContents, ValidateTaskInput
  <2>7. 1 \in DOMAIN call[c].content.nos
    BY <2>6
  <2>8. ConditionsOf(t)' # {}
    <3>1. PICK k : k \in ConditionRows(t, call[c].save, call[c].content)
      BY <2>7 DEF ConditionRows
    <3>2. k.task = t
      BY <3>1 DEF ConditionRows
    <3>3. k \in conds'
      BY <2>1, <2>4, <3>1 DEF ReplaceConditions
    <3>. QED
      BY <3>2, <3>3 DEF ConditionsOf
  <2>9. Exists(t)'
    BY <2>5, CatalogueKept
  <2>10. http'[c].told = [kind |-> "saved", task |-> t]
    BY <1>4, <1>18, <2>1, <2>4 DEF FinishSave
  <2>11. http'[c].told.kind = "saved" /\ http'[c].told.task = t
    BY <2>10
  <2>. QED
    BY <1>2, <2>1, <2>8, <2>9, <2>11 DEF ToldOK
<1>19. CASE FinishPublish(c)
  <2>1. At(c, "publishTask") /\ ~At(c, "idle") /\ Return(c) /\ UpdateTaskStatus(c)
    BY <1>19 DEF FinishPublish, UpdateTaskStatus, At
  <2>2. AdminCall[c] = call[c] /\ A!At(c, "publishTask")
    BY <1>3, <2>1 DEF Reading
  <2>3. PICK t \in Tasks : t = call[c].task
    BY <2>2, A!CallType
  <2>4. CASE \E d \in Clients : Writes(d, t)
    BY <1>2, <1>5, <1>19, <2>1, <2>3, <2>4 DEF FinishPublish
  <2>5. CASE Answer(c, http[c], Refusal, NothingTold)
    BY <1>2, <1>5, <2>1, <2>5
  <2>6. CASE ~(\E d \in Clients : Writes(d, t)) /\ ~Answer(c, http[c], Refusal, NothingTold)
    <3>1. http'[c].told = [kind |-> "published", task |-> t]
      BY <1>4, <1>19, <2>1, <2>3, <2>6 DEF FinishPublish
    <3>2. \A d \in Clients \ {c} : call'[d] = call[d]
      BY OthersKept
    <3>3. call'[c].step = "idle"
      BY <1>1, <2>1 DEF Return, Idle
    <3>4. \A d \in Clients : ~Writes(d, t)'
      BY <2>6, <3>2, <3>3 DEF Writes
    <3>5. A!Exists(t) /\ task' = [task EXCEPT ![t].status = "Published"]
      BY <2>1, <2>2, <2>3 DEF UpdateTaskStatus, A!CallInv, A!CallOK, A!At
    <3>6. task'[t].status = "Published"
      BY <3>5, A!TaskType DEF A!TypeOK
    <3>7. Settled(t)'
      BY <3>4, <3>6 DEF Settled
    <3>8. http'[c].told.kind = "published" /\ http'[c].told.task = t
      BY <3>1
    <3>. QED
      BY <1>2, <2>1, <3>7, <3>8 DEF ToldOK
  <2>. QED
    BY <2>4, <2>5, <2>6
<1>20. CASE FinishEnroll(c)
  <2>1. At(c, "enroll") /\ ~At(c, "idle") /\ Return(c) /\ EnrollUserTasks(c)
    BY <1>20 DEF FinishEnroll, EnrollUserTasks, At
  <2>2. AdminCall[c] = call[c] /\ A!At(c, "enroll")
    BY <1>3, <2>1 DEF Reading
  <2>3. call[c].user \in Users /\ DOMAIN call[c].rows \subseteq Tasks
    BY <2>2, A!CallType DEF A!Enrolling
  <2>4. CASE DuplicateEnrolment(call[c].user, DOMAIN call[c].rows)
    BY <1>2, <1>5, <1>20, <2>1, <2>4 DEF FinishEnroll
  <2>5. CASE ~DuplicateEnrolment(call[c].user, DOMAIN call[c].rows)
    <3>1. http'[c].told = [kind |-> "enrolled", user |-> call[c].user, rows |-> call[c].rows]
      BY <1>4, <1>20, <2>1, <2>5 DEF FinishEnroll
    <3>2. enrolled' = [enrolled EXCEPT ![call[c].user] =
                          [t \in Tasks |-> IF t \in DOMAIN call[c].rows
                                           THEN call[c].rows[t] ELSE @[t]]]
      BY <2>1, <2>5 DEF EnrollUserTasks
    <3>3. \A t \in DOMAIN call[c].rows :
             enrolled'[call[c].user][t] = call[c].rows[t] /\ call[c].rows[t] # {}
      BY <2>1, <2>3, <3>2 DEF A!TypeOK, ReadOK
    <3>4. /\ http'[c].told.kind = "enrolled" /\ http'[c].told.user = call[c].user
          /\ http'[c].told.rows = call[c].rows
      BY <3>1
    <3>. QED
      BY <1>2, <2>1, <2>3, <3>3, <3>4 DEF ToldOK
  <2>. QED
    BY <2>4, <2>5
<1>21. CASE StatementFails(c)
  <2>1. ~At(c, "idle") /\ Return(c)
    BY <1>21 DEF StatementFails, CutShort
  <2>. QED
    BY <1>2, <1>5, <1>21, <2>1 DEF StatementFails
<1>. QED
  BY <1>6, <1>8, <1>9, <1>10, <1>11, <1>12, <1>13, <1>14, <1>15, <1>16, <1>17, <1>18, <1>19,
     <1>20, <1>21
  DEF Serve

LEMMA ToldInvStep ==
    ASSUME AdminInv, RequestInv, ToldInv, [ApiNext]_apiVars
    PROVE  ToldInv'
<1>1. ASSUME NEW d \in Clients, call'[d] = call[d], http'[d] = http[d]
      PROVE  ReadOK(d)' /\ ToldOK(d)'
  BY <1>1, ToldKept DEF ToldInv
<1>2. CASE UNCHANGED apiVars
  BY <1>1, <1>2 DEF ToldInv, apiVars, vars
<1>3. ASSUME NEW c \in Clients, Receive(c) \/ Serve(c) \/ StatementFails(c)
      PROVE  ToldInv'
  <2>1. ReadOK(c)' /\ ToldOK(c)'
    BY <1>3, ReceiveTold, ServeTold DEF ToldInv
  <2>2. \A d \in Clients \ {c} : ReadOK(d)' /\ ToldOK(d)'
    BY <1>1, <1>3, OthersKept DEF AdminInv
  <2>. QED
    BY <2>1, <2>2 DEF ToldInv
<1>. QED
  BY <1>2, <1>3 DEF ApiNext

LEMMA ToldInvInit ==
    ASSUME ApiInit
    PROVE  ToldInv
BY DEF ApiInit, Init, NoRequest, NothingTold, Idle, ToldInv, ReadOK, ToldOK, At

LEMMA ToldCorrect == ApiSpec => []ToldInv
<1>1. ApiInit => ToldInv
  BY ToldInvInit
<1>2. AdminInv /\ RequestInv /\ ToldInv /\ [ApiNext]_apiVars => ToldInv'
  BY ToldInvStep
<1>. QED
  BY <1>1, <1>2, RequestCorrect, PTL DEF ApiSpec

(* What a caller was told was done is there for good, whatever others do to it. *)
THEOREM AcknowledgedWriteStaysCorrect == ApiSpec => []AcknowledgedWriteStays
<1>1. ToldInv => AcknowledgedWriteStays
  BY DEF ToldInv, ToldOK, AcknowledgedWriteStays
<1>. QED
  BY <1>1, ToldCorrect, PTL

(* The detail of a task that was settled when its row was read fits together,   *)
(* although row and conditions are two reads, and stays what the task is.       *)
THEOREM SettledDetailIsCurrentCorrect == ApiSpec => []SettledDetailIsCurrent
<1>1. ToldInv => SettledDetailIsCurrent
  BY DEF ToldInv, ToldOK, SettledDetailIsCurrent
<1>. QED
  BY <1>1, ToldCorrect, PTL

(* What was there when a list was asked for is in the answer, although the list *)
(* is read after its group and the progresses after the tasks.                  *)
THEOREM ListShowsWhatWasThereCorrect == ApiSpec => []ListShowsWhatWasThere
<1>1. ToldInv => ListShowsWhatWasThere
  BY DEF ToldInv, ToldOK, ListShowsWhatWasThere
<1>. QED
  BY <1>1, ToldCorrect, PTL

--------------------------------------------------------------------------------
(* The promises of TaskAdmin hold under the handlers. *)

LEMMA OneSaveKept == AdminInv /\ A!OneSaveInv /\ [ApiNext]_apiVars => A!OneSaveInv'
<1>. SUFFICES ASSUME AdminInv, A!OneSaveInv, [ApiNext]_apiVars
              PROVE  A!OneSaveInv'
  OBVIOUS
<1>1. CASE [A!Next]_A!vars
  BY <1>1, A!OneSaveInvStep, AdminAssumption, ContentsAssumption DEF AdminInv
<1>2. CASE FaultOnly
  BY <1>2
  DEF FaultOnly, db, A!OneSaveInv, A!EnrolmentIsOfOneSave, A!OfOneSave, A!ConditionsOf, A!At
<1>. QED
  BY <1>1, <1>2, ApiStepAdmin DEF AdminInv

LEMMA SettledKept == AdminInv /\ A!SettledInv /\ [ApiNext]_apiVars => A!SettledInv'
<1>. SUFFICES ASSUME AdminInv, A!SettledInv, [ApiNext]_apiVars
              PROVE  A!SettledInv'
  OBVIOUS
<1>1. CASE [A!Next]_A!vars
  BY <1>1, A!SettledInvStep, AdminAssumption, ContentsAssumption DEF AdminInv
<1>2. CASE FaultOnly
  BY <1>2
  DEF FaultOnly, db, history, A!SettledInv, A!Settled, A!Writes, A!ConditionsOf, A!At
<1>. QED
  BY <1>1, <1>2, ApiStepAdmin DEF AdminInv

LEMMA ApiInitAdmin == ApiInit => A!OneSaveInv /\ A!SettledInv
<1>. SUFFICES ASSUME ApiInit
              PROVE  A!OneSaveInv /\ A!SettledInv
  OBVIOUS
<1>1. \A c \in Clients : AdminCall[c] = Idle
  BY DEF ApiInit, Init, AdminCall, Reading, Idle
<1>. QED
  BY <1>1
  DEF ApiInit, Init, Idle, A!OneSaveInv, A!EnrolmentIsOfOneSave, A!OfOneSave, A!ConditionsOf,
      A!SettledInv, A!At

LEMMA StoredKept == AdminInv /\ A!StoredInv /\ [ApiNext]_apiVars => A!StoredInv'
<1>. SUFFICES ASSUME AdminInv, A!StoredInv, [ApiNext]_apiVars
              PROVE  A!StoredInv'
  OBVIOUS
<1>1. CASE [A!Next]_A!vars
  BY <1>1, A!StoredInvStep, AdminAssumption, ContentsAssumption DEF AdminInv
<1>2. CASE FaultOnly
  <2>1. faults' # 0
    BY <1>2 DEF FaultOnly
  <2>. QED
    BY <2>1 DEF A!StoredInv
<1>. QED
  BY <1>1, <1>2, ApiStepAdmin DEF AdminInv

(* What is usable is so whoever calls. *)
LEMMA UsableAdmin == A!UsableExpressions = UsableExpressions
<1>1. \A text, nos, completed :
          A!EvaluateTaskExpression(text, nos, completed) = EvaluateTaskExpression(text, nos, completed)
  BY DEF A!EvaluateTaskExpression, EvaluateTaskExpression, A!WellFormed, WellFormed,
         A!CompileAndRun, CompileAndRun, A!Value, Value, A!Values, Values, A!SpanValue, SpanValue,
         A!Spans, Spans, A!Span, Span, A!Levels, Levels, A!Below, Below, A!Joined, Joined,
         A!Combine, Combine, A!Tokens, Tokens, A!TokensFrom, TokensFrom, A!TokensAt, TokensAt,
         A!OperatorEnd, OperatorEnd, A!NumbersOf, NumbersOf, A!Number, Number, A!Atoi, Atoi,
         A!EndOfNumber, EndOfNumber, A!IsDigit, IsDigit, A!DigitValue, DigitValue,
         A!Digits, Digits, A!DSLChars, DSLChars, A!CharsOf, CharsOf
<1>2. \A text, nos : A!Usable(text, nos) <=> Usable(text, nos)
  BY <1>1 DEF A!Usable, Usable
<1>3. A!Numbers = Numbers
  BY DEF A!Numbers, Numbers, A!ConditionNos, ConditionNos, A!ResolveConditionNo, ResolveConditionNo
<1>. QED
  BY <1>2, <1>3 DEF A!UsableExpressions, UsableExpressions

(* A published task that no call writes any more is frozen under every request. *)
THEOREM ApiSettledTaskIsFrozen == ApiSpec => SettledTaskIsFrozen
<1>1. AdminInv /\ [ApiNext]_apiVars =>
        [\A t \in Tasks : Settled(t) =>
            /\ Settled(t)'
            /\ task'[t] = task[t]
            /\ ConditionsOf(t)' = ConditionsOf(t)]_vars
  BY CatalogueKept
<1>. QED
  BY <1>1, AdminInvCorrect, PTL DEF ApiSpec, SettledTaskIsFrozen

LEMMA SettledGroupAdmin ==
    \A g \in Groups : (A!SettledGroup(g) <=> SettledGroup(g))
                      /\ (A!SettledGroup(g)' <=> SettledGroup(g)')
<1>1. \A c \in Clients, g \in Groups : A!WritesGroup(c, g) <=> WritesGroup(c, g)
  BY DEF A!WritesGroup, WritesGroup, AdminCall, Reading, Idle
<1>2. \A c \in Clients, g \in Groups : A!WritesGroup(c, g)' <=> WritesGroup(c, g)'
  BY DEF A!WritesGroup, WritesGroup, AdminCall, Reading, Idle
<1>. QED
  BY <1>1, <1>2 DEF A!SettledGroup, SettledGroup

LEMMA GroupKept ==
    ASSUME AdminInv, [ApiNext]_apiVars, NEW g \in Groups, SettledGroup(g)
    PROVE  /\ SettledGroup(g)'
           /\ TasksOf(g)' = TasksOf(g)
           /\ \A t \in TasksOf(g) : /\ task'[t].expr = task[t].expr
                                    /\ ConditionsOf(t)' = ConditionsOf(t)
<1>1. A!SettledGroup(g)
  BY SettledGroupAdmin
<1>2. /\ A!TasksOf(g) = TasksOf(g) /\ A!TasksOf(g)' = TasksOf(g)'
      /\ \A t : A!ConditionsOf(t) = ConditionsOf(t) /\ A!ConditionsOf(t)' = ConditionsOf(t)'
  BY DEF A!TasksOf, TasksOf, A!ConditionsOf, ConditionsOf, A!Exists, Exists
<1>3. CASE [A!Next]_A!vars
  <2>1. /\ A!SettledGroup(g)'
        /\ A!TasksOf(g)' = A!TasksOf(g)
        /\ \A t \in A!TasksOf(g) : /\ task'[t].expr = task[t].expr
                                   /\ A!ConditionsOf(t)' = A!ConditionsOf(t)
    BY <1>1, <1>3, A!SettledGroupStays, AdminAssumption, ContentsAssumption DEF AdminInv
  <2>. QED
    BY <1>2, <2>1, SettledGroupAdmin
<1>4. CASE FaultOnly
  <2>1. UNCHANGED db /\ UNCHANGED AdminCall
    BY <1>4 DEF FaultOnly
  <2>2. A!SettledGroup(g)'
    BY <1>1, <2>1 DEF A!SettledGroup, A!WritesGroup, db
  <2>. QED
    BY <2>1, <2>2, SettledGroupAdmin DEF db, TasksOf, Exists, ConditionsOf
<1>. QED
  BY <1>3, <1>4, ApiStepAdmin DEF AdminInv

(* A published group that no call writes any more keeps its tasks, and these    *)
(* their expressions and conditions, under every request.                       *)
THEOREM ApiSettledGroupIsFrozen == ApiSpec => SettledGroupIsFrozen
<1>1. AdminInv /\ [ApiNext]_apiVars =>
        [\A g \in Groups : SettledGroup(g) =>
            /\ SettledGroup(g)'
            /\ TasksOf(g)' = TasksOf(g)
            /\ \A t \in TasksOf(g) : /\ task'[t].expr = task[t].expr
                                     /\ ConditionsOf(t)' = ConditionsOf(t)]_vars
  BY GroupKept
<1>. QED
  BY <1>1, AdminInvCorrect, PTL DEF ApiSpec, SettledGroupIsFrozen

(* Whatever requests overlap, the conditions of an execution are of one save,   *)
(* and those of one that was enrolled from a settled task are the task's.       *)
THEOREM ApiEnrolmentIsConsistent ==
    ApiSpec => [](EnrolmentIsOfOneSave /\ SettledEnrolmentKeepsItsConditions)
<1>1. ApiInit => A!OneSaveInv /\ A!SettledInv
  BY ApiInitAdmin
<1>2. A!OneSaveInv => EnrolmentIsOfOneSave
  BY DEF A!OneSaveInv, A!EnrolmentIsOfOneSave, EnrolmentIsOfOneSave
<1>3. A!SettledInv => SettledEnrolmentKeepsItsConditions
  BY DEF A!SettledInv, SettledEnrolmentKeepsItsConditions, A!ConditionsOf, ConditionsOf
<1>. QED
  BY <1>1, <1>2, <1>3, OneSaveKept, SettledKept, AdminInvCorrect, PTL DEF ApiSpec

(* Whatever requests overlap, what is stored of a task that no two saves wrote  *)
(* at once can be used, until a statement fails.                                *)
THEOREM ApiStoredExpressionIsUsable == ApiSpec => []StoredExpressionIsUsable
<1>1. ApiInit => A!StoredInv
  BY DEF ApiInit, Init, NoTask, A!StoredInv, A!Exists
<1>2. A!StoredInv => A!StoredExpressionIsUsable
  BY A!AcceptedCanBeUsed, AdminAssumption, ContentsAssumption
  DEF A!StoredInv, A!StoredIsAccepted
<1>3. \A c \in Clients : A!At(c, "replace") => At(c, "replace") /\ AdminCall[c].task = call[c].task
  BY DEF A!At, At, AdminCall, Idle
<1>4. A!StoredExpressionIsUsable => StoredExpressionIsUsable
  BY <1>3, UsableAdmin
  DEF A!StoredExpressionIsUsable, StoredExpressionIsUsable, A!ConditionsOf, ConditionsOf,
      A!Exists, Exists
<1>. QED
  BY <1>1, <1>2, <1>4, StoredKept, AdminInvCorrect, PTL DEF ApiSpec

================================================================================
