----------------------------- MODULE TaskAdminProofs ----------------------------
(* Proofs about TaskAdmin, for every number of concurrent calls and every       *)
(* catalogue.  What the expression language makes of a text is cited from       *)
(* TaskExpressionProofs.                                                        *)
EXTENDS TaskAdmin, TaskExpressionProofs, TLAPS

--------------------------------------------------------------------------------
(* The inductive invariants. *)

(* The task that a call is about to write or publish is there and in the group  *)
(* that the call has read, what is going to be written was validated, and the   *)
(* settled tasks of an enrolment are among its tasks.                           *)
CallOK(c) ==
    /\ call[c].step \in {"group", "save", "replace", "publishTask"} => Exists(call[c].task)
    /\ call[c].step \in {"group", "save"} => task[call[c].task].group = call[c].row.group
    /\ call[c].step \in {"insert", "group", "save", "replace"} =>
           call[c].content \in ValidContents
    /\ At(c, "conditions") => call[c].settled \subseteq call[c].tasks

CallInv == \A c \in Clients : CallOK(c)

(* The conditions of a task are those of one save, where they are stored and    *)
(* where an enrolment has read them.                                            *)
OfOneSave(t, rows) == \A k, l \in rows : k.save = l.save /\ k.task = t

OneSaveInv ==
    /\ \A t \in Tasks : OfOneSave(t, ConditionsOf(t))
    /\ \A c \in Clients : At(c, "enroll") =>
           \A t \in DOMAIN call[c].rows : OfOneSave(t, call[c].rows[t])
    /\ EnrolmentIsOfOneSave

(* A task is settled for good, and what an enrolment reads of it, and then      *)
(* stores, are the conditions it has.                                           *)
SettledInv ==
    /\ \A c \in Clients : At(c, "conditions") => \A t \in call[c].settled : Settled(t)
    /\ \A c \in Clients : At(c, "enroll") =>
           \A t \in call[c].settled : /\ Settled(t)
                                      /\ call[c].rows[t] = ConditionsOf(t)
                                      /\ ConditionsOf(t) # {}
    /\ \A p \in settled : /\ Settled(p[2])
                          /\ enrolled[p[1]][p[2]] = ConditionsOf(p[2])
                          /\ ConditionsOf(p[2]) # {}

(* Expression and conditions of a task are those of one validated body. *)
Consistent(t) ==
    \E k \in ValidContents : /\ task[t].expr = k.expr
                             /\ {l.no : l \in ConditionsOf(t)} = ConditionNos(k.nos)

(* A call that is going to replace the conditions of t. *)
Replaces(c, t) == At(c, "replace") /\ call[c].task = t

(* Until a call is cut short, the expression of a task that no two calls wrote  *)
(* at once is the one of the call that is going to replace its conditions, and  *)
(* fits its conditions if there is none.                                        *)
StoredInv ==
    faults = 0 => \A t \in Tasks : Exists(t) /\ t \notin overlapped =>
        /\ \A c, d \in Clients : Replaces(c, t) /\ Replaces(d, t) => c = d
        /\ \A c \in Clients : Replaces(c, t) => task[t].expr = call[c].content.expr
        /\ (~ \E c \in Clients : Replaces(c, t)) => Consistent(t)

--------------------------------------------------------------------------------
(* Types. *)

(* What a call has at hand at each of its steps. *)
LEMMA CallType ==
    ASSUME TypeOK, NEW c \in Clients
    PROVE  /\ At(c, "saveGroup") => call[c].group \in Groups /\ call[c].status \in {"Draft", "Published"}
           /\ At(c, "publishGroup") => call[c].group \in Groups
           /\ At(c, "insert") => /\ call[c].group \in Groups /\ call[c].content \in Contents
                                 /\ call[c].save \in 1..MaxSaves
           /\ At(c, "group") \/ At(c, "save") => call[c] \in Saving
           /\ At(c, "replace") => /\ call[c].task \in Tasks /\ call[c].content \in Contents
                                  /\ call[c].save \in 1..MaxSaves
           /\ At(c, "publishTask") => call[c].task \in Tasks
           /\ At(c, "list") => call[c].user \in Users /\ call[c].group \in Groups
           /\ At(c, "conditions") => /\ call[c].user \in Users /\ call[c].tasks \subseteq Tasks
                                     /\ call[c].settled \subseteq Tasks
           /\ At(c, "enroll") => Enrolling(call[c])
<1>1. call[c] \in Calls \/ Enrolling(call[c])
  BY DEF TypeOK
<1>. QED
  BY <1>1, SMT DEF Calls, Saving, Idle, At, Enrolling

LEMMA BecomeType ==
    ASSUME TypeOK, NEW c \in Clients, NEW local, local \in Calls \/ Enrolling(local),
           Become(c, local)
    PROVE  /\ DOMAIN call' = Clients
           /\ \A d \in Clients : call'[d] \in Calls \/ Enrolling(call'[d])
           /\ call'[c] = local
           /\ \A d \in Clients \ {c} : call'[d] = call[d]
BY DEF TypeOK, Become

LEMMA ReturnType ==
    ASSUME TypeOK, NEW c \in Clients, Return(c)
    PROVE  /\ DOMAIN call' = Clients
           /\ \A d \in Clients : call'[d] \in Calls \/ Enrolling(call'[d])
           /\ call'[c] = Idle
           /\ \A d \in Clients \ {c} : call'[d] = call[d]
BY BecomeType DEF Return, Calls

LEMMA TaskType ==
    ASSUME TypeOK, NEW t \in Tasks, Exists(t)
    PROVE  /\ task[t] \in [status : {"Draft", "Published"}, group : Groups,
                            expr : {k.expr : k \in Contents}]
           /\ task[t] # NoTask
BY DEF TypeOK, TaskRow, Exists, NoTask

LEMMA ConditionRowsType ==
    ASSUME NEW t \in Tasks, NEW save \in 1..MaxSaves, NEW content \in Contents
    PROVE  ConditionRows(t, save, content) \subseteq ConditionRow
<1>. SUFFICES ASSUME NEW i \in DOMAIN content.nos
              PROVE  [task |-> t, save |-> save, at |-> i,
                      no |-> ResolveConditionNo(content.nos[i], i)] \in ConditionRow
  BY DEF ConditionRows
<1>1. i \in Places
  BY DEF Places
<1>2. ResolveConditionNo(content.nos[i], i) \in ConditionNos(content.nos)
  BY DEF ConditionNos
<1>3. ResolveConditionNo(content.nos[i], i) \in Numbers
  BY <1>2 DEF Numbers
<1>. QED
  BY <1>1, <1>3 DEF ConditionRow

LEMMA InitTypeOK == Init => TypeOK
<1>. SUFFICES ASSUME Init
              PROVE  TypeOK
  OBVIOUS
<1>1. 0 \in 0..MaxSaves /\ 0 \in 0..MaxFaults
  BY AdminAssumption, SMT
<1>2. Idle \in Calls
  BY DEF Calls
<1>. QED
  BY <1>1, <1>2 DEF Init, TypeOK, TaskRow

(* The parts of TypeOK that a step leaves alone. *)
LEMMA CallTypeOK ==
    ASSUME TypeOK, NEW c \in Clients, NEW local, local \in Calls \/ Enrolling(local),
           Become(c, local), saves' \in 0..MaxSaves, UNCHANGED <<db, faults, history>>
    PROVE  TypeOK'
<1>1. /\ DOMAIN call' = Clients
      /\ \A d \in Clients : call'[d] \in Calls \/ Enrolling(call'[d])
  BY BecomeType
<1>. QED
  BY <1>1 DEF TypeOK, db, history

LEMMA RequestTypeOK ==
    ASSUME TypeOK, NEW c \in Clients, Request(c)
    PROVE  TypeOK'
<1>. USE DEF db, counts, history
<1>1. ASSUME NEW local, local \in Calls \/ Enrolling(local), Become(c, local),
             UNCHANGED <<db, counts, history>>
      PROVE  TypeOK'
  BY <1>1, CallTypeOK DEF TypeOK
<1>2. ASSUME NEW u \in Users, NEW ts \in SUBSET Tasks, Listed(c, u, ts),
             UNCHANGED <<db, counts, history>>
      PROVE  TypeOK'
  <2>. DEFINE local == [step |-> "conditions", user |-> u, tasks |-> ts,
                        settled |-> {t \in ts : Settled(t)}]
  <2>1. local \in Calls
    BY SMT DEF Calls
  <2>2. Become(c, local)
    BY <1>2 DEF Listed
  <2>. QED
    BY <1>1, <1>2, <2>1, <2>2
<1>3. ASSUME NEW u \in Users, NEW t \in Tasks, EnrollSingleTask(c, u, t)
      PROVE  TypeOK'
  BY <1>2, <1>3 DEF EnrollSingleTask
<1>4. ASSUME NEW u \in Users, NEW g \in Groups, EnrollGroup(c, u, g)
      PROVE  TypeOK'
  <2>1. [step |-> "list", user |-> u, group |-> g] \in Calls
    BY SMT DEF Calls
  <2>. QED
    BY <1>1, <1>4, <2>1 DEF EnrollGroup
<1>5. ASSUME NEW g \in Groups, CreateTaskGroup(c, g)
      PROVE  TypeOK'
  BY <1>5 DEF CreateTaskGroup, TypeOK
<1>6. ASSUME NEW g \in Groups, SaveTaskGroup(c, g)
      PROVE  TypeOK'
  <2>1. [step |-> "saveGroup", group |-> g, status |-> group[g]] \in Calls
    BY <1>6, SMT DEF SaveTaskGroup, Calls
  <2>. QED
    BY <1>1, <1>6, <2>1 DEF SaveTaskGroup
<1>7. ASSUME NEW g \in Groups, PublishTaskGroup(c, g)
      PROVE  TypeOK'
  <2>1. [step |-> "publishGroup", group |-> g] \in Calls
    BY SMT DEF Calls
  <2>. QED
    BY <1>1, <1>7, <2>1 DEF PublishTaskGroup
<1>8. saves < MaxSaves => saves + 1 \in 0..MaxSaves /\ saves + 1 \in 1..MaxSaves
  BY AdminAssumption, SMT DEF TypeOK
<1>9. ASSUME NEW g \in Groups, NEW content \in Contents, CreateTask(c, g, content)
      PROVE  TypeOK'
  <2>. DEFINE local == [step |-> "insert", group |-> g, content |-> content,
                        save |-> saves + 1]
  <2>1. saves' = saves + 1 /\ saves < MaxSaves /\ Become(c, local)
        /\ UNCHANGED <<db, faults, history>>
    BY <1>9 DEF CreateTask
  <2>2. local \in [step : {"insert"}, group : Groups, content : Contents, save : 1..MaxSaves]
    BY <1>8, <2>1
  <2>3. local \in Calls
    BY <2>2 DEF Calls
  <2>. QED
    BY <1>8, <2>1, <2>3, CallTypeOK
<1>10. ASSUME NEW t \in Tasks, NEW content \in Contents, SaveTask(c, t, content)
       PROVE  TypeOK'
  <2>. DEFINE local == [step |-> "group", task |-> t, row |-> task[t], content |-> content,
                        save |-> saves + 1]
  <2>1. saves' = saves + 1 /\ saves < MaxSaves /\ Become(c, local)
        /\ UNCHANGED <<db, faults, history>>
    BY <1>10 DEF SaveTask
  <2>2. task[t] \in TaskRow \ {NoTask}
    BY <1>10, TaskType DEF SaveTask, Exists, TypeOK
  <2>3. local \in Saving
    BY <1>8, <2>1, <2>2 DEF Saving
  <2>4. local \in Calls
    BY <2>3 DEF Calls
  <2>. QED
    BY <1>8, <2>1, <2>4, CallTypeOK
<1>11. ASSUME NEW t \in Tasks, PublishTask(c, t)
       PROVE  TypeOK'
  <2>1. [step |-> "publishTask", task |-> t] \in Calls
    BY SMT DEF Calls
  <2>. QED
    BY <1>1, <1>11, <2>1 DEF PublishTask
<1>. QED
  BY <1>3, <1>4, <1>5, <1>6, <1>7, <1>9, <1>10, <1>11 DEF Request, EnrollTask

LEMMA AdminTypeOK ==
    ASSUME TypeOK, CallInv, NEW c \in Clients, AdminStep(c)
    PROVE  TypeOK'
<1>. USE DEF db, counts, history
<1>1. CASE SaveGroupRow(c)
  <2>1. call[c].group \in Groups /\ call[c].status \in {"Draft", "Published"}
    BY <1>1, CallType DEF SaveGroupRow
  <2>2. group' \in [Groups -> {"None", "Draft", "Published"}]
    BY <1>1, <2>1 DEF SaveGroupRow, TypeOK
  <2>. QED
    BY <1>1, <2>2, ReturnType DEF SaveGroupRow, TypeOK
<1>2. CASE UpdateGroupStatus(c)
  <2>1. group' \in [Groups -> {"None", "Draft", "Published"}]
    BY <1>2, CallType DEF UpdateGroupStatus, TypeOK
  <2>. QED
    BY <1>2, <2>1, ReturnType DEF UpdateGroupStatus, TypeOK
<1>3. ASSUME NEW t \in Tasks, InsertTask(c, t)
      PROVE  TypeOK'
  <2>. DEFINE local == [step |-> "replace", task |-> t, content |-> call[c].content,
                        save |-> call[c].save]
              row == [status |-> "Draft", group |-> call[c].group, expr |-> call[c].content.expr]
  <2>1. /\ call[c].group \in Groups /\ call[c].content \in Contents
        /\ call[c].save \in 1..MaxSaves
    BY <1>3, CallType DEF InsertTask
  <2>2. /\ task' = [task EXCEPT ![t] = row] /\ Become(c, local)
        /\ UNCHANGED <<group, conds, enrolled, counts, history>>
    BY <1>3 DEF InsertTask
  <2>3. row \in TaskRow
    BY <2>1 DEF TaskRow
  <2>4. local \in Calls
    BY <2>1 DEF Calls
  <2>5. task' \in [Tasks -> TaskRow]
    BY <2>2, <2>3 DEF TypeOK
  <2>. QED
    BY <2>2, <2>4, <2>5, BecomeType DEF TypeOK
<1>4. CASE CheckGroup(c)
  <2>1. CASE Return(c)
    BY <1>4, <2>1, ReturnType DEF CheckGroup, TypeOK
  <2>2. CASE Become(c, [call[c] EXCEPT !.step = "save"])
    <3>1. call[c] \in Saving
      BY <1>4, CallType DEF CheckGroup
    <3>2. [call[c] EXCEPT !.step = "save"] \in Saving
      BY <3>1 DEF Saving
    <3>3. [call[c] EXCEPT !.step = "save"] \in Calls
      BY <3>2 DEF Calls
    <3>. QED
      BY <1>4, <2>2, <3>3, BecomeType DEF CheckGroup, TypeOK
  <2>. QED
    BY <1>4, <2>1, <2>2 DEF CheckGroup
<1>5. CASE SaveRow(c)
  <2>. DEFINE t == call[c].task
              row == [call[c].row EXCEPT !.expr = call[c].content.expr]
              local == [step |-> "replace", task |-> t, content |-> call[c].content,
                        save |-> call[c].save]
  <2>1. call[c] \in Saving
    BY <1>5, CallType DEF SaveRow
  <2>2. /\ t \in Tasks /\ call[c].content \in Contents /\ call[c].save \in 1..MaxSaves
        /\ call[c].row \in [status : {"Draft", "Published"}, group : Groups,
                             expr : {k.expr : k \in Contents}]
    BY <2>1 DEF Saving, TaskRow
  <2>3. /\ task' = [task EXCEPT ![t] = row] /\ Become(c, local)
        /\ overlapped' \subseteq overlapped \cup {t}
        /\ UNCHANGED <<group, conds, enrolled, counts, settled>>
    BY <1>5 DEF SaveRow
  <2>4. row \in [status : {"Draft", "Published"}, group : Groups,
                 expr : {k.expr : k \in Contents}]
    BY <2>2
  <2>5. task' \in [Tasks -> TaskRow]
    BY <2>3, <2>4 DEF TypeOK, TaskRow
  <2>6. local \in Calls
    BY <2>2 DEF Calls
  <2>. QED
    BY <2>2, <2>3, <2>5, <2>6, BecomeType DEF TypeOK
<1>6. CASE ReplaceConditions(c)
  <2>1. ConditionRows(call[c].task, call[c].save, call[c].content) \subseteq ConditionRow
    BY <1>6, CallType, ConditionRowsType DEF ReplaceConditions
  <2>2. conds' \subseteq ConditionRow
    BY <1>6, <2>1 DEF ReplaceConditions, TypeOK
  <2>. QED
    BY <1>6, <2>2, ReturnType DEF ReplaceConditions, TypeOK
<1>7. CASE UpdateTaskStatus(c)
  <2>1. call[c].task \in Tasks /\ Exists(call[c].task)
    BY <1>7, CallType DEF UpdateTaskStatus, CallInv, CallOK, At
  <2>2. [task[call[c].task] EXCEPT !.status = "Published"] \in TaskRow
    BY <2>1, TaskType DEF TaskRow
  <2>3. task' \in [Tasks -> TaskRow]
    BY <1>7, <2>1, <2>2 DEF UpdateTaskStatus, TypeOK
  <2>. QED
    BY <1>7, <2>3, ReturnType DEF UpdateTaskStatus, TypeOK
<1>. QED
  BY <1>1, <1>2, <1>3, <1>4, <1>5, <1>6, <1>7 DEF AdminStep

LEMMA EnrollTypeOK ==
    ASSUME TypeOK, CallInv, NEW c \in Clients, EnrollStep(c) \/ CutShort(c)
    PROVE  TypeOK'
<1>. USE DEF db, counts, history
<1>1. CASE ListTasks(c)
  <2>1. CASE Return(c)
    BY <1>1, <2>1, ReturnType DEF ListTasks, TypeOK
  <2>2. CASE Listed(c, call[c].user, TasksOf(call[c].group))
    <3>. DEFINE ts == TasksOf(call[c].group)
                local == [step |-> "conditions", user |-> call[c].user, tasks |-> ts,
                          settled |-> {t \in ts : Settled(t)}]
    <3>1. call[c].user \in Users /\ ts \subseteq Tasks
      BY <1>1, CallType DEF ListTasks, TasksOf
    <3>2. local \in Calls
      BY <3>1, SMT DEF Calls
    <3>3. Become(c, local)
      BY <2>2 DEF Listed
    <3>. QED
      BY <1>1, <3>2, <3>3, BecomeType DEF ListTasks, TypeOK
  <2>. QED
    BY <1>1, <2>1, <2>2 DEF ListTasks
<1>2. CASE LoadConditions(c)
  <2>1. CASE Return(c)
    BY <1>2, <2>1, ReturnType DEF LoadConditions, TypeOK
  <2>. DEFINE local == [step |-> "enroll", user |-> call[c].user, settled |-> call[c].settled,
                        rows |-> EnrollProgressItems(call[c].tasks)]
  <2>2. CASE Become(c, local)
    <3>1. call[c].user \in Users /\ call[c].tasks \subseteq Tasks
      BY <1>2, CallType DEF LoadConditions
    <3>2. call[c].settled \subseteq call[c].tasks
      BY <1>2 DEF LoadConditions, CallInv, CallOK
    <3>3. Enrolling(local)
      BY <3>1, <3>2 DEF Enrolling, EnrollProgressItems, ConditionsOf, TypeOK
    <3>. QED
      BY <1>2, <2>2, <3>3, BecomeType DEF LoadConditions, TypeOK
  <2>. QED
    BY <1>2, <2>1, <2>2 DEF LoadConditions
<1>3. CASE EnrollUserTasks(c)
  <2>. DEFINE u == call[c].user
              rows == call[c].rows
  <2>1. Enrolling(call[c])
    BY <1>3, CallType DEF EnrollUserTasks
  <2>2. CASE UNCHANGED <<enrolled, settled>>
    BY <1>3, <2>2, ReturnType DEF EnrollUserTasks, TypeOK
  <2>3. CASE /\ enrolled' = [enrolled EXCEPT ![u] =
                                [t \in Tasks |-> IF t \in DOMAIN rows THEN rows[t] ELSE @[t]]]
             /\ settled' = settled \cup {<<u, t>> : t \in call[c].settled}
    <3>1. enrolled' \in [Users -> [Tasks -> SUBSET ConditionRow]]
      BY <2>1, <2>3 DEF Enrolling, TypeOK
    <3>2. settled' \subseteq Users \X Tasks
      BY <2>1, <2>3 DEF Enrolling, TypeOK
    <3>. QED
      BY <1>3, <3>1, <3>2, ReturnType DEF EnrollUserTasks, TypeOK
  <2>. QED
    BY <1>3, <2>2, <2>3 DEF EnrollUserTasks
<1>4. CASE CutShort(c)
  <2>1. faults' \in 0..MaxFaults
    BY <1>4, AdminAssumption, SMT DEF CutShort, TypeOK
  <2>. QED
    BY <1>4, <2>1, ReturnType DEF CutShort, TypeOK
<1>. QED
  BY <1>1, <1>2, <1>3, <1>4 DEF EnrollStep

LEMMA NextTypeOK == TypeOK /\ CallInv /\ [Next]_vars => TypeOK'
<1>1. TypeOK /\ UNCHANGED vars => TypeOK'
  BY DEF vars, TypeOK
<1>. QED
  BY <1>1, RequestTypeOK, AdminTypeOK, EnrollTypeOK DEF Next

--------------------------------------------------------------------------------
(* What the steps do to a task, to its conditions and to the calls.             *)

(* The other calls stay where they are. *)
LEMMA OthersStay ==
    ASSUME TypeOK, NEW c \in Clients,
           Request(c) \/ AdminStep(c) \/ EnrollStep(c) \/ CutShort(c)
    PROVE  \A d \in Clients \ {c} : call'[d] = call[d]
<1>1. (\E local : Become(c, local)) \/ UNCHANGED call
  BY DEF Request, EnrollTask, EnrollSingleTask, EnrollGroup, Listed, CreateTaskGroup,
         SaveTaskGroup, PublishTaskGroup, CreateTask, SaveTask, PublishTask, AdminStep,
         SaveGroupRow, UpdateGroupStatus, InsertTask, CheckGroup, SaveRow,
         ReplaceConditions, UpdateTaskStatus, EnrollStep, ListTasks, LoadConditions,
         EnrollUserTasks, CutShort, Return
<1>. QED
  BY <1>1 DEF TypeOK, Become

(* The row of a task is made by InsertTask; after that it changes by SaveRow,   *)
(* which writes the row that was read, and by UpdateTaskStatus.                 *)
LEMMA TaskSteps ==
    ASSUME TypeOK, CallInv, [Next]_vars, NEW t \in Tasks, Exists(t)
    PROVE  /\ Exists(t)' /\ task'[t].group = task[t].group
           /\ \/ task'[t] = task[t]
              \/ \E c \in Clients : SaveRow(c) /\ call[c].task = t
              \/ /\ task'[t] = [task[t] EXCEPT !.status = "Published"]
                 /\ \E c \in Clients : UpdateTaskStatus(c) /\ call[c].task = t
<1>. DEFINE Goal == /\ Exists(t)' /\ task'[t].group = task[t].group
                    /\ \/ task'[t] = task[t]
                       \/ \E c \in Clients : SaveRow(c) /\ call[c].task = t
                       \/ /\ task'[t] = [task[t] EXCEPT !.status = "Published"]
                          /\ \E c \in Clients : UpdateTaskStatus(c) /\ call[c].task = t
<1>. SUFFICES Goal
  OBVIOUS
<1>. USE DEF db
<1>1. CASE task'[t] = task[t]
  BY <1>1 DEF Exists
<1>2. ASSUME NEW c \in Clients, NEW q \in Tasks, InsertTask(c, q)
      PROVE  Goal
  BY <1>1, <1>2 DEF InsertTask, TypeOK
<1>3. ASSUME NEW c \in Clients, SaveRow(c)
      PROVE  Goal
  <2>1. /\ task' = [task EXCEPT ![call[c].task] =
                      [call[c].row EXCEPT !.expr = call[c].content.expr]]
        /\ call[c] \in Saving
    BY <1>3, CallType DEF SaveRow
  <2>2. CASE call[c].task = t
    <3>1. task'[t] = [call[c].row EXCEPT !.expr = call[c].content.expr]
      BY <2>1, <2>2 DEF TypeOK
    <3>2. /\ call[c].row \in [status : {"Draft", "Published"}, group : Groups,
                               expr : {k.expr : k \in Contents}]
      BY <2>1 DEF Saving, TaskRow
    <3>3. task[t].group = call[c].row.group
      BY <1>3, <2>2 DEF SaveRow, At, CallInv, CallOK
    <3>4. task'[t].status \in {"Draft", "Published"} /\ task'[t].group = call[c].row.group
      BY <3>1, <3>2
    <3>. QED
      BY <1>3, <2>2, <3>3, <3>4 DEF Exists
  <2>3. CASE call[c].task # t
    BY <1>1, <2>1, <2>3 DEF TypeOK
  <2>. QED
    BY <2>2, <2>3
<1>4. ASSUME NEW c \in Clients, UpdateTaskStatus(c)
      PROVE  Goal
  <2>1. task' = [task EXCEPT ![call[c].task].status = "Published"]
    BY <1>4 DEF UpdateTaskStatus
  <2>2. CASE call[c].task = t
    <3>1. task'[t] = [task[t] EXCEPT !.status = "Published"]
      BY <2>1, <2>2 DEF TypeOK
    <3>2. task'[t].status = "Published" /\ task'[t].group = task[t].group
      BY <3>1, TaskType
    <3>. QED
      BY <1>4, <2>2, <3>1, <3>2 DEF Exists
  <2>3. CASE call[c].task # t
    BY <1>1, <2>1, <2>3 DEF TypeOK
  <2>. QED
    BY <2>2, <2>3
<1>5. ASSUME NEW c \in Clients, SaveGroupRow(c) \/ UpdateGroupStatus(c) \/ CheckGroup(c)
                                  \/ ReplaceConditions(c)
      PROVE  UNCHANGED task
  BY <1>5 DEF SaveGroupRow, UpdateGroupStatus, CheckGroup, ReplaceConditions
<1>6. ASSUME NEW c \in Clients, Request(c) \/ EnrollStep(c) \/ CutShort(c)
      PROVE  UNCHANGED task
  BY <1>6
  DEF Request, EnrollTask, EnrollSingleTask, EnrollGroup, CreateTaskGroup, SaveTaskGroup,
      PublishTaskGroup, CreateTask, SaveTask, PublishTask, EnrollStep, ListTasks,
      LoadConditions, EnrollUserTasks, CutShort
<1>. HIDE DEF Goal
<1>7. UNCHANGED task => Goal
  BY <1>1
<1>8. UNCHANGED vars => UNCHANGED task
  BY DEF vars
<1>. QED
  BY <1>2, <1>3, <1>4, <1>5, <1>6, <1>7, <1>8 DEF Next, AdminStep

LEMMA ReplacedConditions ==
    ASSUME NEW c \in Clients, NEW t \in Tasks, ReplaceConditions(c)
    PROVE  IF call[c].task = t
           THEN ConditionsOf(t)' = ConditionRows(t, call[c].save, call[c].content)
           ELSE ConditionsOf(t)' = ConditionsOf(t)
<1>1. conds' = (conds \ ConditionsOf(call[c].task))
                  \cup ConditionRows(call[c].task, call[c].save, call[c].content)
  BY DEF ReplaceConditions
<1>2. \A k \in ConditionRows(call[c].task, call[c].save, call[c].content) :
         k.task = call[c].task
  BY DEF ConditionRows
<1>. QED
  BY <1>1, <1>2 DEF ConditionsOf

(* The conditions of a task change by ReplaceConditions, all at once.           *)
LEMMA ConditionSteps ==
    ASSUME TypeOK, [Next]_vars, NEW t \in Tasks
    PROVE  \/ ConditionsOf(t)' = ConditionsOf(t)
           \/ \E c \in Clients :
                /\ ReplaceConditions(c) /\ call[c].task = t
                /\ ConditionsOf(t)' = ConditionRows(t, call[c].save, call[c].content)
<1>. USE DEF db
<1>1. ASSUME NEW c \in Clients, ReplaceConditions(c)
      PROVE  IF call[c].task = t
             THEN ConditionsOf(t)' = ConditionRows(t, call[c].save, call[c].content)
             ELSE ConditionsOf(t)' = ConditionsOf(t)
  BY <1>1, ReplacedConditions
<1>2. ASSUME NEW c \in Clients, AdminStep(c), ~ReplaceConditions(c)
      PROVE  UNCHANGED conds
  BY <1>2
  DEF AdminStep, SaveGroupRow, UpdateGroupStatus, InsertTask, CheckGroup, SaveRow,
      UpdateTaskStatus
<1>3. ASSUME NEW c \in Clients, Request(c) \/ EnrollStep(c) \/ CutShort(c)
      PROVE  UNCHANGED conds
  BY <1>3
  DEF Request, EnrollTask, EnrollSingleTask, EnrollGroup, CreateTaskGroup, SaveTaskGroup,
      PublishTaskGroup, CreateTask, SaveTask, PublishTask, EnrollStep, ListTasks,
      LoadConditions, EnrollUserTasks, CutShort
<1>4. UNCHANGED conds => ConditionsOf(t)' = ConditionsOf(t)
  BY DEF ConditionsOf
<1>5. UNCHANGED vars => UNCHANGED conds
  BY DEF vars
<1>. QED
  BY <1>1, <1>2, <1>3, <1>4, <1>5 DEF Next

--------------------------------------------------------------------------------
(* The calls. *)

LEMMA CallKept ==
    ASSUME TypeOK, CallInv, [Next]_vars, NEW c \in Clients, call'[c] = call[c]
    PROVE  CallOK(c)'
<1>1. CallOK(c)
  BY DEF CallInv
<1>2. CASE call[c].step \in {"group", "save", "replace", "publishTask"}
  <2>1. call[c].task \in Tasks
    BY <1>2, CallType DEF At, Saving
  <2>2. Exists(call[c].task)
    BY <1>1, <1>2 DEF CallOK
  <2>3. PICK t \in Tasks : t = call[c].task
    BY <2>1
  <2>4. Exists(t)' /\ task'[t].group = task[t].group
    BY <2>2, <2>3, TaskSteps
  <2>5. Exists(call[c].task)' /\ task'[call'[c].task].group = task[call[c].task].group
    BY <2>3, <2>4 DEF Exists
  <2>. QED
    BY <1>1, <2>5 DEF CallOK, At
<1>3. CASE call[c].step \notin {"group", "save", "replace", "publishTask"}
  BY <1>1, <1>3 DEF CallOK, At
<1>. QED
  BY <1>2, <1>3

LEMMA RequestCallOK ==
    ASSUME TypeOK, NEW c \in Clients, Request(c)
    PROVE  CallOK(c)' \/ (UNCHANGED call /\ \E g \in Groups : CreateTaskGroup(c, g))
<1>. USE DEF db
<1>1. \A local : Become(c, local) => call'[c] = local
  BY DEF Become, TypeOK
<1>2. ASSUME NEW g \in Groups, SaveTaskGroup(c, g) \/ PublishTaskGroup(c, g)
      PROVE  CallOK(c)'
  <2>1. call'[c].step \in {"saveGroup", "publishGroup"}
    BY <1>1, <1>2 DEF SaveTaskGroup, PublishTaskGroup
  <2>. QED
    BY <2>1 DEF CallOK, At
<1>3. ASSUME NEW u \in Users, NEW g \in Groups, EnrollGroup(c, u, g)
      PROVE  CallOK(c)'
  <2>1. call'[c].step = "list"
    BY <1>1, <1>3 DEF EnrollGroup
  <2>. QED
    BY <2>1 DEF CallOK, At
<1>4. ASSUME NEW u \in Users, NEW t \in Tasks, EnrollSingleTask(c, u, t)
      PROVE  CallOK(c)'
  <2>1. call'[c] = [step |-> "conditions", user |-> u, tasks |-> {t},
                    settled |-> {q \in {t} : Settled(q)}]
    BY <1>1, <1>4 DEF EnrollSingleTask, Listed
  <2>2. call'[c].step = "conditions" /\ call'[c].settled \subseteq call'[c].tasks
    BY <2>1
  <2>. QED
    BY <2>2 DEF CallOK, At
<1>5. ASSUME NEW g \in Groups, NEW content \in Contents, CreateTask(c, g, content)
      PROVE  CallOK(c)'
  <2>1. call'[c].step = "insert" /\ call'[c].content \in ValidContents
    BY <1>1, <1>5 DEF CreateTask
  <2>. QED
    BY <2>1 DEF CallOK, At, ValidContents
<1>6. ASSUME NEW t \in Tasks, NEW content \in Contents, SaveTask(c, t, content)
      PROVE  CallOK(c)'
  <2>1. /\ call'[c].step = "group" /\ call'[c].content \in ValidContents
        /\ call'[c].task = t /\ call'[c].row = task[t] /\ task' = task
        /\ task[t].status = "Draft"
    BY <1>1, <1>6 DEF SaveTask
  <2>. QED
    BY <2>1 DEF CallOK, At, ValidContents, Exists
<1>7. ASSUME NEW t \in Tasks, PublishTask(c, t)
      PROVE  CallOK(c)'
  <2>1. /\ call'[c].step = "publishTask" /\ call'[c].task = t /\ task' = task
        /\ task[t].status = "Draft"
    BY <1>1, <1>7 DEF PublishTask
  <2>. QED
    BY <2>1 DEF CallOK, At, Exists
<1>8. ASSUME NEW g \in Groups, CreateTaskGroup(c, g)
      PROVE  UNCHANGED call /\ \E h \in Groups : CreateTaskGroup(c, h)
  BY <1>8 DEF CreateTaskGroup
<1>. QED
  BY <1>2, <1>3, <1>4, <1>5, <1>6, <1>7, <1>8 DEF Request, EnrollTask

LEMMA StepCallOK ==
    ASSUME TypeOK, CallInv, NEW c \in Clients, AdminStep(c) \/ EnrollStep(c) \/ CutShort(c)
    PROVE  CallOK(c)'
<1>. USE DEF db
<1>1. \A local : Become(c, local) => call'[c] = local
  BY DEF Become, TypeOK
<1>2. CASE Return(c)
  <2>1. call'[c].step = "idle"
    BY <1>1, <1>2 DEF Return, Idle
  <2>. QED
    BY <2>1 DEF CallOK, At
<1>3. ASSUME NEW t \in Tasks, InsertTask(c, t)
      PROVE  CallOK(c)'
  <2>1. /\ call'[c].step = "replace" /\ call'[c].task = t
        /\ call'[c].content = call[c].content
    BY <1>1, <1>3 DEF InsertTask
  <2>2. call[c].content \in ValidContents
    BY <1>3 DEF InsertTask, At, CallInv, CallOK
  <2>3. task'[t].status = "Draft"
    BY <1>3 DEF InsertTask, TypeOK
  <2>. QED
    BY <2>1, <2>2, <2>3 DEF CallOK, At, Exists, ValidContents
<1>4. CASE Become(c, [call[c] EXCEPT !.step = "save"]) /\ CheckGroup(c)
  <2>1. call[c] \in Saving
    BY <1>4, CallType DEF CheckGroup
  <2>2. /\ call'[c].step = "save" /\ call'[c].task = call[c].task
        /\ call'[c].row = call[c].row /\ call'[c].content = call[c].content
    BY <1>1, <1>4, <2>1 DEF Saving
  <2>3. /\ Exists(call[c].task) /\ task[call[c].task].group = call[c].row.group
        /\ call[c].content \in ValidContents /\ task' = task
    BY <1>4 DEF CheckGroup, At, CallInv, CallOK
  <2>. QED
    BY <2>2, <2>3 DEF CallOK, At, Exists, ValidContents
<1>5. CASE SaveRow(c)
  <2>1. /\ call'[c].step = "replace" /\ call'[c].task = call[c].task
        /\ call'[c].content = call[c].content
    BY <1>1, <1>5 DEF SaveRow
  <2>2. PICK t \in Tasks : t = call[c].task
    BY <1>5, CallType DEF SaveRow, Saving
  <2>3. Exists(t) /\ call[c].content \in ValidContents
    BY <1>5, <2>2 DEF SaveRow, At, CallInv, CallOK
  <2>4. task'[t].status # "None"
    <3>1. task' = [task EXCEPT ![t] = [call[c].row EXCEPT !.expr = call[c].content.expr]]
      BY <1>5, <2>2 DEF SaveRow
    <3>2. call[c].row \in [status : {"Draft", "Published"}, group : Groups,
                           expr : {k.expr : k \in Contents}]
      BY <1>5, CallType DEF SaveRow, Saving, TaskRow
    <3>3. task'[t].status = call[c].row.status
      BY <3>1, <3>2 DEF TypeOK
    <3>. QED
      BY <3>2, <3>3
  <2>. QED
    BY <2>1, <2>2, <2>3, <2>4 DEF CallOK, At, Exists, ValidContents
<1>6. CASE ListTasks(c) /\ Listed(c, call[c].user, TasksOf(call[c].group))
  <2>1. call'[c] = [step |-> "conditions", user |-> call[c].user,
                    tasks |-> TasksOf(call[c].group),
                    settled |-> {t \in TasksOf(call[c].group) : Settled(t)}]
    BY <1>1, <1>6 DEF Listed
  <2>2. call'[c].step = "conditions" /\ call'[c].settled \subseteq call'[c].tasks
    BY <2>1
  <2>. QED
    BY <2>2 DEF CallOK, At
<1>7. CASE LoadConditions(c) /\ ~Return(c)
  <2>1. call'[c].step = "enroll"
    BY <1>1, <1>7 DEF LoadConditions
  <2>. QED
    BY <2>1 DEF CallOK, At
<1>. QED
  BY <1>2, <1>3, <1>4, <1>5, <1>6, <1>7
  DEF AdminStep, SaveGroupRow, UpdateGroupStatus, CheckGroup, ReplaceConditions,
      UpdateTaskStatus, EnrollStep, ListTasks, LoadConditions, EnrollUserTasks, CutShort

LEMMA CallInvStep == TypeOK /\ CallInv /\ [Next]_vars => CallInv'
<1>. SUFFICES ASSUME TypeOK, CallInv, [Next]_vars, NEW c \in Clients
              PROVE  CallOK(c)'
  BY DEF CallInv
<1>1. CASE call'[c] = call[c]
  BY <1>1, CallKept
<1>2. CASE call'[c] # call[c]
  <2>1. Request(c) \/ AdminStep(c) \/ EnrollStep(c) \/ CutShort(c)
    BY <1>2, OthersStay DEF Next, vars
  <2>. QED
    BY <1>2, <2>1, RequestCallOK, StepCallOK
<1>. QED
  BY <1>1, <1>2

LEMMA TypeCallCorrect == Spec => [](TypeOK /\ CallInv)
<1>1. Init => CallInv
  BY DEF Init, CallInv, CallOK, Idle, At
<1>. QED
  BY <1>1, InitTypeOK, NextTypeOK, CallInvStep, PTL DEF Spec

(* Every table and every call keeps its shape; a task that a call is going to   *)
(* write or publish is there.                                                   *)
THEOREM TypeCorrect == Spec => []TypeOK
BY TypeCallCorrect, PTL

--------------------------------------------------------------------------------
(* Published and settled. *)

(* A call comes to write a task by reading it as a draft or by creating it.     *)
LEMMA WriteSteps ==
    ASSUME TypeOK, [Next]_vars, NEW c \in Clients, NEW t \in Tasks, Writes(c, t)'
    PROVE  Writes(c, t) \/ task[t].status # "Published"
<1>. SUFFICES ASSUME call'[c] # call[c]
              PROVE  Writes(c, t) \/ task[t].status # "Published"
  BY DEF Writes
<1>1. \A local : Become(c, local) => call'[c] = local
  BY DEF Become, TypeOK
<1>2. call'[c].step \in {"group", "save", "replace"} /\ call'[c].task = t
  BY DEF Writes
<1>3. Request(c) \/ AdminStep(c) \/ EnrollStep(c) \/ CutShort(c)
  BY OthersStay DEF Next, vars
<1>4. ~Return(c)
  BY <1>1, <1>2 DEF Return, Idle
<1>5. ASSUME NEW q \in Tasks, NEW content \in Contents, SaveTask(c, q, content)
      PROVE  task[t].status # "Published"
  BY <1>1, <1>2, <1>5 DEF SaveTask
<1>6. ASSUME NEW q \in Tasks, InsertTask(c, q)
      PROVE  task[t].status # "Published"
  BY <1>1, <1>2, <1>6 DEF InsertTask, Exists
<1>7. CASE CheckGroup(c) \/ SaveRow(c)
  <2>1. call[c] \in Saving
    BY <1>7, CallType DEF CheckGroup, SaveRow
  <2>2. call'[c].task = call[c].task
    BY <1>1, <1>4, <1>7, <2>1 DEF CheckGroup, SaveRow, Saving
  <2>. QED
    BY <1>2, <1>7, <2>2 DEF Writes, CheckGroup, SaveRow, At
<1>8. ASSUME NEW u, NEW ts
      PROVE  ~Listed(c, u, ts)
  BY <1>1, <1>2 DEF Listed
<1>9. ~Request(c) \/ \E q \in Tasks, content \in Contents : SaveTask(c, q, content)
  <2>1. ASSUME NEW g \in Groups
        PROVE  ~SaveTaskGroup(c, g) /\ ~PublishTaskGroup(c, g) /\ ~CreateTaskGroup(c, g)
    BY <1>1, <1>2 DEF SaveTaskGroup, PublishTaskGroup, CreateTaskGroup
  <2>2. ASSUME NEW g \in Groups, NEW content \in Contents
        PROVE  ~CreateTask(c, g, content)
    BY <1>1, <1>2 DEF CreateTask
  <2>3. ASSUME NEW q \in Tasks
        PROVE  ~PublishTask(c, q)
    BY <1>1, <1>2 DEF PublishTask
  <2>4. ASSUME NEW u \in Users
        PROVE  /\ \A q \in Tasks : ~EnrollSingleTask(c, u, q)
               /\ \A g \in Groups : ~EnrollGroup(c, u, g)
    BY <1>1, <1>2, <1>8 DEF EnrollSingleTask, EnrollGroup
  <2>. QED
    BY <2>1, <2>2, <2>3, <2>4 DEF Request, EnrollTask
<1>10. ~LoadConditions(c)
  BY <1>1, <1>2, <1>4 DEF LoadConditions
<1>. QED
  BY <1>3, <1>4, <1>5, <1>6, <1>7, <1>8, <1>9, <1>10
  DEF AdminStep, SaveGroupRow, UpdateGroupStatus, ReplaceConditions, UpdateTaskStatus,
      EnrollStep, ListTasks, EnrollUserTasks, CutShort

LEMMA SettledStays ==
    ASSUME TypeOK, CallInv, [Next]_vars, NEW t \in Tasks, Settled(t)
    PROVE  /\ Settled(t)'
           /\ task'[t] = task[t]
           /\ ConditionsOf(t)' = ConditionsOf(t)
<1>1. task[t].status = "Published" /\ \A c \in Clients : ~Writes(c, t)
  BY DEF Settled
<1>2. Exists(t)
  BY <1>1 DEF Exists
<1>3. ASSUME NEW c \in Clients, call[c].task = t
      PROVE  ~SaveRow(c) /\ ~ReplaceConditions(c)
  BY <1>1, <1>3 DEF SaveRow, ReplaceConditions, At, Writes
<1>4. task'[t] = task[t]
  <2>1. [task[t] EXCEPT !.status = "Published"] = task[t]
    BY <1>1, <1>2, TaskType
  <2>. QED
    BY <1>2, <1>3, <2>1, TaskSteps
<1>5. ConditionsOf(t)' = ConditionsOf(t)
  BY <1>3, ConditionSteps
<1>6. \A c \in Clients : ~Writes(c, t)'
  BY <1>1, WriteSteps
<1>. QED
  BY <1>1, <1>4, <1>5, <1>6 DEF Settled

(* A task that is published and that no call still writes is frozen: neither    *)
(* its row nor its conditions change, and no call gets hold of it to write it.  *)
THEOREM SettledTaskIsFrozenCorrect == Spec => SettledTaskIsFrozen
<1>1. TypeOK /\ CallInv /\ [Next]_vars =>
        [\A t \in Tasks : Settled(t) =>
            /\ Settled(t)'
            /\ task'[t] = task[t]
            /\ ConditionsOf(t)' = ConditionsOf(t)]_vars
  BY SettledStays
<1>. QED
  BY <1>1, TypeCallCorrect, PTL DEF Spec, SettledTaskIsFrozen

(* A call comes to write a group, or a task of it, while the group is a draft.  *)
LEMMA GroupWriteSteps ==
    ASSUME TypeOK, CallInv, [Next]_vars, NEW c \in Clients, NEW g \in Groups,
           WritesGroup(c, g)'
    PROVE  WritesGroup(c, g) \/ group[g] # "Published"
<1>1. CASE call'[c] = call[c]
  <2>1. CASE call[c].step \in {"save", "replace"}
    <3>1. PICK t \in Tasks : t = call[c].task
      BY <2>1, CallType DEF At, Saving
    <3>2. task'[t].group = task[t].group
      BY <2>1, <3>1, TaskSteps DEF CallInv, CallOK
    <3>. QED
      BY <1>1, <2>1, <3>1, <3>2 DEF WritesGroup
  <2>2. CASE call[c].step \notin {"save", "replace"}
    BY <1>1, <2>2 DEF WritesGroup
  <2>. QED
    BY <2>1, <2>2
<1>2. CASE call'[c] # call[c]
  <2>1. \A local : Become(c, local) => call'[c] = local
    BY DEF Become, TypeOK
  <2>2. call'[c].step \in {"saveGroup", "insert", "save", "replace"}
    BY DEF WritesGroup
  <2>3. Request(c) \/ AdminStep(c) \/ EnrollStep(c) \/ CutShort(c)
    BY <1>2, OthersStay DEF Next, vars
  <2>4. ~Return(c)
    BY <2>1, <2>2 DEF Return, Idle
  <2>5. ASSUME NEW u, NEW ts
        PROVE  ~Listed(c, u, ts)
    BY <2>1, <2>2 DEF Listed
  <2>6. ASSUME NEW h \in Groups, SaveTaskGroup(c, h)
        PROVE  group[g] # "Published"
    <3>1. call'[c] = [step |-> "saveGroup", group |-> h, status |-> group[h]]
          /\ group[h] = "Draft"
      BY <2>1, <2>6 DEF SaveTaskGroup
    <3>2. call'[c].step = "saveGroup" /\ call'[c].group = h
      BY <3>1
    <3>3. h = g
      BY <3>2 DEF WritesGroup
    <3>. QED
      BY <3>1, <3>3
  <2>7. ASSUME NEW h \in Groups, NEW content \in Contents, CreateTask(c, h, content)
        PROVE  group[g] # "Published"
    <3>1. /\ call'[c] = [step |-> "insert", group |-> h, content |-> content, save |-> saves']
          /\ group[h] = "Draft"
      BY <2>1, <2>7 DEF CreateTask, Writable
    <3>2. call'[c].step = "insert" /\ call'[c].group = h
      BY <3>1
    <3>3. h = g
      BY <3>2 DEF WritesGroup
    <3>. QED
      BY <3>1, <3>3
  <2>8. ASSUME NEW t \in Tasks, InsertTask(c, t)
        PROVE  WritesGroup(c, g)
    <3>1. call'[c].step = "replace" /\ call'[c].task = t
      BY <2>1, <2>8 DEF InsertTask
    <3>2. task'[t].group = call[c].group
      BY <2>8 DEF InsertTask, TypeOK
    <3>. QED
      BY <2>8, <3>1, <3>2 DEF InsertTask, At, WritesGroup
  <2>9. CASE CheckGroup(c)
    <3>1. /\ call[c] \in Saving /\ Writable(call[c].row.group) /\ task' = task
          /\ call'[c] = [call[c] EXCEPT !.step = "save"]
      BY <2>1, <2>4, <2>9, CallType DEF CheckGroup, db
    <3>2. call'[c].step = "save" /\ call'[c].task = call[c].task
      BY <3>1 DEF Saving
    <3>3. task[call[c].task].group = call[c].row.group
      BY <2>9 DEF CheckGroup, At, CallInv, CallOK
    <3>4. call[c].row.group = g
      BY <3>1, <3>2, <3>3 DEF WritesGroup
    <3>. QED
      BY <3>1, <3>4 DEF Writable
  <2>10. CASE SaveRow(c)
    <3>1. call'[c].step = "replace" /\ call'[c].task = call[c].task
      BY <2>1, <2>10 DEF SaveRow
    <3>2. PICK t \in Tasks : t = call[c].task
      BY <2>10, CallType DEF SaveRow, Saving
    <3>3. task'[t].group = task[t].group
      BY <2>10, <3>2, TaskSteps DEF SaveRow, At, CallInv, CallOK
    <3>. QED
      BY <2>10, <3>1, <3>2, <3>3 DEF SaveRow, At, WritesGroup
  <2>11. ~LoadConditions(c)
    BY <2>1, <2>2, <2>4 DEF LoadConditions
  <2>12. ASSUME NEW h \in Groups
         PROVE  ~PublishTaskGroup(c, h) /\ ~CreateTaskGroup(c, h)
    BY <1>2, <2>1, <2>2 DEF PublishTaskGroup, CreateTaskGroup
  <2>13. ASSUME NEW t \in Tasks
         PROVE  /\ ~PublishTask(c, t)
                /\ \A content \in Contents : ~SaveTask(c, t, content)
    BY <2>1, <2>2 DEF PublishTask, SaveTask
  <2>14. ASSUME NEW u \in Users
         PROVE  /\ \A t \in Tasks : ~EnrollSingleTask(c, u, t)
                /\ \A h \in Groups : ~EnrollGroup(c, u, h)
    BY <2>1, <2>2, <2>5 DEF EnrollSingleTask, EnrollGroup
  <2>15. Request(c) => group[g] # "Published"
    BY <2>6, <2>7, <2>12, <2>13, <2>14 DEF Request, EnrollTask
  <2>. QED
    BY <2>3, <2>4, <2>5, <2>8, <2>9, <2>10, <2>11, <2>15
    DEF AdminStep, SaveGroupRow, UpdateGroupStatus, ReplaceConditions, UpdateTaskStatus,
        EnrollStep, ListTasks, EnrollUserTasks, CutShort
<1>. QED
  BY <1>1, <1>2

(* A published group goes back to draft by a call that read it before. *)
LEMMA GroupStaysPublished ==
    ASSUME TypeOK, [Next]_vars, NEW g \in Groups, SettledGroup(g)
    PROVE  group'[g] = "Published"
<1>1. group[g] = "Published" /\ \A c \in Clients : ~WritesGroup(c, g)
  BY DEF SettledGroup
<1>. USE DEF db
<1>2. ASSUME NEW c \in Clients, SaveGroupRow(c)
      PROVE  group'[g] = "Published"
  <2>1. call[c].group # g
    BY <1>1, <1>2 DEF SaveGroupRow, At, WritesGroup
  <2>. QED
    BY <1>1, <1>2, <2>1 DEF SaveGroupRow, TypeOK
<1>3. ASSUME NEW c \in Clients, UpdateGroupStatus(c)
      PROVE  group'[g] = "Published"
  BY <1>1, <1>3 DEF UpdateGroupStatus, TypeOK
<1>4. ASSUME NEW c \in Clients, NEW h \in Groups, CreateTaskGroup(c, h)
      PROVE  group'[g] = "Published"
  BY <1>1, <1>4 DEF CreateTaskGroup, TypeOK
<1>5. ASSUME NEW c \in Clients, Request(c), ~ \E h \in Groups : CreateTaskGroup(c, h)
      PROVE  UNCHANGED group
  BY <1>5
  DEF Request, EnrollTask, EnrollSingleTask, EnrollGroup, SaveTaskGroup, PublishTaskGroup,
      CreateTask, SaveTask, PublishTask
<1>6. ASSUME NEW c \in Clients, AdminStep(c), ~SaveGroupRow(c), ~UpdateGroupStatus(c)
      PROVE  UNCHANGED group
  BY <1>6 DEF AdminStep, InsertTask, CheckGroup, SaveRow, ReplaceConditions, UpdateTaskStatus
<1>7. ASSUME NEW c \in Clients, EnrollStep(c) \/ CutShort(c)
      PROVE  UNCHANGED group
  BY <1>7 DEF EnrollStep, ListTasks, LoadConditions, EnrollUserTasks, CutShort
<1>8. UNCHANGED group => group'[g] = "Published"
  BY <1>1
<1>9. UNCHANGED vars => UNCHANGED group
  BY DEF vars
<1>. QED
  BY <1>2, <1>3, <1>4, <1>5, <1>6, <1>7, <1>8, <1>9 DEF Next

(* A task is created in the group of its call. *)
LEMMA TaskCreated ==
    ASSUME TypeOK, [Next]_vars, NEW t \in Tasks, ~Exists(t), Exists(t)', CallInv
    PROVE  \E c \in Clients : /\ InsertTask(c, t)
                             /\ At(c, "insert") /\ task'[t].group = call[c].group
<1>. USE DEF db
<1>1. ASSUME NEW c \in Clients, NEW q \in Tasks, InsertTask(c, q)
      PROVE  InsertTask(c, t) /\ At(c, "insert") /\ task'[t].group = call[c].group
  <2>1. q = t
    BY <1>1 DEF InsertTask, TypeOK, Exists
  <2>. QED
    BY <1>1, <2>1 DEF InsertTask, TypeOK
<1>2. ASSUME NEW c \in Clients, SaveRow(c) \/ UpdateTaskStatus(c)
      PROVE  FALSE
  <2>1. call[c].task \in Tasks /\ Exists(call[c].task)
    BY <1>2, CallType DEF SaveRow, UpdateTaskStatus, Saving, CallInv, CallOK, At
  <2>2. task'[t] = task[t]
    BY <1>2, <2>1 DEF SaveRow, UpdateTaskStatus, TypeOK
  <2>. QED
    BY <2>2 DEF Exists
<1>3. ASSUME NEW c \in Clients, SaveGroupRow(c) \/ UpdateGroupStatus(c) \/ CheckGroup(c)
                                  \/ ReplaceConditions(c)
      PROVE  UNCHANGED task
  BY <1>3 DEF SaveGroupRow, UpdateGroupStatus, CheckGroup, ReplaceConditions
<1>4. ASSUME NEW c \in Clients, Request(c) \/ EnrollStep(c) \/ CutShort(c)
      PROVE  UNCHANGED task
  BY <1>4
  DEF Request, EnrollTask, EnrollSingleTask, EnrollGroup, CreateTaskGroup, SaveTaskGroup,
      PublishTaskGroup, CreateTask, SaveTask, PublishTask, EnrollStep, ListTasks,
      LoadConditions, EnrollUserTasks, CutShort
<1>5. task' # task
  BY DEF Exists
<1>. QED
  BY <1>1, <1>2, <1>3, <1>4, <1>5 DEF Next, AdminStep, vars

LEMMA SettledGroupStays ==
    ASSUME TypeOK, CallInv, [Next]_vars, NEW g \in Groups, SettledGroup(g)
    PROVE  /\ SettledGroup(g)'
           /\ TasksOf(g)' = TasksOf(g)
           /\ \A t \in TasksOf(g) : /\ task'[t].expr = task[t].expr
                                    /\ ConditionsOf(t)' = ConditionsOf(t)
<1>1. group[g] = "Published" /\ \A c \in Clients : ~WritesGroup(c, g)
  BY DEF SettledGroup
<1>2. SettledGroup(g)'
  BY <1>1, GroupStaysPublished, GroupWriteSteps DEF SettledGroup
<1>3. ASSUME NEW t \in Tasks
      PROVE  t \in TasksOf(g)' <=> t \in TasksOf(g)
  <2>1. CASE Exists(t)
    BY <2>1, TaskSteps DEF TasksOf
  <2>2. CASE ~Exists(t) /\ Exists(t)'
    <3>1. task'[t].group # g
      BY <1>1, <2>2, TaskCreated DEF WritesGroup, At
    <3>. QED
      BY <2>2, <3>1 DEF TasksOf
  <2>3. CASE ~Exists(t) /\ ~Exists(t)'
    BY <2>3 DEF TasksOf
  <2>. QED
    BY <2>1, <2>2, <2>3
<1>4. TasksOf(g)' = TasksOf(g)
  BY <1>3 DEF TasksOf
<1>5. ASSUME NEW t \in TasksOf(g)
      PROVE  task'[t].expr = task[t].expr /\ ConditionsOf(t)' = ConditionsOf(t)
  <2>1. t \in Tasks /\ Exists(t) /\ task[t].group = g
    BY DEF TasksOf
  <2>2. ASSUME NEW c \in Clients, call[c].task = t
        PROVE  ~SaveRow(c) /\ ~ReplaceConditions(c)
    BY <1>1, <2>1, <2>2 DEF SaveRow, ReplaceConditions, At, WritesGroup
  <2>3. [task[t] EXCEPT !.status = "Published"].expr = task[t].expr
    BY <2>1, TaskType
  <2>4. task'[t].expr = task[t].expr
    BY <2>1, <2>2, <2>3, TaskSteps
  <2>. QED
    BY <2>1, <2>2, <2>4, ConditionSteps
<1>. QED
  BY <1>2, <1>4, <1>5

(* A group that is published and that no call still writes is frozen: it stays  *)
(* published, gets no further task, and its tasks may only be published.        *)
THEOREM SettledGroupIsFrozenCorrect == Spec => SettledGroupIsFrozen
<1>1. TypeOK /\ CallInv /\ [Next]_vars =>
        [\A g \in Groups : SettledGroup(g) =>
            /\ SettledGroup(g)'
            /\ TasksOf(g)' = TasksOf(g)
            /\ \A t \in TasksOf(g) : /\ task'[t].expr = task[t].expr
                                     /\ ConditionsOf(t)' = ConditionsOf(t)]_vars
  BY SettledGroupStays
<1>. QED
  BY <1>1, TypeCallCorrect, PTL DEF Spec, SettledGroupIsFrozen

--------------------------------------------------------------------------------
(* Enrolments. *)

(* What a user is enrolled with is what a call has loaded. *)
LEMMA EnrolledSteps ==
    ASSUME TypeOK, [Next]_vars
    PROVE  \/ UNCHANGED <<enrolled, settled>>
           \/ \E c \in Clients :
                /\ At(c, "enroll") /\ Enrolling(call[c])
                /\ ~DuplicateEnrolment(call[c].user, DOMAIN call[c].rows)
                /\ enrolled' = [enrolled EXCEPT ![call[c].user] =
                                   [t \in Tasks |-> IF t \in DOMAIN call[c].rows
                                                    THEN call[c].rows[t] ELSE @[t]]]
                /\ settled' = settled \cup {<<call[c].user, t>> : t \in call[c].settled}
                /\ UNCHANGED <<task, conds>>
<1>. USE DEF db, history
<1>1. ASSUME NEW c \in Clients, EnrollUserTasks(c)
      PROVE  \/ UNCHANGED <<enrolled, settled>>
             \/ /\ At(c, "enroll") /\ Enrolling(call[c])
                /\ ~DuplicateEnrolment(call[c].user, DOMAIN call[c].rows)
                /\ enrolled' = [enrolled EXCEPT ![call[c].user] =
                                   [t \in Tasks |-> IF t \in DOMAIN call[c].rows
                                                    THEN call[c].rows[t] ELSE @[t]]]
                /\ settled' = settled \cup {<<call[c].user, t>> : t \in call[c].settled}
                /\ UNCHANGED <<task, conds>>
  BY <1>1, CallType DEF EnrollUserTasks
<1>2. ASSUME NEW c \in Clients, Request(c) \/ AdminStep(c) \/ CutShort(c)
                                  \/ (EnrollStep(c) /\ ~EnrollUserTasks(c))
      PROVE  UNCHANGED <<enrolled, settled>>
  BY <1>2
  DEF Request, EnrollTask, EnrollSingleTask, EnrollGroup, CreateTaskGroup, SaveTaskGroup,
      PublishTaskGroup, CreateTask, SaveTask, PublishTask, AdminStep, SaveGroupRow,
      UpdateGroupStatus, InsertTask, CheckGroup, SaveRow, ReplaceConditions,
      UpdateTaskStatus, EnrollStep, ListTasks, LoadConditions, CutShort
<1>. QED
  BY <1>1, <1>2 DEF Next, vars

(* A call loads the conditions its tasks have at that moment, and for no task   *)
(* none.                                                                        *)
LEMMA LoadSteps ==
    ASSUME TypeOK, CallInv, [Next]_vars, NEW c \in Clients, At(c, "enroll")'
    PROVE  \/ call'[c] = call[c]
           \/ /\ At(c, "conditions") /\ call[c].settled \subseteq call[c].tasks
              /\ call'[c].settled = call[c].settled
              /\ call'[c].rows = [t \in call[c].tasks |-> ConditionsOf(t)]
              /\ \A t \in call[c].tasks : ConditionsOf(t) # {}
              /\ UNCHANGED <<task, conds>>
<1>. SUFFICES ASSUME call'[c] # call[c]
              PROVE  /\ At(c, "conditions") /\ call[c].settled \subseteq call[c].tasks
                     /\ call'[c].settled = call[c].settled
                     /\ call'[c].rows = [t \in call[c].tasks |-> ConditionsOf(t)]
                     /\ \A t \in call[c].tasks : ConditionsOf(t) # {}
                     /\ UNCHANGED <<task, conds>>
  OBVIOUS
<1>1. \A local : Become(c, local) => call'[c] = local
  BY DEF Become, TypeOK
<1>2. call'[c].step = "enroll"
  BY DEF At
<1>3. Request(c) \/ AdminStep(c) \/ EnrollStep(c) \/ CutShort(c)
  BY OthersStay DEF Next, vars
<1>4. ~Return(c)
  BY <1>1, <1>2 DEF Return, Idle
<1>5. ASSUME NEW u, NEW ts
      PROVE  ~Listed(c, u, ts)
  BY <1>1, <1>2 DEF Listed
<1>6. ~Request(c)
  <2>1. ASSUME NEW g \in Groups
        PROVE  ~SaveTaskGroup(c, g) /\ ~PublishTaskGroup(c, g) /\ ~CreateTaskGroup(c, g)
    BY <1>1, <1>2 DEF SaveTaskGroup, PublishTaskGroup, CreateTaskGroup
  <2>2. ASSUME NEW g \in Groups, NEW content \in Contents
        PROVE  ~CreateTask(c, g, content)
    BY <1>1, <1>2 DEF CreateTask
  <2>3. ASSUME NEW q \in Tasks
        PROVE  ~PublishTask(c, q) /\ \A content \in Contents : ~SaveTask(c, q, content)
    BY <1>1, <1>2 DEF PublishTask, SaveTask
  <2>4. ASSUME NEW u \in Users
        PROVE  /\ \A q \in Tasks : ~EnrollSingleTask(c, u, q)
               /\ \A g \in Groups : ~EnrollGroup(c, u, g)
    BY <1>1, <1>2, <1>5 DEF EnrollSingleTask, EnrollGroup
  <2>. QED
    BY <2>1, <2>2, <2>3, <2>4 DEF Request, EnrollTask
<1>7. ~CheckGroup(c)
  <2>. SUFFICES ASSUME CheckGroup(c)
                PROVE  FALSE
    OBVIOUS
  <2>1. call'[c] = [call[c] EXCEPT !.step = "save"] /\ call[c] \in Saving
    BY <1>1, <1>4, CallType DEF CheckGroup
  <2>. QED
    BY <1>2, <2>1 DEF Saving
<1>8. ~SaveRow(c) /\ \A t \in Tasks : ~InsertTask(c, t)
  BY <1>1, <1>2 DEF SaveRow, InsertTask
<1>9. LoadConditions(c)
  BY <1>3, <1>4, <1>5, <1>6, <1>7, <1>8
  DEF AdminStep, SaveGroupRow, UpdateGroupStatus, ReplaceConditions, UpdateTaskStatus,
      EnrollStep, ListTasks, EnrollUserTasks, CutShort
<1>10. /\ At(c, "conditions") /\ \A t \in call[c].tasks : ConditionsOf(t) # {}
       /\ call'[c] = [step |-> "enroll", user |-> call[c].user, settled |-> call[c].settled,
                      rows |-> EnrollProgressItems(call[c].tasks)]
       /\ UNCHANGED <<task, conds>>
  BY <1>1, <1>4, <1>9 DEF LoadConditions, db
<1>11. /\ call'[c].settled = call[c].settled
       /\ call'[c].rows = [t \in call[c].tasks |-> ConditionsOf(t)]
  BY <1>10 DEF EnrollProgressItems
<1>. QED
  BY <1>10, <1>11 DEF CallInv, CallOK

(* A call that has listed the tasks to enrol in has marked those settled then. *)
LEMMA ListSteps ==
    ASSUME TypeOK, [Next]_vars, NEW c \in Clients, At(c, "conditions")'
    PROVE  \/ call'[c] = call[c]
           \/ /\ \A t \in call'[c].settled : Settled(t)
              /\ call'[c].settled \subseteq Tasks
<1>. SUFFICES ASSUME call'[c] # call[c]
              PROVE  /\ \A t \in call'[c].settled : Settled(t)
                     /\ call'[c].settled \subseteq Tasks
  OBVIOUS
<1>1. \A local : Become(c, local) => call'[c] = local
  BY DEF Become, TypeOK
<1>2. call'[c].step = "conditions"
  BY DEF At
<1>3. Request(c) \/ AdminStep(c) \/ EnrollStep(c) \/ CutShort(c)
  BY OthersStay DEF Next, vars
<1>4. ~Return(c)
  BY <1>1, <1>2 DEF Return, Idle
<1>5. ASSUME NEW u, NEW ts \in SUBSET Tasks, Listed(c, u, ts)
      PROVE  /\ \A t \in call'[c].settled : Settled(t)
             /\ call'[c].settled \subseteq Tasks
  <2>1. call'[c] = [step |-> "conditions", user |-> u, tasks |-> ts,
                    settled |-> {t \in ts : Settled(t)}]
    BY <1>1, <1>5 DEF Listed
  <2>2. call'[c].settled = {t \in ts : Settled(t)}
    BY <2>1
  <2>. QED
    BY <2>2
<1>6. Request(c) => \E u \in Users, q \in Tasks : Listed(c, u, {q})
  <2>1. ASSUME NEW g \in Groups
        PROVE  ~SaveTaskGroup(c, g) /\ ~PublishTaskGroup(c, g) /\ ~CreateTaskGroup(c, g)
    BY <1>1, <1>2 DEF SaveTaskGroup, PublishTaskGroup, CreateTaskGroup
  <2>2. ASSUME NEW g \in Groups, NEW content \in Contents
        PROVE  ~CreateTask(c, g, content)
    BY <1>1, <1>2 DEF CreateTask
  <2>3. ASSUME NEW q \in Tasks
        PROVE  ~PublishTask(c, q) /\ \A content \in Contents : ~SaveTask(c, q, content)
    BY <1>1, <1>2 DEF PublishTask, SaveTask
  <2>4. ASSUME NEW u \in Users, NEW g \in Groups
        PROVE  ~EnrollGroup(c, u, g)
    BY <1>1, <1>2 DEF EnrollGroup
  <2>. QED
    BY <2>1, <2>2, <2>3, <2>4 DEF Request, EnrollTask, EnrollSingleTask
<1>7. ~CheckGroup(c)
  <2>. SUFFICES ASSUME CheckGroup(c)
                PROVE  FALSE
    OBVIOUS
  <2>1. call'[c] = [call[c] EXCEPT !.step = "save"] /\ call[c] \in Saving
    BY <1>1, <1>4, CallType DEF CheckGroup
  <2>. QED
    BY <1>2, <2>1 DEF Saving
<1>8. ~AdminStep(c)
  <2>1. ~SaveRow(c) /\ \A t \in Tasks : ~InsertTask(c, t)
    BY <1>1, <1>2 DEF SaveRow, InsertTask
  <2>. QED
    BY <1>4, <1>7, <2>1
    DEF AdminStep, SaveGroupRow, UpdateGroupStatus, ReplaceConditions, UpdateTaskStatus
<1>9. ~LoadConditions(c)
  BY <1>1, <1>2, <1>4 DEF LoadConditions
<1>10. EnrollStep(c) => Listed(c, call[c].user, TasksOf(call[c].group))
  BY <1>4, <1>9 DEF EnrollStep, ListTasks, EnrollUserTasks
<1>11. TasksOf(call[c].group) \subseteq Tasks
  BY DEF TasksOf
<1>. QED
  BY <1>3, <1>4, <1>5, <1>6, <1>8, <1>10, <1>11 DEF CutShort

(* The rows that a save makes are told by it. *)
LEMMA RowsOfOneSave ==
    ASSUME NEW t, NEW save, NEW content
    PROVE  OfOneSave(t, ConditionRows(t, save, content))
BY DEF OfOneSave, ConditionRows

LEMMA OneSaveInvStep == TypeOK /\ CallInv /\ OneSaveInv /\ [Next]_vars => OneSaveInv'
<1>. SUFFICES ASSUME TypeOK, CallInv, OneSaveInv, [Next]_vars
              PROVE  OneSaveInv'
  OBVIOUS
<1>1. ASSUME NEW t \in Tasks
      PROVE  OfOneSave(t, ConditionsOf(t)')
  <2>1. OfOneSave(t, ConditionsOf(t))
    BY DEF OneSaveInv
  <2>. QED
    BY <2>1, ConditionSteps, RowsOfOneSave
<1>2. ASSUME NEW c \in Clients, At(c, "enroll")', NEW t \in DOMAIN call'[c].rows
      PROVE  OfOneSave(t, call'[c].rows[t])
  <2>1. CASE call'[c] = call[c]
    BY <1>2, <2>1 DEF OneSaveInv, At
  <2>2. CASE call'[c] # call[c]
    <3>1. /\ At(c, "conditions")
          /\ call'[c].rows = [q \in call[c].tasks |-> ConditionsOf(q)]
      BY <1>2, <2>2, LoadSteps
    <3>2. t \in Tasks /\ call'[c].rows[t] = ConditionsOf(t)
      BY <1>2, <3>1, CallType
    <3>. QED
      BY <3>2 DEF OneSaveInv
  <2>. QED
    BY <2>1, <2>2
<1>3. EnrolmentIsOfOneSave'
  <2>. SUFFICES ASSUME NEW u \in Users, NEW t \in Tasks
                PROVE  OfOneSave(t, enrolled'[u][t])
    BY DEF EnrolmentIsOfOneSave, OfOneSave
  <2>1. OfOneSave(t, enrolled[u][t])
    BY DEF OneSaveInv, EnrolmentIsOfOneSave, OfOneSave
  <2>2. CASE UNCHANGED enrolled
    BY <2>1, <2>2
  <2>3. CASE ~UNCHANGED enrolled
    <3>1. PICK c \in Clients :
            /\ At(c, "enroll") /\ Enrolling(call[c])
            /\ enrolled' = [enrolled EXCEPT ![call[c].user] =
                               [q \in Tasks |-> IF q \in DOMAIN call[c].rows
                                                THEN call[c].rows[q] ELSE @[q]]]
      BY <2>3, EnrolledSteps
    <3>2. \/ enrolled'[u][t] = enrolled[u][t]
          \/ t \in DOMAIN call[c].rows /\ enrolled'[u][t] = call[c].rows[t]
      BY <3>1 DEF TypeOK
    <3>. QED
      BY <2>1, <3>1, <3>2 DEF OneSaveInv
  <2>. QED
    BY <2>2, <2>3
<1>. QED
  BY <1>1, <1>2, <1>3 DEF OneSaveInv

(* The condition rows of an execution come from one save of its task. *)
THEOREM EnrolmentIsOfOneSaveCorrect == Spec => []EnrolmentIsOfOneSave
<1>1. Init => OneSaveInv
  BY DEF Init, OneSaveInv, EnrolmentIsOfOneSave, OfOneSave, ConditionsOf, Idle, At
<1>2. OneSaveInv => EnrolmentIsOfOneSave
  BY DEF OneSaveInv
<1>. QED
  BY <1>1, <1>2, TypeCallCorrect, OneSaveInvStep, PTL DEF Spec

(* A task that has conditions never has none again. *)
LEMMA ConditionsStay ==
    ASSUME TypeOK, CallInv, [Next]_vars, NEW t \in Tasks, ConditionsOf(t) # {}
    PROVE  ConditionsOf(t)' # {}
<1>1. ASSUME NEW c \in Clients, ReplaceConditions(c),
             ConditionsOf(t)' = ConditionRows(t, call[c].save, call[c].content)
      PROVE  ConditionsOf(t)' # {}
  <2>1. call[c].content \in ValidContents
    BY <1>1 DEF ReplaceConditions, At, CallInv, CallOK
  <2>2. call[c].content.nos \in Seq(Nat) /\ call[c].content.nos # <<>>
    BY <2>1, ContentsAssumption DEF ValidContents, ValidateTaskInput
  <2>3. 1 \in DOMAIN call[c].content.nos
    BY <2>2
  <2>. QED
    BY <1>1, <2>3 DEF ConditionRows
<1>. QED
  BY <1>1, ConditionSteps

(* Nobody is enrolled in the same task again. *)
LEMMA EnrolmentStays ==
    ASSUME TypeOK, [Next]_vars, NEW u \in Users, NEW t \in Tasks, enrolled[u][t] # {}
    PROVE  enrolled'[u][t] = enrolled[u][t]
<1>1. ASSUME NEW c \in Clients, Enrolling(call[c]),
             ~DuplicateEnrolment(call[c].user, DOMAIN call[c].rows),
             enrolled' = [enrolled EXCEPT ![call[c].user] =
                             [q \in Tasks |-> IF q \in DOMAIN call[c].rows
                                              THEN call[c].rows[q] ELSE @[q]]]
      PROVE  enrolled'[u][t] = enrolled[u][t]
  <2>1. ~(u = call[c].user /\ t \in DOMAIN call[c].rows)
    BY <1>1 DEF DuplicateEnrolment
  <2>. QED
    BY <1>1, <2>1 DEF TypeOK
<1>. QED
  BY <1>1, EnrolledSteps

LEMMA SettledInvStep == TypeOK /\ CallInv /\ SettledInv /\ [Next]_vars => SettledInv'
<1>. SUFFICES ASSUME TypeOK, CallInv, SettledInv, [Next]_vars
              PROVE  SettledInv'
  OBVIOUS
<1>1. ASSUME NEW c \in Clients, At(c, "conditions")', NEW t \in call'[c].settled
      PROVE  Settled(t)'
  <2>1. t \in Tasks /\ Settled(t)
    BY <1>1, ListSteps, CallType DEF SettledInv, At
  <2>. QED
    BY <2>1, SettledStays
<1>2. ASSUME NEW c \in Clients, At(c, "enroll")', NEW t \in call'[c].settled
      PROVE  /\ Settled(t)'
             /\ call'[c].rows[t] = ConditionsOf(t)'
             /\ ConditionsOf(t)' # {}
  <2>1. CASE call'[c] = call[c]
    <3>1. At(c, "enroll") /\ t \in call[c].settled
      BY <1>2, <2>1 DEF At
    <3>2. t \in Tasks
      BY <3>1, CallType DEF Enrolling
    <3>3. Settled(t) /\ call[c].rows[t] = ConditionsOf(t) /\ ConditionsOf(t) # {}
      BY <3>1 DEF SettledInv
    <3>. QED
      BY <2>1, <3>2, <3>3, SettledStays
  <2>2. CASE call'[c] # call[c]
    <3>1. /\ At(c, "conditions") /\ call[c].settled \subseteq call[c].tasks
          /\ call'[c].settled = call[c].settled
          /\ call'[c].rows = [q \in call[c].tasks |-> ConditionsOf(q)]
          /\ \A q \in call[c].tasks : ConditionsOf(q) # {}
      BY <1>2, <2>2, LoadSteps
    <3>2. t \in Tasks /\ t \in call[c].tasks /\ Settled(t)
      BY <1>2, <3>1, CallType DEF SettledInv
    <3>. QED
      BY <3>1, <3>2, SettledStays
  <2>. QED
    BY <2>1, <2>2
<1>3. ASSUME NEW p \in settled'
      PROVE  /\ Settled(p[2])'
             /\ enrolled'[p[1]][p[2]] = ConditionsOf(p[2])'
             /\ ConditionsOf(p[2])' # {}
  <2>1. ASSUME p \in settled, enrolled'[p[1]][p[2]] = enrolled[p[1]][p[2]]
        PROVE  /\ Settled(p[2])'
               /\ enrolled'[p[1]][p[2]] = ConditionsOf(p[2])'
               /\ ConditionsOf(p[2])' # {}
    <3>1. p[2] \in Tasks
      BY <2>1 DEF TypeOK
    <3>. QED
      BY <2>1, <3>1, SettledStays DEF SettledInv
  <2>2. CASE UNCHANGED <<enrolled, settled>>
    BY <1>3, <2>1, <2>2
  <2>3. CASE ~UNCHANGED <<enrolled, settled>>
    <3>1. PICK c \in Clients :
            /\ At(c, "enroll") /\ Enrolling(call[c])
            /\ ~DuplicateEnrolment(call[c].user, DOMAIN call[c].rows)
            /\ enrolled' = [enrolled EXCEPT ![call[c].user] =
                               [q \in Tasks |-> IF q \in DOMAIN call[c].rows
                                                THEN call[c].rows[q] ELSE @[q]]]
            /\ settled' = settled \cup {<<call[c].user, q>> : q \in call[c].settled}
      BY <2>3, EnrolledSteps
    <3>2. CASE p \in settled
      <4>1. p[1] \in Users /\ p[2] \in Tasks
        BY <3>2 DEF TypeOK
      <4>2. enrolled[p[1]][p[2]] # {}
        BY <3>2 DEF SettledInv
      <4>. QED
        BY <2>1, <3>2, <4>1, <4>2, EnrolmentStays
    <3>3. CASE p \notin settled
      <4>1. PICK t \in call[c].settled : p = <<call[c].user, t>>
        BY <1>3, <3>1, <3>3
      <4>2. t \in DOMAIN call[c].rows /\ t \in Tasks /\ call[c].user \in Users
        BY <3>1 DEF Enrolling
      <4>3. enrolled'[call[c].user][t] = call[c].rows[t]
        BY <3>1, <4>2 DEF TypeOK
      <4>4. Settled(t) /\ call[c].rows[t] = ConditionsOf(t) /\ ConditionsOf(t) # {}
        BY <3>1 DEF SettledInv
      <4>5. Settled(t)' /\ ConditionsOf(t)' = ConditionsOf(t)
        BY <4>2, <4>4, SettledStays
      <4>. QED
        BY <4>1, <4>3, <4>4, <4>5
    <3>. QED
      BY <3>2, <3>3
  <2>. QED
    BY <2>2, <2>3
<1>. QED
  BY <1>1, <1>2, <1>3 DEF SettledInv

(* The conditions of an execution that was enrolled from a settled task are     *)
(* those of the task, for good.                                                 *)
THEOREM SettledEnrolmentKeepsItsConditionsCorrect ==
    Spec => []SettledEnrolmentKeepsItsConditions
<1>1. Init => SettledInv
  BY DEF Init, SettledInv, Idle, At
<1>2. SettledInv => SettledEnrolmentKeepsItsConditions
  BY DEF SettledInv, SettledEnrolmentKeepsItsConditions
<1>. QED
  BY <1>1, <1>2, TypeCallCorrect, SettledInvStep, PTL DEF Spec

--------------------------------------------------------------------------------
(* The expression and the conditions that are stored. *)

(* A call comes to replace the conditions of a task by writing its row. *)
LEMMA ReplaceSteps ==
    ASSUME TypeOK, [Next]_vars, NEW c \in Clients, NEW t \in Tasks, Replaces(c, t)'
    PROVE  \/ call'[c] = call[c]
           \/ SaveRow(c) /\ call[c].task = t /\ call'[c].content = call[c].content
           \/ InsertTask(c, t) /\ call'[c].content = call[c].content
<1>. SUFFICES ASSUME call'[c] # call[c]
              PROVE  \/ SaveRow(c) /\ call[c].task = t /\ call'[c].content = call[c].content
                     \/ InsertTask(c, t) /\ call'[c].content = call[c].content
  OBVIOUS
<1>1. \A local : Become(c, local) => call'[c] = local
  BY DEF Become, TypeOK
<1>2. call'[c].step = "replace" /\ call'[c].task = t
  BY DEF Replaces, At
<1>3. Request(c) \/ AdminStep(c) \/ EnrollStep(c) \/ CutShort(c)
  BY OthersStay DEF Next, vars
<1>4. ~Return(c)
  BY <1>1, <1>2 DEF Return, Idle
<1>5. ASSUME NEW u, NEW ts
      PROVE  ~Listed(c, u, ts)
  BY <1>1, <1>2 DEF Listed
<1>6. ~Request(c)
  <2>1. ASSUME NEW g \in Groups
        PROVE  ~SaveTaskGroup(c, g) /\ ~PublishTaskGroup(c, g) /\ ~CreateTaskGroup(c, g)
    BY <1>1, <1>2 DEF SaveTaskGroup, PublishTaskGroup, CreateTaskGroup
  <2>2. ASSUME NEW g \in Groups, NEW content \in Contents
        PROVE  ~CreateTask(c, g, content)
    BY <1>1, <1>2 DEF CreateTask
  <2>3. ASSUME NEW q \in Tasks
        PROVE  ~PublishTask(c, q) /\ \A content \in Contents : ~SaveTask(c, q, content)
    BY <1>1, <1>2 DEF PublishTask, SaveTask
  <2>4. ASSUME NEW u \in Users
        PROVE  /\ \A q \in Tasks : ~EnrollSingleTask(c, u, q)
               /\ \A g \in Groups : ~EnrollGroup(c, u, g)
    BY <1>1, <1>2, <1>5 DEF EnrollSingleTask, EnrollGroup
  <2>. QED
    BY <2>1, <2>2, <2>3, <2>4 DEF Request, EnrollTask
<1>7. ~CheckGroup(c)
  <2>. SUFFICES ASSUME CheckGroup(c)
                PROVE  FALSE
    OBVIOUS
  <2>1. call'[c] = [call[c] EXCEPT !.step = "save"] /\ call[c] \in Saving
    BY <1>1, <1>4, CallType DEF CheckGroup
  <2>. QED
    BY <1>2, <2>1 DEF Saving
<1>8. ~EnrollStep(c)
  <2>1. ~LoadConditions(c)
    BY <1>1, <1>2, <1>4 DEF LoadConditions
  <2>. QED
    BY <1>4, <1>5, <2>1 DEF EnrollStep, ListTasks, EnrollUserTasks
<1>9. SaveRow(c) => call[c].task = t /\ call'[c].content = call[c].content
  BY <1>1, <1>2 DEF SaveRow
<1>10. \A q \in Tasks : InsertTask(c, q) => q = t /\ call'[c].content = call[c].content
  BY <1>1, <1>2 DEF InsertTask
<1>. QED
  BY <1>3, <1>4, <1>6, <1>7, <1>8, <1>9, <1>10
  DEF AdminStep, SaveGroupRow, UpdateGroupStatus, ReplaceConditions, UpdateTaskStatus, CutShort

(* A call that is going to replace conditions does so next, or is cut short. *)
LEMMA ReplaceNext ==
    ASSUME TypeOK, [Next]_vars, NEW c \in Clients, NEW t \in Tasks, Replaces(c, t),
           faults' = faults
    PROVE  \/ call'[c] = call[c]
           \/ /\ ReplaceConditions(c) /\ call'[c] = Idle
              /\ \A d \in Clients \ {c} : call'[d] = call[d]
<1>. SUFFICES ASSUME call'[c] # call[c]
              PROVE  ReplaceConditions(c)
  BY ReturnType, OthersStay DEF AdminStep, ReplaceConditions
<1>1. Request(c) \/ AdminStep(c) \/ EnrollStep(c) \/ CutShort(c)
  BY OthersStay DEF Next, vars
<1>2. ~CutShort(c)
  BY SMT DEF CutShort, TypeOK
<1>3. call[c].step = "replace"
  BY DEF Replaces, At
<1>4. ~Request(c) /\ ~EnrollStep(c)
  BY <1>3
  DEF At, Request, EnrollTask, EnrollSingleTask, EnrollGroup, CreateTaskGroup, SaveTaskGroup,
      PublishTaskGroup, CreateTask, SaveTask, PublishTask, EnrollStep, ListTasks,
      LoadConditions, EnrollUserTasks
<1>. QED
  BY <1>1, <1>2, <1>3, <1>4
  DEF At, AdminStep, SaveGroupRow, UpdateGroupStatus, InsertTask, CheckGroup, SaveRow,
      UpdateTaskStatus

LEMMA CutShortIsCounted ==
    ASSUME TypeOK, [Next]_vars, faults' = 0
    PROVE  faults = 0
<1>1. ASSUME NEW c \in Clients, CutShort(c)
      PROVE  faults' = faults + 1
  BY <1>1 DEF CutShort
<1>2. ASSUME NEW c \in Clients, Request(c) \/ AdminStep(c) \/ EnrollStep(c)
      PROVE  faults' = faults
  BY <1>2
  DEF counts, Request, EnrollTask, EnrollSingleTask, EnrollGroup, CreateTaskGroup,
      SaveTaskGroup, PublishTaskGroup, CreateTask, SaveTask, PublishTask, AdminStep,
      SaveGroupRow, UpdateGroupStatus, InsertTask, CheckGroup, SaveRow, ReplaceConditions,
      UpdateTaskStatus, EnrollStep, ListTasks, LoadConditions, EnrollUserTasks
<1>3. faults \in Nat
  BY AdminAssumption, SMT DEF TypeOK
<1>. QED
  BY <1>1, <1>2, <1>3, SMT DEF Next, vars

LEMMA OverlappedStays ==
    ASSUME [Next]_vars
    PROVE  overlapped \subseteq overlapped'
<1>1. ASSUME NEW c \in Clients, SaveRow(c)
      PROVE  overlapped \subseteq overlapped'
  BY <1>1 DEF SaveRow
<1>2. ASSUME NEW c \in Clients, Request(c) \/ EnrollStep(c) \/ CutShort(c)
                                  \/ (AdminStep(c) /\ ~SaveRow(c))
      PROVE  UNCHANGED overlapped
  BY <1>2
  DEF history, Request, EnrollTask, EnrollSingleTask, EnrollGroup, CreateTaskGroup,
      SaveTaskGroup, PublishTaskGroup, CreateTask, SaveTask, PublishTask, AdminStep,
      SaveGroupRow, UpdateGroupStatus, InsertTask, CheckGroup, ReplaceConditions,
      UpdateTaskStatus, EnrollStep, ListTasks, LoadConditions, EnrollUserTasks, CutShort
<1>. QED
  BY <1>1, <1>2 DEF Next, vars

(* The numbers of the rows that a save makes are those of its body. *)
LEMMA NumbersOfRows ==
    ASSUME NEW t, NEW save, NEW content
    PROVE  {l.no : l \in ConditionRows(t, save, content)} = ConditionNos(content.nos)
<1>1. ASSUME NEW l \in ConditionRows(t, save, content)
      PROVE  l.no \in ConditionNos(content.nos)
  BY <1>1 DEF ConditionRows, ConditionNos
<1>2. ASSUME NEW i \in DOMAIN content.nos
      PROVE  \E l \in ConditionRows(t, save, content) :
                l.no = ResolveConditionNo(content.nos[i], i)
  <2>1. [task |-> t, save |-> save, at |-> i, no |-> ResolveConditionNo(content.nos[i], i)]
          \in ConditionRows(t, save, content)
    BY DEF ConditionRows
  <2>. QED
    BY <2>1
<1>. QED
  BY <1>1, <1>2 DEF ConditionNos

LEMMA StoredInvStep == TypeOK /\ CallInv /\ StoredInv /\ [Next]_vars => StoredInv'
<1>. SUFFICES ASSUME TypeOK, CallInv, StoredInv, [Next]_vars, faults' = 0,
                     NEW t \in Tasks, Exists(t)', t \notin overlapped'
              PROVE  /\ \A c, d \in Clients : Replaces(c, t)' /\ Replaces(d, t)' => c = d
                     /\ \A c \in Clients : Replaces(c, t)' => task'[t].expr = call'[c].content.expr
                     /\ (~ \E c \in Clients : Replaces(c, t)') => Consistent(t)'
  BY DEF StoredInv
<1>1. faults = 0 /\ faults' = faults /\ t \notin overlapped
  BY CutShortIsCounted, OverlappedStays
<1>2. ASSUME NEW c \in Clients, Replaces(c, t)',
             \A d \in Clients \ {c} : ~Replaces(d, t)', task'[t].expr = call'[c].content.expr
      PROVE  /\ \A d, e \in Clients : Replaces(d, t)' /\ Replaces(e, t)' => d = e
             /\ \A d \in Clients : Replaces(d, t)' => task'[t].expr = call'[d].content.expr
             /\ (~ \E d \in Clients : Replaces(d, t)') => Consistent(t)'
  BY <1>2
<1>3. ASSUME NEW c \in Clients, \A d \in Clients \ {c} : call'[d] = call[d] /\ ~Replaces(d, t)
      PROVE  \A d \in Clients \ {c} : ~Replaces(d, t)'
  BY <1>3 DEF Replaces, At
<1>4. CASE ~Exists(t)
  <2>1. PICK c \in Clients : InsertTask(c, t)
    BY <1>4, TaskCreated
  <2>2. \A d \in Clients \ {c} : call'[d] = call[d]
    BY <2>1, OthersStay DEF AdminStep
  <2>3. \A d \in Clients : ~Replaces(d, t)
    BY <1>4 DEF Replaces, At, CallInv, CallOK
  <2>4. call'[c] = [step |-> "replace", task |-> t, content |-> call[c].content,
                    save |-> call[c].save]
    BY <2>1 DEF InsertTask, Become, TypeOK
  <2>5. task'[t].expr = call[c].content.expr
    BY <2>1 DEF InsertTask, TypeOK
  <2>6. Replaces(c, t)' /\ call'[c].content = call[c].content
    BY <2>4 DEF Replaces, At
  <2>. QED
    BY <1>2, <1>3, <2>2, <2>3, <2>5, <2>6
<1>5. ASSUME Exists(t), NEW c \in Clients, SaveRow(c), call[c].task = t
      PROVE  /\ \A d, e \in Clients : Replaces(d, t)' /\ Replaces(e, t)' => d = e
             /\ \A d \in Clients : Replaces(d, t)' => task'[t].expr = call'[d].content.expr
             /\ (~ \E d \in Clients : Replaces(d, t)') => Consistent(t)'
  <2>1. \A d \in Clients \ {c} : call'[d] = call[d]
    BY <1>5, OthersStay DEF AdminStep
  <2>2. \A d \in Clients \ {c} : ~Replaces(d, t)
    <3>1. overlapped' = IF \E d \in Clients \ {c} : At(d, "replace") /\ call[d].task = t
                        THEN overlapped \cup {t} ELSE overlapped
      BY <1>5 DEF SaveRow
    <3>. QED
      BY <3>1 DEF Replaces
  <2>3. call'[c] = [step |-> "replace", task |-> t, content |-> call[c].content,
                    save |-> call[c].save]
    BY <1>5 DEF SaveRow, Become, TypeOK
  <2>4. task'[t].expr = call[c].content.expr
    <3>1. task'[t] = [call[c].row EXCEPT !.expr = call[c].content.expr]
      BY <1>5 DEF SaveRow, TypeOK
    <3>2. call[c].row \in [status : {"Draft", "Published"}, group : Groups,
                           expr : {k.expr : k \in Contents}]
      BY <1>5, CallType DEF SaveRow, Saving, TaskRow
    <3>. QED
      BY <3>1, <3>2
  <2>5. Replaces(c, t)' /\ call'[c].content = call[c].content
    BY <2>3 DEF Replaces, At
  <2>. QED
    BY <1>2, <1>3, <2>1, <2>2, <2>4, <2>5
<1>6. CASE Exists(t) /\ ~ \E c \in Clients : SaveRow(c) /\ call[c].task = t
  <2>1. task'[t].expr = task[t].expr
    <3>1. [task[t] EXCEPT !.status = "Published"].expr = task[t].expr
      BY <1>6, TaskType
    <3>. QED
      BY <1>6, <3>1, TaskSteps
  <2>2. ASSUME NEW c \in Clients, Replaces(c, t)'
        PROVE  call'[c] = call[c] /\ Replaces(c, t)
    <3>1. ~InsertTask(c, t)
      BY <1>6 DEF InsertTask
    <3>2. call'[c] = call[c]
      BY <1>6, <2>2, <3>1, ReplaceSteps
    <3>. QED
      BY <2>2, <3>2 DEF Replaces, At
  <2>3. /\ \A c, d \in Clients : Replaces(c, t) /\ Replaces(d, t) => c = d
        /\ \A c \in Clients : Replaces(c, t) => task[t].expr = call[c].content.expr
        /\ (~ \E c \in Clients : Replaces(c, t)) => Consistent(t)
    BY <1>1, <1>6 DEF StoredInv
  <2>4. ASSUME ~ \E c \in Clients : Replaces(c, t)
        PROVE  Consistent(t)'
    <3>1. ConditionsOf(t)' = ConditionsOf(t)
      BY <2>4, ConditionSteps DEF ReplaceConditions, Replaces
    <3>. QED
      BY <2>1, <2>3, <2>4, <3>1 DEF Consistent, ValidContents
  <2>5. ASSUME NEW c \in Clients, Replaces(c, t), ~Replaces(c, t)'
        PROVE  Consistent(t)'
    <3>1. ReplaceConditions(c)
      BY <1>1, <2>5, ReplaceNext DEF Replaces, At
    <3>2. ConditionsOf(t)' = ConditionRows(t, call[c].save, call[c].content)
      BY <2>5, <3>1, ReplacedConditions DEF Replaces
    <3>3. PICK k \in ValidContents : k = call[c].content
      BY <2>5 DEF Replaces, At, CallInv, CallOK
    <3>4. task'[t].expr = k.expr
      BY <2>1, <2>3, <2>5, <3>3
    <3>5. {l.no : l \in ConditionsOf(t)'} = ConditionNos(k.nos)
      BY <3>2, <3>3, NumbersOfRows
    <3>. QED
      BY <3>4, <3>5 DEF Consistent, ValidContents
  <2>. QED
    BY <2>1, <2>2, <2>3, <2>4, <2>5
<1>. QED
  BY <1>4, <1>5, <1>6

LEMMA StoredCorrect == Spec => []StoredInv
<1>1. Init => StoredInv
  BY DEF Init, StoredInv, Exists, NoTask
<1>. QED
  BY <1>1, TypeCallCorrect, StoredInvStep, PTL DEF Spec

(* Row and conditions are written by two statements.  Unless a call was cut     *)
(* short or two saves overlapped, what a task has stored once no call is going  *)
(* to replace its conditions is the expression and the numbers of one body that *)
(* ValidateTaskInput has accepted.                                              *)
StoredIsAccepted ==
    faults = 0 =>
        \A t \in Tasks : Exists(t) /\ t \notin overlapped =>
            (\E c \in Clients : Replaces(c, t)) \/ Consistent(t)

THEOREM StoredIsAcceptedCorrect == Spec => []StoredIsAccepted
<1>1. StoredInv => StoredIsAccepted
  BY DEF StoredInv, StoredIsAccepted
<1>. QED
  BY <1>1, StoredCorrect, PTL

LEMMA AcceptedCanBeUsed == StoredIsAccepted => StoredExpressionIsUsable
<1>1. ASSUME NEW t \in Tasks, Consistent(t)
      PROVE  <<task[t].expr, {k.no : k \in ConditionsOf(t)}>> \in UsableExpressions
  <2>1. PICK k \in ValidContents : /\ task[t].expr = k.expr
                                   /\ {l.no : l \in ConditionsOf(t)} = ConditionNos(k.nos)
    BY <1>1 DEF Consistent
  <2>2. k \in Contents /\ ValidateTaskExpression(k.expr, ConditionNos(k.nos))
    BY <2>1 DEF ValidContents, ValidateTaskInput
  <2>3. Usable(k.expr, ConditionNos(k.nos))
    BY <2>2, ContentsAssumption, AcceptedIsUsable
  <2>4. k.expr \in {l.expr : l \in Contents} /\ ConditionNos(k.nos) \in SUBSET Numbers
    BY <2>2 DEF Numbers
  <2>5. <<k.expr, ConditionNos(k.nos)>> \in UsableExpressions
    BY <2>3, <2>4 DEF UsableExpressions
  <2>. QED
    BY <2>1, <2>5
<1>. QED
  BY <1>1 DEF StoredIsAccepted, StoredExpressionIsUsable, Replaces

(* What is stored can be used: the order of the two statements of a save never  *)
(* separates an expression from the conditions it was accepted for, and what    *)
(* was accepted, run once with nothing completed, works whatever is completed.  *)
THEOREM StoredExpressionIsUsableCorrect == Spec => []StoredExpressionIsUsable
BY StoredIsAcceptedCorrect, AcceptedCanBeUsed, PTL
================================================================================
