------------------------- MODULE TaskProgressCountProofs ------------------------
(* Proofs about what TaskProgress counts: the completed tasks that a message    *)
(* announces, and the rows that an event reaches.                               *)
EXTENDS TaskProgressProofs, FiniteSetTheorems

(* The inductive invariant of the counts that are announced: one that is taken  *)
(* stays true until it is published, and after.                                 *)
CountInv ==
    /\ \A m \in announced : m.completed \in 1..Cardinality(CompletedInGroup(m.exec))
    /\ \A w \in Workers : pc[w] = "publish" =>
           seen[w] \in 1..Cardinality(CompletedInGroup(ExecOf(w)))

(* As long as nothing failed, whoever completed the last task of a group is yet *)
(* to count it, or has a count of all and is yet to publish it, or has done so. *)
CountsAll(x) ==
    \/ \E w \in Workers : pc[w] = "count" /\ SameGroup(ExecOf(w), x)
    \/ \E w \in Workers : /\ pc[w] = "publish" /\ SameGroup(ExecOf(w), x)
                          /\ seen[w] = Cardinality(CompletedInGroup(x))
    \/ \E m \in announced : /\ SameGroup(m.exec, x)
                            /\ m.completed = Cardinality(CompletedInGroup(x))

LastCountInv == faults = 0 => \A x \in Execs : exec[x] = "Complete" => CountsAll(x)

(* A worker may still fold its event into row r. *)
MayAdd(w, r) == Holds(w) /\ (pc[w] = "list" \/ r \in DOMAIN snap[w])

(* A business event that was folded into a row keeps its claim, and whoever     *)
(* holds its key is past the row.                                               *)
CountedInv ==
    \A r \in Rows : \A e \in Counted(r) : Keyed(e) /\ Key(e) \notin released =>
        /\ CountedOnce(r, e)
        /\ Key(e) \in claims
        /\ \A w \in Workers : MayAdd(w, r) => Key(ev[w]) # Key(e)

--------------------------------------------------------------------------------
(* The worker that takes a step leaves the snapshots and counts of the others   *)
(* alone.                                                                       *)
LocalsKept(w) == \A v \in Workers \ {w} : snap'[v] = snap[v] /\ seen'[v] = seen[v]

LEMMA StepKeepsLocals ==
    ASSUME TypeOK, NEW w \in Workers,
           Step(w) \/ Fail(w) \/ \E e \in Events : Deliver(w, e)
    PROVE  LocalsKept(w)
<1>1. ASSUME NEW f, NEW g, snap' = snap \/ snap' = [snap EXCEPT ![w] = f],
             seen' = seen \/ seen' = [seen EXCEPT ![w] = g]
      PROVE  LocalsKept(w)
  BY <1>1 DEF LocalsKept, TypeOK, ControlType, SnapType
<1>2. CASE Return(w)
  BY <1>1, <1>2 DEF Return
<1>3. CASE Abort(w)
  BY <1>1, <1>2, <1>3 DEF Abort
<1>4. ASSUME NEW rest, NextRow(w, rest)
      PROVE  LocalsKept(w)
  BY <1>1, <1>4 DEF NextRow
<1>5. ASSUME NEW r, ToExec(w, r)
      PROVE  LocalsKept(w)
  BY <1>1, <1>5 DEF ToExec
<1>6. CASE UNCHANGED <<snap, seen>>
  BY <1>6 DEF LocalsKept
<1>7. CASE TryClaim(w) \/ \E e \in Events : Deliver(w, e)
  BY <1>6, <1>7 DEF TryClaim, Deliver
<1>8. CASE ListInProgress(w)
  BY <1>1, <1>8 DEF ListInProgress
<1>9. ASSUME NEW r \in Rows, Process(w, r)
      PROVE  LocalsKept(w)
  <2>1. CASE SkipStale(w, r)
    BY <1>4, <2>1 DEF SkipStale
  <2>2. CASE RejectValue(w, r)
    BY <1>3, <2>2 DEF RejectValue
  <2>3. CASE UpdateCurrentValue(w, r) \/ MarkConditionComplete(w, r)
    <3>1. ToExec(w, r) \/ NextRow(w, DOMAIN snap[w] \ {r})
      BY <2>3 DEF UpdateCurrentValue, MarkConditionComplete, ToExec, AtRow, Goto
    <3>. QED
      BY <1>4, <1>5, <3>1
  <2>. QED
    BY <1>9, <2>1, <2>2, <2>3 DEF Process
<1>10. CASE Complete(w)
  <2>1. CASE CountCompleted(w)
    BY <1>1, <2>1 DEF CountCompleted
  <2>2. CASE ~CountCompleted(w)
    <3>1. NextRow(w, Rest(w)) \/ UNCHANGED <<snap, seen>>
      BY <1>10, <2>2
      DEF Complete, ReadExecution, EvaluateTask, CompleteExecution, ReloadExecution,
          PublishTaskCompleted
    <3>. QED
      BY <1>4, <1>6, <3>1
  <2>. QED
    BY <2>1, <2>2
<1>11. CASE Commit(w) \/ Release(w)
  BY <1>2, <1>11 DEF Commit, Release
<1>12. CASE Fail(w)
  BY <1>2, <1>3, <1>12
  DEF Fail, CommitFails, StatementFails, ReleaseFails, PublishFails, Crash
<1>. QED
  BY <1>7, <1>8, <1>9, <1>10, <1>11, <1>12 DEF Step

--------------------------------------------------------------------------------
(* The completed tasks of a group only become more. *)

LEMMA GroupType ==
    ASSUME NEW x \in Execs
    PROVE  /\ CompletedInGroup(x) \subseteq Execs
           /\ IsFiniteSet(CompletedInGroup(x))
           /\ Cardinality(CompletedInGroup(x)) \in Nat
<1>1. CompletedInGroup(x) \in SUBSET Execs
  BY DEF CompletedInGroup
<1>2. IsFiniteSet(Execs)
  BY ProgressAssumption
<1>3. IsFiniteSet(CompletedInGroup(x))
  BY <1>1, <1>2, FS_Subset
<1>. QED
  BY <1>1, <1>3, FS_CardinalityType

LEMMA GroupGrows ==
    ASSUME TypeOK, [Next]_vars, NEW x \in Execs
    PROVE  /\ CompletedInGroup(x) \subseteq CompletedInGroup(x)'
           /\ Cardinality(CompletedInGroup(x)) \in Nat
           /\ Cardinality(CompletedInGroup(x)') \in Nat
           /\ Cardinality(CompletedInGroup(x)) <= Cardinality(CompletedInGroup(x)')
<1>1. CompletedInGroup(x) \in SUBSET CompletedInGroup(x)'
  BY ExecNeverLeaves DEF CompletedInGroup
<1>2. CompletedInGroup(x)' \in SUBSET Execs /\ IsFiniteSet(Execs)
  BY ProgressAssumption DEF CompletedInGroup
<1>3. IsFiniteSet(CompletedInGroup(x)')
  BY <1>2, FS_Subset
<1>. QED
  BY <1>1, <1>3, GroupType, FS_Subset, FS_CardinalityType

LEMMA CountsItself ==
    ASSUME NEW x \in Execs, exec[x] = "Complete"
    PROVE  Cardinality(CompletedInGroup(x)) >= 1
<1>1. x \in CompletedInGroup(x)
  BY DEF CompletedInGroup
<1>2. Cardinality(CompletedInGroup(x)) # 0
  BY <1>1, GroupType, FS_EmptySet
<1>. QED
  BY <1>2, GroupType, SMT

(* A worker comes to publish by counting. *)
LEMMA PublishControl ==
    ASSUME TypeOK, [Next]_vars, NEW w \in Workers, pc'[w] = "publish"
    PROVE  \/ SameControl(w) /\ seen'[w] = seen[w]
           \/ /\ pc[w] = "count" /\ cur'[w] = cur[w]
              /\ seen'[w] = Cardinality(CompletedInGroup(ExecOf(w)))
              /\ UNCHANGED <<exec, announced, faults>>
<1>1. ASSUME NEW v \in Workers, v # w, OthersSame(v), LocalsKept(v)
      PROVE  SameControl(w) /\ seen'[w] = seen[w]
  BY <1>1 DEF OthersSame, LocalsKept
<1>2. CASE UNCHANGED vars \/ \E x \in Execs : EnrollTask(x)
  BY <1>2 DEF vars, EnrollTask, locals, SameControl
<1>3. ASSUME Step(w)
      PROVE  CountCompleted(w)
  <2>1. ASSUME NEW to \in Steps \ {"publish"}, Goto(w, to)
        PROVE  FALSE
    BY <2>1, SMT DEF Goto, TypeOK, ControlType
  <2>2. ~Return(w)
    BY <2>1 DEF Return, Steps
  <2>3. ~Abort(w)
    BY <2>1, <2>2 DEF Abort, Steps
  <2>4. ASSUME NEW rest
        PROVE  ~NextRow(w, rest)
    BY <2>1 DEF NextRow, Steps
  <2>. QED
    BY <1>3, <2>1, <2>2, <2>3, <2>4
    DEF Step, TryClaim, ListInProgress, Process, SkipStale, RejectValue,
        UpdateCurrentValue, MarkConditionComplete, Complete, ReadExecution, EvaluateTask,
        CompleteExecution, ReloadExecution, PublishTaskCompleted, Commit, Release, Steps,
        CompletionSteps
<1>4. ASSUME CountCompleted(w)
      PROVE  /\ pc[w] = "count" /\ cur'[w] = cur[w]
             /\ seen'[w] = Cardinality(CompletedInGroup(ExecOf(w)))
             /\ UNCHANGED <<exec, announced, faults>>
  BY <1>4 DEF CountCompleted, TypeOK, ControlType, db, broker
<1>. QED
  BY <1>1, <1>2, <1>3, <1>4, StepLeavesOthers, FailLeavesOthers, DeliverLeavesOthers,
     StepKeepsLocals
  DEF Next

LEMMA CountInvStep ==
    ASSUME TypeOK, CompletionInv, CountInv, [Next]_vars
    PROVE  CountInv'
<1>1. ASSUME NEW x \in Execs, NEW n \in 1..Cardinality(CompletedInGroup(x))
      PROVE  n \in 1..Cardinality(CompletedInGroup(x)')
  BY <1>1, GroupGrows, SMT
<1>2. ASSUME NEW w \in Workers, pc[w] = "publish", NEW x, x = ExecOf(w)
      PROVE  x \in Execs /\ seen[w] \in 1..Cardinality(CompletedInGroup(x)')
  <2>1. x \in Execs
    BY <1>2, ExecOfType DEF TypeOK, CompletionSteps
  <2>2. seen[w] \in 1..Cardinality(CompletedInGroup(x))
    BY <1>2 DEF CountInv
  <2>. QED
    BY <1>1, <2>1, <2>2
<1>3. ASSUME NEW m \in announced'
      PROVE  m.completed \in 1..Cardinality(CompletedInGroup(m.exec)')
  <2>1. CASE m \in announced
    <3>1. m.exec \in Execs
      BY <2>1 DEF TypeOK, StoreType
    <3>. QED
      BY <1>1, <2>1, <3>1 DEF CountInv
  <2>2. CASE m \notin announced
    <3>1. PICK w \in Workers : pc[w] = "publish" /\ m = Message(w)
      BY <1>3, <2>2, AnnouncementSteps
    <3>2. m.exec = ExecOf(w) /\ m.completed = seen[w]
      BY <3>1 DEF Message
    <3>. QED
      BY <1>2, <3>1, <3>2
  <2>. QED
    BY <2>1, <2>2
<1>4. ASSUME NEW w \in Workers, pc'[w] = "publish"
      PROVE  seen'[w] \in 1..Cardinality(CompletedInGroup(ExecOf(w))')
  <2>1. CASE SameControl(w) /\ seen'[w] = seen[w]
    <3>1. pc[w] = "publish"
      BY <1>4, <2>1 DEF SameControl
    <3>2. PICK x : x = ExecOf(w)
      OBVIOUS
    <3>3. CompletedInGroup(x)' = CompletedInGroup(ExecOf(w))'
      BY <2>1, <3>2 DEF SameControl, ExecOf, CompletedInGroup
    <3>. QED
      BY <1>2, <2>1, <3>1, <3>2, <3>3
  <2>2. CASE /\ pc[w] = "count" /\ cur'[w] = cur[w] /\ UNCHANGED exec
             /\ seen'[w] = Cardinality(CompletedInGroup(ExecOf(w)))
    <3>1. ExecOf(w) \in Execs /\ exec[ExecOf(w)] = "Complete"
      BY <2>2, ExecOfType DEF TypeOK, CompletionSteps, CompletionInv
    <3>2. CompletedInGroup(ExecOf(w))' = CompletedInGroup(ExecOf(w))
      BY <2>2 DEF CompletedInGroup, ExecOf
    <3>3. seen'[w] \in Nat /\ seen'[w] >= 1
      BY <2>2, <3>1, GroupType, CountsItself
    <3>. QED
      BY <2>2, <3>2, <3>3, SMT
  <2>. QED
    BY <1>4, <2>1, <2>2, PublishControl
<1>. QED
  BY <1>3, <1>4 DEF CountInv, CompletedInGroup, ExecOf

(* A message names a Complete execution, and the count it carries was true when *)
(* it was taken and is never more than the database shows later.                *)
THEOREM AnnouncementIsJustifiedCorrect == Spec => []AnnouncementIsJustified
<1>1. Init => CountInv
  BY DEF Init, CountInv
<1>2. CompletionInv /\ CountInv => AnnouncementIsJustified
  BY DEF CompletionInv, CountInv, AnnouncementIsJustified
<1>. QED
  BY <1>1, <1>2, CountInvStep, TypeCorrect, CompletionInvCorrect, PTL DEF Spec

--------------------------------------------------------------------------------
(* The last count of a group. *)

LEMMA SameGroupSame ==
    ASSUME NEW x, NEW y, SameGroup(x, y)
    PROVE  CompletedInGroup(x) = CompletedInGroup(y)
BY DEF SameGroup, CompletedInGroup

(* Between two steps at which nobody in the group of x begins to count, the     *)
(* group has the same completed tasks.                                          *)
LEMMA GroupSteps ==
    ASSUME TypeOK, [Next]_vars, NEW x \in Execs
    PROVE  \/ /\ CompletedInGroup(x)' = CompletedInGroup(x)
              /\ exec'[x] = "Complete" => exec[x] = "Complete"
           \/ \E w \in Workers : pc'[w] = "count" /\ SameGroup(ExecOf(w)', x)
<1>1. CASE UNCHANGED exec
  BY <1>1 DEF CompletedInGroup
<1>2. ASSUME NEW y \in Execs, EnrollTask(y)
      PROVE  /\ CompletedInGroup(x)' = CompletedInGroup(x)
             /\ exec'[x] = "Complete" => exec[x] = "Complete"
  <2>1. \A z \in Execs : exec'[z] = "Complete" <=> exec[z] = "Complete"
    BY <1>2, SMT DEF EnrollTask, TypeOK, StoreType
  <2>. QED
    BY <2>1 DEF CompletedInGroup
<1>3. ASSUME NEW w \in Workers, CompleteExecution(w)
      PROVE  \/ /\ CompletedInGroup(x)' = CompletedInGroup(x)
                /\ exec'[x] = "Complete" => exec[x] = "Complete"
             \/ pc'[w] = "count" /\ SameGroup(ExecOf(w)', x)
  <2>1. CASE exec[ExecOf(w)] = "InProgress"
    <3>1. /\ exec' = [exec EXCEPT ![ExecOf(w)] = "Complete"]
          /\ Goto(w, "count") /\ UNCHANGED <<ev, cur>>
      BY <1>3, <2>1 DEF CompleteExecution
    <3>2. pc'[w] = "count" /\ ExecOf(w)' = ExecOf(w)
      BY <3>1, GotoControl DEF TypeOK, ExecOf
    <3>3. CASE SameGroup(ExecOf(w), x)
      BY <3>2, <3>3
    <3>4. CASE ~SameGroup(ExecOf(w), x)
      <4>1. \A z \in Execs \ {ExecOf(w)} : exec'[z] = exec[z]
        BY <3>1 DEF TypeOK, StoreType
      <4>2. \A z \in Execs : SameGroup(z, x) => exec'[z] = exec[z]
        BY <3>4, <4>1
      <4>. QED
        BY <4>2 DEF CompletedInGroup, SameGroup
    <3>. QED
      BY <3>3, <3>4
  <2>2. CASE exec[ExecOf(w)] # "InProgress"
    BY <1>3, <2>2 DEF CompleteExecution, CompletedInGroup
  <2>. QED
    BY <2>1, <2>2
<1>. QED
  BY <1>1, <1>2, <1>3, ExecSteps

LEMMA LastCountStep ==
    ASSUME TypeOK, LastCountInv, [Next]_vars
    PROVE  LastCountInv'
<1>. SUFFICES ASSUME faults' = 0, NEW x \in Execs, exec'[x] = "Complete"
              PROVE  CountsAll(x)'
  BY DEF LastCountInv
<1>. DEFINE n == Cardinality(CompletedInGroup(x))
<1>1. CASE \E w \in Workers : pc'[w] = "count" /\ SameGroup(ExecOf(w)', x)
  BY <1>1 DEF CountsAll, SameGroup, ExecOf
<1>2. CASE /\ CompletedInGroup(x)' = CompletedInGroup(x)
           /\ exec'[x] = "Complete" => exec[x] = "Complete"
  <2>1. n' = n /\ CountsAll(x)
    BY <1>2, NoFaultStep DEF LastCountInv
  <2>2. ASSUME NEW w \in Workers, pc[w] = "count", SameGroup(ExecOf(w), x)
        PROVE  CountsAll(x)'
    <3>1. SameControl(w) \/ CountCompleted(w)
      BY <2>2, CompletionProceeds
      DEF CompletionSteps, Complete, ReadExecution, EvaluateTask, CompleteExecution,
          ReloadExecution, PublishTaskCompleted
    <3>2. CASE SameControl(w)
      BY <2>2, <3>2 DEF CountsAll, SameControl, ExecOf
    <3>3. CASE CountCompleted(w)
      <4>1. pc'[w] = "publish" /\ cur'[w] = cur[w]
        BY <3>3, GotoControl DEF CountCompleted, TypeOK
      <4>2. seen'[w] = Cardinality(CompletedInGroup(ExecOf(w)))
        BY <3>3 DEF CountCompleted, TypeOK, ControlType
      <4>3. seen'[w] = n'
        BY <2>1, <2>2, <4>2, SameGroupSame
      <4>. QED
        BY <2>2, <4>1, <4>3 DEF CountsAll, ExecOf
    <3>. QED
      BY <3>1, <3>2, <3>3
  <2>3. ASSUME NEW w \in Workers, pc[w] = "publish", SameGroup(ExecOf(w), x), seen[w] = n
        PROVE  CountsAll(x)'
    <3>1. SameControl(w) \/ PublishTaskCompleted(w)
      BY <2>3, CompletionProceeds
      DEF CompletionSteps, Complete, ReadExecution, EvaluateTask, CompleteExecution,
          ReloadExecution, CountCompleted
    <3>2. CASE SameControl(w)
      <4>1. pc'[w] = "publish" /\ cur'[w] = cur[w]
        BY <2>3, <3>2 DEF SameControl
      <4>2. seen'[w] = seen[w]
        BY <2>3, <4>1, PublishControl
      <4>. QED
        BY <2>1, <2>3, <4>1, <4>2 DEF CountsAll, ExecOf
    <3>3. CASE PublishTaskCompleted(w)
      <4>1. Message(w) \in announced'
        BY <3>3 DEF PublishTaskCompleted
      <4>2. Message(w).exec = ExecOf(w) /\ Message(w).completed = n'
        BY <2>1, <2>3 DEF Message
      <4>. QED
        BY <2>3, <4>1, <4>2 DEF CountsAll
    <3>. QED
      BY <3>1, <3>2, <3>3
  <2>4. ASSUME NEW m \in announced, SameGroup(m.exec, x), m.completed = n
        PROVE  CountsAll(x)'
    BY <2>1, <2>4, AnnouncedStays DEF CountsAll
  <2>. QED
    BY <2>1, <2>2, <2>3, <2>4 DEF CountsAll
<1>. QED
  BY <1>1, <1>2, GroupSteps

(* As long as nothing failed, some message carries the count of all completed   *)
(* tasks of a group once the workers that complete tasks of it are done.        *)
THEOREM LastAnnouncementCountsAllCorrect == Spec => []LastAnnouncementCountsAll
<1>1. Init => LastCountInv
  BY DEF Init, LastCountInv
<1>2. LastCountInv => LastAnnouncementCountsAll
  BY DEF LastCountInv, CountsAll, LastAnnouncementCountsAll
<1>. QED
  BY <1>1, <1>2, LastCountStep, TypeCorrect, PTL DEF Spec

--------------------------------------------------------------------------------
(* An event reaches a row once.                                                 *)

(* An event is folded into a row by the update of a worker that handles it.     *)
Folded(w, r) ==
    /\ AtRow(w, r)
    /\ ToExec(w, r)
    /\ added' = [added EXCEPT ![r][ev[w]] = @ + 1]
    /\ UNCHANGED <<claims, released>>

LEMMA AddedSteps ==
    ASSUME TypeOK, [Next]_vars
    PROVE  \/ UNCHANGED added
           \/ \E w \in Workers, r \in Rows : Folded(w, r)
<1>. USE DEF history
<1>1. ASSUME NEW w \in Workers, NEW r \in Rows, Process(w, r)
      PROVE  UNCHANGED added \/ Folded(w, r)
  <2>1. CASE UpdateCurrentValue(w, r)
    <3>1. ToExec(w, r)
      BY <2>1 DEF UpdateCurrentValue, ToExec, AtRow, Goto
    <3>. QED
      BY <2>1, <3>1 DEF UpdateCurrentValue, UpdateRow, Folded
  <2>2. CASE MarkConditionComplete(w, r)
    <3>1. CanUpdate(r, EventInfo[ev[w]].time) => ToExec(w, r)
      BY <2>2 DEF MarkConditionComplete, ToExec, AtRow, Goto
    <3>. QED
      BY <2>2, <3>1 DEF MarkConditionComplete, UpdateRow, Folded
  <2>. QED
    BY <1>1, <2>1, <2>2 DEF Process, SkipStale, RejectValue
<1>2. ASSUME NEW w \in Workers, Step(w), ~ \E r \in Rows : Process(w, r)
      PROVE  UNCHANGED added
  BY <1>2
  DEF Step, TryClaim, ListInProgress, Complete, ReadExecution, EvaluateTask,
      CompleteExecution, ReloadExecution, CountCompleted, PublishTaskCompleted,
      Commit, Release
<1>3. ASSUME NEW w \in Workers, Fail(w)
      PROVE  UNCHANGED added
  BY <1>3 DEF Fail, CommitFails, StatementFails, ReleaseFails, PublishFails, Crash
<1>. QED
  BY <1>1, <1>2, <1>3 DEF Next, vars, Deliver, EnrollTask

(* A claim that was ever given back stays known as such, and a claim that goes  *)
(* away was given back.                                                         *)
LEMMA ReleasedSteps ==
    ASSUME TypeOK, [Next]_vars
    PROVE  /\ released \subseteq released'
           /\ claims \subseteq claims' \cup released'
<1>. USE DEF db, history
<1>1. ASSUME NEW w \in Workers, Step(w)
      PROVE  released \subseteq released' /\ claims \subseteq claims' \cup released'
  BY <1>1
  DEF Step, TryClaim, ListInProgress, Complete, ReadExecution, EvaluateTask, Process,
      SkipStale, RejectValue, UpdateCurrentValue, MarkConditionComplete,
      CompleteExecution, ReloadExecution, CountCompleted, PublishTaskCompleted, Commit,
      Release
<1>2. ASSUME NEW w \in Workers, Fail(w)
      PROVE  UNCHANGED <<claims, released>>
  BY <1>2 DEF Fail, CommitFails, StatementFails, ReleaseFails, PublishFails, Crash
<1>. QED
  BY <1>1, <1>2 DEF Next, vars, Deliver, EnrollTask

(* A worker comes to list the rows of a key by claiming it, and to a row by     *)
(* listing it.                                                                  *)
LEMMA PendingSteps ==
    ASSUME TypeOK, [Next]_vars, NEW w \in Workers, NEW r \in Rows, MayAdd(w, r)'
    PROVE  /\ ev'[w] = ev[w]
           /\ MayAdd(w, r) \/ (TryClaim(w) /\ Key(ev[w]) \notin claims)
<1>. DEFINE Goal == Holds(w) => pc[w] = "list" \/ r \in DOMAIN snap[w]
<1>. SUFFICES Goal
  BY HoldSteps DEF MayAdd
<1>1. Holds(w)' /\ (pc'[w] = "list" \/ r \in DOMAIN snap'[w])
  BY DEF MayAdd
<1>2. ASSUME NEW v \in Workers, v # w, OthersSame(v), LocalsKept(v)
      PROVE  Goal
  BY <1>1, <1>2 DEF OthersSame, SameControl, LocalsKept
<1>3. CASE UNCHANGED vars \/ \E x \in Execs : EnrollTask(x)
  BY <1>1, <1>3 DEF vars, EnrollTask, locals
<1>4. CASE Return(w)
  BY <1>1, <1>4, ReturnControl DEF Holds, CompletionSteps, TypeOK
<1>5. CASE Abort(w) /\ pc[w] # "idle"
  <2>1. pc'[w] = "release"
    BY <1>1, <1>5, AbortControl DEF Holds, CompletionSteps, TypeOK
  <2>2. DOMAIN snap'[w] = {}
    BY <1>5, <2>1, AbortType DEF TypeOK, SnapType, CompletionSteps
  <2>. QED
    BY <1>1, <2>1, <2>2
<1>6. ASSUME NEW rest \in SUBSET DOMAIN snap[w], NextRow(w, rest)
      PROVE  Goal
  <2>1. pc'[w] # "list"
    BY <1>6, NextRowControl DEF TypeOK
  <2>2. snap'[w] = Restrict(snap[w], rest)
    BY <1>6 DEF NextRow, TypeOK, SnapType
  <2>. QED
    BY <1>1, <2>1, <2>2 DEF Restrict
<1>7. ASSUME NEW q \in Rows, ToExec(w, q)
      PROVE  Goal
  <2>1. pc'[w] # "list"
    BY <1>7, ToExecControl DEF TypeOK
  <2>2. snap'[w] = Restrict(snap[w], DOMAIN snap[w] \ {q})
    BY <1>7 DEF ToExec, TypeOK, SnapType
  <2>. QED
    BY <1>1, <2>1, <2>2 DEF Restrict
<1>8. ASSUME UNCHANGED snap, pc'[w] # "list"
      PROVE  Goal
  BY <1>1, <1>8
<1>9. CASE TryClaim(w) \/ \E e \in Events : Deliver(w, e)
  BY <1>9 DEF TryClaim, Deliver, Holds, CompletionSteps
<1>10. CASE ListInProgress(w)
  BY <1>10 DEF ListInProgress
<1>11. ASSUME NEW q \in Rows, Process(w, q)
       PROVE  Goal
  <2>1. CASE SkipStale(w, q)
    BY <1>6, <2>1 DEF SkipStale
  <2>2. CASE RejectValue(w, q)
    BY <1>5, <2>2 DEF RejectValue, AtRow
  <2>3. CASE UpdateCurrentValue(w, q) \/ MarkConditionComplete(w, q)
    <3>1. ToExec(w, q) \/ NextRow(w, DOMAIN snap[w] \ {q})
      BY <2>3 DEF UpdateCurrentValue, MarkConditionComplete, ToExec, AtRow, Goto
    <3>. QED
      BY <1>6, <1>7, <3>1
  <2>. QED
    BY <1>11, <2>1, <2>2, <2>3 DEF Process
<1>12. CASE Complete(w)
  <2>1. \/ NextRow(w, Rest(w))
        \/ \E to \in CompletionSteps : Goto(w, to) /\ UNCHANGED <<ev, cur, snap>>
    BY <1>12
    DEF Complete, ReadExecution, EvaluateTask, CompleteExecution, ReloadExecution,
        CountCompleted, PublishTaskCompleted, CompletionSteps
  <2>2. ASSUME NEW to \in CompletionSteps, Goto(w, to), UNCHANGED <<ev, cur, snap>>
        PROVE  Goal
    BY <1>8, <2>2, GotoControl DEF TypeOK, CompletionSteps
  <2>. QED
    BY <1>6, <2>1, <2>2 DEF Rest
<1>13. CASE Fail(w)
  BY <1>4, <1>5, <1>13
  DEF Fail, CommitFails, StatementFails, ReleaseFails, PublishFails, Crash
<1>. HIDE DEF Goal
<1>14. Step(w) => Goal
  BY <1>4, <1>9, <1>10, <1>11, <1>12 DEF Step, Commit, Release
<1>. QED
  BY <1>2, <1>3, <1>9, <1>13, <1>14, StepLeavesOthers, FailLeavesOthers,
     DeliverLeavesOthers, StepKeepsLocals
  DEF Next

LEMMA CountedInvStep ==
    ASSUME TypeOK, ClaimInv, CountedInv, [Next]_vars
    PROVE  CountedInv'
<1>. SUFFICES ASSUME NEW r \in Rows, NEW e \in Counted(r)', Keyed(e), Key(e) \notin released'
              PROVE  /\ CountedOnce(r, e)'
                     /\ Key(e) \in claims'
                     /\ \A w \in Workers : MayAdd(w, r)' => Key(ev'[w]) # Key(e)
  BY DEF CountedInv, Keyed, Key
<1>1. e \in Events /\ Key(e) \notin released
  BY ReleasedSteps DEF Counted
<1>2. ASSUME Counted(r)' = Counted(r), added'[r][e] = added[r][e]
      PROVE  /\ CountedOnce(r, e)'
             /\ Key(e) \in claims'
             /\ \A w \in Workers : MayAdd(w, r)' => Key(ev'[w]) # Key(e)
  <2>1. /\ CountedOnce(r, e) /\ Key(e) \in claims
        /\ \A w \in Workers : MayAdd(w, r) => Key(ev[w]) # Key(e)
    BY <1>1, <1>2 DEF CountedInv
  <2>2. CountedOnce(r, e)'
    BY <1>2, <2>1 DEF CountedOnce
  <2>3. Key(e) \in claims'
    BY <2>1, ReleasedSteps
  <2>4. ASSUME NEW w \in Workers, MayAdd(w, r)'
        PROVE  Key(ev'[w]) # Key(e)
    BY <2>1, <2>4, PendingSteps
  <2>. QED
    BY <2>2, <2>3, <2>4
<1>3. CASE UNCHANGED added
  BY <1>2, <1>3 DEF Counted
<1>4. ASSUME NEW w \in Workers, NEW q \in Rows, Folded(w, q)
      PROVE  /\ CountedOnce(r, e)'
             /\ Key(e) \in claims'
             /\ \A v \in Workers : MayAdd(v, r)' => Key(ev'[v]) # Key(e)
  <2>. DEFINE f == ev[w]
  <2>1. /\ pc[w] = "row" /\ q \in DOMAIN snap[w] /\ f \in Events
        /\ added' = [added EXCEPT ![q][f] = @ + 1]
        /\ UNCHANGED <<claims, released>>
    BY <1>4 DEF Folded, AtRow, TypeOK, ControlType
  <2>2. CASE q # r
    <3>1. added'[r] = added[r]
      BY <2>1, <2>2 DEF TypeOK, StoreType
    <3>. QED
      BY <1>2, <3>1 DEF Counted
  <2>3. CASE q = r
    <3>1. /\ added'[r][f] = added[r][f] + 1
          /\ \A g \in Events \ {f} : added'[r][g] = added[r][g]
      BY <2>1, <2>3 DEF TypeOK, StoreType
    <3>2. Counted(r)' = Counted(r) \cup {f}
      <4>1. added[r][f] \in Nat
        BY <2>1 DEF TypeOK, StoreType
      <4>2. added'[r][f] > 0
        BY <3>1, <4>1, SMT
      <4>. QED
        BY <2>1, <3>1, <4>2 DEF Counted
    <3>3. CASE Key(e) = Key(f)
      <4>1. Holds(w) /\ MayAdd(w, r)
        BY <2>1, <2>3, <3>3 DEF Holds, MayAdd, Keyed, Key
      <4>2. ASSUME NEW g \in Counted(r)
            PROVE  Key(g) # Key(f)
        <5>1. Key(g) = Key(f) => Keyed(g) /\ Key(g) \notin released
          BY <1>1, <3>3 DEF Keyed, Key
        <5>. QED
          BY <4>1, <5>1 DEF CountedInv
      <4>3. e = f /\ f \notin Counted(r)
        BY <3>2, <3>3, <4>2
      <4>4. added'[r][f] = 1
        <5>1. added[r][f] \in Nat /\ ~(added[r][f] > 0)
          BY <2>1, <4>3 DEF TypeOK, StoreType, Counted
        <5>. QED
          BY <3>1, <5>1, SMT
      <4>5. CountedOnce(r, e)'
        BY <3>2, <4>2, <4>3, <4>4 DEF CountedOnce
      <4>6. Key(e) \in claims'
        BY <2>1, <3>3, <4>1 DEF ClaimInv
      <4>7. ASSUME NEW v \in Workers, MayAdd(v, r)', Key(ev'[v]) = Key(e)
            PROVE  FALSE
        <5>1. ev'[v] = ev[v] /\ (Holds(v) \/ (TryClaim(v) /\ Key(ev[v]) \notin claims))
          BY <4>7, PendingSteps DEF MayAdd
        <5>2. Holds(v)
          BY <2>1, <4>6, <4>7, <5>1
        <5>3. v = w
          BY <3>3, <4>1, <4>7, <5>1, <5>2 DEF ClaimInv, ClaimIsExclusive
        <5>4. pc'[w] = "exec"
          BY <1>4, ToExecControl DEF Folded, TypeOK
        <5>5. snap'[w] = Restrict(snap[w], DOMAIN snap[w] \ {r})
          BY <1>4, <2>3 DEF Folded, ToExec, TypeOK, SnapType
        <5>6. r \notin DOMAIN snap'[w]
          BY <5>5 DEF Restrict
        <5>. QED
          BY <4>7, <5>3, <5>4, <5>6 DEF MayAdd
      <4>. QED
        BY <4>5, <4>6, <4>7
    <3>4. CASE Key(e) # Key(f)
      <4>1. e # f /\ e \in Counted(r) /\ added'[r][e] = added[r][e]
        BY <1>1, <3>1, <3>2, <3>4
      <4>2. /\ CountedOnce(r, e) /\ Key(e) \in claims
            /\ \A v \in Workers : MayAdd(v, r) => Key(ev[v]) # Key(e)
        BY <1>1, <4>1 DEF CountedInv
      <4>3. CountedOnce(r, e)'
        BY <3>2, <3>4, <4>1, <4>2 DEF CountedOnce
      <4>4. ASSUME NEW v \in Workers, MayAdd(v, r)'
            PROVE  Key(ev'[v]) # Key(e)
        BY <4>2, <4>4, PendingSteps
      <4>. QED
        BY <2>1, <4>2, <4>3, <4>4
    <3>. QED
      BY <3>3, <3>4
  <2>. QED
    BY <2>2, <2>3
<1>. QED
  BY <1>3, <1>4, AddedSteps

(* A business event reaches a row at most once, in whatever records and however *)
(* often it is delivered, unless an error made the service release its claim.   *)
THEOREM CountedOnceUnlessReleasedCorrect == Spec => []CountedOnceUnlessReleased
<1>1. Init => CountedInv
  <2>1. ASSUME Init, NEW r \in Rows, NEW e \in Events
        PROVE  ~(added[r][e] > 0)
    BY <2>1, SMT DEF Init
  <2>. QED
    BY <2>1 DEF CountedInv, Counted
<1>2. CountedInv => CountedOnceUnlessReleased
  BY DEF CountedInv, CountedOnceUnlessReleased
<1>. QED
  BY <1>1, <1>2, CountedInvStep, TypeCorrect, ClaimInvCorrect, PTL DEF Spec
================================================================================
