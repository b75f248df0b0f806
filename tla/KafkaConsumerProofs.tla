--------------------------- MODULE KafkaConsumerProofs --------------------------
(* Proofs about KafkaConsumer, for every group of members, every log and every  *)
(* kind and number of faults.                                                   *)
EXTENDS KafkaConsumer, TLAPS

(* Records, and the updates that their handlers make. *)
LEMMA RecordType ==
    ASSUME NEW r \in Records
    PROVE  /\ r \in Partitions \X Offsets
           /\ r[1] \in Partitions /\ r[2] \in Nat /\ r[2] >= 1 /\ r[2] <= Len(Log[r[1]])
           /\ r # NoRecord /\ r = <<r[1], r[2]>>
<1>1. r \in Partitions \X Offsets /\ r[2] \in 1..Len(Log[r[1]])
  BY DEF Records
<1>2. r[1] \in Partitions /\ r[2] \in Offsets /\ r = <<r[1], r[2]>>
  BY <1>1, SMT
<1>3. Log[r[1]] \in Seq(Kinds)
  BY <1>2, ConsumerAssumption
<1>4. Len(Log[r[1]]) \in Nat
  BY <1>3
<1>5. r[2] \in Nat /\ r[2] >= 1 /\ r[2] <= Len(Log[r[1]])
  BY <1>1, <1>4, SMT
<1>6. r # NoRecord
  <2>1. r \in Partitions \X Nat
    BY <1>1, <1>5, SMT
  <2>. QED
    BY <2>1, ConsumerAssumption
<1>. QED
  BY <1>1, <1>2, <1>5, <1>6

LEMMA UpdatesType ==
    ASSUME NEW r
    PROVE  Updates(r) \in Seq(Metrics)
<1>1. OrderUpdates \in Seq(Metrics)
  BY SMT DEF OrderUpdates, Metrics
<1>2. DepositUpdates \in Seq(Metrics)
  BY SMT DEF DepositUpdates, Metrics
<1>3. KycUpdates \in Seq(Metrics)
  BY SMT DEF KycUpdates, Metrics
<1>4. PaymentMethodUpdates \in Seq(Metrics)
  BY SMT DEF PaymentMethodUpdates, Metrics
<1>5. <<>> \in Seq(Metrics)
  BY SMT
<1>. QED
  BY <1>1, <1>2, <1>3, <1>4, <1>5 DEF Updates

LEMMA OffsetsType == Offsets \subseteq Nat
<1>. SUFFICES ASSUME NEW p \in Partitions, NEW n \in 0..Len(Log[p])
              PROVE  n \in Nat
  BY DEF Offsets
<1>1. Log[p] \in Seq(Kinds)
  BY ConsumerAssumption
<1>2. Len(Log[p]) \in Nat
  BY <1>1
<1>. QED
  BY <1>2, SMT

--------------------------------------------------------------------------------
(* Types. *)

LEMMA InitTypeOK == Init => TypeOK
<1>. SUFFICES ASSUME Init
              PROVE  TypeOK
  OBVIOUS
<1>1. 0 \in 0..MaxFaults
  BY ConsumerAssumption, SMT
<1>. QED
  BY <1>1, SMT DEF Init, TypeOK, Updating

LEMMA FaultType ==
    ASSUME TypeOK, NEW kind, Fault(kind)
    PROVE  faults' \in 0..MaxFaults
BY ConsumerAssumption, SMT DEF TypeOK, Fault

(* A member comes to its next record, or to its next poll. *)
LEMMA NextRecordType ==
    ASSUME TypeOK, NEW m \in up, NEW left \in SUBSET Records, NextRecord(m, left)
    PROVE  /\ batch' \in [Members -> SUBSET Records]
           /\ current' \in [Members -> Records \cup {NoRecord}]
           /\ todo' \in [Members -> Seq(Metrics)]
           /\ pc' \in [Members -> {"poll", "record", "handler", "update", "release", "commit"}]
           /\ \A n \in Members :
                /\ n \notin up => pc'[n] = "poll"
                /\ pc'[n] \in {"handler", "update", "release", "commit"}
                        <=> current'[n] # NoRecord
                /\ Updating(n)' => todo'[n] # <<>>
                /\ pc'[n] = "poll" => batch'[n] = {}
<1>1. <<>> \in Seq(Metrics) /\ m \in Members
  BY DEF TypeOK
<1>. QED
  BY <1>1, SMT DEF TypeOK, NextRecord, Updating

LEMMA FetchesType ==
    ASSUME TypeOK, NEW m \in Members, NEW upto \in Fetches(m)
    PROVE  /\ upto \in [Partitions -> Nat]
           /\ Polled(m, upto) \subseteq Records
<1>1. upto \in [Partitions -> Offsets]
  BY DEF Fetches
<1>2. upto \in [Partitions -> Nat]
  BY <1>1, OffsetsType
<1>3. Polled(m, upto) \subseteq Records
  BY DEF Polled
<1>. QED
  BY <1>2, <1>3

(* A metric is added to those of a record. *)
LEMMA WithType ==
    ASSUME NEW f \in [Records -> SUBSET Metrics], NEW r \in Records, NEW metric \in Metrics
    PROVE  /\ With(f, r, metric) \in [Records -> SUBSET Metrics]
           /\ With(f, r, metric)[r] = f[r] \cup {metric}
           /\ \A s \in Records \ {r} : With(f, r, metric)[s] = f[s]
BY DEF With

(* What a member has that is in its handler. *)
LEMMA HandlerType ==
    ASSUME TypeOK, NEW m \in Members, NextUpdate(m) \/ Updating(m)
    PROVE  /\ m \in up /\ current[m] \in Records /\ batch[m] \in SUBSET Records
           /\ todo[m] \in Seq(Metrics) /\ todo[m] # <<>>
           /\ Head(todo[m]) \in Metrics /\ Tail(todo[m]) \in Seq(Metrics)
<1>1. /\ m \in up /\ current[m] \in Records /\ batch[m] \in SUBSET Records
      /\ todo[m] \in Seq(Metrics) /\ todo[m] # <<>>
  BY DEF TypeOK, NextUpdate, Updating
<1>. QED
  BY <1>1, SMT

LEMMA NextTypeOK == TypeOK /\ [Next]_vars => TypeOK'
<1>. SUFFICES ASSUME TypeOK, [Next]_vars
              PROVE  TypeOK'
  OBVIOUS
<1>. USE DEF group, shared, locals, missed, returns, history
<1>1. ASSUME NEW m \in Members, Start(m)
      PROVE  TypeOK'
  <2>1. faults' \in 0..MaxFaults
    BY <1>1, FaultType DEF Start, TypeOK
  <2>. QED
    BY <1>1, <2>1, SMT DEF Start, TypeOK, Updating
<1>2. ASSUME NEW m \in Members, RefreshCache(m)
      PROVE  TypeOK'
  BY <1>2 DEF RefreshCache, TypeOK, Updating
<1>3. ASSUME NEW m \in Members, Stop(m)
      PROVE  TypeOK'
  <2>1. faults' \in 0..MaxFaults /\ <<>> \in Seq(Metrics)
    BY <1>3, FaultType DEF Stop
  <2>2. owner' \in [Partitions -> up' \cup {Nobody}]
    BY <1>3, SMT DEF Stop, TypeOK
  <2>3. abandoned' \in [Records -> SUBSET Metrics]
    BY <1>3, HandlerType, WithType DEF Stop, TypeOK
  <2>4. UNCHANGED <<claims, committed, position, applied, overtaken, handled, failed, dropped>>
    BY <1>3 DEF Stop
  <2>5. /\ up' = up \ {m} /\ loaded' = loaded \ {m}
        /\ batch' = [batch EXCEPT ![m] = {}]
        /\ current' = [current EXCEPT ![m] = NoRecord]
        /\ todo' = [todo EXCEPT ![m] = <<>>]
        /\ pc' = [pc EXCEPT ![m] = "poll"]
    BY <1>3 DEF Stop
  <2>. QED
    BY <2>1, <2>2, <2>3, <2>4, <2>5, SMT DEF TypeOK, Updating
<1>4. ASSUME NEW m \in Members, NEW p \in Partitions, Assign(m, p)
      PROVE  TypeOK'
  BY <1>4, SMT DEF Assign, TypeOK, Updating
<1>5. ASSUME NEW p \in Partitions, Revoke(p)
      PROVE  TypeOK'
  <2>1. faults' \in 0..MaxFaults
    BY <1>5, FaultType DEF Revoke
  <2>. QED
    BY <1>5, <2>1, SMT DEF Revoke, TypeOK, Updating
<1>6. ASSUME NEW m \in Members, Poll(m)
      PROVE  TypeOK'
  <2>1. PICK upto \in Fetches(m) :
            /\ batch' = [batch EXCEPT ![m] = Polled(m, upto)]
            /\ position' = [position EXCEPT ![m] = upto]
    BY <1>6 DEF Poll
  <2>2. upto \in [Partitions -> Nat] /\ Polled(m, upto) \subseteq Records
    BY FetchesType
  <2>3. /\ m \in up /\ pc[m] = "poll" /\ pc' = [pc EXCEPT ![m] = "record"]
        /\ UNCHANGED <<shared, up, loaded, current, todo, faults, history>>
    BY <1>6 DEF Poll
  <2>. QED
    BY <2>1, <2>2, <2>3, SMT DEF TypeOK, Updating
<1>7. ASSUME NEW m \in Members, PollFails(m)
      PROVE  TypeOK'
  <2>1. PICK upto \in Fetches(m) :
            /\ dropped' = dropped \cup Polled(m, upto)
            /\ position' = [position EXCEPT ![m] = upto]
    BY <1>7 DEF PollFails
  <2>2. upto \in [Partitions -> Nat] /\ Polled(m, upto) \subseteq Records
    BY FetchesType
  <2>3. /\ faults' \in 0..MaxFaults
        /\ UNCHANGED <<shared, up, loaded, locals, applied, missed, handled, failed>>
    BY <1>7, FaultType DEF PollFails
  <2>. QED
    BY <2>1, <2>2, <2>3, SMT DEF TypeOK, Updating
<1>8. ASSUME NEW m \in Members, NEW r \in Records, SkipRecord(m, r)
      PROVE  TypeOK'
  <2>1. m \in up /\ batch[m] \ {r} \in SUBSET Records
    BY <1>8 DEF SkipRecord, TypeOK
  <2>. QED
    BY <1>8, <2>1, NextRecordType DEF SkipRecord, TypeOK
<1>9. ASSUME NEW m \in Members, NEW r \in Records, HandleRecord(m, r)
      PROVE  TypeOK'
  <2>1. m \in up /\ batch[m] \ {r} \in SUBSET Records
    BY <1>9 DEF HandleRecord, TypeOK
  <2>2. CASE ~Parses(r)
    BY <1>9, <2>1, <2>2, NextRecordType DEF HandleRecord, TypeOK
  <2>3. CASE Parses(r)
    <3>1. /\ batch' = [batch EXCEPT ![m] = @ \ {r}]
          /\ current' = [current EXCEPT ![m] = r]
          /\ todo' = [todo EXCEPT ![m] = Updates(r)]
          /\ pc' = [pc EXCEPT ![m] = "handler"]
          /\ UNCHANGED <<shared, up, loaded, position, faults, history>>
      BY <1>9, <2>3 DEF HandleRecord
    <3>2. Updates(r) \in Seq(Metrics) /\ r # NoRecord
      BY UpdatesType, RecordType
    <3>. QED
      BY <2>1, <3>1, <3>2, SMT DEF TypeOK, Updating
  <2>. QED
    BY <2>2, <2>3
<1>10. ASSUME NEW m \in Members, m \in up, NextRecord(m, batch[m]),
              claims' \in [Records -> SUBSET Metrics],
              abandoned' \in [Records -> SUBSET Metrics],
              committed' \in [Partitions -> Nat], faults' \in 0..MaxFaults,
              failed' \subseteq Records,
              UNCHANGED <<owner, up, loaded, position, applied, overtaken, handled, dropped>>
       PROVE  TypeOK'
  <2>1. batch[m] \in SUBSET Records
    BY DEF TypeOK
  <2>. QED
    BY <1>10, <2>1, NextRecordType DEF TypeOK
<1>11. ASSUME NEW m \in Members, SkipDuplicate(m) \/ ApplyMetric(m)
       PROVE  TypeOK'
  <2>1. NextUpdate(m) \/ Updating(m)
    BY <1>11 DEF SkipDuplicate, ApplyMetric, Updating
  <2>2. /\ applied' \in [Records -> SUBSET Metrics]
        /\ overtaken' \in [Records -> SUBSET Metrics]
    <3>1. current[m] \in Records /\ Head(todo[m]) \in Metrics
      BY <2>1, HandlerType
    <3>2. /\ applied' = applied \/ applied' = With(applied, current[m], Head(todo[m]))
          /\ \/ overtaken' = overtaken
             \/ overtaken' = With(overtaken, current[m], Head(todo[m]))
      BY <1>11 DEF SkipDuplicate, ApplyMetric
    <3>3. /\ With(applied, current[m], Head(todo[m])) \in [Records -> SUBSET Metrics]
          /\ With(overtaken, current[m], Head(todo[m])) \in [Records -> SUBSET Metrics]
      BY <3>1, WithType DEF TypeOK
    <3>. QED
      BY <3>2, <3>3 DEF TypeOK
  <2>3. /\ todo' = [todo EXCEPT ![m] = Tail(@)]
        /\ pc' = [pc EXCEPT ![m] = "handler"]
        /\ UNCHANGED <<shared, up, loaded, position, batch, current, faults, abandoned,
                       returns>>
    BY <1>11 DEF SkipDuplicate, ApplyMetric, NextUpdate, TypeOK
  <2>4. /\ current[m] \in Records /\ m \in up /\ Tail(todo[m]) \in Seq(Metrics)
        /\ current[m] # NoRecord
    BY <2>1, HandlerType, RecordType
  <2>. QED
    BY <2>2, <2>3, <2>4, SMT DEF TypeOK, Updating
<1>12. ASSUME NEW m \in Members, TryClaim(m)
       PROVE  TypeOK'
  <2>1. claims' \in [Records -> SUBSET Metrics]
    BY <1>12, HandlerType, WithType DEF TryClaim, TypeOK
  <2>2. /\ pc' = [pc EXCEPT ![m] = "update"]
        /\ UNCHANGED <<group, up, loaded, position, batch, current, todo, faults, history>>
    BY <1>12 DEF TryClaim
  <2>3. m \in up /\ current[m] # NoRecord /\ todo[m] # <<>>
    BY <1>12, HandlerType, RecordType DEF TryClaim
  <2>. QED
    BY <2>1, <2>2, <2>3, SMT DEF TypeOK, Updating
<1>13. ASSUME NEW m \in Members, ApplyFails(m), HasBizID(current[m])
       PROVE  TypeOK'
  <2>1. /\ pc[m] = "update" /\ pc' = [pc EXCEPT ![m] = "release"]
        /\ UNCHANGED <<shared, up, loaded, position, batch, current, todo, history>>
        /\ faults' \in 0..MaxFaults
    BY <1>13, FaultType DEF ApplyFails
  <2>2. m \in up /\ current[m] # NoRecord /\ todo[m] # <<>>
    BY <2>1 DEF TypeOK, Updating
  <2>. QED
    BY <2>1, <2>2, SMT DEF TypeOK, Updating
<1>14. ASSUME NEW m \in Members, UpdateFails(m) \/ Release(m) \/ ReleaseFails(m)
                                  \/ (ApplyFails(m) /\ ~HasBizID(current[m]))
       PROVE  TypeOK'
  <2>1. NextUpdate(m) \/ Updating(m)
    BY <1>14 DEF UpdateFails, Release, ReleaseFails, ApplyFails, Updating
  <2>2. m \in up /\ current[m] \in Records
    BY <2>1, HandlerType
  <2>3. faults' \in 0..MaxFaults
    BY <1>14, FaultType DEF UpdateFails, Release, ReleaseFails, ApplyFails, TypeOK
  <2>4. claims' \in [Records -> SUBSET Metrics]
    <3>1. claims' = claims \/ claims' = [claims EXCEPT ![current[m]] = @ \ {Head(todo[m])}]
      BY <1>14 DEF UpdateFails, Release, ReleaseFails, ApplyFails
    <3>2. claims \in [Records -> SUBSET Metrics]
      BY DEF TypeOK
    <3>. QED
      BY <2>2, <3>1, <3>2
  <2>5. abandoned' \in [Records -> SUBSET Metrics]
    BY <1>14, <2>1, HandlerType, WithType
    DEF UpdateFails, Release, ReleaseFails, ApplyFails, TypeOK
  <2>6. HandlerFails(m) /\ committed' = committed
        /\ UNCHANGED <<owner, up, loaded, position, applied, overtaken, handled, dropped>>
    BY <1>14 DEF UpdateFails, Release, ReleaseFails, ApplyFails
  <2>7. NextRecord(m, batch[m]) /\ failed' \subseteq Records
    BY <2>2, <2>6 DEF HandlerFails, TypeOK
  <2>. QED
    BY <1>10, <2>2, <2>3, <2>4, <2>5, <2>6, <2>7 DEF TypeOK
<1>15. ASSUME NEW m \in Members, HandlerReturns(m)
       PROVE  TypeOK'
  <2>1. m \in up /\ current[m] \in Records
    BY <1>15 DEF HandlerReturns, TypeOK
  <2>. QED
    BY <1>15, <2>1, SMT DEF HandlerReturns, TypeOK, Updating
<1>16. ASSUME NEW m \in Members, CommitRecord(m) \/ CommitFails(m)
       PROVE  TypeOK'
  <2>1. m \in up /\ current[m] \in Records
    BY <1>16 DEF CommitRecord, CommitFails, TypeOK
  <2>2. committed' \in [Partitions -> Nat]
    BY <1>16, <2>1, RecordType DEF CommitRecord, CommitFails, TypeOK
  <2>3. faults' \in 0..MaxFaults
    BY <1>16, FaultType DEF CommitRecord, CommitFails, TypeOK
  <2>. QED
    BY <1>10, <1>16, <2>1, <2>2, <2>3 DEF CommitRecord, CommitFails, TypeOK
<1>17. CASE UNCHANGED vars
  BY <1>17 DEF vars, TypeOK, Updating
<1>. QED
  BY <1>1, <1>2, <1>3, <1>4, <1>5, <1>6, <1>7, <1>8, <1>9, <1>11, <1>12, <1>13, <1>14,
     <1>15, <1>16, <1>17
  DEF Next, Consume

(* Every variable keeps its shape, whatever replicas start and stop and however *)
(* partitions move between them.                                                *)
THEOREM TypeCorrect == Spec => []TypeOK
BY InitTypeOK, NextTypeOK, PTL DEF Spec

--------------------------------------------------------------------------------
(* Nothing is passed over.  A record is accounted for, in turn, as one that is  *)
(* still in the hand of the member that polled it or as one that was attempted. *)

Done == handled \cup failed \cup dropped

InHand(m) == Done \cup batch[m] \cup {current[m]}

(* The records of a partition that somebody handles, up to an offset. *)
UpTo(p, n) == {s \in Records : s[1] = p /\ s[2] <= n /\ Registered(s)}

(* Those that come before a record. *)
Earlier(r) == {s \in Records : s[1] = r[1] /\ s[2] < r[2] /\ Registered(s)}

(* All before a member's position is accounted for, all before a record of its  *)
(* batch as well, and all before the one it handles was attempted.              *)
MemberOrder(m) ==
    /\ \A p \in Partitions : owner[p] = m => UpTo(p, position[m][p]) \subseteq InHand(m)
    /\ \A r \in batch[m] : Earlier(r) \subseteq InHand(m)
    /\ current[m] # NoRecord => Earlier(current[m]) \subseteq Done
    /\ pc[m] = "commit" => current[m] \in handled

(* The inductive invariant of the order of records. *)
OrderInv ==
    /\ \A p \in Partitions : UpTo(p, committed[p]) \subseteq Done
    /\ \A r \in handled : Earlier(r) \subseteq Done
    /\ \A m \in Members : MemberOrder(m)

(* The updates that a running handler has still to make. *)
Left(m) == {todo[m][i] : i \in DOMAIN todo[m]}

Active(m) == pc[m] \in {"handler", "update", "release"}

(* An update need not be made any more, or will not be. *)
Met(r, metric) ==
    \/ metric \in applied[r] \cup abandoned[r]
    \/ /\ metric \in overtaken[r]
       /\ r \in failed \/ \E m \in Members : InUpdate(m, r, metric)

(* A claim is that of an update that was made, was given up without a release,  *)
(* or is being made.                                                            *)
ClaimOK ==
    \A r \in Records :
        /\ \A metric \in claims[r] : \/ metric \in applied[r] \cup abandoned[r]
                                     \/ \E m \in Members : InUpdate(m, r, metric)
        /\ ~HasBizID(r) => claims[r] = {} /\ overtaken[r] = {}

AppliedInv ==
    /\ ClaimOK
    /\ \A m \in Members : Active(m) =>
            \A metric \in MetricsOf(current[m]) :
                Met(current[m], metric) \/ metric \in Left(m)
    /\ HandledIsApplied

(* What a step of a member does to what was made, given up and claimed: an      *)
(* update in its hand stays there, or is made or given up, or its claim goes.   *)
StepOf(m) ==
    /\ \A r \in Records : /\ applied[r] \subseteq applied'[r]
                          /\ abandoned[r] \subseteq abandoned'[r]
                          /\ overtaken[r] \subseteq overtaken'[r]
    /\ failed \subseteq failed'
    /\ \A n \in Members \ {m} :
            pc'[n] = pc[n] /\ todo'[n] = todo[n] /\ current'[n] = current[n]
    /\ \A r \in Records :
            /\ \A metric \in claims'[r] : metric \in claims[r] \/ InUpdate(m, r, metric)'
            /\ ~HasBizID(r) => claims'[r] = {} /\ overtaken'[r] = {}
    /\ \A r \in Records : \A metric : InUpdate(m, r, metric) /\ HasBizID(r) =>
            \/ InUpdate(m, r, metric)'
            \/ metric \in applied'[r] \cup abandoned'[r]
            \/ r \in failed' /\ metric \notin claims'[r]

LEMMA HeadAndTail ==
    ASSUME NEW q \in Seq(Metrics), q # <<>>
    PROVE  {q[i] : i \in DOMAIN q} = {Head(q)} \cup {Tail(q)[i] : i \in DOMAIN Tail(q)}
<1>1. /\ Len(q) \in Nat /\ Len(q) >= 1 /\ DOMAIN q = 1..Len(q) /\ Head(q) = q[1]
      /\ Tail(q) \in Seq(Metrics) /\ Len(Tail(q)) = Len(q) - 1
      /\ DOMAIN Tail(q) = 1..(Len(q) - 1)
  BY SMT
<1>2. \A i \in 1..(Len(q) - 1) : Tail(q)[i] = q[i + 1]
  BY SMT
<1>3. ASSUME NEW i \in DOMAIN q
      PROVE  q[i] \in {Head(q)} \cup {Tail(q)[j] : j \in DOMAIN Tail(q)}
  <2>1. CASE i = 1
    BY <1>1, <2>1
  <2>2. CASE i # 1
    <3>1. i - 1 \in DOMAIN Tail(q) /\ (i - 1) + 1 = i
      BY <1>1, <2>2, SMT
    <3>2. Tail(q)[i - 1] = q[i]
      BY <1>1, <1>2, <3>1
    <3>. QED
      BY <3>1, <3>2
  <2>. QED
    BY <2>1, <2>2
<1>4. ASSUME NEW i \in DOMAIN Tail(q)
      PROVE  Tail(q)[i] \in {q[j] : j \in DOMAIN q}
  <2>1. i + 1 \in DOMAIN q
    BY <1>1, SMT
  <2>. QED
    BY <1>1, <1>2, <2>1
<1>5. Head(q) \in {q[j] : j \in DOMAIN q}
  <2>1. 1 \in DOMAIN q
    BY <1>1, SMT
  <2>. QED
    BY <1>1, <2>1
<1>. QED
  BY <1>3, <1>4, <1>5

LEMMA MetStep ==
    ASSUME ClaimOK, NEW m \in Members, StepOf(m)
    PROVE  /\ ClaimOK'
           /\ \A r \in Records : \A metric : Met(r, metric) => Met(r, metric)'
<1>1. \A n \in Members \ {m}, r \in Records : \A metric :
        InUpdate(n, r, metric) => InUpdate(n, r, metric)'
  BY DEF StepOf, InUpdate, Updating
<1>2. ASSUME NEW r \in Records, NEW metric, HasBizID(r), NEW n \in Members,
             InUpdate(n, r, metric)
      PROVE  \/ \E k \in Members : InUpdate(k, r, metric)'
             \/ metric \in applied'[r] \cup abandoned'[r]
             \/ r \in failed' /\ metric \notin claims'[r]
  <2>1. CASE n = m
    BY <1>2, <2>1 DEF StepOf
  <2>2. CASE n # m
    BY <1>1, <1>2, <2>2
  <2>. QED
    BY <2>1, <2>2
<1>3. ASSUME NEW r \in Records, NEW metric \in claims'[r]
      PROVE  \/ metric \in applied'[r] \cup abandoned'[r]
             \/ \E k \in Members : InUpdate(k, r, metric)'
  <2>1. HasBizID(r)
    BY <1>3 DEF StepOf
  <2>2. CASE metric \in claims[r]
    <3>1. CASE metric \in applied[r] \cup abandoned[r]
      BY <3>1 DEF StepOf
    <3>2. CASE \E n \in Members : InUpdate(n, r, metric)
      BY <1>2, <1>3, <2>1, <3>2
    <3>. QED
      BY <2>2, <3>1, <3>2 DEF ClaimOK
  <2>3. CASE metric \notin claims[r]
    BY <1>3, <2>3 DEF StepOf
  <2>. QED
    BY <2>2, <2>3
<1>4. ClaimOK'
  BY <1>3 DEF StepOf, ClaimOK
<1>5. ASSUME NEW r \in Records, NEW metric, Met(r, metric)
      PROVE  Met(r, metric)'
  <2>1. CASE metric \in applied[r] \cup abandoned[r] \/ (metric \in overtaken[r] /\ r \in failed)
    BY <2>1 DEF StepOf, Met
  <2>2. ASSUME metric \in overtaken[r], NEW n \in Members, InUpdate(n, r, metric)
        PROVE  Met(r, metric)'
    <3>1. HasBizID(r)
      BY <2>2 DEF ClaimOK
    <3>2. metric \in overtaken'[r]
      BY <2>2 DEF StepOf
    <3>. QED
      BY <1>2, <2>2, <3>1, <3>2 DEF Met
  <2>. QED
    BY <1>5, <2>1, <2>2 DEF Met
<1>. QED
  BY <1>4, <1>5

(* What a step of a member leaves to show: that its handler forgets no update.  *)
LEMMA AppliedOfStep ==
    ASSUME TypeOK, AppliedInv, NEW m \in Members, StepOf(m),
           Active(m)' => \A r : r = current'[m] =>
               \A metric \in MetricsOf(r) : Met(r, metric)' \/ metric \in Left(m)',
           \A r \in handled' \ handled : \A metric \in MetricsOf(r) : Met(r, metric)'
    PROVE  AppliedInv'
<1>1. ClaimOK' /\ \A r \in Records : \A metric : Met(r, metric) => Met(r, metric)'
  BY MetStep DEF AppliedInv
<1>2. ASSUME NEW n \in Members \ {m}, NEW r, Active(n)', r = current'[n],
             NEW metric \in MetricsOf(r)
      PROVE  Met(r, metric)' \/ metric \in Left(n)'
  <2>1. Active(n) /\ current[n] = r /\ Left(n)' = Left(n)
    BY <1>2 DEF StepOf, Active, Left
  <2>2. r \in Records
    BY <2>1 DEF TypeOK, Active
  <2>. QED
    BY <1>1, <2>1, <2>2 DEF AppliedInv
<1>3. ASSUME NEW r \in handled', NEW metric \in MetricsOf(r)
      PROVE  Met(r, metric)'
  BY <1>1 DEF AppliedInv, HandledIsApplied, Met, TypeOK
<1>4. HandledIsApplied'
  BY <1>3 DEF HandledIsApplied, Met
<1>5. \A n \in Members : Active(n)' =>
        \A metric \in MetricsOf(current[n])' : Met(current[n], metric)' \/ metric \in Left(n)'
  BY <1>2
<1>. QED
  BY <1>1, <1>4, <1>5 DEF AppliedInv

(* A step between two handlers. *)
LEMMA AppliedBetween ==
    ASSUME TypeOK, AppliedInv, NEW m \in Members, ~Updating(m), ~Active(m)',
           UNCHANGED <<claims, applied, missed, handled>>, failed \subseteq failed',
           \A n \in Members \ {m} :
               pc'[n] = pc[n] /\ todo'[n] = todo[n] /\ current'[n] = current[n]
    PROVE  AppliedInv'
<1>1. StepOf(m)
  BY DEF StepOf, InUpdate, AppliedInv, ClaimOK, missed
<1>. QED
  BY <1>1, AppliedOfStep

LEMMA AppliedStep == TypeOK /\ AppliedInv /\ [Next]_vars => AppliedInv'
<1>. SUFFICES ASSUME TypeOK, AppliedInv, [Next]_vars
              PROVE  AppliedInv'
  OBVIOUS
<1>. USE DEF group, shared, locals, missed, returns, history
<1>1. CASE UNCHANGED <<claims, current, todo, pc, applied, missed, handled, failed>>
  BY <1>1 DEF AppliedInv, ClaimOK, HandledIsApplied, InUpdate, Updating, Met, Active, Left
<1>2. ASSUME NEW m \in Members,
             \/ Start(m) \/ RefreshCache(m) \/ \E p \in Partitions : Assign(m, p)
             \/ PollFails(m)
      PROVE  AppliedInv'
  BY <1>1, <1>2 DEF Start, RefreshCache, Assign, PollFails
<1>3. ASSUME NEW p \in Partitions, Revoke(p)
      PROVE  AppliedInv'
  BY <1>1, <1>3 DEF Revoke
<1>4. ASSUME NEW m \in Members, Poll(m)
      PROVE  AppliedInv'
  BY <1>4, AppliedBetween DEF Poll, TypeOK, Updating, Active
<1>5. ASSUME NEW m \in Members, NEW left, NextRecord(m, left)
      PROVE  /\ ~Active(m)'
             /\ \A n \in Members \ {m} :
                  pc'[n] = pc[n] /\ todo'[n] = todo[n] /\ current'[n] = current[n]
  BY <1>5 DEF NextRecord, TypeOK, Active
<1>6. ASSUME NEW m \in Members, CommitRecord(m) \/ CommitFails(m)
      PROVE  AppliedInv'
  BY <1>5, <1>6, AppliedBetween DEF CommitRecord, CommitFails, Updating
<1>7. ASSUME NEW m \in Members, NEW r \in Records, SkipRecord(m, r)
      PROVE  AppliedInv'
  BY <1>5, <1>7, AppliedBetween DEF SkipRecord, Updating
<1>8. ASSUME NEW m \in Members, NEW r \in Records, HandleRecord(m, r)
      PROVE  AppliedInv'
  <2>1. pc[m] = "record" /\ UNCHANGED <<claims, applied, missed, handled>>
    BY <1>8 DEF HandleRecord
  <2>2. CASE ~Parses(r)
    BY <1>5, <1>8, <2>1, <2>2, AppliedBetween DEF HandleRecord, Updating
  <2>3. CASE Parses(r)
    <3>1. /\ current' = [current EXCEPT ![m] = r]
          /\ todo' = [todo EXCEPT ![m] = Updates(r)]
          /\ pc' = [pc EXCEPT ![m] = "handler"]
          /\ failed' = failed
      BY <1>8, <2>3 DEF HandleRecord
    <3>2. todo'[m] = Updates(r) /\ current'[m] = r
      BY <3>1 DEF TypeOK
    <3>3. Left(m)' = MetricsOf(r)
      BY <3>2 DEF Left, MetricsOf
    <3>4. \A n \in Members \ {m} : pc'[n] = pc[n] /\ todo'[n] = todo[n]
                                    /\ current'[n] = current[n]
      BY <3>1 DEF TypeOK
    <3>5. StepOf(m)
      BY <2>1, <3>1, <3>4 DEF StepOf, InUpdate, Updating, AppliedInv, ClaimOK
    <3>. QED
      BY <2>1, <3>2, <3>3, <3>5, AppliedOfStep
  <2>. QED
    BY <2>2, <2>3
<1>9. ASSUME NEW m \in Members, Stop(m)
      PROVE  AppliedInv'
  <2>1. /\ current' = [current EXCEPT ![m] = NoRecord]
        /\ todo' = [todo EXCEPT ![m] = <<>>]
        /\ pc' = [pc EXCEPT ![m] = "poll"]
        /\ abandoned' = IF Updating(m) /\ HasBizID(current[m])
                            THEN With(abandoned, current[m], Head(todo[m])) ELSE abandoned
        /\ UNCHANGED <<claims, applied, overtaken, returns>>
    BY <1>9 DEF Stop
  <2>0. abandoned \in [Records -> SUBSET Metrics]
    BY DEF TypeOK
  <2>2. /\ \A n \in Members \ {m} : pc'[n] = pc[n] /\ todo'[n] = todo[n]
                                    /\ current'[n] = current[n]
        /\ ~Active(m)'
    BY <2>1 DEF TypeOK, Active
  <2>3. ASSUME NEW r \in Records
        PROVE  /\ abandoned[r] \subseteq abandoned'[r]
               /\ \A metric : InUpdate(m, r, metric) /\ HasBizID(r) => metric \in abandoned'[r]
    <3>1. CASE Updating(m) /\ HasBizID(current[m])
      <4>1. current[m] \in Records /\ Head(todo[m]) \in Metrics
        BY <3>1, HandlerType
      <4>2. /\ abandoned'[current[m]] = abandoned[current[m]] \cup {Head(todo[m])}
            /\ r # current[m] => abandoned'[r] = abandoned[r]
        BY <2>1, <3>1, <4>1, <2>0 DEF With
      <4>. QED
        BY <4>2 DEF InUpdate
    <3>2. CASE ~(Updating(m) /\ HasBizID(current[m]))
      BY <2>1, <3>2 DEF InUpdate
    <3>. QED
      BY <3>1, <3>2
  <2>4. StepOf(m)
    BY <2>1, <2>2, <2>3 DEF StepOf, AppliedInv, ClaimOK
  <2>. QED
    BY <2>1, <2>2, <2>4, AppliedOfStep
<1>10. ASSUME NEW m \in Members, SkipDuplicate(m) \/ ApplyMetric(m),
              NEW c, c = current[m], NEW x, x = Head(todo[m])
       PROVE  AppliedInv'
  <2>1. /\ NextUpdate(m) \/ Updating(m)
        /\ todo' = [todo EXCEPT ![m] = Tail(@)]
        /\ pc' = [pc EXCEPT ![m] = "handler"]
        /\ UNCHANGED <<claims, current, abandoned, returns>>
    BY <1>10 DEF SkipDuplicate, ApplyMetric, NextUpdate, Updating, TypeOK
  <2>2. /\ c \in Records /\ todo[m] \in Seq(Metrics) /\ todo[m] # <<>>
        /\ x \in Metrics
    BY <1>10, <2>1, HandlerType
  <2>0. /\ applied \in [Records -> SUBSET Metrics] /\ overtaken \in [Records -> SUBSET Metrics]
    BY DEF TypeOK
  <2>3. /\ todo'[m] = Tail(todo[m]) /\ pc'[m] = "handler" /\ current'[m] = c
        /\ \A n \in Members \ {m} : pc'[n] = pc[n] /\ todo'[n] = todo[n]
                                    /\ current'[n] = current[n]
    BY <1>10, <2>1 DEF TypeOK
  <2>4. Left(m) = {x} \cup Left(m)'
    <3>1. {todo[m][i] : i \in DOMAIN todo[m]}
            = {x} \cup {Tail(todo[m])[i] : i \in DOMAIN Tail(todo[m])}
      BY <1>10, <2>2, HeadAndTail
    <3>2. Left(m)' = {Tail(todo[m])[i] : i \in DOMAIN Tail(todo[m])}
      BY <2>3 DEF Left
    <3>. QED
      BY <3>1, <3>2 DEF Left
  <2>5. \A metric \in MetricsOf(c) : Met(c, metric) \/ metric \in Left(m)
    BY <1>10, <2>1 DEF AppliedInv, Active, NextUpdate, Updating
  <2>6. ASSUME StepOf(m), Met(c, x)'
        PROVE  AppliedInv'
    <3>1. \A metric : Met(c, metric) => Met(c, metric)'
      BY <2>2, <2>6, MetStep DEF AppliedInv
    <3>2. \A metric \in MetricsOf(c) : Met(c, metric)' \/ metric \in Left(m)'
      BY <2>4, <2>5, <2>6, <3>1
    <3>. QED
      BY <2>1, <2>3, <2>6, <3>2, AppliedOfStep
  <2>7. CASE SkipDuplicate(m)
    <3>1. /\ pc[m] = "handler" /\ HasBizID(c) /\ x \in claims[c] /\ applied' = applied
          /\ overtaken' = IF \E n \in Members \ {m} : InUpdate(n, c, x)
                              THEN With(overtaken, c, x) ELSE overtaken
      BY <1>10, <2>7 DEF SkipDuplicate, NextUpdate, Duplicate
    <3>2. /\ With(overtaken, c, x)[c] = overtaken[c] \cup {x}
          /\ \A r \in Records \ {c} : With(overtaken, c, x)[r] = overtaken[r]
      BY <2>0, <2>2 DEF With
    <3>3. /\ \A r \in Records : overtaken[r] \subseteq overtaken'[r]
          /\ \A r \in Records \ {c} : overtaken'[r] = overtaken[r]
          /\ (\E n \in Members \ {m} : InUpdate(n, c, x)) => x \in overtaken'[c]
      BY <3>1, <3>2
    <3>4. StepOf(m)
      BY <2>1, <2>3, <3>1, <3>3 DEF StepOf, InUpdate, Updating, AppliedInv, ClaimOK
    <3>5. Met(c, x)'
      <4>1. CASE x \in applied[c] \cup abandoned[c]
        BY <2>1, <3>1, <4>1 DEF Met
      <4>2. ASSUME NEW n \in Members, InUpdate(n, c, x)
            PROVE  Met(c, x)'
        <5>1. n # m
          BY <3>1, <4>2 DEF InUpdate, Updating
        <5>2. InUpdate(n, c, x)'
          BY <2>3, <4>2, <5>1 DEF InUpdate, Updating
        <5>. QED
          BY <3>3, <4>2, <5>1, <5>2 DEF Met
      <4>. QED
        BY <2>2, <3>1, <4>1, <4>2 DEF AppliedInv, ClaimOK
    <3>. QED
      BY <2>6, <3>4, <3>5
  <2>8. CASE ApplyMetric(m)
    <3>1. pc[m] = "update" /\ applied' = With(applied, c, x) /\ overtaken' = overtaken
      BY <1>10, <2>8 DEF ApplyMetric
    <3>2. /\ applied'[c] = applied[c] \cup {x}
          /\ \A r \in Records \ {c} : applied'[r] = applied[r]
      BY <2>0, <2>2, <3>1 DEF With
    <3>3. /\ \A r \in Records : applied[r] \subseteq applied'[r]
          /\ \A r \in Records : \A metric :
                InUpdate(m, r, metric) => metric \in applied'[r]
      BY <1>10, <3>2 DEF InUpdate
    <3>4. StepOf(m)
      BY <2>1, <2>3, <3>1, <3>3 DEF StepOf, AppliedInv, ClaimOK
    <3>5. Met(c, x)'
      BY <3>2 DEF Met
    <3>. QED
      BY <2>6, <3>4, <3>5
  <2>. QED
    BY <1>10, <2>7, <2>8
<1>11. ASSUME NEW m \in Members, TryClaim(m) \/ (ApplyFails(m) /\ HasBizID(current[m])),
              NEW c, c = current[m], NEW x, x = Head(todo[m])
       PROVE  AppliedInv'
  <2>1. /\ NextUpdate(m) \/ Updating(m)
        /\ pc' = [pc EXCEPT ![m] = "update"] \/ pc' = [pc EXCEPT ![m] = "release"]
        /\ claims' = claims \/ (claims' = With(claims, c, x) /\ HasBizID(c))
        /\ UNCHANGED <<current, todo, applied, missed, returns>>
    BY <1>11 DEF TryClaim, ApplyFails, Updating
  <2>2. c \in Records /\ x \in Metrics
    BY <1>11, <2>1, HandlerType
  <2>0. claims \in [Records -> SUBSET Metrics]
    BY DEF TypeOK
  <2>3. /\ pc'[m] \in {"update", "release"}
        /\ \A n \in Members \ {m} : pc'[n] = pc[n]
    BY <2>1 DEF TypeOK
  <2>4. /\ InUpdate(m, c, x)'
        /\ \A r : \A metric : InUpdate(m, r, metric) => InUpdate(m, r, metric)'
    BY <1>11, <2>1, <2>3 DEF InUpdate, Updating
  <2>5. /\ With(claims, c, x)[c] = claims[c] \cup {x}
        /\ \A r \in Records \ {c} : With(claims, c, x)[r] = claims[r]
    BY <2>0, <2>2 DEF With
  <2>6. /\ \A r \in Records \ {c} : claims'[r] = claims[r]
        /\ claims'[c] \subseteq claims[c] \cup {x}
        /\ ~HasBizID(c) => claims'[c] = claims[c]
    BY <2>1, <2>5
  <2>7. StepOf(m)
    BY <2>1, <2>3, <2>4, <2>6 DEF StepOf, AppliedInv, ClaimOK
  <2>8. \A metric : Met(c, metric) => Met(c, metric)'
    BY <2>2, <2>7, MetStep DEF AppliedInv
  <2>9. \A metric \in MetricsOf(c) : Met(c, metric) \/ metric \in Left(m)
    BY <1>11, <2>1 DEF AppliedInv, Active, NextUpdate, Updating
  <2>10. Left(m)' = Left(m)
    BY <2>1 DEF Left
  <2>11. \A metric \in MetricsOf(c) : Met(c, metric)' \/ metric \in Left(m)'
    BY <2>8, <2>9, <2>10
  <2>. QED
    BY <1>11, <2>1, <2>7, <2>11, AppliedOfStep
<1>12. ASSUME NEW m \in Members,
              UpdateFails(m) \/ Release(m) \/ ReleaseFails(m)
                  \/ (ApplyFails(m) /\ ~HasBizID(current[m])),
              NEW c, c = current[m], NEW x, x = Head(todo[m])
       PROVE  AppliedInv'
  <2>1. /\ NextUpdate(m) \/ Updating(m)
        /\ HandlerFails(m)
        /\ UNCHANGED <<applied, overtaken, handled>>
        /\ \/ claims' = claims /\ abandoned' = abandoned /\ ~(Updating(m) /\ HasBizID(c))
           \/ claims' = [claims EXCEPT ![c] = @ \ {x}] /\ abandoned' = abandoned
           \/ claims' = claims /\ abandoned' = With(abandoned, c, x)
    BY <1>12 DEF UpdateFails, Release, ReleaseFails, ApplyFails, NextUpdate, Updating
  <2>2. c \in Records /\ x \in Metrics
    BY <1>12, <2>1, HandlerType
  <2>0. claims \in [Records -> SUBSET Metrics] /\ abandoned \in [Records -> SUBSET Metrics]
    BY DEF TypeOK
  <2>3. c \in failed' /\ failed \subseteq failed' /\ NextRecord(m, batch[m])
    BY <1>12, <2>1 DEF HandlerFails
  <2>4. /\ With(abandoned, c, x)[c] = abandoned[c] \cup {x}
        /\ \A r \in Records \ {c} : With(abandoned, c, x)[r] = abandoned[r]
    BY <2>0, <2>2 DEF With
  <2>5. /\ \A r \in Records : claims'[r] \subseteq claims[r]
        /\ \A r \in Records : abandoned[r] \subseteq abandoned'[r]
        /\ (Updating(m) /\ HasBizID(c)) => x \notin claims'[c] \/ x \in abandoned'[c]
    BY <2>0, <2>1, <2>2, <2>4
  <2>6. \A r \in Records : ~HasBizID(r) => claims'[r] = {} /\ overtaken'[r] = {}
    BY <2>1, <2>5 DEF AppliedInv, ClaimOK
  <2>7. ~Active(m)' /\ \A n \in Members \ {m} :
          pc'[n] = pc[n] /\ todo'[n] = todo[n] /\ current'[n] = current[n]
    BY <1>5, <2>3
  <2>8. \A r : \A metric : InUpdate(m, r, metric) => r = c /\ metric = x /\ Updating(m)
    BY <1>12 DEF InUpdate
  <2>9. StepOf(m)
    BY <2>1, <2>3, <2>5, <2>6, <2>7, <2>8 DEF StepOf
  <2>. QED
    BY <2>1, <2>7, <2>9, AppliedOfStep
<1>13. ASSUME NEW m \in Members, HandlerReturns(m)
       PROVE  AppliedInv'
  <2>1. /\ pc[m] = "handler" /\ todo[m] = <<>>
        /\ handled' = handled \cup {current[m]}
        /\ pc' = [pc EXCEPT ![m] = "commit"]
        /\ UNCHANGED <<claims, todo, current, applied, missed, failed>>
    BY <1>13 DEF HandlerReturns
  <2>2. Left(m) = {}
    BY <2>1 DEF Left
  <2>3. current[m] \in Records
    BY <2>1 DEF TypeOK
  <2>4. ~Active(m)' /\ \A n \in Members \ {m} : pc'[n] = pc[n]
    BY <2>1 DEF TypeOK, Active
  <2>5. StepOf(m)
    BY <2>1, <2>4 DEF StepOf, InUpdate, Updating, AppliedInv, ClaimOK
  <2>6. \A metric \in MetricsOf(current[m]) : Met(current[m], metric)
    BY <2>1, <2>2 DEF AppliedInv, Active
  <2>7. \A r \in handled' \ handled : \A metric \in MetricsOf(r) : Met(r, metric)'
    <3>1. \A r \in Records : \A metric : Met(r, metric) => Met(r, metric)'
      BY <2>5, MetStep DEF AppliedInv
    <3>. QED
      BY <2>1, <2>3, <2>6, <3>1
  <2>. QED
    BY <2>4, <2>5, <2>7, AppliedOfStep
<1>14. CASE UNCHANGED vars
  BY <1>1, <1>14 DEF vars
<1>. QED
  BY <1>2, <1>3, <1>4, <1>6, <1>7, <1>8, <1>9, <1>10, <1>11, <1>12, <1>13, <1>14
  DEF Next, Consume

(* An update of a record whose handler returned no error is made, unless its    *)
(* claim was left behind by a crash or a failed release, or it was passed over  *)
(* while another member was at it, which still is or has failed.                *)
THEOREM HandledIsAppliedCorrect == Spec => []HandledIsApplied
<1>1. Init => AppliedInv
  BY DEF Init, AppliedInv, ClaimOK, Active, HandledIsApplied
<1>2. AppliedInv => HandledIsApplied
  BY DEF AppliedInv
<1>. QED
  BY <1>1, <1>2, AppliedStep, TypeCorrect, PTL DEF Spec

--------------------------------------------------------------------------------
(* The order of records. *)

LEMMA InitOrder == Init => OrderInv
<1>. SUFFICES ASSUME Init
              PROVE  OrderInv
  OBVIOUS
<1>1. \A p \in Partitions : UpTo(p, 0) = {}
  <2>. SUFFICES ASSUME NEW p \in Partitions, NEW s \in UpTo(p, 0)
                PROVE  FALSE
    OBVIOUS
  <2>1. s \in Records /\ s[2] <= 0
    BY DEF UpTo
  <2>2. s[2] \in Nat /\ s[2] >= 1
    BY <2>1, RecordType
  <2>. QED
    BY <2>1, <2>2, SMT
<1>. QED
  BY <1>1 DEF Init, OrderInv, MemberOrder

(* What is accounted for stays so: a member that does nothing keeps its part,   *)
(* and so does one that only lost partitions.                                   *)
LEMMA MemberOrderKept ==
    ASSUME NEW m, MemberOrder(m), Done \subseteq Done', handled \subseteq handled',
           batch'[m] = batch[m], current'[m] = current[m], pc'[m] = pc[m],
           position'[m] = position[m],
           \A p \in Partitions : owner'[p] = m => owner[p] = m
    PROVE  MemberOrder(m)'
<1>1. InHand(m) \subseteq InHand(m)'
  BY DEF InHand
<1>2. ASSUME NEW p \in Partitions, owner'[p] = m
      PROVE  UpTo(p, position[m][p])' \subseteq InHand(m)'
  BY <1>1, <1>2 DEF MemberOrder, UpTo
<1>3. ASSUME NEW r \in batch[m]
      PROVE  Earlier(r) \subseteq InHand(m)'
  BY <1>1, <1>3 DEF MemberOrder
<1>. QED
  BY <1>2, <1>3 DEF MemberOrder, Earlier, UpTo

(* A member goes on to the records that are left of its batch: those that are   *)
(* no longer in its hand were attempted, or nobody handles their kind.          *)
LEMMA NextRecordOrder ==
    ASSUME TypeOK, OrderInv, NEW m \in Members, NEW left, NextRecord(m, left),
           left \subseteq batch[m], Done \subseteq Done',
           \A s \in (batch[m] \ left) \cup {current[m]} :
               s \in Records /\ Registered(s) => s \in Done',
           UNCHANGED <<position, owner>>
    PROVE  MemberOrder(m)'
<1>1. /\ batch'[m] = left /\ current'[m] = NoRecord /\ pc'[m] # "commit"
      /\ position'[m] = position[m]
  BY DEF NextRecord, TypeOK
<1>2. \A s \in InHand(m) : s \in Records /\ Registered(s) => s \in InHand(m)'
  BY <1>1 DEF InHand
<1>3. MemberOrder(m)
  BY DEF OrderInv
<1>4. ASSUME NEW p \in Partitions, owner[p] = m, NEW s \in UpTo(p, position[m][p])
      PROVE  s \in InHand(m)'
  BY <1>2, <1>3, <1>4 DEF MemberOrder, UpTo
<1>5. ASSUME NEW r \in left, NEW s \in Earlier(r)
      PROVE  s \in InHand(m)'
  BY <1>2, <1>3, <1>5 DEF MemberOrder, Earlier
<1>. QED
  BY <1>1, <1>4, <1>5 DEF MemberOrder, UpTo, Earlier

(* What a step on one member leaves to show. *)
LEMMA OrderOfStep ==
    ASSUME TypeOK, OrderInv, Done \subseteq Done', handled \subseteq handled',
           NEW m \in Members,
           \A n \in Members \ {m} :
               /\ batch'[n] = batch[n] /\ current'[n] = current[n] /\ pc'[n] = pc[n]
               /\ position'[n] = position[n]
               /\ \A p \in Partitions : owner'[p] = n => owner[p] = n,
           \A p \in Partitions : UpTo(p, committed[p])' \subseteq Done',
           \A r \in handled' \ handled : Earlier(r) \subseteq Done',
           MemberOrder(m)'
    PROVE  OrderInv'
<1>1. \A n \in Members \ {m} : MemberOrder(n)'
  BY MemberOrderKept DEF OrderInv
<1>2. \A r \in handled' : Earlier(r) \subseteq Done'
  BY DEF OrderInv
<1>. QED
  BY <1>1, <1>2 DEF OrderInv, Earlier

(* The records of a poll, and those before its positions. *)
LEMMA PolledOrder ==
    ASSUME TypeOK, OrderInv, NEW m \in Members, pc[m] = "poll", NEW upto \in Fetches(m)
    PROVE  /\ \A p \in Partitions : owner[p] = m =>
                UpTo(p, upto[p]) \subseteq Done \cup Polled(m, upto)
           /\ \A r \in Polled(m, upto) : Earlier(r) \subseteq Done \cup Polled(m, upto)
<1>1. batch[m] = {} /\ current[m] = NoRecord
  BY DEF TypeOK
<1>2. upto \in [Partitions -> Nat] /\ Polled(m, upto) \subseteq Records
  BY FetchesType
<1>3. position[m] \in [Partitions -> Nat]
  BY DEF TypeOK
<1>4. ASSUME NEW p \in Partitions, owner[p] = m, NEW s \in UpTo(p, upto[p])
      PROVE  s \in Done \cup Polled(m, upto)
  <2>1. s \in Records /\ s[1] = p /\ s[2] <= upto[p] /\ Registered(s)
    BY DEF UpTo
  <2>2. s[2] \in Nat
    BY <2>1, RecordType
  <2>3. CASE s[2] <= position[m][p]
    <3>1. s \in InHand(m)
      BY <1>4, <2>1, <2>3 DEF OrderInv, MemberOrder, UpTo
    <3>2. s # NoRecord
      BY <2>1, RecordType
    <3>. QED
      BY <1>1, <3>1, <3>2 DEF InHand
  <2>4. CASE ~(s[2] <= position[m][p])
    <3>1. s[2] \in (position[m][p] + 1)..upto[p]
      BY <1>2, <1>3, <2>1, <2>2, <2>4, SMT
    <3>. QED
      BY <2>1, <3>1 DEF Polled
  <2>. QED
    BY <2>3, <2>4
<1>5. ASSUME NEW r \in Polled(m, upto), NEW s \in Earlier(r)
      PROVE  s \in Done \cup Polled(m, upto)
  <2>1. r \in Records /\ r[2] \in (position[m][r[1]] + 1)..upto[r[1]]
    BY DEF Polled
  <2>2. r[1] \in Partitions /\ r[2] \in Nat
    BY <2>1, RecordType
  <2>3. owner[r[1]] = m
    <3>1. CASE owner[r[1]] # m
      <4>1. upto[r[1]] = position[m][r[1]]
        BY <2>2, <3>1 DEF Fetches
      <4>. QED
        BY <1>3, <2>1, <2>2, <4>1, SMT
    <3>. QED
      BY <3>1
  <2>4. s \in Records /\ s[1] = r[1] /\ s[2] < r[2] /\ Registered(s)
    BY DEF Earlier
  <2>5. s[2] \in Nat
    BY <2>4, RecordType
  <2>6. s[2] <= upto[r[1]]
    BY <1>2, <1>3, <2>1, <2>2, <2>4, <2>5, SMT
  <2>. QED
    BY <1>4, <2>2, <2>3, <2>4, <2>6 DEF UpTo
<1>. QED
  BY <1>4, <1>5

LEMMA OrderStep == TypeOK /\ OrderInv /\ [Next]_vars => OrderInv'
<1>. SUFFICES ASSUME TypeOK, OrderInv, [Next]_vars
              PROVE  OrderInv'
  OBVIOUS
<1>. USE DEF group, shared, locals, missed, returns, history
<1>1. ASSUME \A m \in Members : MemberOrder(m)', Done \subseteq Done',
             committed' = committed, handled' = handled
      PROVE  OrderInv'
  BY <1>1 DEF OrderInv, UpTo, Earlier
<1>2. ASSUME NEW m \in Members, Start(m) \/ RefreshCache(m)
      PROVE  OrderInv'
  <2>1. /\ committed' = committed /\ owner' = owner /\ position' = position /\ batch' = batch
        /\ current' = current /\ pc' = pc
        /\ handled' = handled /\ failed' = failed /\ dropped' = dropped
    BY <1>2 DEF Start, RefreshCache
  <2>2. Done' = Done
    BY <2>1 DEF Done
  <2>. QED
    BY <1>1, <2>1, <2>2, MemberOrderKept DEF OrderInv
<1>3. ASSUME NEW m \in Members, Stop(m)
      PROVE  OrderInv'
  <2>1. /\ owner' = [p \in Partitions |-> IF owner[p] = m THEN Nobody ELSE owner[p]]
        /\ batch' = [batch EXCEPT ![m] = {}]
        /\ current' = [current EXCEPT ![m] = NoRecord]
        /\ pc' = [pc EXCEPT ![m] = "poll"]
        /\ UNCHANGED <<committed, position, returns>>
    BY <1>3 DEF Stop
  <2>2. Done' = Done
    BY <2>1 DEF Done
  <2>3. \A p \in Partitions : owner'[p] # m /\ (owner'[p] \in Members => owner'[p] = owner[p])
    BY <2>1, ConsumerAssumption
  <2>4. /\ batch'[m] = {} /\ current'[m] = NoRecord /\ pc'[m] = "poll"
        /\ \A n \in Members \ {m} :
             batch'[n] = batch[n] /\ current'[n] = current[n] /\ pc'[n] = pc[n]
    BY <2>1 DEF TypeOK
  <2>5. MemberOrder(m)'
    BY <2>3, <2>4 DEF MemberOrder
  <2>6. ASSUME NEW n \in Members \ {m}
        PROVE  MemberOrder(n)'
    <3>1. \A p \in Partitions : owner'[p] = n => owner[p] = n
      BY <2>3
    <3>. QED
      BY <2>1, <2>2, <2>4, <3>1, MemberOrderKept DEF OrderInv
  <2>. QED
    BY <1>1, <2>1, <2>2, <2>5, <2>6
<1>4. ASSUME NEW m \in Members, NEW p \in Partitions, Assign(m, p)
      PROVE  OrderInv'
  <2>1. /\ owner' = [owner EXCEPT ![p] = m]
        /\ position' = [position EXCEPT ![m][p] = committed[p]]
        /\ UNCHANGED <<committed, locals, history>>
    BY <1>4 DEF Assign
  <2>2. Done' = Done /\ \A n : InHand(n)' = InHand(n)
    BY <2>1 DEF Done, InHand
  <2>3. ASSUME NEW q \in Partitions, owner'[q] = m
        PROVE  UpTo(q, position'[m][q]) \subseteq InHand(m)
    <3>1. CASE q = p
      <4>1. position'[m][q] = committed[p]
        BY <2>1, <3>1 DEF TypeOK
      <4>. QED
        BY <3>1, <4>1 DEF OrderInv, InHand
    <3>2. CASE q # p
      <4>1. position'[m][q] = position[m][q] /\ owner[q] = m
        BY <2>1, <2>3, <3>2 DEF TypeOK
      <4>. QED
        BY <4>1 DEF OrderInv, MemberOrder
    <3>. QED
      BY <3>1, <3>2
  <2>4. MemberOrder(m)'
    <3>1. MemberOrder(m)
      BY DEF OrderInv
    <3>. QED
      BY <2>1, <2>2, <2>3, <3>1 DEF MemberOrder, UpTo, Earlier
  <2>5. ASSUME NEW n \in Members \ {m}
        PROVE  MemberOrder(n)'
    <3>1. position'[n] = position[n] /\ \A q \in Partitions : owner'[q] = n => owner[q] = n
      BY <2>1 DEF TypeOK
    <3>. QED
      BY <2>1, <2>2, <3>1, MemberOrderKept DEF OrderInv
  <2>. QED
    BY <1>1, <2>1, <2>2, <2>4, <2>5
<1>5. ASSUME NEW p \in Partitions, Revoke(p)
      PROVE  OrderInv'
  <2>1. /\ owner' = [owner EXCEPT ![p] = Nobody]
        /\ UNCHANGED <<committed, position, locals, history>>
    BY <1>5 DEF Revoke
  <2>2. Done' = Done
    BY <2>1 DEF Done
  <2>3. \A n \in Members, q \in Partitions : owner'[q] = n => owner[q] = n
    BY <2>1, ConsumerAssumption DEF TypeOK
  <2>. QED
    BY <1>1, <2>1, <2>2, <2>3, MemberOrderKept DEF OrderInv
<1>6. ASSUME NEW m \in Members, Poll(m)
      PROVE  OrderInv'
  <2>1. PICK upto \in Fetches(m) :
            /\ batch' = [batch EXCEPT ![m] = Polled(m, upto)]
            /\ position' = [position EXCEPT ![m] = upto]
    BY <1>6 DEF Poll
  <2>2. /\ pc[m] = "poll" /\ pc' = [pc EXCEPT ![m] = "record"]
        /\ UNCHANGED <<committed, owner, current, history>>
    BY <1>6 DEF Poll
  <2>3. Done' = Done
    BY <2>2 DEF Done
  <2>4. /\ batch'[m] = Polled(m, upto) /\ position'[m] = upto /\ pc'[m] = "record"
        /\ current'[m] = NoRecord
        /\ \A n \in Members \ {m} :
             batch'[n] = batch[n] /\ position'[n] = position[n] /\ pc'[n] = pc[n]
    BY <2>1, <2>2 DEF TypeOK
  <2>5. Done \cup Polled(m, upto) \subseteq InHand(m)'
    BY <2>3, <2>4 DEF InHand
  <2>6. MemberOrder(m)'
    BY <2>2, <2>4, <2>5, PolledOrder DEF MemberOrder, UpTo, Earlier
  <2>7. \A n \in Members \ {m} : MemberOrder(n)'
    BY <2>2, <2>3, <2>4, MemberOrderKept DEF OrderInv
  <2>. QED
    BY <1>1, <2>2, <2>3, <2>6, <2>7
<1>7. ASSUME NEW m \in Members, PollFails(m)
      PROVE  OrderInv'
  <2>1. PICK upto \in Fetches(m) :
            /\ dropped' = dropped \cup Polled(m, upto)
            /\ position' = [position EXCEPT ![m] = upto]
    BY <1>7 DEF PollFails
  <2>2. pc[m] = "poll" /\ UNCHANGED <<group, locals, handled, failed>>
    BY <1>7 DEF PollFails
  <2>3. Done' = Done \cup Polled(m, upto)
    BY <2>1, <2>2 DEF Done
  <2>4. /\ batch'[m] = {} /\ current'[m] = NoRecord /\ position'[m] = upto
        /\ \A n \in Members \ {m} : position'[n] = position[n]
    BY <2>1, <2>2 DEF TypeOK
  <2>5. MemberOrder(m)'
    BY <2>2, <2>3, <2>4, PolledOrder DEF MemberOrder, UpTo, Earlier, InHand
  <2>6. \A n \in Members \ {m} : MemberOrder(n)'
    BY <2>2, <2>3, <2>4, MemberOrderKept DEF OrderInv
  <2>. QED
    BY <1>1, <2>2, <2>3, <2>5, <2>6
<1>8. ASSUME NEW m \in Members, NEW left, NextRecord(m, left), left \subseteq batch[m],
             Done \subseteq Done',
             \A s \in (batch[m] \ left) \cup {current[m]} :
                 s \in Records /\ Registered(s) => s \in Done',
             \A p \in Partitions : UpTo(p, committed[p])' \subseteq Done',
             UNCHANGED <<owner, position, handled>>
      PROVE  OrderInv'
  <2>1. MemberOrder(m)'
    BY <1>8, NextRecordOrder
  <2>2. \A n \in Members \ {m} :
          batch'[n] = batch[n] /\ current'[n] = current[n] /\ pc'[n] = pc[n]
    BY <1>8 DEF NextRecord, TypeOK
  <2>. QED
    BY <1>8, <2>1, <2>2, OrderOfStep
<1>9. ASSUME NEW m \in Members, NEW r \in Records, SkipRecord(m, r)
      PROVE  OrderInv'
  <2>1. /\ pc[m] = "record" /\ ~Registered(r) /\ NextRecord(m, batch[m] \ {r})
        /\ UNCHANGED <<group, position, history>>
    BY <1>9 DEF SkipRecord
  <2>2. Done' = Done /\ current[m] = NoRecord
    BY <2>1 DEF Done, TypeOK
  <2>3. \A s \in (batch[m] \ (batch[m] \ {r})) \cup {current[m]} :
          s \in Records /\ Registered(s) => s \in Done'
    BY <2>1, <2>2, RecordType
  <2>4. \A p \in Partitions : UpTo(p, committed[p])' \subseteq Done'
    BY <2>1, <2>2 DEF OrderInv, UpTo
  <2>. QED
    BY <1>8, <2>1, <2>2, <2>3, <2>4
<1>10. ASSUME NEW m \in Members, NEW r \in Records, HandleRecord(m, r)
       PROVE  OrderInv'
  <2>1. /\ pc[m] = "record" /\ r \in NextOf(m)
        /\ UNCHANGED <<group, position, applied, handled, dropped>>
    BY <1>10 DEF HandleRecord
  <2>2. current[m] = NoRecord
    BY <2>1 DEF TypeOK
  <2>3. CASE ~Parses(r)
    <3>1. failed' = failed \cup {r} /\ NextRecord(m, batch[m] \ {r})
      BY <1>10, <2>3 DEF HandleRecord
    <3>2. Done' = Done \cup {r}
      BY <2>1, <3>1 DEF Done
    <3>3. \A s \in (batch[m] \ (batch[m] \ {r})) \cup {current[m]} :
            s \in Records /\ Registered(s) => s \in Done'
      BY <2>2, <3>2, RecordType
    <3>4. \A p \in Partitions : UpTo(p, committed[p])' \subseteq Done'
      BY <2>1, <3>2 DEF OrderInv, UpTo
    <3>. QED
      BY <1>8, <2>1, <3>1, <3>2, <3>3, <3>4
  <2>4. CASE Parses(r)
    <3>1. /\ batch' = [batch EXCEPT ![m] = @ \ {r}]
          /\ current' = [current EXCEPT ![m] = r]
          /\ pc' = [pc EXCEPT ![m] = "handler"]
          /\ failed' = failed
      BY <1>10, <2>4 DEF HandleRecord
    <3>2. /\ batch'[m] = batch[m] \ {r} /\ current'[m] = r /\ pc'[m] = "handler"
          /\ \A n \in Members \ {m} :
               batch'[n] = batch[n] /\ current'[n] = current[n] /\ pc'[n] = pc[n]
      BY <3>1 DEF TypeOK
    <3>3. Done' = Done
      BY <2>1, <3>1 DEF Done
    <3>4. r \in batch[m] /\ \A s \in batch[m] : s[1] = r[1] => r[2] <= s[2]
      BY <2>1 DEF NextOf
    <3>5. InHand(m) \subseteq InHand(m)' \cup {NoRecord}
      BY <2>2, <3>2, <3>3 DEF InHand
    <3>6. ASSUME NEW s \in Earlier(r)
          PROVE  s \in Done
      <4>1. s \in Records /\ s[1] = r[1] /\ s[2] < r[2]
        BY DEF Earlier
      <4>2. s[2] \in Nat /\ r[2] \in Nat /\ s # NoRecord
        BY <4>1, RecordType
      <4>3. s \in InHand(m)
        BY <3>4 DEF OrderInv, MemberOrder
      <4>4. s \notin batch[m]
        <5>1. ~(r[2] <= s[2])
          BY <4>1, <4>2, SMT
        <5>. QED
          BY <3>4, <4>1, <5>1
      <4>. QED
        BY <2>2, <4>2, <4>3, <4>4 DEF InHand
    <3>7. \A s \in Records : s \in InHand(m) => s \in InHand(m)'
      BY <3>5, RecordType
    <3>8. MemberOrder(m)'
      <4>1. \A p \in Partitions : owner[p] = m => UpTo(p, position[m][p]) \subseteq InHand(m)'
        BY <3>7 DEF OrderInv, MemberOrder, UpTo
      <4>2. \A q \in batch[m] : Earlier(q) \subseteq InHand(m)'
        BY <3>7 DEF OrderInv, MemberOrder, Earlier
      <4>. QED
        BY <2>1, <3>2, <3>3, <3>6, <4>1, <4>2 DEF MemberOrder, UpTo, Earlier
    <3>9. \A n \in Members \ {m} : MemberOrder(n)'
      BY <2>1, <3>2, <3>3, MemberOrderKept DEF OrderInv
    <3>. QED
      BY <1>1, <2>1, <3>3, <3>8, <3>9
  <2>. QED
    BY <2>3, <2>4
<1>11. ASSUME NEW m \in Members, UpdateFails(m) \/ Release(m) \/ ReleaseFails(m)
                                  \/ (ApplyFails(m) /\ ~HasBizID(current[m]))
       PROVE  OrderInv'
  <2>1. /\ failed' = failed \cup {current[m]} /\ NextRecord(m, batch[m])
        /\ UNCHANGED <<group, position, handled, dropped>>
    BY <1>11 DEF UpdateFails, Release, ReleaseFails, ApplyFails, HandlerFails
  <2>2. Done' = Done \cup {current[m]}
    BY <2>1 DEF Done
  <2>3. \A p \in Partitions : UpTo(p, committed[p])' \subseteq Done'
    BY <2>1, <2>2 DEF OrderInv, UpTo
  <2>. QED
    BY <1>8, <2>1, <2>2, <2>3
<1>12. ASSUME NEW m \in Members, HandlerReturns(m)
       PROVE  OrderInv'
  <2>1. /\ pc[m] = "handler" /\ handled' = handled \cup {current[m]}
        /\ pc' = [pc EXCEPT ![m] = "commit"]
        /\ UNCHANGED <<group, position, batch, current, failed, dropped>>
    BY <1>12 DEF HandlerReturns
  <2>2. Done' = Done \cup {current[m]} /\ pc'[m] = "commit"
    BY <2>1 DEF Done, TypeOK
  <2>3. Earlier(current[m]) \subseteq Done
    BY <2>1 DEF OrderInv, MemberOrder, TypeOK
  <2>4. InHand(m) \subseteq InHand(m)'
    BY <2>1, <2>2 DEF InHand
  <2>5. MemberOrder(m)'
    <3>1. MemberOrder(m)
      BY DEF OrderInv
    <3>. QED
      BY <2>1, <2>2, <2>3, <2>4, <3>1 DEF MemberOrder, UpTo, Earlier
  <2>6. \A n \in Members \ {m} : pc'[n] = pc[n]
    BY <2>1 DEF TypeOK
  <2>7. \A p \in Partitions : UpTo(p, committed[p])' \subseteq Done'
    BY <2>1, <2>2 DEF OrderInv, UpTo
  <2>. QED
    BY <2>1, <2>2, <2>3, <2>5, <2>6, <2>7, OrderOfStep
<1>13. ASSUME NEW m \in Members, CommitRecord(m)
       PROVE  OrderInv'
  <2>. DEFINE c == current[m]
  <2>1. /\ pc[m] = "commit" /\ committed' = [committed EXCEPT ![c[1]] = c[2]]
        /\ NextRecord(m, batch[m]) /\ UNCHANGED <<owner, position, history>>
    BY <1>13 DEF CommitRecord
  <2>2. Done' = Done /\ c \in Records /\ c # NoRecord
    BY <2>1, RecordType DEF Done, TypeOK
  <2>3. c \in Done /\ Earlier(c) \subseteq Done
    BY <2>1, <2>2 DEF OrderInv, MemberOrder, Done
  <2>4. ASSUME NEW p \in Partitions, NEW s \in UpTo(p, committed'[p])
        PROVE  s \in Done
    <3>1. CASE p # c[1]
      <4>1. committed'[p] = committed[p]
        BY <2>1, <3>1 DEF TypeOK
      <4>. QED
        BY <2>4, <4>1 DEF OrderInv
    <3>2. CASE p = c[1]
      <4>1. committed'[p] = c[2]
        BY <2>1, <3>2 DEF TypeOK
      <4>2. s \in Records /\ s[1] = c[1] /\ s[2] <= c[2] /\ Registered(s)
        BY <2>4, <3>2, <4>1 DEF UpTo
      <4>3. /\ s[2] \in Nat /\ s = <<s[1], s[2]>>
            /\ c[2] \in Nat /\ c = <<c[1], c[2]>>
        BY <2>2, <4>2, RecordType
      <4>4. s = c \/ s[2] < c[2]
        <5>1. s[2] = c[2] \/ s[2] < c[2]
          BY <4>2, <4>3, SMT
        <5>. QED
          BY <4>2, <4>3, <5>1
      <4>. QED
        BY <2>3, <4>2, <4>4 DEF Earlier
    <3>. QED
      BY <3>1, <3>2
  <2>5. \A p \in Partitions : UpTo(p, committed[p])' \subseteq Done'
    BY <2>2, <2>4 DEF UpTo
  <2>. QED
    BY <1>8, <2>1, <2>2, <2>3, <2>5
<1>14. ASSUME NEW m \in Members, CommitFails(m)
       PROVE  OrderInv'
  <2>1. /\ pc[m] = "commit" /\ NextRecord(m, batch[m]) /\ UNCHANGED <<group, position, history>>
    BY <1>14 DEF CommitFails
  <2>2. Done' = Done /\ current[m] \in Done
    BY <2>1 DEF Done, OrderInv, MemberOrder
  <2>3. \A p \in Partitions : UpTo(p, committed[p])' \subseteq Done'
    BY <2>1, <2>2 DEF OrderInv, UpTo
  <2>. QED
    BY <1>8, <2>1, <2>2, <2>3
<1>15. ASSUME NEW m \in Members, SkipDuplicate(m) \/ TryClaim(m) \/ ApplyMetric(m)
                                  \/ (ApplyFails(m) /\ HasBizID(current[m]))
       PROVE  OrderInv'
  <2>1. /\ UNCHANGED <<committed, owner, position, batch, current, handled, failed, dropped>>
        /\ \E step \in {"handler", "update", "release"} : pc' = [pc EXCEPT ![m] = step]
    BY <1>15 DEF SkipDuplicate, TryClaim, ApplyMetric, ApplyFails, NextUpdate, TypeOK
  <2>2. Done' = Done /\ \A n : InHand(n)' = InHand(n)
    BY <2>1 DEF Done, InHand
  <2>3. pc'[m] # "commit" /\ \A n \in Members \ {m} : pc'[n] = pc[n]
    BY <2>1 DEF TypeOK
  <2>4. MemberOrder(m)'
    <3>1. MemberOrder(m)
      BY DEF OrderInv
    <3>. QED
      BY <2>1, <2>2, <2>3, <3>1 DEF MemberOrder, UpTo, Earlier
  <2>5. \A n \in Members \ {m} : MemberOrder(n)'
    BY <2>1, <2>2, <2>3, MemberOrderKept DEF OrderInv
  <2>. QED
    BY <1>1, <2>1, <2>2, <2>4, <2>5
<1>16. CASE UNCHANGED vars
  <2>1. UNCHANGED <<committed, owner, position, batch, current, pc, handled>> /\ Done' = Done
    BY <1>16 DEF vars, Done
  <2>. QED
    BY <1>1, <2>1, MemberOrderKept DEF OrderInv
<1>. QED
  BY <1>2, <1>3, <1>4, <1>5, <1>6, <1>7, <1>9, <1>10, <1>11, <1>12, <1>13, <1>14, <1>15,
     <1>16
  DEF Next, Consume

LEMMA OrderInvCorrect == Spec => []OrderInv
BY InitOrder, OrderStep, TypeCorrect, PTL DEF Spec

(* Every record below a committed offset was handled, failed in its handler or  *)
(* came with a failed poll, or nobody handles its kind: crashes, rebalances and *)
(* failed commits by themselves pass over no record.                            *)
THEOREM CommittedIsAccountedForCorrect == Spec => []CommittedIsAccountedFor
<1>1. TypeOK /\ OrderInv => CommittedIsAccountedFor
  <2>. SUFFICES ASSUME OrderInv, NEW r \in Records, r[2] <= committed[r[1]], Registered(r)
                PROVE  r \in Done
    BY DEF CommittedIsAccountedFor, Done
  <2>1. r[1] \in Partitions
    BY RecordType
  <2>. QED
    BY <2>1 DEF OrderInv, UpTo
<1>. QED
  BY <1>1, OrderInvCorrect, TypeCorrect, PTL

(* A record is not handled before an earlier one of its partition was taken up  *)
(* or lost, by whatever member.                                                 *)
THEOREM AttemptedInOrderCorrect == Spec => []AttemptedInOrder
<1>1. OrderInv => AttemptedInOrder
  BY DEF OrderInv, AttemptedInOrder, Earlier, Done
<1>. QED
  BY <1>1, OrderInvCorrect, PTL
================================================================================
