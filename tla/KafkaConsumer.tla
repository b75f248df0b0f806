------------------------------ MODULE KafkaConsumer ----------------------------
(* The Kafka consumer of kafka/listener: consumer.go polls, hands each record   *)
(* to the handlers of its topic and commits its offset, and a handler applies   *)
(* the metric updates of the record one after the other.  Replicas form one     *)
(* consumer group.                                                              *)
(*                                                                              *)
(* The broker and the client library are external: a partition belongs to at    *)
(* most one member, a member starts reading it at the committed offset, and a   *)
(* poll moves the member's position past all it returned, whatever becomes of   *)
(* the records.  Of UpdateUserTaskProgress the claim, the update as one step    *)
(* and the release are here, since a delivery may meet the claim of another;    *)
(* the inside of the update is module TaskProgress.                             *)
EXTENDS Naturals, Sequences, FiniteSets

CONSTANTS
    Members,    \* replicas of the service
    Partitions, \* partitions of the topics that are consumed
    Log,        \* [Partitions -> sequence of the kinds of its records]
    Nobody,     \* the owner of an unassigned partition
    NoRecord,   \* the record of a member that handles none
    Faults,     \* the kinds of fault that may happen
    MaxFaults   \* bound: faults in a behaviour

Kinds == {"order", "deposit", "kyc", "paymentMethod", "otherStatus", "malformed",
          "unregistered"}

FaultKinds == {"update", "release", "fetch", "commit", "cache", "crash", "rebalance"}

ASSUME ConsumerAssumption ==
    /\ Nobody \notin Members
    /\ Log \in [Partitions -> Seq(Kinds)]
    /\ NoRecord \notin Partitions \X Nat
    /\ Faults \subseteq FaultKinds
    /\ MaxFaults \in Nat

VARIABLES
    claims,     \* metric_event_dedup: the metrics claimed for each record
    committed,  \* the committed offset of each partition
    owner,      \* the member each partition is assigned to
    up,         \* the members that run
    loaded,     \* the members whose metric cache is filled
    position,   \* where each member will go on to fetch
    batch,      \* the records of its last poll it has not come to yet
    current,    \* the record it handles
    todo,       \* the metrics its handler has still to update
    pc,         \* where it is in run and handleRecord
    faults,     \* faults so far
    applied,    \* history: the metrics updated for each record
    abandoned,  \* history: those whose claim a crash or a failed release left behind
    overtaken,  \* history: those taken for duplicates while another member was at them
    handled,    \* history: the records whose handlers returned no error
    failed,     \* history: the records whose handlers returned an error
    dropped     \* history: the records of polls that reported an error

group   == <<committed, owner>>
shared  == <<claims, committed, owner>>
locals  == <<batch, current, todo, pc>>
missed  == <<abandoned, overtaken>>
returns == <<handled, failed, dropped>>
history == <<applied, missed, returns>>
vars    == <<claims, committed, owner, up, loaded, position, batch, current, todo, pc,
             faults, applied, abandoned, overtaken, handled, failed, dropped>>

--------------------------------------------------------------------------------
(* The records and what their handlers do with them. *)

Offsets == UNION {0..Len(Log[p]) : p \in Partitions}

Records == {r \in Partitions \X Offsets : r[2] \in 1..Len(Log[r[1]])}

Kind(r) == Log[r[1]][r[2]]

(* HandlersForTopic: a topic may be consumed that no handler is registered for. *)
Registered(r) == Kind(r) # "unregistered"

(* A record that does not parse, or lacks a field, is an error. *)
Parses(r) == Kind(r) # "malformed"

(* The metrics that the handler of each topic updates, in its order. *)
OrderUpdates         == <<"trade_count_accum", "trade_amount", "trade_amount_accum">>
DepositUpdates       == <<"deposit_amount", "deposit_amount_accum">>
KycUpdates           == <<"kyc_passed">>
PaymentMethodUpdates == <<"payment_method_added">>

(* An order, a deposit or a check that did not succeed has nothing to update. *)
Updates(r) ==
    CASE Kind(r) = "order"         -> OrderUpdates
      [] Kind(r) = "deposit"       -> DepositUpdates
      [] Kind(r) = "kyc"           -> KycUpdates
      [] Kind(r) = "paymentMethod" -> PaymentMethodUpdates
      [] OTHER                     -> <<>>

Metrics == {"trade_count_accum", "trade_amount", "trade_amount_accum",
            "deposit_amount", "deposit_amount_accum", "kyc_passed",
            "payment_method_added"}

MetricsOf(r) == {Updates(r)[i] : i \in DOMAIN Updates(r)}

(* orderBizID: orders and deposits have an id, no two records the same.  The    *)
(* other handlers pass none, and nothing is claimed for their updates.          *)
HasBizID(r) == Kind(r) \in {"order", "deposit"}

Init ==
    /\ claims = [r \in Records |-> {}]
    /\ committed = [p \in Partitions |-> 0]
    /\ owner = [p \in Partitions |-> Nobody]
    /\ up = {}
    /\ loaded = {}
    /\ position = [m \in Members |-> [p \in Partitions |-> 0]]
    /\ batch = [m \in Members |-> {}]
    /\ current = [m \in Members |-> NoRecord]
    /\ todo = [m \in Members |-> <<>>]
    /\ pc = [m \in Members |-> "poll"]
    /\ faults = 0
    /\ applied = [r \in Records |-> {}]
    /\ abandoned = [r \in Records |-> {}]
    /\ overtaken = [r \in Records |-> {}]
    /\ handled = {}
    /\ failed = {}
    /\ dropped = {}

Fault(kind) ==
    /\ kind \in Faults
    /\ faults < MaxFaults
    /\ faults' = faults + 1

--------------------------------------------------------------------------------
(* The process and its place in the group. *)

(* The first use of the metric cache tries its first load; it is taken together *)
(* with the start here, and on its own in module ServiceProcess.                *)
Start(m) ==
    /\ m \notin up
    /\ up' = up \cup {m}
    /\ \/ loaded' = loaded \cup {m} /\ UNCHANGED faults
       \/ Fault("cache") /\ UNCHANGED loaded
    /\ UNCHANGED <<shared, position, locals, history>>

(* The refresh loop of the cache. *)
RefreshCache(m) ==
    /\ m \in up \ loaded
    /\ loaded' = loaded \cup {m}
    /\ UNCHANGED <<shared, up, position, locals, faults, history>>

(* A member has an update in hand: claimed, if its record has an id, and not    *)
(* applied, or failed and not released.                                         *)
Updating(m) == pc[m] \in {"update", "release"}

InUpdate(m, r, metric) == Updating(m) /\ current[m] = r /\ Head(todo[m]) = metric

With(f, r, metric) == [f EXCEPT ![r] = @ \cup {metric}]

(* main returns, or is killed, without waiting for the consumer.  A claim whose *)
(* update is not applied is left behind.                                        *)
Stop(m) ==
    /\ m \in up
    /\ Fault("crash")
    /\ up' = up \ {m}
    /\ loaded' = loaded \ {m}
    /\ owner' = [p \in Partitions |-> IF owner[p] = m THEN Nobody ELSE owner[p]]
    /\ batch' = [batch EXCEPT ![m] = {}]
    /\ current' = [current EXCEPT ![m] = NoRecord]
    /\ todo' = [todo EXCEPT ![m] = <<>>]
    /\ pc' = [pc EXCEPT ![m] = "poll"]
    /\ abandoned' = IF Updating(m) /\ HasBizID(current[m])
                        THEN With(abandoned, current[m], Head(todo[m])) ELSE abandoned
    /\ UNCHANGED <<claims, committed, position, applied, overtaken, returns>>

(* Faulty: a member goes on where it was when it last had the partition. *)
Assign_KeepsPosition(m, p) ==
    /\ m \in up
    /\ owner[p] = Nobody
    /\ owner' = [owner EXCEPT ![p] = m]
    /\ UNCHANGED <<claims, committed, up, loaded, position, locals, faults, history>>

(* A partition without an owner is assigned and read from its committed offset. *)
Assign(m, p) ==
    /\ m \in up
    /\ owner[p] = Nobody
    /\ owner' = [owner EXCEPT ![p] = m]
    /\ position' = [position EXCEPT ![m][p] = committed[p]]
    /\ UNCHANGED <<claims, committed, up, loaded, locals, faults, history>>

(* A partition is taken from a member in the middle of whatever it does: the    *)
(* records it has polled are still handled.                                     *)
Revoke(p) ==
    /\ owner[p] # Nobody
    /\ Fault("rebalance")
    /\ owner' = [owner EXCEPT ![p] = Nobody]
    /\ UNCHANGED <<claims, committed, up, loaded, position, locals, history>>

--------------------------------------------------------------------------------
(* run: PollFetches and EachRecord. *)

(* What a poll may return: of the partitions the member owns, the records up to *)
(* some offsets.                                                                *)
Fetches(m) ==
    {upto \in [Partitions -> Offsets] : \A p \in Partitions :
        upto[p] \in IF owner[p] = m THEN position[m][p]..Len(Log[p])
                                    ELSE {position[m][p]}}

Polled(m, upto) ==
    {r \in Records : r[2] \in (position[m][r[1]] + 1)..upto[r[1]]}

Poll(m) ==
    /\ m \in up
    /\ pc[m] = "poll"
    /\ \E upto \in Fetches(m) :
        /\ Polled(m, upto) # {}
        /\ batch' = [batch EXCEPT ![m] = Polled(m, upto)]
        /\ position' = [position EXCEPT ![m] = upto]
    /\ pc' = [pc EXCEPT ![m] = "record"]
    /\ UNCHANGED <<shared, up, loaded, current, todo, faults, history>>

(* A poll that reports an error for some partition is dropped as a whole, with *)
(* the records it brought of the others.                                       *)
PollFails(m) ==
    /\ m \in up
    /\ pc[m] = "poll"
    /\ Fault("fetch")
    /\ \E upto \in Fetches(m) :
        /\ dropped' = dropped \cup Polled(m, upto)
        /\ position' = [position EXCEPT ![m] = upto]
    /\ UNCHANGED <<shared, up, loaded, locals, applied, missed, handled, failed>>

(* Faulty: the record that was handled stays in scope. *)
NextRecord_KeepsRecord(m, left) ==
    /\ batch' = [batch EXCEPT ![m] = left]
    /\ pc' = [pc EXCEPT ![m] = IF left = {} THEN "poll" ELSE "record"]
    /\ todo' = [todo EXCEPT ![m] = <<>>]
    /\ UNCHANGED current

(* EachRecord goes on to the records left, or run to the next poll. *)
NextRecord(m, left) ==
    /\ batch' = [batch EXCEPT ![m] = left]
    /\ pc' = [pc EXCEPT ![m] = IF left = {} THEN "poll" ELSE "record"]
    /\ current' = [current EXCEPT ![m] = NoRecord]
    /\ todo' = [todo EXCEPT ![m] = <<>>]

(* A record of the batch, each partition in its order. *)
NextOf(m) == {r \in batch[m] : \A s \in batch[m] : s[1] = r[1] => r[2] <= s[2]}

(* Without a handler the record is passed over and its offset not committed. *)
SkipRecord(m, r) ==
    /\ m \in up
    /\ pc[m] = "record"
    /\ r \in NextOf(m)
    /\ ~Registered(r)
    /\ NextRecord(m, batch[m] \ {r})
    /\ UNCHANGED <<shared, up, loaded, position, faults, history>>

(* handleRecord calls the handler, which parses the record. *)
HandleRecord(m, r) ==
    /\ m \in up
    /\ pc[m] = "record"
    /\ r \in NextOf(m)
    /\ Registered(r)
    /\ IF ~Parses(r)
        THEN /\ failed' = failed \cup {r}
             /\ NextRecord(m, batch[m] \ {r})
        ELSE /\ batch' = [batch EXCEPT ![m] = @ \ {r}]
             /\ current' = [current EXCEPT ![m] = r]
             /\ todo' = [todo EXCEPT ![m] = Updates(r)]
             /\ pc' = [pc EXCEPT ![m] = "handler"]
             /\ UNCHANGED failed
    /\ UNCHANGED <<shared, up, loaded, position, faults, applied, missed,
                   handled, dropped>>

--------------------------------------------------------------------------------
(* The handler: applyMetricEvent and UpdateUserTaskProgress for one metric      *)
(* after the other.                                                             *)

(* GetByCode finds every metric or, before the first load, none. *)
MetricFound(m) == m \in loaded

NextUpdate(m) ==
    /\ pc[m] = "handler"
    /\ todo[m] # <<>>

Duplicate(m) == HasBizID(current[m]) /\ Head(todo[m]) \in claims[current[m]]

(* The row of metric_event_dedup is there: the update is taken for made, whether *)
(* it was, is being made by another member, or was given up by one.             *)
SkipDuplicate(m) ==
    /\ NextUpdate(m)
    /\ MetricFound(m)
    /\ Duplicate(m)
    /\ todo' = [todo EXCEPT ![m] = Tail(@)]
    /\ overtaken' = IF \E n \in Members \ {m} : InUpdate(n, current[m], Head(todo[m]))
                        THEN With(overtaken, current[m], Head(todo[m])) ELSE overtaken
    /\ UNCHANGED <<shared, up, loaded, position, batch, current, pc, faults, applied,
                   abandoned, returns>>

TryClaim(m) ==
    /\ NextUpdate(m)
    /\ MetricFound(m)
    /\ ~Duplicate(m)
    /\ claims' = IF HasBizID(current[m])
                    THEN With(claims, current[m], Head(todo[m])) ELSE claims
    /\ pc' = [pc EXCEPT ![m] = "update"]
    /\ UNCHANGED <<group, up, loaded, position, batch, current, todo, faults, history>>

(* applyMetricToProgresses, which updates the rows of the user. *)
ApplyMetric(m) ==
    /\ pc[m] = "update"
    /\ applied' = With(applied, current[m], Head(todo[m]))
    /\ todo' = [todo EXCEPT ![m] = Tail(@)]
    /\ pc' = [pc EXCEPT ![m] = "handler"]
    /\ UNCHANGED <<shared, up, loaded, position, batch, current, faults, missed, returns>>

(* The handler returns an error: the updates that are left are not made, the    *)
(* offset is not committed and the next record is handled.                      *)
HandlerFails(m) ==
    /\ failed' = failed \cup {current[m]}
    /\ NextRecord(m, batch[m])

(* The metric is not in the cache, or a statement up to TryClaim fails. *)
UpdateFails(m) ==
    /\ NextUpdate(m)
    /\ \/ ~MetricFound(m) /\ UNCHANGED faults
       \/ MetricFound(m) /\ Fault("update")
    /\ HandlerFails(m)
    /\ UNCHANGED <<shared, up, loaded, position, applied, missed, handled, dropped>>

(* Faulty: the error is returned with the claim still there. *)
ApplyFails_NoRelease(m) ==
    /\ pc[m] = "update"
    /\ Fault("update")
    /\ HandlerFails(m)
    /\ UNCHANGED <<shared, up, loaded, position, applied, missed, handled, dropped>>

(* A statement of the update fails: a claim, if there is one, is to be released. *)
ApplyFails(m) ==
    /\ pc[m] = "update"
    /\ Fault("update")
    /\ IF HasBizID(current[m])
        THEN /\ pc' = [pc EXCEPT ![m] = "release"]
             /\ UNCHANGED <<batch, current, todo, failed>>
        ELSE HandlerFails(m)
    /\ UNCHANGED <<shared, up, loaded, position, applied, missed, handled, dropped>>

Release(m) ==
    /\ pc[m] = "release"
    /\ claims' = [claims EXCEPT ![current[m]] = @ \ {Head(todo[m])}]
    /\ HandlerFails(m)
    /\ UNCHANGED <<group, up, loaded, position, faults, applied, missed, handled, dropped>>

(* The error is logged, and the claim stays. *)
ReleaseFails(m) ==
    /\ pc[m] = "release"
    /\ Fault("release")
    /\ abandoned' = With(abandoned, current[m], Head(todo[m]))
    /\ HandlerFails(m)
    /\ UNCHANGED <<shared, up, loaded, position, applied, overtaken, handled, dropped>>

HandlerReturns(m) ==
    /\ pc[m] = "handler"
    /\ todo[m] = <<>>
    /\ handled' = handled \cup {current[m]}
    /\ pc' = [pc EXCEPT ![m] = "commit"]
    /\ UNCHANGED <<shared, up, loaded, position, batch, current, todo, faults,
                   applied, missed, failed, dropped>>

(* Faulty: everything that was polled is committed. *)
CommitRecord_WholePoll(m) ==
    /\ pc[m] = "commit"
    /\ committed' = [committed EXCEPT ![current[m][1]] = position[m][current[m][1]]]
    /\ NextRecord(m, batch[m])
    /\ UNCHANGED <<claims, owner, up, loaded, position, faults, history>>

(* CommitRecords sets the offset of the partition, whoever owns it by now. *)
CommitRecord(m) ==
    /\ pc[m] = "commit"
    /\ committed' = [committed EXCEPT ![current[m][1]] = current[m][2]]
    /\ NextRecord(m, batch[m])
    /\ UNCHANGED <<claims, owner, up, loaded, position, faults, history>>

(* Faulty: the member goes back to polling with the rest of its batch dropped. *)
CommitFails_DropsBatch(m) ==
    /\ pc[m] = "commit"
    /\ Fault("commit")
    /\ NextRecord(m, {})
    /\ UNCHANGED <<shared, up, loaded, position, history>>

(* A failed commit is logged and the next record handled. *)
CommitFails(m) ==
    /\ pc[m] = "commit"
    /\ Fault("commit")
    /\ NextRecord(m, batch[m])
    /\ UNCHANGED <<shared, up, loaded, position, history>>

--------------------------------------------------------------------------------

Consume(m) ==
    \/ Poll(m)
    \/ \E r \in Records : SkipRecord(m, r) \/ HandleRecord(m, r)
    \/ SkipDuplicate(m)
    \/ TryClaim(m)
    \/ ApplyMetric(m)
    \/ UpdateFails(m)
    \/ Release(m)
    \/ HandlerReturns(m)
    \/ CommitRecord(m)

Next ==
    \/ \E m \in Members :
        \/ Start(m) \/ RefreshCache(m) \/ Stop(m)
        \/ Consume(m)
        \/ PollFails(m) \/ ApplyFails(m) \/ ReleaseFails(m) \/ CommitFails(m)
        \/ \E p \in Partitions : Assign(m, p)
    \/ \E p \in Partitions : Revoke(p)

Spec == Init /\ [][Next]_vars

(* A stopped replica is started again, the group assigns every partition to     *)
(* some member, and the goroutines of consumer and cache keep running.          *)
Fairness ==
    /\ \A m \in Members : WF_vars(Start(m)) /\ WF_vars(RefreshCache(m)) /\ WF_vars(Consume(m))
    /\ \A p \in Partitions : WF_vars(\E m \in Members : Assign(m, p))

FairSpec == Spec /\ Fairness

--------------------------------------------------------------------------------

(* Every variable has the shape its comment gives, a member that is down has    *)
(* nothing in hand, and the record of a handler is set while it runs.           *)
TypeOK ==
    /\ claims \in [Records -> SUBSET Metrics]
    /\ committed \in [Partitions -> Nat]
    /\ owner \in [Partitions -> up \cup {Nobody}]
    /\ up \subseteq Members
    /\ loaded \subseteq up
    /\ position \in [Members -> [Partitions -> Nat]]
    /\ batch \in [Members -> SUBSET Records]
    /\ current \in [Members -> Records \cup {NoRecord}]
    /\ todo \in [Members -> Seq(Metrics)]
    /\ pc \in [Members -> {"poll", "record", "handler", "update", "release", "commit"}]
    /\ faults \in 0..MaxFaults
    /\ applied \in [Records -> SUBSET Metrics]
    /\ abandoned \in [Records -> SUBSET Metrics]
    /\ overtaken \in [Records -> SUBSET Metrics]
    /\ handled \subseteq Records
    /\ failed \subseteq Records
    /\ dropped \subseteq Records
    /\ \A m \in Members :
        /\ m \notin up => pc[m] = "poll"
        /\ pc[m] \in {"handler", "update", "release", "commit"} <=> current[m] # NoRecord
        /\ Updating(m) => todo[m] # <<>>
        /\ pc[m] = "poll" => batch[m] = {}

(* A handler that returns no error has made its updates or has taken them for   *)
(* duplicates.  Over as many deliveries as it takes, an update of a record that *)
(* was handled is made, unless a crash or a failed release left its claim       *)
(* behind, or two members had the record: one passed the update over while the  *)
(* other was at it, and that one still is or has failed.                        *)
HandledIsApplied ==
    \A r \in handled : \A metric \in MetricsOf(r) :
        \/ metric \in applied[r] \cup abandoned[r]
        \/ /\ metric \in overtaken[r]
           /\ r \in failed \/ \E m \in Members : InUpdate(m, r, metric)

(* Every record below a committed offset was handled, or its handler returned   *)
(* an error, or it came with a failed poll, or nobody handles its kind: crashes, *)
(* rebalances and failed commits by themselves pass over no record, in whatever *)
(* order old and new owners of a partition commit.                              *)
CommittedIsAccountedFor ==
    \A r \in Records :
        r[2] <= committed[r[1]] /\ Registered(r) => r \in handled \cup failed \cup dropped

(* The records of a partition are attempted in their order: a later one is not  *)
(* handled before an earlier one was taken up or lost, by whatever member.      *)
AttemptedInOrder ==
    \A r \in handled, s \in Records :
        s[1] = r[1] /\ s[2] < r[2] /\ Registered(s) => s \in handled \cup failed \cup dropped

(* The handler of every record that parses eventually returns without an error, *)
(* whatever replicas crash and partitions move, as long as no update fails and  *)
(* no poll is dropped: a claim that was left behind does not block it.          *)
EveryRecordIsHandled ==
    \A r \in Records : Registered(r) /\ Parses(r) => <>(r \in handled)

(* "Release deletes a claim so a failed update can be retried" (MetricEventDedup *)
(* Dao): a record whose handler failed is still to be delivered again.          *)
FailedRecordIsRetried ==
    \A r \in failed \ handled : Parses(r) => committed[r[1]] < r[2]
================================================================================
