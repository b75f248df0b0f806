----------------------------- MODULE ServiceProcess ----------------------------
(* One replica of task-mservice from main to its end, and again: what main.go   *)
(* starts and in which order, the reference-data caches of repository/dao that  *)
(* are filled by their first use and refreshed each minute, and the consumer    *)
(* that lives under main's context.                                             *)
(*                                                                              *)
(* A record is a metric event whose metric and operator are row 1 of their      *)
(* tables, and updating the progress of its user is one step here: its inside   *)
(* is module TaskProgress, the group of consumers is module KafkaConsumer.      *)
(* What these two leave out is that everything is done under one context, which *)
(* main cancels without waiting for anybody.                                    *)
EXTENDS Naturals, FiniteSets

CONSTANTS
    KafkaConfigs, \* the kafka sections that config.yml may have: [enabled, brokers,
                  \* group, topics], BOOLEANs but for brokers
    NumRecords,   \* records of the partition that is consumed
    MaxRows,      \* bound: rows of a reference table
    MaxLives,     \* bound: starts of the process
    Faults,       \* the kinds of fault that may happen
    MaxFaults     \* bound: faults in a behaviour

FaultKinds == {"config", "database", "listen", "load", "call", "kill"}

KafkaConfig == [enabled : BOOLEAN, brokers : {"none", "unusable", "usable"},
                group : BOOLEAN, topics : BOOLEAN]

ASSUME ProcessAssumption ==
    /\ KafkaConfigs \subseteq KafkaConfig
    /\ NumRecords \in Nat
    /\ MaxRows \in Nat
    /\ MaxLives \in Nat
    /\ Faults \subseteq FaultKinds
    /\ MaxFaults \in Nat

VARIABLES
    table,       \* data_metric and metric_operator: how many rows each has
    claims,      \* metric_event_dedup: the records it holds
    applied,     \* how often each record was applied to the progress of its user
    committed,   \* the committed offset
    main,        \* where main is, "down" if there is no process
    db,          \* repository.DB is set
    traced,      \* a tracer provider is installed
    server,      \* the goroutines of grpc.Init and http.Init
    producer,    \* the singleton producer
    stop,        \* a signal is in sigCh
    cancelled,   \* appCtx is cancelled
    cache,       \* the dao singletons: [state, rows, got], got being the rows that
                 \* were loaded and are not in the cache yet
    consumer,    \* where the consumer is
    record,      \* the record it handles
    upto,        \* the last record of its poll
    lives,       \* starts so far
    faults,      \* faults so far
    abandoned,   \* history: the records whose claim a stop, a crash or a failed
                 \* release left behind
    halfway      \* history: those with an update that failed after some of its rows

stored   == <<table, claims, applied, committed>>
boot     == <<db, traced, producer>>
consumed == <<consumer, record, upto>>
history  == <<abandoned, halfway>>
memory   == <<main, boot, server, stop, cancelled, cache, consumed>>
vars     == <<table, claims, applied, committed, main, db, traced, server, producer,
              stop, cancelled, cache, consumer, record, upto, lives,
              faults, abandoned, halfway>>

--------------------------------------------------------------------------------

Records == 1..NumRecords

Servers == {"grpc", "http"}

Caches == {"metric", "operator"}

NoLoad == MaxRows + 1

Unused == [state |-> "unused", rows |-> 0, got |-> NoLoad]

Init ==
    /\ table = [k \in Caches |-> 0]
    /\ claims = {}
    /\ applied = [r \in Records |-> 0]
    /\ committed = 0
    /\ lives = 0
    /\ faults = 0
    /\ abandoned = {}
    /\ halfway = {}
    /\ main = "down"
    /\ db = FALSE
    /\ traced = FALSE
    /\ server = [s \in Servers |-> "off"]
    /\ producer = "none"
    /\ stop = FALSE
    /\ cancelled = FALSE
    /\ cache = [k \in Caches |-> Unused]
    /\ consumer = "off"
    /\ record = 0
    /\ upto = 0

Up == main # "down"

Fault(kind) ==
    /\ kind \in Faults
    /\ faults < MaxFaults
    /\ faults' = faults + 1

(* The process is gone, with everything it had in memory. *)
Exit ==
    /\ main' = "down"
    /\ db' = FALSE
    /\ traced' = FALSE
    /\ server' = [s \in Servers |-> "off"]
    /\ producer' = "none"
    /\ stop' = FALSE
    /\ cancelled' = FALSE
    /\ cache' = [k \in Caches |-> Unused]
    /\ consumer' = "off"
    /\ record' = 0
    /\ upto' = 0
    /\ abandoned' = IF consumer \in {"update", "release"}
                        THEN abandoned \cup {record} ELSE abandoned
    /\ UNCHANGED <<stored, lives, halfway>>

--------------------------------------------------------------------------------
(* main. *)

(* A process is started, for the first time or by its supervisor. *)
Start ==
    /\ ~Up
    /\ lives < MaxLives
    /\ lives' = lives + 1
    /\ main' = "config"
    /\ UNCHANGED <<stored, boot, server, stop, cancelled, cache, consumed, faults,
                   history>>

Goto(step) == main' = step

(* config.Init and log.InitLogger panic on a file they cannot read or open. *)
InitConfig ==
    /\ main = "config"
    /\ Goto("database")
    /\ UNCHANGED <<stored, boot, server, stop, cancelled, cache, consumed, lives,
                   faults, history>>

(* Faulty: the database is left to be opened later. *)
InitDatabase_Later ==
    /\ main = "database"
    /\ Goto("telemetry")
    /\ UNCHANGED <<stored, boot, server, stop, cancelled, cache, consumed, lives,
                   faults, history>>

(* repository.Init opens and migrates the database, or panics. *)
InitDatabase ==
    /\ main = "database"
    /\ db' = TRUE
    /\ Goto("telemetry")
    /\ UNCHANGED <<stored, traced, producer, server, stop, cancelled, cache,
                   consumed, lives, faults, history>>

Panic ==
    /\ \/ main = "config" /\ Fault("config")
       \/ main = "database" /\ Fault("database")
    /\ Exit

(* Faulty: without an exporter no provider is installed. *)
InitTelemetry_OnlyExporting ==
    /\ main = "telemetry"
    /\ traced' \in BOOLEAN
    /\ Goto("servers")
    /\ UNCHANGED <<stored, db, producer, server, stop, cancelled, cache, consumed, lives,
                   faults, history>>

(* telemetry.Init installs a provider that exports or, if the OTEL_ variables   *)
(* are incomplete or not supported or the exporter is refused, a local one.     *)
InitTelemetry ==
    /\ main = "telemetry"
    /\ traced' = TRUE
    /\ Goto("servers")
    /\ UNCHANGED <<stored, db, producer, server, stop, cancelled, cache, consumed, lives,
                   faults, history>>

(* go grpc.Init(sigCh), go http.Init(sigCh). *)
LaunchServers ==
    /\ main = "servers"
    /\ server' = [s \in Servers |-> "starting"]
    /\ Goto("listener")
    /\ UNCHANGED <<stored, boot, stop, cancelled, cache, consumed, lives, faults,
                   history>>

ServerListens(s) ==
    /\ server[s] = "starting"
    /\ server' = [server EXCEPT ![s] = "serving"]
    /\ UNCHANGED <<stored, main, boot, stop, cancelled, cache, consumed, lives, faults,
                   history>>

(* Faulty: the goroutine ends with an error in the log. *)
ServerFails_OnlyLogged(s) ==
    /\ server[s] # "off"
    /\ Fault("listen")
    /\ server' = [server EXCEPT ![s] = "off"]
    /\ UNCHANGED <<stored, main, boot, stop, cancelled, cache, consumed, lives,
                   history>>

(* Listen or Serve returns an error: Fatalf exits, so that the send on exitSig  *)
(* that follows it is never reached and no deferred call of main is made.       *)
ServerFails(s) ==
    /\ server[s] # "off"
    /\ Fault("listen")
    /\ Exit

(* Faulty: it is enough that the section is enabled and names its topics. *)
ValidConsumer_NoBrokers(cfg) == cfg.group /\ cfg.topics /\ cfg.brokers # "unusable"

(* validateConfig and newConsumer: NewClient refuses brokers it cannot parse. *)
ValidConsumer(cfg) == cfg.group /\ cfg.topics /\ cfg.brokers = "usable"

(* buildProducer. *)
ClientOrNop(cfg) == IF cfg.enabled /\ cfg.brokers = "usable" THEN "client" ELSE "nop"

(* listener.Init: producer.Ensure, then Start if the section is enabled.  The   *)
(* section was read by config.Init and nothing looked at it before.             *)
InitListener ==
    /\ main = "listener"
    /\ \E cfg \in KafkaConfigs :
        /\ producer' = ClientOrNop(cfg)
        /\ IF cfg.enabled /\ ValidConsumer(cfg)
            THEN /\ consumer' = "poll"
                 /\ upto' = committed
            ELSE UNCHANGED <<consumer, upto>>
    /\ Goto("notify")
    /\ UNCHANGED <<stored, db, traced, server, stop, cancelled, cache, record,
                   lives, faults, history>>

Notify ==
    /\ main = "notify"
    /\ Goto("wait")
    /\ UNCHANGED <<stored, boot, server, stop, cancelled, cache, consumed, lives,
                   faults, history>>

(* SIGINT or SIGTERM: before signal.Notify it kills. *)
Signal ==
    /\ Up
    /\ IF main \in {"wait", "shutdown"}
        THEN /\ stop' = TRUE
             /\ UNCHANGED <<stored, main, boot, server, cancelled, cache, consumed, lives,
                            history>>
        ELSE Exit
    /\ UNCHANGED faults

Kill ==
    /\ Up
    /\ Fault("kill")
    /\ Exit

ReceiveSignal ==
    /\ main = "wait"
    /\ stop
    /\ stop' = FALSE
    /\ cancelled' = TRUE
    /\ Goto("shutdown")
    /\ UNCHANGED <<stored, boot, server, cache, consumed, lives, faults, history>>

(* Faulty: main waits for the consumer. *)
Return_AfterConsumer ==
    /\ main = "shutdown"
    /\ consumer \in {"off", "stopped"}
    /\ Exit
    /\ UNCHANGED faults

(* main returns once its deferred shutdown of the telemetry has, which is given *)
(* five seconds; the other goroutines are not waited for.                       *)
Return ==
    /\ main = "shutdown"
    /\ Exit
    /\ UNCHANGED faults

--------------------------------------------------------------------------------
(* GetDataMetricDao and GetMetricOperatorDao. *)

(* Without a database nothing is loaded, now or later. *)
Ready(k) == cache[k].state \in {"ready", "unfed"}

(* A row is added by hand. *)
AddRow(k) ==
    /\ table[k] < MaxRows
    /\ table' = [table EXCEPT ![k] = @ + 1]
    /\ UNCHANGED <<claims, applied, committed, memory, lives, faults, history>>

(* The reference endpoints use both caches, and so does the service that is     *)
(* behind EnrollTask and the list of a user's progress.  The consumer uses the  *)
(* one of metrics, and then comes to that service.                              *)
Wanted(k) ==
    \/ \E s \in Servers : server[s] = "serving"
    \/ consumer = "lookup" /\ k = "metric"
    \/ consumer = "claim"

(* The first use, in a sync.Once: the others wait until the cache is ready. *)
FirstUse(k) ==
    /\ cache[k].state = "unused"
    /\ Wanted(k)
    /\ cache' = [cache EXCEPT ![k].state = IF db THEN "loading" ELSE "unfed"]
    /\ UNCHANGED <<stored, main, boot, server, stop, cancelled, consumed, lives, faults,
                   history>>

(* refreshCache, by the first use and then by the loop: the table is read ... *)
LoadFromDB(k) ==
    /\ cache[k].state \in {"loading", "ready"}
    /\ cache[k].got = NoLoad
    /\ cache' = [cache EXCEPT ![k].got = table[k]]
    /\ UNCHANGED <<stored, main, boot, server, stop, cancelled, consumed, lives, faults,
                   history>>

(* Faulty: what a failed load returned is cached. *)
LoadFails_Empties(k) ==
    /\ cache[k].state \in {"loading", "ready"}
    /\ cache[k].got = NoLoad
    /\ Fault("load")
    /\ cache' = [cache EXCEPT ![k] = [state |-> "ready", rows |-> 0, got |-> NoLoad]]
    /\ UNCHANGED <<stored, main, boot, server, stop, cancelled, consumed, lives,
                   history>>

(* Faulty: the loop is not started after a first load that failed. *)
LoadFails_EndsLoop(k) ==
    /\ cache[k].state \in {"loading", "ready"}
    /\ cache[k].got = NoLoad
    /\ Fault("load")
    /\ cache' = [cache EXCEPT ![k].state = IF @ = "loading" THEN "unfed" ELSE @]
    /\ UNCHANGED <<stored, main, boot, server, stop, cancelled, consumed, lives,
                   history>>

(* ... or is not: the cache stays as it is, until the next minute. *)
LoadFails(k) ==
    /\ cache[k].state \in {"loading", "ready"}
    /\ cache[k].got = NoLoad
    /\ Fault("load")
    /\ cache' = [cache EXCEPT ![k].state = "ready"]
    /\ UNCHANGED <<stored, main, boot, server, stop, cancelled, consumed, lives,
                   history>>

(* ... and list, byID and byCode are replaced under the lock. *)
SwapCache(k) ==
    /\ cache[k].got # NoLoad
    /\ cache' = [cache EXCEPT ![k] = [state |-> "ready", rows |-> @.got, got |-> NoLoad]]
    /\ UNCHANGED <<stored, main, boot, server, stop, cancelled, consumed, lives, faults,
                   history>>

(* GetByCode and GetByID of the row a record needs. *)
Found(k) == cache[k].rows >= 1

--------------------------------------------------------------------------------
(* The consumer: every call it makes is under appCtx, and fails once that is    *)
(* cancelled, or for a reason of its own.                                       *)

At(step) == consumer = step

NextRecord ==
    IF record < upto
        THEN /\ record' = record + 1
             /\ consumer' = "lookup"
             /\ UNCHANGED upto
        ELSE /\ record' = 0
             /\ consumer' = "poll"
             /\ UNCHANGED upto

Step(step) == consumer' = step /\ UNCHANGED <<record, upto>>

(* run looks at its context before and after it polls. *)
Poll ==
    /\ At("poll")
    /\ IF cancelled
        THEN Step("stopped")
        ELSE /\ upto < NumRecords
             /\ \E n \in (upto + 1)..NumRecords : upto' = n
             /\ record' = upto + 1
             /\ consumer' = "lookup"
    /\ UNCHANGED <<stored, main, boot, server, stop, cancelled, cache, lives, faults,
                   history>>

(* applyMetricEvent: GetByCode. *)
Lookup ==
    /\ At("lookup")
    /\ Ready("metric")
    /\ IF Found("metric") THEN Step("claim") ELSE NextRecord
    /\ UNCHANGED <<stored, main, boot, server, stop, cancelled, cache, lives, faults,
                   history>>

(* A call to the database or the broker fails. *)
CallFails == (cancelled /\ UNCHANGED faults) \/ Fault("call")

(* Faulty: a duplicate is not noticed. *)
Claim_NoDuplicates ==
    /\ At("claim")
    /\ \A k \in Caches : Ready(k)
    /\ Found("metric") /\ ~cancelled
    /\ claims' = claims \cup {record}
    /\ Step("update")
    /\ UNCHANGED <<table, applied, committed, main, boot, server, stop, cancelled, cache,
                   lives, faults, history>>

(* UpdateUserTaskProgress: GetByID and TryClaim. *)
Claim ==
    /\ At("claim")
    /\ \A k \in Caches : Ready(k)
    /\ Found("metric") /\ ~cancelled
    /\ claims' = claims \cup {record}
    /\ Step(IF record \in claims THEN "commit" ELSE "update")
    /\ UNCHANGED <<table, applied, committed, main, boot, server, stop, cancelled, cache,
                   lives, faults, history>>

ClaimFails ==
    /\ At("claim")
    /\ \A k \in Caches : Ready(k)
    /\ IF Found("metric") THEN CallFails ELSE UNCHANGED faults
    /\ NextRecord
    /\ UNCHANGED <<stored, main, boot, server, stop, cancelled, cache, lives, history>>

ApplyOnce == applied' = [applied EXCEPT ![record] = @ + 1]

(* applyMetricToProgresses, which looks the operator up. *)
Update ==
    /\ At("update")
    /\ Found("operator") /\ ~cancelled
    /\ ApplyOnce
    /\ Step("commit")
    /\ UNCHANGED <<table, claims, committed, main, boot, server, stop, cancelled, cache,
                   lives, faults, history>>

(* Faulty: an error is returned with the claim left behind. *)
UpdateFails_NoRelease ==
    /\ At("update")
    /\ IF Found("operator") THEN CallFails ELSE UNCHANGED faults
    /\ NextRecord
    /\ UNCHANGED <<stored, main, boot, server, stop, cancelled, cache, lives, history>>

(* The operator is not in the cache, or a call fails, before any row is updated *)
(* or after some were.                                                          *)
UpdateFails ==
    /\ At("update")
    /\ IF Found("operator") THEN CallFails ELSE UNCHANGED faults
    /\ \/ UNCHANGED <<applied, halfway>>
       \/ Found("operator") /\ ApplyOnce /\ halfway' = halfway \cup {record}
    /\ Step("release")
    /\ UNCHANGED <<table, claims, committed, main, boot, server, stop, cancelled, cache,
                   lives, abandoned>>

(* Release, under the context that failed the update. *)
Release ==
    /\ At("release")
    /\ ~cancelled
    /\ claims' = claims \ {record}
    /\ NextRecord
    /\ UNCHANGED <<table, applied, committed, main, boot, server, stop, cancelled, cache,
                   lives, faults, history>>

(* The error is logged, and the claim stays. *)
ReleaseFails ==
    /\ At("release")
    /\ CallFails
    /\ abandoned' = abandoned \cup {record}
    /\ NextRecord
    /\ UNCHANGED <<stored, main, boot, server, stop, cancelled, cache, lives, halfway>>

CommitRecord ==
    /\ At("commit")
    /\ ~cancelled
    /\ committed' = record
    /\ NextRecord
    /\ UNCHANGED <<table, claims, applied, main, boot, server, stop, cancelled, cache,
                   lives, faults, history>>

(* The error is logged, and the next record handled. *)
CommitFails ==
    /\ At("commit")
    /\ CallFails
    /\ NextRecord
    /\ UNCHANGED <<stored, main, boot, server, stop, cancelled, cache, lives, history>>

--------------------------------------------------------------------------------

Main ==
    \/ InitConfig
    \/ InitDatabase
    \/ InitTelemetry
    \/ LaunchServers
    \/ InitListener
    \/ Notify
    \/ ReceiveSignal
    \/ Return

Consume ==
    \/ Poll
    \/ Lookup
    \/ Claim \/ ClaimFails
    \/ Update \/ UpdateFails
    \/ Release \/ ReleaseFails
    \/ CommitRecord \/ CommitFails

Refresh(k) == LoadFromDB(k) \/ SwapCache(k)

Next ==
    \/ Start \/ Main \/ Panic \/ Signal \/ Kill
    \/ Consume
    \/ \E s \in Servers : ServerListens(s) \/ ServerFails(s)
    \/ \E k \in Caches : AddRow(k) \/ FirstUse(k) \/ Refresh(k) \/ LoadFails(k)

Spec == Init /\ [][Next]_vars

(* The goroutines of main and of the servers keep running, and the loop of a    *)
(* cache goes round each minute.                                                *)
Fairness ==
    /\ WF_vars(Main)
    /\ \A s \in Servers : WF_vars(ServerListens(s))
    /\ \A k \in Caches : WF_vars(LoadFromDB(k)) /\ WF_vars(SwapCache(k))

FairSpec == Spec /\ Fairness

--------------------------------------------------------------------------------

(* Every variable has the shape its comment gives. *)
TypeOK ==
    /\ table \in [Caches -> 0..MaxRows]
    /\ claims \subseteq Records
    /\ applied \in [Records -> Nat]
    /\ committed \in 0..NumRecords
    /\ main \in {"down", "config", "database", "telemetry", "servers", "listener",
                 "notify", "wait", "shutdown"}
    /\ db \in BOOLEAN
    /\ traced \in BOOLEAN
    /\ server \in [Servers -> {"off", "starting", "serving"}]
    /\ producer \in {"none", "nop", "client"}
    /\ stop \in BOOLEAN
    /\ cancelled \in BOOLEAN
    /\ cache \in [Caches -> [state : {"unused", "loading", "ready"}, rows : 0..MaxRows,
                             got : 0..NoLoad]]
    /\ consumer \in {"off", "poll", "lookup", "claim", "update", "release", "commit",
                     "stopped"}
    /\ record \in 0..NumRecords
    /\ upto \in 0..NumRecords
    /\ lives \in 0..MaxLives
    /\ faults \in 0..MaxFaults
    /\ abandoned \subseteq Records
    /\ halfway \subseteq Records

(* "A local TracerProvider is always installed so HTTP/Kafka/gRPC logs can      *)
(* attach valid trace_id/span_id even when OTLP export is disabled": nothing    *)
(* is served or consumed before.                                                *)
EverythingIsTraced ==
    consumer # "off" \/ (\E s \in Servers : server[s] = "serving") => traced

(* The consumer and the producer check the kafka section for themselves, and a  *)
(* producer that finds it invalid drops every message without an error.  A      *)
(* consumer never runs over such a producer: what it completes is announced.    *)
ConsumerAnnounces == consumer # "off" => producer = "client"

(* A handler looks its metric up by code, and the service then by id, in a cache *)
(* that may be replaced in between, or whose refresh may fail: what was found   *)
(* is found again.                                                              *)
MetricStaysFound ==
    consumer \in {"claim", "update", "release", "commit"} => Found("metric")

(* A claim makes every later delivery of its record a duplicate.  It is there   *)
(* because the record was applied, or is just being applied, or because a stop, *)
(* a crash or an error of Release kept a failed update from giving it back:     *)
(* whatever else fails, the next delivery is tried.                             *)
ClaimIsJustified ==
    \A r \in claims :
        \/ applied[r] > 0
        \/ consumer \in {"update", "release"} /\ record = r
        \/ r \in abandoned

(* However often the process is stopped or crashes, calls fail and its records  *)
(* are delivered again, each is applied at most once, unless an update of it    *)
(* failed after some of its rows.                                               *)
AppliedAtMostOnce == \A r \in Records \ halfway : applied[r] <= 1

--------------------------------------------------------------------------------

(* "Export is intentionally optional so local/dev startup is never blocked by   *)
(* telemetry", and Fatalf ends a process one of whose servers cannot listen: a  *)
(* process that was started comes to serve both APIs and to wait for its end,   *)
(* or it is gone.                                                               *)
StartsOrEnds ==
    (main = "config") ~>
        (~Up \/ (main = "wait" /\ \A s \in Servers : server[s] = "serving"))

(* A signal that reaches a process after signal.Notify ends it, at whatever     *)
(* point main is and whatever the other goroutines do.                          *)
StopIsHonoured == (main \in {"wait", "shutdown"} /\ stop) ~> ~Up

(* A row that is added to a reference table is found by the process, once the   *)
(* cache is in use, however many loads fail.                                    *)
AddedRowIsFound ==
    \A k \in Caches : \A n \in 1..MaxRows :
        (table[k] >= n /\ cache[k].state # "unused") ~> (~Up \/ cache[k].rows >= n)
================================================================================
