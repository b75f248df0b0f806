--------------------------- MODULE ServiceProcessProofs -------------------------
(* Proofs about ServiceProcess, for every number of records, rows and lives,    *)
(* every set of kafka sections and every kind and number of faults.             *)
EXTENDS ServiceProcess, TLAPS

USE DEF stored, boot, consumed, memory, history

Handling == {"lookup", "claim", "update", "release", "commit"}

CacheRecord == [state : {"unused", "loading", "ready"}, rows : 0..MaxRows, got : 0..NoLoad]

(* What a goroutine needs was made before it was started: main goes through its *)
(* steps in one order, and all that a process has ends with it.                 *)
BootInv ==
    /\ db <=> main \notin {"down", "config", "database"}
    /\ traced <=> main \notin {"down", "config", "database", "telemetry"}
    /\ \A s \in Servers : server[s] # "off" =>
           main \in {"listener", "notify", "wait", "shutdown"}
    /\ consumer # "off" => main \in {"notify", "wait", "shutdown"}
    /\ consumer # "off" => producer = "client"
    /\ consumer \in Handling <=> record # 0

Inv == TypeOK /\ BootInv

LEMMA UnusedType == Unused \in CacheRecord
BY ProcessAssumption, SMT DEF Unused, NoLoad, CacheRecord

LEMMA InitInv == Init => Inv
<1>. SUFFICES ASSUME Init
              PROVE  Inv
  OBVIOUS
<1>1. cache \in [Caches -> CacheRecord]
  BY UnusedType DEF Init
<1>2. /\ table \in [Caches -> 0..MaxRows]
      /\ applied \in [Records -> Nat]
      /\ 0 \in 0..NumRecords /\ 0 \in 0..MaxLives /\ 0 \in 0..MaxFaults
  BY ProcessAssumption, SMT DEF Init
<1>3. server \in [Servers -> {"off", "starting", "serving"}]
  BY DEF Init
<1>4. TypeOK
  BY <1>1, <1>2, <1>3, Zenon DEF Init, TypeOK, CacheRecord
<1>5. BootInv
  BY DEF Init, BootInv, Handling
<1>. QED
  BY <1>4, <1>5 DEF Inv

(* The ways in which a step of the process ends. *)
LEMMA FaultType ==
    ASSUME TypeOK, NEW kind, Fault(kind)
    PROVE  faults' \in 0..MaxFaults
BY ProcessAssumption, SMT DEF TypeOK, Fault

LEMMA HandledRecord ==
    ASSUME Inv, consumer \in Handling
    PROVE  record \in Records
BY ProcessAssumption, SMT DEF Inv, TypeOK, BootInv, Records

LEMMA NextRecordType ==
    ASSUME Inv, NextRecord, consumer \in Handling
    PROVE  /\ consumer' \in {"lookup", "poll"} /\ record' \in 0..NumRecords
           /\ upto' \in 0..NumRecords
           /\ consumer' \in Handling <=> record' # 0
BY ProcessAssumption, SMT DEF Inv, TypeOK, BootInv, NextRecord, Handling

LEMMA ExitInv ==
    ASSUME Inv, Exit, faults' \in 0..MaxFaults
    PROVE  Inv'
<1>1. abandoned' \subseteq Records /\ halfway' \subseteq Records
  BY HandledRecord DEF Inv, TypeOK, Exit, Handling
<1>2. cache' \in [Caches -> CacheRecord]
  BY UnusedType DEF Exit
<1>3. 0 \in 0..NumRecords
  BY ProcessAssumption, SMT
<1>4. server' \in [Servers -> {"off", "starting", "serving"}]
  BY DEF Exit
<1>5. TypeOK'
  BY <1>1, <1>2, <1>3, <1>4, Zenon DEF Inv, TypeOK, Exit, CacheRecord
<1>6. BootInv'
  BY DEF BootInv, Exit, Handling
<1>. QED
  BY <1>5, <1>6 DEF Inv

LEMMA ConsumeInv ==
    ASSUME Inv, Consume
    PROVE  Inv' /\ UNCHANGED <<main, boot, server, cache, table, lives>>
<1>. USE DEF Inv
<1>1. /\ consumer' \in {"poll", "lookup", "claim", "update", "release", "commit", "stopped"}
      /\ record' \in 0..NumRecords /\ upto' \in 0..NumRecords
      /\ consumer' \in Handling <=> record' # 0
      /\ consumer # "off"
  <2>1. CASE Poll
    BY <2>1, ProcessAssumption, SMT DEF Poll, At, Step, TypeOK, BootInv, Handling
  <2>2. CASE NextRecord /\ consumer \in Handling
    BY <2>2, NextRecordType DEF Handling
  <2>3. ASSUME NEW step \in {"claim", "update", "release", "commit"}, Step(step),
               consumer \in Handling
        PROVE  /\ consumer' \in Handling /\ record' = record /\ upto' = upto
               /\ consumer # "off"
    BY <2>3 DEF Step, Handling
  <2>4. CASE ~Poll
    <3>1. /\ consumer \in Handling
          /\ NextRecord \/ \E step \in {"claim", "update", "release", "commit"} : Step(step)
      BY <2>4 DEF Consume, Lookup, Claim, ClaimFails, Update, UpdateFails, Release,
                  ReleaseFails, CommitRecord, CommitFails, At, Handling
    <3>. QED
      BY <2>2, <2>3, <3>1 DEF TypeOK, BootInv, Handling
  <2>. QED
    BY <2>1, <2>4
<1>2. /\ UNCHANGED <<main, db, traced, server, producer, stop, cancelled, cache, table,
                     lives>>
      /\ faults' \in 0..MaxFaults
  BY FaultType DEF Consume, Poll, Lookup, Claim, ClaimFails, Update, UpdateFails, Release,
                   ReleaseFails, CommitRecord, CommitFails, CallFails, TypeOK
<1>3. /\ claims' \subseteq Records
      /\ applied' \in [Records -> Nat]
      /\ committed' \in 0..NumRecords
      /\ abandoned' \subseteq Records /\ halfway' \subseteq Records
  <2>1. consumer \in {"claim", "update", "release", "commit"} => record \in Records
    BY HandledRecord DEF Handling
  <2>2. Records \subseteq 0..NumRecords
    BY SMT DEF Records
  <2>3. applied' = applied \/ (At("update") /\ applied' = [applied EXCEPT ![record] = @ + 1])
    BY DEF Consume, Poll, Lookup, Claim, ClaimFails, Update, UpdateFails, Release,
           ReleaseFails, CommitRecord, CommitFails, ApplyOnce
  <2>4. applied' \in [Records -> Nat]
    BY <2>1, <2>3, SMT DEF TypeOK, At
  <2>. QED
    BY <2>1, <2>2, <2>4
    DEF Consume, Poll, Lookup, Claim, ClaimFails, Update, UpdateFails, Release,
        ReleaseFails, CommitRecord, CommitFails, TypeOK, At
<1>4. TypeOK'
  <2>1. consumer' \in {"off", "poll", "lookup", "claim", "update", "release", "commit", "stopped"}
    BY <1>1
  <2>. QED
    BY <1>1, <1>2, <1>3, <2>1, Zenon DEF TypeOK
<1>5. BootInv'
  BY <1>1, <1>2 DEF BootInv
<1>. QED
  BY <1>2, <1>4, <1>5

(* main goes on, a server listens, a signal is kept: nothing of the store, the  *)
(* caches or what the consumer is doing changes, but that it is started.        *)
Advance == \/ Start \/ InitConfig \/ InitDatabase \/ InitTelemetry \/ LaunchServers
           \/ InitListener \/ Notify \/ ReceiveSignal
           \/ \E s \in Servers : ServerListens(s)
           \/ Signal /\ ~Exit

LEMMA AdvanceInv ==
    ASSUME Inv, Advance
    PROVE  /\ Inv'
           /\ UNCHANGED <<stored, cache, faults, history>>
           /\ consumer' = consumer \/ (consumer = "off" /\ consumer' = "poll")
           /\ record' = record
<1>. USE DEF Inv
<1>1. CASE Start
  <2>1. lives' \in 0..MaxLives
    BY <1>1, ProcessAssumption, SMT DEF Start, TypeOK
  <2>2. TypeOK'
    BY <1>1, <2>1 DEF Start, TypeOK
  <2>. QED
    BY <1>1, <2>2 DEF Start, Up, BootInv
<1>2. CASE InitConfig \/ Notify \/ ReceiveSignal \/ (Signal /\ ~Exit)
  <2>1. /\ \/ main = "config" /\ main' = "database"
           \/ main = "notify" /\ main' = "wait"
           \/ main = "wait" /\ main' = "shutdown"
           \/ main \in {"wait", "shutdown"} /\ main' = main
        /\ UNCHANGED <<stored, boot, server, cache, consumed, lives, faults, history>>
    BY <1>2 DEF InitConfig, Notify, ReceiveSignal, Signal, Goto
  <2>2. stop' \in BOOLEAN /\ cancelled' \in BOOLEAN
    BY <1>2, Zenon DEF InitConfig, Notify, ReceiveSignal, Signal, TypeOK
  <2>3. TypeOK'
    BY <2>1, <2>2 DEF TypeOK
  <2>4. BootInv'
    BY <2>1 DEF BootInv
  <2>. QED
    BY <2>1, <2>3, <2>4
<1>3. CASE InitDatabase \/ InitTelemetry
  <2>1. TypeOK'
    BY <1>3 DEF InitDatabase, InitTelemetry, Goto, TypeOK
  <2>2. \/ /\ main = "database" /\ main' = "telemetry"
           /\ db' = TRUE /\ traced' = traced
        \/ /\ main = "telemetry" /\ main' = "servers"
           /\ db' = db /\ traced' = TRUE
    BY <1>3 DEF InitDatabase, InitTelemetry, Goto
  <2>3. UNCHANGED <<server, producer, consumer, record>>
    BY <1>3 DEF InitDatabase, InitTelemetry
  <2>4. BootInv'
    BY <2>2, <2>3 DEF BootInv
  <2>. QED
    BY <1>3, <2>1, <2>4 DEF InitDatabase, InitTelemetry
<1>4. CASE LaunchServers \/ \E s \in Servers : ServerListens(s)
  <2>1. TypeOK'
    BY <1>4 DEF LaunchServers, ServerListens, Goto, TypeOK
  <2>2. BootInv'
    BY <1>4 DEF LaunchServers, ServerListens, Goto, BootInv, TypeOK
  <2>. QED
    BY <1>4, <2>1, <2>2 DEF LaunchServers, ServerListens
<1>5. CASE InitListener
  <2>1. PICK cfg \in KafkaConfigs :
            /\ producer' = ClientOrNop(cfg)
            /\ IF cfg.enabled /\ ValidConsumer(cfg)
                THEN /\ consumer' = "poll"
                     /\ upto' = committed
                ELSE UNCHANGED <<consumer, upto>>
    BY <1>5 DEF InitListener
  <2>2. consumer = "off" /\ record = 0
    BY <1>5 DEF InitListener, BootInv, TypeOK, Handling
  <2>3. consumer' = "poll" => producer' = "client"
    BY <2>1, <2>2 DEF ClientOrNop, ValidConsumer
  <2>4. consumer' \in {"off", "poll"} /\ producer' \in {"nop", "client"} /\ upto' \in 0..NumRecords
    BY <2>1, <2>2 DEF ClientOrNop, TypeOK
  <2>5. /\ main = "listener" /\ main' = "notify"
        /\ UNCHANGED <<stored, db, traced, server, stop, cancelled, cache, record,
                       lives, faults, history>>
    BY <1>5 DEF InitListener, Goto
  <2>6. TypeOK'
    BY <2>4, <2>5 DEF TypeOK
  <2>7. BootInv'
    BY <2>2, <2>3, <2>4, <2>5 DEF BootInv, Handling
  <2>. QED
    BY <2>2, <2>4, <2>5, <2>6, <2>7
<1>. QED
  BY <1>1, <1>2, <1>3, <1>4, <1>5 DEF Advance

(* A table grows, a cache is used for the first time, or it is refreshed. *)
Refreshes(k) == AddRow(k) \/ FirstUse(k) \/ Refresh(k) \/ LoadFails(k)

LEMMA RefreshInv ==
    ASSUME Inv, NEW k \in Caches, Refreshes(k)
    PROVE  /\ Inv'
           /\ UNCHANGED <<main, boot, server, consumed, claims, applied, committed,
                          history, lives>>
<1>. USE DEF Inv
<1>1. UNCHANGED <<main, boot, server, stop, cancelled, consumed, claims, applied, committed,
                  history, lives>>
  BY DEF Refreshes, AddRow, FirstUse, Refresh, LoadFromDB, SwapCache, LoadFails
<1>2. table' \in [Caches -> 0..MaxRows]
  BY ProcessAssumption, SMT
  DEF Refreshes, AddRow, FirstUse, Refresh, LoadFromDB, SwapCache, LoadFails, TypeOK
<1>3. faults' \in 0..MaxFaults
  BY FaultType DEF Refreshes, AddRow, FirstUse, Refresh, LoadFromDB, SwapCache, LoadFails, TypeOK
<1>4. cache' \in [Caches -> CacheRecord]
  <2>1. cache \in [Caches -> CacheRecord] /\ table[k] \in 0..MaxRows
    BY DEF TypeOK, CacheRecord
  <2>2. CASE AddRow(k)
    BY <2>1, <2>2 DEF AddRow
  <2>3. CASE FirstUse(k)
    <3>1. db
      BY <2>3 DEF FirstUse, Wanted, BootInv, TypeOK
    <3>. QED
      BY <2>1, <2>3, <3>1, SMT DEF FirstUse, CacheRecord
  <2>4. CASE LoadFromDB(k)
    BY <2>1, <2>4, ProcessAssumption, SMT DEF LoadFromDB, CacheRecord, NoLoad
  <2>5. CASE LoadFails(k)
    BY <2>1, <2>5, SMT DEF LoadFails, CacheRecord
  <2>6. CASE SwapCache(k)
    <3>1. cache[k].got \in 0..MaxRows /\ NoLoad \in 0..NoLoad
      BY <2>1, <2>6, ProcessAssumption, SMT DEF SwapCache, CacheRecord, NoLoad
    <3>. QED
      BY <2>1, <2>6, <3>1, SMT DEF SwapCache, CacheRecord
  <2>. QED
    BY <2>2, <2>3, <2>4, <2>5, <2>6 DEF Refreshes, Refresh
<1>5. TypeOK'
  BY <1>1, <1>2, <1>3, <1>4 DEF TypeOK, CacheRecord
<1>6. BootInv'
  BY <1>1 DEF BootInv
<1>. QED
  BY <1>1, <1>5, <1>6

(* A process ends: by a panic, a signal, a kill, Fatalf or the return of main.  *)
Ends == Exit /\ faults' \in 0..MaxFaults

LEMMA StepCases ==
    ASSUME TypeOK, [Next]_vars
    PROVE  \/ Ends
           \/ Advance
           \/ Consume
           \/ \E k \in Caches : Refreshes(k)
           \/ UNCHANGED vars
<1>1. Panic \/ Kill \/ (\E s \in Servers : ServerFails(s)) => Ends
  BY FaultType DEF Panic, Kill, ServerFails, Ends
<1>2. Return => Ends
  BY DEF Return, Ends, TypeOK
<1>3. Signal => Ends \/ (Signal /\ ~Exit)
  BY DEF Signal, Ends, TypeOK
<1>. QED
  BY <1>1, <1>2, <1>3, Zenon DEF Next, Main, Advance, Refreshes

LEMMA NextInv == Inv /\ [Next]_vars => Inv'
<1>. SUFFICES ASSUME Inv, [Next]_vars
              PROVE  Inv'
  OBVIOUS
<1>1. CASE Ends
  BY <1>1, ExitInv DEF Ends
<1>2. CASE UNCHANGED vars
  BY <1>2 DEF Inv, TypeOK, BootInv, vars
<1>. QED
  BY <1>1, <1>2, StepCases, AdvanceInv, ConsumeInv, RefreshInv DEF Inv

LEMMA InvCorrect == Spec => []Inv
BY InitInv, NextInv, PTL DEF Spec

(* Every variable keeps its shape, through starts, panics, kills and returns. *)
THEOREM TypeCorrect == Spec => []TypeOK
<1>1. Inv => TypeOK
  BY DEF Inv
<1>. QED
  BY <1>1, InvCorrect, PTL

(* Nothing is served or consumed before a tracer provider is installed. *)
THEOREM EverythingIsTracedCorrect == Spec => []EverythingIsTraced
<1>1. Inv => EverythingIsTraced
  <2>. SUFFICES ASSUME Inv, consumer # "off" \/ \E s \in Servers : server[s] = "serving"
                PROVE  traced
    BY DEF EverythingIsTraced
  <2>1. main \in {"listener", "notify", "wait", "shutdown"}
    BY DEF Inv, BootInv
  <2>. QED
    BY <2>1 DEF Inv, BootInv, TypeOK
<1>. QED
  BY <1>1, InvCorrect, PTL

(* A consumer never runs over a producer that drops its messages. *)
THEOREM ConsumerAnnouncesCorrect == Spec => []ConsumerAnnounces
<1>1. Inv => ConsumerAnnounces
  BY DEF Inv, BootInv, ConsumerAnnounces
<1>. QED
  BY <1>1, InvCorrect, PTL

--------------------------------------------------------------------------------
(* The caches.  No row is ever deleted, so a load reads at least what the cache *)
(* has, and what is found by one lookup is found by the next.                   *)
CacheInv ==
    /\ \A k \in Caches :
        /\ cache[k].rows <= table[k]
        /\ cache[k].got # NoLoad => cache[k].rows <= cache[k].got /\ cache[k].got <= table[k]
    /\ MetricStaysFound

LEMMA CacheRows ==
    ASSUME TypeOK, NEW k \in Caches
    PROVE  /\ cache[k].rows \in Nat /\ cache[k].got \in Nat /\ table[k] \in Nat
           /\ table[k] <= MaxRows /\ NoLoad \in Nat /\ table[k] # NoLoad
BY ProcessAssumption, SMT DEF TypeOK, NoLoad

LEMMA RefreshRows ==
    ASSUME TypeOK, CacheInv, NEW k \in Caches, Refreshes(k)
    PROVE  \A l \in Caches :
             /\ cache[l].rows <= cache'[l].rows
             /\ cache'[l].rows <= table'[l]
             /\ cache'[l].got # NoLoad =>
                    cache'[l].rows <= cache'[l].got /\ cache'[l].got <= table'[l]
<1>. SUFFICES ASSUME NEW l \in Caches
              PROVE  /\ cache[l].rows <= cache'[l].rows
                     /\ cache'[l].rows <= table'[l]
                     /\ cache'[l].got # NoLoad =>
                            cache'[l].rows <= cache'[l].got /\ cache'[l].got <= table'[l]
  OBVIOUS
<1>. DEFINE c == cache[l]
            d == cache'[l]
<1>1. /\ c.rows \in Nat /\ c.got \in Nat /\ table[l] \in Nat
      /\ table[l] # NoLoad /\ c.rows <= table[l]
      /\ c.got # NoLoad => c.rows <= c.got /\ c.got <= table[l]
  BY CacheRows DEF CacheInv
<1>2. \/ d.rows = c.rows /\ d.got = c.got /\ table'[l] = table[l]
      \/ d.rows = c.rows /\ d.got = c.got /\ table'[l] = table[l] + 1
      \/ d.rows = c.rows /\ d.got = table[l] /\ table'[l] = table[l]
      \/ c.got # NoLoad /\ d.rows = c.got /\ d.got = NoLoad /\ table'[l] = table[l]
  <2>1. cache \in [Caches -> CacheRecord] /\ table \in [Caches -> 0..MaxRows]
    BY DEF TypeOK, CacheRecord
  <2>2. CASE AddRow(k)
    BY <2>1, <2>2, SMT DEF AddRow
  <2>3. CASE FirstUse(k)
    BY <2>1, <2>3, SMT DEF FirstUse, CacheRecord
  <2>4. CASE LoadFromDB(k)
    BY <2>1, <2>4, SMT DEF LoadFromDB, CacheRecord
  <2>5. CASE LoadFails(k)
    BY <2>1, <2>5, SMT DEF LoadFails, CacheRecord
  <2>6. CASE SwapCache(k)
    BY <2>1, <2>6, SMT DEF SwapCache, CacheRecord
  <2>. QED
    BY <2>2, <2>3, <2>4, <2>5, <2>6 DEF Refreshes, Refresh
<1>. HIDE DEF c, d
<1>3. /\ c.rows <= d.rows
      /\ d.rows <= table'[l]
      /\ d.got # NoLoad => d.rows <= d.got /\ d.got <= table'[l]
  BY <1>1, <1>2, SMT
<1>. QED
  BY <1>3 DEF c, d

LEMMA CacheInvStep == Inv /\ CacheInv /\ [Next]_vars => CacheInv'
<1>. SUFFICES ASSUME Inv, CacheInv, [Next]_vars
              PROVE  CacheInv'
  OBVIOUS
<1>1. CASE Ends
  BY <1>1, ProcessAssumption, SMT
  DEF Ends, Exit, Unused, NoLoad, CacheInv, MetricStaysFound, Inv, TypeOK
<1>2. CASE Advance
  BY <1>2, AdvanceInv DEF CacheInv, MetricStaysFound, Found
<1>3. CASE Consume
  <2>1. UNCHANGED <<cache, table>>
    BY <1>3, ConsumeInv
  <2>2. MetricStaysFound'
    <3>1. CASE consumer \in {"claim", "update", "release", "commit"}
      BY <2>1, <3>1 DEF CacheInv, MetricStaysFound, Found
    <3>2. CASE consumer \notin {"claim", "update", "release", "commit"}
      BY <1>3, <2>1, <3>2
      DEF Consume, Poll, Lookup, Claim, ClaimFails, Update, UpdateFails, Release,
          ReleaseFails, CommitRecord, CommitFails, NextRecord, At, Step,
          MetricStaysFound, Found
    <3>. QED
      BY <3>1, <3>2
  <2>. QED
    BY <2>1, <2>2 DEF CacheInv
<1>4. ASSUME NEW k \in Caches, Refreshes(k)
      PROVE  CacheInv'
  <2>1. consumer' = consumer
    BY <1>4, RefreshInv
  <2>2. cache["metric"].rows \in Nat /\ cache'["metric"].rows \in Nat
        /\ cache["metric"].rows <= cache'["metric"].rows
    BY <1>4, RefreshRows, RefreshInv, SMT DEF Inv, TypeOK, Caches
  <2>3. MetricStaysFound'
    BY <2>1, <2>2, SMT DEF CacheInv, MetricStaysFound, Found
  <2>. QED
    BY <1>4, <2>3, RefreshRows DEF CacheInv, Inv
<1>5. CASE UNCHANGED vars
  BY <1>5 DEF CacheInv, MetricStaysFound, Found, vars
<1>. QED
  BY <1>1, <1>2, <1>3, <1>4, <1>5, StepCases DEF Inv

(* What the handler found by code, the service finds by id. *)
THEOREM MetricStaysFoundCorrect == Spec => []MetricStaysFound
<1>1. Init => CacheInv
  BY ProcessAssumption, SMT DEF Init, CacheInv, MetricStaysFound, Unused, NoLoad
<1>2. CacheInv => MetricStaysFound
  BY DEF CacheInv
<1>. QED
  BY <1>1, <1>2, CacheInvStep, InvCorrect, PTL DEF Spec

--------------------------------------------------------------------------------
(* Claims.  A record that holds no claim was never applied, but for the rows of *)
(* an update that failed halfway, and the claim of a record that is being       *)
(* updated was taken by the call that updates it.                               *)
ClaimInv ==
    /\ ClaimIsJustified
    /\ \A r \in Records \ halfway : r \notin claims => applied[r] = 0
    /\ AppliedAtMostOnce
    /\ consumer \in {"update", "release"} => record \in claims
    /\ consumer \in {"update", "release"} /\ record \notin halfway => applied[record] = 0

LEMMA ClaimInvStep == Inv /\ ClaimInv /\ [Next]_vars => ClaimInv'
<1>. SUFFICES ASSUME Inv, ClaimInv, [Next]_vars
              PROVE  ClaimInv'
  OBVIOUS
<1>1. CASE Ends
  BY <1>1 DEF Ends, Exit, ClaimInv, ClaimIsJustified, AppliedAtMostOnce
<1>2. CASE UNCHANGED <<claims, applied, history, record>> /\
           (consumer' = consumer \/ {consumer, consumer'} \cap {"update", "release"} = {})
  BY <1>2 DEF ClaimInv, ClaimIsJustified, AppliedAtMostOnce
<1>3. CASE Advance
  BY <1>2, <1>3, AdvanceInv
<1>4. ASSUME NEW k \in Caches, Refreshes(k)
      PROVE  ClaimInv'
  BY <1>2, <1>4, RefreshInv
<1>5. CASE Consume
  <2>. USE DEF ClaimInv, ClaimIsJustified, AppliedAtMostOnce, At, Step
  <2>1. /\ applied \in [Records -> Nat]
        /\ consumer \in Handling => record \in Records
    BY HandledRecord DEF Inv, TypeOK
  <2>2. CASE NextRecord /\ UNCHANGED <<claims, applied, history>>
                       /\ consumer \notin {"update", "release"}
    BY <2>2 DEF NextRecord
  <2>3. CASE Poll \/ Lookup \/ ClaimFails \/ CommitRecord \/ CommitFails
    BY <1>5, <2>2, <2>3 DEF Poll, Lookup, ClaimFails, CommitRecord, CommitFails
  <2>4. CASE Claim
    <3>1. /\ claims' = claims \cup {record}
          /\ consumer' = IF record \in claims THEN "commit" ELSE "update"
          /\ UNCHANGED <<applied, history, record>>
          /\ consumer = "claim" /\ record \in Records
      BY <2>1, <2>4 DEF Claim, Handling
    <3>. QED
      BY <3>1
  <2>5. CASE Update
    <3>1. /\ applied' = [applied EXCEPT ![record] = @ + 1]
          /\ consumer' = "commit"
          /\ UNCHANGED <<claims, history, record>>
          /\ consumer = "update" /\ record \in Records
      BY <2>1, <2>5 DEF Update, ApplyOnce, Handling
    <3>2. /\ applied'[record] = applied[record] + 1 /\ applied[record] \in Nat
          /\ \A r \in Records \ {record} : applied'[r] = applied[r]
      BY <2>1, <3>1
    <3>. QED
      BY <3>1, <3>2, SMT
  <2>6. CASE UpdateFails
    <3>1. /\ consumer = "update" /\ consumer' = "release" /\ record \in Records
          /\ UNCHANGED <<claims, abandoned, record>>
          /\ \/ UNCHANGED <<applied, halfway>>
             \/ ApplyOnce /\ halfway' = halfway \cup {record}
      BY <2>1, <2>6 DEF UpdateFails, Handling
    <3>2. CASE UNCHANGED <<applied, halfway>>
      BY <3>1, <3>2
    <3>3. CASE ApplyOnce /\ halfway' = halfway \cup {record}
      <4>1. claims \subseteq Records /\ \A r \in Records \ {record} : applied'[r] = applied[r]
        BY <2>1, <3>3 DEF ApplyOnce, Inv, TypeOK
      <4>. QED
        BY <3>1, <3>3, <4>1
    <3>. QED
      BY <3>1, <3>2, <3>3
  <2>7. CASE Release \/ ReleaseFails
    <3>1. /\ consumer' \in {"lookup", "poll"}
          /\ UNCHANGED <<applied, halfway>>
          /\ consumer = "release" /\ record \in Records
          /\ \/ claims' = claims /\ abandoned' = abandoned \cup {record}
             \/ claims' = claims \ {record} /\ abandoned' = abandoned
      BY <2>1, <2>7 DEF Release, ReleaseFails, NextRecord, Handling
    <3>. QED
      BY <3>1
  <2>. QED
    BY <1>5, <2>3, <2>4, <2>5, <2>6, <2>7 DEF Consume
<1>6. CASE UNCHANGED vars
  BY <1>2, <1>6 DEF vars
<1>. QED
  BY <1>1, <1>3, <1>4, <1>5, <1>6, StepCases DEF Inv

LEMMA ClaimInvCorrect == Spec => []ClaimInv
<1>1. Init => ClaimInv
  BY SMT DEF Init, ClaimInv, ClaimIsJustified, AppliedAtMostOnce
<1>. QED
  BY <1>1, ClaimInvStep, InvCorrect, PTL DEF Spec

(* A claim without its record applied is that of a call that is still at it, or *)
(* was left by a stop, a crash or a release that failed.                        *)
THEOREM ClaimIsJustifiedCorrect == Spec => []ClaimIsJustified
<1>1. ClaimInv => ClaimIsJustified
  BY DEF ClaimInv
<1>. QED
  BY <1>1, ClaimInvCorrect, PTL

(* Over all lives of the process, a record is applied at most once, unless an   *)
(* update of it failed after some of its rows.                                  *)
THEOREM AppliedAtMostOnceCorrect == Spec => []AppliedAtMostOnce
<1>1. ClaimInv => AppliedAtMostOnce
  BY DEF ClaimInv
<1>. QED
  BY <1>1, ClaimInvCorrect, PTL
================================================================================
