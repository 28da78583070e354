----------------------------- MODULE NexusProofs -----------------------------
(***************************************************************************)
(* Theorems about NexusQueue for every number of jobs, processes, slots    *)
(* and requests, every MaxAttempts and every budget of faults: its types,  *)
(* and what the counts of attempts promise under every fault, AttemptsLag  *)
(* and NoPrematureDlq, from the inductive invariant AttemptsInv.           *)
(*                                                                         *)
(* The argument of the second part: rows only grow (RowsGrow), because     *)
(* markJobActive adds one and nothing else writes attempts; so what a slot *)
(* knows of a row stays true while other actors move, and each step only   *)
(* has to justify what it writes itself.                                   *)
(***************************************************************************)
EXTENDS NexusProperties, TLAPS

USE ConstantsAssumption, RateLimitedAssumption, CompositionAssumption

-----------------------------------------------------------------------------
(* Type correctness. *)

(* The initial state is well typed (StoreInit: empty stores, idle actors). *)
THEOREM InitTyped == Init => TypeOK
  BY DEF Init, TypeOK, StoreInit, ProducerInit, WorkerInit, SchedulerInit,
         JanitorInit, DlqApiInit, StoreTypeOK, ProducerTypeOK, WorkerTypeOK,
         SchedulerTypeOK, JanitorTypeOK, DlqApiTypeOK, Bag, Status, Phase,
         LoopPC, SlotPC, CompletePC, FailurePC, FreeSlot, SchedIdle, JanIdle,
         JanitorPC, ReqIdle, RequestPC, NoTokens

(* The list commands return bags, and the row updates rows. *)
LEMMA CommandsTyped ==
  /\ NoTokens \in Bag
  /\ \A b \in Bag, j \in Jobs :
       LPush(b, j) \in Bag /\ LRem(b, j) \in Bag /\ LRemAll(b, j) \in Bag
  BY DEF NoTokens, Bag, LPush, LRem, LRemAll

(* Every step of enqueue keeps the types (producer.ts). *)
LEMMA ProducerTyped ==
  ASSUME TypeOK, ProducerNext
  PROVE  TypeOK'
<1> USE CommandsTyped DEF TypeOK, StoreTypeOK, recordVars, listVars, fleetVars, Status
<1> PICK j \in Jobs : InsertRow(j) \/ PushFirst(j) \/ EnqueueFails(j)
  BY DEF ProducerNext
<1>f. ProducerFrame /\ left' \in [Kinds -> Nat]
  BY DEF ProducerNext, Spend
<1>1. ProducerTypeOK' /\ StoreTypeOK'
  <2>1. CASE InsertPendingJob(j)  BY <2>1 DEF InsertPendingJob, ProducerTypeOK
  <2>2. CASE InsertDelayedJob(j)  BY <2>2 DEF InsertDelayedJob, ProducerTypeOK
  <2>3. CASE EnqueueNow(j)        BY <2>3 DEF EnqueueNow, NewHash, ProducerTypeOK
  <2>4. CASE EnqueueLater(j)      BY <2>4 DEF EnqueueLater, NewHash, ProducerTypeOK
  <2>5. CASE EnqueueFails(j)      BY <2>5 DEF EnqueueFails, ProducerTypeOK, storeVars
  <2> QED BY <2>1, <2>2, <2>3, <2>4, <2>5 DEF InsertRow, PushFirst
<1>2. (WorkerTypeOK /\ SchedulerTypeOK /\ JanitorTypeOK /\ DlqApiTypeOK)'
  BY <1>f DEF ProducerFrame, workerVars, lifeVars, WorkerTypeOK, SchedulerTypeOK,
              JanitorTypeOK, DlqApiTypeOK
<1> QED BY <1>1, <1>2, <1>f DEF ProducerFrame

(* Every step of start(), stop() and the heartbeat does (worker.ts). *)
LEMMA LifeTyped ==
  ASSUME TypeOK, NEW p \in Procs, LifeStep(p)
  PROVE  StoreTypeOK' /\ WorkerTypeOK'
<1> USE DEF TypeOK, StoreTypeOK, WorkerTypeOK, recordVars, listVars, fleetVars,
            storeVars, Phase, LoopPC
<1>1. CASE Register(p)        BY <1>1 DEF Register, Phases
<1>2. CASE FirstBeat(p)       BY <1>2 DEF FirstBeat, Phases
<1>3. CASE Describe(p)        BY <1>3 DEF Describe, Phases
<1>4. CASE MarkDraining(p)    BY <1>4 DEF MarkDraining, Phases, Busy
<1>5. CASE Drained(p)         BY <1>5 DEF Drained, Phases
<1>6. CASE JoinLoop(p)        BY <1>6 DEF JoinLoop, Phases
<1>7. CASE Deregister(p)      BY <1>7 DEF Deregister, Phases
<1>8. CASE DelHeartbeat(p)    BY <1>8 DEF DelHeartbeat, Phases
<1>9. CASE DelMeta(p)         BY <1>9 DEF DelMeta, Phases
<1>10. CASE BeatMeta(p)       BY <1>10 DEF BeatMeta
<1> QED BY <1>1, <1>2, <1>3, <1>4, <1>5, <1>6, <1>7, <1>8, <1>9, <1>10 DEF LifeStep

(* Every step of the pull loop does (worker.ts loop, pullJob). *)
LEMMA LoopTyped ==
  ASSUME TypeOK, NEW p \in Procs, LoopStep(p)
  PROVE  StoreTypeOK' /\ WorkerTypeOK'
<1> USE CommandsTyped
    DEF TypeOK, StoreTypeOK, WorkerTypeOK, recordVars, listVars, fleetVars,
        storeVars, LoopPC, LoopNext
<1>1. ASSUME NEW s \in Slots, NEW j \in Jobs, Pull(p, s, j)
      PROVE  StoreTypeOK' /\ WorkerTypeOK'
  BY <1>1 DEF Pull, SlotPC
<1>2. CASE ScanEmpty(p)      BY <1>2 DEF ScanEmpty
<1>3. CASE BlockedTimeout(p) BY <1>3 DEF BlockedTimeout
<1>4. CASE Resume(p)         BY <1>4 DEF Resume
<1> QED BY <1>1, <1>2, <1>3, <1>4 DEF LoopStep, ScanPull, BlockedPull

(* A row update keeps the rows typed (db.ts). *)
LEMMA RowTyped ==
  ASSUME StoreTypeOK, NEW j \in Jobs, NEW st \in Status, NEW n \in Nat,
         UpdateRow(j, st, n)
  PROVE  row' \in [Jobs -> [status : Status, attempts : Nat]]
  BY DEF StoreTypeOK, UpdateRow

(* A status write keeps the hashes typed (HSET of status). *)
LEMMA HashTyped ==
  ASSUME StoreTypeOK, NEW j \in Jobs, NEW st \in Status, HSetStatus(j, st)
  PROVE  hash' \in [Jobs -> [status : Status, attempts : Nat, named : BOOLEAN]]
<1>1. [hash[j] EXCEPT !.status = st] \in [status : Status, attempts : Nat, named : BOOLEAN]
  BY DEF StoreTypeOK
<1> QED BY <1>1 DEF StoreTypeOK, HSetStatus

(* A new pc of a busy slot keeps the slots typed (processOne). *)
LEMMA MovedTyped ==
  ASSUME WorkerTypeOK, NEW s \in Slots, slot[s].pc # "free",
         NEW l \in SlotPC, slot' = [slot EXCEPT ![s].pc = l]
  PROVE  /\ slot' \in [Slots -> [pc : SlotPC, job : Jobs \cup {None}, seen : Nat]]
         /\ \A t \in Slots : slot'[t].pc # "free" => slot'[t].job \in Jobs
<1> DEFINE r == [slot[s] EXCEPT !.pc = l]
<1>1. /\ slot \in [Slots -> [pc : SlotPC, job : Jobs \cup {None}, seen : Nat]]
      /\ \A t \in Slots : slot[t].pc # "free" => slot[t].job \in Jobs
  BY DEF WorkerTypeOK
<1>2. r \in [pc : SlotPC, job : Jobs \cup {None}, seen : Nat] /\ r.job = slot[s].job
  BY <1>1
<1>3. slot' = [slot EXCEPT ![s] = r]
  OBVIOUS
<1> HIDE DEF r
<1> QED BY <1>1, <1>2, <1>3

(* A busy slot that moves on stays typed (processOne). *)
LEMMA GotoTyped ==
  ASSUME WorkerTypeOK, NEW s \in Slots, slot[s].pc # "free",
         NEW l \in SlotPC, Goto(s, l), UNCHANGED lifeVars
  PROVE  WorkerTypeOK'
<1>1. slot' = [slot EXCEPT ![s].pc = l] /\ UNCHANGED <<phase, loop, beat, drain, done>>
  BY DEF Goto, lifeVars
<1> QED BY <1>1, MovedTyped DEF WorkerTypeOK

(* Freeing a slot keeps the worker typed (the end of processOne). *)
LEMMA ReleaseTyped ==
  ASSUME WorkerTypeOK, NEW s \in Slots, Release(s), UNCHANGED lifeVars
  PROVE  WorkerTypeOK'
  BY DEF WorkerTypeOK, Release, FreeSlot, SlotPC, lifeVars

(* An ACK leaves bags in the processing lists (LREM). *)
LEMMA AckTyped ==
  ASSUME StoreTypeOK, NEW s \in Slots, slot[s].job \in Jobs, Ack(s)
  PROVE  processing' \in [Procs -> Bag]
  BY ConstantsAssumption, CommandsTyped DEF StoreTypeOK, Ack

(* Every step of processOne, complete and handleFailure keeps the types. *)
LEMMA SlotTyped ==
  ASSUME TypeOK, NEW s \in Slots, SlotStep(s)
  PROVE  StoreTypeOK' /\ WorkerTypeOK'
<1> DEFINE j == slot[s].job
<1> USE CommandsTyped, RowTyped, HashTyped, GotoTyped, ReleaseTyped, AckTyped
    DEF StoreTypeOK, recordVars, listVars, fleetVars, lifeVars, storeVars, At,
        SlotPC, CompletePC, FailurePC, Status
<1>a. /\ StoreTypeOK /\ WorkerTypeOK
      /\ slot[s].pc # "free" => j \in Jobs
      /\ slot[s].seen \in Nat
  BY DEF TypeOK, WorkerTypeOK
<1> USE <1>a
<1>1. CASE Load(s)
  <2>1. CASE hash[j].named
    <3>1. hash[j].attempts \in Nat
      BY <1>1, <2>1 DEF Load
    <3>2. PICK r \in [pc : SlotPC, job : Jobs \cup {None}, seen : Nat] :
            slot' = [slot EXCEPT ![s] = r] /\ r.job \in Jobs
      <4> DEFINE r == [pc |-> IF RateLimited THEN "limit" ELSE "pgActive",
                       job |-> j, seen |-> hash[j].attempts]
      <4>1. r \in [pc : SlotPC, job : Jobs \cup {None}, seen : Nat] /\ r.job \in Jobs
        BY <1>1, <3>1 DEF Load
      <4>2. slot' = [slot EXCEPT ![s] = r]
        BY <1>1, <2>1 DEF Load
      <4> QED BY <4>1, <4>2
    <3>3. UNCHANGED <<phase, loop, beat, drain, done>>
      BY <1>1, <2>1 DEF Load
    <3>4. WorkerTypeOK'
      BY <3>2, <3>3 DEF WorkerTypeOK
    <3> QED BY <1>1, <3>4 DEF Load
  <2>2. CASE ~ hash[j].named
    BY <1>1, <2>2 DEF Load
  <2> QED BY <2>1, <2>2
<1>2. CASE Allowed(s)
  BY <1>2 DEF Allowed
<1>3. CASE Denied(s)
  BY <1>3 DEF Denied
<1>4. CASE PushBack(s)
  BY <1>4 DEF PushBack
<1>5. CASE Sleep(s)
  BY <1>5 DEF Sleep
<1>6. CASE PgActive(s)
  BY <1>6 DEF PgActive, MarkJobActive
<1>7. CASE SetActive(s)
  <2> DEFINE y == [status |-> "active", attempts |-> slot[s].seen + 1, named |-> hash[j].named]
  <2>1. /\ slot[s].pc = "setActive" /\ Goto(s, "run") /\ UNCHANGED lifeVars
        /\ hash' = [hash EXCEPT ![j] = y] /\ UNCHANGED <<row, listVars, fleetVars>>
    BY <1>7 DEF SetActive
  <2>2. WorkerTypeOK'
    BY <2>1
  <2>3. y \in [status : Status, attempts : Nat, named : BOOLEAN]
    BY <2>1
  <2> HIDE DEF y
  <2>4. hash' \in [Jobs -> [status : Status, attempts : Nat, named : BOOLEAN]]
    BY <2>1, <2>3
  <2> QED BY <2>1, <2>2, <2>4
<1>8. CASE HandlerReturns(s)
  <2>1. /\ slot[s].pc = "run"
        /\ slot' = [slot EXCEPT ![s].pc = "pgCompleted"]
        /\ done' = done \cup {j}
        /\ UNCHANGED <<phase, loop, beat, drain>>
        /\ StoreTypeOK'
    BY <1>8 DEF HandlerReturns, lifeVars
  <2>2. /\ slot' \in [Slots -> [pc : SlotPC, job : Jobs \cup {None}, seen : Nat]]
        /\ \A t \in Slots : slot'[t].pc # "free" => slot'[t].job \in Jobs
    BY <2>1, MovedTyped
  <2>3. done' \subseteq Jobs
    BY <2>1 DEF WorkerTypeOK
  <2> QED BY <2>1, <2>2, <2>3 DEF WorkerTypeOK
<1>9. CASE HandlerFails(s)
  BY <1>9 DEF HandlerFails
<1>10. CASE PgCompleted(s)
  BY <1>10 DEF PgCompleted, MarkJobCompleted
<1>11. CASE SetCompleted(s)
  BY <1>11 DEF SetCompleted
<1>12. CASE AckCompleted(s)
  BY <1>12 DEF AckCompleted
<1>13. CASE Reread(s)
  BY <1>13 DEF Reread
<1>14. CASE FailLoad(s)
  BY <1>14 DEF FailLoad
<1>15. CASE PgDlq(s)
  BY <1>15 DEF PgDlq, MarkJobDlq
<1>16. CASE SetDlq(s)
  BY <1>16 DEF SetDlq
<1>17. CASE PushDlq(s)
  BY <1>17 DEF PushDlq
<1>18. CASE AckDlq(s)
  BY <1>18 DEF AckDlq
<1>19. CASE PgDelayed(s)
  BY <1>19 DEF PgDelayed, MarkJobDelayed
<1>20. CASE SetDelayed(s)
  BY <1>20 DEF SetDelayed
<1>21. CASE ZAddDelayed(s)
  BY <1>21 DEF ZAddDelayed
<1>22. CASE AckDelayed(s)
  BY <1>22 DEF AckDelayed
<1> QED
  BY <1>1, <1>2, <1>3, <1>4, <1>5, <1>6, <1>7, <1>8, <1>9, <1>10, <1>11, <1>12, <1>13, <1>14, <1>15, <1>16, <1>17, <1>18, <1>19, <1>20, <1>21, <1>22
  DEF SlotStep

(* Spending a fault keeps the budget typed (Spend). *)
LEMMA SpendTyped ==
  ASSUME left \in [Kinds -> Nat], NEW k \in Kinds, Spend(k)
  PROVE  left' \in [Kinds -> Nat]
  BY DEF Spend

(* Every fault of a worker keeps the types (WorkerFault). *)
LEMMA FaultTyped ==
  ASSUME TypeOK, WorkerFault
  PROVE  TypeOK'
<1> USE CommandsTyped, CompositionAssumption
    DEF StoreTypeOK, WorkerTypeOK, recordVars, listVars, fleetVars, lifeVars,
        storeVars, Spend
<1>a. left' \in [Kinds -> Nat]
  BY DEF WorkerFault, TypeOK
<1>1. ASSUME NEW p \in Procs,
             \/ PullError(p) \/ \E j \in Jobs : PullReplyLost(p, j)
             \/ BeatSet(p) \/ DrainTimeout(p) \/ Stop(p)
      PROVE  StoreTypeOK' /\ WorkerTypeOK'
  <2> USE DEF TypeOK
  <2>1. CASE PullError(p)    BY <2>1 DEF PullError, LoopPC
  <2>2. ASSUME NEW j \in Jobs, PullReplyLost(p, j)
        PROVE  StoreTypeOK' /\ WorkerTypeOK'
    BY <2>2 DEF PullReplyLost, LoopPC
  <2>3. CASE BeatSet(p)      BY <2>3 DEF BeatSet
  <2>4. CASE DrainTimeout(p) BY <2>4 DEF DrainTimeout, Phases, Phase
  <2>5. CASE Stop(p)         BY <2>5 DEF Stop, Phases, Phase
  <2> QED BY <1>1, <2>1, <2>2, <2>3, <2>4, <2>5
<1>2. ASSUME NEW s \in Slots, CommandFails(s)
      PROVE  StoreTypeOK' /\ WorkerTypeOK'
  <2>1. StoreTypeOK'
    BY <1>2 DEF CommandFails, TypeOK
  <2>2. CASE slot[s].pc \in CompletePC
    BY <1>2, <2>2, GotoTyped DEF CommandFails, TypeOK, SlotPC, CompletePC, FailurePC
  <2>3. CASE slot[s].pc \notin CompletePC
    BY <1>2, <2>3, ReleaseTyped DEF CommandFails, TypeOK
  <2> QED BY <2>1, <2>2, <2>3
<1>3. StoreTypeOK' /\ WorkerTypeOK'
  BY <1>1, <1>2 DEF WorkerFault
<1> QED
  BY <1>a, <1>3 DEF WorkerFault, TypeOK, ProducerTypeOK, SchedulerTypeOK,
                    JanitorTypeOK, DlqApiTypeOK

(* A tick that has pushed its job stays typed (the LPUSH of tick). *)
LEMMA PushedTyped ==
  ASSUME SchedulerTypeOK, NEW p \in Procs, sched[p].pc = "push",
         sched' = [sched EXCEPT ![p].pc = "mark"]
  PROVE  SchedulerTypeOK'
<1> DEFINE t == [sched[p] EXCEPT !.pc = "mark"]
<1>1. /\ t \in [pc : {"idle", "claim", "push", "mark"}, due : SUBSET Jobs, job : Jobs \cup {None}]
      /\ t.job \in Jobs
  BY DEF SchedulerTypeOK
<1>2. sched' = [sched EXCEPT ![p] = t]
  OBVIOUS
<1> HIDE DEF t
<1> QED BY <1>1, <1>2 DEF SchedulerTypeOK

(* Every step of a promotion tick keeps the types (scheduler.ts). *)
LEMMA SchedulerTyped ==
  ASSUME TypeOK, NEW p \in Procs, SchedulerStep(p)
  PROVE  StoreTypeOK' /\ SchedulerTypeOK'
<1> USE CommandsTyped, HashTyped
    DEF TypeOK, StoreTypeOK, SchedulerTypeOK, recordVars, listVars, fleetVars,
        storeVars, SchedIdle, TickWith
<1>1. ASSUME NEW due \in SUBSET delayed, FindDue(p, due)
      PROVE  StoreTypeOK' /\ SchedulerTypeOK'
  BY <1>1 DEF FindDue
<1>2. ASSUME NEW j \in Jobs, Claim(p, j)
      PROVE  StoreTypeOK' /\ SchedulerTypeOK'
  BY <1>2 DEF Claim
<1>3. ASSUME NEW j \in Jobs, ClaimMissed(p, j)
      PROVE  StoreTypeOK' /\ SchedulerTypeOK'
  BY <1>3 DEF ClaimMissed
<1>4. CASE PushDue(p)
  <2>1. StoreTypeOK'
    BY <1>4 DEF PushDue
  <2>2. SchedulerTypeOK'
    BY <1>4, PushedTyped DEF PushDue
  <2> QED BY <2>1, <2>2
<1>5. CASE MarkPending(p)
  <2>1. sched[p].job \in Jobs /\ HSetStatus(sched[p].job, "pending")
    BY <1>5 DEF MarkPending
  <2>2. StoreTypeOK'
    BY <1>5, <2>1 DEF MarkPending, Status
  <2>3. SchedulerTypeOK'
    BY <1>5 DEF MarkPending
  <2> QED BY <2>2, <2>3
<1> QED BY <1>1, <1>2, <1>3, <1>4, <1>5 DEF SchedulerStep

(* A janitor that only moves on stays typed (janitor.ts tick). *)
LEMMA JanGotoTyped ==
  ASSUME JanitorTypeOK, NEW p \in Procs, NEW l \in JanitorPC,
         jan' = [jan EXCEPT ![p].pc = l],
         jan[p].target \in Procs, l \in {"reset", "pgReset"} => jan[p].job \in Jobs
  PROVE  JanitorTypeOK'
<1> DEFINE T == [pc : JanitorPC, scan : SUBSET Procs, target : Procs \cup {None},
                 todo : Bag, job : Jobs \cup {None}]
<1>1. [jan[p] EXCEPT !.pc = l] \in T
  BY DEF JanitorTypeOK
<1>2. jan' \in [Procs -> T]
  BY <1>1 DEF JanitorTypeOK
<1> QED BY <1>2 DEF JanitorTypeOK

(* Every step of a janitor tick keeps the types (janitor.ts). *)
LEMMA JanitorTyped ==
  ASSUME TypeOK, NEW p \in Procs, JanitorStep(p) \/ JanitorFails(p)
  PROVE  StoreTypeOK' /\ JanitorTypeOK'
<1>0. StoreTypeOK /\ JanitorTypeOK
  BY DEF TypeOK
<1> USE <1>0, CommandsTyped, HashTyped, RowTyped
    DEF StoreTypeOK, JanitorTypeOK, JanitorPC, recordVars, listVars,
        fleetVars, storeVars, JanIdle, ScanWith, NextOrphan
<1>1. CASE JanTick(p)        BY <1>1 DEF JanTick
<1>2. ASSUME NEW w \in Procs, WorkerAlive(p, w)
      PROVE  StoreTypeOK' /\ JanitorTypeOK'
  BY <1>2 DEF WorkerAlive
<1>3. ASSUME NEW w \in Procs, WorkerDead(p, w)
      PROVE  StoreTypeOK' /\ JanitorTypeOK'
  BY <1>3 DEF WorkerDead
<1>4. CASE ListOrphans(p)    BY <1>4 DEF ListOrphans
<1>5. ASSUME NEW j \in Jobs, PushOrphan(p, j)
      PROVE  StoreTypeOK' /\ JanitorTypeOK'
  BY <1>5 DEF PushOrphan
<1>6. CASE ResetOrphan(p)
  <2>1. StoreTypeOK'   BY <1>6 DEF ResetOrphan, Status
  <2>2. JanitorTypeOK' BY <1>6, JanGotoTyped DEF ResetOrphan
  <2> QED BY <2>1, <2>2
<1>7. CASE PgResetOrphan(p)  BY <1>7 DEF PgResetOrphan, MarkJobPendingForRetry, Status
<1>8. CASE DelProcessing(p)
  <2>1. StoreTypeOK'   BY <1>8 DEF DelProcessing
  <2>2. JanitorTypeOK' BY <1>8, JanGotoTyped DEF DelProcessing
  <2> QED BY <2>1, <2>2
<1>9. CASE DeregisterDead(p)
  <2>1. StoreTypeOK'   BY <1>9 DEF DeregisterDead
  <2>2. JanitorTypeOK' BY <1>9, JanGotoTyped DEF DeregisterDead
  <2> QED BY <2>1, <2>2
<1>10. CASE DelDeadMeta(p)   BY <1>10 DEF DelDeadMeta
<1>11. CASE JanitorFails(p)  BY <1>11 DEF JanitorFails
<1> QED
  BY <1>1, <1>2, <1>3, <1>4, <1>5, <1>6, <1>7, <1>8, <1>9, <1>10, <1>11
  DEF JanitorStep

(* A bulk requeue that has ids left is typed (routes.ts 278-339). *)
LEMMA BulkWithTyped ==
  ASSUME NEW b \in Bag, NEW j \in Jobs
  PROVE  BulkWith(b, j) \in [pc : RequestPC, bulk : BOOLEAN, todo : Bag, job : Jobs \cup {None}]
  BY CommandsTyped DEF BulkWith, RequestPC

(* Going on with the next id, or answering, keeps requests typed. *)
LEMMA NextIdTyped ==
  ASSUME DlqApiTypeOK, NEW r \in Requests, NextId(r)
  PROVE  DlqApiTypeOK'
<1>1. CASE req[r].todo = NoTokens
  <2>1. req' = [req EXCEPT ![r] = ReqIdle]
    BY <1>1 DEF NextId
  <2>2. /\ ReqIdle \in [pc : RequestPC, bulk : BOOLEAN, todo : Bag, job : Jobs \cup {None}]
        /\ ReqIdle.pc = "idle"
    BY CommandsTyped DEF ReqIdle, RequestPC
  <2> QED BY <2>1, <2>2 DEF DlqApiTypeOK
<1>2. CASE req[r].todo # NoTokens
  <2>1. PICK j \in Jobs : req' = [req EXCEPT ![r] = BulkWith(@.todo, j)]
    BY <1>2 DEF NextId
  <2>2. req[r].todo \in Bag
    BY DEF DlqApiTypeOK
  <2>3. BulkWith(req[r].todo, j).job = j
    BY DEF BulkWith
  <2> QED BY <2>1, <2>2, <2>3, BulkWithTyped DEF DlqApiTypeOK
<1> QED BY <1>1, <1>2

(* A request that only moves on stays typed (the handlers of routes.ts). *)
LEMMA ReqGotoTyped ==
  ASSUME DlqApiTypeOK, NEW r \in Requests, req[r].pc # "idle",
         NEW l \in RequestPC, req' = [req EXCEPT ![r].pc = l]
  PROVE  DlqApiTypeOK'
<1> DEFINE x == [req[r] EXCEPT !.pc = l]
<1>1. /\ x \in [pc : RequestPC, bulk : BOOLEAN, todo : Bag, job : Jobs \cup {None}]
      /\ x.job = req[r].job /\ x.job \in Jobs
  BY DEF DlqApiTypeOK
<1>2. req' = [req EXCEPT ![r] = x]
  OBVIOUS
<1> HIDE DEF x
<1> QED BY <1>1, <1>2 DEF DlqApiTypeOK

(* Every step of retry and bulk requeue keeps the types (routes.ts). *)
LEMMA DlqApiTyped ==
  ASSUME TypeOK, NEW r \in Requests,
         \/ \E j \in Jobs : RetryJob(r, j) \/ RequeueAll(r, j) \/ RequeueIds(r, j)
         \/ RequestStep(r) \/ RequestFails(r)
  PROVE  StoreTypeOK' /\ DlqApiTypeOK'
<1>0. StoreTypeOK /\ DlqApiTypeOK
  BY DEF TypeOK
<1> USE <1>0, CommandsTyped, RowTyped
    DEF StoreTypeOK, DlqApiTypeOK, RequestPC, recordVars, listVars, fleetVars,
        storeVars
<1>1. ASSUME NEW j \in Jobs, RetryJob(r, j)
      PROVE  StoreTypeOK' /\ DlqApiTypeOK'
  BY <1>1 DEF RetryJob
<1>2. ASSUME NEW j \in Jobs, RequeueAll(r, j) \/ RequeueIds(r, j)
      PROVE  StoreTypeOK' /\ DlqApiTypeOK'
  <2>0. [Jobs -> 0..MaxMentions] \subseteq Bag
    BY MaxMentionsAssumption DEF Bag
  <2>1. PICK b \in Bag : Requeue(r, b, j)
    <3>1. CASE RequeueAll(r, j) BY <3>1 DEF RequeueAll
    <3>2. CASE RequeueIds(r, j) BY <3>2, <2>0 DEF RequeueIds
    <3> QED BY <1>2, <3>1, <3>2
  <2>2. BulkWith(b, j).job = j
    BY DEF BulkWith
  <2> QED BY <2>1, <2>2, BulkWithTyped DEF Requeue
<1>m. ASSUME req[r].pc # "idle"
      PROVE  req[r].job \in Jobs
  BY <1>m
<1>3. CASE ResetRow(r)
  <2>1. StoreTypeOK'  BY <1>3, <1>m DEF ResetRow, MarkJobPendingForRetry, Status
  <2>2. DlqApiTypeOK' BY <1>3, ReqGotoTyped DEF ResetRow
  <2> QED BY <2>1, <2>2
<1>4. CASE ResetHash(r)
  <2>1. StoreTypeOK'  BY <1>4, <1>m DEF ResetHash, Status
  <2>2. DlqApiTypeOK' BY <1>4, ReqGotoTyped DEF ResetHash
  <2> QED BY <2>1, <2>2
<1>5. CASE DropFromDlq(r)
  <2>1. StoreTypeOK'  BY <1>5, <1>m DEF DropFromDlq
  <2>2. DlqApiTypeOK' BY <1>5, ReqGotoTyped DEF DropFromDlq
  <2> QED BY <2>1, <2>2
<1>6. CASE PushBackToQueue(r) BY <1>6, NextIdTyped DEF PushBackToQueue
<1>7. CASE RequestFails(r)    BY <1>7, NextIdTyped DEF RequestFails
<1> QED BY <1>1, <1>2, <1>3, <1>4, <1>5, <1>6, <1>7 DEF RequestStep

(* Crash, exit, launch and expiry of a heartbeat keep the types. *)
LEMMA ProcessTyped ==
  ASSUME TypeOK, ProcessNext
  PROVE  TypeOK'
<1> USE DEF TypeOK, StoreTypeOK, ProducerTypeOK, WorkerTypeOK, SchedulerTypeOK,
            JanitorTypeOK, DlqApiTypeOK, recordVars, listVars, fleetVars, lifeVars,
            workerVars, storeVars
<1>0. \A k \in Kinds : Spend(k) => left' \in [Kinds -> Nat]
  BY SpendTyped
<1>1. ASSUME NEW p \in Procs, Kill(p), left' \in [Kinds -> Nat]
      PROVE  TypeOK'
  BY <1>1, CommandsTyped, ConstantsAssumption
  DEF Kill, Promoting, Phase, LoopPC, SlotPC, FreeSlot, SchedIdle, JanIdle, JanitorPC
<1>2. ASSUME NEW p \in Procs, Crash(p)
      PROVE  TypeOK'
  BY <1>0, <1>1, <1>2 DEF Crash, Kinds
<1>3. ASSUME NEW p \in Procs, Exit(p)
      PROVE  TypeOK'
  BY <1>1, <1>3 DEF Exit
<1>4. ASSUME NEW p \in Procs, Launch(p)
      PROVE  TypeOK'
  BY <1>0, <1>4 DEF Launch, Phases, Phase, Kinds
<1>5. ASSUME NEW p \in Procs, Expire(p)
      PROVE  TypeOK'
  <2>1. left' \in [Kinds -> Nat]
    BY <1>0, <1>5 DEF Expire, Kinds
  <2> QED BY <1>5, <2>1 DEF Expire
<1>6. CASE ApiCrash
  <2>1. left' \in [Kinds -> Nat]
    BY <1>0, <1>6 DEF ApiCrash, Kinds
  <2>2. \A r \in Requests : Requeueing(r) \subseteq Jobs
    BY DEF Requeueing
  <2>3. DlqApiTypeOK'
    BY <1>6, CommandsTyped DEF ApiCrash, ReqIdle, RequestPC
  <2>4. ProducerTypeOK'
    BY <1>6 DEF ApiCrash
  <2> QED BY <1>6, <2>1, <2>2, <2>3, <2>4 DEF ApiCrash
<1> QED BY <1>2, <1>3, <1>4, <1>5, <1>6 DEF ProcessNext

(* Every step of the system, or stutter, keeps the types. *)
LEMMA NextTyped ==
  ASSUME TypeOK, [Next]_vars
  PROVE  TypeOK'
<1> USE DEF TypeOK, workerVars, lifeVars
<1>1. CASE ProducerNext  BY <1>1, ProducerTyped
<1>2. CASE WorkerNext
  BY <1>2, LifeTyped, LoopTyped, SlotTyped
  DEF WorkerNext, WorkerFrame, ProducerTypeOK, SchedulerTypeOK, JanitorTypeOK, DlqApiTypeOK
<1>3. CASE WorkerFault   BY <1>3, FaultTyped
<1>4. CASE SchedulerNext
  BY <1>4, SchedulerTyped
  DEF SchedulerNext, SchedulerFrame, ProducerTypeOK, WorkerTypeOK, JanitorTypeOK, DlqApiTypeOK
<1>5. CASE JanitorNext
  BY <1>5, JanitorTyped
  DEF JanitorNext, JanitorFrame, Spend, ProducerTypeOK, WorkerTypeOK, SchedulerTypeOK, DlqApiTypeOK
<1>6. CASE DlqApiNext
  <2>1. PICK r \in Requests :
          /\ \/ \E j \in Jobs : RetryJob(r, j) \/ RequeueAll(r, j) \/ RequeueIds(r, j)
             \/ RequestStep(r) \/ RequestFails(r)
          /\ left' = left \/ \E k \in Kinds : Spend(k)
          /\ dropped' = dropped \/ (RequestFails(r) /\ dropped' = dropped \cup Requeueing(r))
          /\ UNCHANGED <<enqueue, workerVars, sched, jan>>
    BY <1>6 DEF DlqApiNext, Kinds
  <2>2. StoreTypeOK' /\ DlqApiTypeOK'
    BY <2>1, DlqApiTyped
  <2>3. dropped' \subseteq Jobs
    BY <2>1 DEF Requeueing, DlqApiTypeOK
  <2>4. left' \in [Kinds -> Nat]
    BY <2>1 DEF Spend
  <2> QED
    BY <2>1, <2>2, <2>3, <2>4
    DEF ProducerTypeOK, WorkerTypeOK, SchedulerTypeOK, JanitorTypeOK
<1>7. CASE ProcessNext   BY <1>7, ProcessTyped
<1>8. CASE UNCHANGED vars
  BY <1>8 DEF vars, storeVars, recordVars, listVars, fleetVars, StoreTypeOK,
              ProducerTypeOK, WorkerTypeOK, SchedulerTypeOK, JanitorTypeOK, DlqApiTypeOK
<1> QED BY <1>1, <1>2, <1>3, <1>4, <1>5, <1>6, <1>7, <1>8 DEF Next

(* Every variable keeps its type in every reachable state. *)
THEOREM TypeCorrect == Spec => []TypeOK
<1>1. Init => TypeOK
  BY InitTyped
<1>2. TypeOK /\ [Next]_vars => TypeOK'
  BY NextTyped
<1> QED BY <1>1, <1>2, PTL DEF Spec

-----------------------------------------------------------------------------
(* Attempts. *)

(* No row vanishes, appears, or counts fewer attempts than before. *)
RowsGrow ==
  \A j \in Jobs :
    /\ row[j].attempts <= row'[j].attempts
    /\ row[j].status = "none" => row'[j] = row[j]
    /\ row'[j].status = "none" => row[j].status = "none"

(* What the write of a hash, and of a dead letter, has to respect. *)
HashLags ==
  \A j \in Jobs :
    /\ hash'[j].attempts <= row'[j].attempts
    /\ hash'[j].named => hash[j].named

DlqAtLimit ==
  \A j \in Jobs : dlq'[j] > 0 => dlq[j] > 0 \/ row'[j].attempts >= MaxAttempts

(* The points of processOne at which a slot relies on what it has read. *)
Relying == {"limit", "pushBack", "pgActive", "setActive", "pgDlq", "setDlq", "pushDlq"}

-----------------------------------------------------------------------------
(* Every UPDATE of the job DAO writes a status and at least the attempts   *)
(* the row has, so rows grow (db.ts).                                      *)
LEMMA UpdatesGrow ==
  ASSUME StoreTypeOK, NEW j \in Jobs,
         NEW st \in Status \ {"none"}, NEW n \in Nat, row[j].attempts <= n,
         UpdateRow(j, st, n)
  PROVE  RowsGrow
  BY DEF StoreTypeOK, UpdateRow, RowsGrow

(* A row that is not written grows. *)
LEMMA SameRowsGrow ==
  ASSUME StoreTypeOK, UNCHANGED row
  PROVE  RowsGrow
  BY DEF StoreTypeOK, RowsGrow

(* A hash that is not written, or only its status, lags behind growing rows. *)
LEMMA StatusLags ==
  ASSUME StoreTypeOK, StoreTypeOK', AttemptsInv, RowsGrow,
         UNCHANGED hash \/ \E j \in Jobs, st \in Status : HSetStatus(j, st)
  PROVE  HashLags
<1>1. \A i \in Jobs : hash'[i].attempts = hash[i].attempts /\ hash'[i].named = hash[i].named
  <2>1. CASE UNCHANGED hash
    BY <2>1
  <2>2. ASSUME NEW j \in Jobs, NEW st \in Status, HSetStatus(j, st)
        PROVE  \A i \in Jobs : /\ hash'[i].attempts = hash[i].attempts
                               /\ hash'[i].named = hash[i].named
    BY <2>2 DEF StoreTypeOK, HSetStatus
  <2> QED BY <2>1, <2>2
<1> QED BY <1>1 DEF StoreTypeOK, AttemptsInv, AttemptsOfJob, RowsGrow, HashLags

(* What holds of the records of a job is kept when rows grow, its hash     *)
(* lags, it is dead-lettered at the limit only and nobody enqueues it.     *)
LEMMA JobsKept ==
  ASSUME StoreTypeOK, StoreTypeOK', AttemptsInv, UNCHANGED enqueue,
         RowsGrow, HashLags, DlqAtLimit
  PROVE  \A j \in Jobs : AttemptsOfJob(j)'
<1> TAKE j \in Jobs
<1>1. AttemptsOfJob(j)
  BY DEF AttemptsInv
<1>2. row[j].attempts \in Nat /\ row'[j].attempts \in Nat /\ MaxAttempts \in Nat
  BY DEF StoreTypeOK
<1>3. /\ row'[j].status = "none" => row'[j].attempts = 0
      /\ enqueue[j] = "new" => row'[j].status = "none"
      /\ enqueue[j] # "new" => row'[j].status # "none"
  BY <1>1 DEF AttemptsOfJob, RowsGrow
<1>4. hash'[j].attempts <= row'[j].attempts /\ (hash'[j].named => row'[j].status # "none")
  BY <1>1 DEF AttemptsOfJob, RowsGrow, HashLags
<1>5. dlq'[j] > 0 => row'[j].attempts >= MaxAttempts
  BY <1>1, <1>2 DEF AttemptsOfJob, RowsGrow, DlqAtLimit
<1> QED BY <1>3, <1>4, <1>5 DEF AttemptsOfJob

(* What a slot knows is kept when rows grow and the slot does not move, or *)
(* moves to a point where it relies on nothing.                            *)
LEMMA SlotKept ==
  ASSUME StoreTypeOK, StoreTypeOK', WorkerTypeOK, AttemptsInv, RowsGrow,
         NEW s \in Slots, slot'[s] = slot[s] \/ slot'[s].pc \notin Relying
  PROVE  AttemptsOfSlot(s)'
<1>1. CASE slot'[s].pc \notin Relying
  BY <1>1 DEF Relying, AttemptsOfSlot
<1>2. CASE slot'[s] = slot[s] /\ slot[s].pc \in Relying
  <2> DEFINE j == slot[s].job
  <2>1. j \in Jobs /\ slot[s].seen \in Nat
    BY <1>2 DEF WorkerTypeOK, Relying
  <2>2. row[j].attempts \in Nat /\ row'[j].attempts \in Nat /\ MaxAttempts \in Nat
    BY <2>1 DEF StoreTypeOK
  <2>3. row[j].attempts <= row'[j].attempts
        /\ (row'[j].status = "none" => row[j].status = "none")
    BY <2>1 DEF RowsGrow
  <2>4. AttemptsOfSlot(s)
    BY DEF AttemptsInv
  <2> QED BY <1>2, <2>1, <2>2, <2>3, <2>4 DEF AttemptsOfSlot
<1> QED BY <1>1, <1>2

(* So a step that only makes rows grow, and of which no slot learns        *)
(* anything, keeps the invariant.                                          *)
LEMMA InvKept ==
  ASSUME StoreTypeOK, StoreTypeOK', WorkerTypeOK, AttemptsInv, UNCHANGED enqueue,
         RowsGrow, HashLags, DlqAtLimit,
         \A s \in Slots : slot'[s] = slot[s] \/ slot'[s].pc \notin Relying
  PROVE  AttemptsInv'
  BY JobsKept, SlotKept DEF AttemptsInv

-----------------------------------------------------------------------------
(* The invariant holds of the empty stores. *)
LEMMA InitAttempts == Init => AttemptsInv
  BY DEF Init, StoreInit, ProducerInit, WorkerInit, FreeSlot, AttemptsInv,
         AttemptsOfJob, AttemptsOfSlot

(* enqueue starts a row at 0, and its hash after the row (producer.ts). *)
LEMMA ProducerAttempts ==
  ASSUME TypeOK, TypeOK', AttemptsInv, ProducerNext
  PROVE  AttemptsInv'
<1>0. StoreTypeOK /\ StoreTypeOK' /\ WorkerTypeOK /\ ProducerTypeOK /\ UNCHANGED slot
  BY DEF TypeOK, ProducerNext, ProducerFrame, workerVars
<1> PICK j \in Jobs : InsertRow(j) \/ PushFirst(j) \/ EnqueueFails(j)
  BY DEF ProducerNext
<1>1. \A i \in Jobs : row[i].attempts <= row'[i].attempts
                      /\ (row'[i].status = "none" => row[i].status = "none")
  BY <1>0
  DEF InsertRow, PushFirst, InsertPendingJob, InsertDelayedJob, EnqueueNow, EnqueueLater,
      EnqueueFails, storeVars, recordVars, StoreTypeOK, AttemptsInv, AttemptsOfJob
<1>2. \A i \in Jobs : AttemptsOfJob(i)'
  <2> USE <1>0, <1>1
      DEF StoreTypeOK, ProducerTypeOK, AttemptsInv, AttemptsOfJob, listVars, recordVars
  <2>1. CASE InsertPendingJob(j)  BY <2>1 DEF InsertPendingJob
  <2>2. CASE InsertDelayedJob(j)  BY <2>2 DEF InsertDelayedJob
  <2>3. CASE EnqueueNow(j)        BY <2>3 DEF EnqueueNow, NewHash
  <2>4. CASE EnqueueLater(j)      BY <2>4 DEF EnqueueLater, NewHash
  <2>5. CASE EnqueueFails(j)      BY <2>5 DEF EnqueueFails, Enqueueing, storeVars
  <2> QED BY <2>1, <2>2, <2>3, <2>4, <2>5 DEF InsertRow, PushFirst
<1>3. \A s \in Slots : slot[s].pc # "free" => slot[s].job \in Jobs /\ slot[s].seen \in Nat
  BY <1>0 DEF WorkerTypeOK
<1>4. ASSUME NEW s \in Slots
      PROVE  AttemptsOfSlot(s)'
  <2> DEFINE i == slot[s].job
  <2>1. AttemptsOfSlot(s) /\ slot'[s] = slot[s]
    BY <1>0 DEF AttemptsInv
  <2>2. CASE slot[s].pc = "free"
    BY <2>1, <2>2 DEF AttemptsOfSlot
  <2>3. CASE slot[s].pc # "free"
    <3>1. i \in Jobs /\ slot[s].seen \in Nat
      BY <1>3, <2>3
    <3>2. row[i].attempts \in Nat /\ row'[i].attempts \in Nat /\ MaxAttempts \in Nat
      BY <1>0, <3>1 DEF StoreTypeOK
    <3> QED BY <1>1, <2>1, <3>1, <3>2 DEF AttemptsOfSlot
  <2> QED BY <2>2, <2>3
<1> QED BY <1>2, <1>4 DEF AttemptsInv

(* A step of start(), stop() or the pull loop touches no record, and a job *)
(* it pulls has still to be loaded (worker.ts).                            *)
LEMMA LifeLoopAttempts ==
  ASSUME TypeOK, TypeOK', AttemptsInv, WorkerFrame,
         NEW p \in Procs, LifeStep(p) \/ LoopStep(p)
  PROVE  AttemptsInv'
<1>0. StoreTypeOK /\ StoreTypeOK' /\ WorkerTypeOK /\ UNCHANGED enqueue
  BY DEF TypeOK, WorkerFrame
<1>1. UNCHANGED <<row, hash, dlq>>
  BY DEF LifeStep, LoopStep, Register, FirstBeat, Describe, MarkDraining, Drained,
         JoinLoop, Deregister, DelHeartbeat, DelMeta, BeatMeta, ScanPull, BlockedPull,
         Pull, ScanEmpty, BlockedTimeout, Resume, storeVars, recordVars, listVars
<1>2. \A s \in Slots : slot'[s] = slot[s] \/ slot'[s].pc \notin Relying
  <2>1. CASE LifeStep(p)
    BY <2>1 DEF LifeStep, Register, FirstBeat, Describe, MarkDraining, Drained,
                JoinLoop, Deregister, DelHeartbeat, DelMeta, BeatMeta
  <2>2. CASE UNCHANGED slot
    BY <2>2
  <2>3. ASSUME NEW s \in Slots, NEW j \in Jobs, Pull(p, s, j)
        PROVE  \A t \in Slots : slot'[t] = slot[t] \/ slot'[t].pc \notin Relying
    BY <2>3, <1>0 DEF Pull, WorkerTypeOK, Relying
  <2>4. CASE LoopStep(p)
    BY <2>2, <2>3, <2>4 DEF LoopStep, ScanPull, BlockedPull, ScanEmpty,
                BlockedTimeout, Resume
  <2> QED BY <2>1, <2>4
<1>3. RowsGrow /\ HashLags /\ DlqAtLimit
  BY <1>0, <1>1, SameRowsGrow, StatusLags DEF DlqAtLimit
<1> QED BY <1>0, <1>2, <1>3, InvKept

(* What a step of a slot has in common: its job and what it has read of it *)
(* are typed, and what the invariant says of it holds.                     *)
LEMMA SlotFacts ==
  ASSUME TypeOK, TypeOK', AttemptsInv, NEW s \in Slots, slot[s].pc # "free"
  PROVE  LET j == slot[s].job IN
         /\ j \in Jobs /\ slot[s].seen \in Nat
         /\ row[j].attempts \in Nat /\ row'[j].attempts \in Nat
         /\ row[j].status \in Status
         /\ hash[j].attempts \in Nat
         /\ AttemptsOfSlot(s) /\ AttemptsOfJob(j)
<1>1. slot[s].job \in Jobs /\ slot[s].seen \in Nat
  BY DEF TypeOK, WorkerTypeOK
<1> QED BY <1>1 DEF TypeOK, StoreTypeOK, AttemptsInv

(* The rows a slot writes grow (processOne, complete, handleFailure).      *)
LEMMA SlotRows ==
  ASSUME TypeOK, TypeOK', AttemptsInv, NEW s \in Slots, slot[s].pc # "free", SlotStep(s)
  PROVE  RowsGrow
<1> USE UpdatesGrow, SameRowsGrow, SlotFacts
    DEF TypeOK, Status, storeVars, recordVars, listVars
<1>1. CASE PgActive(s)    BY <1>1 DEF PgActive, MarkJobActive
<1>2. CASE PgCompleted(s) BY <1>2 DEF PgCompleted, MarkJobCompleted
<1>3. CASE PgDlq(s)       BY <1>3 DEF PgDlq, MarkJobDlq
<1>4. CASE PgDelayed(s)   BY <1>4 DEF PgDelayed, MarkJobDelayed
<1>5. CASE UNCHANGED row  BY <1>5
<1> QED
  BY <1>1, <1>2, <1>3, <1>4, <1>5
  DEF SlotStep, Load, Allowed, Denied, PushBack, Sleep, SetActive, HandlerReturns,
      HandlerFails, SetCompleted, AckCompleted, Reread, FailLoad, SetDlq, PushDlq,
      AckDlq, SetDelayed, ZAddDelayed, AckDelayed

(* A slot writes the attempts it has read plus one, after the row has been *)
(* incremented; it never names a hash.                                     *)
LEMMA SlotHash ==
  ASSUME TypeOK, TypeOK', AttemptsInv, NEW s \in Slots, slot[s].pc # "free",
         SlotStep(s), RowsGrow
  PROVE  HashLags
<1> DEFINE j == slot[s].job
<1>0. StoreTypeOK /\ StoreTypeOK' /\ j \in Jobs
  BY SlotFacts DEF TypeOK
<1>1. CASE SetActive(s)
  <2>1. slot[s].seen + 1 <= row[j].attempts /\ UNCHANGED row
    BY <1>1, SlotFacts DEF SetActive, At, AttemptsOfSlot
  <2>2. /\ hash'[j].attempts = slot[s].seen + 1
        /\ hash'[j].named = hash[j].named
        /\ \A i \in Jobs : i # j => hash'[i] = hash[i]
    BY <1>0, <1>1 DEF SetActive, StoreTypeOK
  <2> QED BY <2>1, <2>2 DEF HashLags, AttemptsInv, AttemptsOfJob
<1>2. CASE UNCHANGED hash
  BY <1>0, <1>2, StatusLags
<1>3. ASSUME NEW st \in Status, HSetStatus(j, st)
      PROVE  HashLags
  BY <1>0, <1>3, StatusLags
<1>4. CASE SetCompleted(s) \/ SetDlq(s) \/ SetDelayed(s)
  BY <1>3, <1>4 DEF SetCompleted, SetDlq, SetDelayed, Status
<1> QED
  BY <1>1, <1>2, <1>4
  DEF SlotStep, Load, Allowed, Denied, PushBack, Sleep, PgActive, HandlerReturns,
      HandlerFails, PgCompleted, AckCompleted, Reread, FailLoad, PgDlq, PushDlq,
      AckDlq, PgDelayed, ZAddDelayed, AckDelayed, storeVars, recordVars

(* A slot pushes a dead letter only when the row is at the limit.          *)
LEMMA SlotDlq ==
  ASSUME TypeOK, TypeOK', AttemptsInv, NEW s \in Slots, slot[s].pc # "free", SlotStep(s)
  PROVE  DlqAtLimit
<1> DEFINE j == slot[s].job
<1>1. CASE PushDlq(s)
  <2>1. row'[j].attempts >= MaxAttempts
    BY <1>1, SlotFacts DEF PushDlq, At, AttemptsOfSlot, recordVars
  <2>2. \A i \in Jobs : i # j => dlq'[i] = dlq[i]
    BY <1>1, SlotFacts DEF PushDlq, LPush, TypeOK, StoreTypeOK, Bag
  <2> QED BY <2>1, <2>2 DEF DlqAtLimit
<1>2. CASE UNCHANGED dlq
  BY <1>2 DEF DlqAtLimit
<1> QED
  BY <1>1, <1>2
  DEF SlotStep, Load, Allowed, Denied, PushBack, Sleep, PgActive, SetActive,
      HandlerReturns, HandlerFails, PgCompleted, SetCompleted, AckCompleted, Reread,
      FailLoad, PgDlq, SetDlq, AckDlq, PgDelayed, SetDelayed, ZAddDelayed, AckDelayed,
      storeVars, listVars

(* A slot that comes to rely on something has just made sure of it: HGETALL*)
(* of a named hash, markJobActive, or the test against maxAttempts.        *)
LEMMA SlotLearns ==
  ASSUME TypeOK, TypeOK', AttemptsInv, NEW s \in Slots, slot[s].pc # "free",
         SlotStep(s), RowsGrow
  PROVE  AttemptsOfSlot(s)'
<1> DEFINE j == slot[s].job
<1>0. /\ j \in Jobs /\ slot[s].seen \in Nat /\ MaxAttempts \in Nat
      /\ row[j].attempts \in Nat /\ row'[j].attempts \in Nat /\ hash[j].attempts \in Nat
      /\ AttemptsOfSlot(s) /\ AttemptsOfJob(j)
      /\ row[j].attempts <= row'[j].attempts
      /\ row'[j].status = "none" => row[j].status = "none"
      /\ slot \in [Slots -> [pc : SlotPC, job : Jobs \cup {None}, seen : Nat]]
  BY SlotFacts DEF RowsGrow, TypeOK, WorkerTypeOK
<1>1. CASE Load(s)
  <2>1. CASE hash[j].named
    BY <1>0, <1>1, <2>1 DEF Load, AttemptsOfSlot, AttemptsOfJob, storeVars, recordVars
  <2>2. CASE ~ hash[j].named
    BY <1>0, <1>1, <2>2 DEF Load, Release, FreeSlot, AttemptsOfSlot
  <2> QED BY <2>1, <2>2
<1>2. CASE Allowed(s) \/ Denied(s)
  BY <1>0, <1>2 DEF Allowed, Denied, At, Goto, AttemptsOfSlot
<1>3. CASE PgActive(s)
  <2>1. row'[j].attempts = row[j].attempts + 1
    BY <1>0, <1>3 DEF PgActive, MarkJobActive, UpdateRow, At, AttemptsOfSlot,
                      TypeOK, StoreTypeOK
  <2> QED BY <1>0, <1>3, <2>1 DEF PgActive, At, Goto, AttemptsOfSlot
<1>4. CASE FailLoad(s)
  BY <1>0, <1>4 DEF FailLoad, At, Goto, AttemptsOfSlot, AttemptsOfJob, storeVars, recordVars
<1>5. CASE PgDlq(s) \/ SetDlq(s)
  BY <1>0, <1>5 DEF PgDlq, SetDlq, At, Goto, AttemptsOfSlot
<1>6. CASE slot'[s].pc \notin Relying
  BY <1>6 DEF AttemptsOfSlot, Relying
<1>7. ASSUME NEW l \in SlotPC \ Relying, Goto(s, l)
      PROVE  slot'[s].pc \notin Relying
  BY <1>0, <1>7 DEF Goto
<1>8. Release(s) => slot'[s].pc \notin Relying
  BY <1>0 DEF Release, FreeSlot, Relying
<1>9. CASE HandlerReturns(s)
  BY <1>0, <1>6, <1>9 DEF HandlerReturns, Relying
<1>10. CASE \/ PushBack(s) \/ SetActive(s) \/ HandlerFails(s) \/ PgCompleted(s)
            \/ SetCompleted(s) \/ AckCompleted(s) \/ PushDlq(s) \/ PgDelayed(s)
            \/ SetDelayed(s) \/ ZAddDelayed(s)
  BY <1>6, <1>7, <1>10
  DEF PushBack, SetActive, HandlerFails, PgCompleted, SetCompleted, AckCompleted,
      PushDlq, PgDelayed, SetDelayed, ZAddDelayed, SlotPC, CompletePC, FailurePC, Relying
<1>11. CASE Sleep(s) \/ Reread(s) \/ AckDlq(s) \/ AckDelayed(s)
  BY <1>6, <1>8, <1>11 DEF Sleep, Reread, AckDlq, AckDelayed
<1> QED
  BY <1>1, <1>2, <1>3, <1>4, <1>5, <1>9, <1>10, <1>11 DEF SlotStep

(* Every step of processOne, complete and handleFailure keeps the          *)
(* invariant.                                                              *)
LEMMA SlotAttempts ==
  ASSUME TypeOK, TypeOK', AttemptsInv, WorkerFrame, NEW s \in Slots, SlotStep(s)
  PROVE  AttemptsInv'
<1>0. StoreTypeOK /\ StoreTypeOK' /\ WorkerTypeOK /\ UNCHANGED enqueue
  BY DEF TypeOK, WorkerFrame
<1>1. slot[s].pc # "free"
  BY DEF SlotStep, At, Load, Allowed, Denied, PushBack, Sleep, PgActive, SetActive,
      HandlerReturns, HandlerFails, PgCompleted, SetCompleted, AckCompleted, Reread,
      FailLoad, PgDlq, SetDlq, PushDlq, AckDlq, PgDelayed, SetDelayed, ZAddDelayed,
      AckDelayed
<1>2. RowsGrow /\ HashLags /\ DlqAtLimit /\ AttemptsOfSlot(s)'
  BY <1>1, SlotRows, SlotHash, SlotDlq, SlotLearns
<1>3. \E r : slot' = [slot EXCEPT ![s] = r]
  BY <1>0
  DEF SlotStep, Load, Allowed, Denied, PushBack, Sleep, PgActive, SetActive,
      HandlerReturns, HandlerFails, PgCompleted, SetCompleted, AckCompleted, Reread,
      FailLoad, PgDlq, SetDlq, PushDlq, AckDlq, PgDelayed, SetDelayed, ZAddDelayed,
      AckDelayed, Goto, Release
<1>4. \A t \in Slots : t # s => slot'[t] = slot[t]
  BY <1>0, <1>3 DEF WorkerTypeOK
<1> QED BY <1>0, <1>2, <1>4, JobsKept, SlotKept DEF AttemptsInv

(* A fault of a worker frees the slot, or sends it to handleFailure, where *)
(* it first reads the hash again.                                          *)
LEMMA FaultAttempts ==
  ASSUME TypeOK, TypeOK', AttemptsInv, WorkerFault
  PROVE  AttemptsInv'
<1>0. StoreTypeOK /\ StoreTypeOK' /\ WorkerTypeOK /\ UNCHANGED enqueue
  BY DEF TypeOK, WorkerFault
<1>1. UNCHANGED <<row, hash, dlq>>
  BY DEF WorkerFault, PullError, PullReplyLost, BeatSet, DrainTimeout, Stop,
         CommandFails, storeVars, recordVars, listVars
<1>2. \A t \in Slots : slot'[t] = slot[t] \/ slot'[t].pc \notin Relying
  <2>1. CASE UNCHANGED slot
    BY <2>1
  <2>2. ASSUME NEW s \in Slots, CommandFails(s)
        PROVE  \A t \in Slots : slot'[t] = slot[t] \/ slot'[t].pc \notin Relying
    <3>1. CASE Goto(s, "failLoad")
      BY <1>0, <3>1 DEF Goto, WorkerTypeOK, Relying
    <3>2. CASE Release(s)
      BY <1>0, <3>2 DEF Release, FreeSlot, WorkerTypeOK, Relying
    <3> QED BY <2>2, <3>1, <3>2 DEF CommandFails
  <2> QED
    BY <2>1, <2>2 DEF WorkerFault, PullError, PullReplyLost, BeatSet, DrainTimeout, Stop
<1>3. RowsGrow /\ HashLags /\ DlqAtLimit
  BY <1>0, <1>1, SameRowsGrow, StatusLags DEF DlqAtLimit
<1> QED BY <1>0, <1>2, <1>3, InvKept

(* Scheduler and janitor write statuses, and the janitor resets a row      *)
(* without its attempts (scheduler.ts, janitor.ts).                        *)
LEMMA TimersAttempts ==
  ASSUME TypeOK, TypeOK', AttemptsInv, NEW p \in Procs,
         \/ SchedulerStep(p) /\ SchedulerFrame
         \/ (JanitorStep(p) \/ JanitorFails(p)) /\ JanitorFrame
  PROVE  AttemptsInv'
<1>0. /\ StoreTypeOK /\ StoreTypeOK' /\ WorkerTypeOK
      /\ SchedulerTypeOK /\ JanitorTypeOK
      /\ UNCHANGED enqueue /\ UNCHANGED slot
  BY DEF TypeOK, SchedulerFrame, JanitorFrame, workerVars
<1>1. RowsGrow
  <2>1. CASE PgResetOrphan(p)
    <3>1. jan[p].job \in Jobs
      BY <1>0, <2>1 DEF JanitorTypeOK, PgResetOrphan
    <3>2. row[jan[p].job].attempts \in Nat
      BY <1>0, <3>1 DEF StoreTypeOK
    <3> QED
      BY <1>0, <2>1, <3>1, <3>2, UpdatesGrow
      DEF PgResetOrphan, MarkJobPendingForRetry, Status
  <2>2. CASE UNCHANGED row
    BY <1>0, <2>2, SameRowsGrow
  <2> QED
    BY <2>1, <2>2
    DEF SchedulerStep, FindDue, Claim, ClaimMissed, PushDue, MarkPending, JanitorStep,
        JanTick, WorkerAlive, WorkerDead, ListOrphans, PushOrphan, ResetOrphan,
        DelProcessing, DeregisterDead, DelDeadMeta, JanitorFails, storeVars, recordVars
<1>2. HashLags
  <2>1. CASE MarkPending(p)
    BY <1>0, <1>1, <2>1, StatusLags DEF MarkPending, SchedulerTypeOK, Status
  <2>2. CASE ResetOrphan(p)
    BY <1>0, <1>1, <2>2, StatusLags DEF ResetOrphan, JanitorTypeOK, Status
  <2>3. CASE UNCHANGED hash
    BY <1>0, <1>1, <2>3, StatusLags
  <2> QED
    BY <2>1, <2>2, <2>3
    DEF SchedulerStep, FindDue, Claim, ClaimMissed, PushDue, JanitorStep,
        JanTick, WorkerAlive, WorkerDead, ListOrphans, PushOrphan, PgResetOrphan,
        DelProcessing, DeregisterDead, DelDeadMeta, JanitorFails, storeVars, recordVars
<1>3. DlqAtLimit
  BY DEF SchedulerStep, FindDue, Claim, ClaimMissed, PushDue, MarkPending, JanitorStep,
      JanTick, WorkerAlive, WorkerDead, ListOrphans, PushOrphan, ResetOrphan,
      PgResetOrphan, DelProcessing, DeregisterDead, DelDeadMeta, JanitorFails,
      storeVars, recordVars, listVars, DlqAtLimit
<1> QED BY <1>0, <1>1, <1>2, <1>3, InvKept

(* A request resets the hash to 0 attempts and takes ids out of the dead   *)
(* letters (routes.ts).                                                    *)
LEMMA RequestAttempts ==
  ASSUME TypeOK, TypeOK', AttemptsInv, DlqApiNext
  PROVE  AttemptsInv'
<1>0. /\ StoreTypeOK /\ StoreTypeOK' /\ WorkerTypeOK /\ DlqApiTypeOK
      /\ UNCHANGED enqueue /\ UNCHANGED slot
  BY DEF TypeOK, DlqApiNext, workerVars
<1> PICK r \in Requests :
      \/ \E j \in Jobs : RetryJob(r, j) \/ RequeueAll(r, j) \/ RequeueIds(r, j)
      \/ RequestStep(r) \/ RequestFails(r)
  BY DEF DlqApiNext
<1>j. req[r].pc # "idle" => req[r].job \in Jobs
  BY <1>0 DEF DlqApiTypeOK
<1>1. RowsGrow
  <2>1. CASE ResetRow(r)
    <3>1. req[r].job \in Jobs
      BY <1>j, <2>1 DEF ResetRow
    <3>2. row[req[r].job].attempts \in Nat
      BY <1>0, <3>1 DEF StoreTypeOK
    <3> QED
      BY <1>0, <2>1, <3>1, <3>2, UpdatesGrow DEF ResetRow, MarkJobPendingForRetry, Status
  <2>2. CASE UNCHANGED row
    BY <1>0, <2>2, SameRowsGrow
  <2> QED
    BY <2>1, <2>2
    DEF RetryJob, RequeueAll, RequeueIds, Requeue, RequestStep, ResetHash, DropFromDlq,
        PushBackToQueue, RequestFails, storeVars, recordVars
<1>2. HashLags
  <2>1. CASE ResetHash(r)
    <3> DEFINE j == req[r].job
    <3>1. j \in Jobs
      BY <1>j, <2>1 DEF ResetHash
    <3>2. /\ hash'[j].attempts = 0 /\ hash'[j].named = hash[j].named
          /\ \A i \in Jobs : i # j => hash'[i] = hash[i]
      BY <1>0, <2>1, <3>1 DEF ResetHash, StoreTypeOK
    <3>3. row'[j].attempts \in Nat /\ UNCHANGED row
      BY <1>0, <2>1, <3>1 DEF ResetHash, StoreTypeOK
    <3> QED BY <3>2, <3>3 DEF HashLags, AttemptsInv, AttemptsOfJob
  <2>2. CASE UNCHANGED hash
    BY <1>0, <1>1, <2>2, StatusLags
  <2> QED
    BY <2>1, <2>2
    DEF RetryJob, RequeueAll, RequeueIds, Requeue, RequestStep, ResetRow, DropFromDlq,
        PushBackToQueue, RequestFails, storeVars, recordVars
<1>3. DlqAtLimit
  <2>1. CASE DropFromDlq(r)
    <3>1. dlq \in [Jobs -> Nat] /\ req[r].job \in Jobs
      BY <1>0, <1>j, <2>1 DEF DropFromDlq, StoreTypeOK, Bag
    <3> QED BY <2>1, <3>1 DEF DropFromDlq, LRem, LRemAll, DlqAtLimit
  <2>2. CASE UNCHANGED dlq
    BY <2>2 DEF DlqAtLimit
  <2> QED
    BY <2>1, <2>2
    DEF RetryJob, RequeueAll, RequeueIds, Requeue, RequestStep, ResetRow, ResetHash,
        PushBackToQueue, RequestFails, storeVars, recordVars, listVars
<1> QED BY <1>0, <1>1, <1>2, <1>3, InvKept

(* A process that ends frees its slots; the stores stay.                   *)
LEMMA ProcessAttempts ==
  ASSUME TypeOK, TypeOK', AttemptsInv, ProcessNext
  PROVE  AttemptsInv'
<1>0. StoreTypeOK /\ StoreTypeOK' /\ WorkerTypeOK
  BY DEF TypeOK
<1>1. UNCHANGED <<row, hash, dlq>>
  BY DEF ProcessNext, Crash, Exit, Kill, Launch, Expire, ApiCrash,
         storeVars, recordVars, listVars
<1>2. \A s \in Slots : slot'[s] = slot[s] \/ slot'[s].pc \notin Relying
  <2>1. ASSUME NEW p \in Procs, Kill(p)
        PROVE  \A s \in Slots : slot'[s] = slot[s] \/ slot'[s].pc \notin Relying
    BY <2>1 DEF Kill, FreeSlot, Relying
  <2>2. CASE UNCHANGED slot
    BY <2>2
  <2> QED BY <2>1, <2>2 DEF ProcessNext, Crash, Exit, Launch, Expire, ApiCrash, workerVars
<1>3. RowsGrow /\ HashLags /\ DlqAtLimit
  BY <1>0, <1>1, SameRowsGrow, StatusLags DEF DlqAtLimit
<1>4. CASE UNCHANGED enqueue
  BY <1>0, <1>2, <1>3, <1>4, InvKept
<1>5. CASE ApiCrash
  <2>1. \A s \in Slots : AttemptsOfSlot(s)'
    BY <1>0, <1>2, <1>3, SlotKept
  <2>2. \A j \in Jobs : AttemptsOfJob(j)'
    BY <1>1, <1>5 DEF ApiCrash, Enqueueing, AttemptsInv, AttemptsOfJob
  <2> QED BY <2>1, <2>2 DEF AttemptsInv
<1> QED BY <1>4, <1>5 DEF ProcessNext, Crash, Exit, Kill, Launch, Expire

(* Every step of the system, or stutter, keeps the invariant.              *)
LEMMA NextAttempts ==
  ASSUME TypeOK, TypeOK', AttemptsInv, [Next]_vars
  PROVE  AttemptsInv'
<1>1. CASE ProducerNext   BY <1>1, ProducerAttempts
<1>2. CASE WorkerNext     BY <1>2, LifeLoopAttempts, SlotAttempts DEF WorkerNext
<1>3. CASE WorkerFault    BY <1>3, FaultAttempts
<1>4. CASE SchedulerNext  BY <1>4, TimersAttempts DEF SchedulerNext
<1>5. CASE JanitorNext    BY <1>5, TimersAttempts DEF JanitorNext
<1>6. CASE DlqApiNext     BY <1>6, RequestAttempts
<1>7. CASE ProcessNext    BY <1>7, ProcessAttempts
<1>8. CASE UNCHANGED vars
  BY <1>8 DEF vars, storeVars, recordVars, listVars, workerVars, AttemptsInv,
              AttemptsOfJob, AttemptsOfSlot
<1> QED BY <1>1, <1>2, <1>3, <1>4, <1>5, <1>6, <1>7, <1>8 DEF Next

(* AttemptsInv holds in every reachable state: the counts of a job, in its *)
(* row, its hash and the slots at work on it, are ordered (worker.ts).     *)
THEOREM AttemptsInvariant == Spec => [](TypeOK /\ AttemptsInv)
<1>1. Init => TypeOK /\ AttemptsInv
  BY InitTyped, InitAttempts
<1>2. TypeOK /\ AttemptsInv /\ [Next]_vars => (TypeOK /\ AttemptsInv)'
  BY NextTyped, NextAttempts
<1> QED BY <1>1, <1>2, PTL DEF Spec

(* The attempts in Redis never run ahead of those in PostgreSQL, whatever  *)
(* fails or interleaves (worker.ts processOne, routes.ts requeue).         *)
THEOREM AttemptsNeverAhead == Spec => []AttemptsLag
<1>1. TypeOK /\ AttemptsInv => AttemptsLag
  BY DEF AttemptsInv, AttemptsOfJob, AttemptsLag
<1> QED BY <1>1, AttemptsInvariant, PTL

(* A job in the dead-letter queue has been started MaxAttempts times,      *)
(* whatever fails or interleaves (worker.ts handleFailure).                *)
THEOREM DeadLettersAreExhausted == Spec => []NoPrematureDlq
<1>1. TypeOK /\ AttemptsInv => NoPrematureDlq
  BY DEF AttemptsInv, AttemptsOfJob, NoPrematureDlq
<1> QED BY <1>1, AttemptsInvariant, PTL

=============================================================================
