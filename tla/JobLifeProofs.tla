---------------------------- MODULE JobLifeProofs ----------------------------
(***************************************************************************)
(* The life of a job while nothing fails: OneCustodian, SettledInPostgres  *)
(* and the refinement of JobLife, for every instance of NexusQueue.        *)
(*                                                                         *)
(* The argument: a job is in one place at a time (Place), so the slot that *)
(* works on it is the only actor that writes its hash and its row, and     *)
(* what that slot read in the hash when it loaded the job is still there   *)
(* when it writes (JobInv).  What the place and the pc of the slot say of  *)
(* the job is then what its hash, its row and its past say.                *)
(***************************************************************************)
EXTENDS CustodyProofs

USE ConstantsAssumption, RateLimitedAssumption, CompositionAssumption

(* Nothing fails, stops or is started, and nobody requeues a job.  Ticks   *)
(* of the heartbeat are allowed.                                           *)
Calm == \A k \in Kinds \ {"beat", "timeout"} : ~ Used(k)

(* The fleet is then what it was: no janitor finds a dead worker.          *)
CalmFleet ==
  /\ \A p \in Procs : phase[p] \in {"off", "up"}
  /\ heartbeat = {p \in Procs : phase[p] = "up"} /\ registry \subseteq heartbeat
  /\ \A p \in Procs : jan[p].pc \in {"idle", "check"} /\ jan[p].scan \subseteq heartbeat

(* Where a job is: on one list, with one scheduler, with one slot.         *)
OnList(j) ==
  \/ queue[j] = 1 /\ dlq[j] = 0 /\ j \notin delayed
  \/ queue[j] = 0 /\ dlq[j] = 1 /\ j \notin delayed
  \/ queue[j] = 0 /\ dlq[j] = 0 /\ j \in delayed
NoList(j)   == queue[j] = 0 /\ dlq[j] = 0 /\ j \notin delayed
NoPusher(j) == \A p \in Procs : j \notin Promoting(p)
NoHolder(j) == \A s \in Slots : ~ Holding(s, j)

OnePlace(j) ==
  \/ OnList(j) /\ NoPusher(j) /\ NoHolder(j)
  \/ NoList(j) /\ NoHolder(j) /\ \E p \in Procs : \A q \in Procs : j \in Promoting(q) <=> q = p
  \/ NoList(j) /\ NoPusher(j) /\ \E s \in Slots : \A t \in Slots : Holding(t, j) <=> t = s
NoPlace(j) == NoList(j) /\ NoPusher(j) /\ NoHolder(j)

Place(j) == OnePlace(j) \/ (j \in done /\ NoPlace(j))

(* A job that may still be run, and one that never is again. *)
Final == {"completed", "dlq"}
Ready(j) == j \notin done /\ hash[j].attempts < MaxAttempts /\ row[j].status \notin Final
Dead(j)  == j \notin done /\ hash[j].attempts = MaxAttempts /\ row[j].status = "dlq"

Unstarted == {"limit", "pushBack", "pgActive", "setActive"}
Retrying  == {"pgDelayed", "setDelayed", "zadd"}

(* What the pc of a slot says of its job. *)
SlotInv(s, j) ==
  /\ slot[s].pc \in {"load"} \cup Unstarted \cup Retrying => Ready(j)
  /\ slot[s].pc \in Unstarted => slot[s].seen = hash[j].attempts
  /\ slot[s].pc \in {"run", "failLoad", "pgDlq"} =>
       j \notin done /\ hash[j].attempts <= MaxAttempts /\ row[j].status \notin Final
  /\ slot[s].pc = "pgDlq" => hash[j].attempts = MaxAttempts
  /\ slot[s].pc \in {"setDlq", "pushDlq"} => Dead(j)

JobInv(j) ==
  /\ queue[j] > 0 \/ j \in delayed \/ ~ NoPusher(j) => Ready(j)
  /\ dlq[j] > 0 => Dead(j)
  /\ \A s \in Slots : slot[s].job = j => SlotInv(s, j)
  /\ j \in done => \/ row[j].status = "completed"
                   \/ \E s \in Slots : slot[s].job = j /\ slot[s].pc = "pgCompleted"

CalmJob(j) ==
  IF Accepted(j) THEN Place(j) /\ JobInv(j)
  ELSE row[j].status \notin Final /\ hash[j].attempts = 0

FreeSlots == \A s \in Slots : slot[s].pc = "free" => slot[s].job = None

CalmInv == CalmFleet /\ FreshInv /\ FreeSlots /\ \A j \in Jobs : CalmJob(j)

-----------------------------------------------------------------------------
(* Places and custodians. *)

LEMMA CustodianCount ==
  ASSUME TypeOK, \A r \in Requests : req[r].pc = "idle", NEW j \in Jobs
  PROVE  /\ Custodians(j) \in Nat
         /\ Custodians(j) = 1 <=> OnePlace(j)
         /\ Custodians(j) = 0 <=> NoPlace(j)
<1> DEFINE P == {p \in Procs : j \in Promoting(p)}
           H == {s \in Slots : Holding(s, j)}
           R == {r \in Requests : j \in Requeueing(r)}
           L == queue[j] + dlq[j] + (IF j \in delayed THEN 1 ELSE 0)
<1>1. P \in SUBSET Procs /\ H \in SUBSET Slots
  OBVIOUS
<1>2. IsFiniteSet(P) /\ IsFiniteSet(H)
  BY <1>1, FS_Subset
<1>3. R = {}
  BY DEF Requeueing
<1>4. Cardinality(R) = 0
  BY <1>3, FS_EmptySet
<1>5. Cardinality(P) \in Nat /\ Cardinality(H) \in Nat
  BY <1>2, FS_CardinalityType
<1>6. queue[j] \in Nat /\ dlq[j] \in Nat
  BY DEF TypeOK, StoreTypeOK, Bag
<1>7. Custodians(j) = L + Cardinality(P) + Cardinality(H)
  <2>1. Custodians(j) = L + Cardinality(P) + Cardinality(R) + Cardinality(H)
    BY DEF Custodians
  <2> HIDE DEF P, H, R
  <2> QED BY <1>4, <1>5, <1>6, <2>1
<1>8. Cardinality(P) = 0 <=> NoPusher(j)
  <2>1. Cardinality(P) = 0 <=> P = {}
    BY <1>2, FS_EmptySet
  <2> QED BY <2>1 DEF NoPusher
<1>9. Cardinality(H) = 0 <=> NoHolder(j)
  <2>1. Cardinality(H) = 0 <=> H = {}
    BY <1>2, FS_EmptySet
  <2> QED BY <2>1 DEF NoHolder
<1>10. Cardinality(P) = 1 <=> \E p \in Procs : \A q \in Procs : j \in Promoting(q) <=> q = p
  <2>1. Cardinality(P) = 1 <=> \E p : P = {p}
    BY <1>2, FS_Singleton
  <2> QED BY <2>1
<1>11. Cardinality(H) = 1 <=> \E s \in Slots : \A t \in Slots : Holding(t, j) <=> t = s
  <2>1. Cardinality(H) = 1 <=> \E s : H = {s}
    BY <1>2, FS_Singleton
  <2> QED BY <2>1
<1>12. L \in Nat /\ (L = 0 <=> NoList(j)) /\ (L = 1 <=> OnList(j))
  BY <1>6 DEF NoList, OnList
<1> HIDE DEF P, H, L
<1>13. Custodians(j) \in Nat
  BY <1>5, <1>7, <1>12
<1>14. Custodians(j) = 1 <=> \/ L = 1 /\ Cardinality(P) = 0 /\ Cardinality(H) = 0
                             \/ L = 0 /\ Cardinality(P) = 1 /\ Cardinality(H) = 0
                             \/ L = 0 /\ Cardinality(P) = 0 /\ Cardinality(H) = 1
  BY <1>5, <1>7, <1>12
<1>15. Custodians(j) = 0 <=> L = 0 /\ Cardinality(P) = 0 /\ Cardinality(H) = 0
  BY <1>5, <1>7, <1>12
<1>16. Custodians(j) = 1 <=> OnePlace(j)
  BY <1>8, <1>9, <1>10, <1>11, <1>12, <1>14 DEF OnePlace
<1>17. Custodians(j) = 0 <=> NoPlace(j)
  BY <1>8, <1>9, <1>12, <1>15 DEF NoPlace
<1> QED BY <1>13, <1>16, <1>17

-----------------------------------------------------------------------------
(* Calm steps. *)

(* What the heartbeats and the ticks of janitors with nothing to do leave. *)
Idles == UNCHANGED <<recordVars, listVars, enqueue, slot, done, sched>>

LEMMA CalmSteps ==
  ASSUME TypeOK, BudgetInv, CalmFleet, FreshInv, [Next]_vars, Calm'
  PROVE  /\ \/ \E j \in Jobs : (InsertRow(j) \/ PushFirst(j)) /\ ProducerFrame
            \/ \E p \in Procs : LoopStep(p) /\ WorkerFrame
            \/ \E s \in Slots : SlotStep(s) /\ WorkerFrame
            \/ SchedulerNext
            \/ Idles
         /\ CalmFleet'
<1>0. \A k \in {"crash", "io", "stop", "start", "stall", "request"} : ~ Spend(k)
  BY Unspent DEF Calm, Kinds
<1>s. ASSUME UNCHANGED <<phase, heartbeat, registry, jan>>
      PROVE  CalmFleet'
  BY <1>s DEF CalmFleet
<1>1. CASE ProducerNext
  <2>1. \E j \in Jobs : (InsertRow(j) \/ PushFirst(j)) /\ ProducerFrame
    BY <1>0, <1>1 DEF ProducerNext
  <2> QED BY <1>1, <2>1, <1>s, OthersLeaveLife
<1>2. ASSUME NEW p \in Procs, LifeStep(p), WorkerFrame
      PROVE  Idles /\ CalmFleet'
  <2>1. BeatMeta(p)
    BY <1>2
    DEF CalmFleet, LifeStep, Phases, Register, FirstBeat, Describe, MarkDraining, Drained,
        JoinLoop, Deregister, DelHeartbeat, DelMeta
  <2> QED BY <1>2, <1>s, <2>1 DEF BeatMeta, WorkerFrame, Idles
<1>3. ASSUME NEW p \in Procs, LoopStep(p), WorkerFrame
      PROVE  CalmFleet'
  BY <1>3, <1>s, LoopMovesQueued DEF fleetVars, WorkerFrame
<1>4. ASSUME NEW s \in Slots, SlotStep(s), WorkerFrame
      PROVE  CalmFleet'
  BY <1>4, <1>s, SlotLeavesLife DEF WorkerFrame
<1>5. CASE WorkerNext
  BY <1>2, <1>3, <1>4, <1>5 DEF WorkerNext
<1>6. CASE WorkerFault
  <2>1. \E p \in Procs : BeatSet(p) \/ DrainTimeout(p)
    BY <1>0, <1>6, ZenonT(30) DEF WorkerFault
  <2>2. PICK p \in Procs : BeatSet(p)
    BY <2>1 DEF CalmFleet, DrainTimeout, Phases
  <2>3. phase[p] = "up"
    BY <2>2 DEF CalmFleet, BeatSet, Beating
  <2>4. UNCHANGED <<phase, heartbeat, registry, jan, sched, enqueue>>
    BY <1>6, <2>2, <2>3 DEF CalmFleet, BeatSet, WorkerFault
  <2> QED BY <2>2, <2>4, <1>s DEF BeatSet, Idles
<1>7. CASE SchedulerNext
  BY <1>7, <1>s, OthersLeaveLife
<1>8. CASE JanitorNext
  <2>1. PICK p \in Procs : JanitorStep(p) /\ JanitorFrame
    BY <1>0, <1>8 DEF JanitorNext
  <2>2. JanTick(p) \/ \E w \in Procs : WorkerAlive(p, w)
    BY <2>1
    DEF JanitorStep, CalmFleet, WorkerDead, ListOrphans, PushOrphan, ResetOrphan, PgResetOrphan,
        DelProcessing, DeregisterDead, DelDeadMeta
  <2>3. UNCHANGED storeVars
    BY <2>2 DEF JanTick, WorkerAlive
  <2>4. \E scan \in SUBSET heartbeat : jan' = [jan EXCEPT ![p] = ScanWith(scan)]
    BY <2>2 DEF JanTick, WorkerAlive, CalmFleet
  <2>5. PICK scan \in SUBSET heartbeat : jan' = [jan EXCEPT ![p] = ScanWith(scan)]
    BY <2>4
  <2>6. ScanWith(scan).pc \in {"idle", "check"} /\ ScanWith(scan).scan \subseteq heartbeat
    BY DEF ScanWith, JanIdle
  <2>7. \A q \in Procs : jan'[q] = IF q = p THEN ScanWith(scan) ELSE jan[q]
    BY <2>5 DEF TypeOK, JanitorTypeOK
  <2>8. CalmFleet'
    BY <2>1, <2>3, <2>6, <2>7 DEF CalmFleet, JanitorFrame, workerVars, lifeVars, storeVars, fleetVars
  <2> QED BY <2>1, <2>3, <2>8 DEF JanitorFrame, workerVars, storeVars, Idles
<1>9. CASE DlqApiNext
  BY <1>0, <1>9 DEF DlqApiNext, FreshInv, RequestStep, ResetRow, ResetHash, DropFromDlq, PushBackToQueue
<1>10. CASE ProcessNext
  BY <1>0, <1>10 DEF ProcessNext, Crash, Exit, Launch, Expire, ApiCrash, CalmFleet
<1>11. CASE UNCHANGED vars
  BY <1>11, <1>s DEF vars, storeVars, fleetVars, workerVars, lifeVars, Idles
<1> QED BY <1>1, <1>5, <1>6, <1>7, <1>8, <1>9, <1>10, <1>11 DEF Next

(* A step that does not write what counts of a job keeps what is known of it. *)
Spares(j) ==
  /\ row'[j] = row[j]
  /\ hash'[j].attempts = hash[j].attempts /\ hash'[j].named = hash[j].named
  /\ queue'[j] = queue[j] /\ dlq'[j] = dlq[j]
  /\ j \in delayed' <=> j \in delayed
  /\ j \in done' <=> j \in done

LEMMA CalmJobStays ==
  ASSUME NEW j \in Jobs, CalmJob(j), Spares(j),
         \A s \in Slots : slot'[s] = slot[s] \/ (slot[s].job # j /\ slot'[s].job # j),
         \A p \in Procs : j \in Promoting(p)' <=> j \in Promoting(p)
  PROVE  CalmJob(j)'
<1>1. \A s \in Slots : Holding(s, j)' <=> Holding(s, j)
  BY DEF Holding
<1>2. /\ OnList(j)' <=> OnList(j)
      /\ NoList(j)' <=> NoList(j)
      /\ NoPusher(j)' <=> NoPusher(j)
      /\ NoHolder(j)' <=> NoHolder(j)
  BY <1>1 DEF Spares, OnList, NoList, NoPusher, NoHolder
<1>3. Place(j)' <=> Place(j)
  BY <1>1, <1>2 DEF Place, OnePlace, NoPlace, Spares
<1>4. (Ready(j)' <=> Ready(j)) /\ (Dead(j)' <=> Dead(j))
  BY DEF Spares, Ready, Dead
<1>5. JobInv(j) => JobInv(j)'
  <2>1. ASSUME NEW s \in Slots, slot'[s].job = j, JobInv(j)
        PROVE  SlotInv(s, j)'
    <3>1. slot'[s] = slot[s] /\ SlotInv(s, j)
      BY <2>1 DEF JobInv
    <3> QED BY <1>4, <3>1 DEF SlotInv, Spares
  <2> QED BY <1>2, <1>4, <2>1 DEF JobInv, Spares
<1> QED BY <1>3, <1>5 DEF CalmJob, Spares, Accepted

-----------------------------------------------------------------------------
(* The steps of a slot. *)

(* Writes of one id (job DAO, HSET, LPUSH).                                *)
LEMMA OwnIdWritten ==
  ASSUME StoreTypeOK, NEW i \in Jobs, row[i].status # "none"
  PROVE  /\ \A st, n : UpdateRow(i, st, n) => row'[i].status = st
         /\ \A st : HSetStatus(i, st) => hash'[i].attempts = hash[i].attempts
         /\ LPush(queue, i)[i] = queue[i] + 1
         /\ LPush(dlq, i)[i] = dlq[i] + 1
  BY ListCommands DEF StoreTypeOK, UpdateRow, HSetStatus, Bag

(* The only holder of a job takes it one step further (processOne).        *)
LEMMA HolderKeepsLife ==
  ASSUME TypeOK, TypeOK', ActorInv, NEW s \in Slots, NEW i \in Jobs, slot[s].job = i,
         SlotStep(s), Holding(s, i), Place(i), JobInv(i), Accepted(i), Accepted(i)',
         row[i].status # "none", \A t \in Slots \ {s} : slot'[t] = slot[t], UNCHANGED sched
  PROVE  CalmJob(i)'
<1>t. StoreTypeOK /\ WorkerTypeOK /\ hash[i].attempts \in Nat /\ MaxAttempts \in Nat \ {0}
  BY DEF TypeOK, StoreTypeOK
<1>1. NoList(i) /\ NoPusher(i) /\ \A t \in Slots : Holding(t, i) <=> t = s
  BY DEF Place, OnePlace, NoPlace, NoHolder
<1>2. NoPusher(i)'
  BY <1>1 DEF NoPusher, Promoting
<1>3. \A t \in Slots \ {s} : ~ Holding(t, i)' /\ (slot'[t].job = i => SlotInv(t, i)')
  <2> SUFFICES ASSUME NEW t \in Slots \ {s}
               PROVE  ~ Holding(t, i)' /\ (slot'[t].job = i => SlotInv(t, i)')
    OBVIOUS
  <2>1. slot'[t] = slot[t] /\ ~ Holding(t, i)
    BY <1>1
  <2> QED BY <2>1 DEF Holding, SlotInv, Unstarted, Retrying
<1>c. ASSUME IF Holding(s, i)' THEN NoList(i)' ELSE OnList(i)' \/ (i \in done' /\ NoList(i)'),
             queue'[i] > 0 \/ i \in delayed' => Ready(i)',
             dlq'[i] > 0 => Dead(i)',
             slot'[s].job = i => SlotInv(s, i)',
             i \in done' => \/ row'[i].status = "completed"
                            \/ slot'[s].job = i /\ slot'[s].pc = "pgCompleted"
      PROVE  CalmJob(i)'
  <2>1. Place(i)'
    BY <1>1, <1>2, <1>3, <1>c DEF Place, OnePlace, NoPlace, NoHolder
  <2>2. JobInv(i)'
    BY <1>2, <1>3, <1>c DEF JobInv
  <2> QED BY <2>1, <2>2 DEF CalmJob
<1>h. ASSUME UNCHANGED listVars, slot'[s].job = i,
             slot'[s].pc \notin {"sleep", "reread", "ackDelayed", "ackDlq"},
             SlotInv(s, i)',
             i \in done' => row'[i].status = "completed" \/ slot'[s].pc = "pgCompleted"
      PROVE  CalmJob(i)'
  BY <1>1, <1>c, <1>h DEF Holding, NoList, listVars
<1>g. ASSUME NEW l, slot' = [slot EXCEPT ![s].pc = l]
      PROVE  slot'[s].pc = l /\ slot'[s].job = i /\ slot'[s].seen = slot[s].seen
  BY <1>t, <1>g, GotoMovesOne
<1>i. SlotInv(s, i) /\ (i \in done => row[i].status = "completed" \/ slot[s].pc = "pgCompleted")
  BY <1>1 DEF JobInv, Holding
<1> USE DEF Unstarted, Retrying
<1>4. CASE Load(s)
  <2> DEFINE x == [pc |-> IF RateLimited THEN "limit" ELSE "pgActive", job |-> i,
                   seen |-> hash[i].attempts]
  <2>1. /\ x.job = i /\ x.seen = hash[i].attempts /\ x.pc \in {"limit", "pgActive"}
        /\ slot' = [slot EXCEPT ![s] = x] /\ UNCHANGED <<row, hash, listVars, done>>
        /\ slot[s].pc = "load"
    BY <1>4 DEF Load, At, Accepted, storeVars, recordVars
  <2> HIDE DEF x
  <2>2. slot'[s] = x
    BY <1>t, <2>1 DEF WorkerTypeOK
  <2>3. SlotInv(s, i)' /\ i \notin done'
    BY <1>i, <2>1, <2>2 DEF SlotInv, Ready
  <2> QED BY <1>h, <2>1, <2>2, <2>3
<1>5. CASE Allowed(s) \/ Denied(s)
  <2>1. /\ \E l \in {"pgActive", "pushBack"} : slot' = [slot EXCEPT ![s].pc = l]
        /\ slot[s].pc = "limit" /\ UNCHANGED <<row, hash, listVars, done>>
    BY <1>5 DEF Allowed, Denied, Goto, At, storeVars, recordVars
  <2>2. slot'[s].pc \in {"pgActive", "pushBack"} /\ slot'[s].job = i /\ slot'[s].seen = slot[s].seen
    BY <1>g, <2>1
  <2>3. SlotInv(s, i)' /\ i \notin done'
    BY <1>i, <2>1, <2>2 DEF SlotInv, Ready
  <2> QED BY <1>h, <2>1, <2>2, <2>3
<1>6. CASE PushBack(s)
  <2>1. /\ slot' = [slot EXCEPT ![s].pc = "sleep"] /\ slot[s].pc = "pushBack"
        /\ UNCHANGED <<row, hash, delayed, dlq, done>> /\ queue' = LPush(queue, i)
    BY <1>6 DEF PushBack, Goto, At, recordVars
  <2>2. slot'[s].pc = "sleep" /\ slot'[s].job = i
    BY <1>g, <2>1
  <2>3. queue'[i] = 1 /\ dlq'[i] = 0 /\ i \notin delayed'
    BY <1>t, <1>1, <2>1, OwnIdWritten DEF NoList
  <2>4. Ready(i)' /\ SlotInv(s, i)' /\ ~ Holding(s, i)'
    BY <1>i, <2>1, <2>2 DEF SlotInv, Ready, Holding
  <2>5. OnList(i)' /\ i \notin done'
    BY <2>3, <2>4 DEF OnList, Ready
  <2>6. ~ (dlq'[i] > 0)
    BY <2>3
  <2> QED BY <1>c, <2>4, <2>5, <2>6
<1>7. CASE PgActive(s)
  <2>1. /\ slot' = [slot EXCEPT ![s].pc = "setActive"] /\ slot[s].pc = "pgActive"
        /\ UNCHANGED <<hash, listVars, done>> /\ UpdateRow(i, "active", row[i].attempts + 1)
    BY <1>7 DEF PgActive, Goto, At, MarkJobActive
  <2>2. slot'[s].pc = "setActive" /\ slot'[s].job = i /\ slot'[s].seen = slot[s].seen
    BY <1>g, <2>1
  <2>3. row'[i].status = "active"
    BY <1>t, <2>1, OwnIdWritten
  <2>4. SlotInv(s, i)' /\ i \notin done'
    BY <1>i, <2>1, <2>2, <2>3 DEF SlotInv, Ready, Final
  <2> QED BY <1>h, <2>1, <2>2, <2>4
<1>8. CASE SetActive(s)
  <2> DEFINE y == [status |-> "active", attempts |-> slot[s].seen + 1, named |-> hash[i].named]
  <2>1. /\ slot' = [slot EXCEPT ![s].pc = "run"] /\ slot[s].pc = "setActive"
        /\ UNCHANGED <<row, listVars, done>> /\ hash' = [hash EXCEPT ![i] = y]
    BY <1>8 DEF SetActive, Goto, At
  <2>2. slot'[s].pc = "run" /\ slot'[s].job = i
    BY <1>g, <2>1
  <2>3. y.attempts = slot[s].seen + 1
    OBVIOUS
  <2> HIDE DEF y
  <2>4. hash'[i] = y
    BY <1>t, <2>1 DEF StoreTypeOK
  <2>5. SlotInv(s, i)' /\ i \notin done'
    BY <1>i, <1>t, <2>1, <2>2, <2>3, <2>4 DEF SlotInv, Ready
  <2> QED BY <1>h, <2>1, <2>2, <2>5
<1>9. CASE HandlerReturns(s)
  <2>1. slot' = [slot EXCEPT ![s].pc = "pgCompleted"] /\ UNCHANGED <<row, hash, listVars>>
    BY <1>9 DEF HandlerReturns, storeVars, recordVars
  <2>2. slot'[s].pc = "pgCompleted" /\ slot'[s].job = i
    BY <1>g, <2>1
  <2>3. SlotInv(s, i)'
    BY <2>2 DEF SlotInv
  <2> QED BY <1>h, <2>1, <2>2, <2>3
<1>10. CASE HandlerFails(s)
  <2>1. /\ slot' = [slot EXCEPT ![s].pc = "failLoad"] /\ slot[s].pc = "run"
        /\ UNCHANGED <<row, hash, listVars, done>>
    BY <1>10 DEF HandlerFails, Goto, At, storeVars, recordVars
  <2>2. slot'[s].pc = "failLoad" /\ slot'[s].job = i
    BY <1>g, <2>1
  <2>3. SlotInv(s, i)' /\ i \notin done'
    BY <1>i, <2>1, <2>2 DEF SlotInv
  <2> QED BY <1>h, <2>1, <2>2, <2>3
<1>11. CASE PgCompleted(s)
  <2>1. /\ slot' = [slot EXCEPT ![s].pc = "setCompleted"]
        /\ UNCHANGED <<hash, listVars, done>> /\ UpdateRow(i, "completed", row[i].attempts)
    BY <1>11 DEF PgCompleted, Goto, MarkJobCompleted
  <2>2. slot'[s].pc = "setCompleted" /\ slot'[s].job = i
    BY <1>g, <2>1
  <2>3. row'[i].status = "completed" /\ SlotInv(s, i)'
    BY <1>t, <2>1, <2>2, OwnIdWritten DEF SlotInv
  <2> QED BY <1>h, <2>1, <2>2, <2>3
<1>12. CASE SetCompleted(s)
  <2>1. /\ slot' = [slot EXCEPT ![s].pc = "ackCompleted"] /\ slot[s].pc = "setCompleted"
        /\ UNCHANGED <<row, listVars, done>>
    BY <1>12 DEF SetCompleted, Goto, At
  <2>2. slot'[s].pc = "ackCompleted" /\ slot'[s].job = i
    BY <1>g, <2>1
  <2>3. SlotInv(s, i)'
    BY <2>2 DEF SlotInv
  <2> QED BY <1>h, <1>i, <2>1, <2>2, <2>3
<1>13. CASE AckCompleted(s)
  <2>1. /\ slot' = [slot EXCEPT ![s].pc = "reread"] /\ slot[s].pc = "ackCompleted"
        /\ UNCHANGED <<row, hash, queue, delayed, dlq, done>>
    BY <1>13 DEF AckCompleted, Goto, At, recordVars
  <2>2. slot'[s].pc = "reread" /\ slot'[s].job = i
    BY <1>g, <2>1
  <2>3. SlotInv(s, i)' /\ ~ Holding(s, i)' /\ i \in done
    BY <2>1, <2>2 DEF SlotInv, Holding, ActorInv, CompletePC
  <2>4. NoList(i)'
    BY <1>1, <2>1 DEF NoList
  <2> QED BY <1>c, <1>i, <1>1, <2>1, <2>3, <2>4 DEF NoList
<1>14. CASE FailLoad(s)
  <2>1. /\ \E l \in {"pgDlq", "pgDelayed"} :
             /\ slot' = [slot EXCEPT ![s].pc = l]
             /\ l = "pgDlq" <=> hash[i].attempts >= MaxAttempts
        /\ slot[s].pc = "failLoad" /\ UNCHANGED <<row, hash, listVars, done>>
    BY <1>14 DEF FailLoad, Goto, At, storeVars, recordVars
  <2>2. /\ slot'[s].pc \in {"pgDlq", "pgDelayed"} /\ slot'[s].job = i
        /\ slot'[s].pc = "pgDlq" <=> hash[i].attempts >= MaxAttempts
    BY <1>g, <2>1
  <2>3. SlotInv(s, i)' /\ i \notin done'
    BY <1>i, <1>t, <2>1, <2>2 DEF SlotInv, Ready
  <2> QED BY <1>h, <2>1, <2>2, <2>3
<1>15. CASE PgDlq(s)
  <2>1. /\ slot' = [slot EXCEPT ![s].pc = "setDlq"] /\ slot[s].pc = "pgDlq"
        /\ UNCHANGED <<hash, listVars, done>> /\ UpdateRow(i, "dlq", row[i].attempts)
    BY <1>15 DEF PgDlq, Goto, At, MarkJobDlq
  <2>2. slot'[s].pc = "setDlq" /\ slot'[s].job = i /\ row'[i].status = "dlq"
    BY <1>g, <1>t, <2>1, OwnIdWritten
  <2>3. SlotInv(s, i)' /\ i \notin done'
    BY <1>i, <2>1, <2>2 DEF SlotInv, Dead
  <2> QED BY <1>h, <2>1, <2>2, <2>3
<1>16. CASE SetDlq(s)
  <2>1. /\ slot' = [slot EXCEPT ![s].pc = "pushDlq"] /\ slot[s].pc = "setDlq"
        /\ UNCHANGED <<row, listVars, done>> /\ HSetStatus(i, "dlq")
    BY <1>16 DEF SetDlq, Goto, At
  <2>2. slot'[s].pc = "pushDlq" /\ slot'[s].job = i /\ hash'[i].attempts = hash[i].attempts
    BY <1>g, <1>t, <2>1, OwnIdWritten
  <2>3. SlotInv(s, i)' /\ i \notin done'
    BY <1>i, <2>1, <2>2 DEF SlotInv, Dead
  <2> QED BY <1>h, <2>1, <2>2, <2>3
<1>17. CASE PushDlq(s)
  <2>1. /\ slot' = [slot EXCEPT ![s].pc = "ackDlq"] /\ slot[s].pc = "pushDlq"
        /\ UNCHANGED <<row, hash, queue, delayed, done>> /\ dlq' = LPush(dlq, i)
    BY <1>17 DEF PushDlq, Goto, At, recordVars
  <2>2. slot'[s].pc = "ackDlq" /\ slot'[s].job = i
    BY <1>g, <2>1
  <2>3. queue'[i] = 0 /\ dlq'[i] = 1 /\ i \notin delayed'
    BY <1>t, <1>1, <2>1, OwnIdWritten DEF NoList
  <2>4. Dead(i)' /\ SlotInv(s, i)' /\ ~ Holding(s, i)'
    BY <1>i, <2>1, <2>2 DEF SlotInv, Dead, Holding
  <2>5. OnList(i)' /\ i \notin done'
    BY <2>3, <2>4 DEF OnList, Dead
  <2>6. ~ (queue'[i] > 0 \/ i \in delayed')
    BY <2>3
  <2> QED BY <1>c, <2>4, <2>5, <2>6
<1>18. CASE PgDelayed(s)
  <2>1. /\ slot' = [slot EXCEPT ![s].pc = "setDelayed"] /\ slot[s].pc = "pgDelayed"
        /\ UNCHANGED <<hash, listVars, done>> /\ UpdateRow(i, "delayed", row[i].attempts)
    BY <1>18 DEF PgDelayed, Goto, At, MarkJobDelayed
  <2>2. slot'[s].pc = "setDelayed" /\ slot'[s].job = i /\ row'[i].status = "delayed"
    BY <1>g, <1>t, <2>1, OwnIdWritten
  <2>3. SlotInv(s, i)' /\ i \notin done'
    BY <1>i, <2>1, <2>2 DEF SlotInv, Ready, Final
  <2> QED BY <1>h, <2>1, <2>2, <2>3
<1>19. CASE SetDelayed(s)
  <2>1. /\ slot' = [slot EXCEPT ![s].pc = "zadd"] /\ slot[s].pc = "setDelayed"
        /\ UNCHANGED <<row, listVars, done>> /\ HSetStatus(i, "delayed")
    BY <1>19 DEF SetDelayed, Goto, At
  <2>2. slot'[s].pc = "zadd" /\ slot'[s].job = i /\ hash'[i].attempts = hash[i].attempts
    BY <1>g, <1>t, <2>1, OwnIdWritten
  <2>3. SlotInv(s, i)' /\ i \notin done'
    BY <1>i, <2>1, <2>2 DEF SlotInv, Ready
  <2> QED BY <1>h, <2>1, <2>2, <2>3
<1>20. CASE ZAddDelayed(s)
  <2>1. /\ slot' = [slot EXCEPT ![s].pc = "ackDelayed"] /\ slot[s].pc = "zadd"
        /\ UNCHANGED <<row, hash, queue, dlq, done>> /\ delayed' = delayed \cup {i}
    BY <1>20 DEF ZAddDelayed, Goto, At, recordVars
  <2>2. slot'[s].pc = "ackDelayed" /\ slot'[s].job = i
    BY <1>g, <2>1
  <2>3. queue'[i] = 0 /\ dlq'[i] = 0 /\ i \in delayed'
    BY <1>1, <2>1 DEF NoList
  <2>4. Ready(i)' /\ SlotInv(s, i)' /\ ~ Holding(s, i)'
    BY <1>i, <2>1, <2>2 DEF SlotInv, Ready, Holding
  <2>5. OnList(i)' /\ i \notin done'
    BY <2>3, <2>4 DEF OnList, Ready
  <2>6. ~ (dlq'[i] > 0)
    BY <2>3
  <2> QED BY <1>c, <2>4, <2>5, <2>6
<1>21. CASE Sleep(s) \/ Reread(s) \/ AckDlq(s) \/ AckDelayed(s)
  BY <1>21 DEF Holding, Sleep, Reread, AckDlq, AckDelayed, At
<1> QED
  BY <1>4, <1>5, <1>6, <1>7, <1>8, <1>9, <1>10, <1>11, <1>12, <1>13, <1>14, <1>15, <1>16, <1>17, <1>18, <1>19, <1>20, <1>21
  DEF SlotStep

(* A slot past its last write of the job leaves it as it is.               *)
LEMMA LeaverKeepsLife ==
  ASSUME TypeOK, NEW s \in Slots, NEW i \in Jobs, slot[s].job = i,
         SlotStep(s), ~ Holding(s, i), CalmJob(i), UNCHANGED sched
  PROVE  CalmJob(i)'
<1>1. slot[s].pc \in {"sleep", "reread", "ackDelayed", "ackDlq"}
  BY DEF Holding
<1>2. Sleep(s) \/ Reread(s) \/ AckDelayed(s) \/ AckDlq(s)
  BY <1>1
  DEF SlotStep, At, Load, Allowed, Denied, PushBack, PgActive, SetActive, HandlerReturns,
      HandlerFails, PgCompleted, SetCompleted, AckCompleted, FailLoad, PgDlq, SetDlq, PushDlq,
      PgDelayed, SetDelayed, ZAddDelayed
<1>3. UNCHANGED <<row, hash, queue, dlq, delayed>> /\ Release(s)
  BY <1>2 DEF Sleep, Reread, AckDelayed, AckDlq, storeVars, recordVars, listVars
<1>4. slot'[s].job = None /\ UNCHANGED done /\ \A t \in Slots \ {s} : slot'[t] = slot[t]
  BY <1>3, ReleaseFreesOne DEF TypeOK
<1>5. \A t \in Slots : Holding(t, i)' <=> Holding(t, i)
  BY <1>4 DEF Holding
<1>6. /\ OnList(i)' <=> OnList(i)
      /\ NoList(i)' <=> NoList(i)
      /\ NoPusher(i)' <=> NoPusher(i)
      /\ NoHolder(i)' <=> NoHolder(i)
  BY <1>3, <1>5 DEF OnList, NoList, NoPusher, NoHolder, Promoting
<1>7. \A p \in Procs : i \in Promoting(p)' <=> i \in Promoting(p)
  BY DEF Promoting
<1>8. Place(i)' <=> Place(i)
  BY <1>4, <1>5, <1>6, <1>7 DEF Place, OnePlace, NoPlace
<1>9. (Ready(i)' <=> Ready(i)) /\ (Dead(i)' <=> Dead(i))
  BY <1>3, <1>4 DEF Ready, Dead
<1>10. \A t \in Slots : slot'[t].job = i => t # s /\ slot'[t] = slot[t]
  BY <1>4
<1>11. \A t \in Slots : slot'[t].job = i /\ JobInv(i) => SlotInv(t, i)'
  BY <1>3, <1>4, <1>9, <1>10 DEF JobInv, SlotInv
<1>12. \A t \in Slots : slot[t].job = i /\ slot[t].pc = "pgCompleted" => slot'[t] = slot[t]
  BY <1>1, <1>4
<1>13. JobInv(i) => JobInv(i)'
  BY <1>3, <1>4, <1>6, <1>9, <1>11, <1>12 DEF JobInv
<1> QED BY <1>3, <1>8, <1>13 DEF CalmJob, Accepted

(* The steps of a slot keep what is known of every job. *)
LEMMA SlotKeepsLife ==
  ASSUME TypeOK, TypeOK', AttemptsInv, ActorInv, FreshInv, \A j \in Jobs : CalmJob(j),
         NEW s \in Slots, SlotStep(s), WorkerFrame
  PROVE  \A j \in Jobs : CalmJob(j)'
<1> PICK i \in Jobs : i = slot[s].job
  BY SlotOwnJob
<1>0. UNCHANGED <<sched, req>>
  BY DEF WorkerFrame
<1>1. /\ i \in Jobs /\ slot'[s].job \in {i, None}
      /\ \A t \in Slots \ {s} : slot'[t] = slot[t]
      /\ \A j \in Jobs \ {i} : Untouched(j) /\ (j \in done' <=> j \in done)
  BY SlotOwnJob
<1>2. ASSUME NEW j \in Jobs \ {i}
      PROVE  CalmJob(j)'
  <2>1. \A t \in Slots : slot'[t] = slot[t] \/ (slot[t].job # j /\ slot'[t].job # j)
    BY <1>1
  <2>2. \A p \in Procs : j \in Promoting(p)' <=> j \in Promoting(p)
    BY <1>0 DEF Promoting
  <2> QED BY <1>1, <2>1, <2>2, CalmJobStays DEF Untouched, Spares
<1>3. Accepted(i) /\ Place(i) /\ JobInv(i) /\ row[i].status # "none"
  BY <1>1 DEF FreshInv, Fresh, Accepted, CalmJob, AttemptsInv, AttemptsOfJob
<1>4. Accepted(i)'
  BY <1>0, <1>1, <1>3, SlotEffects DEF SlotEffect, ListsGrow, Accepted
<1>5. CalmJob(i)'
  <2>1. CASE Holding(s, i)
    BY <1>0, <1>1, <1>3, <1>4, <2>1, HolderKeepsLife
  <2>2. CASE ~ Holding(s, i)
    BY <1>0, <1>1, <2>2, LeaverKeepsLife
  <2> QED BY <2>1, <2>2
<1> QED BY <1>2, <1>5

-----------------------------------------------------------------------------
(* The other steps. *)

(* A pull moves the job from the queue to a slot (worker.ts pullJob).      *)
LEMMA PullKeepsLife ==
  ASSUME TypeOK, TypeOK', FreshInv, FreeSlots, \A j \in Jobs : CalmJob(j),
         NEW p \in Procs, NEW s \in Slots, NEW i \in Jobs, Pull(p, s, i), UNCHANGED sched
  PROVE  \A j \in Jobs : CalmJob(j)'
<1> DEFINE x == [pc |-> "load", job |-> i, seen |-> 0]
<1>t. /\ StoreTypeOK /\ WorkerTypeOK
      /\ slot \in [Slots -> [pc : SlotPC, job : Jobs \cup {None}, seen : Nat]]
  BY DEF TypeOK, WorkerTypeOK
<1>0. x.pc = "load" /\ x.job = i
  OBVIOUS
<1>1. /\ queue[i] > 0 /\ queue' = LRem(queue, i) /\ slot' = [slot EXCEPT ![s] = x]
      /\ slot[s].pc = "free"
      /\ processing' = [processing EXCEPT ![p] = LPush(@, i)]
      /\ UNCHANGED <<row, hash, delayed, dlq, done>>
  BY DEF Pull, recordVars
<1> HIDE DEF x
<1>2. slot'[s] = x /\ \A t \in Slots \ {s} : slot'[t] = slot[t]
  BY <1>t, <1>1
<1>3. Accepted(i) /\ Place(i) /\ JobInv(i)
  BY <1>1 DEF FreshInv, Fresh, Accepted, CalmJob
<1>4. Ready(i)
  BY <1>1, <1>3 DEF JobInv
<1>5. queue[i] = 1 /\ dlq[i] = 0 /\ i \notin delayed /\ NoPusher(i) /\ NoHolder(i)
  BY <1>1, <1>3, <1>4 DEF Place, OnePlace, NoPlace, OnList, NoList, Ready
<1>6. NoList(i)' /\ NoPusher(i)'
  <2>1. queue'[i] = 0
    BY <1>t, <1>1, <1>5, ListCommands DEF StoreTypeOK
  <2> QED BY <1>1, <1>5, <2>1 DEF NoList, NoPusher, Promoting
<1>7. \A t \in Slots : Holding(t, i)' <=> t = s
  BY <1>0, <1>2, <1>5 DEF NoHolder, Holding
<1>8. Place(i)'
  BY <1>6, <1>7 DEF Place, OnePlace
<1>9. Ready(i)'
  BY <1>1, <1>4 DEF Ready
<1>10. \A t \in Slots : slot'[t].job = i => SlotInv(t, i)'
  <2>1. SlotInv(s, i)'
    BY <1>0, <1>2, <1>9 DEF SlotInv, Unstarted, Retrying
  <2>2. \A t \in Slots \ {s} : slot'[t].job = i => SlotInv(t, i)'
    BY <1>2, <1>5 DEF NoHolder, Holding, SlotInv, Unstarted, Retrying
  <2> QED BY <2>1, <2>2
<1>11. i \notin done'
  BY <1>9 DEF Ready
<1>12. ~ (queue'[i] > 0) /\ ~ (dlq'[i] > 0) /\ i \notin delayed'
  BY <1>6 DEF NoList
<1>13. CalmJob(i)'
  <2>1. JobInv(i)'
    BY <1>6, <1>10, <1>11, <1>12 DEF JobInv
  <2>2. Accepted(i)'
    BY <1>1, <1>3 DEF Accepted
  <2> QED BY <1>8, <2>1, <2>2 DEF CalmJob
<1>14. ASSUME NEW j \in Jobs \ {i}
       PROVE  CalmJob(j)'
  <2>1. queue'[j] = queue[j]
    BY <1>t, <1>1, OneIdWritten
  <2>2. \A t \in Slots : slot'[t] = slot[t] \/ (slot[t].job # j /\ slot'[t].job # j)
    BY <1>0, <1>1, <1>2 DEF FreeSlots
  <2>3. \A q \in Procs : j \in Promoting(q)' <=> j \in Promoting(q)
    BY DEF Promoting
  <2> QED BY <1>1, <2>1, <2>2, <2>3, CalmJobStays DEF Spares
<1> QED BY <1>13, <1>14

(* The pull loop of a process (worker.ts pullLoop).                        *)
LEMMA LoopKeepsLife ==
  ASSUME TypeOK, TypeOK', FreshInv, FreeSlots, \A j \in Jobs : CalmJob(j),
         NEW p \in Procs, LoopStep(p), WorkerFrame
  PROVE  \A j \in Jobs : CalmJob(j)'
<1>0. UNCHANGED sched
  BY DEF WorkerFrame
<1>1. CASE \E s \in Slots, j \in Jobs : ScanPull(p, s, j) \/ BlockedPull(p, s, j)
  <2>1. PICK s \in Slots, j \in Jobs : Pull(p, s, j)
    BY <1>1 DEF ScanPull, BlockedPull
  <2> QED BY <1>0, <2>1, PullKeepsLife
<1>2. CASE ScanEmpty(p) \/ BlockedTimeout(p) \/ Resume(p)
  <2>1. UNCHANGED <<storeVars, slot, done>>
    BY <1>2 DEF ScanEmpty, BlockedTimeout, Resume
  <2>2. \A j \in Jobs : Spares(j)
    BY <2>1 DEF Spares, storeVars, recordVars, listVars
  <2> QED BY <1>0, <2>1, <2>2, CalmJobStays DEF Promoting
<1> QED BY <1>1, <1>2 DEF LoopStep

(* A tick of a scheduler (scheduler.ts promoteDelayedJobs).                *)
LEMMA SchedulerKeepsLife ==
  ASSUME TypeOK, \A j \in Jobs : CalmJob(j), FreshInv, NEW p \in Procs, SchedulerStep(p),
         UNCHANGED <<slot, done>>
  PROVE  \A j \in Jobs : CalmJob(j)'
<1>t. /\ StoreTypeOK /\ queue \in Bag
      /\ sched \in [Procs -> [pc : {"idle", "claim", "push", "mark"},
                              due : SUBSET Jobs, job : Jobs \cup {None}]]
      /\ sched[p].pc \in {"push", "mark"} => sched[p].job \in Jobs
  BY DEF TypeOK, StoreTypeOK, SchedulerTypeOK
<1>2. SchedIdle.pc # "push" /\ \A due : TickWith(due).pc # "push"
  BY DEF SchedIdle, TickWith
<1>3. \A j \in Jobs : queue[j] > 0 \/ j \in delayed \/ ~ NoPusher(j) =>
        Accepted(j) /\ Place(j) /\ JobInv(j) /\ Ready(j)
  BY DEF FreshInv, Fresh, NoPusher, CalmJob, Accepted, JobInv
<1>m. ASSUME NEW x, sched' = [sched EXCEPT ![p] = x], x.pc # "push", sched[p].pc # "push",
             \A j \in Jobs : Spares(j)
      PROVE  \A j \in Jobs : CalmJob(j)'
  <2>1. \A q \in Procs : sched'[q] = IF q = p THEN x ELSE sched[q]
    BY <1>t, <1>m
  <2>2. \A j \in Jobs, q \in Procs : j \in Promoting(q)' <=> j \in Promoting(q)
    BY <1>m, <2>1 DEF Promoting
  <2> QED BY <1>m, <2>2, CalmJobStays
<1>s. ASSUME UNCHANGED storeVars
      PROVE  \A j \in Jobs : Spares(j)
  BY <1>s DEF Spares, storeVars, recordVars, listVars
<1>4. CASE \E due \in SUBSET delayed : FindDue(p, due)
  <2> PICK due \in SUBSET delayed : FindDue(p, due)
    BY <1>4
  <2> DEFINE x == [pc |-> "claim", due |-> due, job |-> None]
  <2>1. /\ x.pc # "push" /\ sched' = [sched EXCEPT ![p] = x] /\ sched[p].pc # "push"
        /\ UNCHANGED storeVars
    BY DEF FindDue
  <2> HIDE DEF x
  <2> QED BY <1>m, <1>s, <2>1
<1>5. ASSUME NEW i \in Jobs, Claim(p, i)
      PROVE  \A j \in Jobs : CalmJob(j)'
  <2> DEFINE x == [pc |-> "push", due |-> sched[p].due \ {i}, job |-> i]
  <2>1. x.job = i /\ x.pc = "push" /\ sched' = [sched EXCEPT ![p] = x] /\ sched[p].pc # "push"
    BY <1>5 DEF Claim
  <2>2. i \in delayed /\ delayed' = delayed \ {i} /\ UNCHANGED <<row, hash, queue, dlq>>
    BY <1>5 DEF Claim, recordVars
  <2> HIDE DEF x
  <2>3. \A q \in Procs : sched'[q] = IF q = p THEN x ELSE sched[q]
    BY <1>t, <2>1
  <2>4. \A j \in Jobs, q \in Procs :
          j \in Promoting(q)' <=> (q = p /\ j = i) \/ (q # p /\ j \in Promoting(q))
    BY <2>1, <2>3 DEF Promoting
  <2>5. ASSUME NEW j \in Jobs \ {i}
        PROVE  CalmJob(j)'
    <3>1. Spares(j)
      BY <2>2 DEF Spares
    <3>2. \A q \in Procs : j \in Promoting(q)' <=> j \in Promoting(q)
      BY <2>1, <2>4 DEF Promoting
    <3> QED BY <3>1, <3>2, CalmJobStays
  <2>6. Accepted(i) /\ Place(i) /\ JobInv(i) /\ Ready(i)
    BY <1>3, <2>2
  <2>7. queue[i] = 0 /\ dlq[i] = 0 /\ NoPusher(i) /\ NoHolder(i)
    BY <2>2, <2>6 DEF Place, OnePlace, NoPlace, OnList, NoList
  <2>8. NoList(i)' /\ NoHolder(i)'
    BY <2>2, <2>7 DEF NoList, NoHolder, Holding
  <2>9. \A q \in Procs : i \in Promoting(q)' <=> q = p
    BY <2>4, <2>7 DEF NoPusher
  <2>10. Place(i)'
    BY <2>8, <2>9 DEF Place, OnePlace
  <2>11. Ready(i)'
    BY <2>2, <2>6 DEF Ready
  <2>12. \A t \in Slots : slot'[t].job = i => SlotInv(t, i)'
    BY <2>2, <2>7 DEF NoHolder, Holding, SlotInv, Unstarted, Retrying
  <2>13. i \notin done' /\ ~ (dlq'[i] > 0)
    BY <2>8, <2>11 DEF Ready, NoList
  <2>14. JobInv(i)'
    BY <2>11, <2>12, <2>13 DEF JobInv
  <2>15. CalmJob(i)'
    BY <2>2, <2>6, <2>10, <2>14 DEF CalmJob, Accepted
  <2> QED BY <2>5, <2>15
<1>6. CASE \E i \in Jobs : ClaimMissed(p, i)
  <2>1. UNCHANGED storeVars /\ sched[p].pc # "push"
        /\ \E due : sched' = [sched EXCEPT ![p] = TickWith(due)]
    BY <1>6 DEF ClaimMissed
  <2> QED BY <1>2, <1>m, <1>s, <2>1
<1>7. CASE PushDue(p)
  <2> DEFINE x == [sched[p] EXCEPT !.pc = "mark"]
  <2>1. x.pc # "push" /\ sched' = [sched EXCEPT ![p] = x]
    BY <1>7, <1>t DEF PushDue
  <2> HIDE DEF x
  <2>2. PICK i \in Jobs : Promoting(p) = {i} /\ queue' = LPush(queue, i)
    BY <1>7, <1>t DEF PushDue, Promoting
  <2>3. UNCHANGED <<row, hash, delayed, dlq>>
    BY <1>7 DEF PushDue, recordVars
  <2>4. \A q \in Procs : sched'[q] = IF q = p THEN x ELSE sched[q]
    BY <1>t, <2>1
  <2>5. \A j \in Jobs, q \in Procs : j \in Promoting(q)' <=> q # p /\ j \in Promoting(q)
    BY <2>1, <2>4 DEF Promoting
  <2>6. ASSUME NEW j \in Jobs \ {i}
        PROVE  CalmJob(j)'
    <3>1. Spares(j)
      BY <1>t, <2>2, <2>3, OneIdWritten DEF Spares
    <3>2. \A q \in Procs : j \in Promoting(q)' <=> j \in Promoting(q)
      BY <2>2, <2>5
    <3> QED BY <3>1, <3>2, CalmJobStays
  <2>7. ~ NoPusher(i)
    BY <2>2 DEF NoPusher
  <2>8. Accepted(i) /\ Place(i) /\ JobInv(i) /\ Ready(i)
    BY <1>3, <2>7
  <2>9. NoList(i) /\ NoHolder(i) /\ \A q \in Procs : i \in Promoting(q) <=> q = p
    BY <2>2, <2>7, <2>8 DEF Place, OnePlace, NoPlace
  <2>10. queue'[i] = 1
    BY <1>t, <2>2, <2>9, ListCommands DEF NoList
  <2>11. OnList(i)' /\ NoHolder(i)' /\ NoPusher(i)'
    BY <2>3, <2>5, <2>9, <2>10 DEF NoList, OnList, NoHolder, Holding, NoPusher
  <2>12. Ready(i)'
    BY <2>3, <2>8 DEF Ready
  <2>13. \A t \in Slots : slot'[t].job = i => SlotInv(t, i)'
    BY <2>3, <2>9 DEF NoHolder, Holding, SlotInv, Unstarted, Retrying
  <2>14. i \notin done' /\ ~ (dlq'[i] > 0)
    BY <2>3, <2>9, <2>12 DEF Ready, NoList
  <2>15. JobInv(i)'
    BY <2>12, <2>13, <2>14 DEF JobInv
  <2>16. CalmJob(i)'
    BY <2>3, <2>8, <2>11, <2>15 DEF CalmJob, Accepted, Place, OnePlace
  <2> QED BY <2>6, <2>16
<1>8. CASE MarkPending(p)
  <2>1. /\ HSetStatus(sched[p].job, "pending") /\ sched[p].pc # "push"
        /\ sched' = [sched EXCEPT ![p] = TickWith(sched[p].due)]
        /\ UNCHANGED <<row, queue, delayed, dlq>>
    BY <1>8, <1>t DEF MarkPending, listVars
  <2>2. \A j \in Jobs : hash'[j].attempts = hash[j].attempts /\ hash'[j].named = hash[j].named
    BY <1>t, <2>1 DEF HSetStatus, StoreTypeOK
  <2>3. \A j \in Jobs : Spares(j)
    BY <2>1, <2>2 DEF Spares
  <2>4. TickWith(sched[p].due).pc # "push"
    BY <1>2
  <2> HIDE DEF TickWith
  <2> QED BY <1>m, <2>1, <2>3, <2>4
<1> QED BY <1>4, <1>5, <1>6, <1>7, <1>8 DEF SchedulerStep

(* An enqueue call (producer.ts enqueue).                                  *)
LEMMA EnqueueKeepsLife ==
  ASSUME TypeOK, \A j \in Jobs : CalmJob(j), FreshInv, NEW i \in Jobs,
         InsertRow(i) \/ PushFirst(i), UNCHANGED <<slot, done, sched>>
  PROVE  \A j \in Jobs : CalmJob(j)'
<1>t. StoreTypeOK /\ queue \in Bag /\ MaxAttempts \in Nat \ {0}
  BY DEF TypeOK, StoreTypeOK
<1>1. Fresh(i) /\ row[i].status \notin Final
  <2>1. Fresh(i)
    BY DEF InsertRow, InsertPendingJob, InsertDelayedJob, PushFirst, EnqueueNow, EnqueueLater, FreshInv
  <2> QED BY <2>1 DEF Fresh, CalmJob, Accepted
<1>2. ASSUME NEW j \in Jobs \ {i}, row'[j] = row[j], hash'[j] = hash[j], queue'[j] = queue[j],
             j \in delayed' <=> j \in delayed, dlq' = dlq
      PROVE  CalmJob(j)'
  <2>1. Spares(j)
    BY <1>2 DEF Spares
  <2> QED BY <2>1, CalmJobStays DEF Promoting
<1>3. CASE InsertRow(i)
  <2>1. PICK st \in {"pending", "delayed"} : row' = [row EXCEPT ![i] = [status |-> st, attempts |-> 0]]
    BY <1>3 DEF InsertRow, InsertPendingJob, InsertDelayedJob
  <2>2. UNCHANGED <<hash, queue, delayed, dlq>>
    BY <1>3 DEF InsertRow, InsertPendingJob, InsertDelayedJob, listVars
  <2>3. row'[i].status \in {"pending", "delayed"} /\ \A j \in Jobs \ {i} : row'[j] = row[j]
    BY <1>t, <2>1 DEF StoreTypeOK
  <2>4. CalmJob(i)'
    BY <1>1, <2>2, <2>3 DEF CalmJob, Accepted, Fresh, Final
  <2>5. ASSUME NEW j \in Jobs \ {i}
        PROVE  CalmJob(j)'
    BY <1>2, <2>2, <2>3
  <2> QED BY <2>4, <2>5
<1>4. CASE PushFirst(i)
  <2>1. PICK st \in Status : hash' = [hash EXCEPT ![i] = NewHash(st)]
    BY <1>4 DEF PushFirst, EnqueueNow, EnqueueLater, Status
  <2>2. /\ \/ queue' = LPush(queue, i) /\ delayed' = delayed
           \/ queue' = queue /\ delayed' = delayed \cup {i}
        /\ UNCHANGED <<row, dlq>>
    BY <1>4 DEF PushFirst, EnqueueNow, EnqueueLater
  <2>3. NewHash(st).attempts = 0 /\ NewHash(st).named
    BY DEF NewHash
  <2>4. hash'[i].attempts = 0 /\ hash'[i].named /\ \A j \in Jobs \ {i} : hash'[j] = hash[j]
    BY <1>t, <2>1, <2>3 DEF StoreTypeOK
  <2>5. ASSUME NEW j \in Jobs \ {i}
        PROVE  CalmJob(j)'
    <3>1. queue'[j] = queue[j] /\ (j \in delayed' <=> j \in delayed)
      BY <1>t, <2>2, OneIdWritten
    <3> QED BY <1>2, <2>2, <2>4, <3>1
  <2>6. OnList(i)'
    BY <1>1, <1>t, <2>2, ListCommands DEF OnList, Fresh
  <2>7. NoPusher(i)' /\ NoHolder(i)' /\ \A s \in Slots : slot'[s].job # i
    BY <1>1 DEF Fresh, NoPusher, NoHolder, Holding, Promoting
  <2>8. Ready(i)'
    BY <1>1, <1>t, <2>2, <2>4 DEF Ready, Fresh
  <2>9. ~ (dlq'[i] > 0) /\ i \notin done'
    BY <1>1, <2>2 DEF Fresh
  <2>10. CalmJob(i)'
    <3>1. Place(i)' /\ Accepted(i)'
      BY <2>4, <2>6, <2>7 DEF Place, OnePlace, Accepted
    <3>2. JobInv(i)'
      BY <2>7, <2>8, <2>9 DEF JobInv
    <3> QED BY <3>1, <3>2 DEF CalmJob
  <2> QED BY <2>5, <2>10
<1> QED BY <1>3, <1>4

(* A slot that is freed forgets its job (worker.ts activeJobs).            *)
LEMMA FreedForget ==
  ASSUME TypeOK, FreeSlots, NEW s \in Slots, SlotStep(s)
  PROVE  FreeSlots'
<1>t. WorkerTypeOK
  BY DEF TypeOK
<1>1. \/ Release(s)
      \/ \E l \in SlotPC \ {"free"} : slot' = [slot EXCEPT ![s].pc = l]
      \/ \E x : x.pc # "free" /\ slot' = [slot EXCEPT ![s] = x]
  <2>1. CASE Load(s)
    <3> DEFINE x == [pc |-> IF RateLimited THEN "limit" ELSE "pgActive", job |-> slot[s].job,
                     seen |-> hash[slot[s].job].attempts]
    <3>1. x.pc # "free" /\ (Release(s) \/ slot' = [slot EXCEPT ![s] = x])
      BY <2>1 DEF Load
    <3> HIDE DEF x
    <3> QED BY <3>1
  <2>2. CASE ~ Load(s)
    BY <2>2
    DEF SlotStep, Goto, SlotPC, Allowed, Denied, PushBack, Sleep, PgActive, SetActive,
        HandlerReturns, HandlerFails, PgCompleted, SetCompleted, AckCompleted, Reread, FailLoad,
        PgDlq, SetDlq, PushDlq, AckDlq, PgDelayed, SetDelayed, ZAddDelayed, AckDelayed
  <2> QED BY <2>1, <2>2
<1>2. CASE Release(s)
  BY <1>t, <1>2, ReleaseFreesOne DEF FreeSlots
<1>3. CASE \E l \in SlotPC \ {"free"} : slot' = [slot EXCEPT ![s].pc = l]
  BY <1>t, <1>3, GotoMovesOne DEF FreeSlots
<1>4. CASE \E x : x.pc # "free" /\ slot' = [slot EXCEPT ![s] = x]
  <2> PICK x : x.pc # "free" /\ slot' = [slot EXCEPT ![s] = x]
    BY <1>4
  <2>1. \A t \in Slots : slot'[t] = IF t = s THEN x ELSE slot[t]
    BY <1>t DEF WorkerTypeOK
  <2> QED BY <2>1 DEF FreeSlots
<1> QED BY <1>1, <1>2, <1>3, <1>4

LEMMA LoopForgetsNot ==
  ASSUME TypeOK, FreeSlots, NEW p \in Procs, LoopStep(p)
  PROVE  FreeSlots'
<1>1. UNCHANGED slot \/ \E s \in Slots, j \in Jobs : Pull(p, s, j)
  BY DEF LoopStep, ScanPull, BlockedPull, ScanEmpty, BlockedTimeout, Resume
<1>2. ASSUME NEW s \in Slots, NEW j \in Jobs, Pull(p, s, j)
      PROVE  FreeSlots'
  <2> DEFINE x == [pc |-> "load", job |-> j, seen |-> 0]
  <2>1. x.pc # "free" /\ slot' = [slot EXCEPT ![s] = x]
    BY <1>2 DEF Pull
  <2> HIDE DEF x
  <2>2. \A t \in Slots : slot'[t] = IF t = s THEN x ELSE slot[t]
    BY <2>1 DEF TypeOK, WorkerTypeOK
  <2> QED BY <2>1, <2>2 DEF FreeSlots
<1> QED BY <1>1, <1>2 DEF FreeSlots

(* What is known while nothing fails is inductive. *)
LEMMA CalmKept ==
  ASSUME TypeOK, TypeOK', BudgetInv, ActorInv, AttemptsInv, CalmInv, [Next]_vars, Calm'
  PROVE  CalmInv'
<1>1. FreshInv'
  BY FreshKept DEF CalmInv, Calm, Kinds
<1>2. /\ \/ \E j \in Jobs : (InsertRow(j) \/ PushFirst(j)) /\ ProducerFrame
         \/ \E p \in Procs : LoopStep(p) /\ WorkerFrame
         \/ \E s \in Slots : SlotStep(s) /\ WorkerFrame
         \/ SchedulerNext
         \/ Idles
      /\ CalmFleet'
  BY CalmSteps DEF CalmInv
<1>3. ASSUME NEW i \in Jobs, InsertRow(i) \/ PushFirst(i), ProducerFrame
      PROVE  FreeSlots' /\ \A j \in Jobs : CalmJob(j)'
  <2>1. UNCHANGED <<slot, done, sched>>
    BY <1>3 DEF ProducerFrame, workerVars
  <2> QED BY <1>3, <2>1, EnqueueKeepsLife DEF CalmInv, FreeSlots
<1>4. ASSUME NEW p \in Procs, LoopStep(p), WorkerFrame
      PROVE  FreeSlots' /\ \A j \in Jobs : CalmJob(j)'
  BY <1>4, LoopKeepsLife, LoopForgetsNot DEF CalmInv
<1>5. ASSUME NEW s \in Slots, SlotStep(s), WorkerFrame
      PROVE  FreeSlots' /\ \A j \in Jobs : CalmJob(j)'
  BY <1>5, SlotKeepsLife, FreedForget DEF CalmInv
<1>6. CASE SchedulerNext
  <2>1. PICK p \in Procs : SchedulerStep(p) /\ UNCHANGED <<slot, done>>
    BY <1>6 DEF SchedulerNext, SchedulerFrame, workerVars
  <2> QED BY <1>1, <1>2, <2>1, SchedulerKeepsLife DEF CalmInv, FreeSlots
<1>7. CASE Idles
  <2>1. \A j \in Jobs : Spares(j) /\ \A p \in Procs : j \in Promoting(p)' <=> j \in Promoting(p)
    BY <1>7 DEF Idles, Spares, Promoting, recordVars, listVars
  <2>2. \A j \in Jobs : CalmJob(j)'
    BY <1>7, <2>1, CalmJobStays DEF CalmInv, Idles
  <2> QED BY <1>1, <1>2, <1>7, <2>2 DEF CalmInv, FreeSlots, Idles
<1> QED BY <1>1, <1>2, <1>3, <1>4, <1>5, <1>6, <1>7 DEF CalmInv

LEMMA InitCalm == Init => CalmInv
<1> SUFFICES ASSUME Init PROVE CalmInv
  OBVIOUS
<1>1. FreshInv
  BY InitFresh
<1>2. CalmFleet
  BY DEF Init, StoreInit, WorkerInit, JanitorInit, JanIdle, CalmFleet
<1>3. FreeSlots
  BY DEF Init, WorkerInit, FreeSlot, FreeSlots
<1>4. \A j \in Jobs : CalmJob(j)
  BY DEF Init, StoreInit, CalmJob, Accepted, Final
<1> QED BY <1>1, <1>2, <1>3, <1>4 DEF CalmInv

(* The inductive invariant behind the theorems below.                      *)
LifeInv == BudgetInv /\ ActorInv /\ AttemptsInv /\ (Calm => CalmInv)

LEMMA CalmBefore ==
  ASSUME TypeOK, TypeOK', BudgetInv, [Next]_vars, Calm'
  PROVE  Calm /\ BudgetInv'
BY Unspent DEF Calm, Kinds

THEOREM LifeInvariant == Spec => []LifeInv
<1>1. Init => LifeInv
  BY InitCustody, InitAttempts, InitCalm DEF LifeInv, CustodyInv
<1>2. TypeOK /\ TypeOK' /\ LifeInv /\ [Next]_vars => LifeInv'
  BY Unspent, ActorKept, NextAttempts, CalmBefore, CalmKept DEF LifeInv
<1> QED BY <1>1, <1>2, TypeCorrect, PTL DEF Spec

-----------------------------------------------------------------------------
(* While nothing fails, stops or is started and nobody requeues a job,     *)
(* every accepted job is in exactly one place: on one list, with one       *)
(* scheduler, or with one slot; one that is done is in one place at most   *)
(* (worker.ts pullJob, processOne; scheduler.ts promoteDelayedJobs).       *)
THEOREM OneCustodianEach == Spec => [](Calm => OneCustodian)
<1>1. TypeOK /\ LifeInv => (Calm => OneCustodian)
  <2> SUFFICES ASSUME TypeOK, CalmInv, NEW j \in Jobs, Accepted(j)
               PROVE  IF j \in done THEN Custodians(j) <= 1 ELSE Custodians(j) = 1
    BY DEF LifeInv, OneCustodian
  <2>1. Custodians(j) = 1 \/ (j \in done /\ Custodians(j) = 0)
    BY CustodianCount DEF CalmInv, FreshInv, CalmJob, Place
  <2> QED BY <2>1
<1> QED BY <1>1, LifeInvariant, TypeCorrect, PTL

(* While nothing fails, the row of a job nobody is at work on tells how    *)
(* the job ended (worker.ts complete, handleFailure; db.ts).               *)
THEOREM RowsTellTheEnd == Spec => [](Calm => SettledInPostgres)
<1>1. TypeOK /\ LifeInv => (Calm => SettledInPostgres)
  <2> SUFFICES ASSUME TypeOK, CalmInv, NEW j \in Jobs, Accepted(j), Quiet(j)
               PROVE  /\ j \in done <=> row[j].status = "completed"
                      /\ dlq[j] > 0 <=> row[j].status = "dlq"
    BY DEF LifeInv, SettledInPostgres
  <2>1. Place(j) /\ JobInv(j) /\ NoHolder(j) /\ \A s \in Slots : slot[s].job # j
    BY DEF CalmInv, CalmJob, Quiet, NoHolder, Holding
  <2>2. j \in done => row[j].status = "completed"
    BY <2>1 DEF JobInv
  <2>3. j \notin done => OnList(j) \/ ~ NoPusher(j)
    BY <2>1 DEF Place, OnePlace, NoPlace, NoPusher, NoHolder
  <2>4. j \notin done => Ready(j) \/ (dlq[j] > 0 /\ Dead(j))
    BY <2>1, <2>3 DEF JobInv, OnList
  <2>5. dlq[j] > 0 => Dead(j)
    BY <2>1 DEF JobInv
  <2> QED BY <2>2, <2>4, <2>5 DEF Ready, Dead, Final
<1> QED BY <1>1, LifeInvariant, TypeCorrect, PTL

-----------------------------------------------------------------------------
(* The refinement of JobLife. *)

(* What a step can leave of the life of a job.                             *)
SameLife(j) ==
  /\ hash'[j].named = hash[j].named /\ hash'[j].attempts = hash[j].attempts
  /\ j \in done' <=> j \in done
  /\ RunBy(j)' = RunBy(j)

LEMMA SameStage ==
  ASSUME NEW j \in Jobs, SameLife(j)
  PROVE  Stage(j)' = Stage(j)
BY DEF SameLife, Stage, Accepted

(* A step that changes the life of one job is a step of JobLife, ...       *)
LEMMA LifeOfOne ==
  ASSUME NEW i \in Jobs, \A j \in Jobs \ {i} : SameLife(j),
         \/ /\ Stage(i) = "new" /\ Stage(i)' = "waiting"
            /\ hash'[i].attempts = hash[i].attempts
         \/ /\ Stage(i) = "waiting" /\ Stage(i)' = "running"
            /\ hash[i].attempts < MaxAttempts /\ hash'[i].attempts = hash[i].attempts + 1
         \/ /\ Stage(i) = "running" /\ Stage(i)' = "done"
            /\ hash'[i].attempts = hash[i].attempts
         \/ /\ Stage(i) = "running" /\ Stage(i)' = "waiting"
            /\ hash[i].attempts < MaxAttempts /\ hash'[i].attempts = hash[i].attempts
         \/ /\ Stage(i) = "running" /\ Stage(i)' = "dead"
            /\ hash[i].attempts = MaxAttempts /\ hash'[i].attempts = hash[i].attempts
  PROVE  Life!Next
<1> DEFINE stage == [j \in Jobs |-> Stage(j)]
           starts == [j \in Jobs |-> hash[j].attempts]
<1>1. \A j \in Jobs \ {i} : Stage(j)' = Stage(j)
  BY SameStage
<1>2. \A j \in Jobs \ {i} : hash'[j].attempts = hash[j].attempts
  BY DEF SameLife
<1>3. ASSUME NEW to, Stage(i)' = to
      PROVE  stage' = [stage EXCEPT ![i] = to]
  BY <1>1, <1>3
<1>4. ASSUME hash'[i].attempts = hash[i].attempts
      PROVE  starts' = starts
  BY <1>2, <1>4
<1>5. ASSUME hash'[i].attempts = hash[i].attempts + 1
      PROVE  starts' = [starts EXCEPT ![i] = @ + 1]
  BY <1>2, <1>5
<1>6. \/ Life!Submit(i) \/ Life!Start(i) \/ Life!Succeed(i) \/ Life!WaitAgain(i) \/ Life!GiveUp(i)
  BY <1>3, <1>4, <1>5
  DEF Life!Submit, Life!Start, Life!Succeed, Life!WaitAgain, Life!GiveUp, Life!Moves
<1> QED BY <1>6 DEF Life!Next

(* ... and one that changes none is a stutter.                             *)
LEMMA LifeOfNone ==
  ASSUME \A j \in Jobs : SameLife(j)
  PROVE  UNCHANGED Life!lifeOfJobs
<1>1. \A j \in Jobs : Stage(j)' = Stage(j) /\ hash'[j].attempts = hash[j].attempts
  BY SameStage DEF SameLife
<1> QED BY <1>1 DEF Life!lifeOfJobs

(* Only three steps of a slot change the life of its job: HSET active, and *)
(* the two ends of its handler (worker.ts processOne).                     *)
LEMMA LivesInThreeSteps ==
  ASSUME TypeOK, NEW s \in Slots, SlotStep(s)
  PROVE  \/ SetActive(s) \/ HandlerReturns(s) \/ HandlerFails(s)
         \/ /\ slot[s].pc # "run" /\ slot'[s].pc # "run" /\ UNCHANGED done
            /\ \A j \in Jobs : hash'[j].attempts = hash[j].attempts /\ hash'[j].named = hash[j].named
<1>t. StoreTypeOK /\ WorkerTypeOK
  BY DEF TypeOK
<1> DEFINE Kept == \A j \in Jobs : /\ hash'[j].attempts = hash[j].attempts
                                   /\ hash'[j].named = hash[j].named
<1>g. ASSUME NEW l, Goto(s, l)
      PROVE  slot'[s].pc = l /\ UNCHANGED done
  BY <1>t, <1>g, GotoMovesOne DEF Goto
<1>1. ASSUME NEW st, HSetStatus(slot[s].job, st)
      PROVE  Kept
  BY <1>t, <1>1 DEF HSetStatus, StoreTypeOK
<1>2. UNCHANGED hash => Kept
  OBVIOUS
<1> HIDE DEF Kept
<1>3. CASE Load(s)
  <2> DEFINE x == [pc |-> IF RateLimited THEN "limit" ELSE "pgActive", job |-> slot[s].job,
                   seen |-> hash[slot[s].job].attempts]
  <2>1. x.pc # "run" /\ (Release(s) \/ (slot' = [slot EXCEPT ![s] = x] /\ UNCHANGED done))
    BY <1>3 DEF Load
  <2> HIDE DEF x
  <2>2. slot'[s].pc # "run" /\ UNCHANGED done
    BY <1>t, <2>1, ReleaseFreesOne DEF WorkerTypeOK
  <2>3. slot[s].pc # "run" /\ UNCHANGED hash
    BY <1>3 DEF Load, At, storeVars, recordVars
  <2> QED BY <1>2, <2>2, <2>3 DEF Kept
<1>4. CASE Sleep(s) \/ Reread(s) \/ AckDlq(s) \/ AckDelayed(s)
  <2>1. Release(s) /\ slot[s].pc # "run" /\ UNCHANGED hash
    BY <1>4 DEF Sleep, Reread, AckDlq, AckDelayed, At, storeVars, recordVars
  <2> QED BY <1>t, <1>2, <2>1, ReleaseFreesOne DEF Kept
<1>5. CASE \/ Allowed(s) \/ Denied(s) \/ PushBack(s) \/ PgActive(s) \/ PgCompleted(s)
           \/ AckCompleted(s) \/ FailLoad(s) \/ PgDlq(s) \/ PushDlq(s) \/ PgDelayed(s)
           \/ ZAddDelayed(s)
  <2>1. slot[s].pc # "run" /\ UNCHANGED hash /\ \E l \in SlotPC \ {"run"} : Goto(s, l)
    BY <1>5
    DEF Allowed, Denied, PushBack, PgActive, PgCompleted, AckCompleted, FailLoad, PgDlq, PushDlq,
        PgDelayed, ZAddDelayed, At, SlotPC, CompletePC, FailurePC, storeVars, recordVars
  <2> QED BY <1>g, <1>2, <2>1 DEF Kept
<1>6. CASE SetCompleted(s) \/ SetDlq(s) \/ SetDelayed(s)
  <2>1. /\ slot[s].pc # "run" /\ \E l \in SlotPC \ {"run"} : Goto(s, l)
        /\ \E st : HSetStatus(slot[s].job, st)
    BY <1>6 DEF SetCompleted, SetDlq, SetDelayed, At, SlotPC, CompletePC, FailurePC
  <2> QED BY <1>g, <1>1, <2>1 DEF Kept
<1> QED BY <1>3, <1>4, <1>5, <1>6 DEF SlotStep

LEMMA SlotLives ==
  ASSUME TypeOK, ActorInv, AttemptsInv, CalmInv, NEW s \in Slots, SlotStep(s)
  PROVE  Life!Next \/ UNCHANGED Life!lifeOfJobs
<1>t. StoreTypeOK /\ WorkerTypeOK
  BY DEF TypeOK
<1> PICK i \in Jobs : i = slot[s].job
  BY SlotOwnJob
<1>1. /\ slot'[s].job \in {i, None} /\ \A t \in Slots \ {s} : slot'[t] = slot[t]
      /\ \A j \in Jobs \ {i} : Untouched(j) /\ (j \in done' <=> j \in done)
  BY SlotOwnJob
<1>2. \A j \in Jobs \ {i} : SameLife(j)
  <2> TAKE j \in Jobs \ {i}
  <2>1. RunBy(j)' = RunBy(j)
    BY <1>1 DEF RunBy
  <2> QED BY <1>1, <2>1 DEF SameLife, Untouched
<1>3. Accepted(i) /\ Place(i) /\ JobInv(i) /\ SlotInv(s, i)
  BY DEF CalmInv, FreshInv, Fresh, Accepted, CalmJob, JobInv
<1>4. ASSUME slot[s].pc \in {"setActive", "run"}
      PROVE  \A t \in Slots \ {s} : slot[t].job = i => slot[t].pc # "run"
  <2>1. Holding(s, i)
    BY <1>4 DEF Holding
  <2>2. \A t \in Slots : Holding(t, i) <=> t = s
    BY <1>3, <2>1 DEF Place, OnePlace, NoPlace, NoHolder
  <2> QED BY <2>2 DEF Holding
<1>g. ASSUME NEW l, slot' = [slot EXCEPT ![s].pc = l]
      PROVE  slot'[s].pc = l /\ slot'[s].job = i
  BY <1>t, <1>g, GotoMovesOne
<1>5. CASE SetActive(s)
  <2> DEFINE y == [status |-> "active", attempts |-> slot[s].seen + 1, named |-> hash[i].named]
  <2>1. /\ slot' = [slot EXCEPT ![s].pc = "run"] /\ slot[s].pc = "setActive"
        /\ UNCHANGED done /\ hash' = [hash EXCEPT ![i] = y]
    BY <1>5 DEF SetActive, Goto, At
  <2>2. y.attempts = slot[s].seen + 1 /\ y.named = hash[i].named
    OBVIOUS
  <2> HIDE DEF y
  <2>3. hash'[i] = y
    BY <1>t, <2>1 DEF StoreTypeOK
  <2>4. Ready(i) /\ slot[s].seen = hash[i].attempts
    BY <1>3, <2>1 DEF SlotInv, Unstarted
  <2>5. slot'[s].pc = "run" /\ slot'[s].job = i
    BY <1>g, <2>1
  <2>6. RunBy(i) = {} /\ RunBy(i)' # {}
    BY <1>1, <1>4, <2>1, <2>5 DEF RunBy
  <2>7. hash[i].attempts < MaxAttempts /\ i \notin done /\ hash[i].attempts \in Nat
    BY <1>t, <2>4 DEF Ready, StoreTypeOK
  <2>8. hash'[i].attempts = hash[i].attempts + 1 /\ Accepted(i)'
    BY <1>3, <2>2, <2>3, <2>4 DEF Accepted
  <2>9. Stage(i) = "waiting" /\ Stage(i)' = "running"
    BY <1>3, <2>1, <2>6, <2>7, <2>8 DEF Stage
  <2> QED BY <1>2, <2>7, <2>8, <2>9, LifeOfOne
<1>6. ASSUME HandlerReturns(s) \/ HandlerFails(s)
      PROVE  /\ Stage(i) = "running" /\ UNCHANGED hash /\ hash[i].attempts <= MaxAttempts
             /\ hash[i].attempts \in Nat /\ i \notin done /\ slot[s].pc = "run"
  <2>1. slot[s].pc = "run" /\ UNCHANGED hash
    BY <1>6 DEF HandlerReturns, HandlerFails, At, storeVars, recordVars
  <2>2. i \notin done /\ hash[i].attempts <= MaxAttempts
    BY <1>3, <2>1 DEF SlotInv
  <2>3. RunBy(i) # {}
    BY <2>1 DEF RunBy
  <2> QED BY <1>t, <1>3, <2>1, <2>2, <2>3 DEF Stage, StoreTypeOK
<1>7. CASE HandlerReturns(s)
  <2>1. Stage(i)' = "done"
    BY <1>3, <1>6, <1>7 DEF HandlerReturns, Stage, Accepted
  <2> QED BY <1>2, <1>6, <1>7, <2>1, LifeOfOne
<1>8. CASE HandlerFails(s)
  <2>1. slot'[s].pc = "failLoad" /\ UNCHANGED done
    BY <1>g, <1>8 DEF HandlerFails, Goto
  <2>2. RunBy(i)' = {}
    BY <1>1, <1>4, <1>6, <1>8, <2>1 DEF RunBy
  <2>3. Stage(i)' = IF hash[i].attempts >= MaxAttempts THEN "dead" ELSE "waiting"
    BY <1>3, <1>6, <1>8, <2>1, <2>2 DEF Stage, Accepted
  <2>4. \/ hash[i].attempts = MaxAttempts /\ Stage(i)' = "dead"
        \/ hash[i].attempts < MaxAttempts /\ Stage(i)' = "waiting"
    BY <1>6, <1>8, <2>3
  <2> QED BY <1>2, <1>6, <1>8, <2>4, LifeOfOne
<1>9. CASE /\ slot[s].pc # "run" /\ slot'[s].pc # "run" /\ UNCHANGED done
           /\ \A j \in Jobs : hash'[j].attempts = hash[j].attempts /\ hash'[j].named = hash[j].named
  <2>1. RunBy(i)' = RunBy(i)
    BY <1>1, <1>9 DEF RunBy
  <2>2. SameLife(i)
    BY <1>9, <2>1 DEF SameLife
  <2> QED BY <1>2, <2>2, LifeOfNone
<1> QED BY <1>5, <1>7, <1>8, <1>9, LivesInThreeSteps

(* Every step of the pipeline in which nothing fails is one of JobLife.    *)
LEMMA StepLives ==
  ASSUME TypeOK, TypeOK', LifeInv, Calm, Calm', [Next]_vars
  PROVE  Life!Next \/ UNCHANGED Life!lifeOfJobs
<1>0. CalmInv /\ ActorInv /\ AttemptsInv /\ BudgetInv
  BY DEF LifeInv
<1>t. StoreTypeOK /\ WorkerTypeOK /\ MaxAttempts \in Nat \ {0}
  BY DEF TypeOK
<1>s. ASSUME UNCHANGED <<hash, slot, done>>
      PROVE  UNCHANGED Life!lifeOfJobs
  <2>1. \A j \in Jobs : SameLife(j)
    BY <1>s DEF SameLife, RunBy
  <2> QED BY <2>1, LifeOfNone
<1>1. \/ \E j \in Jobs : (InsertRow(j) \/ PushFirst(j)) /\ ProducerFrame
      \/ \E p \in Procs : LoopStep(p) /\ WorkerFrame
      \/ \E s \in Slots : SlotStep(s) /\ WorkerFrame
      \/ SchedulerNext
      \/ Idles
  BY <1>0, CalmSteps DEF CalmInv
<1>2. CASE \E j \in Jobs : InsertRow(j) /\ ProducerFrame
  BY <1>2, <1>s DEF InsertRow, InsertPendingJob, InsertDelayedJob, ProducerFrame, workerVars
<1>3. ASSUME NEW i \in Jobs, PushFirst(i), ProducerFrame
      PROVE  Life!Next
  <2>1. Fresh(i) /\ ~ Accepted(i) /\ hash[i].attempts = 0
    BY <1>0, <1>3 DEF PushFirst, EnqueueNow, EnqueueLater, CalmInv, FreshInv, Fresh, Accepted, CalmJob
  <2>2. PICK st \in Status : hash' = [hash EXCEPT ![i] = NewHash(st)]
    BY <1>3 DEF PushFirst, EnqueueNow, EnqueueLater, Status
  <2>3. NewHash(st).attempts = 0 /\ NewHash(st).named
    BY DEF NewHash
  <2>4. hash'[i].attempts = 0 /\ hash'[i].named /\ \A j \in Jobs \ {i} : hash'[j] = hash[j]
    BY <1>t, <2>2, <2>3 DEF StoreTypeOK
  <2>5. UNCHANGED <<slot, done>>
    BY <1>3 DEF ProducerFrame, workerVars
  <2>6. \A j \in Jobs \ {i} : SameLife(j)
    BY <2>4, <2>5 DEF SameLife, RunBy
  <2>7. Stage(i) = "new"
    BY <2>1 DEF Stage
  <2>8. RunBy(i)' = {} /\ i \notin done'
    BY <2>1, <2>5 DEF Fresh, RunBy
  <2>9. Stage(i)' = "waiting"
    BY <1>t, <2>4, <2>8 DEF Stage, Accepted
  <2> QED BY <2>1, <2>4, <2>6, <2>7, <2>9, LifeOfOne
<1>4. ASSUME NEW p \in Procs, LoopStep(p), WorkerFrame
      PROVE  UNCHANGED Life!lifeOfJobs
  <2>1. UNCHANGED <<hash, slot, done>> \/ \E s \in Slots, j \in Jobs : Pull(p, s, j)
    BY <1>4
    DEF LoopStep, ScanPull, BlockedPull, ScanEmpty, BlockedTimeout, Resume, storeVars, recordVars
  <2>2. ASSUME NEW s \in Slots, NEW j \in Jobs, Pull(p, s, j)
        PROVE  UNCHANGED Life!lifeOfJobs
    <3> DEFINE x == [pc |-> "load", job |-> j, seen |-> 0]
    <3>1. /\ x.pc # "run" /\ slot' = [slot EXCEPT ![s] = x] /\ slot[s].pc = "free"
          /\ UNCHANGED <<hash, done>>
      BY <2>2 DEF Pull, recordVars
    <3> HIDE DEF x
    <3>2. \A t \in Slots : slot'[t] = IF t = s THEN x ELSE slot[t]
      BY <1>t, <3>1 DEF WorkerTypeOK
    <3>3. \A k \in Jobs : RunBy(k)' = RunBy(k)
      BY <3>1, <3>2 DEF RunBy
    <3>4. \A k \in Jobs : SameLife(k)
      BY <3>1, <3>3 DEF SameLife
    <3> QED BY <3>4, LifeOfNone
  <2> QED BY <1>s, <2>1, <2>2
<1>5. CASE SchedulerNext
  <2>1. PICK p \in Procs : SchedulerStep(p) /\ UNCHANGED <<slot, done>>
    BY <1>5 DEF SchedulerNext, SchedulerFrame, workerVars
  <2>2. UNCHANGED hash \/ \E st : HSetStatus(sched[p].job, st)
    BY <2>1
    DEF SchedulerStep, FindDue, Claim, ClaimMissed, PushDue, MarkPending, storeVars, recordVars
  <2>3. \A j \in Jobs : hash'[j].attempts = hash[j].attempts /\ hash'[j].named = hash[j].named
    <3>1. CASE UNCHANGED hash
      BY <3>1
    <3>2. CASE \E st : HSetStatus(sched[p].job, st)
      BY <1>t, <3>2 DEF HSetStatus, StoreTypeOK
    <3> QED BY <2>2, <3>1, <3>2
  <2>4. \A j \in Jobs : SameLife(j)
    BY <2>1, <2>3 DEF SameLife, RunBy
  <2> QED BY <2>4, LifeOfNone
<1>6. CASE Idles
  BY <1>6, <1>s DEF Idles, recordVars
<1> QED BY <1>0, <1>1, <1>2, <1>3, <1>4, <1>5, <1>6, SlotLives

(* As long as nothing fails, stops or is started and nobody requeues a     *)
(* job, the pipeline implements JobLife: whatever producers, schedulers,   *)
(* pull loops, push-backs and retries do, each job is run by one worker at *)
(* a time, MaxAttempts times at most, and never again after it succeeded   *)
(* or was given up (worker.ts, scheduler.ts, producer.ts).                 *)
THEOREM PipelineImplementsJobLife == Spec /\ []Calm => ImplementsJobLife
<1>1. Init => Life!Init
  <2> SUFFICES ASSUME Init
               PROVE  \A j \in Jobs : Stage(j) = "new" /\ hash[j].attempts = 0
    BY DEF Life!Init
  <2> QED BY DEF Init, StoreInit, Stage, Accepted
<1>2. TypeOK /\ TypeOK' /\ LifeInv /\ Calm /\ Calm' /\ [Next]_vars => [Life!Next]_(Life!lifeOfJobs)
  BY StepLives
<1> QED BY <1>1, <1>2, LifeInvariant, TypeCorrect, PTL DEF Spec, ImplementsJobLife, Life!Spec

=============================================================================
