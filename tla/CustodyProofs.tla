---------------------------- MODULE CustodyProofs ----------------------------
(***************************************************************************)
(* Where jobs are, when processes crash, commands fail and heartbeats      *)
(* lapse: JanitorSparesTheLiving, JobHeld, AcknowledgedStays, Recoverable  *)
(* and SurvivesLapse for every instance of NexusQueue.                     *)
(*                                                                         *)
(* The argument: what keeps a job is a list, or a token in a processing    *)
(* list that nobody is about to remove (Safe).  A slot removes one token   *)
(* of its own process, so a list that holds more tokens of a job than      *)
(* slots on the point of an ACK keeps it (Acking); a pull makes such a     *)
(* token only if the list had one for every slot before (ListInv), that is *)
(* if no janitor has emptied it under a worker that still pulls            *)
(* (JanitorSparesTheLiving).  A janitor removes all tokens of a list, so   *)
(* it must have those it has not pushed in its LRANGE.                     *)
(*                                                                         *)
(* Nobody is stranded by a crash because a list holds no token but those   *)
(* of the slots of its process, until that dies registered (StrandInv).    *)
(* And when janitors empty the lists of living workers, what is not        *)
(* executed waits or is in the hands of a slot (HandsInv).                 *)
(***************************************************************************)
EXTENDS NexusProofs, FiniteSetTheorems

USE ConstantsAssumption, RateLimitedAssumption, CompositionAssumption

(* What has occurred is not undone. *)
BudgetInv == \A k \in Kinds : left[k] <= Budget[k]

(* The processes whose pull loop may still take a job. *)
Pulling == {p \in Procs : loop[p] \notin {"off", "exited"}}

(* While no heartbeat has lapsed: no process is starting, a loop is over   *)
(* before its process withdraws its heartbeat, and no janitor works on a   *)
(* process whose loop is not.                                              *)
FleetInv ==
  /\ \A p \in Procs :
       /\ phase[p] \notin {"register", "beat", "describe"}
       /\ phase[p] = "off" => loop[p] = "off"
       /\ phase[p] \in {"deregister", "delBeat", "delMeta", "quit"} => loop[p] = "exited"
  /\ Pulling \subseteq heartbeat
  /\ JanitorSparesTheLiving

(* The slots of p at work on j that have not removed its token, and those  *)
(* of them whose next command does, after another command has stored j.    *)
Unacked(p, j) ==
  {s \in Slots : Owner[s] = p /\ slot[s].job = j /\ slot[s].pc \notin {"free", "sleep"}}

Acking(p, j) ==
  {s \in Slots : Owner[s] = p /\ slot[s].job = j /\ slot[s].pc \in {"ackDelayed", "ackDlq"}}

ListInv ==
  \A p \in Pulling, j \in Jobs \ done : Cardinality(Unacked(p, j)) <= processing[p][j]

(* The list of p has a token of j that no ACK will remove, and no janitor  *)
(* that is past its LRANGE deletes before it has pushed j.                 *)
Safe(p, j) ==
  /\ Cardinality(Acking(p, j)) < processing[p][j]
  /\ \A q \in Procs :
       jan[q].target = p /\ jan[q].pc \in {"push", "reset", "pgReset", "delList"}
         => jan[q].todo[j] > 0

Held(j) == Waiting(j) \/ \E p \in Procs : Safe(p, j)

HeldInv == \A j \in Jobs : Accepted(j) => j \in done \cup dropped \/ Held(j)

(* A slot in complete() has a job whose handler succeeded; a janitor       *)
(* deletes a list when it has pushed all it has read of it.                *)
ActorInv ==
  /\ \A s \in Slots : slot[s].pc \in CompletePC => slot[s].job \in done
  /\ \A q \in Procs : jan[q].pc = "delList" => jan[q].todo = NoTokens

CustodyInv ==
  /\ BudgetInv /\ ActorInv
  /\ ~ Lapsed => FleetInv /\ ListInv /\ HeldInv

-----------------------------------------------------------------------------
(* Budgets. *)

(* A step spends one fault, or none. *)
LEMMA OneFaultAtMost ==
  ASSUME TypeOK, [Next]_vars
  PROVE  UNCHANGED left \/ \E k \in Kinds : Spend(k)
<1> USE DEF Kinds
<1>1. CASE ProducerNext  BY <1>1 DEF ProducerNext
<1>2. CASE WorkerNext    BY <1>2 DEF WorkerNext, WorkerFrame
<1>3. CASE WorkerFault
  <2>1. Spend("io") \/ Spend("beat") \/ Spend("timeout") \/ Spend("stop")
    BY <1>3, Zenon DEF WorkerFault
  <2> QED BY <2>1
<1>4. CASE SchedulerNext BY <1>4 DEF SchedulerNext, SchedulerFrame
<1>5. CASE JanitorNext   BY <1>5 DEF JanitorNext
<1>6. CASE DlqApiNext    BY <1>6 DEF DlqApiNext
<1>7. CASE ProcessNext   BY <1>7 DEF ProcessNext, Crash, Exit, Launch, Expire, ApiCrash
<1>8. CASE UNCHANGED vars BY <1>8 DEF vars
<1> QED BY <1>1, <1>2, <1>3, <1>4, <1>5, <1>6, <1>7, <1>8 DEF Next

(* A fault that has not occurred after a step does not occur in it. *)
LEMMA Unspent ==
  ASSUME TypeOK, BudgetInv, [Next]_vars
  PROVE  /\ BudgetInv'
         /\ \A k \in Kinds : ~ Used(k)' => ~ Used(k) /\ ~ Spend(k)
<1>1. \A k \in Kinds : left[k] \in Nat /\ Budget[k] \in Nat
  BY DEF TypeOK
<1>2. CASE UNCHANGED left
  BY <1>1, <1>2 DEF BudgetInv, Used, Spend, TypeOK
<1>3. ASSUME NEW k \in Kinds, Spend(k)
      PROVE  /\ BudgetInv'
             /\ \A i \in Kinds : ~ Used(i)' => ~ Used(i) /\ ~ Spend(i)
  <2>1. \A i \in Kinds : left'[i] = IF i = k THEN left[i] - 1 ELSE left[i]
    BY <1>3 DEF Spend, TypeOK
  <2>2. left'[k] < Budget[k]
    BY <1>1, <2>1 DEF BudgetInv
  <2>3. BudgetInv'
    BY <1>1, <2>1 DEF BudgetInv
  <2>4. ASSUME NEW i \in Kinds, ~ Used(i)'
        PROVE  ~ Used(i) /\ ~ Spend(i)
    <3>1. i # k
      BY <2>2, <2>4 DEF Used
    <3>2. ~ Used(i)
      BY <2>1, <2>4, <3>1 DEF Used
    <3>3. left'[i] = left[i]
      BY <2>1, <3>1
    <3>4. ~ Spend(i)
      BY <1>1, <3>3 DEF Spend, TypeOK
    <3> QED BY <3>2, <3>4
  <2> QED BY <2>3, <2>4
<1> QED BY <1>2, <1>3, OneFaultAtMost

(* While no heartbeat has lapsed, none lapses. *)
LEMMA NoLapse ==
  ASSUME TypeOK, BudgetInv, [Next]_vars, ~ Lapsed'
  PROVE  ~ Lapsed /\ ~ Spend("stall") /\ ~ Spend("start")
  BY Unspent DEF Lapsed, Kinds

-----------------------------------------------------------------------------
(* Janitors and living workers. *)

(* No command of a job's processing touches the life of a process, and no  *)
(* scheduler, request or enqueue call does (worker.ts processOne).         *)
LEMMA SlotLeavesLife ==
  ASSUME NEW s \in Slots, SlotStep(s) \/ CommandFails(s)
  PROVE  UNCHANGED <<phase, loop, heartbeat, registry>>
<1> USE DEF lifeVars, fleetVars, storeVars
<1>1. CASE Load(s)           BY <1>1 DEF Load
<1>2. CASE Allowed(s)        BY <1>2 DEF Allowed
<1>3. CASE Denied(s)         BY <1>3 DEF Denied
<1>4. CASE PushBack(s)       BY <1>4 DEF PushBack
<1>5. CASE Sleep(s)          BY <1>5 DEF Sleep
<1>6. CASE PgActive(s)       BY <1>6 DEF PgActive
<1>7. CASE SetActive(s)      BY <1>7 DEF SetActive
<1>8. CASE HandlerReturns(s) BY <1>8 DEF HandlerReturns
<1>9. CASE HandlerFails(s)   BY <1>9 DEF HandlerFails
<1>10. CASE PgCompleted(s)   BY <1>10 DEF PgCompleted
<1>11. CASE SetCompleted(s)  BY <1>11 DEF SetCompleted
<1>12. CASE AckCompleted(s)  BY <1>12 DEF AckCompleted
<1>13. CASE Reread(s)        BY <1>13 DEF Reread
<1>14. CASE FailLoad(s)      BY <1>14 DEF FailLoad
<1>15. CASE PgDlq(s)         BY <1>15 DEF PgDlq
<1>16. CASE SetDlq(s)        BY <1>16 DEF SetDlq
<1>17. CASE PushDlq(s)       BY <1>17 DEF PushDlq
<1>18. CASE AckDlq(s)        BY <1>18 DEF AckDlq
<1>19. CASE PgDelayed(s)     BY <1>19 DEF PgDelayed
<1>20. CASE SetDelayed(s)    BY <1>20 DEF SetDelayed
<1>21. CASE ZAddDelayed(s)   BY <1>21 DEF ZAddDelayed
<1>22. CASE AckDelayed(s)    BY <1>22 DEF AckDelayed
<1>23. CASE CommandFails(s)  BY <1>23 DEF CommandFails
<1> QED
  BY <1>1, <1>2, <1>3, <1>4, <1>5, <1>6, <1>7, <1>8, <1>9, <1>10, <1>11, <1>12, <1>13, <1>14, <1>15, <1>16, <1>17, <1>18, <1>19, <1>20, <1>21, <1>22, <1>23
  DEF SlotStep

LEMMA OthersLeaveLife ==
  ASSUME ProducerNext \/ SchedulerNext \/ DlqApiNext \/ ApiCrash
  PROVE  UNCHANGED <<phase, loop, heartbeat, registry, jan>>
<1> USE DEF workerVars, lifeVars, storeVars, fleetVars
<1>1. CASE ProducerNext
  <2>1. PICK j \in Jobs : InsertRow(j) \/ PushFirst(j) \/ EnqueueFails(j)
    BY <1>1 DEF ProducerNext
  <2>2. UNCHANGED fleetVars
    BY <2>1 DEF InsertRow, PushFirst, InsertPendingJob, InsertDelayedJob, EnqueueNow,
                EnqueueLater, EnqueueFails
  <2> QED BY <1>1, <2>2 DEF ProducerNext, ProducerFrame
<1>2. CASE SchedulerNext
  <2>1. PICK p \in Procs : SchedulerStep(p) /\ SchedulerFrame
    BY <1>2 DEF SchedulerNext
  <2>2. UNCHANGED fleetVars
    BY <2>1 DEF SchedulerStep, FindDue, Claim, ClaimMissed, PushDue, MarkPending
  <2> QED BY <2>1, <2>2 DEF SchedulerFrame
<1>3. CASE DlqApiNext
  <2>1. PICK r \in Requests :
          \/ \E j \in Jobs : RetryJob(r, j) \/ RequeueAll(r, j) \/ RequeueIds(r, j)
          \/ RequestStep(r) \/ RequestFails(r)
    BY <1>3 DEF DlqApiNext
  <2>2. UNCHANGED fleetVars
    BY <2>1 DEF RetryJob, RequeueAll, RequeueIds, Requeue, RequestStep, ResetRow, ResetHash,
                DropFromDlq, PushBackToQueue, RequestFails
  <2> QED BY <1>3, <2>2 DEF DlqApiNext
<1>4. CASE ApiCrash
  BY <1>4 DEF ApiCrash
<1> QED BY <1>1, <1>2, <1>3, <1>4

(* A loop that ends stays so, and a process withdraws its heartbeat only   *)
(* after that (worker.ts stop).                                            *)
LEMMA LifeKeepsFleet ==
  ASSUME TypeOK, FleetInv, NEW p \in Procs, LifeStep(p), UNCHANGED jan
  PROVE  FleetInv'
<1> USE DEF TypeOK, StoreTypeOK, WorkerTypeOK, FleetInv, Pulling, JanitorSparesTheLiving,
            Phases, storeVars, fleetVars
<1>1. CASE Register(p)        BY <1>1 DEF Register
<1>2. CASE FirstBeat(p)       BY <1>2 DEF FirstBeat
<1>3. CASE Describe(p)        BY <1>3 DEF Describe
<1>4. CASE MarkDraining(p)    BY <1>4 DEF MarkDraining
<1>5. CASE Drained(p)         BY <1>5 DEF Drained
<1>6. CASE JoinLoop(p)        BY <1>6 DEF JoinLoop
<1>7. CASE Deregister(p)      BY <1>7 DEF Deregister
<1>8. CASE DelHeartbeat(p)    BY <1>8 DEF DelHeartbeat
<1>9. CASE DelMeta(p)         BY <1>9 DEF DelMeta
<1>10. CASE BeatMeta(p)       BY <1>10 DEF BeatMeta
<1> QED BY <1>1, <1>2, <1>3, <1>4, <1>5, <1>6, <1>7, <1>8, <1>9, <1>10 DEF LifeStep

(* A pull, or its failure, begins and ends in a loop that is running.      *)
LEMMA LoopKeepsFleet ==
  ASSUME TypeOK, FleetInv, NEW p \in Procs,
         LoopStep(p) \/ PullError(p) \/ \E j \in Jobs : PullReplyLost(p, j),
         UNCHANGED jan
  PROVE  FleetInv'
<1>1. loop[p] \in {"scan", "blocked", "full", "pause"} /\ UNCHANGED <<phase, heartbeat>>
  BY DEF LoopStep, ScanPull, BlockedPull, Pull, ScanEmpty, BlockedTimeout, Resume,
         PullError, PullReplyLost, storeVars, fleetVars
<1>2. PICK l \in LoopPC : loop' = [loop EXCEPT ![p] = l] /\ l # "off"
  <2>1. ASSUME NEW s \in Slots, NEW j \in Jobs, Pull(p, s, j)
        PROVE  loop' = [loop EXCEPT ![p] = LoopNext(p, Busy(p) \cup {s})]
    BY <2>1 DEF Pull
  <2>2. ASSUME NEW B PROVE LoopNext(p, B) \in LoopPC \ {"off"}
    BY DEF LoopNext, LoopPC
  <2> QED BY <2>1, <2>2 DEF LoopStep, ScanPull, BlockedPull, ScanEmpty, BlockedTimeout,
                            Resume, PullError, PullReplyLost, LoopPC
<1>3. \A q \in Procs : q # p => loop'[q] = loop[q]
  BY <1>2 DEF TypeOK, WorkerTypeOK
<1>4. p \in Pulling /\ loop'[p] # "off"
  BY <1>1, <1>2 DEF Pulling, TypeOK, WorkerTypeOK
<1>5. Pulling' \subseteq Pulling
  BY <1>3, <1>4 DEF Pulling
<1>6. \A q \in Procs : phase[q] = "off" => q # p
  BY <1>1 DEF FleetInv
<1>7. \A q \in Procs : phase[q] \in {"deregister", "delBeat", "delMeta", "quit"} => q # p
  BY <1>1 DEF FleetInv
<1>8. JanitorSparesTheLiving'
  BY <1>1, <1>3 DEF FleetInv, JanitorSparesTheLiving
<1> QED BY <1>1, <1>3, <1>5, <1>6, <1>7, <1>8 DEF FleetInv

(* The other faults of a worker do not end its heartbeat.                  *)
LEMMA FaultKeepsFleet ==
  ASSUME TypeOK, FleetInv, NEW p \in Procs, BeatSet(p) \/ DrainTimeout(p) \/ Stop(p),
         UNCHANGED jan
  PROVE  FleetInv'
<1> USE DEF TypeOK, StoreTypeOK, WorkerTypeOK, FleetInv, Pulling, JanitorSparesTheLiving,
            Phases, storeVars, fleetVars
<1>1. CASE BeatSet(p)        BY <1>1 DEF BeatSet
<1>2. CASE DrainTimeout(p)   BY <1>2 DEF DrainTimeout
<1>3. CASE Stop(p)           BY <1>3 DEF Stop
<1> QED BY <1>1, <1>2, <1>3

(* A janitor works on the worker it found without a heartbeat, or on none. *)
LEMMA JanitorTargets ==
  ASSUME TypeOK, NEW p \in Procs, JanitorStep(p) \/ JanitorFails(p)
  PROVE  /\ UNCHANGED heartbeat
         /\ \A q \in Procs :
              \/ jan'[q].target = jan[q].target
              \/ jan'[q].target = None
              \/ jan'[q].target \in Procs \ heartbeat
<1> DEFINE Found(x) == x.target \in {jan[p].target, None} \cup (Procs \ heartbeat)
<1>0. JanIdle.target = None /\ \A scan : ScanWith(scan).target = None
  BY DEF ScanWith, JanIdle
<1>1. UNCHANGED heartbeat /\ \E x : jan' = [jan EXCEPT ![p] = x] /\ Found(x)
  <2> USE <1>0 DEF storeVars, fleetVars
  <2>1. CASE JanTick(p)        BY <2>1 DEF JanTick
  <2>2. ASSUME NEW w \in Procs, WorkerAlive(p, w) \/ WorkerDead(p, w)
        PROVE  UNCHANGED heartbeat /\ \E x : jan' = [jan EXCEPT ![p] = x] /\ Found(x)
    <3>1. CASE WorkerAlive(p, w)  BY <3>1 DEF WorkerAlive
    <3>2. CASE WorkerDead(p, w)
      <4> DEFINE x == [pc |-> "list", scan |-> jan[p].scan \ {w}, target |-> w,
                       todo |-> NoTokens, job |-> None]
      <4>1. x.target = w
        OBVIOUS
      <4>2. UNCHANGED heartbeat /\ jan' = [jan EXCEPT ![p] = x] /\ w \notin heartbeat
        BY <3>2 DEF WorkerDead
      <4> HIDE DEF x
      <4> QED BY <4>1, <4>2
    <3> QED BY <2>2, <3>1, <3>2
  <2>k. ASSUME NEW l, NEW todo, NEW job,
               jan' = [jan EXCEPT ![p] = [pc |-> l, scan |-> @.scan, target |-> @.target,
                                          todo |-> todo, job |-> job]]
        PROVE  \E x : jan' = [jan EXCEPT ![p] = x] /\ Found(x)
    <3> DEFINE x == [pc |-> l, scan |-> jan[p].scan, target |-> jan[p].target,
                     todo |-> todo, job |-> job]
    <3>1. x.target = jan[p].target
      OBVIOUS
    <3>2. jan' = [jan EXCEPT ![p] = x]
      BY <2>k
    <3> HIDE DEF x
    <3> QED BY <3>1, <3>2
  <2>3. CASE ListOrphans(p)    BY <2>k, <2>3 DEF ListOrphans
  <2>4. CASE \E j \in Jobs : PushOrphan(p, j)  BY <2>k, <2>4 DEF PushOrphan
  <2>5. ASSUME NEW l, jan' = [jan EXCEPT ![p].pc = l]
        PROVE  \E x : jan' = [jan EXCEPT ![p] = x] /\ Found(x)
    <3>1. [jan[p] EXCEPT !.pc = l].target = jan[p].target
      BY DEF TypeOK, JanitorTypeOK
    <3> QED BY <2>5, <3>1
  <2>6. CASE ResetOrphan(p)    BY <2>5, <2>6 DEF ResetOrphan
  <2>7. CASE PgResetOrphan(p)  BY <2>k, <2>7 DEF PgResetOrphan
  <2>8. CASE DelProcessing(p)  BY <2>5, <2>8 DEF DelProcessing
  <2>9. CASE DeregisterDead(p) BY <2>5, <2>9 DEF DeregisterDead
  <2>10. CASE DelDeadMeta(p)   BY <2>10 DEF DelDeadMeta
  <2>11. CASE JanitorFails(p)  BY <2>11 DEF JanitorFails
  <2> QED
    BY <2>1, <2>2, <2>3, <2>4, <2>6, <2>7, <2>8, <2>9, <2>10, <2>11 DEF JanitorStep
<1>2. PICK x : jan' = [jan EXCEPT ![p] = x] /\ Found(x)
  BY <1>1
<1>3. \A q \in Procs : jan'[q] = IF q = p THEN x ELSE jan[q]
  <2>1. DOMAIN jan = Procs
    BY DEF TypeOK, JanitorTypeOK
  <2>2. jan' = [jan EXCEPT ![p] = x]
    BY <1>2
  <2> QED BY <2>1, <2>2
<1> QED BY <1>1, <1>2, <1>3

(* While no heartbeat lapses, FleetInv is kept.                            *)
LEMMA FleetKept ==
  ASSUME TypeOK, BudgetInv, FleetInv, [Next]_vars, ~ Lapsed'
  PROVE  FleetInv'
<1>0. ~ Spend("stall") /\ ~ Spend("start")
  BY NoLapse
<1>s. ASSUME UNCHANGED <<phase, loop, heartbeat, jan>>
      PROVE  FleetInv'
  BY <1>s DEF FleetInv, Pulling, JanitorSparesTheLiving
<1>1. CASE ProducerNext \/ SchedulerNext \/ DlqApiNext \/ ApiCrash
  BY <1>1, <1>s, OthersLeaveLife
<1>2. CASE WorkerNext
  <2>1. UNCHANGED jan
    BY <1>2 DEF WorkerNext, WorkerFrame
  <2> QED BY <1>2, <2>1, <1>s, LifeKeepsFleet, LoopKeepsFleet, SlotLeavesLife DEF WorkerNext
<1>3. CASE WorkerFault
  <2>1. UNCHANGED jan
    BY <1>3 DEF WorkerFault
  <2>2. ASSUME NEW p \in Procs,
               \/ PullError(p) \/ \E j \in Jobs : PullReplyLost(p, j)
               \/ BeatSet(p) \/ DrainTimeout(p) \/ Stop(p)
        PROVE  FleetInv'
    BY <2>1, <2>2, LoopKeepsFleet, FaultKeepsFleet
  <2>3. \/ \E p \in Procs :
             \/ PullError(p) \/ \E j \in Jobs : PullReplyLost(p, j)
             \/ BeatSet(p) \/ DrainTimeout(p) \/ Stop(p)
        \/ \E s \in Slots : CommandFails(s)
    BY <1>3, ZenonT(30) DEF WorkerFault
  <2> QED BY <2>1, <2>2, <2>3, <1>s, SlotLeavesLife
<1>4. CASE JanitorNext
  <2>1. PICK p \in Procs : JanitorStep(p) \/ JanitorFails(p)
    BY <1>4 DEF JanitorNext
  <2>2. UNCHANGED <<phase, loop, heartbeat>>
    BY <1>4, <2>1, JanitorTargets DEF JanitorNext, JanitorFrame, workerVars, lifeVars
  <2>3. JanitorSparesTheLiving'
    BY <2>1, <2>2, JanitorTargets DEF FleetInv, Pulling, JanitorSparesTheLiving
  <2> QED BY <2>2, <2>3 DEF FleetInv, Pulling
<1>5. ASSUME NEW p \in Procs, Crash(p) \/ Exit(p)
      PROVE  FleetInv'
  <2>1. /\ UNCHANGED heartbeat
        /\ \A q \in Procs :
             IF q = p THEN phase'[q] = "off" /\ loop'[q] = "off" /\ jan'[q].target = None
             ELSE phase'[q] = phase[q] /\ loop'[q] = loop[q] /\ jan'[q].target = jan[q].target
    BY <1>5 DEF Crash, Exit, Kill, TypeOK, WorkerTypeOK, JanitorTypeOK, JanIdle, storeVars,
                fleetVars
  <2> QED BY <2>1 DEF FleetInv, Pulling, JanitorSparesTheLiving
<1>6. ASSUME NEW p \in Procs, Launch(p)
      PROVE  FALSE
  BY <1>0, <1>6 DEF Launch
<1>7. ASSUME NEW p \in Procs, Expire(p)
      PROVE  FleetInv'
  <2>1. phase[p] \in {"off", "register", "beat", "quit"} /\ UNCHANGED <<phase, loop, jan>>
    BY <1>0, <1>7 DEF Expire, workerVars, lifeVars
  <2>2. p \notin Pulling
    BY <2>1 DEF FleetInv, Pulling
  <2>3. heartbeat' = heartbeat \ {p}
    BY <1>7 DEF Expire
  <2> QED BY <2>1, <2>2, <2>3 DEF FleetInv, Pulling, JanitorSparesTheLiving
<1>8. CASE UNCHANGED vars
  BY <1>8, <1>s DEF vars, storeVars, fleetVars, workerVars, lifeVars
<1> QED BY <1>1, <1>2, <1>3, <1>4, <1>5, <1>6, <1>7, <1>8 DEF Next, ProcessNext

LEMMA InitFleet == Init => BudgetInv /\ FleetInv
  BY DEF Init, StoreInit, WorkerInit, JanitorInit, JanIdle, BudgetInv, FleetInv, Pulling,
         JanitorSparesTheLiving

(* As long as no worker stalls or is started again, a janitor only cleans  *)
(* up after workers that cannot pull any more (janitor.ts tick, worker.ts  *)
(* stop): whatever crashes, stops, times out or fails.                     *)
THEOREM JanitorsSpareTheLiving == Spec => [](~ Lapsed => JanitorSparesTheLiving)
<1> DEFINE FInv == BudgetInv /\ (~ Lapsed => FleetInv)
<1>1. Init => FInv
  BY InitFleet
<1>2. TypeOK /\ FInv /\ [Next]_vars => FInv'
  BY Unspent, NoLapse, FleetKept
<1>3. FInv => (~ Lapsed => JanitorSparesTheLiving)
  BY DEF FleetInv
<1> QED BY <1>1, <1>2, <1>3, TypeCorrect, PTL DEF Spec

-----------------------------------------------------------------------------
(* What the steps of a slot do to tokens. *)

(* List commands, one id at a time (Redis LPUSH and LREM).                 *)
LEMMA ListCommands ==
  ASSUME NEW b \in Bag, NEW i \in Jobs, NEW j \in Jobs
  PROVE  /\ LPush(b, i)[j] = IF j = i THEN b[j] + 1 ELSE b[j]
         /\ LRem(b, i)[j] = IF j = i /\ b[j] > 0 THEN b[j] - 1 ELSE b[j]
         /\ NoTokens[j] = 0
         /\ b[j] \in Nat
  BY DEF Bag, LPush, LRem, NoTokens

(* An ACK takes one token of the slot's job from its process's list.       *)
LEMMA AckTakesOne ==
  ASSUME StoreTypeOK, NEW s \in Slots, slot[s].job \in Jobs, Ack(s)
  PROVE  \A p \in Procs, j \in Jobs :
           processing'[p][j] =
             IF p = Owner[s] /\ j = slot[s].job /\ processing[p][j] > 0
             THEN processing[p][j] - 1 ELSE processing[p][j]
<1> TAKE p \in Procs, j \in Jobs
<1>1. processing[p] \in Bag /\ Owner[s] \in Procs
  BY DEF StoreTypeOK
<1>2. processing'[p] = IF p = Owner[s] THEN LRem(processing[p], slot[s].job) ELSE processing[p]
  BY <1>1 DEF Ack, StoreTypeOK
<1> QED BY <1>1, <1>2, ListCommands

(* A new pc changes that of its slot only.                                 *)
LEMMA GotoMovesOne ==
  ASSUME WorkerTypeOK, NEW s \in Slots, NEW l, slot' = [slot EXCEPT ![s].pc = l]
  PROVE  /\ \A t \in Slots \ {s} : slot'[t] = slot[t]
         /\ slot'[s].pc = l /\ slot'[s].job = slot[s].job /\ slot'[s].seen = slot[s].seen
  BY DEF WorkerTypeOK

LEMMA ReleaseFreesOne ==
  ASSUME WorkerTypeOK, NEW s \in Slots, Release(s)
  PROVE  /\ \A t \in Slots \ {s} : slot'[t] = slot[t]
         /\ slot'[s].pc = "free" /\ slot'[s].job = None
         /\ UNCHANGED done
  BY DEF WorkerTypeOK, Release, FreeSlot

(* Where a slot waits for its ACK, with its job stored elsewhere.          *)
AckPC == {"ackDelayed", "ackDlq"}

(* A slot goes on with its job, stores it, acknowledges it, or lets go of  *)
(* it without an ACK.                                                      *)
Works(s) ==
  /\ UNCHANGED processing
  /\ slot[s].pc \notin {"free", "sleep"} \cup AckPC
  /\ slot'[s].pc \notin {"free", "sleep"} \cup AckPC
  /\ slot'[s].job = slot[s].job

Stores(s) ==
  /\ UNCHANGED processing
  /\ slot[s].pc \notin {"free", "sleep"} \cup AckPC
  /\ slot'[s].pc \in AckPC /\ slot'[s].job = slot[s].job
  /\ \E j \in Jobs : j = slot[s].job /\ Waiting(j)'

Acks(s) ==
  /\ Ack(s)
  /\ slot[s].pc \notin {"free", "sleep"}
  /\ slot'[s].pc \notin AckPC
  /\ \/ slot'[s].pc \in {"free", "sleep"}
     \/ slot[s].job \in done /\ slot'[s].job = slot[s].job
  /\ \/ slot[s].pc \in AckPC
     \/ slot[s].job \in done
     \/ \E j \in Jobs : j = slot[s].job /\ Waiting(j)'

LetsGo(s) ==
  /\ UNCHANGED processing
  /\ slot[s].pc # "free" /\ slot'[s].pc = "free"

(* None of the lists a job waits in loses one, nor does the record of      *)
(* executed jobs or of names.                                              *)
ListsGrow ==
  /\ \A j \in Jobs : queue[j] <= queue'[j] /\ dlq[j] <= dlq'[j]
  /\ delayed \subseteq delayed'
  /\ done \subseteq done'
  /\ \A j \in Jobs : hash'[j].named = hash[j].named

SlotEffect(s) ==
  /\ \A t \in Slots \ {s} : slot'[t] = slot[t]
  /\ Works(s) \/ Stores(s) \/ Acks(s) \/ LetsGo(s)
  /\ ListsGrow

(* A list that is not written, and one that is pushed to, grow.            *)
LEMMA PushGrows ==
  ASSUME NEW b \in Bag, NEW i \in Jobs
  PROVE  /\ \A j \in Jobs : b[j] <= b[j]
         /\ \A j \in Jobs : b[j] <= LPush(b, i)[j]
         /\ LPush(b, i)[i] > 0
  BY ListCommands

(* Status writes keep the name (HSET of status).                           *)
LEMMA StatusKeepsNames ==
  ASSUME StoreTypeOK, NEW i \in Jobs, NEW st, HSetStatus(i, st)
  PROVE  \A j \in Jobs : hash'[j].named = hash[j].named /\ hash'[j].attempts = hash[j].attempts
  BY DEF StoreTypeOK, HSetStatus

(* Every step of a slot is one of the four (processOne, complete,          *)
(* handleFailure).                                                         *)
LEMMA SlotEffects ==
  ASSUME TypeOK, ActorInv, NEW s \in Slots, SlotStep(s) \/ CommandFails(s), UNCHANGED <<sched, req>>
  PROVE  SlotEffect(s)
<1> DEFINE i == slot[s].job
<1>a. /\ StoreTypeOK /\ WorkerTypeOK
      /\ slot[s].pc # "free" => i \in Jobs
      /\ queue \in Bag /\ dlq \in Bag
      /\ slot[s].pc \in CompletePC => i \in done
  BY DEF TypeOK, StoreTypeOK, WorkerTypeOK, ActorInv
<1> USE <1>a
<1>b. ASSUME UNCHANGED <<queue, dlq, delayed, hash, done>>
      PROVE  ListsGrow
  BY <1>b, PushGrows DEF ListsGrow
<1>g. ASSUME NEW l \in SlotPC \ ({"free", "sleep"} \cup AckPC),
             slot[s].pc \notin {"free", "sleep"} \cup AckPC,
             slot' = [slot EXCEPT ![s].pc = l],
             UNCHANGED <<queue, dlq, delayed, processing>>, done \subseteq done',
             \A j \in Jobs : hash'[j].named = hash[j].named
      PROVE  SlotEffect(s)
  <2>1. ListsGrow
    BY <1>g, PushGrows DEF ListsGrow
  <2>2. Works(s) /\ \A t \in Slots \ {s} : slot'[t] = slot[t]
    BY <1>g, GotoMovesOne DEF Works
  <2> QED BY <2>1, <2>2 DEF SlotEffect
<1>r. ASSUME slot[s].pc # "free", Release(s), UNCHANGED <<queue, dlq, delayed, hash, processing>>
      PROVE  SlotEffect(s)
  BY <1>b, <1>r, ReleaseFreesOne DEF SlotEffect, LetsGo
<1> USE DEF storeVars, recordVars, listVars, At, Goto, SlotPC, CompletePC, FailurePC, AckPC
<1>1. CASE Load(s)
  <2>1. CASE hash[i].named
    <3>1. /\ \A t \in Slots \ {s} : slot'[t] = slot[t]
          /\ slot'[s].pc \in {"limit", "pgActive"} /\ slot'[s].job = i
      BY <1>1, <2>1 DEF Load, WorkerTypeOK
    <3>2. Works(s) /\ UNCHANGED <<queue, dlq, delayed, hash, done>>
      BY <1>1, <2>1, <3>1 DEF Load, Works
    <3> QED BY <1>b, <3>1, <3>2 DEF SlotEffect
  <2>2. CASE ~ hash[i].named
    BY <1>1, <2>2, <1>r DEF Load
  <2> QED BY <2>1, <2>2
<1>2. CASE Allowed(s)      BY <1>2, <1>g DEF Allowed
<1>3. CASE Denied(s)       BY <1>3, <1>g DEF Denied
<1>4. CASE PushBack(s)
  <2>1. /\ \A t \in Slots \ {s} : slot'[t] = slot[t]
        /\ slot'[s].pc = "sleep" /\ slot[s].pc = "pushBack"
    BY <1>4, GotoMovesOne DEF PushBack
  <2>2. Acks(s)
    BY <1>4, <2>1, PushGrows DEF PushBack, Acks, Waiting
  <2>3. ListsGrow
    BY <1>4, PushGrows DEF PushBack, ListsGrow
  <2> QED BY <2>1, <2>2, <2>3 DEF SlotEffect
<1>5. CASE Sleep(s)        BY <1>5, <1>r DEF Sleep
<1>6. CASE PgActive(s)     BY <1>6, <1>g DEF PgActive
<1>7. CASE SetActive(s)
  <2>1. \A j \in Jobs : hash'[j].named = hash[j].named
    BY <1>7 DEF SetActive, StoreTypeOK
  <2> QED BY <1>7, <2>1, <1>g DEF SetActive
<1>8. CASE HandlerReturns(s) BY <1>8, <1>g DEF HandlerReturns
<1>9. CASE HandlerFails(s) BY <1>9, <1>g DEF HandlerFails
<1>10. CASE PgCompleted(s) BY <1>10, <1>g DEF PgCompleted
<1>11. CASE SetCompleted(s)
  BY <1>11, <1>g, StatusKeepsNames DEF SetCompleted
<1>12. CASE AckCompleted(s)
  <2>1. /\ \A t \in Slots \ {s} : slot'[t] = slot[t]
        /\ slot'[s].pc = "reread" /\ slot[s].pc = "ackCompleted" /\ slot'[s].job = i
        /\ i \in done
    BY <1>12, GotoMovesOne DEF AckCompleted
  <2>2. Acks(s)
    BY <1>12, <2>1 DEF AckCompleted, Acks
  <2> QED BY <1>12, <1>b, <2>1, <2>2 DEF AckCompleted, SlotEffect
<1>13. CASE Reread(s)      BY <1>13, <1>r DEF Reread
<1>14. CASE FailLoad(s)    BY <1>14, <1>g DEF FailLoad
<1>15. CASE PgDlq(s)       BY <1>15, <1>g DEF PgDlq
<1>16. CASE SetDlq(s)      BY <1>16, <1>g, StatusKeepsNames DEF SetDlq
<1>17. CASE PushDlq(s)
  <2>1. /\ \A t \in Slots \ {s} : slot'[t] = slot[t]
        /\ slot'[s].pc = "ackDlq" /\ slot[s].pc = "pushDlq" /\ slot'[s].job = i
    BY <1>17, GotoMovesOne DEF PushDlq
  <2>2. Stores(s)
    BY <1>17, <2>1, PushGrows DEF PushDlq, Stores, Waiting
  <2>3. ListsGrow
    BY <1>17, PushGrows DEF PushDlq, ListsGrow
  <2> QED BY <2>1, <2>2, <2>3 DEF SlotEffect
<1>18. CASE AckDlq(s)
  <2>1. /\ \A t \in Slots \ {s} : slot'[t] = slot[t]
        /\ slot'[s].pc = "free" /\ slot[s].pc = "ackDlq" /\ UNCHANGED done
    BY <1>18, ReleaseFreesOne DEF AckDlq
  <2>2. Acks(s)
    BY <1>18, <2>1 DEF AckDlq, Acks
  <2> QED BY <1>18, <1>b, <2>1, <2>2 DEF AckDlq, SlotEffect
<1>19. CASE PgDelayed(s)   BY <1>19, <1>g DEF PgDelayed
<1>20. CASE SetDelayed(s)  BY <1>20, <1>g, StatusKeepsNames DEF SetDelayed
<1>21. CASE ZAddDelayed(s)
  <2>1. /\ \A t \in Slots \ {s} : slot'[t] = slot[t]
        /\ slot'[s].pc = "ackDelayed" /\ slot[s].pc = "zadd" /\ slot'[s].job = i
    BY <1>21, GotoMovesOne DEF ZAddDelayed
  <2>2. Stores(s)
    BY <1>21, <2>1 DEF ZAddDelayed, Stores, Waiting
  <2>3. ListsGrow
    BY <1>21, PushGrows DEF ZAddDelayed, ListsGrow
  <2> QED BY <2>1, <2>2, <2>3 DEF SlotEffect
<1>22. CASE AckDelayed(s)
  <2>1. /\ \A t \in Slots \ {s} : slot'[t] = slot[t]
        /\ slot'[s].pc = "free" /\ slot[s].pc = "ackDelayed" /\ UNCHANGED done
    BY <1>22, ReleaseFreesOne DEF AckDelayed
  <2>2. Acks(s)
    BY <1>22, <2>1 DEF AckDelayed, Acks
  <2> QED BY <1>22, <1>b, <2>1, <2>2 DEF AckDelayed, SlotEffect
<1>23. CASE CommandFails(s)
  BY <1>23, <1>g, <1>r DEF CommandFails
<1> QED
  BY <1>1, <1>2, <1>3, <1>4, <1>5, <1>6, <1>7, <1>8, <1>9, <1>10, <1>11, <1>12, <1>13, <1>14, <1>15, <1>16, <1>17, <1>18, <1>19, <1>20, <1>21, <1>22, <1>23
  DEF SlotStep

-----------------------------------------------------------------------------
(* Counting tokens and slots. *)

(* Sets of slots are finite.                                               *)
LEMMA SlotCounts ==
  ASSUME NEW A \in SUBSET Slots, NEW s
  PROVE  /\ Cardinality(A) \in Nat
         /\ Cardinality(A \cup {s}) = IF s \in A THEN Cardinality(A) ELSE Cardinality(A) + 1
         /\ Cardinality(A \ {s}) = IF s \in A THEN Cardinality(A) - 1 ELSE Cardinality(A)
         /\ \A B \in SUBSET A : /\ Cardinality(B) \in Nat
                                /\ Cardinality(B) <= Cardinality(A)
                                /\ Cardinality(B) = Cardinality(A) => B = A
         /\ s \in A => Cardinality(A) > 0
<1>1. IsFiniteSet(A)
  BY FS_Subset
<1>2. Cardinality(A) \in Nat /\ IsFiniteSet(A \ {s}) /\ Cardinality(A \ {s}) \in Nat
  BY <1>1, FS_CardinalityType, FS_RemoveElement
<1>3. \A B \in SUBSET A : /\ Cardinality(B) \in Nat
                          /\ Cardinality(B) <= Cardinality(A)
                          /\ Cardinality(B) = Cardinality(A) => B = A
  BY <1>1, FS_Subset, FS_CardinalityType
<1>4. /\ Cardinality(A \cup {s}) = IF s \in A THEN Cardinality(A) ELSE Cardinality(A) + 1
      /\ Cardinality(A \ {s}) = IF s \in A THEN Cardinality(A) - 1 ELSE Cardinality(A)
  BY <1>1, FS_AddElement, FS_RemoveElement
<1> QED BY <1>2, <1>3, <1>4

(* The slots before an ACK are among those that have not done it.          *)
LEMMA AckingSlots ==
  ASSUME NEW p, NEW j
  PROVE  /\ Unacked(p, j) \in SUBSET Slots /\ Acking(p, j) \in SUBSET Unacked(p, j)
         /\ Cardinality(Unacked(p, j)) \in Nat /\ Cardinality(Acking(p, j)) \in Nat
         /\ Cardinality(Acking(p, j)) <= Cardinality(Unacked(p, j))
<1>1. Unacked(p, j) \in SUBSET Slots /\ Acking(p, j) \in SUBSET Unacked(p, j)
  BY DEF Unacked, Acking
<1> QED BY <1>1, SlotCounts

(* What a step of slot s does to the tokens of a job and to the slots that *)
(* have to remove one: nothing; or it has stored the job; or it removes    *)
(* its token, after the job was stored; or it lets go of it.               *)
LEMMA SlotSets ==
  ASSUME TypeOK, NEW s \in Slots, SlotEffect(s), NEW p \in Procs, NEW j \in Jobs \ done
  PROVE  \/ /\ processing'[p][j] = processing[p][j]
            /\ Unacked(p, j)' = Unacked(p, j) /\ Acking(p, j)' = Acking(p, j)
         \/ /\ processing'[p][j] = processing[p][j]
            /\ Unacked(p, j)' = Unacked(p, j) /\ Waiting(j)'
         \/ /\ processing'[p][j] = IF processing[p][j] > 0 THEN processing[p][j] - 1 ELSE 0
            /\ s \in Unacked(p, j)
            /\ Unacked(p, j)' = Unacked(p, j) \ {s} /\ Acking(p, j)' = Acking(p, j) \ {s}
            /\ s \in Acking(p, j) \/ Waiting(j)'
         \/ /\ LetsGo(s) /\ p = Owner[s] /\ j = slot[s].job
            /\ processing'[p][j] = processing[p][j]
            /\ Unacked(p, j)' = Unacked(p, j) \ {s} /\ Acking(p, j)' = Acking(p, j) \ {s}
<1> USE DEF Unacked, Acking
<1>1. \A t \in Slots \ {s} : slot'[t] = slot[t]
  BY DEF SlotEffect
<1>2. slot[s].pc # "free" /\ (slot[s].pc # "free" => slot[s].job \in Jobs) /\ StoreTypeOK
  BY DEF SlotEffect, Works, Stores, Acks, LetsGo, TypeOK, WorkerTypeOK
<1>3. processing[p][j] \in Nat
  BY <1>2 DEF StoreTypeOK, Bag
<1>4. CASE ~ (p = Owner[s] /\ j = slot[s].job)
  <2>1. processing'[p][j] = processing[p][j]
    BY <1>2, <1>4, AckTakesOne DEF SlotEffect, Works, Stores, Acks, LetsGo
  <2>2. ~ (p = Owner[s] /\ slot'[s].job = j /\ slot'[s].pc \notin {"free", "sleep"})
    BY <1>4 DEF SlotEffect, Works, Stores, Acks, LetsGo
  <2>3. Unacked(p, j)' = Unacked(p, j) /\ Acking(p, j)' = Acking(p, j)
    BY <1>1, <1>4, <2>2
  <2> QED BY <2>1, <2>3
<1>5. CASE p = Owner[s] /\ j = slot[s].job
  <2>1. CASE Works(s)
    BY <1>1, <1>5, <2>1 DEF Works, AckPC
  <2>2. CASE Stores(s)
    BY <1>1, <1>5, <2>2 DEF Stores, AckPC
  <2>3. CASE Acks(s)
    <3>1. slot'[s].pc \in {"free", "sleep"} /\ (slot[s].pc \in AckPC \/ Waiting(j)')
      BY <1>5, <2>3 DEF Acks
    <3>2. processing'[p][j] = IF processing[p][j] > 0 THEN processing[p][j] - 1 ELSE 0
      BY <1>2, <1>3, <1>5, <2>3, AckTakesOne DEF Acks
    <3> QED BY <1>1, <1>5, <2>3, <3>1, <3>2 DEF Acks, AckPC
  <2>4. CASE LetsGo(s)
    BY <1>1, <1>5, <2>4 DEF LetsGo
  <2> QED BY <2>1, <2>2, <2>3, <2>4 DEF SlotEffect
<1> QED BY <1>4, <1>5

(* What waits still waits when the lists grow.                             *)
LEMMA WaitingGrows ==
  ASSUME TypeOK, TypeOK', NEW j \in Jobs, Waiting(j),
         queue[j] <= queue'[j], dlq[j] <= dlq'[j], delayed \subseteq delayed',
         UNCHANGED <<sched, req>>
  PROVE  Waiting(j)'
<1>1. queue[j] \in Nat /\ queue'[j] \in Nat /\ dlq[j] \in Nat /\ dlq'[j] \in Nat
  BY DEF TypeOK, StoreTypeOK, Bag
<1> QED BY <1>1 DEF Waiting, InHand, Promoting, Requeueing

(* A step of a slot keeps the lists of pulling processes, and the jobs     *)
(* that are held: it stores a job before it removes its token.             *)
LEMMA SlotKeepsCustody ==
  ASSUME TypeOK, TypeOK', NEW s \in Slots, SlotEffect(s), ListInv, HeldInv,
         UNCHANGED <<loop, sched, req, jan, dropped>>
  PROVE  ListInv' /\ HeldInv'
<1>0. ListsGrow
  BY DEF SlotEffect
<1>1. ListInv'
  <2> SUFFICES ASSUME NEW p \in Pulling, NEW j \in Jobs \ done'
               PROVE  Cardinality(Unacked(p, j)') <= processing'[p][j]
    BY DEF ListInv, Pulling
  <2>1. p \in Procs /\ j \in Jobs \ done /\ processing[p][j] \in Nat
    BY <1>0 DEF Pulling, ListsGrow, TypeOK, StoreTypeOK, Bag
  <2>2. Cardinality(Unacked(p, j)) <= processing[p][j]
    BY <2>1 DEF ListInv
  <2>3. /\ Cardinality(Unacked(p, j)) \in Nat
        /\ Cardinality(Unacked(p, j) \ {s}) =
             IF s \in Unacked(p, j) THEN Cardinality(Unacked(p, j)) - 1
             ELSE Cardinality(Unacked(p, j))
    BY AckingSlots, SlotCounts
  <2>4. \/ processing'[p][j] = processing[p][j] /\ Unacked(p, j)' = Unacked(p, j)
        \/ /\ processing'[p][j] = IF processing[p][j] > 0 THEN processing[p][j] - 1 ELSE 0
           /\ s \in Unacked(p, j) /\ Unacked(p, j)' = Unacked(p, j) \ {s}
        \/ processing'[p][j] = processing[p][j] /\ Unacked(p, j)' = Unacked(p, j) \ {s}
    BY <2>1, SlotSets
  <2>5. \/ /\ processing'[p][j] = processing[p][j]
           /\ Cardinality(Unacked(p, j)') \in
                {Cardinality(Unacked(p, j)), Cardinality(Unacked(p, j) \ {s})}
        \/ /\ processing'[p][j] = IF processing[p][j] > 0 THEN processing[p][j] - 1 ELSE 0
           /\ Cardinality(Unacked(p, j)') = Cardinality(Unacked(p, j)) - 1
    BY <2>3, <2>4
  <2> QED BY <2>1, <2>2, <2>3, <2>5
<1>2. ASSUME NEW j \in Jobs, Accepted(j)', j \notin done' \cup dropped'
      PROVE  Held(j)'
  <2>1. j \in Jobs \ done /\ Held(j)
    BY <1>0, <1>2 DEF ListsGrow, HeldInv, Accepted
  <2>2. CASE Waiting(j)
    BY <1>0, <2>2, WaitingGrows DEF ListsGrow, Held
  <2>3. ASSUME NEW p \in Procs, Safe(p, j), ~ Waiting(j)'
        PROVE  Safe(p, j)'
    <3>1. processing[p][j] \in Nat /\ processing'[p][j] \in Nat
      BY DEF TypeOK, StoreTypeOK, Bag
    <3>2. /\ Cardinality(Acking(p, j)) \in Nat
          /\ Cardinality(Acking(p, j) \ {s}) =
               IF s \in Acking(p, j) THEN Cardinality(Acking(p, j)) - 1
               ELSE Cardinality(Acking(p, j))
      <4>1. Acking(p, j) \in SUBSET Slots
        BY DEF Acking
      <4> QED BY <4>1, SlotCounts
    <3>3. \/ processing'[p][j] = processing[p][j] /\ Acking(p, j)' = Acking(p, j)
          \/ /\ processing'[p][j] = IF processing[p][j] > 0 THEN processing[p][j] - 1 ELSE 0
             /\ s \in Acking(p, j) /\ Acking(p, j)' = Acking(p, j) \ {s}
          \/ processing'[p][j] = processing[p][j] /\ Acking(p, j)' = Acking(p, j) \ {s}
      BY <2>1, <2>3, SlotSets
    <3>4. Cardinality(Acking(p, j)) < processing[p][j]
      BY <2>3 DEF Safe
    <3>5. \/ /\ processing'[p][j] = processing[p][j]
             /\ Cardinality(Acking(p, j)') \in
                  {Cardinality(Acking(p, j)), Cardinality(Acking(p, j) \ {s})}
          \/ /\ processing'[p][j] = IF processing[p][j] > 0 THEN processing[p][j] - 1 ELSE 0
             /\ Cardinality(Acking(p, j)') = Cardinality(Acking(p, j)) - 1
      BY <3>2, <3>3
    <3>6. Cardinality(Acking(p, j)') < processing'[p][j]
      BY <3>1, <3>2, <3>4, <3>5
    <3> QED BY <2>3, <3>6 DEF Safe
  <2> QED BY <2>1, <2>2, <2>3 DEF Held
<1> QED BY <1>1, <1>2 DEF HeldInv

-----------------------------------------------------------------------------
(* What the steps of the other actors do to tokens. *)

(* A step that moves no token of a processing list, and after which a job  *)
(* that waited still does or is recorded as dropped.                       *)
LEMMA CustodyStill ==
  ASSUME TypeOK, TypeOK', ListInv, HeldInv, UNCHANGED <<processing, slot>>,
         Pulling' \subseteq Pulling, done \subseteq done', dropped \subseteq dropped',
         \A j \in Jobs : Accepted(j)' => Accepted(j) \/ Waiting(j)',
         \A j \in Jobs : Waiting(j) => Waiting(j)' \/ j \in dropped',
         \A p \in Procs, j \in Jobs : Safe(p, j) => Safe(p, j)' \/ Waiting(j)'
  PROVE  ListInv' /\ HeldInv'
<1>1. \A p \in Procs, j \in Jobs : Unacked(p, j)' = Unacked(p, j)
  BY DEF Unacked
<1>2. ListInv'
  BY <1>1 DEF ListInv, Pulling
<1>3. HeldInv'
  BY DEF HeldInv, Held
<1> QED BY <1>2, <1>3

LEMMA SafeStill ==
  ASSUME UNCHANGED <<processing, slot, jan>>
  PROVE  \A p \in Procs, j \in Jobs : Safe(p, j)' = Safe(p, j)
  BY DEF Safe, Acking

(* Most steps leave everything that holds a job as it is. *)
LEMMA NothingMoves ==
  ASSUME TypeOK, TypeOK', ListInv, HeldInv, Pulling' \subseteq Pulling,
         UNCHANGED <<hash, listVars, slot, jan, sched, req, done, dropped>>
  PROVE  ListInv' /\ HeldInv'
<1>1. \A j \in Jobs : Waiting(j)' = Waiting(j) /\ Accepted(j)' = Accepted(j)
  BY DEF listVars, Waiting, InHand, Promoting, Requeueing, Accepted
<1> QED BY <1>1, CustodyStill, SafeStill DEF listVars

(* enqueue makes a job wait when it names it (producer.ts). *)
LEMMA ProducerKeepsWaiting ==
  ASSUME TypeOK, TypeOK', ProducerNext
  PROVE  /\ UNCHANGED <<processing, phase, loop, slot, done, sched, jan, req, dropped>>
         /\ \A i \in Jobs : Waiting(i) => Waiting(i)'
         /\ \A i \in Jobs : Accepted(i)' => Accepted(i) \/ Waiting(i)'
<1>1. PICK j \in Jobs : InsertRow(j) \/ PushFirst(j) \/ EnqueueFails(j)
  BY DEF ProducerNext
<1>2. UNCHANGED <<phase, loop, slot, done, sched, jan, req, dropped>>
  BY DEF ProducerNext, ProducerFrame, workerVars, lifeVars
<1>3. /\ UNCHANGED <<processing, dlq>>
      /\ \A i \in Jobs : queue[i] <= queue'[i]
      /\ delayed \subseteq delayed'
      /\ \A i \in Jobs : hash'[i].named => hash[i].named \/ queue'[i] > 0 \/ i \in delayed'
  <2> USE PushGrows DEF TypeOK, StoreTypeOK, listVars, recordVars, storeVars
  <2>1. CASE InsertRow(j)
    BY <2>1 DEF InsertRow, InsertPendingJob, InsertDelayedJob
  <2>2. CASE EnqueueNow(j)
    BY <2>2 DEF EnqueueNow, NewHash
  <2>3. CASE EnqueueLater(j)
    BY <2>3 DEF EnqueueLater, NewHash
  <2>4. CASE EnqueueFails(j)
    BY <2>4 DEF EnqueueFails
  <2> QED BY <1>1, <2>1, <2>2, <2>3, <2>4 DEF PushFirst
<1>4. \A i \in Jobs : dlq[i] <= dlq'[i]
  BY <1>3, PushGrows DEF TypeOK, StoreTypeOK
<1>5. \A i \in Jobs : Waiting(i) => Waiting(i)'
  BY <1>2, <1>3, <1>4, WaitingGrows
<1>6. \A i \in Jobs : Accepted(i)' => Accepted(i) \/ Waiting(i)'
  BY <1>3 DEF Accepted, Waiting
<1> QED BY <1>2, <1>3, <1>5, <1>6

LEMMA ProducerKeepsCustody ==
  ASSUME TypeOK, TypeOK', ListInv, HeldInv, ProducerNext
  PROVE  ListInv' /\ HeldInv'
<1>1. Pulling' \subseteq Pulling
  BY ProducerKeepsWaiting DEF Pulling
<1> QED BY <1>1, ProducerKeepsWaiting, CustodyStill, SafeStill

(* A scheduler has in hand what it takes out of the sorted set, until it   *)
(* has pushed it (scheduler.ts).                                           *)
LEMMA SchedulerKeepsWaiting ==
  ASSUME TypeOK, TypeOK', SchedulerNext
  PROVE  /\ UNCHANGED <<processing, phase, loop, slot, done, jan, req, dropped>>
         /\ \A i \in Jobs : Waiting(i) => Waiting(i)'
         /\ \A i \in Jobs : hash'[i].named = hash[i].named
<1>1. PICK p \in Procs : SchedulerStep(p) /\ SchedulerFrame
  BY DEF SchedulerNext
<1>2. UNCHANGED <<phase, loop, slot, done, jan, req, dropped>>
  BY <1>1 DEF SchedulerFrame, workerVars, lifeVars
<1>3. UNCHANGED <<processing, dlq>> /\ \A i \in Jobs : hash'[i].named = hash[i].named
  <2>1. CASE MarkPending(p)
    <3>1. sched[p].job \in Jobs
      BY <2>1 DEF MarkPending, TypeOK, SchedulerTypeOK
    <3> QED BY <2>1, <3>1, StatusKeepsNames DEF MarkPending, TypeOK, listVars
  <2> QED BY <1>1, <2>1 DEF SchedulerStep, FindDue, Claim, ClaimMissed, PushDue, storeVars,
                            listVars, recordVars
<1>4. \A i \in Jobs : Waiting(i) => Waiting(i)'
  <2> USE <1>2, <1>3 DEF Waiting, InHand, Promoting, Requeueing
  <2>t. /\ sched \in [Procs -> [pc : {"idle", "claim", "push", "mark"},
                                due : SUBSET Jobs, job : Jobs \cup {None}]]
        /\ queue \in Bag
    BY DEF TypeOK, SchedulerTypeOK, StoreTypeOK
  <2>u. \A q \in Procs \ {p} : sched'[q] = sched[q]
    BY <1>1, <2>t DEF SchedulerStep, FindDue, Claim, ClaimMissed, PushDue, MarkPending
  <2>1. ASSUME NEW due, FindDue(p, due)
        PROVE  \A i \in Jobs : Waiting(i) => Waiting(i)'
    BY <2>1, <2>u DEF FindDue, storeVars, listVars
  <2>2. ASSUME NEW j \in Jobs, Claim(p, j)
        PROVE  \A i \in Jobs : Waiting(i) => Waiting(i)'
    <3>1. sched'[p].pc = "push" /\ sched'[p].job = j /\ sched[p].pc = "claim"
      BY <2>2, <2>t DEF Claim
    <3>2. UNCHANGED queue /\ delayed' = delayed \ {j}
      BY <2>2 DEF Claim
    <3> QED BY <2>u, <3>1, <3>2
  <2>3. ASSUME NEW j \in Jobs, ClaimMissed(p, j)
        PROVE  \A i \in Jobs : Waiting(i) => Waiting(i)'
    BY <2>3, <2>u DEF ClaimMissed, storeVars, listVars
  <2>4. CASE PushDue(p)
    <3>1. sched[p].job \in Jobs
      BY <2>4 DEF PushDue, TypeOK, SchedulerTypeOK
    <3>a. queue' = LPush(queue, sched[p].job)
      BY <2>4 DEF PushDue
    <3>b. queue' \in Bag
      BY <2>t, <3>1, <3>a, CommandsTyped
    <3>c. \A i \in Jobs : queue[i] <= queue'[i]
      BY <2>t, <3>1, <3>a, PushGrows
    <3>2. \A i \in Jobs : queue[i] \in Nat /\ queue'[i] \in Nat /\ queue[i] <= queue'[i]
      BY <2>t, <3>b, <3>c DEF Bag
    <3>3. queue'[sched[p].job] > 0
      BY <2>4, <2>t, <3>1, PushGrows DEF PushDue
    <3>4. UNCHANGED delayed
      BY <2>4 DEF PushDue
    <3> QED BY <2>u, <3>2, <3>3, <3>4
  <2>5. CASE MarkPending(p)
    BY <2>5, <2>u DEF MarkPending, listVars
  <2> QED BY <1>1, <2>1, <2>2, <2>3, <2>4, <2>5 DEF SchedulerStep
<1> QED BY <1>2, <1>3, <1>4

LEMMA SchedulerKeepsCustody ==
  ASSUME TypeOK, TypeOK', ListInv, HeldInv, SchedulerNext
  PROVE  ListInv' /\ HeldInv'
<1>1. Pulling' \subseteq Pulling
  BY SchedulerKeepsWaiting DEF Pulling
<1> QED BY <1>1, SchedulerKeepsWaiting, CustodyStill, SafeStill DEF Accepted

(* A request that goes on with its next id has pushed the last one.        *)
LEMMA RequestMoves ==
  ASSUME TypeOK, NEW r \in Requests, NextId(r)
  PROVE  /\ \A x \in Requests \ {r} : req'[x] = req[x]
         /\ req'[r].pc # "push"
<1>1. DOMAIN req = Requests
  BY DEF TypeOK, DlqApiTypeOK
<1>2. CASE req[r].todo = NoTokens
  <2>1. req' = [req EXCEPT ![r] = ReqIdle] /\ ReqIdle.pc = "idle"
    BY <1>2 DEF NextId, ReqIdle
  <2> QED BY <1>1, <2>1
<1>3. CASE req[r].todo # NoTokens
  <2>1. PICK j \in Jobs : req' = [req EXCEPT ![r] = BulkWith(@.todo, j)]
    BY <1>3 DEF NextId
  <2>2. BulkWith(req[r].todo, j).pc = "pg"
    BY DEF BulkWith
  <2> QED BY <1>1, <2>1, <2>2
<1> QED BY <1>2, <1>3

(* A request has in hand what it takes out of the dead letters, until it   *)
(* has pushed it, or its failure is recorded in dropped (routes.ts).       *)
LEMMA DlqApiKeepsWaiting ==
  ASSUME TypeOK, TypeOK', DlqApiNext
  PROVE  /\ UNCHANGED <<processing, phase, loop, slot, done, sched, jan>>
         /\ dropped \subseteq dropped'
         /\ \A i \in Jobs : Waiting(i) => Waiting(i)' \/ i \in dropped'
         /\ \A i \in Jobs : hash'[i].named = hash[i].named
<1>1. UNCHANGED <<phase, loop, slot, done, sched, jan>>
  BY DEF DlqApiNext, workerVars, lifeVars
<1>2. PICK r \in Requests :
        \/ /\ \E j \in Jobs : RetryJob(r, j) \/ RequeueAll(r, j) \/ RequeueIds(r, j)
           /\ UNCHANGED dropped
        \/ RequestStep(r) /\ UNCHANGED dropped
        \/ RequestFails(r) /\ dropped' = dropped \cup Requeueing(r)
  BY DEF DlqApiNext
<1>t. /\ req \in [Requests -> [pc : RequestPC, bulk : BOOLEAN, todo : Bag, job : Jobs \cup {None}]]
      /\ queue \in Bag /\ dlq \in Bag /\ queue' \in Bag /\ dlq' \in Bag
      /\ \A x \in Requests : req[x].pc # "idle" => req[x].job \in Jobs
  BY DEF TypeOK, DlqApiTypeOK, StoreTypeOK
<1>3. UNCHANGED <<processing, delayed>> /\ \A i \in Jobs : hash'[i].named = hash[i].named
  <2>1. CASE ResetHash(r)
    <3>1. req[r].job \in Jobs
      BY <1>t, <2>1 DEF ResetHash
    <3> QED BY <2>1, <3>1 DEF ResetHash, listVars, TypeOK, StoreTypeOK
  <2> QED BY <1>2, <2>1 DEF RetryJob, RequeueAll, RequeueIds, Requeue, RequestStep, ResetRow,
                            DropFromDlq, PushBackToQueue, RequestFails, storeVars, listVars,
                            recordVars
<1>4. \A i \in Jobs : Waiting(i) => Waiting(i)' \/ i \in dropped'
  <2> USE <1>1, <1>3 DEF Waiting, InHand, Promoting, Requeueing
  <2>g. ASSUME NEW x, req' = [req EXCEPT ![r] = x], req[r].pc # "push"
        PROVE  \A i \in Jobs : (\E y \in Requests : i \in Requeueing(y)) => \E y \in Requests : i \in Requeueing(y)'
    BY <1>t, <2>g
  <2>1. ASSUME NEW j \in Jobs, RetryJob(r, j) \/ RequeueAll(r, j) \/ RequeueIds(r, j)
        PROVE  \A i \in Jobs : Waiting(i) => Waiting(i)'
    BY <2>1, <2>g DEF RetryJob, RequeueAll, RequeueIds, Requeue, storeVars, listVars
  <2>2. CASE ResetRow(r)
    BY <2>2, <2>g DEF ResetRow, listVars
  <2>3. CASE ResetHash(r)
    BY <2>3, <2>g DEF ResetHash, listVars
  <2>4. CASE DropFromDlq(r)
    <3>1. req[r].job \in Jobs /\ req'[r].pc = "push" /\ req'[r].job = req[r].job
      BY <1>t, <2>4 DEF DropFromDlq
    <3>2. \A i \in Jobs \ {req[r].job} : dlq'[i] = dlq[i]
      BY <1>t, <2>4, <3>1 DEF DropFromDlq, LRem, LRemAll, Bag
    <3>3. UNCHANGED queue /\ \A x \in Requests \ {r} : req'[x] = req[x]
      BY <2>4 DEF DropFromDlq
    <3> QED BY <2>4, <3>1, <3>2, <3>3 DEF DropFromDlq
  <2>5. CASE PushBackToQueue(r)
    <3>1. req[r].job \in Jobs
      BY <1>t, <2>5 DEF PushBackToQueue
    <3>2. \A i \in Jobs : queue[i] \in Nat /\ queue'[i] \in Nat /\ queue[i] <= queue'[i]
      BY <1>t, <2>5, <3>1, PushGrows DEF PushBackToQueue, Bag
    <3>3. queue'[req[r].job] > 0
      BY <1>t, <2>5, <3>1, PushGrows DEF PushBackToQueue
    <3>4. UNCHANGED dlq /\ \A x \in Requests \ {r} : req'[x] = req[x]
      BY <2>5, RequestMoves DEF PushBackToQueue
    <3> QED BY <3>2, <3>3, <3>4
  <2>6. CASE RequestFails(r) /\ dropped' = dropped \cup Requeueing(r)
    <3>1. UNCHANGED <<queue, dlq>> /\ \A x \in Requests \ {r} : req'[x] = req[x]
      BY <2>6, RequestMoves DEF RequestFails, storeVars, listVars
    <3> QED BY <2>6, <3>1
  <2> QED BY <1>2, <2>1, <2>2, <2>3, <2>4, <2>5, <2>6 DEF RequestStep
<1>5. dropped \subseteq dropped'
  BY <1>2
<1> QED BY <1>1, <1>3, <1>4, <1>5

LEMMA DlqApiKeepsCustody ==
  ASSUME TypeOK, TypeOK', ListInv, HeldInv, DlqApiNext
  PROVE  ListInv' /\ HeldInv'
<1>1. Pulling' \subseteq Pulling
  BY DlqApiKeepsWaiting DEF Pulling
<1> QED BY <1>1, DlqApiKeepsWaiting, CustodyStill, SafeStill DEF Accepted

(* What the API server held when it died is recorded (server/src/index.ts). *)
LEMMA ApiCrashKeepsCustody ==
  ASSUME TypeOK, TypeOK', ListInv, HeldInv, ApiCrash
  PROVE  ListInv' /\ HeldInv'
<1>1. UNCHANGED <<storeVars, workerVars, sched, jan>>
      /\ dropped' = dropped \cup UNION {Requeueing(r) : r \in Requests}
  BY DEF ApiCrash
<1>2. \A i \in Jobs : Waiting(i) => Waiting(i)' \/ i \in dropped'
  BY <1>1 DEF Waiting, InHand, Promoting, storeVars, listVars
<1>3. Pulling' \subseteq Pulling
  BY <1>1 DEF Pulling, workerVars, lifeVars
<1> QED BY <1>1, <1>2, <1>3, CustodyStill, SafeStill
        DEF Accepted, storeVars, listVars, recordVars, workerVars

(* A pull moves a token to the list of its own process, which no janitor   *)
(* is about to delete and which had one for every slot before: so the new  *)
(* token is safe (worker.ts pullJob).                                      *)
LEMMA PullKeepsCustody ==
  ASSUME TypeOK, TypeOK', FleetInv, ListInv, HeldInv, NEW p \in Pulling, NEW j \in Jobs,
         queue' = LRem(queue, j),
         processing' = [processing EXCEPT ![p] = LPush(@, j)],
         \/ UNCHANGED slot
         \/ \E s \in Slots : /\ Owner[s] = p /\ slot[s].pc = "free"
                             /\ slot' = [slot EXCEPT ![s] = [pc |-> "load", job |-> j, seen |-> 0]],
         Pulling' \subseteq Pulling,
         UNCHANGED <<hash, delayed, dlq, done, sched, jan, req, dropped>>
  PROVE  ListInv' /\ HeldInv'
<1>t. /\ queue \in Bag /\ processing \in [Procs -> Bag] /\ p \in Procs
      /\ slot \in [Slots -> [pc : SlotPC, job : Jobs \cup {None}, seen : Nat]]
      /\ \A q \in Procs, i \in Jobs : processing[q][i] \in Nat
  BY DEF TypeOK, StoreTypeOK, WorkerTypeOK, Bag, Pulling
<1>1. \A q \in Procs, i \in Jobs :
        processing'[q][i] = IF q = p /\ i = j THEN processing[q][i] + 1 ELSE processing[q][i]
  <2> TAKE q \in Procs, i \in Jobs
  <2>1. processing'[q] = IF q = p THEN LPush(processing[q], j) ELSE processing[q]
    BY <1>t
  <2> QED BY <1>t, <2>1, ListCommands
<1>2. \A i \in Jobs \ {j} : queue'[i] = queue[i]
  BY <1>t, ListCommands
<1>3. \A q \in Procs, i \in Jobs :
        /\ Acking(q, i)' = Acking(q, i)
        /\ ~ (q = p /\ i = j) => Unacked(q, i)' = Unacked(q, i)
        /\ \/ Unacked(q, i)' = Unacked(q, i)
           \/ \E s \in Slots : Unacked(q, i)' = Unacked(q, i) \cup {s}
  <2>1. CASE UNCHANGED slot
    BY <2>1 DEF Acking, Unacked
  <2>2. ASSUME NEW s \in Slots, Owner[s] = p, slot[s].pc = "free",
               slot' = [slot EXCEPT ![s] = [pc |-> "load", job |-> j, seen |-> 0]]
        PROVE  \A q \in Procs, i \in Jobs :
                 /\ Acking(q, i)' = Acking(q, i)
                 /\ ~ (q = p /\ i = j) => Unacked(q, i)' = Unacked(q, i)
                 /\ \/ Unacked(q, i)' = Unacked(q, i)
                    \/ Unacked(q, i)' = Unacked(q, i) \cup {s}
    <3>1. /\ \A t \in Slots \ {s} : slot'[t] = slot[t]
          /\ slot'[s].pc = "load" /\ slot'[s].job = j
      BY <1>t, <2>2
    <3> QED BY <2>2, <3>1 DEF Acking, Unacked
  <2> QED BY <2>1, <2>2
<1>4. ListInv'
  <2> SUFFICES ASSUME NEW q \in Pulling, NEW i \in Jobs \ done
               PROVE  Cardinality(Unacked(q, i)') <= processing'[q][i]
    BY DEF ListInv
  <2>0. q \in Procs /\ processing[q][i] \in Nat
    BY <1>t DEF Pulling
  <2>1. Cardinality(Unacked(q, i)) <= processing[q][i]
    BY DEF ListInv
  <2>2. /\ Cardinality(Unacked(q, i)) \in Nat
        /\ \A s : Cardinality(Unacked(q, i) \cup {s}) \in
                    {Cardinality(Unacked(q, i)), Cardinality(Unacked(q, i)) + 1}
    BY AckingSlots, SlotCounts
  <2>3. \/ Unacked(q, i)' = Unacked(q, i)
        \/ /\ q = p /\ i = j
           /\ \E s \in Slots : Unacked(q, i)' = Unacked(q, i) \cup {s}
    BY <1>3, <2>0
  <2>4. \/ Cardinality(Unacked(q, i)') = Cardinality(Unacked(q, i))
        \/ q = p /\ i = j /\ Cardinality(Unacked(q, i)') = Cardinality(Unacked(q, i)) + 1
    BY <2>2, <2>3
  <2> QED BY <1>1, <2>0, <2>1, <2>2, <2>4
<1>5. \A q \in Procs, i \in Jobs : Safe(q, i) => Safe(q, i)'
  <2> TAKE q \in Procs, i \in Jobs
  <2>1. Cardinality(Acking(q, i)) \in Nat /\ Acking(q, i)' = Acking(q, i)
    BY <1>3, AckingSlots
  <2> QED BY <1>1, <1>t, <2>1 DEF Safe
<1>6. ASSUME j \notin done
      PROVE  Safe(p, j)'
  <2>1. Cardinality(Unacked(p, j)) <= processing[p][j]
    BY <1>6 DEF ListInv
  <2>2. /\ Cardinality(Unacked(p, j)) \in Nat /\ Cardinality(Acking(p, j)) \in Nat
        /\ Cardinality(Acking(p, j)) <= Cardinality(Unacked(p, j))
    BY AckingSlots
  <2>3. Acking(p, j)' = Acking(p, j) /\ processing'[p][j] = processing[p][j] + 1
    BY <1>1, <1>3, <1>t
  <2>4. Cardinality(Acking(p, j)') < processing'[p][j]
    BY <1>t, <2>1, <2>2, <2>3
  <2>5. \A q \in Procs : jan[q].target # p
    BY <1>t DEF FleetInv, JanitorSparesTheLiving, Pulling
  <2> QED BY <2>4, <2>5 DEF Safe
<1>7. \A i \in Jobs \ {j} : Waiting(i) => Waiting(i)'
  BY <1>2 DEF Waiting, InHand, Promoting, Requeueing
<1>8. HeldInv'
  <2> SUFFICES ASSUME NEW i \in Jobs, Accepted(i), i \notin done \cup dropped
               PROVE  Held(i)'
    BY DEF HeldInv, Accepted
  <2>1. CASE i = j
    BY <1>6, <1>t, <2>1 DEF Held
  <2>2. CASE i # j
    BY <1>5, <1>7, <2>2 DEF HeldInv, Held
  <2> QED BY <2>1, <2>2
<1> QED BY <1>4, <1>8

LEMMA LoopKeepsCustody ==
  ASSUME TypeOK, TypeOK', FleetInv, ListInv, HeldInv, NEW p \in Procs,
         LoopStep(p) \/ PullError(p) \/ \E j \in Jobs : PullReplyLost(p, j),
         UNCHANGED <<sched, jan, req, dropped>>
  PROVE  ListInv' /\ HeldInv'
<1>1. p \in Pulling /\ Pulling' \subseteq Pulling
  <2>1. loop[p] \in {"scan", "blocked", "full", "pause"}
    BY DEF LoopStep, ScanPull, BlockedPull, ScanEmpty, BlockedTimeout, Resume, PullError,
           PullReplyLost
  <2>2. \A q \in Procs : q # p => loop'[q] = loop[q]
    BY DEF LoopStep, ScanPull, BlockedPull, Pull, ScanEmpty, BlockedTimeout, Resume, PullError,
           PullReplyLost, TypeOK, WorkerTypeOK
  <2> QED BY <2>1, <2>2 DEF Pulling
<1>2. ASSUME NEW s \in Slots, NEW j \in Jobs, Pull(p, s, j)
      PROVE  ListInv' /\ HeldInv'
  BY <1>1, <1>2, PullKeepsCustody DEF Pull, recordVars
<1>3. ASSUME NEW j \in Jobs, PullReplyLost(p, j)
      PROVE  ListInv' /\ HeldInv'
  BY <1>1, <1>3, PullKeepsCustody DEF PullReplyLost, recordVars
<1>4. CASE ScanEmpty(p) \/ BlockedTimeout(p) \/ Resume(p) \/ PullError(p)
  BY <1>1, <1>4, NothingMoves
  DEF ScanEmpty, BlockedTimeout, Resume, PullError, storeVars, recordVars
<1> QED BY <1>2, <1>3, <1>4 DEF LoopStep, ScanPull, BlockedPull

(* start(), stop(), the heartbeat and Redis' expiry move no tokens.        *)
LEMMA LifeKeepsCustody ==
  ASSUME TypeOK, TypeOK', FleetInv, FleetInv', ListInv, HeldInv, NEW p \in Procs,
         LifeStep(p) \/ BeatSet(p) \/ DrainTimeout(p) \/ Stop(p),
         UNCHANGED <<sched, jan, req, dropped>>
  PROVE  ListInv' /\ HeldInv'
<1>1. UNCHANGED <<hash, listVars, slot, done>>
  BY DEF LifeStep, Register, FirstBeat, Describe, MarkDraining, Drained, JoinLoop, Deregister,
         DelHeartbeat, DelMeta, BeatMeta, BeatSet, DrainTimeout, Stop, storeVars, recordVars
<1>2. UNCHANGED loop
  BY DEF LifeStep, Register, FirstBeat, Describe, Phases, MarkDraining, Drained, JoinLoop,
         Deregister, DelHeartbeat, DelMeta, BeatMeta, BeatSet, DrainTimeout, Stop, FleetInv
<1> QED BY <1>1, <1>2, NothingMoves DEF Pulling

(* A process that dies leaves its tokens in its list, where now none of    *)
(* them is about to be acknowledged (worker/src/index.ts).                 *)
LEMMA KillKeepsCustody ==
  ASSUME TypeOK, TypeOK', ListInv, HeldInv, NEW p \in Procs, Kill(p)
  PROVE  ListInv' /\ HeldInv'
<1>0. UNCHANGED <<hash, queue, delayed, dlq, processing, done, req>>
      /\ dropped' = dropped \cup Promoting(p)
  BY DEF Kill, storeVars, recordVars, listVars
<1>1. /\ \A q \in Procs \ {p} : /\ loop'[q] = loop[q] /\ jan'[q] = jan[q] /\ sched'[q] = sched[q]
      /\ loop'[p] = "off" /\ jan'[p].target = None /\ sched'[p].pc = "idle"
  BY DEF Kill, TypeOK, WorkerTypeOK, JanitorTypeOK, SchedulerTypeOK, JanIdle, SchedIdle
<1>2. \A s \in Slots : slot'[s] = IF Owner[s] = p THEN FreeSlot ELSE slot[s]
  BY DEF Kill
<1>3. \A q \in Procs \ {p}, j \in Jobs : Unacked(q, j)' = Unacked(q, j)
  BY <1>2 DEF Unacked
<1>4. ListInv'
  BY <1>0, <1>1, <1>3 DEF ListInv, Pulling
<1>5. \A q \in Procs, j \in Jobs : Safe(q, j) => Safe(q, j)'
  <2> SUFFICES ASSUME NEW q \in Procs, NEW j \in Jobs, Safe(q, j)
               PROVE  Safe(q, j)'
    OBVIOUS
  <2>1. Acking(q, j)' \in SUBSET Acking(q, j)
    BY <1>2 DEF Acking, FreeSlot
  <2>2. Acking(q, j) \in SUBSET Slots
    BY DEF Acking
  <2>3. /\ Cardinality(Acking(q, j)) \in Nat /\ Cardinality(Acking(q, j)') \in Nat
        /\ Cardinality(Acking(q, j)') <= Cardinality(Acking(q, j))
    BY <2>1, <2>2, SlotCounts
  <2>4. processing[q][j] \in Nat
    BY DEF TypeOK, StoreTypeOK, Bag
  <2>5. Cardinality(Acking(q, j)') < processing'[q][j]
    BY <1>0, <2>3, <2>4 DEF Safe
  <2>6. \A x \in Procs : jan'[x].target = q => jan'[x] = jan[x]
    BY <1>1
  <2> QED BY <2>5, <2>6 DEF Safe
<1>6. \A j \in Jobs : Waiting(j) => Waiting(j)' \/ j \in dropped'
  BY <1>0, <1>1 DEF Waiting, InHand, Promoting, Requeueing
<1> QED BY <1>0, <1>4, <1>5, <1>6 DEF HeldInv, Held, Accepted

(* A janitor keeps in its LRANGE what it has not pushed, and deletes a     *)
(* list when nothing is left of that (janitor.ts tick).                    *)
LEMMA JanitorKeepsCustody ==
  ASSUME TypeOK, TypeOK', ActorInv, FleetInv, ListInv, HeldInv, NEW p \in Procs,
         JanitorStep(p) \/ JanitorFails(p), JanitorFrame
  PROVE  ListInv' /\ HeldInv'
<1> DEFINE Recovering == {"push", "reset", "pgReset", "delList"}
           w == jan[p].target
<1>0. UNCHANGED <<phase, loop, slot, done, sched, req, dropped>>
  BY DEF JanitorFrame, workerVars, lifeVars
<1>t. /\ jan \in [Procs -> [pc : JanitorPC, scan : SUBSET Procs, target : Procs \cup {None},
                            todo : Bag, job : Jobs \cup {None}]]
      /\ queue \in Bag /\ processing \in [Procs -> Bag] /\ StoreTypeOK
      /\ \A q \in Procs : jan[q].todo \in Bag
      /\ jan[p].pc \notin {"idle", "check"} => w \in Procs
      /\ \A q \in Procs, j \in Jobs : processing[q][j] \in Nat /\ jan[q].todo[j] \in Nat
  BY DEF TypeOK, JanitorTypeOK, StoreTypeOK, Bag
<1>1. Pulling' = Pulling
  BY <1>0 DEF Pulling
<1>2. ASSUME UNCHANGED <<processing, delayed, dlq>>,
             \A i \in Jobs : hash'[i].named = hash[i].named,
             \A i \in Jobs : queue[i] <= queue'[i],
             NEW x, jan' = [jan EXCEPT ![p] = x],
             x.target \in Procs /\ x.pc \in Recovering =>
               \A j \in Jobs : \/ x.todo[j] > 0 \/ queue'[j] > 0
                               \/ processing[x.target][j] = 0
                               \/ /\ w = x.target /\ jan[p].pc \in Recovering
                                  /\ jan[p].todo[j] = 0
      PROVE  ListInv' /\ HeldInv'
  <2>1. \A q \in Procs : jan'[q] = IF q = p THEN x ELSE jan[q]
    BY <1>2, <1>t
  <2>2. \A q \in Procs, j \in Jobs : Safe(q, j) => Safe(q, j)' \/ Waiting(j)'
    <3> SUFFICES ASSUME NEW q \in Procs, NEW j \in Jobs, Safe(q, j), ~ Waiting(j)'
                 PROVE  Safe(q, j)'
      OBVIOUS
    <3>a. UNCHANGED slot
      BY <1>0
    <3>b. Acking(q, j)' = Acking(q, j)
      BY <3>a DEF Acking
    <3>c. Cardinality(Acking(q, j)) \in Nat
      BY AckingSlots
    <3>1. Acking(q, j)' = Acking(q, j) /\ Cardinality(Acking(q, j)) \in Nat
      BY <3>b, <3>c
    <3>d. Cardinality(Acking(q, j)) < processing[q][j]
      BY DEF Safe
    <3>e. processing[q][j] \in Nat
      BY <1>t
    <3>f. processing[q][j] > 0
      BY <3>c, <3>d, <3>e
    <3>2. processing[q][j] > 0 /\ ~ (queue'[j] > 0)
      BY <3>f DEF Waiting
    <3>3. x.target = q /\ x.pc \in Recovering => x.todo[j] > 0
      BY <1>2, <3>2, <1>t DEF Safe
    <3> HIDE DEF Recovering
    <3>4. \A y \in Procs : jan'[y].target = q /\ jan'[y].pc \in Recovering => jan'[y].todo[j] > 0
      BY <2>1, <3>3 DEF Safe, Recovering
    <3> QED BY <1>2, <3>1, <3>4 DEF Safe, Recovering
  <2>3. \A j \in Jobs : Waiting(j) => Waiting(j)'
    <3>1. \A j \in Jobs : dlq[j] <= dlq'[j]
      BY <1>2 DEF TypeOK, StoreTypeOK, Bag
    <3> QED BY <1>0, <1>2, <3>1, WaitingGrows
  <2> QED BY <1>0, <1>1, <1>2, <2>2, <2>3, CustodyStill DEF Accepted
<1>q. UNCHANGED queue => \A i \in Jobs : queue[i] <= queue'[i]
  BY <1>t DEF Bag
<1>n. NoTokens \in Bag /\ \A j \in Jobs : NoTokens[j] = 0
  BY CommandsTyped DEF NoTokens
<1>i. JanIdle.target = None /\ \A scan : ScanWith(scan).target = None
  BY DEF ScanWith, JanIdle
<1>l. ASSUME NEW x, jan' = [jan EXCEPT ![p] = x], x.target = None, UNCHANGED storeVars
      PROVE  ListInv' /\ HeldInv'
  BY <1>l, <1>2, <1>q DEF storeVars, recordVars, listVars
<1>3. CASE JanTick(p) \/ JanitorFails(p) \/ \E v \in Procs : WorkerAlive(p, v)
  <2>1. CASE JanTick(p)
    BY <2>1, <1>l, <1>i DEF JanTick
  <2>2. CASE JanitorFails(p)
    BY <2>2, <1>l, <1>i DEF JanitorFails
  <2>3. ASSUME NEW v \in Procs, WorkerAlive(p, v)
        PROVE  ListInv' /\ HeldInv'
    BY <2>3, <1>l, <1>i DEF WorkerAlive
  <2> QED BY <1>3, <2>1, <2>2, <2>3
<1>4. ASSUME NEW v \in Procs, WorkerDead(p, v)
      PROVE  ListInv' /\ HeldInv'
  <2> DEFINE x == [pc |-> "list", scan |-> jan[p].scan \ {v}, target |-> v,
                   todo |-> NoTokens, job |-> None]
  <2>1. x.pc = "list"
    OBVIOUS
  <2>2. jan' = [jan EXCEPT ![p] = x] /\ UNCHANGED storeVars
    BY <1>4 DEF WorkerDead
  <2> HIDE DEF x
  <2> QED BY <2>1, <2>2, <1>2, <1>q DEF storeVars, recordVars, listVars
<1>5. CASE ListOrphans(p)
  <2> DEFINE x == [pc |-> NextOrphan(processing[w]), scan |-> jan[p].scan, target |-> w,
                   todo |-> processing[w], job |-> None]
  <2>1. x.target = w /\ x.todo = processing[w]
    OBVIOUS
  <2>2. jan' = [jan EXCEPT ![p] = x] /\ UNCHANGED storeVars
    BY <1>5 DEF ListOrphans
  <2>3. w \in Procs
    BY <1>5, <1>t DEF ListOrphans
  <2> HIDE DEF x
  <2>4. \A j \in Jobs : x.todo[j] > 0 \/ processing[x.target][j] = 0
    BY <1>t, <2>1, <2>3
  <2>5. UNCHANGED <<hash, queue, delayed, dlq, processing>>
    BY <2>2 DEF storeVars, recordVars, listVars
  <2> HIDE DEF Recovering, w
  <2> QED BY <2>2, <2>4, <2>5, <1>2, <1>q
<1>6. ASSUME NEW k \in Jobs, PushOrphan(p, k)
      PROVE  ListInv' /\ HeldInv'
  <2> DEFINE x == [pc |-> "reset", scan |-> jan[p].scan, target |-> w,
                   todo |-> LRem(jan[p].todo, k), job |-> k]
  <2>1. x.target = w /\ x.todo = LRem(jan[p].todo, k)
    OBVIOUS
  <2>2. jan' = [jan EXCEPT ![p] = x] /\ queue' = LPush(queue, k)
        /\ UNCHANGED <<hash, delayed, dlq, processing>> /\ jan[p].pc \in Recovering
    BY <1>6 DEF PushOrphan, recordVars
  <2>3. \A j \in Jobs : x.todo[j] = jan[p].todo[j] \/ queue'[j] > 0
    BY <1>t, <2>1, <2>2, ListCommands, PushGrows
  <2>4. \A j \in Jobs : queue[j] <= queue'[j]
    BY <1>t, <2>2, PushGrows
  <2>5. \A j \in Jobs : \/ x.todo[j] > 0 \/ queue'[j] > 0
                        \/ w = x.target /\ jan[p].pc \in Recovering /\ jan[p].todo[j] = 0
    BY <1>t, <2>1, <2>2, <2>3
  <2> HIDE DEF x
  <2> QED BY <2>2, <2>4, <2>5, <1>2
<1>7. CASE ResetOrphan(p)
  <2> DEFINE x == [jan[p] EXCEPT !.pc = "pgReset"]
  <2>1. x.target = w /\ x.todo = jan[p].todo
    BY <1>t
  <2>2. jan' = [jan EXCEPT ![p] = x] /\ UNCHANGED <<queue, delayed, dlq, processing>>
        /\ jan[p].pc \in Recovering
    BY <1>7 DEF ResetOrphan, listVars
  <2>3. \A i \in Jobs : hash'[i].named = hash[i].named
    <3>1. jan[p].job \in Jobs
      BY <1>7 DEF ResetOrphan, TypeOK, JanitorTypeOK
    <3> QED BY <1>7, <1>t, <3>1, StatusKeepsNames DEF ResetOrphan
  <2>4. \A j \in Jobs : \/ x.todo[j] > 0
                        \/ w = x.target /\ jan[p].pc \in Recovering /\ jan[p].todo[j] = 0
    BY <1>t, <2>1, <2>2
  <2> HIDE DEF x
  <2> QED BY <2>2, <2>3, <2>4, <1>2, <1>q
<1>8. CASE PgResetOrphan(p)
  <2> DEFINE x == [pc |-> NextOrphan(jan[p].todo), scan |-> jan[p].scan, target |-> w,
                   todo |-> jan[p].todo, job |-> None]
  <2>1. x.target = w /\ x.todo = jan[p].todo
    OBVIOUS
  <2>2. jan' = [jan EXCEPT ![p] = x] /\ UNCHANGED <<hash, queue, delayed, dlq, processing>>
        /\ jan[p].pc \in Recovering
    BY <1>8 DEF PgResetOrphan, listVars
  <2>4. \A j \in Jobs : \/ x.todo[j] > 0
                        \/ w = x.target /\ jan[p].pc \in Recovering /\ jan[p].todo[j] = 0
    BY <1>t, <2>1, <2>2
  <2> HIDE DEF x
  <2> QED BY <2>2, <2>4, <1>2, <1>q
<1>9. CASE DeregisterDead(p)
  <2> DEFINE x == [jan[p] EXCEPT !.pc = "delMeta"]
  <2>1. x.pc = "delMeta"
    BY <1>t
  <2>2. jan' = [jan EXCEPT ![p] = x] /\ UNCHANGED <<hash, queue, delayed, dlq, processing>>
    BY <1>9 DEF DeregisterDead, recordVars, listVars
  <2> HIDE DEF x
  <2> QED BY <2>1, <2>2, <1>2, <1>q
<1>10. CASE DelDeadMeta(p)
  <2>1. ScanWith(jan[p].scan).target = None
    BY DEF ScanWith, JanIdle
  <2>2. jan' = [jan EXCEPT ![p] = ScanWith(jan[p].scan)]
        /\ UNCHANGED <<hash, queue, delayed, dlq, processing>>
    BY <1>10 DEF DelDeadMeta, recordVars, listVars
  <2> QED BY <2>1, <2>2, <1>2, <1>q
<1>11. CASE DelProcessing(p)
  <2>1. /\ w \in Procs /\ jan[p].pc = "delList" /\ jan[p].todo = NoTokens
        /\ UNCHANGED <<hash, queue, delayed, dlq>>
        /\ \A q \in Procs \ {w} : processing'[q] = processing[q]
        /\ jan' = [jan EXCEPT ![p].pc = "deregister"]
    BY <1>11, <1>t DEF DelProcessing, ActorInv, recordVars
  <2>2. w \notin Pulling
    BY <2>1 DEF FleetInv, JanitorSparesTheLiving, Pulling
  <2>3. \A q \in Procs, j \in Jobs : Unacked(q, j)' = Unacked(q, j) /\ Acking(q, j)' = Acking(q, j)
    BY <1>0 DEF Unacked, Acking
  <2>4. ListInv'
    BY <1>0, <1>1, <2>1, <2>2, <2>3 DEF ListInv, Pulling
  <2>5. \A j \in Jobs : ~ Safe(w, j)
    BY <1>n, <2>1 DEF Safe
  <2>6. \A q \in Procs \ {p} : jan'[q] = jan[q]
    BY <2>1
  <2>7. jan'[p].pc = "deregister"
    BY <1>t, <2>1
  <2>8. \A q \in Procs, j \in Jobs : Safe(q, j) => Safe(q, j)'
    BY <2>1, <2>3, <2>5, <2>6, <2>7 DEF Safe
  <2>9. \A j \in Jobs : Waiting(j)' = Waiting(j)
    BY <1>0, <2>1 DEF Waiting, InHand, Promoting, Requeueing
  <2>10. HeldInv'
    BY <1>0, <2>1, <2>8, <2>9 DEF HeldInv, Held, Accepted
  <2> QED BY <2>4, <2>10
<1> QED
  BY <1>3, <1>4, <1>5, <1>6, <1>7, <1>8, <1>9, <1>10, <1>11 DEF JanitorStep

-----------------------------------------------------------------------------
(* The whole of CustodyInv. *)

(* complete() is entered when a handler has returned (processOne).         *)
LEMMA SlotKeepsActor ==
  ASSUME TypeOK, ActorInv, NEW s \in Slots, SlotStep(s) \/ CommandFails(s)
  PROVE  \A t \in Slots : slot'[t].pc \in CompletePC => slot'[t].job \in done'
<1>t. WorkerTypeOK /\ (slot[s].pc \in CompletePC => slot[s].job \in done)
  BY DEF TypeOK, ActorInv
<1> USE <1>t DEF CompletePC
<1>g. ASSUME NEW l, slot' = [slot EXCEPT ![s].pc = l], done \subseteq done',
             l \notin CompletePC \/ slot[s].job \in done'
      PROVE  \A t \in Slots : slot'[t].pc \in CompletePC => slot'[t].job \in done'
  BY <1>g, GotoMovesOne DEF ActorInv
<1>r. ASSUME Release(s)
      PROVE  \A t \in Slots : slot'[t].pc \in CompletePC => slot'[t].job \in done'
  BY <1>r, ReleaseFreesOne DEF ActorInv
<1>1. CASE Load(s)
  <2>1. CASE hash[slot[s].job].named
    <3> DEFINE x == [pc |-> IF RateLimited THEN "limit" ELSE "pgActive", job |-> slot[s].job,
                     seen |-> hash[slot[s].job].attempts]
    <3>1. x.pc \notin CompletePC
      OBVIOUS
    <3>2. slot' = [slot EXCEPT ![s] = x] /\ UNCHANGED done
      BY <1>1, <2>1 DEF Load
    <3> HIDE DEF x
    <3>3. \A t \in Slots : slot'[t] = IF t = s THEN x ELSE slot[t]
      BY <3>2 DEF WorkerTypeOK
    <3> QED BY <3>1, <3>2, <3>3 DEF ActorInv
  <2>2. CASE ~ hash[slot[s].job].named
    BY <1>1, <2>2, <1>r DEF Load
  <2> QED BY <2>1, <2>2
<1>2. CASE Allowed(s)        BY <1>2, <1>g DEF Allowed, Goto
<1>3. CASE Denied(s)         BY <1>3, <1>g DEF Denied, Goto
<1>4. CASE PushBack(s)       BY <1>4, <1>g DEF PushBack, Goto
<1>5. CASE Sleep(s)          BY <1>5, <1>r DEF Sleep
<1>6. CASE PgActive(s)       BY <1>6, <1>g DEF PgActive, Goto
<1>7. CASE SetActive(s)      BY <1>7, <1>g DEF SetActive, Goto
<1>8. CASE HandlerReturns(s) BY <1>8, <1>g DEF HandlerReturns
<1>9. CASE HandlerFails(s)   BY <1>9, <1>g DEF HandlerFails, Goto
<1>10. CASE PgCompleted(s)   BY <1>10, <1>g DEF PgCompleted, Goto, At
<1>11. CASE SetCompleted(s)  BY <1>11, <1>g DEF SetCompleted, Goto, At
<1>12. CASE AckCompleted(s)  BY <1>12, <1>g DEF AckCompleted, Goto, At
<1>13. CASE Reread(s)        BY <1>13, <1>r DEF Reread
<1>14. CASE FailLoad(s)      BY <1>14, <1>g DEF FailLoad, Goto
<1>15. CASE PgDlq(s)         BY <1>15, <1>g DEF PgDlq, Goto
<1>16. CASE SetDlq(s)        BY <1>16, <1>g DEF SetDlq, Goto
<1>17. CASE PushDlq(s)       BY <1>17, <1>g DEF PushDlq, Goto
<1>18. CASE AckDlq(s)        BY <1>18, <1>r DEF AckDlq
<1>19. CASE PgDelayed(s)     BY <1>19, <1>g DEF PgDelayed, Goto
<1>20. CASE SetDelayed(s)    BY <1>20, <1>g DEF SetDelayed, Goto
<1>21. CASE ZAddDelayed(s)   BY <1>21, <1>g DEF ZAddDelayed, Goto
<1>22. CASE AckDelayed(s)    BY <1>22, <1>r DEF AckDelayed
<1>23. CASE CommandFails(s)
  <2>1. CASE slot[s].pc \in CompletePC
    BY <1>23, <2>1, <1>g DEF CommandFails, Goto, FailurePC
  <2>2. CASE slot[s].pc \notin CompletePC
    BY <1>23, <2>2, <1>r DEF CommandFails
  <2> QED BY <2>1, <2>2
<1> QED
  BY <1>1, <1>2, <1>3, <1>4, <1>5, <1>6, <1>7, <1>8, <1>9, <1>10, <1>11, <1>12, <1>13, <1>14, <1>15, <1>16, <1>17, <1>18, <1>19, <1>20, <1>21, <1>22, <1>23
  DEF SlotStep

(* The DEL comes when the pushes are done (janitor.ts tick).               *)
LEMMA JanitorKeepsActor ==
  ASSUME TypeOK, ActorInv, NEW p \in Procs, JanitorStep(p) \/ JanitorFails(p)
  PROVE  \A q \in Procs : jan'[q].pc = "delList" => jan'[q].todo = NoTokens
<1>1. JanIdle.pc # "delList" /\ \A scan : ScanWith(scan).pc # "delList"
  BY DEF ScanWith, JanIdle
<1>t. /\ jan \in [Procs -> [pc : JanitorPC, scan : SUBSET Procs, target : Procs \cup {None},
                            todo : Bag, job : Jobs \cup {None}]]
      /\ \A q \in Procs : jan[q].pc = "delList" => jan[q].todo = NoTokens
  BY DEF TypeOK, JanitorTypeOK, ActorInv
<1>x. ASSUME NEW x, jan' = [jan EXCEPT ![p] = x], x.pc = "delList" => x.todo = NoTokens
      PROVE  \A q \in Procs : jan'[q].pc = "delList" => jan'[q].todo = NoTokens
  <2>1. \A q \in Procs : jan'[q] = IF q = p THEN x ELSE jan[q]
    BY <1>x, <1>t
  <2> QED BY <1>x, <1>t, <2>1
<1>o. ASSUME NEW l, NEW scan, NEW target, NEW todo, NEW job,
             jan' = [jan EXCEPT ![p] = [pc |-> l, scan |-> scan, target |-> target,
                                        todo |-> todo, job |-> job]],
             l = "delList" => todo = NoTokens
      PROVE  \A q \in Procs : jan'[q].pc = "delList" => jan'[q].todo = NoTokens
  <2> DEFINE x == [pc |-> l, scan |-> scan, target |-> target, todo |-> todo, job |-> job]
  <2>1. x.pc = l /\ x.todo = todo /\ jan' = [jan EXCEPT ![p] = x]
    BY <1>o
  <2> HIDE DEF x
  <2> QED BY <1>o, <2>1, <1>x
<1>p. ASSUME NEW l, l # "delList", jan' = [jan EXCEPT ![p].pc = l]
      PROVE  \A q \in Procs : jan'[q].pc = "delList" => jan'[q].todo = NoTokens
  <2>1. [jan[p] EXCEPT !.pc = l].pc = l
    BY <1>t
  <2> QED BY <1>p, <2>1, <1>x
<1>n. \A todo : NextOrphan(todo) = "delList" => todo = NoTokens
  BY DEF NextOrphan
<1>2. CASE JanTick(p)         BY <1>1, <1>x, <1>2 DEF JanTick
<1>3. ASSUME NEW w \in Procs, WorkerAlive(p, w)
      PROVE  \A q \in Procs : jan'[q].pc = "delList" => jan'[q].todo = NoTokens
  BY <1>1, <1>x, <1>3 DEF WorkerAlive
<1>4. ASSUME NEW w \in Procs, WorkerDead(p, w)
      PROVE  \A q \in Procs : jan'[q].pc = "delList" => jan'[q].todo = NoTokens
  BY <1>o, <1>4 DEF WorkerDead
<1>5. CASE ListOrphans(p)     BY <1>n, <1>o, <1>5 DEF ListOrphans
<1>6. ASSUME NEW j \in Jobs, PushOrphan(p, j)
      PROVE  \A q \in Procs : jan'[q].pc = "delList" => jan'[q].todo = NoTokens
  BY <1>o, <1>6 DEF PushOrphan
<1>7. CASE ResetOrphan(p)     BY <1>p, <1>7 DEF ResetOrphan
<1>8. CASE PgResetOrphan(p)   BY <1>n, <1>o, <1>8 DEF PgResetOrphan
<1>9. CASE DelProcessing(p)   BY <1>p, <1>9 DEF DelProcessing
<1>10. CASE DeregisterDead(p) BY <1>p, <1>10 DEF DeregisterDead
<1>11. CASE DelDeadMeta(p)    BY <1>1, <1>x, <1>11 DEF DelDeadMeta
<1>12. CASE JanitorFails(p)   BY <1>1, <1>x, <1>12 DEF JanitorFails
<1> QED
  BY <1>2, <1>3, <1>4, <1>5, <1>6, <1>7, <1>8, <1>9, <1>10, <1>11, <1>12 DEF JanitorStep

LEMMA ActorKept ==
  ASSUME TypeOK, ActorInv, [Next]_vars
  PROVE  ActorInv'
<1>s. ASSUME UNCHANGED slot, done \subseteq done', UNCHANGED jan
      PROVE  ActorInv'
  BY <1>s DEF ActorInv
<1>1. CASE ProducerNext \/ SchedulerNext \/ DlqApiNext \/ ApiCrash
  <2>1. UNCHANGED workerVars
    BY <1>1 DEF ProducerNext, ProducerFrame, SchedulerNext, SchedulerFrame, DlqApiNext, ApiCrash
  <2> QED BY <1>1, <2>1, <1>s, OthersLeaveLife DEF workerVars
<1>l. ASSUME NEW s \in Slots, SlotStep(s) \/ CommandFails(s), UNCHANGED jan
      PROVE  ActorInv'
  BY <1>l, SlotKeepsActor DEF ActorInv
<1>p. ASSUME NEW p \in Procs, UNCHANGED jan,
             \/ LifeStep(p) \/ LoopStep(p) \/ PullError(p) \/ \E j \in Jobs : PullReplyLost(p, j)
             \/ BeatSet(p) \/ DrainTimeout(p) \/ Stop(p)
      PROVE  ActorInv'
  <2>1. ASSUME NEW s \in Slots, NEW j \in Jobs, Pull(p, s, j)
        PROVE  ActorInv'
    <3> DEFINE x == [pc |-> "load", job |-> j, seen |-> 0]
    <3>1. x.pc \notin CompletePC
      BY DEF CompletePC
    <3>2. slot' = [slot EXCEPT ![s] = x] /\ UNCHANGED done
      BY <2>1 DEF Pull
    <3> HIDE DEF x
    <3>3. \A t \in Slots : slot'[t] = IF t = s THEN x ELSE slot[t]
      BY <3>2 DEF TypeOK, WorkerTypeOK
    <3> QED BY <1>p, <3>1, <3>2, <3>3 DEF ActorInv
  <2>2. CASE LoopStep(p)
    BY <1>p, <2>1, <2>2, <1>s DEF LoopStep, ScanPull, BlockedPull, ScanEmpty, BlockedTimeout, Resume
  <2>3. CASE LifeStep(p)
    BY <1>p, <2>3, <1>s
    DEF LifeStep, Register, FirstBeat, Describe, MarkDraining, Drained, JoinLoop, Deregister,
        DelHeartbeat, DelMeta, BeatMeta
  <2> QED BY <1>p, <2>2, <2>3, <1>s DEF PullError, PullReplyLost, BeatSet, DrainTimeout, Stop
<1>2. CASE WorkerNext
  <2>1. UNCHANGED jan
    BY <1>2 DEF WorkerNext, WorkerFrame
  <2> QED BY <1>2, <2>1, <1>l, <1>p DEF WorkerNext
<1>3. CASE WorkerFault
  <2>1. UNCHANGED jan
    BY <1>3 DEF WorkerFault
  <2>2. \/ \E p \in Procs :
             \/ PullError(p) \/ \E j \in Jobs : PullReplyLost(p, j)
             \/ BeatSet(p) \/ DrainTimeout(p) \/ Stop(p)
        \/ \E s \in Slots : CommandFails(s)
    BY <1>3, ZenonT(30) DEF WorkerFault
  <2> QED BY <2>1, <2>2, <1>l, <1>p
<1>4. CASE JanitorNext
  <2>1. UNCHANGED <<slot, done>>
    BY <1>4 DEF JanitorNext, JanitorFrame, workerVars
  <2>2. PICK p \in Procs : JanitorStep(p) \/ JanitorFails(p)
    BY <1>4 DEF JanitorNext
  <2> QED BY <2>1, <2>2, JanitorKeepsActor DEF ActorInv
<1>5. ASSUME NEW p \in Procs, Crash(p) \/ Exit(p)
      PROVE  ActorInv'
  <2>1. /\ \A s \in Slots : slot'[s] \in {slot[s], FreeSlot}
        /\ UNCHANGED done
        /\ \A q \in Procs : jan'[q] \in {jan[q], JanIdle}
    BY <1>5 DEF Crash, Exit, Kill, TypeOK, JanitorTypeOK
  <2>2. FreeSlot.pc \notin CompletePC /\ JanIdle.pc # "delList"
    BY DEF FreeSlot, JanIdle, CompletePC
  <2> QED BY <2>1, <2>2 DEF ActorInv
<1>6. ASSUME NEW p \in Procs, Launch(p) \/ Expire(p)
      PROVE  ActorInv'
  BY <1>6, <1>s DEF Launch, Expire, workerVars
<1>7. CASE UNCHANGED vars
  BY <1>7, <1>s DEF vars, workerVars
<1> QED BY <1>1, <1>2, <1>3, <1>4, <1>5, <1>6, <1>7 DEF Next, ProcessNext

(* A step of the system keeps every accepted job in a list, unless it is   *)
(* done or a process that dies held it in memory only.                     *)
LEMMA CustodyKept ==
  ASSUME TypeOK, TypeOK', ActorInv, BudgetInv, FleetInv, ListInv, HeldInv, [Next]_vars,
         ~ Lapsed'
  PROVE  ListInv' /\ HeldInv'
<1>0. FleetInv' /\ ~ Spend("stall") /\ ~ Spend("start")
  BY FleetKept, NoLapse
<1>l. ASSUME NEW s \in Slots, SlotStep(s) \/ CommandFails(s),
             UNCHANGED <<sched, jan, req, dropped>>
      PROVE  ListInv' /\ HeldInv'
  <2>1. SlotEffect(s)
    BY <1>l, SlotEffects
  <2>2. UNCHANGED loop
    BY <1>l, SlotLeavesLife
  <2> QED BY <1>l, <2>1, <2>2, SlotKeepsCustody
<1>1. CASE ProducerNext   BY <1>1, ProducerKeepsCustody
<1>2. CASE WorkerNext
  <2>1. UNCHANGED <<sched, jan, req, dropped>>
    BY <1>2 DEF WorkerNext, WorkerFrame
  <2> QED BY <1>0, <1>2, <2>1, <1>l, LifeKeepsCustody, LoopKeepsCustody DEF WorkerNext
<1>3. CASE WorkerFault
  <2>1. UNCHANGED <<sched, jan, req, dropped>>
    BY <1>3 DEF WorkerFault
  <2>2. \/ \E p \in Procs :
             \/ PullError(p) \/ \E j \in Jobs : PullReplyLost(p, j)
             \/ BeatSet(p) \/ DrainTimeout(p) \/ Stop(p)
        \/ \E s \in Slots : CommandFails(s)
    BY <1>3, ZenonT(30) DEF WorkerFault
  <2> QED BY <1>0, <2>1, <2>2, <1>l, LifeKeepsCustody, LoopKeepsCustody
<1>4. CASE SchedulerNext  BY <1>4, SchedulerKeepsCustody DEF SchedulerNext
<1>5. CASE JanitorNext    BY <1>5, JanitorKeepsCustody DEF JanitorNext
<1>6. CASE DlqApiNext     BY <1>6, DlqApiKeepsCustody
<1>7. ASSUME NEW p \in Procs, Crash(p) \/ Exit(p)
      PROVE  ListInv' /\ HeldInv'
  BY <1>7, KillKeepsCustody DEF Crash, Exit
<1>8. ASSUME NEW p \in Procs, Launch(p)
      PROVE  FALSE
  BY <1>0, <1>8 DEF Launch
<1>9. ASSUME NEW p \in Procs, Expire(p)
      PROVE  ListInv' /\ HeldInv'
  BY <1>9, NothingMoves DEF Expire, recordVars, workerVars, lifeVars, Pulling
<1>10. CASE ApiCrash      BY <1>10, ApiCrashKeepsCustody
<1>11. CASE UNCHANGED vars
  BY <1>11, NothingMoves DEF vars, storeVars, recordVars, workerVars, lifeVars, Pulling
<1> QED BY <1>1, <1>2, <1>3, <1>4, <1>5, <1>6, <1>7, <1>8, <1>9, <1>10, <1>11 DEF Next, ProcessNext

LEMMA InitCustody == Init => CustodyInv
<1> SUFFICES ASSUME Init PROVE CustodyInv
  OBVIOUS
<1>1. BudgetInv /\ FleetInv
  BY InitFleet
<1>2. ActorInv
  BY DEF Init, WorkerInit, JanitorInit, FreeSlot, JanIdle, CompletePC, ActorInv
<1>3. HeldInv
  BY DEF Init, StoreInit, HeldInv, Accepted
<1>4. \A p \in Procs, j \in Jobs : Unacked(p, j) = {} /\ processing[p][j] = 0
  BY DEF Init, StoreInit, WorkerInit, FreeSlot, Unacked
<1>5. Cardinality({}) = 0
  BY FS_EmptySet
<1>6. ASSUME NEW p \in Procs, NEW j \in Jobs
      PROVE  Cardinality(Unacked(p, j)) <= processing[p][j]
  <2>1. Cardinality(Unacked(p, j)) = 0
    BY <1>4, <1>5, Zenon
  <2> QED BY <1>4, <2>1
<1>7. ListInv
  BY <1>6 DEF ListInv, Pulling
<1> QED BY <1>1, <1>2, <1>3, <1>7 DEF CustodyInv

(* What is safe is in a processing list.                                   *)
LEMMA CustodyHolds == TypeOK /\ CustodyInv => JobHeld
<1> SUFFICES ASSUME TypeOK, CustodyInv, ~ Lapsed, NEW p \in Procs, NEW j \in Jobs, Safe(p, j)
             PROVE  processing[p][j] > 0
  BY DEF CustodyInv, HeldInv, Held, JobHeld
<1>1. Cardinality(Acking(p, j)) \in Nat
  BY AckingSlots
<1> QED BY <1>1 DEF Safe, TypeOK, StoreTypeOK, Bag

(* No accepted job is lost while no heartbeat lapses: whatever crashes,    *)
(* stops, times out or fails, it is done, waits in a list, is in some      *)
(* processing list, or was held only in the memory of a process that has   *)
(* failed (worker.ts, scheduler.ts, janitor.ts, routes.ts: the order of    *)
(* the commands).                                                          *)
THEOREM JobsAreHeld == Spec => []JobHeld
<1>1. TypeOK /\ TypeOK' /\ CustodyInv /\ [Next]_vars => CustodyInv'
  BY ActorKept, Unspent, NoLapse, FleetKept, CustodyKept DEF CustodyInv
<1> QED BY <1>1, CustodyHolds, InitCustody, TypeCorrect, PTL DEF Spec

-----------------------------------------------------------------------------
(* Jobs that no enqueue call has pushed yet, while no request is made: no  *)
(* actor knows them.                                                       *)

Fresh(j) ==
  /\ ~ hash[j].named /\ j \notin done
  /\ queue[j] = 0 /\ dlq[j] = 0 /\ j \notin delayed
  /\ \A p \in Procs : processing[p][j] = 0 /\ jan[p].todo[j] = 0 /\ j \notin Promoting(p)
  /\ \A s \in Slots : slot[s].job # j

FreshInv ==
  /\ \A r \in Requests : req[r].pc = "idle"
  /\ \A j \in Jobs : IF enqueue[j] = "done" THEN hash[j].named ELSE Fresh(j)

(* What is stored of a job is as it was. *)
Untouched(j) ==
  /\ row'[j] = row[j] /\ hash'[j] = hash[j]
  /\ queue'[j] = queue[j] /\ dlq'[j] = dlq[j]
  /\ j \in delayed' <=> j \in delayed
  /\ \A p \in Procs : processing'[p][j] = processing[p][j]

(* A write of one id leaves the others (job DAO, Redis commands).          *)
LEMMA OneIdWritten ==
  ASSUME StoreTypeOK, NEW i \in Jobs, NEW j \in Jobs \ {i}
  PROVE  /\ LPush(queue, i)[j] = queue[j] /\ LRem(queue, i)[j] = queue[j]
         /\ LPush(dlq, i)[j] = dlq[j]
         /\ \A st, n : UpdateRow(i, st, n) => row'[j] = row[j]
         /\ \A st : HSetStatus(i, st) => hash'[j] = hash[j]
<1>1. queue \in Bag /\ dlq \in Bag
  BY DEF StoreTypeOK
<1> QED BY <1>1, ListCommands DEF StoreTypeOK, UpdateRow, HSetStatus

(* A slot works on its own job (processOne, complete, handleFailure).      *)
LEMMA SlotOwnJob ==
  ASSUME TypeOK, NEW s \in Slots, SlotStep(s) \/ CommandFails(s)
  PROVE  /\ slot[s].job \in Jobs
         /\ slot'[s].job \in {slot[s].job, None}
         /\ \A t \in Slots \ {s} : slot'[t] = slot[t]
         /\ \A j \in Jobs \ {slot[s].job} : Untouched(j) /\ (j \in done' <=> j \in done)
<1> DEFINE i == slot[s].job
           Others == \A j \in Jobs \ {i} : Untouched(j) /\ (j \in done' <=> j \in done)
           Keeps == slot'[s].job \in {i, None} /\ \A t \in Slots \ {s} : slot'[t] = slot[t]
<1>t. StoreTypeOK /\ WorkerTypeOK
  BY DEF TypeOK
<1>i. i \in Jobs
  <2>1. slot[s].pc # "free"
    BY DEF SlotStep, At, Load, Allowed, Denied, PushBack, Sleep, PgActive, SetActive,
           HandlerReturns, HandlerFails, PgCompleted, SetCompleted, AckCompleted, Reread,
           FailLoad, PgDlq, SetDlq, PushDlq, AckDlq, PgDelayed, SetDelayed, ZAddDelayed,
           AckDelayed, CommandFails, CompletePC
  <2> QED BY <1>t, <2>1 DEF WorkerTypeOK
<1>g. ASSUME NEW l, slot' = [slot EXCEPT ![s].pc = l]
      PROVE  Keeps
  BY <1>t, <1>g, GotoMovesOne
<1>r. ASSUME Release(s)
      PROVE  Keeps
  BY <1>t, <1>r, ReleaseFreesOne
<1>n. ASSUME UNCHANGED storeVars, UNCHANGED done
      PROVE  Others
  BY <1>n DEF storeVars, recordVars, listVars, Untouched
<1>a. ASSUME Ack(s)
      PROVE  \A j \in Jobs \ {i}, p \in Procs : processing'[p][j] = processing[p][j]
  BY <1>t, <1>i, <1>a, AckTakesOne
<1> HIDE DEF Keeps
<1> USE DEF Untouched, recordVars, listVars
<1>1. CASE Load(s)
  <2>1. Keeps
    <3>1. CASE hash[i].named
      <4> DEFINE x == [pc |-> IF RateLimited THEN "limit" ELSE "pgActive", job |-> i,
                       seen |-> hash[i].attempts]
      <4>1. x.job = i /\ slot' = [slot EXCEPT ![s] = x]
        BY <1>1, <3>1 DEF Load
      <4> HIDE DEF x
      <4> QED BY <1>t, <4>1 DEF WorkerTypeOK, Keeps
    <3> QED BY <1>1, <1>r, <3>1 DEF Load
  <2>2. UNCHANGED storeVars /\ UNCHANGED done
    BY <1>1 DEF Load, Release
  <2> QED BY <1>i, <1>n, <2>1, <2>2 DEF Keeps
<1>2. CASE Allowed(s) \/ Denied(s) \/ HandlerFails(s) \/ FailLoad(s)
  <2>1. UNCHANGED storeVars /\ UNCHANGED done /\ \E l : slot' = [slot EXCEPT ![s].pc = l]
    BY <1>2 DEF Allowed, Denied, HandlerFails, FailLoad, Goto
  <2> QED BY <1>i, <1>n, <1>g, <2>1 DEF Keeps
<1>3. CASE Sleep(s) \/ Reread(s)
  <2>1. UNCHANGED storeVars /\ Release(s) /\ UNCHANGED done
    BY <1>3 DEF Sleep, Reread, Release
  <2> QED BY <1>i, <1>n, <1>r, <2>1 DEF Keeps
<1>4. CASE PushBack(s)
  <2>1. Keeps /\ UNCHANGED <<row, hash, delayed, dlq, done>>
    BY <1>4, <1>g DEF PushBack, Goto
  <2>2. Others
    BY <1>4, <1>t, <1>i, <1>a, <2>1, OneIdWritten DEF PushBack
  <2> QED BY <1>i, <2>1, <2>2 DEF Keeps
<1>5. CASE PgActive(s) \/ PgCompleted(s) \/ PgDlq(s) \/ PgDelayed(s)
  <2>1. Keeps /\ UNCHANGED <<hash, listVars, done>> /\ \E st, n : UpdateRow(i, st, n)
    BY <1>5, <1>g
    DEF PgActive, PgCompleted, PgDlq, PgDelayed, Goto, MarkJobActive, MarkJobCompleted,
        MarkJobDlq, MarkJobDelayed
  <2>2. Others
    BY <1>t, <1>i, <2>1, OneIdWritten
  <2> QED BY <1>i, <2>1, <2>2 DEF Keeps
<1>6. CASE SetCompleted(s) \/ SetDlq(s) \/ SetDelayed(s)
  <2>1. Keeps /\ UNCHANGED <<row, listVars, done>> /\ \E st : HSetStatus(i, st)
    BY <1>6, <1>g DEF SetCompleted, SetDlq, SetDelayed, Goto
  <2>2. Others
    BY <1>t, <1>i, <2>1, OneIdWritten
  <2> QED BY <1>i, <2>1, <2>2 DEF Keeps
<1>7. CASE SetActive(s)
  <2>1. Keeps /\ UNCHANGED <<row, listVars, done>>
    BY <1>7, <1>g DEF SetActive, Goto
  <2>2. \A j \in Jobs \ {i} : hash'[j] = hash[j]
    BY <1>7, <1>t, <1>i DEF SetActive, StoreTypeOK
  <2> QED BY <1>i, <2>1, <2>2 DEF Keeps
<1>8. CASE HandlerReturns(s)
  <2>1. Keeps /\ UNCHANGED storeVars /\ done' = done \cup {i}
    BY <1>8, <1>g DEF HandlerReturns
  <2> QED BY <1>i, <2>1 DEF Keeps, storeVars
<1>9. CASE AckCompleted(s) \/ AckDlq(s) \/ AckDelayed(s)
  <2>1. Keeps /\ UNCHANGED <<row, hash, queue, delayed, dlq, done>> /\ Ack(s)
    BY <1>9, <1>g, <1>r DEF AckCompleted, AckDlq, AckDelayed, Goto, Release
  <2> QED BY <1>a, <1>i, <2>1 DEF Keeps
<1>10. CASE PushDlq(s)
  <2>1. Keeps /\ UNCHANGED <<row, hash, queue, delayed, processing, done>>
    BY <1>10, <1>g DEF PushDlq, Goto
  <2>2. Others
    BY <1>10, <1>t, <1>i, <2>1, OneIdWritten DEF PushDlq
  <2> QED BY <1>i, <2>1, <2>2 DEF Keeps
<1>11. CASE ZAddDelayed(s)
  <2>1. Keeps /\ UNCHANGED <<row, hash, queue, dlq, processing, done>>
        /\ delayed' = delayed \cup {i}
    BY <1>11, <1>g DEF ZAddDelayed, Goto
  <2> QED BY <1>i, <2>1 DEF Keeps
<1>12. CASE CommandFails(s)
  <2>1. UNCHANGED storeVars /\ UNCHANGED done
        /\ (Release(s) \/ \E l : slot' = [slot EXCEPT ![s].pc = l])
    BY <1>12 DEF CommandFails, Goto, Release
  <2> QED BY <1>i, <1>n, <1>g, <1>r, <2>1 DEF Keeps
<1> QED
  BY <1>1, <1>2, <1>3, <1>4, <1>5, <1>6, <1>7, <1>8, <1>9, <1>10, <1>11, <1>12 DEF SlotStep

(* A scheduler moves only delayed jobs (scheduler.ts tick).                *)
LEMMA SchedulerMovesDue ==
  ASSUME TypeOK, SchedulerNext
  PROVE  \A j \in Jobs :
           j \notin delayed /\ (\A p \in Procs : j \notin Promoting(p)) =>
             /\ queue'[j] = queue[j] /\ j \notin delayed'
             /\ \A p \in Procs : j \notin Promoting(p)'
<1>1. PICK p \in Procs : SchedulerStep(p)
  BY DEF SchedulerNext
<1>t. /\ queue \in Bag
      /\ sched \in [Procs -> [pc : {"idle", "claim", "push", "mark"},
                              due : SUBSET Jobs, job : Jobs \cup {None}]]
      /\ sched[p].pc = "push" => sched[p].job \in Jobs
  BY DEF TypeOK, StoreTypeOK, SchedulerTypeOK
<1>2. SchedIdle.pc # "push" /\ \A due : TickWith(due).pc # "push"
  BY DEF SchedIdle, TickWith
<1>m. ASSUME NEW x, sched' = [sched EXCEPT ![p] = x], x.pc # "push", delayed' = delayed,
             NEW j \in Jobs, j \notin delayed, \A q \in Procs : j \notin Promoting(q),
             queue' = queue
      PROVE  /\ queue'[j] = queue[j] /\ j \notin delayed'
             /\ \A q \in Procs : j \notin Promoting(q)'
  <2>1. \A q \in Procs : sched'[q] = IF q = p THEN x ELSE sched[q]
    BY <1>t, <1>m
  <2> QED BY <1>m, <2>1 DEF Promoting
<1>3. CASE \E due \in SUBSET delayed : FindDue(p, due)
  <2> PICK due \in SUBSET delayed : FindDue(p, due)
    BY <1>3
  <2> DEFINE x == [pc |-> "claim", due |-> due, job |-> None]
  <2>1. x.pc # "push" /\ sched' = [sched EXCEPT ![p] = x] /\ UNCHANGED <<delayed, queue>>
    BY DEF FindDue, storeVars, listVars
  <2> HIDE DEF x
  <2> QED BY <1>m, <2>1
<1>4. ASSUME NEW i \in Jobs, Claim(p, i)
      PROVE  \A j \in Jobs :
               j \notin delayed /\ (\A q \in Procs : j \notin Promoting(q)) =>
                 /\ queue'[j] = queue[j] /\ j \notin delayed'
                 /\ \A q \in Procs : j \notin Promoting(q)'
  <2> DEFINE x == [pc |-> "push", due |-> sched[p].due \ {i}, job |-> i]
  <2>1. x.job = i /\ sched' = [sched EXCEPT ![p] = x]
    BY <1>4 DEF Claim
  <2>2. i \in delayed /\ delayed' = delayed \ {i} /\ queue' = queue
    BY <1>4 DEF Claim
  <2> HIDE DEF x
  <2>3. \A q \in Procs : sched'[q] = IF q = p THEN x ELSE sched[q]
    BY <1>t, <2>1
  <2> QED BY <2>1, <2>2, <2>3 DEF Promoting
<1>5. CASE \E i \in Jobs : ClaimMissed(p, i)
  BY <1>2, <1>5, <1>m DEF ClaimMissed, storeVars, listVars
<1>6. CASE PushDue(p)
  <2> DEFINE x == [sched[p] EXCEPT !.pc = "mark"]
  <2>1. x.pc # "push" /\ sched' = [sched EXCEPT ![p] = x] /\ delayed' = delayed
    BY <1>6, <1>t DEF PushDue
  <2> HIDE DEF x
  <2>2. \A q \in Procs : sched'[q] = IF q = p THEN x ELSE sched[q]
    BY <1>t, <2>1
  <2>3. \A j \in Jobs : j \notin Promoting(p) => queue'[j] = queue[j]
    BY <1>6, <1>t, ListCommands DEF PushDue, Promoting
  <2> QED BY <2>1, <2>2, <2>3 DEF Promoting
<1>7. CASE MarkPending(p)
  BY <1>2, <1>7, <1>m DEF MarkPending, listVars
<1> QED BY <1>1, <1>3, <1>4, <1>5, <1>6, <1>7 DEF SchedulerStep

(* A janitor moves only jobs of a processing list it has read.             *)
LEMMA JanitorMovesOrphans ==
  ASSUME TypeOK, NEW p \in Procs, JanitorStep(p) \/ JanitorFails(p)
  PROVE  /\ UNCHANGED <<delayed, dlq>>
         /\ \A j \in Jobs : hash'[j].named = hash[j].named
         /\ \A q \in Procs, j \in Jobs : processing[q][j] = 0 => processing'[q][j] = 0
         /\ \A j \in Jobs :
              (\A q \in Procs : processing[q][j] = 0 /\ jan[q].todo[j] = 0) =>
                queue'[j] = queue[j] /\ \A q \in Procs : jan'[q].todo[j] = 0
<1> DEFINE Known(j) == ~ \A q \in Procs : processing[q][j] = 0 /\ jan[q].todo[j] = 0
           Effect == /\ UNCHANGED <<delayed, dlq>>
                     /\ \A j \in Jobs : hash'[j].named = hash[j].named
                     /\ \A q \in Procs, j \in Jobs :
                          processing[q][j] = 0 => processing'[q][j] = 0
                     /\ \A j \in Jobs : queue'[j] = queue[j] \/ Known(j)
                     /\ \A j \in Jobs, q \in Procs : jan'[q].todo[j] = 0 \/ Known(j)
<1>t. /\ jan \in [Procs -> [pc : JanitorPC, scan : SUBSET Procs, target : Procs \cup {None},
                            todo : Bag, job : Jobs \cup {None}]]
      /\ StoreTypeOK
      /\ processing \in [Procs -> Bag] /\ queue \in Bag
      /\ jan[p].pc \notin {"idle", "check"} => jan[p].target \in Procs
      /\ jan[p].pc \in {"reset", "pgReset"} => jan[p].job \in Jobs
  BY DEF TypeOK, JanitorTypeOK, StoreTypeOK
<1>0. \A j \in Jobs : NoTokens[j] = 0 /\ JanIdle.todo[j] = 0 /\ \A scan : ScanWith(scan).todo[j] = 0
  BY DEF NoTokens, JanIdle, ScanWith
<1>x. ASSUME NEW x, jan' = [jan EXCEPT ![p] = x],
             \A j \in Jobs : x.todo[j] = 0 \/ Known(j)
      PROVE  \A j \in Jobs, q \in Procs : jan'[q].todo[j] = 0 \/ Known(j)
  <2>1. \A q \in Procs : jan'[q] = IF q = p THEN x ELSE jan[q]
    BY <1>x, <1>t
  <2> QED BY <1>x, <2>1
<1>o. ASSUME NEW l, NEW scan, NEW target, NEW todo, NEW job,
             jan' = [jan EXCEPT ![p] = [pc |-> l, scan |-> scan, target |-> target,
                                        todo |-> todo, job |-> job]],
             \A j \in Jobs : todo[j] = 0 \/ Known(j)
      PROVE  \A j \in Jobs, q \in Procs : jan'[q].todo[j] = 0 \/ Known(j)
  <2> DEFINE x == [pc |-> l, scan |-> scan, target |-> target, todo |-> todo, job |-> job]
  <2>1. x.todo = todo /\ jan' = [jan EXCEPT ![p] = x]
    BY <1>o
  <2> HIDE DEF x, Known
  <2> QED BY <1>o, <2>1, <1>x
<1>p. ASSUME NEW l, jan' = [jan EXCEPT ![p].pc = l]
      PROVE  \A j \in Jobs, q \in Procs : jan'[q].todo[j] = 0 \/ Known(j)
  <2>1. [jan[p] EXCEPT !.pc = l].todo = jan[p].todo
    BY <1>t
  <2> QED BY <1>p, <2>1, <1>x
<1>s. ASSUME UNCHANGED <<hash, listVars>>,
             \A j \in Jobs, q \in Procs : jan'[q].todo[j] = 0 \/ Known(j)
      PROVE  Effect
  BY <1>s DEF listVars
<1> SUFFICES Effect
  OBVIOUS
<1> HIDE DEF Effect
<1>1. CASE JanTick(p) \/ JanitorFails(p) \/ DelDeadMeta(p) \/ \E w \in Procs : WorkerAlive(p, w)
  <2>1. /\ jan' = [jan EXCEPT ![p] = JanIdle]
           \/ \E scan : jan' = [jan EXCEPT ![p] = ScanWith(scan)]
        /\ UNCHANGED <<hash, listVars>>
    BY <1>1 DEF JanTick, JanitorFails, DelDeadMeta, WorkerAlive, storeVars, recordVars
  <2> HIDE DEF Known
  <2> QED BY <1>0, <1>s, <1>x, <2>1
<1>2. ASSUME NEW w \in Procs, WorkerDead(p, w)
      PROVE  Effect
  <2>1. UNCHANGED <<hash, listVars>>
    BY <1>2 DEF WorkerDead, storeVars, recordVars
  <2> HIDE DEF Known
  <2>2. \A j \in Jobs, q \in Procs : jan'[q].todo[j] = 0 \/ Known(j)
    BY <1>0, <1>2, <1>o DEF WorkerDead
  <2> QED BY <1>s, <2>1, <2>2
<1>3. CASE ListOrphans(p)
  <2>1. jan[p].target \in Procs /\ UNCHANGED <<hash, listVars>>
    BY <1>3, <1>t DEF ListOrphans, storeVars, recordVars
  <2>2. \A j \in Jobs : processing[jan[p].target][j] = 0 \/ Known(j)
    BY <2>1
  <2> HIDE DEF Known
  <2>3. \A j \in Jobs, q \in Procs : jan'[q].todo[j] = 0 \/ Known(j)
    BY <1>3, <1>o, <2>2 DEF ListOrphans
  <2> QED BY <1>s, <2>1, <2>3
<1>4. ASSUME NEW k \in Jobs, PushOrphan(p, k)
      PROVE  Effect
  <2>1. jan[p].todo[k] > 0 /\ queue' = LPush(queue, k)
        /\ UNCHANGED <<hash, delayed, dlq, processing>> /\ jan[p].todo \in Bag
    BY <1>4, <1>t DEF PushOrphan, recordVars
  <2>2. Known(k)
    BY <2>1
  <2>3. \A j \in Jobs : LRem(jan[p].todo, k)[j] = 0 \/ Known(j)
    BY <2>1, <2>2, ListCommands
  <2>4. \A j \in Jobs : queue'[j] = queue[j] \/ Known(j)
    BY <1>t, <2>1, <2>2, ListCommands
  <2> HIDE DEF Known
  <2>5. \A j \in Jobs, q \in Procs : jan'[q].todo[j] = 0 \/ Known(j)
    BY <1>4, <1>o, <2>3 DEF PushOrphan
  <2> QED BY <2>1, <2>4, <2>5 DEF Effect
<1>5. CASE ResetOrphan(p)
  <2>1. \A j \in Jobs : hash'[j].named = hash[j].named
    BY <1>5, <1>t, StatusKeepsNames DEF ResetOrphan
  <2> QED BY <1>5, <1>p, <2>1 DEF ResetOrphan, listVars, Effect
<1>6. CASE PgResetOrphan(p)
  <2>1. UNCHANGED <<hash, listVars>>
    BY <1>6 DEF PgResetOrphan
  <2>2. \A j \in Jobs : jan[p].todo[j] = 0 \/ Known(j)
    OBVIOUS
  <2> HIDE DEF Known
  <2>3. \A j \in Jobs, q \in Procs : jan'[q].todo[j] = 0 \/ Known(j)
    BY <1>6, <1>o, <2>2 DEF PgResetOrphan
  <2> QED BY <1>s, <2>1, <2>3
<1>7. CASE DelProcessing(p)
  <2>1. /\ UNCHANGED <<hash, delayed, dlq, queue>>
        /\ \A q \in Procs : processing'[q] \in {processing[q], NoTokens}
        /\ jan' = [jan EXCEPT ![p].pc = "deregister"]
    BY <1>7, <1>t DEF DelProcessing, recordVars
  <2> QED BY <1>0, <1>p, <2>1 DEF Effect
<1>8. CASE DeregisterDead(p)
  BY <1>8, <1>p, <1>s DEF DeregisterDead, recordVars
<1> QED BY <1>1, <1>2, <1>3, <1>4, <1>5, <1>6, <1>7, <1>8 DEF JanitorStep

(* A pull loop moves only jobs of the queue (worker.ts pullJob).           *)
LEMMA LoopMovesQueued ==
  ASSUME TypeOK, NEW p \in Procs,
         LoopStep(p) \/ PullError(p) \/ \E j \in Jobs : PullReplyLost(p, j)
  PROVE  /\ UNCHANGED <<recordVars, delayed, dlq, fleetVars, phase, done>>
         /\ \A j \in Jobs : queue[j] = 0 =>
              /\ queue'[j] = 0
              /\ \A q \in Procs : processing'[q][j] = processing[q][j]
              /\ \A s \in Slots : slot'[s] = slot[s] \/ slot'[s].job # j
<1> DEFINE Effect == \A j \in Jobs : queue[j] = 0 =>
                       /\ queue'[j] = 0
                       /\ \A q \in Procs : processing'[q][j] = processing[q][j]
                       /\ \A s \in Slots : slot'[s] = slot[s] \/ slot'[s].job # j
<1>t. queue \in Bag /\ processing \in [Procs -> Bag]
      /\ slot \in [Slots -> [pc : SlotPC, job : Jobs \cup {None}, seen : Nat]]
  BY DEF TypeOK, StoreTypeOK, WorkerTypeOK
<1>1. ASSUME NEW k \in Jobs, queue[k] > 0, queue' = LRem(queue, k),
             processing' = [processing EXCEPT ![p] = LPush(@, k)],
             \A s \in Slots : slot'[s] = slot[s] \/ slot'[s].job = k
      PROVE  Effect
  <2> SUFFICES ASSUME NEW j \in Jobs, queue[j] = 0
               PROVE  /\ queue'[j] = 0
                      /\ \A q \in Procs : processing'[q][j] = processing[q][j]
                      /\ j # k
    BY <1>1
  <2>1. j # k
    BY <1>1
  <2>2. processing[p] \in Bag
    BY <1>t
  <2> QED BY <1>1, <1>t, <2>1, <2>2, ListCommands
<1>2. ASSUME NEW s \in Slots, NEW k \in Jobs, Pull(p, s, k)
      PROVE  Effect
  <2> DEFINE x == [pc |-> "load", job |-> k, seen |-> 0]
  <2>1. x.job = k /\ slot' = [slot EXCEPT ![s] = x]
    BY <1>2 DEF Pull
  <2> HIDE DEF x, Effect
  <2>2. \A t \in Slots : slot'[t] = slot[t] \/ slot'[t].job = k
    BY <1>t, <2>1
  <2> QED BY <1>1, <1>2, <2>2 DEF Pull
<1>3. ASSUME NEW k \in Jobs, PullReplyLost(p, k)
      PROVE  Effect
  <2> HIDE DEF Effect
  <2> QED BY <1>1, <1>3 DEF PullReplyLost
<1>4. CASE ScanEmpty(p) \/ BlockedTimeout(p) \/ Resume(p) \/ PullError(p)
  BY <1>4 DEF ScanEmpty, BlockedTimeout, Resume, PullError, storeVars, listVars
<1>5. UNCHANGED <<recordVars, delayed, dlq, fleetVars, phase, done>>
  BY DEF LoopStep, ScanPull, BlockedPull, Pull, ScanEmpty, BlockedTimeout, Resume, PullError,
         PullReplyLost, storeVars, listVars
<1>6. Effect
  <2> HIDE DEF Effect
  <2> QED BY <1>2, <1>3, <1>4 DEF LoopStep, ScanPull, BlockedPull, Effect
<1> QED BY <1>5, <1>6

(* What the end of a process forgets (worker/src/index.ts).                *)
LEMMA KillForgets ==
  ASSUME TypeOK, NEW p \in Procs, Kill(p)
  PROVE  /\ UNCHANGED <<storeVars, enqueue, done, req>>
         /\ \A s \in Slots : slot'[s] \in {slot[s], FreeSlot}
         /\ \A q \in Procs : jan'[q] \in {jan[q], JanIdle} /\ sched'[q] \in {sched[q], SchedIdle}
         /\ \A q \in Procs : Promoting(q)' \subseteq Promoting(q)
<1>1. /\ UNCHANGED <<storeVars, enqueue, done, req>>
      /\ \A s \in Slots : slot'[s] \in {slot[s], FreeSlot}
      /\ \A q \in Procs : jan'[q] \in {jan[q], JanIdle} /\ sched'[q] \in {sched[q], SchedIdle}
  BY DEF Kill, TypeOK, JanitorTypeOK, SchedulerTypeOK
<1> QED BY <1>1 DEF Promoting, SchedIdle

(* While no request is made, a job is known to others only when it has     *)
(* been pushed.                                                            *)
LEMMA FreshKept ==
  ASSUME TypeOK, TypeOK', BudgetInv, ActorInv, FreshInv, [Next]_vars, ~ Used("request")'
  PROVE  FreshInv'
<1>0. ~ Spend("request")
  BY Unspent DEF Kinds
<1>t. StoreTypeOK /\ StoreTypeOK' /\ queue \in Bag /\ ProducerTypeOK
  BY DEF TypeOK, StoreTypeOK
<1>n. ASSUME UNCHANGED <<hash, listVars, enqueue, req, jan, done>>,
             \A j \in Jobs : Fresh(j) =>
               /\ \A s \in Slots : slot'[s].job # j
               /\ \A p \in Procs : j \notin Promoting(p)'
      PROVE  FreshInv'
  BY <1>n DEF listVars, FreshInv, Fresh
<1>1. CASE ProducerNext
  <2>1. PICK j \in Jobs : InsertRow(j) \/ PushFirst(j) \/ EnqueueFails(j)
    BY <1>1 DEF ProducerNext
  <2>2. UNCHANGED <<slot, done, sched, jan, req>>
    BY <1>1 DEF ProducerNext, ProducerFrame, workerVars
  <2>3. CASE InsertRow(j) \/ EnqueueFails(j)
    <3>1. /\ UNCHANGED <<hash, listVars>> /\ enqueue[j] # "done" /\ enqueue'[j] # "done"
          /\ \A i \in Jobs \ {j} : enqueue'[i] = enqueue[i]
      BY <1>t, <2>3 DEF InsertRow, InsertPendingJob, InsertDelayedJob, EnqueueFails, Enqueueing,
                        storeVars, recordVars, ProducerTypeOK
    <3> QED BY <2>2, <3>1 DEF FreshInv, Fresh, listVars, Promoting
  <2>4. CASE PushFirst(j)
    <3>1. /\ UNCHANGED <<dlq, processing>> /\ enqueue'[j] = "done"
          /\ \A i \in Jobs \ {j} : /\ enqueue'[i] = enqueue[i] /\ queue'[i] = queue[i]
                                   /\ hash'[i] = hash[i] /\ (i \in delayed' <=> i \in delayed)
          /\ hash'[j].named
      BY <1>t, <2>4, OneIdWritten
      DEF PushFirst, EnqueueNow, EnqueueLater, NewHash, ProducerTypeOK, StoreTypeOK
    <3> QED BY <2>2, <3>1 DEF FreshInv, Fresh, Promoting
  <2> QED BY <2>1, <2>3, <2>4
<1>s. ASSUME NEW s \in Slots, SlotStep(s) \/ CommandFails(s), UNCHANGED <<enqueue, sched, jan, req>>
      PROVE  FreshInv'
  <2>1. \A j \in Jobs : Fresh(j) => j # slot[s].job
    BY DEF Fresh
  <2>2. \A j \in Jobs : hash'[j].named = hash[j].named
    BY <1>s, SlotEffects DEF SlotEffect, ListsGrow
  <2>3. None \notin Jobs
    OBVIOUS
  <2>4. \A j \in Jobs : Fresh(j) => Fresh(j)'
    BY <1>s, <2>1, <2>3, SlotOwnJob DEF Fresh, Untouched, Promoting
  <2> QED BY <1>s, <2>2, <2>4 DEF FreshInv
<1>l. ASSUME NEW p \in Procs, LoopStep(p) \/ PullError(p) \/ \E j \in Jobs : PullReplyLost(p, j),
             UNCHANGED <<enqueue, sched, jan, req>>
      PROVE  FreshInv'
  <2>1. \A j \in Jobs : Fresh(j) => Fresh(j)'
    BY <1>l, LoopMovesQueued DEF Fresh, recordVars, Promoting
  <2>2. UNCHANGED hash
    BY <1>l, LoopMovesQueued DEF recordVars
  <2> QED BY <1>l, <2>1, <2>2 DEF FreshInv
<1>p. ASSUME NEW p \in Procs, LifeStep(p) \/ BeatSet(p) \/ DrainTimeout(p) \/ Stop(p),
             UNCHANGED <<enqueue, sched, jan, req>>
      PROVE  FreshInv'
  <2>1. UNCHANGED <<hash, listVars, slot, done>>
    BY <1>p
    DEF LifeStep, Register, FirstBeat, Describe, MarkDraining, Drained, JoinLoop, Deregister,
        DelHeartbeat, DelMeta, BeatMeta, BeatSet, DrainTimeout, Stop, storeVars, recordVars
  <2> QED BY <1>p, <1>n, <2>1 DEF Fresh, Promoting
<1>2. CASE WorkerNext
  BY <1>2, <1>s, <1>l, <1>p DEF WorkerNext, WorkerFrame
<1>3. CASE WorkerFault
  <2>1. UNCHANGED <<enqueue, sched, jan, req>>
    BY <1>3 DEF WorkerFault
  <2>2. \/ \E p \in Procs :
             \/ PullError(p) \/ \E j \in Jobs : PullReplyLost(p, j)
             \/ BeatSet(p) \/ DrainTimeout(p) \/ Stop(p)
        \/ \E s \in Slots : CommandFails(s)
    BY <1>3, ZenonT(30) DEF WorkerFault
  <2> QED BY <2>1, <2>2, <1>s, <1>l, <1>p
<1>4. CASE SchedulerNext
  <2>1. PICK p \in Procs : SchedulerStep(p) /\ SchedulerFrame
    BY <1>4 DEF SchedulerNext
  <2>2. UNCHANGED <<dlq, processing, enqueue, slot, done, jan, req>>
    BY <2>1 DEF SchedulerFrame, workerVars, SchedulerStep, FindDue, Claim, ClaimMissed, PushDue,
                MarkPending, storeVars, listVars
  <2>3. \A j \in Jobs : hash'[j].named = hash[j].named
    BY <1>t, <2>1, StatusKeepsNames
    DEF SchedulerStep, FindDue, Claim, ClaimMissed, PushDue, MarkPending, storeVars, recordVars,
        TypeOK, SchedulerTypeOK
  <2>4. \A j \in Jobs : Fresh(j) => Fresh(j)'
    BY <1>4, <2>2, <2>3, SchedulerMovesDue DEF Fresh
  <2> QED BY <2>2, <2>3, <2>4 DEF FreshInv
<1>5. CASE JanitorNext
  <2>1. PICK p \in Procs : JanitorStep(p) \/ JanitorFails(p)
    BY <1>5 DEF JanitorNext
  <2>2. UNCHANGED <<enqueue, slot, done, sched, req>>
    BY <1>5 DEF JanitorNext, JanitorFrame, workerVars
  <2>3. \A j \in Jobs : Fresh(j) => Fresh(j)'
    BY <2>1, <2>2, JanitorMovesOrphans DEF Fresh, Promoting
  <2> QED BY <2>1, <2>2, <2>3, JanitorMovesOrphans DEF FreshInv
<1>6. CASE DlqApiNext
  BY <1>0, <1>6
  DEF DlqApiNext, RequestStep, ResetRow, ResetHash, DropFromDlq, PushBackToQueue, RequestFails,
      FreshInv
<1>7. ASSUME NEW p \in Procs, Crash(p) \/ Exit(p)
      PROVE  FreshInv'
  <2>1. Kill(p)
    BY <1>7 DEF Crash, Exit
  <2>2. FreeSlot.job \notin Jobs /\ \A j \in Jobs : JanIdle.todo[j] = 0
    BY DEF FreeSlot, JanIdle, NoTokens
  <2>3. \A j \in Jobs : Fresh(j) => Fresh(j)'
    BY <2>1, <2>2, KillForgets DEF Fresh, storeVars, recordVars, listVars
  <2> QED BY <2>1, <2>3, KillForgets DEF FreshInv, storeVars, recordVars
<1>8. ASSUME NEW p \in Procs, Launch(p) \/ Expire(p)
      PROVE  FreshInv'
  BY <1>8, <1>n DEF Launch, Expire, storeVars, recordVars, workerVars, Fresh, Promoting
<1>9. CASE ApiCrash
  <2>1. /\ UNCHANGED <<storeVars, workerVars, sched, jan>>
        /\ \A j \in Jobs : enqueue'[j] = "done" <=> enqueue[j] = "done"
        /\ \A r \in Requests : req'[r].pc = "idle"
    BY <1>9 DEF ApiCrash, Enqueueing, ReqIdle
  <2> QED BY <2>1 DEF FreshInv, Fresh, Promoting, storeVars, recordVars, listVars, workerVars
<1>10. CASE UNCHANGED vars
  BY <1>10, <1>n DEF vars, storeVars, recordVars, workerVars, Fresh, Promoting
<1> QED BY <1>1, <1>2, <1>3, <1>4, <1>5, <1>6, <1>7, <1>8, <1>9, <1>10 DEF Next, ProcessNext

LEMMA InitFresh == Init => FreshInv
<1> SUFFICES ASSUME Init PROVE FreshInv
  OBVIOUS
<1>1. \A j \in Jobs : enqueue[j] = "new" /\ Fresh(j)
  BY DEF Init, StoreInit, ProducerInit, WorkerInit, SchedulerInit, JanitorInit, FreeSlot,
         SchedIdle, JanIdle, NoTokens, Fresh, Promoting
<1>2. \A r \in Requests : req[r].pc = "idle"
  BY DEF Init, DlqApiInit, ReqIdle
<1> QED BY <1>1, <1>2 DEF FreshInv

(* A job that is done, and of which no token is left, has no actor.        *)
LEMMA AcknowledgedKept ==
  ASSUME TypeOK, TypeOK', BudgetInv, ActorInv, FreshInv, [Next]_vars, ~ Used("request")',
         ~ Used("io")', NEW j \in Jobs, Acknowledged(j)
  PROVE  Acknowledged(j)'
<1>0. ~ Spend("request") /\ ~ Spend("io")
  BY Unspent DEF Kinds
<1>t. StoreTypeOK /\ queue \in Bag /\ dlq \in Bag /\ ProducerTypeOK
  BY DEF TypeOK, StoreTypeOK
<1>a. /\ j \in done /\ queue[j] = 0 /\ dlq[j] = 0 /\ j \notin delayed
      /\ \A p \in Procs : processing[p][j] = 0 /\ jan[p].todo[j] = 0 /\ j \notin Promoting(p)
      /\ \A s \in Slots : ~ Holding(s, j)
      /\ \A r \in Requests : req[r].pc = "idle"
      /\ enqueue[j] = "done"
  BY <1>t DEF Acknowledged, Waiting, InHand, FreshInv, Fresh, Bag
<1>b. ASSUME /\ j \in done' /\ queue'[j] = 0 /\ dlq'[j] = 0 /\ j \notin delayed'
             /\ \A p \in Procs : processing'[p][j] = 0 /\ jan'[p].todo[j] = 0 /\ j \notin Promoting(p)'
             /\ \A s \in Slots : ~ Holding(s, j)'
             /\ \A r \in Requests : req'[r].pc = "idle"
      PROVE  Acknowledged(j)'
  BY <1>b DEF Acknowledged, Waiting, InHand, Requeueing
<1>n. ASSUME UNCHANGED <<listVars, slot, done, sched, jan, req>>
      PROVE  Acknowledged(j)'
  BY <1>n DEF listVars, Acknowledged, Waiting, InHand, Promoting, Requeueing, Holding
<1>1. CASE ProducerNext
  <2>1. PICK i \in Jobs : InsertRow(i) \/ PushFirst(i) \/ EnqueueFails(i)
    BY <1>1 DEF ProducerNext
  <2>2. UNCHANGED <<slot, done, sched, jan, req>>
    BY <1>1 DEF ProducerNext, ProducerFrame, workerVars
  <2>3. i # j
    BY <1>a, <2>1
    DEF InsertRow, InsertPendingJob, InsertDelayedJob, PushFirst, EnqueueNow, EnqueueLater,
        EnqueueFails, Enqueueing
  <2>4. /\ UNCHANGED <<dlq, processing>> /\ queue'[j] = queue[j]
        /\ (j \in delayed' <=> j \in delayed)
    BY <1>t, <2>1, <2>3, OneIdWritten
    DEF InsertRow, InsertPendingJob, InsertDelayedJob, PushFirst, EnqueueNow, EnqueueLater,
        EnqueueFails, storeVars, recordVars, listVars
  <2> QED BY <1>a, <1>b, <2>2, <2>4 DEF Promoting, Holding
<1>s. ASSUME NEW s \in Slots, SlotStep(s), UNCHANGED <<sched, jan, req>>
      PROVE  Acknowledged(j)'
  <2>1. CASE slot[s].job # j
    <3>1. Untouched(j) /\ (j \in done' <=> j \in done) /\ slot'[s].job # j
          /\ \A t \in Slots \ {s} : slot'[t] = slot[t]
      BY <1>s, <2>1, SlotOwnJob
    <3> QED BY <1>a, <1>b, <1>s, <3>1 DEF Untouched, Promoting, Holding
  <2>2. CASE slot[s].job = j
    <3>1. slot[s].pc \in {"sleep", "reread", "ackDelayed", "ackDlq"}
      BY <1>a, <2>2 DEF Holding
    <3>2. Sleep(s) \/ Reread(s) \/ AckDelayed(s) \/ AckDlq(s)
      BY <1>s, <3>1
      DEF SlotStep, At, Load, Allowed, Denied, PushBack, PgActive, SetActive, HandlerReturns,
          HandlerFails, PgCompleted, SetCompleted, AckCompleted, FailLoad, PgDlq, SetDlq,
          PushDlq, PgDelayed, SetDelayed, ZAddDelayed
    <3>3. /\ UNCHANGED <<queue, dlq, delayed>> /\ Release(s)
          /\ UNCHANGED processing \/ Ack(s)
      BY <3>2 DEF Sleep, Reread, AckDelayed, AckDlq, storeVars, listVars
    <3>4. \A p \in Procs : processing'[p][j] = processing[p][j]
      BY <1>a, <1>t, <2>2, <3>3, AckTakesOne
    <3>5. slot'[s].job = None /\ UNCHANGED done /\ \A t \in Slots \ {s} : slot'[t] = slot[t]
      BY <3>3, ReleaseFreesOne DEF TypeOK
    <3> QED BY <1>a, <1>b, <1>s, <3>3, <3>4, <3>5 DEF Promoting, Holding
  <2> QED BY <2>1, <2>2
<1>l. ASSUME NEW p \in Procs, LoopStep(p), UNCHANGED <<sched, jan, req>>
      PROVE  Acknowledged(j)'
  <2>1. /\ UNCHANGED <<delayed, dlq, done>> /\ queue'[j] = 0
        /\ \A q \in Procs : processing'[q][j] = processing[q][j]
        /\ \A s \in Slots : slot'[s] = slot[s] \/ slot'[s].job # j
    BY <1>a, <1>l, LoopMovesQueued
  <2> QED BY <1>a, <1>b, <1>l, <2>1 DEF Promoting, Holding
<1>p. ASSUME NEW p \in Procs, LifeStep(p) \/ BeatSet(p) \/ DrainTimeout(p) \/ Stop(p),
             UNCHANGED <<sched, jan, req>>
      PROVE  Acknowledged(j)'
  BY <1>p, <1>n
  DEF LifeStep, Register, FirstBeat, Describe, MarkDraining, Drained, JoinLoop, Deregister,
      DelHeartbeat, DelMeta, BeatMeta, BeatSet, DrainTimeout, Stop, storeVars
<1>2. CASE WorkerNext
  BY <1>2, <1>s, <1>l, <1>p DEF WorkerNext, WorkerFrame
<1>3. CASE WorkerFault
  <2>1. UNCHANGED <<sched, jan, req>>
    BY <1>3 DEF WorkerFault
  <2>2. \E p \in Procs : BeatSet(p) \/ DrainTimeout(p) \/ Stop(p)
    BY <1>0, <1>3, ZenonT(30) DEF WorkerFault
  <2> QED BY <2>1, <2>2, <1>p
<1>4. CASE SchedulerNext
  <2>1. PICK p \in Procs : SchedulerStep(p) /\ SchedulerFrame
    BY <1>4 DEF SchedulerNext
  <2>2. UNCHANGED <<dlq, processing, slot, done, jan, req>>
    BY <2>1 DEF SchedulerFrame, workerVars, SchedulerStep, FindDue, Claim, ClaimMissed, PushDue,
                MarkPending, storeVars, listVars
  <2>3. queue'[j] = queue[j] /\ j \notin delayed' /\ \A q \in Procs : j \notin Promoting(q)'
    BY <1>4, <1>a, SchedulerMovesDue
  <2> QED BY <1>a, <1>b, <2>2, <2>3 DEF Holding
<1>5. CASE JanitorNext
  <2>1. PICK p \in Procs : JanitorStep(p) \/ JanitorFails(p)
    BY <1>5 DEF JanitorNext
  <2>2. UNCHANGED <<slot, done, sched, req>>
    BY <1>5 DEF JanitorNext, JanitorFrame, workerVars
  <2>3. /\ UNCHANGED <<delayed, dlq>> /\ queue'[j] = queue[j]
        /\ \A q \in Procs : processing'[q][j] = 0 /\ jan'[q].todo[j] = 0
    BY <1>a, <2>1, JanitorMovesOrphans
  <2> QED BY <1>a, <1>b, <2>2, <2>3 DEF Holding, Promoting
<1>6. CASE DlqApiNext
  BY <1>0, <1>6, <1>a
  DEF DlqApiNext, RequestStep, ResetRow, ResetHash, DropFromDlq, PushBackToQueue, RequestFails
<1>7. ASSUME NEW p \in Procs, Crash(p) \/ Exit(p)
      PROVE  Acknowledged(j)'
  <2>1. Kill(p)
    BY <1>7 DEF Crash, Exit
  <2>2. FreeSlot.job # j /\ JanIdle.todo[j] = 0
    BY DEF FreeSlot, JanIdle, NoTokens
  <2> QED BY <1>a, <1>b, <2>1, <2>2, KillForgets DEF Holding, storeVars, listVars
<1>8. ASSUME NEW p \in Procs, Launch(p) \/ Expire(p)
      PROVE  Acknowledged(j)'
  BY <1>8, <1>n DEF Launch, Expire, storeVars, workerVars
<1>9. CASE ApiCrash
  <2>1. /\ UNCHANGED <<storeVars, workerVars, sched, jan>>
        /\ \A r \in Requests : req'[r].pc = "idle"
    BY <1>9 DEF ApiCrash, ReqIdle
  <2> QED BY <1>a, <1>b, <2>1 DEF Promoting, storeVars, listVars, workerVars, Holding
<1>10. CASE UNCHANGED vars
  BY <1>10, <1>n DEF vars, storeVars, workerVars
<1> QED BY <1>1, <1>2, <1>3, <1>4, <1>5, <1>6, <1>7, <1>8, <1>9, <1>10 DEF Next, ProcessNext

(* A job that has succeeded and been acknowledged is never taken up again, *)
(* whatever crashes, stalls, stops or is started, as long as no command    *)
(* fails and nobody requeues it (worker.ts complete, janitor.ts).          *)
THEOREM AcknowledgedIsFinal ==
  Spec /\ [](~ Used("io") /\ ~ Used("request")) => AcknowledgedStays
<1> DEFINE Q == ~ Used("io") /\ ~ Used("request")
           AInv == BudgetInv /\ ActorInv /\ FreshInv
<1>1. Init => AInv
  BY InitCustody, InitFresh DEF CustodyInv
<1>2. TypeOK /\ TypeOK' /\ Q' /\ AInv /\ [Next]_vars => AInv'
  BY Unspent, ActorKept, FreshKept
<1>3. TypeOK /\ TypeOK' /\ Q' /\ AInv /\ [Next]_vars
        => [\A j \in Jobs : Acknowledged(j) => Acknowledged(j)']_vars
  BY AcknowledgedKept
<1> QED BY <1>1, <1>2, <1>3, TypeCorrect, PTL DEF Spec, AcknowledgedStays

-----------------------------------------------------------------------------
(* Processes that crash strand no job. *)

(* Processes crash; nothing else fails, stops or is started, and nobody    *)
(* requeues a job.                                                         *)
OnlyCrashes == \A k \in Kinds \ {"crash", "beat", "timeout"} : ~ Used(k)

(* A process that is up pulls and is registered.  Each token in its list   *)
(* belongs to a slot that will remove it.  A list with tokens is that of a *)
(* registered process, and a janitor that deregisters one has emptied it.  *)
StrandInv ==
  /\ \A p \in Procs : /\ phase[p] \in {"off", "up"}
                      /\ phase[p] = "up" <=> p \in Pulling
                      /\ phase[p] = "up" => p \in registry
  /\ \A p \in Pulling, j \in Jobs \ done : processing[p][j] <= Cardinality(Unacked(p, j))
  /\ \A p \in Procs, j \in Jobs : processing[p][j] > 0 => p \in registry
  /\ \A q \in Procs, j \in Jobs : jan[q].pc = "deregister" => processing[jan[q].target][j] = 0

LEMMA StrandStill ==
  ASSUME StrandInv, UNCHANGED <<phase, loop, slot, processing, registry, jan>>, done \subseteq done'
  PROVE  StrandInv'
<1>1. \A p \in Procs, j \in Jobs : Unacked(p, j)' = Unacked(p, j)
  BY DEF Unacked
<1>2. Pulling' = Pulling /\ Pulling \subseteq Procs
  BY DEF Pulling
<1>3. \A p \in Pulling', j \in Jobs \ done' : processing'[p][j] <= Cardinality(Unacked(p, j)')
  BY <1>1, <1>2 DEF StrandInv
<1> QED BY <1>2, <1>3 DEF StrandInv

(* A slot lets go of a job without an ACK only when the job is done or the *)
(* token has been removed (worker.ts processOne).                          *)
LEMMA LetGoOfNothing ==
  ASSUME TypeOK, ActorInv, NEW s \in Slots, SlotStep(s), LetsGo(s),
         NEW j \in Jobs \ done, slot[s].job = j, hash[j].named
  PROVE  \/ slot[s].pc = "sleep"
         \/ slot[s].pc \in AckPC /\ processing[Owner[s]][j] = 0
<1>t. StoreTypeOK /\ WorkerTypeOK /\ Owner[s] \in Procs
  BY DEF TypeOK
<1>2. slot'[s].pc = "free" /\ UNCHANGED processing
  BY DEF LetsGo
<1>g. ASSUME NEW l, Goto(s, l)
      PROVE  slot'[s].pc = l
  BY <1>t, <1>g, GotoMovesOne DEF Goto
<1>3. Sleep(s) \/ Reread(s) \/ AckDlq(s) \/ AckDelayed(s)
  <2>1. CASE Load(s)
    <3> DEFINE x == [pc |-> IF RateLimited THEN "limit" ELSE "pgActive", job |-> slot[s].job,
                     seen |-> hash[slot[s].job].attempts]
    <3>1. x.pc # "free" /\ slot' = [slot EXCEPT ![s] = x]
      BY <2>1 DEF Load
    <3> HIDE DEF x
    <3> QED BY <1>2, <1>t, <3>1 DEF WorkerTypeOK
  <2>2. CASE HandlerReturns(s)
    <3>1. slot' = [slot EXCEPT ![s].pc = "pgCompleted"]
      BY <2>2 DEF HandlerReturns
    <3>2. slot'[s].pc = "pgCompleted"
      BY <1>t, <3>1, GotoMovesOne
    <3> QED BY <1>2, <3>2
  <2>3. CASE \E l \in SlotPC \ {"free"} : Goto(s, l)
    BY <1>2, <1>g, <2>3
  <2>4. \/ Load(s) \/ HandlerReturns(s) \/ Sleep(s) \/ Reread(s) \/ AckDlq(s) \/ AckDelayed(s)
        \/ \E l \in SlotPC \ {"free"} : Goto(s, l)
    BY DEF SlotStep, Allowed, Denied, PushBack, PgActive, SetActive, HandlerFails, PgCompleted,
           SetCompleted, AckCompleted, FailLoad, PgDlq, SetDlq, PushDlq, PgDelayed, SetDelayed,
           ZAddDelayed, SlotPC, CompletePC, FailurePC
  <2> QED BY <2>1, <2>2, <2>3, <2>4
<1>4. CASE Sleep(s)   BY <1>4 DEF Sleep, At
<1>5. CASE Reread(s)  BY <1>5 DEF Reread, At, ActorInv, CompletePC
<1>6. CASE AckDlq(s) \/ AckDelayed(s)
  <2>1. Ack(s) /\ slot[s].pc \in AckPC
    BY <1>6 DEF AckDlq, AckDelayed, At, AckPC
  <2>2. processing[Owner[s]][j] \in Nat
    BY <1>t DEF StoreTypeOK, Bag
  <2> QED BY <1>2, <1>t, <2>1, <2>2, AckTakesOne
<1> QED BY <1>3, <1>4, <1>5, <1>6

LEMMA SlotKeepsStrand ==
  ASSUME TypeOK, TypeOK', ActorInv, FreshInv, StrandInv, NEW s \in Slots, SlotStep(s), WorkerFrame
  PROVE  StrandInv'
<1>0. UNCHANGED <<phase, loop, registry, jan>> /\ Pulling' = Pulling /\ SlotEffect(s)
  BY SlotLeavesLife, SlotEffects DEF WorkerFrame, Pulling
<1>1. StoreTypeOK /\ \A p \in Procs, j \in Jobs : processing[p][j] \in Nat /\ processing'[p][j] \in Nat
  BY DEF TypeOK, StoreTypeOK, Bag
<1>2. slot[s].job \in Jobs
  BY SlotOwnJob
<1>3. \A p \in Procs, j \in Jobs : processing'[p][j] <= processing[p][j]
  BY <1>0, <1>1, <1>2, AckTakesOne DEF SlotEffect, Works, Stores, Acks, LetsGo
<1>4. ASSUME NEW p \in Pulling, NEW j \in Jobs \ done
      PROVE  processing'[p][j] <= Cardinality(Unacked(p, j)')
  <2>1. p \in Procs /\ processing[p][j] <= Cardinality(Unacked(p, j))
    BY <1>4 DEF StrandInv, Pulling
  <2>2. /\ Cardinality(Unacked(p, j)) \in Nat
        /\ s \in Unacked(p, j) =>
             Cardinality(Unacked(p, j) \ {s}) = Cardinality(Unacked(p, j)) - 1
        /\ s \in Unacked(p, j) => Cardinality(Unacked(p, j)) > 0
    BY AckingSlots, SlotCounts
  <2>3. CASE processing'[p][j] = processing[p][j] /\ Unacked(p, j)' = Unacked(p, j)
    BY <2>1, <2>3
  <2>4. CASE /\ processing'[p][j] = IF processing[p][j] > 0 THEN processing[p][j] - 1 ELSE 0
             /\ s \in Unacked(p, j) /\ Unacked(p, j)' = Unacked(p, j) \ {s}
    <3>1. Cardinality(Unacked(p, j)') = Cardinality(Unacked(p, j)) - 1
      BY <2>2, <2>4
    <3> QED BY <1>1, <2>1, <2>2, <2>4, <3>1
  <2>5. CASE /\ LetsGo(s) /\ p = Owner[s] /\ j = slot[s].job
             /\ processing'[p][j] = processing[p][j]
             /\ Unacked(p, j)' = Unacked(p, j) \ {s}
    <3>a. hash[j].named
      BY <2>5 DEF FreshInv, Fresh
    <3>1. slot[s].pc = "sleep" \/ processing[p][j] = 0
      BY <2>5, <3>a, LetGoOfNothing
    <3>2. CASE slot[s].pc = "sleep"
      <4>1. Unacked(p, j)' = Unacked(p, j)
        BY <2>5, <3>2 DEF Unacked
      <4> QED BY <2>1, <2>5, <4>1
    <3>3. CASE processing[p][j] = 0
      <4>1. Unacked(p, j)' \in SUBSET Slots
        BY <2>5 DEF Unacked
      <4>2. Cardinality(Unacked(p, j)') \in Nat
        BY <4>1, SlotCounts
      <4> QED BY <2>5, <3>3, <4>2
    <3> QED BY <3>1, <3>2, <3>3
  <2> QED BY <1>0, <2>1, <2>3, <2>4, <2>5, SlotSets
<1>5. \A p \in Pulling', j \in Jobs \ done' : processing'[p][j] <= Cardinality(Unacked(p, j)')
  BY <1>0, <1>4 DEF SlotEffect, ListsGrow
<1>6. \A p \in Procs, j \in Jobs : processing'[p][j] > 0 => p \in registry'
  BY <1>0, <1>1, <1>3 DEF StrandInv
<1>7. \A q \in Procs, j \in Jobs : jan'[q].pc = "deregister" => processing'[jan'[q].target][j] = 0
  <2> SUFFICES ASSUME NEW q \in Procs, NEW j \in Jobs, jan[q].pc = "deregister"
               PROVE  processing'[jan[q].target][j] = 0
    BY <1>0
  <2>1. jan[q].target \in Procs /\ processing[jan[q].target][j] = 0
    BY DEF StrandInv, TypeOK, JanitorTypeOK
  <2> QED BY <1>1, <1>3, <2>1
<1> QED BY <1>0, <1>5, <1>6, <1>7 DEF StrandInv

(* A pull loop takes jobs only into slots of a process that is up          *)
(* (worker.ts pullLoop).                                                   *)
LEMMA LoopKeepsStrand ==
  ASSUME TypeOK, TypeOK', FleetInv, StrandInv, NEW p \in Procs, LoopStep(p), WorkerFrame
  PROVE  StrandInv'
<1>t. /\ StoreTypeOK /\ WorkerTypeOK
      /\ slot \in [Slots -> [pc : SlotPC, job : Jobs \cup {None}, seen : Nat]]
      /\ \A q \in Procs, j \in Jobs : processing[q][j] \in Nat
  BY DEF TypeOK, WorkerTypeOK, StoreTypeOK, Bag
<1>0. UNCHANGED <<phase, registry, jan, done>>
  BY LoopMovesQueued DEF fleetVars, WorkerFrame
<1>1. p \in Pulling
  BY DEF LoopStep, ScanPull, BlockedPull, ScanEmpty, BlockedTimeout, Resume, Pulling
<1>2. phase[p] = "up" /\ p \in registry
  BY <1>1 DEF StrandInv
<1>3. \A q \in Procs : loop'[q] = loop[q] \/ (q = p /\ loop'[q] \in {"blocked", "full", "scan"})
  <2>1. \A busy : LoopNext(p, busy) \in {"full", "scan"}
    BY <1>2 DEF LoopNext, Stopping
  <2>2. \E l \in {"blocked", "full", "scan"} : loop' = [loop EXCEPT ![p] = l]
    BY <2>1
    DEF LoopStep, ScanPull, BlockedPull, Pull, ScanEmpty, BlockedTimeout, Resume
  <2> QED BY <1>t, <2>2 DEF WorkerTypeOK
<1>4. Pulling' = Pulling
  BY <1>1, <1>3 DEF Pulling
<1>s. ASSUME \A q \in Procs, j \in Jobs :
               \/ processing'[q][j] = processing[q][j] /\ Unacked(q, j)' = Unacked(q, j)
               \/ /\ q = p /\ processing'[q][j] = processing[q][j] + 1
                  /\ \E s \in Slots \ Unacked(q, j) : Unacked(q, j)' = Unacked(q, j) \cup {s}
      PROVE  StrandInv'
  <2>1. ASSUME NEW q \in Pulling, NEW j \in Jobs \ done
        PROVE  processing'[q][j] <= Cardinality(Unacked(q, j)')
    <3>1. q \in Procs /\ processing[q][j] <= Cardinality(Unacked(q, j))
      BY <2>1 DEF StrandInv, Pulling
    <3>2. /\ Cardinality(Unacked(q, j)) \in Nat
          /\ \A s \in Slots \ Unacked(q, j) :
               Cardinality(Unacked(q, j) \cup {s}) = Cardinality(Unacked(q, j)) + 1
      BY AckingSlots, SlotCounts
    <3>3. CASE processing'[q][j] = processing[q][j] /\ Unacked(q, j)' = Unacked(q, j)
      BY <3>1, <3>3
    <3>4. CASE /\ processing'[q][j] = processing[q][j] + 1
               /\ \E s \in Slots \ Unacked(q, j) : Unacked(q, j)' = Unacked(q, j) \cup {s}
      <4>1. Cardinality(Unacked(q, j)') = Cardinality(Unacked(q, j)) + 1
        BY <3>2, <3>4
      <4> QED BY <1>t, <3>1, <3>2, <3>4, <4>1
    <3> QED BY <1>s, <3>1, <3>3, <3>4
  <2>2. \A q \in Procs, j \in Jobs : processing'[q][j] > 0 => q \in registry'
    BY <1>0, <1>2, <1>s DEF StrandInv
  <2>3. \A q \in Procs : jan[q].pc = "deregister" => jan[q].target \in Procs /\ jan[q].target # p
    BY <1>1 DEF FleetInv, JanitorSparesTheLiving, Pulling, TypeOK, JanitorTypeOK
  <2>4. \A q \in Procs, j \in Jobs : jan'[q].pc = "deregister" => processing'[jan'[q].target][j] = 0
    BY <1>0, <1>s, <2>3 DEF StrandInv
  <2>5. \A q \in Procs : /\ phase'[q] \in {"off", "up"}
                         /\ phase'[q] = "up" <=> q \in Pulling'
                         /\ phase'[q] = "up" => q \in registry'
    BY <1>0, <1>4 DEF StrandInv
  <2> QED BY <1>0, <1>4, <2>1, <2>2, <2>4, <2>5 DEF StrandInv
<1>5. CASE UNCHANGED <<processing, slot>>
  BY <1>5, <1>s DEF Unacked
<1>6. ASSUME NEW s \in Slots, NEW i \in Jobs, Pull(p, s, i)
      PROVE  StrandInv'
  <2> DEFINE x == [pc |-> "load", job |-> i, seen |-> 0]
  <2>1. /\ x.pc = "load" /\ x.job = i /\ slot' = [slot EXCEPT ![s] = x] /\ slot[s].pc = "free"
        /\ Owner[s] = p /\ processing' = [processing EXCEPT ![p] = LPush(@, i)]
    BY <1>6 DEF Pull
  <2> HIDE DEF x
  <2>2. \A t \in Slots : slot'[t] = IF t = s THEN x ELSE slot[t]
    BY <1>t, <2>1
  <2>3. \A q \in Procs, j \in Jobs :
          processing'[q][j] = IF q = p /\ j = i THEN processing[q][j] + 1 ELSE processing[q][j]
    <3> TAKE q \in Procs, j \in Jobs
    <3>1. processing[q] \in Bag /\ processing'[q] = IF q = p THEN LPush(processing[q], i) ELSE processing[q]
      BY <1>t, <2>1 DEF StoreTypeOK
    <3> QED BY <3>1, ListCommands
  <2>4. s \notin Unacked(p, i) /\ Unacked(p, i)' = Unacked(p, i) \cup {s}
    BY <2>1, <2>2 DEF Unacked
  <2>5. \A q \in Procs, j \in Jobs : ~ (q = p /\ j = i) => Unacked(q, j)' = Unacked(q, j)
    BY <2>1, <2>2 DEF Unacked
  <2>6. \A q \in Procs, j \in Jobs :
          \/ processing'[q][j] = processing[q][j] /\ Unacked(q, j)' = Unacked(q, j)
          \/ /\ q = p /\ processing'[q][j] = processing[q][j] + 1
             /\ \E t \in Slots \ Unacked(q, j) : Unacked(q, j)' = Unacked(q, j) \cup {t}
    BY <2>3, <2>4, <2>5
  <2> QED BY <1>s, <2>6
<1>7. UNCHANGED <<processing, slot>> \/ \E s \in Slots, j \in Jobs : Pull(p, s, j)
  BY DEF LoopStep, ScanPull, BlockedPull, ScanEmpty, BlockedTimeout, Resume, storeVars, listVars
<1> QED BY <1>5, <1>6, <1>7

(* A janitor deregisters a process after it has deleted its list.          *)
LEMMA JanitorStrands ==
  ASSUME TypeOK, NEW p \in Procs, JanitorStep(p)
  PROVE  \/ DelProcessing(p) \/ DeregisterDead(p)
         \/ /\ UNCHANGED <<processing, registry>>
            /\ \E x : jan' = [jan EXCEPT ![p] = x] /\ x.pc # "deregister"
<1> DEFINE Goes == \E x : jan' = [jan EXCEPT ![p] = x] /\ x.pc # "deregister"
<1>0. \A scan : ScanWith(scan).pc # "deregister"
  BY DEF ScanWith, JanIdle
<1>k. ASSUME NEW l, l # "deregister", NEW scan, NEW target, NEW todo, NEW job,
             jan' = [jan EXCEPT ![p] = [pc |-> l, scan |-> scan, target |-> target,
                                        todo |-> todo, job |-> job]]
      PROVE  Goes
  <2> DEFINE x == [pc |-> l, scan |-> scan, target |-> target, todo |-> todo, job |-> job]
  <2>1. x.pc = l /\ jan' = [jan EXCEPT ![p] = x]
    BY <1>k
  <2> HIDE DEF x
  <2> QED BY <1>k, <2>1
<1> USE DEF storeVars, listVars, fleetVars
<1>1. CASE JanTick(p)
  BY <1>0, <1>1 DEF JanTick
<1>2. ASSUME NEW w \in Procs, WorkerAlive(p, w)
      PROVE  UNCHANGED <<processing, registry>> /\ Goes
  BY <1>0, <1>2 DEF WorkerAlive
<1>3. ASSUME NEW w \in Procs, WorkerDead(p, w)
      PROVE  UNCHANGED <<processing, registry>> /\ Goes
  BY <1>3, <1>k DEF WorkerDead
<1>4. CASE ListOrphans(p)
  BY <1>4, <1>k DEF ListOrphans, NextOrphan
<1>5. ASSUME NEW j \in Jobs, PushOrphan(p, j)
      PROVE  UNCHANGED <<processing, registry>> /\ Goes
  BY <1>5, <1>k DEF PushOrphan
<1>6. CASE ResetOrphan(p)
  <2>1. [jan[p] EXCEPT !.pc = "pgReset"].pc = "pgReset"
    BY DEF TypeOK, JanitorTypeOK
  <2>2. UNCHANGED <<processing, registry>> /\ jan' = [jan EXCEPT ![p] = [jan[p] EXCEPT !.pc = "pgReset"]]
    BY <1>6 DEF ResetOrphan
  <2> QED BY <2>1, <2>2
<1>7. CASE PgResetOrphan(p)
  BY <1>7, <1>k DEF PgResetOrphan, NextOrphan
<1>8. CASE DelDeadMeta(p)
  BY <1>0, <1>8 DEF DelDeadMeta
<1> QED BY <1>1, <1>2, <1>3, <1>4, <1>5, <1>6, <1>7, <1>8 DEF JanitorStep

LEMMA JanitorKeepsStrand ==
  ASSUME TypeOK, TypeOK', FleetInv, StrandInv, NEW p \in Procs, JanitorStep(p), JanitorFrame
  PROVE  StrandInv'
<1> DEFINE w == jan[p].target
<1>t. /\ StoreTypeOK /\ DOMAIN jan = Procs /\ DOMAIN processing = Procs
      /\ jan[p].pc \notin {"idle", "check"} => jan[p].target \in Procs
      /\ \A q \in Procs, j \in Jobs : processing[q][j] \in Nat
  BY DEF TypeOK, JanitorTypeOK, StoreTypeOK, Bag
<1>0. UNCHANGED <<phase, loop, slot, done>> /\ Pulling' = Pulling
  BY DEF JanitorFrame, workerVars, lifeVars, Pulling
<1>1. \A q \in Procs, j \in Jobs : Unacked(q, j)' = Unacked(q, j)
  BY <1>0 DEF Unacked
<1>2. w \in Procs => w \notin Pulling /\ phase[w] # "up"
  BY DEF FleetInv, JanitorSparesTheLiving, Pulling, StrandInv
<1>3. CASE DelProcessing(p)
  <2>1. jan[p].pc = "delList" /\ w \in Procs /\ UNCHANGED registry
    BY <1>3, <1>t DEF DelProcessing, fleetVars
  <2>2. \A q \in Procs, j \in Jobs : processing'[q][j] = IF q = w THEN 0 ELSE processing[q][j]
    BY <1>3, <1>t DEF DelProcessing, NoTokens
  <2>3. \A q \in Procs : jan'[q].target = jan[q].target
    BY <1>3 DEF DelProcessing, TypeOK, JanitorTypeOK
  <2>4. \A q \in Procs \ {p} : jan'[q] = jan[q]
    BY <1>3, <1>t DEF DelProcessing
  <2>5. \A q \in Procs, j \in Jobs : jan'[q].pc = "deregister" => processing'[jan'[q].target][j] = 0
    <3> SUFFICES ASSUME NEW q \in Procs, NEW j \in Jobs, jan'[q].pc = "deregister"
                 PROVE  processing'[jan[q].target][j] = 0
      BY <2>3
    <3>1. CASE q = p
      BY <2>1, <2>2, <3>1
    <3>2. CASE q # p
      <4>1. jan[q].pc = "deregister" /\ jan[q].target \in Procs /\ processing[jan[q].target][j] = 0
        BY <2>4, <3>2 DEF StrandInv, TypeOK, JanitorTypeOK
      <4> QED BY <2>2, <4>1
    <3> QED BY <3>1, <3>2
  <2>6. \A q \in Pulling', j \in Jobs \ done' : processing'[q][j] <= Cardinality(Unacked(q, j)')
    BY <1>0, <1>1, <1>2, <2>2 DEF StrandInv, Pulling
  <2>7. \A q \in Procs, j \in Jobs : processing'[q][j] > 0 => q \in registry'
    BY <2>1, <2>2 DEF StrandInv
  <2> QED BY <1>0, <2>1, <2>5, <2>6, <2>7 DEF StrandInv
<1>s. ASSUME UNCHANGED processing,
             \A q \in Procs : q \in registry =>
               q \in registry' \/ (phase[q] # "up" /\ \A j \in Jobs : processing[q][j] = 0),
             \A q \in Procs : jan'[q].pc = "deregister" => jan'[q] = jan[q]
      PROVE  StrandInv'
  <2>1. \A q \in Pulling', j \in Jobs \ done' : processing'[q][j] <= Cardinality(Unacked(q, j)')
    BY <1>0, <1>1, <1>s DEF StrandInv, Pulling
  <2>2. \A q \in Procs, j \in Jobs : jan'[q].pc = "deregister" => processing'[jan'[q].target][j] = 0
    BY <1>s DEF StrandInv
  <2>3. \A q \in Procs, j \in Jobs : processing'[q][j] > 0 => q \in registry'
    <3> SUFFICES ASSUME NEW q \in Procs, NEW j \in Jobs, processing[q][j] > 0
                 PROVE  q \in registry'
      BY <1>s
    <3>1. q \in registry
      BY DEF StrandInv
    <3> QED BY <1>s, <3>1
  <2>4. \A q \in Procs : /\ phase'[q] \in {"off", "up"}
                         /\ phase'[q] = "up" <=> q \in Pulling'
                         /\ phase'[q] = "up" => q \in registry'
    BY <1>0, <1>s DEF StrandInv
  <2> QED BY <2>1, <2>2, <2>3, <2>4 DEF StrandInv
<1>4. CASE DeregisterDead(p)
  <2>1. /\ jan[p].pc = "deregister" /\ w \in Procs /\ UNCHANGED processing
        /\ registry' = registry \ {w}
    BY <1>4, <1>t DEF DeregisterDead, listVars
  <2>2. \A j \in Jobs : processing[w][j] = 0
    BY <2>1 DEF StrandInv
  <2>3. jan'[p].pc = "delMeta" /\ \A q \in Procs \ {p} : jan'[q] = jan[q]
    BY <1>4 DEF DeregisterDead, TypeOK, JanitorTypeOK
  <2> QED BY <1>2, <1>s, <2>1, <2>2, <2>3
<1>5. CASE /\ UNCHANGED <<processing, registry>>
           /\ \E x : jan' = [jan EXCEPT ![p] = x] /\ x.pc # "deregister"
  <2>1. PICK x : jan' = [jan EXCEPT ![p] = x] /\ x.pc # "deregister"
    BY <1>5
  <2>2. \A q \in Procs : jan'[q] = IF q = p THEN x ELSE jan[q]
    BY <1>t, <2>1
  <2> QED BY <1>5, <1>s, <2>1, <2>2
<1> QED BY <1>3, <1>4, <1>5, JanitorStrands

LEMMA KillKeepsStrand ==
  ASSUME TypeOK, StrandInv, NEW p \in Procs, Kill(p)
  PROVE  StrandInv'
<1>1. /\ UNCHANGED <<processing, registry, done>>
      /\ \A q \in Procs : jan'[q] \in {jan[q], JanIdle}
  BY KillForgets DEF storeVars, listVars, fleetVars
<1>2. \A q \in Procs \ {p} : phase'[q] = phase[q] /\ loop'[q] = loop[q]
  BY DEF Kill, TypeOK, WorkerTypeOK
<1>3. phase'[p] = "off" /\ loop'[p] = "off"
  BY DEF Kill, TypeOK, WorkerTypeOK
<1>4. \A q \in Procs \ {p}, j \in Jobs : Unacked(q, j)' = Unacked(q, j)
  BY DEF Kill, Unacked
<1>5. Pulling' = Pulling \ {p}
  BY <1>2, <1>3 DEF Pulling
<1>6. \A q \in Pulling', j \in Jobs \ done' : processing'[q][j] <= Cardinality(Unacked(q, j)')
  <2> SUFFICES ASSUME NEW q \in Pulling \ {p}, NEW j \in Jobs \ done
               PROVE  processing[q][j] <= Cardinality(Unacked(q, j)')
    BY <1>1, <1>5
  <2>1. Unacked(q, j)' = Unacked(q, j) /\ processing[q][j] <= Cardinality(Unacked(q, j))
    BY <1>4 DEF StrandInv, Pulling
  <2> QED BY <2>1
<1>7. \A q \in Procs, j \in Jobs : jan'[q].pc = "deregister" => processing'[jan'[q].target][j] = 0
  BY <1>1 DEF StrandInv, JanIdle
<1>8. \A q \in Procs : /\ phase'[q] \in {"off", "up"}
                       /\ phase'[q] = "up" <=> q \in Pulling'
                       /\ phase'[q] = "up" => q \in registry'
  BY <1>1, <1>2, <1>3, <1>5 DEF StrandInv
<1> QED BY <1>1, <1>6, <1>7, <1>8 DEF StrandInv

(* While processes only crash, StrandInv is kept. *)
LEMMA StrandKept ==
  ASSUME TypeOK, TypeOK', BudgetInv, ActorInv, FleetInv, FreshInv, StrandInv, [Next]_vars,
         OnlyCrashes'
  PROVE  StrandInv'
<1>0. \A k \in {"io", "stop", "start", "stall", "request"} : ~ Spend(k)
  BY Unspent DEF OnlyCrashes, Kinds
<1> USE DEF workerVars, lifeVars, storeVars, listVars, fleetVars
<1>1. CASE ProducerNext
  <2>1. PICK j \in Jobs : InsertRow(j) \/ PushFirst(j) \/ EnqueueFails(j)
    BY <1>1 DEF ProducerNext
  <2>2. UNCHANGED processing
    BY <2>1 DEF InsertRow, InsertPendingJob, InsertDelayedJob, PushFirst, EnqueueNow, EnqueueLater,
                EnqueueFails
  <2>3. UNCHANGED <<slot, done>>
    BY <1>1 DEF ProducerNext, ProducerFrame
  <2> QED BY <1>1, <2>2, <2>3, OthersLeaveLife, StrandStill
<1>2. ASSUME NEW p \in Procs, LifeStep(p), WorkerFrame
      PROVE  StrandInv'
  <2>1. BeatMeta(p)
    BY <1>2
    DEF StrandInv, LifeStep, Phases, Register, FirstBeat, Describe, MarkDraining, Drained,
        JoinLoop, Deregister, DelHeartbeat, DelMeta
  <2> QED BY <1>2, <2>1, StrandStill DEF BeatMeta, WorkerFrame
<1>3. CASE WorkerNext
  BY <1>2, <1>3, LoopKeepsStrand, SlotKeepsStrand DEF WorkerNext
<1>4. CASE WorkerFault
  <2>1. \E p \in Procs : BeatSet(p) \/ DrainTimeout(p)
    BY <1>0, <1>4, ZenonT(30) DEF WorkerFault
  <2>2. PICK p \in Procs : BeatSet(p)
    BY <2>1 DEF StrandInv, DrainTimeout, Phases
  <2>3. UNCHANGED jan
    BY <1>4 DEF WorkerFault
  <2> QED BY <2>2, <2>3, StrandStill DEF BeatSet
<1>5. CASE SchedulerNext
  <2>1. PICK p \in Procs : SchedulerStep(p) /\ SchedulerFrame
    BY <1>5 DEF SchedulerNext
  <2>2. UNCHANGED processing
    BY <2>1 DEF SchedulerStep, FindDue, Claim, ClaimMissed, PushDue, MarkPending
  <2>3. UNCHANGED <<slot, done>>
    BY <2>1 DEF SchedulerFrame
  <2> QED BY <1>5, <2>2, <2>3, OthersLeaveLife, StrandStill
<1>6. CASE JanitorNext
  BY <1>0, <1>6, JanitorKeepsStrand DEF JanitorNext
<1>7. CASE DlqApiNext
  BY <1>0, <1>7 DEF DlqApiNext, FreshInv, RequestStep, ResetRow, ResetHash, DropFromDlq, PushBackToQueue
<1>8. CASE ApiCrash
  BY <1>8, StrandStill DEF ApiCrash
<1>9. ASSUME NEW p \in Procs, Crash(p) \/ Exit(p)
      PROVE  StrandInv'
  BY <1>9, KillKeepsStrand DEF Crash, Exit
<1>10. ASSUME NEW p \in Procs, Launch(p)
       PROVE  FALSE
  BY <1>0, <1>10 DEF Launch
<1>11. ASSUME NEW p \in Procs, Expire(p)
       PROVE  StrandInv'
  BY <1>11, StrandStill DEF Expire
<1>12. CASE UNCHANGED vars
  BY <1>12, StrandStill DEF vars
<1> QED
  BY <1>1, <1>3, <1>4, <1>5, <1>6, <1>7, <1>8, <1>9, <1>10, <1>11, <1>12 DEF Next, ProcessNext

LEMMA InitStrand == Init => StrandInv
<1> SUFFICES ASSUME Init PROVE StrandInv
  OBVIOUS
<1>1. \A p \in Procs, j \in Jobs : processing[p][j] = 0 /\ Cardinality(Unacked(p, j)) \in Nat
  BY AckingSlots DEF Init, StoreInit
<1>2. \A p \in Procs, j \in Jobs : processing[p][j] <= Cardinality(Unacked(p, j))
  <2> TAKE p \in Procs, j \in Jobs
  <2>1. processing[p][j] = 0 /\ Cardinality(Unacked(p, j)) \in Nat
    BY <1>1
  <2> QED BY <2>1
<1>3. \A p \in Procs : /\ phase[p] \in {"off", "up"}
                       /\ phase[p] = "up" <=> p \in Pulling
                       /\ phase[p] = "up" => p \in registry
  BY DEF Init, StoreInit, WorkerInit, Pulling
<1>4. \A q \in Procs : jan[q].pc # "deregister"
  BY DEF Init, JanitorInit, JanIdle
<1> QED BY <1>1, <1>2, <1>3, <1>4 DEF StrandInv, Pulling

(* What the crashes of the past have not undone. *)
CrashInv == CustodyInv /\ (OnlyCrashes => FreshInv /\ StrandInv)

(* While processes only crash, no job is stranded: an accepted job that    *)
(* has not been executed waits in a list, is worked on by a slot, or is in *)
(* the processing list of a dead process that janitors still find in the   *)
(* registry, or have listed (worker.ts, janitor.ts tick).                  *)
THEOREM CrashesStrandNoJob == Spec => [](OnlyCrashes => Recoverable)
<1>1. TypeOK /\ TypeOK' /\ CrashInv /\ [Next]_vars => CrashInv'
  <2> SUFFICES ASSUME TypeOK, TypeOK', CrashInv, [Next]_vars
               PROVE  CrashInv'
    OBVIOUS
  <2>1. CustodyInv'
    BY ActorKept, Unspent, NoLapse, FleetKept, CustodyKept DEF CrashInv, CustodyInv
  <2>2. ASSUME OnlyCrashes'
        PROVE  FreshInv' /\ StrandInv'
    <3>1. OnlyCrashes /\ ~ Lapsed /\ ~ Used("request")'
      BY <2>2, Unspent DEF CrashInv, CustodyInv, OnlyCrashes, Kinds, Lapsed
    <3> QED BY <2>2, <3>1, FreshKept, StrandKept DEF CrashInv, CustodyInv
  <2> QED BY <2>1, <2>2 DEF CrashInv
<1>2. TypeOK /\ CrashInv => (OnlyCrashes => Recoverable)
  <2> SUFFICES ASSUME TypeOK, CrashInv, OnlyCrashes, NEW j \in Jobs, Accepted(j),
                      j \notin done \cup dropped, ~ Waiting(j)
               PROVE  \E p \in Procs : Attended(p, j)
    BY DEF Recoverable
  <2>1. HeldInv /\ StrandInv
    BY DEF CrashInv, CustodyInv, Lapsed, OnlyCrashes, Kinds
  <2>2. PICK p \in Procs : Safe(p, j)
    BY <2>1 DEF HeldInv, Held
  <2>3. processing[p][j] \in Nat /\ Cardinality(Acking(p, j)) \in Nat
    BY AckingSlots DEF TypeOK, StoreTypeOK, Bag
  <2>4. processing[p][j] > 0
    BY <2>2, <2>3 DEF Safe
  <2>5. CASE phase[p] = "up"
    <3>1. processing[p][j] <= Cardinality(Unacked(p, j))
      BY <2>1, <2>5 DEF StrandInv
    <3>2. Unacked(p, j) # {}
      <4> SUFFICES ASSUME Unacked(p, j) = {} PROVE FALSE
        OBVIOUS
      <4>1. Cardinality(Unacked(p, j)) = 0
        BY FS_EmptySet
      <4> QED BY <2>3, <2>4, <3>1, <4>1
    <3> QED BY <3>2 DEF Unacked, Attended
  <2>6. CASE phase[p] # "up"
    BY <2>1, <2>4, <2>6 DEF StrandInv, Attended
  <2> QED BY <2>5, <2>6
<1> QED BY <1>1, <1>2, InitCustody, InitFresh, InitStrand, TypeCorrect, PTL DEF Spec, CrashInv

-----------------------------------------------------------------------------
(* A heartbeat that lapses loses no job, as long as no process ends. *)

(* No process crashes or is told to stop, and no command fails.            *)
NobodyEnds == ~ Used("crash") /\ ~ Used("stop") /\ ~ Used("io")

(* A slot works on j and has neither stored nor acknowledged it.           *)
InHands(s, j) == slot[s].job = j /\ slot[s].pc \notin {"free", "sleep"} \cup AckPC

(* Janitors may delete any list: what has not been executed waits, or is   *)
(* in the hands of a slot, without regard to the processing lists.         *)
HandsInv ==
  /\ \A p \in Procs : phase[p] \notin Stopping
  /\ \A j \in Jobs : Accepted(j) =>
       j \in done \cup dropped \/ Waiting(j) \/ \E s \in Slots : InHands(s, j)

(* A step that leaves the slots alone and makes no job stop waiting.       *)
LEMMA HandsStill ==
  ASSUME HandsInv, UNCHANGED slot, \A p \in Procs : phase'[p] \notin Stopping,
         done \subseteq done', dropped \subseteq dropped',
         \A j \in Jobs : Accepted(j)' => Accepted(j) \/ Waiting(j)',
         \A j \in Jobs : Waiting(j) => Waiting(j)' \/ j \in dropped'
  PROVE  HandsInv'
<1>1. \A s \in Slots, j \in Jobs : InHands(s, j)' = InHands(s, j)
  BY DEF InHands
<1> QED BY <1>1 DEF HandsInv

(* A slot stores its job before it acknowledges it, and lets go only of a  *)
(* job that is stored or done (worker.ts processOne).                      *)
LEMMA SlotKeepsHands ==
  ASSUME TypeOK, TypeOK', ActorInv, HandsInv, NEW s \in Slots, SlotStep(s), WorkerFrame
  PROVE  HandsInv'
<1>1. SlotEffect(s)
  BY SlotEffects DEF WorkerFrame
<1>2. UNCHANGED phase /\ UNCHANGED <<sched, req, dropped>>
  BY SlotLeavesLife DEF WorkerFrame
<1>3. ASSUME NEW j \in Jobs, Accepted(j)', j \notin done' \cup dropped', ~ Waiting(j)'
      PROVE  \E t \in Slots : InHands(t, j)'
  <2>1. /\ hash[j].named /\ j \notin done \cup dropped
        /\ queue[j] <= queue'[j] /\ dlq[j] <= dlq'[j] /\ delayed \subseteq delayed'
    BY <1>1, <1>2, <1>3 DEF SlotEffect, ListsGrow, Accepted
  <2>2. ~ Waiting(j)
    BY <1>2, <1>3, <2>1, WaitingGrows
  <2>3. PICK t \in Slots : InHands(t, j)
    BY <2>1, <2>2 DEF HandsInv, Accepted
  <2>4. CASE t # s
    <3>1. slot'[t] = slot[t]
      BY <1>1, <2>4 DEF SlotEffect
    <3> QED BY <2>3, <3>1 DEF InHands
  <2>5. CASE t = s
    <3>0. slot[s].job = j /\ slot[s].pc \notin {"free", "sleep"} \cup AckPC
      BY <2>3, <2>5 DEF InHands
    <3>1. CASE Works(s)
      BY <3>0, <3>1 DEF Works, InHands
    <3>2. CASE Stores(s)
      BY <1>3, <3>0, <3>2 DEF Stores
    <3>3. CASE Acks(s)
      BY <1>3, <2>1, <3>0, <3>3 DEF Acks
    <3>4. CASE LetsGo(s)
      BY <2>1, <3>0, <3>4, LetGoOfNothing
    <3> QED BY <1>1, <3>1, <3>2, <3>3, <3>4 DEF SlotEffect
  <2> QED BY <2>4, <2>5
<1> QED BY <1>2, <1>3 DEF HandsInv

(* A pull puts the job it takes into the hands of a free slot (worker.ts   *)
(* pullJob).                                                               *)
LEMMA LoopKeepsHands ==
  ASSUME TypeOK, HandsInv, NEW p \in Procs, LoopStep(p), WorkerFrame
  PROVE  HandsInv'
<1>1. UNCHANGED <<hash, delayed, dlq, phase, done, sched, req, dropped>>
  BY LoopMovesQueued DEF WorkerFrame, recordVars
<1>2. ASSUME NEW s \in Slots, NEW i \in Jobs, Pull(p, s, i)
      PROVE  HandsInv'
  <2> DEFINE x == [pc |-> "load", job |-> i, seen |-> 0]
  <2>1. /\ x.pc = "load" /\ x.job = i /\ slot' = [slot EXCEPT ![s] = x] /\ slot[s].pc = "free"
        /\ queue' = LRem(queue, i)
    BY <1>2 DEF Pull
  <2> HIDE DEF x
  <2>2. \A t \in Slots : slot'[t] = IF t = s THEN x ELSE slot[t]
    BY <2>1 DEF TypeOK, WorkerTypeOK
  <2>3. InHands(s, i)'
    BY <2>1, <2>2 DEF InHands, AckPC
  <2>4. \A t \in Slots, j \in Jobs : InHands(t, j) => InHands(t, j)'
    BY <2>1, <2>2 DEF InHands
  <2>5. \A j \in Jobs \ {i} : queue'[j] = queue[j]
    BY <2>1, ListCommands DEF TypeOK, StoreTypeOK
  <2>6. \A j \in Jobs \ {i} : Waiting(j) => Waiting(j)'
    BY <1>1, <2>5 DEF Waiting, InHand, Promoting, Requeueing
  <2> QED BY <1>1, <2>3, <2>4, <2>6 DEF HandsInv, Accepted
<1>3. CASE UNCHANGED <<queue, slot>>
  <2>1. \A j \in Jobs : Waiting(j) => Waiting(j)'
    BY <1>1, <1>3 DEF Waiting, InHand, Promoting, Requeueing
  <2>2. \A q \in Procs : phase'[q] \notin Stopping
    BY <1>1 DEF HandsInv
  <2> QED BY <1>1, <1>3, <2>1, <2>2, HandsStill DEF Accepted
<1>4. UNCHANGED <<queue, slot>> \/ \E s \in Slots, j \in Jobs : Pull(p, s, j)
  BY DEF LoopStep, ScanPull, BlockedPull, ScanEmpty, BlockedTimeout, Resume, storeVars, listVars
<1> QED BY <1>2, <1>3, <1>4

(* A janitor takes nothing out of the lists in which jobs wait.            *)
LEMMA JanitorKeepsHands ==
  ASSUME TypeOK, TypeOK', HandsInv, NEW p \in Procs, JanitorStep(p) \/ JanitorFails(p), JanitorFrame
  PROVE  HandsInv'
<1>1. UNCHANGED <<delayed, dlq>> /\ \A j \in Jobs : hash'[j].named = hash[j].named
  BY JanitorMovesOrphans
<1>2. UNCHANGED <<phase, slot, done, sched, req, dropped>>
  BY DEF JanitorFrame, workerVars, lifeVars
<1>3. \A j \in Jobs : queue[j] <= queue'[j]
  <2>1. queue \in Bag
    BY DEF TypeOK, StoreTypeOK
  <2>2. CASE UNCHANGED queue
    BY <2>1, <2>2, PushGrows
  <2>3. ASSUME NEW i \in Jobs, PushOrphan(p, i)
        PROVE  \A j \in Jobs : queue[j] <= queue'[j]
    BY <2>1, <2>3, PushGrows DEF PushOrphan
  <2>4. UNCHANGED queue \/ \E i \in Jobs : PushOrphan(p, i)
    BY DEF JanitorStep, JanTick, WorkerAlive, WorkerDead, ListOrphans, ResetOrphan, PgResetOrphan,
           DelProcessing, DeregisterDead, DelDeadMeta, JanitorFails, storeVars, listVars
  <2> QED BY <2>2, <2>3, <2>4
<1>4. \A j \in Jobs : dlq[j] <= dlq'[j]
  BY <1>1, PushGrows DEF TypeOK, StoreTypeOK
<1>5. \A j \in Jobs : Waiting(j) => Waiting(j)'
  BY <1>1, <1>2, <1>3, <1>4, WaitingGrows
<1>6. \A q \in Procs : phase'[q] \notin Stopping
  BY <1>2 DEF HandsInv
<1> QED BY <1>1, <1>2, <1>5, <1>6, HandsStill DEF Accepted

(* While no process ends, HandsInv is kept, whatever lapses.               *)
LEMMA HandsKept ==
  ASSUME TypeOK, TypeOK', BudgetInv, ActorInv, HandsInv, [Next]_vars, NobodyEnds'
  PROVE  HandsInv'
<1>0. ~ Spend("crash") /\ ~ Spend("stop") /\ ~ Spend("io")
  BY Unspent DEF NobodyEnds, Kinds
<1>n. ASSUME UNCHANGED <<hash, listVars, slot, done, sched, req, dropped>>,
             \A p \in Procs : phase'[p] \notin Stopping
      PROVE  HandsInv'
  <2>1. \A j \in Jobs : Waiting(j)' = Waiting(j) /\ Accepted(j)' = Accepted(j)
    BY <1>n DEF listVars, Waiting, InHand, Promoting, Requeueing, Accepted
  <2> QED BY <1>n, <2>1, HandsStill
<1>p. ASSUME UNCHANGED phase
      PROVE  \A p \in Procs : phase'[p] \notin Stopping
  BY <1>p DEF HandsInv
<1>1. CASE ProducerNext
  BY <1>1, <1>p, ProducerKeepsWaiting, HandsStill
<1>2. ASSUME NEW p \in Procs, LifeStep(p) \/ BeatSet(p) \/ DrainTimeout(p),
             UNCHANGED <<sched, req, dropped>>
      PROVE  HandsInv'
  <2>1. UNCHANGED <<hash, listVars, slot, done>>
    BY <1>2
    DEF LifeStep, Register, FirstBeat, Describe, MarkDraining, Drained, JoinLoop, Deregister,
        DelHeartbeat, DelMeta, BeatMeta, BeatSet, DrainTimeout, storeVars, recordVars
  <2>2. \A q \in Procs : phase'[q] \notin Stopping
    <3>1. phase[p] \notin Stopping
      BY DEF HandsInv
    <3>2. Register(p) \/ FirstBeat(p) \/ Describe(p) \/ BeatMeta(p) \/ BeatSet(p)
      BY <1>2, <3>1
      DEF LifeStep, Phases, MarkDraining, Drained, JoinLoop, Deregister, DelHeartbeat, DelMeta,
          DrainTimeout, Stopping
    <3> QED BY <3>2 DEF HandsInv, Register, FirstBeat, Describe, BeatMeta, BeatSet, Phases, Stopping,
                        TypeOK, WorkerTypeOK
  <2> QED BY <1>2, <1>n, <2>1, <2>2
<1>3. CASE WorkerNext
  <2>1. WorkerFrame /\ UNCHANGED <<sched, req, dropped>>
    BY <1>3 DEF WorkerNext, WorkerFrame
  <2> QED BY <1>2, <1>3, <2>1, LoopKeepsHands, SlotKeepsHands DEF WorkerNext
<1>4. CASE WorkerFault
  <2>1. UNCHANGED <<sched, req, dropped>>
    BY <1>4 DEF WorkerFault
  <2>2. \E p \in Procs : BeatSet(p) \/ DrainTimeout(p)
    BY <1>0, <1>4, ZenonT(30) DEF WorkerFault
  <2> QED BY <1>2, <2>1, <2>2
<1>5. CASE SchedulerNext
  BY <1>5, <1>p, SchedulerKeepsWaiting, HandsStill DEF Accepted
<1>6. CASE JanitorNext
  BY <1>6, JanitorKeepsHands DEF JanitorNext
<1>7. CASE DlqApiNext
  BY <1>7, <1>p, DlqApiKeepsWaiting, HandsStill DEF Accepted
<1>8. ASSUME NEW p \in Procs, Crash(p) \/ Exit(p)
      PROVE  FALSE
  BY <1>0, <1>8 DEF Crash, Exit, HandsInv, Stopping
<1>9. ASSUME NEW p \in Procs, Launch(p)
      PROVE  HandsInv'
  <2>1. UNCHANGED <<hash, listVars, slot, done, sched, req, dropped>>
    BY <1>9 DEF Launch, storeVars, recordVars
  <2>2. \A q \in Procs : phase'[q] \notin Stopping
    BY <1>9 DEF Launch, Phases, HandsInv, Stopping, TypeOK, WorkerTypeOK
  <2> QED BY <1>n, <2>1, <2>2
<1>10. ASSUME NEW p \in Procs, Expire(p)
       PROVE  HandsInv'
  BY <1>10, <1>n, <1>p DEF Expire, recordVars, workerVars, lifeVars
<1>11. CASE ApiCrash
  BY <1>0, <1>11 DEF ApiCrash
<1>12. CASE UNCHANGED vars
  BY <1>12, <1>n, <1>p DEF vars, storeVars, recordVars, workerVars, lifeVars
<1> QED
  BY <1>1, <1>3, <1>4, <1>5, <1>6, <1>7, <1>8, <1>9, <1>10, <1>11, <1>12 DEF Next, ProcessNext

(* A worker that stalls, or is started beside janitors that have not seen  *)
(* its heartbeat, may find its processing list deleted; until a process    *)
(* ends on top of that, or a command fails, no job vanishes.  Without such *)
(* a lapse, none does whatever crashes or stops (worker.ts start,          *)
(* writeHeartbeat, processOne; janitor.ts tick).                           *)
THEOREM LapsesLoseNoJob ==
  Spec => [](~ Lapsed \/ (~ Used("crash") /\ ~ Used("stop")) => SurvivesLapse)
<1> DEFINE LInv == CustodyInv /\ (NobodyEnds => HandsInv)
<1>1. Init => LInv
  <2>1. Init => HandsInv
    BY DEF Init, StoreInit, WorkerInit, HandsInv, Accepted, Stopping
  <2> QED BY <2>1, InitCustody
<1>2. TypeOK /\ TypeOK' /\ LInv /\ [Next]_vars => LInv'
  <2> SUFFICES ASSUME TypeOK, TypeOK', LInv, [Next]_vars
               PROVE  LInv'
    OBVIOUS
  <2>1. CustodyInv'
    BY ActorKept, Unspent, NoLapse, FleetKept, CustodyKept DEF CustodyInv
  <2>2. ASSUME NobodyEnds'
        PROVE  HandsInv'
    <3>1. NobodyEnds
      BY <2>2, Unspent DEF CustodyInv, NobodyEnds, Kinds
    <3> QED BY <2>2, <3>1, HandsKept DEF CustodyInv
  <2> QED BY <2>1, <2>2
<1>3. TypeOK /\ LInv => (~ Lapsed \/ (~ Used("crash") /\ ~ Used("stop")) => SurvivesLapse)
  <2>1. ASSUME TypeOK, LInv, ~ Lapsed
        PROVE  SurvivesLapse
    BY <2>1, CustodyHolds DEF JobHeld, SurvivesLapse
  <2>2. ASSUME LInv, ~ Used("crash"), ~ Used("stop")
        PROVE  SurvivesLapse
    BY <2>2 DEF NobodyEnds, HandsInv, InHands, SurvivesLapse
  <2> QED BY <2>1, <2>2
<1> QED BY <1>1, <1>2, <1>3, TypeCorrect, PTL DEF Spec

=============================================================================
