----------------------------- MODULE NexusQueue -----------------------------
(***************************************************************************)
(* The whole system: API server, worker processes (each with its worker,   *)
(* scheduler and janitor) and the two stores, under the faults the code is *)
(* exposed to.  Budget bounds how often each kind of fault, and of         *)
(* operator request, occurs; with a budget of 0 it never does.             *)
(***************************************************************************)
EXTENDS Producer, Worker, Scheduler, Janitor, DlqApi

CONSTANTS
  Janitors, \* the processes whose configuration enables the janitor
  Live,     \* the processes that have started before the first job arrives
  Budget    \* how often each of Kinds may occur

(* start, stop: a process is launched, or gets SIGTERM.                    *)
(* crash: a process dies; also by an unhandled rejection of its scheduler, *)
(*   its heartbeat timer, start() or stop().                               *)
(* stall: a running process fails to renew its heartbeat for 15 seconds.   *)
(* io: a Redis or PostgreSQL command of a running process fails.           *)
(* timeout: the drain of a stop() takes more than 30 seconds.              *)
(* beat: the heartbeat timer of a process ticks (a tick that finds both    *)
(*   keys present and is not interleaved with their deletion changes       *)
(*   nothing, so the other ticks are left out).                            *)
(* request: a retry or bulk requeue arrives.                               *)
Kinds == {"start", "stop", "crash", "stall", "io", "timeout", "beat", "request"}

ASSUME CompositionAssumption ==
  /\ Janitors \subseteq Procs
  /\ Live \subseteq Procs
  /\ Budget \in [Kinds -> Nat]

VARIABLES
  left,      \* what is left of Budget
  dropped    \* history: jobs a process held only in memory when it failed

vars == <<storeVars, enqueue, workerVars, sched, jan, req, left, dropped>>

TypeOK ==
  /\ StoreTypeOK /\ ProducerTypeOK /\ WorkerTypeOK
  /\ SchedulerTypeOK /\ JanitorTypeOK /\ DlqApiTypeOK
  /\ left \in [Kinds -> Nat]
  /\ dropped \subseteq Jobs

Init ==
  /\ StoreInit(Live) /\ ProducerInit /\ WorkerInit(Live)
  /\ SchedulerInit /\ JanitorInit /\ DlqApiInit
  /\ left = Budget
  /\ dropped = {}

-----------------------------------------------------------------------------
Spend(k) == left[k] > 0 /\ left' = [left EXCEPT ![k] = @ - 1]

ProducerFrame == UNCHANGED <<workerVars, sched, jan, req, dropped>>

ProducerNext ==
  \E j \in Jobs :
    /\ \/ (InsertRow(j) \/ PushFirst(j)) /\ UNCHANGED left
       \/ Spend("io") /\ EnqueueFails(j)
    /\ ProducerFrame

LifeStep(p) ==
  \/ Register(p) \/ FirstBeat(p) \/ Describe(p)
  \/ MarkDraining(p) \/ Drained(p) \/ JoinLoop(p)
  \/ Deregister(p) \/ DelHeartbeat(p) \/ DelMeta(p)
  \/ BeatMeta(p)

LoopStep(p) ==
  \/ \E s \in Slots, j \in Jobs : ScanPull(p, s, j) \/ BlockedPull(p, s, j)
  \/ ScanEmpty(p) \/ BlockedTimeout(p) \/ Resume(p)

SlotStep(s) ==
  \/ Load(s) \/ Allowed(s) \/ Denied(s) \/ PushBack(s) \/ Sleep(s)
  \/ PgActive(s) \/ SetActive(s) \/ HandlerReturns(s) \/ HandlerFails(s)
  \/ PgCompleted(s) \/ SetCompleted(s) \/ AckCompleted(s) \/ Reread(s)
  \/ FailLoad(s) \/ PgDlq(s) \/ SetDlq(s) \/ PushDlq(s) \/ AckDlq(s)
  \/ PgDelayed(s) \/ SetDelayed(s) \/ ZAddDelayed(s) \/ AckDelayed(s)

WorkerFrame == UNCHANGED <<enqueue, sched, jan, req, left, dropped>>

WorkerNext ==
  /\ \/ \E p \in Procs : LifeStep(p) \/ LoopStep(p)
     \/ \E s \in Slots : SlotStep(s)
  /\ WorkerFrame

WorkerFault ==
  /\ \/ \E p \in Procs :
          \/ Spend("io") /\ PullError(p)
          \/ Spend("io") /\ \E j \in Jobs : PullReplyLost(p, j)
          \/ Spend("beat") /\ BeatSet(p)
          \/ Spend("timeout") /\ DrainTimeout(p)
          \/ Spend("stop") /\ Stop(p)
     \/ \E s \in Slots : Spend("io") /\ CommandFails(s)
  /\ UNCHANGED <<enqueue, sched, jan, req, dropped>>

(* The timers of scheduler and janitor are set before start() and cleared *)
(* by the shutdown before stop(); a tick in flight goes on.               *)
Ticking(p) == phase[p] \in {"register", "beat", "describe", "up"}

SchedulerStep(p) ==
  \/ Ticking(p) /\ \E due \in SUBSET delayed : FindDue(p, due)
  \/ \E j \in Jobs : Claim(p, j) \/ ClaimMissed(p, j)
  \/ PushDue(p) \/ MarkPending(p)

SchedulerFrame == UNCHANGED <<enqueue, workerVars, jan, req, left, dropped>>

SchedulerNext == \E p \in Procs : SchedulerStep(p) /\ SchedulerFrame

JanitorStep(p) ==
  \/ p \in Janitors /\ Ticking(p) /\ JanTick(p)
  \/ \E w \in Procs : WorkerAlive(p, w) \/ WorkerDead(p, w)
  \/ ListOrphans(p)
  \/ \E j \in Jobs : PushOrphan(p, j)
  \/ ResetOrphan(p) \/ PgResetOrphan(p)
  \/ DelProcessing(p) \/ DeregisterDead(p) \/ DelDeadMeta(p)

JanitorFrame == UNCHANGED <<enqueue, workerVars, sched, req, dropped>>

JanitorNext ==
  \E p \in Procs :
    /\ (JanitorStep(p) /\ UNCHANGED left) \/ (Spend("io") /\ JanitorFails(p))
    /\ JanitorFrame

RequestStep(r) ==
  \/ ResetRow(r) \/ ResetHash(r) \/ DropFromDlq(r) \/ PushBackToQueue(r)

DlqApiNext ==
  /\ \E r \in Requests :
       \/ /\ Spend("request") /\ UNCHANGED dropped
          /\ \E j \in Jobs : RetryJob(r, j) \/ RequeueAll(r, j) \/ RequeueIds(r, j)
       \/ RequestStep(r) /\ UNCHANGED <<left, dropped>>
       \/ /\ Spend("io") /\ RequestFails(r)
          /\ dropped' = dropped \cup Requeueing(r)
  /\ UNCHANGED <<enqueue, workerVars, sched, jan>>

(* A process ends: what it held in memory is gone, the stores stay. *)
Kill(p) ==
  /\ phase' = [phase EXCEPT ![p] = "off"]
  /\ loop' = [loop EXCEPT ![p] = "off"]
  /\ beat' = [beat EXCEPT ![p] = "idle"]
  /\ slot' = [s \in Slots |-> IF Owner[s] = p THEN FreeSlot ELSE slot[s]]
  /\ drain' = {s \in drain : Owner[s] # p}
  /\ sched' = [sched EXCEPT ![p] = SchedIdle]
  /\ jan' = [jan EXCEPT ![p] = JanIdle]
  /\ dropped' = dropped \cup Promoting(p)
  /\ UNCHANGED <<storeVars, enqueue, done, req>>

Crash(p) == phase[p] # "off" /\ Spend("crash") /\ Kill(p)

(* process.exit at the end of a shutdown. *)
Exit(p) == phase[p] = "quit" /\ Kill(p) /\ UNCHANGED left

Launch(p) ==
  /\ Phases(p, "off", "register") /\ Spend("start")
  /\ UNCHANGED <<storeVars, enqueue, loop, beat, slot, drain, done,
                 sched, jan, req, dropped>>

(* The TTL of a heartbeat runs out.  A process that is up and keeps its    *)
(* timer renews it in time unless it stalls.                               *)
Expire(p) ==
  /\ p \in heartbeat
  /\ IF phase[p] \in {"off", "register", "beat", "quit"} THEN UNCHANGED left ELSE Spend("stall")
  /\ heartbeat' = heartbeat \ {p}
  /\ UNCHANGED <<recordVars, listVars, registry, meta, enqueue, workerVars,
                 sched, jan, req, dropped>>

ApiCrash ==
  /\ Spend("crash")
  /\ (\E r \in Requests : req[r].pc # "idle") \/ (\E j \in Jobs : Enqueueing(j))
  /\ req' = [r \in Requests |-> ReqIdle]
  /\ enqueue' = [j \in Jobs |-> IF Enqueueing(j) THEN "failed" ELSE enqueue[j]]
  /\ dropped' = dropped \cup UNION {Requeueing(r) : r \in Requests}
  /\ UNCHANGED <<storeVars, workerVars, sched, jan>>

ProcessNext ==
  \/ \E p \in Procs : Crash(p) \/ Exit(p) \/ Launch(p) \/ Expire(p)
  \/ ApiCrash

Next ==
  \/ ProducerNext \/ WorkerNext \/ WorkerFault \/ SchedulerNext
  \/ JanitorNext \/ DlqApiNext \/ ProcessNext

Spec == Init /\ [][Next]_vars

(* Every step of a running process is a continuation of the event loop or  *)
(* the tick of a repeating timer, and the TTL of a dead process's key ends *)
(* by itself: each eventually happens when it stays possible.  Handlers    *)
(* are assumed to end, and an enqueue call that has written its row to go  *)
(* on.  Nothing is assumed of new calls, of operators or of faults.  With  *)
(* several jobs a tick might never find one of them due; the instances     *)
(* that check that jobs settle have one.                                   *)
Fairness ==
  /\ \A p \in Procs :
       /\ WF_vars(LifeStep(p) /\ WorkerFrame)
       /\ WF_vars(LoopStep(p) /\ WorkerFrame)
       /\ WF_vars(SchedulerStep(p) /\ SchedulerFrame)
       /\ WF_vars(JanitorStep(p) /\ UNCHANGED left /\ JanitorFrame)
       /\ WF_vars(Exit(p))
       /\ WF_vars(Expire(p) /\ phase[p] \in {"off", "quit"})
  /\ \A s \in Slots : WF_vars(SlotStep(s) /\ WorkerFrame)
  /\ \A j \in Jobs : WF_vars(PushFirst(j) /\ ProducerFrame /\ UNCHANGED left)

FairSpec == Spec /\ Fairness

=============================================================================
