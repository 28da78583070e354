------------------------------- MODULE Worker -------------------------------
(***************************************************************************)
(* The Worker class: its life cycle, its heartbeat timer, its pull loop    *)
(* and the processing of one job in each concurrency slot.  Every action   *)
(* is what runs between two awaits, with the command it ends in; the pc or *)
(* phase names the command that comes next.  A process runs any number of  *)
(* slots at once, and its loop, its timer and stop() beside them.          *)
(*                                                                         *)
(* Events published for the dashboard change no state and are left out     *)
(* (their failures are swallowed).                                         *)
(***************************************************************************)
EXTENDS JobStore

CONSTANT RateLimited   \* is a rate limit configured for the queue

ASSUME RateLimitedAssumption == RateLimited \in BOOLEAN

VARIABLES
  phase,   \* of each process: how far start() or stop() has come
  loop,    \* of each process: where its pull loop waits
  beat,    \* of each process: the next command of writeHeartbeat
  slot,    \* of each slot: the job it processes, and how far
  drain,   \* the slots whose jobs a stop() still waits for
  done     \* history: jobs of which some execution of the handler succeeded

lifeVars == <<phase, loop, beat>>
workerVars == <<lifeVars, slot, drain, done>>

Phase == {"off", "register", "beat", "describe", "up",
          "draining", "wait", "join", "deregister", "delBeat", "delMeta", "quit"}

(* stop() has set stopRequested. *)
Stopping == {"draining", "wait", "join", "deregister", "delBeat", "delMeta", "quit"}

(* The heartbeat interval is set. *)
Beating == {"up", "draining", "wait", "join", "deregister", "delBeat", "delMeta"}

LoopPC == {"off", "scan", "blocked", "full", "pause", "exited"}

(* Inside the try of processOne, whose catch calls handleFailure. *)
CompletePC == {"pgCompleted", "setCompleted", "ackCompleted", "reread"}
FailurePC  == {"failLoad", "pgDlq", "setDlq", "pushDlq", "ackDlq",
               "pgDelayed", "setDelayed", "zadd", "ackDelayed"}
SlotPC == {"free", "load", "limit", "pushBack", "sleep", "pgActive", "setActive", "run"}
            \cup CompletePC \cup FailurePC

FreeSlot == [pc |-> "free", job |-> None, seen |-> 0]

WorkerTypeOK ==
  /\ phase \in [Procs -> Phase]
  /\ loop \in [Procs -> LoopPC]
  /\ beat \in [Procs -> {"idle", "meta"}]
  /\ slot \in [Slots -> [pc : SlotPC, job : Jobs \cup {None}, seen : Nat]]
  /\ \A s \in Slots : slot[s].pc # "free" => slot[s].job \in Jobs
  /\ drain \subseteq Slots
  /\ done \subseteq Jobs

(* The processes in Live have started, the others have not. *)
WorkerInit(Live) ==
  /\ phase = [p \in Procs |-> IF p \in Live THEN "up" ELSE "off"]
  /\ loop = [p \in Procs |-> IF p \in Live THEN "scan" ELSE "off"]
  /\ beat = [p \in Procs |-> "idle"]
  /\ slot = [s \in Slots |-> FreeSlot]
  /\ drain = {}
  /\ done = {}

-----------------------------------------------------------------------------
(* start() and stop(). *)

Phases(p, from, to) == phase[p] = from /\ phase' = [phase EXCEPT ![p] = to]

Register(p) ==
  /\ Phases(p, "register", "beat")
  /\ registry' = registry \cup {p}
  /\ UNCHANGED <<recordVars, listVars, heartbeat, meta, loop, beat, slot, drain, done>>

FirstBeat(p) ==
  /\ Phases(p, "beat", "describe")
  /\ heartbeat' = heartbeat \cup {p}
  /\ UNCHANGED <<recordVars, listVars, registry, meta, loop, beat, slot, drain, done>>

Describe(p) ==
  /\ Phases(p, "describe", "up")
  /\ meta' = meta \cup {p}
  /\ loop' = [loop EXCEPT ![p] = "scan"]
  /\ UNCHANGED <<recordVars, listVars, registry, heartbeat, beat, slot, drain, done>>

Busy(p) == {s \in Slots : Owner[s] = p /\ slot[s].pc # "free"}

(* SIGTERM: stopRequested is set at once. *)
Stop(p) ==
  /\ Phases(p, "up", "draining")
  /\ UNCHANGED <<storeVars, loop, beat, slot, drain, done>>

(* HSET status draining; then the promises in activeJobs are snapshotted. *)
MarkDraining(p) ==
  /\ Phases(p, "draining", "wait")
  /\ meta' = meta \cup {p}
  /\ drain' = drain \cup Busy(p)
  /\ UNCHANGED <<recordVars, listVars, registry, heartbeat, loop, beat, slot, done>>

(* Every snapshotted job has settled. *)
Drained(p) ==
  /\ Phases(p, "wait", "join")
  /\ \A s \in drain : Owner[s] # p
  /\ UNCHANGED <<storeVars, loop, beat, slot, drain, done>>

(* The 30 seconds are over first. *)
DrainTimeout(p) ==
  /\ Phases(p, "wait", "join")
  /\ \E s \in drain : Owner[s] = p
  /\ drain' = {s \in drain : Owner[s] # p}
  /\ UNCHANGED <<storeVars, loop, beat, slot, done>>

(* Mutant: stop() does not wait for the loop. *)
BadJoinLoop(p) ==
  /\ Phases(p, "join", "deregister")
  /\ UNCHANGED <<storeVars, loop, beat, slot, drain, done>>

JoinLoop(p) ==
  /\ Phases(p, "join", "deregister")
  /\ loop[p] = "exited"
  /\ UNCHANGED <<storeVars, loop, beat, slot, drain, done>>

Deregister(p) ==
  /\ Phases(p, "deregister", "delBeat")
  /\ registry' = registry \ {p}
  /\ UNCHANGED <<recordVars, listVars, heartbeat, meta, loop, beat, slot, drain, done>>

DelHeartbeat(p) ==
  /\ Phases(p, "delBeat", "delMeta")
  /\ heartbeat' = heartbeat \ {p}
  /\ UNCHANGED <<recordVars, listVars, registry, meta, loop, beat, slot, drain, done>>

(* DEL of the metadata; then the heartbeat interval is cleared. *)
DelMeta(p) ==
  /\ Phases(p, "delMeta", "quit")
  /\ meta' = meta \ {p}
  /\ UNCHANGED <<recordVars, listVars, registry, heartbeat, loop, beat, slot, drain, done>>

(* writeHeartbeat, at a tick of the interval: SET with EX 15, then HSET. *)
BeatSet(p) ==
  /\ phase[p] \in Beating /\ beat[p] = "idle"
  /\ heartbeat' = heartbeat \cup {p}
  /\ beat' = [beat EXCEPT ![p] = "meta"]
  /\ UNCHANGED <<recordVars, listVars, registry, meta, phase, loop, slot, drain, done>>

BeatMeta(p) ==
  /\ beat[p] = "meta"
  /\ meta' = meta \cup {p}
  /\ beat' = [beat EXCEPT ![p] = "idle"]
  /\ UNCHANGED <<recordVars, listVars, registry, heartbeat, phase, loop, slot, drain, done>>

-----------------------------------------------------------------------------
(* The pull loop.  What follows a pull runs without an await up to the next *)
(* command: the while condition, then the test for a free slot.             *)

LoopNext(p, busy) ==
  IF phase[p] \in Stopping THEN "exited"
  ELSE IF \A s \in Slots : Owner[s] = p => s \in busy THEN "full" ELSE "scan"

(* RPOPLPUSH or BLMOVE of j into the processing list, and its slot. *)
Pull(p, s, j) ==
  /\ Owner[s] = p /\ slot[s].pc = "free"
  /\ queue[j] > 0
  /\ queue' = LRem(queue, j)
  /\ processing' = [processing EXCEPT ![p] = LPush(@, j)]
  /\ slot' = [slot EXCEPT ![s] = [pc |-> "load", job |-> j, seen |-> 0]]
  /\ loop' = [loop EXCEPT ![p] = LoopNext(p, Busy(p) \cup {s})]
  /\ UNCHANGED <<recordVars, delayed, dlq, fleetVars, phase, beat, drain, done>>

(* The three lists in some order: the first that is not empty. *)
ScanPull(p, s, j) == loop[p] = "scan" /\ Pull(p, s, j)

ScanEmpty(p) ==
  /\ loop[p] = "scan" /\ queue = NoTokens
  /\ loop' = [loop EXCEPT ![p] = "blocked"]
  /\ UNCHANGED <<storeVars, phase, beat, slot, drain, done>>

(* BLMOVE, on the normal list only. *)
BlockedPull(p, s, j) == loop[p] = "blocked" /\ j \in NormalJobs /\ Pull(p, s, j)

(* Mutant: BLMOVE without a timeout returns only with a job. *)
BadBlockedTimeout(p) == loop[p] = "blocked" /\ FALSE

BlockedTimeout(p) ==
  /\ loop[p] = "blocked" /\ \A j \in NormalJobs : queue[j] = 0
  /\ loop' = [loop EXCEPT ![p] = LoopNext(p, Busy(p))]
  /\ UNCHANGED <<storeVars, phase, beat, slot, drain, done>>

(* A slot became free after all were busy, or the pause after an error ends. *)
Resume(p) ==
  /\ \/ loop[p] = "full" /\ \E s \in Slots : Owner[s] = p /\ slot[s].pc = "free"
     \/ loop[p] = "pause"
  /\ loop' = [loop EXCEPT ![p] = LoopNext(p, Busy(p))]
  /\ UNCHANGED <<storeVars, phase, beat, slot, drain, done>>

(* The pull failed: the command had no effect, ... *)
PullError(p) ==
  /\ loop[p] \in {"scan", "blocked"}
  /\ loop' = [loop EXCEPT ![p] = "pause"]
  /\ UNCHANGED <<storeVars, phase, beat, slot, drain, done>>

(* ... or its reply was lost and the job is in the processing list. *)
PullReplyLost(p, j) ==
  /\ loop[p] = "scan" \/ (loop[p] = "blocked" /\ j \in NormalJobs)
  /\ queue[j] > 0
  /\ queue' = LRem(queue, j)
  /\ processing' = [processing EXCEPT ![p] = LPush(@, j)]
  /\ loop' = [loop EXCEPT ![p] = "pause"]
  /\ UNCHANGED <<recordVars, delayed, dlq, fleetVars, phase, beat, slot, drain, done>>

-----------------------------------------------------------------------------
(* processOne, complete and handleFailure, in slot s. *)

At(s, l) == slot[s].pc = l
Goto(s, l) == slot' = [slot EXCEPT ![s].pc = l] /\ UNCHANGED <<drain, done>>
Release(s) ==
  /\ slot' = [slot EXCEPT ![s] = FreeSlot]
  /\ drain' = drain \ {s}
  /\ UNCHANGED done

(* LREM 1 of the slot's job from the processing list of its own process. *)
Ack(s) ==
  processing' = [processing EXCEPT ![Owner[s]] = LRem(@, slot[s].job)]

(* Mutant: the token is acknowledged when it is received. *)
BadLoad(s) ==
  /\ At(s, "load") /\ hash[slot[s].job].named
  /\ slot' = [slot EXCEPT ![s] = [pc |-> "pgActive", job |-> @.job,
                                 seen |-> hash[slot[s].job].attempts]]
  /\ Ack(s)
  /\ UNCHANGED <<recordVars, queue, delayed, dlq, fleetVars, lifeVars, drain, done>>

(* Mutant: a job whose token was taken away is left to whoever took it. *)
BadDisowned(s) ==
  /\ At(s, "load")
  /\ IF processing[Owner[s]][slot[s].job] > 0
     THEN /\ slot' = [slot EXCEPT ![s] = [pc |-> "pgActive", job |-> @.job,
                                         seen |-> hash[slot[s].job].attempts]]
          /\ UNCHANGED <<drain, done>>
     ELSE Release(s)
  /\ UNCHANGED <<storeVars, lifeVars>>

(* HGETALL.  A hash without jobName is skipped, and its token stays. *)
Load(s) ==
  /\ At(s, "load")
  /\ IF hash[slot[s].job].named
     THEN /\ slot' = [slot EXCEPT ![s] =
                        [pc   |-> IF RateLimited THEN "limit" ELSE "pgActive",
                         job  |-> @.job,
                         seen |-> hash[slot[s].job].attempts]]
          /\ UNCHANGED <<drain, done>>
     ELSE Release(s)
  /\ UNCHANGED <<storeVars, lifeVars>>

(* The limiter's answer; which answers are possible is its own affair. *)
Allowed(s) == At(s, "limit") /\ Goto(s, "pgActive") /\ UNCHANGED <<storeVars, lifeVars>>
Denied(s)  == At(s, "limit") /\ Goto(s, "pushBack") /\ UNCHANGED <<storeVars, lifeVars>>

(* Mutant: the denied job is acknowledged and not pushed. *)
BadPushBack(s) ==
  /\ At(s, "pushBack") /\ Goto(s, "sleep")
  /\ Ack(s)
  /\ UNCHANGED <<recordVars, queue, delayed, dlq, fleetVars, lifeVars>>

(* MULTI { LREM; LPUSH }, then a pause that keeps the slot. *)
PushBack(s) ==
  /\ At(s, "pushBack") /\ Goto(s, "sleep")
  /\ Ack(s)
  /\ queue' = LPush(queue, slot[s].job)
  /\ UNCHANGED <<recordVars, delayed, dlq, fleetVars, lifeVars>>

Sleep(s) == At(s, "sleep") /\ Release(s) /\ UNCHANGED <<storeVars, lifeVars>>

PgActive(s) ==
  /\ At(s, "pgActive") /\ Goto(s, "setActive")
  /\ MarkJobActive(slot[s].job)
  /\ UNCHANGED <<hash, listVars, fleetVars, lifeVars>>

(* The attempts written are the ones read in Load, plus one. *)
SetActive(s) ==
  /\ At(s, "setActive") /\ Goto(s, "run")
  /\ hash' = [hash EXCEPT ![slot[s].job] =
                [status |-> "active", attempts |-> slot[s].seen + 1, named |-> @.named]]
  /\ UNCHANGED <<row, listVars, fleetVars, lifeVars>>

HandlerReturns(s) ==
  /\ At(s, "run")
  /\ slot' = [slot EXCEPT ![s].pc = "pgCompleted"]
  /\ done' = done \cup {slot[s].job}
  /\ UNCHANGED <<storeVars, lifeVars, drain>>

(* It throws; or there is no handler, or the payload does not parse. *)
HandlerFails(s) == At(s, "run") /\ Goto(s, "failLoad") /\ UNCHANGED <<storeVars, lifeVars>>

PgCompleted(s) ==
  /\ At(s, "pgCompleted") /\ Goto(s, "setCompleted")
  /\ MarkJobCompleted(slot[s].job)
  /\ UNCHANGED <<hash, listVars, fleetVars, lifeVars>>

SetCompleted(s) ==
  /\ At(s, "setCompleted") /\ Goto(s, "ackCompleted")
  /\ HSetStatus(slot[s].job, "completed")
  /\ UNCHANGED <<row, listVars, fleetVars, lifeVars>>

AckCompleted(s) ==
  /\ At(s, "ackCompleted") /\ Goto(s, "reread")
  /\ Ack(s)
  /\ UNCHANGED <<recordVars, queue, delayed, dlq, fleetVars, lifeVars>>

(* Mutant: what follows the ACK is treated as a failure of the job. *)
BadReread(s) == At(s, "reread") /\ Goto(s, "failLoad") /\ UNCHANGED <<storeVars, lifeVars>>

(* HGETALL for the event, still inside the try. *)
Reread(s) == At(s, "reread") /\ Release(s) /\ UNCHANGED <<storeVars, lifeVars>>

(* Mutant: off by one. *)
BadFailLoad(s) ==
  /\ At(s, "failLoad")
  /\ Goto(s, IF hash[slot[s].job].attempts + 1 >= MaxAttempts THEN "pgDlq" ELSE "pgDelayed")
  /\ UNCHANGED <<storeVars, lifeVars>>

(* handleFailure decides by the attempts in the hash. *)
FailLoad(s) ==
  /\ At(s, "failLoad")
  /\ Goto(s, IF hash[slot[s].job].attempts >= MaxAttempts THEN "pgDlq" ELSE "pgDelayed")
  /\ UNCHANGED <<storeVars, lifeVars>>

PgDlq(s) ==
  /\ At(s, "pgDlq") /\ Goto(s, "setDlq")
  /\ MarkJobDlq(slot[s].job)
  /\ UNCHANGED <<hash, listVars, fleetVars, lifeVars>>

SetDlq(s) ==
  /\ At(s, "setDlq") /\ Goto(s, "pushDlq")
  /\ HSetStatus(slot[s].job, "dlq")
  /\ UNCHANGED <<row, listVars, fleetVars, lifeVars>>

PushDlq(s) ==
  /\ At(s, "pushDlq") /\ Goto(s, "ackDlq")
  /\ dlq' = LPush(dlq, slot[s].job)
  /\ UNCHANGED <<recordVars, queue, delayed, processing, fleetVars, lifeVars>>

AckDlq(s) ==
  /\ At(s, "ackDlq") /\ Release(s)
  /\ Ack(s)
  /\ UNCHANGED <<recordVars, queue, delayed, dlq, fleetVars, lifeVars>>

PgDelayed(s) ==
  /\ At(s, "pgDelayed") /\ Goto(s, "setDelayed")
  /\ MarkJobDelayed(slot[s].job)
  /\ UNCHANGED <<hash, listVars, fleetVars, lifeVars>>

SetDelayed(s) ==
  /\ At(s, "setDelayed") /\ Goto(s, "zadd")
  /\ HSetStatus(slot[s].job, "delayed")
  /\ UNCHANGED <<row, listVars, fleetVars, lifeVars>>

(* Mutant: the retry is acknowledged but never scheduled. *)
BadZAddDelayed(s) ==
  /\ At(s, "zadd") /\ Goto(s, "ackDelayed")
  /\ UNCHANGED <<storeVars, lifeVars>>

ZAddDelayed(s) ==
  /\ At(s, "zadd") /\ Goto(s, "ackDelayed")
  /\ delayed' = delayed \cup {slot[s].job}
  /\ UNCHANGED <<recordVars, queue, dlq, processing, fleetVars, lifeVars>>

AckDelayed(s) ==
  /\ At(s, "ackDelayed") /\ Release(s)
  /\ Ack(s)
  /\ UNCHANGED <<recordVars, queue, delayed, dlq, fleetVars, lifeVars>>

(* A command fails without effect.  Inside the try the failure is treated *)
(* as one of the handler; elsewhere processOne rejects, the slot is freed *)
(* and nothing else happens.                                              *)
CommandFails(s) ==
  /\ IF slot[s].pc \in CompletePC THEN Goto(s, "failLoad")
     ELSE slot[s].pc \notin {"free", "sleep", "run"} /\ Release(s)
  /\ UNCHANGED <<storeVars, lifeVars>>

=============================================================================
