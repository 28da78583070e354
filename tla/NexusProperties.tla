--------------------------- MODULE NexusProperties ---------------------------
(***************************************************************************)
(* What the job pipeline of NexusQueue promises.  Each property names the  *)
(* faults under which it is claimed; the configurations give those faults  *)
(* a budget and the others none.                                           *)
(***************************************************************************)
EXTENDS NexusQueue

(* The job's first token has reached Redis. *)
Accepted(j) == hash[j].named

-----------------------------------------------------------------------------
(* Where a job can be. *)

InHand(j) ==
  \/ \E p \in Procs : j \in Promoting(p)
  \/ \E r \in Requests : j \in Requeueing(r)

Waiting(j) == queue[j] > 0 \/ j \in delayed \/ dlq[j] > 0 \/ InHand(j)

(* The slot's LREM has not come yet, and no token of the job is elsewhere. *)
Holding(s, j) ==
  /\ slot[s].job = j
  /\ slot[s].pc \notin {"sleep", "reread", "ackDelayed", "ackDlq"}

(* A fault or request of kind k has occurred.                              *)
Used(k) == left[k] < Budget[k]

(* A worker was cleaned up, or may be, while it is alive: it stalled, or   *)
(* it was started again under the name of a process that died.             *)
Lapsed == Used("stall") \/ Used("start")

(* A job is never nowhere: every accepted job that has not been executed   *)
(* is in a list, in the sorted set, or held by the scheduler or a request  *)
(* between its removal from one and its push to another.  Claimed under    *)
(* every fault but a lapse of a heartbeat (worker.ts ACKs only after the   *)
(* durable write; scheduler.ts and routes.ts do not, see dropped).         *)
JobHeld ==
  ~ Lapsed =>
    \A j \in Jobs : Accepted(j) =>
      \/ j \in done \cup dropped
      \/ Waiting(j)
      \/ \E p \in Procs : processing[p][j] > 0

(* A worker whose heartbeat lapsed is cleaned up alive: a janitor deletes  *)
(* the list in which it keeps the jobs it goes on pulling.  Even so no job *)
(* vanishes as long as no command fails and the worker does not die after  *)
(* it: what the janitor did not push back is in a slot.  Claimed with one  *)
(* crash at most, the one before a start (janitor.ts tick; worker.ts       *)
(* start, writeHeartbeat).                                                 *)
SurvivesLapse ==
  ~ Used("io") /\ ~ (Used("crash") /\ Used("stall")) =>
    \A j \in Jobs : Accepted(j) =>
      \/ j \in done \cup dropped
      \/ Waiting(j)
      \/ \E p \in Procs : processing[p][j] > 0
      \/ \E s \in Slots : slot[s].job = j

(* Someone takes care of j on behalf of p: a slot works on it; or its      *)
(* token is in the processing list, and p is registered and its heartbeat  *)
(* can run out so that a janitor will find it, or one has it in its LRANGE.*)
Attended(p, j) ==
  \/ \E s \in Slots : Owner[s] = p /\ slot[s].job = j
  \/ /\ processing[p][j] > 0
     /\ \/ phase[p] \in {"off", "register", "beat"} /\ p \in registry
        \/ \E q \in Procs : jan[q].target = p /\ jan[q].todo[j] > 0

(* No job is stranded: an accepted job that has not been executed is where *)
(* some part of the system will look for it.  Claimed when processes crash *)
(* (janitor.ts recovers the processing lists of dead workers).             *)
Recoverable ==
  \A j \in Jobs : Accepted(j) =>
    \/ j \in done \cup dropped
    \/ Waiting(j)
    \/ \E p \in Procs : Attended(p, j)

(* A janitor only cleans up after workers that cannot pull any more, also  *)
(* when it read the registry before a worker stopped and looks for the     *)
(* heartbeat after it.  Claimed when every worker was registered and had   *)
(* its heartbeat before the janitors looked, and none stalls (worker.ts    *)
(* stop(), which waits for the loop; janitor.ts tick).                     *)
JanitorSparesTheLiving ==
  \A q, p \in Procs :
    jan[q].target = p => loop[p] \in {"off", "exited"}

(* Exactly one custodian: without faults an accepted job is in one place   *)
(* only, whatever scheduler, pull loops and rate limiter do to it; so it   *)
(* is never queued twice nor run by two workers at once.                   *)
Custodians(j) ==
    queue[j] + dlq[j]
  + (IF j \in delayed THEN 1 ELSE 0)
  + Cardinality({p \in Procs : j \in Promoting(p)})
  + Cardinality({r \in Requests : j \in Requeueing(r)})
  + Cardinality({s \in Slots : Holding(s, j)})

Acknowledged(j) ==
  /\ j \in done
  /\ ~ Waiting(j)
  /\ \A p \in Procs : processing[p][j] = 0 /\ jan[p].todo[j] = 0
  /\ \A s \in Slots : ~ Holding(s, j)

OneCustodian ==
  \A j \in Jobs : Accepted(j) =>
    IF j \in done THEN Custodians(j) <= 1 ELSE Custodians(j) = 1

-----------------------------------------------------------------------------
(* What the records say. *)

(* The Redis count of attempts, a read-modify-write from a snapshot, never *)
(* runs ahead of the row's, an atomic increment done before it; claimed    *)
(* under every fault (worker.ts processOne, routes.ts requeue).            *)
AttemptsLag == \A j \in Jobs : hash[j].attempts <= row[j].attempts

(* No job is dead-lettered before PostgreSQL has counted MaxAttempts       *)
(* starts of it; claimed under every fault (worker.ts handleFailure).      *)
NoPrematureDlq == \A j \in Jobs : dlq[j] > 0 => row[j].attempts >= MaxAttempts

(* Why both hold: a slot's snapshot of the attempts is never ahead of the  *)
(* row, is behind it once markJobActive is done, and a slot on its way to  *)
(* the dead letters has found the row at its limit.  Inductive, with the   *)
(* types.                                                                  *)
AttemptsOfJob(j) ==
  /\ row[j].status = "none" => row[j].attempts = 0
  /\ enqueue[j] = "new" => row[j].status = "none"
  /\ enqueue[j] # "new" => row[j].status # "none"
  /\ hash[j].named => row[j].status # "none"
  /\ hash[j].attempts <= row[j].attempts
  /\ dlq[j] > 0 => row[j].attempts >= MaxAttempts

AttemptsOfSlot(s) ==
  LET r == row[slot[s].job] IN
  /\ slot[s].pc \in {"limit", "pushBack", "pgActive"} =>
       r.status # "none" /\ slot[s].seen <= r.attempts
  /\ slot[s].pc = "setActive" => slot[s].seen < r.attempts
  /\ slot[s].pc \in {"pgDlq", "setDlq", "pushDlq"} => r.attempts >= MaxAttempts

AttemptsInv ==
  /\ \A j \in Jobs : AttemptsOfJob(j)
  /\ \A s \in Slots : AttemptsOfSlot(s)

(* Nobody is at work on j. *)
Quiet(j) ==
  /\ \A s \in Slots : slot[s].job # j
  /\ \A p \in Procs : sched[p].job # j /\ jan[p].job # j /\ jan[p].todo[j] = 0
  /\ \A r \in Requests : req[r].job # j

(* Once nobody is at work on a job, its row tells how it ended: completed  *)
(* when its handler has succeeded, dlq when it is dead-lettered and only   *)
(* then.  Claimed without faults (worker.ts complete and handleFailure).   *)
SettledInPostgres ==
  \A j \in Jobs : Accepted(j) /\ Quiet(j) =>
    /\ j \in done <=> row[j].status = "completed"
    /\ dlq[j] > 0 <=> row[j].status = "dlq"

(* An acknowledged job is out of the system for good: no later step of     *)
(* anyone brings it back.  Claimed when processes crash (worker.ts         *)
(* complete, janitor.ts).                                                  *)
AcknowledgedStays ==
  [][\A j \in Jobs : Acknowledged(j) => Acknowledged(j)']_vars

-----------------------------------------------------------------------------
(* Progress. *)

(* Every accepted job is executed or dead-lettered in the end.  Claimed    *)
(* when processes crash but one of them survives (worker.ts retries,       *)
(* scheduler.ts promotes, janitor.ts recovers).                            *)
Settles ==
  \A j \in Jobs : Accepted(j) ~> (j \in done \cup dropped \/ dlq[j] > 0)

(* A process that is told to stop does stop (worker.ts stop(): the drain,  *)
(* the wait for a loop that may sit in BLMOVE, the deregistration).        *)
StopTerminates == \A p \in Procs : phase[p] = "draining" ~> phase[p] = "off"

-----------------------------------------------------------------------------
(* The pipeline implements JobLife when nothing fails.                     *)

RunBy(j) == {s \in Slots : slot[s].job = j /\ slot[s].pc = "run"}

(* Where a job is in its life, in terms of the stores and the slots.  A    *)
(* run that failed ends the job when its hash has counted MaxAttempts.     *)
Stage(j) ==
  IF ~ Accepted(j) THEN "new"
  ELSE IF j \in done THEN "done"
  ELSE IF RunBy(j) # {} THEN "running"
  ELSE IF hash[j].attempts >= MaxAttempts THEN "dead"
  ELSE "waiting"

Life == INSTANCE JobLife WITH
          stage  <- [j \in Jobs |-> Stage(j)],
          starts <- [j \in Jobs |-> hash[j].attempts]

(* Whatever schedulers, pull loops, retries and push-backs do, each job    *)
(* lives as JobLife says: run by one worker at a time, at most MaxAttempts *)
(* times, and not again after it succeeded or was given up (worker.ts      *)
(* processOne, handleFailure; scheduler.ts promoteDelayedJobs).            *)
ImplementsJobLife == Life!Spec

=============================================================================
