------------------------------- MODULE Janitor -------------------------------
(***************************************************************************)
(* Janitor.tick, in each worker process: for every registered worker whose *)
(* heartbeat key is gone, push the jobs of its processing list back to the *)
(* queue, then delete the list and the worker.  The flag `ticking' allows  *)
(* one tick per process; ticks of two processes interleave.                *)
(***************************************************************************)
EXTENDS JobStore

VARIABLE jan   \* of each process: the tick in flight

JanitorPC == {"idle", "check", "list", "push", "reset", "pgReset",
              "delList", "deregister", "delMeta"}

JanIdle == [pc |-> "idle", scan |-> {}, target |-> None,
            todo |-> NoTokens, job |-> None]

JanitorTypeOK ==
  /\ jan \in [Procs -> [pc : JanitorPC, scan : SUBSET Procs,
                        target : Procs \cup {None}, todo : Bag,
                        job : Jobs \cup {None}]]
  /\ \A p \in Procs : jan[p].pc \notin {"idle", "check"} => jan[p].target \in Procs
  /\ \A p \in Procs : jan[p].pc \in {"reset", "pgReset"} => jan[p].job \in Jobs

JanitorInit == jan = [p \in Procs |-> JanIdle]

(* A tick that still has to check the workers in scan. *)
ScanWith(scan) ==
  IF scan = {} THEN JanIdle
  ELSE [pc |-> "check", scan |-> scan, target |-> None, todo |-> NoTokens, job |-> None]

(* SMEMBERS of the registry. *)
JanTick(p) ==
  /\ jan[p].pc = "idle" /\ registry # {}
  /\ jan' = [jan EXCEPT ![p] = ScanWith(registry)]
  /\ UNCHANGED storeVars

(* EXISTS of the heartbeat of the next worker: skip it, ... *)
WorkerAlive(p, w) ==
  /\ jan[p].pc = "check" /\ w \in jan[p].scan /\ w \in heartbeat
  /\ jan' = [jan EXCEPT ![p] = ScanWith(@.scan \ {w})]
  /\ UNCHANGED storeVars

(* ... or recover it. *)
WorkerDead(p, w) ==
  /\ jan[p].pc = "check" /\ w \in jan[p].scan /\ w \notin heartbeat
  /\ jan' = [jan EXCEPT ![p] = [pc |-> "list", scan |-> @.scan \ {w}, target |-> w,
                                todo |-> NoTokens, job |-> None]]
  /\ UNCHANGED storeVars

NextOrphan(todo) == IF todo = NoTokens THEN "delList" ELSE "push"

(* Mutant: the list is deleted without being read. *)
BadListOrphans(p) ==
  /\ jan[p].pc = "list"
  /\ jan' = [jan EXCEPT ![p].pc = "delList"]
  /\ UNCHANGED storeVars

(* LRANGE of the processing list. *)
ListOrphans(p) ==
  /\ jan[p].pc = "list"
  /\ LET orphans == processing[jan[p].target] IN
     jan' = [jan EXCEPT ![p] = [pc |-> NextOrphan(orphans), scan |-> @.scan,
                                target |-> @.target, todo |-> orphans, job |-> None]]
  /\ UNCHANGED storeVars

(* HGETALL of the next orphan for its list, then LPUSH. *)
PushOrphan(p, j) ==
  /\ jan[p].pc = "push" /\ jan[p].todo[j] > 0
  /\ queue' = LPush(queue, j)
  /\ jan' = [jan EXCEPT ![p] = [pc |-> "reset", scan |-> @.scan, target |-> @.target,
                                todo |-> LRem(@.todo, j), job |-> j]]
  /\ UNCHANGED <<recordVars, delayed, dlq, processing, fleetVars>>

ResetOrphan(p) ==
  /\ jan[p].pc = "reset"
  /\ HSetStatus(jan[p].job, "pending")
  /\ jan' = [jan EXCEPT ![p].pc = "pgReset"]
  /\ UNCHANGED <<row, listVars, fleetVars>>

PgResetOrphan(p) ==
  /\ jan[p].pc = "pgReset"
  /\ MarkJobPendingForRetry(jan[p].job)
  /\ jan' = [jan EXCEPT ![p] = [pc |-> NextOrphan(@.todo), scan |-> @.scan,
                                target |-> @.target, todo |-> @.todo, job |-> None]]
  /\ UNCHANGED <<hash, listVars, fleetVars>>

(* DEL of the whole list, whatever it holds by now. *)
DelProcessing(p) ==
  /\ jan[p].pc = "delList"
  /\ processing' = [processing EXCEPT ![jan[p].target] = NoTokens]
  /\ jan' = [jan EXCEPT ![p].pc = "deregister"]
  /\ UNCHANGED <<recordVars, queue, delayed, dlq, fleetVars>>

DeregisterDead(p) ==
  /\ jan[p].pc = "deregister"
  /\ registry' = registry \ {jan[p].target}
  /\ jan' = [jan EXCEPT ![p].pc = "delMeta"]
  /\ UNCHANGED <<recordVars, listVars, heartbeat, meta>>

DelDeadMeta(p) ==
  /\ jan[p].pc = "delMeta"
  /\ meta' = meta \ {jan[p].target}
  /\ jan' = [jan EXCEPT ![p] = ScanWith(@.scan)]
  /\ UNCHANGED <<recordVars, listVars, registry, heartbeat>>

(* A command fails: the tick is given up, the next starts from SMEMBERS. *)
JanitorFails(p) ==
  /\ jan[p].pc # "idle"
  /\ jan' = [jan EXCEPT ![p] = JanIdle]
  /\ UNCHANGED storeVars

=============================================================================
