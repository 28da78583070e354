------------------------------ MODULE Scheduler ------------------------------
(***************************************************************************)
(* The promotion half of Scheduler.tick, in each worker process: claim a   *)
(* due job by ZREM, push it to its list, write status pending.  The clock  *)
(* is abstracted: any job of the sorted set may be due.  At most one tick  *)
(* of a process is in flight; ticks of two processes interleave.           *)
(***************************************************************************)
EXTENDS JobStore

VARIABLE sched   \* of each process: the tick in flight

SchedIdle == [pc |-> "idle", due |-> {}, job |-> None]

SchedulerTypeOK ==
  /\ sched \in [Procs -> [pc : {"idle", "claim", "push", "mark"},
                          due : SUBSET Jobs, job : Jobs \cup {None}]]
  /\ \A p \in Procs : sched[p].pc \in {"push", "mark"} => sched[p].job \in Jobs

SchedulerInit == sched = [p \in Procs |-> SchedIdle]

(* Jobs this process has removed from the sorted set and not pushed yet. *)
Promoting(p) == IF sched[p].pc = "push" THEN {sched[p].job} ELSE {}

(* ZRANGEBYSCORE: the due jobs. *)
FindDue(p, due) ==
  /\ sched[p].pc = "idle"
  /\ due # {} /\ due \subseteq delayed
  /\ sched' = [sched EXCEPT ![p] = [pc |-> "claim", due |-> due, job |-> None]]
  /\ UNCHANGED storeVars

(* What is left to do of the tick, once the jobs in due remain. *)
TickWith(due) == IF due = {} THEN SchedIdle ELSE [pc |-> "claim", due |-> due, job |-> None]

(* Mutant: the answer of ZREM is not looked at. *)
BadClaim(p, j) ==
  /\ sched[p].pc = "claim" /\ j \in sched[p].due
  /\ delayed' = delayed \ {j}
  /\ sched' = [sched EXCEPT ![p] = [pc |-> "push", due |-> @.due \ {j}, job |-> j]]
  /\ UNCHANGED <<recordVars, queue, dlq, processing, fleetVars>>

(* ZREM of the next due job. *)
Claim(p, j) ==
  /\ sched[p].pc = "claim" /\ j \in sched[p].due /\ j \in delayed
  /\ delayed' = delayed \ {j}
  /\ sched' = [sched EXCEPT ![p] = [pc |-> "push", due |-> @.due \ {j}, job |-> j]]
  /\ UNCHANGED <<recordVars, queue, dlq, processing, fleetVars>>

(* ZREM answers 0: another scheduler has it. *)
ClaimMissed(p, j) ==
  /\ sched[p].pc = "claim" /\ j \in sched[p].due /\ j \notin delayed
  /\ sched' = [sched EXCEPT ![p] = TickWith(@.due \ {j})]
  /\ UNCHANGED storeVars

(* HGET of the priority, then LPUSH. *)
PushDue(p) ==
  /\ sched[p].pc = "push"
  /\ queue' = LPush(queue, sched[p].job)
  /\ sched' = [sched EXCEPT ![p].pc = "mark"]
  /\ UNCHANGED <<recordVars, delayed, dlq, processing, fleetVars>>

MarkPending(p) ==
  /\ sched[p].pc = "mark"
  /\ HSetStatus(sched[p].job, "pending")
  /\ sched' = [sched EXCEPT ![p] = TickWith(@.due)]
  /\ UNCHANGED <<row, listVars, fleetVars>>

=============================================================================
