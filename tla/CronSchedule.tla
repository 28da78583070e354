---------------------------- MODULE CronSchedule ----------------------------
(***************************************************************************)
(* Recurring jobs: CronManager.addJob and removeJob of cron.ts, and        *)
(* Scheduler.fireCronJobs of scheduler.ts in each worker process, over the *)
(* definition hashes and the schedule, a sorted set, in Redis.  Each       *)
(* action is one command, as in the other modules.                         *)
(*                                                                         *)
(* The clock is abstracted to what matters for one cron job: its next run  *)
(* is ahead ("later"), or that time has come ("due").  An occurrence that  *)
(* is computed is always ahead.  All runs computed since the last one was  *)
(* due are the same one, so that their time comes for all of them at once. *)
(* A job that is fired is from then on one of the Jobs of NexusQueue.      *)
(***************************************************************************)
EXTENDS Naturals

CONSTANTS
  Procs,       \* the worker processes
  Crons,       \* the cron ids
  Registered,  \* those registered before the workers start
  Admins,      \* the callers of addJob and removeJob
  NoCron,      \* not a cron id
  MaxCrashes   \* bound: how often a process dies in a tick

ASSUME CronAssumption ==
  /\ Registered \subseteq Crons
  /\ NoCron \notin Crons
  /\ MaxCrashes \in Nat

VARIABLES
  def,       \* the crons with a definition nexus:cron:def:<id>
  schedule,  \* Redis nexus:cron:schedule: of each cron, "none", "later", "due"
  admin,     \* of each caller: the call in flight
  fire,      \* of each process: the tick in flight
  lost,      \* history: the crons a process had out of the schedule when it died
  crashes    \* how many more crashes there may be

cronVars == <<def, schedule, admin, fire, lost, crashes>>

Score == {"later", "due"}

NoCall == [pc |-> "idle", cron |-> NoCron, next |-> "later"]
NoTick == [pc |-> "idle", due |-> {}, cron |-> NoCron]

CronTypeOK ==
  /\ def \subseteq Crons
  /\ schedule \in [Crons -> Score \cup {"none"}]
  /\ admin \in [Admins -> [pc : {"idle", "define", "schedule", "undefine", "unschedule"},
                           cron : Crons \cup {NoCron}, next : Score]]
  /\ \A a \in Admins : admin[a].pc # "idle" => admin[a].cron \in Crons
  /\ fire \in [Procs -> [pc : {"idle", "claim", "read", "reschedule", "insert", "push"},
                         due : SUBSET Crons, cron : Crons \cup {NoCron}]]
  /\ \A p \in Procs : fire[p].pc \notin {"idle", "claim"} => fire[p].cron \in Crons
  /\ lost \subseteq Crons
  /\ crashes \in Nat

CronInit ==
  /\ def = Registered
  /\ schedule = [c \in Crons |-> IF c \in Registered THEN "later" ELSE "none"]
  /\ admin = [a \in Admins |-> NoCall]
  /\ fire = [p \in Procs |-> NoTick]
  /\ lost = {}
  /\ crashes = MaxCrashes

-----------------------------------------------------------------------------
(* The next run of c becomes due, wherever its time has been noted. *)
TimeComes(c) ==
  /\ schedule' = [schedule EXCEPT ![c] = IF @ = "later" THEN "due" ELSE @]
  /\ admin' = [a \in Admins |->
                 IF admin[a].cron = c THEN [admin[a] EXCEPT !.next = "due"] ELSE admin[a]]
  /\ UNCHANGED <<def, fire, lost, crashes>>

-----------------------------------------------------------------------------
(* CronManager. *)

(* addJob: parse and compute the next run, then HSET, then ZADD. *)
AddJob(a, c) ==
  /\ admin[a].pc = "idle"
  /\ admin' = [admin EXCEPT ![a] = [pc |-> "define", cron |-> c, next |-> "later"]]
  /\ UNCHANGED <<def, schedule, fire, lost, crashes>>

(* Mutant: the ZADD comes first, then the HSET. *)
BadDefine(a) ==
  \/ /\ admin[a].pc = "define"
     /\ schedule' = [schedule EXCEPT ![admin[a].cron] = admin[a].next]
     /\ lost' = lost \ {admin[a].cron}
     /\ admin' = [admin EXCEPT ![a].pc = "define next"]
     /\ UNCHANGED <<def, fire, crashes>>
  \/ /\ admin[a].pc = "define next"
     /\ def' = def \cup {admin[a].cron}
     /\ admin' = [admin EXCEPT ![a] = NoCall]
     /\ UNCHANGED <<schedule, fire, lost, crashes>>

Define(a) ==
  /\ admin[a].pc = "define"
  /\ def' = def \cup {admin[a].cron}
  /\ admin' = [admin EXCEPT ![a].pc = "schedule"]
  /\ UNCHANGED <<schedule, fire, lost, crashes>>

Schedule(a) ==
  /\ admin[a].pc = "schedule"
  /\ schedule' = [schedule EXCEPT ![admin[a].cron] = admin[a].next]
  /\ admin' = [admin EXCEPT ![a] = NoCall]
  /\ lost' = lost \ {admin[a].cron}
  /\ UNCHANGED <<def, fire, crashes>>

(* removeJob: DEL, then ZREM. *)
RemoveJob(a, c) ==
  /\ admin[a].pc = "idle"
  /\ admin' = [admin EXCEPT ![a] = [pc |-> "undefine", cron |-> c, next |-> "later"]]
  /\ UNCHANGED <<def, schedule, fire, lost, crashes>>

Undefine(a) ==
  /\ admin[a].pc = "undefine"
  /\ def' = def \ {admin[a].cron}
  /\ admin' = [admin EXCEPT ![a].pc = "unschedule"]
  /\ UNCHANGED <<schedule, fire, lost, crashes>>

Unschedule(a) ==
  /\ admin[a].pc = "unschedule"
  /\ schedule' = [schedule EXCEPT ![admin[a].cron] = "none"]
  /\ admin' = [admin EXCEPT ![a] = NoCall]
  /\ UNCHANGED <<def, fire, lost, crashes>>

-----------------------------------------------------------------------------
(* Scheduler.fireCronJobs.  At most one tick of a process is in flight. *)

(* ZRANGEBYSCORE up to now. *)
FindDue(p) ==
  /\ fire[p].pc = "idle"
  /\ \E c \in Crons : schedule[c] = "due"
  /\ fire' = [fire EXCEPT ![p] = [pc |-> "claim", cron |-> NoCron,
                                 due |-> {c \in Crons : schedule[c] = "due"}]]
  /\ UNCHANGED <<def, schedule, admin, lost, crashes>>

(* The tick goes on with the crons in due. *)
TickWith(due) == IF due = {} THEN NoTick ELSE [pc |-> "claim", due |-> due, cron |-> NoCron]

(* ZREM of one of them, in any order, removes its entry, whichever that is *)
(* by now, ...                                                             *)
Claim(p, c) ==
  /\ fire[p].pc = "claim" /\ c \in fire[p].due /\ schedule[c] # "none"
  /\ schedule' = [schedule EXCEPT ![c] = "none"]
  /\ fire' = [fire EXCEPT ![p] = [pc |-> "read", due |-> @.due \ {c}, cron |-> c]]
  /\ UNCHANGED <<def, admin, lost, crashes>>

(* ... or answers 0. *)
ClaimMissed(p, c) ==
  /\ fire[p].pc = "claim" /\ c \in fire[p].due /\ schedule[c] = "none"
  /\ fire' = [fire EXCEPT ![p] = TickWith(@.due \ {c})]
  /\ UNCHANGED <<def, schedule, admin, lost, crashes>>

(* Mutant: a cron without a definition is rescheduled too. *)
BadReadDef(p) ==
  /\ fire[p].pc = "read"
  /\ fire' = [fire EXCEPT ![p].pc = "reschedule"]
  /\ UNCHANGED <<def, schedule, admin, lost, crashes>>

(* HGETALL of the definition. *)
ReadDef(p) ==
  /\ fire[p].pc = "read"
  /\ fire' = [fire EXCEPT ![p] =
       IF @.cron \in def THEN [pc |-> "reschedule", due |-> @.due, cron |-> @.cron]
                         ELSE TickWith(@.due)]
  /\ UNCHANGED <<def, schedule, admin, lost, crashes>>

(* Mutant: it is never scheduled again. *)
BadReschedule(p) ==
  /\ fire[p].pc = "reschedule"
  /\ fire' = [fire EXCEPT ![p].pc = "insert"]
  /\ UNCHANGED <<def, schedule, admin, lost, crashes>>

(* ZADD of the next run after now. *)
Reschedule(p) ==
  /\ fire[p].pc = "reschedule"
  /\ schedule' = [schedule EXCEPT ![fire[p].cron] = "later"]
  /\ fire' = [fire EXCEPT ![p].pc = "insert"]
  /\ UNCHANGED <<def, admin, lost, crashes>>

(* INSERT of a pending row of a new job. *)
InsertFired(p) ==
  /\ fire[p].pc = "insert"
  /\ fire' = [fire EXCEPT ![p].pc = "push"]
  /\ UNCHANGED <<def, schedule, admin, lost, crashes>>

(* MULTI with its hash and its token. *)
PushFired(p) ==
  /\ fire[p].pc = "push"
  /\ fire' = [fire EXCEPT ![p] = TickWith(@.due)]
  /\ UNCHANGED <<def, schedule, admin, lost, crashes>>

(* The crons p has taken out of the schedule and not put back. *)
Holding(p) == IF fire[p].pc \in {"read", "reschedule"} THEN {fire[p].cron} ELSE {}

(* The process dies, also by a failing command, and is started again. *)
Crash(p) ==
  /\ fire[p].pc # "idle"
  /\ crashes > 0 /\ crashes' = crashes - 1
  /\ fire' = [fire EXCEPT ![p] = NoTick]
  /\ lost' = lost \cup Holding(p)
  /\ UNCHANGED <<def, schedule, admin>>

-----------------------------------------------------------------------------
AdminStep(a) == Define(a) \/ Schedule(a) \/ Undefine(a) \/ Unschedule(a)

FireStep(p) ==
  \/ FindDue(p)
  \/ \E c \in Crons : Claim(p, c) \/ ClaimMissed(p, c)
  \/ ReadDef(p) \/ Reschedule(p) \/ InsertFired(p) \/ PushFired(p)

CronNext ==
  \/ \E c \in Crons : TimeComes(c)
  \/ \E a \in Admins : AdminStep(a) \/ \E c \in Crons : AddJob(a, c) \/ RemoveJob(a, c)
  \/ \E p \in Procs : FireStep(p) \/ Crash(p)

(* Time passes, a call that has begun and a tick that has begun go on, and *)
(* the timer of each scheduler fires again and again.                      *)
CronFairness ==
  /\ \A c \in Crons : WF_cronVars(TimeComes(c))
  /\ \A a \in Admins : WF_cronVars(AdminStep(a))
  /\ \A p \in Procs : WF_cronVars(FireStep(p))

CronSpec == CronInit /\ [][CronNext]_cronVars /\ CronFairness

-----------------------------------------------------------------------------
(* The first three properties are claimed when calls on one cron do not     *)
(* overlap.                                                                 *)

(* A cron that is defined is in the schedule, or is held by a process that *)
(* will put it back, however calls and several schedulers interleave; only *)
(* the death of such a process loses it (cron.ts, scheduler.ts 77-98).     *)
StaysScheduled ==
  \A c \in def :
    \/ schedule[c] # "none"
    \/ \E p \in Procs : c \in Holding(p)
    \/ \E a \in Admins : admin[a].cron = c
    \/ c \in lost

(* Why: a caller between two calls concerns no cron, and the cron that one *)
(* is about to unschedule has lost its definition.                         *)
CallerInv ==
  \A a \in Admins :
    /\ admin[a].pc = "idle" => admin[a].cron = NoCron
    /\ admin[a].pc = "unschedule" => admin[a].cron \notin def

(* A defined cron is fired again and again, unless it is registered anew   *)
(* or lost: whatever the schedulers do to each other's entries, one of     *)
(* them fires it (scheduler.ts fireCronJobs).                              *)
KeepsFiring ==
  \A c \in Crons :
    c \in def ~> \/ \E p \in Procs : fire[p].pc = "push" /\ fire[p].cron = c
                \/ c \notin def \/ c \in lost
                \/ \E a \in Admins : admin[a].cron = c

(* A removed cron leaves the schedule for good, though a scheduler that    *)
(* has read its definition before the removal puts it back after it        *)
(* (cron.ts removeJob, scheduler.ts 89).                                   *)
GhostsVanish ==
  \A c \in Crons :
    c \notin def ~> \/ c \in def
                    \/ schedule[c] = "none" /\ \A p \in Procs : c \notin Holding(p)

(* scheduler.ts 84-85: the ZREM prevents a double fire; so a process never *)
(* takes an entry whose time has not come, which another process wrote     *)
(* when it fired the occurrence both had found.                            *)
FiresOnlyDue ==
  [][\A p \in Procs : fire[p].pc = "claim" /\ fire'[p].pc = "read"
        => schedule[fire'[p].cron] = "due"]_cronVars

=============================================================================
