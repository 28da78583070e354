------------------------- MODULE CronScheduleProofs -------------------------
(***************************************************************************)
(* A defined cron stays in the schedule, for any number of crons, of       *)
(* schedulers and of crashes, when there is one caller of addJob and       *)
(* removeJob at a time.                                                    *)
(***************************************************************************)
EXTENDS CronSchedule, TLAPS

OneCaller == \A a, b \in Admins : a = b

(* Initially the crons registered before are scheduled (cron.ts addJob).   *)
LEMMA CronStart ==
  ASSUME CronInit
  PROVE  CronTypeOK /\ CallerInv /\ StaysScheduled
<1> USE CronAssumption DEF CronInit, NoCall, NoTick
<1>1. CronTypeOK
  BY DEF CronTypeOK, Score
<1>2. CallerInv
  BY DEF CallerInv
<1>3. StaysScheduled
  BY DEF StaysScheduled
<1> QED BY <1>1, <1>2, <1>3

(* Every step keeps the types.                                             *)
LEMMA CronTypeStep ==
  ASSUME CronTypeOK, CronNext
  PROVE  CronTypeOK'
<1> USE CronAssumption DEF CronTypeOK, Score
<1>1. ASSUME NEW c \in Crons, TimeComes(c)
      PROVE  CronTypeOK'
  <2>1. schedule' \in [Crons -> Score \cup {"none"}]
    BY <1>1 DEF TimeComes
  <2>2. \A a \in Admins :
          /\ admin'[a] \in [pc : {"idle", "define", "schedule", "undefine", "unschedule"},
                            cron : Crons \cup {NoCron}, next : Score]
          /\ admin'[a].pc = admin[a].pc /\ admin'[a].cron = admin[a].cron
    BY <1>1 DEF TimeComes
  <2>3. admin' = [a \in Admins |-> admin'[a]]
    BY <1>1 DEF TimeComes
  <2> QED BY <1>1, <2>1, <2>2, <2>3 DEF TimeComes
<1>2. ASSUME NEW a \in Admins, AdminStep(a)
      PROVE  CronTypeOK'
  <2>1. CASE Define(a)
    BY <2>1 DEF Define
  <2>2. CASE Schedule(a)
    BY <2>2 DEF Schedule, NoCall
  <2>3. CASE Undefine(a)
    BY <2>3 DEF Undefine
  <2>4. CASE Unschedule(a)
    BY <2>4 DEF Unschedule, NoCall
  <2> QED BY <1>2, <2>1, <2>2, <2>3, <2>4 DEF AdminStep
<1>3. ASSUME NEW a \in Admins, NEW c \in Crons, AddJob(a, c) \/ RemoveJob(a, c)
      PROVE  CronTypeOK'
  BY <1>3 DEF AddJob, RemoveJob
<1>4. ASSUME NEW p \in Procs, FireStep(p)
      PROVE  CronTypeOK'
  <2>1. CASE FindDue(p)
    BY <2>1 DEF FindDue
  <2>2. ASSUME NEW c \in Crons, Claim(p, c)
        PROVE  CronTypeOK'
    BY <2>2 DEF Claim
  <2>3. ASSUME NEW c \in Crons, ClaimMissed(p, c)
        PROVE  CronTypeOK'
    BY <2>3 DEF ClaimMissed, TickWith, NoTick
  <2>4. CASE ReadDef(p)
    BY <2>4 DEF ReadDef, TickWith, NoTick
  <2>5. CASE Reschedule(p)
    BY <2>5 DEF Reschedule
  <2>6. CASE InsertFired(p)
    BY <2>6 DEF InsertFired
  <2>7. CASE PushFired(p)
    BY <2>7 DEF PushFired, TickWith, NoTick
  <2> QED BY <1>4, <2>1, <2>2, <2>3, <2>4, <2>5, <2>6, <2>7 DEF FireStep
<1>5. ASSUME NEW p \in Procs, Crash(p)
      PROVE  CronTypeOK'
  BY <1>5 DEF Crash, Holding, NoTick
<1> QED BY <1>1, <1>2, <1>3, <1>4, <1>5 DEF CronNext

(* One caller: between its calls it concerns no cron, and when it is about *)
(* to unschedule one nobody defines that again (cron.ts removeJob).        *)
LEMMA CallerStep ==
  ASSUME CronTypeOK, CallerInv, CronNext, OneCaller
  PROVE  CallerInv'
<1> USE CronAssumption DEF CronTypeOK, CallerInv
<1>1. ASSUME NEW c \in Crons, TimeComes(c)
      PROVE  CallerInv'
  BY <1>1 DEF TimeComes
<1>2. ASSUME NEW a \in Admins, AdminStep(a)
      PROVE  CallerInv'
  BY <1>2 DEF AdminStep, Define, Schedule, Undefine, Unschedule, NoCall, OneCaller
<1>3. ASSUME NEW a \in Admins, NEW c \in Crons, AddJob(a, c) \/ RemoveJob(a, c)
      PROVE  CallerInv'
  BY <1>3 DEF AddJob, RemoveJob
<1>4. ASSUME NEW p \in Procs, FireStep(p) \/ Crash(p)
      PROVE  CallerInv'
  BY <1>4 DEF FireStep, FindDue, Claim, ClaimMissed, ReadDef, Reschedule, InsertFired,
              PushFired, Crash
<1> QED BY <1>1, <1>2, <1>3, <1>4 DEF CronNext

(* A cron for which care is taken.                                         *)
Cared(c) ==
  \/ schedule[c] # "none"
  \/ \E p \in Procs : c \in Holding(p)
  \/ \E a \in Admins : admin[a].cron = c
  \/ c \in lost

(* Every step passes the care for a cron on (scheduler.ts fireCronJobs).   *)
LEMMA ScheduledStep ==
  ASSUME CronTypeOK, CallerInv, StaysScheduled, CronNext, OneCaller
  PROVE  StaysScheduled'
<1> USE CronAssumption DEF CronTypeOK
<1> SUFFICES ASSUME NEW c \in Crons, c \in def'
             PROVE  Cared(c)'
  BY CronTypeStep DEF StaysScheduled, Cared
<1>0. c \in def => Cared(c)
  BY DEF StaysScheduled, Cared
<1>1. ASSUME NEW d \in Crons, TimeComes(d)
      PROVE  Cared(c)'
  <2>1. schedule[c] # "none" => schedule'[c] # "none"
    BY <1>1 DEF TimeComes
  <2>2. \A a \in Admins : admin'[a].cron = admin[a].cron
    BY <1>1 DEF TimeComes
  <2> QED BY <1>0, <1>1, <2>1, <2>2 DEF TimeComes, Cared, Holding
<1>2. ASSUME NEW a \in Admins, Define(a)
      PROVE  Cared(c)'
  <2>1. \A b \in Admins : admin'[b].cron = admin[b].cron
    BY <1>2 DEF Define
  <2>2. c = admin[a].cron \/ c \in def
    BY <1>2 DEF Define
  <2> QED BY <1>0, <1>2, <2>1, <2>2 DEF Define, Cared, Holding
<1>3. ASSUME NEW a \in Admins, Schedule(a)
      PROVE  Cared(c)'
  <2>1. CASE c = admin[a].cron
    BY <1>3, <2>1 DEF Schedule, Cared, Score
  <2>2. CASE c # admin[a].cron
    BY <1>0, <1>3, <2>2 DEF Schedule, Cared, Holding, NoCall, OneCaller
  <2> QED BY <2>1, <2>2
<1>4. ASSUME NEW a \in Admins, Undefine(a)
      PROVE  Cared(c)'
  <2>1. \A b \in Admins : admin'[b].cron = admin[b].cron
    BY <1>4 DEF Undefine
  <2> QED BY <1>0, <1>4, <2>1 DEF Undefine, Cared, Holding
<1>5. ASSUME NEW a \in Admins, Unschedule(a)
      PROVE  Cared(c)'
  <2>1. c # admin[a].cron
    BY <1>5 DEF Unschedule, CallerInv
  <2> QED BY <1>0, <1>5, <2>1 DEF Unschedule, Cared, Holding, NoCall, OneCaller
<1>6. ASSUME NEW a \in Admins, NEW d \in Crons, AddJob(a, d) \/ RemoveJob(a, d)
      PROVE  Cared(c)'
  <2>1. admin[a].cron # c
    BY <1>6 DEF AddJob, RemoveJob, CallerInv
  <2> QED BY <1>0, <1>6, <2>1 DEF AddJob, RemoveJob, Cared, Holding, OneCaller
<1>7. ASSUME NEW p \in Procs, NEW d \in Crons, Claim(p, d)
      PROVE  Cared(c)'
  <2>1. CASE c = d
    BY <1>7, <2>1 DEF Claim, Cared, Holding
  <2>2. CASE c # d
    BY <1>0, <1>7, <2>2 DEF Claim, Cared, Holding
  <2> QED BY <2>1, <2>2
<1>8. ASSUME NEW p \in Procs, NEW d \in Crons, ClaimMissed(p, d)
      PROVE  Cared(c)'
  BY <1>0, <1>8 DEF ClaimMissed, TickWith, NoTick, Cared, Holding
<1>9. ASSUME NEW p \in Procs, ReadDef(p)
      PROVE  Cared(c)'
  BY <1>0, <1>9 DEF ReadDef, TickWith, NoTick, Cared, Holding
<1>10. ASSUME NEW p \in Procs, Reschedule(p)
       PROVE  Cared(c)'
  <2>1. CASE c = fire[p].cron
    BY <1>10, <2>1 DEF Reschedule, Cared
  <2>2. CASE c # fire[p].cron
    BY <1>0, <1>10, <2>2 DEF Reschedule, Cared, Holding
  <2> QED BY <2>1, <2>2
<1>11. ASSUME NEW p \in Procs, FindDue(p) \/ InsertFired(p) \/ PushFired(p)
       PROVE  Cared(c)'
  BY <1>0, <1>11 DEF FindDue, InsertFired, PushFired, TickWith, NoTick, Cared, Holding
<1>12. ASSUME NEW p \in Procs, Crash(p)
       PROVE  Cared(c)'
  BY <1>0, <1>12 DEF Crash, NoTick, Cared, Holding
<1> QED BY <1>1, <1>2, <1>3, <1>4, <1>5, <1>6, <1>7, <1>8, <1>9, <1>10, <1>11, <1>12
        DEF CronNext, AdminStep, FireStep

(* Every variable keeps its type (cron.ts, scheduler.ts).                  *)
THEOREM CronTypeCorrect == CronSpec => []CronTypeOK
<1>1. CronTypeOK /\ UNCHANGED cronVars => CronTypeOK'
  BY DEF cronVars, CronTypeOK
<1> QED BY CronStart, CronTypeStep, <1>1, PTL DEF CronSpec

(* With one caller at a time a defined cron is in the schedule, held by a  *)
(* scheduler that will put it back, the subject of a call, or lost by the  *)
(* death of a scheduler (cron.ts addJob, removeJob; scheduler.ts           *)
(* fireCronJobs).                                                          *)
THEOREM CronsStayScheduled ==
  ASSUME OneCaller
  PROVE  CronSpec => []StaysScheduled
<1> DEFINE Inv == CronTypeOK /\ CallerInv /\ StaysScheduled
<1>1. CronInit => Inv
  BY CronStart
<1>2. Inv /\ [CronNext]_cronVars => Inv'
  <2> SUFFICES ASSUME Inv, [CronNext]_cronVars
               PROVE  Inv'
    OBVIOUS
  <2>1. CASE CronNext
    BY <2>1, OneCaller, CronTypeStep, CallerStep, ScheduledStep
  <2>2. CASE UNCHANGED cronVars
    BY <2>2 DEF cronVars, CronTypeOK, CallerInv, StaysScheduled, Holding
  <2> QED BY <2>1, <2>2
<1>3. Inv => StaysScheduled
  OBVIOUS
<1> QED BY <1>1, <1>2, <1>3, PTL DEF CronSpec

=============================================================================
