------------------------------ MODULE JobStore ------------------------------
(***************************************************************************)
(* The two stores every NexusQueue process shares.                         *)
(*                                                                         *)
(* PostgreSQL holds one audit row per job; Redis holds the job's hash, the *)
(* lists and the sorted set the job's id travels through, and the keys by  *)
(* which workers announce themselves.  Each command of the code is atomic  *)
(* in its store; nothing is atomic across the two stores, nor across two   *)
(* commands of one client unless they are in one MULTI.                    *)
(*                                                                         *)
(* A list of job ids is a bag: the number of occurrences of each id.  The  *)
(* three priority lists of the queue are one bag, because the list of a    *)
(* job is a function of the immutable priority in its hash; the only place *)
(* that tells the lists apart, the blocking pull on the normal list, uses  *)
(* NormalJobs.  All jobs belong to one queue name.                         *)
(***************************************************************************)
EXTENDS Naturals, FiniteSets

CONSTANTS
  Jobs,         \* the job ids
  NormalJobs,   \* those of priority "normal"
  Procs,        \* worker processes, named by their WORKER_ID
  Slots,        \* the concurrency slots of all processes
  Owner,        \* the process of each slot
  MaxAttempts,  \* maxAttempts of every job
  None          \* neither a job nor a process

ASSUME ConstantsAssumption ==
  /\ NormalJobs \subseteq Jobs
  /\ IsFiniteSet(Slots) /\ IsFiniteSet(Procs)
  /\ Owner \in [Slots -> Procs]
  /\ MaxAttempts \in Nat \ {0}
  /\ None \notin Jobs \cup Procs

VARIABLES
  row,          \* PostgreSQL: status and attempts of each job's row
  hash,         \* Redis nexus:job:<id>: status, attempts, is jobName present
  queue,        \* Redis nexus:queue:<q>, :high and :low together
  delayed,      \* Redis nexus:delayed:<q>
  dlq,          \* Redis nexus:dlq:<q>
  processing,   \* Redis nexus:processing:<worker>
  registry,     \* Redis nexus:workers
  heartbeat,    \* the workers whose nexus:heartbeat:<worker> has not expired
  meta          \* the workers whose nexus:worker:<worker> exists

recordVars == <<row, hash>>
listVars   == <<queue, delayed, dlq, processing>>
fleetVars  == <<registry, heartbeat, meta>>
storeVars  == <<recordVars, listVars, fleetVars>>

(* "none": the row or key does not exist.  Nothing writes 'failed'. *)
Status == {"none", "pending", "delayed", "active", "completed", "dlq"}

Bag == [Jobs -> Nat]

StoreTypeOK ==
  /\ row \in [Jobs -> [status : Status, attempts : Nat]]
  /\ hash \in [Jobs -> [status : Status, attempts : Nat, named : BOOLEAN]]
  /\ queue \in Bag
  /\ delayed \subseteq Jobs
  /\ dlq \in Bag
  /\ processing \in [Procs -> Bag]
  /\ registry \subseteq Procs
  /\ heartbeat \subseteq Procs
  /\ meta \subseteq Procs

(* The stores before the first job, with the workers in Live registered. *)
StoreInit(Live) ==
  /\ row = [j \in Jobs |-> [status |-> "none", attempts |-> 0]]
  /\ hash = [j \in Jobs |-> [status |-> "none", attempts |-> 0, named |-> FALSE]]
  /\ queue = [j \in Jobs |-> 0]
  /\ delayed = {}
  /\ dlq = [j \in Jobs |-> 0]
  /\ processing = [p \in Procs |-> [j \in Jobs |-> 0]]
  /\ registry = Live
  /\ heartbeat = Live
  /\ meta = Live

-----------------------------------------------------------------------------
(* List commands, as functions of the bag of a list. *)
NoTokens  == [j \in Jobs |-> 0]
LPush(b, j)   == [b EXCEPT ![j] = @ + 1]
LRem(b, j)    == [b EXCEPT ![j] = IF @ > 0 THEN @ - 1 ELSE 0]
LRemAll(b, j) == [b EXCEPT ![j] = 0]

(* The UPDATEs of the job DAO: no effect when there is no row with that id. *)
UpdateRow(j, st, n) ==
  row' = IF row[j].status = "none" THEN row
         ELSE [row EXCEPT ![j] = [status |-> st, attempts |-> n]]

(* Mutants: the UPDATE without attempts + 1; the one that matches no row. *)
BadMarkJobActive(j)       == UpdateRow(j, "active", row[j].attempts)
BadMarkJobDlq(j)          == row' = row /\ j \in Jobs

MarkJobActive(j)          == UpdateRow(j, "active", row[j].attempts + 1)
MarkJobCompleted(j)       == UpdateRow(j, "completed", row[j].attempts)
MarkJobDlq(j)             == UpdateRow(j, "dlq", row[j].attempts)
MarkJobDelayed(j)         == UpdateRow(j, "delayed", row[j].attempts)
MarkJobPendingForRetry(j) == UpdateRow(j, "pending", row[j].attempts)

HSetStatus(j, st) == hash' = [hash EXCEPT ![j].status = st]

=============================================================================
