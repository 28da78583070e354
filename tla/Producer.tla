------------------------------ MODULE Producer ------------------------------
(***************************************************************************)
(* Producer.enqueue as the rest of the system sees it: the audit row first *)
(* (A), then the job's hash and its first token in one MULTI (B).  When    *)
(* (B) fails, or the API server does between the two, (B) never happens    *)
(* and the caller, who may call again, creates another job.  Which call    *)
(* creates a job at all, where it gives an idempotency key, is the subject *)
(* of another module.                                                      *)
(***************************************************************************)
EXTENDS JobStore

VARIABLE enqueue   \* how far the enqueue call of each job has come

ProducerTypeOK == enqueue \in [Jobs -> {"new", "now", "later", "done", "failed"}]

ProducerInit == enqueue = [j \in Jobs |-> "new"]

(* (A): INSERT of a pending row, or of a delayed one when delay > 0. *)
InsertPendingJob(j) ==
  /\ enqueue[j] = "new"
  /\ enqueue' = [enqueue EXCEPT ![j] = "now"]
  /\ row' = [row EXCEPT ![j] = [status |-> "pending", attempts |-> 0]]
  /\ UNCHANGED <<hash, listVars, fleetVars>>

InsertDelayedJob(j) ==
  /\ enqueue[j] = "new"
  /\ enqueue' = [enqueue EXCEPT ![j] = "later"]
  /\ row' = [row EXCEPT ![j] = [status |-> "delayed", attempts |-> 0]]
  /\ UNCHANGED <<hash, listVars, fleetVars>>

NewHash(st) == [status |-> st, attempts |-> 0, named |-> TRUE]

(* (B): MULTI { SADD; HSET; LPUSH } on the immediate path. *)
EnqueueNow(j) ==
  /\ enqueue[j] = "now"
  /\ enqueue' = [enqueue EXCEPT ![j] = "done"]
  /\ hash' = [hash EXCEPT ![j] = NewHash("pending")]
  /\ queue' = LPush(queue, j)
  /\ UNCHANGED <<row, delayed, dlq, processing, fleetVars>>

(* (B): MULTI { SADD; HSET; ZADD } on the delayed path. *)
EnqueueLater(j) ==
  /\ enqueue[j] = "later"
  /\ enqueue' = [enqueue EXCEPT ![j] = "done"]
  /\ hash' = [hash EXCEPT ![j] = NewHash("delayed")]
  /\ delayed' = delayed \cup {j}
  /\ UNCHANGED <<row, queue, dlq, processing, fleetVars>>

Enqueueing(j) == enqueue[j] \in {"now", "later"}

(* (B) fails, and the caller gets the error. *)
EnqueueFails(j) ==
  /\ Enqueueing(j)
  /\ enqueue' = [enqueue EXCEPT ![j] = "failed"]
  /\ UNCHANGED storeVars

InsertRow(j)   == InsertPendingJob(j) \/ InsertDelayedJob(j)
PushFirst(j)   == EnqueueNow(j) \/ EnqueueLater(j)

=============================================================================
