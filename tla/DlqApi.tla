------------------------------- MODULE DlqApi -------------------------------
(***************************************************************************)
(* The two endpoints of the API server that put a job back: retry of one   *)
(* failed or dead-lettered job, and bulk requeue of a list of ids.  Each   *)
(* request runs its commands one by one; requests interleave.  A failing   *)
(* command ends a retry, and makes a bulk requeue go on with the next id.  *)
(***************************************************************************)
EXTENDS JobStore

CONSTANTS Requests,     \* the requests that may be in flight at once
          MaxMentions   \* bound: an array of ids has an id at most so often

ASSUME MaxMentionsAssumption == MaxMentions \in Nat

VARIABLE req   \* of each request: the handler's progress

RequestPC == {"idle", "pg", "reset", "drop", "push"}

ReqIdle == [pc |-> "idle", bulk |-> FALSE, todo |-> NoTokens, job |-> None]

DlqApiTypeOK ==
  /\ req \in [Requests -> [pc : RequestPC, bulk : BOOLEAN,
                           todo : Bag, job : Jobs \cup {None}]]
  /\ \A r \in Requests : req[r].pc # "idle" => req[r].job \in Jobs

DlqApiInit == req = [r \in Requests |-> ReqIdle]

(* Jobs a request is about to push. *)
Requeueing(r) == IF req[r].pc = "push" THEN {req[r].job} ELSE {}

(* POST /jobs/:id/retry, past its check of the row. *)
RetryJob(r, j) ==
  /\ req[r].pc = "idle"
  /\ row[j].status = "dlq"
  /\ req' = [req EXCEPT ![r] = [pc |-> "pg", bulk |-> FALSE, todo |-> NoTokens, job |-> j]]
  /\ UNCHANGED storeVars

(* A bulk requeue that still has the ids in todo to do. *)
BulkWith(todo, j) ==
  [pc |-> "pg", bulk |-> TRUE, todo |-> LRem(todo, j), job |-> j]

(* POST /queues/:name/dlq/requeue of the ids in b, j first: no check. *)
Requeue(r, b, j) ==
  /\ req[r].pc = "idle"
  /\ b[j] > 0
  /\ req' = [req EXCEPT ![r] = BulkWith(b, j)]
  /\ UNCHANGED storeVars

(* { all: true }: the ids are those of LRANGE. *)
RequeueAll(r, j) == Requeue(r, dlq, j)

(* { jobIds: [...] }: any ids, whatever became of them.                    *)
RequeueIds(r, j) == \E ids \in [Jobs -> 0..MaxMentions] : Requeue(r, ids, j)

ResetRow(r) ==
  /\ req[r].pc = "pg"
  /\ MarkJobPendingForRetry(req[r].job)
  /\ req' = [req EXCEPT ![r].pc = "reset"]
  /\ UNCHANGED <<hash, listVars, fleetVars>>

(* HSET creates the key, without a jobName, when there is none. *)
ResetHash(r) ==
  /\ req[r].pc = "reset"
  /\ hash' = [hash EXCEPT ![req[r].job] =
                [status |-> "pending", attempts |-> 0, named |-> @.named]]
  /\ req' = [req EXCEPT ![r].pc = "drop"]
  /\ UNCHANGED <<row, listVars, fleetVars>>

(* LREM 0 in a retry, LREM 1 in a bulk requeue. *)
DropFromDlq(r) ==
  /\ req[r].pc = "drop"
  /\ dlq' = IF req[r].bulk THEN LRem(dlq, req[r].job) ELSE LRemAll(dlq, req[r].job)
  /\ req' = [req EXCEPT ![r].pc = "push"]
  /\ UNCHANGED <<recordVars, queue, delayed, processing, fleetVars>>

(* Mutant: the loop over the ids runs one past their end. *)
BadNextId(r) ==
  IF req[r].todo = NoTokens THEN req' = [req EXCEPT ![r].pc = "pg", ![r].job = None]
  ELSE \E j \in Jobs :
         req[r].todo[j] > 0 /\ req' = [req EXCEPT ![r] = BulkWith(@.todo, j)]

(* The request goes on with the next id, or is answered. *)
NextId(r) ==
  IF req[r].todo = NoTokens THEN req' = [req EXCEPT ![r] = ReqIdle]
  ELSE \E j \in Jobs :
         req[r].todo[j] > 0 /\ req' = [req EXCEPT ![r] = BulkWith(@.todo, j)]

(* Mutant: the ids are dropped from the dead letters only. *)
BadPushBackToQueue(r) ==
  /\ req[r].pc = "push"
  /\ NextId(r)
  /\ UNCHANGED storeVars

(* HGETALL of the hash for the priority, then LPUSH. *)
PushBackToQueue(r) ==
  /\ req[r].pc = "push"
  /\ queue' = LPush(queue, req[r].job)
  /\ NextId(r)
  /\ UNCHANGED <<recordVars, delayed, dlq, processing, fleetVars>>

RequestFails(r) ==
  /\ req[r].pc # "idle"
  /\ NextId(r)
  /\ UNCHANGED storeVars

=============================================================================
