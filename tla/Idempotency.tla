----------------------------- MODULE Idempotency -----------------------------
(***************************************************************************)
(* Producer.enqueue as its callers see it: which calls create a job, and   *)
(* what each is answered, when several give the same idempotency key.      *)
(* Two guards stand against duplicates: the Redis key, read first and      *)
(* written last, which expires; and the unique index of the jobs table,    *)
(* which covers only the immediate path, whose INSERT stores the key.      *)
(*                                                                         *)
(* A job is named by the call that creates it (id = uuidv4()).  A client   *)
(* that tries again is another call.                                       *)
(***************************************************************************)
EXTENDS Naturals, TLAPS

CONSTANTS
  Calls,       \* the enqueue calls
  Delayed,     \* those with delay > 0
  Keys,        \* the idempotency keys
  Key,         \* the key of each call, or NoKey
  NoKey,       \* options.idempotencyKey is absent
  NoJob,       \* no job id
  MaxFailures  \* bound: how many commands may fail

ASSUME IdempotencyAssumption ==
  /\ Delayed \subseteq Calls
  /\ Key \in [Calls -> Keys \cup {NoKey}]
  /\ NoKey \notin Keys
  /\ NoJob \notin Calls
  /\ MaxFailures \in Nat

VARIABLES
  pc,       \* of each call: the command that comes next
  answer,   \* of each call: the id it returned, if it returned
  rows,     \* PostgreSQL: the jobs with a row
  indexed,  \* PostgreSQL: of each key, the job whose row has it
  pushed,   \* Redis: the jobs whose MULTI was executed
  stored,   \* Redis nexus:idem:<key>: a job id, or absent
  failures  \* how many more commands may fail

idemVars == <<pc, answer, rows, indexed, pushed, stored, failures>>

CallPC == {"lookup", "insert", "push", "store", "returned", "threw"}

Keyed(c) == Key[c] # NoKey

(* The calls that put their key into their row. *)
Immediate == Calls \ Delayed

IdemTypeOK ==
  /\ pc \in [Calls -> CallPC]
  /\ answer \in [Calls -> Calls \cup {NoJob}]
  /\ rows \subseteq Calls
  /\ indexed \in [Keys -> Calls \cup {NoJob}]
  /\ pushed \subseteq Calls
  /\ stored \in [Keys -> Calls \cup {NoJob}]
  /\ failures \in Nat

IdemInit ==
  /\ pc = [c \in Calls |-> "lookup"]
  /\ answer = [c \in Calls |-> NoJob]
  /\ rows = {}
  /\ indexed = [k \in Keys |-> NoJob]
  /\ pushed = {}
  /\ stored = [k \in Keys |-> NoJob]
  /\ failures = MaxFailures

-----------------------------------------------------------------------------
At(c, l)   == pc[c] = l
Goto(c, l) == pc' = [pc EXCEPT ![c] = l]

Return(c, id) == Goto(c, "returned") /\ answer' = [answer EXCEPT ![c] = id]

(* GET of the key: its job is the answer.  A call without a key skips it. *)
Found(c) ==
  /\ At(c, "lookup") /\ Keyed(c)
  /\ stored[Key[c]] # NoJob
  /\ Return(c, stored[Key[c]])
  /\ UNCHANGED <<rows, indexed, pushed, stored, failures>>

(* Mutant: the key is stored before the job is. *)
BadNotFound(c) ==
  /\ At(c, "lookup")
  /\ Keyed(c) => stored[Key[c]] = NoJob
  /\ stored' = IF Keyed(c) THEN [stored EXCEPT ![Key[c]] = c] ELSE stored
  /\ Goto(c, "insert")
  /\ UNCHANGED <<answer, rows, indexed, pushed, failures>>

NotFound(c) ==
  /\ At(c, "lookup")
  /\ Keyed(c) => stored[Key[c]] = NoJob
  /\ Goto(c, "insert")
  /\ UNCHANGED <<answer, rows, indexed, pushed, stored, failures>>

Conflict(c) == c \in Immediate /\ Keyed(c) /\ indexed[Key[c]] # NoJob

(* Mutant: the key is left out of the row. *)
BadIndexing(c) == indexed

(* insertDelayedJob stores no key, and neither does a call without one. *)
Indexing(c) ==
  IF c \in Immediate /\ Keyed(c) THEN [indexed EXCEPT ![Key[c]] = c] ELSE indexed

(* Mutant: the INSERT does not run into the unique index. *)
BadInsert(c) ==
  /\ At(c, "insert")
  /\ rows' = rows \cup {c}
  /\ indexed' = Indexing(c)
  /\ Goto(c, "push")
  /\ UNCHANGED <<answer, pushed, stored, failures>>

Insert(c) ==
  /\ At(c, "insert") /\ ~ Conflict(c)
  /\ rows' = rows \cup {c}
  /\ indexed' = Indexing(c)
  /\ Goto(c, "push")
  /\ UNCHANGED <<answer, pushed, stored, failures>>

(* The violation of the unique index is thrown at the caller. *)
InsertRejected(c) ==
  /\ At(c, "insert") /\ Conflict(c)
  /\ Goto(c, "threw")
  /\ UNCHANGED <<answer, rows, indexed, pushed, stored, failures>>

(* MULTI with the hash and the token; without a key the call is done. *)
Push(c) ==
  /\ At(c, "push")
  /\ pushed' = pushed \cup {c}
  /\ IF Keyed(c) THEN Goto(c, "store") /\ UNCHANGED answer ELSE Return(c, c)
  /\ UNCHANGED <<rows, indexed, stored, failures>>

(* SET with EX and without NX: whatever is there is replaced. *)
Store(c) ==
  /\ At(c, "store")
  /\ stored' = [stored EXCEPT ![Key[c]] = c]
  /\ Return(c, c)
  /\ UNCHANGED <<rows, indexed, pushed, failures>>

(* The 24 hours are over, or Redis has lost the key. *)
Expire(k) ==
  /\ stored[k] # NoJob
  /\ stored' = [stored EXCEPT ![k] = NoJob]
  /\ UNCHANGED <<pc, answer, rows, indexed, pushed, failures>>

Fail(c) == failures > 0 /\ failures' = failures - 1 /\ Goto(c, "threw")

(* The command that comes next fails, or the API server dies before it. *)
CommandFails(c) ==
  /\ pc[c] \notin {"returned", "threw"}
  /\ Fail(c)
  /\ UNCHANGED <<answer, rows, indexed, pushed, stored>>

(* It is executed, but its reply is lost. *)
ReplyLost(c) ==
  /\ pc[c] \in {"insert", "push", "store"}
  /\ At(c, "insert") => ~ Conflict(c)
  /\ Fail(c)
  /\ rows' = rows \cup {c}
  /\ indexed' = Indexing(c)
  /\ pushed' = IF At(c, "insert") THEN pushed ELSE pushed \cup {c}
  /\ stored' = IF At(c, "store") THEN [stored EXCEPT ![Key[c]] = c] ELSE stored
  /\ UNCHANGED answer

CallStep(c) ==
  \/ Found(c) \/ NotFound(c) \/ Insert(c) \/ InsertRejected(c) \/ Push(c) \/ Store(c)

IdemNext ==
  \/ \E c \in Calls : CallStep(c) \/ CommandFails(c) \/ ReplyLost(c)
  \/ \E k \in Keys : Expire(k)

IdemSpec == IdemInit /\ [][IdemNext]_idemVars

-----------------------------------------------------------------------------
(* No two immediate calls create a job for the same key: neither two that  *)
(* overlap and both miss the Redis key, nor one that comes after the Redis *)
(* key has expired, nor one that repeats a call whose error hid that the   *)
(* job exists (producer.ts enqueue, the index of 002_reliability.sql).     *)
OneJobPerKey ==
  \A c, d \in Immediate \cap rows : Keyed(c) /\ Key[c] = Key[d] => c = d

(* No delayed call gives the key k. *)
NoDelayed(k) == \A e \in Delayed : Key[e] # k

(* Calls with the same key are answered the same id, when none of them is  *)
(* delayed: the SET without NX never replaces another call's id.           *)
AnswersAgree ==
  \A c, d \in Calls :
    /\ Keyed(c) /\ Key[c] = Key[d] /\ NoDelayed(Key[c])
    /\ answer[c] # NoJob /\ answer[d] # NoJob
    => answer[c] = answer[d]

(* A caller that gets an id can rely on the job: it has its row and is in  *)
(* Redis, although the caller may have it from a key that another call,    *)
(* since failed, has written.                                              *)
AnsweredIsEnqueued ==
  \A c \in Calls : answer[c] # NoJob => answer[c] \in rows \cap pushed

(* Why: an immediate job with a row is the one its key is indexed for; the *)
(* Redis key, and so an answer, names a job that is past its MULTI; and    *)
(* for a key no delayed call gives, it names the indexed job.  Inductive,  *)
(* with the types.                                                         *)
IdemInv ==
  /\ \A c \in Immediate \cap rows : Keyed(c) => indexed[Key[c]] = c
  /\ \A c \in Calls : pc[c] \in {"push", "store"} => c \in rows
  /\ \A c \in Calls : pc[c] = "store" => Keyed(c) /\ c \in pushed
  /\ \A k \in Keys : stored[k] # NoJob =>
        /\ stored[k] \in rows \cap pushed
        /\ NoDelayed(k) => stored[k] = indexed[k]
  /\ \A c \in Calls : answer[c] # NoJob =>
        /\ answer[c] \in rows \cap pushed
        /\ Keyed(c) /\ NoDelayed(Key[c]) => answer[c] = indexed[Key[c]]

-----------------------------------------------------------------------------
(* Proofs, for any number of calls, keys and failures. *)

(* Every step of the calls and of the Redis keys preserves the types.      *)
LEMMA IdemTypeStep == IdemTypeOK /\ [IdemNext]_idemVars => IdemTypeOK'
<1> SUFFICES ASSUME IdemTypeOK, [IdemNext]_idemVars
             PROVE  IdemTypeOK'
  OBVIOUS
<1> USE IdempotencyAssumption DEF IdemTypeOK, CallPC, At, Goto, Return
<1>1. ASSUME NEW c \in Calls, CallStep(c)
      PROVE  IdemTypeOK'
  <2>1. CASE Found(c)
    BY <2>1 DEF Found, Keyed
  <2>2. CASE NotFound(c)
    BY <2>2 DEF NotFound
  <2>3. CASE Insert(c)
    BY <2>3 DEF Insert, Indexing, Keyed
  <2>4. CASE InsertRejected(c)
    BY <2>4 DEF InsertRejected
  <2>5. CASE Push(c)
    BY <2>5 DEF Push
  <2>6. CASE Store(c)
    BY <2>6 DEF Store
  <2> QED
    BY <1>1, <2>1, <2>2, <2>3, <2>4, <2>5, <2>6 DEF CallStep
<1>2. ASSUME NEW c \in Calls, CommandFails(c)
      PROVE  IdemTypeOK'
  BY <1>2 DEF CommandFails, Fail
<1>3. ASSUME NEW c \in Calls, ReplyLost(c)
      PROVE  IdemTypeOK'
  <2>1. indexed' \in [Keys -> Calls \cup {NoJob}]
    BY <1>3 DEF ReplyLost, Indexing, Keyed
  <2>2. stored' \in [Keys -> Calls \cup {NoJob}]
    BY <1>3 DEF ReplyLost
  <2>3. pc' \in [Calls -> CallPC] /\ answer' \in [Calls -> Calls \cup {NoJob}]
    BY <1>3 DEF ReplyLost, Fail
  <2>4. rows' \subseteq Calls /\ pushed' \subseteq Calls /\ failures' \in Nat
    BY <1>3 DEF ReplyLost, Fail
  <2> QED
    BY <2>1, <2>2, <2>3, <2>4
<1>4. ASSUME NEW k \in Keys, Expire(k)
      PROVE  IdemTypeOK'
  BY <1>4 DEF Expire
<1>5. CASE UNCHANGED idemVars
  BY <1>5 DEF idemVars
<1> QED
  BY <1>1, <1>2, <1>3, <1>4, <1>5 DEF IdemNext

(* Every step preserves the relation between rows, index, Redis keys and   *)
(* answers.                                                                *)
LEMMA IdemStep == IdemTypeOK /\ IdemInv /\ [IdemNext]_idemVars => IdemInv'
<1> SUFFICES ASSUME IdemTypeOK, IdemInv, [IdemNext]_idemVars
             PROVE  IdemInv'
  OBVIOUS
<1> USE IdempotencyAssumption
    DEF IdemTypeOK, IdemInv, At, Goto, Return, Keyed, NoDelayed, Immediate
<1>1. ASSUME NEW c \in Calls, CallStep(c)
      PROVE  IdemInv'
  <2>1. CASE Found(c)
    BY <2>1 DEF Found
  <2>2. CASE NotFound(c)
    BY <2>2 DEF NotFound
  <2>3. CASE Insert(c)
    BY <2>3 DEF Insert, Indexing, Conflict
  <2>4. CASE InsertRejected(c)
    BY <2>4 DEF InsertRejected
  <2>5. CASE Push(c)
    BY <2>5 DEF Push
  <2>6. CASE Store(c)
    BY <2>6 DEF Store
  <2> QED
    BY <1>1, <2>1, <2>2, <2>3, <2>4, <2>5, <2>6 DEF CallStep
<1>2. ASSUME NEW c \in Calls, CommandFails(c)
      PROVE  IdemInv'
  BY <1>2 DEF CommandFails, Fail
<1>3. ASSUME NEW c \in Calls, ReplyLost(c)
      PROVE  IdemInv'
  <2>1. CASE pc[c] = "insert"
    BY <1>3, <2>1 DEF ReplyLost, Fail, Indexing, Conflict
  <2>2. CASE pc[c] # "insert"
    BY <1>3, <2>2 DEF ReplyLost, Fail, Indexing
  <2> QED
    BY <2>1, <2>2
<1>4. ASSUME NEW k \in Keys, Expire(k)
      PROVE  IdemInv'
  BY <1>4 DEF Expire
<1>5. CASE UNCHANGED idemVars
  BY <1>5 DEF idemVars
<1> QED
  BY <1>1, <1>2, <1>3, <1>4, <1>5 DEF IdemNext

(* The relation between rows, index, Redis keys and answers always holds.  *)
THEOREM IdempotencyInvariant == IdemSpec => [](IdemTypeOK /\ IdemInv)
<1>1. IdemInit => IdemTypeOK /\ IdemInv
  BY IdempotencyAssumption DEF IdemInit, IdemTypeOK, IdemInv, CallPC
<1> QED
  BY <1>1, IdemTypeStep, IdemStep, PTL DEF IdemSpec

(* No two immediate calls ever create a job for one key, whatever overlaps,*)
(* expires or fails: the unique index decides, not the Redis key.          *)
THEOREM JobsAreUnique == IdemSpec => []OneJobPerKey
<1>1. IdemTypeOK /\ IdemInv => OneJobPerKey
  BY DEF IdemInv, OneJobPerKey, Keyed, Immediate
<1> QED
  BY <1>1, IdempotencyInvariant, PTL

(* All calls with one key, none of them delayed, are answered the same id. *)
THEOREM AnswersAreUnique == IdemSpec => []AnswersAgree
<1>1. IdemTypeOK /\ IdemInv => AnswersAgree
  BY DEF IdemInv, AnswersAgree, Keyed
<1> QED
  BY <1>1, IdempotencyInvariant, PTL

(* The job a caller is answered has its row and has reached Redis.         *)
THEOREM AnswersAreEnqueued == IdemSpec => []AnsweredIsEnqueued
<1>1. IdemTypeOK /\ IdemInv => AnsweredIsEnqueued
  BY DEF IdemInv, AnsweredIsEnqueued
<1> QED
  BY <1>1, IdempotencyInvariant, PTL

=============================================================================
