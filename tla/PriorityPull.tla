----------------------------- MODULE PriorityPull -----------------------------
(***************************************************************************)
(* The order in which the workers of one queue take jobs from its three    *)
(* lists.  Each worker tries the lists one RPOPLPUSH after the other, in   *)
(* an order that its pull counter rotates with a period of ten pulls, and  *)
(* waits in a BLMOVE on the normal list when all three were empty.         *)
(* Meanwhile jobs arrive, other workers pull, and jobs that the rate       *)
(* limiter denies are pushed back.                                         *)
(*                                                                         *)
(* The lists are sequences here: LPUSH adds at the left, RPOPLPUSH and     *)
(* BLMOVE take from the right.  What becomes of a job once it is pulled is *)
(* the subject of other modules; a job that is done may arrive again, as a *)
(* new one of its priority, so the flow of jobs never ends.                *)
(***************************************************************************)
EXTENDS Integers, Sequences, FiniteSets

CONSTANTS
  Jobs,
  Priority,     \* the priority of each job, immutable
  Workers,
  Concurrency,  \* how many jobs a worker runs at once
  MaxErrors     \* bound: how often a pull of each worker fails

Lists == {"high", "normal", "low"}

ASSUME PullAssumption ==
  /\ Priority \in [Jobs -> Lists]
  /\ Concurrency \in Nat \ {0}
  /\ MaxErrors \in Nat

VARIABLES
  lists,   \* Redis nexus:queue:<q>:high, nexus:queue:<q> and nexus:queue:<q>:low
  held,    \* of each worker: the jobs it processes
  turn,    \* of each worker: pullIndex % 10
  pull,    \* of each worker: the order of the pull in flight, and what it tries next
  errors,  \* of each worker: how many of its pulls have failed
  passed   \* history, of each worker and list: the jobs it has taken elsewhere
           \* since the list was empty or it took one from it

pullVars == <<lists, held, turn, pull, errors, passed>>

(* Mutant: the tenth pull does not prefer the low list. *)
BadPriorityOrder(idx) ==
  IF idx <= 5 THEN <<"high", "normal", "low">> ELSE <<"normal", "high", "low">>

(* getPriorityOrder *)
PriorityOrder(idx) ==
  IF idx <= 5 THEN <<"high", "normal", "low">>
  ELSE IF idx <= 8 THEN <<"normal", "high", "low">>
  ELSE <<"low", "high", "normal">>

Orders == {PriorityOrder(i) : i \in 0 .. 9}

(* next: 0 between two pulls, 1 to 3 a list of the order, 4 the BLMOVE. *)
PullTypeOK ==
  /\ lists \in [Lists -> Seq(Jobs)]
  /\ held \in [Workers -> SUBSET Jobs]
  /\ turn \in [Workers -> 0 .. 9]
  /\ pull \in [Workers -> [order : Orders, next : 0 .. 4]]
  /\ errors \in [Workers -> 0 .. MaxErrors]
  /\ passed \in [Workers -> [Lists -> Nat]]

PullInit ==
  /\ lists = [l \in Lists |-> <<>>]
  /\ held = [w \in Workers |-> {}]
  /\ turn = [w \in Workers |-> 0]
  /\ pull = [w \in Workers |-> [order |-> PriorityOrder(0), next |-> 0]]
  /\ errors = [w \in Workers |-> 0]
  /\ passed = [w \in Workers |-> [l \in Lists |-> 0]]

Enqueued(j) == \E i \in DOMAIN lists[Priority[j]] : lists[Priority[j]][i] = j

LPush(j) == lists' = [lists EXCEPT ![Priority[j]] = <<j>> \o @]

(* enqueue, promotion, recovery or retry of a job. *)
Arrive(j) ==
  /\ ~ Enqueued(j) /\ \A w \in Workers : j \notin held[w]
  /\ LPush(j)
  /\ UNCHANGED <<held, turn, pull, errors, passed>>

(* Mutant: pullIndex is not taken modulo ten. *)
BadBeginPull(w) ==
  /\ pull[w].next = 0
  /\ Cardinality(held[w]) < Concurrency
  /\ pull' = [pull EXCEPT ![w] = [order |-> PriorityOrder(turn[w]), next |-> 1]]
  /\ turn' = [turn EXCEPT ![w] = @ + 1]
  /\ UNCHANGED <<lists, held, errors, passed>>

(* A free slot: getPriorityOrder() of the next pull. *)
BeginPull(w) ==
  /\ pull[w].next = 0
  /\ Cardinality(held[w]) < Concurrency
  /\ pull' = [pull EXCEPT ![w] = [order |-> PriorityOrder(turn[w]), next |-> 1]]
  /\ turn' = [turn EXCEPT ![w] = (@ + 1) % 10]
  /\ UNCHANGED <<lists, held, errors, passed>>

(* What the rest of list l is once its rightmost job is taken. *)
Rest(l) == SubSeq(lists[l], 1, Len(lists[l]) - 1)

(* History counts no further than this, more than any list is ever owed. *)
Cap == 11 + 9 * MaxErrors
More(n) == IF n < Cap THEN n + 1 ELSE n

(* The worker's turns at the other lists, those that are still waiting. *)
Account(w, l) ==
  passed' = [v \in Workers |-> [k \in Lists |->
    IF k = l /\ (v = w \/ Rest(l) = <<>>) THEN 0
    ELSE IF v = w /\ lists[k] # <<>> THEN More(passed[v][k])
    ELSE passed[v][k]]]

Take(w, l) ==
  /\ lists[l] # <<>>
  /\ lists' = [lists EXCEPT ![l] = Rest(l)]
  /\ held' = [held EXCEPT ![w] = @ \cup {lists[l][Len(lists[l])]}]
  /\ pull' = [pull EXCEPT ![w].next = 0]
  /\ Account(w, l)
  /\ UNCHANGED <<turn, errors>>

Trying(w) == pull[w].next \in 1 .. 3
Tried(w) == pull[w].order[pull[w].next]

(* RPOPLPUSH finds a job in the list the worker tries, ... *)
TryHit(w) == Trying(w) /\ Take(w, Tried(w))

(* ... or nothing. *)
TryMiss(w) ==
  /\ Trying(w) /\ lists[Tried(w)] = <<>>
  /\ pull' = [pull EXCEPT ![w].next = @ + 1]
  /\ UNCHANGED <<lists, held, turn, errors, passed>>

(* BLMOVE: a job of the normal list, or nothing within 5 seconds. *)
BlockHit(w) == pull[w].next = 4 /\ Take(w, "normal")

BlockTimeout(w) ==
  /\ pull[w].next = 4 /\ lists["normal"] = <<>>
  /\ pull' = [pull EXCEPT ![w].next = 0]
  /\ UNCHANGED <<lists, held, turn, errors, passed>>

(* A command of the pull fails: the loop goes on with the next turn. *)
PullFails(w) ==
  /\ pull[w].next # 0 /\ errors[w] < MaxErrors
  /\ pull' = [pull EXCEPT ![w].next = 0]
  /\ errors' = [errors EXCEPT ![w] = @ + 1]
  /\ UNCHANGED <<lists, held, turn, passed>>

Finish(w, j) ==
  /\ j \in held[w]
  /\ held' = [held EXCEPT ![w] = @ \ {j}]
  /\ UNCHANGED <<lists, turn, pull, errors, passed>>

(* The limiter denies the job: MULTI { LREM; LPUSH }. *)
PushBack(w, j) ==
  /\ j \in held[w]
  /\ held' = [held EXCEPT ![w] = @ \ {j}]
  /\ LPush(j)
  /\ UNCHANGED <<turn, pull, errors, passed>>

PullStep(w) ==
  BeginPull(w) \/ TryHit(w) \/ TryMiss(w) \/ BlockHit(w) \/ BlockTimeout(w)

Release(w) == \E j \in Jobs : Finish(w, j) \/ PushBack(w, j)

PullNext ==
  \/ \E j \in Jobs : Arrive(j)
  \/ \E w \in Workers : PullStep(w) \/ PullFails(w) \/ Release(w)

PullSpec == PullInit /\ [][PullNext]_pullVars

(* The loop goes on, and handlers end.  Nothing is assumed of arrivals. *)
FairPullSpec ==
  PullSpec /\ \A w \in Workers : WF_pullVars(PullStep(w)) /\ WF_pullVars(Release(w))

-----------------------------------------------------------------------------
(* How many jobs a worker may take elsewhere while jobs wait in a list:    *)
(* one per turn that prefers another list, one more by a pull that had     *)
(* found the list empty, and nine more for each pull that failed.          *)
Patience(l) ==
  CASE l = "high" -> 5 [] l = "normal" -> 8 [] l = "low" -> 10

(* The weighted rotation is fair in numbers: however jobs arrive, are      *)
(* taken by others and are pushed back, no worker passes over a list in    *)
(* which jobs wait more often than its patience (worker.ts                 *)
(* getPriorityOrder, pullJob).                                             *)
BoundedBypass ==
  \A w \in Workers, l \in Lists : passed[w][l] <= Patience(l) + 9 * errors[w]

(* Why: by how many jobs a list can have been passed over when turn t      *)
(* comes; a list preferred by the pull in flight was empty if it is past   *)
(* its first try, and an empty list is owed nothing.                       *)
Since(l, t) ==
  CASE l = "high"   -> IF t = 0 THEN 5 ELSE IF t <= 6 THEN 1 ELSE t - 5
    [] l = "normal" -> IF t <= 6 THEN t + 2 ELSE 1
    [] l = "low"    -> t + 1

LastTurn(w) == (turn[w] + 9) % 10

BypassOf(w, l) ==
  IF pull[w].next = 0
  THEN passed[w][l] <= Since(l, turn[w]) + 9 * errors[w]
  ELSE /\ pull[w].order = PriorityOrder(LastTurn(w))
       /\ passed[w][l] <= Since(l, LastTurn(w)) + 9 * errors[w]
       /\ pull[w].order[1] = l /\ pull[w].next > 1 => passed[w][l] = 0

BypassInv ==
  \A w \in Workers, l \in Lists :
    /\ BypassOf(w, l)
    /\ lists[l] = <<>> => passed[w][l] = 0

(* ... and in time: under a steady flow of the other priorities, and with  *)
(* workers that may sit in a BLMOVE on the normal list, every job that is  *)
(* queued is pulled (worker.ts pullJob).                                   *)
NoStarvation == \A j \in Jobs : Enqueued(j) ~> ~ Enqueued(j)

=============================================================================
