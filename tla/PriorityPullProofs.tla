-------------------------- MODULE PriorityPullProofs --------------------------
(***************************************************************************)
(* Theorems about PriorityPull for any jobs, priorities and arrivals, any  *)
(* number of workers, any concurrency and any number of failing pulls.     *)
(***************************************************************************)
EXTENDS PriorityPull, SequenceTheorems, TLAPS

USE PullAssumption DEF Lists

-----------------------------------------------------------------------------
(* Type correctness. *)

(* Each order is one of three, and names lists (getPriorityOrder). *)
LEMMA OrderFacts ==
  ASSUME NEW i \in 0 .. 9
  PROVE  /\ PriorityOrder(i) \in Orders
         /\ \A k \in 1 .. 3 : PriorityOrder(i)[k] \in Lists
  BY DEF PriorityOrder, Orders

(* An order that a pull has is one of getPriorityOrder's. *)
LEMMA OrderOfPull ==
  ASSUME NEW o \in Orders
  PROVE  \A k \in 1 .. 3 : o[k] \in Lists
<1>1. PICK i \in 0 .. 9 : o = PriorityOrder(i)
  BY DEF Orders
<1> QED BY <1>1, OrderFacts

(* A pull that moves on is typed (the for loop of pullJob). *)
LEMMA MovesTyped ==
  ASSUME pull \in [Workers -> [order : Orders, next : 0 .. 4]],
         NEW w \in Workers, NEW n \in 0 .. 4,
         pull' = [pull EXCEPT ![w].next = n]
  PROVE  pull' \in [Workers -> [order : Orders, next : 0 .. 4]]
  OBVIOUS

(* ... and so is one that ends. *)
LEMMA EndTyped ==
  ASSUME pull \in [Workers -> [order : Orders, next : 0 .. 4]],
         NEW w \in Workers, pull' = [pull EXCEPT ![w].next = 0]
  PROVE  pull' \in [Workers -> [order : Orders, next : 0 .. 4]]
<1>1. 0 \in 0 .. 4
  OBVIOUS
<1> QED BY <1>1, MovesTyped

(* A list without its rightmost job is a list of jobs (RPOPLPUSH). *)
LEMMA RestTyped ==
  ASSUME lists \in [Lists -> Seq(Jobs)], NEW l \in Lists, lists[l] # <<>>
  PROVE  Rest(l) \in Seq(Jobs) /\ lists[l][Len(lists[l])] \in Jobs
<1>1. lists[l] \in Seq(Jobs)
  OBVIOUS
<1>2. Len(lists[l]) \in Nat \ {0} /\ \A i \in 1 .. Len(lists[l]) : lists[l][i] \in Jobs
  BY <1>1
<1> QED BY <1>2, SubSeqProperties DEF Rest

(* A push keeps the lists typed (LPUSH). *)
LEMMA PushTyped ==
  ASSUME lists \in [Lists -> Seq(Jobs)], NEW j \in Jobs, LPush(j)
  PROVE  /\ lists' \in [Lists -> Seq(Jobs)]
         /\ \A l \in Lists : lists[l] # <<>> => lists'[l] # <<>>
         /\ \A l \in Lists : lists'[l] = <<>> => lists[l] = <<>>
<1> DEFINE l == Priority[j]
           q == <<j>> \o lists[l]
<1>1. l \in Lists /\ lists[l] \in Seq(Jobs) /\ <<j>> \in Seq(Jobs)
  OBVIOUS
<1>2. q \in Seq(Jobs) /\ Len(q) = 1 + Len(lists[l])
  BY <1>1, ConcatProperties
<1>3. q # <<>>
  BY <1>1, <1>2
<1>4. lists' = [lists EXCEPT ![l] = q]
  BY DEF LPush
<1> HIDE DEF q
<1> QED BY <1>1, <1>2, <1>3, <1>4

(* Taking a job keeps the types, and the count of what was passed over     *)
(* grows by at most one, only for lists in which jobs wait (pullJob).      *)
LEMMA TakeFacts ==
  ASSUME PullTypeOK, NEW w \in Workers, NEW l \in Lists, Take(w, l)
  PROVE  /\ PullTypeOK'
         /\ \A v \in Workers, k \in Lists :
              /\ passed'[v][k] = passed[v][k] \/ passed'[v][k] = 0
                 \/ (v = w /\ k # l /\ lists[k] # <<>> /\ passed'[v][k] = passed[v][k] + 1)
              /\ v = w /\ k = l => passed'[v][k] = 0
              /\ lists'[k] = <<>> =>
                   passed'[v][k] = 0 \/ (lists[k] = <<>> /\ passed'[v][k] = passed[v][k])
<1>1. /\ lists' \in [Lists -> Seq(Jobs)]
      /\ \A k \in Lists : lists'[k] = IF k = l THEN Rest(l) ELSE lists[k]
      /\ held' \in [Workers -> SUBSET Jobs]
  <2>1. Rest(l) \in Seq(Jobs) /\ lists[l][Len(lists[l])] \in Jobs
    BY RestTyped DEF Take, PullTypeOK
  <2> DEFINE j == lists[l][Len(lists[l])]
  <2>2. lists' = [lists EXCEPT ![l] = Rest(l)] /\ held' = [held EXCEPT ![w] = @ \cup {j}]
    BY DEF Take
  <2> HIDE DEF j
  <2>3. j \in Jobs
    BY <2>1 DEF j
  <2>4. lists \in [Lists -> Seq(Jobs)] /\ held \in [Workers -> SUBSET Jobs]
    BY DEF PullTypeOK
  <2> QED BY <2>1, <2>2, <2>3, <2>4
<1>2. pull' \in [Workers -> [order : Orders, next : 0 .. 4]]
  BY EndTyped DEF PullTypeOK, Take
<1>3. \A v \in Workers, k \in Lists :
        /\ passed[v][k] \in Nat /\ More(passed[v][k]) \in Nat
        /\ More(passed[v][k]) \in {passed[v][k], passed[v][k] + 1}
  BY DEF PullTypeOK, More
<1>4. passed' = [v \in Workers |-> [k \in Lists |->
                   IF k = l /\ (v = w \/ Rest(l) = <<>>) THEN 0
                   ELSE IF v = w /\ lists[k] # <<>> THEN More(passed[v][k])
                   ELSE passed[v][k]]]
  BY DEF Take, Account
<1>5. passed' \in [Workers -> [Lists -> Nat]]
  BY <1>3, <1>4
<1>6. PullTypeOK'
  BY <1>1, <1>2, <1>5 DEF PullTypeOK, Take
<1>7. ASSUME NEW v \in Workers, NEW k \in Lists
      PROVE  /\ passed'[v][k] = passed[v][k] \/ passed'[v][k] = 0
                \/ (v = w /\ k # l /\ lists[k] # <<>> /\ passed'[v][k] = passed[v][k] + 1)
             /\ v = w /\ k = l => passed'[v][k] = 0
             /\ lists'[k] = <<>> =>
                  passed'[v][k] = 0 \/ (lists[k] = <<>> /\ passed'[v][k] = passed[v][k])
  <2>1. passed'[v][k] =
          IF k = l /\ (v = w \/ Rest(l) = <<>>) THEN 0
          ELSE IF v = w /\ lists[k] # <<>> THEN More(passed[v][k])
          ELSE passed[v][k]
    BY <1>4
  <2>2. lists'[k] = IF k = l THEN Rest(l) ELSE lists[k]
    BY <1>1
  <2> QED BY <2>1, <2>2, <1>3
<1> QED BY <1>6, <1>7

(* Every step keeps the types. *)
LEMMA PullTyped ==
  ASSUME PullTypeOK, [PullNext]_pullVars
  PROVE  PullTypeOK'
<1>1. ASSUME NEW j \in Jobs, Arrive(j)
      PROVE  PullTypeOK'
  BY <1>1, PushTyped DEF Arrive, PullTypeOK
<1>2. ASSUME NEW w \in Workers, PullStep(w) \/ PullFails(w) \/ Release(w)
      PROVE  PullTypeOK'
  <2>1. CASE BeginPull(w)
    <3>1. turn[w] \in 0 .. 9 /\ PriorityOrder(turn[w]) \in Orders
      BY OrderFacts DEF PullTypeOK
    <3>2. (turn[w] + 1) % 10 \in 0 .. 9
      BY <3>1
    <3> QED BY <2>1, <3>1, <3>2 DEF BeginPull, PullTypeOK
  <2>2. CASE TryHit(w)
    <3>1. Tried(w) \in Lists
      <4>1. pull[w].order \in Orders /\ pull[w].next \in 1 .. 3
        BY <2>2 DEF TryHit, Trying, PullTypeOK
      <4> QED BY <4>1, OrderOfPull DEF Tried
    <3> QED BY <2>2, <3>1, TakeFacts DEF TryHit
  <2>3. CASE TryMiss(w)
    <3>1. pull[w].next + 1 \in 0 .. 4
      BY <2>3 DEF TryMiss, Trying
    <3>2. pull' \in [Workers -> [order : Orders, next : 0 .. 4]]
      BY <2>3, <3>1, MovesTyped DEF TryMiss, PullTypeOK
    <3> QED BY <2>3, <3>2 DEF TryMiss, PullTypeOK
  <2>4. CASE BlockHit(w)
    BY <2>4, TakeFacts DEF BlockHit
  <2>5. CASE BlockTimeout(w)
    <3>1. pull' \in [Workers -> [order : Orders, next : 0 .. 4]]
      BY <2>5, EndTyped DEF BlockTimeout, PullTypeOK
    <3> QED BY <2>5, <3>1 DEF BlockTimeout, PullTypeOK
  <2>6. CASE PullFails(w)
    <3>1. pull' \in [Workers -> [order : Orders, next : 0 .. 4]]
      BY <2>6, EndTyped DEF PullFails, PullTypeOK
    <3>2. errors' \in [Workers -> 0 .. MaxErrors]
      BY <2>6 DEF PullFails, PullTypeOK
    <3> QED BY <2>6, <3>1, <3>2 DEF PullFails, PullTypeOK
  <2>7. CASE Release(w)
    <3>1. ASSUME NEW j \in Jobs, Finish(w, j)
          PROVE  PullTypeOK'
      BY <3>1 DEF Finish, PullTypeOK
    <3>2. ASSUME NEW j \in Jobs, PushBack(w, j)
          PROVE  PullTypeOK'
      BY <3>2, PushTyped DEF PushBack, PullTypeOK
    <3> QED BY <2>7, <3>1, <3>2 DEF Release
  <2> QED BY <1>2, <2>1, <2>2, <2>3, <2>4, <2>5, <2>6, <2>7 DEF PullStep
<1>3. CASE UNCHANGED pullVars
  BY <1>3 DEF pullVars, PullTypeOK
<1> QED BY <1>1, <1>2, <1>3 DEF PullNext

(* Every variable of the pull keeps its type in every reachable state. *)
THEOREM PullTypeCorrect == PullSpec => []PullTypeOK
<1>1. PullInit => PullTypeOK
  BY OrderFacts DEF PullInit, PullTypeOK
<1>2. PullTypeOK /\ [PullNext]_pullVars => PullTypeOK'
  BY PullTyped
<1> QED BY <1>1, <1>2, PTL DEF PullSpec

-----------------------------------------------------------------------------
(* Bounded bypass. *)

(* What is owed to a list grows by one in a turn that prefers another, and *)
(* starts again with a turn that prefers it (getPriorityOrder).            *)
LEMMA SinceFacts ==
  ASSUME NEW l \in Lists, NEW t \in 0 .. 9
  PROVE  /\ Since(l, t) \in 1 .. Patience(l)
         /\ Patience(l) \in 1 .. 10
         /\ PriorityOrder(t)[1] = l => Since(l, (t + 1) % 10) = 1
         /\ PriorityOrder(t)[1] # l => Since(l, (t + 1) % 10) = Since(l, t) + 1
<1>1. CASE l = "high"
  BY <1>1 DEF Since, Patience, PriorityOrder
<1>2. CASE l = "normal"
  BY <1>2 DEF Since, Patience, PriorityOrder
<1>3. CASE l = "low"
  BY <1>3 DEF Since, Patience, PriorityOrder
<1> QED BY <1>1, <1>2, <1>3

(* The turn before the next one is the last one (pullIndex). *)
LEMMA TurnFacts ==
  ASSUME NEW t \in 0 .. 9
  PROVE  /\ (t + 9) % 10 \in 0 .. 9
         /\ (((t + 9) % 10) + 1) % 10 = t
         /\ (((t + 1) % 10) + 9) % 10 = t
  OBVIOUS

(* Taking a job from a list other than k adds to what k is owed no more    *)
(* than the turn allows (pullJob).                                         *)
LEMMA TakeBypass ==
  ASSUME PullTypeOK, BypassInv, NEW w \in Workers, NEW l \in Lists, Take(w, l),
         \/ pull[w].next \in 1 .. 3 /\ l = pull[w].order[pull[w].next]
         \/ pull[w].next = 4
  PROVE  BypassInv'
<1>1. /\ turn' = turn /\ errors' = errors
      /\ pull'[w].next = 0
      /\ \A v \in Workers : v # w => pull'[v] = pull[v]
  BY DEF Take, PullTypeOK
<1>2. \A v \in Workers, k \in Lists :
        turn[v] \in 0 .. 9 /\ errors[v] \in Nat /\ passed[v][k] \in Nat
  BY DEF PullTypeOK
<1>3. ASSUME NEW v \in Workers, NEW k \in Lists
      PROVE  lists'[k] = <<>> => passed'[v][k] = 0
  BY <1>3, TakeFacts DEF BypassInv
<1>4. ASSUME NEW v \in Workers, NEW k \in Lists, v # w
      PROVE  BypassOf(v, k)'
  <2>1. passed'[v][k] = passed[v][k] \/ passed'[v][k] = 0
    BY <1>4, TakeFacts
  <2>2. BypassOf(v, k)
    BY DEF BypassInv
  <2>3. LastTurn(v)' = LastTurn(v) /\ LastTurn(v) \in 0 .. 9
    BY <1>1, <1>2, TurnFacts DEF LastTurn
  <2>4. 0 <= Since(k, turn[v]) + 9 * errors[v] /\ 0 <= Since(k, LastTurn(v)) + 9 * errors[v]
    BY <1>2, <2>3, SinceFacts
  <2>5. turn'[v] = turn[v] /\ errors'[v] = errors[v] /\ pull'[v] = pull[v]
    BY <1>1, <1>4
  <2> QED BY <2>1, <2>2, <2>3, <2>4, <2>5 DEF BypassOf
<1>5. ASSUME NEW k \in Lists
      PROVE  BypassOf(w, k)'
  <2> DEFINE p == LastTurn(w)
  <2>1. p \in 0 .. 9 /\ (p + 1) % 10 = turn[w]
    BY <1>2, TurnFacts DEF LastTurn
  <2>2. /\ pull[w].order = PriorityOrder(p)
        /\ passed[w][k] <= Since(k, p) + 9 * errors[w]
        /\ pull[w].order[1] = k /\ pull[w].next > 1 => passed[w][k] = 0
    BY DEF BypassInv, BypassOf
  <2>3. passed'[w][k] <= Since(k, turn[w]) + 9 * errors[w]
    <3> HIDE DEF p
    <3>1. /\ Since(k, p) \in Int /\ Since(k, turn[w]) \in Int /\ Since(k, turn[w]) >= 1
          /\ PriorityOrder(p)[1] = k => Since(k, turn[w]) = 1
          /\ PriorityOrder(p)[1] # k => Since(k, turn[w]) = Since(k, p) + 1
      BY <2>1, <1>2, SinceFacts
    <3>2. /\ passed'[w][k] = 0 \/ passed'[w][k] = passed[w][k] \/ passed'[w][k] = passed[w][k] + 1
          /\ k = l => passed'[w][k] = 0
      BY TakeFacts
    <3>3. CASE k = l
      BY <3>1, <3>2, <3>3, <1>2
    <3>4. CASE k # l /\ PriorityOrder(p)[1] = k
      <4>1. pull[w].next > 1
        BY <3>4, <2>2
      <4> QED BY <4>1, <3>1, <3>2, <3>4, <2>2, <1>2
    <3>5. CASE PriorityOrder(p)[1] # k
      BY <3>1, <3>2, <3>5, <2>2, <1>2
    <3> QED BY <3>3, <3>4, <3>5
  <2> QED BY <2>3, <1>1 DEF BypassOf
<1>6. \A v \in Workers, k \in Lists : BypassOf(v, k)'
  BY <1>4, <1>5
<1> QED BY <1>3, <1>6 DEF BypassInv

(* Steps that take nothing leave what every list is owed, and may only     *)
(* add jobs to the lists.                                                  *)
LEMMA StillBypass ==
  ASSUME PullTypeOK, BypassInv, UNCHANGED passed,
         \A l \in Lists : lists'[l] = <<>> => lists[l] = <<>>,
         \A v \in Workers, k \in Lists : BypassOf(v, k)'
  PROVE  BypassInv'
  BY DEF BypassInv

(* A worker whose pull, turn, errors and account stay as they are owes     *)
(* what it owed.                                                           *)
LEMMA SameBypass ==
  ASSUME NEW v \in Workers, NEW k \in Lists, BypassOf(v, k),
         pull'[v] = pull[v], turn'[v] = turn[v], errors'[v] = errors[v],
         passed'[v] = passed[v]
  PROVE  BypassOf(v, k)'
  BY DEF BypassOf, LastTurn

(* What BypassInv says of a worker whose pull is in flight (pullJob).      *)
LEMMA InFlight ==
  ASSUME PullTypeOK, BypassInv, NEW w \in Workers, NEW l \in Lists, pull[w].next # 0
  PROVE  /\ turn[w] \in 0 .. 9 /\ errors[w] \in Nat /\ passed[w][l] \in Nat
         /\ Since(l, LastTurn(w)) \in 1 .. 10 /\ Since(l, turn[w]) \in 1 .. 10
         /\ pull[w].order = PriorityOrder(LastTurn(w))
         /\ passed[w][l] <= Since(l, LastTurn(w)) + 9 * errors[w]
         /\ pull[w].order[1] = l /\ pull[w].next > 1 => passed[w][l] = 0
         /\ pull[w].order[1] # l => Since(l, turn[w]) = Since(l, LastTurn(w)) + 1
<1>1. turn[w] \in 0 .. 9 /\ errors[w] \in Nat /\ passed[w][l] \in Nat
  BY DEF PullTypeOK
<1> DEFINE p == LastTurn(w)
<1>2. p \in 0 .. 9 /\ (p + 1) % 10 = turn[w]
  BY <1>1, TurnFacts DEF LastTurn
<1>3. BypassOf(w, l)
  BY DEF BypassInv
<1>4. /\ pull[w].order = PriorityOrder(p)
      /\ passed[w][l] <= Since(l, p) + 9 * errors[w]
      /\ pull[w].order[1] = l /\ pull[w].next > 1 => passed[w][l] = 0
  BY <1>3 DEF BypassOf
<1> HIDE DEF p
<1>5. /\ Since(l, p) \in 1 .. 10 /\ Since(l, turn[w]) \in 1 .. 10
      /\ PriorityOrder(p)[1] # l => Since(l, turn[w]) = Since(l, p) + 1
  <2>1. Patience(l) \in 1 .. 10 /\ Since(l, p) \in 1 .. Patience(l)
    BY <1>2, SinceFacts
  <2>2. Since(l, turn[w]) \in 1 .. Patience(l)
    BY <1>1, SinceFacts
  <2>3. PriorityOrder(p)[1] # l => Since(l, turn[w]) = Since(l, p) + 1
    BY <1>2, SinceFacts
  <2> QED BY <2>1, <2>2, <2>3
<1> QED BY <1>1, <1>4, <1>5 DEF p

(* The next turn begins (getPriorityOrder).                                *)
LEMMA BeginBypass ==
  ASSUME PullTypeOK, BypassInv, NEW w \in Workers, BeginPull(w)
  PROVE  BypassInv'
<1>1. ASSUME NEW k \in Lists
      PROVE  BypassOf(w, k)'
  <2>1. turn[w] \in 0 .. 9
    BY DEF PullTypeOK
  <2>2. pull'[w].next = 1 /\ pull'[w].order = PriorityOrder(turn[w])
    BY DEF BeginPull, PullTypeOK
  <2>3. turn'[w] = (turn[w] + 1) % 10
    BY DEF BeginPull, PullTypeOK
  <2>4. LastTurn(w)' = turn[w]
    BY <2>1, <2>3, TurnFacts DEF LastTurn
  <2>5. passed[w][k] <= Since(k, turn[w]) + 9 * errors[w]
    BY DEF BypassInv, BypassOf, BeginPull
  <2>6. passed' = passed /\ errors' = errors
    BY DEF BeginPull
  <2> QED BY <2>2, <2>4, <2>5, <2>6 DEF BypassOf
<1>2. ASSUME NEW v \in Workers, NEW k \in Lists, v # w
      PROVE  BypassOf(v, k)'
  BY <1>2, SameBypass DEF BeginPull, BypassInv, PullTypeOK
<1> QED BY <1>1, <1>2, StillBypass DEF BeginPull

(* A list that is tried and empty is owed nothing (RPOPLPUSH returns nil). *)
LEMMA MissBypass ==
  ASSUME PullTypeOK, BypassInv, NEW w \in Workers, TryMiss(w)
  PROVE  BypassInv'
<1>1. ASSUME NEW k \in Lists
      PROVE  BypassOf(w, k)'
  <2>1. pull[w].next \in 1 .. 3 /\ lists[pull[w].order[pull[w].next]] = <<>>
    BY DEF TryMiss, Trying, Tried
  <2>2. pull'[w].next = pull[w].next + 1 /\ pull'[w].order = pull[w].order
    BY DEF TryMiss, PullTypeOK
  <2>3. UNCHANGED <<turn, errors, passed>>
    BY DEF TryMiss
  <2>4. LastTurn(w)' = LastTurn(w)
    BY <2>3 DEF LastTurn
  <2>5. /\ pull[w].order = PriorityOrder(LastTurn(w))
        /\ passed[w][k] <= Since(k, LastTurn(w)) + 9 * errors[w]
        /\ pull[w].order[1] = k /\ pull[w].next > 1 => passed[w][k] = 0
    BY <2>1, InFlight
  <2>6. pull[w].order[1] = k => passed[w][k] = 0
    BY <2>1, <2>5 DEF BypassInv
  <2> QED BY <2>1, <2>2, <2>3, <2>4, <2>5, <2>6 DEF BypassOf
<1>2. ASSUME NEW v \in Workers, NEW k \in Lists, v # w
      PROVE  BypassOf(v, k)'
  BY <1>2, SameBypass DEF TryMiss, BypassInv, PullTypeOK
<1> QED BY <1>1, <1>2, StillBypass DEF TryMiss

(* The BLMOVE times out (pullJob returns null).                            *)
LEMMA TimeoutBypass ==
  ASSUME PullTypeOK, BypassInv, NEW w \in Workers, BlockTimeout(w)
  PROVE  BypassInv'
<1>1. ASSUME NEW k \in Lists
      PROVE  BypassOf(w, k)'
  <2>1. pull[w].next = 4 /\ pull'[w].next = 0
    BY DEF BlockTimeout, PullTypeOK
  <2>2. UNCHANGED <<turn, errors, passed>>
    BY DEF BlockTimeout
  <2>3. passed[w][k] <= Since(k, turn[w]) + 9 * errors[w]
    BY <2>1, InFlight
  <2> QED BY <2>1, <2>2, <2>3 DEF BypassOf
<1>2. ASSUME NEW v \in Workers, NEW k \in Lists, v # w
      PROVE  BypassOf(v, k)'
  BY <1>2, SameBypass DEF BlockTimeout, BypassInv, PullTypeOK
<1> QED BY <1>1, <1>2, StillBypass DEF BlockTimeout

(* A pull fails: its turn is lost, which costs a list at most nine (the    *)
(* catch of the loop).                                                     *)
LEMMA FailBypass ==
  ASSUME PullTypeOK, BypassInv, NEW w \in Workers, PullFails(w)
  PROVE  BypassInv'
<1>1. ASSUME NEW k \in Lists
      PROVE  BypassOf(w, k)'
  <2>1. pull[w].next # 0 /\ pull'[w].next = 0
    BY DEF PullFails, PullTypeOK
  <2>2. /\ errors'[w] = errors[w] + 1 /\ errors[w] \in Nat
        /\ UNCHANGED <<turn, passed>>
    BY DEF PullFails, PullTypeOK
  <2>3. /\ passed[w][k] \in Nat
        /\ Since(k, LastTurn(w)) \in 1 .. 10 /\ Since(k, turn[w]) \in 1 .. 10
        /\ passed[w][k] <= Since(k, LastTurn(w)) + 9 * errors[w]
    BY <2>1, InFlight
  <2>4. passed[w][k] <= Since(k, turn[w]) + 9 * (errors[w] + 1)
    BY <2>2, <2>3
  <2> QED BY <2>1, <2>2, <2>4 DEF BypassOf
<1>2. ASSUME NEW v \in Workers, NEW k \in Lists, v # w
      PROVE  BypassOf(v, k)'
  BY <1>2, SameBypass DEF PullFails, BypassInv, PullTypeOK
<1> QED BY <1>1, <1>2, StillBypass DEF PullFails

(* The steps that only add jobs to the lists, or let go of one.            *)
LEMMA OtherBypass ==
  ASSUME PullTypeOK, BypassInv, UNCHANGED <<pull, turn, errors, passed>>,
         \A l \in Lists : lists'[l] = <<>> => lists[l] = <<>>
  PROVE  BypassInv'
<1>1. \A v \in Workers, k \in Lists : BypassOf(v, k)'
  BY SameBypass DEF BypassInv
<1> QED BY <1>1, StillBypass

(* No step lets a worker pass over a list more often than its turns allow. *)
LEMMA BypassStep ==
  ASSUME PullTypeOK, BypassInv, [PullNext]_pullVars
  PROVE  BypassInv'
<1>1. ASSUME NEW j \in Jobs, Arrive(j)
      PROVE  BypassInv'
  BY <1>1, PushTyped, OtherBypass DEF Arrive, PullTypeOK
<1>2. ASSUME NEW w \in Workers, PullStep(w) \/ PullFails(w) \/ Release(w)
      PROVE  BypassInv'
  <2>1. CASE BeginPull(w)
    BY <2>1, BeginBypass
  <2>2. CASE TryHit(w)
    <3>1. Tried(w) \in Lists
      <4>1. pull[w].order \in Orders /\ pull[w].next \in 1 .. 3
        BY <2>2 DEF TryHit, Trying, PullTypeOK
      <4> QED BY <4>1, OrderOfPull DEF Tried
    <3> QED BY <2>2, <3>1, TakeBypass DEF TryHit, Trying, Tried
  <2>3. CASE TryMiss(w)
    BY <2>3, MissBypass
  <2>4. CASE BlockHit(w)
    BY <2>4, TakeBypass DEF BlockHit
  <2>5. CASE BlockTimeout(w)
    BY <2>5, TimeoutBypass
  <2>6. CASE PullFails(w)
    BY <2>6, FailBypass
  <2>7. CASE Release(w)
    <3>1. ASSUME NEW j \in Jobs, Finish(w, j)
          PROVE  BypassInv'
      BY <3>1, OtherBypass DEF Finish
    <3>2. ASSUME NEW j \in Jobs, PushBack(w, j)
          PROVE  BypassInv'
      BY <3>2, PushTyped, OtherBypass DEF PushBack, PullTypeOK
    <3> QED BY <2>7, <3>1, <3>2 DEF Release
  <2> QED BY <1>2, <2>1, <2>2, <2>3, <2>4, <2>5, <2>6, <2>7 DEF PullStep
<1>3. CASE UNCHANGED pullVars
  BY <1>3, OtherBypass DEF pullVars
<1> QED BY <1>1, <1>2, <1>3 DEF PullNext

(* What the turns allow is at most the patience of the list.               *)
LEMMA BypassBound ==
  ASSUME PullTypeOK, BypassInv
  PROVE  BoundedBypass
<1>1. ASSUME NEW w \in Workers, NEW l \in Lists
      PROVE  passed[w][l] <= Patience(l) + 9 * errors[w]
  <2>0. turn[w] \in 0 .. 9
    BY DEF PullTypeOK
  <2>1. /\ turn[w] \in 0 .. 9 /\ LastTurn(w) \in 0 .. 9
        /\ errors[w] \in Nat /\ passed[w][l] \in Nat
    <3>1. LastTurn(w) \in 0 .. 9
      BY <2>0, TurnFacts DEF LastTurn
    <3> QED BY <2>0, <3>1 DEF PullTypeOK
  <2>2. /\ Since(l, turn[w]) \in 1 .. Patience(l) /\ Since(l, LastTurn(w)) \in 1 .. Patience(l)
        /\ Patience(l) \in 1 .. 10
    BY <2>1, SinceFacts
  <2>3. \/ passed[w][l] <= Since(l, turn[w]) + 9 * errors[w]
        \/ passed[w][l] <= Since(l, LastTurn(w)) + 9 * errors[w]
    BY DEF BypassInv, BypassOf
  <2>4. ASSUME NEW x \in 1 .. Patience(l), passed[w][l] <= x + 9 * errors[w]
        PROVE  passed[w][l] <= Patience(l) + 9 * errors[w]
    BY <2>1, <2>2, <2>4
  <2> QED BY <2>2, <2>3, <2>4
<1> QED BY <1>1 DEF BoundedBypass

(* However jobs arrive, are taken by others and are pushed back, no worker *)
(* passes over a list in which jobs wait more often than its patience      *)
(* (getPriorityOrder, pullJob).                                            *)
THEOREM BypassIsBounded == PullSpec => []BoundedBypass
<1>1. PullInit => PullTypeOK /\ BypassInv
  <2>1. ASSUME PullInit, NEW w \in Workers, NEW l \in Lists
        PROVE  BypassOf(w, l)
    <3>1. Since(l, 0) \in 1 .. Patience(l) /\ Patience(l) \in 1 .. 10
      BY SinceFacts
    <3> QED BY <2>1, <3>1 DEF PullInit, BypassOf
  <2> QED BY <2>1, OrderFacts DEF PullInit, PullTypeOK, BypassInv
<1>2. PullTypeOK /\ BypassInv /\ [PullNext]_pullVars => (PullTypeOK /\ BypassInv)'
  BY PullTyped, BypassStep
<1>3. PullTypeOK /\ BypassInv => BoundedBypass
  BY BypassBound
<1> QED BY <1>1, <1>2, <1>3, PTL DEF PullSpec

=============================================================================
