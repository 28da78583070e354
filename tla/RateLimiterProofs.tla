-------------------------- MODULE RateLimiterProofs --------------------------
(***************************************************************************)
(* RateLimiter, proved for any bucket, any number of clients and any skew  *)
(* of their clocks, when the clients of the queue use the script or there  *)
(* is only one.                                                            *)
(***************************************************************************)
EXTENDS RateLimiter, TLAPS

(* The only arithmetic that is not linear: one more check costs Cost more. *)
LEMMA OneMore == \A k \in Int : (k + 1) * Cost = k * Cost + Cost
  BY LimiterAssumption

(* Appending to a log asks Cost more of every earlier entry.               *)
LEMMA ConformsAppend ==
  ASSUME NEW l \in Seq(Int), NEW t \in Int, NEW u \in Int
  PROVE  Window!Conforms(Append(l, t), u) <=>
           /\ Window!Conforms(l, u - Cost)
           /\ 2 * Cost <= Full + (u - t)
<1> DEFINE m == Append(l, t)
<1>1. Len(m) = Len(l) + 1 /\ Len(l) \in Nat /\ m[Len(l) + 1] = t
  OBVIOUS
<1>2. \A i \in 1 .. Len(l) : m[i] = l[i] /\ l[i] \in Int
  OBVIOUS
<1>3. \A i \in 1 .. Len(l) :
        (Len(m) - i + 2) * Cost = (Len(l) - i + 2) * Cost + Cost
  BY <1>1, OneMore
<1>4. \A i \in 1 .. Len(l) :
        (Len(m) - i + 2) * Cost <= Full + (u - m[i])
          <=> (Len(l) - i + 2) * Cost <= Full + ((u - Cost) - l[i])
  <2> TAKE i \in 1 .. Len(l)
  <2> DEFINE x == (Len(l) - i + 2) * Cost
             y == l[i]
  <2>1. x \in Int /\ y \in Int /\ Cost \in Int /\ Full \in Int
    BY <1>1, <1>2, LimiterAssumption
  <2>2. (x + Cost <= Full + (u - y)) <=> (x <= Full + ((u - Cost) - y))
    <3> HIDE DEF x, y
    <3> QED
      BY <2>1
  <2> QED
    BY <1>2, <1>3, <2>2
<1>5. (Len(m) - (Len(l) + 1) + 2) * Cost = 2 * Cost
  BY <1>1, LimiterAssumption
<1>6. 1 .. Len(m) = (1 .. Len(l)) \cup {Len(l) + 1}
  BY <1>1
<1> DEFINE Old(i) == (Len(m) - i + 2) * Cost <= Full + (u - m[i])
<1>7. (\A i \in 1 .. Len(m) : Old(i)) <=>
        (\A i \in 1 .. Len(l) : Old(i)) /\ Old(Len(l) + 1)
  <2> HIDE DEF Old, m
  <2> QED
    BY <1>6
<1>8. Old(Len(l) + 1) <=> 2 * Cost <= Full + (u - t)
  BY <1>1, <1>5
<1>9. (\A i \in 1 .. Len(l) : Old(i)) <=>
        \A i \in 1 .. Len(l) : (Len(l) - i + 2) * Cost <= Full + ((u - Cost) - l[i])
  BY <1>4
<1> HIDE DEF Old
<1>10. Window!Conforms(m, u) <=> Cost <= Full /\ \A i \in 1 .. Len(m) : Old(i)
  BY DEF Window!Conforms, Old
<1> HIDE DEF m
<1> QED
  BY <1>7, <1>8, <1>9, <1>10 DEF m, Window!Conforms

(* Writing back what a check at time t has found moves the bucket like its *)
(* log: an allowed check costs every later one Cost, a denied one nothing. *)
LEMMA SpentRefills ==
  ASSUME NEW b, b \in [exists : BOOLEAN, tokens : Int, last : Int],
         NEW t \in Int, NEW u \in Int
  PROVE  LET n == Refilled(b, t)
             after == Refilled(Spent(n, t), u)
         IN /\ n \in Int /\ Spent(n, t) \in [exists : BOOLEAN, tokens : Int, last : Int]
            /\ n >= Cost =>
                 (after >= Cost <=> /\ Refilled(b, u - Cost) >= Cost
                                    /\ 2 * Cost <= Full + (u - t))
            /\ n < Cost => (after >= Cost <=> Refilled(b, u) >= Cost)
  BY LimiterAssumption DEF Refilled, Least, Spent

-----------------------------------------------------------------------------
(* The types.                                                              *)
LEMMA LimiterTypeStep ==
  LimiterTypeOK /\ [LimiterNext]_limiterVars => LimiterTypeOK'
<1> SUFFICES ASSUME LimiterTypeOK, [LimiterNext]_limiterVars
             PROVE  LimiterTypeOK'
  OBVIOUS
<1> USE LimiterAssumption DEF LimiterTypeOK, Times, Idle
<1>1. ASSUME NEW n \in Int, NEW t \in Times
      PROVE  Spent(n, t) \in [exists : BOOLEAN, tokens : Int, last : Times]
  BY DEF Spent
<1>2. ASSUME NEW t \in Times PROVE Refilled(bucket, t) \in Int
  BY DEF Refilled, Least
<1>3. ASSUME NEW c \in Clients, NEW n \in Int, NEW t \in Times, Answer(c, n, t)
      PROVE  LimiterTypeOK'
  <2>1. log' \in Seq(Times)
    <3> HIDE DEF Times
    <3>1. log \in Seq(Times) /\ Append(log, t) \in Seq(Times)
      BY <1>3
    <3> QED
      BY <1>3, <3>1 DEF Answer
  <2>2. verdict' \in [answer : {"none", "allowed", "denied"}, at : Times]
    BY <1>3 DEF Answer
  <2>3. check' \in [Clients -> [pc : {"idle", "read", "write"}, now : Times, tokens : Int]]
    BY <1>3 DEF Answer
  <2> QED
    BY <1>1, <1>3, <2>1, <2>2, <2>3 DEF Answer
<1>4. CASE Tick
  BY <1>4 DEF Tick
<1>5. ASSUME NEW c \in Clients, ReadClock(c)
      PROVE  LimiterTypeOK'
  BY <1>5 DEF ReadClock
<1>6. ASSUME NEW c \in Clients, Eval(c)
      PROVE  LimiterTypeOK'
  BY <1>2, <1>3, <1>6 DEF Eval
<1>7. ASSUME NEW c \in Clients, Read(c)
      PROVE  LimiterTypeOK'
  BY <1>2, <1>7 DEF Read
<1>8. ASSUME NEW c \in Clients, Write(c)
      PROVE  LimiterTypeOK'
  BY <1>3, <1>8 DEF Write
<1>9. CASE UNCHANGED limiterVars
  BY <1>9 DEF limiterVars
<1> QED
  BY <1>4, <1>5, <1>6, <1>7, <1>8, <1>9 DEF LimiterNext

(* A check whose number of tokens is what the bucket says when it is       *)
(* answered keeps every window and the agreement of bucket and log.        *)
LEMMA AnswerStep ==
  ASSUME LimiterTypeOK, LimiterInv(Int),
         NEW c \in Clients, NEW t \in Times, Answer(c, Refilled(bucket, t), t)
  PROVE  EveryWindow' /\ \A u \in Int : Exact(u)'
<1> DEFINE n == Refilled(bucket, t)
<1>1. /\ bucket \in [exists : BOOLEAN, tokens : Int, last : Int]
      /\ log \in Seq(Int) /\ t \in Int
  BY LimiterAssumption DEF LimiterTypeOK, Times
<1>2. n >= Cost <=> Window!Conforms(log, t)
  BY <1>1 DEF LimiterInv, Exact
<1>3. CASE n >= Cost
  <2>1. log' = Append(log, t) /\ bucket' = Spent(n, t)
    BY <1>3 DEF Answer
  <2>2. \A u \in Int : Exact(u)'
    <3> TAKE u \in Int
    <3>1. Window!Conforms(log', u) <=>
            Window!Conforms(log, u - Cost) /\ 2 * Cost <= Full + (u - t)
      BY <1>1, <2>1, ConformsAppend
    <3>2. Refilled(bucket', u) >= Cost <=>
            Refilled(bucket, u - Cost) >= Cost /\ 2 * Cost <= Full + (u - t)
      BY <1>1, <1>3, <2>1, SpentRefills
    <3>3. u - Cost \in Int
      BY LimiterAssumption
    <3> QED
      BY <3>1, <3>2, <3>3 DEF LimiterInv, Exact, Window!Conforms
  <2>3. EveryWindow'
    <3> SUFFICES ASSUME NEW j \in 1 .. Len(log'), NEW i \in 1 .. j
                 PROVE  (j - i + 1) * Cost <= Full + (log'[j] - log'[i])
      BY DEF EveryWindow
    <3>1. /\ Len(log') = Len(log) + 1 /\ Len(log) \in Nat /\ log'[Len(log) + 1] = t
          /\ \A k \in 1 .. Len(log) : log'[k] = log[k] /\ log[k] \in Int
      BY <1>1, <2>1
    <3>2. CASE j <= Len(log)
      <4>1. (j - i + 1) * Cost <= Full + (log[j] - log[i])
        BY <3>1, <3>2 DEF LimiterInv, EveryWindow
      <4>2. log'[j] = log[j] /\ log'[i] = log[i]
        BY <3>1, <3>2
      <4> QED
        BY <4>1, <4>2
    <3>3. CASE j = Len(log) + 1 /\ i = j
      <4>1. (j - i + 1) * Cost = Cost /\ log'[j] - log'[i] = 0
        BY <1>1, <3>1, <3>3, LimiterAssumption
      <4> QED
        BY <1>2, <1>3, <4>1, LimiterAssumption DEF Window!Conforms
    <3>4. CASE j = Len(log) + 1 /\ i <= Len(log)
      <4>1. (Len(log) - i + 2) * Cost <= Full + (t - log[i])
        BY <1>2, <1>3, <3>1, <3>4 DEF Window!Conforms
      <4>2. j - i + 1 = Len(log) - i + 2 /\ log'[j] = t /\ log'[i] = log[i]
        BY <3>1, <3>4
      <4> QED
        BY <4>1, <4>2
    <3> QED
      BY <3>1, <3>2, <3>3, <3>4
  <2> QED
    BY <2>2, <2>3
<1>4. CASE ~ (n >= Cost)
  <2>1. log' = log /\ bucket' = Spent(n, t)
    BY <1>4 DEF Answer
  <2>2. n < Cost
    BY <1>1, <1>4, SpentRefills, LimiterAssumption
  <2>3. \A u \in Int : Refilled(bucket', u) >= Cost <=> Refilled(bucket, u) >= Cost
    BY <1>1, <2>1, <2>2, SpentRefills
  <2> QED
    BY <2>1, <2>3 DEF LimiterInv, EveryWindow, Exact, Window!Conforms
<1> QED
  BY <1>3, <1>4

(* A client whose check is in flight calls a method, and one that has read *)
(* the bucket and not written it is alone, so that nobody writes before it.*)
LEMMA FleetStep ==
  ASSUME \A f \in Fleets : Serial(f),
         LimiterTypeOK, FleetInv, [LimiterNext]_limiterVars
  PROVE  FleetInv'
<1> USE DEF LimiterTypeOK, FleetInv, Idle
<1>1. CASE Tick
  BY <1>1 DEF Tick
<1>2. ASSUME NEW c \in Clients, ReadClock(c)
      PROVE  FleetInv'
  BY <1>2 DEF ReadClock
<1>3. ASSUME NEW c \in Clients, Read(c)
      PROVE  FleetInv'
  BY <1>3 DEF Read
<1>4. ASSUME NEW c \in Clients, Eval(c) \/ Write(c)
      PROVE  FleetInv'
  <2>1. fleet[c] # "none" /\ Serial(fleet)
    BY <1>4 DEF Eval, Write
  <2>2. fleet' = fleet /\ check' = [check EXCEPT ![c] = Idle]
    BY <1>4 DEF Eval, Write, Answer
  <2>3. \A d \in Clients \ {c} : check[d].pc # "write"
    BY <2>1 DEF Serial
  <2> QED
    BY <2>2, <2>3
<1>5. CASE UNCHANGED limiterVars
  BY <1>5 DEF limiterVars
<1> QED
  BY <1>1, <1>2, <1>3, <1>4, <1>5 DEF LimiterNext

(* Every answer is one for what the bucket says at that moment; all other  *)
(* steps leave bucket and log alone.                                       *)
LEMMA AnswersNow ==
  ASSUME LimiterTypeOK, FleetInv, [LimiterNext]_limiterVars
  PROVE  \/ \E c \in Clients, t \in Times : Answer(c, Refilled(bucket, t), t)
         \/ UNCHANGED <<bucket, log, verdict>>
<1>1. ASSUME NEW c \in Clients, Eval(c)
      PROVE  \E t \in Times : Answer(c, Refilled(bucket, t), t)
  BY <1>1 DEF Eval, LimiterTypeOK
<1>2. ASSUME NEW c \in Clients, Write(c)
      PROVE  \E t \in Times : Answer(c, Refilled(bucket, t), t)
  BY <1>2 DEF Write, LimiterTypeOK, FleetInv
<1> QED
  BY <1>1, <1>2 DEF LimiterNext, limiterVars, Tick, ReadClock, Read

(* The invariant holds in every reachable state.                           *)
THEOREM LimiterInvariant ==
  ASSUME \A f \in Fleets : Serial(f)
  PROVE  LimiterSpec => [](LimiterTypeOK /\ LimiterInv(Int))
<1>1. LimiterInit => LimiterTypeOK /\ LimiterInv(Int)
  <2> SUFFICES ASSUME LimiterInit
               PROVE  LimiterTypeOK /\ LimiterInv(Int)
    OBVIOUS
  <2>1. LimiterTypeOK
    BY LimiterAssumption
       DEF LimiterInit, LimiterTypeOK, NoBucket, Idle, Times, Window!NoVerdict
  <2>2. EveryWindow /\ FleetInv
    BY LimiterAssumption DEF LimiterInit, EveryWindow, FleetInv, Idle
  <2>3. \A t \in Int : Exact(t)
    BY LimiterAssumption DEF LimiterInit, Exact, Refilled, NoBucket, Window!Conforms
  <2> QED
    BY <2>1, <2>2, <2>3 DEF LimiterInv
<1>2. LimiterTypeOK /\ LimiterInv(Int) /\ [LimiterNext]_limiterVars
        => LimiterInv(Int)'
  <2> SUFFICES ASSUME LimiterTypeOK, LimiterInv(Int), [LimiterNext]_limiterVars
               PROVE  LimiterInv(Int)'
    OBVIOUS
  <2>1. FleetInv'
    BY FleetStep DEF LimiterInv
  <2>2. EveryWindow' /\ \A u \in Int : Exact(u)'
    <3>1. CASE UNCHANGED <<bucket, log, verdict>>
      BY <3>1 DEF LimiterInv, EveryWindow, Exact
    <3> QED
      BY <3>1, AnswersNow, AnswerStep DEF LimiterInv
  <2> QED
    BY <2>1, <2>2 DEF LimiterInv
<1> QED
  BY <1>1, <1>2, LimiterTypeStep, PTL DEF LimiterSpec

(* Between any two allowed checks no more are allowed than the bucket      *)
(* holds and refills, whatever the clients' clocks show.                   *)
THEOREM EveryWindowIsLimited ==
  ASSUME \A f \in Fleets : Serial(f)
  PROVE  LimiterSpec => []EveryWindow
<1>1. LimiterInv(Int) => EveryWindow
  BY DEF LimiterInv
<1> QED
  BY <1>1, LimiterInvariant, PTL

(* The token bucket implements the limiter that remembers every check.     *)
THEOREM BucketImplementsWindow ==
  ASSUME \A f \in Fleets : Serial(f)
  PROVE  LimiterSpec => ImplementsWindow
<1>1. LimiterInit => Window!WindowInit
  BY DEF LimiterInit, Window!WindowInit
<1>2. LimiterTypeOK /\ LimiterInv(Int) /\ [LimiterNext]_limiterVars
        => [Window!WindowNext]_(Window!windowVars)
  <2> SUFFICES ASSUME LimiterTypeOK, LimiterInv(Int), [LimiterNext]_limiterVars
               PROVE  Window!WindowNext \/ UNCHANGED <<log, verdict>>
    BY DEF Window!windowVars
  <2>1. ASSUME NEW c \in Clients, NEW t \in Times, Answer(c, Refilled(bucket, t), t)
        PROVE  Window!WindowNext
    <3>1. t \in Int
      BY LimiterAssumption DEF Times
    <3>2. Refilled(bucket, t) >= Cost <=> Window!Conforms(log, t)
      BY <3>1 DEF LimiterInv, Exact
    <3>3. Window!Allow(t) \/ Window!Deny(t)
      BY <2>1, <3>2 DEF Answer, Window!Allow, Window!Deny
    <3> QED
      BY <3>3 DEF Window!WindowNext
  <2> QED
    BY <2>1, AnswersNow DEF LimiterInv
<1> QED
  BY <1>1, <1>2, LimiterInvariant, PTL DEF LimiterSpec, ImplementsWindow, Window!WindowSpec

=============================================================================
