----------------------------- MODULE RateLimiter -----------------------------
(***************************************************************************)
(* The token bucket of rate-limiter.ts, for one queue: the buckets of      *)
(* different queues share nothing.  checkLimit reads the clock of its      *)
(* process and then runs a Lua script, which Redis executes atomically;    *)
(* checkLimitFallback reads the clock, reads the bucket, and writes it     *)
(* back in a second command.  Between any two of these the checks of other *)
(* clients may run.  Clocks of different processes differ by some skew, so *)
(* that the bucket may see time go back.  Units as in WindowLimiter;       *)
(* the floating-point numbers of the code are exact here.                  *)
(***************************************************************************)
EXTENDS Integers, Sequences

CONSTANTS
  Cost, Full,   \* as in WindowLimiter
  Clients,   \* the slots of all workers, which check the limit
  Fleets,    \* which of the two methods each client may call, if any
  Skew,      \* how far a client's clock may be off
  Horizon    \* bound: the clock stops here

Method == {"checkLimit", "checkLimitFallback", "none"}

ASSUME LimiterAssumption ==
  /\ Cost \in Nat \ {0}
  /\ Full \in Nat
  /\ Fleets \subseteq [Clients -> Method]
  /\ Skew \in Nat
  /\ Horizon \in Nat

VARIABLES
  fleet,     \* the method each client calls; never changes
  clock,     \* real time
  bucket,    \* Redis nexus:ratelimit:<queue>: tokens and lastRefill
  check,     \* of each client: the check in flight, the time and tokens it has
  log,       \* history: the times of the allowed checks
  verdict    \* history: the last answer, and its time

limiterVars == <<fleet, clock, bucket, check, log, verdict>>

(* What the clocks of the clients may show. *)
Times == 0 - Skew .. Horizon + Skew

Window == INSTANCE WindowLimiter

NoBucket == [exists |-> FALSE, tokens |-> 0, last |-> 0]
Idle == [pc |-> "idle", now |-> 0, tokens |-> 0]

LimiterTypeOK ==
  /\ fleet \in Fleets
  /\ clock \in 0 .. Horizon
  /\ bucket \in [exists : BOOLEAN, tokens : Int, last : Times]
  /\ check \in [Clients -> [pc : {"idle", "read", "write"}, now : Times, tokens : Int]]
  /\ log \in Seq(Times)
  /\ verdict \in [answer : {"none", "allowed", "denied"}, at : Times]

LimiterInit ==
  /\ fleet \in Fleets
  /\ clock = 0
  /\ bucket = NoBucket
  /\ check = [c \in Clients |-> Idle]
  /\ log = <<>>
  /\ verdict = Window!NoVerdict

-----------------------------------------------------------------------------
Least(a, b) == IF a <= b THEN a ELSE b

(* Mutant: the bucket overflows. *)
BadRefilled(b, t) == IF b.exists THEN b.tokens + (t - b.last) ELSE Full

(* The tokens at time t; a clock behind lastRefill takes some away. *)
Refilled(b, t) ==
  IF b.exists THEN Least(Full, b.tokens + (t - b.last)) ELSE Full

(* Mutant: a denied check sets the clock of the bucket and empties it. *)
BadSpent(n, t) ==
  [exists |-> TRUE, tokens |-> IF n >= Cost THEN n - Cost ELSE 0, last |-> t]

(* What is written back; a denied check saves the refilled bucket too. *)
Spent(n, t) ==
  [exists |-> TRUE, tokens |-> IF n >= Cost THEN n - Cost ELSE n, last |-> t]

(* The check of c at time t has found n tokens. *)
Answer(c, n, t) ==
  /\ bucket' = Spent(n, t)
  /\ log' = IF n >= Cost THEN Append(log, t) ELSE log
  /\ verdict' = [answer |-> IF n >= Cost THEN "allowed" ELSE "denied", at |-> t]
  /\ check' = [check EXCEPT ![c] = Idle]
  /\ UNCHANGED <<fleet, clock>>

Tick ==
  /\ clock < Horizon /\ clock' = clock + 1
  /\ UNCHANGED <<fleet, bucket, check, log, verdict>>

(* const now = Date.now() *)
ReadClock(c) ==
  /\ fleet[c] # "none" /\ check[c].pc = "idle"
  /\ \E t \in clock - Skew .. clock + Skew :
       check' = [check EXCEPT ![c] = [pc |-> "read", now |-> t, tokens |-> 0]]
  /\ UNCHANGED <<fleet, clock, bucket, log, verdict>>

(* EVAL of the script. *)
Eval(c) ==
  /\ fleet[c] = "checkLimit" /\ check[c].pc = "read"
  /\ Answer(c, Refilled(bucket, check[c].now), check[c].now)

(* HGETALL, ... *)
Read(c) ==
  /\ fleet[c] = "checkLimitFallback" /\ check[c].pc = "read"
  /\ check' = [check EXCEPT ![c] = [pc |-> "write", now |-> @.now,
                                     tokens |-> Refilled(bucket, @.now)]]
  /\ UNCHANGED <<fleet, clock, bucket, log, verdict>>

(* ... and HSET. *)
Write(c) ==
  /\ check[c].pc = "write"
  /\ Answer(c, check[c].tokens, check[c].now)

LimiterNext ==
  \/ Tick
  \/ \E c \in Clients : ReadClock(c) \/ Eval(c) \/ Read(c) \/ Write(c)

LimiterSpec == LimiterInit /\ [][LimiterNext]_limiterVars

-----------------------------------------------------------------------------
(* The two properties are claimed when no client of the queue uses the     *)
(* fallback, or when there is only one client.                             *)
Serial(f) ==
  \A c, d \in Clients :
    f[c] = "checkLimitFallback" /\ f[d] # "none" => c = d

(* Every window of time: between any two allowed checks no more are        *)
(* allowed than the bucket holds tokens plus those that refill in between, *)
(* though the clients' clocks disagree (rate-limiter.ts LUA_SCRIPT).       *)
EveryWindow ==
  \A j \in 1 .. Len(log) : \A i \in 1 .. j :
    (j - i + 1) * Cost <= Full + (log[j] - log[i])

(* The bucket, which remembers two numbers, decides like a limiter that    *)
(* remembers everything: it neither allows too much nor denies what it     *)
(* could allow (rate-limiter.ts).                                          *)
ImplementsWindow == Window!WindowSpec

(* Why: at any time the bucket grants a check exactly when the log does,   *)
(* and a client between its two commands still has what the bucket says.   *)
Exact(t) == Refilled(bucket, t) >= Cost <=> Window!Conforms(log, t)

FleetInv ==
  \A c \in Clients :
    /\ check[c].pc # "idle" => fleet[c] # "none"
    /\ check[c].pc = "write" =>
         /\ fleet[c] = "checkLimitFallback"
         /\ check[c].tokens = Refilled(bucket, check[c].now)

LimiterInv(T) == EveryWindow /\ FleetInv /\ \A t \in T : Exact(t)

=============================================================================
