---------------------------- MODULE WindowLimiter ----------------------------
(***************************************************************************)
(* What a rate limit promises: a check is allowed if and only if, counting *)
(* it, no stretch of time has seen more checks allowed than the bucket     *)
(* holds tokens plus those that refill in it.  The limiter remembers when  *)
(* every check was allowed; checks take effect one at a time, each at the  *)
(* time its caller has read from its own clock.                            *)
(*                                                                         *)
(* Time is counted in ticks short enough that a token takes a whole number *)
(* of them to refill: Cost = 1000 ms / refillRate.  Tokens are counted in  *)
(* the ticks they take to refill, so that a bucket refills by one per      *)
(* tick, holds Full = maxTokens * Cost, and a check takes Cost from it.    *)
(***************************************************************************)
EXTENDS Integers, Sequences

CONSTANTS
  Times,     \* what a clock may show
  Cost,
  Full

VARIABLES
  log,       \* the times of the allowed checks, in their order
  verdict    \* what the last check returned, and its time

windowVars == <<log, verdict>>

NoVerdict == [answer |-> "none", at |-> 0]

WindowInit ==
  /\ log = <<>>
  /\ verdict = NoVerdict

(* A check at time t may be allowed after those at the times in l. *)
Conforms(l, t) ==
  /\ Cost <= Full
  /\ \A i \in 1 .. Len(l) : (Len(l) - i + 2) * Cost <= Full + (t - l[i])

Allow(t) ==
  /\ Conforms(log, t)
  /\ log' = Append(log, t)
  /\ verdict' = [answer |-> "allowed", at |-> t]

Deny(t) ==
  /\ ~ Conforms(log, t)
  /\ verdict' = [answer |-> "denied", at |-> t]
  /\ UNCHANGED log

WindowNext == \E t \in Times : Allow(t) \/ Deny(t)

WindowSpec == WindowInit /\ [][WindowNext]_windowVars

=============================================================================
