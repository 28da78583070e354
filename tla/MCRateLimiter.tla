---------------------------- MODULE MCRateLimiter ----------------------------
(***************************************************************************)
(* Two clients that run the script, or one that uses the fallback.         *)
(***************************************************************************)
EXTENDS RateLimiter, TLC

CONSTANTS c1, c2

TwoOrOne == { [c \in Clients |-> "checkLimit"],
              c1 :> "checkLimitFallback" @@ c2 :> "none" }

=============================================================================
