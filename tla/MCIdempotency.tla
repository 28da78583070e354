---------------------------- MODULE MCIdempotency ----------------------------
(***************************************************************************)
(* Five calls: three immediate ones with the key k1, any of which may be   *)
(* the retry of another; a delayed and an immediate one with the key k2.   *)
(***************************************************************************)
EXTENDS Idempotency, TLC

CONSTANTS a1, a2, a3, b1, b2, k1, k2

KeyOfCall == a1 :> k1 @@ a2 :> k1 @@ a3 :> k1 @@ b1 :> k2 @@ b2 :> k2

(* The three immediate calls with the key k1 are interchangeable. *)
SameKey == Permutations({a1, a2, a3})

=============================================================================
