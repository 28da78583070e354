--------------------------- MODULE MCPriorityPull ---------------------------
(***************************************************************************)
(* Small instances of PriorityPull: two high jobs, one normal, one low.      *)
(***************************************************************************)
EXTENDS PriorityPull, TLC

CONSTANTS h1, h2, n1, l1

PriorityOf == h1 :> "high" @@ h2 :> "high" @@ n1 :> "normal" @@ l1 :> "low"
Mixed == [j \in Jobs |-> PriorityOf[j]]

=============================================================================
