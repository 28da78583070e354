------------------------------ MODULE MCNexus ------------------------------
(***************************************************************************)
(* Small instances of NexusQueue for TLC: one or two processes with one or *)
(* two slots in all, one or two jobs, and the budgets of the runs.         *)
(***************************************************************************)
EXTENDS NexusProperties, TLC

CONSTANTS p1, p2, s1, s2

(* One slot each; or both slots in one process. *)
OneSlotEach2 == s1 :> p1 @@ s2 :> p2
OneSlotEach1 == s1 :> p1
TwoSlotsOne  == s1 :> p1 @@ s2 :> p1

(* Processes may be exchanged, slots and all, and so may requests. *)
Swap ==
  {f \in Permutations(Procs \cup Slots \cup Requests) :
     /\ \A s \in Slots : f[s] \in Slots /\ f[Owner[s]] = Owner[f[s]]
     /\ \A r \in Requests : f[r] \in Requests}

(* Budgets: what is not named is 0. *)
Once(K) == [k \in Kinds |-> IF k \in K THEN 1 ELSE 0]

Nothing     == Once({})
OneCrash    == Once({"crash"})
OneStop     == Once({"stop"})
CrashIoStop == Once({"crash", "io", "stop"})
StopStart   == Once({"stop", "timeout", "start", "beat"})
Operators   == [Once({"crash", "io", "stall", "start"}) EXCEPT !["request"] = 2]

(* Bound: a lapse is explored with one request, and no other fault than    *)
(* the crash that precedes a start.                                        *)
LapsesAlone ==
  /\ Lapsed => ~ Used("io") /\ left["request"] > 0
  /\ Used("stall") => ~ Used("crash")

(* Bound: a stop is explored without another fault, until a job has been   *)
(* executed or waits for a retry.                                          *)
StopsAlone == Used("stop") => ~ Used("io") /\ ~ Used("crash") /\ delayed = {} /\ done = {}

=============================================================================
