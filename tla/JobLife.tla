------------------------------- MODULE JobLife -------------------------------
(***************************************************************************)
(* What NexusQueue promises of a job when nothing fails, without saying    *)
(* how: a submitted job waits, is run by one worker at a time, and each    *)
(* run ends it (it succeeded, or it was the last one allowed) or makes it  *)
(* wait again.  It is run at most MaxAttempts times, and never again once  *)
(* it has succeeded or is a dead letter.                                   *)
(*                                                                         *)
(* Lists, stores, schedulers, retries and workers do not appear here: that *)
(* the pipeline implements this module is checked as a refinement.         *)
(***************************************************************************)
EXTENDS Naturals

CONSTANTS Jobs, MaxAttempts

VARIABLES
  stage,    \* of each job: "new", "waiting", "running", "done" or "dead"
  starts    \* how often each job has been run

lifeOfJobs == <<stage, starts>>

Init ==
  /\ stage = [j \in Jobs |-> "new"]
  /\ starts = [j \in Jobs |-> 0]

Moves(j, from, to) == stage[j] = from /\ stage' = [stage EXCEPT ![j] = to]

Submit(j) == Moves(j, "new", "waiting") /\ UNCHANGED starts

Start(j) ==
  /\ Moves(j, "waiting", "running")
  /\ starts[j] < MaxAttempts
  /\ starts' = [starts EXCEPT ![j] = @ + 1]

Succeed(j) == Moves(j, "running", "done") /\ UNCHANGED starts

WaitAgain(j) ==
  /\ Moves(j, "running", "waiting")
  /\ starts[j] < MaxAttempts
  /\ UNCHANGED starts

GiveUp(j) ==
  /\ Moves(j, "running", "dead")
  /\ starts[j] = MaxAttempts
  /\ UNCHANGED starts

Next == \E j \in Jobs : Submit(j) \/ Start(j) \/ Succeed(j) \/ WaitAgain(j) \/ GiveUp(j)

Spec == Init /\ [][Next]_lifeOfJobs

=============================================================================
