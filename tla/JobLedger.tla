----------------------------- MODULE JobLedger -----------------------------
(***************************************************************************)
(* What the queue promises of a job, without replicas, locks or Redis:     *)
(* a job waits, is taken by one worker, and is done, or fails and waits    *)
(* again until its attempts are spent.  Only an unreliable environment     *)
(* loses jobs.  MRQueueRefinement shows that MRQueue implements it.        *)
(***************************************************************************)
EXTENDS Integers

CONSTANTS Jobs, MaxAttempts,
          MayLose       \* does anything fail, stop or expire?

VARIABLES stage, tries

Open == {"new", "queued", "taken", "failed"}

Init ==
    /\ stage = [j \in Jobs |-> "new"]
    /\ tries = [j \in Jobs |-> 0]

Move(j, from, to) == stage[j] = from /\ stage' = [stage EXCEPT ![j] = to]
Tried(j) == tries' = [tries EXCEPT ![j] = @ + 1]

Arrive(j) == Move(j, "new", "queued") /\ UNCHANGED tries
Take(j) == Move(j, "queued", "taken") /\ UNCHANGED tries
Succeed(j) == Move(j, "taken", "done") /\ Tried(j)
Fail(j) == Move(j, "taken", "failed") /\ Tried(j)
Retry(j) == tries[j] < MaxAttempts /\ Move(j, "failed", "queued") /\ UNCHANGED tries
GiveUp(j) == tries[j] >= MaxAttempts /\ Move(j, "failed", "dropped") /\ UNCHANGED tries

\* A whole queue may be lost at once.
Lose(S) ==
    /\ MayLose
    /\ \A j \in S : stage[j] \in Open
    /\ stage' = [j \in Jobs |-> IF j \in S THEN "lost" ELSE stage[j]]
    /\ UNCHANGED tries

Next ==
    \/ \E j \in Jobs : \/ Arrive(j) \/ Take(j) \/ Succeed(j)
                       \/ Fail(j) \/ Retry(j) \/ GiveUp(j)
    \/ \E S \in SUBSET Jobs : Lose(S)

Spec == Init /\ [][Next]_<<stage, tries>>
=============================================================================
