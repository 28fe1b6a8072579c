------------------------- MODULE MRQueueRefinement -------------------------
(* MRQueue implements JobLedger and, for every merge request, MRLine: the  *)
(* refinement mappings.                                                    *)
EXTENDS MRQueue

\* A live job is queued unless a replica holds it; a replica about to retry it
\* holds a failed one.
Stage(j) ==
    IF fate[j] # "live" THEN fate[j]
    ELSE IF \E w \in Replicas : HeldBy(j, w) /\ pc[w] = "retry" THEN "failed"
    ELSE IF \E w \in Replicas : HeldBy(j, w) THEN "taken"
    ELSE "queued"

Ledger == INSTANCE JobLedger WITH
    stage <- [j \in Jobs |-> Stage(j)],
    tries <- runs,
    MayLose <- MaxFaults + MaxStops + MaxExpiries > 0

\* ProcessMRQueue and handleJobFailure, seen job by job: every step of every
\* replica is a step of the job's life cycle.  A job is run only after it was
\* taken out of its queue, is requeued only after a failed run and only with
\* attempts left, is dropped only when they are spent, and is lost only by a
\* fault, a stop or an expired queue.
ImplementsLedger == Ledger!Spec

\* Replica w has the merge request's job in hand, and has not done it yet.
Serves(w, m) == mr[w] = m /\ pc[w] \in Holds \ {"unmark"}

Line(m) == INSTANCE MRLine WITH
    Jobs <- {j \in Jobs : MROf[j] = m},
    Servers <- Replicas,
    MayLose <- MaxFaults + MaxStops + MaxExpiries > 0,
    arrived <- {j \in Jobs : MROf[j] = m /\ hook[j] # "new"},
    line <- queue[m],
    serving <- [w \in Replicas |-> IF Serves(w, m) THEN held[w] ELSE NoCopy],
    failed <- {w \in Replicas : Serves(w, m) /\ pc[w] = "retry"}

\* ProcessMRQueue under its lock, seen merge request by merge request: while
\* batches fit their locks and no command is sent twice, the replicas together
\* serve one line, one job at a time and always its oldest, and put failed jobs
\* at its back.  (\A m \in MRs : Line(m)!Spec, in the form that TLC evaluates;
\* for instances that rule such faults out.)
ImplementsLines ==
    /\ \A m \in MRs : Line(m)!Init
    /\ [][\A m \in MRs : [Line(m)!Next]_(Line(m)!vars)]_vars
=============================================================================
