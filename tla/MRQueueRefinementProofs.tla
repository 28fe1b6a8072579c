---------------------- MODULE MRQueueRefinementProofs ----------------------
(* MRQueue implements JobLedger and MRLine, for every number of replicas,  *)
(* jobs and faults: the theorems behind MRQueueRefinement.                 *)
EXTENDS MRQueueRefinement, MRQueueProofs

Losing == MaxFaults + MaxStops + MaxExpiries > 0

\* Something may be lost where a command fails, a process stops or a queue
\* expires.
LEMMA MayLose ==
    ASSUME TypeOK,
           \/ \E kind \in FaultKinds : Fault(kind)
           \/ stops < MaxStops \/ expiries < MaxExpiries
    PROVE  Losing
  BY BoundsAssumption DEF TypeOK, Fault, Losing

-----------------------------------------------------------------------------
(* The ledger of the jobs: what a step means for the stages.               *)

\* A job keeps its stage with its fate and with the hands that hold it.
LEMMA StageKept ==
    ASSUME NEW j \in Jobs, fate'[j] = fate[j],
           fate[j] = "live" =>
             \A w \in Replicas :
               /\ HeldBy(j, w)' <=> HeldBy(j, w)
               /\ HeldBy(j, w) => (pc'[w] = "retry" <=> pc[w] = "retry")
    PROVE  Stage(j)' = Stage(j)
  BY DEF Stage

\* The stage of a live job that no replica holds, or that one holds.
LEMMA StageQueued ==
    ASSUME NEW j \in Jobs, fate[j] = "live", \A w \in Replicas : ~HeldBy(j, w)
    PROVE  Stage(j) = "queued"
  BY DEF Stage

\* The one that holds a live job says whether its run has failed.
LEMMA StageHeld ==
    ASSUME HeldOnce, NEW j \in Jobs, fate[j] = "live",
           NEW w \in Replicas, HeldBy(j, w)
    PROVE  Stage(j) = IF pc[w] = "retry" THEN "failed" ELSE "taken"
  BY DEF Stage, HeldOnce, HeldBy

\* The same in the next state.
LEMMA StageQueuedNext ==
    ASSUME NEW j \in Jobs, fate'[j] = "live", \A w \in Replicas : ~HeldBy(j, w)'
    PROVE  Stage(j)' = "queued"
  BY DEF Stage

\* The same for the one that holds it in the next state.
LEMMA StageHeldNext ==
    ASSUME HeldOnce', NEW j \in Jobs, fate'[j] = "live",
           NEW w \in Replicas, HeldBy(j, w)'
    PROVE  Stage(j)' = IF pc'[w] = "retry" THEN "failed" ELSE "taken"
  BY DEF Stage, HeldOnce, HeldBy

\* A replica that takes, keeps or lets go of job t moves no other job.
LEMMA OthersKept ==
    ASSUME NEW w \in Replicas, NEW t,
           \A v \in Replicas \ {w} : pc'[v] = pc[v] /\ held'[v] = held[v],
           pc[w] \in Holds => held[w].job = t,
           pc'[w] \in Holds => held'[w].job = t,
           \A j \in Jobs \ {t} : fate'[j] = fate[j]
    PROVE  \A j \in Jobs \ {t} : Stage(j)' = Stage(j)
<1>1. \A j \in Jobs \ {t} : \A v \in Replicas :
        /\ HeldBy(j, v)' <=> HeldBy(j, v)
        /\ HeldBy(j, v) => (pc'[v] = "retry" <=> pc[v] = "retry")
  BY DEF HeldBy
<1> QED BY <1>1, StageKept

LedgerVars == <<[j \in Jobs |-> Stage(j)], runs>>

\* Steps of the ledger from what happens to the stages.
LEMMA LedgerMove ==
    ASSUME NEW t \in Jobs, NEW from, NEW to, Stage(t) = from, Stage(t)' = to,
           \A j \in Jobs \ {t} : Stage(j)' = Stage(j)
    PROVE  Ledger!Move(t, from, to)
  BY DEF Ledger!Move

\* A step that moves no job.
LEMMA LedgerSame ==
    ASSUME \A j \in Jobs : Stage(j)' = Stage(j), UNCHANGED runs
    PROVE  [Ledger!Next]_LedgerVars
  BY DEF LedgerVars

\* A step that loses the open jobs in S.
LEMMA LedgerLose ==
    ASSUME Losing, NEW S \in SUBSET Jobs, UNCHANGED runs,
           \A j \in S : fate[j] \in {"new", "live"} /\ fate'[j] = "lost",
           \A j \in Jobs \ S : Stage(j)' = Stage(j)
    PROVE  [Ledger!Next]_LedgerVars
<1>1. \A j \in S : Stage(j) \in Ledger!Open /\ Stage(j)' = "lost"
  BY DEF Stage, Ledger!Open
<1>2. Ledger!Lose(S)
  BY <1>1 DEF Ledger!Lose, Losing
<1> QED BY <1>2 DEF Ledger!Next

\* Every step of the queue is a step of the ledger.
LEMMA LedgerNext ==
    ASSUME Reliable, TypeInv, UniqueInv, BooksInv, UniqueInv', [Next]_vars
    PROVE  [Ledger!Next]_LedgerVars
<1> SUFFICES ASSUME TypeOK, Placed, Unique, Books, HeldOnce', ~Fault("resent"), [Next]_vars
             PROVE  [Ledger!Next]_LedgerVars
  BY DEF TypeInv, UniqueInv, Unique, BooksInv, Single, Reliable, Fault
<1>h. \A w \in Replicas : pc[w] \in Holds =>
        /\ held[w] \in Copy /\ held[w].job \in Jobs /\ mr[w] \in MRs
        /\ held[w].attempts \in 0 .. MaxAttempts - 1
        /\ HeldBy(held[w].job, w)
  BY DEF Placed, OnBatch, Copy, Holds, Batch, HeldBy
<1>f. \A kind \in FaultKinds : Fault(kind) => Losing
  BY MayLose
<1>1. ASSUME NEW j \in Jobs, HookPush(j) PROVE [Ledger!Next]_LedgerVars
  <2>1. /\ hook[j] = "new" /\ fate[j] = "new" /\ UNCHANGED <<pc, held, runs>>
        /\ \A w \in Replicas : ~HeldBy(j, w)
        /\ \A i \in Jobs \ {j} : fate'[i] = fate[i]
    BY <1>1 DEF HookPush, local, Arrives, Settle, TypeOK, Books, BookedNew, Unique,
                NewNowhere
  <2>2. \A i \in Jobs \ {j} : Stage(i)' = Stage(i)
    BY <2>1, StageKept DEF HeldBy
  <2>3. CASE fate'[j] = "live"
    <3>1. Stage(j) = "new"
      BY <2>1 DEF Stage
    <3>2. \A w \in Replicas : ~HeldBy(j, w)'
      BY <2>1 DEF HeldBy
    <3>3. Ledger!Move(j, "new", "queued")
      BY <2>2, <2>3, <3>1, <3>2, StageQueuedNext, LedgerMove
    <3> QED BY <2>1, <3>3 DEF Ledger!Arrive, Ledger!Next
  <2>4. CASE fate'[j] = "lost" /\ Fault("refused")
    <3>1. Losing /\ {j} \in SUBSET Jobs
      BY <1>f, <2>4 DEF FaultKinds
    <3> QED BY <2>1, <2>2, <2>4, <3>1, LedgerLose
  <2> QED BY <1>1, <2>3, <2>4 DEF HookPush, Arrives, Settle, TypeOK
<1>2. ASSUME \/ \E j \in Jobs : HookExpire(j) \/ ProcessingExpires(j)
             \/ \E m \in MRs : LockExpires(m)
             \/ UNCHANGED vars
      PROVE  [Ledger!Next]_LedgerVars
  <2>1. UNCHANGED <<pc, held, fate, runs>>
    BY <1>2 DEF HookExpire, ProcessingExpires, LockExpires, vars, local, history
  <2> QED BY <2>1, StageKept, LedgerSame DEF HeldBy
<1>3. ASSUME NEW w \in Replicas,
             \/ Tick(w) \/ EndTick(w) \/ Acquire(w) \/ PopNothing(w) \/ Release(w)
             \/ Mark(w) \/ Restart(w)
             \/ \E n \in MRs : Skip(w, n) \/ Select(w, n)
      PROVE  [Ledger!Next]_LedgerVars
  <2>1. UNCHANGED <<fate, runs, held>>
    BY <1>3 DEF Tick, EndTick, Skip, Select, Acquire, PopNothing, Release, Mark, Restart,
                history
  <2>2. \A v \in Replicas :
          /\ pc'[v] \in Holds <=> pc[v] \in Holds
          /\ pc'[v] = "retry" <=> pc[v] = "retry"
    BY <1>3 DEF Tick, EndTick, Skip, Select, Acquire, PopNothing, Release, Mark, Restart,
                Leave, GoTo, TypeOK, Holds
  <2> QED BY <2>1, <2>2, StageKept, LedgerSame DEF HeldBy
<1>4. ASSUME NEW w \in Replicas, PopJob(w) \/ PopLost(w) PROVE [Ledger!Next]_LedgerVars
  <2>1. mr[w] \in MRs /\ Popped(mr[w]) /\ QueuedHere /\ NoRepeat /\ pc[w] = "pop"
    BY <1>4 DEF PopJob, PopLost, Placed, OnBatch, Batch, Unique
  <2> DEFINE c == Head(queue[mr[w]])
  <2>2. c \in Copy /\ 1 \in DOMAIN queue[mr[w]] /\ c = queue[mr[w]][1]
    BY <2>1, PopUnique, PopHere
  <2>3. /\ c.job \in Jobs /\ fate[c.job] = "live"
        /\ \A v \in Replicas : ~HeldBy(c.job, v)
    BY <2>1, <2>2 DEF Copy, Books, BookedQueue, Unique, QueuedFree
  <2>4. /\ \A v \in Replicas \ {w} : pc'[v] = pc[v] /\ held'[v] = held[v]
        /\ pc'[w] \in Holds => held'[w] = c
        /\ \A j \in Jobs \ {c.job} : fate'[j] = fate[j]
        /\ UNCHANGED runs
    BY <1>4 DEF PopJob, PopLost, GoTo, Settle, TypeOK, Holds, history
  <2>5. \/ pc'[w] = "mark" /\ held'[w] = c /\ UNCHANGED fate
        \/ fate'[c.job] = "lost" /\ Losing
    BY <1>4, <1>f, <2>3 DEF PopJob, PopLost, GoTo, Settle, TypeOK, history, FaultKinds
  <2> HIDE DEF c
  <2>6. \A j \in Jobs \ {c.job} : Stage(j)' = Stage(j)
    BY <2>1, <2>4, OthersKept DEF Holds
  <2>7. CASE pc'[w] = "mark" /\ held'[w] = c /\ UNCHANGED fate
    <3>1. ASSUME NEW t \in Jobs, t = c.job PROVE Ledger!Take(t)
      <4>1. HeldBy(t, w)' /\ fate'[t] = "live"
        BY <2>3, <2>7, <3>1 DEF HeldBy, Holds
      <4>2. Stage(t)' = "taken"
        BY <2>7, <4>1, StageHeldNext
      <4>3. Stage(t) = "queued"
        BY <2>3, <3>1, StageQueued
      <4>4. Ledger!Move(t, "queued", "taken")
        BY <2>6, <3>1, <4>2, <4>3, LedgerMove
      <4> QED BY <2>4, <4>4 DEF Ledger!Take
    <3> QED BY <2>3, <3>1 DEF Ledger!Next
  <2>8. CASE fate'[c.job] = "lost" /\ Losing
    <3>1. {c.job} \in SUBSET Jobs
      BY <2>3
    <3> QED BY <2>3, <2>4, <2>6, <2>8, <3>1, LedgerLose
  <2> QED BY <2>5, <2>7, <2>8
<1>5. ASSUME NEW w \in Replicas, NEW t \in Jobs, t = held[w].job,
             Run(w) \/ Unmark(w) \/ Requeue(w) \/ Drop(w) \/ (Stop(w) /\ pc[w] \in Holds)
      PROVE  [Ledger!Next]_LedgerVars
  <2>1. /\ pc[w] \in Holds /\ HeldBy(t, w)
        /\ held[w].attempts \in 0 .. MaxAttempts - 1
        /\ pc'[w] \in Holds => held'[w].job = t
        /\ \A v \in Replicas \ {w} : pc'[v] = pc[v] /\ held'[v] = held[v]
        /\ \A j \in Jobs \ {t} : fate'[j] = fate[j]
    BY <1>h, <1>5 DEF Run, Unmark, Requeue, Drop, Stop, NextJob, GoTo, Settle, TypeOK, Holds,
                      history
  <2>2. \A j \in Jobs \ {t} : Stage(j)' = Stage(j)
    BY <1>5, <2>1, OthersKept
  <2>3. CASE Run(w)
    <3>1. /\ fate[t] = "live" /\ pc[w] = "run" /\ UNCHANGED held
          /\ runs' = [runs EXCEPT ![t] = @ + 1]
          /\ \/ fate'[t] = "done"
             \/ fate'[t] = "live" /\ pc'[w] = "retry"
      BY <1>5, <2>3 DEF Run, GoTo, Settle, TypeOK, Books, BookedHeld
    <3>2. Stage(t) = "taken"
      BY <2>1, <3>1, StageHeld DEF Unique
    <3>3. CASE fate'[t] = "done"
      <4>1. Stage(t)' = "done"
        BY <3>3 DEF Stage
      <4>2. Ledger!Move(t, "taken", "done")
        BY <2>2, <3>2, <4>1, LedgerMove
      <4> QED BY <3>1, <4>2 DEF Ledger!Succeed, Ledger!Tried, Ledger!Next
    <3>4. CASE fate'[t] = "live" /\ pc'[w] = "retry"
      <4>1. HeldBy(t, w)'
        BY <1>5, <3>1, <3>4 DEF HeldBy, Holds
      <4>2. Stage(t)' = "failed"
        BY <3>4, <4>1, StageHeldNext
      <4>3. Ledger!Move(t, "taken", "failed")
        BY <2>2, <3>2, <4>2, LedgerMove
      <4> QED BY <3>1, <4>3 DEF Ledger!Fail, Ledger!Tried, Ledger!Next
    <3> QED BY <3>1, <3>3, <3>4
  <2>4. CASE Unmark(w) \/ (Stop(w) /\ pc[w] = "unmark")
    <3>1. fate[t] = "done" /\ UNCHANGED <<fate, runs>>
      BY <1>5, <2>4 DEF Unmark, Stop, Books, BookedHeld, history
    <3>2. Stage(t)' = Stage(t)
      BY <3>1, StageKept
    <3> QED BY <2>2, <3>1, <3>2, LedgerSame
  <2>5. CASE Requeue(w) \/ Drop(w)
    <3>1. /\ fate[t] = "live" /\ pc[w] = "retry" /\ runs[t] = held[w].attempts + 1
          /\ pc'[w] = "pop" /\ UNCHANGED runs
      BY <1>5, <2>5 DEF Requeue, Drop, NextJob, GoTo, TypeOK, Books, BookedHeld
    <3>2. Stage(t) = "failed"
      BY <2>1, <3>1, StageHeld DEF Unique
    <3>3. \/ fate'[t] = "live" /\ MayRetry(held[w].attempts)
          \/ fate'[t] = "lost" /\ Losing
          \/ fate'[t] = "dropped" /\ ~MayRetry(held[w].attempts)
      BY <1>f, <1>5, <2>5, <3>1 DEF Requeue, Drop, Settle, TypeOK, FaultKinds
    <3>4. CASE fate'[t] = "live" /\ MayRetry(held[w].attempts)
      <4>1. \A v \in Replicas : ~HeldBy(t, v)'
        BY <2>1, <3>1 DEF Unique, HeldOnce, HeldBy, Holds
      <4>2. Ledger!Move(t, "failed", "queued")
        BY <2>2, <3>2, <3>4, <4>1, StageQueuedNext, LedgerMove
      <4>3. Ledger!Retry(t)
        BY <2>1, <3>1, <3>4, <4>2 DEF Ledger!Retry, MayRetry
      <4> QED BY <4>3 DEF Ledger!Next
    <3>5. CASE fate'[t] = "lost" /\ Losing
      <4>1. {t} \in SUBSET Jobs
        OBVIOUS
      <4> QED BY <2>2, <3>1, <3>5, <4>1, LedgerLose
    <3>6. CASE fate'[t] = "dropped" /\ ~MayRetry(held[w].attempts)
      <4>1. Stage(t)' = "dropped"
        BY <3>6 DEF Stage
      <4>2. Ledger!Move(t, "failed", "dropped")
        BY <2>2, <3>2, <4>1, LedgerMove
      <4>3. runs[t] >= MaxAttempts
        BY <2>1, <3>1, <3>6, AttemptsAssumption DEF MayRetry
      <4> QED BY <3>1, <4>2, <4>3 DEF Ledger!GiveUp, Ledger!Next
    <3> QED BY <3>3, <3>4, <3>5, <3>6
  <2>6. CASE Stop(w) /\ pc[w] # "unmark"
    <3>1. /\ fate[t] = "live" /\ fate'[t] = "lost" /\ UNCHANGED runs
          /\ {t} \in SUBSET Jobs
      BY <1>5, <2>1, <2>6 DEF Stop, Settle, TypeOK, Books, BookedHeld, Holds
    <3>2. Losing
      BY <2>6, MayLose DEF Stop
    <3> QED BY <2>2, <3>1, <3>2, LedgerLose
  <2> QED BY <1>5, <2>3, <2>4, <2>5, <2>6
<1>6. ASSUME NEW n \in MRs, QueueExpires(n) PROVE [Ledger!Next]_LedgerVars
  <2> DEFINE S == {j \in Jobs : \E i \in DOMAIN queue[n] : queue[n][i].job = j}
  <2>1. /\ UNCHANGED <<pc, held, runs>> /\ S \in SUBSET Jobs
        /\ \A j \in S : fate[j] = "live" /\ fate'[j] = "lost"
        /\ \A j \in Jobs \ S : fate'[j] = fate[j]
    BY <1>6 DEF QueueExpires, local, Books, BookedQueue
  <2>2. Losing
    BY <1>6, MayLose DEF QueueExpires
  <2> HIDE DEF S
  <2>3. \A j \in Jobs \ S : Stage(j)' = Stage(j)
    BY <2>1, StageKept DEF HeldBy
  <2> QED BY <2>1, <2>2, <2>3, LedgerLose
<1>7. ASSUME NEW w \in Replicas, Stop(w), pc[w] \notin Holds PROVE [Ledger!Next]_LedgerVars
  <2>1. /\ UNCHANGED <<fate, runs>> /\ pc'[w] = "down"
        /\ \A v \in Replicas \ {w} : pc'[v] = pc[v] /\ held'[v] = held[v]
    BY <1>7 DEF Stop, TypeOK
  <2> QED BY <1>7, <2>1, StageKept, LedgerSame DEF HeldBy, Holds
<1>8. ASSUME NEW w \in Replicas,
             Run(w) \/ Unmark(w) \/ Requeue(w) \/ Drop(w) \/ Stop(w)
      PROVE  [Ledger!Next]_LedgerVars
  <2>1. pc[w] \in Holds => held[w].job \in Jobs
    BY <1>h
  <2>2. pc[w] \in Holds \/ Stop(w)
    BY <1>8 DEF Run, Unmark, Requeue, Drop, Holds
  <2> QED BY <1>5, <1>7, <1>8, <2>1, <2>2
<1> QED
  BY <1>1, <1>2, <1>3, <1>4, <1>6, <1>8 DEF Next, Handler, Processor, BatchStep

\* Seen job by job, every step of every replica, handler, timer and fault is a
\* step of the job's life cycle or changes nothing of it, as long as the client
\* sends no command twice.
THEOREM LedgerImplemented == Reliable => (Spec => ImplementsLedger)
<1> SUFFICES ASSUME Reliable PROVE Spec => ImplementsLedger
  OBVIOUS
<1>1. Init => Ledger!Init
  BY DEF Init, Ledger!Init, Stage, HeldBy, Holds
<1>2. TypeInv /\ UniqueInv /\ BooksInv /\ UniqueInv' /\ [Next]_vars =>
        [Ledger!Next]_<<[j \in Jobs |-> Stage(j)], runs>>
  BY LedgerNext DEF LedgerVars
<1> QED
  BY <1>1, <1>2, TypeInit, TypeNext, UniqueInit, UniqueNext, BooksInit, BooksNext,
     PTL DEF Spec, ImplementsLedger, Ledger!Spec

-----------------------------------------------------------------------------
(* The line of each merge request: what a step means for its parts.        *)

Arrived(m) == {j \in Jobs : MROf[j] = m /\ hook[j] # "new"}
Serving(m) == [w \in Replicas |-> IF Serves(w, m) THEN held[w] ELSE NoCopy]
Failed(m) == {w \in Replicas : Serves(w, m) /\ pc[w] = "retry"}

LineKept(m) == [Line(m)!Next]_(Line(m)!vars)

\* A step of replica w changes its own place in the lines only.
LEMMA OneServer ==
    ASSUME NEW w \in Replicas, NEW m \in MRs,
           \A v \in Replicas \ {w} : pc'[v] = pc[v] /\ held'[v] = held[v] /\ mr'[v] = mr[v]
    PROVE  /\ Serving(m)' = [Serving(m) EXCEPT ![w] =
                              IF Serves(w, m)' THEN held'[w] ELSE NoCopy]
           /\ Failed(m)' = IF Serves(w, m)' /\ pc'[w] = "retry" THEN Failed(m) \cup {w}
                           ELSE Failed(m) \ {w}
           /\ ~Serves(w, m) /\ ~Serves(w, m)' => UNCHANGED <<Serving(m), Failed(m)>>
<1>1. \A v \in Replicas \ {w} : Serves(v, m)' <=> Serves(v, m)
  BY DEF Serves
<1> QED BY <1>1 DEF Serving, Failed

\* A step that changes none of the parts of a line.
LEMMA SameLine ==
    ASSUME NEW m \in MRs, UNCHANGED <<queue[m], Arrived(m), Serving(m), Failed(m)>>
    PROVE  LineKept(m)
  BY DEF LineKept, Line!vars, Arrived, Serving, Failed

\* Every step of the queue is a step of each line.
LEMMA LinesNext ==
    ASSUME BatchFitsLock, Reliable, TypeInv, LockInv, [Next]_vars
    PROVE  \A m \in MRs : LineKept(m)
<1> SUFFICES ASSUME TypeOK, Placed, AloneOnMR, ~Fault("resent"), [Next]_vars
             PROVE  \A m \in MRs : LineKept(m)
  BY DEF TypeInv, LockInv, Reliable, Fault
<1>h. \A w \in Replicas : pc[w] \in Holds =>
        /\ held[w] \in Copy /\ held[w] # NoCopy /\ held[w].job \in Jobs /\ mr[w] \in MRs
        /\ held[w].attempts \in 0 .. MaxAttempts - 1
  BY NoneAssumption DEF Placed, OnBatch, Copy, NoCopy, Holds, Batch
<1>f. \A kind \in FaultKinds : Fault(kind) => Losing
  BY MayLose
<1>1. ASSUME NEW j \in Jobs, HookPush(j), NEW m \in MRs PROVE LineKept(m)
  <2>1. /\ hook[j] = "new" /\ hook'[j] # "new" /\ UNCHANGED <<pc, held, mr>>
        /\ \A i \in Jobs \ {j} : hook'[i] = hook[i]
    BY <1>1 DEF HookPush, local, TypeOK
  <2>2. UNCHANGED <<Serving(m), Failed(m)>>
    BY <2>1 DEF Serving, Failed, Serves
  <2>3. CASE MROf[j] # m
    <3>1. queue'[m] = queue[m] /\ UNCHANGED Arrived(m)
      BY <1>1, <2>1, <2>3 DEF HookPush, Arrived, TypeOK
    <3> QED BY <2>2, <3>1, SameLine
  <2>4. CASE MROf[j] = m
    <3>1. j \notin Arrived(m) /\ Arrived(m)' = Arrived(m) \cup {j}
      BY <2>1, <2>4 DEF Arrived
    <3>2. CASE queue' = [queue EXCEPT ![m] = LPush(queue[m], Fresh(j))]
      <4>1. queue'[m] = Append(queue[m], [job |-> j, attempts |-> 0])
        BY <3>2 DEF TypeOK, LPush, Fresh
      <4>2. Line(m)!Arrive(j)
        BY <2>2, <3>1, <4>1 DEF Line!Arrive, Arrived, Serving, Failed
      <4> QED BY <2>4, <4>2 DEF LineKept, Line!Next
    <3>3. CASE UNCHANGED queue /\ Losing
      <4>1. Line(m)!LoseArrival(j)
        BY <2>2, <3>1, <3>3 DEF Line!LoseArrival, Arrived, Serving, Failed, Losing
      <4> QED BY <2>4, <4>1 DEF LineKept, Line!Next
    <3> QED BY <1>1, <1>f, <2>4, <3>2, <3>3 DEF HookPush, FaultKinds
  <2> QED BY <2>3, <2>4
<1>2. ASSUME \/ \E j \in Jobs : HookExpire(j) \/ ProcessingExpires(j)
             \/ \E n \in MRs : LockExpires(n)
             \/ UNCHANGED vars,
             NEW m \in MRs
      PROVE  LineKept(m)
  <2>1. /\ UNCHANGED <<queue, pc, held, mr>>
        /\ \A j \in Jobs : hook'[j] = "new" <=> hook[j] = "new"
    BY <1>2 DEF HookExpire, ProcessingExpires, LockExpires, vars, redis, local, TypeOK
  <2>2. UNCHANGED <<queue[m], Arrived(m), Serving(m), Failed(m)>>
    BY <2>1 DEF Arrived, Serving, Failed, Serves
  <2> QED BY <2>2, SameLine
<1>3. ASSUME NEW w \in Replicas, NEW m \in MRs,
             \/ Tick(w) \/ EndTick(w) \/ Acquire(w) \/ PopNothing(w) \/ Release(w)
             \/ Mark(w) \/ Unmark(w) \/ Restart(w)
             \/ \E n \in MRs : Skip(w, n) \/ Select(w, n)
      PROVE  LineKept(m)
  <2>1. UNCHANGED <<queue, hook>>
    BY <1>3 DEF Tick, EndTick, Skip, Select, Acquire, PopNothing, Release, Mark, Unmark,
                Restart, redis
  <2>2. \A v \in Replicas :
          /\ Serves(v, m)' <=> Serves(v, m)
          /\ Serves(v, m) => held'[v] = held[v] /\ (pc'[v] = "retry" <=> pc[v] = "retry")
    BY <1>3 DEF Tick, EndTick, Skip, Select, Acquire, PopNothing, Release, Mark, Unmark,
                Restart, NextJob, Leave, GoTo, TypeOK, Holds, Serves
  <2>3. UNCHANGED <<queue[m], Arrived(m), Serving(m), Failed(m)>>
    BY <2>1, <2>2 DEF Arrived, Serving, Failed
  <2> QED BY <2>3, SameLine
<1>4. ASSUME NEW w \in Replicas, PopJob(w) \/ PopLost(w), NEW m \in MRs PROVE LineKept(m)
  <2>1. /\ pc[w] = "pop" /\ mr[w] \in MRs /\ queue[mr[w]] # <<>> /\ UNCHANGED <<hook, mr>>
        /\ \A v \in Replicas \ {w} : pc'[v] = pc[v] /\ held'[v] = held[v] /\ mr'[v] = mr[v]
        /\ \A n \in MRs \ {mr[w]} : queue'[n] = queue[n]
        /\ queue'[mr[w]] = Tail(queue[mr[w]])
    BY <1>4 DEF PopJob, PopLost, Popped, RPop, GoTo, TypeOK, Placed, OnBatch, Batch
  <2>2. UNCHANGED Arrived(m)
    BY <2>1 DEF Arrived
  <2>3. ~Serves(w, m) /\ (Serves(w, m)' => m = mr[w])
    BY <2>1 DEF Serves, Holds
  <2>4. CASE m # mr[w]
    BY <2>1, <2>2, <2>3, <2>4, OneServer, SameLine
  <2>5. CASE m = mr[w] /\ PopJob(w)
    <3>1. Serves(w, m)' /\ pc'[w] # "retry" /\ held'[w] = Head(queue[m])
      BY <2>1, <2>5 DEF PopJob, GoTo, Serves, Holds, TypeOK
    <3>2. /\ Serving(m)' = [Serving(m) EXCEPT ![w] = Head(queue[m])]
          /\ Failed(m)' = Failed(m) \ {w}
      BY <2>1, <3>1, OneServer
    <3>3. w \notin Failed(m)
      BY <2>3 DEF Failed
    <3>4. \A v \in Replicas : ~Serves(v, m)
      BY <2>1, <2>3, <2>5 DEF AloneOnMR, Serves, Batch
    <3>5. \A v \in Replicas : Serving(m)[v] = NoCopy
      BY <3>4 DEF Serving
    <3>6. Line(m)!Take(w)
      BY <2>1, <2>2, <2>5, <3>2, <3>3, <3>5
      DEF Line!Take, Line!Busy, Arrived, Serving, Failed
    <3> QED BY <3>6 DEF LineKept, Line!Next
  <2>6. CASE m = mr[w] /\ PopLost(w)
    <3>1. ~Serves(w, m)' /\ Losing
      BY <1>f, <2>6 DEF PopLost, GoTo, Serves, Holds, TypeOK, FaultKinds
    <3>2. UNCHANGED <<Serving(m), Failed(m)>>
      BY <2>1, <2>3, <3>1, OneServer
    <3>3. Line(m)!LoseHead
      BY <2>1, <2>2, <2>6, <3>1, <3>2 DEF Line!LoseHead, Arrived, Serving, Failed, Losing
    <3> QED BY <3>3 DEF LineKept, Line!Next
  <2> QED BY <1>4, <2>4, <2>5, <2>6
<1>5. ASSUME NEW w \in Replicas, Run(w) \/ Requeue(w) \/ Drop(w) \/ Stop(w), NEW m \in MRs
      PROVE  LineKept(m)
  <2>1. /\ UNCHANGED hook
        /\ \A v \in Replicas \ {w} : pc'[v] = pc[v] /\ held'[v] = held[v] /\ mr'[v] = mr[v]
        /\ \A n \in MRs \ {mr[w]} : queue'[n] = queue[n]
    BY <1>5 DEF Run, Requeue, Drop, Stop, NextJob, GoTo, TypeOK, redis
  <2>2. UNCHANGED Arrived(m)
    BY <2>1 DEF Arrived
  <2>3. Serves(w, m) => m = mr[w] /\ pc[w] \in Holds
    BY DEF Serves
  <2>4. CASE ~Serves(w, m)
    <3>1. ~Serves(w, m)' /\ queue'[m] = queue[m]
      BY <1>5, <2>1, <2>4 DEF Run, Requeue, Drop, Stop, NextJob, GoTo, TypeOK, redis, Serves, Holds
    <3> QED BY <2>1, <2>2, <2>4, <3>1, OneServer, SameLine
  <2>5. CASE Serves(w, m)
    <3>1. /\ Serving(m)' = [Serving(m) EXCEPT ![w] =
                             IF Serves(w, m)' THEN held'[w] ELSE NoCopy]
          /\ Failed(m)' = IF Serves(w, m)' /\ pc'[w] = "retry" THEN Failed(m) \cup {w}
                          ELSE Failed(m) \ {w}
      BY <2>1, OneServer
    <3>2. /\ Serving(m)[w] = held[w] /\ Serving(m)[w] # NoCopy
          /\ w \in Failed(m) <=> pc[w] = "retry"
          /\ held[w].attempts \in 0 .. MaxAttempts - 1
      BY <1>h, <2>3, <2>5 DEF Serving, Failed
    <3>3. CASE Run(w)
      <4>1. pc[w] = "run" /\ UNCHANGED <<queue, held, mr>>
        BY <3>3 DEF Run, redis
      <4>2. CASE pc'[w] = "unmark"
        <5>1. /\ Serving(m)' = [Serving(m) EXCEPT ![w] = NoCopy]
              /\ Failed(m)' = Failed(m) \ {w}
          BY <3>1, <4>2 DEF Serves
        <5>2. Line(m)!Finish(w)
          BY <2>2, <3>2, <4>1, <5>1
          DEF Line!Finish, Line!Busy, Line!LetGo, Arrived, Serving, Failed
        <5> QED BY <5>2 DEF LineKept, Line!Next
      <4>3. CASE pc'[w] = "retry"
        <5>1. Serves(w, m)'
          BY <2>5, <4>1, <4>3 DEF Serves, Holds
        <5>2. UNCHANGED Serving(m) /\ Failed(m)' = Failed(m) \cup {w}
          BY <3>1, <3>2, <4>1, <4>3, <5>1 DEF Serving
        <5>3. Line(m)!Fail(w)
          BY <2>2, <3>2, <4>1, <5>2 DEF Line!Fail, Line!Busy, Arrived, Serving, Failed
        <5> QED BY <5>3 DEF LineKept, Line!Next
      <4> QED BY <3>3, <4>2, <4>3 DEF Run, GoTo, TypeOK
    <3>4. CASE Requeue(w) \/ Drop(w) \/ Stop(w)
      <4>1. ~Serves(w, m)'
        BY <3>4 DEF Requeue, Drop, Stop, NextJob, GoTo, TypeOK, Serves, Holds
      <4>2. /\ Serving(m)' = [Serving(m) EXCEPT ![w] = NoCopy]
            /\ Failed(m)' = Failed(m) \ {w}
        BY <3>1, <4>1
      <4>3. CASE Drop(w)
        <5>1. pc[w] = "retry" /\ UNCHANGED queue /\ held[w].attempts + 1 >= MaxAttempts
          BY <3>2, <4>3, AttemptsAssumption DEF Drop, MayRetry
        <5>2. Line(m)!GiveUp(w)
          BY <2>2, <3>2, <4>2, <5>1 DEF Line!GiveUp, Line!LetGo, Arrived, Serving, Failed
        <5> QED BY <5>2 DEF LineKept, Line!Next
      <4>4. CASE UNCHANGED queue /\ Losing
        <5>1. Line(m)!LoseServed(w)
          BY <2>2, <3>2, <4>2, <4>4
          DEF Line!LoseServed, Line!Busy, Line!LetGo, Arrived, Serving, Failed, Losing
        <5> QED BY <5>1 DEF LineKept, Line!Next
      <4>5. CASE /\ Requeue(w)
                 /\ queue' = [queue EXCEPT ![mr[w]] = LPush(queue[mr[w]],
                     [job |-> held[w].job, attempts |-> held[w].attempts + 1])]
        <5>1. /\ pc[w] = "retry" /\ held[w].attempts + 1 < MaxAttempts
              /\ queue'[m] = Append(queue[m], [job |-> held[w].job,
                                               attempts |-> held[w].attempts + 1])
          BY <2>3, <2>5, <4>5 DEF Requeue, MayRetry, LPush, TypeOK
        <5>2. Line(m)!Retry(w)
          BY <2>2, <3>2, <4>2, <5>1 DEF Line!Retry, Line!LetGo, Arrived, Serving, Failed
        <5> QED BY <5>2 DEF LineKept, Line!Next
      <4>6. Stop(w) => UNCHANGED queue /\ Losing
        BY MayLose DEF Stop, redis
      <4> QED BY <1>f, <3>4, <4>3, <4>4, <4>5, <4>6 DEF Requeue, FaultKinds
    <3> QED BY <1>5, <3>3, <3>4
  <2> QED BY <2>4, <2>5
<1>6. ASSUME NEW n \in MRs, QueueExpires(n), NEW m \in MRs PROVE LineKept(m)
  <2>1. /\ UNCHANGED <<hook, pc, held, mr>> /\ Losing
        /\ queue'[m] = IF m = n THEN <<>> ELSE queue[m]
    BY <1>6, MayLose DEF QueueExpires, local, TypeOK
  <2>2. UNCHANGED <<Arrived(m), Serving(m), Failed(m)>>
    BY <2>1 DEF Arrived, Serving, Failed, Serves
  <2>3. CASE m # n
    BY <2>1, <2>2, <2>3, SameLine
  <2>4. CASE m = n
    <3>1. Line(m)!LoseLine
      BY <2>1, <2>2, <2>4 DEF Line!LoseLine, Arrived, Serving, Failed, Losing
    <3> QED BY <3>1 DEF LineKept, Line!Next
  <2> QED BY <2>3, <2>4
<1> QED
  BY <1>1, <1>2, <1>3, <1>4, <1>5, <1>6 DEF Next, Handler, Processor, BatchStep

\* Seen merge request by merge request, the replicas together serve one line,
\* one job at a time and always its head, whatever stops or fails, as long as
\* no batch outlives the TTL of its lock and no command is sent twice.
THEOREM LinesImplemented == BatchFitsLock /\ Reliable => (Spec => ImplementsLines)
<1> SUFFICES ASSUME BatchFitsLock, Reliable PROVE Spec => ImplementsLines
  OBVIOUS
<1>1. Init => \A m \in MRs : Line(m)!Init
  BY DEF Init, Line!Init, Serves, Holds
<1>2. TypeInv /\ LockInv /\ [Next]_vars =>
        [\A m \in MRs : [Line(m)!Next]_(Line(m)!vars)]_vars
  BY LinesNext DEF LineKept
<1>3. Init => LockInv
  BY DEF Init, LockInv, LockKept, AloneOnMR, Batch, Holds
<1> QED
  BY <1>1, <1>2, <1>3, TypeInit, TypeNext, LockNext, PTL DEF Spec, ImplementsLines
=============================================================================
