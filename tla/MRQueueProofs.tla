--------------------------- MODULE MRQueueProofs ---------------------------
(* Theorems about MRQueue, for every number of replicas, jobs and faults.  *)
EXTENDS MRQueue, TLAPS

-----------------------------------------------------------------------------
(* The list operations.                                                    *)

\* LPUSH adds one element at the far end and moves nothing.
LEMMA PushLemma ==
    ASSUME NEW S, NEW q \in Seq(S), NEW c \in S
    PROVE  /\ LPush(q, c) \in Seq(S)
           /\ DOMAIN LPush(q, c) = 1 .. Len(q) + 1
           /\ DOMAIN q = 1 .. Len(q) /\ Len(q) \in Nat
           /\ \A i \in 1 .. Len(q) : LPush(q, c)[i] = q[i]
           /\ LPush(q, c)[Len(q) + 1] = c
           /\ LPush(q, c) # <<>>
  BY DEF LPush

\* RPOP removes the head and moves the others up by one.
LEMMA PopLemma ==
    ASSUME NEW S, NEW q \in Seq(S), q # <<>>
    PROVE  /\ RPop(q) \in Seq(S)
           /\ DOMAIN RPop(q) = 1 .. Len(q) - 1
           /\ DOMAIN q = 1 .. Len(q) /\ Len(q) \in Nat \ {0}
           /\ \A i \in 1 .. Len(q) - 1 : RPop(q)[i] = q[i + 1]
           /\ Head(q) = q[1] /\ q[1] \in S
  BY DEF RPop

-----------------------------------------------------------------------------
(* Type correctness.  A replica on a batch knows which merge request it is *)
(* on and, while it holds a job, that the job is of that merge request.    *)

OnBatch(w) ==
    /\ pc[w] \in Batch \cup {"lock"} => mr[w] \in MRs
    /\ pc[w] \in Holds => held[w] \in Copy /\ MROf[held[w].job] = mr[w]

QueuedHere == \A m \in MRs : \A i \in DOMAIN queue[m] : MROf[queue[m][i].job] = m

Placed == QueuedHere /\ \A w \in Replicas : OnBatch(w)

TypeInv == TypeOK /\ Placed

\* A queue holds jobs of its own merge request after one of them is pushed.
LEMMA PushHere ==
    ASSUME TypeOK, QueuedHere, NEW m \in MRs, NEW c \in Copy, MROf[c.job] = m,
           queue' = [queue EXCEPT ![m] = LPush(queue[m], c)]
    PROVE  queue' \in [MRs -> Seq(Copy)] /\ QueuedHere'
<1>1. queue \in [MRs -> Seq(Copy)] /\ queue[m] \in Seq(Copy)
  BY DEF TypeOK
<1>2. queue' \in [MRs -> Seq(Copy)]
  BY <1>1, PushLemma
<1>4. /\ DOMAIN LPush(queue[m], c) = 1 .. Len(queue[m]) + 1
      /\ DOMAIN queue[m] = 1 .. Len(queue[m]) /\ Len(queue[m]) \in Nat
      /\ \A i \in 1 .. Len(queue[m]) : LPush(queue[m], c)[i] = queue[m][i]
      /\ LPush(queue[m], c)[Len(queue[m]) + 1] = c
  <2>1. queue[m] \in Seq(Copy) /\ c \in Copy
    BY <1>1
  <2> QED BY <2>1 DEF LPush
<1>3. ASSUME NEW n \in MRs, NEW i \in DOMAIN queue'[n]
      PROVE  MROf[queue'[n][i].job] = n
  <2>1. CASE n # m
    BY <1>1, <2>1 DEF QueuedHere
  <2>2. CASE n = m
    <3>1. queue'[m] = LPush(queue[m], c)
      BY <1>1
    <3>2. i \in 1 .. Len(queue[m]) \/ i = Len(queue[m]) + 1
      BY <1>4, <2>2, <3>1
    <3>3. CASE i \in 1 .. Len(queue[m])
      BY <1>4, <2>2, <3>1, <3>3 DEF QueuedHere
    <3>4. CASE i = Len(queue[m]) + 1
      BY <1>4, <2>2, <3>1, <3>4
    <3> QED BY <3>2, <3>3, <3>4
  <2> QED BY <2>1, <2>2
<1> QED BY <1>2, <1>3 DEF QueuedHere

\* And after one is popped, which is a job of that merge request too.
LEMMA PopHere ==
    ASSUME TypeOK, QueuedHere, NEW m \in MRs, Popped(m)
    PROVE  /\ queue' \in [MRs -> Seq(Copy)] /\ QueuedHere'
           /\ expiring' \subseteq MRs
           /\ Head(queue[m]) \in Copy /\ MROf[Head(queue[m]).job] = m
<1>1. /\ queue \in [MRs -> Seq(Copy)] /\ queue[m] \in Seq(Copy) /\ queue[m] # <<>>
      /\ queue' = [queue EXCEPT ![m] = RPop(queue[m])]
  BY DEF TypeOK, Popped
<1>2. queue' \in [MRs -> Seq(Copy)]
  BY <1>1, PopLemma
<1>3. ASSUME NEW n \in MRs, NEW i \in DOMAIN queue'[n]
      PROVE  MROf[queue'[n][i].job] = n
  <2>1. CASE n # m
    BY <1>1, <2>1 DEF QueuedHere
  <2>2. CASE n = m
    <3>1. queue'[m] = RPop(queue[m])
      BY <1>1
    <3>2. i + 1 \in DOMAIN queue[m] /\ queue'[m][i] = queue[m][i + 1]
      BY <1>1, <2>2, <3>1, PopLemma
    <3> QED BY <2>2, <3>2 DEF QueuedHere
  <2> QED BY <2>1, <2>2
<1>4. expiring' \subseteq MRs
  BY DEF TypeOK, Popped, TTLAfter
<1>5. Head(queue[m]) = queue[m][1] /\ 1 \in DOMAIN queue[m] /\ queue[m][1] \in Copy
  BY <1>1, PopLemma
<1> QED BY <1>2, <1>3, <1>4, <1>5 DEF QueuedHere

\* The queue starts with every variable of its type.
LEMMA TypeInit == Init => TypeInv
  BY DEF Init, TypeInv, TypeOK, Placed, QueuedHere, OnBatch, Batch, Holds, Places,
         Final, Copy, NoCopy

\* Every step keeps the types, and the jobs with their own merge request: one
\* case per Redis command.
LEMMA TypeNext == TypeInv /\ [Next]_vars => TypeInv'
<1> SUFFICES ASSUME TypeOK, Placed, [Next]_vars PROVE TypeOK' /\ Placed'
  BY DEF TypeInv
<1>c. \A w \in Replicas : pc[w] \in Holds =>
        held[w] \in Copy /\ held[w].job \in Jobs /\ mr[w] \in MRs
           /\ MROf[held[w].job] = mr[w]
  BY DEF Placed, OnBatch, Copy, Holds, Batch
<1>1. ASSUME NEW j \in Jobs, HookPush(j)
      PROVE  TypeOK' /\ Placed'
  <2>1. faults' \in Nat /\ stops' \in Nat /\ expiries' \in Nat
    BY <1>1 DEF HookPush, TypeOK, NoFault, Fault, used
  <2>2. fate' \in [Jobs -> Final \cup {"new", "live"}]
    BY <1>1 DEF HookPush, TypeOK, Arrives, Settle, Final
  <2>8. earlier' \in [Jobs -> SUBSET Jobs]
    BY <1>1 DEF HookPush, TypeOK, Arrives
  <2>9. hook' \in [Jobs -> {"new", "pushed", "accepted", "refused"}]
    BY <1>1 DEF HookPush, TypeOK
  <2>5. MROf[j] \in MRs /\ Fresh(j) \in Copy /\ MROf[Fresh(j).job] = MROf[j]
    BY MROfAssumption, AttemptsAssumption DEF Fresh, Copy
  <2>6. \/ queue' = [queue EXCEPT ![MROf[j]] = LPush(queue[MROf[j]], Fresh(j))]
        \/ UNCHANGED queue
    BY <1>1 DEF HookPush
  <2>7. queue' \in [MRs -> Seq(Copy)] /\ QueuedHere'
    <3>1. CASE UNCHANGED queue
      BY <3>1 DEF TypeOK, Placed, QueuedHere
    <3>2. CASE queue' = [queue EXCEPT ![MROf[j]] = LPush(queue[MROf[j]], Fresh(j))]
      BY <2>5, <3>2, PushHere DEF Placed
    <3> QED BY <2>6, <3>1, <3>2
  <2>3. TypeOK'
    BY <1>1, <2>1, <2>2, <2>7, <2>8, <2>9 DEF HookPush, TypeOK, local
  <2>4. Placed'
    BY <1>1, <2>7 DEF HookPush, Placed, OnBatch, local
  <2> QED BY <2>3, <2>4
<1>2. ASSUME NEW j \in Jobs, HookExpire(j)
      PROVE  TypeOK' /\ Placed'
  <2>1. faults' \in Nat /\ stops' \in Nat /\ expiries' \in Nat
    BY <1>2 DEF HookExpire, TypeOK, NoFault, Fault, used
  <2>2. expiring' \subseteq MRs
    BY <1>2, MROfAssumption DEF HookExpire, TypeOK
  <2>3. TypeOK'
    BY <1>2, <2>1, <2>2 DEF HookExpire, TypeOK, local, history
  <2>4. Placed'
    BY <1>2 DEF HookExpire, Placed, QueuedHere, OnBatch, local
  <2> QED BY <2>3, <2>4
<1>3. ASSUME NEW w \in Replicas, Tick(w)
      PROVE  TypeOK' /\ Placed'
  <2>3. TypeOK'
    BY <1>3 DEF Tick, TypeOK, GoTo, Places, redis, used, history
  <2>4. Placed'
    BY <1>3 DEF Tick, Placed, QueuedHere, OnBatch, Batch, Holds, GoTo, TypeOK, redis
  <2> QED BY <2>3, <2>4
<1>4. ASSUME NEW w \in Replicas, EndTick(w)
      PROVE  TypeOK' /\ Placed'
  <2>3. TypeOK'
    BY <1>4 DEF EndTick, TypeOK, GoTo, Places, redis, used, history
  <2>4. Placed'
    BY <1>4 DEF EndTick, Placed, QueuedHere, OnBatch, Batch, Holds, GoTo, TypeOK, redis
  <2> QED BY <2>3, <2>4
<1>5. ASSUME NEW w \in Replicas, NEW n \in MRs, Skip(w, n)
      PROVE  TypeOK' /\ Placed'
  <2>1. faults' \in Nat /\ stops' \in Nat /\ expiries' \in Nat
    BY <1>5 DEF Skip, TypeOK, NoFault, Fault, used
  <2>3. TypeOK'
    BY <1>5, <2>1 DEF Skip, TypeOK, redis, history
  <2>4. Placed'
    BY <1>5 DEF Skip, Placed, QueuedHere, OnBatch, redis
  <2> QED BY <2>3, <2>4
<1>6. ASSUME NEW w \in Replicas, NEW n \in MRs, Select(w, n)
      PROVE  TypeOK' /\ Placed'
  <2>3. TypeOK'
    BY <1>6 DEF Select, TypeOK, GoTo, Places, redis, used, history
  <2>4. Placed'
    BY <1>6 DEF Select, Placed, QueuedHere, OnBatch, Batch, Holds, GoTo, TypeOK, redis
  <2> QED BY <2>3, <2>4
<1>7. ASSUME NEW w \in Replicas, Acquire(w)
      PROVE  TypeOK' /\ Placed'
  <2>1. faults' \in Nat /\ stops' \in Nat /\ expiries' \in Nat
    BY <1>7 DEF Acquire, TypeOK, NoFault, Fault, used
  <2>2. /\ locked' \subseteq MRs /\ mr' \in [Replicas -> MRs \cup {NoMR}]
        /\ pc' \in [Replicas -> Places]
    BY <1>7 DEF Acquire, TypeOK, Placed, OnBatch, Leave, GoTo, Places, Batch
  <2>3. TypeOK'
    BY <1>7, <2>1, <2>2 DEF Acquire, TypeOK, history
  <2>4. Placed'
    BY <1>7 DEF Acquire, Placed, QueuedHere, OnBatch, Batch, Holds, Leave, GoTo, TypeOK
  <2> QED BY <2>3, <2>4
<1>8. ASSUME NEW w \in Replicas, PopJob(w)
      PROVE  TypeOK' /\ Placed'
  <2>1. mr[w] \in MRs /\ Popped(mr[w])
    BY <1>8 DEF PopJob, Placed, OnBatch, Batch
  <2>2. /\ queue' \in [MRs -> Seq(Copy)] /\ QueuedHere' /\ expiring' \subseteq MRs
        /\ Head(queue[mr[w]]) \in Copy /\ MROf[Head(queue[mr[w]]).job] = mr[w]
    BY <2>1, PopHere DEF Placed
  <2>3. TypeOK'
    BY <1>8, <2>2 DEF PopJob, TypeOK, GoTo, Places, Batch, Holds, used, history
  <2>4. Placed'
    BY <1>8, <2>1, <2>2 DEF PopJob, Placed, OnBatch, Batch, Holds, GoTo, TypeOK
  <2> QED BY <2>3, <2>4
<1>9. ASSUME NEW w \in Replicas, PopLost(w)
      PROVE  TypeOK' /\ Placed'
  <2>1. faults' \in Nat /\ stops' \in Nat /\ expiries' \in Nat
    BY <1>9 DEF PopLost, TypeOK, NoFault, Fault, used
  <2>2. mr[w] \in MRs /\ Popped(mr[w])
    BY <1>9 DEF PopLost, Placed, OnBatch, Batch
  <2>5. queue' \in [MRs -> Seq(Copy)] /\ QueuedHere' /\ expiring' \subseteq MRs
    BY <2>2, PopHere DEF Placed
  <2>6. /\ fate' \in [Jobs -> Final \cup {"new", "live"}]
        /\ pc' \in [Replicas -> Places]
    BY <1>9 DEF PopLost, TypeOK, GoTo, Places, Batch, Settle, Final
  <2>3. TypeOK'
    BY <1>9, <2>1, <2>5, <2>6 DEF PopLost, TypeOK
  <2>4. Placed'
    BY <1>9, <2>5 DEF PopLost, Placed, OnBatch, Batch, Holds, GoTo, TypeOK
  <2> QED BY <2>3, <2>4
<1>10. ASSUME NEW w \in Replicas, PopNothing(w)
      PROVE  TypeOK' /\ Placed'
  <2>1. faults' \in Nat /\ stops' \in Nat /\ expiries' \in Nat
    BY <1>10 DEF PopNothing, TypeOK, NoFault, Fault, used
  <2>3. TypeOK'
    BY <1>10, <2>1 DEF PopNothing, TypeOK, GoTo, Places, Batch, redis, history
  <2>4. Placed'
    BY <1>10 DEF PopNothing, Placed, QueuedHere, OnBatch, Batch, Holds, GoTo, TypeOK, redis
  <2> QED BY <2>3, <2>4
<1>11. ASSUME NEW w \in Replicas, Mark(w)
      PROVE  TypeOK' /\ Placed'
  <2>1. faults' \in Nat /\ stops' \in Nat /\ expiries' \in Nat
    BY <1>11 DEF Mark, TypeOK, NoFault, Fault, used
  <2>5. held[w].job \in Jobs
    BY <1>11, <1>c DEF Mark, Holds
  <2>2. processing' \subseteq Jobs
    BY <1>11, <2>5 DEF Mark, TypeOK
  <2>3. TypeOK'
    BY <1>11, <2>1, <2>2 DEF Mark, TypeOK, GoTo, Places, Batch, Holds, history
  <2>4. Placed'
    BY <1>11 DEF Mark, Placed, QueuedHere, OnBatch, Batch, Holds, GoTo, TypeOK
  <2> QED BY <2>3, <2>4
<1>12. ASSUME NEW w \in Replicas, Unmark(w)
      PROVE  TypeOK' /\ Placed'
  <2>1. faults' \in Nat /\ stops' \in Nat /\ expiries' \in Nat
    BY <1>12 DEF Unmark, TypeOK, NoFault, Fault, used
  <2>5. held[w].job \in Jobs
    BY <1>12, <1>c DEF Unmark, Holds
  <2>2. processing' \subseteq Jobs
    BY <1>12, <2>5 DEF Unmark, TypeOK, Unmarked
  <2>3. TypeOK'
    BY <1>12, <2>1, <2>2 DEF Unmark, TypeOK, GoTo, Places, Batch, Holds, history, NextJob
  <2>4. Placed'
    BY <1>12 DEF Unmark, Placed, QueuedHere, OnBatch, Batch, Holds, GoTo, TypeOK, NextJob
  <2> QED BY <2>3, <2>4
<1>13. ASSUME NEW w \in Replicas, Run(w)
      PROVE  TypeOK' /\ Placed'
  <2>2. fate' \in [Jobs -> Final \cup {"new", "live"}]
    BY <1>13 DEF Run, TypeOK, Settle, Final
  <2>5. pc' \in [Replicas -> Places]
    BY <1>13 DEF Run, TypeOK, GoTo, Places, Batch, Holds
  <2>6. runs' \in [Jobs -> Nat]
    <3>1. runs' = [runs EXCEPT ![held[w].job] = runs[held[w].job] + 1]
      BY <1>13 DEF Run
    <3>2. runs \in [Jobs -> Nat]
      BY DEF TypeOK
    <3>3. held[w].job \in Jobs
      BY <1>13, <1>c DEF Run, Holds
    <3> QED BY <3>1, <3>2, <3>3
  <2>3. TypeOK'
    BY <1>13, <2>2, <2>5, <2>6 DEF Run, TypeOK, redis, used
  <2>4. Placed'
    BY <1>13 DEF Run, Placed, QueuedHere, OnBatch, Batch, Holds, GoTo, TypeOK, redis
  <2> QED BY <2>3, <2>4
<1>14. ASSUME NEW w \in Replicas, Drop(w)
      PROVE  TypeOK' /\ Placed'
  <2>1. faults' \in Nat /\ stops' \in Nat /\ expiries' \in Nat
    BY <1>14 DEF Drop, TypeOK, NoFault, Fault, used
  <2>2. processing' \subseteq Jobs
    BY <1>14, <1>c DEF Drop, TypeOK, Unmarked
  <2>3. TypeOK'
    BY <1>14, <2>1, <2>2 DEF Drop, TypeOK, GoTo, Places, Batch, NextJob, Settle, Final
  <2>4. Placed'
    BY <1>14 DEF Drop, Placed, QueuedHere, OnBatch, Batch, Holds, GoTo, TypeOK, NextJob
  <2> QED BY <2>3, <2>4
<1>15. ASSUME NEW w \in Replicas, Requeue(w)
      PROVE  TypeOK' /\ Placed'
  <2>1. faults' \in Nat /\ stops' \in Nat /\ expiries' \in Nat
    BY <1>15 DEF Requeue, TypeOK, NoFault, Fault, used
  <2> DEFINE next == [job |-> held[w].job, attempts |-> held[w].attempts + 1]
  <2>2. held[w] \in Copy /\ mr[w] \in MRs /\ MROf[held[w].job] = mr[w]
    BY <1>15, <1>c DEF Requeue, Holds
  <2>5. next \in Copy /\ MROf[next.job] = mr[w]
    BY <1>15, <2>2, AttemptsAssumption DEF Requeue, MayRetry, Copy
  <2>6. queue' = [queue EXCEPT ![mr[w]] = LPush(queue[mr[w]], next)] \/ UNCHANGED queue
    BY <1>15 DEF Requeue
  <2> HIDE DEF next
  <2>7. queue' \in [MRs -> Seq(Copy)] /\ QueuedHere'
    <3>1. CASE UNCHANGED queue
      BY <3>1 DEF TypeOK, Placed, QueuedHere
    <3>2. CASE queue' = [queue EXCEPT ![mr[w]] = LPush(queue[mr[w]], next)]
      BY <2>2, <2>5, <3>2, PushHere DEF Placed
    <3> QED BY <2>6, <3>1, <3>2
  <2>8. fate' \in [Jobs -> Final \cup {"new", "live"}]
    BY <1>15 DEF Requeue, TypeOK, Settle, Final
  <2>9. pc' \in [Replicas -> Places]
    BY <1>15 DEF Requeue, TypeOK, GoTo, NextJob, Places, Batch
  <2>10. held' \in [Replicas -> Copy \cup {NoCopy}]
    BY <1>15 DEF Requeue, TypeOK, GoTo, NextJob
  <2>3. TypeOK'
    BY <1>15, <2>1, <2>7, <2>8, <2>9, <2>10 DEF Requeue, TypeOK
  <2>4. Placed'
    BY <1>15, <2>7 DEF Requeue, Placed, OnBatch, Batch, Holds, GoTo, NextJob, TypeOK
  <2> QED BY <2>3, <2>4
<1>16. ASSUME NEW w \in Replicas, Release(w)
      PROVE  TypeOK' /\ Placed'
  <2>1. faults' \in Nat /\ stops' \in Nat /\ expiries' \in Nat
    BY <1>16 DEF Release, TypeOK, NoFault, Fault, used
  <2>2. /\ locked' \subseteq MRs /\ mr' \in [Replicas -> MRs \cup {NoMR}]
        /\ pc' \in [Replicas -> Places]
    BY <1>16 DEF Release, TypeOK, Leave, GoTo, Places
  <2>3. TypeOK'
    BY <1>16, <2>1, <2>2 DEF Release, TypeOK, history
  <2>4. Placed'
    BY <1>16 DEF Release, Placed, QueuedHere, OnBatch, Batch, Holds, Leave, GoTo, TypeOK
  <2> QED BY <2>3, <2>4
<1>17. ASSUME NEW n \in MRs, LockExpires(n)
      PROVE  TypeOK' /\ Placed'
  <2>3. TypeOK'
    BY <1>17 DEF LockExpires, TypeOK, local, used, history
  <2>4. Placed'
    BY <1>17 DEF LockExpires, Placed, QueuedHere, OnBatch, Batch, Holds, local
  <2> QED BY <2>3, <2>4
<1>18. ASSUME NEW n \in MRs, QueueExpires(n)
      PROVE  TypeOK' /\ Placed'
  <2>1. queue' \in [MRs -> Seq(Copy)] /\ expiries' \in Nat
    BY <1>18 DEF QueueExpires, TypeOK
  <2>2. fate' \in [Jobs -> Final \cup {"new", "live"}]
    BY <1>18 DEF QueueExpires, TypeOK, Final
  <2>3. TypeOK'
    BY <1>18, <2>1, <2>2 DEF QueueExpires, TypeOK, local
  <2>4. Placed'
    BY <1>18 DEF QueueExpires, TypeOK, Placed, QueuedHere, OnBatch, local
  <2> QED BY <2>3, <2>4
<1>19. ASSUME NEW j \in Jobs, ProcessingExpires(j)
      PROVE  TypeOK' /\ Placed'
  <2>3. TypeOK'
    BY <1>19 DEF ProcessingExpires, TypeOK, local, used, history
  <2>4. Placed'
    BY <1>19 DEF ProcessingExpires, Placed, QueuedHere, OnBatch, Batch, Holds, local
  <2> QED BY <2>3, <2>4
<1>20. ASSUME NEW w \in Replicas, Stop(w)
      PROVE  TypeOK' /\ Placed'
  <2>1. faults' \in Nat /\ stops' \in Nat /\ expiries' \in Nat
    BY <1>20 DEF Stop, TypeOK
  <2>2. fate' \in [Jobs -> Final \cup {"new", "live"}]
    BY <1>20 DEF Stop, TypeOK, Settle, Final
  <2>3. TypeOK'
    BY <1>20, <2>1, <2>2 DEF Stop, TypeOK, redis, Places
  <2>4. Placed'
    BY <1>20 DEF Stop, Placed, QueuedHere, OnBatch, Batch, Holds, TypeOK, redis
  <2> QED BY <2>3, <2>4
<1>21. ASSUME NEW w \in Replicas, Restart(w)
      PROVE  TypeOK' /\ Placed'
  <2>3. TypeOK'
    BY <1>21 DEF Restart, TypeOK, GoTo, Places, redis, used, history
  <2>4. Placed'
    BY <1>21 DEF Restart, Placed, QueuedHere, OnBatch, Batch, Holds, GoTo, TypeOK, redis
  <2> QED BY <2>3, <2>4
<1>22. CASE UNCHANGED vars
  BY <1>22 DEF vars, redis, local, used, history, TypeOK, Placed, QueuedHere, OnBatch
<1> QED
  BY <1>1, <1>2, <1>3, <1>4, <1>5, <1>6, <1>7, <1>8, <1>9, <1>10,
     <1>11, <1>12, <1>13, <1>14, <1>15, <1>16, <1>17, <1>18, <1>19, <1>20,
     <1>21, <1>22
  DEF Next, Handler, Processor, BatchStep

\* Every variable keeps its type, whatever fails, stops or is sent twice.
THEOREM TypeCorrect == Spec => []TypeOK
  BY TypeInit, TypeNext, PTL DEF Spec, TypeInv

-----------------------------------------------------------------------------
(* Mutual exclusion.  The lock key does not name its owner, so the         *)
(* invariant must say that it exists for as long as a batch runs: that is  *)
(* what keeps SETNX from succeeding and what makes the DEL of a batch      *)
(* delete its own lock.                                                    *)

LockKept == \A w \in Replicas : pc[w] \in Batch => mr[w] \in locked

AloneOnMR ==
    \A v, w \in Replicas :
      pc[v] \in Batch /\ pc[w] \in Batch /\ mr[v] = mr[w] => v = w

LockInv == BatchFitsLock /\ Reliable => LockKept /\ AloneOnMR

\* A step that moves replica w within its batch, or out of it, and leaves the
\* locks alone keeps the invariant.
LEMMA LockFrame ==
    ASSUME LockKept, AloneOnMR, locked \subseteq locked',
           \A w \in Replicas : pc'[w] \in Batch => pc[w] \in Batch /\ mr'[w] = mr[w]
    PROVE  LockKept' /\ AloneOnMR'
  BY DEF LockKept, AloneOnMR

\* A batch has its lock and is alone: acquiring makes it so, and only the
\* release of the batch itself takes the lock away.
LEMMA LockNext == TypeInv /\ LockInv /\ [Next]_vars => LockInv'
<1> SUFFICES ASSUME TypeOK, Placed, LockInv, [Next]_vars, BatchFitsLock, Reliable
             PROVE  LockKept' /\ AloneOnMR'
  BY DEF LockInv, TypeInv, Reliable
<1>i. LockKept /\ AloneOnMR
  BY DEF LockInv
<1>n. ~Fault("resent")
  BY DEF Reliable, Fault
<1>1. ASSUME NEW j \in Jobs, HookPush(j) \/ HookExpire(j) \/ ProcessingExpires(j)
      PROVE  LockKept' /\ AloneOnMR'
  BY <1>1, <1>i, LockFrame DEF HookPush, HookExpire, ProcessingExpires, local
<1>2. ASSUME NEW w \in Replicas, Tick(w) \/ EndTick(w)
      PROVE  LockKept' /\ AloneOnMR'
  BY <1>2, <1>i, LockFrame DEF Tick, EndTick, GoTo, TypeOK, redis, Batch, Holds
<1>3. ASSUME NEW w \in Replicas, NEW n \in MRs, Skip(w, n) \/ Select(w, n)
      PROVE  LockKept' /\ AloneOnMR'
  BY <1>3, <1>i, LockFrame DEF Skip, Select, GoTo, TypeOK, redis, Batch, Holds
<1>4. ASSUME NEW w \in Replicas, Acquire(w) PROVE LockKept' /\ AloneOnMR'
  <2>1. CASE pc' = [pc EXCEPT ![w] = "pop"] /\ mr' = mr
                /\ locked' = locked \cup {mr[w]} /\ mr[w] \notin locked
    <3>1. \A v \in Replicas : v # w => (pc'[v] = pc[v] /\ mr'[v] = mr[v])
      BY <2>1 DEF TypeOK
    <3>2. \A v \in Replicas : pc[v] \in Batch => mr[v] # mr[w]
      BY <1>i, <2>1 DEF LockKept
    <3>3. pc'[w] = "pop" /\ mr'[w] = mr[w]
      BY <2>1 DEF TypeOK
    <3> QED BY <1>i, <2>1, <3>1, <3>2, <3>3 DEF LockKept, AloneOnMR
  <2>2. CASE Leave(w) /\ locked \subseteq locked'
    BY <1>i, <2>2, LockFrame DEF Leave, GoTo, TypeOK, Batch, Holds
  <2> QED BY <1>4, <1>n, <2>1, <2>2 DEF Acquire, Free, GoTo
<1>5. ASSUME NEW w \in Replicas, PopJob(w) \/ PopNothing(w) \/ PopLost(w)
      PROVE  LockKept' /\ AloneOnMR'
  BY <1>5, <1>i, LockFrame DEF PopJob, PopNothing, PopLost, GoTo, TypeOK, redis,
                               Batch, Holds
<1>6. ASSUME NEW w \in Replicas, Mark(w) \/ Run(w) \/ Unmark(w)
      PROVE  LockKept' /\ AloneOnMR'
  BY <1>6, <1>i, LockFrame DEF Mark, Run, Unmark, NextJob, GoTo, TypeOK, redis,
                               Batch, Holds
<1>7. ASSUME NEW w \in Replicas, Requeue(w) \/ Drop(w)
      PROVE  LockKept' /\ AloneOnMR'
  BY <1>7, <1>i, LockFrame DEF Requeue, Drop, NextJob, GoTo, TypeOK, Batch, Holds
<1>8. ASSUME NEW w \in Replicas, Release(w) PROVE LockKept' /\ AloneOnMR'
  <2>1. Leave(w) /\ locked \ {mr[w]} \subseteq locked' /\ pc[w] \in Batch
    BY <1>8, <1>n DEF Release, Batch
  <2>2. pc'[w] = "scan" /\ \A v \in Replicas : v # w => (pc'[v] = pc[v] /\ mr'[v] = mr[v])
    BY <2>1 DEF Leave, GoTo, TypeOK
  <2>3. \A v \in Replicas : pc[v] \in Batch /\ v # w => mr[v] # mr[w]
    BY <1>i, <2>1 DEF AloneOnMR
  <2> QED BY <1>i, <2>1, <2>2, <2>3 DEF LockKept, AloneOnMR, Batch, Holds
<1>9. ASSUME NEW n \in MRs, LockExpires(n) PROVE LockKept' /\ AloneOnMR'
  <2>1. \A w \in Replicas : ~(pc[w] \in Batch /\ mr[w] = n)
    BY <1>9 DEF LockExpires, LockTTL
  <2> QED BY <1>9, <1>i, <2>1 DEF LockExpires, local, LockKept, AloneOnMR
<1>10. ASSUME NEW n \in MRs, QueueExpires(n) PROVE LockKept' /\ AloneOnMR'
  BY <1>10, <1>i, LockFrame DEF QueueExpires, local
<1>11. ASSUME NEW w \in Replicas, Stop(w) \/ Restart(w)
       PROVE  LockKept' /\ AloneOnMR'
  BY <1>11, <1>i, LockFrame DEF Stop, Restart, GoTo, TypeOK, redis, Batch, Holds
<1>12. CASE UNCHANGED vars
  BY <1>12, <1>i, LockFrame DEF vars, redis, local
<1> QED
  BY <1>1, <1>2, <1>3, <1>4, <1>5, <1>6, <1>7, <1>8, <1>9, <1>10, <1>11, <1>12
  DEF Next, Handler, Processor, BatchStep

\* Two replicas never run batches of the same merge request at once, for any
\* number of replicas and whatever stops or fails, as long as no batch outlives
\* the TTL of its lock and the client sends no command twice.
THEOREM MutualExclusion == Spec => []OneBatchPerMR
<1>1. Init => LockInv
  BY DEF Init, LockInv, LockKept, AloneOnMR, Batch, Holds
<1>2. LockInv => OneBatchPerMR
  BY DEF LockInv, AloneOnMR, OneBatchPerMR
<1> QED BY <1>1, <1>2, TypeInit, TypeNext, LockNext, PTL DEF Spec

-----------------------------------------------------------------------------
(* One copy of each job.  The invariant adds to OneCopy that a delivery    *)
(* still to be pushed is nowhere yet.                                      *)

NoRepeat ==
    \A m \in MRs : \A i, k \in DOMAIN queue[m] :
      queue[m][i].job = queue[m][k].job => i = k
QueuedFree ==
    \A m \in MRs : \A i \in DOMAIN queue[m] :
      \A w \in Replicas : ~HeldBy(queue[m][i].job, w)
HeldOnce ==
    \A v, w \in Replicas :
      pc[v] \in Holds /\ pc[w] \in Holds /\ held[v].job = held[w].job => v = w
NewNowhere ==
    \A j \in Jobs : hook[j] = "new" =>
      /\ \A m \in MRs : \A i \in DOMAIN queue[m] : queue[m][i].job # j
      /\ \A w \in Replicas : ~HeldBy(j, w)

Unique == NoRepeat /\ QueuedFree /\ HeldOnce /\ NewNowhere

\* The client has sent no command twice so far.
Single == Reliable \/ faults = 0

UniqueInv == Single => Unique

\* Faults are counted, so none has happened while the count is zero.
LEMMA SingleStep ==
    ASSUME TypeOK, [Next]_vars, Single'
    PROVE  Single /\ ~Fault("resent")
<1>1. CASE Reliable
  BY <1>1 DEF Single, Reliable, Fault
<1>2. CASE ~Reliable
  <2>1. faults' = 0 /\ faults \in Nat
    BY <1>2 DEF Single, Reliable, TypeOK
  <2>2. \A kind \in FaultKinds : ~Fault(kind)
    BY <2>1 DEF Fault
  <2>3. faults' = faults
    BY <2>2 DEF Next, Handler, Processor, BatchStep, FaultKinds, HookPush, HookExpire,
       Tick, EndTick, Skip, Select, Acquire, PopJob, PopNothing, PopLost, Mark, Run,
       Unmark, Requeue, Drop, Release, LockExpires, QueueExpires, ProcessingExpires,
       Stop, Restart, NoFault, used, vars
  <2> QED BY <2>1, <2>2, <2>3 DEF Single, FaultKinds
<1> QED BY <1>1, <1>2

\* Steps that add nothing to a queue, to a replica's hands or to the
\* deliveries still to come.
QueueShrinks ==
    \A m \in MRs : \A i \in DOMAIN queue'[m] :
      \E k \in DOMAIN queue[m] : queue'[m][i] = queue[m][k]
HoldsShrink ==
    \A w \in Replicas : pc'[w] \in Holds => pc[w] \in Holds /\ held'[w] = held[w]
NewShrinks == \A j \in Jobs : hook'[j] = "new" => hook[j] = "new"

\* What only takes copies away keeps every job in one place.
LEMMA UniqueFrame ==
    ASSUME Unique, NoRepeat', QueueShrinks, HoldsShrink, NewShrinks
    PROVE  Unique'
<1>1. QueuedFree'
  BY DEF Unique, QueuedFree, QueueShrinks, HoldsShrink, HeldBy
<1>2. HeldOnce'
  BY DEF Unique, HeldOnce, HoldsShrink
<1>3. NewNowhere'
  BY DEF Unique, NewNowhere, QueueShrinks, HoldsShrink, NewShrinks, HeldBy
<1> QED BY <1>1, <1>2, <1>3 DEF Unique

\* A step that leaves the lists alone takes nothing away from them.
LEMMA SameQueue ==
    ASSUME UNCHANGED queue, NoRepeat PROVE NoRepeat' /\ QueueShrinks
  BY DEF NoRepeat, QueueShrinks

\* Pushing a job that is not in the queue repeats none.
LEMMA PushUnique ==
    ASSUME TypeOK, NoRepeat, NEW m \in MRs, NEW c \in Copy,
           \A i \in DOMAIN queue[m] : queue[m][i].job # c.job,
           queue' = [queue EXCEPT ![m] = LPush(queue[m], c)]
    PROVE  /\ NoRepeat'
           /\ \A n \in MRs : \A i \in DOMAIN queue'[n] :
                \/ n = m /\ queue'[n][i] = c
                \/ \E k \in DOMAIN queue[n] : queue'[n][i] = queue[n][k]
<1>1. queue \in [MRs -> Seq(Copy)] /\ queue[m] \in Seq(Copy)
  BY DEF TypeOK
<1>2. /\ \A n \in MRs : n # m => queue'[n] = queue[n]
      /\ queue'[m] = LPush(queue[m], c)
  BY <1>1
<1>3. /\ DOMAIN LPush(queue[m], c) = 1 .. Len(queue[m]) + 1
      /\ DOMAIN queue[m] = 1 .. Len(queue[m]) /\ Len(queue[m]) \in Nat
      /\ \A i \in 1 .. Len(queue[m]) : LPush(queue[m], c)[i] = queue[m][i]
      /\ LPush(queue[m], c)[Len(queue[m]) + 1] = c
  <2>1. queue[m] \in Seq(Copy) /\ c \in Copy
    BY <1>1
  <2> QED BY <2>1 DEF LPush
<1>4. \A i \in DOMAIN queue'[m] :
        \/ i \in DOMAIN queue[m] /\ queue'[m][i] = queue[m][i]
        \/ i = Len(queue[m]) + 1 /\ queue'[m][i] = c
  BY <1>2, <1>3
<1>5. ASSUME NEW n \in MRs, NEW i \in DOMAIN queue'[n], NEW k \in DOMAIN queue'[n],
             queue'[n][i].job = queue'[n][k].job
      PROVE  i = k
  <2>1. CASE n # m
    BY <1>2, <1>5, <2>1 DEF NoRepeat
  <2>2. CASE n = m
    BY <1>4, <1>5, <2>2 DEF NoRepeat
  <2> QED BY <2>1, <2>2
<1>6. ASSUME NEW n \in MRs, NEW i \in DOMAIN queue'[n]
      PROVE  \/ n = m /\ queue'[n][i] = c
             \/ \E k \in DOMAIN queue[n] : queue'[n][i] = queue[n][k]
  BY <1>2, <1>4
<1> QED BY <1>5, <1>6 DEF NoRepeat

\* Popping leaves the popped job in no queue.
LEMMA PopUnique ==
    ASSUME TypeOK, QueuedHere, NoRepeat, NEW m \in MRs, Popped(m)
    PROVE  /\ NoRepeat' /\ QueueShrinks
           /\ 1 \in DOMAIN queue[m] /\ Head(queue[m]) = queue[m][1]
           /\ \A n \in MRs : \A i \in DOMAIN queue'[n] :
                queue'[n][i].job # Head(queue[m]).job
<1>1. /\ queue \in [MRs -> Seq(Copy)] /\ queue[m] \in Seq(Copy) /\ queue[m] # <<>>
      /\ queue' = [queue EXCEPT ![m] = RPop(queue[m])]
  BY DEF TypeOK, Popped
<1>2. /\ \A n \in MRs : n # m => queue'[n] = queue[n]
      /\ queue'[m] = RPop(queue[m])
  BY <1>1
<1>3. /\ DOMAIN RPop(queue[m]) = 1 .. Len(queue[m]) - 1
      /\ DOMAIN queue[m] = 1 .. Len(queue[m]) /\ Len(queue[m]) \in Nat \ {0}
      /\ \A i \in 1 .. Len(queue[m]) - 1 : RPop(queue[m])[i] = queue[m][i + 1]
      /\ Head(queue[m]) = queue[m][1]
  BY <1>1 DEF RPop
<1>4. \A i \in DOMAIN queue'[m] :
        i \in Nat \ {0} /\ i + 1 \in DOMAIN queue[m] /\ queue'[m][i] = queue[m][i + 1]
  BY <1>2, <1>3
<1>5. 1 \in DOMAIN queue[m]
  BY <1>3
<1>6. NoRepeat'
  <2>1. ASSUME NEW n \in MRs, NEW i \in DOMAIN queue'[n], NEW k \in DOMAIN queue'[n],
               queue'[n][i].job = queue'[n][k].job
        PROVE  i = k
    <3>1. CASE n # m
      BY <1>2, <2>1, <3>1 DEF NoRepeat
    <3>2. CASE n = m
      BY <1>4, <2>1, <3>2 DEF NoRepeat
    <3> QED BY <3>1, <3>2
  <2> QED BY <2>1 DEF NoRepeat
<1>7. QueueShrinks
  BY <1>2, <1>4 DEF QueueShrinks
<1>8. ASSUME NEW n \in MRs, NEW i \in DOMAIN queue'[n]
      PROVE  queue'[n][i].job # Head(queue[m]).job
  <2>1. CASE n # m
    BY <1>2, <1>3, <1>5, <2>1 DEF QueuedHere
  <2>2. CASE n = m
    <3>1. i + 1 # 1 /\ i + 1 \in DOMAIN queue[m] /\ queue'[n][i] = queue[m][i + 1]
      BY <1>4, <2>2
    <3> QED BY <1>3, <1>5, <3>1 DEF NoRepeat
  <2> QED BY <2>1, <2>2
<1> QED BY <1>3, <1>5, <1>6, <1>7, <1>8

\* A job stays in one place: a push needs that it is nowhere else, which a
\* delivery that has not arrived and a replica that gives its copy back know.
LEMMA UniqueNext == TypeInv /\ UniqueInv /\ [Next]_vars => UniqueInv'
<1> SUFFICES ASSUME TypeOK, Placed, Unique, ~Fault("resent"), [Next]_vars PROVE Unique'
  BY SingleStep DEF UniqueInv, TypeInv
<1>n. ~Fault("resent")
  OBVIOUS
<1>u. NoRepeat /\ QueuedHere
  BY DEF Unique, Placed
<1>1. ASSUME NEW j \in Jobs, HookPush(j) PROVE Unique'
  <2>1. /\ hook[j] = "new" /\ hook'[j] # "new" /\ NewShrinks
        /\ UNCHANGED <<pc, held>>
    BY <1>1, <1>n DEF HookPush, NewShrinks, TypeOK, local
  <2>2. CASE UNCHANGED queue
    BY <1>u, <2>1, <2>2, SameQueue, UniqueFrame DEF HoldsShrink
  <2>3. CASE queue' = [queue EXCEPT ![MROf[j]] = LPush(queue[MROf[j]], Fresh(j))]
    <3>1. Fresh(j) \in Copy /\ Fresh(j).job = j /\ MROf[j] \in MRs
      BY AttemptsAssumption, MROfAssumption DEF Fresh, Copy
    <3>2. \A i \in DOMAIN queue[MROf[j]] : queue[MROf[j]][i].job # Fresh(j).job
      BY <2>1, <3>1 DEF Unique, NewNowhere
    <3>3. /\ NoRepeat'
          /\ \A n \in MRs : \A i \in DOMAIN queue'[n] :
               \/ queue'[n][i] = Fresh(j)
               \/ \E k \in DOMAIN queue[n] : queue'[n][i] = queue[n][k]
      BY <1>u, <2>3, <3>1, <3>2, PushUnique
    <3>4. QueuedFree'
      BY <2>1, <3>1, <3>3 DEF Unique, QueuedFree, NewNowhere, HeldBy
    <3>5. HeldOnce'
      BY <2>1 DEF Unique, HeldOnce
    <3>6. NewNowhere'
      BY <2>1, <3>1, <3>3 DEF Unique, NewNowhere, NewShrinks, HeldBy
    <3> QED BY <3>3, <3>4, <3>5, <3>6 DEF Unique
  <2> QED BY <1>1, <2>2, <2>3 DEF HookPush
<1>2. ASSUME NEW j \in Jobs, HookExpire(j) PROVE Unique'
  <2>1. NewShrinks /\ HoldsShrink /\ UNCHANGED queue
    BY <1>2 DEF HookExpire, NewShrinks, HoldsShrink, TypeOK, local
  <2> QED BY <1>u, <2>1, SameQueue, UniqueFrame
<1>3. ASSUME NEW w \in Replicas,
             \/ Tick(w) \/ EndTick(w) \/ Acquire(w) \/ PopNothing(w) \/ Release(w)
             \/ \E n \in MRs : Skip(w, n) \/ Select(w, n)
      PROVE  Unique'
  <2>1. UNCHANGED <<queue, hook, held>>
    BY <1>3 DEF Tick, EndTick, Skip, Select, Acquire, PopNothing, Release, redis
  <2>2. HoldsShrink
    BY <1>3 DEF Tick, EndTick, Skip, Select, Acquire, PopNothing, Release, Leave,
                GoTo, HoldsShrink, TypeOK, Holds
  <2> QED BY <1>u, <2>1, <2>2, SameQueue, UniqueFrame DEF NewShrinks
<1>4. ASSUME NEW w \in Replicas, PopJob(w) PROVE Unique'
  <2>1. mr[w] \in MRs /\ Popped(mr[w]) /\ UNCHANGED hook
    BY <1>4 DEF PopJob, Placed, OnBatch, Batch
  <2> DEFINE c == Head(queue[mr[w]])
  <2>2. /\ NoRepeat' /\ QueueShrinks
        /\ 1 \in DOMAIN queue[mr[w]] /\ c = queue[mr[w]][1]
        /\ \A n \in MRs : \A i \in DOMAIN queue'[n] : queue'[n][i].job # c.job
    BY <1>u, <2>1, PopUnique
  <2>3. /\ pc'[w] \in Holds /\ held'[w] = c
        /\ \A v \in Replicas : v # w => (pc'[v] = pc[v] /\ held'[v] = held[v])
    BY <1>4 DEF PopJob, GoTo, TypeOK, Holds
  <2>4. \A v \in Replicas : ~HeldBy(c.job, v)
    BY <2>1, <2>2 DEF Unique, QueuedFree
  <2>5. \A j \in Jobs : hook[j] = "new" => c.job # j
    BY <2>1, <2>2 DEF Unique, NewNowhere
  <2> HIDE DEF c
  <2>6. QueuedFree'
    BY <2>2, <2>3 DEF Unique, QueuedFree, QueueShrinks, HeldBy
  <2>7. HeldOnce'
    BY <2>3, <2>4 DEF Unique, HeldOnce, HeldBy
  <2>8. NewNowhere'
    BY <2>1, <2>2, <2>3, <2>5 DEF Unique, NewNowhere, QueueShrinks, HeldBy
  <2> QED BY <2>2, <2>6, <2>7, <2>8 DEF Unique
<1>5. ASSUME NEW w \in Replicas, PopLost(w) PROVE Unique'
  <2>1. mr[w] \in MRs /\ Popped(mr[w]) /\ UNCHANGED <<hook, held>>
    BY <1>5 DEF PopLost, Placed, OnBatch, Batch
  <2>2. HoldsShrink
    BY <1>5 DEF PopLost, HoldsShrink, GoTo, TypeOK, Holds
  <2> QED BY <1>u, <2>1, <2>2, PopUnique, UniqueFrame DEF NewShrinks
<1>6. ASSUME NEW w \in Replicas, Mark(w) \/ Run(w) \/ Unmark(w) \/ Drop(w)
      PROVE  Unique'
  <2>1. UNCHANGED <<queue, hook>>
    BY <1>6 DEF Mark, Run, Unmark, Drop, redis
  <2>2. HoldsShrink
    BY <1>6 DEF Mark, Run, Unmark, Drop, NextJob, GoTo, HoldsShrink, TypeOK, Holds
  <2> QED BY <1>u, <2>1, <2>2, SameQueue, UniqueFrame DEF NewShrinks
<1>7. ASSUME NEW w \in Replicas, Requeue(w) PROVE Unique'
  <2> DEFINE next == [job |-> held[w].job, attempts |-> held[w].attempts + 1]
  <2>1. /\ held[w] \in Copy /\ mr[w] \in MRs /\ HeldBy(held[w].job, w)
        /\ UNCHANGED hook
    BY <1>7 DEF Requeue, Placed, OnBatch, Holds, Batch, HeldBy
  <2>2. /\ HoldsShrink /\ pc'[w] \notin Holds
        /\ \A v \in Replicas : v # w => (pc'[v] = pc[v] /\ held'[v] = held[v])
    BY <1>7, <1>n DEF Requeue, NextJob, GoTo, HoldsShrink, TypeOK, Holds
  <2>3. CASE UNCHANGED queue
    BY <1>u, <2>1, <2>2, <2>3, SameQueue, UniqueFrame DEF NewShrinks
  <2>4. CASE queue' = [queue EXCEPT ![mr[w]] = LPush(queue[mr[w]], next)]
    <3>1. next \in Copy /\ next.job = held[w].job
      BY <1>7, <2>1, AttemptsAssumption DEF Requeue, MayRetry, Copy
    <3>2. \A i \in DOMAIN queue[mr[w]] : queue[mr[w]][i].job # next.job
      BY <2>1, <3>1 DEF Unique, QueuedFree
    <3> HIDE DEF next
    <3>3. /\ NoRepeat'
          /\ \A n \in MRs : \A i \in DOMAIN queue'[n] :
               \/ n = mr[w] /\ queue'[n][i] = next
               \/ \E k \in DOMAIN queue[n] : queue'[n][i] = queue[n][k]
      BY <1>u, <2>1, <2>4, <3>1, <3>2, PushUnique
    <3>4. \A v \in Replicas : pc'[v] \in Holds => held'[v].job # next.job
      BY <2>1, <2>2, <3>1 DEF Unique, HeldOnce, HoldsShrink, HeldBy
    <3>5. QueuedFree'
      BY <2>2, <3>3, <3>4 DEF Unique, QueuedFree, HoldsShrink, HeldBy
    <3>6. HeldOnce'
      BY <2>2 DEF Unique, HeldOnce, HoldsShrink
    <3>7. \A j \in Jobs : hook[j] = "new" => next.job # j
      BY <2>1, <3>1 DEF Unique, NewNowhere
    <3>8. NewNowhere'
      BY <2>1, <2>2, <3>3, <3>7 DEF Unique, NewNowhere, HoldsShrink, HeldBy
    <3> QED BY <3>3, <3>5, <3>6, <3>8 DEF Unique
  <2> QED BY <1>7, <2>3, <2>4 DEF Requeue
<1>8. ASSUME NEW n \in MRs, LockExpires(n) PROVE Unique'
  BY <1>8, <1>u, SameQueue, UniqueFrame DEF LockExpires, local, HoldsShrink, NewShrinks
<1>9. ASSUME NEW n \in MRs, QueueExpires(n) PROVE Unique'
  <2>1. \A k \in MRs : queue'[k] = IF k = n THEN <<>> ELSE queue[k]
    BY <1>9 DEF QueueExpires, TypeOK
  <2>2. NoRepeat' /\ QueueShrinks
    BY <1>u, <2>1 DEF NoRepeat, QueueShrinks
  <2>3. HoldsShrink /\ NewShrinks
    BY <1>9 DEF QueueExpires, local, HoldsShrink, NewShrinks
  <2> QED BY <2>2, <2>3, UniqueFrame
<1>10. ASSUME NEW j \in Jobs, ProcessingExpires(j) PROVE Unique'
  BY <1>10, <1>u, SameQueue, UniqueFrame
  DEF ProcessingExpires, local, HoldsShrink, NewShrinks
<1>11. ASSUME NEW w \in Replicas, Stop(w) \/ Restart(w) PROVE Unique'
  <2>1. UNCHANGED <<queue, hook>>
    BY <1>11 DEF Stop, Restart, redis
  <2>2. HoldsShrink
    BY <1>11 DEF Stop, Restart, GoTo, HoldsShrink, TypeOK, Holds
  <2> QED BY <1>u, <2>1, <2>2, SameQueue, UniqueFrame DEF NewShrinks
<1>12. CASE UNCHANGED vars
  BY <1>12, <1>u, SameQueue, UniqueFrame
  DEF vars, redis, local, HoldsShrink, NewShrinks
<1> QED
  BY <1>1, <1>2, <1>3, <1>4, <1>5, <1>6, <1>7, <1>8, <1>9, <1>10, <1>11, <1>12
  DEF Next, Handler, Processor, BatchStep

\* At the start every job is still to be delivered.
LEMMA UniqueInit == Init => UniqueInv
  BY DEF Init, UniqueInv, Unique, NoRepeat, QueuedFree, HeldOnce, NewNowhere,
         HeldBy, Holds

\* A job is never in two places, whatever becomes of the locks.
THEOREM OneCopyAlways == Spec => []OneCopy
<1>1. TypeInv /\ UniqueInv => OneCopy
  BY DEF TypeInv, Placed, QueuedHere, UniqueInv, Single, Unique, NoRepeat, QueuedFree,
         HeldOnce, OneCopy, HeldBy
<1> QED BY <1>1, TypeInit, TypeNext, UniqueInit, UniqueNext, PTL DEF Spec

-----------------------------------------------------------------------------
(* The attempts written in a copy agree with the runs of its job, and a    *)
(* job that is queued or held is still live.                               *)

BookedQueue ==
    \A m \in MRs : \A i \in DOMAIN queue[m] :
      /\ runs[queue[m][i].job] = queue[m][i].attempts
      /\ fate[queue[m][i].job] = "live"
BookedHeld ==
    \A w \in Replicas :
      /\ pc[w] \in {"mark", "run"} =>
           runs[held[w].job] = held[w].attempts /\ fate[held[w].job] = "live"
      /\ pc[w] = "retry" =>
           runs[held[w].job] = held[w].attempts + 1 /\ fate[held[w].job] = "live"
      /\ pc[w] = "unmark" => fate[held[w].job] = "done"
BookedNew == \A j \in Jobs : hook[j] = "new" => runs[j] = 0 /\ fate[j] = "new"
BookedRuns == \A j \in Jobs : runs[j] <= MaxAttempts

Books == BookedQueue /\ BookedHeld /\ BookedNew /\ BookedRuns
BooksInv == Single => Books

\* A step that takes the jobs in T out of every queue and every hand, and
\* settles no other, keeps the books.
LEMMA BooksFrame ==
    ASSUME TypeOK, Placed, Books, QueueShrinks, NewShrinks, NEW T \in SUBSET Jobs,
           \A w \in Replicas : pc'[w] \in Holds =>
             /\ held'[w] = held[w] /\ held[w].job \notin T
             /\ pc'[w] = pc[w] \/ (pc[w] = "mark" /\ pc'[w] = "run"),
           \A m \in MRs : \A i \in DOMAIN queue'[m] : queue'[m][i].job \notin T,
           \A j \in T : hook[j] # "new",
           \A j \in Jobs \ T : fate'[j] = fate[j],
           UNCHANGED runs
    PROVE  Books'
<1>1. queue \in [MRs -> Seq(Copy)]
  BY DEF TypeOK
<1>2. \A m \in MRs : \A i \in DOMAIN queue[m] : queue[m][i].job \in Jobs
  <2>1. ASSUME NEW m \in MRs, NEW i \in DOMAIN queue[m] PROVE queue[m][i] \in Copy
    BY <1>1
  <2> QED BY <2>1 DEF Copy
<1>3. BookedQueue'
  BY <1>2 DEF Books, BookedQueue, QueueShrinks
<1>4. \A w \in Replicas : pc[w] \in Holds => held[w].job \in Jobs
  BY DEF Placed, OnBatch, Copy
<1>5. BookedHeld'
  BY <1>4 DEF Books, BookedHeld, Holds
<1>6. BookedNew'
  BY DEF Books, BookedNew, NewShrinks
<1>7. BookedRuns'
  BY DEF Books, BookedRuns
<1> QED BY <1>3, <1>5, <1>6, <1>7 DEF Books

\* A step that neither moves a job nor counts one keeps the books.
LEMMA BooksSame ==
    ASSUME TypeOK, Placed, Books, UNCHANGED <<queue, fate, runs>>, NewShrinks,
           \A w \in Replicas : pc'[w] \in Holds =>
             /\ held'[w] = held[w]
             /\ pc'[w] = pc[w] \/ (pc[w] = "mark" /\ pc'[w] = "run")
    PROVE  Books'
<1>1. QueueShrinks
  BY DEF QueueShrinks
<1>2. {} \in SUBSET Jobs /\ \A j \in Jobs \ {} : fate'[j] = fate[j]
  OBVIOUS
<1> QED BY <1>1, <1>2, BooksFrame

\* The attempts a copy carries and the runs its job has had are counted in
\* step: a run counts both, or a retry counts what the run before it left open.
LEMMA BooksNext == TypeInv /\ UniqueInv /\ BooksInv /\ [Next]_vars => BooksInv'
<1> SUFFICES ASSUME TypeOK, Placed, Unique, Books, ~Fault("resent"), [Next]_vars
             PROVE  Books'
  BY SingleStep DEF UniqueInv, BooksInv, TypeInv
<1>n. ~Fault("resent")
  OBVIOUS
<1>u. NoRepeat /\ QueuedHere
  BY DEF Unique, Placed
<1>h. \A w \in Replicas : pc[w] \in Holds =>
        /\ held[w] \in Copy /\ held[w].job \in Jobs /\ mr[w] \in MRs
        /\ held[w].attempts \in 0 .. MaxAttempts - 1
        /\ hook[held[w].job] # "new"
  BY DEF Placed, OnBatch, Copy, Holds, Batch, Unique, NewNowhere, HeldBy
<1>q. \A m \in MRs : \A i \in DOMAIN queue[m] : queue[m][i].job \in Jobs
  <2>1. queue \in [MRs -> Seq(Copy)]
    BY DEF TypeOK
  <2>2. ASSUME NEW m \in MRs, NEW i \in DOMAIN queue[m] PROVE queue[m][i] \in Copy
    BY <2>1
  <2> QED BY <2>2 DEF Copy
<1>e. \A w \in Replicas : pc[w] \in Holds =>
        /\ \A v \in Replicas : v # w /\ pc[v] \in Holds => held[v].job # held[w].job
        /\ \A m \in MRs : \A i \in DOMAIN queue[m] : queue[m][i].job # held[w].job
  BY DEF Unique, HeldOnce, QueuedFree, HeldBy
<1>1. ASSUME NEW j \in Jobs, HookPush(j) PROVE Books'
  <2>1. /\ hook[j] = "new" /\ hook'[j] # "new" /\ NewShrinks
        /\ UNCHANGED <<pc, held, runs>>
        /\ \A i \in Jobs \ {j} : fate'[i] = fate[i]
    BY <1>1, <1>n DEF HookPush, NewShrinks, TypeOK, local, Arrives, Settle
  <2>2. /\ runs[j] = 0
        /\ \A w \in Replicas : pc[w] \in Holds => held[w].job # j
        /\ \A m \in MRs : \A i \in DOMAIN queue[m] : queue[m][i].job # j
    BY <2>1 DEF Books, BookedNew, Unique, NewNowhere, HeldBy
  <2>3. BookedHeld'
    BY <1>h, <2>1, <2>2 DEF Books, BookedHeld, Holds
  <2>4. BookedNew' /\ BookedRuns'
    BY <2>1 DEF Books, BookedNew, BookedRuns, NewShrinks
  <2>5. CASE UNCHANGED queue
    <3>1. BookedQueue'
      BY <1>q, <2>1, <2>2, <2>5 DEF Books, BookedQueue
    <3> QED BY <2>3, <2>4, <3>1 DEF Books
  <2>6. CASE /\ queue' = [queue EXCEPT ![MROf[j]] = LPush(queue[MROf[j]], Fresh(j))]
             /\ fate' = [fate EXCEPT ![j] = "live"]
    <3>1. /\ Fresh(j) \in Copy /\ Fresh(j).job = j /\ Fresh(j).attempts = 0
          /\ MROf[j] \in MRs
      BY AttemptsAssumption, MROfAssumption DEF Fresh, Copy
    <3>5. fate'[j] = "live"
      BY <2>6 DEF TypeOK
    <3>2. \A i \in DOMAIN queue[MROf[j]] : queue[MROf[j]][i].job # Fresh(j).job
      BY <2>2, <3>1
    <3>3. \A n \in MRs : \A i \in DOMAIN queue'[n] :
               \/ n = MROf[j] /\ queue'[n][i] = Fresh(j)
               \/ \E k \in DOMAIN queue[n] : queue'[n][i] = queue[n][k]
      BY <1>u, <2>6, <3>1, <3>2, PushUnique
    <3>4. BookedQueue'
      BY <1>q, <2>1, <2>2, <3>1, <3>3, <3>5 DEF Books, BookedQueue
    <3> QED BY <2>3, <2>4, <3>4 DEF Books
  <2> QED BY <1>1, <2>5, <2>6 DEF HookPush, Arrives, Settle
<1>2. ASSUME NEW j \in Jobs, HookExpire(j) PROVE Books'
  <2>1. NewShrinks /\ UNCHANGED <<queue, pc, held, fate, runs>>
    BY <1>2 DEF HookExpire, NewShrinks, TypeOK, local, history
  <2> QED BY <2>1, BooksSame
<1>3. ASSUME NEW w \in Replicas,
             \/ Tick(w) \/ EndTick(w) \/ Acquire(w) \/ PopNothing(w) \/ Release(w)
             \/ Mark(w) \/ Unmark(w) \/ Restart(w)
             \/ \E n \in MRs : Skip(w, n) \/ Select(w, n)
      PROVE  Books'
  <2>1. UNCHANGED <<queue, hook, fate, runs>>
    BY <1>3 DEF Tick, EndTick, Skip, Select, Acquire, PopNothing, Release, Mark,
                Unmark, Restart, redis, history
  <2>2. \A v \in Replicas : pc'[v] \in Holds =>
          /\ held'[v] = held[v]
          /\ pc'[v] = pc[v] \/ (pc[v] = "mark" /\ pc'[v] = "run")
    BY <1>3 DEF Tick, EndTick, Skip, Select, Acquire, PopNothing, Release, Mark,
                Unmark, Restart, NextJob, Leave, GoTo, TypeOK, Holds
  <2> QED BY <2>1, <2>2, BooksSame DEF NewShrinks
<1>4. ASSUME NEW w \in Replicas, PopJob(w) PROVE Books'
  <2>1. mr[w] \in MRs /\ Popped(mr[w]) /\ UNCHANGED <<hook, fate, runs>>
    BY <1>4 DEF PopJob, Placed, OnBatch, Batch, history
  <2>2. /\ QueueShrinks
        /\ 1 \in DOMAIN queue[mr[w]] /\ Head(queue[mr[w]]) = queue[mr[w]][1]
    BY <1>u, <2>1, PopUnique
  <2>3. /\ pc'[w] = "mark" /\ held'[w] = queue[mr[w]][1]
        /\ \A v \in Replicas : v # w => (pc'[v] = pc[v] /\ held'[v] = held[v])
    BY <1>4, <2>2 DEF PopJob, GoTo, TypeOK
  <2>4. BookedQueue'
    BY <2>1, <2>2 DEF Books, BookedQueue, QueueShrinks
  <2>5. BookedHeld'
    BY <2>1, <2>2, <2>3 DEF Books, BookedQueue, BookedHeld
  <2> QED BY <2>1, <2>4, <2>5 DEF Books, BookedNew, BookedRuns
<1>5. ASSUME NEW w \in Replicas, PopLost(w) PROVE Books'
  <2>1. /\ mr[w] \in MRs /\ Popped(mr[w]) /\ UNCHANGED <<hook, held, runs>>
        /\ \A v \in Replicas : pc'[v] \in Holds => pc'[v] = pc[v]
        /\ fate' = [fate EXCEPT ![Head(queue[mr[w]]).job] = "lost"]
    BY <1>5 DEF PopLost, Placed, OnBatch, Batch, Holds, GoTo, Settle, TypeOK
  <2>2. /\ QueueShrinks
        /\ 1 \in DOMAIN queue[mr[w]] /\ Head(queue[mr[w]]) = queue[mr[w]][1]
        /\ \A n \in MRs : \A i \in DOMAIN queue'[n] :
             queue'[n][i].job # Head(queue[mr[w]]).job
    BY <1>u, <2>1, PopUnique
  <2> DEFINE t == queue[mr[w]][1].job
  <2>3. /\ t \in Jobs /\ hook[t] # "new"
        /\ \A v \in Replicas : pc[v] \in Holds => held[v].job # t
    BY <1>q, <2>1, <2>2 DEF Unique, QueuedFree, NewNowhere, HeldBy
  <2>4. \A j \in Jobs \ {t} : fate'[j] = fate[j]
    BY <2>1, <2>2 DEF TypeOK
  <2>5. \A n \in MRs : \A i \in DOMAIN queue'[n] : queue'[n][i].job \notin {t}
    BY <2>2
  <2> HIDE DEF t
  <2>6. {t} \in SUBSET Jobs
    BY <2>3
  <2> QED BY <2>1, <2>2, <2>3, <2>4, <2>5, <2>6, BooksFrame DEF NewShrinks
<1>6. ASSUME NEW w \in Replicas, Run(w) PROVE Books'
  <2> DEFINE t == held[w].job
  <2>1. /\ pc[w] = "run" /\ t \in Jobs /\ UNCHANGED <<queue, hook, held>>
        /\ pc'[w] = "unmark" \/ pc'[w] = "retry"
        /\ \A v \in Replicas : v # w => pc'[v] = pc[v]
    BY <1>6, <1>h DEF Run, GoTo, TypeOK, redis, Holds
  <2>2. /\ runs' = [runs EXCEPT ![t] = runs[t] + 1]
        /\ pc'[w] = "unmark" => fate' = [fate EXCEPT ![t] = "done"]
        /\ pc'[w] = "retry" => fate' = fate
    BY <1>6 DEF Run, GoTo, Settle, TypeOK
  <2>3. /\ \A j \in Jobs \ {t} : runs'[j] = runs[j] /\ fate'[j] = fate[j]
        /\ runs'[t] = runs[t] + 1
        /\ pc'[w] = "unmark" => fate'[t] = "done"
        /\ pc'[w] = "retry" => fate'[t] = fate[t]
    BY <2>1, <2>2 DEF TypeOK
  <2>4. /\ runs[t] = held[w].attempts /\ fate[t] = "live"
        /\ held[w].attempts \in 0 .. MaxAttempts - 1
    BY <1>h, <2>1 DEF Books, BookedHeld, Holds
  <2>5. /\ \A v \in Replicas : v # w /\ pc[v] \in Holds => held[v].job # t
        /\ \A m \in MRs : \A i \in DOMAIN queue[m] : queue[m][i].job # t
        /\ hook[t] # "new"
    BY <1>e, <1>h, <2>1 DEF Holds
  <2> HIDE DEF t
  <2>6. BookedQueue'
    BY <1>q, <2>1, <2>3, <2>5 DEF Books, BookedQueue
  <2>7. ASSUME NEW v \in Replicas, v # w
        PROVE  /\ pc'[v] \in {"mark", "run"} =>
                    runs'[held'[v].job] = held'[v].attempts /\ fate'[held'[v].job] = "live"
               /\ pc'[v] = "retry" =>
                    runs'[held'[v].job] = held'[v].attempts + 1 /\ fate'[held'[v].job] = "live"
               /\ pc'[v] = "unmark" => fate'[held'[v].job] = "done"
    BY <1>h, <2>1, <2>3, <2>5, <2>7 DEF Books, BookedHeld, Holds
  <2>8. BookedHeld'
    BY <2>1, <2>3, <2>4, <2>7 DEF BookedHeld, t
  <2>9. BookedNew'
    BY <2>1, <2>3, <2>5 DEF Books, BookedNew
  <2>10. BookedRuns'
    BY <2>1, <2>3, <2>4, AttemptsAssumption DEF Books, BookedRuns
  <2> QED BY <2>6, <2>8, <2>9, <2>10 DEF Books
<1>7. ASSUME NEW w \in Replicas, Drop(w) PROVE Books'
  <2> DEFINE t == held[w].job
  <2>1. /\ t \in Jobs /\ hook[t] # "new" /\ UNCHANGED <<queue, hook, runs>>
        /\ \A v \in Replicas : v # w /\ pc[v] \in Holds => held[v].job # t
        /\ \A m \in MRs : \A i \in DOMAIN queue[m] : queue[m][i].job # t
    BY <1>7, <1>e, <1>h DEF Drop, Holds
  <2>2. /\ pc'[w] = "pop"
        /\ \A v \in Replicas : v # w => (pc'[v] = pc[v] /\ held'[v] = held[v])
        /\ \A j \in Jobs \ {t} : fate'[j] = fate[j]
    BY <1>7 DEF Drop, NextJob, GoTo, Settle, TypeOK
  <2> HIDE DEF t
  <2>3. {t} \in SUBSET Jobs /\ "pop" \notin Holds
    BY <2>1 DEF Holds
  <2> QED BY <1>u, <2>1, <2>2, <2>3, SameQueue, BooksFrame DEF NewShrinks
<1>8. ASSUME NEW w \in Replicas, Requeue(w) PROVE Books'
  <2> DEFINE next == [job |-> held[w].job, attempts |-> held[w].attempts + 1]
             t == held[w].job
  <2>1. /\ pc[w] = "retry" /\ mr[w] \in MRs /\ t \in Jobs /\ hook[t] # "new"
        /\ UNCHANGED <<hook, runs>>
        /\ \A v \in Replicas : v # w /\ pc[v] \in Holds => held[v].job # t
        /\ \A m \in MRs : \A i \in DOMAIN queue[m] : queue[m][i].job # t
    BY <1>8, <1>e, <1>h DEF Requeue, Holds
  <2>2. /\ pc'[w] = "pop"
        /\ \A v \in Replicas : v # w => (pc'[v] = pc[v] /\ held'[v] = held[v])
    BY <1>8, <1>n DEF Requeue, NextJob, GoTo, TypeOK
  <2>3. CASE UNCHANGED queue /\ fate' = [fate EXCEPT ![t] = "lost"]
    <3>1. \A j \in Jobs \ {t} : fate'[j] = fate[j]
      BY <2>3 DEF TypeOK
    <3> HIDE DEF t
    <3>2. {t} \in SUBSET Jobs
      BY <2>1
    <3>3. \A v \in Replicas : pc'[v] \in Holds =>
            held'[v] = held[v] /\ held[v].job \notin {t} /\ pc'[v] = pc[v]
      BY <2>1, <2>2 DEF Holds
    <3>4. QueueShrinks /\ NewShrinks /\ UNCHANGED <<hook, runs>>
      BY <1>u, <2>1, <2>3, SameQueue DEF NewShrinks
    <3>5. \A m \in MRs : \A i \in DOMAIN queue'[m] : queue'[m][i].job \notin {t}
      BY <2>1, <2>3
    <3>6. \A j \in {t} : hook[j] # "new"
      BY <2>1
    <3> QED BY <3>1, <3>2, <3>3, <3>4, <3>5, <3>6, BooksFrame
  <2>4. CASE /\ queue' = [queue EXCEPT ![mr[w]] = LPush(queue[mr[w]], next)]
             /\ UNCHANGED fate
    <3>1. next \in Copy /\ next.job = t /\ next.attempts = held[w].attempts + 1
      BY <1>8, <1>h, AttemptsAssumption DEF Requeue, MayRetry, Copy, Holds
    <3>2. runs[t] = next.attempts /\ fate[t] = "live"
      BY <2>1, <3>1 DEF Books, BookedHeld
    <3> HIDE DEF next, t
    <3>3. \A i \in DOMAIN queue[mr[w]] : queue[mr[w]][i].job # next.job
      BY <2>1, <3>1
    <3>4. \A n \in MRs : \A i \in DOMAIN queue'[n] :
            \/ n = mr[w] /\ queue'[n][i] = next
            \/ \E k \in DOMAIN queue[n] : queue'[n][i] = queue[n][k]
      BY <1>u, <2>1, <2>4, <3>1, <3>3, PushUnique
    <3>5. BookedQueue'
      BY <2>1, <2>4, <3>1, <3>2, <3>4 DEF Books, BookedQueue
    <3>6. BookedHeld'
      BY <2>1, <2>2, <2>4 DEF Books, BookedHeld
    <3> QED BY <2>1, <2>4, <3>5, <3>6 DEF Books, BookedNew, BookedRuns
  <2> QED BY <1>8, <1>n, <2>3, <2>4 DEF Requeue, Settle
<1>9. ASSUME NEW n \in MRs, LockExpires(n) PROVE Books'
  BY <1>9, BooksSame DEF LockExpires, local, history, NewShrinks
<1>10. ASSUME NEW n \in MRs, QueueExpires(n) PROVE Books'
  <2> DEFINE T == {j \in Jobs : \E i \in DOMAIN queue[n] : queue[n][i].job = j}
  <2>1. \A k \in MRs : queue'[k] = IF k = n THEN <<>> ELSE queue[k]
    BY <1>10 DEF QueueExpires, TypeOK
  <2>2. QueueShrinks
    BY <2>1 DEF QueueShrinks
  <2>3. /\ UNCHANGED <<pc, held, hook, runs>>
        /\ \A j \in Jobs \ T : fate'[j] = fate[j]
    BY <1>10 DEF QueueExpires, local
  <2>4. /\ \A j \in T : hook[j] # "new"
        /\ \A w \in Replicas : pc[w] \in Holds => held[w].job \notin T
    BY <1>e DEF Unique, NewNowhere
  <2>5. \A m \in MRs : \A i \in DOMAIN queue'[m] : queue'[m][i].job \notin T
    BY <1>u, <2>1 DEF QueuedHere
  <2>6. T \in SUBSET Jobs
    OBVIOUS
  <2> HIDE DEF T
  <2> QED BY <2>2, <2>3, <2>4, <2>5, <2>6, BooksFrame DEF NewShrinks
<1>11. ASSUME NEW j \in Jobs, ProcessingExpires(j) PROVE Books'
  BY <1>11, BooksSame DEF ProcessingExpires, local, history, NewShrinks
<1>12. ASSUME NEW w \in Replicas, Stop(w) PROVE Books'
  <2> DEFINE T == IF pc[w] \in Holds THEN {held[w].job} ELSE {}
  <2>1. /\ UNCHANGED <<queue, hook, runs>> /\ pc'[w] = "down"
        /\ \A v \in Replicas : v # w => (pc'[v] = pc[v] /\ held'[v] = held[v])
    BY <1>12 DEF Stop, TypeOK, redis
  <2>2. \A j \in Jobs \ T : fate'[j] = fate[j]
    BY <1>12 DEF Stop, Settle, TypeOK
  <2>3. /\ T \in SUBSET Jobs
        /\ \A j \in T : hook[j] # "new"
        /\ \A v \in Replicas : v # w /\ pc[v] \in Holds => held[v].job \notin T
        /\ \A m \in MRs : \A i \in DOMAIN queue[m] : queue[m][i].job \notin T
    BY <1>e, <1>h
  <2> HIDE DEF T
  <2>4. "down" \notin Holds
    BY DEF Holds
  <2> QED BY <1>u, <2>1, <2>2, <2>3, <2>4, SameQueue, BooksFrame DEF NewShrinks
<1>13. CASE UNCHANGED vars
  BY <1>13, BooksSame DEF vars, redis, local, history, NewShrinks
<1> QED
  BY <1>1, <1>2, <1>3, <1>4, <1>5, <1>6, <1>7, <1>8, <1>9, <1>10, <1>11, <1>12,
     <1>13
  DEF Next, Handler, Processor, BatchStep

\* At the start nothing has been counted.
LEMMA BooksInit == Init => BooksInv
  BY AttemptsAssumption DEF Init, BooksInv, Books, BookedQueue, BookedHeld,
     BookedNew, BookedRuns

\* A job is run at most MaxAttempts times, by whichever replicas.
THEOREM AttemptsBounded == Spec => []AttemptBound
<1>1. BooksInv => AttemptBound
  BY DEF BooksInv, Single, Books, BookedRuns, AttemptBound
<1> QED BY <1>1, TypeInit, TypeNext, UniqueInit, UniqueNext, BooksInit, BooksNext,
           PTL DEF Spec

-----------------------------------------------------------------------------
(* What is settled stays settled.                                          *)

FinalKept == \A j \in Jobs : fate[j] \in Final => fate'[j] = fate[j] /\ runs'[j] = runs[j]

\* A step that touches one job only, and that a live or a new one.
LEMMA FinalFrame ==
    ASSUME TypeOK, NEW t \in Jobs, fate[t] \in {"new", "live"},
           \A j \in Jobs \ {t} : fate'[j] = fate[j] /\ runs'[j] = runs[j]
    PROVE  FinalKept
  BY DEF FinalKept, Final

\* A step settles live jobs only, and runs none that is settled.
LEMMA FinalNext ==
    TypeInv /\ UniqueInv /\ BooksInv /\ [Next]_vars => (Reliable => FinalKept)
<1> SUFFICES ASSUME TypeOK, Placed, Unique, Books, Reliable, [Next]_vars PROVE FinalKept
  BY DEF UniqueInv, BooksInv, Single, TypeInv
<1>n. ~Fault("resent")
  BY DEF Reliable, Fault
<1>h. \A w \in Replicas : pc[w] \in Holds \ {"unmark"} =>
        held[w].job \in Jobs /\ fate[held[w].job] = "live"
  BY DEF Placed, OnBatch, Copy, Holds, Books, BookedHeld
<1>1. ASSUME NEW j \in Jobs, HookPush(j) PROVE FinalKept
  <2>1. fate[j] = "new" /\ \A i \in Jobs \ {j} : fate'[i] = fate[i] /\ runs'[i] = runs[i]
    BY <1>1 DEF HookPush, Arrives, Settle, TypeOK, Books, BookedNew
  <2> QED BY <2>1, FinalFrame
<1>2. ASSUME \/ \E j \in Jobs : HookExpire(j) \/ ProcessingExpires(j)
             \/ \E m \in MRs : LockExpires(m)
             \/ UNCHANGED vars
      PROVE  FinalKept
  BY <1>2 DEF HookExpire, ProcessingExpires, LockExpires, vars, history, FinalKept
<1>3. ASSUME NEW w \in Replicas,
             \/ Tick(w) \/ EndTick(w) \/ Acquire(w) \/ PopJob(w) \/ PopNothing(w)
             \/ Mark(w) \/ Unmark(w) \/ Release(w) \/ Restart(w)
             \/ \E n \in MRs : Skip(w, n) \/ Select(w, n)
      PROVE  FinalKept
  BY <1>3 DEF Tick, EndTick, Skip, Select, Acquire, PopJob, PopNothing, Mark, Unmark,
              Release, Restart, history, FinalKept
<1>4. ASSUME NEW w \in Replicas, PopLost(w) PROVE FinalKept
  <2>1. mr[w] \in MRs /\ Popped(mr[w]) /\ NoRepeat /\ QueuedHere
    BY <1>4 DEF PopLost, Placed, OnBatch, Batch, Unique
  <2>2. 1 \in DOMAIN queue[mr[w]] /\ Head(queue[mr[w]]) = queue[mr[w]][1]
    BY <2>1, PopUnique
  <2>3. fate[Head(queue[mr[w]]).job] = "live"
    BY <2>1, <2>2 DEF Books, BookedQueue
  <2>4. Head(queue[mr[w]]).job \in Jobs
    BY <2>1, PopHere DEF Copy
  <2>5. \A j \in Jobs \ {Head(queue[mr[w]]).job} : fate'[j] = fate[j] /\ runs'[j] = runs[j]
    BY <1>4 DEF PopLost, Settle, TypeOK
  <2> QED BY <2>3, <2>4, <2>5, FinalFrame
<1>5. ASSUME NEW w \in Replicas, Run(w) \/ Requeue(w) \/ Drop(w) PROVE FinalKept
  <2>1. held[w].job \in Jobs /\ fate[held[w].job] = "live"
    BY <1>5, <1>h DEF Run, Requeue, Drop, Holds
  <2>2. \A j \in Jobs \ {held[w].job} : fate'[j] = fate[j] /\ runs'[j] = runs[j]
    BY <1>5 DEF Run, Requeue, Drop, Settle, TypeOK
  <2> QED BY <2>1, <2>2, FinalFrame
<1>6. ASSUME NEW n \in MRs, QueueExpires(n) PROVE FinalKept
  BY <1>6 DEF QueueExpires, FinalKept, Final, Books, BookedQueue
<1>7. ASSUME NEW w \in Replicas, Stop(w) PROVE FinalKept
  <2>1. CASE pc[w] \in Holds \ {"unmark"} /\ Settle(held[w].job, "lost")
    <3>1. \A j \in Jobs \ {held[w].job} : fate'[j] = fate[j] /\ runs'[j] = runs[j]
      BY <1>7, <2>1 DEF Stop, Settle, TypeOK
    <3> QED BY <1>h, <2>1, <3>1, FinalFrame
  <2>2. CASE UNCHANGED fate
    BY <1>7, <2>2 DEF Stop, FinalKept
  <2> QED BY <1>7, <2>1, <2>2 DEF Stop
<1> QED
  BY <1>1, <1>2, <1>3, <1>4, <1>5, <1>6, <1>7 DEF Next, Handler, Processor, BatchStep

\* A job that is done, dropped or lost is never run again and never changes
\* its fate, even if another replica takes the lock over while it is run.
THEOREM SettledForGood == Spec => FinalIsFinal
<1>1. TypeInv /\ UniqueInv /\ BooksInv /\ [Next]_vars =>
        [Reliable => \A j \in Jobs : fate[j] \in Final =>
           fate'[j] = fate[j] /\ runs'[j] = runs[j]]_vars
  BY FinalNext DEF FinalKept
<1> QED BY <1>1, TypeInit, TypeNext, UniqueInit, UniqueNext, BooksInit, BooksNext,
           PTL DEF Spec, FinalIsFinal

=============================================================================
