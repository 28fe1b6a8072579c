------------------------- MODULE MRQueueOrderProofs -------------------------
(* Theorems about MRQueue: what failures may cost in jobs and leave in     *)
(* processing keys, and first runs come in the order of arrival.           *)
EXTENDS MRQueueProofs, FiniteSetTheorems

-----------------------------------------------------------------------------
(* Where the elements of a list are after a push and after a pop.          *)

\* LPUSH leaves every element in its place and puts the new one last.
LEMMA PushPlaces ==
    ASSUME TypeOK, NEW m \in MRs, NEW c \in Copy,
           queue' = [queue EXCEPT ![m] = LPush(queue[m], c)]
    PROVE  /\ \A n \in MRs \ {m} : queue'[n] = queue[n]
           /\ DOMAIN queue[m] = 1 .. Len(queue[m]) /\ Len(queue[m]) \in Nat
           /\ DOMAIN queue'[m] = 1 .. Len(queue[m]) + 1
           /\ \A i \in DOMAIN queue[m] : queue'[m][i] = queue[m][i]
           /\ queue'[m][Len(queue[m]) + 1] = c
<1>1. queue \in [MRs -> Seq(Copy)] /\ queue[m] \in Seq(Copy)
  BY DEF TypeOK
<1>2. queue'[m] = LPush(queue[m], c) /\ \A n \in MRs \ {m} : queue'[n] = queue[n]
  BY <1>1
<1>3. /\ DOMAIN LPush(queue[m], c) = 1 .. Len(queue[m]) + 1
      /\ DOMAIN queue[m] = 1 .. Len(queue[m]) /\ Len(queue[m]) \in Nat
      /\ \A i \in 1 .. Len(queue[m]) : LPush(queue[m], c)[i] = queue[m][i]
      /\ LPush(queue[m], c)[Len(queue[m]) + 1] = c
  <2>1. queue[m] \in Seq(Copy) /\ c \in Copy
    BY <1>1
  <2> QED BY <2>1 DEF LPush
<1> QED BY <1>2, <1>3

\* RPOP moves every element but the first one place forward.
LEMMA PopPlaces ==
    ASSUME TypeOK, NEW m \in MRs, Popped(m)
    PROVE  /\ \A n \in MRs \ {m} : queue'[n] = queue[n]
           /\ 1 \in DOMAIN queue[m] /\ DOMAIN queue[m] \subseteq Nat \ {0}
           /\ Head(queue[m]) = queue[m][1] /\ Head(queue[m]) \in Copy
           /\ \A i \in DOMAIN queue'[m] :
                /\ i \in Nat \ {0} /\ i + 1 \in DOMAIN queue[m]
                /\ queue'[m][i] = queue[m][i + 1]
           /\ \A i \in DOMAIN queue[m] \ {1} :
                i - 1 \in DOMAIN queue'[m] /\ queue'[m][i - 1] = queue[m][i]
<1>1. /\ queue \in [MRs -> Seq(Copy)] /\ queue[m] \in Seq(Copy) /\ queue[m] # <<>>
      /\ queue' = [queue EXCEPT ![m] = RPop(queue[m])]
  BY DEF TypeOK, Popped
<1>2. /\ \A n \in MRs \ {m} : queue'[n] = queue[n]
      /\ queue'[m] = RPop(queue[m])
  BY <1>1
<1>3. /\ DOMAIN RPop(queue[m]) = 1 .. Len(queue[m]) - 1
      /\ DOMAIN queue[m] = 1 .. Len(queue[m]) /\ Len(queue[m]) \in Nat \ {0}
      /\ \A i \in 1 .. Len(queue[m]) - 1 : RPop(queue[m])[i] = queue[m][i + 1]
      /\ Head(queue[m]) = queue[m][1] /\ Head(queue[m]) \in Copy
  BY <1>1 DEF RPop
<1> QED BY <1>2, <1>3

\* After QueueExpires.
LEMMA ExpiredPlaces ==
    ASSUME TypeOK, NEW m \in MRs, QueueExpires(m)
    PROVE  \A n \in MRs : queue'[n] = IF n = m THEN <<>> ELSE queue[n]
  BY DEF QueueExpires, TypeOK

-----------------------------------------------------------------------------
(* No live job is forgotten.  The invariant leaves the replicas out that   *)
(* have just finished the job: after a success another copy of the job may *)
(* make it live again, and their hands do not count for that one.          *)

LiveInv == \A j \in Jobs : fate[j] = "live" => InQueue(j) \/ InHand(j)

\* Steps that change neither queues nor fates, nor take a job from a replica.
LEMMA LiveSame ==
    ASSUME LiveInv, UNCHANGED <<queue, fate>>,
           \A w \in Replicas : pc[w] \in Holds \ {"unmark"} =>
             pc'[w] \in Holds \ {"unmark"} /\ held'[w] = held[w]
    PROVE  LiveInv'
<1>1. \A j \in Jobs : (InQueue(j) => InQueue(j)') /\ (InHand(j) => InHand(j)')
  BY DEF InQueue, InHand
<1> QED BY <1>1 DEF LiveInv

\* Every step keeps it.
LEMMA LiveNext == TypeInv /\ LiveInv /\ [Next]_vars => LiveInv'
<1> SUFFICES ASSUME TypeOK, Placed, LiveInv, [Next]_vars PROVE LiveInv'
  BY DEF TypeInv
<1>h. \A w \in Replicas : pc[w] \in Holds =>
        /\ held[w] \in Copy /\ held[w].job \in Jobs /\ mr[w] \in MRs
        /\ MROf[held[w].job] = mr[w]
  BY DEF Placed, OnBatch, Copy, Holds, Batch
<1>m. \A j \in Jobs : MROf[j] \in MRs
  BY MROfAssumption
<1>1. ASSUME NEW j \in Jobs, HookPush(j) PROVE LiveInv'
  <2>1. /\ UNCHANGED <<pc, held>>
        /\ \A i \in Jobs \ {j} : fate'[i] = fate[i]
    BY <1>1 DEF HookPush, local, Arrives, Settle, TypeOK
  <2>2. \A i \in Jobs : InHand(i) => InHand(i)'
    BY <2>1 DEF InHand
  <2>3. CASE fate' = [fate EXCEPT ![j] = "lost"] /\ UNCHANGED queue
    <3>1. \A i \in Jobs : InQueue(i) => InQueue(i)'
      BY <2>3 DEF InQueue
    <3> QED BY <2>1, <2>2, <2>3, <3>1 DEF LiveInv, TypeOK
  <2>4. CASE queue' = [queue EXCEPT ![MROf[j]] = LPush(queue[MROf[j]], Fresh(j))]
    <3>1. Fresh(j) \in Copy /\ Fresh(j).job = j
      BY AttemptsAssumption DEF Fresh, Copy
    <3>2. /\ \A n \in MRs \ {MROf[j]} : queue'[n] = queue[n]
          /\ DOMAIN queue[MROf[j]] = 1 .. Len(queue[MROf[j]])
          /\ Len(queue[MROf[j]]) \in Nat
          /\ DOMAIN queue'[MROf[j]] = 1 .. Len(queue[MROf[j]]) + 1
          /\ \A i \in DOMAIN queue[MROf[j]] : queue'[MROf[j]][i] = queue[MROf[j]][i]
          /\ queue'[MROf[j]][Len(queue[MROf[j]]) + 1] = Fresh(j)
      BY <1>m, <2>4, <3>1, PushPlaces
    <3>3. InQueue(j)'
      BY <3>1, <3>2 DEF InQueue
    <3>4. \A i \in Jobs : InQueue(i) => InQueue(i)'
      BY <1>m, <3>2 DEF InQueue
    <3> QED BY <2>1, <2>2, <3>3, <3>4 DEF LiveInv
  <2> QED BY <1>1, <2>3, <2>4 DEF HookPush, Settle
<1>2. ASSUME \/ \E j \in Jobs : HookExpire(j) \/ ProcessingExpires(j)
             \/ \E m \in MRs : LockExpires(m)
             \/ UNCHANGED vars
      PROVE  LiveInv'
  BY <1>2, LiveSame
  DEF HookExpire, ProcessingExpires, LockExpires, vars, redis, local, history
<1>3. ASSUME NEW w \in Replicas,
             \/ Tick(w) \/ EndTick(w) \/ Acquire(w) \/ PopNothing(w) \/ Release(w)
             \/ Mark(w) \/ Unmark(w) \/ Restart(w)
             \/ \E n \in MRs : Skip(w, n) \/ Select(w, n)
      PROVE  LiveInv'
  <2>1. UNCHANGED <<queue, fate>>
    BY <1>3 DEF Tick, EndTick, Skip, Select, Acquire, PopNothing, Release, Mark,
                Unmark, Restart, redis, history
  <2>2. \A v \in Replicas : pc[v] \in Holds \ {"unmark"} =>
          pc'[v] \in Holds \ {"unmark"} /\ held'[v] = held[v]
    BY <1>3 DEF Tick, EndTick, Skip, Select, Acquire, PopNothing, Release, Mark,
                Unmark, Restart, NextJob, Leave, GoTo, TypeOK, Holds
  <2> QED BY <2>1, <2>2, LiveSame
<1>4. ASSUME NEW w \in Replicas, PopJob(w) \/ PopLost(w) PROVE LiveInv'
  <2>1. mr[w] \in MRs /\ Popped(mr[w])
    BY <1>4 DEF PopJob, PopLost, Placed, OnBatch, Batch
  <2> DEFINE c == Head(queue[mr[w]])
  <2>2. /\ \A n \in MRs \ {mr[w]} : queue'[n] = queue[n]
        /\ c = queue[mr[w]][1] /\ c \in Copy
        /\ \A i \in DOMAIN queue[mr[w]] \ {1} :
             i - 1 \in DOMAIN queue'[mr[w]] /\ queue'[mr[w]][i - 1] = queue[mr[w]][i]
    BY <2>1, PopPlaces
  <2>3. \/ pc'[w] = "mark" /\ held'[w] = c /\ UNCHANGED fate
        \/ /\ UNCHANGED held /\ fate' = [fate EXCEPT ![c.job] = "lost"]
           /\ pc'[w] \in {"pop", "release"}
    BY <1>4 DEF PopJob, PopLost, GoTo, Settle, TypeOK, history
  <2>4. /\ pc[w] = "pop"
        /\ \A v \in Replicas \ {w} : pc'[v] = pc[v] /\ held'[v] = held[v]
    BY <1>4 DEF PopJob, PopLost, GoTo, TypeOK
  <2> HIDE DEF c
  <2>5. \A j \in Jobs : InHand(j) => InHand(j)'
    BY <2>4 DEF InHand, Holds
  <2>6. \A j \in Jobs : InQueue(j) => InQueue(j)' \/ c.job = j
    BY <1>m, <2>2 DEF InQueue
  <2>7. CASE pc'[w] = "mark" /\ held'[w] = c /\ UNCHANGED fate
    <3>1. \A j \in Jobs : c.job = j => InHand(j)'
      BY <2>7 DEF InHand, Holds
    <3> QED BY <2>5, <2>6, <2>7, <3>1 DEF LiveInv
  <2>8. CASE fate' = [fate EXCEPT ![c.job] = "lost"]
    <3>1. \A j \in Jobs : fate'[j] = "live" => fate[j] = "live" /\ c.job # j
      BY <2>8 DEF TypeOK
    <3> QED BY <2>5, <2>6, <3>1 DEF LiveInv
  <2> QED BY <2>3, <2>7, <2>8
<1>5. ASSUME NEW w \in Replicas, Run(w) PROVE LiveInv'
  <2>1. UNCHANGED <<queue, held>> /\ \A v \in Replicas \ {w} : pc'[v] = pc[v]
    BY <1>5 DEF Run, redis, GoTo, TypeOK
  <2>2. CASE pc'[w] = "retry" /\ UNCHANGED fate
    BY <2>1, <2>2, LiveSame DEF Holds
  <2>3. CASE fate' = [fate EXCEPT ![held[w].job] = "done"]
    <3>1. \A j \in Jobs : fate'[j] = "live" => fate[j] = "live" /\ held[w].job # j
      BY <2>3 DEF TypeOK
    <3>2. \A j \in Jobs : InHand(j) => InHand(j)' \/ held[w].job = j
      BY <2>1 DEF InHand
    <3>3. \A j \in Jobs : InQueue(j) => InQueue(j)'
      BY <2>1 DEF InQueue
    <3> QED BY <3>1, <3>2, <3>3 DEF LiveInv
  <2> QED BY <1>5, <2>2, <2>3 DEF Run, GoTo, Settle, TypeOK
<1>6. ASSUME NEW w \in Replicas, Drop(w) PROVE LiveInv'
  <2>1. /\ UNCHANGED queue
        /\ \A v \in Replicas \ {w} : pc'[v] = pc[v] /\ held'[v] = held[v]
        /\ fate' = [fate EXCEPT ![held[w].job] = "dropped"]
    BY <1>6 DEF Drop, NextJob, GoTo, Settle, TypeOK
  <2>2. \A j \in Jobs : fate'[j] = "live" => fate[j] = "live" /\ held[w].job # j
    BY <2>1 DEF TypeOK
  <2>3. \A j \in Jobs : InHand(j) => InHand(j)' \/ held[w].job = j
    BY <2>1 DEF InHand
  <2>4. \A j \in Jobs : InQueue(j) => InQueue(j)'
    BY <2>1 DEF InQueue
  <2> QED BY <2>2, <2>3, <2>4 DEF LiveInv
<1>7. ASSUME NEW w \in Replicas, Requeue(w) PROVE LiveInv'
  <2> DEFINE next == [job |-> held[w].job, attempts |-> held[w].attempts + 1]
  <2>1. /\ \A v \in Replicas \ {w} : pc'[v] = pc[v] /\ held'[v] = held[v]
        /\ held[w] \in Copy /\ mr[w] \in MRs /\ MROf[held[w].job] = mr[w]
    BY <1>7, <1>h DEF Requeue, NextJob, GoTo, TypeOK, Holds
  <2>2. \A j \in Jobs : InHand(j) => InHand(j)' \/ held[w].job = j
    BY <2>1 DEF InHand
  <2>3. CASE UNCHANGED queue /\ fate' = [fate EXCEPT ![held[w].job] = "lost"]
    <3>1. \A j \in Jobs : fate'[j] = "live" => fate[j] = "live" /\ held[w].job # j
      BY <2>3 DEF TypeOK
    <3>2. \A j \in Jobs : InQueue(j) => InQueue(j)'
      BY <2>3 DEF InQueue
    <3> QED BY <2>2, <3>1, <3>2 DEF LiveInv
  <2>4. CASE /\ queue' = [queue EXCEPT ![mr[w]] = LPush(queue[mr[w]], next)]
             /\ UNCHANGED fate
    <3>1. next \in Copy /\ next.job = held[w].job
      BY <1>7, <2>1, AttemptsAssumption DEF Requeue, MayRetry, Copy
    <3> HIDE DEF next
    <3>2. /\ \A n \in MRs \ {mr[w]} : queue'[n] = queue[n]
          /\ DOMAIN queue[mr[w]] = 1 .. Len(queue[mr[w]]) /\ Len(queue[mr[w]]) \in Nat
          /\ DOMAIN queue'[mr[w]] = 1 .. Len(queue[mr[w]]) + 1
          /\ \A i \in DOMAIN queue[mr[w]] : queue'[mr[w]][i] = queue[mr[w]][i]
          /\ queue'[mr[w]][Len(queue[mr[w]]) + 1] = next
      BY <2>1, <2>4, <3>1, PushPlaces
    <3>3. \A j \in Jobs : held[w].job = j => InQueue(j)'
      BY <2>1, <3>1, <3>2 DEF InQueue
    <3>4. \A i \in Jobs : InQueue(i) => InQueue(i)'
      BY <1>m, <3>2 DEF InQueue
    <3> QED BY <2>2, <2>4, <3>3, <3>4 DEF LiveInv
  <2> QED BY <1>7, <2>3, <2>4 DEF Requeue, Settle
<1>8. ASSUME NEW n \in MRs, QueueExpires(n) PROVE LiveInv'
  <2>1. \A k \in MRs : queue'[k] = IF k = n THEN <<>> ELSE queue[k]
    BY <1>8, ExpiredPlaces
  <2>2. /\ UNCHANGED <<pc, held>>
        /\ \A j \in Jobs : fate'[j] = IF \E i \in DOMAIN queue[n] : queue[n][i].job = j
                                      THEN "lost" ELSE fate[j]
    BY <1>8 DEF QueueExpires, local
  <2>3. \A j \in Jobs : InHand(j) => InHand(j)'
    BY <2>2 DEF InHand
  <2>4. \A j \in Jobs : fate'[j] = "live" /\ InQueue(j) => InQueue(j)'
    BY <1>m, <2>1, <2>2 DEF InQueue
  <2> QED BY <2>2, <2>3, <2>4 DEF LiveInv
<1>9. ASSUME NEW w \in Replicas, Stop(w) PROVE LiveInv'
  <2>1. UNCHANGED queue /\ \A v \in Replicas \ {w} : pc'[v] = pc[v] /\ held'[v] = held[v]
    BY <1>9 DEF Stop, redis, TypeOK
  <2>2. \A j \in Jobs : InQueue(j) => InQueue(j)'
    BY <2>1 DEF InQueue
  <2>3. CASE pc[w] \in Holds \ {"unmark"} /\ fate' = [fate EXCEPT ![held[w].job] = "lost"]
    <3>1. \A j \in Jobs : fate'[j] = "live" => fate[j] = "live" /\ held[w].job # j
      BY <2>3 DEF TypeOK
    <3>2. \A j \in Jobs : InHand(j) => InHand(j)' \/ held[w].job = j
      BY <2>1 DEF InHand
    <3> QED BY <2>2, <3>1, <3>2 DEF LiveInv
  <2>4. CASE pc[w] \notin Holds \ {"unmark"} /\ UNCHANGED fate
    <3>1. \A j \in Jobs : InHand(j) => InHand(j)'
      BY <2>1, <2>4 DEF InHand
    <3> QED BY <2>2, <2>4, <3>1 DEF LiveInv
  <2> QED BY <1>9, <2>3, <2>4 DEF Stop, Settle
<1> QED
  BY <1>1, <1>2, <1>3, <1>4, <1>5, <1>6, <1>7, <1>8, <1>9
  DEF Next, Handler, Processor, BatchStep

\* Initially no delivery is live.
LEMMA LiveInit == Init => LiveInv
  BY DEF Init, LiveInv

-----------------------------------------------------------------------------
(* First runs come in the order of arrival.  While an earlier delivery of  *)
(* the merge request is live and untried, a later one has not run, and if  *)
(* the earlier one is queued the later one stands behind it, in nobody's   *)
(* hands: so whoever runs the later one has seen the earlier one leave.    *)

EarlierArrived ==
    \A j \in Jobs : \A i \in earlier[j] :
      i \in Jobs /\ i # j /\ MROf[i] = MROf[j] /\ fate[i] # "new"
SettledRan == \A j \in Jobs : fate[j] \in {"done", "dropped"} => runs[j] > 0

Untried(i) == fate[i] = "live" /\ runs[i] = 0
Ahead(i, j) ==
    \A p \in DOMAIN queue[MROf[i]] : queue[MROf[i]][p].job = i =>
      /\ \A w \in Replicas : ~HeldBy(j, w)
      /\ \A q \in DOMAIN queue[MROf[i]] : queue[MROf[i]][q].job = j => p < q
InOrder == \A j \in Jobs : \A i \in earlier[j] : Untried(i) => runs[j] = 0 /\ Ahead(i, j)

Ordered == EarlierArrived /\ SettledRan /\ InOrder
OrderInv == BatchFitsLock /\ Reliable => Ordered

\* A push disturbs the order of no two jobs, unless it pushes the first one.
LEMMA AheadPush ==
    ASSUME TypeOK, HoldsShrink, NEW m \in MRs, NEW c \in Copy,
           queue' = [queue EXCEPT ![m] = LPush(queue[m], c)],
           NEW i \in Jobs, NEW j \in Jobs, i # c.job, Ahead(i, j)
    PROVE  Ahead(i, j)'
<1>1. MROf[i] \in MRs
  BY MROfAssumption
<1>2. /\ \A n \in MRs \ {m} : queue'[n] = queue[n]
      /\ DOMAIN queue[m] = 1 .. Len(queue[m]) /\ Len(queue[m]) \in Nat
      /\ DOMAIN queue'[m] = 1 .. Len(queue[m]) + 1
      /\ \A k \in DOMAIN queue[m] : queue'[m][k] = queue[m][k]
      /\ queue'[m][Len(queue[m]) + 1] = c
  BY PushPlaces
<1>3. \A w \in Replicas : ~HeldBy(j, w) => ~HeldBy(j, w)'
  BY DEF HoldsShrink, HeldBy
<1>4. CASE MROf[i] # m
  BY <1>1, <1>2, <1>3, <1>4 DEF Ahead
<1>5. CASE MROf[i] = m
  <2>1. ASSUME NEW p \in DOMAIN queue'[m], queue'[m][p].job = i
        PROVE  /\ \A w \in Replicas : ~HeldBy(j, w)'
               /\ \A q \in DOMAIN queue'[m] : queue'[m][q].job = j => p < q
    <3>1. p \in DOMAIN queue[m] /\ queue[m][p].job = i
      BY <1>2, <2>1
    <3>2. /\ \A w \in Replicas : ~HeldBy(j, w)
          /\ \A q \in DOMAIN queue[m] : queue[m][q].job = j => p < q
      BY <1>5, <3>1 DEF Ahead
    <3> QED BY <1>2, <1>3, <3>1, <3>2
  <2> QED BY <1>5, <2>1 DEF Ahead
<1> QED BY <1>4, <1>5

\* A pop takes the first job of the line, so nobody gets ahead by it.
LEMMA AheadPop ==
    ASSUME TypeOK, QueuedHere, NEW m \in MRs, Popped(m),
           NEW i \in Jobs, NEW j \in Jobs, MROf[i] = MROf[j], Ahead(i, j),
           \A w \in Replicas : HeldBy(j, w)' => HeldBy(j, w) \/ j = Head(queue[m]).job
    PROVE  Ahead(i, j)'
<1>1. MROf[i] \in MRs
  BY MROfAssumption
<1>2. /\ \A n \in MRs \ {m} : queue'[n] = queue[n]
      /\ 1 \in DOMAIN queue[m] /\ DOMAIN queue[m] \subseteq Nat \ {0}
      /\ Head(queue[m]) = queue[m][1]
      /\ \A k \in DOMAIN queue'[m] :
           /\ k \in Nat \ {0} /\ k + 1 \in DOMAIN queue[m]
           /\ queue'[m][k] = queue[m][k + 1]
  BY PopPlaces
<1>3. MROf[Head(queue[m]).job] = m
  BY PopHere
<1>4. CASE MROf[i] # m
  BY <1>1, <1>2, <1>3, <1>4 DEF Ahead
<1>5. CASE MROf[i] = m
  <2>1. ASSUME NEW p \in DOMAIN queue'[m], queue'[m][p].job = i
        PROVE  /\ \A w \in Replicas : ~HeldBy(j, w)'
               /\ \A q \in DOMAIN queue'[m] : queue'[m][q].job = j => p < q
    <3>1. /\ p \in Nat \ {0} /\ p + 1 \in DOMAIN queue[m]
          /\ queue[m][p + 1].job = i
      BY <1>2, <2>1
    <3>2. /\ \A w \in Replicas : ~HeldBy(j, w)
          /\ \A q \in DOMAIN queue[m] : queue[m][q].job = j => p + 1 < q
      BY <1>5, <3>1 DEF Ahead
    <3>3. j # Head(queue[m]).job
      BY <1>2, <3>1, <3>2
    <3>4. ASSUME NEW q \in DOMAIN queue'[m], queue'[m][q].job = j PROVE p < q
      <4>1. q \in Nat \ {0} /\ q + 1 \in DOMAIN queue[m] /\ queue[m][q + 1].job = j
        BY <1>2, <3>4
      <4>2. p + 1 < q + 1
        BY <3>2, <4>1
      <4> QED BY <3>1, <4>1, <4>2
    <3> QED BY <3>2, <3>3, <3>4
  <2> QED BY <1>5, <2>1 DEF Ahead
<1> QED BY <1>4, <1>5

\* Steps that run no job, accept none and make none live.
LEMMA OrderFrame ==
    ASSUME Ordered, UNCHANGED <<runs, earlier>>,
           \A j \in Jobs : fate'[j] # fate[j] =>
             (fate[j] # "new" /\ fate'[j] \notin {"new", "live"}) \/ fate'[j] = "lost",
           \A j \in Jobs : fate'[j] \in {"done", "dropped"} /\ fate'[j] # fate[j] =>
             runs[j] > 0,
           \A j \in Jobs : \A i \in earlier[j] : Untried(i) /\ Untried(i)' /\ Ahead(i, j)
             => Ahead(i, j)'
    PROVE  Ordered'
<1>1. EarlierArrived'
  BY DEF Ordered, EarlierArrived
<1>2. SettledRan'
  BY DEF Ordered, SettledRan
<1>3. \A j \in Jobs : \A i \in earlier[j] : Untried(i)' => Untried(i)
  BY DEF Ordered, EarlierArrived, Untried
<1>4. InOrder'
  BY <1>3 DEF Ordered, InOrder
<1> QED BY <1>1, <1>2, <1>4 DEF Ordered

\* Those of them that leave the queues alone.
LEMMA OrderSame ==
    ASSUME Ordered, UNCHANGED <<queue, runs, earlier>>, HoldsShrink,
           \A j \in Jobs : fate'[j] # fate[j] =>
             (fate[j] # "new" /\ fate'[j] \notin {"new", "live"}) \/ fate'[j] = "lost",
           \A j \in Jobs : fate'[j] \in {"done", "dropped"} /\ fate'[j] # fate[j] =>
             runs[j] > 0
    PROVE  Ordered'
<1>1. \A j \in Jobs, i \in Jobs : Ahead(i, j) => Ahead(i, j)'
  BY DEF Ahead, HeldBy, HoldsShrink
<1>2. \A j \in Jobs : \A i \in earlier[j] : i \in Jobs
  BY DEF Ordered, EarlierArrived
<1> QED BY <1>1, <1>2, OrderFrame

\* Every step keeps the order.
LEMMA OrderNext ==
    /\ TypeInv /\ LockInv /\ UniqueInv /\ BooksInv /\ LiveInv
    /\ OrderInv /\ [Next]_vars
    => OrderInv'
<1> SUFFICES ASSUME TypeOK, Placed, AloneOnMR, Unique, Books, LiveInv, Ordered,
                    ~Fault("resent"), [Next]_vars
             PROVE  Ordered'
  BY DEF TypeInv, LockInv, UniqueInv, BooksInv, Single, OrderInv, Reliable, Fault
<1>h. \A w \in Replicas : pc[w] \in Holds =>
        /\ held[w] \in Copy /\ held[w].job \in Jobs /\ mr[w] \in MRs
        /\ held[w].attempts \in 0 .. MaxAttempts - 1
        /\ MROf[held[w].job] = mr[w]
  BY DEF Placed, OnBatch, Copy, Holds, Batch
<1>e. \A j \in Jobs : \A i \in earlier[j] :
        /\ i \in Jobs /\ i # j /\ MROf[i] = MROf[j] /\ fate[i] # "new"
        /\ MROf[i] \in MRs
  BY MROfAssumption DEF Ordered, EarlierArrived
<1>1. ASSUME NEW j \in Jobs, HookPush(j) PROVE Ordered'
  <2>1. /\ hook[j] = "new" /\ UNCHANGED <<pc, held, runs>> /\ HoldsShrink
        /\ fate[j] = "new" /\ runs[j] = 0
    BY <1>1 DEF HookPush, local, HoldsShrink, Books, BookedNew
  <2>2. CASE UNCHANGED <<queue, earlier>> /\ fate' = [fate EXCEPT ![j] = "lost"]
    <3>1. \A i \in Jobs : fate'[i] # fate[i] => fate'[i] = "lost"
      BY <2>2 DEF TypeOK
    <3> QED BY <2>1, <2>2, <3>1, OrderSame
  <2>3. CASE /\ queue' = [queue EXCEPT ![MROf[j]] = LPush(queue[MROf[j]], Fresh(j))]
             /\ Arrives(j)
    <3>1. /\ Fresh(j) \in Copy /\ Fresh(j).job = j /\ MROf[j] \in MRs
      BY AttemptsAssumption, MROfAssumption DEF Fresh, Copy
    <3>2. /\ fate'[j] = "live" /\ \A i \in Jobs \ {j} : fate'[i] = fate[i]
          /\ earlier'[j] = {i \in Jobs \ {j} : MROf[i] = MROf[j] /\ fate[i] # "new"}
          /\ \A i \in Jobs \ {j} : earlier'[i] = earlier[i]
      BY <2>3 DEF Arrives, Settle, TypeOK
    <3>3. EarlierArrived'
      BY <3>2 DEF Ordered, EarlierArrived
    <3>4. SettledRan'
      BY <2>1, <3>2 DEF Ordered, SettledRan
    <3>5. ASSUME NEW k \in Jobs, NEW i \in earlier'[k], Untried(i)', k # j
          PROVE  runs'[k] = 0 /\ Ahead(i, k)'
      <4>1. i \in earlier[k] /\ i \in Jobs /\ i # j
        BY <1>e, <2>1, <3>2, <3>5
      <4>2. runs[k] = 0 /\ Ahead(i, k)
        BY <2>1, <3>2, <3>5, <4>1 DEF Ordered, InOrder, Untried
      <4> QED BY <2>1, <2>3, <3>1, <4>1, <4>2, AheadPush
    <3>6. ASSUME NEW i \in earlier'[j] PROVE runs'[j] = 0 /\ Ahead(i, j)'
      <4>1. i \in Jobs /\ i # j /\ MROf[i] = MROf[j]
        BY <3>2
      <4>2. /\ \A w \in Replicas : ~HeldBy(j, w)
            /\ \A p \in DOMAIN queue[MROf[j]] : queue[MROf[j]][p].job # j
        BY <2>1, <3>1 DEF Unique, NewNowhere
      <4>3. Ahead(i, j)
        BY <4>1, <4>2 DEF Ahead
      <4> QED BY <2>1, <2>3, <3>1, <4>1, <4>3, AheadPush
    <3>7. InOrder'
      BY <3>5, <3>6 DEF InOrder
    <3> QED BY <3>3, <3>4, <3>7 DEF Ordered
  <2> QED BY <1>1, <2>2, <2>3 DEF HookPush, Settle
<1>2. ASSUME \/ \E j \in Jobs : HookExpire(j) \/ ProcessingExpires(j)
             \/ \E m \in MRs : LockExpires(m)
             \/ UNCHANGED vars
      PROVE  Ordered'
  BY <1>2, OrderSame
  DEF HookExpire, ProcessingExpires, LockExpires, vars, redis, local, history, HoldsShrink
<1>3. ASSUME NEW w \in Replicas,
             \/ Tick(w) \/ EndTick(w) \/ Acquire(w) \/ PopNothing(w) \/ Release(w)
             \/ Mark(w) \/ Unmark(w) \/ Restart(w)
             \/ \E n \in MRs : Skip(w, n) \/ Select(w, n)
      PROVE  Ordered'
  <2>1. UNCHANGED <<queue, fate, runs, earlier>>
    BY <1>3 DEF Tick, EndTick, Skip, Select, Acquire, PopNothing, Release, Mark,
                Unmark, Restart, redis, history
  <2>2. HoldsShrink
    BY <1>3 DEF Tick, EndTick, Skip, Select, Acquire, PopNothing, Release, Mark,
                Unmark, Restart, NextJob, Leave, GoTo, TypeOK, Holds, HoldsShrink
  <2> QED BY <2>1, <2>2, OrderSame
<1>4. ASSUME NEW w \in Replicas, PopJob(w) \/ PopLost(w) PROVE Ordered'
  <2>1. mr[w] \in MRs /\ Popped(mr[w]) /\ QueuedHere /\ UNCHANGED <<runs, earlier>>
    BY <1>4 DEF PopJob, PopLost, Placed, OnBatch, Batch, history
  <2> DEFINE c == Head(queue[mr[w]])
  <2>2. c \in Copy /\ 1 \in DOMAIN queue[mr[w]] /\ c = queue[mr[w]][1]
    BY <2>1, PopPlaces
  <2>3. c.job \in Jobs /\ fate[c.job] = "live"
    BY <2>1, <2>2 DEF Copy, Books, BookedQueue
  <2>4. \A j \in Jobs : fate'[j] # fate[j] => j = c.job /\ fate'[j] = "lost"
    BY <1>4 DEF PopJob, PopLost, Settle, TypeOK, history
  <2>5. /\ \A v \in Replicas \ {w} : pc'[v] = pc[v] /\ held'[v] = held[v]
        /\ pc'[w] \in Holds => held'[w] = c
    BY <1>4 DEF PopJob, PopLost, GoTo, TypeOK, Holds
  <2>6. \A j \in Jobs : \A v \in Replicas : HeldBy(j, v)' => HeldBy(j, v) \/ j = c.job
    BY <2>5 DEF HeldBy
  <2>7. ASSUME NEW j \in Jobs, NEW i \in earlier[j], Ahead(i, j) PROVE Ahead(i, j)'
    BY <1>e, <2>1, <2>6, <2>7, AheadPop
  <2> HIDE DEF c
  <2> QED BY <2>1, <2>4, <2>7, OrderFrame
<1>5. ASSUME NEW w \in Replicas, Run(w) PROVE Ordered'
  <2> DEFINE t == held[w].job
  <2>1. /\ pc[w] = "run" /\ pc[w] \in Holds /\ t \in Jobs
        /\ runs[t] \in Nat /\ fate[t] = "live" /\ MROf[t] = mr[w]
    BY <1>5, <1>h DEF Run, Holds, TypeOK, Books, BookedHeld
  <2>2. /\ UNCHANGED <<queue, held, earlier>>
        /\ pc'[w] \in Holds /\ \A v \in Replicas \ {w} : pc'[v] = pc[v]
        /\ \A j \in Jobs \ {t} : runs'[j] = runs[j] /\ fate'[j] = fate[j]
    BY <1>5 DEF Run, redis, GoTo, Settle, TypeOK, Holds
  <2>3. runs'[t] = runs[t] + 1 /\ fate'[t] \in {"live", "done"}
    BY <1>5, <2>1 DEF Run, GoTo, Settle, TypeOK
  <2>4. EarlierArrived'
    BY <1>e, <2>1, <2>2, <2>3 DEF EarlierArrived
  <2>5. SettledRan'
    BY <2>1, <2>2, <2>3 DEF Ordered, SettledRan
  <2>6. ASSUME NEW i \in earlier[t] PROVE ~Untried(i)
    <3>1. /\ i \in Jobs /\ i # t /\ MROf[i] = MROf[t] /\ MROf[i] \in MRs
          /\ HeldBy(t, w)
      BY <1>e, <2>1 DEF HeldBy
    <3>2. SUFFICES ASSUME Untried(i) PROVE FALSE
      OBVIOUS
    <3>3. Ahead(i, t)
      BY <2>1, <3>2 DEF Ordered, InOrder
    <3>4. ~InQueue(i)
      BY <3>1, <3>3 DEF Ahead, InQueue
    <3>5. PICK v \in Replicas : pc[v] \in Holds /\ held[v].job = i
      BY <3>1, <3>2, <3>4 DEF LiveInv, Untried, InHand
    <3>6. mr[v] = mr[w] /\ pc[v] \in Batch /\ pc[w] \in Batch
      BY <1>h, <2>1, <3>1, <3>5 DEF Batch
    <3>7. v = w
      BY <3>6 DEF AloneOnMR
    <3> QED BY <3>1, <3>5, <3>7
  <2>7. ASSUME NEW j \in Jobs, NEW i \in earlier[j], Untried(i)'
        PROVE  runs'[j] = 0 /\ Ahead(i, j)'
    <3>1. i \in Jobs /\ i # t
      BY <1>e, <2>1, <2>3, <2>7 DEF Untried
    <3>2. Untried(i)
      BY <2>2, <2>7, <3>1 DEF Untried
    <3>3. j # t
      BY <2>6, <3>2
    <3>4. runs[j] = 0 /\ Ahead(i, j)
      BY <3>2 DEF Ordered, InOrder
    <3>5. \A v \in Replicas : HeldBy(j, v)' => HeldBy(j, v)
      BY <2>1, <2>2 DEF HeldBy
    <3> QED BY <2>2, <3>3, <3>4, <3>5 DEF Ahead
  <2>8. InOrder'
    BY <2>2, <2>7 DEF InOrder
  <2> QED BY <2>4, <2>5, <2>8 DEF Ordered
<1>6. ASSUME NEW w \in Replicas, Drop(w) PROVE Ordered'
  <2>1. held[w].job \in Jobs /\ fate[held[w].job] = "live" /\ runs[held[w].job] > 0
    BY <1>6, <1>h DEF Drop, Holds, Books, BookedHeld
  <2>2. UNCHANGED <<queue, runs, earlier>> /\ HoldsShrink
    BY <1>6 DEF Drop, NextJob, GoTo, HoldsShrink, TypeOK, Holds
  <2>3. \A j \in Jobs : fate'[j] # fate[j] => j = held[w].job /\ fate'[j] = "dropped"
    BY <1>6 DEF Drop, Settle, TypeOK
  <2> QED BY <2>1, <2>2, <2>3, OrderSame
<1>7. ASSUME NEW w \in Replicas, Requeue(w) PROVE Ordered'
  <2> DEFINE next == [job |-> held[w].job, attempts |-> held[w].attempts + 1]
  <2>1. /\ held[w] \in Copy /\ mr[w] \in MRs /\ held[w].job \in Jobs
        /\ runs[held[w].job] > 0 /\ fate[held[w].job] = "live"
        /\ UNCHANGED <<runs, earlier>>
    BY <1>7, <1>h DEF Requeue, Holds, Books, BookedHeld
  <2>2. HoldsShrink
    BY <1>7 DEF Requeue, NextJob, GoTo, HoldsShrink, TypeOK, Holds
  <2>3. CASE UNCHANGED queue /\ fate' = [fate EXCEPT ![held[w].job] = "lost"]
    <3>1. \A j \in Jobs : fate'[j] # fate[j] => fate'[j] = "lost"
      BY <2>3 DEF TypeOK
    <3> QED BY <2>1, <2>2, <2>3, <3>1, OrderSame
  <2>4. CASE /\ queue' = [queue EXCEPT ![mr[w]] = LPush(queue[mr[w]], next)]
             /\ UNCHANGED fate
    <3>1. next \in Copy /\ next.job = held[w].job
      BY <1>7, <2>1, AttemptsAssumption DEF Requeue, MayRetry, Copy
    <3> HIDE DEF next
    <3>2. ASSUME NEW j \in Jobs, NEW i \in earlier[j], Untried(i), Ahead(i, j)
          PROVE  Ahead(i, j)'
      <4>1. i \in Jobs /\ i # next.job
        BY <1>e, <2>1, <3>1, <3>2 DEF Untried
      <4> QED BY <2>1, <2>2, <2>4, <3>1, <3>2, <4>1, AheadPush
    <3> QED BY <2>1, <2>4, <3>2, OrderFrame
  <2> QED BY <1>7, <2>3, <2>4 DEF Requeue, Settle
<1>8. ASSUME NEW n \in MRs, QueueExpires(n) PROVE Ordered'
  <2>1. \A k \in MRs : queue'[k] = IF k = n THEN <<>> ELSE queue[k]
    BY <1>8, ExpiredPlaces
  <2>2. /\ UNCHANGED <<pc, held, runs, earlier>>
        /\ \A j \in Jobs : fate'[j] # fate[j] => fate'[j] = "lost"
    BY <1>8 DEF QueueExpires, local
  <2>3. ASSUME NEW j \in Jobs, NEW i \in earlier[j], Ahead(i, j) PROVE Ahead(i, j)'
    BY <1>e, <2>1, <2>2, <2>3 DEF Ahead, HeldBy
  <2> QED BY <2>2, <2>3, OrderFrame
<1>9. ASSUME NEW w \in Replicas, Stop(w) PROVE Ordered'
  <2>1. UNCHANGED <<queue, runs, earlier>> /\ HoldsShrink
    BY <1>9 DEF Stop, redis, HoldsShrink, TypeOK, Holds
  <2>2. \A j \in Jobs : fate'[j] # fate[j] => fate'[j] = "lost"
    BY <1>9 DEF Stop, Settle, TypeOK
  <2> QED BY <2>1, <2>2, OrderSame
<1> QED
  BY <1>1, <1>2, <1>3, <1>4, <1>5, <1>6, <1>7, <1>8, <1>9
  DEF Next, Handler, Processor, BatchStep

\* Initially nothing has arrived, so nothing is earlier than anything.
LEMMA OrderInit == Init => OrderInv
  BY DEF Init, OrderInv, Ordered, EarlierArrived, SettledRan, InOrder

\* A job runs for the first time only after every earlier delivery of its
\* merge request has run or been lost, whichever replicas run them, as long as
\* no batch outlives the TTL of its lock and no command is sent twice.
THEOREM ArrivalOrder == Spec => []FirstRunsInOrder
<1>1. TypeInv /\ OrderInv => FirstRunsInOrder
  <2> SUFFICES ASSUME TypeOK, Ordered, NEW j \in Jobs, runs[j] > 0, NEW i \in earlier[j]
               PROVE  runs[i] > 0 \/ fate[i] = "lost"
    BY DEF TypeInv, OrderInv, FirstRunsInOrder
  <2>1. i \in Jobs /\ fate[i] # "new" /\ runs[i] \in Nat
    BY DEF Ordered, EarlierArrived, TypeOK
  <2>2. ~Untried(i)
    BY DEF Ordered, InOrder
  <2>3. CASE fate[i] \in {"done", "dropped"}
    BY <2>1, <2>3 DEF Ordered, SettledRan
  <2>4. CASE fate[i] = "live"
    BY <2>1, <2>2, <2>4 DEF Untried
  <2> QED BY <2>1, <2>3, <2>4 DEF TypeOK, Final
<1>2. Init => LockInv
  BY DEF Init, LockInv, LockKept, AloneOnMR, Batch, Holds
<1> QED
  BY <1>1, <1>2, TypeInit, TypeNext, LockNext, UniqueInit, UniqueNext, BooksInit,
     BooksNext, LiveInit, LiveNext, OrderInit, OrderNext, PTL DEF Spec

-----------------------------------------------------------------------------
(* What failures cost.  The jobs that count as lost, and the processing    *)
(* keys whose job nobody has, grow by one with a failing command or a      *)
(* stop, and by those of one merge request with an expired queue.          *)

Lost == {j \in Jobs : fate[j] = "lost"}

Within(js, spent, lapsed) ==
    /\ lapsed = 0 => IsFiniteSet(js) /\ Cardinality(js) <= spent
    /\ IsFiniteSet({MROf[j] : j \in js}) /\ Cardinality({MROf[j] : j \in js}) <= spent + lapsed

LossInv == Within(Lost, faults + stops, expiries) /\ Within(Left, faults + stops, expiries)

\* What a step may do to such a set, and what it is charged for that.
Nothing(js, after) ==
    after \subseteq js /\ faults' \in {faults, faults + 1} /\ UNCHANGED <<stops, expiries>>
OneMore(js, after) ==
    /\ \E j : after \subseteq js \cup {j}
    /\ \/ faults' = faults + 1 /\ UNCHANGED stops
       \/ stops' = stops + 1 /\ UNCHANGED faults
    /\ UNCHANGED expiries
OneLineMore(js, after) ==
    /\ \E m : \A j \in after : j \in js \/ MROf[j] = m
    /\ expiries' = expiries + 1 /\ UNCHANGED <<faults, stops>>
Charged(js, after) == Nothing(js, after) \/ OneMore(js, after) \/ OneLineMore(js, after)

\* A set that grows only as it is charged for stays within the failures.
LEMMA Charges ==
    ASSUME TypeOK, TypeOK', NEW js, NEW after, Within(js, faults + stops, expiries),
           Charged(js, after)
    PROVE  Within(after, faults' + stops', expiries')
<1> DEFINE ms == {MROf[j] : j \in js}
           ns == {MROf[j] : j \in after}
<1>1. PICK f, s, e, f2, s2, e2 \in Nat :
        f = faults /\ s = stops /\ e = expiries /\ f2 = faults' /\ s2 = stops' /\ e2 = expiries'
  BY Zenon DEF TypeOK
<1> DEFINE spent == f + s
           spent2 == f2 + s2
<1>2. spent \in Nat /\ spent2 \in Nat /\ e \in Nat /\ e2 \in Nat
  OBVIOUS
<1>3. /\ e = 0 => IsFiniteSet(js) /\ Cardinality(js) <= spent
      /\ IsFiniteSet(ms) /\ Cardinality(ms) <= spent + e
  <2>1. Within(js, spent, e)
    BY <1>1
  <2> QED BY <2>1 DEF Within
<1> SUFFICES /\ e2 = 0 => IsFiniteSet(after) /\ Cardinality(after) <= spent2
             /\ IsFiniteSet(ns) /\ Cardinality(ns) <= spent2 + e2
  <2>1. Within(after, spent2, e2)
    BY DEF Within
  <2> QED BY <1>1, <2>1, Zenon
<1>4. ASSUME NEW S, NEW T, NEW x, IsFiniteSet(S), T \subseteq S \cup {x}
      PROVE  /\ IsFiniteSet(T) /\ Cardinality(T) <= Cardinality(S) + 1
             /\ Cardinality(T) \in Nat /\ Cardinality(S) \in Nat
  <2>1. /\ IsFiniteSet(S \cup {x}) /\ Cardinality(S \cup {x}) <= Cardinality(S) + 1
        /\ Cardinality(S \cup {x}) \in Nat /\ Cardinality(S) \in Nat
    BY <1>4, FS_AddElement, FS_CardinalityType
  <2>2. /\ IsFiniteSet(T) /\ Cardinality(T) <= Cardinality(S \cup {x})
        /\ Cardinality(T) \in Nat
    BY <1>4, <2>1, FS_Subset, FS_CardinalityType
  <2> QED BY <2>1, <2>2
<1>5. CASE Nothing(js, after)
  <2>1. after \subseteq js /\ ns \subseteq ms
    BY <1>5 DEF Nothing
  <2>2. f2 \in {f, f + 1} /\ s2 = s /\ e2 = e
    BY <1>1, <1>5, Zenon DEF Nothing
  <2>3. spent <= spent2 /\ e2 = e
    BY <2>2
  <2> HIDE DEF ms, ns, spent, spent2
  <2>4. \A S, T : IsFiniteSet(S) /\ T \subseteq S =>
          /\ IsFiniteSet(T) /\ Cardinality(T) <= Cardinality(S)
          /\ Cardinality(T) \in Nat /\ Cardinality(S) \in Nat
    BY FS_Subset, FS_CardinalityType
  <2>5. /\ e2 = 0 => /\ IsFiniteSet(after) /\ Cardinality(after) <= Cardinality(js)
                     /\ Cardinality(after) \in Nat /\ Cardinality(js) \in Nat
        /\ IsFiniteSet(ns) /\ Cardinality(ns) <= Cardinality(ms)
        /\ Cardinality(ns) \in Nat /\ Cardinality(ms) \in Nat
    BY <1>3, <2>1, <2>3, <2>4
  <2> QED BY <1>2, <1>3, <2>3, <2>5
<1>6. CASE OneMore(js, after)
  <2>1. PICK j : after \subseteq js \cup {j}
    BY <1>6 DEF OneMore
  <2>2. (f2 = f + 1 /\ s2 = s) \/ (s2 = s + 1 /\ f2 = f)
    BY <1>1, <1>6, Zenon DEF OneMore
  <2>3. e2 = e
    BY <1>1, <1>6, Zenon DEF OneMore
  <2>4. spent2 = spent + 1
    BY <2>2
  <2>5. ns \subseteq ms \cup {MROf[j]}
    BY <2>1
  <2> HIDE DEF ms, ns, spent, spent2
  <2>6. /\ e2 = 0 => /\ IsFiniteSet(after) /\ Cardinality(after) <= Cardinality(js) + 1
                     /\ Cardinality(after) \in Nat /\ Cardinality(js) \in Nat
        /\ IsFiniteSet(ns) /\ Cardinality(ns) <= Cardinality(ms) + 1
        /\ Cardinality(ns) \in Nat /\ Cardinality(ms) \in Nat
    BY <1>3, <1>4, <2>1, <2>3, <2>5
  <2> QED BY <1>2, <1>3, <2>3, <2>4, <2>6
<1>7. CASE OneLineMore(js, after)
  <2>1. PICK m : \A j \in after : j \in js \/ MROf[j] = m
    BY <1>7 DEF OneLineMore
  <2>2. f2 = f /\ s2 = s /\ e2 = e + 1
    BY <1>1, <1>7, Zenon DEF OneLineMore
  <2>3. spent2 = spent /\ e2 = e + 1 /\ e2 # 0
    BY <2>2
  <2>4. ns \subseteq ms \cup {m}
    BY <2>1
  <2> HIDE DEF ms, ns, spent, spent2
  <2>5. /\ IsFiniteSet(ns) /\ Cardinality(ns) <= Cardinality(ms) + 1
        /\ Cardinality(ns) \in Nat /\ Cardinality(ms) \in Nat
    BY <1>3, <1>4, <2>4
  <2> QED BY <1>2, <1>3, <2>3, <2>5
<1> QED BY <1>5, <1>6, <1>7 DEF Charged

\* LPUSH takes no job out of a queue and puts one in.
LEMMA PushKeeps ==
    ASSUME TypeOK, NEW m \in MRs, NEW c \in Copy, MROf[c.job] = m,
           queue' = [queue EXCEPT ![m] = LPush(queue[m], c)]
    PROVE  InQueue(c.job)' /\ \A j \in Jobs : InQueue(j) => InQueue(j)'
<1>1. /\ \A n \in MRs \ {m} : queue'[n] = queue[n]
      /\ DOMAIN queue[m] = 1 .. Len(queue[m]) /\ Len(queue[m]) \in Nat
      /\ DOMAIN queue'[m] = 1 .. Len(queue[m]) + 1
      /\ \A i \in DOMAIN queue[m] : queue'[m][i] = queue[m][i]
      /\ queue'[m][Len(queue[m]) + 1] = c
  BY PushPlaces
<1>2. \A j \in Jobs : MROf[j] \in MRs
  BY MROfAssumption
<1>3. InQueue(c.job)'
  BY <1>1 DEF InQueue
<1>4. \A j \in Jobs : InQueue(j) => InQueue(j)'
  BY <1>1, <1>2 DEF InQueue
<1> QED BY <1>3, <1>4

\* RPOP takes one.
LEMMA PopTakesOne ==
    ASSUME TypeOK, NEW m \in MRs, Popped(m)
    PROVE  \A j \in Jobs : InQueue(j) => InQueue(j)' \/ j = Head(queue[m]).job
  BY PopPlaces, MROfAssumption DEF InQueue

\* The keys that are left, after a step that takes no other job than j out of
\* queues and hands and adds no other key.
LEMMA LeftFrame ==
    ASSUME TypeOK, TypeOK', NEW j,
           \A i \in Jobs \ {j} : InQueue(i) => InQueue(i)' \/ \E w \in Replicas : HeldBy(i, w)',
           \A i \in Jobs \ {j}, w \in Replicas : HeldBy(i, w) =>
             HeldBy(i, w)' \/ InQueue(i)',
           processing' \subseteq processing \cup {j}
    PROVE  Left' \subseteq Left \cup {j}
  BY DEF Left, TypeOK

\* The key of a job that is queued, or with a replica, is not left.
LEMMA NotLeft ==
    ASSUME NEW j, InQueue(j)' \/ \E w \in Replicas : HeldBy(j, w)'
    PROVE  j \notin Left'
  BY DEF Left

\* Every step is charged for what it adds.
LEMMA StepsCharged ==
    TypeInv /\ TypeOK' /\ [Next]_vars => Charged(Lost, Lost') /\ Charged(Left, Left')
<1> SUFFICES ASSUME TypeOK, Placed, TypeOK', [Next]_vars
             PROVE  Charged(Lost, Lost') /\ Charged(Left, Left')
  BY DEF TypeInv
<1>h. \A w \in Replicas : pc[w] \in Holds =>
        /\ held[w] \in Copy /\ held[w].job \in Jobs /\ mr[w] \in MRs
        /\ MROf[held[w].job] = mr[w]
  BY DEF Placed, OnBatch, Copy, Holds, Batch
<1>f. \A kind : Fault(kind) => faults' = faults + 1 /\ UNCHANGED <<stops, expiries>>
  BY DEF Fault
<1>n. NoFault => UNCHANGED <<faults, stops, expiries>>
  BY DEF NoFault, used
<1>j. Lost \subseteq Jobs /\ Lost' \subseteq Jobs /\ Left \subseteq Jobs /\ Left' \subseteq Jobs
  BY DEF Lost, Left, TypeOK
\* A step that costs no job, with or without a fault.
<1>c. ASSUME faults' \in {faults, faults + 1}, UNCHANGED <<stops, expiries>>,
             Lost' \subseteq Lost, Left' \subseteq Left
      PROVE  Charged(Lost, Lost') /\ Charged(Left, Left')
  BY <1>c DEF Charged, Nothing
\* A fault that costs one.
<1>o. ASSUME NEW j, \/ faults' = faults + 1 /\ UNCHANGED <<stops, expiries>>
                    \/ stops' = stops + 1 /\ UNCHANGED <<faults, expiries>>,
             Lost' \subseteq Lost \cup {j}, Left' \subseteq Left \cup {j}
      PROVE  Charged(Lost, Lost') /\ Charged(Left, Left')
  BY <1>o DEF Charged, OneMore
<1>l. ASSUME NEW j, j \notin Jobs, Left' \subseteq Left \cup {j} PROVE Left' \subseteq Left
  BY <1>j, <1>l
<1>s. NoJob \notin Jobs
  BY NoneAssumption
<1>1. ASSUME NEW j \in Jobs, HookPush(j) PROVE Charged(Lost, Lost') /\ Charged(Left, Left')
  <2>1. /\ UNCHANGED <<pc, held, processing>>
        /\ \A i \in Jobs \ {j} : fate'[i] = fate[i]
    BY <1>1 DEF HookPush, local, redis, Arrives, Settle, TypeOK
  <2>2. \A i \in Jobs : InQueue(i) => InQueue(i)'
    <3>1. CASE UNCHANGED queue
      BY <3>1 DEF InQueue
    <3>2. CASE queue' = [queue EXCEPT ![MROf[j]] = LPush(queue[MROf[j]], Fresh(j))]
      <4>1. Fresh(j) \in Copy /\ Fresh(j).job = j /\ MROf[j] \in MRs
        BY AttemptsAssumption, MROfAssumption DEF Fresh, Copy
      <4> QED BY <3>2, <4>1, PushKeeps
    <3> QED BY <1>1, <3>1, <3>2 DEF HookPush
  <2>3. Left' \subseteq Left
    BY <2>1, <2>2 DEF Left, HeldBy, TypeOK
  <2>4. Lost' \subseteq Lost \cup {j}
    BY <2>1 DEF Lost
  <2>5. CASE NoFault /\ fate' = [fate EXCEPT ![j] = "live"]
    <3>1. Lost' \subseteq Lost
      BY <2>5 DEF Lost, TypeOK
    <3> QED BY <1>c, <1>n, <2>3, <2>5, <3>1
  <2>6. CASE \E kind : Fault(kind)
    BY <1>f, <1>o, <2>3, <2>4, <2>6
  <2> QED BY <1>1, <2>5, <2>6 DEF HookPush, Arrives, Settle
\* Steps that touch neither queues nor hands nor fates, nor add a key.
<1>2. ASSUME UNCHANGED <<queue, fate>>, processing' \subseteq processing,
             \A w \in Replicas : pc[w] \in Holds => pc'[w] \in Holds /\ held'[w] = held[w],
             NoFault \/ \E kind : Fault(kind)
      PROVE  Charged(Lost, Lost') /\ Charged(Left, Left')
  <2>1. Lost' \subseteq Lost
    BY <1>2 DEF Lost
  <2>2. Left' \subseteq Left
    BY <1>2 DEF Left, InQueue, HeldBy
  <2>3. faults' \in {faults, faults + 1} /\ UNCHANGED <<stops, expiries>>
    BY <1>2, <1>f, <1>n
  <2> QED BY <1>c, <2>1, <2>2, <2>3
<1>3. ASSUME \/ \E j \in Jobs : HookExpire(j) \/ ProcessingExpires(j)
             \/ \E m \in MRs : LockExpires(m)
             \/ UNCHANGED vars
      PROVE  Charged(Lost, Lost') /\ Charged(Left, Left')
  <2>1. /\ UNCHANGED <<queue, fate, pc, held>> /\ processing' \subseteq processing
        /\ NoFault \/ \E kind : Fault(kind)
    BY <1>3 DEF HookExpire, ProcessingExpires, LockExpires, vars, redis, local, history, NoFault
  <2> QED BY <1>2, <2>1
<1>4. ASSUME NEW w \in Replicas,
             \/ Tick(w) \/ EndTick(w) \/ Acquire(w) \/ PopNothing(w) \/ Release(w)
             \/ Restart(w) \/ \E n \in MRs : Skip(w, n) \/ Select(w, n)
      PROVE  Charged(Lost, Lost') /\ Charged(Left, Left')
  <2>1. UNCHANGED <<queue, fate, processing>> /\ (NoFault \/ \E kind : Fault(kind))
    BY <1>4 DEF Tick, EndTick, Skip, Select, Acquire, PopNothing, Release, Restart,
                redis, history, NoFault
  <2>2. \A v \in Replicas : pc[v] \in Holds => pc'[v] \in Holds /\ held'[v] = held[v]
    BY <1>4 DEF Tick, EndTick, Skip, Select, Acquire, PopNothing, Release, Restart,
                Leave, GoTo, TypeOK, Holds
  <2> QED BY <1>2, <2>1, <2>2
<1>5. ASSUME NEW w \in Replicas, PopJob(w) \/ PopLost(w)
      PROVE  Charged(Lost, Lost') /\ Charged(Left, Left')
  <2>1. mr[w] \in MRs /\ Popped(mr[w]) /\ UNCHANGED processing
    BY <1>5 DEF PopJob, PopLost, Placed, OnBatch, Batch
  <2> PICK j : j = Head(queue[mr[w]]).job
    OBVIOUS
  <2>2. \A i \in Jobs : InQueue(i) => InQueue(i)' \/ i = j
    BY <2>1, PopTakesOne
  <2>3. pc[w] \notin Holds /\ \A v \in Replicas \ {w} : pc'[v] = pc[v] /\ held'[v] = held[v]
    BY <1>5 DEF PopJob, PopLost, GoTo, TypeOK, Holds
  <2>4. \/ PopJob(w) /\ NoFault /\ UNCHANGED fate /\ HeldBy(j, w)'
        \/ (\E kind : Fault(kind)) /\ fate' = [fate EXCEPT ![j] = "lost"]
    <3>1. CASE PopJob(w)
      <4>1. pc' = [pc EXCEPT ![w] = "mark"] /\ held' = [held EXCEPT ![w] = Head(queue[mr[w]])]
        BY <3>1 DEF PopJob, GoTo
      <4>2. HeldBy(j, w)'
        BY <4>1 DEF HeldBy, Holds, TypeOK
      <4> QED BY <3>1, <4>2 DEF PopJob, NoFault, history
    <3>2. CASE PopLost(w)
      BY <3>2 DEF PopLost, Settle
    <3> QED BY <1>5, <3>1, <3>2
  <2>5. \A i \in Jobs, v \in Replicas : HeldBy(i, v) => HeldBy(i, v)'
    BY <2>3 DEF HeldBy
  <2>6. Left' \subseteq Left \cup {j}
    BY <2>1, <2>2, <2>5, LeftFrame
  <2>7. CASE PopJob(w) /\ NoFault /\ UNCHANGED fate /\ HeldBy(j, w)'
    <3>1. Left' \subseteq Left /\ Lost' \subseteq Lost
      <4>1. j \notin Left'
        BY <2>7, NotLeft
      <4> QED BY <2>6, <2>7, <4>1 DEF Lost
    <3> QED BY <1>c, <1>n, <2>7, <3>1
  <2>8. CASE (\E kind : Fault(kind)) /\ fate' = [fate EXCEPT ![j] = "lost"]
    <3>1. Lost' \subseteq Lost \cup {j}
      BY <2>8 DEF Lost, TypeOK
    <3> QED BY <1>f, <1>o, <2>6, <2>8, <3>1
  <2> QED BY <2>4, <2>7, <2>8
<1>6. ASSUME NEW w \in Replicas, Mark(w) \/ Run(w)
      PROVE  Charged(Lost, Lost') /\ Charged(Left, Left')
  <2> PICK j : j = held[w].job
    OBVIOUS
  <2>1. /\ UNCHANGED <<queue, held>> /\ processing' \subseteq processing \cup {j}
        /\ pc[w] \in Holds /\ pc'[w] \in Holds /\ \A v \in Replicas \ {w} : pc'[v] = pc[v]
        /\ NoFault \/ \E kind : Fault(kind)
    BY <1>6 DEF Mark, Run, GoTo, TypeOK, redis, Holds, NoFault
  <2>2. /\ \A i \in Jobs, v \in Replicas : HeldBy(i, v) => HeldBy(i, v)'
        /\ HeldBy(j, w)'
    BY <2>1 DEF HeldBy
  <2>3. \A i \in Jobs : InQueue(i) => InQueue(i)'
    BY <2>1 DEF InQueue
  <2>4. Left' \subseteq Left
    <3>1. Left' \subseteq Left \cup {j}
      BY <2>1, <2>2, <2>3, LeftFrame
    <3>2. j \notin Left'
      BY <2>2, NotLeft
    <3> QED BY <3>1, <3>2
  <2>5. Lost' \subseteq Lost
    <3>1. UNCHANGED fate \/ fate' = [fate EXCEPT ![j] = "done"]
      BY <1>6 DEF Mark, Run, Settle, history
    <3> QED BY <3>1 DEF Lost, TypeOK
  <2>6. faults' \in {faults, faults + 1} /\ UNCHANGED <<stops, expiries>>
    BY <1>f, <1>n, <2>1
  <2> QED BY <1>c, <2>4, <2>5, <2>6
<1>7. ASSUME NEW w \in Replicas, Unmark(w) \/ Drop(w)
      PROVE  Charged(Lost, Lost') /\ Charged(Left, Left')
  <2> DEFINE j == held[w].job
  <2>1. /\ UNCHANGED queue /\ j \in Jobs
        /\ \A v \in Replicas \ {w} : pc'[v] = pc[v] /\ held'[v] = held[v]
        /\ \/ NoFault /\ processing' = processing \ {j}
           \/ (\E kind : Fault(kind)) /\ processing' = processing
    BY <1>7, <1>h DEF Unmark, Drop, Unmarked, NextJob, GoTo, TypeOK, Holds
  <2>2. Lost' \subseteq Lost
    <3>1. UNCHANGED fate \/ fate' = [fate EXCEPT ![j] = "dropped"]
      BY <1>7 DEF Unmark, Drop, Settle, history
    <3> QED BY <3>1 DEF Lost, TypeOK
  <2>3. \A i \in Jobs \ {j}, v \in Replicas : HeldBy(i, v) => HeldBy(i, v)'
    BY <2>1 DEF HeldBy
  <2> HIDE DEF j
  <2>4. Left' \subseteq Left \cup {j}
    <3>1. \A i \in Jobs : InQueue(i) => InQueue(i)'
      BY <2>1 DEF InQueue
    <3>2. processing' \subseteq processing
      BY <2>1
    <3> QED BY <2>3, <3>1, <3>2, LeftFrame
  <2>5. CASE NoFault /\ processing' = processing \ {j}
    <3>1. Left' \subseteq Left
      BY <2>4, <2>5 DEF Left
    <3> QED BY <1>c, <1>n, <2>2, <2>5, <3>1
  <2>6. CASE \E kind : Fault(kind)
    <3>1. Lost' \subseteq Lost \cup {j}
      BY <2>2
    <3> QED BY <1>f, <1>o, <2>4, <2>6, <3>1
  <2> QED BY <2>1, <2>5, <2>6
<1>8. ASSUME NEW w \in Replicas, Requeue(w) PROVE Charged(Lost, Lost') /\ Charged(Left, Left')
  <2> PICK j, next : /\ j = held[w].job
                     /\ next = [job |-> held[w].job, attempts |-> held[w].attempts + 1]
    OBVIOUS
  <2>1. /\ UNCHANGED processing /\ held[w] \in Copy
        /\ mr[w] \in MRs /\ MROf[j] = mr[w]
        /\ \A v \in Replicas \ {w} : pc'[v] = pc[v] /\ held'[v] = held[v]
    BY <1>8, <1>h DEF Requeue, NextJob, GoTo, TypeOK, Holds
  <2>2. \A i \in Jobs \ {j}, v \in Replicas : HeldBy(i, v) => HeldBy(i, v)'
    BY <1>8, <2>1 DEF HeldBy
  <2>3. next \in Copy /\ next.job = j
    BY <1>8, <2>1, AttemptsAssumption DEF Requeue, MayRetry, Copy
  <2>4. \/ /\ NoFault \/ \E kind : Fault(kind)
           /\ queue' = [queue EXCEPT ![mr[w]] = LPush(queue[mr[w]], next)] /\ UNCHANGED fate
        \/ /\ \E kind : Fault(kind)
           /\ UNCHANGED queue /\ fate' = [fate EXCEPT ![j] = "lost"]
    BY <1>8 DEF Requeue, Settle
  <2>5. CASE /\ NoFault \/ \E kind : Fault(kind)
             /\ queue' = [queue EXCEPT ![mr[w]] = LPush(queue[mr[w]], next)] /\ UNCHANGED fate
    <3>1. InQueue(j)' /\ \A i \in Jobs : InQueue(i) => InQueue(i)'
      <4>1. InQueue(next.job)' /\ \A i \in Jobs : InQueue(i) => InQueue(i)'
        BY <2>1, <2>3, <2>5, PushKeeps
      <4> QED BY <2>3, <4>1
    <3>2. Left' \subseteq Left \cup {j}
      BY <2>1, <2>2, <3>1, LeftFrame
    <3>3. Left' \subseteq Left /\ Lost' \subseteq Lost
      <4>1. j \notin Left'
        BY <3>1, NotLeft
      <4> QED BY <2>5, <3>2, <4>1 DEF Lost
    <3>4. faults' \in {faults, faults + 1} /\ UNCHANGED <<stops, expiries>>
      BY <1>f, <1>n, <2>5
    <3> QED BY <1>c, <3>3, <3>4
  <2>6. CASE /\ \E kind : Fault(kind)
             /\ UNCHANGED queue /\ fate' = [fate EXCEPT ![j] = "lost"]
    <3>1. \A i \in Jobs : InQueue(i) => InQueue(i)'
      BY <2>6 DEF InQueue
    <3>2. Left' \subseteq Left \cup {j}
      BY <2>1, <2>2, <3>1, LeftFrame
    <3>3. Lost' \subseteq Lost \cup {j}
      BY <2>6 DEF Lost, TypeOK
    <3> QED BY <1>f, <1>o, <2>6, <3>2, <3>3
  <2> QED BY <2>4, <2>5, <2>6
<1>9. ASSUME NEW m \in MRs, QueueExpires(m) PROVE Charged(Lost, Lost') /\ Charged(Left, Left')
  <2>1. \A n \in MRs : queue'[n] = IF n = m THEN <<>> ELSE queue[n]
    BY <1>9, ExpiredPlaces
  <2>2. /\ UNCHANGED <<pc, held, processing, faults, stops>> /\ expiries' = expiries + 1
        /\ \A j \in Jobs : fate'[j] = IF \E i \in DOMAIN queue[m] : queue[m][i].job = j
                                      THEN "lost" ELSE fate[j]
    BY <1>9 DEF QueueExpires, local
  <2>3. \A i \in DOMAIN queue[m] : MROf[queue[m][i].job] = m
    BY DEF Placed, QueuedHere
  <2>4. \A j \in Lost' : j \in Lost \/ MROf[j] = m
    BY <2>2, <2>3 DEF Lost
  <2>5. \A j \in Left' : j \in Left \/ MROf[j] = m
    BY <2>1, <2>2, MROfAssumption DEF Left, InQueue, HeldBy, TypeOK
  <2> QED BY <2>2, <2>4, <2>5 DEF Charged, OneLineMore
<1>10. ASSUME NEW w \in Replicas, Stop(w) PROVE Charged(Lost, Lost') /\ Charged(Left, Left')
  <2> DEFINE j == held[w].job
  <2>1. /\ UNCHANGED <<queue, processing, faults, expiries>> /\ stops' = stops + 1
        /\ \A v \in Replicas \ {w} : pc'[v] = pc[v] /\ held'[v] = held[v]
        /\ UNCHANGED fate \/ fate' = [fate EXCEPT ![j] = "lost"]
    BY <1>10 DEF Stop, redis, TypeOK, Settle
  <2>2. Lost' \subseteq Lost \cup {j}
    BY <2>1 DEF Lost, TypeOK
  <2>3. \A i \in Jobs \ {j}, v \in Replicas : HeldBy(i, v) => HeldBy(i, v)'
    BY <2>1 DEF HeldBy
  <2>4. \A i \in Jobs : InQueue(i) => InQueue(i)'
    BY <2>1 DEF InQueue
  <2> HIDE DEF j
  <2>5. Left' \subseteq Left \cup {j}
    BY <2>1, <2>3, <2>4, LeftFrame
  <2> QED BY <1>o, <2>1, <2>2, <2>5
<1> QED
  BY <1>1, <1>3, <1>4, <1>5, <1>6, <1>7, <1>8, <1>9, <1>10
  DEF Next, Handler, Processor, BatchStep

\* Losses and keys stay within the failures.
LEMMA LossNext == TypeInv /\ TypeOK' /\ LossInv /\ [Next]_vars => LossInv'
  BY StepsCharged, Charges DEF LossInv, TypeInv

LEMMA LossInit == Init => LossInv
<1> SUFFICES ASSUME Init PROVE LossInv
  OBVIOUS
<1>1. Lost = {} /\ Left = {} /\ faults = 0 /\ stops = 0 /\ expiries = 0
  BY DEF Init, Lost, Left
<1>2. IsFiniteSet({}) /\ Cardinality({}) = 0
  BY FS_EmptySet
<1>3. {MROf[j] : j \in {}} = {}
  OBVIOUS
<1>4. Within({}, 0, 0)
  BY <1>2, <1>3 DEF Within
<1> QED BY <1>1, <1>4 DEF LossInv

\* What is within the failures may be blamed on them, and so may any part of it.
LEMMA PartBlameless ==
    ASSUME TypeOK, NEW js, NEW part \in SUBSET js, Within(js, faults + stops, expiries)
    PROVE  Blameless(part)
<1> DEFINE ms == {MROf[j] : j \in js}
           ns == {MROf[j] : j \in part}
<1>1. faults \in Nat /\ stops \in Nat /\ expiries \in Nat
  BY DEF TypeOK
<1>2. ns \subseteq ms /\ part \subseteq js
  OBVIOUS
<1>3. /\ expiries = 0 => IsFiniteSet(js) /\ Cardinality(js) <= faults + stops
      /\ IsFiniteSet(ms) /\ Cardinality(ms) <= faults + stops + expiries
  BY DEF Within
<1> SUFFICES /\ expiries = 0 => Cardinality(part) <= faults + stops
             /\ Cardinality(ns) <= faults + stops + expiries
  BY DEF Blameless
<1> HIDE DEF ms, ns
<1>4. \A S, T : IsFiniteSet(S) /\ T \subseteq S =>
        /\ Cardinality(T) <= Cardinality(S) /\ Cardinality(T) \in Nat /\ Cardinality(S) \in Nat
  BY FS_Subset, FS_CardinalityType
<1>5. /\ expiries = 0 => /\ Cardinality(part) <= Cardinality(js)
                         /\ Cardinality(part) \in Nat /\ Cardinality(js) \in Nat
      /\ Cardinality(ns) <= Cardinality(ms)
      /\ Cardinality(ns) \in Nat /\ Cardinality(ms) \in Nat
  BY <1>2, <1>3, <1>4
<1> QED BY <1>1, <1>3, <1>5

\* Whatever fails, stops, expires or is sent twice: every failing command and
\* every stop costs one job at the most, every expired queue those of one merge
\* request, and every other job is finished, queued or with a running replica.
THEOREM LossesBounded == Spec => []OneJobPerFailure
<1>1. TypeInv /\ LiveInv /\ LossInv => OneJobPerFailure
  <2> SUFFICES ASSUME TypeOK, LiveInv, LossInv PROVE OneJobPerFailure
    BY DEF TypeInv
  <2>1. Missing \subseteq Lost
    BY DEF Missing, Lost, LiveInv, TypeOK, Final
  <2> QED BY <2>1, PartBlameless DEF LossInv, OneJobPerFailure
<1>2. TypeInv => TypeOK
  BY DEF TypeInv
<1> QED BY <1>1, <1>2, LiveInit, LiveNext, LossInit, LossNext, TypeInit, TypeNext, PTL DEF Spec

\* Whatever fails, stops, expires or is sent twice: every failing command and
\* every stop leaves one processing key at the most whose job nobody has, every
\* expired queue those of one merge request.
THEOREM KeysBounded == Spec => []OneKeyPerFailure
<1>1. TypeInv /\ LossInv => OneKeyPerFailure
  BY PartBlameless DEF TypeInv, LossInv, OneKeyPerFailure
<1>2. TypeInv => TypeOK
  BY DEF TypeInv
<1> QED BY <1>1, <1>2, LossInit, LossNext, TypeInit, TypeNext, PTL DEF Spec
=============================================================================
