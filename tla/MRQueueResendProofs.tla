------------------------- MODULE MRQueueResendProofs -------------------------
(* MRQueue when the Redis client sends commands again: how often can a job *)
(* run?  Every copy of a job, in its queue or in the hands of a replica,   *)
(* is worth the runs it has left, one token each.  A run spends a token, a *)
(* copy that moves takes its tokens along, and only a command that is sent *)
(* again mints new ones, MaxAttempts at the most.                          *)
EXTENDS MRQueueProofs, FiniteSetTheorems

-----------------------------------------------------------------------------

RunsOf == 0 .. MaxAttempts - 1

\* The copy that stands at place i of the queue of j may have its k-th run.
Waits(j, i, k) ==
    /\ i \in DOMAIN queue[MROf[j]] /\ queue[MROf[j]][i].job = j
    /\ k \in RunsOf /\ queue[MROf[j]][i].attempts <= k

\* So may the copy in the hands of w, which has had one more if w is about to
\* push it again.
Works(j, w, k) ==
    /\ w \in Replicas /\ pc[w] \in {"mark", "run", "retry"} /\ held[w].job = j
    /\ k \in RunsOf
    /\ held[w].attempts + (IF pc[w] = "retry" THEN 1 ELSE 0) <= k

Tokens(j) ==
    {x \in {"queue"} \X (DOMAIN queue[MROf[j]]) \X RunsOf : Waits(j, x[2], x[3])}
      \cup {x \in {"hands"} \X Replicas \X RunsOf : Works(j, x[2], x[3])}

\* A delivery that has not been answered may still become a copy.
Unborn(j) == IF hook[j] = "new" THEN MaxAttempts ELSE 0

Budget(j) ==
    /\ IsFiniteSet(Tokens(j))
    /\ runs[j] + Cardinality(Tokens(j)) + Unborn(j) <= MaxAttempts * (1 + faults)

BudgetInv == \A j \in Jobs : Budget(j)

\* What a token is.
LEMMA TokenIs ==
    ASSUME NEW j \in Jobs
    PROVE  /\ \A x \in Tokens(j) : \/ \E i, k : x = <<"queue", i, k>> /\ Waits(j, i, k)
                                  \/ \E w, k : x = <<"hands", w, k>> /\ Works(j, w, k)
           /\ \A i, k : <<"queue", i, k>> \in Tokens(j) <=> Waits(j, i, k)
           /\ \A w, k : <<"hands", w, k>> \in Tokens(j) <=> Works(j, w, k)
  BY DEF Tokens, Waits, Works

\* The same after a step.
LEMMA TokenIsNext ==
    ASSUME NEW j \in Jobs
    PROVE  /\ \A x \in Tokens(j)' : \/ \E i, k : x = <<"queue", i, k>> /\ Waits(j, i, k)'
                                   \/ \E w, k : x = <<"hands", w, k>> /\ Works(j, w, k)'
           /\ \A i, k : <<"queue", i, k>> \in Tokens(j)' <=> Waits(j, i, k)'
           /\ \A w, k : <<"hands", w, k>> \in Tokens(j)' <=> Works(j, w, k)'
  BY DEF Tokens, Waits, Works

\* Tokens that can be traced back to different tokens are no more in number.
LEMMA Traced ==
    ASSUME NEW S, NEW T, IsFiniteSet(T), NEW f \in [S -> T],
           \A x, y \in S : f[x] = f[y] => x = y
    PROVE  IsFiniteSet(S) /\ Cardinality(S) <= Cardinality(T)
<1>1. f \in Injection(S, T)
  BY DEF Injection, IsInjective
<1> QED BY <1>1, FS_Injection

\* A step after which every token is an old one.
LEMMA NoNewTokens ==
    ASSUME NEW j \in Jobs,
           \A i, k : Waits(j, i, k)' => Waits(j, i, k),
           \A w, k : Works(j, w, k)' => Works(j, w, k)
    PROVE  Tokens(j)' \subseteq Tokens(j)
<1> SUFFICES ASSUME NEW x \in Tokens(j)' PROVE x \in Tokens(j)
  OBVIOUS
<1>1. CASE \E i, k : x = <<"queue", i, k>> /\ Waits(j, i, k)'
  BY <1>1, TokenIs
<1>2. CASE \E w, k : x = <<"hands", w, k>> /\ Works(j, w, k)'
  BY <1>2, TokenIs
<1> QED BY <1>1, <1>2, TokenIsNext

\* The tokens of one new copy.
Mint(n) == {"queue"} \X {n} \X RunsOf

\* They are as many as a job may have runs.
LEMMA MintSize == \A n : IsFiniteSet(Mint(n)) /\ Cardinality(Mint(n)) <= MaxAttempts
<1> SUFFICES ASSUME NEW n
             PROVE  IsFiniteSet(Mint(n)) /\ Cardinality(Mint(n)) <= MaxAttempts
  OBVIOUS
<1>1. MaxAttempts \in Nat \ {0}
  BY AttemptsAssumption
<1>2. IsFiniteSet(RunsOf) /\ Cardinality(RunsOf) = MaxAttempts
  BY <1>1, FS_Interval DEF RunsOf
<1> DEFINE f == [x \in Mint(n) |-> x[3]]
<1>3. f \in [Mint(n) -> RunsOf] /\ \A x, y \in Mint(n) : f[x] = f[y] => x = y
  BY DEF Mint
<1> HIDE DEF f
<1> QED BY <1>2, <1>3, Traced

\* Who adds at most the tokens of one new copy adds at most MaxAttempts.
LEMMA Minted ==
    ASSUME NEW S, NEW T, NEW n, IsFiniteSet(T), S \subseteq T \cup Mint(n)
    PROVE  /\ IsFiniteSet(S) /\ Cardinality(S) \in Nat /\ Cardinality(T) \in Nat
           /\ Cardinality(S) <= Cardinality(T) + MaxAttempts
<1>1. IsFiniteSet(Mint(n)) /\ Cardinality(Mint(n)) <= MaxAttempts /\ MaxAttempts \in Nat
  BY MintSize, AttemptsAssumption
<1>2. /\ IsFiniteSet(T \cup Mint(n)) /\ IsFiniteSet(T \cap Mint(n))
      /\ Cardinality(T \cup Mint(n))
           = Cardinality(T) + Cardinality(Mint(n)) - Cardinality(T \cap Mint(n))
  BY <1>1, FS_Union, FS_Intersection
<1>3. /\ Cardinality(T) \in Nat /\ Cardinality(Mint(n)) \in Nat
      /\ Cardinality(T \cap Mint(n)) \in Nat
  BY <1>1, <1>2, FS_CardinalityType
<1>4. IsFiniteSet(S) /\ Cardinality(S) <= Cardinality(T \cup Mint(n))
  BY <1>2, FS_Subset
<1>5. Cardinality(S) \in Nat
  BY <1>4, FS_CardinalityType
<1> QED BY <1>1, <1>2, <1>3, <1>4, <1>5

\* Pushing a copy makes tokens for that copy only.
LEMMA PushTokens ==
    ASSUME TypeInv, NEW m \in MRs, NEW c \in Copy,
           queue' = [queue EXCEPT ![m] = LPush(queue[m], c)],
           NEW j \in Jobs, NEW i, NEW k, Waits(j, i, k)'
    PROVE  \/ Waits(j, i, k)
           \/ /\ i = Len(queue[m]) + 1 /\ MROf[j] = m
              /\ c.job = j /\ k \in RunsOf /\ c.attempts <= k
<1>1. queue \in [MRs -> Seq(Copy)] /\ queue[m] \in Seq(Copy) /\ MROf[j] \in MRs
  BY MROfAssumption DEF TypeInv, TypeOK
<1>2. CASE MROf[j] # m
  BY <1>1, <1>2 DEF Waits
<1>3. CASE MROf[j] = m
  <2>1. queue'[m] = LPush(queue[m], c)
    BY <1>1
  <2>2. /\ DOMAIN LPush(queue[m], c) = 1 .. Len(queue[m]) + 1
        /\ DOMAIN queue[m] = 1 .. Len(queue[m]) /\ Len(queue[m]) \in Nat
        /\ \A n \in 1 .. Len(queue[m]) : LPush(queue[m], c)[n] = queue[m][n]
        /\ LPush(queue[m], c)[Len(queue[m]) + 1] = c
    <3>1. queue[m] \in Seq(Copy) /\ c \in Copy
      BY <1>1
    <3> QED BY <3>1 DEF LPush
  <2>3. i \in 1 .. Len(queue[m]) \/ i = Len(queue[m]) + 1
    BY <1>3, <2>1, <2>2 DEF Waits
  <2> QED BY <1>3, <2>1, <2>2, <2>3 DEF Waits
<1> QED BY <1>2, <1>3

\* Popping the head moves every other copy of the queue.
LEMMA PopTokens ==
    ASSUME TypeInv, NEW m \in MRs, Popped(m), NEW j \in Jobs, NEW i, NEW k, Waits(j, i, k)'
    PROVE  IF MROf[j] = m THEN i \in Nat \ {0} /\ Waits(j, i + 1, k) ELSE Waits(j, i, k)
<1>1. /\ queue \in [MRs -> Seq(Copy)] /\ queue[m] \in Seq(Copy) /\ MROf[j] \in MRs
      /\ queue[m] # <<>> /\ queue' = [queue EXCEPT ![m] = RPop(queue[m])]
  BY MROfAssumption DEF TypeInv, TypeOK, Popped
<1>2. CASE MROf[j] # m
  BY <1>1, <1>2 DEF Waits
<1>3. CASE MROf[j] = m
  <2>1. queue'[m] = RPop(queue[m])
    BY <1>1
  <2>2. /\ DOMAIN RPop(queue[m]) = 1 .. Len(queue[m]) - 1
        /\ DOMAIN queue[m] = 1 .. Len(queue[m]) /\ Len(queue[m]) \in Nat \ {0}
        /\ \A n \in 1 .. Len(queue[m]) - 1 : RPop(queue[m])[n] = queue[m][n + 1]
    BY <1>1, PopLemma
  <2>3. i \in 1 .. Len(queue[m]) - 1
    BY <1>3, <2>1, <2>2 DEF Waits
  <2> QED BY <1>3, <2>1, <2>2, <2>3 DEF Waits
<1> QED BY <1>2, <1>3

\* Whether the copy that is popped gets into somebody's hands or nobody's, it
\* brings no tokens that were not there.
LEMMA PoppedTokens ==
    ASSUME TypeInv, NEW m \in MRs, Popped(m), NEW w \in Replicas, pc[w] = "pop",
           NEW j \in Jobs, IsFiniteSet(Tokens(j)),
           \A v, k : Works(j, v, k)' =>
             \/ Works(j, v, k) /\ v # w
             \/ v = w /\ MROf[j] = m /\ Waits(j, 1, k)
    PROVE  IsFiniteSet(Tokens(j)') /\ Cardinality(Tokens(j)') <= Cardinality(Tokens(j))
<1>1. CASE MROf[j] # m
  <2>1. Tokens(j)' \subseteq Tokens(j)
    BY <1>1, PopTokens, NoNewTokens
  <2> QED BY <2>1, FS_Subset
<1>2. CASE MROf[j] = m
  <2> DEFINE From(x) == IF x[1] = "queue" THEN <<"queue", x[2] + 1, x[3]>>
                        ELSE IF x[2] = w THEN <<"queue", 1, x[3]>> ELSE x
             f == [x \in Tokens(j)' |-> From(x)]
  <2>1. ASSUME NEW x \in Tokens(j)'
        PROVE  /\ From(x) \in Tokens(j)
               /\ \/ \E i \in Nat \ {0} : \E k : x = <<"queue", i, k>> /\ From(x) = <<"queue", i + 1, k>>
                  \/ \E k : x = <<"hands", w, k>> /\ From(x) = <<"queue", 1, k>>
                  \/ \E v, k : v # w /\ x = <<"hands", v, k>> /\ From(x) = x
    <3>1. CASE \E i, k : x = <<"queue", i, k>> /\ Waits(j, i, k)'
      <4>1. PICK i, k : x = <<"queue", i, k>> /\ Waits(j, i, k)'
        BY <3>1
      <4>2. i \in Nat \ {0} /\ Waits(j, i + 1, k)
        BY <1>2, <4>1, PopTokens
      <4>3. From(x) = <<"queue", i + 1, k>>
        BY <4>1
      <4> QED BY <4>1, <4>2, <4>3, TokenIs
    <3>2. CASE \E v, k : x = <<"hands", v, k>> /\ Works(j, v, k)'
      <4>1. PICK v, k : x = <<"hands", v, k>> /\ Works(j, v, k)'
        BY <3>2
      <4>2. CASE v = w
        <5>1. Waits(j, 1, k)
          BY <4>1, <4>2
        <5>2. From(x) = <<"queue", 1, k>>
          BY <4>1, <4>2
        <5> QED BY <4>1, <4>2, <5>1, <5>2, TokenIs
      <4>3. CASE v # w
        <5>1. Works(j, v, k)
          BY <4>1, <4>3
        <5>2. From(x) = x
          BY <4>1, <4>3
        <5> QED BY <4>1, <4>3, <5>1, <5>2, TokenIs
      <4> QED BY <4>2, <4>3
    <3> QED BY <3>1, <3>2, TokenIsNext
  <2> HIDE DEF From
  <2>2. f \in [Tokens(j)' -> Tokens(j)]
    BY <2>1
  <2>3. ASSUME NEW x \in Tokens(j)', NEW y \in Tokens(j)', From(x) = From(y)
        PROVE  x = y
    <3>1. CASE \E i \in Nat \ {0} : \E k : x = <<"queue", i, k>> /\ From(x) = <<"queue", i + 1, k>>
      BY <2>1, <2>3, <3>1
    <3>2. CASE \E k : x = <<"hands", w, k>> /\ From(x) = <<"queue", 1, k>>
      BY <2>1, <2>3, <3>2
    <3>3. CASE \E v, k : v # w /\ x = <<"hands", v, k>> /\ From(x) = x
      BY <2>1, <2>3, <3>3
    <3> QED BY <2>1, <3>1, <3>2, <3>3
  <2>4. \A x, y \in Tokens(j)' : f[x] = f[y] => x = y
    BY <2>3
  <2> HIDE DEF f
  <2> QED BY <2>2, <2>4, Traced
<1> QED BY <1>1, <1>2

-----------------------------------------------------------------------------
(* The budget of a job.                                                    *)

\* What a larger number of faults allows.
LEMMA MoreFaults ==
    ASSUME NEW a \in Nat, NEW b \in Nat
    PROVE  /\ a <= b => MaxAttempts * (1 + a) <= MaxAttempts * (1 + b)
           /\ b = a + 1 => MaxAttempts * (1 + b) = MaxAttempts * (1 + a) + MaxAttempts
           /\ MaxAttempts * (1 + a) \in Nat
<1>1. MaxAttempts \in Nat
  BY AttemptsAssumption
<1>2. MaxAttempts * (1 + a) \in Nat
  BY <1>1
<1>3. a <= b => MaxAttempts * (1 + a) <= MaxAttempts * (1 + b)
  <2> SUFFICES ASSUME a <= b PROVE MaxAttempts * (1 + a) <= MaxAttempts * (1 + b)
    OBVIOUS
  <2>1. b - a \in Nat /\ MaxAttempts * (b - a) \in Nat
    BY <1>1
  <2>2. MaxAttempts * (1 + b) = MaxAttempts * (1 + a) + MaxAttempts * (b - a)
    BY <1>1
  <2> QED BY <1>2, <2>1, <2>2
<1>4. b = a + 1 => MaxAttempts * (1 + b) = MaxAttempts * (1 + a) + MaxAttempts
  BY <1>1
<1> QED BY <1>2, <1>3, <1>4

\* The numbers a budget is made of.
LEMMA BudgetNumbers ==
    ASSUME TypeInv, NEW j \in Jobs, IsFiniteSet(Tokens(j))
    PROVE  /\ runs[j] \in Nat /\ Cardinality(Tokens(j)) \in Nat /\ Unborn(j) \in Nat
           /\ Unborn(j) = (IF hook[j] = "new" THEN MaxAttempts ELSE 0)
           /\ faults \in Nat /\ MaxAttempts \in Nat
  BY FS_CardinalityType, AttemptsAssumption DEF TypeInv, TypeOK, Unborn

\* Faults only grow in number, and a handler that has pushed does not start
\* again, unless its push is sent again.
LEMMA FaultsGrow ==
    ASSUME TypeInv, [Next]_vars
    PROVE  /\ faults \in Nat /\ faults' \in Nat /\ faults' >= faults
           /\ \A j \in Jobs : hook'[j] = "new" => hook[j] = "new"
<1>1. faults \in Nat /\ faults' \in Nat
  BY TypeNext DEF TypeInv, TypeOK
<1>2. UNCHANGED faults \/ faults' = faults + 1
  BY DEF Next, Handler, Processor, BatchStep, HookPush, HookExpire, Tick, Skip, Select, EndTick,
         Acquire, PopJob, PopNothing, PopLost, Mark, Run, Unmark, Requeue, Drop, Release,
         LockExpires, QueueExpires, ProcessingExpires, Stop, Restart, NoFault, Fault, used, vars
<1>3. \A j \in Jobs : hook'[j] = "new" => hook[j] = "new"
  BY DEF Next, Handler, Processor, BatchStep, HookPush, HookExpire, Tick, Skip, Select, EndTick,
         Acquire, PopJob, PopNothing, PopLost, Mark, Run, Unmark, Requeue, Drop, Release,
         LockExpires, QueueExpires, ProcessingExpires, Stop, Restart, vars, TypeInv, TypeOK
<1> QED BY <1>1, <1>2, <1>3

\* A step that leaves no more runs and tokens keeps the budget.
LEMMA BudgetKept ==
    ASSUME TypeInv, [Next]_vars, NEW j \in Jobs, Budget(j), IsFiniteSet(Tokens(j)'),
           runs'[j] + Cardinality(Tokens(j)') <= runs[j] + Cardinality(Tokens(j))
    PROVE  Budget(j)'
<1>1. TypeInv' /\ (Cardinality(Tokens(j)) \in Nat /\ Unborn(j) \in Nat /\ runs[j] \in Nat)
  BY TypeNext, BudgetNumbers DEF Budget
<1>2. Cardinality(Tokens(j)') \in Nat /\ runs'[j] \in Nat
  BY <1>1, FS_CardinalityType DEF TypeInv, TypeOK
<1>3. Unborn(j)' \in Nat /\ Unborn(j)' <= Unborn(j)
  BY FaultsGrow, AttemptsAssumption DEF Unborn
<1>4. /\ MaxAttempts * (1 + faults) <= MaxAttempts * (1 + faults')
      /\ MaxAttempts * (1 + faults) \in Nat /\ MaxAttempts * (1 + faults') \in Nat
  BY FaultsGrow, MoreFaults
<1>5. runs[j] + Cardinality(Tokens(j)) + Unborn(j) <= MaxAttempts * (1 + faults)
  BY DEF Budget
<1>6. runs'[j] + Cardinality(Tokens(j)') + Unborn(j)' <= MaxAttempts * (1 + faults')
  BY <1>1, <1>2, <1>3, <1>4, <1>5
<1> QED BY <1>6 DEF Budget

\* So does one that runs nothing and makes no token.
LEMMA BudgetSame ==
    ASSUME TypeInv, [Next]_vars, NEW j \in Jobs, Budget(j),
           runs'[j] = runs[j], Tokens(j)' \subseteq Tokens(j)
    PROVE  Budget(j)'
<1>1. IsFiniteSet(Tokens(j)') /\ Cardinality(Tokens(j)') <= Cardinality(Tokens(j))
  BY FS_Subset DEF Budget
<1>2. runs[j] \in Nat /\ Cardinality(Tokens(j)) \in Nat /\ Cardinality(Tokens(j)') \in Nat
  BY <1>1, FS_CardinalityType DEF TypeInv, TypeOK, Budget
<1> QED BY <1>1, <1>2, BudgetKept

\* A new copy is paid for by the delivery that was not answered, or by the
\* fault that sent the command again.
LEMMA BudgetMinted ==
    ASSUME TypeInv, [Next]_vars, NEW j \in Jobs, Budget(j), runs'[j] = runs[j], NEW n,
           Tokens(j)' \subseteq Tokens(j) \cup Mint(n),
           (hook[j] = "new" /\ hook'[j] # "new") \/ faults' = faults + 1
    PROVE  Budget(j)'
<1>1. /\ IsFiniteSet(Tokens(j)') /\ Cardinality(Tokens(j)') \in Nat
      /\ Cardinality(Tokens(j)) \in Nat
      /\ Cardinality(Tokens(j)') <= Cardinality(Tokens(j)) + MaxAttempts
  BY Minted DEF Budget
<1>2. runs[j] \in Nat /\ Unborn(j) \in Nat /\ MaxAttempts \in Nat
  BY BudgetNumbers DEF Budget
<1>3. /\ Unborn(j)' \in Nat /\ Unborn(j)' <= Unborn(j)
      /\ hook[j] = "new" /\ hook'[j] # "new" => Unborn(j)' = Unborn(j) - MaxAttempts
  BY FaultsGrow, AttemptsAssumption DEF Unborn
<1>4. /\ MaxAttempts * (1 + faults) <= MaxAttempts * (1 + faults')
      /\ faults' = faults + 1 =>
           MaxAttempts * (1 + faults') = MaxAttempts * (1 + faults) + MaxAttempts
      /\ MaxAttempts * (1 + faults) \in Nat /\ MaxAttempts * (1 + faults') \in Nat
  BY FaultsGrow, MoreFaults
<1>5. runs[j] + Cardinality(Tokens(j)) + Unborn(j) <= MaxAttempts * (1 + faults)
  BY DEF Budget
<1>6. runs'[j] + Cardinality(Tokens(j)') + Unborn(j)' <= MaxAttempts * (1 + faults')
  BY <1>1, <1>2, <1>3, <1>4, <1>5
<1> QED BY <1>1, <1>6 DEF Budget

-----------------------------------------------------------------------------

\* No step spends more than the budget of a job.
LEMMA BudgetNext == TypeInv /\ BudgetInv /\ [Next]_vars => BudgetInv'
<1> SUFFICES ASSUME TypeInv, [Next]_vars, NEW j \in Jobs, Budget(j) PROVE Budget(j)'
  BY DEF BudgetInv
<1>p. \A v, w \in Replicas : \A place :
        GoTo(w, place) => pc'[v] = IF v = w THEN place ELSE pc[v]
  BY DEF GoTo, TypeInv, TypeOK
<1>c. \A w \in Replicas : pc[w] \in Holds =>
        held[w] \in Copy /\ mr[w] \in MRs /\ MROf[held[w].job] = mr[w]
  BY DEF TypeInv, Placed, OnBatch, Holds, Batch
<1>1. ASSUME NEW i \in Jobs, HookPush(i) PROVE Budget(j)'
  <2> DEFINE n == Len(queue[MROf[i]]) + 1
  <2>1. /\ UNCHANGED <<runs, pc, held>>
        /\ \/ UNCHANGED queue
           \/ /\ queue' = [queue EXCEPT ![MROf[i]] = LPush(queue[MROf[i]], Fresh(i))]
              /\ hook[i] = "new" /\ (hook'[i] # "new" \/ faults' = faults + 1)
    BY <1>1 DEF HookPush, local, TypeInv, TypeOK, Fault
  <2>2. \A w, k : Works(j, w, k)' => Works(j, w, k)
    BY <2>1 DEF Works
  <2>3. CASE UNCHANGED queue
    <3>1. \A a, k : Waits(j, a, k)' => Waits(j, a, k)
      BY <2>3 DEF Waits
    <3> QED BY <2>1, <2>2, <3>1, NoNewTokens, BudgetSame
  <2>4. CASE queue' = [queue EXCEPT ![MROf[i]] = LPush(queue[MROf[i]], Fresh(i))]
    <3>1. Fresh(i) \in Copy /\ MROf[i] \in MRs /\ Fresh(i).job = i
      BY MROfAssumption, AttemptsAssumption DEF Fresh, Copy
    <3>2. \A a, k : Waits(j, a, k)' => Waits(j, a, k) \/ (a = n /\ i = j /\ k \in RunsOf)
      BY <2>4, <3>1, PushTokens
    <3> HIDE DEF n
    <3>3. CASE i # j
      BY <2>1, <2>2, <3>2, <3>3, NoNewTokens, BudgetSame
    <3>4. CASE i = j
      <4>1. Tokens(j)' \subseteq Tokens(j) \cup Mint(n)
        BY <2>2, <3>2, TokenIs, TokenIsNext DEF Mint
      <4>2. (hook[j] = "new" /\ hook'[j] # "new") \/ faults' = faults + 1
            \/ UNCHANGED queue
        BY <2>1, <3>4
      <4>3. CASE UNCHANGED queue
        BY <2>3, <4>3
      <4> QED BY <2>1, <4>1, <4>2, <4>3, BudgetMinted
    <3> QED BY <3>3, <3>4
  <2> QED BY <2>1, <2>3, <2>4
<1>2. ASSUME NEW w \in Replicas, PopJob(w) PROVE Budget(j)'
  <2>1. /\ pc[w] = "pop" /\ Popped(mr[w]) /\ UNCHANGED runs
        /\ held' = [held EXCEPT ![w] = Head(queue[mr[w]])] /\ GoTo(w, "mark")
    BY <1>2 DEF PopJob, history
  <2>2. mr[w] \in MRs
    BY <2>1 DEF TypeInv, Placed, OnBatch, Batch
  <2>3. /\ Head(queue[mr[w]]) = queue[mr[w]][1] /\ 1 \in DOMAIN queue[mr[w]]
        /\ MROf[Head(queue[mr[w]]).job] = mr[w] /\ Head(queue[mr[w]]).attempts \in Int
    <3>1. queue[mr[w]] \in Seq(Copy) /\ queue[mr[w]] # <<>>
      BY <2>1, <2>2 DEF TypeInv, TypeOK, Popped
    <3>2. Head(queue[mr[w]]) = queue[mr[w]][1] /\ 1 \in DOMAIN queue[mr[w]]
      BY <3>1, PopLemma
    <3>3. queue[mr[w]][1] \in Copy
      BY <3>1, <3>2
    <3> QED BY <2>2, <3>2, <3>3, AttemptsAssumption DEF TypeInv, Placed, QueuedHere, Copy
  <2>4. ASSUME NEW v, NEW k, Works(j, v, k)'
        PROVE  \/ Works(j, v, k) /\ v # w
               \/ v = w /\ MROf[j] = mr[w] /\ Waits(j, 1, k)
    <3>1. CASE v = w
      <4>1. held'[w] = Head(queue[mr[w]]) /\ pc'[w] = "mark"
        BY <1>p, <2>1 DEF TypeInv, TypeOK
      <4> QED BY <2>3, <2>4, <3>1, <4>1 DEF Works, Waits
    <3>2. CASE v # w
      <4>1. v \in Replicas => held'[v] = held[v] /\ pc'[v] = pc[v]
        BY <1>p, <2>1, <3>2 DEF TypeInv, TypeOK
      <4> QED BY <2>4, <3>2, <4>1 DEF Works
    <3> QED BY <3>1, <3>2
  <2>5. IsFiniteSet(Tokens(j)') /\ Cardinality(Tokens(j)') <= Cardinality(Tokens(j))
    BY <2>1, <2>2, <2>4, PoppedTokens DEF Budget
  <2> QED BY <2>1, <2>5, BudgetKept, BudgetNumbers, FS_CardinalityType DEF Budget
<1>3. ASSUME NEW w \in Replicas, PopLost(w) PROVE Budget(j)'
  <2>1. /\ pc[w] = "pop" /\ Popped(mr[w]) /\ UNCHANGED <<runs, held>>
        /\ GoTo(w, "release") \/ UNCHANGED pc
    BY <1>3 DEF PopLost
  <2>2. mr[w] \in MRs
    BY <2>1 DEF TypeInv, Placed, OnBatch, Batch
  <2>3. \A v, k : Works(j, v, k)' => Works(j, v, k) /\ v # w
    BY <1>p, <2>1 DEF Works
  <2>4. IsFiniteSet(Tokens(j)') /\ Cardinality(Tokens(j)') <= Cardinality(Tokens(j))
    BY <2>1, <2>2, <2>3, PoppedTokens DEF Budget
  <2> QED BY <2>1, <2>4, BudgetKept, BudgetNumbers, FS_CardinalityType DEF Budget
<1>4. ASSUME NEW w \in Replicas, Run(w) PROVE Budget(j)'
  <2>1. /\ pc[w] = "run" /\ UNCHANGED <<queue, held>>
        /\ runs' = [runs EXCEPT ![held[w].job] = runs[held[w].job] + 1]
        /\ GoTo(w, "unmark") \/ GoTo(w, "retry")
    BY <1>4 DEF Run, redis
  <2>2. held[w] \in Copy /\ held[w].job \in Jobs /\ held[w].attempts \in RunsOf
    BY <1>c, <2>1 DEF Holds, Copy, RunsOf
  <2>3. \A a, k : Waits(j, a, k)' => Waits(j, a, k)
    BY <2>1 DEF Waits
  <2>4. \A v, k : Works(j, v, k)' =>
          Works(j, v, k) /\ ~(v = w /\ k = held[w].attempts)
    BY <1>p, <2>1, <2>2 DEF Works, RunsOf
  <2>5. Tokens(j)' \subseteq Tokens(j)
    BY <2>3, <2>4, NoNewTokens
  <2>6. CASE held[w].job # j
    BY <2>1, <2>2, <2>5, <2>6, BudgetSame DEF TypeInv, TypeOK
  <2>7. CASE held[w].job = j
    <3> DEFINE t == <<"hands", w, held[w].attempts>>
    <3>1. t \in Tokens(j)
      <4>1. Works(j, w, held[w].attempts)
        BY <2>1, <2>2, <2>7 DEF Works, RunsOf
      <4> QED BY <4>1, TokenIs
    <3>2. t \notin Tokens(j)'
      <4>1. PICK k : k = held[w].attempts
        OBVIOUS
      <4>2. ~Works(j, w, k)'
        BY <2>4, <4>1
      <4> QED BY <4>1, <4>2, TokenIsNext
    <3> HIDE DEF t
    <3>3. Tokens(j)' \subseteq Tokens(j) \ {t}
      BY <2>5, <3>2
    <3>4. /\ IsFiniteSet(Tokens(j) \ {t})
          /\ Cardinality(Tokens(j) \ {t}) = Cardinality(Tokens(j)) - 1
      BY <3>1, FS_RemoveElement DEF Budget
    <3>5. IsFiniteSet(Tokens(j)') /\ Cardinality(Tokens(j)') <= Cardinality(Tokens(j)) - 1
      BY <3>3, <3>4, FS_Subset
    <3>6. /\ runs'[j] = runs[j] + 1 /\ runs[j] \in Nat
          /\ Cardinality(Tokens(j)) \in Nat /\ Cardinality(Tokens(j)') \in Nat
      BY <2>1, <2>7, <3>5, FS_CardinalityType DEF TypeInv, TypeOK, Budget
    <3> QED BY <3>5, <3>6, BudgetKept
  <2> QED BY <2>6, <2>7
<1>5. ASSUME NEW w \in Replicas, Requeue(w) PROVE Budget(j)'
  <2> DEFINE next == [job |-> held[w].job, attempts |-> held[w].attempts + 1]
             n == Len(queue[mr[w]]) + 1
  <2>1. pc[w] = "retry" /\ UNCHANGED runs
    BY <1>5 DEF Requeue
  <2>2. mr[w] \in MRs /\ held[w] \in Copy /\ MROf[held[w].job] = mr[w]
    BY <1>c, <2>1 DEF Holds
  <2>3. next \in Copy
    BY <1>5, <2>2, AttemptsAssumption DEF Requeue, MayRetry, Copy
  <2>4. \/ UNCHANGED queue /\ NextJob(w)
        \/ /\ queue' = [queue EXCEPT ![mr[w]] = LPush(queue[mr[w]], next)]
           /\ NextJob(w)
        \/ /\ queue' = [queue EXCEPT ![mr[w]] = LPush(queue[mr[w]], next)]
           /\ UNCHANGED <<pc, held>> /\ faults' = faults + 1
    BY <1>5 DEF Requeue, Fault
  <2>5. \A v, k : Works(j, v, k)' => Works(j, v, k) /\ (NextJob(w) => v # w)
    <3>1. NextJob(w) =>
            pc'[w] = "pop" /\ \A v \in Replicas \ {w} : pc'[v] = pc[v] /\ held'[v] = held[v]
      BY DEF NextJob, GoTo, TypeInv, TypeOK
    <3> QED BY <2>4, <3>1 DEF Works
  <2>6. CASE UNCHANGED queue /\ NextJob(w)
    <3>1. \A a, k : Waits(j, a, k)' => Waits(j, a, k)
      BY <2>6 DEF Waits
    <3> QED BY <2>1, <2>5, <3>1, NoNewTokens, BudgetSame
  <2>7. ASSUME queue' = [queue EXCEPT ![mr[w]] = LPush(queue[mr[w]], next)],
               NEW a, NEW k, Waits(j, a, k)'
        PROVE  \/ Waits(j, a, k)
               \/ a = n /\ held[w].job = j /\ k \in RunsOf /\ held[w].attempts + 1 <= k
    <3>1. next.job = held[w].job /\ next.attempts = held[w].attempts + 1
      OBVIOUS
    <3> HIDE DEF next
    <3>2. \/ Waits(j, a, k)
          \/ /\ a = Len(queue[mr[w]]) + 1 /\ MROf[j] = mr[w]
             /\ next.job = j /\ k \in RunsOf /\ next.attempts <= k
      BY <2>2, <2>3, <2>7, PushTokens
    <3> QED BY <3>1, <3>2
  <2>8. CASE /\ queue' = [queue EXCEPT ![mr[w]] = LPush(queue[mr[w]], next)]
             /\ NextJob(w)
    <3> DEFINE From(x) == IF x \in Tokens(j) THEN x ELSE <<"hands", w, x[3]>>
               f == [x \in Tokens(j)' |-> From(x)]
    <3> HIDE DEF n
    <3>1. ASSUME NEW x \in Tokens(j)'
          PROVE  /\ From(x) \in Tokens(j) /\ \A k : x # <<"hands", w, k>>
                 /\ \/ From(x) = x
                    \/ \E k : x = <<"queue", n, k>> /\ From(x) = <<"hands", w, k>>
      <4>1. CASE \E a, k : x = <<"queue", a, k>> /\ Waits(j, a, k)'
        <5>1. PICK a, k : x = <<"queue", a, k>> /\ Waits(j, a, k)'
          BY <4>1
        <5>2. CASE Waits(j, a, k)
          BY <5>1, <5>2, TokenIs
        <5>3. CASE a = n /\ held[w].job = j /\ k \in RunsOf /\ held[w].attempts + 1 <= k
          <6>1. Works(j, w, k)
            BY <2>1, <5>3 DEF Works
          <6> QED BY <5>1, <5>3, <6>1, TokenIs
        <5> QED BY <2>7, <2>8, <5>1, <5>2, <5>3
      <4>2. CASE \E v, k : x = <<"hands", v, k>> /\ Works(j, v, k)'
        BY <2>5, <2>8, <4>2, TokenIs
      <4> QED BY <4>1, <4>2, TokenIsNext
    <3> HIDE DEF From
    <3>2. f \in [Tokens(j)' -> Tokens(j)]
      BY <3>1
    <3>3. \A x, y \in Tokens(j)' : From(x) = From(y) => x = y
      BY <3>1
    <3>4. \A x, y \in Tokens(j)' : f[x] = f[y] => x = y
      BY <3>3
    <3> HIDE DEF f
    <3>5. IsFiniteSet(Tokens(j)') /\ Cardinality(Tokens(j)') <= Cardinality(Tokens(j))
      BY <3>2, <3>4, Traced DEF Budget
    <3> QED BY <2>1, <3>5, BudgetKept, BudgetNumbers, FS_CardinalityType DEF Budget
  <2>9. CASE /\ queue' = [queue EXCEPT ![mr[w]] = LPush(queue[mr[w]], next)]
             /\ faults' = faults + 1
    <3> HIDE DEF n
    <3>1. Tokens(j)' \subseteq Tokens(j) \cup Mint(n)
      BY <2>5, <2>7, <2>9, TokenIs, TokenIsNext DEF Mint
    <3> QED BY <2>1, <2>9, <3>1, BudgetMinted
  <2> QED BY <2>4, <2>6, <2>8, <2>9
<1>6. ASSUME NEW m \in MRs, QueueExpires(m) PROVE Budget(j)'
  <2>1. UNCHANGED <<runs, pc, held>> /\ queue' = [queue EXCEPT ![m] = <<>>]
    BY <1>6 DEF QueueExpires, local
  <2>2. \A a, k : Waits(j, a, k)' => Waits(j, a, k)
    BY <2>1, MROfAssumption DEF Waits, TypeInv, TypeOK
  <2>3. \A v, k : Works(j, v, k)' => Works(j, v, k)
    BY <2>1 DEF Works
  <2> QED BY <2>1, <2>2, <2>3, NoNewTokens, BudgetSame
<1>7. ASSUME NEW w \in Replicas, Stop(w) PROVE Budget(j)'
  <2>1. /\ UNCHANGED <<runs, queue>> /\ pc'[w] = "down"
        /\ \A v \in Replicas \ {w} : pc'[v] = pc[v] /\ held'[v] = held[v]
    BY <1>7 DEF Stop, redis, TypeInv, TypeOK
  <2>2. \A a, k : Waits(j, a, k)' => Waits(j, a, k)
    BY <2>1 DEF Waits
  <2>3. \A v, k : Works(j, v, k)' => Works(j, v, k)
    BY <2>1 DEF Works
  <2> QED BY <2>1, <2>2, <2>3, NoNewTokens, BudgetSame
<1>8. ASSUME NEW w \in Replicas, Unmark(w) \/ Drop(w) PROVE Budget(j)'
  <2>1. UNCHANGED <<runs, queue>> /\ NextJob(w)
    BY <1>8 DEF Unmark, Drop, history
  <2>2. pc'[w] = "pop" /\ \A v \in Replicas \ {w} : pc'[v] = pc[v] /\ held'[v] = held[v]
    BY <2>1 DEF NextJob, GoTo, TypeInv, TypeOK
  <2>3. \A a, k : Waits(j, a, k)' => Waits(j, a, k)
    BY <2>1 DEF Waits
  <2>4. \A v, k : Works(j, v, k)' => Works(j, v, k)
    BY <2>2 DEF Works
  <2> QED BY <2>1, <2>3, <2>4, NoNewTokens, BudgetSame
<1>9. ASSUME UNCHANGED <<runs, queue, held>>,
             \A w \in Replicas : pc'[w] \in {"mark", "run", "retry"} =>
               pc[w] \in {"mark", "run", "retry"} /\ (pc'[w] = "retry" <=> pc[w] = "retry")
      PROVE  Budget(j)'
  <2>1. \A a, k : Waits(j, a, k)' => Waits(j, a, k)
    BY <1>9 DEF Waits
  <2>2. \A v, k : Works(j, v, k)' => Works(j, v, k)
    BY <1>9 DEF Works
  <2> QED BY <1>9, <2>1, <2>2, NoNewTokens, BudgetSame
<1>10. ASSUME NEW w \in Replicas,
              \/ Tick(w) \/ EndTick(w) \/ (\E m \in MRs : Skip(w, m) \/ Select(w, m))
              \/ Acquire(w) \/ PopNothing(w) \/ Mark(w) \/ Release(w) \/ Restart(w)
       PROVE  Budget(j)'
  <2>1. UNCHANGED <<runs, queue, held>>
    BY <1>10 DEF Tick, EndTick, Skip, Select, Acquire, PopNothing, Mark, Release, Restart,
                 redis, history
  <2>2. UNCHANGED pc \/ \E place \in Places : GoTo(w, place)
                          /\ (place = "run" => pc[w] = "mark") /\ place \notin {"mark", "retry"}
    BY <1>10 DEF Tick, EndTick, Skip, Select, Acquire, PopNothing, Mark, Release, Restart, Leave,
                 Places, Batch, Holds
  <2> QED BY <1>9, <1>p, <2>1, <2>2
<1>11. ASSUME \/ (\E i \in Jobs : HookExpire(i) \/ ProcessingExpires(i))
              \/ (\E m \in MRs : LockExpires(m)) \/ UNCHANGED vars
       PROVE  Budget(j)'
  BY <1>9, <1>11 DEF HookExpire, ProcessingExpires, LockExpires, vars, redis, local, history
<1> QED
  BY <1>1, <1>2, <1>3, <1>4, <1>5, <1>6, <1>7, <1>8, <1>10, <1>11
  DEF Next, Handler, Processor, BatchStep

\* Even when the Redis client sends commands again a job is run at most
\* max_retries times for its delivery and for every fault.
THEOREM ResendsBounded == Spec => []AttemptsUnderResends
<1>1. Init => BudgetInv
  <2> SUFFICES ASSUME Init, NEW j \in Jobs PROVE Budget(j)
    BY DEF BudgetInv
  <2>1. Tokens(j) = {}
    BY MROfAssumption DEF Init, Tokens, Waits, Works
  <2>2. IsFiniteSet(Tokens(j)) /\ Cardinality(Tokens(j)) = 0
    BY <2>1, FS_EmptySet
  <2>3. runs[j] = 0 /\ faults = 0 /\ Unborn(j) = MaxAttempts /\ MaxAttempts \in Nat
    BY AttemptsAssumption DEF Init, Unborn
  <2> QED BY <2>2, <2>3 DEF Budget
<1>2. TypeInv /\ BudgetInv => AttemptsUnderResends
  <2> SUFFICES ASSUME TypeInv, NEW j \in Jobs, Budget(j)
               PROVE  runs[j] <= MaxAttempts * (1 + faults)
    BY DEF BudgetInv, AttemptsUnderResends
  <2>1. /\ runs[j] \in Nat /\ Cardinality(Tokens(j)) \in Nat /\ Unborn(j) \in Nat
        /\ MaxAttempts * (1 + faults) \in Nat
        /\ runs[j] + Cardinality(Tokens(j)) + Unborn(j) <= MaxAttempts * (1 + faults)
    BY BudgetNumbers, MoreFaults DEF Budget
  <2> QED BY <2>1
<1> QED BY <1>1, <1>2, TypeInit, TypeNext, BudgetNext, PTL DEF Spec
=============================================================================
