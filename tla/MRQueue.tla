------------------------------ MODULE MRQueue ------------------------------
(***************************************************************************)
(* The Redis-backed webhook queue of internal/queue/queue.go.              *)
(*                                                                         *)
(* Every replica of the bot runs one processor goroutine.  On a tick it    *)
(* lists the queue keys, and for each non-empty one takes the lock of the  *)
(* merge request, pops and runs its jobs until the queue is empty and      *)
(* deletes the lock.  Webhook handlers push jobs meanwhile.  Every Redis   *)
(* command is one step, so the replicas, the handlers, the key TTLs,       *)
(* process stops and failing commands interleave between any two of them.  *)
(***************************************************************************)
EXTENDS Integers, Sequences, FiniteSets

CONSTANTS
    Replicas,       \* running copies of the bot (helm replicaCount: 2)
    MRs,            \* merge requests, one queue key and one lock key each
    Jobs,           \* webhook deliveries; each becomes one job
    MROf,           \* the merge request a delivery is about
    NoJob, NoMR,    \* what a replica holds when it holds nothing
    MaxAttempts,    \* Config.MaxRetries
    BatchFitsLock,  \* timing assumption: a batch ends before its lock's TTL
    Faults,         \* the ways a Redis command may go wrong
    MaxFaults,      \* bound: commands that go wrong
    MaxStops,       \* bound: process stops (SIGTERM, logger.Fatal, kill)
    MaxExpiries     \* bound: queue keys deleted by their 24 hour TTL

\* A command that goes wrong is refused (no effect, error reported), executed
\* though an error is reported, or executed and then sent again by the client,
\* which saw no reply (go-redis retries by default): in the model the command
\* takes effect and its sender stays where it is.
FaultKinds == {"refused", "lostReply", "resent"}

ASSUME MROfAssumption == MROf \in [Jobs -> MRs]
ASSUME NoneAssumption == NoJob \notin Jobs /\ NoMR \notin MRs
ASSUME AttemptsAssumption == MaxAttempts \in Nat \ {0}
ASSUME FaultsAssumption == Faults \subseteq FaultKinds
ASSUME BoundsAssumption ==
    /\ BatchFitsLock \in BOOLEAN
    /\ MaxFaults \in Nat /\ MaxStops \in Nat /\ MaxExpiries \in Nat

VARIABLES
    queue,       \* queue[m]: the list, oldest push first (RPOP takes the head)
    expiring,    \* the MRs whose queue key exists with a TTL
    locked,      \* the MRs whose lock key exists; it does not name its owner
    processing,  \* the jobs whose processing key exists
    hook,        \* hook[j]: where the handler of delivery j stands
    pc,          \* pc[w]: where replica w's processor stands
    scan,        \* scan[w]: the queue keys of this tick still to visit
    mr,          \* mr[w]: the merge request whose batch w is on
    held,        \* held[w]: the job popped by w
    faults, stops, expiries,    \* how much of each bound is spent
    \* History, read by no guard:
    fate,        \* fate[j]: what became of delivery j
    runs,        \* runs[j]: completed calls of ProcessJob for j
    earlier      \* earlier[j]: deliveries for the same MR that arrived before j

redis == <<queue, expiring, locked, processing>>
local == <<pc, scan, mr, held>>
used == <<faults, stops, expiries>>
history == <<fate, runs, earlier>>
vars == <<redis, hook, local, used, history>>

Copy == [job : Jobs, attempts : 0 .. MaxAttempts - 1]
NoCopy == [job |-> NoJob, attempts |-> 0]

\* The processor's program counter between two Redis commands.
Holds == {"mark", "run", "unmark", "retry"}
Batch == Holds \cup {"pop", "release"}
Places == Batch \cup {"idle", "scan", "lock", "down"}

Final == {"done", "dropped", "lost"}

TypeOK ==
    /\ queue \in [MRs -> Seq(Copy)]
    /\ expiring \subseteq MRs
    /\ locked \subseteq MRs
    /\ processing \subseteq Jobs
    /\ hook \in [Jobs -> {"new", "pushed", "accepted", "refused"}]
    /\ pc \in [Replicas -> Places]
    /\ scan \in [Replicas -> SUBSET MRs]
    /\ mr \in [Replicas -> MRs \cup {NoMR}]
    /\ held \in [Replicas -> Copy \cup {NoCopy}]
    /\ faults \in Nat /\ stops \in Nat /\ expiries \in Nat
    /\ fate \in [Jobs -> Final \cup {"new", "live"}]
    /\ runs \in [Jobs -> Nat]
    /\ earlier \in [Jobs -> SUBSET Jobs]

-----------------------------------------------------------------------------
(* Redis commands and the code's own decisions, one operator each.  The    *)
(* operator before each is a plausible bug that the properties must catch. *)

LPushFront(q, c) == <<c>> \o q
LPushUnlessPending(q, c) == IF q = <<>> THEN <<c>> ELSE q
LPushUnlessMarked(q, c) == IF c.job \in processing THEN q ELSE Append(q, c)
\* LPUSH: RPOP takes the other end.
LPush(q, c) == Append(q, c)

RPopKept(q) == q
\* What RPOP leaves of a non-empty list.
RPop(q) == Tail(q)

\* A key whose list becomes empty goes away, and its TTL with it.
TTLAfter(m, q) == IF q = <<>> THEN expiring \ {m} ELSE expiring

FreeIgnored(m) == TRUE
\* SETNX succeeds when the key does not exist.
Free(m) == m \notin locked

MayRetryLate(a) == a < MaxAttempts
\* handleJobFailure: Attempts++, then Attempts < MaxAttempts.
MayRetry(a) == a + 1 < MaxAttempts

LockForever(m) == FALSE
\* The lock key is set with a TTL; whether it can run out under a batch is a
\* matter of durations, which BatchFitsLock rules out or admits.
LockTTL(m) ==
    BatchFitsLock => \A w \in Replicas : ~(pc[w] \in Batch /\ mr[w] = m)

UnmarkedNone(j) == processing
\* DEL of the processing key.
Unmarked(j) == processing \ {j}

Fault(kind) ==
    /\ kind \in Faults
    /\ faults < MaxFaults
    /\ faults' = faults + 1
    /\ UNCHANGED <<stops, expiries>>

NoFault == UNCHANGED used

GoTo(w, place) == pc' = [pc EXCEPT ![w] = place]
Settle(j, f) == fate' = [fate EXCEPT ![j] = f]

-----------------------------------------------------------------------------
(* The webhook handler: EnqueueWebhook is LPUSH, then EXPIRE.              *)

Fresh(j) == [job |-> j, attempts |-> 0]

Arrives(j) ==
    /\ Settle(j, "live")
    /\ earlier' = [earlier EXCEPT ![j] =
                     {i \in Jobs \ {j} : MROf[i] = MROf[j] /\ fate[i] # "new"}]

\* LPUSH of a new job.  On an error HandleWebhook just returns, which answers
\* the delivery with 200, so GitLab does not send it again.
HookPush(j) ==
    LET m == MROf[j]
        push(h) == /\ queue' = [queue EXCEPT ![m] = LPush(@, Fresh(j))]
                   /\ hook' = [hook EXCEPT ![j] = h]
                   /\ Arrives(j)
    IN  /\ hook[j] = "new"
        /\ \/ NoFault /\ push("pushed")
           \/ Fault("lostReply") /\ push("refused")
           \/ Fault("resent") /\ push("new")
           \/ /\ Fault("refused")
              /\ hook' = [hook EXCEPT ![j] = "refused"]
              /\ Settle(j, "lost")
              /\ UNCHANGED <<queue, earlier>>
        /\ UNCHANGED <<expiring, locked, processing, local, runs>>

\* EXPIRE of the queue key: no effect when the list is already gone, and a
\* failure is only logged.
HookExpire(j) ==
    LET m == MROf[j]
    IN  /\ hook[j] = "pushed"
        /\ hook' = [hook EXCEPT ![j] = "accepted"]
        /\ \/ /\ NoFault
              /\ expiring' = IF queue[m] = <<>> THEN expiring ELSE expiring \cup {m}
           \/ Fault("refused") /\ UNCHANGED expiring
        /\ UNCHANGED <<queue, locked, processing, local, history>>

-----------------------------------------------------------------------------
(* One tick: processAllQueues visits every key that KEYS returned.         *)

\* KEYS.  (When it fails the tick does nothing.)
Tick(w) ==
    /\ pc[w] = "idle"
    /\ scan' = [scan EXCEPT ![w] = {m \in MRs : queue[m] # <<>>}]
    /\ GoTo(w, "scan")
    /\ UNCHANGED <<redis, hook, mr, held, used, history>>

\* LLEN says 0, or fails: on to the next key.
Skip(w, m) ==
    /\ pc[w] = "scan" /\ m \in scan[w]
    /\ \/ queue[m] = <<>> /\ NoFault
       \/ Fault("refused")
    /\ scan' = [scan EXCEPT ![w] = @ \ {m}]
    /\ UNCHANGED <<redis, hook, pc, mr, held, history>>

\* LLEN says there are jobs: ProcessMRQueue is called.
Select(w, m) ==
    /\ pc[w] = "scan" /\ m \in scan[w]
    /\ queue[m] # <<>>
    /\ scan' = [scan EXCEPT ![w] = @ \ {m}]
    /\ mr' = [mr EXCEPT ![w] = m]
    /\ GoTo(w, "lock")
    /\ UNCHANGED <<redis, hook, held, used, history>>

EndTick(w) ==
    /\ pc[w] = "scan" /\ scan[w] = {}
    /\ GoTo(w, "idle")
    /\ UNCHANGED <<redis, hook, scan, mr, held, used, history>>

-----------------------------------------------------------------------------
(* One batch: ProcessMRQueue.                                              *)

Leave(w) == GoTo(w, "scan") /\ mr' = [mr EXCEPT ![w] = NoMR]

\* SETNX.  Both returns before the defer statement leave without releasing:
\* a SETNX that took effect but reported an error, or that is sent again and
\* then finds its own key, leaves a lock that only its TTL removes.
Acquire(w) ==
    LET m == mr[w]
    IN  /\ pc[w] = "lock"
        /\ \/ /\ Free(m) /\ NoFault
              /\ locked' = locked \cup {m}
              /\ GoTo(w, "pop") /\ UNCHANGED mr
           \/ ~Free(m) /\ NoFault /\ Leave(w) /\ UNCHANGED locked
           \/ Fault("refused") /\ Leave(w) /\ UNCHANGED locked
           \/ /\ Free(m)
              /\ \/ Fault("lostReply") /\ Leave(w)
                 \/ Fault("resent") /\ UNCHANGED <<pc, mr>>
              /\ locked' = locked \cup {m}
        /\ UNCHANGED <<queue, expiring, processing, hook, scan, held, history>>

\* RPOP takes the oldest push off the list.
Popped(m) ==
    /\ queue[m] # <<>>
    /\ queue' = [queue EXCEPT ![m] = RPop(@)]
    /\ expiring' = TTLAfter(m, RPop(queue[m]))

PopJob(w) ==
    LET m == mr[w]
    IN  /\ pc[w] = "pop"
        /\ Popped(m)
        /\ held' = [held EXCEPT ![w] = Head(queue[m])]
        /\ GoTo(w, "mark")
        /\ UNCHANGED <<locked, processing, hook, scan, mr, used, history>>

\* The list is empty, or RPOP reports an error: the batch ends.
PopNothing(w) ==
    /\ pc[w] = "pop"
    /\ (queue[mr[w]] = <<>> /\ NoFault) \/ Fault("refused")
    /\ GoTo(w, "release")
    /\ UNCHANGED <<redis, hook, scan, mr, held, history>>

\* RPOP takes effect but its reply is lost.  The job is gone: nothing else in
\* Redis names it.
PopLost(w) ==
    LET m == mr[w]
    IN  /\ pc[w] = "pop"
        /\ Popped(m)
        /\ Settle(Head(queue[m]).job, "lost")
        /\ \/ Fault("lostReply") /\ GoTo(w, "release")
           \/ Fault("resent") /\ UNCHANGED pc
        /\ UNCHANGED <<locked, processing, hook, scan, mr, held, runs, earlier>>

\* SET of the processing key; a failure is only logged.
Mark(w) ==
    /\ pc[w] = "mark"
    /\ \/ NoFault /\ processing' = processing \cup {held[w].job}
       \/ Fault("refused") /\ UNCHANGED processing
    /\ GoTo(w, "run")
    /\ UNCHANGED <<queue, expiring, locked, hook, scan, mr, held, history>>

\* ProcessJob returns nil or an error.
Run(w) ==
    LET j == held[w].job
    IN  /\ pc[w] = "run"
        /\ runs' = [runs EXCEPT ![j] = @ + 1]
        /\ \/ GoTo(w, "unmark") /\ Settle(j, "done")
           \/ GoTo(w, "retry") /\ UNCHANGED fate
        /\ UNCHANGED <<redis, hook, scan, mr, held, used, earlier>>

NextJob(w) == GoTo(w, "pop") /\ held' = [held EXCEPT ![w] = NoCopy]

\* DEL of the processing key after a success; a failure is only logged.
Unmark(w) ==
    /\ pc[w] = "unmark"
    /\ \/ NoFault /\ processing' = Unmarked(held[w].job)
       \/ Fault("refused") /\ UNCHANGED processing
    /\ NextJob(w)
    /\ UNCHANGED <<queue, expiring, locked, hook, scan, mr, history>>

\* handleJobFailure while attempts remain: LPUSH without EXPIRE, processing
\* key left in place.  If the LPUSH fails the job is only logged.
Requeue(w) ==
    LET m == mr[w]
        next == [job |-> held[w].job, attempts |-> held[w].attempts + 1]
        push == queue' = [queue EXCEPT ![m] = LPush(@, next)] /\ UNCHANGED fate
    IN  /\ pc[w] = "retry" /\ MayRetry(held[w].attempts)
        /\ \/ (NoFault \/ Fault("lostReply")) /\ push /\ NextJob(w)
           \/ Fault("resent") /\ push /\ UNCHANGED <<pc, held>>
           \/ /\ Fault("refused")
              /\ Settle(held[w].job, "lost") /\ UNCHANGED queue
              /\ NextJob(w)
        /\ UNCHANGED <<expiring, locked, processing, hook, scan, mr, runs, earlier>>

\* handleJobFailure when they are spent: DEL of the processing key.
Drop(w) ==
    /\ pc[w] = "retry" /\ ~MayRetry(held[w].attempts)
    /\ \/ NoFault /\ processing' = Unmarked(held[w].job)
       \/ Fault("refused") /\ UNCHANGED processing
    /\ Settle(held[w].job, "dropped")
    /\ NextJob(w)
    /\ UNCHANGED <<queue, expiring, locked, hook, scan, mr, runs, earlier>>

\* The deferred DEL of the lock key, whoever set it; a failure is only logged.
Release(w) ==
    /\ pc[w] = "release"
    /\ \/ NoFault /\ locked' = locked \ {mr[w]} /\ Leave(w)
       \/ Fault("refused") /\ UNCHANGED locked /\ Leave(w)
       \/ Fault("resent") /\ locked' = locked \ {mr[w]} /\ UNCHANGED <<pc, mr>>
    /\ UNCHANGED <<queue, expiring, processing, hook, scan, held, history>>

-----------------------------------------------------------------------------
(* TTLs, and processes that stop and come back.                            *)

LockExpires(m) ==
    /\ m \in locked /\ LockTTL(m)
    /\ locked' = locked \ {m}
    /\ UNCHANGED <<queue, expiring, processing, hook, local, used, history>>

ProcessingExpires(j) ==
    /\ j \in processing
    /\ processing' = processing \ {j}
    /\ UNCHANGED <<queue, expiring, locked, hook, local, used, history>>

QueueExpires(m) ==
    /\ m \in expiring /\ expiries < MaxExpiries
    /\ expiries' = expiries + 1 /\ UNCHANGED <<faults, stops>>
    /\ queue' = [queue EXCEPT ![m] = <<>>]
    /\ expiring' = expiring \ {m}
    /\ fate' = [j \in Jobs |-> IF \E i \in DOMAIN queue[m] : queue[m][i].job = j
                               THEN "lost" ELSE fate[j]]
    /\ UNCHANGED <<locked, processing, hook, local, runs, earlier>>

\* SIGTERM (main shuts the HTTP server down and returns, the processor is not
\* told), logger.Fatal inside a job, or a kill.  The keys in Redis stay.
Stop(w) ==
    /\ pc[w] # "down" /\ stops < MaxStops
    /\ stops' = stops + 1 /\ UNCHANGED <<faults, expiries>>
    /\ pc' = [pc EXCEPT ![w] = "down"]
    /\ scan' = [scan EXCEPT ![w] = {}]
    /\ mr' = [mr EXCEPT ![w] = NoMR]
    /\ held' = [held EXCEPT ![w] = NoCopy]
    /\ \/ pc[w] \in Holds \ {"unmark"} /\ Settle(held[w].job, "lost")
       \/ pc[w] \notin Holds \ {"unmark"} /\ UNCHANGED fate
    /\ UNCHANGED <<redis, hook, runs, earlier>>

Restart(w) ==
    /\ pc[w] = "down"
    /\ GoTo(w, "idle")
    /\ UNCHANGED <<redis, hook, scan, mr, held, used, history>>

-----------------------------------------------------------------------------

Init ==
    /\ queue = [m \in MRs |-> <<>>]
    /\ expiring = {} /\ locked = {} /\ processing = {}
    /\ hook = [j \in Jobs |-> "new"]
    /\ pc = [w \in Replicas |-> "idle"]
    /\ scan = [w \in Replicas |-> {}]
    /\ mr = [w \in Replicas |-> NoMR]
    /\ held = [w \in Replicas |-> NoCopy]
    /\ faults = 0 /\ stops = 0 /\ expiries = 0
    /\ fate = [j \in Jobs |-> "new"]
    /\ runs = [j \in Jobs |-> 0]
    /\ earlier = [j \in Jobs |-> {}]

Handler(j) == HookPush(j) \/ HookExpire(j)

BatchStep(w) ==
    \/ Acquire(w) \/ PopJob(w) \/ PopNothing(w) \/ PopLost(w) \/ Mark(w)
    \/ Run(w) \/ Unmark(w) \/ Requeue(w) \/ Drop(w) \/ Release(w)

Processor(w) ==
    \/ Tick(w) \/ EndTick(w)
    \/ \E m \in MRs : Skip(w, m) \/ Select(w, m)
    \/ BatchStep(w)

Next ==
    \/ \E j \in Jobs : Handler(j)
    \/ \E w \in Replicas : Processor(w)
    \/ \E m \in MRs : LockExpires(m) \/ QueueExpires(m)
    \/ \E j \in Jobs : ProcessingExpires(j)
    \/ \E w \in Replicas : Stop(w) \/ Restart(w)

Spec == Init /\ [][Next]_vars

\* A handler that began finishes, a running processor goes on, a stopped
\* process is started again, a lock key's TTL runs out.  That a delivery is
\* made, that a queue's TTL runs out, or that anything fails is not assumed.
Fairness ==
    /\ \A j \in Jobs : WF_vars(HookExpire(j))
    /\ \A w \in Replicas : WF_vars(Processor(w)) /\ WF_vars(Restart(w))
    /\ \A m \in MRs : WF_vars(LockExpires(m))

FairSpec == Spec /\ Fairness

-----------------------------------------------------------------------------
(* What the queue promises.                                                *)

HeldBy(j, w) == pc[w] \in Holds /\ held[w].job = j
InQueue(j) == \E i \in DOMAIN queue[MROf[j]] : queue[MROf[j]][i].job = j
\* With a replica that has not finished it.
InHand(j) == \E w \in Replicas : pc[w] \in Holds \ {"unmark"} /\ held[w].job = j

Reliable == "resent" \notin Faults

\* RPOP is atomic and a job is pushed again only by whoever popped it
\* (dequeueJob, handleJobFailure): unless the client sends a command twice, a
\* job is never queued twice, nor queued while a replica works on it, nor
\* worked on by two replicas, whatever happens to the locks.
OneCopy ==
    Reliable =>
      /\ \A m \in MRs : \A i, k \in DOMAIN queue[m] :
           queue[m][i].job = queue[m][k].job => i = k
      /\ \A m \in MRs : \A i \in DOMAIN queue[m] :
           MROf[queue[m][i].job] = m /\ \A w \in Replicas : ~HeldBy(queue[m][i].job, w)
      /\ \A v, w \in Replicas :
           pc[v] \in Holds /\ HeldBy(held[v].job, w) => v = w

\* acquireLock and releaseLock: two replicas never run batches of the same
\* merge request at once, provided a batch ends before the TTL of its lock.
OneBatchPerMR ==
    BatchFitsLock /\ Reliable =>
      \A v, w \in Replicas :
        pc[v] \in Batch /\ pc[w] \in Batch /\ mr[v] = mr[w] => v = w

\* handleJobFailure: however a job travels between replicas, it is run at
\* most max_retries times.
AttemptBound == Reliable => \A j \in Jobs : runs[j] <= MaxAttempts

\* When the client does send commands twice, each resent command adds at most
\* one copy, and each copy has its own count of attempts.
AttemptsUnderResends ==
    \A j \in Jobs : runs[j] <= MaxAttempts * (1 + faults)

\* LPUSH and RPOP under the lock: a job runs for the first time only after
\* every earlier job of its merge request has run or been lost, even when they
\* are run by different replicas.
FirstRunsInOrder ==
    BatchFitsLock /\ Reliable =>
      \A j \in Jobs : runs[j] > 0 =>
        \A i \in earlier[j] : runs[i] > 0 \/ fate[i] = "lost"

\* Every failing command and every process that stops can be blamed for one of
\* these jobs at most, every queue key that expires for those of one merge
\* request.
Blameless(js) ==
    /\ expiries = 0 => Cardinality(js) <= faults + stops
    /\ Cardinality({MROf[j] : j \in js}) <= faults + stops + expiries

\* Deliveries that are neither finished nor where anybody would run them.
Missing == {j \in Jobs : fate[j] \notin {"new", "done", "dropped"} /\ ~InQueue(j) /\ ~InHand(j)}

\* EnqueueWebhook, dequeueJob, handleJobFailure: a failed LPUSH, a lost reply or
\* a stop costs one job and no more, an expired queue key the jobs of one merge
\* request; nothing else ever costs a job.
OneJobPerFailure == Blameless(Missing)

\* Processing keys whose job is neither queued nor in a replica's hands.
Left == {j \in processing : ~InQueue(j) /\ \A w \in Replicas : ~HeldBy(j, w)}

\* removeJobFromProcessing: a failed DEL or a stop leaves one processing key
\* behind and no more, until its TTL deletes it; an expired queue key those of
\* one merge request.
OneKeyPerFailure == Blameless(Left)

\* A job that is done, dropped or lost stays so and is never run again, not
\* even by a replica that took the job's lock over.
FinalIsFinal ==
    [][Reliable => \A j \in Jobs : fate[j] \in Final =>
         fate'[j] = fate[j] /\ runs'[j] = runs[j]]_vars

\* Every lock is eventually freed: the TTL frees those that a stopped replica
\* or a lost reply left behind.
LocksFreed == \A m \in MRs : m \in locked ~> m \notin locked

\* Every job that reached Redis is eventually done, dropped or lost: a lock
\* left by a stopped replica, a job pushed just after the last RPOP of a batch
\* and a failing job all get their turn.
JobsSettle == \A j \in Jobs : fate[j] = "live" ~> fate[j] \in Final

(* What the code's comments say and the code does not do: see the findings. *)

\* ProcessMRQueue, "Try to acquire lock for this MR" / "MR is already being
\* processed": a merge request is never processed by two replicas at once.
NeverProcessedTwiceAtOnce ==
    \A v, w \in Replicas :
      pc[v] = "run" /\ pc[w] = "run" /\ mr[v] = mr[w] => v = w

\* main, "Graceful shutdown": without failing commands and without an expired
\* queue, no job is lost.
ShutdownLosesNothing ==
    faults = 0 /\ expiries = 0 => \A j \in Jobs : fate[j] # "lost"
=============================================================================
