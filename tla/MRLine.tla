------------------------------- MODULE MRLine -------------------------------
(***************************************************************************)
(* What the queue promises to one merge request: its deliveries stand in   *)
(* one line, a worker serves the head of the line while nobody else serves *)
(* the same merge request, and a failed job goes to the back of the line   *)
(* until its attempts are spent.  Only an unreliable environment loses     *)
(* jobs.  MRQueueRefinement shows that MRQueue keeps this promise, and     *)
(* MRReport is built on nothing else.                                      *)
(***************************************************************************)
EXTENDS Integers, Sequences

CONSTANTS
    Jobs,         \* the deliveries about this merge request
    Servers,
    NoCopy,       \* what a server that serves nothing holds
    MaxAttempts,
    MayLose       \* does anything fail, stop or expire?

VARIABLES
    arrived,      \* the deliveries that were answered
    line,         \* the jobs that wait, the next one first
    serving,      \* serving[s]: the job in the hands of s
    failed        \* the servers whose job has failed

vars == <<arrived, line, serving, failed>>

Copy == [job : Jobs, attempts : 0 .. MaxAttempts - 1]

TypeOK ==
    /\ arrived \subseteq Jobs
    /\ line \in Seq(Copy)
    /\ serving \in [Servers -> Copy \cup {NoCopy}]
    /\ failed \subseteq Servers

Busy(s) == serving[s] # NoCopy
LetGo(s) == serving' = [serving EXCEPT ![s] = NoCopy] /\ failed' = failed \ {s}

Init ==
    /\ arrived = {} /\ line = <<>> /\ failed = {}
    /\ serving = [s \in Servers |-> NoCopy]

Arrive(j) ==
    /\ j \notin arrived /\ arrived' = arrived \cup {j}
    /\ line' = Append(line, [job |-> j, attempts |-> 0])
    /\ UNCHANGED <<serving, failed>>

\* The oldest job is taken, by one server at a time.
Take(s) ==
    /\ line # <<>> /\ \A t \in Servers : ~Busy(t)
    /\ serving' = [serving EXCEPT ![s] = Head(line)]
    /\ line' = Tail(line)
    /\ UNCHANGED <<arrived, failed>>

Finish(s) == Busy(s) /\ s \notin failed /\ LetGo(s) /\ UNCHANGED <<arrived, line>>

Fail(s) ==
    /\ Busy(s) /\ s \notin failed
    /\ failed' = failed \cup {s}
    /\ UNCHANGED <<arrived, line, serving>>

\* A failed job goes to the back of the line, with its attempts counted.
Retry(s) ==
    /\ s \in failed /\ serving[s].attempts + 1 < MaxAttempts
    /\ line' = Append(line, [job |-> serving[s].job, attempts |-> serving[s].attempts + 1])
    /\ LetGo(s) /\ UNCHANGED arrived

GiveUp(s) ==
    /\ s \in failed /\ serving[s].attempts + 1 >= MaxAttempts
    /\ LetGo(s) /\ UNCHANGED <<arrived, line>>

\* A delivery that never gets into the line, a job that vanishes between the
\* line and a server, a server that stops, a line that expires.
LoseArrival(j) ==
    MayLose /\ j \notin arrived /\ arrived' = arrived \cup {j}
            /\ UNCHANGED <<line, serving, failed>>
LoseHead == MayLose /\ line # <<>> /\ line' = Tail(line)
                    /\ UNCHANGED <<arrived, serving, failed>>
LoseServed(s) == MayLose /\ Busy(s) /\ LetGo(s) /\ UNCHANGED <<arrived, line>>
LoseLine == MayLose /\ line' = <<>> /\ UNCHANGED <<arrived, serving, failed>>

Next ==
    \/ \E j \in Jobs : Arrive(j) \/ LoseArrival(j)
    \/ \E s \in Servers : \/ Take(s) \/ Finish(s) \/ Fail(s)
                          \/ Retry(s) \/ GiveUp(s) \/ LoseServed(s)
    \/ LoseHead \/ LoseLine

Spec == Init /\ [][Next]_vars
=============================================================================
