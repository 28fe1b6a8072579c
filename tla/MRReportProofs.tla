--------------------------- MODULE MRReportProofs ---------------------------
(* Theorems about MRReport, for every number of handlers, changes and      *)
(* faults.                                                                 *)
EXTENDS MRReport, SequenceTheorems, FiniteSetTheorems, TLAPS

-----------------------------------------------------------------------------
(* Type correctness.  A runner that works has a job, and a runner that     *)
(* rewrites or resolves a report has found one that exists.                *)

OnJob == \A w \in Runners : pc[w] # "idle" => held[w] \in Job

OnReport ==
    \A w \in Runners :
      pc[w] \in {"update", "resolve", "status"} => target[w] \in DOMAIN reports

TypeInv == TypeOK /\ OnJob /\ OnReport

Report == [body : Verdicts, resolved : BOOLEAN]

\* Rewriting one report moves none.
LEMMA RewrittenReports ==
    ASSUME TypeOK, NEW i \in DOMAIN reports, NEW r \in Report,
           reports' = [reports EXCEPT ![i] = r]
    PROVE  /\ reports' \in Seq(Report) /\ Len(reports') = Len(reports)
           /\ DOMAIN reports' = DOMAIN reports
           /\ DOMAIN reports = 1 .. Len(reports) /\ Len(reports) \in Nat
           /\ reports'[i] = r /\ \A k \in DOMAIN reports \ {i} : reports'[k] = reports[k]
<1>1. reports \in Seq(Report) /\ DOMAIN reports = 1 .. Len(reports) /\ Len(reports) \in Nat
  BY DEF TypeOK, Report
<1>2. /\ [reports EXCEPT ![i] = r] \in Seq(Report)
      /\ Len([reports EXCEPT ![i] = r]) = Len(reports)
  BY <1>1, ExceptSeq
<1> QED BY <1>1, <1>2

\* Creating one adds it at the end.
LEMMA CreatedReports ==
    ASSUME TypeOK, NEW r \in Report, reports' = Append(reports, r)
    PROVE  /\ reports' \in Seq(Report)
           /\ Len(reports) \in Nat /\ Len(reports') = Len(reports) + 1
           /\ DOMAIN reports = 1 .. Len(reports)
           /\ DOMAIN reports' = 1 .. Len(reports) + 1
           /\ \A k \in DOMAIN reports : reports'[k] = reports[k]
           /\ reports'[Len(reports) + 1] = r
<1>1. reports \in Seq(Report)
  BY DEF TypeOK, Report
<1> QED BY <1>1

\* A report is a report.
LEMMA ReportAt == TypeOK => \A i \in DOMAIN reports : reports[i] \in Report
<1> SUFFICES ASSUME reports \in Seq(Report), NEW i \in DOMAIN reports
             PROVE  reports[i] \in Report
  BY DEF TypeOK, Report
<1> QED OBVIOUS

\* Learning about one part changes nothing else that was seen.
LEMMA Learned ==
    ASSUME TypeOK, NEW w \in Runners, NEW p \in Parts, NEW ok \in BOOLEAN, Learns(w, p, ok)
    PROVE  /\ seen' \in [Runners -> [Parts -> BOOLEAN]]
           /\ seen'[w][p] = ok
           /\ \A q \in Parts \ {p} : seen'[w][q] = seen[w][q]
           /\ \A v \in Runners \ {w} : seen'[v] = seen[v]
<1>1. seen \in [Runners -> [Parts -> BOOLEAN]] /\ seen[w] \in [Parts -> BOOLEAN]
  BY DEF TypeOK
<1>2. [seen[w] EXCEPT ![p] = ok] \in [Parts -> BOOLEAN]
  BY <1>1
<1>3. seen' = [seen EXCEPT ![w] = [seen[w] EXCEPT ![p] = ok]]
  BY DEF Learns
<1> QED BY <1>1, <1>2, <1>3

\* Forgetting the locals of one run leaves those of the others.
LEMMA Forgotten ==
    ASSUME TypeOK, NEW w \in Runners, Forget(w)
    PROVE  /\ cfg' \in [Runners -> {"repo", "default"}]
           /\ seen' \in [Runners -> [Parts -> BOOLEAN]]
           /\ target' \in [Runners -> Nat] /\ snapshot' \in [Runners -> BOOLEAN]
           /\ \A v \in Runners \ {w} :
                /\ cfg'[v] = cfg[v] /\ seen'[v] = seen[v]
                /\ target'[v] = target[v] /\ snapshot'[v] = snapshot[v]
<1> DEFINE nothing == [p \in Parts |-> FALSE]
<1>1. nothing \in [Parts -> BOOLEAN]
  OBVIOUS
<1>2. seen' = [seen EXCEPT ![w] = nothing] /\ seen \in [Runners -> [Parts -> BOOLEAN]]
  BY DEF Forget, TypeOK
<1> HIDE DEF nothing
<1>3. /\ seen' \in [Runners -> [Parts -> BOOLEAN]]
      /\ \A v \in Runners \ {w} : seen'[v] = seen[v]
  BY <1>1, <1>2
<1> QED BY <1>3 DEF Forget, TypeOK

\* What happens to the bounds is a step of their counters.
UsedOK == faults \in Nat /\ fallbacks \in Nat /\ toggles \in Nat /\ losses \in Nat

\* However a step counts, the counters stay numbers.
LEMMA UsedNext ==
    ASSUME UsedOK,
           \/ NoFault \/ Loses
           \/ \E kind \in FaultKinds : Fault(kind)
           \/ \E w \in Runners : Degraded(w)
    PROVE  UsedOK'
  BY DEF UsedOK, NoFault, Loses, Fault, Degraded, used

\* A merge request starts with every variable of its type.
LEMMA TypeInit == Init => TypeInv
<1> SUFFICES ASSUME Init PROVE TypeInv
  OBVIOUS
<1>1. MaxChanges \in Nat
  BY ReportAssumption
<1> QED BY <1>1 DEF Init, TypeInv, TypeOK, OnJob, OnReport, Events, Working, Verdicts

\* Every step keeps the types, one case per call to GitLab.
LEMMA TypeNext == TypeInv /\ [Next]_vars => TypeInv'
<1> SUFFICES ASSUME TypeOK, OnJob, OnReport, [Next]_vars PROVE TypeInv'
  BY DEF TypeInv
<1>a. MaxChanges \in Nat /\ MaxAttempts \in Nat \ {0}
  BY ReportAssumption
<1>u. UsedOK /\ (NoFault \/ Loses \/ (\E kind \in FaultKinds : Fault(kind))
                 \/ (\E w \in Runners : Degraded(w)) => UsedOK')
  BY UsedNext DEF TypeOK, UsedOK
<1>v. \A w \in Runners : Verdict(w) \in Verdicts
  BY DEF Verdict, VerdictOf, Verdicts
<1>1. ASSUME NEW ps \in SUBSET Moving, Change(ps) PROVE TypeInv'
  <2>1. /\ events' \in Events /\ sha' \in [Events -> Events] /\ sent' \subseteq Events
        /\ content' \in [Parts -> BOOLEAN]
    BY <1>1, <1>a DEF Change, TypeOK, Events
  <2> QED BY <1>1, <2>1 DEF Change, TypeInv, TypeOK, OnJob, OnReport, local, used
<1>2. ASSUME NEW i \in DOMAIN reports, Toggle(i) PROVE TypeInv'
  <2>1. reports[i] \in Report
    BY ReportAt
  <2> DEFINE r == [body |-> reports[i].body, resolved |-> ~reports[i].resolved]
  <2>2. r \in Report /\ reports' = [reports EXCEPT ![i] = r]
    BY <1>2, <2>1 DEF Toggle, Report
  <2> HIDE DEF r
  <2>3. reports' \in Seq(Report) /\ DOMAIN reports' = DOMAIN reports
    BY <2>2, RewrittenReports
  <2> QED BY <1>2, <2>3 DEF Toggle, TypeInv, TypeOK, Report, OnJob, OnReport, gitlab, line, local
<1>3. ASSUME NEW e \in Events, Enqueue(e) PROVE TypeInv'
  <2>1. /\ waiting' = Append(waiting, [job |-> e, attempts |-> 0])
        /\ UNCHANGED held
    BY <1>3 DEF Enqueue, Line!Arrive
  <2>2. [job |-> e, attempts |-> 0] \in Job
    BY <1>a DEF Job
  <2>3. waiting' \in Seq(Job)
    BY <2>1, <2>2 DEF TypeOK
  <2> QED BY <1>3, <2>1, <2>3 DEF Enqueue, TypeInv, TypeOK, OnJob, OnReport, gitlab, local, used
<1>4. ASSUME NEW w \in Runners, Take(w) PROVE TypeInv'
  <2>1. /\ held' = [held EXCEPT ![w] = Head(waiting)] /\ waiting' = Tail(waiting)
        /\ waiting # <<>>
    BY <1>4 DEF Take, Line!Take
  <2>2. Head(waiting) \in Job /\ waiting' \in Seq(Job)
    BY <2>1 DEF TypeOK
  <2> QED BY <1>4, <2>1, <2>2
          DEF Take, Begin, GoTo, TypeInv, TypeOK, OnJob, OnReport, gitlab, local, used, Working
<1>5. ASSUME NEW w \in Runners, NEW e \in Events, Serve(w, e) PROVE TypeInv'
  <2>1. [job |-> e, attempts |-> 0] \in Job
    BY <1>a DEF Job
  <2> QED BY <1>5, <2>1
          DEF Serve, Begin, GoTo, TypeInv, TypeOK, OnJob, OnReport, gitlab, local, used, Working
<1>6. ASSUME NEW w \in Runners, Check(w) PROVE TypeInv'
  <2>1. UsedOK'
    BY <1>6, <1>u DEF Check, ReadConfig, Read, ReadMembers, ReadOwners, ReadDiffs, Refused,
                      ReadWell, FaultKinds
  <2>2. /\ UNCHANGED <<gitlab, reports, status, target, snapshot>>
        /\ cfg' \in [Runners -> {"repo", "default"}]
        /\ began' \subseteq began /\ fresh' \subseteq fresh
    BY <1>6 DEF Check, ReadConfig, Read, ReadMembers, ReadOwners, ReadDiffs, ReadWell,
                Degraded, TypeOK
  <2>4. \/ UNCHANGED seen
        \/ \E part \in Parts, ok \in BOOLEAN : Learns(w, part, ok)
    <3>1. \A part \in Parts : seen[w][part] \in BOOLEAN /\ content[part] \in BOOLEAN
      BY DEF TypeOK
    <3>2. "details" \in Parts /\ "approvals" \in Parts /\ "commits" \in Parts
      BY DEF Parts
    <3> QED BY <1>6, <3>1, <3>2
            DEF Check, ReadConfig, Read, ReadMembers, ReadOwners, ReadDiffs
  <2>5. seen' \in [Runners -> [Parts -> BOOLEAN]]
    BY <2>4, Learned DEF TypeOK
  <2>3. /\ pc' \in [Runners -> Working \cup {"idle", "retry"}]
        /\ held' \in [Runners -> Job \cup {NoJob}]
        /\ UNCHANGED <<sent, waiting>>
        /\ \A v \in Runners : pc'[v] # "idle" => pc[v] # "idle" /\ held'[v] = held[v]
        /\ \A v \in Runners : pc'[v] \in {"update", "resolve", "status"} => pc'[v] = pc[v]
    BY <1>6 DEF Check, ReadConfig, Read, ReadMembers, ReadOwners, ReadDiffs, Refused, Abort,
                GoesOn, GoTo, LetGo, line, TypeOK, Working
  <2> QED BY <2>1, <2>2, <2>3, <2>5 DEF TypeInv, TypeOK, UsedOK, OnJob, OnReport, gitlab
<1>7. ASSUME NEW w \in Runners, Post(w) PROVE TypeInv'
  <2>1. UsedOK'
    BY <1>7, <1>u DEF Post, List, Update, Create, Resolve, SetStatus, Refused, FaultKinds
  <2>2. UNCHANGED <<cfg, seen>> \/ Forget(w)
    BY <1>7 DEF Post, List, Update, Create, Resolve, SetStatus, local
  <2>3. /\ cfg' \in [Runners -> {"repo", "default"}]
        /\ seen' \in [Runners -> [Parts -> BOOLEAN]]
    BY <2>2, Forgotten DEF TypeOK
  <2>4. snapshot' \in [Runners -> BOOLEAN]
    <3>1. Found(reports) # 0 => reports[Found(reports)].resolved \in BOOLEAN
      <4>1. reports # <<>> => 1 \in DOMAIN reports
        BY DEF TypeOK
      <4> QED BY <4>1, ReportAt DEF Found, Report
    <3> QED BY <1>7, <3>1 DEF Post, List, Update, Create, Resolve, SetStatus, Forget, local, TypeOK
  <2>5. UNCHANGED <<gitlab, began>> /\ fresh' \subseteq {"report", "status"}
    BY <1>7 DEF Post, List, Update, Create, Resolve, SetStatus, Ended, TypeOK
  <2>6. /\ pc' \in [Runners -> Working \cup {"idle", "retry"}]
        /\ held' \in [Runners -> Job \cup {NoJob}]
        /\ UNCHANGED <<sent, waiting>>
        /\ pc[w] # "idle"
        /\ \A v \in Runners : pc'[v] # "idle" => pc[v] # "idle" /\ held'[v] = held[v]
        /\ \A v \in Runners \ {w} : pc'[v] = pc[v]
    BY <1>7 DEF Post, List, Update, Create, Resolve, SetStatus, Refused, Abort,
                GoesOn, GoTo, LetGo, line, TypeOK, Working
  <2>7. status' \in [Events -> Verdicts \cup {"none"}]
    <3>1. Blamed(w) \in Events
      BY <2>6 DEF Blamed, OnJob, Job, TypeOK
    <3> QED BY <1>7, <1>v, <3>1 DEF Post, List, Update, Create, Resolve, SetStatus, TypeOK
  <2>8. /\ reports' \in Seq(Report) /\ DOMAIN reports \subseteq DOMAIN reports'
        /\ pc[w] \in {"update", "resolve"} => target[w] \in DOMAIN reports
    <3>1. CASE UNCHANGED reports
      BY <3>1 DEF TypeOK, OnReport, Report
    <3>2. CASE Update(w) \/ Resolve(w)
      <4>1. target[w] \in DOMAIN reports /\ Verdict(w) \in Verdicts /\ ~Create(w)
        BY <1>v, <3>2 DEF OnReport, Update, Resolve, Create
      <4>2. /\ [body |-> Verdict(w), resolved |-> reports[target[w]].resolved] \in Report
            /\ [body |-> reports[target[w]].body, resolved |-> Verdict(w) = "success"] \in Report
        BY <4>1, ReportAt DEF Report
      <4>3. \/ UNCHANGED reports
            \/ \E r \in Report : reports' = [reports EXCEPT ![target[w]] = r]
        BY <3>2, <4>2 DEF Update, Resolve, Rewritten
      <4> QED BY <3>1, <4>1, <4>3, RewrittenReports
    <3>3. CASE Create(w)
      <4>1. [body |-> Verdict(w), resolved |-> FALSE] \in Report
        BY <1>v DEF Report
      <4>2. \/ UNCHANGED reports
            \/ reports' = Append(reports, [body |-> Verdict(w), resolved |-> FALSE])
        BY <3>3 DEF Create
      <4>3. pc[w] = "create"
        BY <3>3 DEF Create
      <4> QED BY <3>1, <4>1, <4>2, <4>3, CreatedReports
    <3> QED BY <1>7, <3>1, <3>2, <3>3 DEF Post, List, SetStatus
  <2>9. target' \in [Runners -> Nat] /\ OnReport'
    <3>1. Found(reports) \in Nat /\ (Found(reports) # 0 => Found(reports) \in DOMAIN reports)
      BY DEF Found, TypeOK
    <3>2. Len(reports) + 1 \in Nat
      BY DEF TypeOK
    <3>3. \A v \in Runners \ {w} : target'[v] = target[v]
      BY <1>7 DEF Post, List, Update, Create, Resolve, SetStatus, Forget, local, TypeOK
    <3>p. \A place : GoTo(w, place) => pc'[w] = place
      BY DEF GoTo, TypeOK
    <3>o. \A v \in Runners \ {w} :
            pc'[v] \in {"update", "resolve", "status"} => target'[v] \in DOMAIN reports'
      BY <2>6, <2>8, <3>3 DEF OnReport
    <3>4. CASE List(w)
      <4>1. UNCHANGED reports
        BY <3>4 DEF List
      <4>2. \/ UNCHANGED target /\ pc'[w] \in {"retry", "idle"}
            \/ target' = [target EXCEPT ![w] = Found(reports)] /\ pc'[w] = "create"
            \/ /\ target' = [target EXCEPT ![w] = Found(reports)]
               /\ Found(reports) # 0 /\ pc'[w] = "update"
        BY <3>4, <3>p, Zenon DEF List, Refused, Abort, GoesOn
      <4> QED BY <3>1, <3>o, <4>1, <4>2 DEF OnReport, TypeOK
    <3>5. CASE Create(w)
      <4>1. \/ UNCHANGED target /\ pc'[w] \in {"retry", "idle", "create"}
            \/ /\ target' = [target EXCEPT ![w] = Len(reports) + 1] /\ pc'[w] = "resolve"
               /\ reports' = Append(reports, [body |-> Verdict(w), resolved |-> FALSE])
        BY <3>5, <3>p DEF Create, Refused, Abort, GoesOn
      <4>2. [body |-> Verdict(w), resolved |-> FALSE] \in Report
        BY <1>v DEF Report
      <4>3. pc'[w] = "resolve" => Len(reports) + 1 \in DOMAIN reports'
        BY <4>1, <4>2, CreatedReports
      <4> QED BY <3>2, <3>o, <4>1, <4>3 DEF OnReport, TypeOK
    <3>6. CASE Update(w) \/ Resolve(w)
      BY <2>6, <2>8, <3>o, <3>6
      DEF Update, Resolve, Refused, Abort, GoesOn, GoTo, TypeOK, OnReport, local
    <3>7. CASE SetStatus(w)
      <4>1. (UNCHANGED target /\ pc'[w] \in {"retry", "idle"}) \/ (Forget(w) /\ pc'[w] = "idle")
        BY <3>7, <3>p DEF SetStatus, Refused, Abort, local
      <4>2. target' \in [Runners -> Nat] /\ pc'[w] \in {"retry", "idle"}
        BY <4>1, Forgotten DEF TypeOK
      <4> QED BY <3>o, <4>2 DEF OnReport
    <3> QED BY <1>7, <3>4, <3>5, <3>6, <3>7 DEF Post
  <2> QED BY <2>1, <2>3, <2>4, <2>5, <2>6, <2>7, <2>8, <2>9
          DEF TypeInv, TypeOK, UsedOK, OnJob, gitlab, Report
<1>8. ASSUME NEW w \in Runners, Retry(w) PROVE TypeInv'
  <2> DEFINE next == [job |-> held[w].job, attempts |-> held[w].attempts + 1]
  <2>1. held[w] \in Job /\ pc[w] = "retry"
    BY <1>8 DEF Retry, OnJob
  <2>2. /\ held' = [held EXCEPT ![w] = NoJob]
        /\ \/ waiting' = waiting
           \/ held[w].attempts + 1 < MaxAttempts /\ waiting' = Append(waiting, next)
    BY <1>8 DEF Retry, Line!Retry, Line!GiveUp, Line!LetGo
  <2>3. held[w].attempts + 1 < MaxAttempts => next \in Job
    BY <1>a, <2>1 DEF Job
  <2> HIDE DEF next
  <2>4. waiting' \in Seq(Job)
    <3>1. waiting \in Seq(Job)
      BY DEF TypeOK
    <3>2. next \in Job => Append(waiting, next) \in Seq(Job)
      BY <3>1
    <3> QED BY <2>2, <2>3, <3>1, <3>2
  <2>5. /\ Forget(w) /\ UNCHANGED <<gitlab, sent, reports, status, used, began, fresh>>
        /\ pc' = [pc EXCEPT ![w] = "idle"]
    BY <1>8 DEF Retry, GoTo
  <2>6. /\ \A v \in Runners \ {w} : target'[v] = target[v]
        /\ cfg' \in [Runners -> {"repo", "default"}]
        /\ seen' \in [Runners -> [Parts -> BOOLEAN]]
        /\ target' \in [Runners -> Nat] /\ snapshot' \in [Runners -> BOOLEAN]
    BY <2>5, Forgotten
  <2>7. TypeOK'
    BY <2>2, <2>4, <2>5, <2>6 DEF TypeOK, gitlab, used
  <2> QED BY <2>2, <2>5, <2>6, <2>7 DEF TypeInv, TypeOK, OnJob, OnReport
<1>9. ASSUME NEW w \in Runners, Crash(w) PROVE TypeInv'
  <2>1. /\ Forget(w) /\ UsedOK'
        /\ UNCHANGED <<gitlab, sent, waiting, reports, status, began, fresh>>
        /\ pc' = [pc EXCEPT ![w] = "idle"] /\ held' = [held EXCEPT ![w] = NoJob]
    BY <1>9, <1>u DEF Crash, GoTo, LetGo
  <2>2. /\ \A v \in Runners \ {w} : target'[v] = target[v]
        /\ cfg' \in [Runners -> {"repo", "default"}]
        /\ seen' \in [Runners -> [Parts -> BOOLEAN]]
        /\ target' \in [Runners -> Nat] /\ snapshot' \in [Runners -> BOOLEAN]
    BY <2>1, Forgotten
  <2>3. TypeOK'
    BY <2>1, <2>2 DEF TypeOK, UsedOK, gitlab
  <2> QED BY <2>1, <2>2, <2>3 DEF TypeInv, TypeOK, OnJob, OnReport
<1>10. ASSUME LoseWaiting PROVE TypeInv'
  <2>1. /\ UNCHANGED <<gitlab, pc, held, reports, status, local, began, fresh>>
        /\ sent' \subseteq sent /\ UsedOK'
    BY <1>10, <1>u DEF LoseWaiting, Line!LoseArrival, Line!LoseHead, Line!LoseLine, Loses
  <2>2. waiting' \in Seq(Job)
    <3>1. waiting \in Seq(Job) /\ <<>> \in Seq(Job)
      BY DEF TypeOK
    <3>2. waiting # <<>> => Tail(waiting) \in Seq(Job)
      BY <3>1
    <3>3. \/ waiting' = waiting \/ waiting' = <<>>
          \/ waiting # <<>> /\ waiting' = Tail(waiting)
      BY <1>10 DEF LoseWaiting, Line!LoseArrival, Line!LoseHead, Line!LoseLine
    <3> QED BY <3>1, <3>2, <3>3
  <2> QED BY <2>1, <2>2 DEF TypeInv, TypeOK, UsedOK, OnJob, OnReport, gitlab, local
<1>11. CASE UNCHANGED vars
  BY <1>11 DEF vars, gitlab, line, local, used, TypeInv, TypeOK, OnJob, OnReport
<1> QED
  BY <1>1, <1>2, <1>3, <1>4, <1>5, <1>6, <1>7, <1>8, <1>9, <1>10, <1>11 DEF Next, Run


\* Every variable of the server and of GitLab keeps to its type, whatever
\* fails, is sent again or is lost.
THEOREM ReportTypes == Spec => []TypeOK
<1>1. TypeInv => TypeOK
  BY DEF TypeInv
<1> QED BY <1>1, TypeInit, TypeNext, PTL DEF Spec

-----------------------------------------------------------------------------
(* One report.  With the queue on there is one runner, and it creates a    *)
(* report only when it has listed none.                                    *)

OneInv ==
    Queued /\ Reliable =>
      /\ Len(reports) <= 1
      /\ \A w \in Runners : pc[w] = "create" => reports = <<>>

\* With the queue on, whoever is a runner is the runner.
LEMMA OneRunner == Queued => \A v, w \in Runners : v = w
  BY ModeAssumption

\* Going somewhere is being there.
LEMMA GoneTo == TypeOK => \A w \in Runners : \A place : GoTo(w, place) => pc'[w] = place
  BY DEF TypeOK, GoTo

\* No step but creating a report adds one, and none removes one.
LEMMA ReportsKept ==
    ASSUME TypeInv, [Next]_vars, \A w \in Runners : ~Create(w)
    PROVE  /\ Len(reports') = Len(reports) /\ (reports = <<>> => reports' = <<>>)
           /\ Len(reports) \in Nat
<1>1. Len(reports) \in Nat /\ (reports = <<>> <=> DOMAIN reports = {})
  BY DEF TypeInv, TypeOK
<1>2. ASSUME NEW i \in DOMAIN reports, NEW r \in Report, reports' = [reports EXCEPT ![i] = r]
      PROVE  Len(reports') = Len(reports) /\ (reports = <<>> => reports' = <<>>)
  BY <1>1, <1>2, RewrittenReports DEF TypeInv
<1>3. CASE UNCHANGED reports
  BY <1>1, <1>3
<1>4. CASE \E i \in DOMAIN reports : Toggle(i)
  <2>1. PICK i \in DOMAIN reports : Toggle(i)
    BY <1>4
  <2>2. [body |-> reports[i].body, resolved |-> ~reports[i].resolved] \in Report
    BY ReportAt DEF TypeInv, Report
  <2> QED BY <1>1, <1>2, <2>1, <2>2 DEF Toggle
<1>5. ASSUME NEW w \in Runners, Update(w) \/ Resolve(w)
      PROVE  Len(reports') = Len(reports) /\ (reports = <<>> => reports' = <<>>)
  <2>1. target[w] \in DOMAIN reports /\ Verdict(w) \in Verdicts
    BY <1>5 DEF TypeInv, OnReport, Update, Resolve, Verdict, VerdictOf, Verdicts
  <2>2. /\ [body |-> Verdict(w), resolved |-> reports[target[w]].resolved] \in Report
        /\ [body |-> reports[target[w]].body, resolved |-> Verdict(w) = "success"] \in Report
    BY <2>1, ReportAt DEF TypeInv, Report
  <2>3. \/ UNCHANGED reports
        \/ \E r \in Report : reports' = [reports EXCEPT ![target[w]] = r]
    BY <1>5, <2>2 DEF Update, Resolve, Rewritten
  <2> QED BY <1>2, <1>3, <2>1, <2>3
<1>6. \/ UNCHANGED reports \/ (\E i \in DOMAIN reports : Toggle(i))
      \/ \E w \in Runners : Update(w) \/ Resolve(w)
  BY DEF Next, Run, vars, Change, Enqueue, Take, Serve, Begin, Check, ReadConfig, Read,
         ReadMembers, ReadOwners, ReadDiffs, Post, List, SetStatus, Retry, Crash, LoseWaiting
<1> QED BY <1>1, <1>3, <1>4, <1>5, <1>6

\* One report: a runner creates only what its listing did not find, and with
\* the queue on nobody else has created since.
LEMMA OneNext == TypeInv /\ OneInv /\ [Next]_vars => OneInv'
<1> SUFFICES ASSUME TypeInv, OneInv, [Next]_vars, Queued, Reliable
             PROVE  /\ Len(reports') <= 1
                    /\ \A w \in Runners : pc'[w] = "create" => reports' = <<>>
  BY DEF OneInv, Reliable
<1>1. /\ Len(reports) <= 1 /\ Len(reports) \in Nat
      /\ \A w \in Runners : pc[w] = "create" => reports = <<>>
  BY DEF OneInv, TypeInv, TypeOK
<1>2. CASE \E w \in Runners : Create(w)
  <2>1. PICK w \in Runners : Create(w)
    BY <1>2
  <2>2. reports = <<>> /\ Len(reports) = 0 /\ \A v \in Runners : v = w
    BY <1>1, <2>1, OneRunner DEF Create
  <2>3. [body |-> Verdict(w), resolved |-> FALSE] \in Report
    BY DEF Verdict, VerdictOf, Verdicts, Report
  <2>4. CASE UNCHANGED reports
    BY <2>2, <2>4
  <2>5. CASE /\ reports' = Append(reports, [body |-> Verdict(w), resolved |-> FALSE])
             /\ GoesOn(w, "resolve") \/ Abort(w)
    <3>1. Len(reports') = 1
      BY <2>2, <2>3, <2>5, CreatedReports DEF TypeInv
    <3>2. pc'[w] # "create"
      BY <2>5, GoneTo DEF GoesOn, Abort, TypeInv
    <3> QED BY <2>2, <3>1, <3>2
  <2> QED BY <2>1, <2>4, <2>5 DEF Create, Fault, Reliable
<1>3. CASE \A w \in Runners : ~Create(w)
  <2>1. Len(reports') = Len(reports) /\ (reports = <<>> => reports' = <<>>)
    BY <1>3, ReportsKept
  <2>2. ASSUME NEW w \in Runners, pc'[w] = "create"
        PROVE  reports = <<>>
    <3>1. CASE pc[w] = "create"
      BY <1>1, <3>1
    <3>2. CASE List(w)
      <4>1. Found(reports) = 0
        BY <2>2, <3>2, GoneTo DEF List, Refused, Abort, GoesOn, TypeInv
      <4> QED BY <4>1 DEF Found
    <3>3. CASE pc[w] # "create" /\ ~List(w)
      <4>p. pc[w] # "create" /\ \A place : GoTo(w, place) => pc'[w] = place
        BY <3>3, GoneTo DEF TypeInv
      <4>0. \A v \in Runners : v = w
        BY OneRunner
      <4>1. ~Take(w) /\ \A e \in Events : ~Serve(w, e)
        BY <2>2, <4>p DEF Take, Serve, Begin
      <4>2. ~Check(w)
        BY <2>2, <4>p DEF Check, ReadConfig, Read, ReadMembers, ReadOwners, ReadDiffs, Refused,
                          Abort, GoesOn
      <4>3. ~Post(w) /\ ~Retry(w) /\ ~Crash(w)
        BY <2>2, <3>3, <4>p
        DEF Post, Create, Update, Resolve, SetStatus, Retry, Crash, Refused, Abort, GoesOn
      <4>4. UNCHANGED pc
        BY <4>0, <4>1, <4>2, <4>3
        DEF Next, Run, vars, Change, Toggle, Enqueue, LoseWaiting
      <4> QED BY <2>2, <4>4, <4>p
    <3> QED BY <3>1, <3>2, <3>3
  <2> QED BY <1>1, <2>1, <2>2
<1> QED BY <1>2, <1>3

\* With the queue on the merge request has one report at the most: a retry, a
\* lost reply or a crash between creating and resolving adds none.
THEOREM OneReportQueued == Queued => (Spec => []OneReport)
<1> SUFFICES ASSUME Queued PROVE Spec => []OneReport
  OBVIOUS
<1>1. Init => OneInv
  BY DEF Init, OneInv
<1>2. OneInv => OneReport
  BY DEF OneInv, OneReport, Reliable
<1> QED BY <1>1, <1>2, TypeInit, TypeNext, OneNext, PTL DEF Spec

-----------------------------------------------------------------------------
\* What the report looks like when a runner stands before its next call.
Tells(w) ==
    /\ pc[w] = "update" => snapshot[w] = reports[1].resolved
    /\ pc[w] \in {"resolve", "status"} => reports[1].body = Verdict(w)
    /\ pc[w] = "status" => reports[1].resolved = (Verdict(w) = "success")

TellsInv ==
    Queued /\ Reliable =>
      \A w \in Runners : toggles = 0 \/ w \in began => Tells(w)

AllRead == {"members", "owners", "diffs", "list", "update", "create", "resolve", "status"}
Knows(w) ==
    /\ pc[w] \in {"details", "approvals", "commits"} \cup AllRead => cfg[w] = "repo"
    /\ pc[w] \in {"approvals", "commits"} \cup AllRead =>
         seen[w]["details"] = content["details"]
    /\ pc[w] \in {"commits"} \cup AllRead => seen[w]["approvals"] = content["approvals"]
    /\ pc[w] \in AllRead => seen[w]["commits"] = content["commits"]

KnowsInv == \A w \in began : Knows(w)

\* A run that began after the last change knows the merge request as it is.
LEMMA KnowsNext == TypeInv /\ KnowsInv /\ [Next]_vars => KnowsInv'
<1> SUFFICES ASSUME TypeInv, KnowsInv, [Next]_vars, NEW w \in Runners, w \in began'
             PROVE  Knows(w)'
  BY TypeNext DEF KnowsInv, TypeInv, TypeOK
<1>1. /\ \A place : GoTo(w, place) => pc'[w] = place
      /\ \A v \in Runners \ {w} : \A place : GoTo(v, place) => pc'[w] = pc[w]
  BY DEF GoTo, TypeInv, TypeOK
<1>2. ASSUME pc'[w] = pc[w], cfg'[w] = cfg[w], seen'[w] = seen[w], content' = content,
             w \in began
      PROVE  Knows(w)'
  BY <1>2 DEF KnowsInv, Knows
<1>3. ASSUME pc'[w] \in {"idle", "retry", "config"}
      PROVE  Knows(w)'
  BY <1>3 DEF Knows, AllRead
<1>4. ASSUME NEW ps \in SUBSET Moving, Change(ps) PROVE Knows(w)'
  BY <1>4 DEF Change
<1>5. ASSUME NEW i \in DOMAIN reports, Toggle(i) PROVE Knows(w)'
  BY <1>5 DEF Toggle
<1>6. ASSUME NEW e \in Events, Enqueue(e) PROVE Knows(w)'
  BY <1>2, <1>6 DEF Enqueue, local, gitlab
<1>7. ASSUME LoseWaiting PROVE Knows(w)'
  BY <1>2, <1>7 DEF LoseWaiting, local, gitlab, Line!LoseArrival, Line!LoseHead, Line!LoseLine
<1>8. CASE UNCHANGED vars
  BY <1>2, <1>8 DEF vars, local, gitlab
<1>9. ASSUME NEW v \in Runners, Take(v) \/ \E e \in Events : Serve(v, e) PROVE Knows(w)'
  <2>1. GoTo(v, "config") /\ UNCHANGED <<cfg, seen, content>> /\ began' = began \cup {v}
    BY <1>9 DEF Take, Serve, Begin, local, gitlab
  <2> QED BY <1>1, <1>2, <1>3, <2>1
<1>10. ASSUME NEW v \in Runners, Retry(v) \/ Crash(v) PROVE Knows(w)'
  <2>1. GoTo(v, "idle") /\ Forget(v) /\ UNCHANGED <<content, began>>
    BY <1>10 DEF Retry, Crash, gitlab
  <2>2. v # w => cfg'[w] = cfg[w] /\ seen'[w] = seen[w]
    BY <2>1, Forgotten DEF TypeInv
  <2> QED BY <1>1, <1>2, <1>3, <2>1, <2>2
<1>11. ASSUME NEW v \in Runners, Post(v) PROVE Knows(w)'
  <2>1. CASE Forget(v) /\ GoTo(v, "idle") /\ UNCHANGED <<content, began>>
    <3>1. v # w => cfg'[w] = cfg[w] /\ seen'[w] = seen[w]
      BY <2>1, Forgotten DEF TypeInv
    <3> QED BY <1>1, <1>2, <1>3, <2>1, <3>1
  <2>2. CASE /\ UNCHANGED <<content, began, cfg, seen>> /\ pc[v] \in AllRead
             /\ \/ UNCHANGED pc
                \/ \E place \in AllRead \cup {"idle", "retry"} : GoTo(v, place)
    <3>1. CASE v # w
      BY <1>1, <1>2, <2>2, <3>1
    <3>2. CASE v = w
      <4>1. pc'[w] \in AllRead \cup {"idle", "retry"}
        BY <1>1, <2>2, <3>2
      <4>2. cfg[w] = "repo" /\ \A p \in Parts : seen[w][p] = content[p]
        BY <2>2, <3>2 DEF KnowsInv, Knows, Parts
      <4> QED BY <2>2, <4>2 DEF Knows, Parts
    <3> QED BY <3>1, <3>2
  <2> QED BY <1>11, <2>1, <2>2
          DEF Post, List, Create, Update, Resolve, SetStatus, Refused, Abort, GoesOn, local,
              gitlab, AllRead
<1>12. ASSUME NEW v \in Runners, Check(v) PROVE Knows(w)'
  <2>1. UNCHANGED content /\ w \in began
    BY <1>12 DEF Check, ReadConfig, Read, ReadMembers, ReadOwners, ReadDiffs, ReadWell, Degraded,
                 gitlab
  <2>2. \A p \in Parts : content[p] \in BOOLEAN /\ seen[v][p] \in BOOLEAN
    BY DEF TypeInv, TypeOK
  <2>3. CASE v # w
    <3>1. cfg'[w] = cfg[w] /\ pc'[w] = pc[w]
      BY <1>1, <1>12, <2>3
      DEF Check, ReadConfig, Read, ReadMembers, ReadOwners, ReadDiffs, Refused, Abort, GoesOn,
          TypeInv, TypeOK
    <3>2. UNCHANGED seen \/ \E p \in Parts, ok \in BOOLEAN : Learns(v, p, ok)
      BY <1>12, <2>2
      DEF Check, ReadConfig, Read, ReadMembers, ReadOwners, ReadDiffs, Parts
    <3>3. seen'[w] = seen[w]
      BY <2>3, <3>2, Learned DEF TypeInv
    <3> QED BY <1>2, <2>1, <3>1, <3>3
  <2>4. CASE v = w
    <3>1. Knows(w)
      BY <2>1 DEF KnowsInv
    <3>2. CASE ReadConfig(w)
      <4>1. cfg'[w] = "repo" /\ pc'[w] = "details"
        BY <1>1, <3>2 DEF ReadConfig, Degraded, GoesOn, TypeInv, TypeOK
      <4> QED BY <4>1 DEF Knows, AllRead
    <3>3. ASSUME NEW p \in Parts, NEW then, Read(w, p, then)
          PROVE  \/ pc'[w] \in {"idle", "retry"}
                 \/ /\ pc[w] = p /\ pc'[w] = then /\ cfg'[w] = cfg[w]
                    /\ seen'[w][p] = content[p]
                    /\ \A q \in Parts \ {p} : seen'[w][q] = seen[w][q]
      <4>1. Learns(w, p, content[p]) =>
              /\ seen'[w][p] = content[p]
              /\ \A q \in Parts \ {p} : seen'[w][q] = seen[w][q]
        BY <2>2, Learned DEF TypeInv
      <4> QED BY <1>1, <3>3, <4>1 DEF Read, Refused, Abort, GoesOn
    <3>4. CASE Read(w, "details", "approvals")
      <4> QED BY <1>3, <2>1, <3>1, <3>3, <3>4 DEF Parts, Knows, AllRead
    <3>5. CASE Read(w, "approvals", "commits")
      <4> QED BY <1>3, <2>1, <3>1, <3>3, <3>5 DEF Parts, Knows, AllRead
    <3>6. CASE Read(w, "commits", IF UsesOwners(w) THEN "members" ELSE "list")
      <4> QED BY <1>3, <2>1, <3>1, <3>3, <3>6 DEF Parts, Knows, AllRead
    <3>7. CASE ReadMembers(w)
      <4>1. /\ UNCHANGED <<cfg, seen>> /\ pc[w] = "members" /\ pc'[w] = "owners"
        BY <1>1, <3>7 DEF ReadMembers, Degraded, GoesOn
      <4> QED BY <2>1, <3>1, <4>1 DEF Knows, AllRead
    <3>8. CASE ReadOwners(w)
      <4>1. /\ UNCHANGED <<cfg, seen>> /\ pc[w] = "owners" /\ pc'[w] = "diffs"
        BY <1>1, <3>8 DEF ReadOwners, Degraded, GoesOn
      <4> QED BY <2>1, <3>1, <4>1 DEF Knows, AllRead
    <3>9. CASE ReadDiffs(w)
      <4>1. UNCHANGED cfg /\ pc[w] = "diffs" /\ pc'[w] = "list"
        BY <1>1, <3>9 DEF ReadDiffs, GoesOn
      <4>2. seen[w]["approvals"] = content["approvals"]
        BY <3>1, <4>1 DEF Knows, AllRead
      <4>3. Learns(w, "approvals", content["approvals"])
        BY <3>9, <4>2 DEF ReadDiffs
      <4>4. /\ seen'[w]["approvals"] = content["approvals"]
            /\ \A q \in Parts \ {"approvals"} : seen'[w][q] = seen[w][q]
        BY <2>2, <4>3, Learned DEF TypeInv, Parts
      <4> QED BY <2>1, <3>1, <4>1, <4>4 DEF Knows, AllRead, Parts
    <3> QED BY <1>12, <2>4, <3>2, <3>4, <3>5, <3>6, <3>7, <3>8, <3>9 DEF Check
  <2> QED BY <2>3, <2>4
<1> QED
  BY <1>4, <1>5, <1>6, <1>7, <1>8, <1>9, <1>10, <1>11, <1>12 DEF Next, Run

FreshInv ==
    /\ fresh # {} => \A w \in Runners : pc[w] \notin {"idle", "retry"} => w \in began
    /\ "report" \in fresh =>
         /\ Len(reports) = 1
         /\ reports[1].body = Now
         /\ reports[1].resolved = (Now = "success")
    /\ "status" \in fresh => status[sha[events]] = Now
CurrentInv == Queued /\ Reliable => FreshInv


\* A runner that rewrites, resolves or answers for the report has the only one.
LEMMA OnlyReport ==
    ASSUME TypeInv, OneInv, Queued, Reliable, NEW w \in Runners,
           pc[w] \in {"update", "resolve", "status"}
    PROVE  target[w] = 1 /\ Len(reports) = 1 /\ 1 \in DOMAIN reports /\ reports # <<>>
<1>1. /\ target[w] \in 1 .. Len(reports) /\ Len(reports) \in Nat
      /\ DOMAIN reports = 1 .. Len(reports)
  BY DEF TypeInv, TypeOK, OnReport
<1>2. Len(reports) <= 1
  BY DEF OneInv
<1> QED BY <1>1, <1>2

\* What the three calls that write a report leave in it.
LEMMA WrittenReport ==
    ASSUME TypeInv, OneInv, Queued, Reliable, NEW w \in Runners
    PROVE  /\ Update(w) /\ ~UNCHANGED reports =>
                /\ reports'[1].body = Verdict(w)
                /\ reports'[1].resolved = reports[1].resolved
           /\ Resolve(w) /\ ~UNCHANGED reports =>
                /\ reports'[1].body = reports[1].body
                /\ reports'[1].resolved = (Verdict(w) = "success")
           /\ Create(w) /\ ~UNCHANGED reports => reports'[1].body = Verdict(w)
<1>1. Verdict(w) \in Verdicts
  BY DEF Verdict, VerdictOf, Verdicts
<1>2. ASSUME Update(w), ~UNCHANGED reports
      PROVE  /\ reports'[1].body = Verdict(w) /\ reports'[1].resolved = reports[1].resolved
  <2> DEFINE r == [body |-> Verdict(w), resolved |-> reports[1].resolved]
  <2>1. target[w] = 1 /\ 1 \in DOMAIN reports
    BY <1>2, OnlyReport DEF Update
  <2>2. r \in Report /\ reports' = [reports EXCEPT ![1] = r]
    BY <1>1, <1>2, <2>1, ReportAt DEF Update, Rewritten, Report, TypeInv
  <2>3. reports'[1] = r
    BY <2>1, <2>2, RewrittenReports DEF TypeInv
  <2> QED BY <2>3
<1>3. ASSUME Resolve(w), ~UNCHANGED reports
      PROVE  /\ reports'[1].body = reports[1].body
             /\ reports'[1].resolved = (Verdict(w) = "success")
  <2> DEFINE r == [body |-> reports[1].body, resolved |-> Verdict(w) = "success"]
  <2>1. target[w] = 1 /\ 1 \in DOMAIN reports
    BY <1>3, OnlyReport DEF Resolve
  <2>2. r \in Report /\ reports' = [reports EXCEPT ![1] = r]
    BY <1>1, <1>3, <2>1, ReportAt DEF Resolve, Report, TypeInv
  <2>3. reports'[1] = r
    BY <2>1, <2>2, RewrittenReports DEF TypeInv
  <2> QED BY <2>3
<1>4. ASSUME Create(w), ~UNCHANGED reports
      PROVE  reports'[1].body = Verdict(w)
  <2> DEFINE r == [body |-> Verdict(w), resolved |-> FALSE]
  <2>1. Len(reports) = 0
    BY <1>4 DEF OneInv, Create
  <2>2. r \in Report /\ reports' = Append(reports, r)
    BY <1>1, <1>4 DEF Create, Report
  <2>3. reports'[0 + 1] = r
    BY <2>1, <2>2, CreatedReports DEF TypeInv
  <2> QED BY <2>3
<1> QED BY <1>2, <1>3, <1>4

\* Before its next call a runner finds in the report what it has put there.
LEMMA TellsNext == TypeInv /\ OneInv /\ TellsInv /\ [Next]_vars => TellsInv'
<1> SUFFICES ASSUME TypeInv, OneInv, TellsInv, [Next]_vars, Queued, Reliable,
                    NEW w \in Runners, toggles' = 0 \/ w \in began'
             PROVE  Tells(w)'
  BY DEF TellsInv, Reliable
<1>1. \A place : GoTo(w, place) => pc'[w] = place
  BY GoneTo DEF TypeInv
<1>2. \A v \in Runners : v = w
  BY OneRunner
<1>3. ASSUME pc'[w] \notin {"update", "resolve", "status"}
      PROVE  Tells(w)'
  BY <1>3 DEF Tells
<1>4. ASSUME toggles = 0 \/ w \in began, pc'[w] = pc[w], UNCHANGED <<reports, local>>
      PROVE  Tells(w)'
  BY <1>4 DEF TellsInv, Tells, Verdict, local
<1>5. ASSUME NEW ps \in SUBSET Moving, Change(ps) PROVE Tells(w)'
  BY <1>4, <1>5 DEF Change, used
<1>6. ASSUME NEW i \in DOMAIN reports, Toggle(i) PROVE Tells(w)'
  BY <1>6 DEF Toggle, TypeInv, TypeOK
<1>7. ASSUME NEW e \in Events, Enqueue(e) PROVE Tells(w)'
  BY <1>4, <1>7 DEF Enqueue, used
<1>8. ASSUME LoseWaiting PROVE Tells(w)'
  BY <1>4, <1>8 DEF LoseWaiting, Loses, Line!LoseArrival, Line!LoseHead, Line!LoseLine
<1>9. CASE UNCHANGED vars
  BY <1>4, <1>9 DEF vars, used
<1>10. ASSUME Take(w) \/ (\E e \in Events : Serve(w, e)) \/ Retry(w) \/ Crash(w)
       PROVE  Tells(w)'
  BY <1>1, <1>3, <1>10 DEF Take, Serve, Begin, Retry, Crash
<1>11. ASSUME Check(w) PROVE Tells(w)'
  BY <1>1, <1>3, <1>11
  DEF Check, ReadConfig, Read, ReadMembers, ReadOwners, ReadDiffs, Refused, Abort, GoesOn
<1>12. ASSUME SetStatus(w) PROVE Tells(w)'
  BY <1>1, <1>3, <1>12 DEF SetStatus, Refused, Abort
<1>13. ASSUME List(w) PROVE Tells(w)'
  <2>1. UNCHANGED reports
    BY <1>13 DEF List
  <2>2. \/ pc'[w] \in {"create", "retry", "idle"}
        \/ /\ pc'[w] = "update" /\ Found(reports) # 0
           /\ snapshot' = [snapshot EXCEPT ![w] = reports[Found(reports)].resolved]
    BY <1>1, <1>13 DEF List, Refused, Abort, GoesOn
  <2>3. CASE pc'[w] \in {"create", "retry", "idle"}
    BY <1>3, <2>3
  <2>4. CASE pc'[w] = "update" /\ Found(reports) # 0
    <3>1. snapshot'[w] = reports[1].resolved
      BY <2>2, <2>4 DEF Found, TypeInv, TypeOK
    <3> QED BY <2>1, <2>4, <3>1 DEF Tells
  <2> QED BY <2>2, <2>3, <2>4
<1>14. ASSUME Update(w) \/ Create(w) \/ Resolve(w), pc'[w] \in {"update", "resolve", "status"}
       PROVE  Tells(w)'
  <2>1. /\ \/ toggles = 0 /\ toggles \in Nat
           \/ w \in began
        /\ Verdict(w)' = Verdict(w) /\ UNCHANGED snapshot
    BY <1>14 DEF Update, Create, Resolve, Verdict, local, NoFault, Fault, Refused, used, TypeInv,
                 TypeOK
  <2>2. Tells(w)
    BY <2>1 DEF TellsInv
  <2>3. CASE Update(w)
    <3>1. /\ reports'[1].body = Verdict(w) /\ reports'[1].resolved = reports[1].resolved
          /\ pc[w] = "update" /\ pc'[w] = IF Differs(w) THEN "resolve" ELSE "status"
      <4>1. /\ pc[w] = "update" /\ Rewritten(w)
            /\ pc'[w] = IF Differs(w) THEN "resolve" ELSE "status"
        BY <1>1, <1>14, <2>3 DEF Update, Refused, Abort, GoesOn
      <4>2. target[w] = 1 /\ 1 \in DOMAIN reports
        BY <4>1, OnlyReport
      <4>3. UNCHANGED reports => reports[1] = [body |-> Verdict(w), resolved |-> reports[1].resolved]
        BY <4>1, <4>2 DEF Rewritten, TypeInv, TypeOK
      <4> QED BY <2>3, <4>1, <4>3, WrittenReport
    <3> QED BY <2>1, <2>2, <3>1 DEF Tells, Differs
  <2>4. CASE Create(w)
    <3>1. pc'[w] = "resolve" /\ reports' = Append(reports, [body |-> Verdict(w), resolved |-> FALSE])
      BY <1>1, <1>14, <2>4 DEF Create, Refused, Abort, GoesOn, Fault, Reliable
    <3>2. [body |-> Verdict(w), resolved |-> FALSE] \in Report
      BY DEF Verdict, VerdictOf, Verdicts, Report
    <3>3. Len(reports') = Len(reports) + 1 /\ Len(reports) \in Nat
      BY <3>1, <3>2, CreatedReports DEF TypeInv
    <3>4. reports'[1].body = Verdict(w)
      BY <2>4, <3>3, WrittenReport
    <3> QED BY <2>1, <3>1, <3>4 DEF Tells
  <2>5. CASE Resolve(w)
    <3>1. pc[w] = "resolve" /\ pc'[w] = "status"
          /\ reports' = [reports EXCEPT ![target[w]] =
                           [body |-> @.body, resolved |-> Verdict(w) = "success"]]
      BY <1>1, <1>14, <2>5 DEF Resolve, Refused, Abort, GoesOn
    <3>2. target[w] = 1 /\ 1 \in DOMAIN reports
      BY <3>1, OnlyReport
    <3>3. UNCHANGED reports =>
            reports[1] = [body |-> reports[1].body, resolved |-> Verdict(w) = "success"]
      BY <3>1, <3>2 DEF TypeInv, TypeOK
    <3>4. reports'[1].body = reports[1].body /\ reports'[1].resolved = (Verdict(w) = "success")
      BY <2>5, <3>3, WrittenReport
    <3> QED BY <2>1, <2>2, <3>1, <3>4 DEF Tells
  <2> QED BY <1>14, <2>3, <2>4, <2>5
<1>15. ASSUME Post(w) PROVE Tells(w)'
  BY <1>3, <1>12, <1>13, <1>14, <1>15 DEF Post
<1> QED
  BY <1>2, <1>5, <1>6, <1>7, <1>8, <1>9, <1>10, <1>11, <1>15 DEF Next, Run

\* What a runner has written stays, whoever touches the thread.
WroteInv ==
    Queued /\ Reliable =>
      \A w \in Runners : pc[w] \in {"resolve", "status"} => reports[1].body = Verdict(w)

LEMMA WroteNext == TypeInv /\ OneInv /\ WroteInv /\ [Next]_vars => WroteInv'
<1> SUFFICES ASSUME TypeInv, OneInv, WroteInv, [Next]_vars, Queued, Reliable,
                    NEW w \in Runners, pc'[w] \in {"resolve", "status"}
             PROVE  reports'[1].body = Verdict(w)'
  BY DEF WroteInv, Reliable
<1>1. \A place : GoTo(w, place) => pc'[w] = place
  BY GoneTo DEF TypeInv
<1>2. \A v \in Runners : v = w
  BY OneRunner
<1>3. ASSUME pc'[w] = pc[w], UNCHANGED <<reports, local>> PROVE reports'[1].body = Verdict(w)'
  BY <1>3 DEF WroteInv, Verdict, local
<1>4. ASSUME \/ \E ps \in SUBSET Moving : Change(ps)
             \/ \E e \in Events : Enqueue(e)
             \/ LoseWaiting \/ UNCHANGED vars
      PROVE  reports'[1].body = Verdict(w)'
  BY <1>3, <1>4 DEF Change, Enqueue, LoseWaiting, Loses, vars,
                    Line!LoseArrival, Line!LoseHead, Line!LoseLine
<1>5. ASSUME NEW i \in DOMAIN reports, Toggle(i) PROVE reports'[1].body = Verdict(w)'
  <2>1. pc'[w] = pc[w] /\ Verdict(w)' = Verdict(w)
    BY <1>5 DEF Toggle, Verdict, local
  <2>2. reports[1].body = Verdict(w) /\ 1 \in DOMAIN reports
    BY <2>1, OnlyReport DEF WroteInv
  <2>3. reports'[1].body = reports[1].body
    BY <1>5, <2>2 DEF Toggle, TypeInv, TypeOK
  <2> QED BY <2>1, <2>2, <2>3
<1>6. ~Take(w) /\ ~(\E e \in Events : Serve(w, e)) /\ ~Retry(w) /\ ~Crash(w)
      /\ ~Check(w) /\ ~SetStatus(w) /\ ~List(w)
  BY <1>1 DEF Take, Serve, Begin, Retry, Crash, Check, ReadConfig, Read, ReadMembers, ReadOwners,
              ReadDiffs, SetStatus, List, Refused, Abort, GoesOn
<1>7. ASSUME Update(w) \/ Create(w) \/ Resolve(w) PROVE reports'[1].body = Verdict(w)'
  <2>1. Verdict(w)' = Verdict(w)
    BY <1>7 DEF Update, Create, Resolve, Verdict, local
  <2>2. CASE Update(w)
    <3>1. pc[w] = "update" /\ Rewritten(w)
      BY <1>1, <2>2 DEF Update, Refused, Abort, GoesOn
    <3>2. target[w] = 1 /\ 1 \in DOMAIN reports
      BY <3>1, OnlyReport
    <3>3. UNCHANGED reports => reports[1].body = Verdict(w)
      BY <3>1, <3>2 DEF Rewritten, TypeInv, TypeOK
    <3> QED BY <2>1, <2>2, <3>3, WrittenReport
  <2>3. CASE Create(w)
    <3>1. reports' = Append(reports, [body |-> Verdict(w), resolved |-> FALSE])
      BY <1>1, <2>3 DEF Create, Refused, Abort, GoesOn, Fault, Reliable
    <3>2. [body |-> Verdict(w), resolved |-> FALSE] \in Report
      BY DEF Verdict, VerdictOf, Verdicts, Report
    <3>3. Len(reports') = Len(reports) + 1 /\ Len(reports) \in Nat
      BY <3>1, <3>2, CreatedReports DEF TypeInv
    <3> QED BY <2>1, <2>3, <3>3, WrittenReport
  <2>4. CASE Resolve(w)
    <3>1. pc[w] = "resolve"
          /\ reports' = [reports EXCEPT ![target[w]] =
                           [body |-> @.body, resolved |-> Verdict(w) = "success"]]
      BY <1>1, <2>4 DEF Resolve, Refused, Abort, GoesOn
    <3>2. target[w] = 1 /\ 1 \in DOMAIN reports /\ reports[1].body = Verdict(w)
      BY <3>1, OnlyReport DEF WroteInv
    <3> QED BY <2>1, <3>1, <3>2 DEF TypeInv, TypeOK
  <2> QED BY <1>7, <2>2, <2>3, <2>4
<1> QED BY <1>2, <1>4, <1>5, <1>6, <1>7 DEF Next, Run, Post

\* With the queue on a commit never turns green or red before the report says
\* the same, and its thread is resolved or open accordingly unless a hand has
\* touched it since the run began.
THEOREM StatusFollows == Queued => (Spec => StatusFollowsReport)
<1> SUFFICES ASSUME Queued PROVE Spec => StatusFollowsReport
  OBVIOUS
<1> DEFINE Follows ==
      Reliable =>
        \A e \in Events : status'[e] # status[e] =>
          /\ reports # <<>>
          /\ reports[1].body = status'[e]
          /\ toggles = 0 \/ began # {} => reports[1].resolved = (status'[e] = "success")
<1>1. Init => TellsInv /\ WroteInv
  BY DEF Init, TellsInv, Tells, WroteInv
<1>2. TypeInv /\ OneInv /\ TellsInv /\ WroteInv /\ [Next]_vars => [Follows]_vars
  <2> SUFFICES ASSUME TypeInv, OneInv, TellsInv, WroteInv, [Next]_vars, Reliable,
                      NEW e \in Events, status'[e] # status[e]
               PROVE  /\ reports # <<>>
                      /\ reports[1].body = status'[e]
                      /\ toggles = 0 \/ began # {} =>
                           reports[1].resolved = (status'[e] = "success")
    OBVIOUS
  <2>1. PICK w \in Runners : SetStatus(w)
    BY DEF Next, Run, vars, Change, Toggle, Enqueue, Take, Serve, Begin, Check, ReadConfig, Read,
           ReadMembers, ReadOwners, ReadDiffs, Post, List, Create, Update, Resolve, Retry, Crash,
           LoseWaiting
  <2>2. pc[w] = "status" /\ status' = [status EXCEPT ![Blamed(w)] = Verdict(w)]
    BY <2>1 DEF SetStatus
  <2>3. status'[e] = Verdict(w)
    BY <2>2 DEF TypeInv, TypeOK
  <2>4. reports # <<>> /\ reports[1].body = Verdict(w)
    BY <2>2, OnlyReport DEF WroteInv
  <2>5. began # {} => w \in began
    BY OneRunner DEF TypeInv, TypeOK
  <2> QED BY <2>2, <2>3, <2>4, <2>5 DEF TellsInv, Tells
<1>3. Init => OneInv
  BY DEF Init, OneInv
<1>4. StatusFollowsReport <=> [][Follows]_vars
  BY DEF StatusFollowsReport
<1> HIDE DEF Follows
<1>5. Spec => [][Follows]_vars
  BY <1>1, <1>2, <1>3, TypeInit, TypeNext, OneNext, TellsNext, WroteNext, PTL DEF Spec
<1> QED BY <1>4, <1>5


\* The verdict of a run that knows the merge request is the one it deserves.
LEMMA RightVerdict ==
    ASSUME TypeInv, KnowsInv, NEW w \in began, pc[w] \in AllRead
    PROVE  Verdict(w) = Now
<1>1. w \in Runners /\ seen[w] \in [Parts -> BOOLEAN] /\ content \in [Parts -> BOOLEAN]
  BY DEF TypeInv, TypeOK
<1>2. cfg[w] = "repo" /\ \A p \in Parts : seen[w][p] = content[p]
  BY DEF KnowsInv, Knows, Parts
<1>3. seen[w] = content
  BY <1>1, <1>2
<1> QED BY <1>2, <1>3 DEF Verdict, Now

\* What is up to date stays so until the merge request changes again.
LEMMA CurrentNext ==
    TypeInv /\ OneInv /\ TellsInv /\ KnowsInv /\ CurrentInv /\ [Next]_vars => CurrentInv'
<1> SUFFICES ASSUME TypeInv, OneInv, TellsInv, KnowsInv, FreshInv, [Next]_vars, Queued, Reliable
             PROVE  FreshInv'
  BY DEF CurrentInv, Reliable
<1>1. /\ fresh # {} => \A w \in Runners : pc[w] \notin {"idle", "retry"} => w \in began
      /\ "report" \in fresh =>
           Len(reports) = 1 /\ reports[1].body = Now /\ reports[1].resolved = (Now = "success")
      /\ "status" \in fresh => status[sha[events]] = Now
  BY DEF FreshInv
<1>2. ASSUME fresh' = {} PROVE FreshInv'
  BY <1>2 DEF FreshInv
<1>3. ASSUME UNCHANGED <<gitlab, reports, status, fresh>>, began \subseteq began',
             \A w \in Runners :
               pc'[w] \notin {"idle", "retry"} => pc[w] \notin {"idle", "retry"} \/ w \in began'
      PROVE  FreshInv'
  BY <1>1, <1>3 DEF FreshInv, Now, gitlab
<1>4. ASSUME NEW ps \in SUBSET Moving, Change(ps) PROVE FreshInv'
  BY <1>2, <1>4 DEF Change
<1>5. ASSUME NEW i \in DOMAIN reports, Toggle(i) PROVE FreshInv'
  BY <1>2, <1>5 DEF Toggle
<1>6. ASSUME NEW e \in Events, Enqueue(e) PROVE FreshInv'
  BY <1>3, <1>6 DEF Enqueue
<1>7. ASSUME LoseWaiting PROVE FreshInv'
  BY <1>3, <1>7 DEF LoseWaiting, gitlab, Line!LoseArrival, Line!LoseHead, Line!LoseLine
<1>8. CASE UNCHANGED vars
  BY <1>3, <1>8 DEF vars
<1> SUFFICES ASSUME NEW w \in Runners, Run(w) \/ Crash(w) PROVE FreshInv'
  BY <1>4, <1>5, <1>6, <1>7, <1>8 DEF Next
<1>w. (\A v \in Runners : v = w) /\ \A place : GoTo(w, place) => pc'[w] = place
  BY OneRunner, GoneTo DEF TypeInv
<1>9. ASSUME Take(w) \/ \E e \in Events : Serve(w, e) PROVE FreshInv'
  <2>1. UNCHANGED <<gitlab, reports, status, fresh>> /\ began' = began \cup {w}
    BY <1>9 DEF Take, Serve, Begin
  <2> QED BY <1>3, <1>w, <2>1
<1>10. ASSUME Retry(w) \/ Crash(w) PROVE FreshInv'
  <2>1. UNCHANGED <<gitlab, reports, status, fresh, began>> /\ pc'[w] = "idle"
    BY <1>10, <1>w DEF Retry, Crash
  <2> QED BY <1>3, <1>w, <2>1
<1>11. ASSUME Check(w) PROVE FreshInv'
  <2>1. \/ fresh' = {}
        \/ UNCHANGED <<gitlab, reports, status, fresh, began>> /\ pc[w] \notin {"idle", "retry"}
    BY <1>11 DEF Check, ReadConfig, Read, ReadMembers, ReadOwners, ReadDiffs, ReadWell, Degraded
  <2> QED BY <1>2, <1>3, <1>w, <2>1
<1>12. ASSUME List(w) PROVE FreshInv'
  <2>1. UNCHANGED <<gitlab, reports, status, fresh, began>> /\ pc[w] = "list"
    BY <1>12 DEF List
  <2> QED BY <1>3, <1>w, <2>1
<1>13. ASSUME Create(w) \/ Update(w) \/ Resolve(w) PROVE FreshInv'
  <2>1. /\ UNCHANGED <<gitlab, status, fresh, began>>
        /\ pc[w] \in {"update", "create", "resolve"}
    BY <1>13 DEF Create, Update, Resolve
  <2>2. CASE fresh = {}
    BY <1>2, <2>1, <2>2
  <2>3. CASE fresh # {}
    <3>1. w \in began /\ Verdict(w) = Now
      <4>1. w \in began
        BY <1>1, <2>1, <2>3
      <4> QED BY <2>1, <4>1, RightVerdict DEF AllRead
    <3>2. ASSUME "report" \in fresh
          PROVE  /\ Len(reports') = 1 /\ reports'[1].body = Now
                 /\ reports'[1].resolved = (Now = "success")
      <4>1. ~Create(w) /\ \A v \in Runners : ~Create(v)
        BY <1>1, <1>w, <3>2 DEF OneInv, Create
      <4>2. Len(reports') = 1
        BY <1>1, <3>2, <4>1, ReportsKept
      <4>3. CASE UNCHANGED reports
        BY <1>1, <3>2, <4>3
      <4>4. CASE ~UNCHANGED reports
        BY <1>1, <1>13, <3>1, <3>2, <4>1, <4>2, <4>4, WrittenReport
      <4> QED BY <4>3, <4>4
    <3> QED BY <1>1, <1>w, <2>1, <3>1, <3>2 DEF FreshInv, Now, gitlab
  <2> QED BY <2>2, <2>3
<1>14. ASSUME SetStatus(w) PROVE FreshInv'
  <2>1. UNCHANGED <<gitlab, reports, began>> /\ pc[w] = "status" /\ pc'[w] \in {"idle", "retry"}
    BY <1>14, <1>w DEF SetStatus, Refused, Abort
  <2>2. /\ UNCHANGED status \/ status' = [status EXCEPT ![Blamed(w)] = Verdict(w)]
        /\ \/ UNCHANGED fresh
           \/ Ended(w) /\ status' = [status EXCEPT ![Blamed(w)] = Verdict(w)]
    BY <1>14 DEF SetStatus
  <2>3. CASE w \notin began
    <3>1. fresh = {} /\ fresh' = fresh
      BY <1>1, <2>1, <2>2, <2>3 DEF Ended
    <3> QED BY <1>2, <3>1
  <2>4. CASE w \in began
    <3>1. Verdict(w) = Now
      BY <2>1, <2>4, RightVerdict DEF AllRead
    <3>2. Len(reports) = 1 /\ reports[1].body = Now /\ reports[1].resolved = (Now = "success")
      BY <2>1, <2>4, <3>1, OnlyReport DEF TellsInv, Tells
    <3>3. Now' = Now /\ sha'[events'] = sha[events] /\ UNCHANGED reports
      BY <2>1 DEF Now, gitlab
    <3>4. "status" \in fresh' => status'[sha[events]] = Now
      <4>1. sha[events] \in Events
        BY DEF TypeInv, TypeOK
      <4>2. "status" \in fresh => status[sha[events]] = Now
        BY <1>1
      <4>3. "status" \in fresh => status'[sha[events]] = Now
        BY <2>2, <3>1, <4>1, <4>2 DEF TypeInv, TypeOK
      <4>4. "status" \in fresh' /\ "status" \notin fresh =>
              /\ Blamed(w) = sha[events]
              /\ status' = [status EXCEPT ![Blamed(w)] = Verdict(w)]
        BY <2>2, <2>4 DEF Ended, Blamed
      <4>5. "status" \in fresh' /\ "status" \notin fresh => status'[sha[events]] = Now
        BY <3>1, <4>1, <4>4 DEF TypeInv, TypeOK
      <4> QED BY <4>3, <4>5
    <3> QED BY <1>w, <2>1, <3>2, <3>3, <3>4 DEF FreshInv
  <2> QED BY <2>3, <2>4
<1> QED BY <1>9, <1>10, <1>11, <1>12, <1>13, <1>14 DEF Run, Post

\* With the queue on, once a run that began after the last change has ended,
\* the report and the status it posted tell the truth, and no older job that
\* is retried later undoes it.
THEOREM CurrentReport == Queued => (Spec => []ReportIsCurrent)
<1> SUFFICES ASSUME Queued PROVE Spec => []ReportIsCurrent
  OBVIOUS
<1>1. Init => OneInv /\ TellsInv /\ KnowsInv /\ CurrentInv
  BY DEF Init, OneInv, TellsInv, Tells, KnowsInv, CurrentInv, FreshInv
<1>2. CurrentInv => ReportIsCurrent
  BY DEF CurrentInv, FreshInv, ReportIsCurrent, Reliable
<1> QED
  BY <1>1, <1>2, TypeInit, TypeNext, OneNext, TellsNext, KnowsNext, CurrentNext, PTL DEF Spec

-----------------------------------------------------------------------------
(* No more reports than handlers and faults, with the queue or without:    *)
(* whoever is about to create one is counted as if it had.                 *)

Creators == {w \in Runners : pc[w] = "create"}
BoundInv == Len(reports) + Cardinality(Creators) <= Cardinality(Runners) + faults

\* Fewer creators are no more in number.
LEMMA CreatorsCount ==
    ASSUME TypeInv
    PROVE  /\ IsFiniteSet(Creators)
           /\ Cardinality(Creators) \in Nat /\ Cardinality(Runners) \in Nat
           /\ Cardinality(Creators) <= Cardinality(Runners)
           /\ \A S \in SUBSET Creators : Cardinality(S) \in Nat
                                         /\ Cardinality(S) <= Cardinality(Creators)
           /\ \A w \in Creators : Cardinality(Creators \ {w}) = Cardinality(Creators) - 1
<1>1. IsFiniteSet(Runners) /\ Creators \subseteq Runners
  BY RunnersAssumption DEF Creators
<1>2. /\ IsFiniteSet(Creators)
      /\ Cardinality(Creators) <= Cardinality(Runners)
  BY <1>1, FS_Subset
<1>3. Cardinality(Creators) \in Nat /\ Cardinality(Runners) \in Nat
  BY <1>1, <1>2, FS_CardinalityType
<1>4. ASSUME NEW S \in SUBSET Creators
      PROVE  Cardinality(S) \in Nat /\ Cardinality(S) <= Cardinality(Creators)
  BY <1>2, <1>4, FS_Subset, FS_CardinalityType
<1>5. \A w \in Creators : Cardinality(Creators \ {w}) = Cardinality(Creators) - 1
  BY <1>2, FS_RemoveElement
<1> QED BY <1>2, <1>3, <1>4, <1>5

\* The number of faults only grows.
LEMMA FaultsGrow ==
    ASSUME TypeInv, [Next]_vars
    PROVE  faults \in Nat /\ faults' \in Nat /\ faults' >= faults
<1>1. faults \in Nat /\ faults' \in Nat
  BY TypeNext DEF TypeInv, TypeOK
<1>2. UNCHANGED faults \/ faults' = faults + 1
  BY DEF Next, Run, vars, used, Change, Toggle, Enqueue, Take, Serve, Begin, Check, ReadConfig,
         Read, ReadMembers, ReadOwners, ReadDiffs, ReadWell, Degraded, Refused, Fault, NoFault,
         Post, List, Create, Update, Resolve, SetStatus, Retry, Crash, LoseWaiting, Loses
<1> QED BY <1>1, <1>2

\* A report too many has cost a runner its turn to create, or a fault.
LEMMA BoundNext == TypeInv /\ BoundInv /\ [Next]_vars => BoundInv'
<1> SUFFICES ASSUME TypeInv, BoundInv, [Next]_vars
             PROVE  Len(reports') + Cardinality(Creators') <= Cardinality(Runners) + faults'
  BY DEF BoundInv
<1>1. /\ faults \in Nat /\ faults' \in Nat /\ faults' >= faults
      /\ Len(reports) \in Nat
      /\ Cardinality(Creators) \in Nat /\ Cardinality(Runners) \in Nat
      /\ Len(reports) + Cardinality(Creators) <= Cardinality(Runners) + faults
  BY FaultsGrow, CreatorsCount DEF BoundInv, TypeInv, TypeOK
<1>2. ASSUME Creators' \subseteq Creators, Len(reports') = Len(reports)
      PROVE  Len(reports') + Cardinality(Creators') <= Cardinality(Runners) + faults'
  <2>1. Cardinality(Creators') \in Nat /\ Cardinality(Creators') <= Cardinality(Creators)
    BY <1>2, CreatorsCount
  <2> QED BY <1>1, <1>2, <2>1
<1>3. ASSUME NEW w \in Runners, Create(w)
      PROVE  Len(reports') + Cardinality(Creators') <= Cardinality(Runners) + faults'
  <2> DEFINE r == [body |-> Verdict(w), resolved |-> FALSE]
  <2>1. r \in Report /\ w \in Creators /\ Creators \ {w} \in SUBSET Creators
    BY <1>3 DEF Verdict, VerdictOf, Verdicts, Report, Create, Creators
  <2>2. \A place : place # "create" /\ GoTo(w, place) => Creators' = Creators \ {w}
    BY DEF GoTo, Creators, TypeInv, TypeOK
  <2>3. Cardinality(Creators \ {w}) = Cardinality(Creators) - 1
    BY <2>1, CreatorsCount
  <2>4. reports' = Append(reports, r) => Len(reports') = Len(reports) + 1
    BY <2>1, CreatedReports DEF TypeInv
  <2>5. \/ Creators' = Creators \ {w} /\ UNCHANGED reports
        \/ Creators' = Creators \ {w} /\ reports' = Append(reports, r)
        \/ Creators' = Creators /\ reports' = Append(reports, r) /\ faults' = faults + 1
    BY <1>3, <2>2 DEF Create, Refused, Abort, GoesOn, Fault, Creators
  <2> HIDE DEF r
  <2>6. CASE Creators' = Creators \ {w} /\ UNCHANGED reports
    BY <1>2, <2>6
  <2>7. CASE Creators' = Creators \ {w} /\ reports' = Append(reports, r)
    <3>1. Cardinality(Creators') = Cardinality(Creators) - 1
      BY <2>3, <2>7
    <3> QED BY <1>1, <2>4, <2>7, <3>1
  <2>8. CASE Creators' = Creators /\ reports' = Append(reports, r) /\ faults' = faults + 1
    <3>1. Cardinality(Creators') = Cardinality(Creators)
      BY <2>8
    <3> QED BY <1>1, <2>4, <2>8, <3>1
  <2> QED BY <2>5, <2>6, <2>7, <2>8
<1>4. ASSUME NEW w \in Runners, List(w), Found(reports) = 0
      PROVE  Len(reports') + Cardinality(Creators') <= Cardinality(Runners) + faults'
  <2>1. Len(reports') = 0
    BY <1>4 DEF List, Found
  <2>2. Cardinality(Creators') <= Cardinality(Runners) /\ Cardinality(Creators') \in Nat
    <3>1. Creators' \subseteq Runners /\ IsFiniteSet(Runners)
      BY RunnersAssumption DEF Creators
    <3> QED BY <3>1, FS_Subset, FS_CardinalityType
  <2> QED BY <1>1, <2>1, <2>2
<1>5. ASSUME \A w \in Runners : ~Create(w) /\ (List(w) => Found(reports) # 0)
      PROVE  Len(reports') + Cardinality(Creators') <= Cardinality(Runners) + faults'
  <2>1. Len(reports') = Len(reports)
    BY <1>5, ReportsKept
  <2>2. ASSUME NEW v \in Runners, pc'[v] = "create", pc[v] # "create" PROVE FALSE
    <3>p. \A w \in Runners : \A place : GoTo(w, place) => place = "create"
      BY <2>2 DEF GoTo, TypeInv, TypeOK
    <3>1. \A w \in Runners : ~Take(w) /\ \A e \in Events : ~Serve(w, e)
      BY <3>p DEF Take, Serve, Begin
    <3>2. \A w \in Runners : ~Check(w)
      BY <3>p DEF Check, ReadConfig, Read, ReadMembers, ReadOwners, ReadDiffs, Refused,
                        Abort, GoesOn
    <3>3. \A w \in Runners : ~Post(w) /\ ~Retry(w) /\ ~Crash(w)
      BY <1>5, <3>p
      DEF Post, List, Update, Resolve, SetStatus, Retry, Crash, Refused, Abort, GoesOn
    <3>4. UNCHANGED pc
      BY <3>1, <3>2, <3>3 DEF Next, Run, vars, Change, Toggle, Enqueue, LoseWaiting
    <3> QED BY <2>2, <3>4
  <2>3. Creators' \subseteq Creators
    BY <2>2 DEF Creators
  <2> QED BY <1>2, <2>1, <2>3
<1> QED BY <1>3, <1>4, <1>5

\* However long the merge request lives there are never more reports than
\* handlers and faults, even when handlers run side by side and create
\* requests are sent again.
THEOREM BoundedReports == Spec => []ReportsBounded
<1>1. Init => BoundInv
  <2> SUFFICES ASSUME Init PROVE BoundInv
    OBVIOUS
  <2>1. Creators = {} /\ reports = <<>> /\ faults = 0
    BY DEF Init, Creators
  <2>2. Cardinality(Creators) = 0 /\ Len(reports) = 0 /\ Cardinality(Runners) \in Nat
    BY <2>1, FS_EmptySet, RunnersAssumption, FS_CardinalityType
  <2> QED BY <2>1, <2>2 DEF BoundInv
<1>2. TypeInv /\ BoundInv => ReportsBounded
  <2> SUFFICES ASSUME TypeInv, BoundInv PROVE ReportsBounded
    OBVIOUS
  <2>1. /\ Cardinality(Creators) \in Nat /\ Cardinality(Runners) \in Nat
        /\ Len(reports) \in Nat /\ faults \in Nat
    BY CreatorsCount DEF TypeInv, TypeOK
  <2> QED BY <2>1 DEF BoundInv, ReportsBounded
<1> QED BY <1>1, <1>2, TypeInit, TypeNext, BoundNext, PTL DEF Spec
=============================================================================
