------------------------------ MODULE MRReport ------------------------------
(***************************************************************************)
(* From a webhook to the report on the merge request: ProcessJob of        *)
(* internal/server/webhook.go (queue on) or handleWebhookNoQueue of        *)
(* internal/server/handlers.go (queue off), with CheckMergeRequest and the *)
(* GitLab calls they make, on one merge request that its authors keep      *)
(* changing.  What the rules make of a part of it is a Boolean here; the   *)
(* modules MRCheck and CodeownersApproval say what lies behind it.         *)
(*                                                                         *)
(* Every GitLab call is one step.  The queue appears only by its promise   *)
(* to a merge request: the steps of MRLine, which MRQueue implements.      *)
(* With the queue off every delivery runs in a handler of its own, beside  *)
(* the others, and is never repeated.                                      *)
(***************************************************************************)
EXTENDS Integers, Sequences, FiniteSets

CONSTANTS
    Queued,       \* Queue.Enabled
    Runners,      \* handler goroutines; with the queue on, the one processor
    RulesOf,      \* what the rules enabled by a configuration look at
    Codeowners,   \* the configurations with use_codeowners
    Moving,       \* the parts that may break the rules and be mended
    MaxAttempts,  \* Config.MaxRetries
    Faults,       \* the ways a GitLab call may go wrong
    NoJob,        \* what an idle runner holds
    MaxFaults, MaxFallbacks, MaxChanges, MaxToggles, MaxLosses   \* bounds

Parts == {"details", "approvals", "commits"}
FaultKinds == {"refused", "lostReply", "resent"}
Events == 0 .. MaxChanges     \* the opening and the changes, one webhook each

ASSUME ModeAssumption ==
    Queued \in BOOLEAN /\ (Queued => \A v, w \in Runners : v = w)
ASSUME RunnersAssumption == IsFiniteSet(Runners)
ASSUME RulesAssumption == RulesOf \in [{"repo", "default"} -> SUBSET Parts]
ASSUME MovingAssumption == Moving \subseteq Parts /\ Codeowners \subseteq {"repo", "default"}
ASSUME ReportAssumption ==
    /\ MaxAttempts \in Nat \ {0} /\ Faults \subseteq FaultKinds
    /\ MaxFaults \in Nat /\ MaxFallbacks \in Nat /\ MaxChanges \in Nat
    /\ MaxToggles \in Nat /\ MaxLosses \in Nat

VARIABLES
    content,     \* which parts of the merge request obey the rules
    events,      \* events so far, less one
    sha,         \* sha[e]: the last commit when event e happened
    sent,        \* webhooks on their way
    waiting,     \* the queue of this merge request
    reports,     \* the bot's discussions, oldest first
    status,      \* commit status of every commit
    pc, held, cfg, seen, target, snapshot,      \* one of each per runner
    faults, fallbacks, toggles, losses,
    \* History, read by no guard:
    began,       \* the runners whose run began after the last change, and has
                 \* read everything it needs
    fresh        \* what such a run has brought up to date, while no run since
                 \* has gone on without something it could not read

gitlab == <<content, events, sha>>
line == <<sent, waiting, held>>
local == <<cfg, seen, target, snapshot>>
used == <<faults, fallbacks, toggles, losses>>
vars == <<gitlab, line, reports, status, pc, local, used, began, fresh>>

Job == [job : Events, attempts : 0 .. MaxAttempts - 1]
Working == {"config", "details", "approvals", "commits", "members", "owners", "diffs",
            "list", "update", "create", "resolve", "status"}
Verdicts == {"success", "failed"}

TypeOK ==
    /\ content \in [Parts -> BOOLEAN]
    /\ events \in Events
    /\ sha \in [Events -> Events]
    /\ sent \subseteq Events
    /\ waiting \in Seq(Job)
    /\ reports \in Seq([body : Verdicts, resolved : BOOLEAN])
    /\ status \in [Events -> Verdicts \cup {"none"}]
    /\ pc \in [Runners -> Working \cup {"idle", "retry"}]
    /\ held \in [Runners -> Job \cup {NoJob}]
    /\ cfg \in [Runners -> {"repo", "default"}]
    /\ seen \in [Runners -> [Parts -> BOOLEAN]]
    /\ target \in [Runners -> Nat]
    /\ snapshot \in [Runners -> BOOLEAN]
    /\ faults \in Nat /\ fallbacks \in Nat /\ toggles \in Nat /\ losses \in Nat
    /\ began \subseteq Runners
    /\ fresh \subseteq {"report", "status"}

-----------------------------------------------------------------------------
(* What a run decides.  The operator before each is a plausible bug.       *)

\* CheckMergeRequest: no enabled rule fails.
Conforms(config, parts) == \A p \in RulesOf[config] : parts[p]
VerdictMisspelt(config, parts) == IF Conforms(config, parts) THEN "success" ELSE "failure"
\* The commit status, and whether the discussion is to be resolved.
VerdictOf(config, parts) == IF Conforms(config, parts) THEN "success" ELSE "failed"
Verdict(w) == VerdictOf(cfg[w], seen[w])

FoundNone(rs) == 0
\* The first note with the identifier: the oldest report; 0 if there is none.
Found(rs) == IF rs = <<>> THEN 0 ELSE 1

NeverDiffers(w) == FALSE
\* n.Resolved != passed, with n as it was listed.
Differs(w) == snapshot[w] # (Verdict(w) = "success")

BlameOpening(w) == sha[0]
\* The commit a status is set on: the last commit of the webhook's payload.
Blamed(w) == sha[held[w].job]

\* The run has found that a part obeys the rules, or does not.
Learns(w, p, ok) == seen' = [seen EXCEPT ![w] = [@ EXCEPT ![p] = ok]]

GoTo(w, place) == pc' = [pc EXCEPT ![w] = place]

\* The locals of a run go with it.
Forget(w) ==
    /\ cfg' = [cfg EXCEPT ![w] = "default"]
    /\ seen' = [seen EXCEPT ![w] = [p \in Parts |-> FALSE]]
    /\ target' = [target EXCEPT ![w] = 0]
    /\ snapshot' = [snapshot EXCEPT ![w] = FALSE]

Fault(kind) ==
    /\ kind \in Faults /\ faults < MaxFaults
    /\ faults' = faults + 1
    /\ UNCHANGED <<fallbacks, toggles, losses>>

NoFault == UNCHANGED used

\* What the queue does to this merge request's jobs.
Line == INSTANCE MRLine WITH
    Jobs <- Events, Servers <- Runners, NoCopy <- NoJob, MayLose <- MaxLosses > 0,
    arrived <- (0 .. events) \ sent,
    line <- waiting,
    serving <- held,
    failed <- {w \in Runners : pc[w] = "retry"}

LetGo(w) == held' = [held EXCEPT ![w] = NoJob]

SkipRetry(w) == GoTo(w, "idle") /\ LetGo(w) /\ UNCHANGED <<sent, waiting>>
\* An error ends the run; the queue retries the job, the handler has only its
\* response to give.
Abort(w) ==
    \/ Queued /\ GoTo(w, "retry") /\ UNCHANGED line
    \/ ~Queued /\ GoTo(w, "idle") /\ LetGo(w) /\ UNCHANGED <<sent, waiting>>

GoesOn(w, place) == GoTo(w, place) /\ UNCHANGED line

\* A call that only reads: an error aborts the run.
Refused(w) == Fault("refused") /\ Abort(w)

\* A call whose error is only logged: the run goes on without what it asked
\* for, and its verdict is of something else.
Degraded(w) ==
    /\ fallbacks < MaxFallbacks
    /\ fallbacks' = fallbacks + 1 /\ UNCHANGED <<faults, toggles, losses>>
    /\ began' = began \ {w} /\ fresh' = {}

ReadWell == NoFault /\ UNCHANGED <<began, fresh>>

-----------------------------------------------------------------------------
(* The merge request and its webhooks.                                     *)

\* A description is edited, an approval given or withdrawn, a commit pushed,
\* which may change what else obeys the rules.
Change(ps) ==
    /\ events < MaxChanges
    /\ events' = events + 1
    /\ content' = [p \in Parts |-> content[p] # (p \in ps)]
    /\ sha' = [sha EXCEPT ![events + 1] = IF "commits" \in ps THEN events + 1
                                          ELSE sha[events]]
    /\ sent' = sent \cup {events + 1}
    /\ began' = {} /\ fresh' = {}
    /\ UNCHANGED <<waiting, held, reports, status, pc, local, used>>

\* Somebody resolves or reopens a report by hand, which sends no webhook.
Toggle(i) ==
    /\ toggles < MaxToggles
    /\ toggles' = toggles + 1 /\ UNCHANGED <<faults, fallbacks, losses>>
    /\ reports' = [reports EXCEPT ![i] = [body |-> @.body, resolved |-> ~@.resolved]]
    /\ began' = {} /\ fresh' = {}
    /\ UNCHANGED <<gitlab, line, status, pc, local>>

\* HandleWebhook puts a job in the queue.  Webhooks may overtake each other.
Enqueue(e) ==
    /\ Queued /\ e \in sent /\ sent' = sent \ {e}
    /\ UNCHANGED <<gitlab, reports, status, pc, local, used, began, fresh>>
    /\ Line!Arrive(e)

Begin(w) ==
    /\ pc[w] = "idle"
    /\ GoTo(w, "config")
    /\ began' = began \cup {w}
    /\ UNCHANGED <<gitlab, reports, status, local, used, fresh>>

\* The processor takes the oldest job.
Take(w) == Queued /\ Begin(w) /\ UNCHANGED sent /\ Line!Take(w)

\* handleWebhookNoQueue: the delivery is processed in its own handler.
Serve(w, e) ==
    /\ ~Queued /\ e \in sent
    /\ Begin(w)
    /\ held' = [held EXCEPT ![w] = [job |-> e, attempts |-> 0]]
    /\ sent' = sent \ {e}
    /\ UNCHANGED waiting

-----------------------------------------------------------------------------
(* CheckMergeRequest.                                                      *)

UsesOwners(w) == cfg[w] \in Codeowners

\* GetConfigFile: on an error the run goes on with the default rules.
ReadConfig(w) ==
    /\ pc[w] = "config"
    /\ \/ ReadWell /\ cfg' = [cfg EXCEPT ![w] = "repo"]
       \/ Degraded(w) /\ cfg' = [cfg EXCEPT ![w] = "default"]
    /\ GoesOn(w, "details")
    /\ UNCHANGED <<gitlab, reports, status, seen, target, snapshot>>

\* GetMergeRequest, then the approval notes, then the commits: one call each.
Read(w, p, then) ==
    /\ pc[w] = p
    /\ \/ NoFault /\ Learns(w, p, content[p]) /\ GoesOn(w, then)
       \/ Refused(w) /\ UNCHANGED seen
    /\ UNCHANGED <<gitlab, reports, status, cfg, target, snapshot, began, fresh>>

\* ListProjectMembers: without members the owners' verdict may be either.
ReadMembers(w) ==
    /\ pc[w] = "members"
    /\ \/ ReadWell /\ UNCHANGED seen
       \/ Degraded(w) /\ \E ok \in BOOLEAN : Learns(w, "approvals", ok)
    /\ GoesOn(w, "owners")
    /\ UNCHANGED <<gitlab, reports, status, cfg, target, snapshot>>

\* GetCodeownersFile: without the file the approvals rule fails.
ReadOwners(w) ==
    /\ pc[w] = "owners"
    /\ \/ ReadWell /\ UNCHANGED seen /\ GoesOn(w, "diffs")
       \/ Degraded(w) /\ Learns(w, "approvals", FALSE) /\ GoesOn(w, "list")
    /\ UNCHANGED <<gitlab, reports, status, cfg, target, snapshot>>

\* GetAllDiffsPaths: the approvals read before are held against the files as
\* they are now.  An error here is log.Fatalf, which is Crash.
ReadDiffs(w) ==
    /\ pc[w] = "diffs"
    /\ ReadWell
    /\ \E ok \in {seen[w]["approvals"], content["approvals"]} : Learns(w, "approvals", ok)
    /\ GoesOn(w, "list")
    /\ UNCHANGED <<gitlab, reports, status, cfg, target, snapshot>>

Check(w) ==
    \/ ReadConfig(w)
    \/ Read(w, "details", "approvals")
    \/ Read(w, "approvals", "commits")
    \/ Read(w, "commits", IF UsesOwners(w) THEN "members" ELSE "list")
    \/ ReadMembers(w) \/ ReadOwners(w) \/ ReadDiffs(w)

-----------------------------------------------------------------------------
(* CreateUpdateMergeRequestDiscussion and SetCommitStatus.                 *)

\* The note found is remembered with its resolved flag.
List(w) ==
    /\ pc[w] = "list"
    /\ \/ /\ NoFault
          /\ target' = [target EXCEPT ![w] = Found(reports)]
          /\ \/ /\ Found(reports) = 0
                /\ GoesOn(w, "create") /\ UNCHANGED snapshot
             \/ /\ Found(reports) # 0
                /\ snapshot' = [snapshot EXCEPT ![w] = reports[Found(reports)].resolved]
                /\ GoesOn(w, "update")
       \/ Refused(w) /\ UNCHANGED <<target, snapshot>>
    /\ UNCHANGED <<gitlab, reports, status, cfg, seen, began, fresh>>

Rewritten(w) ==
    reports' = [reports EXCEPT ![target[w]] = [body |-> Verdict(w), resolved |-> @.resolved]]

\* The resolve call is skipped when the listed flag already agrees.
Update(w) ==
    /\ pc[w] = "update"
    /\ \/ NoFault /\ Rewritten(w) /\ GoesOn(w, IF Differs(w) THEN "resolve" ELSE "status")
       \/ Fault("lostReply") /\ Rewritten(w) /\ Abort(w)
       \/ Refused(w) /\ UNCHANGED reports
    /\ UNCHANGED <<gitlab, status, local, began, fresh>>

\* A new discussion is open.  A request that is sent again creates another.
Create(w) ==
    LET created == reports' = Append(reports, [body |-> Verdict(w), resolved |-> FALSE])
    IN  /\ pc[w] = "create"
        /\ \/ /\ NoFault /\ created
              /\ target' = [target EXCEPT ![w] = Len(reports) + 1]
              /\ GoesOn(w, "resolve")
           \/ Fault("lostReply") /\ created /\ Abort(w) /\ UNCHANGED target
           \/ Fault("resent") /\ created /\ UNCHANGED <<pc, line, target>>
           \/ Refused(w) /\ UNCHANGED <<reports, target>>
        /\ UNCHANGED <<gitlab, status, cfg, seen, snapshot, began, fresh>>

\* Resolve or reopen the discussion.
Resolve(w) ==
    LET resolved == reports' = [reports EXCEPT ![target[w]] =
                                  [body |-> @.body, resolved |-> Verdict(w) = "success"]]
    IN  /\ pc[w] = "resolve"
        /\ \/ NoFault /\ resolved /\ GoesOn(w, "status")
           \/ Fault("lostReply") /\ resolved /\ Abort(w)
           \/ Refused(w) /\ UNCHANGED reports
        /\ UNCHANGED <<gitlab, status, local, began, fresh>>

Ended(w) ==
    fresh' = IF w \in began
             THEN fresh \cup {"report"}
                    \cup (IF sha[held[w].job] = sha[events] THEN {"status"} ELSE {})
             ELSE fresh

\* SetCommitStatus.  The handler only logs an error, the processor retries.
SetStatus(w) ==
    LET posted == status' = [status EXCEPT ![Blamed(w)] = Verdict(w)]
    IN  /\ pc[w] = "status"
        /\ \/ /\ NoFault /\ posted /\ Ended(w)
              /\ GoTo(w, "idle") /\ LetGo(w) /\ UNCHANGED <<sent, waiting>> /\ Forget(w)
           \/ Fault("lostReply") /\ posted /\ Abort(w) /\ UNCHANGED <<local, fresh>>
           \/ Refused(w) /\ UNCHANGED <<status, local, fresh>>
        /\ UNCHANGED <<gitlab, reports, began>>

Post(w) == List(w) \/ Update(w) \/ Create(w) \/ Resolve(w) \/ SetStatus(w)

-----------------------------------------------------------------------------

\* handleJobFailure: back into the queue, or dropped after the last attempt.
Retry(w) ==
    /\ pc[w] = "retry"
    /\ GoTo(w, "idle") /\ Forget(w)
    /\ UNCHANGED <<gitlab, sent, reports, status, used, began, fresh>>
    /\ Line!Retry(w) \/ Line!GiveUp(w)

Loses == losses < MaxLosses /\ losses' = losses + 1 /\ UNCHANGED <<faults, fallbacks, toggles>>

\* The process stops inside a run, by logger.Fatal or log.Fatalf or from
\* outside, and its job is lost; it is started again.
Crash(w) ==
    /\ pc[w] # "idle" /\ Loses
    /\ GoTo(w, "idle") /\ Forget(w) /\ LetGo(w)
    /\ UNCHANGED <<gitlab, sent, waiting, reports, status, began, fresh>>

\* A webhook that is not queued, a job or a line that the queue loses.
LoseWaiting ==
    /\ Queued /\ Loses
    /\ \/ \E e \in sent : sent' = sent \ {e} /\ UNCHANGED <<gitlab, pc>> /\ Line!LoseArrival(e)
       \/ UNCHANGED <<gitlab, sent, pc>> /\ (Line!LoseHead \/ Line!LoseLine)
    /\ UNCHANGED <<reports, status, local, began, fresh>>

-----------------------------------------------------------------------------

\* The merge request has just been opened.
Init ==
    /\ content \in {c \in [Parts -> BOOLEAN] : \A p \in Parts \ Moving : c[p]}
    /\ events = 0
    /\ sha = [e \in Events |-> 0]
    /\ sent = {0} /\ waiting = <<>> /\ reports = <<>>
    /\ status = [e \in Events |-> "none"]
    /\ pc = [w \in Runners |-> "idle"]
    /\ held = [w \in Runners |-> NoJob]
    /\ cfg = [w \in Runners |-> "default"]
    /\ seen = [w \in Runners |-> [p \in Parts |-> FALSE]]
    /\ target = [w \in Runners |-> 0]
    /\ snapshot = [w \in Runners |-> FALSE]
    /\ faults = 0 /\ fallbacks = 0 /\ toggles = 0 /\ losses = 0
    /\ began = {} /\ fresh = {}

Run(w) ==
    \/ Take(w) \/ (\E e \in Events : Serve(w, e))
    \/ Check(w) \/ Post(w) \/ Retry(w)

Next ==
    \/ \E ps \in (SUBSET Moving) \ {{}} : Change(ps)
    \/ \E i \in DOMAIN reports : Toggle(i)
    \/ \E e \in Events : Enqueue(e)
    \/ \E w \in Runners : Run(w) \/ Crash(w)
    \/ LoseWaiting

Spec == Init /\ [][Next]_vars

\* GitLab delivers its webhooks, and a runner goes on.
FairSpec ==
    /\ Spec
    /\ \A e \in Events : WF_vars(Enqueue(e))
    /\ \A w \in Runners : WF_vars(Run(w))

-----------------------------------------------------------------------------
(* What the bot promises.                                                  *)

Reliable == "resent" \notin Faults
Now == VerdictOf("repo", content)

\* CreateUpdateMergeRequestDiscussion, "leaves a structured discussion on
\* each MR": retries, lost replies and crashes between creating and resolving
\* never leave a second report.
OneReport == Reliable => Len(reports) <= 1

\* Even handlers that run side by side, and create requests that are sent
\* again, leave no more reports than there are handlers and faults: whoever
\* lists after the first report adds none, however long the merge request lives.
ReportsBounded == Len(reports) <= Cardinality(Runners) + faults

\* Once a run that began after the last change has ended, the report and its
\* resolved flag say what the merge request is like now - and so does the
\* status of the newest commit, if the run's webhook named that commit.  No
\* older job that is retried later undoes it.
ReportIsCurrent ==
    Reliable =>
      /\ "report" \in fresh =>
           /\ Len(reports) = 1
           /\ reports[1].body = Now
           /\ reports[1].resolved = (Now = "success")
      /\ "status" \in fresh => status[sha[events]] = Now

\* ProcessJob posts the status last: when a commit turns green or red, the
\* report already says the same, whoever has touched its thread, and the thread
\* is resolved or open accordingly if nobody has, or if the run began after the
\* last time and the last change.
StatusFollowsReport ==
    [][Reliable =>
         \A e \in Events : status'[e] # status[e] =>
           /\ reports # <<>>
           /\ reports[1].body = status'[e]
           /\ toggles = 0 \/ began # {} =>
                reports[1].resolved = (status'[e] = "success")]_vars

\* The author stops changing the merge request: the report and the newest
\* commit's status end up current and stay so, unless a job was lost or
\* spent its attempts, or went on without the configuration, the members or the
\* CODEOWNERS file because they could not be read, or somebody touched the
\* thread.
Converges ==
    <>[](losses = 0 /\ toggles = 0 /\ fallbacks = 0 /\ faults < MaxAttempts =>
           fresh = {"report", "status"})
=============================================================================
