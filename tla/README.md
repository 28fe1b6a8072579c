# A TLA+ development of gitlab-mr-conform

gitlab-mr-conform is a bot that checks GitLab merge requests against a set of
rules. GitLab sends a webhook for every change of a merge request; the bot reads
the merge request, its approvals and its commits, decides whether the enabled
rules hold, leaves one discussion with a report on the merge request and sets
the status of a commit. Webhooks may go through a queue in Redis, shared by the
replicas of the bot.

These modules model the queue, the way from a webhook to the report, the rules
and the lists they are judged on, and the CODEOWNERS engine behind the approvals
rule. TLC checks them on small instances. TLAPS proves, for every instance, the
safety properties of the queue, its two refinements, the properties of the report,
of the check and its rules, and those of the CODEOWNERS parser, of ownership, of
approval and of the table of owners.

## Inventory

| Component | State | Operations | Hard behaviour | What makes it correct |
| --- | --- | --- | --- | --- |
| Queue manager (`internal/queue/queue.go`) | one list, one lock key and processing keys per merge request, all in Redis; attempts inside the job | `EnqueueWebhook`, `processAllQueues`, `ProcessMRQueue`, `dequeueJob`, `handleJobFailure`, `acquireLock`, `releaseLock` | several replicas, every command a separate step, TTLs, lost replies, resent commands, process stops | one copy of a job, one batch per merge request, bounded attempts, order of arrival, one job and one key at the most for every failure, locks freed |
| Process lifecycle (`cmd/bot/main.go`) | the running goroutines | start, SIGTERM, `Fatal` | a stop between any two steps | no job lost by a shutdown (does not hold) |
| HTTP handlers (`internal/server`) | none of their own | `HandleWebhook`, `handleWebhookNoQueue`, `ProcessJob` | handlers run side by side when the queue is off; what a failing step leaves behind | the report and the status agree with the merge request |
| GitLab client (`internal/gitlab/client.go`) | discussions, commit statuses, all in GitLab | the read calls, `CreateUpdateMergeRequestDiscussion`, `SetCommitStatus` | check-then-create, a snapshot used after a call, lost replies, lists that shift while they are read page by page | one report, found again by every run, resolved exactly when the rules hold; a tally that is somebody's last word |
| Checker, rule builder, summary, configuration | none | `CheckMergeRequest`, `LoadConfig`, `BuildRules` | reads at different times; a configuration that cannot be read; a rule that errs or panics | a verdict of the present merge request, in the end; a summary that names every rule that fails |
| Rules: title, description, branch, commits, squash (`internal/conformity/rules`) | none | `Check` of each | lists of patterns that overlap or do not compile, a first page of commits | a pass is earned; a setting does what it is called |
| Ticket helpers (`internal/conformity/helper/ticket`) | none | `BuildTicketValidators`, `ValidateMessage` | the first match decides; a task looks like an issue | a valid reference to either system suffices (does not hold as it stands) |
| CODEOWNERS parser | sections, rules, a map of pointers into the slice of sections | `Parse` | headers that cannot be parsed, sections opened again, slices that move | every rule ends in the section it was written under (does not hold) |
| CODEOWNERS ownership | none | `MatchesPattern`, `GetOwnersForFile`, `GetActivePatternAggregation` | overriding, exclusions, default owners, unknown owners, members that could not be listed | the last match decides; a line asks whom it names, else its section's header; a group speaks for its files |
| Approval summary and approvals rule | none | `CreateCodeOwnersSummary`, `Check`, `GenerateAggregatedOutput` | order of a Go map, roles, counts, groups that share a row | a pass has approvers; an approval never hurts; the table tells the verdict |
| Storage, logger, legacy webhook parser, CODEOWNERS reporting helpers, deployment | - | - | - | not modelled, see below |

The parts interact like this. `main` starts the HTTP server and, with the queue
on, a processor goroutine. A webhook handler pushes a job (queue on) or runs the
check itself (queue off). The processor calls `ProcessJob` for each job while it
holds the lock of the merge request. Both paths call the checker, which reads the
configuration and the merge request from GitLab, and, if the approvals rule uses
CODEOWNERS, the members, the CODEOWNERS file and the changed paths. The verdict
goes back to GitLab as a discussion and a commit status. The only state shared by
replicas is in Redis and in GitLab.

`PROJECT.json` lists, under `hazards`, what can go wrong at which line and which
properties would notice.

## Modules

| Module | What it is |
| --- | --- |
| `MRQueue` | the Redis queue: handlers, processors, TTLs, stops |
| `JobLedger` | abstract: the life cycle of one job |
| `MRLine` | abstract: the line of one merge request's jobs |
| `MRQueueRefinement` | `MRQueue` implements `JobLedger` and, for every merge request, `MRLine` |
| `MRQueueProofs` | theorems about `MRQueue`: types, one batch, one copy, attempts |
| `MRQueueOrderProofs` | theorems about `MRQueue`: what failures cost in jobs and in processing keys, order of arrival |
| `MRQueueResendProofs` | theorem about `MRQueue`: how often a job runs when commands are sent twice |
| `MRQueueRefinementProofs` | theorems: the two refinements |
| `MCMRQueue` | instances of `MRQueue` for TLC |
| `MRReport` | from a webhook to the report and the status, one merge request; takes its jobs from `MRLine` |
| `MRReportProofs` | theorems about `MRReport` |
| `MCMRReport` | instances of `MRReport` |
| `MRRules` | the rules and the ticket validators, as functions |
| `MRCheck` | one check: pages, tally, rules, summary, the discussion it goes to (extends `MRRules`) |
| `MRCheckProofs` | theorems about `MRCheck` and the rules |
| `MCMRCheck` | the merge requests and configurations of `MRCheck` |
| `CodeownersFile` | the parser |
| `CodeownersFileProofs` | theorems about the parser |
| `CodeownersOwnership` | who owns a changed file (extends `CodeownersFile`) |
| `CodeownersApproval` | has everybody approved (extends `CodeownersOwnership`) |
| `CodeownersTable` | the table in the report, and the verdict without members (extends `CodeownersApproval`) |
| `CodeownersProofs` | theorems about ownership, approval and the table (extends `CodeownersTable`, `CodeownersFileProofs`) |
| `MCCodeowners` | instances of the four models |

How they compose: `MRQueue` implements `MRLine`, and `MRReport` is built on the
steps of `MRLine`, so what holds of the report holds of a bot whose batches fit
their locks. In `MRReport` a part of the merge request obeys the rules or does
not; `MRCheck` says what that means for the rules that look at texts, branches and
approval counts, and the CODEOWNERS modules say it for the owners.

In every module the operator that stands directly before a small decision of the
code (`RPopKept` before `RPop`, `FoundNone` before `Found`) is the same decision
with a plausible bug; replacing one by the other must violate a property, which
shows that the property depends on that piece of code.

### The queue

`queue[m]`, `locked` and `processing` are the Redis keys `...:queue:m`,
`...:lock:m` and `...:processing:j`; `expiring` are the queue keys that carry a
TTL. `pc[w]` is where the processor of replica `w` stands between two commands
and `held[w]` the job in its hands. Every Redis command is one action:

| Action | Code |
| --- | --- |
| `HookPush`, `HookExpire` | `EnqueueWebhook`: LPUSH, EXPIRE |
| `Tick`, `Skip`, `Select`, `EndTick` | `processAllQueues`: KEYS, LLEN |
| `Acquire`, `Release` | SETNX of the lock and the deferred DEL |
| `PopJob`, `PopNothing`, `PopLost` | `dequeueJob`: RPOP |
| `Mark`, `Unmark` | SET and DEL of the processing key |
| `Run` | the call of `ProcessJob`, which succeeds or fails |
| `Requeue`, `Drop` | `handleJobFailure` |
| `LockExpires`, `ProcessingExpires`, `QueueExpires` | TTLs |
| `Stop`, `Restart` | SIGTERM, `Fatal`, a kill; the next start |

A command that goes wrong is refused, executed without a reply, or executed and
sent again by the client (go-redis retries by default). `BatchFitsLock` is the
one assumption about time: a batch ends before the TTL of its lock. The code does
nothing to make it true, so a run also drops it. `MaxAttempts` is at least 1, as
in the configuration (default 3).

`fate`, `runs` and `earlier` are history: no guard reads them. What failures cost
is not read off `fate`, which a fault may set to lost, but off Redis and the
replicas: `Missing` are the deliveries that are neither finished nor in a queue nor
in the hands of a running replica, `Left` the processing keys of jobs that are
nowhere. `OneJobPerFailure` and `OneKeyPerFailure` count both against the faults,
stops and expiries there have been.

### The report

`MRReport` follows one merge request. `content` says which of its parts (details,
approvals, commits) obey the rules; an author's `Change` flips some and sends a
webhook. Every GitLab call of a run is one action, so authors, other handlers,
faults and crashes come between any two:

| Action | Code |
| --- | --- |
| `Enqueue`, `Take`, `Serve` | `HandleWebhook`; the processor; `handleWebhookNoQueue` |
| `ReadConfig` | `LoadConfig`: an error means the default rules |
| `Read` | `GetMergeRequest`, `ListMergeRequestApprovals`, `ListMergeRequestCommits` |
| `ReadMembers`, `ReadOwners`, `ReadDiffs` | the reads of `getCodeowners`: an error of the first means no members, of the second a failing rule, of the third the end of the process (`Crash`) |
| `List`, `Update` or `Create`, `Resolve` | `CreateUpdateMergeRequestDiscussion` |
| `SetStatus` | `SetCommitStatus` |
| `Retry` | `handleJobFailure` |
| `Crash`, `LoseWaiting` | a process that ends; a job or a webhook that is lost |

A call goes wrong by being refused, by losing its reply, or by being sent twice.
`Degraded` is a read whose error the code logs and passes over: the run goes on
without what it asked for, and its verdict is of something else.

With `Queued` the queue appears by its promise only: `Enqueue`, `Take`, `Retry`
and the losses are conjunctions with steps of `MRLine`. Without it every webhook
has a handler of its own. The report's text is its verdict. `began` and `fresh`
are history: which runs began after the last change and could read everything,
and what such a run has brought up to date.

Abstractions: the repository has a configuration file (a missing one is the
default configuration for good, which is the same model with one configuration);
no other note of the merge request contains the report's title (`MRCheck` has
those). `ReadDiffs` may judge by the approvals read before or by the ones that
count now, because a push changes the files that approvals are held against.

### The check and its rules

`MRRules` has each rule as a function from its configuration and the merge
request to a verdict: passed, failed with issues, an error, or a panic (a scope
pattern that does not compile goes to `regexp.MustCompile`). A text is a record of
what the code looks for in it: its length, the forbidden words, the header
`HeaderRegex` finds, and the things that look like tickets, in order. A pattern is
the set of names it matches; `BadPattern` does not compile. The keys of a ticket
system are a sequence, because only the first one switches the system on or off.
Whether an Asana task exists is asked for if the rule says so and the process has
a token; the token is part of a case, not of the file.

`MRCheck` runs them. Each case (`case`) is a merge request, the repository's
configuration file, the bot's default one, and bounds; `Config` is what
`Unmarshal` makes of the file: a rule left out is off, a setting left out is zero.
A run reads the approval notes and the discussions page by page, and one page of
commits. A page is cut from the list as it is when the page is asked for, and
between any two pages people approve, withdraw, comment, quote the report and
delete comments. Notes come newest first, so a new one shifts the rest towards
pages still to come; discussions come oldest first, so a deletion shifts the rest
towards pages already read. `Latest` is the tally of `ListMergeRequestApprovals`:
a note replaces the one read before it if its time is later, and clocks may stand
still. Here no call fails and a run posts in one step; `MRReport` has the rest.

`words`, `cut` and `cuts` are history: what each user's last word has been while
the notes were read, and how many comments were deleted meanwhile. The properties
are exact about them: each deleted comment hides at most one note, and each
listing with deletions may leave one more report.

### CODEOWNERS

A state of `CodeownersFile` is what `Parse` has made of the lines read so far, and
its only action reads one more line; so the reachable states are the results for
every file up to a length. A line is a record of what the regular expressions
see. Go's slices are modelled as arrays, because the parser keeps pointers into a
slice it appends to: `arrays` are all arrays that `append` has made, and a pointer
names one of them. Ownership and approval are operators over that state and
constants for the changes, the project's members and their levels; their
properties are invariants, so they are checked for every file. An owner is a user
(GitLab usernames and the `@group` form are told apart only by who is a member), a
role or an e-mail address. The order of a Go map is a set of possible answers
(`Answers`, `MayCount`, `MustCount`). A change is a record of the old and the new
path and whether the file was deleted; `Changed` is what `GetAllDiffsPaths` keeps.

`AskedAsWritten` compares whom a group asks with the text: the members that its
deciding line names, else those of its section's first header. A line with a mistake
in it that names no member asks nobody, also when its section would have owners.

`DefaultsGiveWay` says what the one key for `Default` in the result of
`GetOwnersForFile` does: the rules above the first header and a section of that name
are never heard together for a file.

`CodeownersTable` has the rows of the table under a failing rule. A row is a set
of groups of one section whose approvers have the same names; it counts the people
that `createPatternSummary` noted down, wherever. Which of several
matching approvals is noted is up to the order of a map, so there are users who
may be and users who must be noted. `RowsTellTheVerdict` relates the box of a row
to the verdict on its groups and names the four exceptions; each of them is
needed. `Blind` is an instance of `CodeownersApproval` with no members, for the
check that goes on when the list of members cannot be read.

Left out: `**`, character classes and `?` in patterns, escaped spaces, files the
library rejects, and the regular expressions themselves.

## Runs

| Run | Instance | Question |
| --- | --- | --- |
| `queue_safety` | 2 replicas, 3 jobs of one merge request, 2 attempts, 1 refused command or lost reply, 1 stop | the safety properties of the queue |
| `queue_resent` | 2 replicas, 2 merge requests with a job each, 1 fault of any kind, 1 stop, 1 expiry | what a command sent twice, or any other failure, costs |
| `queue_live` | 2 replicas, 2 jobs of one merge request, 1 refused command or lost reply, 1 stop, 1 expiry | are locks freed and jobs settled; does the queue implement the ledger and the line |
| `queue_locklost` | the lock may expire under its batch | finding: a merge request processed twice at once |
| `queue_shutdown` | a stop, every command works | finding: a shutdown loses a job |
| `report_queue` | 2 changes, CODEOWNERS on, 1 fault, 1 read that is passed over, 1 hand on the thread, 1 crash or lost job | is the report single, current, and the status in line with it |
| `report_handlers` | 2 handlers, 2 changes, 1 fault of any kind, 1 crash | how many reports can there be |
| `report_noqueue` | 2 handlers, 1 change, every call works | finding: two reports |
| `check` | pages of 2; 2 runs with 3 acts of people in between; about 14000 merge requests and configurations | does the verdict follow from what people said, from the texts and from the settings, and is the report found again |
| `codeowners_ownership` | every file up to 5 lines over 9 kinds of line, a renamed and a deleted file, 3 members or none, every set of approvals | parser, ownership, approval and the table |
| `codeowners_reopen` | sections opened again | finding: lost rules |
| `codeowners_slash` | a pattern with a slash at both ends | finding: it matches nothing |

Why the bounds are enough. Two replicas are what the chart deploys and the least
at which batches can meet; a third job lets one wait while another is retried and
a third arrives; two attempts have a first, a last and a retry between them. One
fault and one stop combine with each other at every pair of steps, and the faults
that matter are those whose effect the next step of another replica meets. In
`MRReport` two changes let an old job be retried after a newer one and a run see
one change but not the other. In `check` a page of two and lists of two to six
entries put a page boundary between any two notes; three acts push a note over a
boundary, withdraw it and delete a comment; the texts have every header, every
order of two ticket forms and every length around the limits, and every pair of
squash patterns, overlapping, broken or missing. Five lines hold a header, another header, the first
one again and two rules, or a section with three rules on one file, where each of
override, exclusion and fallback can follow any other.

`CHECK_DEADLOCK FALSE` appears where the system really may stop: every webhook
served and every bound spent (`MRReport`), every run over (`MRCheck`), the end of the
file (CODEOWNERS). The
queue never stops: its processors tick.

### Fairness

`MRQueue` assumes that a handler that began finishes, a running processor goes
on, a stopped process is started again and the TTL of a lock runs out: goroutines
are scheduled, the deployment restarts its pods, and Redis expires keys. That a
processor takes a particular step is not assumed (`WF` of the disjunction of its
steps), nor that a delivery is made, that a run succeeds, that a lock is won by a
particular replica, or that anything fails. `JobsSettle` holds because every
failing run uses up an attempt and, whoever has the lock, some replica pops.
`MRReport` assumes that a sent webhook arrives and that a runner goes on; `Converges`
says nothing of a behaviour in which a job was lost (`losses`), a read was passed
over (`fallbacks`) or the attempts could be spent, because the code does
not try again then. `MRCheck` and CODEOWNERS state no fairness: all their
properties are invariants.

## Findings

1. **A batch can lose its lock** (`queue_locklost`). The lock has the TTL
   `lock_ttl` and is never renewed; the release deletes whatever lock is there.
2. **A shutdown loses the job in hand** (`queue_shutdown`). The job has left its
   list, and processing keys are never read back.
3. **Two reports with the queue off** (`report_noqueue`). Listing and creating are
   two calls, and handlers run side by side.
4. **Rules of a section that is opened again are lost** (`codeowners_reopen`). The
   pointer kept for the section leads to an array that `append` has left.
   `ParsedAsWritten` says exactly which rules survive; all of them do in a file that
   opens every section once (`OnceOpenedAllKept`).
5. **`/dir/` matches nothing** (`codeowners_slash`). The absolute pattern is
   matched as a glob before the trailing slash is looked at.

Three more places where text and code part, met while modelling; the properties
named state exactly what does hold:

- `README.md:129` of the repository says that with both systems configured
  "commits pass if they have a valid reference to **either** system". Only the
  first thing that looks like a Jira key is looked at, so `UTF-8 ... PROJ-123` fails;
  and the expression asks for white space before the key, so a message that begins
  with one has no reference. An Asana task of
  another project hides an Asana URL, wherever the two stand (`ValidReferenceSuffices`).
- The table of owners may tick every box of a rule that fails: it counts people
  where the verdict counts owners, and ticks a row that nobody may approve
  (`RowsTellTheVerdict`, `summary.go:268` and `:289`).
- A rule that returns an error counts as passed (`checker.go:130`): a squash
  pattern that does not compile turns the rule off for the merge requests whose
  branch no pattern before it in its list matches (`SquashAsConfigured`).

## Proofs

The theorems hold for any number of replicas, merge requests, jobs, attempts and
faults; of handlers, events and crashes; of people, comments, runs and entries on a
page; for every configuration and every text; for every set of lines, every
length of a CODEOWNERS file, every list of changes and every set of members. They
rest on assumptions that the modules name and TLC evaluates on every run:

| Assumption | In | Says |
| --- | --- | --- |
| `MROfAssumption`, `NoneAssumption`, `AttemptsAssumption`, `FaultsAssumption`, `BoundsAssumption` | `MRQueue` | a job has one merge request, `None` is nobody, at least one attempt, the bounds are numbers |
| `ModeAssumption`, `RunnersAssumption`, `RulesAssumption`, `MovingAssumption`, `ReportAssumption` | `MRReport` | the runners are finitely many, one with the queue on; configurations name parts of the merge request; at least one attempt; the bounds are numbers |
| `PageAssumption`, `UsersAssumption`, `CaseAssumption` | `MRCheck` | a page holds something; finitely many users; a configuration names rules of the bot, with numbers and lists where the code has `int` and slices; the notes there are at first come in the order of their clock, and a comment has an id of its own, which is none of those the model gives later |
| `NameAssumption`, `BoundAssumption`, `LineAssumption` | `CodeownersFile` | what a line is: blank, a header with a name and a count, or a rule; `NoName` is not a name |
| `DefaultAssumption`, `DiffAssumption`, `OwnerAssumption` | `CodeownersOwnership` | a section may be called Default; changes are a sequence; an owner is a user, an e-mail address or a role, and of a user only the name is kept |
| `UserAssumption` | `CodeownersApproval` | finitely many users; only users have a level |

Three theorems have a hypothesis that describes a way the bot is run, not a state:
`Queued` (the queue is on), `Reliable` (no command is sent twice) and
`BatchFitsLock` (a batch ends before its lock's TTL). Where a property already
carries such a condition its theorem has none.

| Theorem | Property | Inductive invariant |
| --- | --- | --- |
| `TypeCorrect` | `TypeOK` of `MRQueue` | `TypeInv` |
| `MutualExclusion` | `OneBatchPerMR` | `TypeInv`, `LockInv` |
| `OneCopyAlways` | `OneCopy` | `TypeInv`, `UniqueInv` |
| `AttemptsBounded` | `AttemptBound` | `TypeInv`, `UniqueInv`, `BooksInv` |
| `SettledForGood` | `FinalIsFinal` | the same |
| `LossesBounded` | `OneJobPerFailure` | `TypeInv`, `LiveInv`, `LossInv` |
| `ArrivalOrder` | `FirstRunsInOrder` | `TypeInv`, `LockInv`, `UniqueInv`, `BooksInv`, `OrderInv` |
| `KeysBounded` | `OneKeyPerFailure` | `TypeInv`, `LossInv` |
| `ResendsBounded` | `AttemptsUnderResends` | `TypeInv`, `BudgetInv` |
| `LedgerImplemented` | `ImplementsLedger` | `TypeInv`, `UniqueInv`, `BooksInv` |
| `LinesImplemented` | `ImplementsLines` | `TypeInv`, `LockInv` |
| `ReportTypes` | `TypeOK` of `MRReport` | `TypeInv` |
| `OneReportQueued` | `OneReport` | `TypeInv`, `OneInv` |
| `StatusFollows` | `StatusFollowsReport` | `TypeInv`, `OneInv`, `TellsInv`, `WroteInv` |
| `CurrentReport` | `ReportIsCurrent` | `TypeInv`, `OneInv`, `TellsInv`, `KnowsInv`, `CurrentInv` |
| `BoundedReports` | `ReportsBounded` | `TypeInv`, `BoundInv` |
| `CheckTypes` | `TypeOK` of `MRCheck` | `JudgeInv`, `Sound` |
| `ReportFound` | `ReportIsFound` | the same, with `FindInv` |
| `TallyHeard` | `TallyIsALastWord` | `JudgeInv`, `Sound`, `TallyInv` |
| `VerdictEarned` | `VerdictNeedsApprovals` | the same |
| `NothingPassesUnearned` | `PassesAreEarned` | `JudgeInv` |
| `ReferencesSuffice` | `ValidReferenceSuffices` | `JudgeInv` |
| `SquashObeyed` | `SquashAsConfigured` | `JudgeInv` |
| `EverythingTold` | `ReportTellsAll` | `JudgeInv` |
| `PointersAlwaysLead` | `TypeOK` of `CodeownersFile` | `PointInv` |
| `ParserReads` | `ParsedAsWritten` | `PointInv`, `WriteInv` |
| `LaterRulesDecide` | `LastMatchDecides` | `PointInv`, `RulesRead` |
| `DefaultsHeard` | `DefaultsGiveWay` | the same, with `WriteInv` and `ParsedAsWritten` |
| `GroupsAreFair` | `GroupsSpeakForTheirFiles` | `PointInv`, `RulesRead`, `ParsedAsWritten` |
| `AskedOfTheRight` | `AskedAsWritten` | the same |
| `NobodyPassesUnapproved` | `PassesHaveApprovers` | `PointInv`, `RulesRead` |
| `ChanceIsBounded` | `ChanceNeedsDisagreement` | `PointInv`, `RulesRead` |
| `ApprovalsOnlyHelp` | `ApprovingNeverHurts` | `PointInv`, `RulesRead` |
| `NeverStuckOtherwise` | `StuckOnlyForAReason` | the same |
| `BoxesTell` | `RowsTellTheVerdict` | the same |
| `BlindlyDecided` | `BlindVerdict` | the same |
| `OnceOpenedAllKept` | `NoRuleLost`, as long as no section is opened again | `PointInv`, `ParsedAsWritten` |

Few of the properties are inductive as they stand.

The queue:

- `TypeInv` adds to the types that a replica on a batch knows its merge request,
  and that a job in a list or in hand belongs to the merge request it is found
  under; without that, a requeue might push into another list.
- `LockInv` says why batches exclude each other: a replica in a batch has the lock
  key of its merge request in Redis (`LockKept`), and it is alone. The lock does
  not name its owner, so exclusion and the key's existence have to be carried
  together: the key goes only by the release of the one replica in the batch, or
  by a TTL that `BatchFitsLock` keeps from running out under it.
- `UniqueInv` says that a job is in one place: no list repeats one, a job in a
  list is in nobody's hands, two replicas hold different jobs, and a job that has
  not arrived is nowhere. It does not mention locks at all: RPOP alone keeps a job
  single, also when batches overlap.
- `BooksInv` relates the two counts: the attempts that travel with a job equal the
  runs it has had (one less while its retry is being decided), a job in a list is
  live, and its attempts are below the maximum. Uniqueness is needed here: two
  copies would have two counts.
- `OrderInv` orders the untried jobs: while an earlier delivery is live and
  untried, a later one of the same merge request has not run; and if the earlier
  one is in the list, the later one stands behind it and is in nobody's hands. So
  whoever runs the later one has seen the earlier one leave. A job to be retried
  goes to the back of the line, so nothing of the kind holds of jobs that have run.
- `LiveInv`: a live job is in its queue or in hands that have not finished with it;
  hands that have finished do not count, because another copy may be live.
- `LossInv` counts. It is `OneJobPerFailure` with the lost jobs for the missing ones
  (`LiveInv` says that all others are somewhere), and `OneKeyPerFailure`. Every step
  is charged for what it adds to the two sets (`Charged`): nothing; one job for a
  failing command or a stop, which touch what one replica holds or one handler
  sends; the jobs of one merge request for the expiry of its queue. A set that grows
  only as it is charged for stays within the failures (`Charges`), whatever the set
  is. Neither locks nor uniqueness are needed, so this holds of resent commands too.
- `BudgetInv` gives every copy of a job, in a list or in a hand, a token for each
  run it may still have. The runs of a job, its tokens and those of a delivery yet to
  come are never more than `MaxAttempts` for the delivery and for every fault.
- The refinements are proved step by step: each action is a step of the abstract
  specification or leaves what it sees unchanged. `ImplementsLedger` needs the
  books (a job whose retry is decided has the attempts the ledger counts),
  `ImplementsLines` needs `LockInv` (who serves, serves alone).

The report:

- `OneInv` adds to `OneReport` that a runner about to create a report still has
  none in front of it: nobody else has come between its listing and its creating.
- `TellsInv` says what a runner leaves behind at each call: past `Update` or
  `Create` the report has its verdict, past `Resolve` the thread agrees with it. It
  holds while no hand has touched the thread, and of runs that began after the
  last change. `WroteInv` is the part of it that holds whoever touches the thread:
  past `Update` or `Create` the report has the runner's verdict.
- `KnowsInv` says that such a run has read what is there.
- `CurrentInv` carries the property past the end of a run: whoever is at work then
  has begun after the last change, so an older job that is retried reads anew.
- `BoundInv` counts whoever is about to create a report as if it had.

The check:

- `JudgeInv` says what the failures are while the rules run: exactly those of the
  rules before `next` that fail on the first page of commits and on the tally, and
  none of these rules panicked; a run that did panic has a scope pattern that does
  not compile. From it the
  four properties of texts, settings and the summary follow without a word about time.
  What a rule computes is unfolded rule by rule: a search of a list of patterns by
  its first stop (`SearchIs`), a reference by the first place that looks like one,
  the sorting of the summary by its two halves (`SortedIs`).
- `Sound` adds the shape of the notes and of the discussions: clocks do not go back
  along the list, an approval is never deleted with a discussion, because only
  comments carry the id of one, and no id is given twice, because reports and comments
  are numbered by the runs and the acts so far.
- `FindInv` relates what a run has read of the discussions to what is there now.
  As long as nothing was deleted, what was read is a prefix (`Agreed`), and it can
  have changed only by a quotation of the title, so a report that stands there is
  the one found (`FoundIn`). Reports are counted by their ids, which deletions do not
  move: a listing that misses the report must have had a deletion under it.
- `TallyInv` relates what a run has read of the notes to the people's words, while
  new notes push old ones towards pages still to come. `Follows` splits the list into
  the notes there were before page 1 and those that came since; each of the latter is
  among its author's words. Of every user either something was read that no older
  note can replace (`Settled`), or nothing was read and the last word of before page 1
  is still to come (`Pending`). A deletion pulls one note over the boundary to the
  pages already read, and with it at most one user out of this (`lost`), so there
  are never more such users than deletions.

The CODEOWNERS engine:

- `PointInv`: every pointer the parser keeps leads into an array, to the section of
  its name, and the current one is one of those kept.
- `WriteInv` is `ParsedAsWritten` with the reasons: which header the next line
  stands under, that there is one section for every name, and that the pointer kept
  for a name leads into the newest array exactly if no array has filled up since
  (`Written`). It is where `append` matters: the copy that is left behind keeps
  growing, and the one that is read no longer does.
- `RulesRead`: every rule that was kept is what its line says.
- The loop over the rules is a recursive function, as are the tally of the check and
  the list of its rules. What it computes is proved
  by induction over the number of rules; induction is used in the form that a set of
  numbers with 0 and with the successor of each element has them all
  (`SetInduction`), which needs no operator parameter, so every claim about the loop is
  made about a set. The result (`TurnKnows`, `OwnershipKnows`) is that after
  any number of rules the loop knows the last match, whether some match excluded the
  file, and nothing else. What a rule asks for is left open there, so the same lemmas
  serve with the project's members and without any.
- The pattern of a header that was taken for a rule matches nothing, so the rules
  that match a file are lines that can be told from the text (`MatchedLines`), and
  the active one is the last of them (`ActiveLine`).
- Approvals are counted with injections from counted owners into approvers
  (`HasApprovers`) and with inclusions between the sets of counted owners. For the
  table there is an injection each way: people noted for a group into its counted
  owners, as long as no two of them answer for one owner (`TableCountsLess`), and
  counted owners into people noted, as long as nobody stands for two of the owners
  (`TableCountsMore`).
- Without members the file has the same sections, files and groups (`SameGroups`);
  only what a rule asks for differs (`BlindDemands`), and of the people asked for
  nobody can be counted (`NobodyCounts`).

Only model-checked is liveness (`JobsSettle`, `LocksFreed`, `Converges`), which is
beyond the proof system. Every safety property that a passing run checks is a
theorem.

## Not modelled

- The regular expressions: a text, a pattern or a line of CODEOWNERS is what they
  find in it.
- The wording of reports and tables, statistics, logging.
- Code that the program does not call: in the queue `ClearAllQueues`,
  `GetQueueStats`, `Health`, `StopProcessor` and `Close`; in the client
  `CreateMergeRequestNote` and all of `internal/gitlab/webhook.go`; in CODEOWNERS
  `GenerateDetailedReport`, `GetAggregatedOwnershipByPattern`, `reporter.go`,
  `pattern_coverage.go`, `ownership_aggregator.go` and `utils.go`;
  `internal/storage`, which is built and never used.
- Request validation before a webhook is told apart, `/health` and `/status`: no
  state.
- The bot's own configuration at start-up (file, environment, defaults): the
  constants of the modules and the default configuration of a case.
- Packaging; the number of replicas is a constant.

## Plan

Done: the queue, its abstractions and all its safety proofs, the report on top of
the line and its safety proofs, the check with its rules and their proofs, and the
CODEOWNERS engine with its table and their proofs.

Next: composing the notes and rules of `MRCheck` with the owners of
`CodeownersApproval`, so that the tally a page boundary spoils is the one the owners'
verdict counts.
