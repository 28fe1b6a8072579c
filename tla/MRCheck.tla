------------------------------ MODULE MRCheck ------------------------------
(***************************************************************************)
(* What one run of the bot sees and says: CheckMergeRequest of             *)
(* internal/conformity/checker.go with the lists it reads page by page     *)
(* (internal/gitlab/client.go) while people go on approving, commenting    *)
(* and deleting their comments, the rules one after the other, and the     *)
(* discussion the summary goes to.  MRReport has the failing calls and the *)
(* steps of posting; here every call works and a run posts in one step.    *)
(*                                                                         *)
(* GitLab pages by offset: page n of a list is cut from the list as it is  *)
(* when page n is asked for.  Notes are listed newest first, discussions   *)
(* oldest first, commits newest first.                                     *)
(***************************************************************************)
EXTENDS MRRules

CONSTANTS
    Cases,       \* what the bot is run on: see case
    Users,       \* the author among them
    Nobody,      \* who has said nothing
    PageSize     \* 100 notes or discussions; commits are 20

Said == {"approved", "unapproved"}
Note == [by : Users \cup {Nobody}, kind : Said \cup {"comment"}, id : Int, at : Nat]

Configuration(file) ==
    /\ DOMAIN file \subseteq Range(Order)
    /\ \A r \in DOMAIN file : \A k \in DOMAIN file[r] :
         /\ k \in {"min", "max"} => file[r][k] \in Int
         /\ k \in {"scopes", "prefixes", "jira", "asana", "enforce", "disallow"} =>
              file[r][k] \in Seq(Range(file[r][k]))

Readable(t) == t.length \in Nat /\ t.tickets \in Seq(Range(t.tickets))

ASSUME PageAssumption == PageSize \in Nat \ {0}
ASSUME UsersAssumption == IsFiniteSet(Users)
\* Notes come in the order of their clock; the comments have names of their
\* own, which people and the bot do not give again.
ASSUME CaseAssumption ==
    \A c \in Cases :
      /\ Configuration(IF c.file # <<>> THEN c.file[1] ELSE c.default)
      /\ Readable(c.title) /\ Readable(c.description)
      /\ c.commits \in Seq(Range(c.commits)) /\ \A t \in Range(c.commits) : Readable(t)
      /\ c.talk \in Nat /\ c.runs \in Nat
      /\ c.said \in Seq(Note)
      /\ \A i \in DOMAIN c.said :
           /\ c.said[i].id = 0 \/ (c.said[i].kind = "comment" /\ c.said[i].id < -c.runs)
           /\ \A k \in 1 .. i - 1 :
                /\ c.said[k].at <= c.said[i].at
                /\ c.said[i].id # 0 => c.said[k].id # c.said[i].id

VARIABLES
    case,        \* [file, default: configurations; token: is there one for
                 \* the Asana API; title, description, branch, squash, author,
                 \* commits: the merge request; said: its notes at first;
                 \* talk, runs: bounds on what people do and on runs]
    notes,       \* [by, kind, at, id], oldest first
    threads,     \* [id, by, titled, body]: discussions, oldest first; titled if
                 \* a note of it contains the report's title
    stage,       \* where the run stands
    page, got,   \* the page to ask for, and what the pages before it held
    tally,       \* userApprovals: the status kept for each user
    commits,     \* the commits read
    next,        \* the rule to run, by its place in BuildRules
    failures,    \* the rules that failed so far
    found,       \* the discussion taken for the report; 0 for none
    ran, talked,
    \* History, read by no guard:
    words,       \* words[u]: what has been u's last word while notes were read
    cut,         \* comments deleted since page 1 of the last list was read
    cuts         \* listings of discussions during which some were deleted

talk == <<notes, threads, talked>>
run == <<stage, page, got, tally, commits, next, failures, found, ran>>
history == <<words, cut, cuts>>
vars == <<case, talk, run, history>>

Stages == {"idle", "approvals", "commits", "rules", "threads", "post", "panicked"}

-----------------------------------------------------------------------------
(* Configuration.                                                          *)

Zero == [title |-> [min |-> 0, max |-> 0, forbidden |-> {}, types |-> {}, scopes |-> <<>>,
                    jira |-> <<>>, asana |-> <<>>, confirm |-> FALSE, token |-> FALSE],
         description |-> [required |-> FALSE, min |-> 0, jira |-> <<>>, asana |-> <<>>,
                          confirm |-> FALSE, token |-> FALSE],
         branch |-> [prefixes |-> <<>>, forbidden |-> {}],
         commits |-> [max |-> 0, types |-> {}, scopes |-> <<>>, jira |-> <<>>, asana |-> <<>>,
                      confirm |-> FALSE, token |-> FALSE],
         approvals |-> [min |-> 0, excludeCreator |-> FALSE],
         squash |-> [enforce |-> <<>>, disallow |-> <<>>]]

\* Unmarshal: a rule that is not enabled in the file is off, a setting that is
\* left out is zero, whatever the default configuration says.
Unmarshal(file) ==
    [r \in DOMAIN file |-> [k \in DOMAIN Zero[r] |->
       IF k \in DOMAIN file[r] THEN file[r][k] ELSE Zero[r][k]]]

\* selectConfig: the repository's file, if there is one, replaces the default;
\* the token is a setting of the process, which the rule builder hands on.
Config ==
    LET rules == Unmarshal(IF case.file # <<>> THEN case.file[1] ELSE case.default)
    IN  [r \in DOMAIN rules |-> [k \in DOMAIN Zero[r] |->
           IF k = "token" THEN case.token ELSE rules[r][k]]]

-----------------------------------------------------------------------------
(* Pages.                                                                  *)

FirstPageOnly(list, n) == FALSE
\* resp.NextPage, as of the time of the answer.
HasNext(list, n) == n * PageSize < Len(list)

Page(list, n) ==
    SubSeq(list, (n - 1) * PageSize + 1,
           IF n * PageSize < Len(list) THEN n * PageSize ELSE Len(list))

\* One call of a paged listing: got' is the list read so far.
Fetch(list, then) ==
    /\ got' = got \o Page(list, page)
    /\ \/ HasNext(list, page) /\ page' = page + 1 /\ UNCHANGED stage
       \/ ~HasNext(list, page) /\ page' = 1 /\ stage' = then

-----------------------------------------------------------------------------
(* Approvals.                                                              *)

NotOlder(n, existing) == n.at >= existing.at
\* A note replaces the one that was read before it if it is newer.
After(n, existing) == n.at > existing.at

Silent == [kind |-> "none"]

\* What is kept for a user after one more note.
Heard(existing, n, u) ==
    IF n.by = u /\ n.kind \in Said /\ (existing = Silent \/ After(n, existing))
    THEN n ELSE existing

\* ListMergeRequestApprovals, for one user, over the notes in the order read.
Latest(list, u) ==
    LET kept[i \in 0 .. Len(list)] ==
          IF i = 0 THEN Silent ELSE Heard(kept[i - 1], list[i], u)
    IN  kept[Len(list)]

\* The users whose latest status is an approval.
Approvers == {u \in Users : tally[u] = "approved"}

\* The last word of a user, in a list of notes.
LastWord(list, u) ==
    LET mine == {k \in DOMAIN list : list[k].by = u /\ list[k].kind \in Said}
    IN  IF mine = {} THEN "none" ELSE list[Max(mine)].kind

-----------------------------------------------------------------------------
(* What people do meanwhile.                                               *)

\* Some pages have been read, not all.
Reading(list) == stage = list /\ page > 1

Thread(id) == [id |-> id, by |-> "people", titled |-> FALSE, body |-> <<>>]

\* A note at the clock of the last one, or later.
Noted(u, kind, id, tick) ==
    /\ talked < case.talk /\ talked' = talked + 1
    /\ notes' = Append(notes, [by |-> u, kind |-> kind, id |-> id,
                               at |-> (IF notes = <<>> THEN 0 ELSE Last(notes).at) + tick])

\* GitLab notes an approval and its withdrawal.
Approve(u) ==
    /\ \E tick \in {0, 1} :
         Noted(u, IF LastWord(notes, u) = "approved" THEN "unapproved" ELSE "approved", 0, tick)
    /\ words' = IF Reading("approvals") THEN [words EXCEPT ![u] = @ \cup {LastWord(notes', u)}]
                ELSE words
    /\ UNCHANGED <<case, threads, run, cut, cuts>>

Comment ==
    /\ Noted(Nobody, "comment", talked + 1, 1)
    /\ threads' = Append(threads, Thread(talked + 1))
    /\ UNCHANGED <<case, run, history>>

\* A reply that quotes the report.
Quote(i) ==
    /\ threads[i].by = "people" /\ ~threads[i].titled
    /\ Noted(Nobody, "comment", threads[i].id, 1)
    /\ threads' = [threads EXCEPT ![i] = [@ EXCEPT !.titled = TRUE]]
    /\ UNCHANGED <<case, run, history>>

\* A comment without replies is deleted, its note with it.
Delete(i) ==
    /\ threads[i].by = "people" /\ ~threads[i].titled
    /\ talked < case.talk /\ talked' = talked + 1
    /\ threads' = RemoveAt(threads, i)
    /\ \E k \in DOMAIN notes :
         notes[k].id = threads[i].id /\ notes' = RemoveAt(notes, k)
    /\ cut' = cut + (IF Reading("approvals") \/ Reading("threads") THEN 1 ELSE 0)
    /\ UNCHANGED <<case, run, words, cuts>>

-----------------------------------------------------------------------------
(* One run.                                                                *)

Unheard == [u \in Users |-> {}]

ForgetButFound ==
    /\ got' = <<>> /\ tally' = [u \in Users |-> "none"] /\ commits' = <<>>
    /\ next' = 1 /\ failures' = <<>> /\ found' = found
\* The locals of a run go with it.
Forget ==
    /\ got' = <<>> /\ tally' = [u \in Users |-> "none"] /\ commits' = <<>>
    /\ next' = 1 /\ failures' = <<>> /\ found' = 0

Start ==
    /\ stage = "idle" /\ ran < case.runs
    /\ ran' = ran + 1 /\ stage' = "approvals"
    /\ UNCHANGED <<case, talk, page, got, tally, commits, next, failures, found, history>>

\* ListMergeRequestApprovals.
ReadApprovals ==
    /\ stage = "approvals"
    /\ Fetch(Reverse(notes), "commits")
    /\ tally' = [u \in Users |-> Latest(got', u).kind]
    /\ cut' = IF page = 1 THEN 0 ELSE cut
    /\ words' = IF page = 1 THEN [u \in Users |-> {LastWord(notes, u)}] ELSE words
    /\ UNCHANGED <<case, talk, commits, next, failures, found, ran, cuts>>

\* ListMergeRequestCommits asks for one page.
ReadCommits ==
    /\ stage = "commits"
    /\ commits' = Page(case.commits, 1)
    /\ stage' = "rules" /\ got' = <<>>
    /\ UNCHANGED <<case, talk, page, tally, next, failures, found, ran, history>>

Rules == BuildRules(Config)

StopAtError(v) == Len(Rules)
\* An error is logged and the next rule is run.
AfterRule(v) == next

\* executeRuleChecks, one rule.
RunRule ==
    LET r == Rules[next]
        v == Check(Config, r, case, commits, Approvers)
    IN  /\ stage = "rules" /\ next <= Len(Rules)
        /\ \/ v.kind = "panic" /\ stage' = "panicked" /\ UNCHANGED <<next, failures>>
           \/ /\ v.kind # "panic"
              /\ next' = AfterRule(v) + 1
              /\ failures' = IF v.kind = "failed"
                             THEN Append(failures, [rule |-> r, issues |-> v.issues])
                             ELSE failures
              /\ UNCHANGED stage
        /\ UNCHANGED <<case, talk, page, got, tally, commits, found, ran, history>>

\* sortFailuresBySeverity: rules that err before those that warn.
OfSeverity(fs, n) == Picked(fs, {k \in DOMAIN fs : Severity(fs[k].rule) = n})
Sorted(fs) == OfSeverity(fs, 1) \o OfSeverity(fs, 0)
Summary == LET sorted == Sorted(failures) IN [k \in DOMAIN sorted |-> sorted[k].rule]

Summarise ==
    /\ stage = "rules" /\ next > Len(Rules)
    /\ stage' = "threads"
    /\ UNCHANGED <<case, talk, page, got, tally, commits, next, failures, found, ran, history>>

\* The first discussion with a note that contains the title.
FirstTitled(list) ==
    LET titled == {k \in DOMAIN list : list[k].titled}
    IN  IF titled = {} THEN 0 ELSE list[Min(titled)].id

\* getAllDiscussions.
ReadThreads ==
    /\ stage = "threads"
    /\ Fetch(threads, "post")
    /\ found' = FirstTitled(got')
    /\ cut' = IF page = 1 THEN 0 ELSE cut
    /\ UNCHANGED <<case, talk, tally, commits, next, failures, ran, words, cuts>>

\* The note found is rewritten, or a discussion created.
Post ==
    /\ stage = "post" /\ stage' = "idle"
    /\ threads' = IF found = 0
                  THEN Append(threads, [id |-> -ran, by |-> "bot", titled |-> TRUE,
                                        body |-> Summary])
                  ELSE [i \in DOMAIN threads |->
                          IF threads[i].id = found THEN [threads[i] EXCEPT !.body = Summary]
                          ELSE threads[i]]
    /\ notes' = IF found = 0
                THEN Append(notes, [by |-> Nobody, kind |-> "comment", id |-> -ran,
                                    at |-> IF notes = <<>> THEN 0 ELSE Last(notes).at])
                ELSE notes
    /\ Forget /\ words' = Unheard /\ cut' = 0
    /\ cuts' = cuts + (IF cut > 0 THEN 1 ELSE 0)
    /\ UNCHANGED <<case, talked, page, ran>>

-----------------------------------------------------------------------------

Init ==
    /\ case \in Cases
    /\ notes = case.said
    /\ LET comments == Picked(case.said, {k \in DOMAIN case.said : case.said[k].id # 0})
       IN  threads = [i \in DOMAIN comments |-> Thread(comments[i].id)]
    /\ stage = "idle" /\ page = 1 /\ got = <<>>
    /\ tally = [u \in Users |-> "none"]
    /\ commits = <<>> /\ next = 1 /\ failures = <<>> /\ found = 0
    /\ ran = 0 /\ talked = 0
    /\ words = Unheard /\ cut = 0 /\ cuts = 0

People ==
    \/ \E u \in Users : Approve(u)
    \/ Comment
    \/ \E i \in DOMAIN threads : Quote(i) \/ Delete(i)

Run == Start \/ ReadApprovals \/ ReadCommits \/ RunRule \/ Summarise \/ ReadThreads \/ Post

Next == People \/ Run

Spec == Init /\ [][Next]_vars

-----------------------------------------------------------------------------

TypeOK ==
    /\ \A i \in DOMAIN notes : notes[i].by \in Users \cup {Nobody}
    /\ \A i, k \in DOMAIN threads : threads[i].id = threads[k].id => i = k
    /\ stage \in Stages /\ page \in Nat \ {0}
    /\ tally \in [Users -> Said \cup {"none"}]
    /\ next \in 1 .. Len(Rules) + 1
    /\ found # 0 => stage \in {"threads", "post"}
    /\ ran \in 0 .. case.runs /\ talked \in 0 .. case.talk
    /\ words \in [Users -> SUBSET (Said \cup {"none"})]
    /\ cut \in Nat /\ cuts \in 0 .. ran

\* ListMergeRequestApprovals over getAllNotes: the status kept for a user is
\* what that user's last word was at some moment while the notes were read,
\* though pages shift under the reader and a clock may stand still; a deleted
\* comment hides at most one note from it.
TallyIsALastWord ==
    stage \in {"commits", "rules"} =>
      Cardinality({u \in Users : tally[u] \notin words[u]}) <= cut

Judged == stage = "rules" /\ next > Len(Rules)
HasFailed(r) == \E k \in DOMAIN failures : failures[k].rule = r
Passed(r) == r \in DOMAIN Config /\ ~HasFailed(r)

\* ApprovalsRule: it passes only if enough users who count had approved, and
\* fails only if not enough had, at some moment while the notes were read, give
\* or take the notes hidden by deleted comments.
VerdictNeedsApprovals ==
    LET c == Config["approvals"]
        counts == Users \ (IF c.excludeCreator THEN {case.author} ELSE {})
    IN  Judged /\ "approvals" \in DOMAIN Config =>
          IF Passed("approvals")
          THEN Cardinality({u \in counts : "approved" \in words[u]}) + cut >= c.min
          ELSE Cardinality({u \in counts : words[u] = {"approved"}}) < c.min + cut

\* CreateUpdateMergeRequestDiscussion over getAllDiscussions: unless comments
\* were deleted while the discussions were listed, a run goes for a discussion
\* with the title no younger than the bot's own report - the report itself,
\* whatever has been added or quoted since, unless an older discussion quotes
\* the title; and only listings with deletions leave another report.
ReportIsFound ==
    LET reports == {i \in DOMAIN threads : threads[i].by = "bot"}
    IN  /\ Cardinality(reports) <= 1 + cuts
        /\ stage = "post" /\ cut = 0 =>
             \A i \in reports : \E k \in 1 .. i : threads[k].titled /\ threads[k].id = found

\* What the configuration asks of a text: a reference that one of the systems
\* that are on accepts, confirmed if the bot can ask and is told to.
Refers(c, t) ==
    \/ ~IsOn(c.jira) /\ ~IsOn(c.asana)
    \/ \E i \in DOMAIN t.tickets :
         LET ticket == t.tickets[i]
         IN  \/ /\ IsOn(c.jira) /\ ticket.key \in Range(c.jira)
                /\ ticket.form # "url" /\ ticket.spaced
             \/ /\ IsOn(c.asana)
                /\ ticket.form = "url" \/ (ticket.form = "task" /\ ticket.key \in Range(c.asana))
                /\ c.confirm /\ c.token => ticket.confirmed

Conventional(c, t) ==
    /\ t.header # NoHeader /\ t.header.type \in c.types
    /\ \/ t.header.scope = NoScope \/ c.scopes = <<>>
       \/ \E i \in DOMAIN c.scopes : c.scopes[i] # BadPattern /\ t.header.scope \in c.scopes[i]

Obeys(c, t) == t.length <= c.max /\ Conventional(c, t) /\ Refers(c, t)

ObeyingTitle(c, t) == Obeys(c, t) /\ t.length >= c.min /\ t.words \cap c.forbidden = {}
ObeyingDescription(c, t) ==
    IF t.length = 0 THEN ~c.required ELSE t.length >= c.min /\ Refers(c, t)

\* TitleRule, DescriptionRule and CommitsRule: a title, a description and the
\* commits pass only if they obey all that their settings ask for - except
\* commits beyond the first page, which are not read.
PassesAreEarned ==
    Judged =>
      /\ Passed("title") => ObeyingTitle(Config["title"], case.title)
      /\ Passed("description") => ObeyingDescription(Config["description"], case.description)
      /\ Passed("commits") =>
           Cardinality({k \in DOMAIN case.commits : ~Obeys(Config["commits"], case.commits[k])})
             <= (IF HasNext(case.commits, 1) THEN Len(case.commits) - PageSize ELSE 0)

\* A valid reference, with nothing before it that the same regular expression
\* takes for one and, for an Asana URL, without a task anywhere.
ValidReference(c, tickets, i) ==
    LET ticket == tickets[i]
        before(form) == \E k \in 1 .. i - 1 : tickets[k].form = form
    IN  \/ /\ IsOn(c.jira) /\ ticket.form = "issue" /\ ticket.spaced
           /\ ticket.key \in Range(c.jira) /\ ~before("issue") /\ ~before("task")
        \/ /\ IsOn(c.asana) /\ (c.confirm /\ c.token => ticket.confirmed)
           /\ \/ /\ ticket.form = "task" /\ ticket.key \in Range(c.asana) /\ ~before("task")
              \/ /\ ticket.form = "url" /\ ~before("url")
                 /\ \A k \in DOMAIN tickets : tickets[k].form # "task"

\* ValidateMessage, "commits pass if they have a valid reference to either
\* system": a valid reference that the code's expressions find is enough,
\* whatever else is in the text.
ValidReferenceSuffices ==
    Judged => \A r \in {"title", "commits"} \cap DOMAIN Config :
      \A t \in IF r = "title" THEN {case.title} ELSE Range(case.commits) :
        (\E i \in DOMAIN t.tickets : ValidReference(Config[r], t.tickets, i)) =>
          TicketIssues(Config[r], t.tickets) = {}

\* SquashRule, however its lists overlap: squashing is required unless a
\* disallow pattern matches, forbidden if one does and no enforce pattern does.
\* A pattern that does not compile can only let a merge request pass, and only
\* if no pattern before it in its list matches.
SquashAsConfigured ==
    Judged /\ "squash" \in DOMAIN Config =>
      LET c == Config["squash"]
          hit(ps, i) == ps[i] # BadPattern /\ case.branch \in ps[i]
          matches(ps) == \E i \in DOMAIN ps : hit(ps, i)
          broken(ps) == \E i \in DOMAIN ps : ps[i] = BadPattern /\ \A k \in 1 .. i - 1 : ~hit(ps, k)
          wrong == \/ case.squash /\ matches(c.disallow) /\ ~matches(c.enforce)
                   \/ ~case.squash /\ ~matches(c.disallow)
      IN  /\ HasFailed("squash") => wrong
          /\ wrong /\ ~broken(c.enforce) /\ ~broken(c.disallow) => HasFailed("squash")

\* executeRuleChecks and sortFailuresBySeverity: whatever other rules do, and
\* unless one of them panics, the summary names every enabled rule that fails,
\* errors before warnings.
ReportTellsAll ==
    /\ Judged =>
         /\ Range(Summary) = {r \in DOMAIN Config :
              Check(Config, r, case, Page(case.commits, 1), Approvers).kind = "failed"}
         /\ \A i, k \in DOMAIN Summary : i < k => Severity(Summary[i]) >= Severity(Summary[k])
    /\ stage = "panicked" => \E r \in {"title", "commits"} \cap DOMAIN Config :
                               BadPattern \in Range(Config[r].scopes)
=============================================================================
