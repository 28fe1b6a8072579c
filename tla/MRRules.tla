------------------------------ MODULE MRRules ------------------------------
(***************************************************************************)
(* The rules of internal/conformity/rules and the ticket validators of     *)
(* internal/conformity/helper/ticket, as functions of a configuration c, a *)
(* merge request m, its commits and its approvers.                         *)
(*                                                                         *)
(* A text (title, description or commit message) is a record of what the   *)
(* code looks for in it:                                                   *)
(*   length, words       of the title, or of a message's first line        *)
(*   header              what HeaderRegex finds: NoHeader or [type, scope] *)
(*   tickets             what looks like a ticket, in order of appearance: *)
(*     [form |-> "issue" (ABC-12), "task" (ABC- and 16 digits) or "url",   *)
(*      key, spaced (after white space), confirmed (by the Asana API)]     *)
(* A pattern is the set of names it matches; BadPattern does not compile.  *)
(* c.jira and c.asana are the keys of a system, in the file's order;       *)
(* c.token says that the process has a token for the Asana API.            *)
(***************************************************************************)
EXTENDS Integers, Sequences, FiniteSets, SequencesExt

CONSTANTS NoHeader, NoScope, BadPattern

\* A rule's verdict: passed, failed with its issues, an error instead of a
\* verdict, or a panic, which ends the run and, in the processor, the process.
Failed(issues) == [kind |-> IF issues = {} THEN "passed" ELSE "failed", issues |-> issues]
Erred == [kind |-> "error", issues |-> {}]
Panicked == [kind |-> "panic", issues |-> {}]

\* The first of the patterns that matches or does not compile ends a search.
StopsAt(patterns, name) ==
    {i \in DOMAIN patterns : patterns[i] = BadPattern \/ name \in patterns[i]}
Search(patterns, name) ==
    LET stops == StopsAt(patterns, name)
    IN  IF stops = {} THEN "none"
        ELSE IF patterns[Min(stops)] = BadPattern THEN "bad" ELSE "match"

\* The elements of a list that stand at these places, in its order.
Picked(list, places) ==
    LET part[i \in 0 .. Len(list)] ==
          IF i = 0 THEN <<>>
          ELSE IF i \in places THEN Append(part[i - 1], list[i]) ELSE part[i - 1]
    IN  part[Len(list)]

-----------------------------------------------------------------------------
(* Tickets: FindStringSubmatch returns the first match only.               *)

LooksJira(t) == t.form \in {"issue", "task"} /\ t.spaced
Places(tickets, form) == {i \in DOMAIN tickets : tickets[i].form = form}
\* A task is preferred to a URL wherever it stands.
LooksAsana(tickets) ==
    IF Places(tickets, "task") # {} THEN Places(tickets, "task") ELSE Places(tickets, "url")

AnyKey(c, t) == TRUE
JiraValid(c, t) == t.key \in Range(c.jira)
\* A URL names no project; whether the task exists is asked on request only,
\* and only with a token; an API that does not answer confirms nothing.
AsanaValid(c, t) ==
    /\ t.form = "task" => t.key \in Range(c.asana)
    /\ c.confirm /\ c.token => t.confirmed

\* A system is on if its first key is not empty, whatever keys follow.
IsOn(keys) == keys # <<>> /\ keys[1] # ""

\* BuildTicketValidators and ValidateMessage: the finds of the systems that are
\* on, each with its verdict.
Finds(c, tickets) ==
    LET jira == {i \in DOMAIN tickets : LooksJira(tickets[i])}
        asana == LooksAsana(tickets)
    IN  (IF IsOn(c.jira) /\ jira # {}
         THEN {[system |-> "Jira", valid |-> JiraValid(c, tickets[Min(jira)])]} ELSE {})
        \cup
        (IF IsOn(c.asana) /\ asana # {}
         THEN {[system |-> "Asana", valid |-> AsanaValid(c, tickets[Min(asana)])]} ELSE {})

BothSystems(c, tickets) == {f.system : f \in {g \in Finds(c, tickets) : ~g.valid}}
\* Either system's valid reference is enough.
TicketIssues(c, tickets) ==
    LET finds == Finds(c, tickets)
    IN  IF ~IsOn(c.jira) /\ ~IsOn(c.asana) THEN {}
        ELSE IF finds = {} THEN {"no ticket"}
        ELSE IF \E f \in finds : f.valid THEN {}
        ELSE {f.system : f \in finds}

-----------------------------------------------------------------------------
(* Conventional Commits.                                                   *)

\* A scope is only looked at if there are patterns for it.
ScopeSearch(c, header) ==
    IF header = NoHeader \/ c.scopes = <<>> THEN "match"
    ELSE IF header.scope = NoScope THEN "match"
    ELSE Search(c.scopes, header.scope)

Issue(bad, name) == IF bad THEN {name} ELSE {}

HeaderIssues(c, header) ==
    IF header = NoHeader THEN {"format"}
    ELSE Issue(header.type \notin c.types, "type")
           \cup Issue(ScopeSearch(c, header) = "none", "scope")

\* regexp.MustCompile panics on a scope that does not compile, once a text with
\* a scope gets there.
Explodes(c, header) == ScopeSearch(c, header) = "bad"

-----------------------------------------------------------------------------
(* The rules.  Each has the part of the configuration that is its own.     *)

Title(c, t) ==
    IF Explodes(c, t.header) THEN Panicked
    ELSE Failed(Issue(t.length < c.min, "short") \cup Issue(t.length > c.max, "long")
                \cup Issue(t.words \cap c.forbidden # {}, "forbidden")
                \cup HeaderIssues(c, t.header) \cup TicketIssues(c, t.tickets))

\* An empty description is only asked for; it need not name a ticket.
Description(c, d) ==
    Failed(IF d.length = 0 THEN Issue(c.required, "missing")
           ELSE Issue(d.length < c.min, "short") \cup TicketIssues(c, d.tickets))

Branch(c, branch) ==
    Failed(Issue(branch \in c.forbidden, "forbidden")
           \cup Issue(c.prefixes # <<>> /\ \A i \in DOMAIN c.prefixes : branch \notin c.prefixes[i],
                   "prefix"))

\* What is wrong with one commit; every commit is listed with its issues.
CommitIssues(c, t) ==
    Issue(t.length > c.max, "long") \cup HeaderIssues(c, t.header)
      \cup TicketIssues(c, t.tickets)

Commits(c, commits) ==
    IF \E k \in DOMAIN commits : Explodes(c, commits[k].header) THEN Panicked
    ELSE Failed(UNION {{<<issue, k>> : issue \in CommitIssues(c, commits[k])} :
                         k \in DOMAIN commits})

CountEverybody(c, m, approvers) == approvers
\* The creator of the merge request is left out on request.
Counted(c, m, approvers) == IF c.excludeCreator THEN approvers \ {m.author} ELSE approvers

\* use_codeowners off; the module CodeownersApproval has the rest.
Approvals(c, m, approvers) ==
    Failed(Issue(Cardinality(Counted(c, m, approvers)) < c.min, "approvals"))

SquashByDefault(c, m) == Failed(Issue(~m.squash, "squash"))
\* The first enforce pattern that matches decides if the merge request squashes,
\* the first disallow pattern if it does not; with neither, squashing is
\* required.
Squash(c, m) ==
    LET enforce == Search(c.enforce, m.branch)
        disallow == Search(c.disallow, m.branch)
    IN  IF enforce = "bad" THEN Erred
        ELSE IF enforce = "match" /\ m.squash THEN Failed({})
        ELSE IF disallow = "bad" THEN Erred
        ELSE IF disallow = "match" /\ ~m.squash THEN Failed({})
        ELSE IF enforce = "none" /\ disallow = "none" THEN Failed(Issue(~m.squash, "default"))
        ELSE Failed(Issue(enforce = "match", "enforce") \cup Issue(disallow = "match", "disallow"))

-----------------------------------------------------------------------------

\* BuildRules, in its order, of the rules that have a configuration.
Order == <<"title", "description", "branch", "commits", "approvals", "squash">>
BuildRules(config) == Picked(Order, {i \in DOMAIN Order : Order[i] \in DOMAIN config})

Severity(r) == IF r \in {"title", "approvals", "squash"} THEN 1 ELSE 0

Check(config, r, m, commits, approvers) ==
    LET c == config[r]
    IN  CASE r = "title" -> Title(c, m.title)
          [] r = "description" -> Description(c, m.description)
          [] r = "branch" -> Branch(c, m.branch)
          [] r = "commits" -> Commits(c, commits)
          [] r = "approvals" -> Approvals(c, m, approvers)
          [] r = "squash" -> Squash(c, m)
=============================================================================
