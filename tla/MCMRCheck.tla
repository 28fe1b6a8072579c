----------------------------- MODULE MCMRCheck -----------------------------
(* Instances of MRCheck for TLC: what the bot is run on.                   *)
EXTENDS MRCheck, TLC

CONSTANTS author, rev

Header(type, scope) == [type |-> type, scope |-> scope]
Ticket(form, key, spaced, confirmed) ==
    [form |-> form, key |-> key, spaced |-> spaced, confirmed |-> confirmed]
Text(length, header, tickets) ==
    [length |-> length, words |-> {}, header |-> header, tickets |-> tickets]

Headers == {NoHeader, Header("feat", NoScope), Header("fix", "api"), Header("feat", "db")}

ABC == Ticket("issue", "ABC", TRUE, TRUE)
UTF == Ticket("issue", "UTF", TRUE, TRUE)      \* "UTF-8"
Task == Ticket("task", "ASN", TRUE, TRUE)
Tickets == { <<>>, <<ABC>>, <<UTF, ABC>>, <<ABC, UTF>>, <<Task>>, <<UTF, Task>>, <<Task, ABC>>,
             <<Ticket("issue", "ABC", FALSE, TRUE)>>, <<Ticket("task", "ASN", TRUE, FALSE), ABC>>,
             <<Ticket("url", "", FALSE, FALSE)>>, <<Ticket("url", "", FALSE, TRUE), UTF>>,
             <<Ticket("task", "OLD", TRUE, TRUE), Ticket("url", "", TRUE, TRUE)>> }

Texts == {Text(2, h, t) : h \in Headers, t \in Tickets}
           \cup {Text(l, Header("feat", NoScope), <<ABC, Task>>) : l \in {0, 1, 3}}

Good == Text(2, Header("feat", "api"), <<ABC, Task>>)
Rude == [Good EXCEPT !.words = {"wip"}]

Scopes == {<<>>, <<{"api"}>>, <<{"api"}, BadPattern>>, <<BadPattern, {"api"}>>}
\* An empty first key switches a system off.
Systems == {[jira |-> <<>>, asana |-> <<>>], [jira |-> <<"ABC">>, asana |-> <<"", "ASN">>],
            [jira |-> <<"", "ABC">>, asana |-> <<"ASN">>],
            [jira |-> <<"XYZ", "ABC">>, asana |-> <<"ASN">>]}

\* The configuration of texts: every rule but the approvals.
TextRules(scopes, s, confirm) ==
    LET more == [types |-> {"feat"}, scopes |-> scopes, jira |-> s.jira, asana |-> s.asana,
                 confirm |-> confirm]
    IN  [title |-> [min |-> 1, max |-> 2, forbidden |-> {"wip"}] @@ more,
         description |-> [required |-> confirm, min |-> 2, jira |-> s.jira, asana |-> s.asana],
         branch |-> [prefixes |-> <<{"f"}, {"r"}>>, forbidden |-> {"r"}],
         commits |-> [max |-> 2] @@ more]

OneRule(r, settings) == r :> settings

Case(file, default, token, t, cs, branch, squash, said, acts, runs) ==
    [file |-> file, default |-> default, token |-> token, title |-> t, description |-> t,
     commits |-> cs, branch |-> branch, squash |-> squash, author |-> author,
     said |-> said, talk |-> acts, runs |-> runs]

\* A text as title and description, and as the newest, the oldest or the only
\* commit; a repository's file that sets everything or leaves settings out, or
\* none.
TextCases ==
    UNION {{Case(<<TextRules(scopes, s, confirm)>>, OneRule("squash", <<>>), token, t, cs,
                 "f", TRUE, <<>>, 0, 1) :
              cs \in {<<t>>, <<t, Good>>, <<Good, Good, t>>, <<t, Rude, t>>}} :
           t \in Texts, scopes \in Scopes, s \in Systems, confirm \in BOOLEAN, token \in BOOLEAN}
    \cup {Case(file, TextRules(<<>>, s, FALSE), TRUE, t, <<Good>>, b, FALSE, <<>>, 0, 1) :
            file \in {<<>>, <<OneRule("title", [types |-> {"feat"}])>>,
                      <<OneRule("description", [min |-> 2])>>},
            s \in Systems, t \in {Good, Rude}, b \in {"f", "r", "x"}}

Patterns == {{"f"}, {"f", "r"}, BadPattern}
PatternLists == {<<>>} \cup {<<p>> : p \in Patterns} \cup {<<p, q>> : p, q \in Patterns}

\* Overlapping and broken squash patterns, beside a rule that warns.
SquashCases ==
    {Case(<<[squash |-> [enforce |-> e, disallow |-> d],
             branch |-> [prefixes |-> <<{"r"}>>],
             approvals |-> [min |-> 1]]>>, <<>>, FALSE, Good, <<>>, b, q, <<>>, 0, 1) :
       e, d \in PatternLists, b \in {"f", "r", "x"}, q \in BOOLEAN}

NoteBy(u, kind, id) == [by |-> u, kind |-> kind, id |-> id, at |-> 0]
Comments(n) == [i \in 1 .. n |-> NoteBy(Nobody, "comment", -10 - i)]

\* People approve, comment, quote and delete while the lists are read, page by
\* page, in two runs.
TalkCases ==
    {Case(<<OneRule("approvals", [min |-> n, excludeCreator |-> x])>>, <<>>, FALSE, Good, <<>>, "f", TRUE,
          said, 3, 2) :
       n \in 1 .. 2, x \in BOOLEAN,
       said \in {Comments(2),
                 <<NoteBy(rev, "approved", 0)>> \o Comments(2),
                 <<NoteBy(author, "approved", 0), NoteBy(rev, "approved", 0)>> \o Comments(1)}}

AllCases == TextCases \cup SquashCases \cup TalkCases
=============================================================================
