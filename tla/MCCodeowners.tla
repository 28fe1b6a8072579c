---------------------------- MODULE MCCodeowners ----------------------------
(* Instances of the CODEOWNERS modules for TLC.                            *)
EXTENDS CodeownersTable, TLC

CONSTANTS A, B, rep, mnt, lead, ghost

User(u) == [kind |-> "user", name |-> u]
Email(u) == [kind |-> "email", name |-> u]
Role(n) == [kind |-> "role", level |-> n]
Maintainers == Role(40)
Developers == Role(30)

Header(n, optional, count, owners, malformed) ==
    [kind |-> "header", name |-> n, optional |-> optional, count |-> count,
     owners |-> owners, malformed |-> malformed]
Rule(p, exclusion, owners, malformed) ==
    [kind |-> "rule", pattern |-> p, exclusion |-> exclusion, owners |-> owners,
     malformed |-> malformed]

Anywhere(n) == [anchored |-> FALSE, dir |-> FALSE, names |-> <<n>>]
Directory(n) == [anchored |-> FALSE, dir |-> TRUE, names |-> <<n>>]
RootDirectory(n) == [anchored |-> TRUE, dir |-> TRUE, names |-> <<n>>]
InRoot(n) == [anchored |-> TRUE, dir |-> FALSE, names |-> <<n, "*">>]

\* Two developers and an owner: the role of maintainers is accessible, though
\* nobody has it; ghost is no member.
Levels == (rep :> 30) @@ (mnt :> 30) @@ (lead :> 50)

\* A file moved into docs, another deleted.
TwoFiles == << [old |-> <<"b">>, new |-> <<"docs", "a">>, deleted |-> FALSE],
               [old |-> <<"a">>, new |-> <<"docs", "b">>, deleted |-> TRUE] >>

\* Sections with two required approvals, with an optional one whose header has a
\* mistake in it, and one called "Default", mixing a member with roles; rules with
\* explicit, default, unknown and malformed owners, and an exclusion.
OwnershipLines ==
    { Header(A, FALSE, 2, <<User(mnt), Email(rep), User(rep)>>, FALSE),
      Header(B, TRUE, 0, <<User(lead)>>, TRUE),
      Header(Default, FALSE, 2, <<User(mnt), Developers, Maintainers>>, FALSE),
      Header(NoName, FALSE, 0, <<>>, FALSE),
      Rule(Anywhere("a"), FALSE, <<>>, FALSE),
      Rule(Directory("docs"), FALSE, <<User(rep), User(mnt), Email(rep)>>, FALSE),
      Rule(InRoot("docs"), TRUE, <<>>, FALSE),
      Rule(Anywhere("*"), FALSE, <<User(ghost)>>, TRUE),
      [kind |-> "blank"] }

\* A section is closed and opened again.
ReopenLines ==
    { Header(A, FALSE, 0, <<>>, FALSE), Header(B, FALSE, 0, <<>>, FALSE),
      Rule(Anywhere("a"), FALSE, <<User(rep)>>, FALSE) }

SlashLines == { Rule(RootDirectory("docs"), FALSE, <<User(rep)>>, FALSE),
                Rule(Directory("docs"), FALSE, <<User(mnt)>>, FALSE) }
=============================================================================
