-------------------------- MODULE CodeownersTable --------------------------
(***************************************************************************)
(* The table of owners a failing approvals rule puts into the report       *)
(* (GenerateAggregatedOutput of summary.go), and the verdict when the list *)
(* of members could not be read.                                           *)
(*                                                                         *)
(* Groups of one section whose approvers have the same names share a row,  *)
(* which counts people where the verdict counts owners, and only people    *)
(* that createPatternSummary noted down.  A group is its key in GroupKeys. *)
(***************************************************************************)
EXTENDS CodeownersApproval

\* CreateCodeOwnersSummary: the groups in the summary, by their keys.
Summary == [g \in {k \in GroupKeys : ~PatternGroup(k).exclusion} |-> PatternGroup(g)]

-----------------------------------------------------------------------------
(* AllowedApprovers: the owners as written, a role being replaced by its   *)
(* members.  An address is no user's name.                                 *)

UserEntry(u) == [kind |-> "user", name |-> u]

Entries(o) == IF o.kind = "role" THEN {UserEntry(u) : u \in RoleMembers(o.level)} ELSE {o}
AllowedApprovers(p) == UNION {Entries(p.owners[i]) : i \in DOMAIN p.owners}

\* ownersSignature sorts the names and keeps repetitions.
Signature(p) ==
    [e \in AllowedApprovers(p) |-> Cardinality({i \in DOMAIN p.owners : e \in Entries(p.owners[i])})]

\* The groups in g's row.
Merged(ps, g) ==
    {h \in DOMAIN ps : h[1] = g[1] /\ Signature(ps[h]) = Signature(ps[g])}

-----------------------------------------------------------------------------
(* getApprovals: for every owner the one user that the loop over the       *)
(* approvals stopped at, whatever that user's last word.                   *)

Found(o, approvals) == {u \in DOMAIN approvals : Matches(o, u)}
FoundSets(ps, approvals) ==
    UNION {{Found(ps[g].owners[i], approvals) : i \in DOMAIN ps[g].owners} : g \in DOMAIN ps}

MayBeNoted(ps, approvals) == UNION FoundSets(ps, approvals)
MustBeNoted(ps, approvals) == {u \in DOMAIN approvals : {u} \in FoundSets(ps, approvals)}

AllNoted(p, noted, approvals) == Cardinality({u \in noted : UserEntry(u) \in AllowedApprovers(p)})
\* countApprovalsForOwners.
ApprovedCount(p, noted, approvals) ==
    Cardinality({u \in noted : approvals[u] = "approved" /\ UserEntry(u) \in AllowedApprovers(p)})

\* IsFullyApproved, the box of a row.  The group whose pattern comes first
\* makes the row; the order of patterns being text, any may.
Ticked(row, first, noted, approvals) ==
    \/ first.optional \/ AllowedApprovers(first) = {}
    \/ \E p \in row : p.auto
    \/ ApprovedCount(first, noted, approvals) >= first.required

MayBeTicked(row, noted, approvals) == \E p \in row : Ticked(row, p, noted, approvals)
MustBeTicked(row, noted, approvals) == \A p \in row : Ticked(row, p, noted, approvals)

-----------------------------------------------------------------------------

\* A row that speaks for its groups: they ask for the same, somebody may
\* approve, and owners can be counted as people.
Telling(row) ==
    /\ \A p, q \in row : p.required = q.required /\ p.optional = q.optional
    /\ \A p \in row : AllowedApprovers(p) # {} /\ Apart(p)

OnePerOwner(p, approvals) ==
    \A i \in DOMAIN p.owners : Cardinality(Found(p.owners[i], approvals)) <= 1

\* GenerateAggregatedOutput: the box of a row is ticked exactly if its groups
\* have the approvals they demand, though the table counts people and the
\* verdict owners, and what was noted for one section counts in another -
\* unless groups that require different numbers share the row, nobody may
\* approve (the box is ticked, the rule fails), somebody stands for two of the
\* owners, or two people have answered for one.
RowsTellTheVerdict ==
    LET ps == Summary
        rows == {{ps[h] : h \in Merged(ps, g)} : g \in DOMAIN ps}
    IN  \A row \in {r \in rows : Telling(r)} : \A approvals \in Approvals :
          \A p \in {q \in row : Obligatory(q) /\ OnePerOwner(q, approvals)} :
            /\ MayBeTicked(row, MayBeNoted(ps, approvals), approvals) =>
                 Enough(Least(p, approvals), p.required)
            /\ Enough(Most(p, approvals), p.required) =>
                 MustBeTicked(row, MustBeNoted(ps, approvals), approvals)

\* The check of a merge request whose project's members could not be listed.
Blind == INSTANCE CodeownersApproval WITH LevelOf <- [u \in {} |-> 0]

NamesRole(owners) == \E o \in Range(owners) : o.kind = "role"

\* What a group's line asks for as it is written: its own owners or, unless one
\* of them was malformed, its section's.
AsksRole(g) ==
    LET line == text[g[2]]
    IN  \/ NamesRole(line.owners)
        \/ /\ ~line.malformed /\ SectionMatches(g[1], FirstFile(g))
           /\ NamesRole(Sections[SectionIndex(g[1])].owners)

\* getCodeowners without members: approvals do not matter any more.  The rule
\* passes exactly if some line owns a changed file and no obligatory one asks for
\* a role: users are taken to be unknown, so that a line with users only needs
\* nobody, and a role has no members who could approve.
BlindVerdict ==
    LET groups == Blind!Groups
        passes == /\ GroupKeys # {}
                  /\ \A g \in GroupKeys : AsksRole(g) =>
                       PatternGroup(g).exclusion \/ PatternGroup(g).optional
    IN  \A approvals \in Approvals :
          /\ Blind!RuleMayPass(groups, approvals) => passes
          /\ passes => Blind!RuleMustPass(groups, approvals)
=============================================================================
