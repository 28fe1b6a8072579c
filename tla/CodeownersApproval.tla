------------------------- MODULE CodeownersApproval -------------------------
(***************************************************************************)
(* Have the owners approved?  CreateCodeOwnersSummary of summary.go and    *)
(* the approvals rule, over the groups of CodeownersOwnership.             *)
(*                                                                         *)
(* Approvals arrive as a Go map, and a role is looked up by taking the     *)
(* first member of the role that the iteration meets.  The order of the    *)
(* iteration is arbitrary, so an owner has a set of possible answers.      *)
(***************************************************************************)
EXTENDS CodeownersOwnership

CONSTANTS Users     \* everybody who may have approved or withdrawn it

ASSUME UserAssumption == IsFiniteSet(Users) /\ DOMAIN LevelOf \subseteq Users

\* ApprovalsInfo: the last word of those who said anything.
Approvals == UNION {[S -> {"approved", "unapproved"}] : S \in SUBSET Users}

-----------------------------------------------------------------------------
(* createPatternSummary.                                                   *)

AtLeastTheLevel(level) == {u \in DOMAIN LevelOf : LevelOf[u] >= level}
\* getRoleMembers: exactly the level of the role.
RoleMembers(level) == {u \in DOMAIN LevelOf : LevelOf[u] = level}

\* matchesOwner.  An address is compared with user names and matches none.
Matches(o, u) ==
    \/ o.kind = "role" /\ u \in RoleMembers(o.level)
    \/ o.kind = "user" /\ u = o.name

\* What the loop over the approvals may find for an owner: the answer of any
\* one user who matches, or nothing.
Answers(o, approvals) == {approvals[u] : u \in {v \in DOMAIN approvals : Matches(o, v)}}

AnyAnswer(o, approvals) == Answers(o, approvals) # {}
MayCount(o, approvals) == "approved" \in Answers(o, approvals)
MustCount(o, approvals) == Answers(o, approvals) = {"approved"}

\* ApprovedCount adds up the owners, not the people.
Most(p, approvals) == Cardinality({i \in DOMAIN p.owners : MayCount(p.owners[i], approvals)})
Least(p, approvals) == Cardinality({i \in DOMAIN p.owners : MustCount(p.owners[i], approvals)})

AutoToo(p) == ~p.exclusion /\ ~p.optional
\* What counts: nothing is excluded, left to choice or without owners.
Obligatory(p) == ~p.exclusion /\ ~p.auto /\ ~p.optional

\* The pattern groups that count: CreateCodeOwnersSummary skips exclusions.
Groups == {PatternGroup(g) : g \in GroupKeys}
Demanding == {p \in Groups : Obligatory(p)}

ExactlyEnough(count, required) == count = required
\* IsFullyApproved.
Enough(count, required) == count >= required

MayPass(ps, approvals) == \A p \in ps : Enough(Most(p, approvals), p.required)
MustPass(ps, approvals) == \A p \in ps : Enough(Least(p, approvals), p.required)

\* ApprovalsRule.Check with use_codeowners fails when there is no group at
\* all; otherwise every demanding one must be fully approved.
RuleMayPass(groups, approvals) ==
    groups # {} /\ MayPass({p \in groups : Obligatory(p)}, approvals)
RuleMustPass(groups, approvals) ==
    groups # {} /\ MustPass({p \in groups : Obligatory(p)}, approvals)

-----------------------------------------------------------------------------

Approvers(p, approvals) ==
    {u \in DOMAIN approvals : /\ approvals[u] = "approved"
                              /\ \E i \in DOMAIN p.owners : Matches(p.owners[i], u)}

\* Nobody stands for two owners of the group.
Apart(p) == \A u \in Users, i, k \in DOMAIN p.owners :
              Matches(p.owners[i], u) /\ Matches(p.owners[k], u) => i = k

\* createPatternSummary: the rule passes only if every demanding group has an
\* approval of one of its owners, and, if nobody stands for two of them, as
\* many different approvers as it requires.
PassesHaveApprovers ==
    LET ps == Demanding
    IN  \A approvals \in Approvals : MayPass(ps, approvals) =>
          \A p \in ps :
            /\ Approvers(p, approvals) # {}
            /\ Apart(p) => Cardinality(Approvers(p, approvals)) >= p.required

\* Two users of exactly the level of a role do not agree.
TwoMinds(o, approvals) ==
    /\ o.kind = "role"
    /\ \E u, v \in DOMAIN approvals \cap DOMAIN LevelOf :
         /\ LevelOf[u] = o.level /\ LevelOf[v] = o.level
         /\ approvals[u] # approvals[v]

Torn(p, approvals) == {i \in DOMAIN p.owners : TwoMinds(p.owners[i], approvals)}

\* createPatternSummary: the order of the map decides the verdict exactly if
\* some demanding group has too few owners who approved for certain, and every
\* such group has roles enough whose members disagree to make up for it.
ChanceNeedsDisagreement ==
    LET ps == Demanding
    IN  \A approvals \in Approvals :
          MayPass(ps, approvals) /\ ~MustPass(ps, approvals)
            <=> /\ \E p \in ps : Least(p, approvals) < p.required
                /\ \A p \in ps :
                     p.required <= Least(p, approvals) + Cardinality(Torn(p, approvals))

\* One more approval.
Also(u, approvals) ==
    [v \in DOMAIN approvals \cup {u} |-> IF v = u THEN "approved" ELSE approvals[v]]

\* createPatternSummary: another approval never makes a merge request fail
\* that was certain to pass.
ApprovingNeverHurts ==
    LET ps == Demanding
    IN  \A approvals \in Approvals : MustPass(ps, approvals) =>
          \A u \in Users : MustPass(ps, Also(u, approvals))

Countable(p) == {i \in DOMAIN p.owners : p.owners[i].kind # "email"}

\* ApprovalsRule.Check: when everybody approves, the rule fails only if no
\* changed file has an owner to ask, or a group requires more approvals than
\* it lists owners (a role counts once, an address not at all), or lists a role
\* that nobody has at exactly its level.
StuckOnlyForAReason ==
    LET everybody == [u \in Users |-> "approved"]
        ps == Demanding
    IN  ~RuleMustPass(Groups, everybody) =>
          \/ \A k \in DOMAIN Changed : \A n \in OwnedUnder(Changed[k]) :
               OwnersForFile(n, Changed[k]).active = 0
          \/ \E p \in ps : \/ p.required > Cardinality(Countable(p))
                          \/ \E i \in DOMAIN p.owners :
                               p.owners[i].kind = "role" /\ RoleMembers(p.owners[i].level) = {}
=============================================================================
