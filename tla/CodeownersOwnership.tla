------------------------ MODULE CodeownersOwnership ------------------------
(***************************************************************************)
(* Who owns a changed file: pattern_matcher.go, validator.go, matcher.go   *)
(* and GetActivePatternAggregation, over what the parser made of the file. *)
(***************************************************************************)
EXTENDS CodeownersFile

CONSTANTS
    Diffs,       \* the changes of the merge request: [old, new, deleted], old and
                 \* new being paths
    LevelOf,     \* access level of every project member; empty if unknown
    Default      \* the key of the default rules among the section names

ASSUME DefaultAssumption == Default \in Names
ASSUME DiffAssumption == Diffs \in Seq(Range(Diffs))
ASSUME OwnerAssumption ==
    \A l \in Lines : l.kind # "blank" =>
      \A i \in DOMAIN l.owners :
        /\ l.owners[i].kind \in {"user", "email", "role"}
        /\ l.owners[i].kind = "user" => l.owners[i] = [kind |-> "user", name |-> l.owners[i].name]

\* GetAllDiffsPaths: a deleted file under its old path, a renamed one only
\* under its new one.
Changed == [k \in DOMAIN Diffs |-> IF Diffs[k].deleted THEN Diffs[k].old ELSE Diffs[k].new]

-----------------------------------------------------------------------------
(* Patterns.  A path is a sequence of names.  A pattern "/a/*", "a/" or    *)
(* "*" has its names, whether it starts and whether it ends with a slash.  *)
(* "**" is left out.                                                       *)

SameNames(names, path) ==
    /\ Len(names) = Len(path)
    /\ \A k \in DOMAIN names : names[k] = "*" \/ names[k] = path[k]

\* matchAbsolutePattern, matchDirectoryPattern (no wildcards) and
\* matchRelativePattern (from any directory on).  The glob of an absolute
\* pattern that ends with a slash ends with an empty name.
MatchesPattern(p, path) ==
    IF p = Unmatchable THEN FALSE
    ELSE IF p.anchored THEN ~p.dir /\ SameNames(p.names, path)
    ELSE IF p.dir THEN IsPrefix(p.names, path)
    ELSE \E k \in DOMAIN path : SameNames(p.names, SubSeq(path, k, Len(path)))

-----------------------------------------------------------------------------
(* Owners: [kind |-> "user" or "email", name |-> u] or                     *)
(* [kind |-> "role", level |-> n].  Members' addresses are visible.        *)

\* isOwnerAccessible, after AddAccessibleUser and AddAccessibleRole of every
\* member.  Without members only roles count as accessible.
Accessible(o) ==
    IF o.kind = "role" THEN DOMAIN LevelOf = {} \/ \E u \in DOMAIN LevelOf : o.level <= LevelOf[u]
    ELSE o.name \in DOMAIN LevelOf

\* The owners validateRule and validateSection mark as valid, at their places
\* in the list.
ValidOwners(owners) == Restrict(owners, {i \in DOMAIN owners : Accessible(owners[i])})

\* HasZeroOwners after validateRule, and HasParseError && !IsValid.
ZeroOwners(r) == ValidOwners(r.owners) = <<>>
BrokenOrBare(r) == ZeroOwners(r)
Broken(r) == r.malformed /\ ZeroOwners(r)

-----------------------------------------------------------------------------
(* getMatchingOwnersWithPatternsAndValidation.                             *)

Demand(owners, auto, used) == [owners |-> owners, auto |-> auto, usedDefault |-> used]
NoDemand == Demand(<<>>, FALSE, FALSE)

\* What the rule asks for.  A default rule has a section without owners.
DemandOf(r, sectionOwners) ==
    LET valid == ValidOwners(sectionOwners)
    IN  IF Broken(r) THEN Demand(<<>>, TRUE, FALSE)
        ELSE IF ~ZeroOwners(r) THEN Demand(ValidOwners(r.owners), FALSE, FALSE)
        ELSE IF sectionOwners = <<>> THEN Demand(<<>>, TRUE, FALSE)
        ELSE Demand(valid, valid = <<>>, TRUE)

Forgiving(excluded, r) == r.exclusion
\* Once excluded, a file stays excluded.
Excludes(excluded, r) == excluded \/ r.exclusion

FirstActive(acc, r) == IF acc.active # 0 THEN acc.active ELSE r.line
\* A match makes its own pattern the active one.
Active(acc, r) == r.line

\* The loop over the rules that match, one turn: active is the line of the
\* active pattern, 0 for none.
Turn(sectionOwners, acc, r) ==
    LET now == Excludes(acc.excluded, r)
    IN  [excluded |-> now,
         active |-> IF now /\ ~r.exclusion THEN 0 ELSE Active(acc, r),
         demand |-> IF now THEN NoDemand ELSE DemandOf(r, sectionOwners)]

Matched(rules, path) == {i \in DOMAIN rules : MatchesPattern(rules[i].pattern, path)}

Unmatched == [excluded |-> FALSE, active |-> 0, demand |-> NoDemand]

\* What the loop knows after a rule, from what it knew before.
Later(acc, r, sectionOwners, path) ==
    IF MatchesPattern(r.pattern, path) THEN Turn(sectionOwners, acc, r) ELSE acc

Ownership(rules, sectionOwners, path) ==
    LET after[i \in 0 .. Len(rules)] ==
          IF i = 0 THEN Unmatched ELSE Later(after[i - 1], rules[i], sectionOwners, path)
    IN  after[Len(rules)]

\* GetOwnersForFile: what is asked for under every name with a match.  The
\* default rules use the key "Default", which a section may take over.
SectionIndex(n) == CHOOSE k \in DOMAIN Sections : Sections[k].name = n
HasSection(n) == \E k \in DOMAIN Sections : Sections[k].name = n

SectionMatches(n, path) ==
    HasSection(n) /\ Matched(Sections[SectionIndex(n)].rules, path) # {}

OwnedUnder(path) ==
    {n \in Names : SectionMatches(n, path)}
      \cup (IF Matched(defaults, path) # {} THEN {Default} ELSE {})

DefaultSection == [rules |-> defaults, owners |-> <<>>, optional |-> FALSE, required |-> 1]

\* What one section, or the default rules, ask for.
Asks(s, o) == [active |-> o.active, demand |-> o.demand, optional |-> s.optional,
               required |-> IF o.demand.usedDefault THEN s.required ELSE 1]
AskedBy(s, path) == Asks(s, Ownership(s.rules, s.owners, path))

DefaultsFirst(n, path) ==
    AskedBy(IF n = Default /\ Matched(defaults, path) # {} THEN DefaultSection
            ELSE Sections[SectionIndex(n)], path)
OwnersForFile(n, path) ==
    AskedBy(IF SectionMatches(n, path) THEN Sections[SectionIndex(n)] ELSE DefaultSection, path)

-----------------------------------------------------------------------------
(* GetActivePatternAggregation: one group for every active pattern.  A line *)
(* has one pattern and one section, so <<name, line>> is the group's key.   *)

ActiveIn(path) == {<<n, OwnersForFile(n, path).active>> : n \in OwnedUnder(path)}
GroupKeys == {g \in UNION {ActiveIn(Changed[k]) : k \in DOMAIN Changed} : g[2] # 0}

FilesOf(g) == {k \in DOMAIN Changed : g \in ActiveIn(Changed[k])}

LastFile(g) == Changed[Max(FilesOf(g))]
\* The file that makes the group, from which it takes everything.
FirstFile(g) == Changed[Min(FilesOf(g))]

GroupOf(o) == [exclusion |-> text[o.active].kind = "rule" /\ text[o.active].exclusion,
               owners |-> o.demand.owners, auto |-> o.demand.auto,
               optional |-> o.optional, required |-> o.required]
PatternGroup(g) == GroupOf(OwnersForFile(g[1], FirstFile(g)))

-----------------------------------------------------------------------------

\* The loop over the rules, "later rules take precedence": the last matching
\* rule alone decides what a file needs and which pattern is shown as active,
\* unless any matching rule - before or after it - is an exclusion, which
\* frees the file for good.
LastMatchDecides ==
    \A s \in Range(Sections) \cup {[rules |-> defaults, owners |-> <<>>]}, f \in DOMAIN Changed :
      LET hits == Matched(s.rules, Changed[f])
          last == s.rules[Max(hits)]
          o == Ownership(s.rules, s.owners, Changed[f])
          freed == \E i \in hits : s.rules[i].exclusion
      IN  hits # {} =>
            /\ o.demand = IF freed THEN NoDemand ELSE DemandOf(last, s.owners)
            /\ o.active # 0 <=> (freed => last.exclusion)
            /\ o.active # 0 => o.active = last.line

\* GetOwnersForFile, whose result has one entry for "Default": a section of that
\* name hides the rules above the first header from every file it matches, and
\* from no other; a file's group under that name is that of the last line that
\* matches among those heard, unless one of them frees the file.
DefaultsGiveWay ==
    \A k \in DOMAIN Changed :
      LET matching(lines) ==
            {l \in lines : text[l].kind = "rule" /\ MatchesPattern(text[l].pattern, Changed[k])}
          above == matching({l \in DOMAIN text : HeaderOf(l) = 0})
          under == matching({l \in LinesUnder(Default) : Kept(Default, l)})
          heard == IF under # {} THEN under ELSE above
          freed == \E l \in heard : text[l].exclusion
      IN  {g[2] : g \in {h \in GroupKeys : h[1] = Default /\ k \in FilesOf(h)}}
            = IF heard = {} \/ (freed /\ ~text[Max(heard)].exclusion) THEN {} ELSE {Max(heard)}

AsksTheSame(p, o) ==
    o.demand.owners = p.owners /\ o.demand.auto = p.auto /\ o.required = p.required

\* GetActivePatternAggregation: a group speaks for every one of its files,
\* though it takes its owners from the first; and no file with owners is left
\* without a group.
GroupsSpeakForTheirFiles ==
    /\ \A g \in GroupKeys : \A k \in FilesOf(g) :
         AsksTheSame(PatternGroup(g), OwnersForFile(g[1], Changed[k]))
    /\ \A k \in DOMAIN Changed : \A n \in OwnedUnder(Changed[k]) :
         OwnersForFile(n, Changed[k]).demand.owners # <<>> =>
           \E g \in GroupKeys : g[1] = n /\ k \in FilesOf(g)

\* validateRule and "Case 1" to "Case 4" of the loop: the line that decides for a
\* group asks exactly the members it names; if it names none, and has no mistake
\* in it, those its section's first header names, as many of them as that
\* requires; and the files are approved by nobody only if neither does.  A line
\* with a mistake that names no member never falls back on its section.
AskedAsWritten ==
    \A g \in GroupKeys :
      LET p == PatternGroup(g)
          l == text[g[2]]
          first == text[FirstHeader(g[1])]
          named == ValidOwners(l.owners)
          inherits == named = <<>> /\ ~l.malformed /\ HeaderOf(g[2]) # 0 /\ ~first.malformed
          asked == IF l.exclusion THEN <<>>
                   ELSE IF inherits THEN ValidOwners(first.owners) ELSE named
      IN  /\ p.owners = asked
          /\ p.auto <=> ~l.exclusion /\ asked = <<>>
          /\ asked # <<>> => p.required = IF ~inherits \/ first.count < 1 THEN 1 ELSE first.count

\* matchDirectoryPattern, "Check if file is within this directory": a rule
\* whose pattern ends with a slash matches the files of its directory.  The
\* code does not keep this: see the findings.
DirectoryPatternsMatch ==
    \A i \in DOMAIN defaults, k \in DOMAIN Changed :
      LET p == defaults[i].pattern
      IN  p # Unmatchable /\ p.dir /\ IsPrefix(p.names, Changed[k])
            => MatchesPattern(p, Changed[k])
=============================================================================
