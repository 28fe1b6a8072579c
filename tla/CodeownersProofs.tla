-------------------------- MODULE CodeownersProofs --------------------------
(* Theorems about the owners of changed files and their approvals, for     *)
(* every file, every list of changes and every set of members.             *)
EXTENDS CodeownersTable, CodeownersFileProofs, WellFoundedInduction

-----------------------------------------------------------------------------
(* Induction.  The library's rules for it take a predicate; these take a   *)
(* set of numbers.                                                         *)

\* Numbers have a least one.
LEMMA NatLeast ==
    ASSUME NEW T, T \subseteq Nat, T # {}
    PROVE  \E x \in T : \A y \in T : x <= y
<1> DEFINE R == OpToRel(<, Nat)
<1>1. IsWellFoundedOn(R, Nat)
  BY NatLessThanWellFounded
<1>2. \A x, y \in Nat : <<x, y>> \in R <=> x < y
  BY DEF OpToRel
<1> HIDE DEF R
<1>3. PICK x \in T : \A y \in T : ~(<<y, x>> \in R)
  BY <1>1, WFMin
<1>4. \A y \in T : ~(y < x)
  BY <1>2, <1>3
<1>5. \A y \in T : x <= y
  BY <1>4
<1> QED BY <1>5

\* A set that holds 0 and every successor holds every number.
LEMMA SetInduction ==
    ASSUME NEW S, 0 \in S, \A n \in Nat : n \in S => n + 1 \in S
    PROVE  Nat \subseteq S
<1> SUFFICES ASSUME Nat \ S # {} PROVE FALSE
  OBVIOUS
<1>1. PICK x \in Nat \ S : \A y \in Nat \ S : x <= y
  BY NatLeast
<1>2. x # 0 /\ x - 1 \in Nat
  BY <1>1
<1>3. x - 1 \in S
  BY <1>1, <1>2
<1> QED BY <1>1, <1>2, <1>3

-----------------------------------------------------------------------------
(* The loop over the rules.  It is run with a list of members and without  *)
(* one, so what a rule asks for is left open: wants has it, rule by rule.  *)

\* One turn.
Step(known, r, want, path) ==
    IF MatchesPattern(r.pattern, path)
    THEN LET now == Excludes(known.excluded, r)
         IN  [excluded |-> now,
              active |-> IF now /\ ~r.exclusion THEN 0 ELSE r.line,
              demand |-> IF now THEN NoDemand ELSE want]
    ELSE known

\* What the loop knows after each of the first n rules.
IsRunOf(after, rules, wants, path, n) ==
    after = [i \in 0 .. n |->
               IF i = 0 THEN Unmatched ELSE Step(after[i - 1], rules[i], wants[i], path)]

\* The loop can be run over any number of rules.
LEMMA LoopRuns ==
    ASSUME NEW rules, NEW wants, NEW path, NEW n \in Nat
    PROVE  \E after : IsRunOf(after, rules, wants, path, n)
<1> DEFINE S == {k \in Nat : \E after : IsRunOf(after, rules, wants, path, k)}
<1>1. 0 \in S
  <2> DEFINE one == [i \in 0 .. 0 |-> Unmatched]
  <2>1. IsRunOf(one, rules, wants, path, 0)
    BY DEF IsRunOf
  <2> QED BY <2>1
<1>2. ASSUME NEW k \in Nat, k \in S PROVE k + 1 \in S
  <2>1. PICK after : IsRunOf(after, rules, wants, path, k)
    BY <1>2
  <2> DEFINE last == Step(after[k], rules[k + 1], wants[k + 1], path)
             more == [i \in 0 .. k + 1 |-> IF i = k + 1 THEN last ELSE after[i]]
  <2>2. ASSUME NEW i \in 0 .. k + 1
        PROVE  more[i] = IF i = 0 THEN Unmatched
                         ELSE Step(more[i - 1], rules[i], wants[i], path)
    <3>1. CASE i = k + 1
      <4>1. i - 1 = k /\ i # 0 /\ k # k + 1 /\ k \in 0 .. k + 1
        BY <3>1
      <4>2. more[i - 1] = after[k]
        BY <4>1
      <4> QED BY <3>1, <4>1, <4>2
    <3>2. CASE i # k + 1 /\ i # 0
      <4>1. i \in 0 .. k /\ i - 1 \in 0 .. k + 1 /\ i - 1 # k + 1
        BY <3>2
      <4>2. more[i - 1] = after[i - 1] /\ more[i] = after[i]
        BY <3>2, <4>1
      <4> HIDE DEF more
      <4> QED BY <2>1, <3>2, <4>1, <4>2 DEF IsRunOf
    <3>3. CASE i # k + 1 /\ i = 0
      <4>1. more[i] = after[0] /\ 0 \in 0 .. k
        BY <3>3
      <4> HIDE DEF more
      <4> QED BY <2>1, <3>3, <4>1 DEF IsRunOf
    <3> QED BY <3>1, <3>2, <3>3
  <2>3. more = [i \in 0 .. k + 1 |-> more[i]]
    OBVIOUS
  <2> HIDE DEF more
  <2>4. IsRunOf(more, rules, wants, path, k + 1)
    BY <2>2, <2>3 DEF IsRunOf
  <2> QED BY <2>4
<1> HIDE DEF S
<1>3. Nat \subseteq S
  BY <1>1, <1>2, SetInduction
<1> QED BY <1>3 DEF S

Hits(rules, path, n) == {i \in 1 .. n : MatchesPattern(rules[i].pattern, path)}

\* What is known after n rules is what the last match says, and whether any
\* match is an exclusion.
Knows(known, rules, wants, path, n) ==
    LET hits == Hits(rules, path, n)
        freed == \E i \in hits : rules[i].exclusion
    IN  /\ hits = {} => known = Unmatched
        /\ hits # {} => \E m \in hits : \A k \in hits : k <= m
        /\ \A m \in hits : (\A k \in hits : k <= m) =>
             /\ known.excluded <=> freed
             /\ known.active = IF freed /\ ~rules[m].exclusion THEN 0 ELSE rules[m].line
             /\ known.demand = IF freed THEN NoDemand ELSE wants[m]

\* One more turn of the loop.
LEMMA TurnKnows ==
    ASSUME NEW rules, NEW wants, NEW path, NEW known, NEW n \in Nat,
           Knows(known, rules, wants, path, n)
    PROVE  Knows(Step(known, rules[n + 1], wants[n + 1], path), rules, wants, path, n + 1)
<1> DEFINE before == Hits(rules, path, n)
           hits == Hits(rules, path, n + 1)
           r == rules[n + 1]
           want == wants[n + 1]
           turned == Step(known, r, want, path)
<1>1. CASE ~MatchesPattern(r.pattern, path)
  <2>1. hits = before
    BY <1>1 DEF Hits
  <2>2. turned = known
    BY <1>1 DEF Step
  <2> HIDE DEF hits, before
  <2> QED BY <2>1, <2>2 DEF Knows, hits, before
<1>2. CASE MatchesPattern(r.pattern, path)
  <2>1. hits = before \cup {n + 1} /\ before \subseteq 1 .. n
    BY <1>2 DEF Hits
  <2>2. known.excluded <=> \E i \in before : rules[i].exclusion
    <3>1. CASE before = {}
      <4>1. known = Unmatched
        BY <3>1 DEF Knows
      <4> QED BY <3>1, <4>1 DEF Unmatched
    <3>2. CASE before # {}
      BY <3>2 DEF Knows
    <3> QED BY <3>1, <3>2
  <2> DEFINE freed == \E i \in hits : rules[i].exclusion
  <2>3. freed <=> (known.excluded \/ r.exclusion)
    <3> HIDE DEF hits, before
    <3> QED BY <2>1, <2>2
  <2>4. /\ turned.excluded <=> freed
        /\ turned.active = IF freed /\ ~r.exclusion THEN 0 ELSE r.line
        /\ turned.demand = IF freed THEN NoDemand ELSE want
    <3> HIDE DEF freed, r, want
    <3> QED BY <1>2, <2>3 DEF Step, Excludes
  <2> HIDE DEF turned
  <2>5. n + 1 \in hits /\ \A k \in hits : k <= n + 1
    BY <2>1
  <2>6. \A m \in hits : (\A k \in hits : k <= m) => m = n + 1
    BY <2>1
  <2>7. Knows(turned, rules, wants, path, n + 1)
    BY <2>4, <2>5, <2>6, Zenon DEF Knows, hits, r, want, freed
  <2> QED BY <2>7 DEF turned
<1> QED BY <1>1, <1>2

\* After the last rule.
LEMMA RunKnows ==
    ASSUME NEW after, NEW rules, NEW wants, NEW path, NEW N \in Nat,
           IsRunOf(after, rules, wants, path, N)
    PROVE  Knows(after[N], rules, wants, path, N)
<1> DEFINE S == {k \in Nat : k <= N => Knows(after[k], rules, wants, path, k)}
<1>1. after[0] = Unmatched
  <2>1. 0 \in 0 .. N
    OBVIOUS
  <2> QED BY <2>1 DEF IsRunOf
<1>2. \A i \in 1 .. N : after[i] = Step(after[i - 1], rules[i], wants[i], path)
  <2> SUFFICES ASSUME NEW i \in 1 .. N
               PROVE  after[i] = Step(after[i - 1], rules[i], wants[i], path)
    OBVIOUS
  <2>1. i \in 0 .. N /\ i # 0
    OBVIOUS
  <2> QED BY <2>1 DEF IsRunOf
<1>3. 0 \in S
  <2>1. Hits(rules, path, 0) = {}
    BY DEF Hits
  <2>2. Knows(Unmatched, rules, wants, path, 0)
    BY <2>1, Zenon DEF Knows
  <2> QED BY <1>1, <2>2
<1>4. ASSUME NEW k \in Nat, k \in S PROVE k + 1 \in S
  <2> SUFFICES ASSUME k + 1 <= N
               PROVE  Knows(after[k + 1], rules, wants, path, k + 1)
    OBVIOUS
  <2>1. k + 1 \in 1 .. N /\ k <= N /\ (k + 1) - 1 = k
    OBVIOUS
  <2>2. Knows(after[k], rules, wants, path, k)
    BY <1>4, <2>1
  <2>3. after[k + 1] = Step(after[k], rules[k + 1], wants[k + 1], path)
    BY <1>2, <2>1
  <2> QED BY <2>2, <2>3, TurnKnows
<1> HIDE DEF S
<1>5. N \in S
  BY <1>3, <1>4, SetInduction
<1> QED BY <1>5 DEF S

\* What the last match makes of it.
Decided(o, rules, path, wants) ==
    LET hits == Matched(rules, path)
        last == rules[Max(hits)]
        freed == \E i \in hits : rules[i].exclusion
    IN  /\ Max(hits) \in hits
        /\ o.active = IF freed /\ ~last.exclusion THEN 0 ELSE last.line
        /\ o.demand = IF freed THEN NoDemand ELSE wants[Max(hits)]

\* When there is one.
LEMMA LastDecides ==
    ASSUME NEW rules, NEW wants, NEW path, Len(rules) \in Nat,
           DOMAIN rules = 1 .. Len(rules), Matched(rules, path) # {},
           NEW o, Knows(o, rules, wants, path, Len(rules))
    PROVE  Decided(o, rules, path, wants)
<1> DEFINE hits == Matched(rules, path)
<1>1. Hits(rules, path, Len(rules)) = hits /\ hits \subseteq Int
  BY DEF Hits, Matched
<1> HIDE DEF hits
<1>2. PICK m \in hits : \A k \in hits : k <= m
  BY <1>1 DEF Knows, hits
<1>3. Max(hits) = m
  BY <1>1, <1>2, MaxIs
<1> QED BY <1>1, <1>2, <1>3, Zenon DEF Knows, Decided, hits

\* What the rules of a list ask for.
Wants(rules, sectionOwners) == [i \in 1 .. Len(rules) |-> DemandOf(rules[i], sectionOwners)]

\* Ownership is what the loop knows after the last rule.
LEMMA OwnershipKnows ==
    ASSUME NEW rules, NEW sectionOwners, NEW path, Len(rules) \in Nat
    PROVE  Knows(Ownership(rules, sectionOwners, path), rules, Wants(rules, sectionOwners),
                 path, Len(rules))
<1> DEFINE wants == Wants(rules, sectionOwners)
           Runs(after) == after = [i \in 0 .. Len(rules) |->
                                     IF i = 0 THEN Unmatched
                                     ELSE Later(after[i - 1], rules[i], sectionOwners, path)]
           after == CHOOSE f : Runs(f)
<1>1. \A f : Runs(f) <=> IsRunOf(f, rules, wants, path, Len(rules))
  <2> SUFFICES ASSUME NEW f PROVE Runs(f) <=> IsRunOf(f, rules, wants, path, Len(rules))
    OBVIOUS
  <2>1. ASSUME NEW i \in 0 .. Len(rules), i # 0
        PROVE  Later(f[i - 1], rules[i], sectionOwners, path) = Step(f[i - 1], rules[i], wants[i], path)
    <3>1. wants[i] = DemandOf(rules[i], sectionOwners)
      BY <2>1 DEF Wants
    <3> QED BY <3>1, Zenon DEF Later, Turn, Active, Step
  <2> HIDE DEF wants
  <2> QED BY <2>1 DEF IsRunOf
<1>2. \E f : Runs(f)
  BY <1>1, LoopRuns, Zenon
<1>3. Ownership(rules, sectionOwners, path) = after[Len(rules)]
  BY Zenon DEF Ownership
<1> HIDE DEF Runs
<1>4. Runs(after)
  BY <1>2, Zenon
<1> HIDE DEF wants, after
<1>5. Knows(after[Len(rules)], rules, wants, path, Len(rules))
  BY <1>1, <1>4, RunKnows
<1> QED BY <1>3, <1>5 DEF wants

\* What a file's owners come to, rule by rule, when the list of rules is known
\* to be one.
LEMMA LastMatch ==
    ASSUME NEW rules, NEW sectionOwners, NEW path, Len(rules) \in Nat,
           DOMAIN rules = 1 .. Len(rules), Matched(rules, path) # {}
    PROVE  LET hits == Matched(rules, path)
               last == rules[Max(hits)]
               o == Ownership(rules, sectionOwners, path)
               freed == \E i \in hits : rules[i].exclusion
           IN  /\ Max(hits) \in hits
               /\ o.active = IF freed /\ ~last.exclusion THEN 0 ELSE last.line
               /\ o.demand = IF freed THEN NoDemand ELSE DemandOf(last, sectionOwners)
<1> DEFINE hits == Matched(rules, path)
           o == Ownership(rules, sectionOwners, path)
           wants == Wants(rules, sectionOwners)
<1>1. Decided(o, rules, path, wants)
  BY OwnershipKnows, LastDecides
<1>2. Max(hits) \in 1 .. Len(rules)
  BY <1>1 DEF Decided, Matched
<1>3. wants[Max(hits)] = DemandOf(rules[Max(hits)], sectionOwners)
  BY <1>2 DEF Wants
<1> HIDE DEF o, wants
<1> QED BY <1>1, <1>3 DEF Decided, o

-----------------------------------------------------------------------------
(* Where the rules come from.                                              *)

\* A rule is what its line was made into.
Reading(r, l) ==
    \/ l.kind = "rule" /\ r = ParsedRule(l, r.line)
    \/ l.kind = "header" /\ r \in {MisreadHeader(l, r.line), MisreadDefault(r.line)}

AllRead(rules) ==
    \A k \in DOMAIN rules :
      rules[k].line \in DOMAIN text /\ Reading(rules[k], text[rules[k].line])

RulesRead ==
    /\ AllRead(defaults)
    /\ \A a \in DOMAIN arrays : \A s \in DOMAIN arrays[a] : AllRead(arrays[a][s].rules)

\* The rules kept are still those of their lines when one more line is read.
LEMMA StillRead ==
    ASSUME Shape, NEW l \in Lines, Len(text) < MaxLines, text' = Append(text, l)
    PROVE  \A rules : AllRead(rules) =>
             \A k \in DOMAIN rules :
               rules[k].line \in DOMAIN text' /\ Reading(rules[k], text'[rules[k].line])
<1>1. DOMAIN text \subseteq DOMAIN text' /\ \A i \in DOMAIN text : text'[i] = text[i]
  BY OneMore
<1> QED BY <1>1, Zenon DEF AllRead

\* A rule of the line just read is added to such a list.
LEMMA AppendRead ==
    ASSUME Shape, NEW l \in Lines, Len(text) < MaxLines, text' = Append(text, l),
           NEW rules \in Seq(Rule), AllRead(rules),
           NEW r \in Rule, r.line = Len(text) + 1, Reading(r, l)
    PROVE  \A k \in DOMAIN Append(rules, r) :
             /\ Append(rules, r)[k].line \in DOMAIN text'
             /\ Reading(Append(rules, r)[k], text'[Append(rules, r)[k].line])
<1>1. \A k \in DOMAIN rules :
        rules[k].line \in DOMAIN text' /\ Reading(rules[k], text'[rules[k].line])
  BY StillRead
<1>2. r.line \in DOMAIN text' /\ Reading(r, text'[r.line])
  <2>1. Len(text) + 1 \in DOMAIN text' /\ text'[Len(text) + 1] = l
    BY OneMore
  <2> QED BY <2>1
<1> SUFFICES ASSUME NEW k \in DOMAIN Append(rules, r)
             PROVE  /\ Append(rules, r)[k].line \in DOMAIN text'
                    /\ Reading(Append(rules, r)[k], text'[Append(rules, r)[k].line])
  OBVIOUS
<1>3. (k \in DOMAIN rules /\ Append(rules, r)[k] = rules[k]) \/ Append(rules, r)[k] = r
  OBVIOUS
<1> QED BY <1>1, <1>2, <1>3, Zenon

\* Nothing is read before the first line.
LEMMA ReadInit == Init => RulesRead
  BY DEF Init, RulesRead, AllRead

\* Every line is made into a rule of its own, or into none.
LEMMA ReadNext == PointInv /\ RulesRead /\ [Next]_vars => RulesRead'
<1> SUFFICES ASSUME PointInv, RulesRead, [Next]_vars PROVE RulesRead'
  OBVIOUS
<1>0. Shape /\ PointersLead
  BY DEF PointInv
<1>1. CASE UNCHANGED vars
  BY <1>1 DEF vars, RulesRead, AllRead
<1>2. ASSUME NEW l \in Lines, ReadLine(l) PROVE RulesRead'
  <2>1. Len(text) < MaxLines /\ text' = Append(text, l)
    BY <1>2 DEF ReadLine
  <2>2. AllRead(defaults)
    BY DEF RulesRead
  <2>3. \A a \in DOMAIN arrays : \A s \in DOMAIN arrays[a] : AllRead(arrays[a][s].rules)
    BY DEF RulesRead
  <2> DEFINE Stays(rules) == \A k \in DOMAIN rules :
               rules[k].line \in DOMAIN text' /\ Reading(rules[k], text'[rules[k].line])
  <2>4. \A rules : AllRead(rules) => Stays(rules)
    BY <1>0, <2>1, StillRead
  <2>5. ASSUME Stays(defaults'),
               \A a \in DOMAIN arrays' : \A s \in DOMAIN arrays'[a] : Stays(arrays'[a][s].rules)
        PROVE  RulesRead'
    BY <2>5 DEF RulesRead, AllRead
  <2> HIDE DEF Stays
  <2>6. CASE UNCHANGED <<defaults, arrays, current, sectionMap>>
    BY <2>2, <2>3, <2>4, <2>5, <2>6
  <2>7. ASSUME NEW r \in Rule, NEW d \in Rule, r.line = Len(text) + 1, d.line = Len(text) + 1,
               Reading(r, l), Reading(d, l), AddRule(r, d)
        PROVE  RulesRead'
    <3>1. CASE current = Nil
      <4>1. defaults' = Append(defaults, d) /\ UNCHANGED arrays /\ defaults \in Seq(Rule)
        BY <1>0, <2>7, <3>1 DEF AddRule, Shape
      <4>2. Stays(Append(defaults, d))
        BY <1>0, <2>1, <2>2, <2>7, <4>1, AppendRead DEF Stays
      <4> QED BY <2>3, <2>4, <2>5, <4>1, <4>2
    <3>2. CASE current # Nil
      <4>1. /\ Added(current, r) /\ UNCHANGED defaults
            /\ current \in Pointer /\ Leads(current)
        BY <1>0, <2>7, <3>2 DEF AddRule, Shape, PointersLead
      <4> DEFINE a == current.array
                 i == current.index
      <4>2. a \in DOMAIN arrays /\ i \in DOMAIN arrays[a] /\ AllRead(arrays[a][i].rules)
        BY <2>3, <4>1 DEF Leads
      <4>3. /\ DOMAIN arrays' = DOMAIN arrays
            /\ \A b \in DOMAIN arrays \ {a} : arrays'[b] = arrays[b]
            /\ DOMAIN arrays'[a] = DOMAIN arrays[a]
            /\ \A k \in DOMAIN arrays[a] \ {i} : arrays'[a][k] = arrays[a][k]
            /\ arrays[a][i] \in Section
            /\ arrays'[a][i].rules = Append(arrays[a][i].rules, r)
        BY <1>0, <2>7, <4>1, Ruled, Zenon
      <4> HIDE DEF a, i
      <4>4. arrays[a][i].rules \in Seq(Rule)
        BY <4>3 DEF Section
      <4>5. Stays(arrays'[a][i].rules)
        BY <1>0, <2>1, <2>7, <4>2, <4>3, <4>4, AppendRead DEF Stays
      <4>6. ASSUME NEW b \in DOMAIN arrays', NEW k \in DOMAIN arrays'[b]
            PROVE  Stays(arrays'[b][k].rules)
        <5>1. CASE b = a /\ k = i
          BY <4>5, <5>1
        <5>2. CASE ~(b = a /\ k = i)
          <6>1. b \in DOMAIN arrays /\ k \in DOMAIN arrays[b] /\ arrays'[b][k] = arrays[b][k]
            BY <4>3, <5>2
          <6> QED BY <2>3, <2>4, <6>1
        <5> QED BY <5>1, <5>2
      <4>7. Stays(defaults')
        BY <2>2, <2>4, <4>1
      <4> QED BY <2>5, <4>6, <4>7
    <3> QED BY <3>1, <3>2
  <2>8. ASSUME l.kind = "header", l.name # NoName, OpenSection(l) PROVE RulesRead'
    <3>1. CASE sectionMap[l.name] # Nil
      <4>1. UNCHANGED <<arrays, defaults>>
        BY <2>8, <3>1 DEF OpenSection
      <4> QED BY <2>2, <2>3, <2>4, <2>5, <4>1
    <3>2. CASE sectionMap[l.name] = Nil
      <4> DEFINE new == ParsedSection(l)
                 top == Len(arrays')
      <4>1. new \in Section /\ new.rules = <<>>
        BY <2>8, NewSection
      <4>2. arrays' = Grown(new) /\ UNCHANGED defaults
        BY <2>8, <3>2 DEF OpenSection
      <4> HIDE DEF new
      <4>3. /\ arrays' \in Seq(Seq(Section)) /\ top # 0
            /\ top = Len(arrays) \/ top = Len(arrays) + 1
            /\ arrays'[top] = Append(Sections, new)
            /\ \A a \in DOMAIN arrays \ {top} : arrays'[a] = arrays[a]
        BY <1>0, <4>1, <4>2, Appended
      <4>4. /\ Sections \in Seq(Section) /\ Len(arrays) \in Nat /\ DOMAIN arrays = 1 .. Len(arrays)
            /\ DOMAIN arrays' = 1 .. top /\ top \in Nat
        BY <1>0, <4>3, Shown
      <4>5. \A s \in DOMAIN Sections : AllRead(Sections[s].rules)
        <5>1. CASE Len(arrays) = 0
          BY <1>0, <5>1, Shown
        <5>2. CASE Len(arrays) # 0
          <6>1. Sections = arrays[Len(arrays)] /\ Len(arrays) \in DOMAIN arrays
            BY <1>0, <4>4, <5>2, Shown
          <6> QED BY <2>3, <6>1
        <5> QED BY <5>1, <5>2
      <4> HIDE DEF top, Sections
      <4>6. ASSUME NEW a \in DOMAIN arrays', NEW s \in DOMAIN arrays'[a]
            PROVE  Stays(arrays'[a][s].rules)
        <5>1. CASE a # top
          <6>2. a \in 1 .. top /\ top \in {Len(arrays), Len(arrays) + 1}
            BY <4>3, <4>4
          <6>4. PICK L \in Nat : L = Len(arrays)
            BY <4>4, Zenon
          <6>5. PICK t \in Nat : t = top
            BY <4>4, Zenon
          <6>6. a \in 1 .. L
            <7>1. a \in 1 .. t /\ t \in {L, L + 1} /\ a # t
              BY <5>1, <6>2, <6>4, <6>5, Zenon
            <7> QED BY <7>1
          <6>3. a \in DOMAIN arrays
            BY <4>4, <6>4, <6>6, Zenon
          <6>1. a \in DOMAIN arrays /\ arrays'[a] = arrays[a]
            BY <4>3, <5>1, <6>3
          <6> QED BY <2>3, <2>4, <6>1
        <5>2. CASE a = top
          <6>1. s \in DOMAIN Append(Sections, new)
            BY <4>3, <5>2
          <6>2. \/ s \in DOMAIN Sections /\ Append(Sections, new)[s] = Sections[s]
                \/ Append(Sections, new)[s] = new
            BY <4>1, <4>4, <6>1
          <6>3. \/ s \in DOMAIN Sections /\ arrays'[a][s] = Sections[s]
                \/ arrays'[a][s] = new
            BY <4>3, <5>2, <6>2
          <6>4. Stays(<<>>)
            BY DEF Stays
          <6> QED BY <2>4, <4>1, <4>5, <6>3, <6>4
        <5> QED BY <5>1, <5>2
      <4>7. Stays(defaults')
        BY <2>2, <2>4, <4>2
      <4> QED BY <2>5, <4>6, <4>7
    <3> QED BY <3>1, <3>2
  <2>9. Len(text) + 1 \in Nat
    BY <1>0, <2>1, OneMore
  <2>10. ASSUME l.kind = "header",
                AddRule(MisreadHeader(l, Len(text) + 1), MisreadDefault(Len(text) + 1))
         PROVE  RulesRead'
    <3> DEFINE r == MisreadHeader(l, Len(text) + 1)
               d == MisreadDefault(Len(text) + 1)
    <3>1. r \in Rule /\ d \in Rule /\ r.line = Len(text) + 1 /\ d.line = Len(text) + 1
      BY <2>9, <2>10, NewRules
    <3>2. Reading(r, l) /\ Reading(d, l)
      BY <2>10, <3>1 DEF Reading
    <3> HIDE DEF r, d
    <3>3. AddRule(r, d)
      BY <2>10 DEF r, d
    <3> QED BY <2>7, <3>1, <3>2, <3>3
  <2>11. ASSUME l.kind = "rule",
                AddRule(ParsedRule(l, Len(text) + 1), ParsedRule(l, Len(text) + 1))
         PROVE  RulesRead'
    <3> DEFINE r == ParsedRule(l, Len(text) + 1)
    <3>1. r \in Rule /\ r.line = Len(text) + 1
      BY <2>9, <2>11, NewRules
    <3>2. Reading(r, l)
      BY <2>11, <3>1 DEF Reading
    <3> HIDE DEF r
    <3>3. AddRule(r, r)
      BY <2>11 DEF r
    <3> QED BY <2>7, <3>1, <3>2, <3>3
  <2> QED BY <1>2, <2>6, <2>8, <2>10, <2>11 DEF ReadLine
<1> QED BY <1>1, <1>2 DEF Next

-----------------------------------------------------------------------------
(* One file.                                                               *)

\* The slice shows sections whose rules are those of their lines.
LEMMA SectionsRead ==
    ASSUME PointInv, RulesRead, NEW k \in DOMAIN Sections
    PROVE  /\ Sections[k] \in Section
           /\ Sections[k].rules \in Seq(Rule) /\ AllRead(Sections[k].rules)
<1>1. Sections \in Seq(Section) /\ Len(arrays) \in Nat /\ DOMAIN arrays = 1 .. Len(arrays)
  BY Shown DEF PointInv
<1>2. Sections[k] \in Section
  <2> HIDE DEF Sections
  <2> QED BY <1>1
<1>3. Len(arrays) # 0
  BY Shown DEF PointInv
<1>4. Sections = arrays[Len(arrays)] /\ Len(arrays) \in DOMAIN arrays
  BY <1>1, <1>3, Shown DEF PointInv
<1>5. AllRead(Sections[k].rules)
  BY <1>4 DEF RulesRead
<1> QED BY <1>2, <1>5 DEF Section

\* What a list of rules asks for.
LEMMA Decides ==
    ASSUME PointInv, NEW rules \in Seq(Rule), AllRead(rules), NEW sectionOwners,
           NEW path, Matched(rules, path) # {}
    PROVE  LET o == Ownership(rules, sectionOwners, path)
           IN  /\ o.active = 0 => o.demand = NoDemand
               /\ o.active # 0 =>
                    \E i \in DOMAIN rules :
                      /\ o.active = rules[i].line /\ rules[i].line \in DOMAIN text
                      /\ rules[i].pattern # Unmatchable
                      /\ o.demand = IF rules[i].exclusion THEN NoDemand
                                    ELSE DemandOf(rules[i], sectionOwners)
<1> DEFINE hits == Matched(rules, path)
           m == Max(hits)
           o == Ownership(rules, sectionOwners, path)
           freed == \E i \in hits : rules[i].exclusion
<1>1. /\ m \in hits
      /\ o.active = IF freed /\ ~rules[m].exclusion THEN 0 ELSE rules[m].line
      /\ o.demand = IF freed THEN NoDemand ELSE DemandOf(rules[m], sectionOwners)
  BY LastMatch
<1>2. hits \subseteq DOMAIN rules
  BY DEF Matched
<1>3. \A i \in DOMAIN rules : rules[i].line \in DOMAIN text /\ rules[i].line # 0
  <2>1. text \in Seq(Lines)
    BY DEF PointInv, Shape
  <2> QED BY <2>1 DEF AllRead
<1>5. rules[m].pattern # Unmatchable
  BY <1>1 DEF Matched, MatchesPattern
<1> HIDE DEF hits, m, o
<1>4. rules[m].exclusion => freed
  BY <1>1
<1> QED BY <1>1, <1>2, <1>3, <1>4, <1>5 DEF hits, m, o

\* The later of two rules that match takes precedence, and an exclusion frees
\* a file for good: one list of rules.
THEOREM LaterRulesDecide == Spec => []LastMatchDecides
<1>1. PointInv /\ RulesRead => LastMatchDecides
  <2> SUFFICES ASSUME PointInv, RulesRead,
                      NEW s \in Range(Sections) \cup {[rules |-> defaults, owners |-> <<>>]},
                      NEW f \in DOMAIN Changed, Matched(s.rules, Changed[f]) # {}
               PROVE  LET hits == Matched(s.rules, Changed[f])
                          last == s.rules[Max(hits)]
                          o == Ownership(s.rules, s.owners, Changed[f])
                          freed == \E i \in hits : s.rules[i].exclusion
                      IN  /\ o.demand = IF freed THEN NoDemand ELSE DemandOf(last, s.owners)
                          /\ o.active # 0 <=> (freed => last.exclusion)
                          /\ o.active # 0 => o.active = last.line
    BY DEF LastMatchDecides
  <2>1. s.rules \in Seq(Rule) /\ AllRead(s.rules)
    <3>1. CASE s \in Range(Sections)
      <4>1. PICK k \in DOMAIN Sections : s = Sections[k]
        BY <3>1 DEF Range
      <4> QED BY <4>1, SectionsRead
    <3>2. CASE s = [rules |-> defaults, owners |-> <<>>]
      BY <3>2 DEF PointInv, Shape, RulesRead
    <3> QED BY <3>1, <3>2
  <2> DEFINE hits == Matched(s.rules, Changed[f])
             m == Max(hits)
             o == Ownership(s.rules, s.owners, Changed[f])
             freed == \E i \in hits : s.rules[i].exclusion
  <2>2. /\ m \in hits
        /\ o.active = IF freed /\ ~s.rules[m].exclusion THEN 0 ELSE s.rules[m].line
        /\ o.demand = IF freed THEN NoDemand ELSE DemandOf(s.rules[m], s.owners)
    BY <2>1, LastMatch
  <2>3. s.rules[m].line # 0
    <3>1. text \in Seq(Lines) /\ m \in DOMAIN s.rules
      BY <2>2 DEF PointInv, Shape, Matched
    <3> HIDE DEF m
    <3> QED BY <2>1, <3>1 DEF AllRead
  <2> HIDE DEF hits, m, o, freed
  <2> QED BY <2>2, <2>3 DEF hits, m, o, freed
<1> QED BY <1>1, PointInit, PointNext, ReadInit, ReadNext, PTL DEF Spec

-----------------------------------------------------------------------------
(* Groups.                                                                 *)

\* The rules a name may stand for.
Source(n, s) == (HasSection(n) /\ s = Sections[SectionIndex(n)]) \/ s = DefaultSection

\* What a file needs when this rule decides.
Asked(s, r) ==
    LET d == IF r.exclusion THEN NoDemand ELSE DemandOf(r, s.owners)
    IN  [active |-> r.line, demand |-> d, optional |-> s.optional,
         required |-> IF d.usedDefault THEN s.required ELSE 1]

\* The section of a name has that name.
LEMMA SectionFound ==
    ASSUME NEW n, HasSection(n)
    PROVE  SectionIndex(n) \in DOMAIN Sections /\ Sections[SectionIndex(n)].name = n
  BY Zenon DEF HasSection, SectionIndex

\* The sources of a name are lists of rules.
LEMMA SourceRead ==
    ASSUME PointInv, RulesRead, NEW n, NEW s, Source(n, s)
    PROVE  s.rules \in Seq(Rule) /\ AllRead(s.rules)
<1>1. CASE HasSection(n) /\ s = Sections[SectionIndex(n)]
  BY <1>1, SectionFound, SectionsRead
<1>2. CASE s = DefaultSection
  <2>1. s.rules = defaults
    BY <1>2 DEF DefaultSection
  <2> QED BY <2>1 DEF PointInv, Shape, RulesRead
<1> QED BY <1>1, <1>2 DEF Source

\* What a name with a match asks for is asked for by one of its rules, the one
\* whose line is active; if none is, nobody is asked.
LEMMA OwnersKnown ==
    ASSUME PointInv, RulesRead, NEW path, NEW n \in OwnedUnder(path)
    PROVE  LET o == OwnersForFile(n, path)
           IN  /\ o.active = 0 => o.demand = NoDemand
               /\ o.active # 0 =>
                    \E s : Source(n, s) /\ \E i \in DOMAIN s.rules :
                      /\ o.active = s.rules[i].line /\ s.rules[i].line \in DOMAIN text
                      /\ s.rules[i].pattern # Unmatchable
                      /\ o = Asked(s, s.rules[i])
<1>1. PICK s : s = IF SectionMatches(n, path) THEN Sections[SectionIndex(n)] ELSE DefaultSection
  OBVIOUS
<1>2. Source(n, s) /\ Matched(s.rules, path) # {}
  <2>1. CASE SectionMatches(n, path)
    BY <1>1, <2>1 DEF SectionMatches, Source
  <2>2. CASE ~SectionMatches(n, path)
    BY <1>1, <2>2 DEF OwnedUnder, Source, DefaultSection
  <2> QED BY <2>1, <2>2
<1>3. s.rules \in Seq(Rule) /\ AllRead(s.rules)
  BY <1>2, SourceRead
<1> DEFINE o == Ownership(s.rules, s.owners, path)
<1>4. OwnersForFile(n, path) = Asks(s, o)
  BY <1>1 DEF OwnersForFile, AskedBy
<1>5. /\ o.active = 0 => o.demand = NoDemand
      /\ o.active # 0 =>
           \E i \in DOMAIN s.rules :
             /\ o.active = s.rules[i].line /\ s.rules[i].line \in DOMAIN text
             /\ s.rules[i].pattern # Unmatchable
             /\ o.demand = IF s.rules[i].exclusion THEN NoDemand
                           ELSE DemandOf(s.rules[i], s.owners)
  BY <1>2, <1>3, Decides
<1> HIDE DEF o
<1> QED BY <1>2, <1>4, <1>5 DEF Asked, Asks

\* The default rules stand above the first header; a section is as its first
\* header has it, and its rules stand under one.
LEMMA SourceIs ==
    ASSUME ParsedAsWritten, NEW n, NEW s, Source(n, s), NEW j \in DOMAIN s.rules
    PROVE  IF HeaderOf(s.rules[j].line) = 0 THEN s = DefaultSection
           ELSE s # DefaultSection /\ AsHeader(s, text[FirstHeader(n)])
<1>1. \A rules, lines : RulesOf(rules, lines) => \A k \in DOMAIN rules : rules[k].line \in lines
  BY DEF RulesOf
<1>2. ASSUME s = DefaultSection PROVE HeaderOf(s.rules[j].line) = 0
  <2> DEFINE lines == {l \in DOMAIN text : IsRule(l) /\ HeaderOf(l) = 0}
  <2>1. RulesOf(s.rules, lines)
    BY <1>2 DEF ParsedAsWritten, DefaultSection
  <2>2. s.rules[j].line \in lines
    BY <1>1, <2>1
  <2> QED BY <2>2
<1>3. ASSUME s # DefaultSection
      PROVE  HeaderOf(s.rules[j].line) # 0 /\ AsHeader(s, text[FirstHeader(n)])
  <2>1. /\ s = Sections[SectionIndex(n)] /\ SectionIndex(n) \in DOMAIN Sections
        /\ Sections[SectionIndex(n)].name = n
    BY <1>3, SectionFound DEF Source
  <2> DEFINE lines == {l \in LinesUnder(n) : Kept(n, l)}
  <2>2. RulesOf(s.rules, lines) /\ AsHeader(s, text[FirstHeader(n)])
    BY <2>1, Zenon DEF ParsedAsWritten
  <2>3. s.rules[j].line \in lines
    BY <1>1, <2>2
  <2> QED BY <2>2, <2>3 DEF LinesUnder
<1> QED BY <1>2, <1>3

\* A line is the line of one rule among those a name may stand for.
LEMMA OneSource ==
    ASSUME ParsedAsWritten, NEW n, NEW s1, NEW s2, Source(n, s1), Source(n, s2),
           NEW i \in DOMAIN s1.rules, NEW k \in DOMAIN s2.rules,
           s1.rules[i].line = s2.rules[k].line,
           DOMAIN s1.rules \subseteq Int, s1.rules[i].line \in Int
    PROVE  s1 = s2 /\ s1.rules[i] = s2.rules[k]
<1>3. \E lines : RulesOf(s1.rules, lines)
  <2>1. CASE s1 = DefaultSection
    BY <2>1 DEF ParsedAsWritten, DefaultSection
  <2>2. CASE HasSection(n) /\ s1 = Sections[SectionIndex(n)]
    BY <2>2, SectionFound, Zenon DEF ParsedAsWritten
  <2> QED BY <2>1, <2>2 DEF Source
<1>4. s1 = s2
  <2>1. s1 = DefaultSection <=> HeaderOf(s1.rules[i].line) = 0
    BY SourceIs
  <2>2. s2 = DefaultSection <=> HeaderOf(s2.rules[k].line) = 0
    BY SourceIs
  <2> QED BY <2>1, <2>2 DEF Source
<1>5. PICK lines : RulesOf(s1.rules, lines)
  BY <1>3
<1>6. i = k
  <2>1. PICK l \in Int : l = s1.rules[i].line /\ l = s1.rules[k].line
    BY <1>4
  <2>2. ~(l < l)
    BY <2>1
  <2>3. ~(i < k) /\ ~(k < i)
    BY <1>4, <1>5, <2>1, <2>2, Zenon DEF RulesOf
  <2>4. i \in Int /\ k \in Int
    BY <1>4
  <2>5. \A x, y \in Int : x < y \/ y < x \/ x = y
    OBVIOUS
  <2> QED BY <2>3, <2>4, <2>5, Zenon
<1> QED BY <1>4, <1>6

\* A file of a group is asked for what the rule of the group's line asks for.
LEMMA FileOfGroup ==
    ASSUME PointInv, RulesRead, NEW g \in GroupKeys, NEW k \in FilesOf(g)
    PROVE  /\ k \in DOMAIN Changed /\ g[1] \in OwnedUnder(Changed[k]) /\ g[2] \in DOMAIN text
           /\ OwnersForFile(g[1], Changed[k]).active = g[2]
           /\ \E s : Source(g[1], s) /\ \E i \in DOMAIN s.rules :
                /\ g[2] = s.rules[i].line /\ s.rules[i].pattern # Unmatchable
                /\ OwnersForFile(g[1], Changed[k]) = Asked(s, s.rules[i])
<1>1. k \in DOMAIN Changed /\ g \in ActiveIn(Changed[k]) /\ g[2] # 0
  BY DEF FilesOf, GroupKeys
<1>2. PICK n \in OwnedUnder(Changed[k]) : g = <<n, OwnersForFile(n, Changed[k]).active>>
  BY <1>1 DEF ActiveIn
<1>3. g[1] = n /\ g[2] = OwnersForFile(n, Changed[k]).active
  BY <1>2
<1>4. PICK s : /\ Source(n, s)
               /\ \E i \in DOMAIN s.rules :
                    /\ OwnersForFile(n, Changed[k]).active = s.rules[i].line
                    /\ s.rules[i].line \in DOMAIN text
                    /\ s.rules[i].pattern # Unmatchable
                    /\ OwnersForFile(n, Changed[k]) = Asked(s, s.rules[i])
  BY <1>1, <1>3, OwnersKnown
<1> QED BY <1>1, <1>3, <1>4, Zenon

\* The files of a group all ask for the same.
LEMMA FilesAgree ==
    ASSUME PointInv, RulesRead, ParsedAsWritten, NEW g \in GroupKeys,
           NEW j \in FilesOf(g), NEW k \in FilesOf(g)
    PROVE  OwnersForFile(g[1], Changed[j]) = OwnersForFile(g[1], Changed[k])
<1>1. PICK s1 : Source(g[1], s1) /\ \E i \in DOMAIN s1.rules :
                  /\ g[2] = s1.rules[i].line
                  /\ OwnersForFile(g[1], Changed[j]) = Asked(s1, s1.rules[i])
  BY FileOfGroup
<1>2. PICK i1 \in DOMAIN s1.rules :
             /\ g[2] = s1.rules[i1].line
             /\ OwnersForFile(g[1], Changed[j]) = Asked(s1, s1.rules[i1])
  BY <1>1
<1>3. PICK s2 : Source(g[1], s2) /\ \E i \in DOMAIN s2.rules :
                  /\ g[2] = s2.rules[i].line
                  /\ OwnersForFile(g[1], Changed[k]) = Asked(s2, s2.rules[i])
  BY FileOfGroup
<1>4. PICK i2 \in DOMAIN s2.rules :
             /\ g[2] = s2.rules[i2].line
             /\ OwnersForFile(g[1], Changed[k]) = Asked(s2, s2.rules[i2])
  BY <1>3
<1>5. DOMAIN s1.rules \subseteq Int /\ s1.rules[i1].line \in Int
  <2>1. s1.rules \in Seq(Rule)
    BY <1>1, SourceRead
  <2>2. s1.rules[i1] \in Rule
    BY <2>1
  <2>3. DOMAIN s1.rules \subseteq Int
    BY <2>1
  <2>4. \A r \in Rule : r.line \in Int
    BY DEF Rule
  <2> QED BY <2>2, <2>3, <2>4, Zenon
<1>6. s1 = s2 /\ s1.rules[i1] = s2.rules[i2]
  <2>1. s1.rules[i1].line = s2.rules[i2].line
    BY <1>2, <1>4, Zenon
  <2>2. Source(g[1], s1) /\ Source(g[1], s2)
    BY <1>1, <1>3, Zenon
  <2> QED BY <1>5, <2>1, <2>2, OneSource
<1> QED BY <1>2, <1>4, <1>6

\* A group has a first file.
LEMMA FirstOfGroup ==
    ASSUME NEW g \in GroupKeys
    PROVE  Min(FilesOf(g)) \in FilesOf(g)
<1> DEFINE files == FilesOf(g)
<1>1. files \subseteq Nat
  <2>1. DOMAIN Changed = 1 .. Len(Diffs) /\ Len(Diffs) \in Nat
    BY DiffAssumption DEF Changed
  <2> QED BY <2>1 DEF FilesOf
<1>2. files # {}
  BY DEF GroupKeys, FilesOf
<1> HIDE DEF files
<1>3. PICK m \in files : \A k \in files : m <= k
  BY <1>1, <1>2, NatLeast
<1>4. files \subseteq Int
  BY <1>1
<1>5. Min(files) = m
  BY <1>3, <1>4, MinIs, Zenon
<1> QED BY <1>3, <1>5 DEF files

\* A group takes what it asks for from its first file, and all its files ask
\* for the same; every file with owners is in a group.
THEOREM GroupsAreFair == Spec => []GroupsSpeakForTheirFiles
<1>1. PointInv /\ RulesRead /\ ParsedAsWritten => GroupsSpeakForTheirFiles
  <2> SUFFICES ASSUME PointInv, RulesRead, ParsedAsWritten PROVE GroupsSpeakForTheirFiles
    OBVIOUS
  <2>1. ASSUME NEW g \in GroupKeys, NEW k \in FilesOf(g)
        PROVE  AsksTheSame(PatternGroup(g), OwnersForFile(g[1], Changed[k]))
    <3>1. OwnersForFile(g[1], FirstFile(g)) = OwnersForFile(g[1], Changed[k])
      BY FirstOfGroup, FilesAgree DEF FirstFile
    <3> QED BY <3>1 DEF PatternGroup, GroupOf, AsksTheSame
  <2>2. ASSUME NEW k \in DOMAIN Changed, NEW n \in OwnedUnder(Changed[k]),
               OwnersForFile(n, Changed[k]).demand.owners # <<>>
        PROVE  \E g \in GroupKeys : g[1] = n /\ k \in FilesOf(g)
    <3> DEFINE a == OwnersForFile(n, Changed[k]).active
    <3>1. a # 0
      <4>1. NoDemand.owners = <<>>
        BY DEF NoDemand, Demand
      <4> QED BY <2>2, <4>1, OwnersKnown
    <3>2. <<n, a>> \in ActiveIn(Changed[k])
      BY DEF ActiveIn
    <3> HIDE DEF a
    <3>3. <<n, a>> \in GroupKeys /\ k \in FilesOf(<<n, a>>) /\ <<n, a>>[1] = n
      BY <3>1, <3>2 DEF GroupKeys, FilesOf
    <3> QED BY <3>3, Zenon
  <2> QED BY <2>1, <2>2 DEF GroupsSpeakForTheirFiles
<1> QED BY <1>1, PointInit, PointNext, ReadInit, ReadNext, ParserReads, PTL DEF Spec

\* What a group asks for.
LEMMA GroupAsks ==
    ASSUME PointInv, RulesRead, NEW g \in GroupKeys
    PROVE  \E s : Source(g[1], s) /\ \E i \in DOMAIN s.rules :
             LET r == s.rules[i]
                 o == Asked(s, r)
             IN  /\ PatternGroup(g) = [exclusion |-> r.exclusion, owners |-> o.demand.owners,
                                       auto |-> o.demand.auto, optional |-> o.optional,
                                       required |-> o.required]
                 /\ r \in Rule /\ r.line = g[2]
                 /\ text[g[2]].kind = "rule" /\ r = ParsedRule(text[g[2]], r.line)
<1>1. PICK k \in FilesOf(g) : FirstFile(g) = Changed[k]
  BY FirstOfGroup DEF FirstFile
<1>2. PICK s : Source(g[1], s) /\ \E i \in DOMAIN s.rules :
                 /\ g[2] = s.rules[i].line /\ s.rules[i].pattern # Unmatchable
                 /\ OwnersForFile(g[1], Changed[k]) = Asked(s, s.rules[i])
  BY FileOfGroup
<1>3. PICK i \in DOMAIN s.rules :
             /\ g[2] = s.rules[i].line /\ s.rules[i].pattern # Unmatchable
             /\ OwnersForFile(g[1], Changed[k]) = Asked(s, s.rules[i])
  BY <1>2
<1>4. s.rules \in Seq(Rule) /\ AllRead(s.rules)
  BY <1>2, SourceRead
<1>5. s.rules[i] \in Rule
  BY <1>4
<1>6. /\ text[g[2]].kind = "rule" /\ s.rules[i] = ParsedRule(text[g[2]], s.rules[i].line)
      /\ (text[g[2]].kind = "rule" /\ text[g[2]].exclusion) = s.rules[i].exclusion
  <2> DEFINE l == text[g[2]]
             r == s.rules[i]
  <2>1. Reading(r, l) /\ g[2] \in DOMAIN text
    BY <1>3, <1>4 DEF AllRead
  <2>2. l \in Lines
    BY <2>1 DEF PointInv, Shape
  <2> HIDE DEF l, r
  <2>3. \A x, y : MisreadHeader(x, y).pattern = Unmatchable /\ MisreadDefault(y).pattern = Unmatchable
    BY DEF MisreadHeader, MisreadDefault
  <2>4. l.kind = "rule" /\ r = ParsedRule(l, r.line)
    BY <1>3, <2>1, <2>3 DEF Reading, r
  <2>5. l.exclusion \in BOOLEAN
    BY <2>2, <2>4, LineAssumption
  <2>6. \A x, y : ParsedRule(x, y).exclusion = x.exclusion
    BY DEF ParsedRule
  <2>7. r.exclusion = l.exclusion
    BY <2>4, <2>6
  <2>8. (l.kind = "rule" /\ l.exclusion) = l.exclusion
    BY <2>4, <2>5
  <2> QED BY <2>4, <2>7, <2>8, Zenon DEF l, r
<1>7. OwnersForFile(g[1], Changed[k]).active = g[2]
  BY FileOfGroup
<1> QED BY <1>1, <1>2, <1>3, <1>5, <1>6, <1>7 DEF PatternGroup, GroupOf

\* A rule asks for members, or expressly for nobody.
LEMMA DemandsMembers ==
    ASSUME NEW r, NEW sectionOwners
    PROVE  LET d == DemandOf(r, sectionOwners)
           IN  /\ \A i \in DOMAIN d.owners : Accessible(d.owners[i])
               /\ d.auto <=> d.owners = <<>>
<1> DEFINE Members(owners) == \A i \in DOMAIN owners : Accessible(owners[i])
           own == ValidOwners(r.owners)
           valid == ValidOwners(sectionOwners)
           d == DemandOf(r, sectionOwners)
<1>1. Members(own) /\ Members(valid) /\ Members(<<>>)
  <2>1. \A owners : Members(ValidOwners(owners))
    BY DEF ValidOwners, Restrict
  <2> QED BY <2>1
<1>2. \/ d = Demand(<<>>, TRUE, FALSE)
      \/ own # <<>> /\ d = Demand(own, FALSE, FALSE)
      \/ d = Demand(valid, valid = <<>>, TRUE)
  <2> HIDE DEF own, valid
  <2> QED BY DEF DemandOf, ZeroOwners, own, valid
<1> HIDE DEF own, valid, d, Members
<1>3. CASE d = Demand(<<>>, TRUE, FALSE)
  BY <1>1, <1>3 DEF Demand, d, Members
<1>4. CASE own # <<>> /\ d = Demand(own, FALSE, FALSE)
  BY <1>1, <1>4 DEF Demand, d, Members
<1>5. CASE d = Demand(valid, valid = <<>>, TRUE)
  <2>1. \A b : Demand(valid, b, TRUE).owners = valid /\ Demand(valid, b, TRUE).auto = b
    BY DEF Demand
  <2>2. d.owners = valid /\ d.auto = (valid = <<>>)
    BY <1>5, <2>1
  <2>3. d.auto <=> d.owners = <<>>
    BY <2>2
  <2> QED BY <1>1, <2>2, <2>3 DEF d, Members
<1> QED BY <1>2, <1>3, <1>4, <1>5

\* Nobody who is not a member is ever asked for; a group without owners is an
\* exclusion or approved of itself.
LEMMA MembersAsked ==
    ASSUME PointInv, RulesRead, NEW g \in GroupKeys
    PROVE  LET p == PatternGroup(g)
           IN  /\ \A i \in DOMAIN p.owners : Accessible(p.owners[i])
               /\ p.auto => p.owners = <<>>
               /\ ~p.auto /\ ~p.exclusion => p.owners # <<>>
<1>1. PICK s : \E i \in DOMAIN s.rules :
             LET r == s.rules[i]
                 o == Asked(s, r)
             IN  PatternGroup(g) = [exclusion |-> r.exclusion, owners |-> o.demand.owners,
                                    auto |-> o.demand.auto, optional |-> o.optional,
                                    required |-> o.required]
  BY GroupAsks
<1>2. PICK i \in DOMAIN s.rules :
             LET r == s.rules[i]
                 o == Asked(s, r)
             IN  PatternGroup(g) = [exclusion |-> r.exclusion, owners |-> o.demand.owners,
                                    auto |-> o.demand.auto, optional |-> o.optional,
                                    required |-> o.required]
  BY <1>1
<1> DEFINE r == s.rules[i]
           d == DemandOf(r, s.owners)
<1>3. /\ \A j \in DOMAIN d.owners : Accessible(d.owners[j])
      /\ d.auto <=> d.owners = <<>>
  BY DemandsMembers
<1>4. Asked(s, r).demand = IF r.exclusion THEN NoDemand ELSE d
  BY DEF Asked
<1>5. NoDemand.owners = <<>> /\ ~NoDemand.auto
  BY DEF NoDemand, Demand
<1> HIDE DEF d
<1> QED BY <1>2, <1>3, <1>4, <1>5

\* What the file says of a group: its line and the first header of its name.
LineAsks(g, l, first) ==
    LET p == PatternGroup(g)
        named == ValidOwners(l.owners)
        inherits == named = <<>> /\ ~l.malformed /\ HeaderOf(g[2]) # 0 /\ ~first.malformed
        asked == IF l.exclusion THEN <<>>
                 ELSE IF inherits THEN ValidOwners(first.owners) ELSE named
    IN  /\ p.owners = asked
        /\ p.auto <=> ~l.exclusion /\ asked = <<>>
        /\ asked # <<>> => p.required = IF ~inherits \/ first.count < 1 THEN 1 ELSE first.count

\* That is what the group asks for.
LEMMA LineDecides ==
    ASSUME PointInv, RulesRead, ParsedAsWritten, NEW g \in GroupKeys
    PROVE  LineAsks(g, text[g[2]], text[FirstHeader(g[1])])
<1>1. PICK s : Source(g[1], s) /\ \E i \in DOMAIN s.rules :
             LET r == s.rules[i]
                 o == Asked(s, r)
             IN  /\ PatternGroup(g) = [exclusion |-> r.exclusion, owners |-> o.demand.owners,
                                       auto |-> o.demand.auto, optional |-> o.optional,
                                       required |-> o.required]
                 /\ r \in Rule /\ r.line = g[2]
                 /\ text[g[2]].kind = "rule" /\ r = ParsedRule(text[g[2]], r.line)
  BY GroupAsks
<1>2. PICK i \in DOMAIN s.rules :
             LET r == s.rules[i]
                 o == Asked(s, r)
             IN  /\ PatternGroup(g) = [exclusion |-> r.exclusion, owners |-> o.demand.owners,
                                       auto |-> o.demand.auto, optional |-> o.optional,
                                       required |-> o.required]
                 /\ r \in Rule /\ r.line = g[2]
                 /\ text[g[2]].kind = "rule" /\ r = ParsedRule(text[g[2]], r.line)
  BY <1>1
<1> DEFINE r == s.rules[i]
           l == text[g[2]]
           first == text[FirstHeader(g[1])]
           p == PatternGroup(g)
           own == ValidOwners(r.owners)
           valid == ValidOwners(s.owners)
           d == DemandOf(r, s.owners)
<1>3. /\ r.exclusion = l.exclusion /\ r.owners = l.owners /\ r.malformed = l.malformed
      /\ r.line = g[2]
  BY <1>2 DEF ParsedRule
<1>4. /\ HeaderOf(g[2]) = 0 => s = DefaultSection
      /\ HeaderOf(g[2]) # 0 => AsHeader(s, first)
  BY <1>1, <1>3, SourceIs
<1>5. ValidOwners(<<>>) = <<>>
  BY DEF ValidOwners, Restrict
<1>7. CASE r.exclusion
  <2>1. NoDemand.owners = <<>> /\ NoDemand.auto = FALSE
    BY DEF NoDemand, Demand
  <2>2. p.owners = <<>> /\ p.auto = FALSE
    BY <1>2, <1>7, <2>1 DEF Asked
  <2> HIDE DEF p, l, first
  <2>3. l.exclusion
    BY <1>3, <1>7
  <2> QED BY <2>2, <2>3 DEF LineAsks, p, l, first
<1>8. CASE ~r.exclusion
  <2>1. /\ p.owners = d.owners /\ p.auto = d.auto
        /\ p.required = IF d.usedDefault THEN s.required ELSE 1
    BY <1>2, <1>8 DEF Asked
  <2>2. CASE r.malformed /\ own = <<>>
    <3>1. d = Demand(<<>>, TRUE, FALSE)
      BY <2>2 DEF DemandOf, Broken, ZeroOwners
    <3>2. p.owners = <<>> /\ p.auto = TRUE
      BY <2>1, <3>1 DEF Demand
    <3> HIDE DEF p, l, first, d
    <3> QED BY <1>3, <1>8, <2>2, <3>2 DEF LineAsks, p, l, first
  <2>3. CASE own # <<>>
    <3>1. d = Demand(own, FALSE, FALSE)
      BY <2>3 DEF DemandOf, Broken, ZeroOwners
    <3>2. p.owners = own /\ p.auto = FALSE /\ p.required = 1
      BY <2>1, <3>1 DEF Demand
    <3> HIDE DEF p, l, first, d
    <3> QED BY <1>3, <1>8, <2>3, <3>2 DEF LineAsks, p, l, first
  <2>4. CASE ~r.malformed /\ own = <<>> /\ s.owners = <<>>
    <3>1. d = Demand(<<>>, TRUE, FALSE)
      BY <2>4 DEF DemandOf, Broken, ZeroOwners
    <3>2. p.owners = <<>> /\ p.auto = TRUE
      BY <2>1, <3>1 DEF Demand
    <3>3. HeaderOf(g[2]) # 0 /\ ~first.malformed => ValidOwners(first.owners) = <<>>
      BY <1>4, <1>5, <2>4 DEF AsHeader
    <3> HIDE DEF p, l, first, d
    <3> QED BY <1>3, <1>8, <2>4, <3>2, <3>3 DEF LineAsks, p, l, first
  <2>5. CASE ~r.malformed /\ own = <<>> /\ s.owners # <<>>
    <3>1. d = Demand(valid, valid = <<>>, TRUE)
      BY <2>5 DEF DemandOf, Broken, ZeroOwners
    <3>2. p.owners = valid /\ (p.auto <=> valid = <<>>) /\ p.required = s.required
      <4>1. \A b : Demand(valid, b, TRUE).owners = valid /\ Demand(valid, b, TRUE).auto = b
                   /\ Demand(valid, b, TRUE).usedDefault
        BY DEF Demand
      <4> HIDE DEF d, valid, p
      <4> QED BY <2>1, <3>1, <4>1
    <3>3. HeaderOf(g[2]) # 0
      BY <1>4, <2>5 DEF DefaultSection
    <3>4. /\ ~first.malformed /\ valid = ValidOwners(first.owners)
          /\ s.required = IF first.count < 1 THEN 1 ELSE first.count
      BY <1>4, <2>5, <3>3 DEF AsHeader
    <3> HIDE DEF p, l, first, d, valid
    <3> QED BY <1>3, <1>8, <2>5, <3>2, <3>3, <3>4 DEF LineAsks, p, l, first
  <2> HIDE DEF r, own
  <2> QED BY <2>2, <2>3, <2>4, <2>5
<1> QED BY <1>7, <1>8

\* What a group asks for is what its line and its section's first header say:
\* the members the line names or, unless it has a mistake in it, those of the
\* header; nobody only if neither names one.
THEOREM AskedOfTheRight == Spec => []AskedAsWritten
<1>1. PointInv /\ RulesRead /\ ParsedAsWritten => AskedAsWritten
  <2> SUFFICES ASSUME PointInv, RulesRead, ParsedAsWritten, NEW g \in GroupKeys
               PROVE  LineAsks(g, text[g[2]], text[FirstHeader(g[1])])
    BY DEF AskedAsWritten, LineAsks
  <2> QED BY LineDecides
<1> QED BY <1>1, PointInit, PointNext, ReadInit, ReadNext, ParserReads, PTL DEF Spec

-----------------------------------------------------------------------------
(* Approvals.                                                              *)

\* Finitely many owners of known kinds, at their places.
OwnersListed(owners) ==
    /\ IsFiniteSet(DOMAIN owners)
    /\ \A i \in DOMAIN owners :
         /\ owners[i].kind \in {"user", "email", "role"}
         /\ owners[i].kind = "user" => owners[i] = UserEntry(owners[i].name)

\* The owners of a line, and those of them that are valid.
LEMMA LinesListOwners ==
    ASSUME NEW owners \in OwnerLists
    PROVE  OwnersListed(owners) /\ OwnersListed(ValidOwners(owners))
<1>1. OwnersListed(owners)
  <2>1. CASE owners = <<>>
    <3>1. DOMAIN owners = {}
      BY <2>1
    <3> QED BY <3>1, FS_EmptySet DEF OwnersListed
  <2>2. CASE owners # <<>>
    <3>1. PICK l \in Lines : l.kind # "blank" /\ owners = l.owners
      BY <2>2 DEF OwnerLists
    <3>2. owners \in Seq(Range(owners))
      BY <3>1, LineAssumption
    <3>3. DOMAIN owners = 1 .. Len(owners) /\ Len(owners) \in Nat
      BY <3>2
    <3>4. IsFiniteSet(DOMAIN owners)
      BY <3>3, FS_Interval
    <3> QED BY <3>1, <3>4, OwnerAssumption DEF OwnersListed, UserEntry
  <2> QED BY <2>1, <2>2
<1>2. /\ DOMAIN ValidOwners(owners) \subseteq DOMAIN owners
      /\ \A i \in DOMAIN ValidOwners(owners) : ValidOwners(owners)[i] = owners[i]
  BY DEF ValidOwners, Restrict
<1>3. IsFiniteSet(DOMAIN ValidOwners(owners))
  BY <1>1, <1>2, FS_Subset DEF OwnersListed
<1> QED BY <1>1, <1>2, <1>3 DEF OwnersListed

\* The sources of a name require one approval at least, of such owners.
LEMMA SourceOwners ==
    ASSUME PointInv, RulesRead, NEW n, NEW s, Source(n, s)
    PROVE  s.required \in Nat \ {0} /\ s.owners \in OwnerLists
<1>1. CASE HasSection(n) /\ s = Sections[SectionIndex(n)]
  <2>1. s \in Section
    BY <1>1, SectionFound, SectionsRead
  <2> QED BY <2>1 DEF Section
<1>2. CASE s = DefaultSection
  <2>1. s.required = 1 /\ s.owners = <<>>
    BY <1>2 DEF DefaultSection
  <2> QED BY <2>1 DEF OwnerLists
<1> QED BY <1>1, <1>2 DEF Source

\* A group lists members and requires one approval at least.
LEMMA GroupShape ==
    ASSUME PointInv, RulesRead, NEW p \in Groups
    PROVE  /\ OwnersListed(p.owners) /\ p.required \in Nat \ {0}
           /\ \A i \in DOMAIN p.owners : Accessible(p.owners[i])
           /\ ~p.auto /\ ~p.exclusion => p.owners # <<>>
<1>1. PICK g \in GroupKeys : p = PatternGroup(g)
  BY DEF Groups
<1>2. PICK s : Source(g[1], s) /\ \E i \in DOMAIN s.rules :
             LET r == s.rules[i]
                 o == Asked(s, r)
             IN  /\ PatternGroup(g) = [exclusion |-> r.exclusion, owners |-> o.demand.owners,
                                       auto |-> o.demand.auto, optional |-> o.optional,
                                       required |-> o.required]
                 /\ r \in Rule
  BY GroupAsks
<1>3. PICK i \in DOMAIN s.rules :
             LET r == s.rules[i]
                 o == Asked(s, r)
             IN  /\ PatternGroup(g) = [exclusion |-> r.exclusion, owners |-> o.demand.owners,
                                       auto |-> o.demand.auto, optional |-> o.optional,
                                       required |-> o.required]
                 /\ r \in Rule
  BY <1>2
<1> DEFINE r == s.rules[i]
           d == DemandOf(r, s.owners)
<1>4. r.owners \in OwnerLists /\ s.owners \in OwnerLists /\ s.required \in Nat \ {0}
  BY <1>2, <1>3, SourceOwners DEF Rule
<1>5. OwnersListed(d.owners)
  <2>1. d.owners \in {<<>>, ValidOwners(r.owners), ValidOwners(s.owners)}
    BY DEF DemandOf, Demand
  <2>2. OwnersListed(<<>>)
    BY LinesListOwners DEF OwnerLists
  <2> HIDE DEF d
  <2> QED BY <1>4, <2>1, <2>2, LinesListOwners
<1>6. OwnersListed(NoDemand.owners)
  BY LinesListOwners DEF OwnerLists, NoDemand, Demand
<1>7. /\ Asked(s, r).demand = IF r.exclusion THEN NoDemand ELSE d
      /\ Asked(s, r).required \in {s.required, 1}
  BY DEF Asked
<1> HIDE DEF d
<1>8. OwnersListed(p.owners) /\ p.required \in Nat \ {0}
  BY <1>1, <1>3, <1>4, <1>5, <1>6, <1>7
<1> QED BY <1>1, <1>8, MembersAsked

\* The owners that are found to have approved are finitely many.
LEMMA Counted ==
    ASSUME PointInv, RulesRead, NEW p \in Groups, NEW M \in SUBSET DOMAIN p.owners
    PROVE  IsFiniteSet(M) /\ Cardinality(M) \in Nat
<1>1. IsFiniteSet(DOMAIN p.owners)
  BY GroupShape DEF OwnersListed
<1> QED BY <1>1, FS_Subset, FS_CardinalityType

\* A demanding group that may pass has approvers, as many as it requires if
\* nobody stands for two of its owners.
LEMMA HasApprovers ==
    ASSUME PointInv, RulesRead, NEW approvals \in Approvals, NEW p \in Demanding,
           Enough(Most(p, approvals), p.required)
    PROVE  /\ Approvers(p, approvals) # {}
           /\ Apart(p) => Cardinality(Approvers(p, approvals)) >= p.required
<1> DEFINE M == {i \in DOMAIN p.owners : MayCount(p.owners[i], approvals)}
           A == Approvers(p, approvals)
<1>1. p \in Groups /\ p.required \in Nat \ {0}
  BY GroupShape DEF Demanding
<1>2. IsFiniteSet(M) /\ Cardinality(M) \in Nat /\ Cardinality(M) >= p.required
  BY <1>1, Counted DEF Enough, Most
<1>3. \A i \in M : \E u \in A : Matches(p.owners[i], u)
  BY DEF MayCount, Answers, Approvers
<1>4. A # {}
  <2> HIDE DEF M, A
  <2>1. M # {}
    BY <1>1, <1>2, FS_EmptySet
  <2> QED BY <1>3, <2>1
<1>5. A \subseteq Users /\ IsFiniteSet(A) /\ Cardinality(A) \in Nat
  <2>1. DOMAIN approvals \subseteq Users
    BY DEF Approvals
  <2>2. A \subseteq Users
    BY <2>1 DEF Approvers
  <2> HIDE DEF A
  <2> QED BY <2>2, UserAssumption, FS_Subset, FS_CardinalityType
<1>6. ASSUME Apart(p) PROVE Cardinality(A) >= p.required
  <2> DEFINE f == [i \in M |-> CHOOSE u \in A : Matches(p.owners[i], u)]
  <2>1. M \subseteq DOMAIN p.owners
    OBVIOUS
  <2> HIDE DEF M, A
  <2>2. \A i \in M : f[i] \in A /\ Matches(p.owners[i], f[i])
    <3> SUFFICES ASSUME NEW i \in M PROVE f[i] \in A /\ Matches(p.owners[i], f[i])
      OBVIOUS
    <3>1. \E u \in A : Matches(p.owners[i], u)
      BY <1>3
    <3>2. f[i] = CHOOSE u \in A : Matches(p.owners[i], u)
      OBVIOUS
    <3> HIDE DEF f
    <3> QED BY <3>1, <3>2, Zenon
  <2>3. f \in [M -> A]
    BY <2>2
  <2> HIDE DEF f
  <2>4. ASSUME NEW i \in M, NEW k \in M, f[i] = f[k] PROVE i = k
    <3>1. PICK u \in Users : u = f[i] /\ u = f[k]
      BY <1>5, <2>2, <2>4
    <3>2. Matches(p.owners[i], u) /\ Matches(p.owners[k], u)
      BY <2>2, <3>1, Zenon
    <3>3. i \in DOMAIN p.owners /\ k \in DOMAIN p.owners
      BY <2>1, Zenon
    <3> QED BY <1>6, <3>2, <3>3, Zenon DEF Apart
  <2>5. f \in Injection(M, A)
    BY <2>3, <2>4 DEF Injection, IsInjective
  <2>6. Cardinality(M) <= Cardinality(A)
    BY <1>5, <2>5, FS_Injection
  <2> QED BY <1>1, <1>2, <1>5, <2>6
<1> QED BY <1>4, <1>6

\* The rule passes only if every demanding group has an approval of one of its
\* owners, and as many different approvers as it requires unless somebody
\* stands for two of its owners.
THEOREM NobodyPassesUnapproved == Spec => []PassesHaveApprovers
<1>1. PointInv /\ RulesRead => PassesHaveApprovers
  BY HasApprovers DEF PassesHaveApprovers, MayPass
<1> QED BY <1>1, PointInit, PointNext, ReadInit, ReadNext, PTL DEF Spec

\* An owner may count who is certain to count, or whose members disagree.
LEMMA CertainOrTorn ==
    ASSUME NEW o, o.kind \in {"user", "email", "role"}, NEW approvals \in Approvals
    PROVE  /\ MayCount(o, approvals) <=> MustCount(o, approvals) \/ TwoMinds(o, approvals)
           /\ ~(MustCount(o, approvals) /\ TwoMinds(o, approvals))
<1>1. \A u \in DOMAIN approvals : approvals[u] \in {"approved", "unapproved"}
  BY DEF Approvals
<1> DEFINE who == {u \in DOMAIN approvals : Matches(o, u)}
<1>2. /\ MayCount(o, approvals) <=> \E u \in who : approvals[u] = "approved"
      /\ MustCount(o, approvals) <=> who # {} /\ \A u \in who : approvals[u] = "approved"
  BY DEF MayCount, MustCount, Answers
<1>3. CASE o.kind = "role"
  <2>1. who = {u \in DOMAIN approvals \cap DOMAIN LevelOf : LevelOf[u] = o.level}
    BY <1>3 DEF Matches, RoleMembers
  <2>2. TwoMinds(o, approvals) <=> \E u, v \in who : approvals[u] # approvals[v]
    BY <1>3, <2>1 DEF TwoMinds
  <2>3. \A u \in who : approvals[u] \in {"approved", "unapproved"}
    BY <1>1
  <2> HIDE DEF who
  <2> QED BY <1>2, <2>2, <2>3
<1>4. CASE o.kind # "role"
  <2>1. ~TwoMinds(o, approvals)
    BY <1>4 DEF TwoMinds
  <2>2. \A u, v \in who : u = v
    BY <1>4 DEF Matches
  <2> HIDE DEF who
  <2> QED BY <1>2, <2>1, <2>2
<1> QED BY <1>3, <1>4

\* The order of the map is worth the roles whose members disagree.
LEMMA MostIs ==
    ASSUME PointInv, RulesRead, NEW approvals \in Approvals, NEW p \in Demanding
    PROVE  /\ p.required \in Nat /\ Least(p, approvals) \in Nat
           /\ Cardinality(Torn(p, approvals)) \in Nat
           /\ Most(p, approvals) = Least(p, approvals) + Cardinality(Torn(p, approvals))
<1> DEFINE May == {i \in DOMAIN p.owners : MayCount(p.owners[i], approvals)}
           Must == {i \in DOMAIN p.owners : MustCount(p.owners[i], approvals)}
           T == Torn(p, approvals)
<1>1. p \in Groups /\ OwnersListed(p.owners) /\ p.required \in Nat
  BY GroupShape DEF Demanding
<1>2. May = Must \cup T /\ Must \cap T = {}
  BY <1>1, CertainOrTorn DEF OwnersListed, Torn
<1>3. Must \in SUBSET DOMAIN p.owners /\ T \in SUBSET DOMAIN p.owners
  BY DEF Torn
<1>4. Most(p, approvals) = Cardinality(May) /\ Least(p, approvals) = Cardinality(Must)
  BY DEF Most, Least
<1> HIDE DEF May, Must, T
<1>5. /\ IsFiniteSet(Must) /\ Cardinality(Must) \in Nat
      /\ IsFiniteSet(T) /\ Cardinality(T) \in Nat
  BY <1>1, <1>3, Counted
<1>6. Cardinality(May) = Cardinality(Must) + Cardinality(T)
  <2>1. Cardinality(Must \cap T) = 0
    BY <1>2, FS_EmptySet
  <2>2. Cardinality(Must \cup T)
          = Cardinality(Must) + Cardinality(T) - Cardinality(Must \cap T)
    BY <1>5, FS_Union
  <2> QED BY <1>2, <1>5, <2>1, <2>2
<1> QED BY <1>1, <1>4, <1>5, <1>6 DEF T

\* The order of the map decides exactly where a group lacks certain approvals
\* and roles whose members disagree can make up for them.
THEOREM ChanceIsBounded == Spec => []ChanceNeedsDisagreement
<1>1. PointInv /\ RulesRead => ChanceNeedsDisagreement
  <2> SUFFICES ASSUME PointInv, RulesRead, NEW approvals \in Approvals
               PROVE  MayPass(Demanding, approvals) /\ ~MustPass(Demanding, approvals)
                        <=> /\ \E p \in Demanding : Least(p, approvals) < p.required
                            /\ \A p \in Demanding :
                                 p.required <= Least(p, approvals)
                                                 + Cardinality(Torn(p, approvals))
    BY DEF ChanceNeedsDisagreement
  <2>1. ASSUME NEW p \in Demanding
        PROVE  /\ Enough(Least(p, approvals), p.required)
                    <=> ~(Least(p, approvals) < p.required)
               /\ Enough(Most(p, approvals), p.required)
                    <=> p.required <= Least(p, approvals) + Cardinality(Torn(p, approvals))
    BY MostIs DEF Enough
  <2> QED BY <2>1 DEF MayPass, MustPass
<1> QED BY <1>1, PointInit, PointNext, ReadInit, ReadNext, PTL DEF Spec

\* A further approval takes no owner's answer away.
LEMMA FurtherApproval ==
    ASSUME NEW o, NEW approvals, NEW u, MustCount(o, approvals)
    PROVE  MustCount(o, Also(u, approvals))
<1> DEFINE more == Also(u, approvals)
<1>1. /\ DOMAIN more = {u} \cup DOMAIN approvals
      /\ \A v \in DOMAIN more : more[v] = IF v = u THEN "approved" ELSE approvals[v]
  BY DEF Also
<1>2. more[u] = "approved"
  BY <1>1
<1> HIDE DEF more
<1>3. Answers(o, approvals) = {"approved"}
  BY DEF MustCount
<1>4. \A v \in DOMAIN approvals : Matches(o, v) => approvals[v] = "approved"
  BY <1>3 DEF Answers
<1>5. PICK v \in DOMAIN approvals : Matches(o, v)
  BY <1>3 DEF Answers
<1>6. v \in DOMAIN more /\ more[v] = "approved"
  BY <1>1, <1>4, <1>5
<1>7. \A w \in DOMAIN more : Matches(o, w) => more[w] = "approved"
  BY <1>1, <1>4
<1>8. Answers(o, more) = {"approved"}
  BY <1>5, <1>6, <1>7 DEF Answers
<1> QED BY <1>8 DEF MustCount, more

\* Another approval never makes a merge request fail that was certain to pass.
THEOREM ApprovalsOnlyHelp == Spec => []ApprovingNeverHurts
<1>1. PointInv /\ RulesRead => ApprovingNeverHurts
  <2> SUFFICES ASSUME PointInv, RulesRead, NEW approvals \in Approvals,
                      MustPass(Demanding, approvals), NEW u \in Users, NEW p \in Demanding
               PROVE  Enough(Least(p, Also(u, approvals)), p.required)
    BY DEF ApprovingNeverHurts, MustPass
  <2> DEFINE more == Also(u, approvals)
             M == {i \in DOMAIN p.owners : MustCount(p.owners[i], approvals)}
             N == {i \in DOMAIN p.owners : MustCount(p.owners[i], more)}
  <2>1. M \subseteq N /\ N \in SUBSET DOMAIN p.owners
    BY FurtherApproval
  <2>2. p \in Groups /\ p.required \in Nat
    BY GroupShape DEF Demanding
  <2>3. Cardinality(M) >= p.required
    BY DEF MustPass, Enough, Least
  <2> HIDE DEF M, N, more
  <2>4. IsFiniteSet(N) /\ Cardinality(N) \in Nat
    BY <2>1, <2>2, Counted
  <2>5. IsFiniteSet(M) /\ Cardinality(M) <= Cardinality(N) /\ Cardinality(M) \in Nat
    BY <2>1, <2>4, FS_Subset, FS_CardinalityType
  <2>6. Cardinality(N) >= p.required
    BY <2>2, <2>3, <2>4, <2>5
  <2> QED BY <2>6 DEF N, more, Enough, Least
<1> QED BY <1>1, PointInit, PointNext, ReadInit, ReadNext, PTL DEF Spec

\* Who is accessible has an answer to give when everybody approves, unless it is
\* a role that nobody has at its level.
LEMMA EverybodyAnswers ==
    ASSUME NEW o, o.kind \in {"user", "role"}, Accessible(o),
           o.kind = "role" => RoleMembers(o.level) # {}
    PROVE  MustCount(o, [u \in Users |-> "approved"])
<1> DEFINE everybody == [u \in Users |-> "approved"]
<1>1. DOMAIN everybody = Users /\ \A u \in Users : everybody[u] = "approved"
  OBVIOUS
<1>2. \E u \in Users : Matches(o, u)
  <2>1. CASE o.kind = "role"
    BY <2>1, UserAssumption DEF Matches, RoleMembers
  <2>2. CASE o.kind = "user"
    BY <2>2, UserAssumption DEF Matches, Accessible
  <2> QED BY <2>1, <2>2
<1> HIDE DEF everybody
<1>3. Answers(o, everybody) = {"approved"}
  BY <1>1, <1>2 DEF Answers
<1> QED BY <1>3 DEF MustCount, everybody

\* When everybody approves, the rule fails only if nobody is to be asked, or a
\* group requires more approvals than it lists owners, or lists a role that
\* nobody has at exactly its level.
THEOREM NeverStuckOtherwise == Spec => []StuckOnlyForAReason
<1>1. PointInv /\ RulesRead => StuckOnlyForAReason
  <2> DEFINE everybody == [u \in Users |-> "approved"]
  <2> SUFFICES ASSUME PointInv, RulesRead, ~RuleMustPass(Groups, everybody),
                      \A p \in Demanding :
                        /\ ~(p.required > Cardinality(Countable(p)))
                        /\ \A i \in DOMAIN p.owners :
                             p.owners[i].kind = "role" => RoleMembers(p.owners[i].level) # {}
               PROVE  \A k \in DOMAIN Changed : \A n \in OwnedUnder(Changed[k]) :
                        OwnersForFile(n, Changed[k]).active = 0
    BY DEF StuckOnlyForAReason
  <2> HIDE DEF everybody
  <2>1. ASSUME NEW p \in Demanding PROVE Enough(Least(p, everybody), p.required)
    <3> DEFINE M == {i \in DOMAIN p.owners : MustCount(p.owners[i], everybody)}
    <3>1. p \in Groups
      BY DEF Demanding
    <3>2. /\ OwnersListed(p.owners) /\ p.required \in Nat
          /\ \A i \in DOMAIN p.owners : Accessible(p.owners[i])
      BY <3>1, GroupShape
    <3>3. ASSUME NEW i \in Countable(p) PROVE i \in M
      <4>1. i \in DOMAIN p.owners /\ p.owners[i].kind # "email"
        BY DEF Countable
      <4>2. p.owners[i].kind \in {"user", "role"}
        BY <3>2, <4>1 DEF OwnersListed
      <4>3. MustCount(p.owners[i], everybody)
        BY <3>2, <4>1, <4>2, EverybodyAnswers DEF everybody
      <4> QED BY <4>1, <4>3
    <3>4. M \in SUBSET DOMAIN p.owners /\ Countable(p) \in SUBSET DOMAIN p.owners
      BY DEF Countable
    <3> HIDE DEF M
    <3>5. IsFiniteSet(M) /\ Cardinality(M) \in Nat /\ Cardinality(Countable(p)) \in Nat
      BY <3>1, <3>4, Counted
    <3>6. Cardinality(Countable(p)) <= Cardinality(M)
      <4>1. Countable(p) \in SUBSET M
        BY <3>3
      <4> QED BY <3>5, <4>1, FS_Subset
    <3>7. ~(p.required > Cardinality(Countable(p)))
      OBVIOUS
    <3>8. Cardinality(M) >= p.required
      BY <3>2, <3>5, <3>6, <3>7
    <3> QED BY <3>8 DEF M, Enough, Least
  <2>2. GroupKeys = {}
    <3>1. Groups = {}
      BY <2>1 DEF RuleMustPass, MustPass, Demanding
    <3> QED BY <3>1 DEF Groups
  <2>3. ASSUME NEW k \in DOMAIN Changed, NEW n \in OwnedUnder(Changed[k]),
               OwnersForFile(n, Changed[k]).active # 0
        PROVE  FALSE
    <3> DEFINE a == OwnersForFile(n, Changed[k]).active
    <3>1. <<n, a>> \in ActiveIn(Changed[k])
      BY DEF ActiveIn
    <3>2. a # 0
      BY <2>3
    <3> HIDE DEF a
    <3> QED BY <2>2, <3>1, <3>2 DEF GroupKeys
  <2> QED BY <2>3
<1> QED BY <1>1, PointInit, PointNext, ReadInit, ReadNext, PTL DEF Spec


-----------------------------------------------------------------------------
(* The table.                                                              *)

\* Where at most one user can have been found for an owner, whoever matches is
\* the one.
LEMMA OneFound ==
    ASSUME NEW approvals \in Approvals, NEW p, OnePerOwner(p, approvals),
           NEW i \in DOMAIN p.owners, NEW u \in DOMAIN approvals, Matches(p.owners[i], u)
    PROVE  Found(p.owners[i], approvals) = {u}
<1> DEFINE S == Found(p.owners[i], approvals)
<1>1. u \in S /\ S \subseteq Users /\ Cardinality(S) <= 1
  BY DEF Found, Approvals, OnePerOwner
<1> HIDE DEF S
<1>2. IsFiniteSet(S) /\ Cardinality(S) \in Nat
  BY <1>1, UserAssumption, FS_Subset, FS_CardinalityType
<1>3. Cardinality(S) = 1
  BY <1>1, <1>2, FS_EmptySet
<1>4. PICK x : S = {x}
  BY <1>2, <1>3, FS_Singleton
<1> QED BY <1>1, <1>4 DEF S

\* Somebody matches an owner exactly if the owner stands for that user's name.
LEMMA EntryMatches ==
    ASSUME PointInv, RulesRead, NEW p \in Groups, NEW i \in DOMAIN p.owners, NEW u
    PROVE  Matches(p.owners[i], u) <=> UserEntry(u) \in Entries(p.owners[i])
<1> DEFINE o == p.owners[i]
<1>1. o.kind \in {"user", "email", "role"} /\ (o.kind = "user" => o = UserEntry(o.name))
  BY GroupShape DEF OwnersListed
<1>2. \A v : UserEntry(v).kind = "user" /\ UserEntry(v).name = v
  BY DEF UserEntry
<1> HIDE DEF o
<1>3. CASE o.kind = "role"
  <2>1. ASSUME NEW v, UserEntry(u) = UserEntry(v) PROVE u = v
    <3>1. UserEntry(u).name = u /\ UserEntry(v).name = v
      BY <1>2
    <3> QED BY <2>1, <3>1, Zenon
  <2> QED BY <1>3, <2>1 DEF Matches, Entries, o
<1>4. CASE o.kind = "user"
  <2>1. u = o.name <=> UserEntry(u) = o
    BY <1>1, <1>2, <1>4, Zenon
  <2> QED BY <1>4, <2>1 DEF Matches, Entries, o
<1>5. CASE o.kind = "email"
  <2>1. UserEntry(u) # o
    BY <1>2, <1>5
  <2> QED BY <1>5, <2>1 DEF Matches, Entries, o
<1> QED BY <1>1, <1>3, <1>4, <1>5

\* The people a table counts for a group.
Ticking(p, noted, approvals) ==
    {u \in noted : approvals[u] = "approved" /\ UserEntry(u) \in AllowedApprovers(p)}

\* They are users who match one of its owners and have approved.
LEMMA ShownAre ==
    ASSUME PointInv, RulesRead, NEW approvals \in Approvals, NEW p \in Groups,
           NEW noted \in SUBSET DOMAIN approvals
    PROVE  LET people == Ticking(p, noted, approvals)
           IN  /\ IsFiniteSet(people) /\ Cardinality(people) \in Nat
               /\ ApprovedCount(p, noted, approvals) = Cardinality(people)
               /\ \A u \in noted : u \in people <=>
                    /\ approvals[u] = "approved"
                    /\ \E i \in DOMAIN p.owners : Matches(p.owners[i], u)
<1> DEFINE people == Ticking(p, noted, approvals)
<1>1. people \subseteq Users
  BY DEF Approvals, Ticking
<1>2. IsFiniteSet(people) /\ Cardinality(people) \in Nat
  <2> HIDE DEF people
  <2> QED BY <1>1, UserAssumption, FS_Subset, FS_CardinalityType
<1>3. ApprovedCount(p, noted, approvals) = Cardinality(people)
  BY DEF ApprovedCount, Ticking
<1>4. \A u : UserEntry(u) \in AllowedApprovers(p) <=>
               \E i \in DOMAIN p.owners : Matches(p.owners[i], u)
  <2>1. \A u : UserEntry(u) \in AllowedApprovers(p) <=>
                 \E i \in DOMAIN p.owners : UserEntry(u) \in Entries(p.owners[i])
    BY DEF AllowedApprovers
  <2> QED BY <2>1, EntryMatches
<1> QED BY <1>2, <1>3, <1>4 DEF Ticking

\* The table counts no more than the verdict: a person counted stands for an
\* owner whom nobody else has answered for.
LEMMA TableCountsLess ==
    ASSUME PointInv, RulesRead, NEW approvals \in Approvals, NEW p \in Groups,
           OnePerOwner(p, approvals), NEW noted \in SUBSET DOMAIN approvals
    PROVE  /\ ApprovedCount(p, noted, approvals) <= Least(p, approvals)
           /\ ApprovedCount(p, noted, approvals) \in Nat /\ Least(p, approvals) \in Nat
<1> DEFINE people == Ticking(p, noted, approvals)
           M == {i \in DOMAIN p.owners : MustCount(p.owners[i], approvals)}
           f == [u \in people |-> CHOOSE i \in DOMAIN p.owners : Matches(p.owners[i], u)]
<1>1. /\ IsFiniteSet(people) /\ Cardinality(people) \in Nat
      /\ ApprovedCount(p, noted, approvals) = Cardinality(people)
      /\ \A u \in noted : u \in people <=>
           /\ approvals[u] = "approved"
           /\ \E i \in DOMAIN p.owners : Matches(p.owners[i], u)
      /\ people \subseteq noted
  BY ShownAre DEF Ticking
<1>2. IsFiniteSet(M) /\ Cardinality(M) \in Nat /\ Least(p, approvals) = Cardinality(M)
  BY Counted DEF Least
<1> HIDE DEF people
<1>3. ASSUME NEW u \in people
      PROVE  /\ f[u] \in DOMAIN p.owners /\ Matches(p.owners[f[u]], u)
             /\ Found(p.owners[f[u]], approvals) = {u} /\ f[u] \in M
  <2>1. \E i \in DOMAIN p.owners : Matches(p.owners[i], u)
    BY <1>1
  <2>2. f[u] = CHOOSE i \in DOMAIN p.owners : Matches(p.owners[i], u)
    OBVIOUS
  <2> HIDE DEF f
  <2>3. f[u] \in DOMAIN p.owners /\ Matches(p.owners[f[u]], u)
    BY <2>1, <2>2, Zenon
  <2>4. Found(p.owners[f[u]], approvals) = {u} /\ approvals[u] = "approved"
    BY <1>1, <2>3, OneFound
  <2>5. Answers(p.owners[f[u]], approvals) = {"approved"}
    BY <2>4 DEF Answers, Found
  <2> QED BY <2>3, <2>4, <2>5 DEF MustCount
<1>4. f \in [people -> M]
  BY <1>3
<1> HIDE DEF f, M
<1>5. ASSUME NEW u \in people, NEW v \in people, f[u] = f[v] PROVE u = v
  <2>1. {u} = {v}
    BY <1>3, <1>5
  <2> QED BY <2>1
<1>6. f \in Injection(people, M)
  BY <1>4, <1>5 DEF Injection, IsInjective
<1>7. Cardinality(people) <= Cardinality(M)
  BY <1>2, <1>6, FS_Injection
<1> QED BY <1>1, <1>2, <1>7

\* The table counts no less than the verdict: for an owner counted a person
\* was noted, for another owner another person.
LEMMA TableCountsMore ==
    ASSUME PointInv, RulesRead, NEW approvals \in Approvals, NEW p \in Groups,
           OnePerOwner(p, approvals), Apart(p), NEW noted \in SUBSET DOMAIN approvals,
           \A i \in DOMAIN p.owners : \A u \in DOMAIN approvals :
             Found(p.owners[i], approvals) = {u} => u \in noted
    PROVE  /\ Most(p, approvals) <= ApprovedCount(p, noted, approvals)
           /\ ApprovedCount(p, noted, approvals) \in Nat /\ Most(p, approvals) \in Nat
<1> DEFINE people == Ticking(p, noted, approvals)
           M == {i \in DOMAIN p.owners : MayCount(p.owners[i], approvals)}
           Answerer(i, u) == /\ u \in DOMAIN approvals /\ Matches(p.owners[i], u)
                             /\ approvals[u] = "approved"
           f == [i \in M |-> CHOOSE u : Answerer(i, u)]
<1>1. /\ IsFiniteSet(people) /\ Cardinality(people) \in Nat
      /\ ApprovedCount(p, noted, approvals) = Cardinality(people)
      /\ \A u \in noted : u \in people <=>
           /\ approvals[u] = "approved"
           /\ \E i \in DOMAIN p.owners : Matches(p.owners[i], u)
  BY ShownAre
<1>2. IsFiniteSet(M) /\ Cardinality(M) \in Nat /\ Most(p, approvals) = Cardinality(M)
  BY Counted DEF Most
<1> HIDE DEF people
<1>3. ASSUME NEW i \in M
      PROVE  i \in DOMAIN p.owners /\ Answerer(i, f[i]) /\ f[i] \in people
  <2>1. i \in DOMAIN p.owners /\ \E u : Answerer(i, u)
    BY DEF MayCount, Answers
  <2>2. f[i] = CHOOSE u : Answerer(i, u)
    OBVIOUS
  <2> HIDE DEF f, Answerer
  <2>3. Answerer(i, f[i])
    BY <2>1, <2>2, Zenon
  <2>4. Found(p.owners[i], approvals) = {f[i]}
    BY <2>1, <2>3, OneFound DEF Answerer
  <2>5. f[i] \in noted
    BY <2>1, <2>3, <2>4 DEF Answerer
  <2> QED BY <1>1, <2>1, <2>3, <2>5 DEF Answerer
<1>4. f \in [M -> people]
  BY <1>3
<1> HIDE DEF f, M
<1>5. ASSUME NEW i \in M, NEW k \in M, f[i] = f[k] PROVE i = k
  <2>1. f[i] \in Users
    BY <1>3 DEF Approvals
  <2>2. Matches(p.owners[i], f[i]) /\ Matches(p.owners[k], f[i])
    BY <1>3, <1>5
  <2>3. i \in DOMAIN p.owners /\ k \in DOMAIN p.owners
    BY <1>3
  <2> QED BY <2>1, <2>2, <2>3, Zenon DEF Apart
<1>6. f \in Injection(M, people)
  BY <1>4, <1>5 DEF Injection, IsInjective
<1>7. Cardinality(M) <= Cardinality(people)
  BY <1>1, <1>6, FS_Injection
<1> QED BY <1>1, <1>2, <1>7

\* The box of a row is ticked exactly if its groups have the approvals they
\* demand, but for the four exceptions.
THEOREM BoxesTell == Spec => []RowsTellTheVerdict
<1>1. PointInv /\ RulesRead => RowsTellTheVerdict
  <2> DEFINE ps == Summary
             rows == {{ps[h] : h \in Merged(ps, g)} : g \in DOMAIN ps}
  <2> SUFFICES ASSUME PointInv, RulesRead, NEW row \in rows, Telling(row),
                      NEW approvals \in Approvals, NEW p \in row, Obligatory(p),
                      OnePerOwner(p, approvals)
               PROVE  /\ MayBeTicked(row, MayBeNoted(ps, approvals), approvals) =>
                           Enough(Least(p, approvals), p.required)
                      /\ Enough(Most(p, approvals), p.required) =>
                           MustBeTicked(row, MustBeNoted(ps, approvals), approvals)
    BY DEF RowsTellTheVerdict
  <2>1. PICK g \in DOMAIN ps : row = {ps[h] : h \in Merged(ps, g)}
    OBVIOUS
  <2>2. \A h \in DOMAIN ps : ps[h] \in Groups
    BY DEF Summary, Groups
  <2> HIDE DEF ps, rows
  <2>3. row \subseteq Groups /\ \A q \in row : \E h \in DOMAIN ps : q = ps[h]
    BY <2>1, <2>2 DEF Merged
  <2>4. ASSUME NEW q \in row
        PROVE  /\ AllowedApprovers(q) = AllowedApprovers(p) /\ AllowedApprovers(p) # {}
               /\ q.required = p.required /\ ~q.optional /\ ~q.auto
    <3>1. Signature(q) = Signature(ps[g]) /\ Signature(p) = Signature(ps[g])
      BY <2>1 DEF Merged
    <3>2. \A x : DOMAIN Signature(x) = AllowedApprovers(x)
      BY DEF Signature
    <3>3. AllowedApprovers(q) = AllowedApprovers(p)
      BY <3>1, <3>2
    <3>4. AllowedApprovers(q) # {} /\ q.required = p.required /\ q.optional = p.optional
      BY DEF Telling
    <3>5. ~q.auto
      <4>1. q.auto => q.owners = <<>>
        BY <2>3, MembersAsked DEF Groups
      <4>2. q.owners = <<>> => AllowedApprovers(q) = {}
        BY DEF AllowedApprovers
      <4> QED BY <3>4, <4>1, <4>2
    <3> QED BY <3>3, <3>4, <3>5 DEF Obligatory
  <2>5. ASSUME NEW q \in row, NEW noted
        PROVE  Ticked(row, q, noted, approvals) <=>
                 ApprovedCount(p, noted, approvals) >= p.required
    <3>1. ApprovedCount(q, noted, approvals) = ApprovedCount(p, noted, approvals)
      BY <2>4 DEF ApprovedCount
    <3> QED BY <2>4, <3>1 DEF Ticked
  <2>6. p \in Groups /\ p.required \in Nat /\ Apart(p)
    BY <2>3, GroupShape DEF Telling
  <2>7. PICK h \in DOMAIN ps : p = ps[h]
    BY <2>3
  <2>8. ASSUME MayBeTicked(row, MayBeNoted(ps, approvals), approvals)
        PROVE  Enough(Least(p, approvals), p.required)
    <3> DEFINE noted == MayBeNoted(ps, approvals)
    <3>1. noted \in SUBSET DOMAIN approvals
      BY DEF MayBeNoted, FoundSets, Found
    <3>2. ApprovedCount(p, noted, approvals) >= p.required
      BY <2>5, <2>8 DEF MayBeTicked
    <3> HIDE DEF noted
    <3>3. /\ ApprovedCount(p, noted, approvals) <= Least(p, approvals)
          /\ ApprovedCount(p, noted, approvals) \in Nat /\ Least(p, approvals) \in Nat
      BY <2>6, <3>1, TableCountsLess
    <3> QED BY <2>6, <3>2, <3>3 DEF Enough
  <2>9. ASSUME Enough(Most(p, approvals), p.required)
        PROVE  MustBeTicked(row, MustBeNoted(ps, approvals), approvals)
    <3> DEFINE noted == MustBeNoted(ps, approvals)
    <3>1. noted \in SUBSET DOMAIN approvals
      BY DEF MustBeNoted
    <3>2. \A i \in DOMAIN p.owners : \A u \in DOMAIN approvals :
            Found(p.owners[i], approvals) = {u} => u \in noted
      BY <2>7 DEF MustBeNoted, FoundSets
    <3> HIDE DEF noted
    <3>3. /\ Most(p, approvals) <= ApprovedCount(p, noted, approvals)
          /\ ApprovedCount(p, noted, approvals) \in Nat /\ Most(p, approvals) \in Nat
      BY <2>6, <3>1, <3>2, TableCountsMore
    <3>4. ApprovedCount(p, noted, approvals) >= p.required
      BY <2>6, <2>9, <3>3 DEF Enough
    <3> QED BY <2>5, <3>4 DEF MustBeTicked, noted
  <2> QED BY <2>8, <2>9
<1> QED BY <1>1, PointInit, PointNext, ReadInit, ReadNext, PTL DEF Spec


-----------------------------------------------------------------------------
(* Without members.                                                        *)

\* What does not depend on who is a member: the sections and what they match.
LEMMA SameSections ==
    ASSUME NEW n, NEW path
    PROVE  /\ Blind!Sections = Sections /\ Blind!DefaultSection = DefaultSection
           /\ Blind!SectionIndex(n) = SectionIndex(n)
           /\ Blind!SectionMatches(n, path) = SectionMatches(n, path)
           /\ Blind!OwnedUnder(path) = OwnedUnder(path)
<1>1. \A p, q : Blind!MatchesPattern(p, q) = MatchesPattern(p, q)
  BY Zenon DEF Blind!MatchesPattern, MatchesPattern, Blind!SameNames, SameNames,
               Blind!IsPrefix, IsPrefix
<1>2. \A rules : Blind!Matched(rules, path) = Matched(rules, path)
  BY <1>1 DEF Blind!Matched, Matched
<1>3. Blind!Sections = Sections /\ Blind!DefaultSection = DefaultSection
  BY DEF Blind!Sections, Sections, Blind!Last, Last, Blind!DefaultSection, DefaultSection
<1>4. \A m : Blind!HasSection(m) = HasSection(m) /\ Blind!SectionIndex(m) = SectionIndex(m)
  BY <1>3 DEF Blind!HasSection, HasSection, Blind!SectionIndex, SectionIndex
<1>5. \A m : Blind!SectionMatches(m, path) = SectionMatches(m, path)
  BY <1>2, <1>3, <1>4 DEF Blind!SectionMatches, SectionMatches
<1>6. Blind!OwnedUnder(path) = OwnedUnder(path)
  BY <1>2, <1>5 DEF Blind!OwnedUnder, OwnedUnder
<1> QED BY <1>3, <1>4, <1>5, <1>6

BlindWants(rules, sectionOwners) ==
    [i \in 1 .. Len(rules) |-> Blind!DemandOf(rules[i], sectionOwners)]

\* The same loop, with other demands.
LEMMA BlindKnows ==
    ASSUME NEW rules, NEW sectionOwners, NEW path, Len(rules) \in Nat
    PROVE  Knows(Blind!Ownership(rules, sectionOwners, path), rules,
                 BlindWants(rules, sectionOwners), path, Len(rules))
<1> DEFINE wants == BlindWants(rules, sectionOwners)
           Runs(after) == after = [i \in 0 .. Len(rules) |->
                                     IF i = 0 THEN Blind!Unmatched
                                     ELSE Blind!Later(after[i - 1], rules[i], sectionOwners, path)]
           after == CHOOSE f : Runs(f)
<1>1. \A f : Runs(f) <=> IsRunOf(f, rules, wants, path, Len(rules))
  <2> SUFFICES ASSUME NEW f PROVE Runs(f) <=> IsRunOf(f, rules, wants, path, Len(rules))
    OBVIOUS
  <2>1. ASSUME NEW i \in 0 .. Len(rules), i # 0
        PROVE  Blind!Later(f[i - 1], rules[i], sectionOwners, path)
                 = Step(f[i - 1], rules[i], wants[i], path)
    <3>1. wants[i] = Blind!DemandOf(rules[i], sectionOwners)
      BY <2>1 DEF BlindWants
    <3>2. Blind!MatchesPattern(rules[i].pattern, path) = MatchesPattern(rules[i].pattern, path)
      BY Zenon DEF Blind!MatchesPattern, MatchesPattern, Blind!SameNames, SameNames,
                   Blind!IsPrefix, IsPrefix
    <3> QED BY <3>1, <3>2, Zenon DEF Blind!Later, Blind!Turn, Blind!Active, Blind!Excludes,
                   Excludes, Blind!NoDemand, NoDemand, Blind!Demand, Demand, Step
  <2>2. Blind!Unmatched = Unmatched
    BY DEF Blind!Unmatched, Unmatched, Blind!NoDemand, NoDemand, Blind!Demand, Demand
  <2> HIDE DEF wants
  <2> QED BY <2>1, <2>2 DEF IsRunOf
<1>2. \E f : Runs(f)
  BY <1>1, LoopRuns, Zenon
<1>3. Blind!Ownership(rules, sectionOwners, path) = after[Len(rules)]
  BY Zenon DEF Blind!Ownership
<1> HIDE DEF Runs
<1>4. Runs(after)
  BY <1>2, Zenon
<1> HIDE DEF wants, after
<1>5. Knows(after[Len(rules)], rules, wants, path, Len(rules))
  BY <1>1, <1>4, RunKnows
<1> QED BY <1>3, <1>5 DEF wants

\* The same rule decides.
LEMMA BlindDecides ==
    ASSUME PointInv, NEW rules \in Seq(Rule), AllRead(rules), NEW sectionOwners,
           NEW path, Matched(rules, path) # {}
    PROVE  LET o == Ownership(rules, sectionOwners, path)
               b == Blind!Ownership(rules, sectionOwners, path)
           IN  /\ b.active = o.active
               /\ o.active # 0 =>
                    \E i \in Matched(rules, path) :
                      /\ o.active = rules[i].line
                      /\ b.demand = IF rules[i].exclusion THEN NoDemand
                                    ELSE Blind!DemandOf(rules[i], sectionOwners)
<1> DEFINE hits == Matched(rules, path)
           m == Max(hits)
           o == Ownership(rules, sectionOwners, path)
           b == Blind!Ownership(rules, sectionOwners, path)
           freed == \E i \in hits : rules[i].exclusion
           wants == BlindWants(rules, sectionOwners)
<1>1. /\ m \in hits
      /\ o.active = IF freed /\ ~rules[m].exclusion THEN 0 ELSE rules[m].line
  <2> HIDE DEF b, wants
  <2>1. Len(rules) \in Nat /\ DOMAIN rules = 1 .. Len(rules)
    OBVIOUS
  <2> QED BY <2>1, LastMatch
<1>2. /\ b.active = IF freed /\ ~rules[m].exclusion THEN 0 ELSE rules[m].line
      /\ b.demand = IF freed THEN NoDemand ELSE wants[m]
  <2>1. Decided(b, rules, path, wants)
    BY BlindKnows, LastDecides
  <2> HIDE DEF b, wants
  <2> QED BY <2>1 DEF Decided
<1>3. m \in 1 .. Len(rules)
  BY <1>1 DEF Matched
<1>4. wants[m] = Blind!DemandOf(rules[m], sectionOwners)
  BY <1>3 DEF BlindWants
<1> HIDE DEF hits, m, o, b, wants
<1>5. rules[m].exclusion => freed
  BY <1>1
<1> QED BY <1>1, <1>2, <1>4, <1>5 DEF hits, m, o, b

\* Only roles are taken for accessible.
LEMMA BlindValid ==
    ASSUME NEW owners
    PROVE  /\ Blind!ValidOwners(owners) = <<>> <=> ~NamesRole(owners)
           /\ \A i \in DOMAIN Blind!ValidOwners(owners) :
                Blind!ValidOwners(owners)[i].kind = "role"
<1> DEFINE S == {i \in DOMAIN owners : owners[i].kind = "role"}
           valid == [i \in S |-> owners[i]]
<1>1. \A o : Blind!Accessible(o) <=> o.kind = "role"
  BY DEF Blind!Accessible
<1>2. Blind!ValidOwners(owners) = valid
  BY <1>1 DEF Blind!ValidOwners, Blind!Restrict, Restrict
<1>3. NamesRole(owners) <=> S # {}
  BY DEF NamesRole, Range
<1>4. valid = <<>> <=> S = {}
  <2>1. DOMAIN valid = S
    OBVIOUS
  <2>2. S = {} => valid = <<>>
    OBVIOUS
  <2> HIDE DEF valid, S
  <2> QED BY <2>1, <2>2
<1>5. \A i \in DOMAIN valid : valid[i].kind = "role"
  OBVIOUS
<1> HIDE DEF valid, S
<1> QED BY <1>2, <1>3, <1>4, <1>5

\* What a rule asks for: roles, those of its own line or else of its section.
LEMMA BlindDemands ==
    ASSUME NEW r, NEW sectionOwners
    PROVE  LET d == Blind!DemandOf(r, sectionOwners)
           IN  /\ \A i \in DOMAIN d.owners : d.owners[i].kind = "role"
               /\ ~d.auto <=> NamesRole(r.owners) \/ (~r.malformed /\ NamesRole(sectionOwners))
<1> DEFINE own == Blind!ValidOwners(r.owners)
           valid == Blind!ValidOwners(sectionOwners)
           d == Blind!DemandOf(r, sectionOwners)
<1>1. /\ own = <<>> <=> ~NamesRole(r.owners)
      /\ \A i \in DOMAIN own : own[i].kind = "role"
      /\ valid = <<>> <=> ~NamesRole(sectionOwners)
      /\ \A i \in DOMAIN valid : valid[i].kind = "role"
  BY BlindValid
<1>2. sectionOwners = <<>> => ~NamesRole(sectionOwners)
  BY DEF NamesRole, Range
<1>3. d = IF r.malformed /\ own = <<>> THEN Blind!Demand(<<>>, TRUE, FALSE)
          ELSE IF own # <<>> THEN Blind!Demand(own, FALSE, FALSE)
          ELSE IF sectionOwners = <<>> THEN Blind!Demand(<<>>, TRUE, FALSE)
          ELSE Blind!Demand(valid, valid = <<>>, TRUE)
  BY Zenon DEF Blind!DemandOf, Blind!Broken, Blind!ZeroOwners
<1>4. \A x, y, z : Blind!Demand(x, y, z).owners = x /\ Blind!Demand(x, y, z).auto = y
  BY DEF Blind!Demand
<1> HIDE DEF own, valid, d
<1>5. CASE r.malformed /\ own = <<>>
  <2>1. d = Blind!Demand(<<>>, TRUE, FALSE)
    BY <1>3, <1>5
  <2>2. d.owners = <<>> /\ d.auto = TRUE
    BY <1>4, <2>1
  <2> QED BY <1>1, <1>5, <2>2 DEF d
<1>6. CASE own # <<>>
  <2>1. d = Blind!Demand(own, FALSE, FALSE)
    BY <1>3, <1>6
  <2>2. d.owners = own /\ d.auto = FALSE
    BY <1>4, <2>1
  <2> QED BY <1>1, <1>6, <2>2 DEF d
<1>7. CASE ~r.malformed /\ own = <<>> /\ sectionOwners = <<>>
  <2>1. d = Blind!Demand(<<>>, TRUE, FALSE)
    BY <1>3, <1>7
  <2>2. d.owners = <<>> /\ d.auto = TRUE
    BY <1>4, <2>1
  <2> QED BY <1>1, <1>2, <1>7, <2>2 DEF d
<1>8. CASE ~r.malformed /\ own = <<>> /\ sectionOwners # <<>>
  <2>1. d = Blind!Demand(valid, valid = <<>>, TRUE)
    BY <1>3, <1>8
  <2>2. d.owners = valid /\ d.auto = (valid = <<>>)
    <3>1. \A y : Blind!Demand(valid, y, TRUE).owners = valid /\ Blind!Demand(valid, y, TRUE).auto = y
      BY DEF Blind!Demand
    <3> QED BY <2>1, <3>1
  <2>3. ~d.auto <=> valid # <<>>
    BY <2>2
  <2> QED BY <1>1, <1>8, <2>2, <2>3 DEF d
<1> QED BY <1>5, <1>6, <1>7, <1>8


\* What a name with a match asks for without members is asked for by the rule
\* of the same line, which a rule of the file was read into.
LEMMA BlindOwners ==
    ASSUME PointInv, RulesRead, NEW path, NEW n \in OwnedUnder(path)
    PROVE  LET s == IF SectionMatches(n, path) THEN Sections[SectionIndex(n)] ELSE DefaultSection
               o == OwnersForFile(n, path)
               b == Blind!OwnersForFile(n, path)
           IN  /\ b.active = o.active /\ b.optional = s.optional /\ o.optional = s.optional
               /\ b.required \in {s.required, 1} /\ s.required \in Nat \ {0}
               /\ o.active # 0 =>
                    LET l == text[o.active]
                    IN  /\ o.active \in DOMAIN text /\ l.kind = "rule"
                        /\ b.demand = IF l.exclusion THEN NoDemand
                                      ELSE Blind!DemandOf(ParsedRule(l, o.active), s.owners)
<1>1. PICK s : s = IF SectionMatches(n, path) THEN Sections[SectionIndex(n)] ELSE DefaultSection
  OBVIOUS
<1>2. Source(n, s) /\ Matched(s.rules, path) # {}
  <2>1. CASE SectionMatches(n, path)
    BY <1>1, <2>1 DEF SectionMatches, Source
  <2>2. CASE ~SectionMatches(n, path)
    BY <1>1, <2>2 DEF OwnedUnder, Source, DefaultSection
  <2> QED BY <2>1, <2>2
<1>3. /\ s.rules \in Seq(Rule) /\ AllRead(s.rules) /\ s.required \in Nat \ {0}
  BY <1>2, SourceRead, SourceOwners
<1> DEFINE o == Ownership(s.rules, s.owners, path)
           b == Blind!Ownership(s.rules, s.owners, path)
<1>4. OwnersForFile(n, path) = Asks(s, o)
  BY <1>1 DEF OwnersForFile, AskedBy
<1>5. Blind!OwnersForFile(n, path) = Blind!Asks(s, b)
  BY <1>1, SameSections DEF Blind!OwnersForFile, Blind!AskedBy
<1>6. /\ b.active = o.active
      /\ o.active # 0 =>
           \E i \in Matched(s.rules, path) :
             /\ o.active = s.rules[i].line
             /\ b.demand = IF s.rules[i].exclusion THEN NoDemand
                           ELSE Blind!DemandOf(s.rules[i], s.owners)
  BY <1>2, <1>3, BlindDecides
<1>7. ASSUME o.active # 0
      PROVE  LET l == text[o.active]
             IN  /\ o.active \in DOMAIN text /\ l.kind = "rule"
                 /\ b.demand = IF l.exclusion THEN NoDemand
                               ELSE Blind!DemandOf(ParsedRule(l, o.active), s.owners)
  <2> HIDE DEF o, b
  <2>1. PICK i \in Matched(s.rules, path) :
             /\ o.active = s.rules[i].line
             /\ b.demand = IF s.rules[i].exclusion THEN NoDemand
                           ELSE Blind!DemandOf(s.rules[i], s.owners)
    BY <1>6, <1>7
  <2> DEFINE r == s.rules[i]
             l == text[o.active]
  <2>2. i \in DOMAIN s.rules /\ MatchesPattern(r.pattern, path)
    BY DEF Matched
  <2>3. r.line \in DOMAIN text /\ Reading(r, text[r.line])
    BY <1>3, <2>2 DEF AllRead
  <2>4. r.pattern # Unmatchable
    BY <2>2 DEF MatchesPattern
  <2> HIDE DEF r
  <2>5. l.kind = "rule" /\ r = ParsedRule(l, o.active)
    <3>1. \A x, y : /\ MisreadHeader(x, y).pattern = Unmatchable
                    /\ MisreadDefault(y).pattern = Unmatchable
      BY DEF MisreadHeader, MisreadDefault
    <3> QED BY <2>1, <2>3, <2>4, <3>1 DEF Reading, r
  <2>6. r.exclusion = l.exclusion
    <3>1. \A x, y : ParsedRule(x, y).exclusion = x.exclusion
      BY DEF ParsedRule
    <3> QED BY <2>5, <3>1
  <2>7. b.demand = IF r.exclusion THEN NoDemand ELSE Blind!DemandOf(r, s.owners)
    BY <2>1 DEF r
  <2>8. o.active \in DOMAIN text
    BY <2>1, <2>3 DEF r
  <2> HIDE DEF l
  <2>9. b.demand = IF l.exclusion THEN NoDemand
                   ELSE Blind!DemandOf(ParsedRule(l, o.active), s.owners)
    BY <2>5, <2>6, <2>7
  <2> QED BY <2>5, <2>8, <2>9 DEF l
<1> HIDE DEF o, b
<1>8. /\ OwnersForFile(n, path).active = o.active
      /\ OwnersForFile(n, path).optional = s.optional
  BY <1>4 DEF Asks
<1>9. /\ Blind!OwnersForFile(n, path).active = b.active
      /\ Blind!OwnersForFile(n, path).optional = s.optional
      /\ Blind!OwnersForFile(n, path).required \in {s.required, 1}
      /\ Blind!OwnersForFile(n, path).demand = b.demand
  BY <1>5 DEF Blind!Asks
<1> QED BY <1>1, <1>3, <1>6, <1>7, <1>8, <1>9

\* The groups are the same, and each is made by the same file.
LEMMA SameGroups ==
    ASSUME PointInv, RulesRead
    PROVE  /\ Blind!GroupKeys = GroupKeys
           /\ \A g : Blind!FirstFile(g) = FirstFile(g)
<1>1. Blind!Changed = Changed
  BY DEF Blind!Changed, Changed
<1>2. ASSUME NEW path PROVE Blind!ActiveIn(path) = ActiveIn(path)
  <2>1. \A n \in OwnedUnder(path) :
          Blind!OwnersForFile(n, path).active = OwnersForFile(n, path).active
    BY BlindOwners
  <2> QED BY <2>1, SameSections DEF Blind!ActiveIn, ActiveIn
<1>3. Blind!GroupKeys = GroupKeys
  BY <1>1, <1>2 DEF Blind!GroupKeys, GroupKeys
<1>4. \A g : Blind!FilesOf(g) = FilesOf(g)
  BY <1>1, <1>2 DEF Blind!FilesOf, FilesOf
<1>5. \A g : Blind!FirstFile(g) = FirstFile(g)
  BY <1>1, <1>4 DEF Blind!FirstFile, FirstFile, Blind!Min, Min
<1> QED BY <1>3, <1>5

\* A group asks for something without members only if its line asks for a role.
LEMMA BlindGroup ==
    ASSUME PointInv, RulesRead, NEW g \in GroupKeys
    PROVE  LET p == PatternGroup(g)
               b == Blind!PatternGroup(g)
           IN  /\ b.exclusion = p.exclusion /\ b.optional = p.optional
               /\ b.required \in Nat \ {0}
               /\ \A i \in DOMAIN b.owners : b.owners[i].kind = "role"
               /\ ~p.exclusion => (~b.auto <=> AsksRole(g))
<1> DEFINE path == FirstFile(g)
           n == g[1]
           l == text[g[2]]
           s == IF SectionMatches(n, path) THEN Sections[SectionIndex(n)] ELSE DefaultSection
           o == OwnersForFile(n, path)
           b == Blind!OwnersForFile(n, path)
           d == Blind!DemandOf(ParsedRule(l, g[2]), s.owners)
<1>1. n \in OwnedUnder(path) /\ o.active = g[2] /\ g[2] # 0
  BY FirstOfGroup, FileOfGroup DEF FirstFile, GroupKeys
<1>2. PatternGroup(g) = GroupOf(o) /\ Blind!PatternGroup(g) = Blind!GroupOf(b)
  BY SameGroups DEF PatternGroup, Blind!PatternGroup
<1> HIDE DEF path, n
<1>3. /\ b.active = g[2] /\ b.optional = s.optional /\ o.optional = s.optional
      /\ b.required \in {s.required, 1} /\ s.required \in Nat \ {0}
      /\ l.kind = "rule" /\ g[2] \in DOMAIN text
      /\ b.demand = IF l.exclusion THEN NoDemand ELSE d
  <2> HIDE DEF s, o, b, d
  <2>1. /\ b.active = o.active /\ b.optional = s.optional /\ o.optional = s.optional
        /\ b.required \in {s.required, 1} /\ s.required \in Nat \ {0}
        /\ o.active # 0 =>
             /\ o.active \in DOMAIN text /\ text[o.active].kind = "rule"
             /\ b.demand = IF text[o.active].exclusion THEN NoDemand
                           ELSE Blind!DemandOf(ParsedRule(text[o.active], o.active), s.owners)
    BY <1>1, BlindOwners DEF s, o, b
  <2> QED BY <1>1, <2>1 DEF d
<1>4. /\ \A i \in DOMAIN d.owners : d.owners[i].kind = "role"
      /\ ~d.auto <=> NamesRole(l.owners) \/ (~l.malformed /\ NamesRole(s.owners))
  <2>1. \A x, y : ParsedRule(x, y).owners = x.owners /\ ParsedRule(x, y).malformed = x.malformed
    BY DEF ParsedRule
  <2> HIDE DEF s, l
  <2> QED BY <2>1, BlindDemands
<1>5. AsksRole(g) <=> NamesRole(l.owners) \/ (~l.malformed /\ NamesRole(s.owners))
  <2>1. ~NamesRole(DefaultSection.owners)
    BY DEF NamesRole, Range, DefaultSection
  <2>2. CASE SectionMatches(n, path)
    BY <2>2, Zenon DEF AsksRole, n, path
  <2>3. CASE ~SectionMatches(n, path)
    <3>1. s = DefaultSection
      BY <2>3
    <3> QED BY <2>1, <2>3, <3>1, Zenon DEF AsksRole, n, path
  <2> QED BY <2>2, <2>3
<1>6. l.exclusion \in BOOLEAN
  <2>1. l \in Lines
    BY <1>3 DEF PointInv, Shape
  <2> QED BY <1>3, <2>1, LineAssumption
<1> HIDE DEF l, s, o, b, d
<1>7. /\ Blind!GroupOf(b).exclusion = l.exclusion /\ GroupOf(o).exclusion = l.exclusion
      /\ Blind!GroupOf(b).optional = s.optional /\ GroupOf(o).optional = s.optional
      /\ Blind!GroupOf(b).required = b.required
      /\ Blind!GroupOf(b).owners = b.demand.owners /\ Blind!GroupOf(b).auto = b.demand.auto
  <2>1. (l.kind = "rule" /\ l.exclusion) = l.exclusion
    BY <1>3, <1>6
  <2>2. text[b.active] = l /\ text[o.active] = l
    BY <1>1, <1>3 DEF l
  <2>3. /\ Blind!GroupOf(b).exclusion = (l.kind = "rule" /\ l.exclusion)
        /\ GroupOf(o).exclusion = (l.kind = "rule" /\ l.exclusion)
    BY <2>2 DEF GroupOf, Blind!GroupOf
  <2> QED BY <1>3, <2>1, <2>3 DEF GroupOf, Blind!GroupOf
<1>8. NoDemand.owners = <<>>
  BY DEF NoDemand, Demand
<1>9. \A i \in DOMAIN b.demand.owners : b.demand.owners[i].kind = "role"
  BY <1>3, <1>4, <1>8
<1>10. ~l.exclusion => (~b.demand.auto <=> AsksRole(g))
  BY <1>3, <1>4, <1>5
<1>11. b.required \in Nat \ {0}
  BY <1>3
<1> QED BY <1>2, <1>7, <1>9, <1>10, <1>11

\* Nobody has a role.
LEMMA NobodyCounts ==
    ASSUME NEW p, \A i \in DOMAIN p.owners : p.owners[i].kind = "role", NEW approvals
    PROVE  Blind!Most(p, approvals) = 0
<1>1. \A o, u : o.kind = "role" => ~Blind!Matches(o, u)
  BY DEF Blind!Matches, Blind!RoleMembers
<1>2. {i \in DOMAIN p.owners : Blind!MayCount(p.owners[i], approvals)} = {}
  BY <1>1 DEF Blind!MayCount, Blind!Answers
<1>3. Blind!Cardinality({}) = Cardinality({})
  BY Zenon DEF Blind!Cardinality, Cardinality
<1>4. Blind!Most(p, approvals) = Cardinality({})
  BY <1>2, <1>3, Zenon DEF Blind!Most
<1> QED BY <1>4, FS_EmptySet

\* When the members could not be listed, approvals do not matter: the rule
\* passes exactly if no obligatory line asks for a role.
THEOREM BlindlyDecided == Spec => []BlindVerdict
<1>1. PointInv /\ RulesRead => BlindVerdict
  <2> DEFINE ps == Blind!Demanding
             passes == \A g \in GroupKeys : AsksRole(g) =>
                          PatternGroup(g).exclusion \/ PatternGroup(g).optional
  <2> SUFFICES ASSUME PointInv, RulesRead
               PROVE  BlindVerdict
    OBVIOUS
  <2>6. Blind!Groups # {} <=> GroupKeys # {}
    BY SameGroups DEF Blind!Groups
  <2> SUFFICES ASSUME NEW approvals \in Approvals
               PROVE  /\ Blind!MayPass(ps, approvals) => passes
                      /\ passes => Blind!MustPass(ps, approvals)
    BY <2>6 DEF BlindVerdict, Blind!RuleMayPass, Blind!RuleMustPass, Blind!Demanding
  <2>1. \A p : p \in ps <=> /\ \E g \in GroupKeys : p = Blind!PatternGroup(g)
                            /\ ~p.exclusion /\ ~p.auto /\ ~p.optional
    BY SameGroups DEF Blind!Demanding, Blind!Groups, Blind!Obligatory
  <2> HIDE DEF ps
  <2>2. ASSUME Blind!MayPass(ps, approvals), NEW g \in GroupKeys, AsksRole(g),
               ~PatternGroup(g).exclusion, ~PatternGroup(g).optional
        PROVE  FALSE
    <3> DEFINE b == Blind!PatternGroup(g)
    <3>1. /\ ~b.exclusion /\ ~b.optional /\ ~b.auto /\ b.required \in Nat \ {0}
          /\ \A i \in DOMAIN b.owners : b.owners[i].kind = "role"
      BY <2>2, BlindGroup
    <3> HIDE DEF b
    <3>2. b \in ps
      BY <2>1, <3>1 DEF b
    <3>3. Blind!Most(b, approvals) >= b.required
      BY <2>2, <3>2 DEF Blind!MayPass, Blind!Enough
    <3>4. Blind!Most(b, approvals) = 0
      BY <3>1, NobodyCounts
    <3> QED BY <3>1, <3>3, <3>4
  <2>3. ASSUME passes, NEW p \in ps PROVE FALSE
    <3>1. PICK g \in GroupKeys : p = Blind!PatternGroup(g)
      BY <2>1
    <3>2. ~p.exclusion /\ ~p.auto /\ ~p.optional
      BY <2>1
    <3>3. ~PatternGroup(g).exclusion /\ ~PatternGroup(g).optional /\ AsksRole(g)
      BY <3>1, <3>2, BlindGroup
    <3> QED BY <2>3, <3>3
  <2>4. passes => Blind!MustPass(ps, approvals)
    BY <2>3 DEF Blind!MustPass
  <2> QED BY <2>2, <2>4
<1> QED BY <1>1, PointInit, PointNext, ReadInit, ReadNext, PTL DEF Spec

-----------------------------------------------------------------------------
(* The default rules and a section called Default.                         *)

\* Those of some lines that are rules and match.
LinesMatching(lines, path) ==
    {l \in lines : text[l].kind = "rule" /\ MatchesPattern(text[l].pattern, path)}

\* The rules that match are the lines that do, as they are written.
LEMMA MatchedLines ==
    ASSUME PointInv, NEW rules \in Seq(Rule), AllRead(rules),
           NEW lines, RulesOf(rules, lines), NEW path
    PROVE  /\ {rules[i].line : i \in Matched(rules, path)} = LinesMatching(lines, path)
           /\ \A i \in Matched(rules, path) : rules[i].exclusion = text[rules[i].line].exclusion
<1>1. ASSUME NEW i \in DOMAIN rules
      PROVE  /\ MatchesPattern(rules[i].pattern, path) <=>
                  /\ text[rules[i].line].kind = "rule"
                  /\ MatchesPattern(text[rules[i].line].pattern, path)
             /\ MatchesPattern(rules[i].pattern, path) =>
                  rules[i].exclusion = text[rules[i].line].exclusion
  <2>1. PICK r, l : r = rules[i] /\ l = text[rules[i].line]
    OBVIOUS
  <2>2. Reading(r, l)
    BY <2>1 DEF AllRead
  <2>3. CASE l.kind = "rule" /\ r = ParsedRule(l, r.line)
    <3>1. r.pattern = l.pattern /\ r.exclusion = l.exclusion
      BY <2>3 DEF ParsedRule
    <3> QED BY <2>1, <2>3, <3>1
  <2>4. CASE l.kind = "header" /\ r \in {MisreadHeader(l, r.line), MisreadDefault(r.line)}
    <3>1. r.pattern = Unmatchable
      BY <2>4 DEF MisreadHeader, MisreadDefault
    <3>2. ~MatchesPattern(r.pattern, path)
      BY <3>1 DEF MatchesPattern
    <3>3. l.kind # "rule"
      BY <2>4
    <3> QED BY <2>1, <3>2, <3>3
  <2> QED BY <2>2, <2>3, <2>4 DEF Reading
<1>2. {rules[i].line : i \in DOMAIN rules} = lines
  BY DEF RulesOf
<1>3. {rules[i].line : i \in Matched(rules, path)} = LinesMatching(lines, path)
  BY <1>1, <1>2 DEF Matched, LinesMatching
<1> QED BY <1>1, <1>3 DEF Matched

\* The line shown as active, told from the text: the last that matches, or none
\* if a line frees the file and the last is not such a line.
LEMMA ActiveLine ==
    ASSUME PointInv, NEW rules \in Seq(Rule), AllRead(rules),
           NEW lines, RulesOf(rules, lines), NEW sectionOwners, NEW path,
           Matched(rules, path) # {}
    PROVE  LET heard == LinesMatching(lines, path)
               freed == \E l \in heard : text[l].exclusion
           IN  /\ Max(heard) \in DOMAIN text /\ Max(heard) # 0
               /\ Ownership(rules, sectionOwners, path).active
                    = IF freed /\ ~text[Max(heard)].exclusion THEN 0 ELSE Max(heard)
<1> DEFINE hits == Matched(rules, path)
           m == Max(hits)
           heard == LinesMatching(lines, path)
           o == Ownership(rules, sectionOwners, path)
<1>1. /\ {rules[i].line : i \in hits} = heard
      /\ \A i \in hits : rules[i].exclusion = text[rules[i].line].exclusion
  BY MatchedLines
<1>2. /\ m \in hits
      /\ o.active = IF (\E i \in hits : rules[i].exclusion) /\ ~rules[m].exclusion
                    THEN 0 ELSE rules[m].line
  <2>1. Len(rules) \in Nat /\ DOMAIN rules = 1 .. Len(rules)
    OBVIOUS
  <2> QED BY <2>1, LastMatch
<1>3. /\ hits \subseteq DOMAIN rules /\ DOMAIN rules \subseteq Int
      /\ \A i \in DOMAIN rules : rules[i].line \in DOMAIN text /\ rules[i].line \in Nat \ {0}
  <2>1. text \in Seq(Lines) /\ DOMAIN text \subseteq Nat \ {0}
    BY DEF PointInv, Shape
  <2> QED BY <2>1 DEF Matched, AllRead
<1>4. \A i \in hits : i <= m
  <2>1. PICK top \in hits : \A i \in hits : i <= top
    <3>1. Len(rules) \in Nat /\ DOMAIN rules = 1 .. Len(rules)
      OBVIOUS
    <3>2. Knows(o, rules, Wants(rules, sectionOwners), path, Len(rules))
      BY <3>1, OwnershipKnows
    <3>3. Hits(rules, path, Len(rules)) = hits
      BY <3>1 DEF Hits, Matched
    <3> HIDE DEF hits, o, m
    <3> QED BY <1>2, <3>2, <3>3 DEF Knows
  <2>2. m = top
    BY <1>3, <2>1, MaxIs
  <2> QED BY <2>1, <2>2
<1> HIDE DEF hits, m, heard, o
<1>5. \A i \in hits : rules[i].line <= rules[m].line
  <2> SUFFICES ASSUME NEW i \in hits PROVE rules[i].line <= rules[m].line
    OBVIOUS
  <2>1. i < m => rules[i].line < rules[m].line
    BY <1>2, <1>3 DEF RulesOf
  <2>2. i \in Int /\ m \in Int /\ rules[i].line \in Nat /\ rules[m].line \in Nat
    BY <1>2, <1>3
  <2>3. i <= m
    BY <1>4
  <2> QED BY <2>1, <2>2, <2>3
<1>6. Max(heard) = rules[m].line
  <2>1. heard \subseteq Int /\ rules[m].line \in heard
    BY <1>1, <1>2, <1>3
  <2>2. \A l \in heard : l <= rules[m].line
    BY <1>1, <1>5
  <2> QED BY <2>1, <2>2, MaxIs
<1>7. (\E i \in hits : rules[i].exclusion) <=> \E l \in heard : text[l].exclusion
  BY <1>1
<1>8. rules[m].exclusion = text[rules[m].line].exclusion
  BY <1>1, <1>2
<1>9. rules[m].line \in DOMAIN text /\ rules[m].line # 0
  BY <1>2, <1>3
<1> QED BY <1>2, <1>6, <1>7, <1>8, <1>9 DEF heard, o

\* A name heads no line if no section has it.
LEMMA NothingUnder ==
    ASSUME WriteInv, ParsedAsWritten, PointInv, NEW n, ~HasSection(n)
    PROVE  LinesUnder(n) = {}
<1> SUFFICES ASSUME NEW i \in LinesUnder(n) PROVE FALSE
  OBVIOUS
<1> DEFINE h == HeaderOf(i)
<1>1. i \in DOMAIN text /\ h # 0 /\ text[h].name = n
  BY DEF LinesUnder
<1>2. Len(text) \in Nat /\ DOMAIN text = 1 .. Len(text)
  BY DEF PointInv, Shape
<1>3. h \in 1 .. i /\ IsHeader(h)
  BY <1>1, <1>2 DEF WriteInv, HeadersRead
<1> HIDE DEF h
<1>4. n \in Named(Len(text))
  BY <1>1, <1>2, <1>3 DEF Named
<1>5. n \in {Sections[k].name : k \in DOMAIN Sections}
  BY <1>4 DEF ParsedAsWritten
<1> QED BY <1>5 DEF HasSection

\* A section called Default hides the rules above the first header from every
\* file it matches, and from no other.
THEOREM DefaultsHeard == Spec => []DefaultsGiveWay
<1>1. PointInv /\ RulesRead /\ WriteInv /\ ParsedAsWritten => DefaultsGiveWay
  <2> SUFFICES ASSUME PointInv, RulesRead, WriteInv, ParsedAsWritten, NEW k \in DOMAIN Changed
               PROVE  LET matching(lines) ==
                            {l \in lines : text[l].kind = "rule"
                                           /\ MatchesPattern(text[l].pattern, Changed[k])}
                          above == matching({l \in DOMAIN text : HeaderOf(l) = 0})
                          under == matching({l \in LinesUnder(Default) : Kept(Default, l)})
                          heard == IF under # {} THEN under ELSE above
                          freed == \E l \in heard : text[l].exclusion
                      IN  {g[2] : g \in {h \in GroupKeys : h[1] = Default /\ k \in FilesOf(h)}}
                            = IF heard = {} \/ (freed /\ ~text[Max(heard)].exclusion)
                              THEN {} ELSE {Max(heard)}
    BY Zenon DEF DefaultsGiveWay
  <2> DEFINE path == Changed[k]
             aboveLines == {l \in DOMAIN text : IsRule(l) /\ HeaderOf(l) = 0}
             underLines == {l \in LinesUnder(Default) : Kept(Default, l)}
             above == LinesMatching(aboveLines, path)
             under == LinesMatching(underLines, path)
             heard == IF under # {} THEN under ELSE above
             freed == \E l \in heard : text[l].exclusion
             shown == IF freed /\ ~text[Max(heard)].exclusion THEN 0 ELSE Max(heard)
             s == IF SectionMatches(Default, path) THEN Sections[SectionIndex(Default)]
                  ELSE DefaultSection
             active == OwnersForFile(Default, path).active
  <2>1. LinesMatching({l \in DOMAIN text : HeaderOf(l) = 0}, path) = above
    BY DEF LinesMatching, IsRule
  <2>2. /\ defaults \in Seq(Rule) /\ AllRead(defaults) /\ RulesOf(defaults, aboveLines)
    BY DEF PointInv, Shape, RulesRead, ParsedAsWritten
  <2>3. Matched(defaults, path) = {} <=> above = {}
    <3>1. {defaults[i].line : i \in Matched(defaults, path)} = above
      BY <2>2, MatchedLines
    <3> HIDE DEF above, path
    <3> QED BY <3>1
  <2>4. HasSection(Default) =>
          LET t == Sections[SectionIndex(Default)]
          IN  t.rules \in Seq(Rule) /\ AllRead(t.rules) /\ RulesOf(t.rules, underLines)
    <3> SUFFICES ASSUME HasSection(Default)
                 PROVE  LET t == Sections[SectionIndex(Default)]
                        IN  t.rules \in Seq(Rule) /\ AllRead(t.rules) /\ RulesOf(t.rules, underLines)
      OBVIOUS
    <3>1. SectionIndex(Default) \in DOMAIN Sections /\ Sections[SectionIndex(Default)].name = Default
      BY SectionFound
    <3>2. RulesOf(Sections[SectionIndex(Default)].rules, underLines)
      BY <3>1, Zenon DEF ParsedAsWritten
    <3> QED BY <3>1, <3>2, SectionsRead
  <2>5. SectionMatches(Default, path) <=> under # {}
    <3>1. CASE HasSection(Default)
      <4>1. PICK rules : rules = Sections[SectionIndex(Default)].rules
        OBVIOUS
      <4>2. rules \in Seq(Rule) /\ AllRead(rules) /\ RulesOf(rules, underLines)
        BY <2>4, <3>1, <4>1, Zenon
      <4>3. {rules[i].line : i \in Matched(rules, path)} = under
        BY <4>2, MatchedLines
      <4> HIDE DEF under, path
      <4> QED BY <3>1, <4>1, <4>3 DEF SectionMatches
    <3>2. CASE ~HasSection(Default)
      <4>1. LinesUnder(Default) = {}
        BY <3>2, NothingUnder
      <4> QED BY <3>2, <4>1 DEF SectionMatches, LinesMatching
    <3> QED BY <3>1, <3>2
  <2>6. Default \in OwnedUnder(path) <=> heard # {}
    <3> HIDE DEF above, under, path
    <3>1. Default \in Names
      BY DefaultAssumption
    <3> QED BY <2>3, <2>5, <3>1 DEF OwnedUnder
  <2>7. ASSUME heard # {}
        PROVE  active = shown /\ Max(heard) # 0
    <3>1. PICK lines : lines = IF under # {} THEN underLines ELSE aboveLines
      OBVIOUS
    <3>2. /\ s.rules \in Seq(Rule) /\ AllRead(s.rules) /\ RulesOf(s.rules, lines)
          /\ LinesMatching(lines, path) = heard
      <4>1. CASE under # {}
        <5>1. HasSection(Default) /\ s = Sections[SectionIndex(Default)]
          BY <2>5, <4>1 DEF SectionMatches
        <5>2. lines = underLines /\ heard = under
          BY <3>1, <4>1
        <5> QED BY <2>4, <5>1, <5>2
      <4>2. CASE under = {}
        <5>1. s = DefaultSection /\ lines = aboveLines /\ heard = above
          BY <2>5, <3>1, <4>2
        <5> QED BY <2>2, <5>1 DEF DefaultSection
      <4> QED BY <4>1, <4>2
    <3>3. Matched(s.rules, path) # {}
      BY <2>7, <3>2, MatchedLines
    <3>4. active = Ownership(s.rules, s.owners, path).active
      BY DEF OwnersForFile, AskedBy, Asks
    <3> HIDE DEF s, active, heard, path
    <3> QED BY <3>2, <3>3, <3>4, ActiveLine
  <2>8. {g[2] : g \in {h \in GroupKeys : h[1] = Default /\ k \in FilesOf(h)}}
          = IF Default \in OwnedUnder(path) /\ active # 0 THEN {active} ELSE {}
    <3>1. \A h : h \in GroupKeys /\ k \in FilesOf(h) <=> h \in ActiveIn(path) /\ h[2] # 0
      BY DEF GroupKeys, FilesOf
    <3>2. \A h : h \in ActiveIn(path) /\ h[1] = Default
                   <=> Default \in OwnedUnder(path) /\ h = <<Default, active>>
      BY DEF ActiveIn
    <3>3. <<Default, active>>[1] = Default /\ <<Default, active>>[2] = active
      OBVIOUS
    <3> HIDE DEF active, path
    <3> QED BY <3>1, <3>2, <3>3
  <2> HIDE DEF path, above, under, heard, shown, active
  <2>9. {g[2] : g \in {h \in GroupKeys : h[1] = Default /\ k \in FilesOf(h)}}
          = IF heard = {} \/ (freed /\ ~text[Max(heard)].exclusion) THEN {} ELSE {Max(heard)}
    BY <2>6, <2>7, <2>8 DEF shown
  <2> QED BY <2>1, <2>9, Zenon DEF heard, above, under, path, LinesMatching
<1> QED BY <1>1, PointInit, PointNext, ReadInit, ReadNext, WriteInit, WriteNext, ParserReads,
           PTL DEF Spec

-----------------------------------------------------------------------------
(* Sections that are opened once.                                          *)

\* Of some numbers up to n one is the largest.
LEMMA GreatestBelow ==
    ASSUME NEW n \in Nat, NEW S, S \subseteq 1 .. n, S # {}
    PROVE  Max(S) \in S /\ \A x \in S : x <= Max(S)
<1> DEFINE T == {n - x : x \in S}
<1>1. T \subseteq Nat /\ T # {}
  <2>1. \A x \in 1 .. n : n - x \in Nat
    OBVIOUS
  <2> QED BY <2>1
<1>2. PICK t \in T : \A y \in T : t <= y
  BY <1>1, NatLeast
<1>3. PICK m \in S : t = n - m
  BY <1>2
<1>4. \A x \in S : x <= m
  <2> SUFFICES ASSUME NEW x \in S PROVE x <= m
    OBVIOUS
  <2>1. n - m <= n - x
    BY <1>2, <1>3
  <2>2. x \in Int /\ m \in Int
    OBVIOUS
  <2> QED BY <2>1, <2>2
<1>5. S \subseteq Int
  OBVIOUS
<1>6. Max(S) = m
  BY <1>4, <1>5, MaxIs
<1> QED BY <1>4, <1>6

\* No name is opened twice.
OpenedOnce ==
    \A h, k \in DOMAIN text : IsHeader(h) /\ IsHeader(k) /\ text[h].name = text[k].name => h = k

\* Parse keeps every rule of every section as long as no section is opened again:
\* the pointer it writes through is then the one append has just made.
THEOREM OnceOpenedAllKept == Spec => [](OpenedOnce => NoRuleLost)
<1>1. PointInv /\ ParsedAsWritten => (OpenedOnce => NoRuleLost)
  <2> SUFFICES ASSUME PointInv, ParsedAsWritten, OpenedOnce, NEW k \in DOMAIN Sections
               PROVE  {Sections[k].rules[i].line : i \in DOMAIN Sections[k].rules}
                        = LinesUnder(Sections[k].name)
    BY DEF NoRuleLost
  <2>1. PICK n : n = Sections[k].name
    OBVIOUS
  <2>2. k = Cardinality(Named(FirstHeader(n))) /\ k \in Nat
    <3>1. Sections \in Seq(Section)
      BY Shown DEF PointInv
    <3>2. k \in Nat
      BY <3>1
    <3> QED BY <2>1, <3>2 DEF ParsedAsWritten
  <2>3. {Sections[k].rules[i].line : i \in DOMAIN Sections[k].rules}
          = {i \in LinesUnder(n) : Kept(n, i)}
    BY <2>1, Zenon DEF ParsedAsWritten, RulesOf
  <2>4. ASSUME NEW i \in LinesUnder(n) PROVE Kept(n, i)
    <3> DEFINE h == HeaderOf(i)
               before == {x \in 1 .. i : IsHeader(x)}
    <3>1. Len(text) \in Nat /\ DOMAIN text = 1 .. Len(text)
      BY DEF PointInv, Shape
    <3>2. i \in 1 .. Len(text) /\ h # 0 /\ text[h].name = n
      BY <3>1 DEF LinesUnder
    <3>3. before # {} /\ h = Max(before)
      BY <3>2 DEF HeaderOf
    <3> HIDE DEF h
    <3>4. h \in 1 .. i /\ IsHeader(h) /\ \A x \in 1 .. i : IsHeader(x) => x <= h
      <4>1. i \in Nat /\ before \subseteq 1 .. i
        BY <3>2
      <4>2. Max(before) \in before /\ \A x \in before : x <= Max(before)
        BY <3>3, <4>1, GreatestBelow
      <4> QED BY <3>3, <4>2
    <3>5. Named(i) = Named(h)
      <4>1. \A x : x \in 1 .. i /\ IsHeader(x) <=> x \in 1 .. h /\ IsHeader(x)
        BY <3>2, <3>4
      <4>2. {x \in 1 .. i : IsHeader(x)} = {x \in 1 .. h : IsHeader(x)}
        BY <4>1
      <4> QED BY <4>2, Zenon DEF Named
    <3>6. FirstHeader(n) = h
      <4> DEFINE opening == {x \in DOMAIN text : IsHeader(x) /\ text[x].name = n}
      <4>1. opening = {h}
        BY <3>1, <3>2, <3>4 DEF OpenedOnce
      <4>2. Min(opening) = h
        <5> HIDE DEF opening
        <5> QED BY <3>4, <4>1, MinIs
      <4> QED BY <4>2 DEF FirstHeader
    <3>7. SameArray(k, k)
      <4>1. \A e \in 0 .. MaxLines : 2 ^ e \in Int
        BY BoundAssumption
      <4>2. Capacities \subseteq Int
        BY <4>1 DEF Capacities
      <4> HIDE DEF Capacities
      <4> QED BY <2>2, <4>2 DEF SameArray
    <3> QED BY <2>2, <3>5, <3>6, <3>7 DEF Kept
  <2> QED BY <2>1, <2>3, <2>4
<1> QED BY <1>1, PointInit, PointNext, ParserReads, PTL DEF Spec
=============================================================================
