--------------------------- MODULE MRCheckProofs ---------------------------
(* Theorems about MRCheck, for every merge request, every configuration,   *)
(* every number of people and every size of a page.                        *)
EXTENDS MRCheck, TLAPS, FiniteSetTheorems, WellFoundedInduction

-----------------------------------------------------------------------------
(* Numbers.  Induction is used on sets of numbers.                         *)

\* Numbers have a least one.
LEMMA NatLeast ==
    ASSUME NEW T, T \subseteq Nat, T # {}
    PROVE  \E x \in T : \A y \in T : x <= y
<1> DEFINE R == OpToRel(<, Nat)
<1>1. IsWellFoundedOn(R, Nat)
  BY NatLessThanWellFounded
<1>2. \A x, y \in Nat : <<x, y>> \in R <=> x < y
  BY DEF OpToRel
<1> HIDE DEF R
<1>3. PICK x \in T : \A y \in T : ~(<<y, x>> \in R)
  BY <1>1, WFMin
<1>4. \A y \in T : ~(y < x)
  BY <1>2, <1>3
<1>5. \A y \in T : x <= y
  BY <1>4
<1> QED BY <1>5

\* A set that holds 0 and every successor holds every number.
LEMMA SetInduction ==
    ASSUME NEW S, 0 \in S, \A n \in Nat : n \in S => n + 1 \in S
    PROVE  Nat \subseteq S
<1> SUFFICES ASSUME Nat \ S # {} PROVE FALSE
  OBVIOUS
<1>1. PICK x \in Nat \ S : \A y \in Nat \ S : x <= y
  BY NatLeast
<1>2. x # 0 /\ x - 1 \in Nat
  BY <1>1
<1>3. x - 1 \in S
  BY <1>1, <1>2
<1> QED BY <1>1, <1>2, <1>3

\* The first of some places in a list.
LEMMA FirstPlace ==
    ASSUME NEW T, T \subseteq Nat, T # {}
    PROVE  Min(T) \in T /\ \A y \in T : Min(T) <= y
<1>1. \E x \in T : \A y \in T : x =< y
  BY NatLeast
<1> QED BY <1>1, Zenon DEF Min

\* The last of them.
LEMMA LastPlace ==
    ASSUME NEW n \in Nat, NEW T, T \subseteq 1 .. n, T # {}
    PROVE  Max(T) \in T /\ \A y \in T : Max(T) >= y
<1> DEFINE above == {n - x : x \in T}
<1>1. above \subseteq Nat /\ above # {}
  <2>1. \A x \in T : n - x \in Nat
    OBVIOUS
  <2> QED BY <2>1
<1>2. PICK z \in above : \A y \in above : z <= y
  BY <1>1, NatLeast
<1>3. PICK x \in T : z = n - x
  BY <1>2
<1>4. \A y \in T : n - y \in above
  OBVIOUS
<1> HIDE DEF above
<1>5. \A y \in T : x >= y
  BY <1>2, <1>3, <1>4
<1>6. \E m \in T : \A y \in T : m >= y
  BY <1>5
<1> QED BY <1>6, Zenon DEF Max

-----------------------------------------------------------------------------
(* Picked lists.                                                           *)

\* The parts of a picked list, one for each of the first n places.
IsPartOf(part, list, places, n) ==
    part = [i \in 0 .. n |->
              IF i = 0 THEN <<>>
              ELSE IF i \in places THEN Append(part[i - 1], list[i]) ELSE part[i - 1]]

\* There are such parts.
LEMMA PartsExist ==
    ASSUME NEW list, NEW places, NEW n \in Nat
    PROVE  \E part : IsPartOf(part, list, places, n)
<1> DEFINE S == {k \in Nat : \E part : IsPartOf(part, list, places, k)}
<1>1. 0 \in S
  <2> DEFINE one == [i \in 0 .. 0 |-> <<>>]
  <2>1. IsPartOf(one, list, places, 0)
    BY DEF IsPartOf
  <2> QED BY <2>1
<1>2. ASSUME NEW k \in Nat, k \in S PROVE k + 1 \in S
  <2>1. PICK part : IsPartOf(part, list, places, k)
    BY <1>2
  <2> DEFINE last == IF k + 1 \in places THEN Append(part[k], list[k + 1]) ELSE part[k]
             more == [i \in 0 .. k + 1 |-> IF i = k + 1 THEN last ELSE part[i]]
  <2>2. ASSUME NEW i \in 0 .. k + 1
        PROVE  more[i] = IF i = 0 THEN <<>>
                         ELSE IF i \in places THEN Append(more[i - 1], list[i]) ELSE more[i - 1]
    <3>1. CASE i = k + 1
      <4>1. i - 1 = k /\ i # 0 /\ k # k + 1 /\ k \in 0 .. k + 1
        BY <3>1
      <4>2. more[i - 1] = part[k] /\ more[i] = last
        BY <3>1, <4>1
      <4> HIDE DEF more
      <4> QED BY <3>1, <4>1, <4>2
    <3>2. CASE i # k + 1 /\ i # 0
      <4>1. i \in 0 .. k /\ i - 1 \in 0 .. k + 1 /\ i - 1 # k + 1
        BY <3>2
      <4>2. more[i - 1] = part[i - 1] /\ more[i] = part[i]
        BY <3>2, <4>1
      <4> HIDE DEF more
      <4> QED BY <2>1, <3>2, <4>1, <4>2 DEF IsPartOf
    <3>3. CASE i # k + 1 /\ i = 0
      <4>1. more[i] = part[0] /\ 0 \in 0 .. k
        BY <3>3
      <4> HIDE DEF more
      <4> QED BY <2>1, <3>3, <4>1 DEF IsPartOf
    <3> QED BY <3>1, <3>2, <3>3
  <2>3. more = [i \in 0 .. k + 1 |-> more[i]]
    OBVIOUS
  <2> HIDE DEF more
  <2>4. IsPartOf(more, list, places, k + 1)
    BY <2>2, <2>3 DEF IsPartOf
  <2> QED BY <2>4
<1> HIDE DEF S
<1>3. Nat \subseteq S
  BY <1>1, <1>2, SetInduction
<1> QED BY <1>3 DEF S

\* The picked list is the last of them.
LEMMA PickedLast ==
    ASSUME NEW list, NEW places, Len(list) \in Nat
    PROVE  \E part : /\ IsPartOf(part, list, places, Len(list))
                     /\ Picked(list, places) = part[Len(list)]
<1> DEFINE Parts(part) ==
             part = [i \in 0 .. Len(list) |->
                       IF i = 0 THEN <<>>
                       ELSE IF i \in places THEN Append(part[i - 1], list[i]) ELSE part[i - 1]]
           part == CHOOSE f : Parts(f)
<1>1. \A f : Parts(f) <=> IsPartOf(f, list, places, Len(list))
  BY DEF IsPartOf
<1>2. \E f : Parts(f)
  BY <1>1, PartsExist
<1>3. Parts(part)
  BY <1>2
<1>4. Picked(list, places) = part[Len(list)]
  BY DEF Picked
<1> HIDE DEF Parts, part
<1> QED BY <1>1, <1>3, <1>4

\* out has the elements of the list at these places, each once and in order:
\* from says where each comes from.
Selects(from, out, list, places) ==
    /\ DOMAIN out = 1 .. Len(out) /\ Len(out) \in Nat
    /\ from \in [DOMAIN out -> places]
    /\ \A j \in DOMAIN out : out[j] = list[from[j]]
    /\ \A j, k \in DOMAIN out : j < k => from[j] < from[k]
    /\ \A p \in places : \E j \in DOMAIN out : from[j] = p

\* What Picked is for.
LEMMA PickedIs ==
    ASSUME NEW X, NEW list \in Seq(X), NEW places, places \subseteq DOMAIN list
    PROVE  /\ Picked(list, places) \in Seq(X)
           /\ \E from : Selects(from, Picked(list, places), list, places)
<1> DEFINE n == Len(list)
<1>1. n \in Nat /\ DOMAIN list = 1 .. n /\ \A i \in 1 .. n : list[i] \in X
  OBVIOUS
<1>2. PICK part : IsPartOf(part, list, places, n) /\ Picked(list, places) = part[n]
  BY <1>1, PickedLast
<1> DEFINE upTo(k) == {p \in places : p <= k}
           Right(k) == part[k] \in Seq(X) /\ \E from : Selects(from, part[k], list, upTo(k))
           S == {k \in Nat : k <= n => Right(k)}
<1>3. part[0] = <<>> /\ \A k \in Nat : k + 1 <= n =>
        part[k + 1] = IF k + 1 \in places THEN Append(part[k], list[k + 1]) ELSE part[k]
  <2>1. \A i \in 0 .. n : part[i] = IF i = 0 THEN <<>>
              ELSE IF i \in places THEN Append(part[i - 1], list[i]) ELSE part[i - 1]
    BY <1>2, <1>1 DEF IsPartOf
  <2>2. \A k \in Nat : k + 1 <= n => k + 1 \in 0 .. n /\ k + 1 # 0 /\ (k + 1) - 1 = k
    BY <1>1
  <2>3. 0 \in 0 .. n
    BY <1>1
  <2> HIDE DEF n
  <2> QED BY <2>1, <2>2, <2>3
<1> HIDE DEF n, Right
<1>s. \A k \in Nat : k \in S <=> (k <= n => Right(k))
  OBVIOUS
<1> HIDE DEF S
<1>4. 0 \in S
  <2>1. upTo(0) = {}
    BY <1>1
  <2>2. Selects(<<>>, <<>>, list, {})
    BY DEF Selects
  <2>3. part[0] \in Seq(X)
    BY <1>3
  <2> HIDE DEF upTo
  <2>4. \E from : Selects(from, part[0], list, upTo(0))
    BY <1>3, <2>1, <2>2
  <2> QED BY <1>s, <2>3, <2>4 DEF Right
<1>5. ASSUME NEW k \in Nat, k \in S PROVE k + 1 \in S
  <2> SUFFICES ASSUME k + 1 <= n PROVE Right(k + 1)
    BY <1>s
  <2>1. Right(k)
    BY <1>5, <1>1, <1>s
  <2>2. PICK from : Selects(from, part[k], list, upTo(k))
    BY <2>1 DEF Right
  <2>3. CASE k + 1 \notin places
    <3>1. upTo(k + 1) = upTo(k)
      BY <1>1, <2>3
    <3>2. part[k + 1] = part[k]
      BY <1>3, <2>3
    <3> QED BY <2>1, <3>1, <3>2 DEF Right
  <2>4. CASE k + 1 \in places
    <3> DEFINE out == part[k]
               m == Len(out) + 1
               more == Append(out, list[k + 1])
               fromMore == [j \in 1 .. m |-> IF j = m THEN k + 1 ELSE from[j]]
    <3>1. part[k + 1] = more /\ k + 1 \in 1 .. n
      BY <1>3, <2>4, <1>1
    <3>2. upTo(k + 1) = upTo(k) \cup {k + 1} /\ \A p \in upTo(k) : p < k + 1
      BY <1>1, <2>4
    <3>3. out \in Seq(X) /\ list[k + 1] \in X
      BY <2>1, <1>1, <3>1 DEF Right
    <3>4. /\ Len(out) \in Nat /\ DOMAIN out = 1 .. Len(out) /\ m \in Nat
          /\ more \in Seq(X) /\ Len(more) = m /\ DOMAIN more = 1 .. m
          /\ more[m] = list[k + 1] /\ \A j \in 1 .. Len(out) : more[j] = out[j]
      BY <3>3
    <3>5. /\ \A j \in 1 .. m : j = m \/ (j \in 1 .. Len(out) /\ j # m /\ j < m)
          /\ m \in 1 .. m /\ \A j \in 1 .. Len(out) : j \in 1 .. m /\ j # m
      BY <3>4
    <3>6. /\ fromMore[m] = k + 1
          /\ \A j \in 1 .. Len(out) : fromMore[j] = from[j]
          /\ DOMAIN fromMore = 1 .. m
      BY <3>5
    <3> HIDE DEF upTo, out, more, m
    <3>7. /\ from \in [1 .. Len(out) -> upTo(k)]
          /\ \A j \in 1 .. Len(out) : out[j] = list[from[j]] /\ from[j] \in upTo(k)
          /\ \A j, i \in 1 .. Len(out) : j < i => from[j] < from[i]
          /\ \A p \in upTo(k) : \E j \in 1 .. Len(out) : from[j] = p
      BY <2>2, <3>4 DEF Selects, out
    <3>8. \A j \in 1 .. m : fromMore[j] \in upTo(k + 1) /\ more[j] = list[fromMore[j]]
      BY <3>2, <3>4, <3>5, <3>6, <3>7
    <3>9. \A j, i \in 1 .. m : j < i => fromMore[j] < fromMore[i]
      <4> SUFFICES ASSUME NEW j \in 1 .. m, NEW i \in 1 .. m, j < i
                   PROVE  fromMore[j] < fromMore[i]
        OBVIOUS
      <4>1. j \in 1 .. Len(out) /\ fromMore[j] = from[j] /\ from[j] < k + 1
        <5>1. j # m
          BY <3>4
        <5> QED BY <5>1, <3>2, <3>5, <3>6, <3>7
      <4>2. CASE i = m
        BY <4>1, <4>2, <3>6
      <4>3. CASE i # m
        BY <4>1, <4>3, <3>5, <3>6, <3>7
      <4> QED BY <4>2, <4>3
    <3>10. \A p \in upTo(k + 1) : \E j \in 1 .. m : fromMore[j] = p
      BY <3>2, <3>5, <3>6, <3>7
    <3>11. fromMore \in [1 .. m -> upTo(k + 1)]
      BY <3>6, <3>8
    <3> HIDE DEF fromMore
    <3>12. Selects(fromMore, more, list, upTo(k + 1))
      BY <3>4, <3>8, <3>9, <3>10, <3>11 DEF Selects
    <3> QED BY <3>1, <3>4, <3>12 DEF Right
  <2> QED BY <2>3, <2>4
<1>6. n \in S
  BY <1>1, <1>4, <1>5, SetInduction
<1>7. Right(n)
  BY <1>1, <1>6, <1>s
<1>8. upTo(n) = places
  BY <1>1
<1> HIDE DEF upTo
<1> QED BY <1>2, <1>7, <1>8 DEF Right

-----------------------------------------------------------------------------
(* Configurations.                                                         *)

\* The names of the rules are different.
LEMMA OrderIs ==
    /\ Order \in Seq(Range(Order)) /\ DOMAIN Order = 1 .. 6
    /\ Range(Order) = {"title", "description", "branch", "commits", "approvals", "squash"}
    /\ \A i, k \in DOMAIN Order : Order[i] = Order[k] => i = k
<1>1. /\ DOMAIN Order = 1 .. 6
      /\ Order[1] = "title" /\ Order[2] = "description" /\ Order[3] = "branch"
      /\ Order[4] = "commits" /\ Order[5] = "approvals" /\ Order[6] = "squash"
      /\ Order \in Seq({"title", "description", "branch", "commits", "approvals", "squash"})
  BY DEF Order
<1>2. \A i : i \in 1 .. 6 <=> i = 1 \/ i = 2 \/ i = 3 \/ i = 4 \/ i = 5 \/ i = 6
  OBVIOUS
<1>3. Range(Order) = {"title", "description", "branch", "commits", "approvals", "squash"}
  BY <1>1, <1>2 DEF Range
<1> QED BY <1>1, <1>2, <1>3

File(c) == IF c.file # <<>> THEN c.file[1] ELSE c.default

\* Lists and numbers of the configuration.
LEMMA ConfigIs ==
    ASSUME case \in Cases
    PROVE  /\ DOMAIN Config \subseteq Range(Order)
           /\ \A r \in DOMAIN Config : \A k \in DOMAIN Zero[r] :
                /\ k \in {"min", "max"} => Config[r][k] \in Int
                /\ k \in {"scopes", "prefixes", "enforce", "disallow"} =>
                     Config[r][k] \in Seq(Range(Config[r][k]))
<1> DEFINE file == File(case)
           rules == [r \in DOMAIN file |-> [k \in DOMAIN Zero[r] |->
                       IF k \in DOMAIN file[r] THEN file[r][k] ELSE Zero[r][k]]]
<1>1. Config = [r \in DOMAIN file |-> [k \in DOMAIN Zero[r] |->
                  IF k = "token" THEN case.token ELSE rules[r][k]]]
  <2>1. Unmarshal(file) = rules
    BY DEF Unmarshal
  <2>2. Config = [r \in DOMAIN Unmarshal(file) |-> [k \in DOMAIN Zero[r] |->
                    IF k = "token" THEN case.token ELSE Unmarshal(file)[r][k]]]
    BY DEF Config, File
  <2>3. DOMAIN rules = DOMAIN file
    OBVIOUS
  <2> HIDE DEF rules, file
  <2> QED BY <2>1, <2>2, <2>3
<1>2. Configuration(file)
  BY CaseAssumption DEF File
<1> HIDE DEF file
<1>3. DOMAIN file \subseteq Range(Order)
  BY <1>2 DEF Configuration
<1>4. ASSUME NEW r \in Range(Order), NEW k \in DOMAIN Zero[r]
      PROVE  /\ k \in {"min", "max"} => Zero[r][k] = 0
             /\ k \in {"scopes", "prefixes", "enforce", "disallow"} => Zero[r][k] = <<>>
  <2>1. CASE r = "title"
    BY <2>1 DEF Zero
  <2>2. CASE r = "description"
    BY <2>2 DEF Zero
  <2>3. CASE r = "branch"
    BY <2>3 DEF Zero
  <2>4. CASE r = "commits"
    BY <2>4 DEF Zero
  <2>5. CASE r = "approvals"
    BY <2>5 DEF Zero
  <2>6. CASE r = "squash"
    BY <2>6 DEF Zero
  <2> QED BY OrderIs, <2>1, <2>2, <2>3, <2>4, <2>5, <2>6
<1>5. ASSUME NEW r \in DOMAIN Config, NEW k \in DOMAIN Zero[r], k # "token"
      PROVE  /\ k \in {"min", "max"} => Config[r][k] \in Int
             /\ k \in {"scopes", "prefixes", "enforce", "disallow"} =>
                  Config[r][k] \in Seq(Range(Config[r][k]))
  <2>1. r \in DOMAIN file /\ r \in Range(Order)
    BY <1>1, <1>3
  <2>2. Config[r][k] = IF k \in DOMAIN file[r] THEN file[r][k] ELSE Zero[r][k]
    BY <1>1, <1>5, <2>1
  <2>3. CASE k \in DOMAIN file[r]
    BY <1>2, <2>1, <2>2, <2>3 DEF Configuration
  <2>4. CASE k \notin DOMAIN file[r]
    <3>1. <<>> \in Seq(Range(<<>>))
      OBVIOUS
    <3>2. Config[r][k] = Zero[r][k]
      BY <2>2, <2>4
    <3>3. ASSUME k \in {"scopes", "prefixes", "enforce", "disallow"}
          PROVE  Config[r][k] \in Seq(Range(Config[r][k]))
      <4>1. Config[r][k] = <<>>
        BY <1>4, <2>1, <3>2, <3>3
      <4> QED BY <3>1, <4>1, Zenon
    <3>4. k \in {"min", "max"} => Config[r][k] \in Int
      BY <1>4, <2>1, <3>2
    <3> QED BY <3>3, <3>4
  <2> QED BY <2>3, <2>4
<1> QED BY <1>1, <1>3, <1>5

\* The settings of a rule that the proofs use.
LEMMA SettingsAre ==
    ASSUME case \in Cases
    PROVE  /\ "title" \in DOMAIN Config =>
                /\ Config["title"].min \in Int /\ Config["title"].max \in Int
                /\ Config["title"].scopes \in Seq(Range(Config["title"].scopes))
           /\ "commits" \in DOMAIN Config =>
                /\ Config["commits"].max \in Int
                /\ Config["commits"].scopes \in Seq(Range(Config["commits"].scopes))
           /\ "description" \in DOMAIN Config => Config["description"].min \in Int
           /\ "approvals" \in DOMAIN Config => Config["approvals"].min \in Int
           /\ "squash" \in DOMAIN Config =>
                /\ Config["squash"].enforce \in Seq(Range(Config["squash"].enforce))
                /\ Config["squash"].disallow \in Seq(Range(Config["squash"].disallow))
<1>1. /\ {"min", "max", "scopes"} \subseteq DOMAIN Zero["title"]
      /\ {"max", "scopes"} \subseteq DOMAIN Zero["commits"]
      /\ "min" \in DOMAIN Zero["description"] /\ "min" \in DOMAIN Zero["approvals"]
      /\ {"enforce", "disallow"} \subseteq DOMAIN Zero["squash"]
  BY DEF Zero
<1> QED BY <1>1, ConfigIs

\* The rules run are those that are configured, each once.
LEMMA RulesAre ==
    ASSUME case \in Cases
    PROVE  /\ Len(Rules) \in Nat /\ DOMAIN Rules = 1 .. Len(Rules)
           /\ \A j \in DOMAIN Rules : Rules[j] \in DOMAIN Config
           /\ \A r \in DOMAIN Config : \E j \in DOMAIN Rules : Rules[j] = r
<1> DEFINE places == {i \in DOMAIN Order : Order[i] \in DOMAIN Config}
<1>1. Rules = Picked(Order, places)
  BY DEF Rules, BuildRules
<1>2. PICK from : Selects(from, Rules, Order, places)
  BY <1>1, OrderIs, PickedIs
<1>3. \A i \in places : Order[i] \in DOMAIN Config
  OBVIOUS
<1>4. \A r \in DOMAIN Config : \E i \in places : Order[i] = r
  BY ConfigIs DEF Range
<1> HIDE DEF places
<1> QED BY <1>2, <1>3, <1>4 DEF Selects

-----------------------------------------------------------------------------
(* The rules.                                                              *)

\* Search stops at the first pattern that matches or does not compile.
LEMMA SearchIs ==
    ASSUME NEW ps, ps \in Seq(Range(ps)), NEW name
    PROVE  /\ Search(ps, name) \in {"none", "bad", "match"}
           /\ Search(ps, name) = "none" =>
                \A i \in DOMAIN ps : ps[i] # BadPattern /\ name \notin ps[i]
           /\ Search(ps, name) = "bad" => BadPattern \in Range(ps)
           /\ Search(ps, name) = "bad" =>
                \E i \in DOMAIN ps : /\ ps[i] = BadPattern
                  /\ \A k \in 1 .. i - 1 : ~(ps[k] # BadPattern /\ name \in ps[k])
           /\ Search(ps, name) = "match" =>
                \E i \in DOMAIN ps : ps[i] # BadPattern /\ name \in ps[i]
<1> DEFINE stops == StopsAt(ps, name)
<1>1. stops \subseteq Nat /\ stops \subseteq DOMAIN ps
  BY DEF StopsAt
<1>2. \A i \in DOMAIN ps : i \in stops <=> ps[i] = BadPattern \/ name \in ps[i]
  BY DEF StopsAt
<1>3. stops # {} => Min(stops) \in stops /\ \A k \in stops : Min(stops) <= k
  BY <1>1, FirstPlace
<1>4. Search(ps, name) = IF stops = {} THEN "none"
                         ELSE IF ps[Min(stops)] = BadPattern THEN "bad" ELSE "match"
  BY DEF Search
<1> HIDE DEF stops
<1>5. CASE stops = {}
  BY <1>2, <1>4, <1>5
<1>6. CASE stops # {}
  <2>1. Min(stops) \in DOMAIN ps /\ (ps[Min(stops)] = BadPattern \/ name \in ps[Min(stops)])
    BY <1>1, <1>2, <1>3, <1>6
  <2>2. ps[Min(stops)] \in Range(ps)
    BY <2>1 DEF Range
  <2>3. \A k \in 1 .. Min(stops) - 1 : ~(ps[k] # BadPattern /\ name \in ps[k])
    <3>1. \A k \in 1 .. Min(stops) - 1 : k \in DOMAIN ps /\ k \notin stops
      BY <1>3, <1>6, <2>1
    <3> QED BY <1>2, <3>1
  <2> QED BY <1>4, <1>6, <2>1, <2>2, <2>3
<1> QED BY <1>5, <1>6

\* An issue is raised if there is reason for it.
LEMMA IssueIs == \A bad \in BOOLEAN : \A name : Issue(bad, name) = {} <=> ~bad
  BY DEF Issue

\* Verdicts with issues fail, the others pass.
LEMMA FailedIs == \A issues : /\ Failed(issues).kind = "failed" <=> issues # {}
                              /\ Failed(issues).kind \in {"passed", "failed"}
  BY DEF Failed

\* Only a scope that does not compile makes a rule panic.
LEMMA PanicIs ==
    ASSUME case \in Cases, NEW r \in DOMAIN Config, NEW cs, NEW approvers,
           Check(Config, r, case, cs, approvers).kind = "panic"
    PROVE  r \in {"title", "commits"} /\ BadPattern \in Range(Config[r].scopes)
<1>1. Panicked.kind = "panic" /\ Erred.kind = "error"
  BY DEF Panicked, Erred
<1>2. r \in {"title", "description", "branch", "commits", "approvals", "squash"}
  BY ConfigIs, OrderIs
<1>3. ASSUME NEW header, NEW c, c.scopes \in Seq(Range(c.scopes)), Explodes(c, header)
      PROVE  BadPattern \in Range(c.scopes)
  <2>1. Search(c.scopes, header.scope) = "bad"
    BY <1>3 DEF Explodes, ScopeSearch
  <2> QED BY <1>3, <2>1, SearchIs
<1>4. CASE r = "title"
  <2>1. Check(Config, r, case, cs, approvers) = Title(Config["title"], case.title)
    BY <1>4 DEF Check
  <2>2. Explodes(Config["title"], case.title.header)
    BY <2>1, FailedIs DEF Title
  <2> QED BY <1>3, <1>4, <2>2, SettingsAre
<1>5. CASE r = "commits"
  <2>1. Check(Config, r, case, cs, approvers) = Commits(Config["commits"], cs)
    BY <1>5 DEF Check
  <2>2. PICK k \in DOMAIN cs : Explodes(Config["commits"], cs[k].header)
    BY <2>1, FailedIs DEF Commits
  <2> QED BY <1>3, <1>5, <2>2, SettingsAre
<1>6. CASE r = "description"
  BY <1>6, FailedIs DEF Check, Description
<1>7. CASE r = "branch"
  BY <1>7, FailedIs DEF Check, Branch
<1>8. CASE r = "approvals"
  BY <1>8, FailedIs DEF Check, Approvals
<1>9. CASE r = "squash"
  BY <1>1, <1>9, FailedIs DEF Check, Squash
<1> QED BY <1>2, <1>4, <1>5, <1>6, <1>7, <1>8, <1>9

-----------------------------------------------------------------------------
(* One rule after the other.                                               *)

Verdict(r) == Check(Config, r, case, commits, Approvers)

\* The failures are those of the rules run so far, none of which panicked.
Judging ==
    /\ next \in 1 .. Len(Rules) + 1
    /\ failures \in Seq({[rule |-> r, issues |-> Verdict(r).issues] : r \in DOMAIN Config})
    /\ \A j \in 1 .. next - 1 : Verdict(Rules[j]).kind # "panic"
    /\ \A k \in DOMAIN failures : \E j \in 1 .. next - 1 :
         failures[k].rule = Rules[j] /\ Verdict(Rules[j]).kind = "failed"
    /\ \A j \in 1 .. next - 1 : Verdict(Rules[j]).kind = "failed" =>
         \E k \in DOMAIN failures : failures[k].rule = Rules[j]

JudgeInv ==
    /\ case \in Cases
    /\ stage \in {"idle", "approvals", "commits"} => next = 1 /\ failures = <<>>
    /\ stage \in {"rules", "threads", "post", "panicked"} =>
         Judging /\ commits = Page(case.commits, 1)
    /\ stage = "panicked" => \E r \in {"title", "commits"} \cap DOMAIN Config :
                               BadPattern \in Range(Config[r].scopes)

\* Initially no rule has been run.
LEMMA JudgeInit == Init => JudgeInv
  BY DEF Init, JudgeInv

\* Every step keeps it.
LEMMA JudgeNext == JudgeInv /\ [Next]_vars => JudgeInv'
<1> SUFFICES ASSUME JudgeInv, [Next]_vars PROVE JudgeInv'
  OBVIOUS
<1>1. case' = case /\ case \in Cases /\ Config' = Config /\ Rules' = Rules
  <2>1. case' = case
    BY DEF Next, People, Run, Approve, Comment, Quote, Delete, Start, ReadApprovals,
           ReadCommits, RunRule, Summarise, ReadThreads, Post, vars
  <2> QED BY <2>1 DEF JudgeInv, Config, Rules
<1>s. ASSUME UNCHANGED <<stage, next, failures, commits, tally>> PROVE JudgeInv'
  <2>1. \A r : Verdict(r)' = Verdict(r)
    BY <1>1, <1>s DEF Verdict, Approvers
  <2> QED BY <1>1, <1>s, <2>1 DEF JudgeInv, Judging
<1>2. CASE People \/ UNCHANGED vars
  BY <1>2, <1>s DEF People, Approve, Comment, Quote, Delete, run, history, vars
<1>3. CASE Start
  BY <1>1, <1>3 DEF Start, JudgeInv
<1>4. CASE ReadApprovals
  BY <1>1, <1>4 DEF ReadApprovals, Fetch, JudgeInv
<1>5. CASE ReadCommits
  <2>1. next' = 1 /\ failures' = <<>> /\ stage' = "rules" /\ commits' = Page(case.commits, 1)
    BY <1>5 DEF ReadCommits, JudgeInv
  <2>2. Judging'
    BY <1>1, <2>1, RulesAre DEF Judging
  <2> QED BY <1>1, <2>1, <2>2 DEF JudgeInv
<1>6. CASE RunRule
  <2> DEFINE r == Rules[next]
             v == Verdict(r)
  <2>1. /\ stage = "rules" /\ next <= Len(Rules) /\ UNCHANGED <<commits, tally>>
        /\ \/ v.kind = "panic" /\ stage' = "panicked" /\ UNCHANGED <<next, failures>>
           \/ /\ v.kind # "panic" /\ next' = next + 1 /\ stage' = "rules"
              /\ failures' = IF v.kind = "failed"
                             THEN Append(failures, [rule |-> r, issues |-> v.issues])
                             ELSE failures
    BY <1>6 DEF RunRule, Verdict, AfterRule
  <2>2. \A q : Verdict(q)' = Verdict(q)
    BY <1>1, <2>1 DEF Verdict, Approvers
  <2>3. Judging /\ commits = Page(case.commits, 1)
    BY <2>1 DEF JudgeInv
  <2>4. next \in DOMAIN Rules /\ r \in DOMAIN Config /\ next \in Nat /\ Len(Rules) \in Nat
    BY <1>1, <2>1, <2>3, RulesAre DEF Judging
  <2>5. CASE v.kind = "panic"
    <3>1. r \in {"title", "commits"} \cap DOMAIN Config /\ BadPattern \in Range(Config[r].scopes)
      BY <1>1, <2>4, <2>5, PanicIs DEF Verdict
    <3>2. Judging'
      BY <1>1, <2>1, <2>2, <2>3, <2>5 DEF Judging
    <3> QED BY <1>1, <2>1, <2>3, <2>5, <3>1, <3>2 DEF JudgeInv
  <2>6. CASE v.kind # "panic"
    <3> DEFINE f == [rule |-> r, issues |-> v.issues]
               F == {[rule |-> q, issues |-> Verdict(q).issues] : q \in DOMAIN Config}
    <3>1. f \in F /\ f.rule = r
      BY <2>4
    <3>2. failures \in Seq(F)
      BY <2>3 DEF Judging
    <3> HIDE DEF F, f, v, r
    <3>3. next' = next + 1 /\ next' \in 1 .. Len(Rules) + 1
      BY <2>1, <2>4, <2>6
    <3>4. \A j \in 1 .. next' - 1 : j \in 1 .. next - 1 \/ j = next
      BY <2>4, <3>3
    <3>5. \A j \in 1 .. next - 1 : j \in 1 .. next' - 1
      BY <2>4, <3>3
    <3>6. next \in 1 .. next' - 1 /\ Verdict(Rules[next]).kind = v.kind
      BY <2>4, <3>3 DEF v, r
    <3>7. CASE v.kind = "failed"
      <4>1. failures' = Append(failures, f)
        BY <2>1, <2>6, <3>7 DEF f
      <4>2. /\ failures' \in Seq(F) /\ DOMAIN failures' = DOMAIN failures \cup {Len(failures) + 1}
            /\ \A k \in DOMAIN failures : failures'[k] = failures[k]
            /\ failures'[Len(failures) + 1] = f
        BY <3>1, <3>2, <4>1
      <4>3. failures'[Len(failures) + 1].rule = Rules[next]
        BY <3>1, <4>2 DEF r
      <4>4. \A k \in DOMAIN failures' : \E j \in 1 .. next' - 1 :
              failures'[k].rule = Rules[j] /\ Verdict(Rules[j]).kind = "failed"
        BY <2>3, <3>5, <3>6, <3>7, <4>2, <4>3 DEF Judging
      <4>5. \A j \in 1 .. next' - 1 : Verdict(Rules[j]).kind = "failed" =>
              \E k \in DOMAIN failures' : failures'[k].rule = Rules[j]
        BY <2>3, <3>4, <4>2, <4>3 DEF Judging
      <4>6. \A j \in 1 .. next' - 1 : Verdict(Rules[j]).kind # "panic"
        BY <2>3, <2>6, <3>4, <3>6 DEF Judging
      <4>7. Judging'
        BY <1>1, <2>2, <3>3, <4>2, <4>4, <4>5, <4>6 DEF Judging, F
      <4> QED BY <1>1, <2>1, <2>3, <2>6, <4>7 DEF JudgeInv
    <3>8. CASE v.kind # "failed"
      <4>1. failures' = failures
        BY <2>1, <2>6, <3>8
      <4>4. \A k \in DOMAIN failures : \E j \in 1 .. next' - 1 :
              failures[k].rule = Rules[j] /\ Verdict(Rules[j]).kind = "failed"
        BY <2>3, <3>5 DEF Judging
      <4>5. \A j \in 1 .. next' - 1 : Verdict(Rules[j]).kind = "failed" =>
              \E k \in DOMAIN failures : failures[k].rule = Rules[j]
        BY <2>3, <3>4, <3>6, <3>8 DEF Judging
      <4>6. \A j \in 1 .. next' - 1 : Verdict(Rules[j]).kind # "panic"
        BY <2>3, <2>6, <3>4, <3>6 DEF Judging
      <4>7. Judging'
        BY <1>1, <2>2, <3>2, <3>3, <4>1, <4>4, <4>5, <4>6 DEF Judging, F
      <4> QED BY <1>1, <2>1, <2>3, <2>6, <4>7 DEF JudgeInv
    <3> QED BY <3>7, <3>8
  <2> QED BY <2>5, <2>6
<1>7. CASE Summarise \/ ReadThreads
  <2>1. UNCHANGED <<next, failures, commits, tally>> /\ stage \in {"rules", "threads"}
        /\ stage' \in {"threads", "post"}
    BY <1>7 DEF Summarise, ReadThreads, Fetch
  <2>2. \A r : Verdict(r)' = Verdict(r)
    BY <1>1, <2>1 DEF Verdict, Approvers
  <2> QED BY <1>1, <2>1, <2>2 DEF JudgeInv, Judging
<1>8. CASE Post
  BY <1>1, <1>8 DEF Post, Forget, JudgeInv
<1> QED BY <1>2, <1>3, <1>4, <1>5, <1>6, <1>7, <1>8 DEF Next, Run

\* What is known of a run that has been through all rules.
LEMMA JudgedIs ==
    ASSUME JudgeInv, Judged
    PROVE  /\ commits = Page(case.commits, 1)
           /\ \A r \in DOMAIN Config : /\ HasFailed(r) <=> Verdict(r).kind = "failed"
                                       /\ Verdict(r).kind # "panic"
           /\ \A r : HasFailed(r) => r \in DOMAIN Config
           /\ \A k \in DOMAIN failures : Verdict(failures[k].rule).kind = "failed"
<1>1. Judging /\ commits = Page(case.commits, 1) /\ case \in Cases
  BY DEF JudgeInv, Judged
<1>2. /\ Len(Rules) \in Nat /\ DOMAIN Rules = 1 .. Len(Rules)
      /\ \A j \in DOMAIN Rules : Rules[j] \in DOMAIN Config
      /\ \A r \in DOMAIN Config : \E j \in DOMAIN Rules : Rules[j] = r
  BY <1>1, RulesAre
<1>3. next > Len(Rules) /\ next \in 1 .. Len(Rules) + 1
  BY <1>1 DEF Judged, Judging
<1>4. 1 .. next - 1 = DOMAIN Rules
  BY <1>2, <1>3
<1> QED BY <1>1, <1>2, <1>4 DEF Judging, HasFailed

\* Squashing is required unless a disallow pattern matches, forbidden if one
\* does and no enforce pattern does; a broken pattern only lets pass.
THEOREM SquashObeyed == Spec => []SquashAsConfigured
<1>1. JudgeInv => SquashAsConfigured
  <2> DEFINE c == Config["squash"]
             matches(ps) == \E i \in DOMAIN ps : ps[i] # BadPattern /\ case.branch \in ps[i]
             wrong == \/ case.squash /\ matches(c.disallow) /\ ~matches(c.enforce)
                      \/ ~case.squash /\ ~matches(c.disallow)
             e == Search(c.enforce, case.branch)
             d == Search(c.disallow, case.branch)
             broken(ps) == \E i \in DOMAIN ps : /\ ps[i] = BadPattern
                             /\ \A k \in 1 .. i - 1 : ~(ps[k] # BadPattern /\ case.branch \in ps[k])
  <2> SUFFICES ASSUME JudgeInv, Judged, "squash" \in DOMAIN Config
               PROVE  /\ HasFailed("squash") => wrong
                      /\ wrong /\ ~broken(c.enforce) /\ ~broken(c.disallow) => HasFailed("squash")
    BY DEF SquashAsConfigured
  <2>1. HasFailed("squash") <=> Squash(c, case).kind = "failed"
    BY JudgedIs DEF Verdict, Check
  <2>2. c.enforce \in Seq(Range(c.enforce)) /\ c.disallow \in Seq(Range(c.disallow))
    BY SettingsAre DEF JudgeInv
  <2>3. /\ e \in {"none", "bad", "match"} /\ d \in {"none", "bad", "match"}
        /\ e = "none" => ~matches(c.enforce)
        /\ d = "none" => ~matches(c.disallow)
        /\ e = "match" => matches(c.enforce)
        /\ d = "match" => matches(c.disallow)
        /\ e = "bad" => broken(c.enforce)
        /\ d = "bad" => broken(c.disallow)
    BY <2>2, SearchIs
  <2>4. Squash(c, case) =
          IF e = "bad" THEN Erred
          ELSE IF e = "match" /\ case.squash THEN Failed({})
          ELSE IF d = "bad" THEN Erred
          ELSE IF d = "match" /\ ~case.squash THEN Failed({})
          ELSE IF e = "none" /\ d = "none" THEN Failed(Issue(~case.squash, "default"))
          ELSE Failed(Issue(e = "match", "enforce") \cup Issue(d = "match", "disallow"))
    BY DEF Squash
  <2> HIDE DEF matches, e, d, broken, c
  <2>5. /\ Erred.kind # "failed" /\ Failed({}).kind # "failed"
        /\ Failed(Issue(~case.squash, "default")).kind = "failed" <=> ~case.squash
        /\ e = "match" \/ d = "match" =>
             Failed(Issue(e = "match", "enforce") \cup Issue(d = "match", "disallow")).kind = "failed"
    BY DEF Erred, Failed, Issue
  <2> QED BY <2>1, <2>3, <2>4, <2>5
<1> QED BY <1>1, JudgeInit, JudgeNext, PTL DEF Spec

\* Sorting keeps the failures, errors first.
LEMMA SortedIs ==
    ASSUME NEW X, NEW fs \in Seq(X),
           \A k \in DOMAIN fs : Severity(fs[k].rule) \in {0, 1}
    PROVE  /\ Sorted(fs) \in Seq(X)
           /\ \A i \in DOMAIN Sorted(fs) : \E k \in DOMAIN fs : Sorted(fs)[i] = fs[k]
           /\ \A k \in DOMAIN fs : \E i \in DOMAIN Sorted(fs) : Sorted(fs)[i] = fs[k]
           /\ \A i, k \in DOMAIN Sorted(fs) : i < k =>
                Severity(Sorted(fs)[i].rule) >= Severity(Sorted(fs)[k].rule)
<1> DEFINE places(n) == {k \in DOMAIN fs : Severity(fs[k].rule) = n}
           a == OfSeverity(fs, 1)
           b == OfSeverity(fs, 0)
<1>1. ASSUME NEW n
      PROVE  /\ OfSeverity(fs, n) \in Seq(X)
             /\ \A i \in DOMAIN OfSeverity(fs, n) : \E k \in DOMAIN fs :
                  OfSeverity(fs, n)[i] = fs[k] /\ Severity(fs[k].rule) = n
             /\ \A k \in DOMAIN fs : Severity(fs[k].rule) = n =>
                  \E i \in DOMAIN OfSeverity(fs, n) : OfSeverity(fs, n)[i] = fs[k]
  <2>1. OfSeverity(fs, n) = Picked(fs, places(n))
    BY DEF OfSeverity
  <2>2. OfSeverity(fs, n) \in Seq(X)
        /\ \E from : Selects(from, OfSeverity(fs, n), fs, places(n))
    BY <2>1, PickedIs
  <2>3. PICK from : Selects(from, OfSeverity(fs, n), fs, places(n))
    BY <2>2
  <2>4. \A k : k \in places(n) <=> k \in DOMAIN fs /\ Severity(fs[k].rule) = n
    OBVIOUS
  <2> HIDE DEF places
  <2> QED BY <2>2, <2>3, <2>4 DEF Selects
<1>2. Sorted(fs) = a \o b
  BY DEF Sorted
<1>3. /\ a \in Seq(X) /\ b \in Seq(X)
      /\ \A i \in DOMAIN a : \E k \in DOMAIN fs : a[i] = fs[k] /\ Severity(fs[k].rule) = 1
      /\ \A i \in DOMAIN b : \E k \in DOMAIN fs : b[i] = fs[k] /\ Severity(fs[k].rule) = 0
      /\ \A k \in DOMAIN fs : Severity(fs[k].rule) = 1 => \E i \in DOMAIN a : a[i] = fs[k]
      /\ \A k \in DOMAIN fs : Severity(fs[k].rule) = 0 => \E i \in DOMAIN b : b[i] = fs[k]
  BY <1>1
<1> HIDE DEF places, a, b
<1>4. /\ Len(a) \in Nat /\ Len(b) \in Nat
      /\ DOMAIN a = 1 .. Len(a) /\ DOMAIN b = 1 .. Len(b)
      /\ a \o b \in Seq(X) /\ DOMAIN (a \o b) = 1 .. Len(a) + Len(b)
      /\ \A i \in 1 .. Len(a) : (a \o b)[i] = a[i]
      /\ \A i \in 1 .. Len(b) : (a \o b)[Len(a) + i] = b[i]
  BY <1>3
<1>5. \A i \in DOMAIN (a \o b) :
        \/ i \in DOMAIN a /\ (a \o b)[i] = a[i]
        \/ /\ i > Len(a) /\ i - Len(a) \in DOMAIN b
           /\ (a \o b)[i] = b[i - Len(a)]
  <2> SUFFICES ASSUME NEW i \in 1 .. Len(a) + Len(b), i \notin 1 .. Len(a)
               PROVE  i > Len(a) /\ i - Len(a) \in 1 .. Len(b) /\ (a \o b)[i] = b[i - Len(a)]
    BY <1>4
  <2>1. i > Len(a) /\ i - Len(a) \in 1 .. Len(b) /\ Len(a) + (i - Len(a)) = i
    BY <1>4
  <2> QED BY <1>4, <2>1
<1>6. /\ \A i \in DOMAIN a : i \in DOMAIN (a \o b)
      /\ \A i \in DOMAIN b : Len(a) + i \in DOMAIN (a \o b)
  BY <1>4
<1> DEFINE s == a \o b
<1> HIDE DEF s
<1>7. \A i \in DOMAIN s : \E k \in DOMAIN fs : s[i] = fs[k]
  <2> TAKE i \in DOMAIN s
  <2>1. CASE i \in DOMAIN a /\ s[i] = a[i]
    BY <1>3, <2>1
  <2>2. CASE i - Len(a) \in DOMAIN b /\ s[i] = b[i - Len(a)]
    <3>1. PICK k \in DOMAIN fs : b[i - Len(a)] = fs[k]
      BY <1>3, <2>2
    <3> QED BY <3>1, <2>2
  <2> QED BY <1>5, <2>1, <2>2 DEF s
<1>8. \A k \in DOMAIN fs : \E i \in DOMAIN s : s[i] = fs[k]
  <2> TAKE k \in DOMAIN fs
  <2>1. CASE Severity(fs[k].rule) = 1
    <3>1. PICK i \in DOMAIN a : a[i] = fs[k]
      BY <1>3, <2>1
    <3>2. i \in DOMAIN s /\ s[i] = a[i]
      BY <1>4, <1>6 DEF s
    <3> QED BY <3>1, <3>2
  <2>2. CASE Severity(fs[k].rule) = 0
    <3>1. PICK i \in DOMAIN b : b[i] = fs[k]
      BY <1>3, <2>2
    <3>2. Len(a) + i \in DOMAIN s /\ s[Len(a) + i] = b[i]
      BY <1>4, <1>6 DEF s
    <3> QED BY <3>1, <3>2
  <2> QED BY <2>1, <2>2 DEF Severity
<1>9. ASSUME NEW i \in DOMAIN s, NEW k \in DOMAIN s, i < k
      PROVE  Severity(s[i].rule) >= Severity(s[k].rule)
  <2>1. CASE i \in DOMAIN a /\ s[i] = a[i]
    <3>1. Severity(s[i].rule) = 1
      BY <1>3, <2>1
    <3>2. Severity(s[k].rule) \in {0, 1}
      BY <1>7
    <3> QED BY <3>1, <3>2
  <2>2. CASE ~(i \in DOMAIN a /\ s[i] = a[i])
    <3>1. i > Len(a) /\ i \in 1 .. Len(a) + Len(b) /\ k \in 1 .. Len(a) + Len(b)
      BY <1>4, <1>5, <2>2 DEF s
    <3>2. k \notin DOMAIN a
      BY <1>4, <1>9, <3>1
    <3>3. k - Len(a) \in DOMAIN b /\ s[k] = b[k - Len(a)]
      BY <1>5, <3>2 DEF s
    <3>4. i - Len(a) \in DOMAIN b /\ s[i] = b[i - Len(a)]
      BY <1>5, <2>2 DEF s
    <3>5. Severity(s[i].rule) = 0 /\ Severity(s[k].rule) = 0
      BY <1>3, <3>3, <3>4
    <3> QED BY <3>5
  <2> QED BY <2>1, <2>2
<1> QED BY <1>2, <1>4, <1>7, <1>8, <1>9 DEF s

\* Unless a rule panics, the summary names every enabled rule that fails,
\* errors before warnings.
THEOREM EverythingTold == Spec => []ReportTellsAll
<1>1. JudgeInv => ReportTellsAll
  <2> SUFFICES ASSUME JudgeInv PROVE ReportTellsAll
    OBVIOUS
  <2>1. ASSUME Judged
        PROVE  /\ Range(Summary) = {r \in DOMAIN Config :
                    Check(Config, r, case, Page(case.commits, 1), Approvers).kind = "failed"}
               /\ \A i, k \in DOMAIN Summary : i < k =>
                    Severity(Summary[i]) >= Severity(Summary[k])
    <3> DEFINE X == {[rule |-> r, issues |-> Verdict(r).issues] : r \in DOMAIN Config}
               s == Sorted(failures)
    <3>1. failures \in Seq(X)
      BY <2>1 DEF JudgeInv, Judged, Judging
    <3>2. \A r : Severity(r) \in {0, 1}
      BY DEF Severity
    <3> HIDE DEF X
    <3>3. /\ s \in Seq(X)
          /\ \A i \in DOMAIN s : \E k \in DOMAIN failures : s[i] = failures[k]
          /\ \A k \in DOMAIN failures : \E i \in DOMAIN s : s[i] = failures[k]
          /\ \A i, k \in DOMAIN s : i < k => Severity(s[i].rule) >= Severity(s[k].rule)
      BY <3>1, <3>2, SortedIs
    <3>4. Summary = [k \in DOMAIN s |-> s[k].rule]
      BY DEF Summary
    <3> HIDE DEF s
    <3>5. Range(Summary) = {failures[k].rule : k \in DOMAIN failures}
      BY <3>3, <3>4 DEF Range
    <3>6. \A r : r \in {failures[k].rule : k \in DOMAIN failures} <=>
            r \in DOMAIN Config /\ Verdict(r).kind = "failed"
      BY <2>1, JudgedIs DEF HasFailed
    <3>7. \A r : Verdict(r) = Check(Config, r, case, Page(case.commits, 1), Approvers)
      BY <2>1, JudgedIs DEF Verdict
    <3> QED BY <3>3, <3>4, <3>5, <3>6, <3>7
  <2> QED BY <2>1 DEF ReportTellsAll, JudgeInv
<1> QED BY <1>1, JudgeInit, JudgeNext, PTL DEF Spec


-----------------------------------------------------------------------------
(* References.                                                             *)

\* A text that raises no ticket issue refers to a ticket, or need not.
LEMMA ReferenceIs ==
    ASSUME NEW c, NEW t, t.tickets \in Seq(Range(t.tickets)), TicketIssues(c, t.tickets) = {}
    PROVE  Refers(c, t)
<1> DEFINE ts == t.tickets
           finds == Finds(c, ts)
           jira == {i \in DOMAIN ts : LooksJira(ts[i])}
           asana == LooksAsana(ts)
<1> SUFFICES ASSUME ~(~IsOn(c.jira) /\ ~IsOn(c.asana)) PROVE Refers(c, t)
  BY DEF Refers
<1>1. PICK f \in finds : f.valid
  <2>1. {"no ticket"} # {}
    OBVIOUS
  <2>2. finds # {} => {f.system : f \in finds} # {}
    OBVIOUS
  <2> HIDE DEF finds
  <2>3. TicketIssues(c, ts) = IF finds = {} THEN {"no ticket"}
                              ELSE IF \E f \in finds : f.valid THEN {}
                              ELSE {f.system : f \in finds}
    BY DEF TicketIssues, finds
  <2> QED BY <2>1, <2>2, <2>3
<1>2. jira # {} => Min(jira) \in jira
  <2>1. jira \subseteq Nat
    OBVIOUS
  <2> QED BY <2>1, FirstPlace
<1>3. asana # {} => Min(asana) \in asana
  <2>1. asana \subseteq Nat
    BY DEF LooksAsana, Places
  <2> QED BY <2>1, FirstPlace
<1>4. \/ /\ IsOn(c.jira) /\ jira # {}
         /\ f = [system |-> "Jira", valid |-> JiraValid(c, ts[Min(jira)])]
      \/ /\ IsOn(c.asana) /\ asana # {}
         /\ f = [system |-> "Asana", valid |-> AsanaValid(c, ts[Min(asana)])]
  BY <1>1 DEF Finds
<1>5. CASE IsOn(c.jira) /\ jira # {} /\ JiraValid(c, ts[Min(jira)])
  <2>1. /\ Min(jira) \in DOMAIN ts /\ ts[Min(jira)].key \in Range(c.jira)
        /\ ts[Min(jira)].form # "url" /\ ts[Min(jira)].spaced
    BY <1>2, <1>5 DEF JiraValid, LooksJira
  <2> QED BY <1>5, <2>1 DEF Refers
<1>6. CASE IsOn(c.asana) /\ asana # {} /\ AsanaValid(c, ts[Min(asana)])
  <2>1. /\ Min(asana) \in DOMAIN ts /\ ts[Min(asana)].form \in {"task", "url"}
        /\ ts[Min(asana)].form = "task" => ts[Min(asana)].key \in Range(c.asana)
        /\ c.confirm /\ c.token => ts[Min(asana)].confirmed
    BY <1>3, <1>6 DEF LooksAsana, Places, AsanaValid
  <2> QED BY <1>6, <2>1 DEF Refers
<1> QED BY <1>1, <1>4, <1>5, <1>6

\* A header that raises no issue and no panic is as the configuration asks.
LEMMA ConventionalIs ==
    ASSUME NEW c, c.scopes \in Seq(Range(c.scopes)), NEW t,
           HeaderIssues(c, t.header) = {}, ~Explodes(c, t.header)
    PROVE  Conventional(c, t)
<1>1. t.header # NoHeader
  BY DEF HeaderIssues
<1>2. Issue(t.header.type \notin c.types, "type") = {}
      /\ Issue(ScopeSearch(c, t.header) = "none", "scope") = {}
  BY <1>1 DEF HeaderIssues
<1>3. t.header.type \in c.types /\ ScopeSearch(c, t.header) # "none"
  BY <1>2 DEF Issue
<1>4. ScopeSearch(c, t.header) # "bad"
  BY DEF Explodes
<1>5. CASE t.header.scope = NoScope \/ c.scopes = <<>>
  BY <1>1, <1>3, <1>5 DEF Conventional
<1>6. CASE ~(t.header.scope = NoScope \/ c.scopes = <<>>)
  <2>1. ScopeSearch(c, t.header) = Search(c.scopes, t.header.scope)
    BY <1>1, <1>6 DEF ScopeSearch
  <2>2. Search(c.scopes, t.header.scope) = "match"
    BY <1>3, <1>4, <2>1, SearchIs
  <2> QED BY <1>1, <1>3, <2>2, SearchIs DEF Conventional
<1> QED BY <1>5, <1>6

\* The first page is the beginning of the list.
LEMMA FirstPageIs ==
    ASSUME NEW X, NEW list \in Seq(X)
    PROVE  /\ Page(list, 1) \in Seq(X)
           /\ Len(Page(list, 1)) = IF PageSize < Len(list) THEN PageSize ELSE Len(list)
           /\ \A k \in DOMAIN Page(list, 1) : k \in DOMAIN list /\ Page(list, 1)[k] = list[k]
<1> DEFINE n == IF PageSize < Len(list) THEN PageSize ELSE Len(list)
<1>1. n \in 0 .. Len(list)
  BY PageAssumption
<1>2. Page(list, 1) = SubSeq(list, 1, n)
  <2>1. (1 - 1) * PageSize + 1 = 1 /\ 1 * PageSize = PageSize
    BY PageAssumption
  <2> QED BY <2>1 DEF Page
<1> HIDE DEF n
<1>3. /\ SubSeq(list, 1, n) \in Seq(X) /\ Len(SubSeq(list, 1, n)) = n
      /\ DOMAIN SubSeq(list, 1, n) = 1 .. n /\ 1 .. n \subseteq DOMAIN list
      /\ \A k \in 1 .. n : SubSeq(list, 1, n)[k] = list[k]
  BY <1>1
<1>4. n = IF PageSize < Len(list) THEN PageSize ELSE Len(list)
  BY DEF n
<1> QED BY <1>2, <1>3, <1>4

\* A title, a description and the commits pass only if they obey all that their
\* settings ask for - except the commits beyond the first page.
THEOREM NothingPassesUnearned == Spec => []PassesAreEarned
<1>1. JudgeInv => PassesAreEarned
  <2> SUFFICES ASSUME JudgeInv, Judged PROVE PassesAreEarned
    BY DEF PassesAreEarned
  <2>1. case \in Cases
    BY DEF JudgeInv
  <2>2. ASSUME NEW r, Passed(r)
        PROVE  /\ r \in DOMAIN Config
               /\ Check(Config, r, case, Page(case.commits, 1), Approvers).kind
                    \notin {"failed", "panic"}
    BY <2>2, JudgedIs DEF Passed, Verdict
  <2>3. /\ Readable(case.title) /\ Readable(case.description)
        /\ case.commits \in Seq(Range(case.commits))
        /\ \A t \in Range(case.commits) : Readable(t)
    BY <2>1, CaseAssumption
  <2>4. ASSUME Passed("title")
        PROVE  ObeyingTitle(Config["title"], case.title)
    <3> DEFINE c == Config["title"]
               t == case.title
    <3>1. /\ "title" \in DOMAIN Config
          /\ Title(c, t).kind \notin {"failed", "panic"}
      BY <2>2, <2>4 DEF Check
    <3>2. c.min \in Int /\ c.max \in Int /\ c.scopes \in Seq(Range(c.scopes))
      BY <2>1, <3>1, SettingsAre
    <3> HIDE DEF c, t
    <3>3. ~Explodes(c, t.header)
      BY <3>1 DEF Title, Panicked
    <3>4. /\ Issue(t.length < c.min, "short") = {} /\ Issue(t.length > c.max, "long") = {}
          /\ HeaderIssues(c, t.header) = {} /\ TicketIssues(c, t.tickets) = {}
          /\ Issue(t.words \cap c.forbidden # {}, "forbidden") = {}
      BY <3>1, <3>3, FailedIs DEF Title
    <3>5. t.length \in Nat /\ t.tickets \in Seq(Range(t.tickets))
      BY <2>3 DEF Readable, t
    <3>6. t.length >= c.min /\ t.length <= c.max /\ t.words \cap c.forbidden = {}
      BY <3>2, <3>4, <3>5 DEF Issue
    <3>7. Obeys(c, t)
      BY <3>2, <3>3, <3>4, <3>5, <3>6, ReferenceIs, ConventionalIs DEF Obeys
    <3> QED BY <3>6, <3>7 DEF ObeyingTitle, c, t
  <2>5. ASSUME Passed("commits")
        PROVE  Cardinality({k \in DOMAIN case.commits :
                              ~Obeys(Config["commits"], case.commits[k])})
                 <= (IF HasNext(case.commits, 1) THEN Len(case.commits) - PageSize ELSE 0)
    <3> DEFINE c == Config["commits"]
               all == case.commits
               read == Page(all, 1)
               wrong == {k \in DOMAIN all : ~Obeys(c, all[k])}
    <3>1. "commits" \in DOMAIN Config /\ Commits(c, read).kind \notin {"failed", "panic"}
      BY <2>2, <2>5 DEF Check
    <3>2. c.max \in Int /\ c.scopes \in Seq(Range(c.scopes))
      BY <2>1, <3>1, SettingsAre
    <3>3. /\ all \in Seq(Range(all))
          /\ \A k \in DOMAIN all : all[k].length \in Nat
                                   /\ all[k].tickets \in Seq(Range(all[k].tickets))
      BY <2>3 DEF Readable, Range
    <3>4. /\ read \in Seq(Range(all))
          /\ Len(read) = IF PageSize < Len(all) THEN PageSize ELSE Len(all)
          /\ \A k \in DOMAIN read : k \in DOMAIN all /\ read[k] = all[k]
      BY <3>3, FirstPageIs
    <3> HIDE DEF c, all, read
    <3>5. ASSUME NEW k \in DOMAIN read PROVE Obeys(c, all[k])
      <4>1. ~Explodes(c, read[k].header)
        BY <3>1 DEF Commits, Panicked
      <4>2. Commits(c, read) = Failed(UNION {{<<issue, j>> : issue \in CommitIssues(c, read[j])} :
                                               j \in DOMAIN read})
        BY <3>1 DEF Commits, Panicked
      <4>3. UNION {{<<issue, j>> : issue \in CommitIssues(c, read[j])} : j \in DOMAIN read} = {}
        BY <3>1, <4>2, FailedIs
      <4>4. CommitIssues(c, read[k]) = {}
        <5>1. \A issue \in CommitIssues(c, read[k]) :
                <<issue, k>> \in UNION {{<<is, j>> : is \in CommitIssues(c, read[j])} :
                                          j \in DOMAIN read}
          OBVIOUS
        <5> QED BY <4>3, <5>1
      <4> DEFINE t == all[k]
      <4>5. t = read[k] /\ t.length \in Nat /\ t.tickets \in Seq(Range(t.tickets))
        BY <3>3, <3>4
      <4> HIDE DEF t
      <4>6. /\ Issue(t.length > c.max, "long") = {} /\ HeaderIssues(c, t.header) = {}
            /\ TicketIssues(c, t.tickets) = {} /\ ~Explodes(c, t.header)
        BY <4>1, <4>4, <4>5 DEF CommitIssues
      <4>7. t.length <= c.max
        BY <3>2, <4>5, <4>6 DEF Issue
      <4>8. Obeys(c, t)
        BY <3>2, <4>5, <4>6, <4>7, ReferenceIs, ConventionalIs DEF Obeys
      <4> QED BY <4>8 DEF t
    <3>6. Len(all) \in Nat /\ DOMAIN all = 1 .. Len(all) /\ DOMAIN read = 1 .. Len(read)
      BY <3>3, <3>4
    <3>7. Cardinality(wrong) <= (IF HasNext(all, 1) THEN Len(all) - PageSize ELSE 0)
      <4>1. CASE PageSize < Len(all)
        <5>1. wrong \subseteq PageSize + 1 .. Len(all)
          BY <3>4, <3>5, <3>6, <4>1, PageAssumption
        <5>2. IsFiniteSet(PageSize + 1 .. Len(all))
              /\ Cardinality(PageSize + 1 .. Len(all)) = Len(all) - PageSize
          BY <3>6, <4>1, PageAssumption, FS_Interval
        <5>3. Cardinality(wrong) <= Len(all) - PageSize
          BY <5>1, <5>2, FS_Subset
        <5> QED BY <3>6, <4>1, <5>3, PageAssumption DEF HasNext
      <4>2. CASE ~(PageSize < Len(all))
        <5>1. wrong = {}
          BY <3>4, <3>5, <3>6, <4>2
        <5>2. Cardinality(wrong) = 0
          BY <5>1, FS_EmptySet
        <5> QED BY <3>6, <4>2, <5>2, PageAssumption DEF HasNext
      <4> QED BY <4>1, <4>2
    <3> QED BY <3>7 DEF c, all
  <2>6. ASSUME Passed("description")
        PROVE  ObeyingDescription(Config["description"], case.description)
    <3> DEFINE c == Config["description"]
               t == case.description
    <3>1. "description" \in DOMAIN Config /\ Description(c, t).kind # "failed"
      BY <2>2, <2>6 DEF Check
    <3>2. t.length \in Nat /\ t.tickets \in Seq(Range(t.tickets)) /\ c.min \in Int
      BY <2>1, <2>3, <3>1, SettingsAre DEF Readable
    <3> HIDE DEF c, t
    <3>3. CASE t.length = 0
      <4>1. Issue(c.required, "missing") = {}
        BY <3>1, <3>3, FailedIs DEF Description
      <4> QED BY <3>3, <4>1 DEF Issue, ObeyingDescription, c, t
    <3>4. CASE t.length # 0
      <4>1. Issue(t.length < c.min, "short") = {} /\ TicketIssues(c, t.tickets) = {}
        BY <3>1, <3>4, FailedIs DEF Description
      <4>2. t.length >= c.min
        BY <3>2, <4>1 DEF Issue
      <4>3. Refers(c, t)
        BY <3>2, <4>1, ReferenceIs
      <4> QED BY <3>4, <4>2, <4>3 DEF ObeyingDescription, c, t
    <3> QED BY <3>3, <3>4
  <2> QED BY <2>4, <2>5, <2>6 DEF PassesAreEarned
<1> QED BY <1>1, JudgeInit, JudgeNext, PTL DEF Spec

\* A valid reference that the expressions find is enough.
LEMMA ReferenceSuffices ==
    ASSUME NEW c, NEW ts, ts \in Seq(Range(ts)), NEW i \in DOMAIN ts, ValidReference(c, ts, i)
    PROVE  TicketIssues(c, ts) = {}
<1> DEFINE jira == {k \in DOMAIN ts : LooksJira(ts[k])}
           some == {k \in DOMAIN ts : ts[k].form = ts[i].form}
<1>1. \E f \in Finds(c, ts) : f.valid
  <2>1. CASE /\ IsOn(c.jira)
             /\ ts[i].form = "issue" /\ ts[i].spaced /\ ts[i].key \in Range(c.jira)
             /\ \A k \in 1 .. i - 1 : ts[k].form \notin {"issue", "task"}
    <3>1. i \in jira /\ jira \subseteq Nat
      BY <2>1 DEF LooksJira
    <3>2. Min(jira) \in jira /\ Min(jira) <= i
      BY <3>1, FirstPlace
    <3>3. \A k \in jira : k \in Nat /\ k >= 1 /\ ts[k].form \in {"issue", "task"}
      BY DEF LooksJira
    <3>4. Min(jira) = i
      BY <2>1, <3>2, <3>3
    <3>5. JiraValid(c, ts[Min(jira)]) /\ jira # {}
      BY <2>1, <3>1, <3>4 DEF JiraValid
    <3>6. [system |-> "Jira", valid |-> JiraValid(c, ts[Min(jira)])] \in Finds(c, ts)
      BY <2>1, <3>5 DEF Finds
    <3> QED BY <3>5, <3>6
  <2>2. CASE /\ IsOn(c.asana) /\ (c.confirm /\ c.token => ts[i].confirmed)
             /\ \/ /\ ts[i].form = "task" /\ ts[i].key \in Range(c.asana)
                   /\ \A k \in 1 .. i - 1 : ts[k].form # "task"
                \/ /\ ts[i].form = "url" /\ \A k \in 1 .. i - 1 : ts[k].form # "url"
                   /\ \A k \in DOMAIN ts : ts[k].form # "task"
    <3>1. i \in some /\ some \subseteq Nat
      OBVIOUS
    <3>2. Min(some) \in some /\ Min(some) <= i
      BY <3>1, FirstPlace
    <3>3. \A k \in some : k \in Nat /\ k >= 1 /\ ts[k].form = ts[i].form
      OBVIOUS
    <3>4. Min(some) = i
      BY <2>2, <3>2, <3>3
    <3>5. LooksAsana(ts) = some
      BY <2>2, <3>1 DEF LooksAsana, Places
    <3>6. AsanaValid(c, ts[Min(LooksAsana(ts))]) /\ LooksAsana(ts) # {}
      BY <2>2, <3>1, <3>4, <3>5 DEF AsanaValid
    <3>7. [system |-> "Asana", valid |-> AsanaValid(c, ts[Min(LooksAsana(ts))])] \in Finds(c, ts)
      BY <2>2, <3>6 DEF Finds
    <3> QED BY <3>6, <3>7
  <2> QED BY <2>1, <2>2 DEF ValidReference
<1>2. Finds(c, ts) # {}
  BY <1>1
<1> QED BY <1>1, <1>2 DEF TicketIssues

\* So it is for titles and for commit messages, in every run.
THEOREM ReferencesSuffice == Spec => []ValidReferenceSuffices
<1>1. JudgeInv => ValidReferenceSuffices
  <2> SUFFICES ASSUME JudgeInv, NEW r \in {"title", "commits"} \cap DOMAIN Config,
                      NEW t \in (IF r = "title" THEN {case.title} ELSE Range(case.commits)),
                      NEW i \in DOMAIN t.tickets, ValidReference(Config[r], t.tickets, i)
               PROVE  TicketIssues(Config[r], t.tickets) = {}
    BY DEF ValidReferenceSuffices
  <2>1. t.tickets \in Seq(Range(t.tickets))
    <3>1. Readable(case.title) /\ \A x \in Range(case.commits) : Readable(x)
      BY CaseAssumption DEF JudgeInv
    <3> QED BY <3>1 DEF Readable
  <2> QED BY <2>1, ReferenceSuffices
<1> QED BY <1>1, JudgeInit, JudgeNext, PTL DEF Spec


-----------------------------------------------------------------------------
(* Lists and pages.                                                        *)

\* A list with one element more.
LEMMA AppendIs ==
    ASSUME NEW X, NEW s \in Seq(X), NEW e \in X
    PROVE  /\ Append(s, e) \in Seq(X) /\ Len(Append(s, e)) = Len(s) + 1
           /\ DOMAIN Append(s, e) = 1 .. Len(s) + 1
           /\ Append(s, e)[Len(s) + 1] = e
           /\ \A k \in 1 .. Len(s) : Append(s, e)[k] = s[k]
  OBVIOUS

\* One list after the other.
LEMMA ConcatIs ==
    ASSUME NEW X, NEW a \in Seq(X), NEW b \in Seq(X)
    PROVE  /\ a \o b \in Seq(X) /\ Len(a \o b) = Len(a) + Len(b)
           /\ DOMAIN (a \o b) = 1 .. Len(a) + Len(b)
           /\ \A k \in 1 .. Len(a) : (a \o b)[k] = a[k]
           /\ \A k \in 1 .. Len(b) : (a \o b)[Len(a) + k] = b[k]
  OBVIOUS

\* A list without one of its elements.
LEMMA RemoveAtIs ==
    ASSUME NEW X, NEW s \in Seq(X), NEW i \in DOMAIN s
    PROVE  /\ RemoveAt(s, i) \in Seq(X) /\ Len(RemoveAt(s, i)) = Len(s) - 1
           /\ DOMAIN RemoveAt(s, i) = 1 .. Len(s) - 1
           /\ \A k \in 1 .. Len(s) - 1 : RemoveAt(s, i)[k] = IF k < i THEN s[k] ELSE s[k + 1]
<1> DEFINE a == SubSeq(s, 1, i - 1)
           b == SubSeq(s, i + 1, Len(s))
<1>1. Len(s) \in Nat /\ DOMAIN s = 1 .. Len(s) /\ i \in 1 .. Len(s)
  OBVIOUS
<1>2. /\ a \in Seq(X) /\ Len(a) = i - 1 /\ \A k \in 1 .. i - 1 : a[k] = s[k]
  BY <1>1
<1>3. /\ b \in Seq(X) /\ Len(b) = Len(s) - i
      /\ \A k \in 1 .. Len(s) - i : b[k] = s[i + k]
  <2>1. CASE i = Len(s)
    <3>1. b = <<>>
      BY <1>1, <2>1
    <3> QED BY <1>1, <2>1, <3>1
  <2>2. CASE i < Len(s)
    BY <1>1, <2>2
  <2> QED BY <1>1, <2>1, <2>2
<1>4. RemoveAt(s, i) = a \o b
  BY DEF RemoveAt
<1>c. PICK c : c = a \o b
  OBVIOUS
<1>s. a \in Seq(X) /\ b \in Seq(X)
  BY <1>2, <1>3
<1> HIDE DEF a, b
<1>5. /\ c \in Seq(X) /\ Len(c) = Len(a) + Len(b)
      /\ DOMAIN c = 1 .. Len(a) + Len(b)
      /\ \A k \in 1 .. Len(a) : c[k] = a[k]
      /\ \A k \in 1 .. Len(b) : c[Len(a) + k] = b[k]
  BY <1>c, <1>s, ConcatIs
<1>6. ASSUME NEW k \in 1 .. Len(s) - 1
      PROVE  c[k] = IF k < i THEN s[k] ELSE s[k + 1]
  <2>1. CASE k < i
    BY <1>1, <1>2, <1>5, <2>1
  <2>2. CASE k >= i
    <3>1. k - (i - 1) \in 1 .. Len(b) /\ Len(a) + (k - (i - 1)) = k
          /\ k - (i - 1) \in 1 .. Len(s) - i /\ i + (k - (i - 1)) = k + 1
      BY <1>1, <1>2, <1>3, <2>2
    <3>2. c[k] = b[k - (i - 1)]
      BY <1>5, <3>1
    <3>3. b[k - (i - 1)] = s[k + 1]
      BY <1>3, <3>1
    <3> QED BY <1>1, <2>2, <3>2, <3>3
  <2>3. k < i \/ k >= i
    BY <1>1
  <2> QED BY <2>1, <2>2, <2>3
<1>7. Len(a) + Len(b) = Len(s) - 1
  BY <1>1, <1>2, <1>3
<1> QED BY <1>4, <1>c, <1>5, <1>6, <1>7

\* A list from its end.
LEMMA ReverseIs ==
    ASSUME NEW X, NEW s \in Seq(X)
    PROVE  /\ Reverse(s) \in Seq(X) /\ Len(Reverse(s)) = Len(s)
           /\ \A k \in 1 .. Len(s) : Reverse(s)[k] = s[Len(s) - k + 1]
<1>1. Reverse(s) = [k \in 1 .. Len(s) |-> s[(Len(s) - k) + 1]]
  BY DEF Reverse
<1>2. \A k \in 1 .. Len(s) : (Len(s) - k) + 1 \in DOMAIN s
  OBVIOUS
<1>3. \A k \in 1 .. Len(s) : s[(Len(s) - k) + 1] \in X
  BY <1>2
<1>4. [k \in 1 .. Len(s) |-> s[(Len(s) - k) + 1]] \in Seq(X)
  BY <1>3
<1> QED BY <1>1, <1>4

\* The length of the pages before page n.
Before(n) == (n - 1) * PageSize

\* Pages follow each other.
LEMMA BeforeIs ==
    ASSUME NEW n \in Nat \ {0}
    PROVE  /\ Before(n) \in Nat /\ Before(n + 1) = Before(n) + PageSize
           /\ n * PageSize = Before(n) + PageSize /\ Before(1) = 0
<1>1. /\ (n - 1) * PageSize \in Nat /\ ((n + 1) - 1) * PageSize = (n - 1) * PageSize + PageSize
      /\ n * PageSize = (n - 1) * PageSize + PageSize /\ (1 - 1) * PageSize = 0
  BY PageAssumption
<1> QED BY <1>1 DEF Before

\* What a page holds of a list.
LEMMA PageIs ==
    ASSUME NEW X, NEW list \in Seq(X), NEW n \in Nat \ {0}
    PROVE  LET p == Before(n)
               e == IF p + PageSize < Len(list) THEN p + PageSize ELSE Len(list)
           IN  /\ Page(list, n) \in Seq(X)
               /\ Len(Page(list, n)) = IF p <= e THEN e - p ELSE 0
               /\ \A k \in 1 .. Len(Page(list, n)) :
                    p + k \in DOMAIN list /\ Page(list, n)[k] = list[p + k]
<1> DEFINE p == Before(n)
           e == IF p + PageSize < Len(list) THEN p + PageSize ELSE Len(list)
<1> HIDE DEF p
<1>0. p \in Nat
  BY BeforeIs DEF p
<1>1. p \in Nat /\ Len(list) \in Nat /\ PageSize \in Nat
  BY <1>0, PageAssumption
<1>2. e \in Nat /\ e <= Len(list)
  BY <1>1
<1>3. Page(list, n) = SubSeq(list, p + 1, e)
  BY BeforeIs DEF Page, Before, p
<1> HIDE DEF p, e
<1>4. CASE p <= e
  <2>1. /\ SubSeq(list, p + 1, e) \in Seq(X) /\ Len(SubSeq(list, p + 1, e)) = e - p
        /\ \A k \in 1 .. e - p : SubSeq(list, p + 1, e)[k] = list[p + k]
        /\ \A k \in 1 .. e - p : p + k \in DOMAIN list
    <3>1. CASE p = e
      <4>1. SubSeq(list, p + 1, e) = <<>>
        BY <1>1, <1>2, <3>1
      <4> QED BY <1>1, <3>1, <4>1
    <3>2. CASE p < e
      BY <1>1, <1>2, <3>2
    <3> QED BY <1>1, <1>2, <1>4, <3>1, <3>2
  <2> QED BY <1>3, <1>4, <2>1 DEF p, e
<1>5. CASE ~(p <= e)
  <2>1. SubSeq(list, p + 1, e) = <<>>
    BY <1>1, <1>2, <1>5
  <2>2. <<>> \in Seq(X) /\ Len(<<>>) = 0 /\ 1 .. 0 = {}
    OBVIOUS
  <2>3. Page(list, n) = <<>>
    BY <1>3, <2>1
  <2> QED BY <1>5, <2>2, <2>3 DEF p, e
<1> QED BY <1>4, <1>5

-----------------------------------------------------------------------------
(* The status kept for a user.                                             *)

\* What is kept after each of the first n notes.
IsKept(kept, list, u, n) ==
    kept = [i \in 0 .. n |-> IF i = 0 THEN Silent ELSE Heard(kept[i - 1], list[i], u)]

\* It exists.
LEMMA KeptExists ==
    ASSUME NEW list, NEW u, NEW n \in Nat
    PROVE  \E kept : IsKept(kept, list, u, n)
<1> DEFINE S == {k \in Nat : \E kept : IsKept(kept, list, u, k)}
<1>1. 0 \in S
  <2> DEFINE one == [i \in 0 .. 0 |-> Silent]
  <2>1. IsKept(one, list, u, 0)
    BY DEF IsKept
  <2> QED BY <2>1
<1>2. ASSUME NEW k \in Nat, k \in S PROVE k + 1 \in S
  <2>1. PICK kept : IsKept(kept, list, u, k)
    BY <1>2
  <2> DEFINE last == Heard(kept[k], list[k + 1], u)
             more == [i \in 0 .. k + 1 |-> IF i = k + 1 THEN last ELSE kept[i]]
  <2>2. ASSUME NEW i \in 0 .. k + 1
        PROVE  more[i] = IF i = 0 THEN Silent ELSE Heard(more[i - 1], list[i], u)
    <3>1. CASE i = k + 1
      <4>1. i - 1 = k /\ i # 0 /\ k # k + 1 /\ k \in 0 .. k + 1
        BY <3>1
      <4>2. more[i - 1] = kept[k] /\ more[i] = last
        BY <3>1, <4>1
      <4> HIDE DEF more
      <4> QED BY <3>1, <4>1, <4>2
    <3>2. CASE i # k + 1 /\ i # 0
      <4>1. i \in 0 .. k /\ i - 1 \in 0 .. k + 1 /\ i - 1 # k + 1
        BY <3>2
      <4>2. more[i - 1] = kept[i - 1] /\ more[i] = kept[i]
        BY <3>2, <4>1
      <4> HIDE DEF more
      <4> QED BY <2>1, <3>2, <4>1, <4>2 DEF IsKept
    <3>3. CASE i # k + 1 /\ i = 0
      <4>1. more[i] = kept[0] /\ 0 \in 0 .. k
        BY <3>3
      <4> HIDE DEF more
      <4> QED BY <2>1, <3>3, <4>1 DEF IsKept
    <3> QED BY <3>1, <3>2, <3>3
  <2>3. more = [i \in 0 .. k + 1 |-> more[i]]
    OBVIOUS
  <2> HIDE DEF more
  <2>4. IsKept(more, list, u, k + 1)
    BY <2>2, <2>3 DEF IsKept
  <2> QED BY <2>4
<1> HIDE DEF S
<1>3. Nat \subseteq S
  BY <1>1, <1>2, SetInduction
<1> QED BY <1>3 DEF S

\* Latest is the last of it.
LEMMA LatestLast ==
    ASSUME NEW list, NEW u, Len(list) \in Nat
    PROVE  \E kept : IsKept(kept, list, u, Len(list)) /\ Latest(list, u) = kept[Len(list)]
<1> DEFINE Kept(kept) ==
             kept = [i \in 0 .. Len(list) |->
                       IF i = 0 THEN Silent ELSE Heard(kept[i - 1], list[i], u)]
           kept == CHOOSE f : Kept(f)
<1>1. \A f : Kept(f) <=> IsKept(f, list, u, Len(list))
  BY DEF IsKept
<1>2. \E f : Kept(f)
  BY <1>1, KeptExists
<1>3. Kept(kept)
  BY <1>2
<1>4. Latest(list, u) = kept[Len(list)]
  BY DEF Latest
<1> HIDE DEF Kept, kept
<1> QED BY <1>1, <1>3, <1>4

\* Notes are heard one by one.
LEMMA LatestStep ==
    ASSUME NEW X, NEW a \in Seq(X), NEW b \in Seq(X), NEW u,
           Len(b) = Len(a) + 1, \A k \in 1 .. Len(a) : b[k] = a[k]
    PROVE  Latest(b, u) = Heard(Latest(a, u), b[Len(b)], u)
<1> DEFINE n == Len(a)
<1>1. n \in Nat /\ Len(b) = n + 1
  OBVIOUS
<1>2. PICK f : IsKept(f, a, u, n) /\ Latest(a, u) = f[n]
  BY <1>1, LatestLast
<1>3. PICK g : IsKept(g, b, u, n + 1) /\ Latest(b, u) = g[n + 1]
  BY <1>1, LatestLast
<1> HIDE DEF n
<1>4. /\ f[0] = Silent /\ \A k \in Nat : k + 1 <= n => f[k + 1] = Heard(f[k], a[k + 1], u)
      /\ g[0] = Silent /\ \A k \in Nat : k + 1 <= n + 1 => g[k + 1] = Heard(g[k], b[k + 1], u)
  <2>1. /\ \A i \in 0 .. n : f[i] = IF i = 0 THEN Silent ELSE Heard(f[i - 1], a[i], u)
        /\ \A i \in 0 .. n + 1 : g[i] = IF i = 0 THEN Silent ELSE Heard(g[i - 1], b[i], u)
    BY <1>2, <1>3 DEF IsKept
  <2>2. \A k \in Nat : k + 1 # 0 /\ (k + 1) - 1 = k
    OBVIOUS
  <2>3. /\ 0 \in 0 .. n /\ 0 \in 0 .. n + 1
        /\ \A k \in Nat : k + 1 <= n => k + 1 \in 0 .. n
        /\ \A k \in Nat : k + 1 <= n + 1 => k + 1 \in 0 .. n + 1
    BY <1>1
  <2> QED BY <2>1, <2>2, <2>3
<1> DEFINE S == {k \in Nat : k <= n => f[k] = g[k]}
<1>5. 0 \in S
  BY <1>4
<1>6. ASSUME NEW k \in Nat, k \in S PROVE k + 1 \in S
  <2> SUFFICES ASSUME k + 1 <= n PROVE f[k + 1] = g[k + 1]
    OBVIOUS
  <2>1. k <= n /\ k + 1 <= n + 1 /\ k + 1 \in 1 .. Len(a)
    BY <1>1 DEF n
  <2>2. f[k] = g[k] /\ b[k + 1] = a[k + 1]
    BY <1>6, <2>1
  <2> QED BY <1>4, <2>1, <2>2
<1> HIDE DEF S
<1>7. n \in S
  BY <1>1, <1>5, <1>6, SetInduction
<1>8. f[n] = g[n]
  BY <1>1, <1>7 DEF S
<1> QED BY <1>1, <1>2, <1>3, <1>4, <1>8

\* Before any note, nothing is kept.
LEMMA LatestOfNone == \A u : Latest(<<>>, u) = Silent
<1> TAKE u
<1>1. PICK f : IsKept(f, <<>>, u, Len(<<>>)) /\ Latest(<<>>, u) = f[Len(<<>>)]
  BY LatestLast
<1> QED BY <1>1 DEF IsKept

\* What is kept is a word of the user's.
LEMMA LatestIs ==
    ASSUME NEW X, NEW list \in Seq(X), NEW u
    PROVE  Latest(list, u) = Silent \/ (Latest(list, u) \in X /\ Latest(list, u).kind \in Said)
<1> DEFINE n == Len(list)
<1>1. n \in Nat /\ \A k \in 1 .. n : list[k] \in X
  OBVIOUS
<1>2. PICK f : IsKept(f, list, u, n) /\ Latest(list, u) = f[n]
  BY <1>1, LatestLast
<1> HIDE DEF n
<1> DEFINE S == {k \in Nat : k <= n => f[k] = Silent \/ (f[k] \in X /\ f[k].kind \in Said)}
<1>3. \A i \in 0 .. n : f[i] = IF i = 0 THEN Silent ELSE Heard(f[i - 1], list[i], u)
  BY <1>2 DEF IsKept
<1>4. 0 \in S
  BY <1>1, <1>3
<1>5. ASSUME NEW k \in Nat, k \in S PROVE k + 1 \in S
  <2> SUFFICES ASSUME k + 1 <= n
               PROVE  f[k + 1] = Silent \/ (f[k + 1] \in X /\ f[k + 1].kind \in Said)
    OBVIOUS
  <2>1. k <= n /\ k + 1 \in 0 .. n /\ k + 1 \in 1 .. n /\ k + 1 # 0 /\ (k + 1) - 1 = k
    BY <1>1
  <2>2. f[k + 1] = Heard(f[k], list[k + 1], u)
    BY <1>3, <2>1
  <2>3. f[k] = Silent \/ (f[k] \in X /\ f[k].kind \in Said)
    BY <1>5, <2>1
  <2> QED BY <1>1, <2>1, <2>2, <2>3 DEF Heard
<1> HIDE DEF S
<1>6. n \in S
  BY <1>1, <1>4, <1>5, SetInduction
<1> QED BY <1>1, <1>2, <1>6 DEF S

\* The last word is one of them, or none.
LEMMA LastWordIs ==
    ASSUME NEW list \in Seq(Note), NEW u
    PROVE  /\ LastWord(list, u) \in Said \cup {"none"}
           /\ \/ /\ LastWord(list, u) = "none"
                 /\ ~\E k \in DOMAIN list : list[k].by = u /\ list[k].kind \in Said
              \/ \E m \in DOMAIN list :
                   /\ list[m].by = u /\ list[m].kind \in Said /\ LastWord(list, u) = list[m].kind
                   /\ \A k \in DOMAIN list : list[k].by = u /\ list[k].kind \in Said => k <= m
<1> DEFINE mine == {k \in DOMAIN list : list[k].by = u /\ list[k].kind \in Said}
<1>1. LastWord(list, u) = IF mine = {} THEN "none" ELSE list[Max(mine)].kind
  BY DEF LastWord
<1>2. mine # {} => Max(mine) \in mine /\ \A y \in mine : Max(mine) >= y
  <2>1. mine \subseteq 1 .. Len(list) /\ Len(list) \in Nat
    OBVIOUS
  <2> QED BY <2>1, LastPlace
<1>3. \A k : k \in mine <=> k \in DOMAIN list /\ list[k].by = u /\ list[k].kind \in Said
  OBVIOUS
<1>4. \A k \in DOMAIN list : k \in Int
  OBVIOUS
<1> HIDE DEF mine
<1>5. CASE mine = {}
  BY <1>1, <1>3, <1>5
<1>6. CASE mine # {}
  <2>1. Max(mine) \in DOMAIN list /\ LastWord(list, u) = list[Max(mine)].kind
    BY <1>1, <1>2, <1>3, <1>6
  <2> QED BY <1>2, <1>3, <1>4, <1>6, <2>1
<1> QED BY <1>5, <1>6


-----------------------------------------------------------------------------
(* Notes and discussions.                                                  *)

\* Only comments have names; the clock does not go back.
Fine(list) ==
    /\ list \in Seq(Note)
    /\ \A i \in DOMAIN list : list[i].id # 0 => list[i].kind = "comment"
    /\ \A i, k \in DOMAIN list : k <= i => list[k].at <= list[i].at

\* One more note.
LEMMA NoteAdded ==
    ASSUME NEW list, Fine(list), NEW e \in Note, e.id # 0 => e.kind = "comment",
           e.at >= IF list = <<>> THEN 0 ELSE Last(list).at
    PROVE  Fine(Append(list, e))
<1>1. list \in Seq(Note) /\ Len(list) \in Nat /\ DOMAIN list = 1 .. Len(list)
  BY DEF Fine
<1> DEFINE more == Append(list, e)
<1>2. /\ more \in Seq(Note) /\ DOMAIN more = 1 .. Len(list) + 1 /\ more[Len(list) + 1] = e
      /\ \A k \in 1 .. Len(list) : more[k] = list[k]
  BY <1>1, AppendIs
<1>3. \A k \in 1 .. Len(list) : list[k].at <= e.at
  <2> TAKE k \in 1 .. Len(list)
  <2>1. list # <<>> /\ Len(list) \in DOMAIN list /\ Last(list) = list[Len(list)]
    BY <1>1 DEF Last
  <2>2. list[k].at <= Last(list).at
    BY <1>1, <2>1 DEF Fine
  <2>3. list[k] \in Note /\ Last(list) \in Note
    BY <1>1, <2>1
  <2>4. list[k].at \in Nat /\ Last(list).at \in Nat /\ e.at \in Nat
    BY <2>3 DEF Note
  <2> QED BY <2>1, <2>2, <2>4
<1> HIDE DEF more
<1>4. \A k \in 1 .. Len(list) + 1 : k \in 1 .. Len(list) \/ k = Len(list) + 1
  BY <1>1
<1>5. ASSUME NEW i \in DOMAIN more, NEW k \in DOMAIN more, k <= i
      PROVE  more[k].at <= more[i].at
  <2>1. CASE i = Len(list) + 1
    <3>1. e.at \in Nat
      BY DEF Note
    <3> QED BY <1>2, <1>3, <1>4, <2>1, <3>1
  <2>2. CASE i \in 1 .. Len(list)
    <3>1. k \in 1 .. Len(list)
      BY <1>1, <1>2, <1>5, <2>2
    <3> QED BY <1>1, <1>2, <1>5, <2>2, <3>1 DEF Fine
  <2> QED BY <1>2, <1>4, <2>1, <2>2
<1>6. \A i \in DOMAIN more : more[i].id # 0 => more[i].kind = "comment"
  BY <1>1, <1>2, <1>4 DEF Fine
<1>7. Fine(more)
  BY <1>2, <1>5, <1>6 DEF Fine
<1> QED BY <1>7 DEF more

\* One note less.
LEMMA NoteRemoved ==
    ASSUME NEW list, Fine(list), NEW d \in DOMAIN list
    PROVE  Fine(RemoveAt(list, d))
<1> DEFINE less == RemoveAt(list, d)
           o(k) == IF k < d THEN k ELSE k + 1
<1>1. list \in Seq(Note) /\ Len(list) \in Nat /\ DOMAIN list = 1 .. Len(list)
  BY DEF Fine
<1>2. /\ less \in Seq(Note) /\ DOMAIN less = 1 .. Len(list) - 1
      /\ \A k \in 1 .. Len(list) - 1 : less[k] = list[o(k)]
  BY <1>1, RemoveAtIs
<1>3. /\ \A k \in 1 .. Len(list) - 1 : o(k) \in DOMAIN list
      /\ \A i, k \in 1 .. Len(list) - 1 : k <= i => o(k) <= o(i)
  BY <1>1
<1> HIDE DEF less, o
<1>4. Fine(less)
  BY <1>1, <1>2, <1>3 DEF Fine
<1> QED BY <1>4 DEF less

\* A discussion: the bot's contains the title.
Discussion == [id : Int \ {0}, by : {"people", "bot"}, titled : BOOLEAN,
               body : Seq(Range(Order))]

\* Nobody gives a name twice: so many reports posted, so much said.
Discussed(list, posted, spoken) ==
    /\ list \in Seq(Discussion)
    /\ \A i \in DOMAIN list :
         IF list[i].by = "bot" THEN list[i].titled /\ -list[i].id \in 1 .. posted
         ELSE list[i].id < -case.runs \/ list[i].id \in 1 .. spoken
    /\ \A i, k \in DOMAIN list : list[i].id = list[k].id => i = k

\* One more discussion.
LEMMA ThreadAdded ==
    ASSUME NEW list, NEW posted \in Nat, NEW spoken \in Nat, Discussed(list, posted, spoken),
           NEW posted1 \in Nat, NEW spoken1 \in Nat, posted <= posted1, spoken <= spoken1,
           NEW e \in Discussion,
           \A k \in DOMAIN list : list[k].id # e.id,
           IF e.by = "bot" THEN e.titled /\ -e.id \in 1 .. posted1
           ELSE e.id < -case.runs \/ e.id \in 1 .. spoken1
    PROVE  Discussed(Append(list, e), posted1, spoken1)
<1> DEFINE more == Append(list, e)
<1>1. list \in Seq(Discussion) /\ Len(list) \in Nat /\ DOMAIN list = 1 .. Len(list)
  BY DEF Discussed
<1>2. /\ more \in Seq(Discussion) /\ DOMAIN more = 1 .. Len(list) + 1
      /\ more[Len(list) + 1] = e
      /\ \A k \in 1 .. Len(list) : more[k] = list[k]
  BY <1>1, AppendIs
<1> HIDE DEF more
<1>3. \A k \in 1 .. Len(list) + 1 : k \in 1 .. Len(list) \/ k = Len(list) + 1
  BY <1>1
<1>4. ASSUME NEW i \in DOMAIN more
      PROVE  IF more[i].by = "bot" THEN more[i].titled /\ -more[i].id \in 1 .. posted1
             ELSE more[i].id < -case.runs \/ more[i].id \in 1 .. spoken1
  <2>1. CASE i = Len(list) + 1
    BY <1>2, <2>1
  <2>2. CASE i \in 1 .. Len(list)
    <3>1. /\ more[i] = list[i]
          /\ IF list[i].by = "bot" THEN list[i].titled /\ -list[i].id \in 1 .. posted
             ELSE list[i].id < -case.runs \/ list[i].id \in 1 .. spoken
      BY <1>1, <1>2, <2>2 DEF Discussed
    <3>2. 1 .. posted \subseteq 1 .. posted1 /\ 1 .. spoken \subseteq 1 .. spoken1
      OBVIOUS
    <3> QED BY <3>1, <3>2
  <2> QED BY <1>2, <1>3, <2>1, <2>2
<1>5. \A i, k \in DOMAIN more : more[i].id = more[k].id => i = k
  BY <1>1, <1>2, <1>3 DEF Discussed
<1>6. Discussed(more, posted1, spoken1)
  BY <1>2, <1>4, <1>5 DEF Discussed
<1> QED BY <1>6 DEF more

\* One discussion less.
LEMMA ThreadRemoved ==
    ASSUME NEW list, NEW posted \in Nat, NEW spoken \in Nat, Discussed(list, posted, spoken),
           NEW d \in DOMAIN list
    PROVE  Discussed(RemoveAt(list, d), posted, spoken + 1)
<1> DEFINE less == RemoveAt(list, d)
           o(k) == IF k < d THEN k ELSE k + 1
<1>1. list \in Seq(Discussion) /\ Len(list) \in Nat /\ DOMAIN list = 1 .. Len(list)
  BY DEF Discussed
<1>2. /\ less \in Seq(Discussion) /\ DOMAIN less = 1 .. Len(list) - 1
      /\ \A k \in 1 .. Len(list) - 1 : less[k] = list[o(k)]
  BY <1>1, RemoveAtIs
<1>3. /\ \A k \in 1 .. Len(list) - 1 : o(k) \in DOMAIN list
      /\ \A i, k \in 1 .. Len(list) - 1 : o(k) = o(i) => k = i
  BY <1>1
<1>4. 1 .. spoken \subseteq 1 .. spoken + 1
  OBVIOUS
<1> HIDE DEF less, o
<1>5. ASSUME NEW i \in DOMAIN less
      PROVE  IF less[i].by = "bot" THEN less[i].titled /\ -less[i].id \in 1 .. posted
             ELSE less[i].id < -case.runs \/ less[i].id \in 1 .. spoken + 1
  <2>1. o(i) \in DOMAIN list /\ less[i] = list[o(i)]
    BY <1>2, <1>3
  <2>2. IF list[o(i)].by = "bot" THEN list[o(i)].titled /\ -list[o(i)].id \in 1 .. posted
        ELSE list[o(i)].id < -case.runs \/ list[o(i)].id \in 1 .. spoken
    BY <2>1 DEF Discussed
  <2> QED BY <1>4, <2>1, <2>2
<1>6. \A i, k \in DOMAIN less : less[i].id = less[k].id => i = k
  BY <1>2, <1>3 DEF Discussed
<1>7. Discussed(less, posted, spoken + 1)
  BY <1>2, <1>5, <1>6 DEF Discussed
<1> QED BY <1>7 DEF less

\* The same discussions, their titles or bodies aside.
LEMMA ThreadsRewritten ==
    ASSUME NEW list, NEW posted \in Nat, NEW spoken \in Nat, Discussed(list, posted, spoken),
           NEW posted1 \in Nat, NEW spoken1 \in Nat, posted <= posted1, spoken <= spoken1,
           NEW new \in Seq(Discussion), DOMAIN new = DOMAIN list,
           \A k \in DOMAIN list : /\ new[k].id = list[k].id /\ new[k].by = list[k].by
                                  /\ list[k].titled => new[k].titled
    PROVE  Discussed(new, posted1, spoken1)
<1>1. 1 .. posted \subseteq 1 .. posted1 /\ 1 .. spoken \subseteq 1 .. spoken1
  OBVIOUS
<1>2. ASSUME NEW i \in DOMAIN new
      PROVE  IF new[i].by = "bot" THEN new[i].titled /\ -new[i].id \in 1 .. posted1
             ELSE new[i].id < -case.runs \/ new[i].id \in 1 .. spoken1
  <2>1. /\ new[i].id = list[i].id /\ new[i].by = list[i].by
        /\ list[i].titled => new[i].titled
    OBVIOUS
  <2>2. IF list[i].by = "bot" THEN list[i].titled /\ -list[i].id \in 1 .. posted
        ELSE list[i].id < -case.runs \/ list[i].id \in 1 .. spoken
    BY DEF Discussed
  <2> QED BY <1>1, <2>1, <2>2
<1>3. \A i, k \in DOMAIN new : new[i].id = new[k].id => i = k
  BY DEF Discussed
<1> QED BY <1>2, <1>3 DEF Discussed


\* What the report says is a list of rules.
LEMMA SummaryIs ==
    ASSUME JudgeInv, stage = "post"
    PROVE  Summary \in Seq(Range(Order))
<1> DEFINE X == {[rule |-> r, issues |-> Verdict(r).issues] : r \in DOMAIN Config}
           s == Sorted(failures)
<1>1. failures \in Seq(X)
  BY DEF JudgeInv, Judging
<1>2. \A r : Severity(r) \in {0, 1}
  BY DEF Severity
<1>3. \A x \in X : x.rule \in Range(Order)
  BY ConfigIs DEF JudgeInv
<1> HIDE DEF X
<1>4. s \in Seq(X)
  BY <1>1, <1>2, SortedIs
<1>5. Summary = [k \in DOMAIN s |-> s[k].rule]
  BY DEF Summary
<1> HIDE DEF s
<1>6. /\ DOMAIN s = 1 .. Len(s) /\ Len(s) \in Nat
      /\ \A k \in 1 .. Len(s) : s[k] \in X
  BY <1>4
<1>7. \A k \in 1 .. Len(s) : s[k].rule \in Range(Order)
  BY <1>3, <1>6
<1>8. [k \in 1 .. Len(s) |-> s[k].rule] \in Seq(Range(Order))
  BY <1>6, <1>7
<1> QED BY <1>5, <1>6, <1>8

-----------------------------------------------------------------------------
(* Runs.                                                                   *)

\* The reports that can have been posted.
Posted == IF stage = "idle" THEN ran ELSE ran - 1

Sound ==
    /\ Fine(notes) /\ Discussed(threads, Posted, talked)
    /\ stage \in Stages /\ page \in Nat \ {0}
    /\ stage \notin {"approvals", "threads"} => page = 1
    /\ stage \in {"idle", "rules"} => got = <<>>
    /\ stage \in {"approvals", "threads"} /\ page = 1 => got = <<>>
    /\ stage \in {"approvals", "commits"} => got \in Seq(Note)
    /\ stage \in {"threads", "post"} => got \in Seq(Discussion)
    /\ tally \in [Users -> Said \cup {"none"}]
    /\ found # 0 => stage \in {"threads", "post"}
    /\ ran \in 0 .. case.runs /\ talked \in 0 .. case.talk
    /\ words \in [Users -> SUBSET (Said \cup {"none"})]
    /\ cut \in Nat /\ cuts \in Nat /\ cuts + (IF stage = "idle" THEN 0 ELSE 1) <= ran

SoundInv == JudgeInv /\ Sound

\* The bounds of a case.
LEMMA CaseIs == JudgeInv => case \in Cases /\ case.talk \in Nat /\ case.runs \in Nat
  BY CaseAssumption DEF JudgeInv

\* It holds at first.
LEMMA SoundInit == Init => SoundInv
<1> SUFFICES ASSUME Init PROVE Sound
  BY JudgeInit DEF SoundInv
<1> DEFINE places == {k \in DOMAIN case.said : case.said[k].id # 0}
           comments == Picked(case.said, places)
<1>1. /\ case \in Cases /\ case.talk \in Nat /\ case.runs \in Nat /\ notes = case.said
      /\ case.said \in Seq(Note)
      /\ \A i \in DOMAIN case.said :
           /\ case.said[i].id = 0 \/ (case.said[i].kind = "comment" /\ case.said[i].id < -case.runs)
           /\ \A k \in 1 .. i - 1 :
                /\ case.said[k].at <= case.said[i].at
                /\ case.said[i].id # 0 => case.said[k].id # case.said[i].id
  BY CaseAssumption DEF Init
<1>p. \A i \in DOMAIN case.said : \A k \in 1 .. i - 1 :
        /\ case.said[k].at <= case.said[i].at
        /\ case.said[i].id # 0 => case.said[k].id # case.said[i].id
  BY <1>1
<1>2. Fine(notes)
  <2>1. ASSUME NEW i \in DOMAIN notes, NEW k \in DOMAIN notes, k <= i
        PROVE  notes[k].at <= notes[i].at
    <3>1. CASE k = i
      <4>1. notes[i] \in Note
        BY <1>1
      <4>2. notes[i].at \in Nat
        BY <4>1 DEF Note
      <4> QED BY <3>1, <4>2
    <3>2. CASE k # i
      <4>1. k \in 1 .. i - 1
        BY <1>1, <2>1, <3>2
      <4>2. i \in DOMAIN case.said
        BY <1>1
      <4>3. case.said[k].at <= case.said[i].at
        BY <1>p, <4>1, <4>2
      <4> QED BY <1>1, <4>3
    <3> QED BY <3>1, <3>2
  <2> QED BY <1>1, <2>1 DEF Fine
<1>3. PICK from : comments \in Seq(Note) /\ Selects(from, comments, case.said, places)
  <2>1. places \subseteq DOMAIN case.said
    OBVIOUS
  <2> QED BY <1>1, <2>1, PickedIs
<1>4. threads = [i \in DOMAIN comments |-> Thread(comments[i].id)]
  BY DEF Init
<1>5. \A p : p \in places <=> p \in DOMAIN case.said /\ case.said[p].id # 0
  OBVIOUS
<1> HIDE DEF places, comments
<1>6. /\ DOMAIN comments = 1 .. Len(comments) /\ Len(comments) \in Nat
      /\ \A j \in DOMAIN comments : from[j] \in places /\ comments[j] = case.said[from[j]]
      /\ \A j, k \in DOMAIN comments : j < k => from[j] < from[k]
  BY <1>3 DEF Selects
<1>7. ASSUME NEW j \in DOMAIN comments
      PROVE  /\ comments[j].id \in Int \ {0} /\ comments[j].id < -case.runs
             /\ \A k \in DOMAIN comments : k < j => comments[k].id # comments[j].id
  <2>1. /\ from[j] \in DOMAIN case.said /\ comments[j] = case.said[from[j]]
        /\ comments[j].id # 0 /\ comments[j].id < -case.runs
    BY <1>1, <1>5, <1>6
  <2>2. comments[j] \in Note
    BY <1>3
  <2>3. comments[j].id \in Int
    BY <2>2 DEF Note
  <2>4. ASSUME NEW k \in DOMAIN comments, k < j PROVE comments[k].id # comments[j].id
    <3>1. from[k] \in DOMAIN case.said /\ from[k] < from[j] /\ comments[k] = case.said[from[k]]
      BY <1>5, <1>6, <2>4
    <3>2. from[k] \in 1 .. from[j] - 1
      BY <1>1, <2>1, <3>1
    <3>3. case.said[from[k]].id # case.said[from[j]].id
      <4>1. case.said[from[j]].id # 0
        BY <2>1
      <4> QED BY <1>p, <2>1, <3>2, <4>1
    <3> QED BY <2>1, <3>1, <3>3
  <2> QED BY <2>1, <2>3, <2>4
<1>8. \A i \in DOMAIN comments : Thread(comments[i].id) \in Discussion
  <2>1. <<>> \in Seq(Range(Order))
    OBVIOUS
  <2> QED BY <1>7, <2>1 DEF Thread, Discussion
<1>9. threads \in Seq(Discussion) /\ DOMAIN threads = DOMAIN comments
  BY <1>4, <1>6, <1>8
<1>10. \A i \in DOMAIN threads : threads[i].by = "people" /\ threads[i].id = comments[i].id
  BY <1>4, <1>9 DEF Thread
<1>11. ASSUME NEW i \in DOMAIN threads, NEW k \in DOMAIN threads, threads[i].id = threads[k].id
       PROVE  i = k
  <2>1. i \in Nat /\ k \in Nat /\ comments[i].id = comments[k].id
    BY <1>6, <1>9, <1>10, <1>11
  <2>2. ~(i < k) /\ ~(k < i)
    BY <1>7, <1>9, <2>1
  <2> QED BY <2>1, <2>2
<1>12. Discussed(threads, Posted, talked)
  BY <1>7, <1>9, <1>10, <1>11 DEF Discussed
<1>13. /\ tally \in [Users -> Said \cup {"none"}]
       /\ words \in [Users -> SUBSET (Said \cup {"none"})]
  BY DEF Init, Unheard
<1>14. /\ stage = "idle" /\ page = 1 /\ got = <<>> /\ found = 0 /\ ran = 0 /\ talked = 0
       /\ cut = 0 /\ cuts = 0
  BY DEF Init
<1> QED BY <1>1, <1>2, <1>12, <1>13, <1>14 DEF Sound, Stages

\* What people do keeps it.
LEMMA SoundPeople == SoundInv /\ People => Sound'
<1> SUFFICES ASSUME SoundInv, People PROVE Sound'
  OBVIOUS
<1>1. /\ Fine(notes) /\ Discussed(threads, Posted, talked)
      /\ Posted \in Nat /\ talked \in Nat /\ ran \in Nat /\ cut \in Nat
      /\ case.runs \in Nat /\ case.talk \in Nat /\ ran <= case.runs
      /\ \A i \in DOMAIN threads : threads[i] \in Discussion
  <2>1. /\ Sound /\ case.talk \in Nat /\ case.runs \in Nat
    BY CaseIs DEF SoundInv
  <2>2. stage # "idle" => ran - 1 \in Nat
    BY <2>1 DEF Sound
  <2> QED BY <2>1, <2>2 DEF Sound, Discussed, Posted
<1>2. UNCHANGED <<case, run, cuts>> /\ talked < case.talk /\ talked' = talked + 1
  BY DEF People, Approve, Comment, Quote, Delete, Noted, history
<1>3. Posted' = Posted /\ talked' \in Nat /\ talked <= talked' /\ talked' \in 0 .. case.talk
  BY <1>1, <1>2 DEF Posted, run
<1>4. ASSUME Fine(notes'), Discussed(threads', Posted, talked'),
             words' \in [Users -> SUBSET (Said \cup {"none"})], cut' \in Nat
      PROVE  Sound'
  <2>1. Discussed(threads, Posted, talked)'
    BY <1>2, <1>3, <1>4 DEF Discussed
  <2> QED BY <1>2, <1>3, <1>4, <2>1 DEF SoundInv, Sound, run
<1>n. ASSUME NEW u \in Users \cup {Nobody}, NEW kind \in Said \cup {"comment"}, NEW id \in Int,
             NEW tick \in {0, 1}, Noted(u, kind, id, tick), id # 0 => kind = "comment"
      PROVE  Fine(notes')
  <2> DEFINE at == IF notes = <<>> THEN 0 ELSE Last(notes).at
             e == [by |-> u, kind |-> kind, id |-> id, at |-> at + tick]
  <2>1. notes' = Append(notes, e)
    BY <1>n DEF Noted
  <2>2. at \in Nat
    <3>1. CASE notes # <<>>
      <4>1. notes \in Seq(Note)
        BY <1>1 DEF Fine
      <4>2. Last(notes) \in Note
        BY <3>1, <4>1 DEF Last
      <4> QED BY <3>1, <4>2 DEF Note
    <3> QED BY <3>1
  <2> HIDE DEF at
  <2>3. e \in Note /\ e.at >= at /\ e.id = id /\ e.kind = kind
    BY <2>2 DEF Note
  <2> HIDE DEF e
  <2> QED BY <1>1, <1>n, <2>1, <2>3, NoteAdded DEF at
<1>w. words \in [Users -> SUBSET (Said \cup {"none"})]
  BY DEF SoundInv, Sound
<1>5. CASE \E u \in Users : Approve(u)
  <2>1. PICK u \in Users : Approve(u)
    BY <1>5
  <2>2. Fine(notes')
    <3>1. PICK tick \in {0, 1} :
            Noted(u, IF LastWord(notes, u) = "approved" THEN "unapproved" ELSE "approved", 0, tick)
      BY <2>1 DEF Approve
    <3> DEFINE kind == IF LastWord(notes, u) = "approved" THEN "unapproved" ELSE "approved"
    <3>2. kind \in Said \cup {"comment"} /\ 0 \in Int
      BY DEF Said
    <3>3. Noted(u, kind, 0, tick)
      BY <3>1
    <3> HIDE DEF kind
    <3> QED BY <1>n, <3>2, <3>3
  <2>3. LastWord(notes', u) \in Said \cup {"none"}
    BY <2>2, LastWordIs DEF Fine
  <2>4. words' \in [Users -> SUBSET (Said \cup {"none"})]
    <3>1. words' = words \/ words' = [words EXCEPT ![u] = words[u] \cup {LastWord(notes', u)}]
      BY <2>1 DEF Approve
    <3>2. words[u] \cup {LastWord(notes', u)} \in SUBSET (Said \cup {"none"})
      BY <1>w, <2>3
    <3> QED BY <1>w, <3>1, <3>2
  <2>5. Discussed(threads', Posted, talked')
    <3>1. threads' = threads
      BY <2>1 DEF Approve
    <3> QED BY <1>1, <1>3, <3>1, ThreadsRewritten DEF Discussed
  <2>6. cut' = cut
    BY <2>1 DEF Approve
  <2> QED BY <1>1, <1>4, <2>2, <2>4, <2>5, <2>6
<1>6. CASE Comment
  <2>1. Fine(notes')
    <3>1. Noted(Nobody, "comment", talked + 1, 1) /\ talked + 1 \in Int
      BY <1>1, <1>6 DEF Comment
    <3> QED BY <1>n, <3>1
  <2>2. threads' = Append(threads, Thread(talked + 1)) /\ words' = words /\ cut' = cut
    BY <1>6 DEF Comment, history
  <2> DEFINE e == Thread(talked + 1)
  <2>3. /\ e \in Discussion /\ e.by = "people" /\ e.id = talked + 1
    <3>1. <<>> \in Seq(Range(Order))
      OBVIOUS
    <3> QED BY <1>1, <3>1 DEF Thread, Discussion
  <2> HIDE DEF e
  <2>4. ASSUME NEW k \in DOMAIN threads PROVE threads[k].id # e.id
    <3>1. IF threads[k].by = "bot" THEN -threads[k].id \in 1 .. Posted
          ELSE threads[k].id < -case.runs \/ threads[k].id \in 1 .. talked
      BY <1>1 DEF Discussed
    <3>2. threads[k].id \in Int
      BY <1>1 DEF Discussion
    <3> QED BY <1>1, <2>3, <3>1, <3>2
  <2>5. e.id \in 1 .. talked'
    BY <1>1, <1>2, <2>3
  <2>6. Discussed(Append(threads, e), Posted, talked')
    BY <1>1, <1>3, <2>3, <2>4, <2>5, ThreadAdded
  <2> QED BY <1>1, <1>4, <1>w, <2>1, <2>2, <2>6 DEF e
<1>7. CASE \E i \in DOMAIN threads : Quote(i)
  <2>1. PICK i \in DOMAIN threads : Quote(i)
    BY <1>7
  <2>2. Fine(notes')
    <3>1. Noted(Nobody, "comment", threads[i].id, 1) /\ threads[i] \in Discussion
      BY <1>1, <2>1 DEF Quote
    <3>2. threads[i].id \in Int
      BY <3>1 DEF Discussion
    <3> QED BY <1>n, <3>1, <3>2
  <2>3. /\ threads' = [threads EXCEPT ![i] = [threads[i] EXCEPT !.titled = TRUE]]
        /\ words' = words /\ cut' = cut
    BY <2>1 DEF Quote, history
  <2>4. threads \in Seq(Discussion)
    BY <1>1 DEF Discussed
  <2> DEFINE e == [threads[i] EXCEPT !.titled = TRUE]
  <2>5. e \in Discussion /\ e.id = threads[i].id /\ e.by = threads[i].by /\ e.titled
    BY <1>1 DEF Discussion
  <2>6. threads' = [threads EXCEPT ![i] = e]
    BY <2>3
  <2> HIDE DEF e
  <2>7. /\ threads' \in Seq(Discussion) /\ DOMAIN threads' = DOMAIN threads
        /\ threads'[i] = e /\ \A k \in DOMAIN threads : k # i => threads'[k] = threads[k]
    BY <2>4, <2>5, <2>6
  <2>8. Discussed(threads', Posted, talked')
    BY <1>1, <1>3, <2>5, <2>7, ThreadsRewritten
  <2> QED BY <1>1, <1>4, <1>w, <2>2, <2>3, <2>8
<1>8. CASE \E i \in DOMAIN threads : Delete(i)
  <2>1. PICK i \in DOMAIN threads : Delete(i)
    BY <1>8
  <2>2. PICK k \in DOMAIN notes : notes' = RemoveAt(notes, k)
    BY <2>1 DEF Delete
  <2>3. threads' = RemoveAt(threads, i) /\ words' = words
    BY <2>1 DEF Delete
  <2>4. cut' \in Nat
    <3>1. cut' = cut + 1 \/ cut' = cut + 0
      BY <2>1 DEF Delete
    <3> QED BY <1>1, <3>1
  <2>5. Fine(notes')
    BY <1>1, <2>2, NoteRemoved
  <2>6. Discussed(threads', Posted, talked')
    BY <1>1, <1>2, <2>3, ThreadRemoved
  <2> QED BY <1>4, <1>w, <2>3, <2>4, <2>5, <2>6
<1> QED BY <1>5, <1>6, <1>7, <1>8 DEF People


\* A run keeps it.
LEMMA SoundRun == SoundInv /\ Run => Sound'
<1> SUFFICES ASSUME SoundInv, Run PROVE Sound'
  OBVIOUS
<1>1. /\ Sound /\ Fine(notes) /\ Discussed(threads, Posted, talked)
      /\ talked \in Nat /\ ran \in Nat /\ cut \in Nat /\ cuts \in Nat /\ page \in Nat \ {0}
      /\ case.runs \in Nat /\ case.talk \in Nat /\ ran <= case.runs
      /\ tally \in [Users -> Said \cup {"none"}]
      /\ words \in [Users -> SUBSET (Said \cup {"none"})]
      /\ notes \in Seq(Note) /\ threads \in Seq(Discussion)
  BY CaseIs DEF SoundInv, Sound, Fine, Discussed
<1>2. UNCHANGED <<case, talked>>
  BY DEF Run, Start, ReadApprovals, ReadCommits, RunRule, Summarise, ReadThreads, Post, talk
<1>3. ASSUME UNCHANGED <<notes, threads>>, Posted' = Posted
      PROVE  Fine(notes)' /\ Discussed(threads, Posted, talked)'
  BY <1>1, <1>2, <1>3 DEF Discussed, Fine
<1>4. CASE Start
  <2>1. Posted' = Posted
    BY <1>1, <1>4 DEF Start, Posted
  <2>2. <<>> \in Seq(Note)
    OBVIOUS
  <2>3. UNCHANGED <<notes, threads, page, got, tally, found, words, cut, cuts>>
        /\ stage = "idle" /\ stage' = "approvals" /\ ran' = ran + 1 /\ ran < case.runs
    BY <1>4 DEF Start, talk, history
  <2>4. cuts' + 1 <= ran'
    BY <1>1, <2>3 DEF Sound
  <2>5. got' \in Seq(Note) /\ page' = 1 /\ got' = <<>> /\ found' = 0
    BY <1>1, <2>2, <2>3 DEF Sound
  <2> QED BY <1>1, <1>2, <1>3, <2>1, <2>3, <2>4, <2>5 DEF Sound, Stages
<1>5. CASE ReadApprovals
  <2> DEFINE list == Reverse(notes)
  <2>1. list \in Seq(Note)
    BY <1>1, ReverseIs
  <2>2. Page(list, page) \in Seq(Note)
    BY <1>1, <2>1, PageIs
  <2>3. /\ stage = "approvals" /\ got' = got \o Page(list, page)
        /\ \/ page' = page + 1 /\ stage' = "approvals"
           \/ page' = 1 /\ stage' = "commits"
        /\ UNCHANGED <<notes, threads, found, ran, cuts>>
        /\ tally' = [u \in Users |-> Latest(got', u).kind]
        /\ cut' = IF page = 1 THEN 0 ELSE cut
        /\ words' = IF page = 1 THEN [u \in Users |-> {LastWord(notes, u)}] ELSE words
    BY <1>5 DEF ReadApprovals, Fetch, talk
  <2> HIDE DEF list
  <2>4. got' \in Seq(Note)
    <3>1. got \in Seq(Note)
      BY <1>1, <2>3 DEF Sound
    <3> QED BY <2>2, <2>3, <3>1, ConcatIs
  <2>5. tally' \in [Users -> Said \cup {"none"}]
    <3>1. \A u : Latest(got', u).kind \in Said \cup {"none"}
      BY <2>4, LatestIs DEF Silent
    <3> QED BY <2>3, <3>1
  <2>6. words' \in [Users -> SUBSET (Said \cup {"none"})]
    <3>1. \A u : LastWord(notes, u) \in Said \cup {"none"}
      BY <1>1, LastWordIs
    <3> QED BY <1>1, <2>3, <3>1
  <2>7. Posted' = Posted
    BY <2>3 DEF Posted
  <2>8. cut' \in Nat /\ cuts' + 1 <= ran' /\ page' \in Nat \ {0} /\ ran' = ran
        /\ found' = 0 /\ (stage' = "approvals" => page' # 1)
    BY <1>1, <2>3 DEF Sound
  <2> QED BY <1>1, <1>2, <1>3, <2>3, <2>4, <2>5, <2>6, <2>7, <2>8 DEF Sound, Stages
<1>6. CASE ReadCommits
  <2>1. UNCHANGED <<notes, threads, page, tally, found, ran, words, cut, cuts>>
        /\ stage = "commits" /\ stage' = "rules" /\ got' = <<>>
    BY <1>6 DEF ReadCommits, talk, history
  <2>2. Posted' = Posted
    BY <2>1 DEF Posted
  <2> QED BY <1>1, <1>2, <1>3, <2>1, <2>2 DEF Sound, Stages
<1>7. CASE RunRule \/ Summarise
  <2>1. UNCHANGED <<notes, threads, page, got, tally, found, ran, words, cut, cuts>>
        /\ stage = "rules" /\ stage' \in {"rules", "panicked", "threads"}
    BY <1>7 DEF RunRule, Summarise, talk, history
  <2>2. Posted' = Posted
    BY <2>1 DEF Posted
  <2>3. <<>> \in Seq(Discussion) /\ got = <<>>
    BY <1>1, <2>1 DEF Sound
  <2> QED BY <1>1, <1>2, <1>3, <2>1, <2>2, <2>3 DEF Sound, Stages
<1>8. CASE ReadThreads
  <2>1. /\ stage = "threads" /\ got' = got \o Page(threads, page)
        /\ \/ page' = page + 1 /\ stage' = "threads"
           \/ page' = 1 /\ stage' = "post"
        /\ UNCHANGED <<notes, threads, tally, words, ran, cuts>>
        /\ cut' = IF page = 1 THEN 0 ELSE cut
    BY <1>8 DEF ReadThreads, Fetch, talk
  <2>2. got' \in Seq(Discussion)
    <3>1. got \in Seq(Discussion) /\ Page(threads, page) \in Seq(Discussion)
      BY <1>1, <2>1, PageIs DEF Sound
    <3> QED BY <2>1, <3>1, ConcatIs
  <2>3. Posted' = Posted
    BY <2>1 DEF Posted
  <2>4. cut' \in Nat /\ cuts' + 1 <= ran' /\ page' \in Nat \ {0} /\ ran' = ran
        /\ (stage' = "threads" => page' # 1)
    BY <1>1, <2>1 DEF Sound
  <2> QED BY <1>1, <1>2, <1>3, <2>1, <2>2, <2>3, <2>4 DEF Sound, Stages
<1>9. CASE Post
  <2>1. /\ stage = "post" /\ stage' = "idle" /\ got' = <<>>
        /\ tally' = [u \in Users |-> "none"] /\ found' = 0 /\ words' = Unheard /\ cut' = 0
        /\ cuts' = cuts + (IF cut > 0 THEN 1 ELSE 0) /\ UNCHANGED <<page, ran>>
    BY <1>9 DEF Post, Forget
  <2>2. /\ tally' \in [Users -> Said \cup {"none"}]
        /\ words' \in [Users -> SUBSET (Said \cup {"none"})]
    BY <2>1 DEF Unheard
  <2>3. cuts + 1 <= ran /\ page = 1
    BY <1>1, <2>1 DEF Sound
  <2>4. cuts' \in Nat /\ cuts' <= ran'
    BY <1>1, <2>1, <2>3
  <2>5. Posted = ran - 1 /\ Posted' = ran /\ Posted \in Nat
    BY <1>1, <2>1, <2>3 DEF Posted
  <2>6. Summary \in Seq(Range(Order))
    BY <2>1, SummaryIs DEF SoundInv
  <2>7. Fine(notes')
    <3> DEFINE at == IF notes = <<>> THEN 0 ELSE Last(notes).at
               e == [by |-> Nobody, kind |-> "comment", id |-> -ran, at |-> at]
    <3>1. notes' = notes \/ notes' = Append(notes, e)
      BY <1>9 DEF Post
    <3>2. at \in Nat
      <4>1. CASE notes # <<>>
        <5>1. Last(notes) \in Note
          BY <1>1, <4>1 DEF Last
        <5> QED BY <4>1, <5>1 DEF Note
      <4> QED BY <4>1
    <3> HIDE DEF at
    <3>3. e \in Note /\ e.at >= at /\ e.kind = "comment"
      BY <1>1, <3>2 DEF Note
    <3> HIDE DEF e
    <3>4. Fine(Append(notes, e))
      BY <1>1, <3>3, NoteAdded DEF at
    <3> QED BY <1>1, <3>1, <3>4
  <2>8. Discussed(threads', ran, talked)
    <3>1. CASE found = 0
      <4> DEFINE e == [id |-> -ran, by |-> "bot", titled |-> TRUE, body |-> Summary]
      <4>1. threads' = Append(threads, e)
        BY <1>9, <3>1 DEF Post
      <4>2. e \in Discussion /\ e.by = "bot" /\ e.id = -ran /\ e.titled
        <5>1. -ran \in Int \ {0}
          BY <1>1, <2>3
        <5> QED BY <2>6, <5>1 DEF Discussion
      <4> HIDE DEF e
      <4>3. -e.id \in 1 .. ran
        BY <1>1, <2>3, <4>2
      <4>4. ASSUME NEW k \in DOMAIN threads PROVE threads[k].id # e.id
        <5>1. IF threads[k].by = "bot" THEN -threads[k].id \in 1 .. ran - 1
              ELSE threads[k].id < -case.runs \/ threads[k].id \in 1 .. talked
          BY <1>1, <2>5 DEF Discussed
        <5>2. threads[k] \in Discussion
          BY <1>1
        <5>3. threads[k].id \in Int
          BY <5>2 DEF Discussion
        <5> QED BY <1>1, <2>3, <4>2, <5>1, <5>3
      <4> QED BY <1>1, <2>3, <2>5, <4>1, <4>2, <4>3, <4>4, ThreadAdded
    <3>2. CASE found # 0
      <4> DEFINE new(i) == IF threads[i].id = found THEN [threads[i] EXCEPT !.body = Summary]
                           ELSE threads[i]
      <4>1. threads' = [i \in DOMAIN threads |-> new(i)]
        BY <1>9, <3>2 DEF Post
      <4>2. ASSUME NEW i \in DOMAIN threads
            PROVE  /\ new(i) \in Discussion /\ new(i).id = threads[i].id
                   /\ new(i).by = threads[i].by /\ new(i).titled = threads[i].titled
        <5>1. threads[i] \in Discussion
          BY <1>1
        <5> QED BY <2>6, <5>1 DEF Discussion
      <4> HIDE DEF new
      <4>3. DOMAIN threads = 1 .. Len(threads) /\ Len(threads) \in Nat
        BY <1>1
      <4>4. threads' \in Seq(Discussion) /\ DOMAIN threads' = DOMAIN threads
        BY <4>1, <4>2, <4>3
      <4>5. \A k \in DOMAIN threads :
              /\ threads'[k].id = threads[k].id /\ threads'[k].by = threads[k].by
              /\ threads[k].titled => threads'[k].titled
        BY <4>1, <4>2
      <4> QED BY <1>1, <2>5, <4>4, <4>5, ThreadsRewritten
    <3> QED BY <3>1, <3>2
  <2>9. Discussed(threads, Posted, talked)'
    BY <1>2, <2>1, <2>5, <2>8 DEF Discussed
  <2> QED BY <1>1, <1>2, <2>1, <2>2, <2>3, <2>4, <2>7, <2>9 DEF Sound, Stages
<1> QED BY <1>4, <1>5, <1>6, <1>7, <1>8, <1>9 DEF Run

\* Every step keeps it.
LEMMA SoundNext == SoundInv /\ [Next]_vars => SoundInv'
<1> SUFFICES ASSUME SoundInv, [Next]_vars PROVE Sound'
  BY JudgeNext DEF SoundInv
<1>1. CASE UNCHANGED vars
  <2>1. Posted' = Posted
    BY <1>1 DEF Posted, vars, run
  <2> QED BY <1>1, <2>1 DEF SoundInv, Sound, Discussed, vars, run, talk, history
<1> QED BY <1>1, SoundPeople, SoundRun DEF Next

\* The types of all variables.
THEOREM CheckTypes == Spec => []TypeOK
<1>1. SoundInv => TypeOK
  <2> SUFFICES ASSUME SoundInv PROVE TypeOK
    OBVIOUS
  <2>1. \A i \in DOMAIN notes : notes[i].by \in Users \cup {Nobody}
    <3>1. \A i \in DOMAIN notes : notes[i] \in Note
      BY DEF SoundInv, Sound, Fine
    <3> QED BY <3>1 DEF Note
  <2>2. \A i, k \in DOMAIN threads : threads[i].id = threads[k].id => i = k
    BY DEF SoundInv, Sound, Discussed
  <2>3. next \in 1 .. Len(Rules) + 1
    <3>1. Len(Rules) \in Nat
      BY RulesAre DEF SoundInv, JudgeInv
    <3> QED BY <3>1 DEF SoundInv, Sound, JudgeInv, Judging, Stages
  <2>4. cuts \in 0 .. ran
    BY CaseIs DEF SoundInv, Sound
  <2> QED BY <2>1, <2>2, <2>3, <2>4 DEF TypeOK, SoundInv, Sound
<1> QED BY <1>1, SoundInit, SoundNext, PTL DEF Spec


-----------------------------------------------------------------------------
(* The bot's discussion.                                                   *)

Bots(list) == {i \in DOMAIN list : list[i].by = "bot"}
\* The reports by their names, which deletions elsewhere do not move.
BotIds(list) == {list[i].id : i \in Bots(list)}

\* What has been read is still so, but that a discussion may quote the title by now.
Agrees(seen, now) ==
    /\ seen.id = now.id
    /\ seen.titled => now.titled
    /\ now.by = "bot" => seen.titled
Agreed ==
    /\ Len(got) = Before(page) /\ Len(got) <= Len(threads)
    /\ \A k \in 1 .. Len(got) : Agrees(got[k], threads[k])

\* Something with the title was found, no younger than any report.
FoundIn(list) ==
    \A i \in Bots(list) :
      /\ found # 0
      /\ \E k \in 1 .. i : list[k].titled /\ list[k].id = found

FindInv ==
    /\ SoundInv
    /\ IsFiniteSet(BotIds(threads)) /\ Cardinality(BotIds(threads)) <= 1 + cuts
    /\ stage = "threads" /\ (page = 1 \/ cut = 0) => Agreed
    /\ stage = "post" /\ cut = 0 => FoundIn(threads)

\* The first titled discussion of a list.
LEMMA FirstTitledIs ==
    ASSUME NEW list \in Seq(Discussion)
    PROVE  \/ FirstTitled(list) = 0 /\ \A k \in DOMAIN list : ~list[k].titled
           \/ \E m \in DOMAIN list :
                /\ list[m].titled /\ FirstTitled(list) = list[m].id
                /\ \A k \in DOMAIN list : list[k].titled => m <= k
<1> DEFINE titled == {k \in DOMAIN list : list[k].titled}
<1>1. FirstTitled(list) = IF titled = {} THEN 0 ELSE list[Min(titled)].id
  BY DEF FirstTitled
<1>2. titled # {} => Min(titled) \in titled /\ \A y \in titled : Min(titled) <= y
  <2>1. titled \subseteq Nat
    OBVIOUS
  <2> QED BY <2>1, FirstPlace
<1>3. \A k : k \in titled <=> k \in DOMAIN list /\ list[k].titled
  OBVIOUS
<1> HIDE DEF titled
<1> QED BY <1>1, <1>2, <1>3

\* At first there is no report.
LEMMA FindInit == Init => FindInv
<1> SUFFICES ASSUME Init PROVE FindInv
  OBVIOUS
<1>1. SoundInv /\ stage = "idle" /\ cuts = 0
  BY SoundInit DEF Init
<1>2. Bots(threads) = {}
  BY DEF Init, Bots, Thread
<1>3. BotIds(threads) = {}
  BY <1>2 DEF BotIds
<1>4. IsFiniteSet(BotIds(threads)) /\ Cardinality(BotIds(threads)) = 0
  BY <1>3, FS_EmptySet
<1> QED BY <1>1, <1>4 DEF FindInv

\* One page of discussions.
LEMMA FindRead ==
    ASSUME FindInv, ReadThreads
    PROVE  /\ stage' = "threads" /\ (page' = 1 \/ cut' = 0) => Agreed'
           /\ stage' = "post" /\ cut' = 0 => FoundIn(threads)'
<1>1. /\ threads \in Seq(Discussion) /\ got \in Seq(Discussion) /\ page \in Nat \ {0}
      /\ \A i \in DOMAIN threads : threads[i].by = "bot" => threads[i].titled
      /\ Len(threads) \in Nat /\ DOMAIN threads = 1 .. Len(threads)
      /\ \A i \in DOMAIN threads : threads[i].id # 0
  <2>1. \A i \in DOMAIN threads : threads[i] \in Discussion
    BY DEF FindInv, SoundInv, Sound, Discussed
  <2>2. \A i \in DOMAIN threads : threads[i].id # 0
    BY <2>1 DEF Discussion
  <2> QED BY <2>2 DEF FindInv, SoundInv, Sound, Discussed, ReadThreads
<1>2. /\ stage = "threads" /\ threads' = threads /\ got' = got \o Page(threads, page)
      /\ found' = FirstTitled(got')
      /\ \/ HasNext(threads, page) /\ page' = page + 1 /\ stage' = "threads"
         \/ ~HasNext(threads, page) /\ page' = 1 /\ stage' = "post"
      /\ cut' = IF page = 1 THEN 0 ELSE cut
  BY DEF ReadThreads, Fetch, talk
<1> SUFFICES ASSUME cut' = 0
             PROVE  /\ stage' = "threads" => Agreed'
                    /\ stage' = "post" => FoundIn(threads)'
  BY <1>1, <1>2
<1>3. Agreed
  BY <1>2 DEF FindInv
<1> DEFINE p == Before(page)
           e == IF p + PageSize < Len(threads) THEN p + PageSize ELSE Len(threads)
           pg == Page(threads, page)
<1>4. p \in Nat /\ p = Len(got) /\ p <= Len(threads) /\ PageSize \in Nat \ {0}
  BY <1>1, <1>3, BeforeIs, PageAssumption DEF Agreed
<1>5. /\ pg \in Seq(Discussion) /\ Len(pg) = IF p <= e THEN e - p ELSE 0
      /\ \A k \in 1 .. Len(pg) : p + k \in DOMAIN threads /\ pg[k] = threads[p + k]
  BY <1>1, PageIs
<1> HIDE DEF p, pg
<1>6. e \in Nat /\ p <= e /\ Len(pg) = e - p /\ e <= Len(threads)
  <2>1. e \in Nat /\ p <= e /\ e <= Len(threads)
    <3>1. Len(threads) \in Nat
      BY <1>1
    <3> QED BY <1>4, <3>1
  <2>2. Len(pg) = IF p <= e THEN e - p ELSE 0
    BY <1>5
  <2> HIDE DEF e
  <2> QED BY <2>1, <2>2
<1> HIDE DEF e
<1>7. /\ got' \in Seq(Discussion) /\ Len(got') = e /\ DOMAIN got' = 1 .. e
      /\ \A k \in 1 .. p : got'[k] = got[k]
      /\ \A k \in 1 .. e - p : got'[p + k] = pg[k]
  <2>1. /\ got \o pg \in Seq(Discussion) /\ Len(got \o pg) = p + (e - p)
        /\ DOMAIN (got \o pg) = 1 .. p + (e - p)
        /\ \A k \in 1 .. p : (got \o pg)[k] = got[k]
        /\ \A k \in 1 .. e - p : (got \o pg)[p + k] = pg[k]
    <3>1. got \in Seq(Discussion) /\ pg \in Seq(Discussion) /\ Len(got) = p /\ Len(pg) = e - p
      BY <1>1, <1>4, <1>5, <1>6
    <3>2. /\ got \o pg \in Seq(Discussion) /\ Len(got \o pg) = Len(got) + Len(pg)
          /\ DOMAIN (got \o pg) = 1 .. Len(got) + Len(pg)
          /\ \A k \in 1 .. Len(got) : (got \o pg)[k] = got[k]
          /\ \A k \in 1 .. Len(pg) : (got \o pg)[Len(got) + k] = pg[k]
      BY <3>1
    <3> QED BY <3>1, <3>2, Zenon
  <2>2. p + (e - p) = e
    BY <1>4, <1>6
  <2> QED BY <1>2, <2>1, <2>2 DEF pg
<1>8. ASSUME NEW k \in 1 .. e PROVE Agrees(got'[k], threads[k])
  <2>1. CASE k <= p
    <3>1. k \in 1 .. Len(got) /\ got'[k] = got[k]
      BY <1>4, <1>7, <2>1
    <3> QED BY <1>3, <3>1 DEF Agreed
  <2>2. CASE k > p
    <3>1. k - p \in 1 .. e - p /\ p + (k - p) = k
      BY <1>4, <1>6, <2>2
    <3>2. got'[k] = threads[k]
      BY <1>5, <1>6, <1>7, <3>1
    <3>3. k \in DOMAIN threads
      BY <1>1, <1>6
    <3> QED BY <1>1, <3>2, <3>3 DEF Agrees
  <2> QED BY <1>4, <1>6, <2>1, <2>2
<1>9. ASSUME stage' = "threads" PROVE Agreed'
  <2>1. HasNext(threads, page) /\ page' = page + 1
    BY <1>2, <1>9
  <2>2. p + PageSize < Len(threads) /\ Before(page') = p + PageSize
    BY <1>1, <2>1, BeforeIs DEF HasNext, p
  <2>3. e = p + PageSize
    BY <2>2 DEF e
  <2> QED BY <1>2, <1>6, <1>7, <1>8, <2>2, <2>3 DEF Agreed
<1>10. ASSUME stage' = "post" PROVE FoundIn(threads)'
  <2>1. ~(p + PageSize < Len(threads))
    <3>1. ~HasNext(threads, page)
      BY <1>2, <1>10
    <3> QED BY <1>1, <3>1, BeforeIs DEF HasNext, p
  <2>2. e = Len(threads)
    BY <2>1 DEF e
  <2> SUFFICES ASSUME NEW i \in Bots(threads)
               PROVE  /\ found' # 0
                      /\ \E k \in 1 .. i : threads[k].titled /\ threads[k].id = found'
    BY <1>2 DEF FoundIn
  <2>3. i \in 1 .. e /\ threads[i].by = "bot"
    BY <1>1, <2>2 DEF Bots
  <2>4. got'[i].titled
    BY <1>8, <2>3 DEF Agrees
  <2>5. PICK m \in DOMAIN got' : /\ got'[m].titled /\ found' = got'[m].id
                                 /\ \A k \in DOMAIN got' : got'[k].titled => m <= k
    BY <1>2, <1>7, <2>3, <2>4, FirstTitledIs
  <2>6. m \in 1 .. e /\ m <= i /\ got'[m].id = threads[m].id /\ threads[m].titled
    <3>1. m \in 1 .. e /\ m <= i
      BY <1>7, <2>3, <2>4, <2>5
    <3>2. Agrees(got'[m], threads[m])
      BY <1>8, <3>1
    <3>3. /\ got'[m].id = threads[m].id
          /\ got'[m].titled => threads[m].titled
      BY <3>2 DEF Agrees
    <3>4. threads[m].titled
      BY <2>5, <3>3
    <3> QED BY <3>1, <3>3, <3>4
  <2>7. found' # 0
    BY <1>1, <2>2, <2>5, <2>6
  <2>8. m \in 1 .. i /\ threads[m].titled /\ threads[m].id = found'
    BY <1>6, <2>3, <2>5, <2>6
  <2> QED BY <2>7, <2>8
<1> QED BY <1>9, <1>10

\* What people do does not hide the report.
LEMMA FindPeople ==
    ASSUME FindInv, People, SoundInv'
    PROVE  FindInv'
<1>1. /\ UNCHANGED <<case, stage, page, got, found, cuts>>
  BY DEF People, Approve, Comment, Quote, Delete, run, history
<1>2. /\ threads \in Seq(Discussion) /\ Len(threads) \in Nat
      /\ DOMAIN threads = 1 .. Len(threads) /\ cut \in Nat /\ page \in Nat \ {0}
      /\ threads' \in Seq(Discussion)
  BY DEF FindInv, SoundInv, Sound, Discussed
<1>3. ASSUME stage = "threads", page = 1 PROVE Agreed'
  <2>1. got' = <<>> /\ page' = 1 /\ Before(1) = 0
    BY <1>1, <1>3, BeforeIs DEF FindInv, SoundInv, Sound
  <2>2. Len(threads') \in Nat /\ Len(<<>>) = 0 /\ 1 .. 0 = {}
    BY <1>2
  <2> QED BY <2>1, <2>2 DEF Agreed
<1>4. ASSUME BotIds(threads') = BotIds(threads),
             stage = "threads" /\ page # 1 /\ cut' = 0 => cut = 0 /\ (Agreed => Agreed'),
             stage = "post" /\ cut' = 0 => cut = 0 /\ (FoundIn(threads) => FoundIn(threads'))
      PROVE  FindInv'
  <2>1. FoundIn(threads)' <=> FoundIn(threads')
    BY <1>1 DEF FoundIn
  <2> QED BY <1>1, <1>3, <1>4, <2>1 DEF FindInv
<1>5. ASSUME cut' = cut, DOMAIN threads \subseteq DOMAIN threads', Len(threads) <= Len(threads'),
             DOMAIN threads' = 1 .. Len(threads'),
             \A k \in DOMAIN threads :
               /\ threads'[k].id = threads[k].id /\ threads'[k].by = threads[k].by
               /\ threads[k].titled => threads'[k].titled,
             \A k \in DOMAIN threads' \ DOMAIN threads : threads'[k].by # "bot"
      PROVE  FindInv'
  <2>1. Bots(threads') = Bots(threads)
    BY <1>5 DEF Bots
  <2>2. BotIds(threads') = BotIds(threads)
    BY <1>5, <2>1 DEF BotIds, Bots
  <2>3. ASSUME Agreed, stage = "threads" PROVE Agreed'
    <3>1. Len(got) \in Nat
      BY <2>3 DEF FindInv, SoundInv, Sound
    <3>2. ASSUME NEW k \in 1 .. Len(got) PROVE Agrees(got[k], threads'[k])
      <4>1. k \in DOMAIN threads /\ Agrees(got[k], threads[k])
        BY <1>2, <2>3, <3>1 DEF Agreed
      <4> QED BY <1>5, <4>1 DEF Agrees
    <3>3. Len(got) <= Len(threads')
      <4>1. Len(threads') \in Nat
        BY <1>2
      <4> QED BY <1>2, <1>5, <2>3, <3>1, <4>1 DEF Agreed
    <3> QED BY <1>1, <2>3, <3>2, <3>3 DEF Agreed
  <2>4. ASSUME FoundIn(threads) PROVE FoundIn(threads')
    <3> SUFFICES ASSUME NEW i \in Bots(threads')
                 PROVE  /\ found # 0
                        /\ \E k \in 1 .. i : threads'[k].titled /\ threads'[k].id = found
      BY DEF FoundIn
    <3>1. i \in Bots(threads) /\ i \in DOMAIN threads /\ \A k \in 1 .. i : k \in DOMAIN threads
      BY <1>2, <2>1 DEF Bots
    <3>2. /\ found # 0
          /\ \E k \in 1 .. i : threads[k].titled /\ threads[k].id = found
      BY <2>4, <3>1 DEF FoundIn
    <3> QED BY <1>5, <3>1, <3>2
  <2> QED BY <1>4, <1>5, <2>2, <2>3, <2>4
<1>6. CASE \E u \in Users : Approve(u)
  <2>1. threads' = threads /\ cut' = cut
    BY <1>6 DEF Approve
  <2> QED BY <1>2, <1>5, <2>1
<1>7. CASE Comment
  <2> DEFINE t == Thread(talked + 1)
  <2>1. threads' = Append(threads, t) /\ cut' = cut
    BY <1>7 DEF Comment, history
  <2>2. t.by = "people"
    BY DEF Thread
  <2> HIDE DEF t
  <2>3. /\ Len(threads') = Len(threads) + 1 /\ DOMAIN threads' = 1 .. Len(threads) + 1
        /\ threads'[Len(threads) + 1] = t
        /\ \A k \in 1 .. Len(threads) : threads'[k] = threads[k]
    BY <1>2, <2>1
  <2>4. \A k \in DOMAIN threads' \ DOMAIN threads : k = Len(threads) + 1
    BY <1>2, <2>3
  <2>5. DOMAIN threads \subseteq DOMAIN threads' /\ Len(threads) <= Len(threads')
    BY <1>2, <2>3
  <2>6. \A k \in DOMAIN threads' \ DOMAIN threads : threads'[k].by # "bot"
    BY <2>2, <2>3, <2>4
  <2> QED BY <1>2, <1>5, <2>1, <2>3, <2>5, <2>6
<1>8. CASE \E i \in DOMAIN threads : Quote(i)
  <2>1. PICK i \in DOMAIN threads : Quote(i)
    BY <1>8
  <2>2. threads' = [threads EXCEPT ![i] = [threads[i] EXCEPT !.titled = TRUE]] /\ cut' = cut
    BY <2>1 DEF Quote, history
  <2> DEFINE e == [threads[i] EXCEPT !.titled = TRUE]
  <2>3. e.id = threads[i].id /\ e.by = threads[i].by /\ e.titled
    <3>1. threads[i] \in Discussion
      BY <1>2
    <3> QED BY <3>1 DEF Discussion
  <2>4. threads' = [threads EXCEPT ![i] = e]
    BY <2>2
  <2> HIDE DEF e
  <2>5. /\ DOMAIN threads' = DOMAIN threads /\ threads'[i] = e
        /\ \A k \in DOMAIN threads : k # i => threads'[k] = threads[k]
    BY <2>4
  <2>6. Len(threads') = Len(threads)
    BY <1>2, <2>5
  <2>7. \A k \in DOMAIN threads :
          /\ threads'[k].id = threads[k].id /\ threads'[k].by = threads[k].by
          /\ threads[k].titled => threads'[k].titled
    BY <2>3, <2>5
  <2> QED BY <1>2, <1>5, <2>2, <2>5, <2>6, <2>7
<1>9. CASE \E i \in DOMAIN threads : Delete(i)
  <2>1. PICK d \in DOMAIN threads : Delete(d)
    BY <1>9
  <2> DEFINE o(k) == IF k < d THEN k ELSE k + 1
  <2>2. /\ threads' = RemoveAt(threads, d) /\ threads[d].by = "people" /\ ~threads[d].titled
        /\ cut' = cut + (IF Reading("approvals") \/ Reading("threads") THEN 1 ELSE 0)
    BY <2>1 DEF Delete
  <2>3. /\ DOMAIN threads' = 1 .. Len(threads) - 1
        /\ \A k \in 1 .. Len(threads) - 1 : threads'[k] = threads[o(k)]
    BY <1>2, <2>2, RemoveAtIs
  <2>4. /\ \A k \in 1 .. Len(threads) - 1 : o(k) \in 1 .. Len(threads) /\ o(k) # d
        /\ \A k \in 1 .. Len(threads) : k # d =>
             \E j \in 1 .. Len(threads) - 1 : o(j) = k
    <3>1. \A k \in 1 .. Len(threads) - 1 : o(k) \in 1 .. Len(threads) /\ o(k) # d
      BY <1>2
    <3>2. ASSUME NEW k \in 1 .. Len(threads), k # d
          PROVE  \E j \in 1 .. Len(threads) - 1 : o(j) = k
      <4>1. CASE k < d
        <5>1. k \in 1 .. Len(threads) - 1 /\ o(k) = k
          BY <1>2, <4>1
        <5> QED BY <5>1
      <4>2. CASE k > d
        <5>1. k - 1 \in 1 .. Len(threads) - 1 /\ o(k - 1) = k
          BY <1>2, <4>2
        <5> QED BY <5>1
      <4> QED BY <1>2, <3>2, <4>1, <4>2
    <3> QED BY <3>1, <3>2
  <2>5. \A i \in 1 .. Len(threads) - 1 : \A k \in 1 .. Len(threads) :
          k < o(i) => k = d \/ \E j \in 1 .. i - 1 : o(j) = k
    <3> SUFFICES ASSUME NEW i \in 1 .. Len(threads) - 1, NEW k \in 1 .. Len(threads),
                        k < o(i), k # d
                 PROVE  \E j \in 1 .. i - 1 : o(j) = k
      OBVIOUS
    <3>1. CASE k < d
      <4>1. k \in 1 .. i - 1 /\ o(k) = k
        BY <1>2, <3>1
      <4> QED BY <4>1
    <3>2. CASE k > d
      <4>1. k - 1 \in 1 .. i - 1 /\ o(k - 1) = k
        BY <1>2, <3>2
      <4> QED BY <4>1
    <3> QED BY <1>2, <3>1, <3>2
  <2> HIDE DEF o
  <2>6. BotIds(threads') = BotIds(threads)
    <3>1. ASSUME NEW i \in Bots(threads') PROVE threads'[i].id \in BotIds(threads)
      <4>1. i \in 1 .. Len(threads) - 1 /\ threads'[i].by = "bot"
        BY <2>3 DEF Bots
      <4>2. o(i) \in Bots(threads) /\ threads'[i].id = threads[o(i)].id
        BY <1>2, <2>3, <2>4, <4>1 DEF Bots
      <4> QED BY <4>2 DEF BotIds
    <3>2. ASSUME NEW i \in Bots(threads) PROVE threads[i].id \in BotIds(threads')
      <4>1. i \in 1 .. Len(threads) /\ threads[i].by = "bot" /\ i # d
        BY <1>2, <2>2 DEF Bots
      <4>2. PICK j \in 1 .. Len(threads) - 1 : o(j) = i
        BY <2>4, <4>1
      <4>3. j \in Bots(threads') /\ threads'[j].id = threads[i].id
        BY <2>3, <4>1, <4>2 DEF Bots
      <4> QED BY <4>3 DEF BotIds
    <3>3. BotIds(threads') \subseteq BotIds(threads)
      BY <3>1 DEF BotIds
    <3>4. BotIds(threads) \subseteq BotIds(threads')
      BY <3>2 DEF BotIds
    <3> QED BY <3>3, <3>4
  <2>7. ASSUME FoundIn(threads) PROVE FoundIn(threads')
    <3> SUFFICES ASSUME NEW i \in Bots(threads')
                 PROVE  /\ found # 0
                        /\ \E k \in 1 .. i : threads'[k].titled /\ threads'[k].id = found
      BY DEF FoundIn
    <3>1. i \in 1 .. Len(threads) - 1 /\ threads'[i].by = "bot" /\ threads'[i] = threads[o(i)]
      BY <2>3 DEF Bots
    <3>2. o(i) \in Bots(threads)
      BY <1>2, <2>4, <3>1 DEF Bots
    <3>3. found # 0 /\ \E k \in 1 .. o(i) : threads[k].titled /\ threads[k].id = found
      BY <2>7, <3>2 DEF FoundIn
    <3>4. PICK k \in 1 .. o(i) : threads[k].titled /\ threads[k].id = found
      BY <3>3
    <3>5. k # d
      BY <2>2, <3>4
    <3>6. \E j \in 1 .. i : o(j) = k
      <4>1. CASE k = o(i)
        BY <3>1, <4>1
      <4>2. CASE k # o(i)
        <5>1. k \in 1 .. Len(threads) /\ k < o(i)
          BY <1>2, <2>4, <3>1, <4>2
        <5>2. PICK j \in 1 .. i - 1 : o(j) = k
          BY <2>5, <3>1, <3>5, <5>1
        <5>3. j \in 1 .. i
          BY <3>1
        <5> QED BY <5>2, <5>3
      <4> QED BY <4>1, <4>2
    <3>7. PICK j \in 1 .. i : o(j) = k
      BY <3>6
    <3>8. j \in 1 .. Len(threads) - 1
      BY <1>2, <3>1
    <3> QED BY <2>3, <3>3, <3>4, <3>7, <3>8
  <2>8. stage = "threads" /\ page # 1 => cut' # 0
    BY <1>2, <2>2 DEF Reading
  <2>9. cut' = 0 => cut = 0
    BY <1>2, <2>2
  <2> QED BY <1>4, <2>6, <2>7, <2>8, <2>9
<1> QED BY <1>6, <1>7, <1>8, <1>9 DEF People


\* Neither does a run.
LEMMA FindRun ==
    ASSUME FindInv, Run, SoundInv'
    PROVE  FindInv'
<1>1. /\ threads \in Seq(Discussion) /\ Len(threads) \in Nat
      /\ DOMAIN threads = 1 .. Len(threads) /\ cut \in Nat /\ cuts \in Nat
      /\ IsFiniteSet(BotIds(threads)) /\ Cardinality(BotIds(threads)) <= 1 + cuts
      /\ Cardinality(BotIds(threads)) \in Nat
  BY FS_CardinalityType DEF FindInv, SoundInv, Sound, Discussed
<1>2. CASE Start \/ ReadApprovals \/ ReadCommits \/ RunRule
  <2>1. threads' = threads /\ cuts' = cuts /\ stage' \notin {"threads", "post"}
    BY <1>2 DEF Start, ReadApprovals, ReadCommits, RunRule, Fetch, talk, history,
                FindInv, SoundInv, Sound, Stages
  <2> QED BY <1>1, <2>1 DEF FindInv
<1>3. CASE Summarise
  <2>1. threads' = threads /\ cuts' = cuts /\ stage' = "threads" /\ got' = <<>> /\ page' = 1
    BY <1>3 DEF Summarise, talk, history, FindInv, SoundInv, Sound
  <2>2. Before(1) = 0 /\ Len(<<>>) = 0 /\ 1 .. 0 = {}
    BY BeforeIs
  <2>3. Agreed'
    BY <1>1, <2>1, <2>2 DEF Agreed
  <2> QED BY <1>1, <2>1, <2>3 DEF FindInv
<1>4. CASE ReadThreads
  <2>1. threads' = threads /\ cuts' = cuts
    BY <1>4 DEF ReadThreads, talk
  <2>2. /\ stage' = "threads" /\ (page' = 1 \/ cut' = 0) => Agreed'
        /\ stage' = "post" /\ cut' = 0 => FoundIn(threads)'
    BY <1>4, FindRead
  <2> QED BY <1>1, <2>1, <2>2 DEF FindInv
<1>5. CASE Post
  <2>1. stage = "post" /\ stage' = "idle" /\ cuts' = cuts + (IF cut > 0 THEN 1 ELSE 0)
    BY <1>5 DEF Post
  <2>2. CASE found = 0
    <3> DEFINE e == [id |-> -ran, by |-> "bot", titled |-> TRUE, body |-> Summary]
    <3>1. threads' = Append(threads, e)
      BY <1>5, <2>2 DEF Post
    <3>2. e.by = "bot" /\ e.id = -ran
      OBVIOUS
    <3> HIDE DEF e
    <3>3. /\ DOMAIN threads' = 1 .. Len(threads) + 1
          /\ threads'[Len(threads) + 1] = e
          /\ \A k \in 1 .. Len(threads) : threads'[k] = threads[k]
      BY <1>1, <3>1
    <3>4. BotIds(threads') = BotIds(threads) \cup {-ran}
      <4>1. \A i : i \in Bots(threads') <=> i \in Bots(threads) \/ i = Len(threads) + 1
        BY <1>1, <3>2, <3>3 DEF Bots
      <4>2. \A i \in Bots(threads) : i \in 1 .. Len(threads) /\ threads'[i].id = threads[i].id
        BY <1>1, <3>3 DEF Bots
      <4>3. threads'[Len(threads) + 1].id = -ran
        BY <3>2, <3>3
      <4> QED BY <4>1, <4>2, <4>3 DEF BotIds
    <3>5. IsFiniteSet(BotIds(threads'))
          /\ Cardinality(BotIds(threads')) <= Cardinality(BotIds(threads)) + 1
      <4> DEFINE ids == BotIds(threads)
      <4> HIDE DEF ids
      <4>1. IsFiniteSet(ids) /\ Cardinality(ids) \in Nat
        BY <1>1 DEF ids
      <4>2. /\ IsFiniteSet(ids \cup {-ran})
            /\ Cardinality(ids \cup {-ran}) =
                 IF -ran \in ids THEN Cardinality(ids) ELSE Cardinality(ids) + 1
        BY <4>1, FS_AddElement
      <4>3. Cardinality(ids \cup {-ran}) <= Cardinality(ids) + 1
        BY <4>1, <4>2
      <4> QED BY <3>4, <4>2, <4>3 DEF ids
    <3>6. Cardinality(BotIds(threads')) \in Nat
      BY <3>5, FS_CardinalityType
    <3>7. CASE cut = 0
      <4>1. Bots(threads) = {}
        BY <2>1, <2>2, <3>7 DEF FindInv, FoundIn
      <4>2. Cardinality(BotIds(threads)) = 0
        BY <4>1, FS_EmptySet DEF BotIds
      <4> QED BY <1>1, <2>1, <3>5, <3>6, <3>7, <4>2 DEF FindInv
    <3>8. CASE cut # 0
      <4>1. cuts' = cuts + 1
        BY <1>1, <2>1, <3>8
      <4> QED BY <1>1, <2>1, <3>5, <3>6, <4>1 DEF FindInv
    <3> QED BY <3>7, <3>8
  <2>3. CASE found # 0
    <3> DEFINE new(i) == IF threads[i].id = found THEN [threads[i] EXCEPT !.body = Summary]
                         ELSE threads[i]
    <3>1. threads' = [i \in DOMAIN threads |-> new(i)]
      BY <1>5, <2>3 DEF Post
    <3>2. ASSUME NEW i \in DOMAIN threads
          PROVE  new(i).id = threads[i].id /\ new(i).by = threads[i].by
      <4>1. threads[i] \in Discussion
        BY <1>1
      <4> QED BY <4>1 DEF Discussion
    <3> HIDE DEF new
    <3>3. DOMAIN threads' = DOMAIN threads
          /\ \A i \in DOMAIN threads : /\ threads'[i].id = threads[i].id
                                       /\ threads'[i].by = threads[i].by
      BY <3>1, <3>2
    <3>4. Bots(threads') = Bots(threads)
      BY <3>3 DEF Bots
    <3>5. BotIds(threads') = BotIds(threads)
      BY <3>3, <3>4 DEF BotIds, Bots
    <3>6. cuts' >= cuts /\ cuts' \in Nat
      BY <1>1, <2>1
    <3> QED BY <1>1, <2>1, <3>5, <3>6 DEF FindInv
  <2> QED BY <2>2, <2>3
<1> QED BY <1>2, <1>3, <1>4, <1>5 DEF Run

\* Every step keeps the report where the next run finds it.
LEMMA FindNext == FindInv /\ [Next]_vars => FindInv'
<1> SUFFICES ASSUME FindInv, [Next]_vars PROVE FindInv'
  OBVIOUS
<1>1. SoundInv'
  BY SoundNext DEF FindInv
<1>2. CASE UNCHANGED vars
  <2>1. UNCHANGED <<case, threads, stage, page, got, found, cut, cuts>>
    BY <1>2 DEF vars, talk, run, history
  <2>2. (Agreed' <=> Agreed) /\ (FoundIn(threads)' <=> FoundIn(threads))
    BY <2>1 DEF Agreed, FoundIn
  <2> QED BY <1>1, <2>1, <2>2 DEF FindInv
<1> QED BY <1>1, <1>2, FindPeople, FindRun DEF Next

\* Unless comments were deleted while the discussions were listed, a run goes for
\* the bot's own report or for an older discussion that quotes the title; only
\* listings with deletions leave another report.
THEOREM ReportFound == Spec => []ReportIsFound
<1>1. FindInv => ReportIsFound
  <2> SUFFICES ASSUME FindInv
               PROVE  /\ Cardinality(Bots(threads)) <= 1 + cuts
                      /\ stage = "post" /\ cut = 0 =>
                           \A i \in Bots(threads) :
                             \E k \in 1 .. i : threads[k].titled /\ threads[k].id = found
    BY DEF ReportIsFound, Bots
  <2> DEFINE f == [i \in Bots(threads) |-> threads[i].id]
  <2>1. \A i, k \in Bots(threads) : threads[i].id = threads[k].id => i = k
    BY DEF FindInv, SoundInv, Sound, Discussed, Bots
  <2>2. f \in [Bots(threads) -> BotIds(threads)] /\ IsInjective(f)
    BY <2>1 DEF BotIds, IsInjective
  <2>3. f \in Injection(Bots(threads), BotIds(threads))
    BY <2>2 DEF Injection
  <2> HIDE DEF f
  <2>4. /\ IsFiniteSet(Bots(threads)) /\ IsFiniteSet(BotIds(threads))
        /\ Cardinality(Bots(threads)) <= Cardinality(BotIds(threads))
    BY <2>3, FS_Injection DEF FindInv
  <2>5. Cardinality(Bots(threads)) \in Nat /\ Cardinality(BotIds(threads)) \in Nat
    BY <2>4, FS_CardinalityType
  <2>6. Cardinality(Bots(threads)) <= 1 + cuts
    BY <2>4, <2>5 DEF FindInv, SoundInv, Sound
  <2> QED BY <2>6 DEF FindInv, FoundIn
<1> QED BY <1>1, FindInit, FindNext, PTL DEF Spec


-----------------------------------------------------------------------------
(* Reading notes while people talk.                                        *)

Word(e, u) == e.by = u /\ e.kind \in Said

\* What has been read of a user settles the status: the status is among the
\* user's words, and no note of before page 1 would replace it.
Settled(now, list, old, ws, u) ==
    /\ now.kind \in ws[u]
    /\ \A k \in 1 .. old : Word(list[k], u) => now # Silent /\ list[k].at <= now.at

\* Or nothing has been read of the user yet, and the last word of before page 1
\* is still to come.
Pending(now, list, old, left, ws, u) ==
    /\ now = Silent
    /\ \E m \in 1 .. old :
         /\ m <= left /\ Word(list[m], u) /\ list[m].kind \in ws[u]
         /\ \A k \in 1 .. old : Word(list[k], u) => k <= m

\* The first notes of the list, so many as old says, are of before page 1, so
\* many as left says are still to be read; the status of some users may be lost.
Follows(seen, list, old, left, ws, lost) ==
    /\ old \in 0 .. Len(list)
    /\ \A u \in Users : \A k \in old + 1 .. Len(list) :
         Word(list[k], u) => list[k].kind \in ws[u]
    /\ \A u \in Users \ lost :
         \/ Settled(Latest(seen, u), list, old, ws, u)
         \/ Pending(Latest(seen, u), list, old, left, ws, u)

\* Before page 1 nothing has been read.
LEMMA FollowsAtFirst ==
    ASSUME NEW list, Fine(list), NEW ws,
           \A u \in Users : ws[u] = {LastWord(list, u)}
    PROVE  Follows(<<>>, list, Len(list), Len(list), ws, {})
<1>1. list \in Seq(Note) /\ Len(list) \in Nat /\ DOMAIN list = 1 .. Len(list)
  BY DEF Fine
<1>2. ASSUME NEW u \in Users
      PROVE  \/ Settled(Silent, list, Len(list), ws, u)
             \/ Pending(Silent, list, Len(list), Len(list), ws, u)
  <2>1. CASE /\ LastWord(list, u) = "none"
             /\ ~\E k \in DOMAIN list : list[k].by = u /\ list[k].kind \in Said
    BY <1>1, <2>1 DEF Settled, Word, Silent
  <2>2. CASE \E m \in DOMAIN list :
               /\ list[m].by = u /\ list[m].kind \in Said /\ LastWord(list, u) = list[m].kind
               /\ \A k \in DOMAIN list : list[k].by = u /\ list[k].kind \in Said => k <= m
    <3>1. PICK m \in DOMAIN list :
               /\ list[m].by = u /\ list[m].kind \in Said /\ LastWord(list, u) = list[m].kind
               /\ \A k \in DOMAIN list : list[k].by = u /\ list[k].kind \in Said => k <= m
      BY <2>2
    <3>2. m \in 1 .. Len(list) /\ m <= Len(list)
      BY <1>1
    <3> QED BY <1>1, <3>1, <3>2 DEF Pending, Word
  <2> QED BY <1>1, <2>1, <2>2, LastWordIs
<1>3. \A u : Latest(<<>>, u) = Silent
  BY LatestOfNone
<1>4. Len(list) + 1 .. Len(list) = {}
  BY <1>1
<1> QED BY <1>1, <1>2, <1>3, <1>4 DEF Follows

\* One note is read.
LEMMA FollowsHeard ==
    ASSUME NEW list, Fine(list), NEW old, NEW ws, NEW lost, NEW n \in 1 .. Len(list),
           NEW a \in Seq(Note), NEW b \in Seq(Note), Len(b) = Len(a) + 1,
           \A k \in 1 .. Len(a) : b[k] = a[k], b[Len(b)] = list[n],
           Follows(a, list, old, n, ws, lost)
    PROVE  Follows(b, list, old, n - 1, ws, lost)
<1>1. list \in Seq(Note) /\ Len(list) \in Nat /\ DOMAIN list = 1 .. Len(list)
      /\ old \in 0 .. Len(list)
  BY DEF Fine, Follows
<1>2. /\ \A k \in 1 .. Len(list) : list[k].at \in Nat
      /\ \A i, k \in 1 .. Len(list) : k <= i => list[k].at <= list[i].at
  <2>1. \A k \in 1 .. Len(list) : list[k] \in Note
    BY <1>1
  <2> QED BY <1>1, <2>1 DEF Fine, Note
<1>3. ASSUME NEW u \in Users \ lost
      PROVE  \/ Settled(Latest(b, u), list, old, ws, u)
             \/ Pending(Latest(b, u), list, old, n - 1, ws, u)
  <2> DEFINE x == Latest(a, u)
             y == Latest(b, u)
  <2>1. y = Heard(x, list[n], u)
    BY LatestStep
  <2>2. x = Silent \/ x \in Note
    BY LatestIs
  <2>3. \/ Settled(x, list, old, ws, u)
        \/ Pending(x, list, old, n, ws, u)
    BY DEF Follows
  <2>4. n > old /\ Word(list[n], u) => list[n].kind \in ws[u]
    BY <1>1 DEF Follows
  <2> HIDE DEF x, y
  <2>5. CASE ~Word(list[n], u)
    <3>1. y = x
      BY <2>1, <2>5 DEF Heard, Word
    <3>2. ASSUME Pending(x, list, old, n, ws, u) PROVE Pending(x, list, old, n - 1, ws, u)
      <4>1. PICK m \in 1 .. old :
              /\ m <= n /\ Word(list[m], u) /\ list[m].kind \in ws[u]
              /\ \A k \in 1 .. old : Word(list[k], u) => k <= m
        BY <3>2 DEF Pending
      <4>2. m # n
        BY <2>5, <4>1
      <4>3. m <= n - 1
        BY <1>1, <4>1, <4>2
      <4> QED BY <3>2, <4>1, <4>3 DEF Pending
    <3> QED BY <2>3, <3>1, <3>2 DEF y
  <2>6. CASE Word(list[n], u)
    <3>1. y = IF x = Silent \/ list[n].at > x.at THEN list[n] ELSE x
      BY <2>1, <2>6 DEF Heard, Word, After
    <3>2. list[n] # Silent
      BY <2>6 DEF Word, Said, Silent
    <3>3. ASSUME y = list[n], list[n].kind \in ws[u],
                 \A k \in 1 .. old : Word(list[k], u) => k <= n
          PROVE  Settled(y, list, old, ws, u)
      <4>1. ASSUME NEW k \in 1 .. old, Word(list[k], u) PROVE list[k].at <= list[n].at
        BY <1>1, <1>2, <3>3, <4>1
      <4> QED BY <3>2, <3>3, <4>1 DEF Settled
    <3>4. CASE n > old
      <4>1. CASE y = list[n]
        <5>1. \A k \in 1 .. old : k <= n
          BY <1>1, <3>4
        <5> QED BY <2>4, <2>6, <3>3, <3>4, <4>1, <5>1 DEF y
      <4>2. CASE y # list[n]
        <5>1. y = x /\ x # Silent
          BY <3>1, <4>2
        <5> QED BY <2>3, <5>1 DEF Pending, y
      <4> QED BY <4>1, <4>2 DEF y
    <3>5. CASE n <= old /\ Settled(x, list, old, ws, u)
      <4>1. n \in 1 .. old
        BY <1>1, <3>5
      <4>2. x # Silent /\ list[n].at <= x.at
        BY <2>6, <3>5, <4>1 DEF Settled
      <4>3. x.at \in Nat /\ list[n].at \in Nat
        BY <1>2, <2>2, <4>2 DEF Note
      <4>4. y = x
        BY <3>1, <4>2, <4>3
      <4> QED BY <3>5, <4>4 DEF y
    <3>6. CASE n <= old /\ Pending(x, list, old, n, ws, u)
      <4>1. PICK m \in 1 .. old :
              /\ m <= n /\ Word(list[m], u) /\ list[m].kind \in ws[u]
              /\ \A k \in 1 .. old : Word(list[k], u) => k <= m
        BY <3>6 DEF Pending
      <4>2. n \in 1 .. old
        BY <1>1, <3>6
      <4>3. n <= m
        BY <2>6, <4>1, <4>2
      <4>4. m = n
        BY <4>1, <4>2, <4>3
      <4>5. y = list[n]
        BY <3>1, <3>6 DEF Pending
      <4> QED BY <3>3, <4>1, <4>4, <4>5 DEF y
    <3>7. n > old \/ n <= old
      BY <1>1
    <3> QED BY <2>3, <3>4, <3>5, <3>6, <3>7
  <2> QED BY <2>5, <2>6
<1> QED BY <1>3 DEF Follows

\* One page is read, from the newest note that is left.
LEMMA FollowsPage ==
    ASSUME NEW list, Fine(list), NEW old, NEW left \in Int, left <= Len(list), NEW ws, NEW lost,
           NEW a \in Seq(Note), NEW pg \in Seq(Note),
           Len(pg) = 0 \/ Len(pg) <= left,
           \A k \in 1 .. Len(pg) : pg[k] = list[left - k + 1],
           Follows(a, list, old, left, ws, lost)
    PROVE  Follows(a \o pg, list, old, left - Len(pg), ws, lost)
<1> DEFINE b == a \o pg
           Read(r, k) == /\ r \in Seq(Note) /\ Len(r) = Len(a) + k
                         /\ \A j \in 1 .. Len(a) + k : r[j] = b[j]
                         /\ Follows(r, list, old, left - k, ws, lost)
           Reads(k) == \E r : Read(r, k)
           S == {k \in Nat : k <= Len(pg) => Reads(k)}
<1>1. /\ Len(a) \in Nat /\ Len(pg) \in Nat /\ Len(list) \in Nat
      /\ b \in Seq(Note) /\ Len(b) = Len(a) + Len(pg)
      /\ \A k \in 1 .. Len(a) : b[k] = a[k]
      /\ \A k \in 1 .. Len(pg) : b[Len(a) + k] = pg[k]
  BY DEF Fine
<1>s. \A k \in Nat : k \in S <=> (k <= Len(pg) => Reads(k))
  OBVIOUS
<1> HIDE DEF S, b
<1>2. 0 \in S
  <2>1. Read(a, 0)
    BY <1>1
  <2> QED BY <1>s, <2>1
<1>3. ASSUME NEW k \in Nat, k \in S PROVE k + 1 \in S
  <2> SUFFICES ASSUME k + 1 <= Len(pg) PROVE Reads(k + 1)
    BY <1>s
  <2>1. PICK r : Read(r, k)
    BY <1>1, <1>3, <1>s
  <2> DEFINE e == b[Len(a) + (k + 1)]
             n == left - k
  <2>2. k + 1 \in 1 .. Len(pg) /\ n \in 1 .. Len(list) /\ left - (k + 1) + 1 = n
    <3>1. Len(pg) \in Nat /\ Len(list) \in Nat
      BY <1>1
    <3> HIDE DEF Reads, Read
    <3>2. Len(pg) <= left
      BY <3>1
    <3> QED BY <3>1, <3>2
  <2>3. e = list[n]
    BY <1>1, <2>2
  <2>4. list[n] \in Note
    BY <2>2 DEF Fine
  <2> HIDE DEF e
  <2>5. r \in Seq(Note) /\ Len(r) = Len(a) + k
    BY <2>1
  <2>6. /\ Append(r, e) \in Seq(Note) /\ Len(Append(r, e)) = Len(r) + 1
        /\ Append(r, e)[Len(r) + 1] = e
        /\ \A j \in 1 .. Len(r) : Append(r, e)[j] = r[j]
    BY <2>3, <2>4, <2>5
  <2>7. Follows(r, list, old, n, ws, lost)
    BY <2>1
  <2> HIDE DEF n
  <2>8. Follows(Append(r, e), list, old, n - 1, ws, lost)
    BY <2>2, <2>3, <2>5, <2>6, <2>7, FollowsHeard
  <2>9. n - 1 = left - (k + 1) /\ Len(r) + 1 = Len(a) + (k + 1)
    BY <1>1, <2>5 DEF n
  <2>10. ASSUME NEW j \in 1 .. Len(a) + (k + 1) PROVE Append(r, e)[j] = b[j]
    <3>1. CASE j = Len(a) + (k + 1)
      BY <2>6, <2>9, <3>1 DEF e
    <3>2. CASE j # Len(a) + (k + 1)
      <4>1. j \in 1 .. Len(a) + k /\ j \in 1 .. Len(r)
        BY <1>1, <2>5, <3>2
      <4> QED BY <2>1, <2>6, <4>1
    <3> QED BY <3>1, <3>2
  <2>11. Read(Append(r, e), k + 1)
    BY <2>6, <2>8, <2>9, <2>10
  <2> QED BY <2>11
<1>4. Len(pg) \in S
  BY <1>1, <1>2, <1>3, SetInduction
<1> HIDE DEF Read, Reads
<1>t. Reads(Len(pg))
  BY <1>1, <1>4, <1>s
<1>5. PICK r : Read(r, Len(pg))
  BY <1>t DEF Reads
<1>6. r = b
  <2>1. r \in Seq(Note) /\ Len(r) = Len(b) /\ \A j \in 1 .. Len(b) : r[j] = b[j]
    BY <1>1, <1>5 DEF Read
  <2> QED BY <1>1, <2>1
<1> QED BY <1>5, <1>6 DEF b, Read


\* Somebody says something.
LEMMA FollowsSaid ==
    ASSUME NEW list, Fine(list), NEW e \in Note, NEW seen, NEW old, NEW left \in Int,
           NEW ws, NEW lost, Follows(seen, list, old, left, ws, lost), NEW ws1,
           \A u \in Users : ws[u] \subseteq ws1[u] /\ (Word(e, u) => e.kind \in ws1[u])
    PROVE  Follows(seen, Append(list, e), old, left + 1, ws1, lost)
<1> DEFINE more == Append(list, e)
<1>1. list \in Seq(Note) /\ Len(list) \in Nat /\ old \in 0 .. Len(list)
  BY DEF Fine, Follows
<1>2. /\ Len(more) = Len(list) + 1 /\ more[Len(list) + 1] = e
      /\ \A k \in 1 .. Len(list) : more[k] = list[k]
  BY <1>1
<1> HIDE DEF more
<1>3. old \in 0 .. Len(more) /\ \A k \in 1 .. old : more[k] = list[k]
  BY <1>1, <1>2
<1>4. ASSUME NEW u \in Users, NEW k \in old + 1 .. Len(more), Word(more[k], u)
      PROVE  more[k].kind \in ws1[u]
  <2>1. CASE k = Len(list) + 1
    BY <1>2, <1>4, <2>1
  <2>2. CASE k # Len(list) + 1
    <3>1. k \in old + 1 .. Len(list) /\ more[k] = list[k]
      BY <1>1, <1>2, <2>2
    <3> QED BY <1>4, <3>1 DEF Follows
  <2> QED BY <2>1, <2>2
<1>5. ASSUME NEW u \in Users \ lost
      PROVE  \/ Settled(Latest(seen, u), more, old, ws1, u)
             \/ Pending(Latest(seen, u), more, old, left + 1, ws1, u)
  <2> DEFINE x == Latest(seen, u)
  <2>1. \/ Settled(x, list, old, ws, u)
        \/ Pending(x, list, old, left, ws, u)
    BY DEF Follows
  <2> HIDE DEF x
  <2>2. ASSUME Settled(x, list, old, ws, u) PROVE Settled(x, more, old, ws1, u)
    BY <1>3, <2>2 DEF Settled
  <2>3. ASSUME Pending(x, list, old, left, ws, u) PROVE Pending(x, more, old, left + 1, ws1, u)
    <3>1. PICK m \in 1 .. old :
            /\ m <= left /\ Word(list[m], u) /\ list[m].kind \in ws[u]
            /\ \A k \in 1 .. old : Word(list[k], u) => k <= m
      BY <2>3 DEF Pending
    <3>2. m <= left + 1
      BY <1>1, <3>1
    <3> QED BY <1>3, <2>3, <3>1, <3>2 DEF Pending
  <2> QED BY <2>1, <2>2, <2>3 DEF x
<1> QED BY <1>3, <1>4, <1>5 DEF Follows, more

\* A comment is deleted: the note next to be read, at most, is not read.
LEMMA FollowsDeleted ==
    ASSUME NEW list, Fine(list), NEW d \in DOMAIN list, list[d].kind = "comment", NEW seen,
           NEW old, NEW left \in Int, NEW ws, NEW lost \in SUBSET Users,
           Follows(seen, list, old, left, ws, lost)
    PROVE  \E old1, lost1 :
             /\ Follows(seen, RemoveAt(list, d), old1, left - 1, ws, lost1)
             /\ lost1 \in SUBSET Users /\ Cardinality(lost1) <= Cardinality(lost) + 1
<1> DEFINE less == RemoveAt(list, d)
           o(k) == IF k < d THEN k ELSE k + 1
           old1 == IF d <= old THEN old - 1 ELSE old
           lost1 == (lost \cup {list[left].by}) \cap Users
<1>1. list \in Seq(Note) /\ Len(list) \in Nat /\ old \in 0 .. Len(list) /\ d \in 1 .. Len(list)
  BY DEF Fine, Follows
<1>2. /\ less \in Seq(Note) /\ Len(less) = Len(list) - 1
      /\ \A k \in 1 .. Len(list) - 1 : less[k] = list[o(k)]
  BY <1>1, RemoveAtIs
<1> HIDE DEF less
<1>3. /\ old1 \in 0 .. Len(less) /\ old1 \in Nat
      /\ \A k \in 1 .. old1 : o(k) \in 1 .. old /\ k \in 1 .. Len(list) - 1
      /\ \A k \in old1 + 1 .. Len(less) : o(k) \in old + 1 .. Len(list)
                                          /\ k \in 1 .. Len(list) - 1
  BY <1>1, <1>2
<1>4. \A u : ~Word(list[d], u)
  BY DEF Word, Said
<1>5. ASSUME NEW m \in 1 .. old, m # d
      PROVE  \E j \in 1 .. old1 : /\ o(j) = m /\ (j < m \/ (j = m /\ m < d))
                                  /\ \A k \in 1 .. old1 : o(k) <= m => k <= j
  <2>1. CASE m < d
    <3>1. m \in 1 .. old1 /\ o(m) = m /\ \A k \in 1 .. old1 : o(k) <= m => k <= m
      BY <1>1, <2>1
    <3> QED BY <2>1, <3>1
  <2>2. CASE m > d
    <3>1. m - 1 \in 1 .. old1 /\ o(m - 1) = m /\ m - 1 < m
          /\ \A k \in 1 .. old1 : o(k) <= m => k <= m - 1
      BY <1>1, <2>2
    <3> QED BY <3>1
  <2> QED BY <1>1, <1>5, <2>1, <2>2
<1> HIDE DEF o, old1
<1>6. ASSUME NEW u \in Users \ lost1
      PROVE  \/ Settled(Latest(seen, u), less, old1, ws, u)
             \/ Pending(Latest(seen, u), less, old1, left - 1, ws, u)
  <2> DEFINE x == Latest(seen, u)
  <2>1. /\ \/ Settled(x, list, old, ws, u)
           \/ Pending(x, list, old, left, ws, u)
        /\ list[left].by # u
    BY DEF Follows
  <2> HIDE DEF x
  <2>2. ASSUME Settled(x, list, old, ws, u) PROVE Settled(x, less, old1, ws, u)
    BY <1>2, <1>3, <2>2 DEF Settled
  <2>3. ASSUME Pending(x, list, old, left, ws, u) PROVE Pending(x, less, old1, left - 1, ws, u)
    <3>1. PICK m \in 1 .. old :
            /\ m <= left /\ Word(list[m], u) /\ list[m].kind \in ws[u]
            /\ \A k \in 1 .. old : Word(list[k], u) => k <= m
      BY <2>3 DEF Pending
    <3>2. m # d /\ m # left
      BY <1>4, <2>1, <3>1 DEF Word
    <3>3. PICK j \in 1 .. old1 : /\ o(j) = m /\ (j < m \/ (j = m /\ m < d))
                                 /\ \A k \in 1 .. old1 : o(k) <= m => k <= j
      BY <1>5, <3>2
    <3>4. j <= left - 1
      <4>1. m \in Int /\ j \in Int
        BY <1>1, <1>3
      <4> QED BY <3>1, <3>2, <3>3, <4>1
    <3>5. less[j] = list[m]
      BY <1>2, <1>3, <3>3
    <3>6. \A k \in 1 .. old1 : Word(less[k], u) => k <= j
      <4> TAKE k \in 1 .. old1
      <4>1. less[k] = list[o(k)] /\ o(k) \in 1 .. old
        BY <1>2, <1>3
      <4> QED BY <3>1, <3>3, <4>1
    <3> QED BY <2>3, <3>1, <3>4, <3>5, <3>6 DEF Pending
  <2> QED BY <2>1, <2>2, <2>3 DEF x
<1>7. ASSUME NEW u \in Users, NEW k \in old1 + 1 .. Len(less), Word(less[k], u)
      PROVE  less[k].kind \in ws[u]
  <2>1. less[k] = list[o(k)] /\ o(k) \in old + 1 .. Len(list)
    BY <1>2, <1>3
  <2> QED BY <1>7, <2>1 DEF Follows
<1>8. Follows(seen, less, old1, left - 1, ws, lost1)
  BY <1>3, <1>6, <1>7 DEF Follows
<1>9. Cardinality(lost1) <= Cardinality(lost) + 1
  <2> DEFINE one == {list[left].by}
  <2>1. IsFiniteSet(lost) /\ Cardinality(lost) \in Nat
    BY UsersAssumption, FS_Subset, FS_CardinalityType
  <2>2. /\ IsFiniteSet(lost \cup one)
        /\ Cardinality(lost \cup one) <= Cardinality(lost) + 1
    <3>1. /\ IsFiniteSet(lost \cup {list[left].by})
          /\ Cardinality(lost \cup {list[left].by}) =
               IF list[left].by \in lost THEN Cardinality(lost) ELSE Cardinality(lost) + 1
      BY <2>1, FS_AddElement
    <3> QED BY <2>1, <3>1
  <2>3. lost1 \subseteq lost \cup one
    OBVIOUS
  <2> HIDE DEF lost1, one
  <2>4. IsFiniteSet(lost1) /\ Cardinality(lost1) <= Cardinality(lost \cup one)
    BY <2>2, <2>3, FS_Subset
  <2>5. Cardinality(lost1) \in Nat /\ Cardinality(lost \cup one) \in Nat
    BY <2>2, <2>4, FS_CardinalityType
  <2> QED BY <2>1, <2>2, <2>4, <2>5
<1>10. lost1 \in SUBSET Users
  OBVIOUS
<1> HIDE DEF lost1
<1> QED BY <1>8, <1>9, <1>10 DEF less

-----------------------------------------------------------------------------
(* The status of everybody.                                                *)

\* The status of all but a few users is among their words.
Kept == \E lost \in SUBSET Users :
          /\ Cardinality(lost) <= cut
          /\ \A u \in Users \ lost : tally[u] \in words[u]

Following == \E old : \E lost \in SUBSET Users :
               /\ Cardinality(lost) <= cut
               /\ Follows(got, notes, old, Len(notes) - Before(page), words, lost)

TallyInv ==
    /\ SoundInv
    /\ stage = "approvals" /\ page # 1 => Following
    /\ stage \in {"commits", "rules"} => Kept

\* One page of notes.
LEMMA TallyRead ==
    ASSUME TallyInv, ReadApprovals
    PROVE  /\ stage' = "approvals" => Following'
           /\ stage' = "commits" => Kept'
<1> DEFINE list == Reverse(notes)
           pg == Page(list, page)
           p == Before(page)
           n == Len(notes)
           e == IF p + PageSize < n THEN p + PageSize ELSE n
           left == n - p
<1>1. /\ Fine(notes) /\ notes \in Seq(Note) /\ n \in Nat /\ page \in Nat \ {0}
      /\ got \in Seq(Note) /\ cut \in Nat /\ (page = 1 => got = <<>>)
  BY DEF TallyInv, SoundInv, Sound, Fine, ReadApprovals
<1>2. p \in Nat /\ PageSize \in Nat \ {0}
  BY <1>1, BeforeIs, PageAssumption
<1>3. /\ list \in Seq(Note) /\ Len(list) = n
      /\ \A k \in 1 .. n : list[k] = notes[n - k + 1]
  BY <1>1, ReverseIs
<1>4. /\ stage = "approvals" /\ got' = got \o pg /\ notes' = notes
      /\ \/ HasNext(list, page) /\ page' = page + 1 /\ stage' = "approvals"
         \/ ~HasNext(list, page) /\ page' = 1 /\ stage' = "commits"
      /\ tally' = [u \in Users |-> Latest(got', u).kind]
      /\ cut' = IF page = 1 THEN 0 ELSE cut
      /\ words' = IF page = 1 THEN [u \in Users |-> {LastWord(notes, u)}] ELSE words
  BY DEF ReadApprovals, Fetch, talk
<1>5. \E old : \E lost \in SUBSET Users :
        Cardinality(lost) <= cut' /\ Follows(got, notes, old, left, words', lost)
  <2>1. CASE page = 1
    <3>1. Follows(<<>>, notes, Len(notes), Len(notes), words', {})
      <4>1. \A u \in Users : words'[u] = {LastWord(notes, u)}
        BY <1>4, <2>1
      <4> QED BY <1>1, <4>1, FollowsAtFirst
    <3>2. p = 0 /\ left = Len(notes) /\ got = <<>>
      BY <1>1, <2>1, BeforeIs
    <3>3. Cardinality({}) <= cut' /\ {} \in SUBSET Users
      BY <1>4, <2>1, FS_EmptySet
    <3> HIDE DEF p, left
    <3> QED BY <3>1, <3>2, <3>3
  <2>2. CASE page # 1
    BY <1>4, <2>2 DEF TallyInv, Following
  <2> QED BY <2>1, <2>2
<1> HIDE DEF list
<1>6. /\ pg \in Seq(Note) /\ Len(pg) = IF p <= e THEN e - p ELSE 0
      /\ \A k \in 1 .. Len(pg) : p + k \in DOMAIN list /\ pg[k] = list[p + k]
  BY <1>1, <1>3, PageIs
<1> HIDE DEF pg, p, n
<1>7. e \in Nat /\ e <= n
  BY <1>1, <1>2
<1> HIDE DEF e
<1>8. /\ Len(pg) = 0 \/ Len(pg) <= left
      /\ left \in Int /\ left <= n
  BY <1>1, <1>2, <1>6, <1>7
<1>9. ASSUME NEW k \in 1 .. Len(pg) PROVE pg[k] = notes[left - k + 1]
  <2>1. p + k \in 1 .. n /\ n - (p + k) + 1 = left - k + 1
    <3>1. p + k \in DOMAIN list /\ DOMAIN list = 1 .. n
      BY <1>3, <1>6
    <3> QED BY <1>1, <1>2, <3>1
  <2> QED BY <1>3, <1>6, <2>1
<1>10. \E old : \E lost \in SUBSET Users :
         Cardinality(lost) <= cut' /\ Follows(got', notes, old, left - Len(pg), words', lost)
  <2>0. PICK old : \E lost \in SUBSET Users :
          Cardinality(lost) <= cut' /\ Follows(got, notes, old, left, words', lost)
    BY <1>5
  <2>1. PICK lost \in SUBSET Users :
          Cardinality(lost) <= cut' /\ Follows(got, notes, old, left, words', lost)
    BY <2>0
  <2> HIDE DEF left
  <2>2. Follows(got \o pg, notes, old, left - Len(pg), words', lost)
    BY <1>1, <1>6, <1>8, <1>9, <2>1, FollowsPage DEF n
  <2> QED BY <1>4, <2>1, <2>2
<1>11. ASSUME stage' = "approvals" PROVE Following'
  <2>1. HasNext(list, page) /\ page' = page + 1
    BY <1>4, <1>11
  <2>2. p + PageSize < n /\ Before(page') = p + PageSize
    BY <1>1, <1>3, <2>1, BeforeIs DEF HasNext, p
  <2>3. Len(pg) = PageSize
    BY <1>2, <1>6, <2>2 DEF e
  <2>4. left - Len(pg) = Len(notes') - Before(page')
    BY <1>1, <1>2, <1>4, <2>2, <2>3 DEF n
  <2> QED BY <1>4, <1>10, <2>4 DEF Following
<1>12. ASSUME stage' = "commits" PROVE Kept'
  <2>1. ~(p + PageSize < n)
    <3>1. ~HasNext(list, page)
      BY <1>4, <1>12
    <3> QED BY <1>1, <1>3, <3>1, BeforeIs DEF HasNext, p
  <2>2. left - Len(pg) <= 0
    BY <1>1, <1>2, <1>6, <2>1 DEF e
  <2>3. left - Len(pg) \in Int
    BY <1>6, <1>8
  <2>0. PICK old : \E lost \in SUBSET Users :
          Cardinality(lost) <= cut' /\ Follows(got', notes, old, left - Len(pg), words', lost)
    BY <1>10
  <2>4. PICK lost \in SUBSET Users :
          Cardinality(lost) <= cut' /\ Follows(got', notes, old, left - Len(pg), words', lost)
    BY <2>0
  <2>5. ASSUME NEW u \in Users \ lost PROVE tally'[u] \in words'[u]
    <3> DEFINE x == Latest(got', u)
    <3>1. \/ Settled(x, notes, old, words', u)
          \/ Pending(x, notes, old, left - Len(pg), words', u)
      BY <2>4 DEF Follows
    <3>2. tally'[u] = x.kind
      BY <1>4
    <3> HIDE DEF x
    <3>3. ~Pending(x, notes, old, left - Len(pg), words', u)
      BY <2>2, <2>3, <2>4 DEF Pending, Follows
    <3> QED BY <3>1, <3>2, <3>3 DEF Settled
  <2> QED BY <2>4, <2>5 DEF Kept
<1> QED BY <1>11, <1>12


\* At first nothing is read.
LEMMA TallyInit == Init => TallyInv
<1> SUFFICES ASSUME Init PROVE TallyInv
  OBVIOUS
<1>1. SoundInv /\ stage = "idle"
  BY SoundInit DEF Init
<1> QED BY <1>1 DEF TallyInv

\* What people say and delete meanwhile.
LEMMA TallyPeople ==
    ASSUME TallyInv, People, SoundInv'
    PROVE  TallyInv'
<1>1. UNCHANGED <<case, stage, page, got, tally>>
  BY DEF People, Approve, Comment, Quote, Delete, run
<1>2. /\ Fine(notes) /\ notes \in Seq(Note) /\ Len(notes) \in Nat /\ cut \in Nat
      /\ page \in Nat \ {0} /\ words \in [Users -> SUBSET (Said \cup {"none"})]
  BY DEF TallyInv, SoundInv, Sound, Fine
<1>3. Before(page) \in Nat /\ Len(notes) - Before(page) \in Int
  BY <1>2, BeforeIs
<1>4. ASSUME ~Reading("approvals") => words' = words /\ (cut' = cut \/ stage = "threads"),
             Reading("approvals") => (Following => Following')
      PROVE  TallyInv'
  <2>1. ASSUME stage' = "approvals", page' # 1 PROVE Following'
    <3>1. Reading("approvals")
      BY <1>1, <1>2, <2>1 DEF Reading
    <3> QED BY <1>1, <1>4, <2>1, <3>1 DEF TallyInv
  <2>2. ASSUME stage' \in {"commits", "rules"} PROVE Kept'
    <3>1. ~Reading("approvals") /\ stage # "threads"
      BY <1>1, <2>2 DEF Reading
    <3> QED BY <1>1, <1>4, <2>2, <3>1 DEF TallyInv, Kept
  <2> QED BY <2>1, <2>2 DEF TallyInv
<1>n. ASSUME NEW u \in Users \cup {Nobody}, NEW kind, NEW id, NEW tick, Noted(u, kind, id, tick),
             cut' = cut, Following,
             \A v \in Users : words[v] \subseteq words'[v]
                              /\ (kind \in Said /\ u = v => kind \in words'[v])
      PROVE  Following'
  <2> DEFINE e == [by |-> u, kind |-> kind, id |-> id,
                   at |-> (IF notes = <<>> THEN 0 ELSE Last(notes).at) + tick]
  <2>1. notes' = Append(notes, e)
    BY <1>n DEF Noted
  <2>2. e.by = u /\ e.kind = kind
    OBVIOUS
  <2> HIDE DEF e
  <2>3. e \in Note
    <3>1. notes' \in Seq(Note)
      BY DEF SoundInv, Sound, Fine
    <3>2. Len(notes') = Len(notes) + 1 /\ notes'[Len(notes) + 1] = e
          /\ Len(notes) + 1 \in DOMAIN notes'
      BY <1>2, <2>1
    <3> QED BY <3>1, <3>2
  <2>4. PICK old : \E lost \in SUBSET Users :
          /\ Cardinality(lost) <= cut
          /\ Follows(got, notes, old, Len(notes) - Before(page), words, lost)
    BY <1>n DEF Following
  <2>5. PICK lost \in SUBSET Users :
          /\ Cardinality(lost) <= cut
          /\ Follows(got, notes, old, Len(notes) - Before(page), words, lost)
    BY <2>4
  <2>6. \A v \in Users : words[v] \subseteq words'[v] /\ (Word(e, v) => e.kind \in words'[v])
    BY <1>n, <2>2 DEF Word
  <2>7. Follows(got, notes', old, (Len(notes) - Before(page)) + 1, words', lost)
    BY <1>2, <1>3, <2>1, <2>3, <2>5, <2>6, FollowsSaid
  <2>8. (Len(notes) - Before(page)) + 1 = Len(notes') - Before(page)
    BY <1>2, <1>3, <2>1
  <2> QED BY <1>1, <1>n, <2>5, <2>7, <2>8 DEF Following
<1>5. CASE \E u \in Users : Approve(u)
  <2>1. PICK u \in Users : Approve(u)
    BY <1>5
  <2> DEFINE kind == IF LastWord(notes, u) = "approved" THEN "unapproved" ELSE "approved"
  <2>2. PICK tick \in {0, 1} : Noted(u, kind, 0, tick)
    BY <2>1 DEF Approve
  <2>3. /\ cut' = cut
        /\ words' = IF Reading("approvals")
                    THEN [words EXCEPT ![u] = words[u] \cup {LastWord(notes', u)}] ELSE words
    BY <2>1 DEF Approve
  <2>4. kind \in Said
    BY DEF Said
  <2> HIDE DEF kind
  <2>5. LastWord(notes', u) = kind
    <3> DEFINE e == [by |-> u, kind |-> kind, id |-> 0,
                     at |-> (IF notes = <<>> THEN 0 ELSE Last(notes).at) + tick]
    <3>1. notes' = Append(notes, e)
      BY <2>2 DEF Noted
    <3>2. e.by = u /\ e.kind = kind
      OBVIOUS
    <3> HIDE DEF e
    <3>3. notes' \in Seq(Note)
      BY DEF SoundInv, Sound, Fine
    <3>4. DOMAIN notes' = 1 .. Len(notes) + 1 /\ notes'[Len(notes) + 1] = e
      BY <1>2, <3>1
    <3>5. Len(notes) + 1 \in DOMAIN notes' /\ \A k \in DOMAIN notes' : k <= Len(notes) + 1
      BY <1>2, <3>4
    <3>6. PICK m \in DOMAIN notes' :
            /\ LastWord(notes', u) = notes'[m].kind
            /\ \A k \in DOMAIN notes' : notes'[k].by = u /\ notes'[k].kind \in Said => k <= m
      BY <2>4, <3>2, <3>3, <3>4, <3>5, LastWordIs
    <3>7. Len(notes) + 1 <= m
      BY <2>4, <3>2, <3>4, <3>5, <3>6
    <3>8. m = Len(notes) + 1
      BY <1>2, <3>4, <3>5, <3>7
    <3> QED BY <3>2, <3>4, <3>6, <3>8
  <2>6. ASSUME Reading("approvals"), Following PROVE Following'
    <3>1. \A v \in Users : /\ words[v] \subseteq words'[v]
                           /\ u = v => kind \in words'[v]
      BY <1>2, <2>3, <2>5, <2>6
    <3> QED BY <1>n, <2>2, <2>3, <2>6, <3>1
  <2> QED BY <1>4, <2>3, <2>6
<1>6. CASE Comment \/ \E i \in DOMAIN threads : Quote(i)
  <2>1. PICK id : Noted(Nobody, "comment", id, 1)
    BY <1>6 DEF Comment, Quote
  <2>2. words' = words /\ cut' = cut
    BY <1>6 DEF Comment, Quote, history
  <2>3. "comment" \notin Said
    BY DEF Said
  <2>4. ASSUME Following PROVE Following'
    BY <1>n, <2>1, <2>2, <2>3, <2>4
  <2> QED BY <1>4, <2>2, <2>4
<1>7. CASE \E i \in DOMAIN threads : Delete(i)
  <2>1. PICK i \in DOMAIN threads : Delete(i)
    BY <1>7
  <2>2. PICK d \in DOMAIN notes : notes[d].id = threads[i].id /\ notes' = RemoveAt(notes, d)
    BY <2>1 DEF Delete
  <2>3. words' = words
        /\ cut' = cut + (IF Reading("approvals") \/ Reading("threads") THEN 1 ELSE 0)
    BY <2>1 DEF Delete
  <2>4. notes[d].kind = "comment"
    <3>1. threads[i] \in Discussion
      BY DEF TallyInv, SoundInv, Sound, Discussed
    <3>2. threads[i].id # 0
      BY <3>1 DEF Discussion
    <3> QED BY <1>2, <2>2, <3>2 DEF Fine
  <2>5. ASSUME Reading("approvals"), Following PROVE Following'
    <3>1. PICK old : \E lost \in SUBSET Users :
            /\ Cardinality(lost) <= cut
            /\ Follows(got, notes, old, Len(notes) - Before(page), words, lost)
      BY <2>5 DEF Following
    <3>2. PICK lost \in SUBSET Users :
            /\ Cardinality(lost) <= cut
            /\ Follows(got, notes, old, Len(notes) - Before(page), words, lost)
      BY <3>1
    <3>3. PICK old1, lost1 :
            /\ Follows(got, notes', old1, (Len(notes) - Before(page)) - 1, words, lost1)
            /\ lost1 \in SUBSET Users /\ Cardinality(lost1) <= Cardinality(lost) + 1
      BY <1>2, <1>3, <2>2, <2>4, <3>2, FollowsDeleted
    <3>4. (Len(notes) - Before(page)) - 1 = Len(notes') - Before(page)
      <4>1. Len(notes') = Len(notes) - 1
        BY <1>2, <2>2, RemoveAtIs
      <4> QED BY <1>2, <1>3, <4>1
    <3>5. Cardinality(lost1) <= cut'
      <4>1. Cardinality(lost) \in Nat /\ Cardinality(lost1) \in Nat
        BY <3>3, UsersAssumption, FS_Subset, FS_CardinalityType
      <4> QED BY <1>2, <2>3, <2>5, <3>2, <3>3, <4>1
    <3> QED BY <1>1, <2>3, <3>3, <3>4, <3>5 DEF Following
  <2>6. ~Reading("approvals") => cut' = cut \/ stage = "threads"
    BY <1>2, <2>3 DEF Reading
  <2> QED BY <1>4, <2>3, <2>5, <2>6
<1> QED BY <1>5, <1>6, <1>7 DEF People

\* Every step keeps the status of all but a few among their words.
LEMMA TallyNext == TallyInv /\ [Next]_vars => TallyInv'
<1> SUFFICES ASSUME TallyInv, [Next]_vars PROVE TallyInv'
  OBVIOUS
<1>1. SoundInv'
  BY SoundNext DEF TallyInv
<1>2. CASE UNCHANGED vars
  BY <1>1, <1>2 DEF TallyInv, Following, Kept, vars, talk, run, history
<1>3. CASE Start
  <2>1. stage' = "approvals" /\ page' = 1
    BY <1>3 DEF Start, TallyInv, SoundInv, Sound
  <2> QED BY <1>1, <2>1 DEF TallyInv
<1>4. CASE ReadApprovals
  <2>1. stage' \in {"approvals", "commits"}
    BY <1>4 DEF ReadApprovals, Fetch
  <2> QED BY <1>1, <1>4, <2>1, TallyRead DEF TallyInv
<1>5. CASE ReadCommits \/ RunRule
  <2>1. /\ stage \in {"commits", "rules"} /\ stage' \in {"rules", "panicked"}
        /\ UNCHANGED <<tally, words, cut>>
    BY <1>5 DEF ReadCommits, RunRule, history
  <2> QED BY <1>1, <2>1 DEF TallyInv, Kept
<1>6. CASE Summarise \/ ReadThreads \/ Post
  <2>1. stage' \in {"threads", "post", "idle"}
    BY <1>6 DEF Summarise, ReadThreads, Fetch, Post
  <2> QED BY <1>1, <2>1 DEF TallyInv
<1> QED BY <1>1, <1>2, <1>3, <1>4, <1>5, <1>6, TallyPeople DEF Next, Run

\* The users whose status is none of their words.
LEMMA StatusLost ==
    ASSUME TallyInv, stage \in {"commits", "rules"}
    PROVE  LET lost == {u \in Users : tally[u] \notin words[u]}
           IN  IsFiniteSet(lost) /\ Cardinality(lost) \in Nat /\ Cardinality(lost) <= cut
<1> DEFINE lost == {u \in Users : tally[u] \notin words[u]}
<1>1. PICK some \in SUBSET Users :
        Cardinality(some) <= cut /\ \A u \in Users \ some : tally[u] \in words[u]
  BY DEF TallyInv, Kept
<1>2. lost \subseteq some
  BY <1>1
<1>3. IsFiniteSet(some) /\ Cardinality(some) \in Nat
  BY UsersAssumption, FS_Subset, FS_CardinalityType
<1> HIDE DEF lost
<1>4. IsFiniteSet(lost) /\ Cardinality(lost) <= Cardinality(some)
  BY <1>2, <1>3, FS_Subset
<1>5. Cardinality(lost) \in Nat /\ cut \in Nat
  BY <1>4, FS_CardinalityType DEF TallyInv, SoundInv, Sound
<1> QED BY <1>1, <1>3, <1>4, <1>5 DEF lost

\* The status kept for a user is what the user's last word was at some moment
\* while the notes were read; a deleted comment hides at most one note.
THEOREM TallyHeard == Spec => []TallyIsALastWord
<1>1. TallyInv => TallyIsALastWord
  BY StatusLost DEF TallyIsALastWord
<1> QED BY <1>1, TallyInit, TallyNext, PTL DEF Spec

\* The rule on approvals passes only if enough users who count had approved, and
\* fails only if not enough had, at some moment while the notes were read.
THEOREM VerdictEarned == Spec => []VerdictNeedsApprovals
<1>1. TallyInv => VerdictNeedsApprovals
  <2> DEFINE c == Config["approvals"]
             counts == Users \ (IF c.excludeCreator THEN {case.author} ELSE {})
             had == {u \in counts : "approved" \in words[u]}
             sure == {u \in counts : words[u] = {"approved"}}
             kept == {u \in counts : tally[u] = "approved"}
             lost == {u \in Users : tally[u] \notin words[u]}
  <2> SUFFICES ASSUME TallyInv, Judged, "approvals" \in DOMAIN Config
               PROVE  IF Passed("approvals") THEN Cardinality(had) + cut >= c.min
                      ELSE Cardinality(sure) < c.min + cut
    BY DEF VerdictNeedsApprovals
  <2>1. /\ JudgeInv /\ cut \in Nat /\ stage = "rules"
    BY DEF TallyInv, SoundInv, Sound, Judged
  <2>2. c.min \in Int
    BY <2>1, SettingsAre DEF JudgeInv
  <2>3. IsFiniteSet(lost) /\ Cardinality(lost) \in Nat /\ Cardinality(lost) <= cut
    BY <2>1, StatusLost
  <2>4. counts \subseteq Users /\ had \subseteq Users /\ sure \subseteq Users /\ kept \subseteq Users
    OBVIOUS
  <2>5. Counted(c, case, Approvers) = kept
    <3>1. CASE c.excludeCreator
      BY <3>1 DEF Counted, Approvers
    <3>2. CASE ~c.excludeCreator
      BY <3>2 DEF Counted, Approvers
    <3> QED BY <3>1, <3>2
  <2>6. Passed("approvals") <=> ~(Cardinality(kept) < c.min)
    <3>1. HasFailed("approvals") <=> Approvals(c, case, Approvers).kind = "failed"
      BY <2>1, JudgedIs DEF Verdict, Check
    <3>2. Approvals(c, case, Approvers) = Failed(Issue(Cardinality(kept) < c.min, "approvals"))
      BY <2>5 DEF Approvals
    <3> HIDE DEF c, kept
    <3>3. Failed(Issue(Cardinality(kept) < c.min, "approvals")).kind = "failed"
            <=> Cardinality(kept) < c.min
      BY DEF Failed, Issue
    <3> QED BY <3>1, <3>2, <3>3 DEF Passed
  <2>7. kept \subseteq had \cup lost /\ sure \subseteq kept \cup lost
    OBVIOUS
  <2> HIDE DEF c, counts, had, sure, kept, lost
  <2>8. /\ IsFiniteSet(had) /\ IsFiniteSet(sure) /\ IsFiniteSet(kept)
        /\ Cardinality(had) \in Nat /\ Cardinality(sure) \in Nat /\ Cardinality(kept) \in Nat
    BY <2>4, UsersAssumption, FS_Subset, FS_CardinalityType
  <2>9. ASSUME NEW A, NEW B, IsFiniteSet(A), IsFiniteSet(B), A \subseteq B \cup lost
        PROVE  Cardinality(A) <= Cardinality(B) + cut
    <3>1. /\ IsFiniteSet(B \cup lost)
          /\ Cardinality(B \cup lost) =
               Cardinality(B) + Cardinality(lost) - Cardinality(B \cap lost)
      BY <2>3, <2>9, FS_Union
    <3>2. IsFiniteSet(B \cap lost)
      BY <2>3, <2>9, FS_Intersection
    <3>3. Cardinality(A) <= Cardinality(B \cup lost)
      BY <2>9, <3>1, FS_Subset
    <3>4. /\ Cardinality(A) \in Nat /\ Cardinality(B) \in Nat
          /\ Cardinality(B \cap lost) \in Nat /\ Cardinality(B \cup lost) \in Nat
      BY <2>9, <3>1, <3>2, FS_CardinalityType
    <3> QED BY <2>1, <2>3, <3>1, <3>3, <3>4
  <2>10. Cardinality(kept) <= Cardinality(had) + cut
    BY <2>7, <2>8, <2>9
  <2>11. Cardinality(sure) <= Cardinality(kept) + cut
    BY <2>7, <2>8, <2>9
  <2> QED BY <2>1, <2>2, <2>6, <2>8, <2>10, <2>11
<1> QED BY <1>1, TallyInit, TallyNext, PTL DEF Spec
=============================================================================
