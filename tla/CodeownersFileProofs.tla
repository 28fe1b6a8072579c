------------------------ MODULE CodeownersFileProofs ------------------------
(* Theorems about the CODEOWNERS parser, for every file: that no pointer   *)
(* ever leads nowhere, and that the result is what the file says, but for  *)
(* the rules written through a pointer into an array that append has left. *)
EXTENDS CodeownersFile, FiniteSetTheorems, SequenceTheorems, TLAPS

-----------------------------------------------------------------------------
(* Types.                                                                  *)

OwnerLists == {<<>>} \cup {l.owners : l \in {m \in Lines : m.kind # "blank"}}

Rule == [pattern   : {l.pattern : l \in Lines} \cup {Unmatchable},
         exclusion : {l.exclusion : l \in Lines} \cup {FALSE},
         owners    : OwnerLists,
         malformed : {l.malformed : l \in Lines} \cup {TRUE},
         line      : Nat]

Section == [name     : Names,
            optional : {l.optional : l \in Lines},
            required : Nat \ {0},
            owners   : OwnerLists,
            rules    : Seq(Rule)]

Pointer == [array : Nat, index : Nat]

Shape ==
    /\ text \in Seq(Lines) /\ Len(text) <= MaxLines
    /\ defaults \in Seq(Rule)
    /\ arrays \in Seq(Seq(Section))
    /\ current \in Pointer
    /\ sectionMap \in [Names -> Pointer]

\* A pointer that leads somewhere.
Leads(p) == p.array \in DOMAIN arrays /\ p.index \in DOMAIN arrays[p.array]

\* The pointer kept for a name leads to the section of that name, and the
\* current one is kept for a name.
PointersLead ==
    /\ \A n \in Names : sectionMap[n] # Nil =>
         Leads(sectionMap[n]) /\ arrays[sectionMap[n].array][sectionMap[n].index].name = n
    /\ current # Nil => \E n \in Names : current = sectionMap[n]

\* Every line a rule remembers has been read.
LinesRead == \A k \in DOMAIN defaults : defaults[k].line \in DOMAIN text

PointInv == Shape /\ PointersLead /\ LinesRead

\* One more line leaves the lines before it where they are.
LEMMA OneMore ==
    ASSUME Shape, NEW l \in Lines, Len(text) < MaxLines, text' = Append(text, l)
    PROVE  /\ text' \in Seq(Lines) /\ Len(text) \in Nat
           /\ Len(text') = Len(text) + 1 /\ Len(text') <= MaxLines
           /\ DOMAIN text = 1 .. Len(text) /\ DOMAIN text' = 1 .. Len(text) + 1
           /\ \A i \in DOMAIN text : text'[i] = text[i]
           /\ text'[Len(text) + 1] = l
<1>1. text \in Seq(Lines) /\ Len(text) \in Nat /\ DOMAIN text = 1 .. Len(text)
  BY DEF Shape
<1>2. MaxLines \in Nat
  BY BoundAssumption
<1> QED BY <1>1, <1>2

\* What a section header is made into.
LEMMA NewSection ==
    ASSUME NEW l \in Lines, l.kind = "header", l.name # NoName
    PROVE  /\ l.name \in Names /\ ParsedSection(l) \in Section
           /\ ParsedSection(l).name = l.name /\ ParsedSection(l).rules = <<>>
           /\ AsHeader(ParsedSection(l), l)
<1>1. l.name \in Names /\ l.count \in Int
  BY LineAssumption
<1>2. Required(l.count) \in Nat \ {0}
  BY <1>1 DEF Required
<1>3. (IF l.malformed THEN <<>> ELSE l.owners) \in OwnerLists
  BY DEF OwnerLists
<1>4. <<>> \in Seq(Rule)
  OBVIOUS
<1>5. AsHeader(ParsedSection(l), l)
  BY <1>1 DEF AsHeader, ParsedSection, Required
<1> QED BY <1>1, <1>2, <1>3, <1>4, <1>5 DEF ParsedSection, Section

\* What a line may add to the rules.
LEMMA NewRules ==
    ASSUME NEW l \in Lines, l.kind # "blank", NEW n \in Nat
    PROVE  /\ ParsedRule(l, n) \in Rule /\ ParsedRule(l, n).line = n
           /\ MisreadHeader(l, n) \in Rule /\ MisreadHeader(l, n).line = n
           /\ MisreadDefault(n) \in Rule /\ MisreadDefault(n).line = n
  BY DEF ParsedRule, MisreadHeader, MisreadDefault, Rule, OwnerLists

\* Sections shows the last array.
LEMMA Shown ==
    ASSUME Shape
    PROVE  /\ Sections \in Seq(Section) /\ Len(arrays) \in Nat
           /\ DOMAIN arrays = 1 .. Len(arrays)
           /\ Len(arrays) = 0 => Sections = <<>>
           /\ Len(arrays) # 0 => Sections = arrays[Len(arrays)]
<1>1. arrays \in Seq(Seq(Section))
  BY DEF Shape
<1>2. Len(arrays) \in Nat /\ DOMAIN arrays = 1 .. Len(arrays)
  BY <1>1
<1>3. CASE arrays = <<>>
  BY <1>2, <1>3 DEF Sections
<1>4. CASE arrays # <<>>
  <2>1. Len(arrays) # 0 /\ Len(arrays) \in 1 .. Len(arrays)
    BY <1>1, <1>2, <1>4
  <2>2. Sections = arrays[Len(arrays)]
    BY <1>4 DEF Sections, Last
  <2> QED BY <1>1, <1>2, <2>1, <2>2
<1> QED BY <1>3, <1>4

\* The slice shows the last array in the next state too.
LEMMA ShownNext ==
    ASSUME arrays' \in Seq(Seq(Section))
    PROVE  /\ Sections' \in Seq(Section) /\ Len(arrays') \in Nat
           /\ Len(arrays') = 0 => Sections' = <<>>
           /\ Len(arrays') # 0 => Sections' = arrays'[Len(arrays')]
<1>2. Len(arrays') \in Nat /\ DOMAIN arrays' = 1 .. Len(arrays')
  OBVIOUS
<1>3. CASE arrays' = <<>>
  BY <1>2, <1>3 DEF Sections
<1>4. CASE arrays' # <<>>
  <2>1. Len(arrays') # 0 /\ Len(arrays') \in 1 .. Len(arrays')
    BY <1>2, <1>4
  <2>2. Sections' = arrays'[Len(arrays')]
    BY <1>4 DEF Sections, Last
  <2> QED BY <1>2, <2>1, <2>2
<1> QED BY <1>3, <1>4

\* append to the slice of sections: every old array keeps its length and its
\* sections, and the slice shows one more.
LEMMA Appended ==
    ASSUME Shape, NEW s \in Section, arrays' = Grown(s)
    PROVE  /\ arrays' \in Seq(Seq(Section))
           /\ Len(arrays') = (IF Full(Len(Sections)) THEN Len(arrays) + 1 ELSE Len(arrays))
           /\ Len(arrays') # 0
           /\ arrays'[Len(arrays')] = Append(Sections, s)
           /\ \A a \in DOMAIN arrays \ {Len(arrays')} : arrays'[a] = arrays[a]
<1>1. /\ arrays \in Seq(Seq(Section)) /\ Sections \in Seq(Section) /\ Len(arrays) \in Nat
      /\ DOMAIN arrays = 1 .. Len(arrays)
      /\ Append(Sections, s) \in Seq(Section)
  BY Shown DEF Shape
<1>2. CASE Full(Len(Sections))
  <2>1. arrays' = Append(arrays, Append(Sections, s))
    BY <1>2 DEF Grown
  <2> HIDE DEF Sections
  <2> QED BY <1>1, <1>2, <2>1
<1>3. CASE ~Full(Len(Sections))
  <2>1. arrays' = [arrays EXCEPT ![Len(arrays)] = Append(@, s)]
    BY <1>3 DEF Grown
  <2>2. Len(arrays) # 0
    BY <1>1, <1>3, Shown DEF Full
  <2>3. Sections = arrays[Len(arrays)] /\ Len(arrays) \in DOMAIN arrays
    BY <1>1, <2>2, Shown
  <2>4. arrays' = [arrays EXCEPT ![Len(arrays)] = Append(Sections, s)]
    BY <2>1, <2>3
  <2>5. /\ arrays' \in Seq(Seq(Section)) /\ Len(arrays') = Len(arrays)
        /\ arrays'[Len(arrays)] = Append(Sections, s)
        /\ \A a \in DOMAIN arrays \ {Len(arrays)} : arrays'[a] = arrays[a]
    BY <1>1, <2>3, <2>4, ExceptSeq
  <2> QED BY <1>3, <2>2, <2>5
<1> QED BY <1>2, <1>3

\* A rule added through a pointer: that section has one rule more, and nothing
\* else in any array changes.
LEMMA Ruled ==
    ASSUME Shape, NEW p \in Pointer, Leads(p), NEW r \in Rule, Added(p, r)
    PROVE  /\ arrays' \in Seq(Seq(Section)) /\ Len(arrays') = Len(arrays)
           /\ DOMAIN arrays' = DOMAIN arrays
           /\ \A a \in DOMAIN arrays \ {p.array} : arrays'[a] = arrays[a]
           /\ DOMAIN arrays'[p.array] = DOMAIN arrays[p.array]
           /\ \A k \in DOMAIN arrays[p.array] \ {p.index} :
                arrays'[p.array][k] = arrays[p.array][k]
           /\ LET old == arrays[p.array][p.index]
                  new == arrays'[p.array][p.index]
              IN  /\ old \in Section /\ new \in Section
                  /\ new.name = old.name /\ \A h : AsHeader(old, h) => AsHeader(new, h)
                  /\ new.rules = Append(old.rules, r)
<1> DEFINE a == p.array
           old == arrays[a][p.index]
           new == [old EXCEPT !.rules = RulesWith(old.rules, r)]
           array == [arrays[a] EXCEPT ![p.index] = new]
<1>1. /\ arrays \in Seq(Seq(Section)) /\ a \in 1 .. Len(arrays)
      /\ arrays[a] \in Seq(Section) /\ p.index \in 1 .. Len(arrays[a])
      /\ DOMAIN arrays = 1 .. Len(arrays) /\ DOMAIN arrays[a] = 1 .. Len(arrays[a])
  BY DEF Shape, Leads
<1>2. old \in Section /\ old.rules \in Seq(Rule)
  <2>1. old \in Section
    BY <1>1, ElementOfSeq
  <2> QED BY <2>1 DEF Section
<1>3. Append(old.rules, r) \in Seq(Rule)
  BY <1>2
<1>4. new = [old EXCEPT !.rules = Append(old.rules, r)]
  BY Zenon DEF RulesWith
<1>5. /\ new \in Section /\ new.name = old.name
      /\ new.optional = old.optional /\ new.required = old.required /\ new.owners = old.owners
      /\ new.rules = Append(old.rules, r)
  BY <1>2, <1>3, <1>4 DEF Section
<1>6. arrays' = [arrays EXCEPT ![a] = array]
  BY Zenon DEF Added
<1> HIDE DEF new
<1>10. \A h : AsHeader(old, h) => AsHeader(new, h)
  BY <1>5 DEF AsHeader
<1>7. /\ array \in Seq(Section) /\ Len(array) = Len(arrays[a]) /\ array[p.index] = new
      /\ \A k \in 1 .. Len(arrays[a]) \ {p.index} : array[k] = arrays[a][k]
  BY <1>1, <1>5, ExceptSeq
<1> HIDE DEF array
<1>8. /\ arrays' \in Seq(Seq(Section)) /\ Len(arrays') = Len(arrays) /\ arrays'[a] = array
      /\ \A b \in 1 .. Len(arrays) \ {a} : arrays'[b] = arrays[b]
  BY <1>1, <1>6, <1>7, ExceptSeq
<1>9. DOMAIN arrays' = 1 .. Len(arrays') /\ DOMAIN array = 1 .. Len(array)
  BY <1>7, <1>8
<1> QED BY <1>1, <1>2, <1>5, <1>7, <1>8, <1>9, <1>10

-----------------------------------------------------------------------------
(* Pointers.                                                               *)

\* Before the first line there is nothing to point at.
LEMMA PointInit == Init => PointInv
<1> SUFFICES ASSUME Init PROVE PointInv
  OBVIOUS
<1>1. MaxLines \in Nat /\ Nil \in Pointer
  BY BoundAssumption DEF Nil, Pointer
<1> QED BY <1>1 DEF Init, PointInv, Shape, PointersLead, LinesRead

\* A pointer into an array that keeps its sections goes on leading there.
LEMMA StillLeads ==
    ASSUME PointersLead, UNCHANGED <<current, sectionMap>>,
           \A a \in DOMAIN arrays :
             /\ a \in DOMAIN arrays' /\ DOMAIN arrays[a] \subseteq DOMAIN arrays'[a]
             /\ \A k \in DOMAIN arrays[a] : arrays'[a][k].name = arrays[a][k].name
    PROVE  PointersLead'
  BY DEF PointersLead, Leads

\* Whatever the next line is, pointers lead to the sections they are kept for:
\* append copies, and an array it has left stays as it is.
LEMMA PointNext == PointInv /\ [Next]_vars => PointInv'
<1> SUFFICES ASSUME PointInv, [Next]_vars PROVE PointInv'
  OBVIOUS
<1>1. CASE UNCHANGED vars
  BY <1>1 DEF vars, PointInv, Shape, PointersLead, Leads, LinesRead
<1>2. ASSUME NEW l \in Lines, ReadLine(l) PROVE PointInv'
  <2> DEFINE n == Len(text) + 1
  <2>0. Shape /\ PointersLead /\ LinesRead
    BY DEF PointInv
  <2>1. /\ text' \in Seq(Lines) /\ Len(text) \in Nat /\ Len(text') = n
        /\ Len(text') <= MaxLines
        /\ DOMAIN text = 1 .. Len(text) /\ DOMAIN text' = 1 .. Len(text) + 1
    BY <1>2, <2>0, OneMore DEF ReadLine
  <2>2. CASE UNCHANGED <<defaults, arrays, current, sectionMap>>
    <3>1. Shape'
      BY <2>0, <2>1, <2>2 DEF Shape
    <3>2. PointersLead'
      BY <2>0, <2>2 DEF PointersLead, Leads
    <3> QED BY <2>0, <2>1, <2>2, <3>1, <3>2 DEF PointInv, LinesRead
  <2>3. ASSUME NEW r \in Rule, NEW d \in Rule, d.line = n, AddRule(r, d)
        PROVE  PointInv'
    <3>1. CASE current = Nil
      <4>1. /\ defaults' = Append(defaults, d) /\ UNCHANGED arrays
            /\ UNCHANGED <<current, sectionMap>> /\ defaults \in Seq(Rule)
        BY <2>0, <2>3, <3>1 DEF AddRule, Shape
      <4>2. /\ defaults' \in Seq(Rule)
            /\ \A k \in DOMAIN defaults' : defaults'[k] = d \/ (k \in DOMAIN defaults /\ defaults'[k] = defaults[k])
        BY <4>1
      <4>3. LinesRead'
        BY <2>0, <2>1, <2>3, <4>2 DEF LinesRead
      <4>4. Shape'
        BY <2>0, <2>1, <4>1, <4>2 DEF Shape
      <4> QED BY <2>0, <4>1, <4>3, <4>4 DEF PointInv, PointersLead, Leads
    <3>2. CASE current # Nil
      <4>1. /\ Added(current, r) /\ UNCHANGED <<current, sectionMap, defaults>>
            /\ current \in Pointer /\ Leads(current)
        BY <2>0, <2>3, <3>2 DEF AddRule, Shape, PointersLead
      <4>2. PointersLead'
        BY <2>0, <2>3, <4>1, Ruled, StillLeads
      <4>3. Shape'
        BY <2>0, <2>1, <2>3, <4>1, Ruled DEF Shape
      <4> QED BY <2>0, <2>1, <4>1, <4>2, <4>3 DEF PointInv, LinesRead
    <3> QED BY <3>1, <3>2
  <2>4. ASSUME l.kind = "header", l.name # NoName, OpenSection(l) PROVE PointInv'
    <3>1. l.name \in Names /\ ParsedSection(l) \in Section /\ ParsedSection(l).name = l.name
      BY <2>4, NewSection
    <3>2. CASE sectionMap[l.name] # Nil
      <4>1. current' = sectionMap[l.name] /\ UNCHANGED <<arrays, sectionMap, defaults>>
        BY <2>4, <3>2 DEF OpenSection
      <4>2. Shape'
        BY <2>0, <2>1, <3>1, <4>1 DEF Shape
      <4> QED BY <2>0, <2>1, <3>1, <4>1, <4>2 DEF PointInv, PointersLead, Leads, LinesRead
    <3>3. CASE sectionMap[l.name] = Nil
      <4>p. PICK p : p = [array |-> Len(arrays'), index |-> Len(Sections) + 1]
        OBVIOUS
      <4>1. /\ arrays' = Grown(ParsedSection(l)) /\ current' = p
            /\ sectionMap' = [sectionMap EXCEPT ![l.name] = p] /\ UNCHANGED defaults
        BY <2>4, <3>3, <4>p DEF OpenSection
      <4>2. /\ arrays' \in Seq(Seq(Section)) /\ Len(arrays') # 0
            /\ arrays'[Len(arrays')] = Append(Sections, ParsedSection(l))
            /\ Len(arrays') = Len(arrays) \/ Len(arrays') = Len(arrays) + 1
            /\ \A a \in DOMAIN arrays \ {Len(arrays')} : arrays'[a] = arrays[a]
        BY <2>0, <3>1, <4>1, Appended
      <4>3. Sections \in Seq(Section) /\ Len(Sections) \in Nat
        BY <2>0, Shown
      <4>4. /\ DOMAIN Append(Sections, ParsedSection(l)) = 1 .. Len(Sections) + 1
            /\ \A k \in DOMAIN Sections :
                 Append(Sections, ParsedSection(l))[k] = Sections[k]
            /\ DOMAIN Sections = 1 .. Len(Sections)
            /\ Append(Sections, ParsedSection(l))[Len(Sections) + 1] = ParsedSection(l)
        BY <3>1, <4>3
      <4>5. Len(arrays') \in Nat /\ DOMAIN arrays' = 1 .. Len(arrays')
        BY <4>2
      <4>6. p \in Pointer /\ Leads(p)' /\ arrays'[p.array][p.index].name = l.name
        BY <3>1, <4>p, <4>2, <4>3, <4>4, <4>5 DEF Pointer, Leads
      <4>7. Shape'
        BY <2>0, <2>1, <4>1, <4>2, <4>6 DEF Shape
      <4>8. ASSUME NEW a \in DOMAIN arrays
            PROVE  /\ a \in DOMAIN arrays' /\ DOMAIN arrays[a] \subseteq DOMAIN arrays'[a]
                   /\ \A k \in DOMAIN arrays[a] : arrays'[a][k] = arrays[a][k]
        <5>1. DOMAIN arrays = 1 .. Len(arrays) /\ Len(arrays) \in Nat
          BY <2>0, Shown
        <5>2. CASE a # Len(arrays')
          <6>1. arrays'[a] = arrays[a]
            BY <4>2, <5>2, Zenon
          <6>2. Len(arrays') = Len(arrays) \/ Len(arrays') = Len(arrays) + 1
            BY <4>2
          <6>3. a \in 1 .. Len(arrays) /\ Len(arrays') \in Nat
            BY <4>5, <5>1
          <6>4. a \in 1 .. Len(arrays')
            BY <5>1, <6>2, <6>3
          <6>5. a \in DOMAIN arrays'
            BY <4>5, <6>4, Zenon
          <6>6. DOMAIN arrays'[a] = DOMAIN arrays[a]
            BY <6>1
          <6>7. \A k \in DOMAIN arrays[a] : arrays'[a][k] = arrays[a][k]
            BY <6>1
          <6> QED BY <6>5, <6>6, <6>7, Zenon
        <5>3. CASE a = Len(arrays')
          <6>1. a = Len(arrays) /\ Len(arrays) # 0
            BY <4>2, <5>1, <5>3
          <6>2. arrays[a] = Sections
            BY <2>0, <6>1, Shown
          <6>3. arrays'[a] = Append(Sections, ParsedSection(l))
            BY <4>2, <5>3, Zenon
          <6>4. a \in DOMAIN arrays'
            BY <4>5, <5>1, <6>1, <5>3
          <6>5. DOMAIN arrays[a] \subseteq 1 .. Len(Sections) + 1
            BY <4>3, <4>4, <6>2
          <6> HIDE DEF Sections
          <6> QED BY <4>4, <6>2, <6>3, <6>4, <6>5
        <5> QED BY <5>2, <5>3
      <4>9. PointersLead'
        <5>1. ASSUME NEW m \in Names, sectionMap'[m] # Nil
              PROVE  /\ sectionMap'[m].array \in DOMAIN arrays'
                     /\ sectionMap'[m].index \in DOMAIN arrays'[sectionMap'[m].array]
                     /\ arrays'[sectionMap'[m].array][sectionMap'[m].index].name = m
          <6>1. CASE m = l.name
            BY <2>0, <3>1, <4>1, <4>6, <6>1 DEF Shape, Leads
          <6>2. CASE m # l.name
            <7>1. sectionMap'[m] = sectionMap[m] /\ sectionMap[m] # Nil
              BY <2>0, <4>1, <5>1, <6>2 DEF Shape
            <7>2. Leads(sectionMap[m]) /\ arrays[sectionMap[m].array][sectionMap[m].index].name = m
              BY <2>0, <7>1 DEF PointersLead
            <7> QED BY <4>8, <7>1, <7>2 DEF Leads
          <6> QED BY <6>1, <6>2
        <5>2. current' = sectionMap'[l.name]
          BY <2>0, <3>1, <4>1 DEF Shape
        <5> QED BY <3>1, <5>1, <5>2 DEF PointersLead, Leads
      <4> QED BY <2>0, <2>1, <4>1, <4>7, <4>9 DEF PointInv, LinesRead
    <3> QED BY <3>2, <3>3
  <2>5. n \in Nat
    BY <2>1
  <2> HIDE DEF n
  <2>6. ASSUME l.kind = "header" /\ l.name = NoName, AddRule(MisreadHeader(l, n), MisreadDefault(n))
        PROVE  PointInv'
    BY <2>3, <2>5, <2>6, NewRules
  <2>7. ASSUME l.kind = "rule", AddRule(ParsedRule(l, n), ParsedRule(l, n)) PROVE PointInv'
    BY <2>3, <2>5, <2>7, NewRules
  <2> QED BY <1>2, <2>2, <2>4, <2>6, <2>7 DEF ReadLine, n
<1> QED BY <1>1, <1>2 DEF Next

\* TypeOK: of the parser, that the files it reads and the rules it keeps are
\* of their types, every pointer leads into an array, and every section
\* requires an approval at least.
THEOREM PointersAlwaysLead == Spec => []TypeOK
<1>1. Init => PointInv
  BY PointInit
<1>2. PointInv /\ [Next]_vars => PointInv'
  BY PointNext
<1>3. PointInv => TypeOK
  <2> SUFFICES ASSUME Shape, PointersLead, LinesRead PROVE TypeOK
    BY DEF PointInv
  <2>1. NoName \notin Names
    BY NameAssumption
  <2>2. \A k \in DOMAIN Sections : Sections[k].required \in Nat \ {0}
    <3>1. Sections \in Seq(Section)
      BY Shown
    <3>2. ASSUME NEW k \in DOMAIN Sections PROVE Sections[k] \in Section
      BY <3>1
    <3> QED BY <3>2 DEF Section
  <2> QED BY <2>1, <2>2 DEF TypeOK, Shape, PointersLead, LinesRead, Leads
<1> QED BY <1>1, <1>2, <1>3, PTL DEF Spec

-----------------------------------------------------------------------------
(* What the file says, one line later.                                     *)

\* The largest and the smallest of a set of numbers.
LEMMA MaxIs ==
    ASSUME NEW S, S \subseteq Int, NEW m \in S, \A k \in S : k <= m
    PROVE  Max(S) = m
<1>1. \E x \in S : \A y \in S : x >= y
  BY SMT
<1>2. Max(S) \in S /\ \A y \in S : Max(S) >= y
  BY <1>1, Zenon DEF Max
<1>3. \A x \in S : (\A y \in S : x >= y) => x = m
  BY SMT
<1> QED BY <1>2, <1>3, Zenon

\* The smallest.
LEMMA MinIs ==
    ASSUME NEW S, S \subseteq Int, NEW m \in S, \A k \in S : m <= k
    PROVE  Min(S) = m
<1>1. \E x \in S : \A y \in S : x =< y
  BY SMT
<1>2. Min(S) \in S /\ \A y \in S : Min(S) =< y
  BY <1>1, Zenon DEF Min
<1>3. \A x \in S : (\A y \in S : x =< y) => x = m
  BY SMT
<1> QED BY <1>2, <1>3, Zenon

\* Line h is the first to open section n.
FirstIs(n, h) ==
    /\ h \in DOMAIN text /\ IsHeader(h) /\ text[h].name = n
    /\ \A k \in DOMAIN text : IsHeader(k) /\ text[k].name = n => h <= k

Grows(l) ==
    /\ text \in Seq(Lines) /\ text' \in Seq(Lines) /\ Len(text) \in Nat
    /\ Len(text') = Len(text) + 1
    /\ DOMAIN text = 1 .. Len(text) /\ DOMAIN text' = 1 .. Len(text) + 1
    /\ \A i \in DOMAIN text : text'[i] = text[i]
    /\ text'[Len(text) + 1] = l

\* The lines read before are what they were.
LEMMA LineSame ==
    ASSUME NEW l \in Lines, Grows(l), NEW i \in 1 .. Len(text)
    PROVE  /\ text'[i] = text[i]
           /\ IsHeader(i)' <=> IsHeader(i)
           /\ IsRule(i)' <=> IsRule(i)
  BY DEF Grows, IsHeader, IsRule

\* So are the headers they stand under, and the names opened up to them.
LEMMA AboveSame ==
    ASSUME NEW l \in Lines, Grows(l), NEW i \in 0 .. Len(text)
    PROVE  HeaderOf(i)' = HeaderOf(i) /\ Named(i)' = Named(i)
<1>1. Len(text) \in Nat /\ \A h \in 1 .. i : h \in 1 .. Len(text)
  BY DEF Grows
<1>2. \A h \in 1 .. i : text'[h] = text[h] /\ (IsHeader(h)' <=> IsHeader(h))
  BY <1>1, LineSame
<1>3. {h \in 1 .. i : IsHeader(h)'} = {h \in 1 .. i : IsHeader(h)}
  BY <1>2
<1>4. HeaderOf(i)' = HeaderOf(i)
  BY <1>3 DEF HeaderOf
<1>5. Named(i)' = Named(i)
  BY <1>2 DEF Named
<1> QED BY <1>4, <1>5

\* The new line stands under itself if it is a header, or under the header of
\* the line before.
LEMMA AboveNew ==
    ASSUME NEW l \in Lines, Grows(l), NEW n, n = Len(text) + 1
    PROVE  /\ IsHeader(n)' <=> (l.kind = "header" /\ l.name # NoName)
           /\ IsRule(n)' <=> (l.kind = "rule" \/ (l.kind = "header" /\ l.name = NoName))
           /\ IsHeader(n)' => HeaderOf(n)' = n /\ Named(n)' = Named(Len(text)) \cup {l.name}
           /\ ~IsHeader(n)' => HeaderOf(n)' = HeaderOf(Len(text)) /\ Named(n)' = Named(Len(text))
<1>1. /\ Len(text) \in Nat /\ n \in Nat /\ 1 .. n = 1 .. Len(text) \cup {n}
      /\ text'[n] = l
  BY DEF Grows
<1>2. \A h \in 1 .. Len(text) : text'[h] = text[h] /\ (IsHeader(h)' <=> IsHeader(h))
  BY LineSame
<1>3. /\ IsHeader(n)' <=> (l.kind = "header" /\ l.name # NoName)
      /\ IsRule(n)' <=> (l.kind = "rule" \/ (l.kind = "header" /\ l.name = NoName))
  BY <1>1 DEF IsHeader, IsRule
<1>4. ASSUME IsHeader(n)'
      PROVE  HeaderOf(n)' = n /\ Named(n)' = Named(Len(text)) \cup {l.name}
  <2>1. Max({h \in 1 .. n : IsHeader(h)'}) = n
    BY <1>1, <1>4, MaxIs
  <2>2. {h \in 1 .. n : IsHeader(h)'} # {}
    BY <1>1, <1>4
  <2>3. HeaderOf(n)' = n
    BY <2>1, <2>2 DEF HeaderOf
  <2>4. Named(n)' = Named(Len(text)) \cup {l.name}
    BY <1>1, <1>2, <1>4 DEF Named
  <2> QED BY <2>3, <2>4
<1>5. ASSUME ~IsHeader(n)'
      PROVE  HeaderOf(n)' = HeaderOf(Len(text)) /\ Named(n)' = Named(Len(text))
  <2>1. {h \in 1 .. n : IsHeader(h)'} = {h \in 1 .. Len(text) : IsHeader(h)}
    BY <1>1, <1>2, <1>5
  <2>2. HeaderOf(n)' = HeaderOf(Len(text))
    BY <2>1 DEF HeaderOf
  <2>3. Named(n)' = Named(Len(text))
    BY <1>1, <1>2, <1>5 DEF Named
  <2> QED BY <2>2, <2>3
<1> QED BY <1>3, <1>4, <1>5

\* A section stays opened by the line that opened it first, and a header of a
\* new name opens one.
LEMMA FirstSame ==
    ASSUME NEW l \in Lines, Grows(l), NEW n, NEW h, FirstIs(n, h)
    PROVE  FirstIs(n, h)' /\ FirstHeader(n) = h /\ FirstHeader(n)' = h
<1>1. /\ Len(text) \in Nat /\ DOMAIN text = 1 .. Len(text)
      /\ DOMAIN text' = 1 .. Len(text) + 1 /\ h \in 1 .. Len(text)
  BY DEF Grows, FirstIs
<1>2. \A k \in 1 .. Len(text) : text'[k] = text[k] /\ (IsHeader(k)' <=> IsHeader(k))
  BY LineSame
<1>3. FirstIs(n, h)'
  BY <1>1, <1>2 DEF FirstIs
<1>4. Min({k \in DOMAIN text : IsHeader(k) /\ text[k].name = n}) = h
  <2>1. /\ h \in {k \in DOMAIN text : IsHeader(k) /\ text[k].name = n}
        /\ \A k \in {i \in DOMAIN text : IsHeader(i) /\ text[i].name = n} : h <= k
    BY DEF FirstIs
  <2> QED BY <1>1, <2>1, MinIs
<1>5. Min({k \in DOMAIN text' : IsHeader(k)' /\ text'[k].name = n}) = h
  <2> DEFINE T == {k \in DOMAIN text' : IsHeader(k)' /\ text'[k].name = n}
  <2>1. h \in T /\ \A k \in T : h <= k
    BY <1>3 DEF FirstIs
  <2>2. T \subseteq Int
    BY <1>1
  <2> HIDE DEF T
  <2>3. Min(T) = h
    BY <2>1, <2>2, MinIs
  <2> QED BY <2>3 DEF T
<1> QED BY <1>3, <1>4, <1>5 DEF FirstHeader

\* The name of a new header stands first there, and the others where they stood.
LEMMA FirstNew ==
    ASSUME NEW l \in Lines, Grows(l), NEW h, h = Len(text) + 1, IsHeader(h)',
           l.name \notin Named(Len(text))
    PROVE  FirstIs(l.name, h)' /\ FirstHeader(l.name)' = h
<1>1. /\ Len(text) \in Nat /\ h \in DOMAIN text' /\ DOMAIN text' = 1 .. h
      /\ text'[h] = l
  BY DEF Grows
<1>2. \A k \in 1 .. Len(text) : text'[k] = text[k] /\ (IsHeader(k)' <=> IsHeader(k))
  BY LineSame
<1>3. ASSUME NEW k \in 1 .. h, IsHeader(k)', text'[k].name = l.name PROVE k = h
  BY <1>1, <1>2, <1>3 DEF Named
<1>4. FirstIs(l.name, h)'
  BY <1>1, <1>3 DEF FirstIs
<1>5. Min({k \in DOMAIN text' : IsHeader(k)' /\ text'[k].name = l.name}) = h
  BY <1>1, <1>4, MinIs DEF FirstIs
<1> QED BY <1>4, <1>5 DEF FirstHeader

-----------------------------------------------------------------------------
(* What the parser has made of it.                                         *)

\* A line stands under a header that precedes it.
HeadersRead ==
    \A i \in 0 .. Len(text) :
      HeaderOf(i) = 0 \/ (HeaderOf(i) \in 1 .. i /\ IsHeader(HeaderOf(i)))

\* The current section is that of the last header.
CurrentIsLast ==
    IF HeaderOf(Len(text)) = 0 THEN current = Nil
    ELSE current # Nil /\ current = sectionMap[text[HeaderOf(Len(text))].name]

\* A pointer is kept for every name met, and there is a section for each.
AllNamed ==
    /\ Named(Len(text)) = {n \in Names : sectionMap[n] # Nil}
    /\ IsFiniteSet(Named(Len(text))) /\ Cardinality(Named(Len(text))) = Len(Sections)
    /\ \A k \in DOMAIN Sections :
         sectionMap[Sections[k].name] # Nil /\ sectionMap[Sections[k].name].index = k

KeptLines(n) == {i \in LinesUnder(n) : Kept(n, i)}

\* The section of a name: it has the place and the attributes its first header
\* gave it, the pointer kept for it leads into the last array unless an array
\* has filled up since, and it has the rules that reached it.
Written(n) ==
    LET p == sectionMap[n]
        s == Sections[p.index]
    IN  /\ FirstIs(n, FirstHeader(n))
        /\ p.index \in DOMAIN Sections /\ p.index = Cardinality(Named(FirstHeader(n)))
        /\ s.name = n /\ AsHeader(s, text[FirstHeader(n)])
        /\ p.array = Len(arrays) <=> SameArray(p.index, Len(Sections))
        /\ RulesOf(s.rules, KeptLines(n))

AllWritten == \A n \in Names : sectionMap[n] # Nil => Written(n)

DefaultsWritten == RulesOf(defaults, {i \in DOMAIN text : IsRule(i) /\ HeaderOf(i) = 0})

WriteInv == HeadersRead /\ CurrentIsLast /\ AllNamed /\ AllWritten /\ DefaultsWritten

\* A rule of a later line comes last.
LEMMA OneRuleMore ==
    ASSUME NEW rules \in Seq(Rule), NEW lines, RulesOf(rules, lines),
           NEW r \in Rule, \A i \in lines : i < r.line
    PROVE  RulesOf(Append(rules, r), lines \cup {r.line})
<1> DEFINE more == Append(rules, r)
           n == Len(rules) + 1
<1>1. /\ Len(rules) \in Nat /\ DOMAIN rules = 1 .. Len(rules) /\ DOMAIN more = 1 .. n
      /\ \A k \in DOMAIN rules : more[k] = rules[k]
      /\ more[n] = r
  OBVIOUS
<1> HIDE DEF more
<1>2. \A k \in DOMAIN more : k \in DOMAIN rules \/ k = n
  BY <1>1
<1>3. {more[k].line : k \in DOMAIN more} = lines \cup {r.line}
  BY <1>1, <1>2 DEF RulesOf
<1>4. ASSUME NEW k \in DOMAIN more, NEW m \in DOMAIN more, k < m
      PROVE  more[k].line < more[m].line
  <2>1. k \in DOMAIN rules
    BY <1>1, <1>4
  <2>2. CASE m \in DOMAIN rules
    BY <1>1, <1>4, <2>1, <2>2 DEF RulesOf
  <2>3. CASE m = n
    BY <1>1, <2>1, <2>3 DEF RulesOf
  <2> QED BY <1>2, <2>2, <2>3
<1> QED BY <1>3, <1>4 DEF RulesOf, more

\* Line i is a rule of the section of that name.
Under(m, i) == IsRule(i) /\ HeaderOf(i) # 0 /\ text[HeaderOf(i)].name = m

\* Where a line stands does not change.
LEMMA HeadersNext ==
    ASSUME HeadersRead, NEW l \in Lines, Grows(l), NEW n, n = Len(text) + 1
    PROVE  /\ HeadersRead'
           /\ \A m, i : i \in 1 .. Len(text) => (Under(m, i)' <=> Under(m, i))
           /\ \A i \in 1 .. Len(text) : (HeaderOf(i) = 0)' <=> HeaderOf(i) = 0
<1>1. /\ Len(text) \in Nat /\ Len(text') = n /\ 1 .. n = 1 .. Len(text) \cup {n}
      /\ 0 .. Len(text') = 0 .. Len(text) \cup {n}
  BY DEF Grows
<1>2. ASSUME NEW i \in 0 .. Len(text)
      PROVE  /\ HeaderOf(i)' = HeaderOf(i)
             /\ HeaderOf(i) = 0 \/ (HeaderOf(i) \in 1 .. i /\ HeaderOf(i) \in 1 .. Len(text)
                                   /\ IsHeader(HeaderOf(i)))
  BY <1>1, AboveSame DEF HeadersRead
<1>3. ASSUME NEW h \in 1 .. Len(text) PROVE IsHeader(h)' <=> IsHeader(h)
  BY LineSame
<1>4. ASSUME NEW i \in 0 .. Len(text')
      PROVE  HeaderOf(i)' = 0 \/ (HeaderOf(i)' \in 1 .. i /\ IsHeader(HeaderOf(i))')
  <2>1. CASE i \in 0 .. Len(text)
    <3>1. PICK h : h = HeaderOf(i)
      OBVIOUS
    <3>2. HeaderOf(i)' = h
      BY <1>2, <2>1, <3>1
    <3>3. IsHeader(HeaderOf(i))' <=> IsHeader(h)'
      BY <3>2 DEF IsHeader
    <3> QED BY <1>2, <1>3, <2>1, <3>1, <3>2, <3>3
  <2>2. CASE i = n /\ IsHeader(n)'
    <3>1. HeaderOf(i)' = n
      BY <2>2, AboveNew
    <3>2. IsHeader(HeaderOf(i))' <=> IsHeader(n)'
      BY <3>1 DEF IsHeader
    <3> QED BY <1>1, <2>2, <3>1, <3>2
  <2>3. CASE i = n /\ ~IsHeader(n)'
    <3>1. PICK h : h = HeaderOf(Len(text))
      OBVIOUS
    <3>2. HeaderOf(i)' = h
      BY <2>3, <3>1, AboveNew
    <3>3. IsHeader(HeaderOf(i))' <=> IsHeader(h)'
      BY <3>2 DEF IsHeader
    <3>4. h = 0 \/ (h \in 1 .. Len(text) /\ IsHeader(h))
      BY <1>1, <1>2, <3>1
    <3> QED BY <1>1, <1>3, <2>3, <3>2, <3>3, <3>4
  <2> QED BY <1>1, <2>1, <2>2, <2>3
<1>5. ASSUME NEW m, NEW i \in 1 .. Len(text)
      PROVE  Under(m, i)' <=> Under(m, i)
  <2>1. PICK h : h = HeaderOf(i)
    OBVIOUS
  <2>2. HeaderOf(i)' = h /\ (h = 0 \/ h \in 1 .. Len(text)) /\ (IsRule(i)' <=> IsRule(i))
    BY <1>1, <1>2, <2>1, LineSame
  <2>3. h # 0 => text'[h] = text[h]
    BY <2>2, LineSame
  <2> QED BY <2>1, <2>2, <2>3 DEF Under
<1>6. HeadersRead'
  BY <1>4 DEF HeadersRead
<1>7. \A i \in 1 .. Len(text) : (HeaderOf(i) = 0)' <=> HeaderOf(i) = 0
  BY <1>1, <1>2
<1> QED BY <1>5, <1>6, <1>7
\* What the file says of a section that is open: one rule more, if the new line
\* is one, stands under its name and reaches it.
LEMMA FileSays ==
    ASSUME HeadersRead, NEW l \in Lines, Grows(l), NEW n, n = Len(text) + 1,
           NEW m, FirstIs(m, FirstHeader(m))
    PROVE  LET h == FirstHeader(m)
           IN  /\ FirstIs(m, FirstHeader(m))' /\ FirstHeader(m)' = h
               /\ text'[h] = text[h] /\ Named(FirstHeader(m))' = Named(h)
               /\ KeptLines(m) \subseteq 1 .. Len(text)
               /\ ~(Under(m, n)' /\ Kept(m, n)') => KeptLines(m)' = KeptLines(m)
               /\ Under(m, n)' /\ Kept(m, n)' => KeptLines(m)' = KeptLines(m) \cup {n}
<1>1. PICK h : h = FirstHeader(m)
  OBVIOUS
<1>2. /\ Len(text) \in Nat /\ DOMAIN text = 1 .. Len(text) /\ DOMAIN text' = 1 .. n
      /\ 1 .. n = 1 .. Len(text) \cup {n} /\ h \in 1 .. Len(text)
  BY <1>1 DEF Grows, FirstIs
<1>3. FirstIs(m, h)' /\ FirstHeader(m)' = h
  BY <1>1, FirstSame
<1>4. FirstIs(m, FirstHeader(m))'
  BY <1>3 DEF FirstIs, IsHeader
<1>5. text'[h] = text[h] /\ Named(h)' = Named(h)
  BY <1>2, LineSame, AboveSame
<1>6. Named(FirstHeader(m))' = Named(h)
  BY <1>3, <1>5 DEF Named, IsHeader
<1>7. ASSUME NEW i \in 1 .. Len(text) PROVE Kept(m, i)' <=> Kept(m, i)
  <2>1. Named(i)' = Named(i)
    BY <1>2, AboveSame
  <2> QED BY <1>1, <1>6, <2>1 DEF Kept, SameArray
<1>8. /\ KeptLines(m) = {i \in 1 .. Len(text) : Under(m, i) /\ Kept(m, i)}
      /\ KeptLines(m)' = {i \in 1 .. n : Under(m, i)' /\ Kept(m, i)'}
  BY <1>2 DEF KeptLines, LinesUnder, Under
<1>9. \A i \in 1 .. Len(text) : Under(m, i)' <=> Under(m, i)
  BY HeadersNext
<1> QED BY <1>1, <1>2, <1>3, <1>4, <1>5, <1>6, <1>7, <1>8, <1>9

\* A line that is no rule leaves the default rules as the file has them, and so
\* does a rule under a header.
LEMMA DefaultsSame ==
    ASSUME HeadersRead, DefaultsWritten, NEW l \in Lines, Grows(l), NEW n, n = Len(text) + 1,
           UNCHANGED defaults, ~(IsRule(n)' /\ HeaderOf(n)' = 0)
    PROVE  DefaultsWritten'
<1>1. /\ Len(text) \in Nat /\ DOMAIN text = 1 .. Len(text) /\ DOMAIN text' = 1 .. n
      /\ 1 .. n = 1 .. Len(text) \cup {n}
  BY DEF Grows
<1>2. \A i \in 1 .. Len(text) : /\ IsRule(i)' <=> IsRule(i)
                                /\ HeaderOf(i)' = 0 <=> HeaderOf(i) = 0
  BY HeadersNext, LineSame
<1>3. {i \in DOMAIN text' : IsRule(i)' /\ HeaderOf(i)' = 0}
        = {i \in DOMAIN text : IsRule(i) /\ HeaderOf(i) = 0}
  BY <1>1, <1>2
<1> QED BY <1>3 DEF DefaultsWritten, RulesOf

\* A section that the step neither moves nor adds a rule to.
LEMMA WrittenSame ==
    ASSUME HeadersRead, NEW l \in Lines, Grows(l), NEW n, n = Len(text) + 1,
           NEW m \in Names, Written(m), sectionMap'[m] = sectionMap[m],
           ~(Under(m, n)' /\ Kept(m, n)'),
           sectionMap[m].index \in DOMAIN Sections',
           Sections'[sectionMap[m].index] = Sections[sectionMap[m].index],
           sectionMap[m].array = Len(arrays')
             <=> SameArray(sectionMap[m].index, Len(Sections'))
    PROVE  Written(m)'
<1>1. PICK h : h = FirstHeader(m)
  OBVIOUS
<1>2. FirstIs(m, FirstHeader(m))
  BY DEF Written
<1>3. /\ FirstIs(m, FirstHeader(m))' /\ FirstHeader(m)' = h /\ text'[h] = text[h]
      /\ Named(FirstHeader(m))' = Named(h) /\ KeptLines(m)' = KeptLines(m)
  BY <1>1, <1>2, FileSays
<1>4. RulesOf(Sections[sectionMap[m].index].rules, KeptLines(m))
  BY DEF Written
<1>5. RulesOf(Sections[sectionMap[m].index].rules, KeptLines(m))'
  BY <1>3, <1>4 DEF RulesOf
<1> QED BY <1>1, <1>3, <1>5 DEF Written, SameArray
\* The names met by the last line.
LEMMA NamedNow ==
    ASSUME NEW l \in Lines, Grows(l), NEW n, n = Len(text) + 1
    PROVE  /\ Named(Len(text))' = Named(n)'
           /\ HeaderOf(Len(text))' = HeaderOf(n)'
<1>1. Len(text') = n
  BY DEF Grows
<1> QED BY <1>1 DEF Named, HeaderOf, IsHeader

\* A line that is no rule and opens no new section changes nothing that is
\* written.
LEMMA NothingWritten ==
    ASSUME WriteInv, NEW l \in Lines, Grows(l), NEW n, n = Len(text) + 1,
           ~IsRule(n)', Named(n)' = Named(Len(text)),
           UNCHANGED <<defaults, arrays, sectionMap>>
    PROVE  HeadersRead' /\ AllNamed' /\ AllWritten' /\ DefaultsWritten'
<1>1. HeadersRead /\ HeadersRead' /\ Sections' = Sections
  BY HeadersNext DEF WriteInv, Sections
<1>2. AllNamed'
  BY <1>1, NamedNow DEF WriteInv, AllNamed
<1>3. ASSUME NEW m \in Names, sectionMap'[m] # Nil PROVE Written(m)'
  <2>1. Written(m)
    BY <1>3 DEF WriteInv, AllWritten
  <2>2. ~Under(m, n)'
    BY DEF Under
  <2>3. /\ sectionMap[m].index \in DOMAIN Sections
        /\ sectionMap[m].array = Len(arrays)
             <=> SameArray(sectionMap[m].index, Len(Sections))
    BY <2>1 DEF Written
  <2> QED BY <1>1, <2>1, <2>2, <2>3, WrittenSame
<1>4. DefaultsWritten'
  BY <1>1, DefaultsSame DEF WriteInv
<1> QED BY <1>1, <1>2, <1>3, <1>4 DEF AllWritten

\* A default rule: there is no header above, and it goes last.
LEMMA DefaultWritten ==
    ASSUME PointInv, WriteInv, NEW l \in Lines, Grows(l), NEW n, n = Len(text) + 1,
           IsRule(n)', current = Nil, ~IsHeader(n)',
           NEW d \in Rule, d.line = n, defaults' = Append(defaults, d),
           UNCHANGED <<arrays, current, sectionMap>>
    PROVE  WriteInv'
<1>1. /\ HeadersRead /\ HeadersRead' /\ Sections' = Sections
      /\ HeaderOf(Len(text)) = 0 /\ HeaderOf(n)' = 0 /\ Named(n)' = Named(Len(text))
  BY HeadersNext, AboveNew DEF WriteInv, Sections, CurrentIsLast
<1>2. AllNamed'
  BY <1>1, NamedNow DEF WriteInv, AllNamed
<1>3. ASSUME NEW m \in Names, sectionMap'[m] # Nil PROVE Written(m)'
  <2>1. Written(m)
    BY <1>3 DEF WriteInv, AllWritten
  <2>2. ~Under(m, n)'
    BY <1>1 DEF Under
  <2>3. /\ sectionMap[m].index \in DOMAIN Sections
        /\ sectionMap[m].array = Len(arrays)
             <=> SameArray(sectionMap[m].index, Len(Sections))
    BY <2>1 DEF Written
  <2> QED BY <1>1, <2>1, <2>2, <2>3, WrittenSame
<1>4. DefaultsWritten'
  <2> DEFINE old == {i \in DOMAIN text : IsRule(i) /\ HeaderOf(i) = 0}
  <2>1. /\ Len(text) \in Nat /\ DOMAIN text = 1 .. Len(text) /\ DOMAIN text' = 1 .. n
        /\ 1 .. n = 1 .. Len(text) \cup {n}
    BY DEF Grows
  <2>2. \A i \in 1 .. Len(text) : /\ IsRule(i)' <=> IsRule(i)
                                  /\ HeaderOf(i)' = 0 <=> HeaderOf(i) = 0
    BY <1>1, HeadersNext, LineSame
  <2>3. {i \in DOMAIN text' : IsRule(i)' /\ HeaderOf(i)' = 0} = old \cup {d.line}
    BY <1>1, <2>1, <2>2
  <2>4. RulesOf(defaults, old) /\ \A i \in old : i < d.line
    BY <2>1 DEF WriteInv, DefaultsWritten
  <2>5. defaults \in Seq(Rule)
    BY DEF PointInv, Shape
  <2> HIDE DEF old
  <2>6. RulesOf(defaults', old \cup {d.line})
    BY <2>4, <2>5, OneRuleMore
  <2> QED BY <2>3, <2>6 DEF DefaultsWritten, RulesOf
<1>5. CurrentIsLast'
  BY <1>1, NamedNow DEF WriteInv, CurrentIsLast
<1> QED BY <1>1, <1>2, <1>3, <1>4, <1>5 DEF WriteInv, AllWritten

\* Appending to the slice: the pointers into the array it has left are those
\* of the sections before a capacity.
LEMMA ArrayStep ==
    ASSUME NEW length \in Nat, NEW index \in 1 .. length,
           NEW last \in Nat, NEW array \in 1 .. last,
           array = last <=> SameArray(index, length),
           NEW next, next = (IF Full(length) THEN last + 1 ELSE last)
    PROVE  array = next <=> SameArray(index, length + 1)
<1>1. Capacities \subseteq Int
  <2>1. \A k \in 0 .. MaxLines : 2 ^ k \in Int
    BY BoundAssumption
  <2> QED BY <2>1 DEF Capacities
<1>2. CASE Full(length)
  <2>1. length \in Capacities
    BY <1>2 DEF Full
  <2>2. ~SameArray(index, length + 1)
    BY <2>1 DEF SameArray
  <2> QED BY <1>2, <2>2
<1>3. CASE ~Full(length)
  <2>1. length \notin Capacities
    BY <1>3 DEF Full
  <2>2. SameArray(index, length + 1) <=> SameArray(index, length)
    BY <1>1, <2>1 DEF SameArray
  <2> QED BY <1>3, <2>2
<1> QED BY <1>2, <1>3
\* A header of a new name opens a section after the others.
LEMMA SectionWritten ==
    ASSUME PointInv, WriteInv, NEW l \in Lines, Grows(l), NEW n, n = Len(text) + 1,
           IsHeader(n)', l.kind = "header", l.name # NoName,
           sectionMap[l.name] = Nil, OpenSection(l)
    PROVE  WriteInv'
<1> DEFINE s == ParsedSection(l)
           L == Len(Sections)
<1>p. PICK p : p = [array |-> Len(arrays'), index |-> L + 1]
  OBVIOUS
<1>0. Shape /\ PointersLead
  BY DEF PointInv
<1>1. /\ arrays' = Grown(s) /\ current' = p /\ UNCHANGED defaults
      /\ sectionMap' = [sectionMap EXCEPT ![l.name] = p]
  BY <1>p DEF OpenSection
<1>2. /\ l.name \in Names /\ s \in Section /\ s.name = l.name /\ s.rules = <<>>
      /\ AsHeader(s, l)
  BY NewSection
<1>3. sectionMap'[l.name] = p /\ \A m \in Names \ {l.name} : sectionMap'[m] = sectionMap[m]
  BY <1>0, <1>1, <1>2 DEF Shape
<1> HIDE DEF s
<1>4. /\ arrays' \in Seq(Seq(Section)) /\ Len(arrays') # 0
      /\ arrays'[Len(arrays')] = Append(Sections, s)
      /\ Len(arrays') = (IF Full(L) THEN Len(arrays) + 1 ELSE Len(arrays))
  BY <1>0, <1>1, <1>2, Appended
<1>5. Sections \in Seq(Section) /\ L \in Nat /\ DOMAIN Sections = 1 .. L /\ Len(arrays) \in Nat
  BY <1>0, Shown
<1>6. Sections' = Append(Sections, s)
  BY <1>4, ShownNext
<1>7. /\ Len(Sections') = L + 1 /\ DOMAIN Sections' = 1 .. L + 1
      /\ \A k \in 1 .. L : Sections'[k] = Sections[k]
      /\ Sections'[L + 1] = s
  BY <1>2, <1>5, <1>6
<1> HIDE DEF L
<1>8. /\ HeadersRead /\ HeadersRead' /\ HeaderOf(n)' = n
      /\ Named(n)' = Named(Len(text)) \cup {l.name}
  BY HeadersNext, AboveNew DEF WriteInv
<1>9. /\ Named(Len(text)) = {m \in Names : sectionMap[m] # Nil} /\ l.name \notin Named(Len(text))
      /\ IsFiniteSet(Named(Len(text))) /\ Cardinality(Named(Len(text))) = L
  BY DEF WriteInv, AllNamed, L
<1>10. p # Nil
  BY <1>p, <1>5 DEF Nil
<1>11. IsFiniteSet(Named(n)') /\ Cardinality(Named(n)') = L + 1
  BY <1>8, <1>9, FS_AddElement
<1>12. AllNamed'
  <2>1. Named(n)' = {m \in Names : sectionMap'[m] # Nil}
    BY <1>2, <1>3, <1>8, <1>9, <1>10
  <2>2. ASSUME NEW k \in 1 .. L + 1
        PROVE  sectionMap'[Sections'[k].name] # Nil /\ sectionMap'[Sections'[k].name].index = k
    <3>1. CASE k = L + 1
      BY <1>p, <1>2, <1>3, <1>7, <1>10, <3>1
    <3>2. CASE k \in 1 .. L
      <4>1. /\ Sections'[k] = Sections[k] /\ sectionMap[Sections[k].name] # Nil
            /\ sectionMap[Sections[k].name].index = k
        BY <1>5, <1>7, <3>2 DEF WriteInv, AllNamed
      <4>2. Sections[k].name \in Names
        <5>1. Sections[k] \in Section
          BY <1>5, <3>2, ElementOfSeq DEF L
        <5> QED BY <5>1 DEF Section
      <4> QED BY <1>3, <4>1, <4>2
    <3> QED BY <1>5, <3>1, <3>2
  <2> QED BY <1>7, <1>11, <2>1, <2>2, NamedNow DEF AllNamed
<1>13. ASSUME NEW m \in Names, sectionMap'[m] # Nil PROVE Written(m)'
  <2>1. CASE m = l.name
    <3>1. FirstIs(m, n)' /\ FirstHeader(m)' = n
      BY <1>9, <2>1, FirstNew
    <3>2. FirstIs(m, FirstHeader(m))'
      BY <3>1 DEF FirstIs, IsHeader
    <3>3. Named(FirstHeader(m))' = Named(n)'
      BY <3>1 DEF Named, IsHeader
    <3>4. text'[n] = l /\ Len(text) \in Nat /\ DOMAIN text' = 1 .. n /\ DOMAIN text = 1 .. Len(text)
      BY DEF Grows
    <3>5. KeptLines(m)' = {}
      <4>1. \A i \in 1 .. n : ~Under(m, i)'
        <5>1. ASSUME NEW i \in 1 .. Len(text), Under(m, i)' PROVE FALSE
          <6>1. Under(m, i)
            BY <1>8, <5>1, HeadersNext
          <6>2. HeaderOf(i) \in 1 .. Len(text) /\ IsHeader(HeaderOf(i))
            BY <1>8, <3>4, <6>1 DEF HeadersRead, Under
          <6>3. m \in Named(Len(text))
            BY <6>1, <6>2 DEF Named, Under
          <6> QED BY <1>9, <2>1, <6>3
        <5>2. ~IsRule(n)'
          BY AboveNew
        <5> QED BY <3>4, <5>1, <5>2 DEF Under
      <4> QED BY <3>4, <4>1 DEF KeptLines, LinesUnder, Under
    <3>6. Sections'[p.index] = s /\ p.index = L + 1
      BY <1>p, <1>7
    <3>7. RulesOf(s.rules, {})
      BY <1>2 DEF RulesOf
    <3>8. SameArray(L + 1, Len(Sections'))
      <4>1. Capacities \subseteq Int
        <5>1. \A k \in 0 .. MaxLines : 2 ^ k \in Int
          BY BoundAssumption
        <5> QED BY <5>1 DEF Capacities
      <4> QED BY <1>5, <1>7, <4>1 DEF SameArray
    <3>9. sectionMap'[m] = p
      BY <1>3, <2>1
    <3>10. RulesOf(Sections'[p.index].rules, KeptLines(m)')
      BY <3>5, <3>6, <3>7
    <3>11. p.array = Len(arrays')
      BY <1>p
    <3>12. p.index \in DOMAIN Sections'
      BY <1>5, <1>7, <3>6
    <3>13. p.index = Cardinality(Named(FirstHeader(m))')
      BY <1>11, <3>3, <3>6
    <3>14. s.name = m /\ AsHeader(s, text'[n])
      BY <1>2, <2>1, <3>4
    <3> QED BY <3>1, <3>2, <3>6, <3>8, <3>9, <3>10, <3>11, <3>12, <3>13, <3>14
            DEF Written, RulesOf, SameArray
  <2>2. CASE m # l.name
    <3>1. sectionMap'[m] = sectionMap[m] /\ sectionMap[m] # Nil
      BY <1>3, <1>13, <2>2
    <3>2. Written(m)
      BY <3>1 DEF WriteInv, AllWritten
    <3>3. /\ sectionMap[m].index \in 1 .. L
          /\ sectionMap[m].array = Len(arrays) <=> SameArray(sectionMap[m].index, L)
      BY <1>5, <3>2 DEF Written, L
    <3>4. sectionMap[m].array \in 1 .. Len(arrays)
      BY <1>0, <3>1, Shown DEF PointersLead, Leads
    <3>5. sectionMap[m].array = Len(arrays') <=> SameArray(sectionMap[m].index, L + 1)
      <4>1. PICK i, a, x, y : /\ i = sectionMap[m].index /\ a = sectionMap[m].array
                              /\ x = Len(arrays) /\ y = Len(arrays')
        OBVIOUS
      <4>2. /\ L \in Nat /\ i \in 1 .. L /\ x \in Nat /\ a \in 1 .. x
            /\ a = x <=> SameArray(i, L)
        BY <1>5, <3>3, <3>4, <4>1
      <4>3. y = (IF Full(L) THEN x + 1 ELSE x)
        BY <1>4, <4>1
      <4>4. a = y <=> SameArray(i, L + 1)
        BY <4>2, <4>3, ArrayStep
      <4> QED BY <4>1, <4>4
    <3>6. ~Under(m, n)'
      BY AboveNew DEF Under
    <3>7. /\ sectionMap[m].index \in DOMAIN Sections'
          /\ Sections'[sectionMap[m].index] = Sections[sectionMap[m].index]
      BY <1>5, <1>7, <3>3
    <3> QED BY <1>7, <1>8, <3>1, <3>2, <3>5, <3>6, <3>7, WrittenSame
  <2> QED BY <2>1, <2>2
<1>14. DefaultsWritten'
  <2>1. ~IsRule(n)'
    BY AboveNew
  <2> QED BY <1>1, <1>8, <2>1, DefaultsSame DEF WriteInv
<1>15. CurrentIsLast'
  <2>1. n # 0 /\ text'[n] = l
    BY DEF Grows
  <2> QED BY <1>1, <1>3, <1>8, <1>10, <2>1, NamedNow DEF CurrentIsLast
<1> QED BY <1>8, <1>12, <1>13, <1>14, <1>15 DEF WriteInv, AllWritten
\* A rule under a header reaches its section unless an array has filled up since
\* the section was opened; then it is written where nobody looks.
LEMMA RuleWritten ==
    ASSUME PointInv, WriteInv, NEW l \in Lines, Grows(l), NEW n, n = Len(text) + 1,
           IsRule(n)', ~IsHeader(n)', current # Nil,
           NEW r \in Rule, r.line = n, Added(current, r),
           UNCHANGED <<defaults, current, sectionMap>>
    PROVE  WriteInv'
<1>0. Shape /\ PointersLead /\ HeadersRead
  BY DEF PointInv, WriteInv
<1>c. PICK c, h : h = HeaderOf(Len(text)) /\ c = text[h].name
  OBVIOUS
<1>p. PICK p : p = current
  OBVIOUS
<1>1. /\ h # 0 /\ current = sectionMap[c] /\ HeaderOf(n)' = h
      /\ HeadersRead' /\ Named(n)' = Named(Len(text))
  BY <1>c, <1>0, HeadersNext, AboveNew DEF WriteInv, CurrentIsLast
<1>2. h \in 1 .. Len(text) /\ IsHeader(h) /\ text'[h] = text[h] /\ Len(text) \in Nat
  BY <1>0, <1>1, <1>c, LineSame DEF HeadersRead, Grows
<1>3. c \in Names
  <2>1. c \in Named(Len(text))
    BY <1>2, <1>c DEF Named
  <2> QED BY <2>1 DEF WriteInv, AllNamed
<1>4. p \in Pointer /\ Leads(p) /\ Added(p, r) /\ sectionMap[c] = p /\ p # Nil
  BY <1>0, <1>1, <1>p DEF Shape, PointersLead
<1>5. Written(c)
  BY <1>3, <1>4 DEF WriteInv, AllWritten
<1>6. /\ arrays' \in Seq(Seq(Section)) /\ Len(arrays') = Len(arrays)
      /\ \A a \in DOMAIN arrays \ {p.array} : arrays'[a] = arrays[a]
      /\ DOMAIN arrays'[p.array] = DOMAIN arrays[p.array]
      /\ \A k \in DOMAIN arrays[p.array] \ {p.index} : arrays'[p.array][k] = arrays[p.array][k]
  BY <1>0, <1>4, Ruled
<1>7. /\ arrays[p.array][p.index] \in Section
      /\ arrays'[p.array][p.index].name = arrays[p.array][p.index].name
      /\ \A x : AsHeader(arrays[p.array][p.index], x) => AsHeader(arrays'[p.array][p.index], x)
      /\ arrays'[p.array][p.index].rules = Append(arrays[p.array][p.index].rules, r)
  BY <1>0, <1>4, Ruled
<1>8. /\ Sections \in Seq(Section) /\ Sections' \in Seq(Section)
      /\ Len(arrays) \in Nat /\ Len(arrays) # 0 /\ DOMAIN arrays = 1 .. Len(arrays)
      /\ Sections = arrays[Len(arrays)] /\ Sections' = arrays'[Len(arrays)]
  <2>1. Sections \in Seq(Section) /\ Len(arrays) \in Nat /\ DOMAIN arrays = 1 .. Len(arrays)
    BY <1>0, Shown
  <2>2. p.array \in 1 .. Len(arrays)
    BY <1>4, <2>1 DEF Leads
  <2>3. Len(arrays) # 0
    BY <2>1, <2>2
  <2>4. Sections = arrays[Len(arrays)]
    BY <1>0, <2>3, Shown
  <2>5. Sections' \in Seq(Section) /\ Sections' = arrays'[Len(arrays)]
    BY <1>6, <2>3, ShownNext
  <2> QED BY <2>1, <2>3, <2>4, <2>5
<1>9. /\ DOMAIN Sections' = DOMAIN Sections
      /\ \A k \in DOMAIN Sections : k # p.index => Sections'[k] = Sections[k]
      /\ \A k \in DOMAIN Sections : Sections'[k].name = Sections[k].name
  <2>1. CASE p.array = Len(arrays)
    BY <1>6, <1>7, <1>8, <2>1, Zenon
  <2>2. CASE p.array # Len(arrays)
    <3>1. Len(arrays) \in DOMAIN arrays \ {p.array}
      BY <1>8, <2>2
    <3>2. Sections' = Sections
      BY <1>6, <1>8, <3>1, Zenon
    <3> QED BY <3>2
  <2> QED BY <2>1, <2>2
<1>10. Len(Sections') = Len(Sections)
  BY <1>8, <1>9
<1>11. AllNamed'
  <2>1. /\ Named(Len(text)) = {m \in Names : sectionMap[m] # Nil}
        /\ IsFiniteSet(Named(Len(text))) /\ Cardinality(Named(Len(text))) = Len(Sections)
        /\ \A k \in DOMAIN Sections :
             sectionMap[Sections[k].name] # Nil /\ sectionMap[Sections[k].name].index = k
    BY DEF WriteInv, AllNamed
  <2>2. Named(Len(text))' = Named(Len(text))
    BY <1>1, NamedNow
  <2> HIDE DEF Sections
  <2> QED BY <1>9, <1>10, <2>1, <2>2 DEF AllNamed
<1>12. ASSUME NEW m \in Names, sectionMap'[m] # Nil PROVE Written(m)'
  <2>1. /\ Written(m) /\ sectionMap'[m] = sectionMap[m]
    BY <1>12 DEF WriteInv, AllWritten
  <2>2. /\ sectionMap[m].index \in DOMAIN Sections
        /\ sectionMap[m].index \in DOMAIN Sections'
        /\ sectionMap[m].array = Len(arrays')
             <=> SameArray(sectionMap[m].index, Len(Sections'))
    BY <1>6, <1>9, <1>10, <2>1 DEF Written
  <2>3. Under(m, n)' <=> c = m
    BY <1>1, <1>2, <1>c DEF Under
  <2>4. Kept(c, n)' <=> p.array = Len(arrays)
    <3>1. FirstIs(c, FirstHeader(c))
      BY <1>5 DEF Written
    <3>2. Named(FirstHeader(c))' = Named(FirstHeader(c))
      BY <1>0, <3>1, FileSays
    <3>3. /\ Cardinality(Named(FirstHeader(c))) = p.index
          /\ p.array = Len(arrays) <=> SameArray(p.index, Len(Sections))
      BY <1>4, <1>5 DEF Written
    <3>4. Cardinality(Named(n)') = Len(Sections)
      BY <1>1 DEF WriteInv, AllNamed
    <3> QED BY <3>2, <3>3, <3>4 DEF Kept, SameArray
  <2>5. CASE m # c
    <3>1. sectionMap[m].index # p.index
      BY <1>4, <1>5, <2>1, <2>5 DEF Written
    <3>2. Sections'[sectionMap[m].index] = Sections[sectionMap[m].index]
      BY <1>9, <2>2, <3>1
    <3> QED BY <1>0, <2>1, <2>2, <2>3, <2>5, <3>2, WrittenSame
  <2>6. CASE m = c /\ p.array # Len(arrays)
    <3>1. Len(arrays) \in DOMAIN arrays \ {p.array}
      BY <1>8, <2>6
    <3>2. Sections' = Sections
      BY <1>6, <1>8, <3>1, Zenon
    <3> QED BY <1>0, <2>1, <2>2, <2>4, <2>6, <3>2, WrittenSame
  <2>7. CASE m = c /\ p.array = Len(arrays)
    <3>1. FirstIs(m, FirstHeader(m)) /\ RulesOf(Sections[p.index].rules, KeptLines(m))
      BY <1>4, <2>1, <2>7 DEF Written
    <3>g. PICK g : g = FirstHeader(m)
      OBVIOUS
    <3>2. /\ FirstIs(m, FirstHeader(m))' /\ FirstHeader(m)' = g /\ text'[g] = text[g]
          /\ Named(FirstHeader(m))' = Named(g) /\ KeptLines(m) \subseteq 1 .. Len(text)
          /\ KeptLines(m)' = KeptLines(m) \cup {n}
      BY <1>0, <2>3, <2>4, <2>7, <3>1, <3>g, FileSays
    <3>3. /\ Sections[p.index] \in Section
          /\ Sections'[p.index].rules = Append(Sections[p.index].rules, r)
          /\ Sections'[p.index].name = Sections[p.index].name
          /\ \A x : AsHeader(Sections[p.index], x) => AsHeader(Sections'[p.index], x)
      BY <1>7, <1>8, <2>7, Zenon
    <3>4. Sections[p.index].rules \in Seq(Rule)
      BY <3>3 DEF Section
    <3>5. \A i \in KeptLines(m) : i < r.line
      BY <1>2, <3>2
    <3>6. RulesOf(Append(Sections[p.index].rules, r), KeptLines(m) \cup {r.line})
      BY <3>1, <3>4, <3>5, OneRuleMore
    <3>7. RulesOf(Sections'[p.index].rules, KeptLines(m)')
      BY <3>2, <3>3, <3>6
    <3>8. /\ p.index = Cardinality(Named(g)) /\ Sections[p.index].name = m
          /\ AsHeader(Sections[p.index], text[g])
      BY <1>4, <2>1, <2>7, <3>g DEF Written
    <3>9. sectionMap[m] = p
      BY <1>4, <2>7
    <3> HIDE DEF Sections
    <3>10. sectionMap'[m] = p
      BY <2>1, <3>9
    <3>11. p.index \in DOMAIN Sections' /\ p.index = Cardinality(Named(FirstHeader(m))')
      BY <2>2, <3>2, <3>8, <3>9
    <3>12. /\ Sections'[p.index].name = m
           /\ AsHeader(Sections'[p.index], text'[g])
      BY <3>2, <3>3, <3>8
    <3>13. p.array = Len(arrays') <=> SameArray(p.index, Len(Sections'))
      BY <2>2, <3>9
    <3> QED BY <3>2, <3>7, <3>10, <3>11, <3>12, <3>13 DEF Written, RulesOf, SameArray
  <2> QED BY <2>5, <2>6, <2>7
<1>13. DefaultsWritten'
  BY <1>0, <1>1, DefaultsSame DEF WriteInv
<1>14. CurrentIsLast'
  BY <1>1, <1>2, <1>4, <1>c, <1>p, NamedNow DEF CurrentIsLast
<1> QED BY <1>1, <1>11, <1>12, <1>13, <1>14 DEF WriteInv, AllWritten
\* The empty file has no sections and no rules.
LEMMA WriteInit == Init => WriteInv
<1> SUFFICES ASSUME Init PROVE WriteInv
  OBVIOUS
<1>1. /\ text = <<>> /\ arrays = <<>> /\ Sections = <<>> /\ defaults = <<>> /\ Len(text) = 0
      /\ \A n \in Names : sectionMap[n] = Nil
  BY DEF Init, Sections
<1>2. Named(0) = {} /\ HeaderOf(0) = 0
  BY DEF Named, HeaderOf
<1>3. HeadersRead /\ CurrentIsLast
  BY <1>1, <1>2 DEF HeadersRead, CurrentIsLast, Init
<1>4. AllNamed
  <2>1. IsFiniteSet({}) /\ Cardinality({}) = 0
    BY FS_EmptySet
  <2>2. Named(Len(text)) = {} /\ Len(Sections) = 0 /\ DOMAIN Sections = {}
    BY <1>1, <1>2
  <2> QED BY <1>1, <2>1, <2>2 DEF AllNamed
<1>5. AllWritten /\ DefaultsWritten
  BY <1>1 DEF AllWritten, DefaultsWritten, RulesOf
<1> QED BY <1>3, <1>4, <1>5 DEF WriteInv

\* The next line is written where the file says: one case per kind of line.
LEMMA WriteNext == PointInv /\ WriteInv /\ [Next]_vars => WriteInv'
<1> SUFFICES ASSUME PointInv, WriteInv, [Next]_vars PROVE WriteInv'
  OBVIOUS
<1>1. CASE UNCHANGED vars
  <2>1. /\ text' = text /\ defaults' = defaults /\ arrays' = arrays
        /\ current' = current /\ sectionMap' = sectionMap /\ Sections' = Sections
    BY <1>1 DEF vars, Sections
  <2>2. HeadersRead'
    BY <2>1 DEF WriteInv, HeadersRead, HeaderOf, IsHeader
  <2>3. CurrentIsLast'
    BY <2>1 DEF WriteInv, CurrentIsLast, HeaderOf, IsHeader
  <2>4. AllNamed'
    BY <2>1 DEF WriteInv, AllNamed, Named, IsHeader
  <2>5. ASSUME NEW m \in Names, Written(m) PROVE Written(m)'
    <3>1. FirstHeader(m)' = FirstHeader(m) /\ FirstIs(m, FirstHeader(m))'
      BY <2>1, <2>5 DEF Written, FirstIs, FirstHeader, IsHeader
    <3>2. KeptLines(m)' = KeptLines(m) /\ Named(FirstHeader(m))' = Named(FirstHeader(m))
      BY <2>1, <3>1 DEF KeptLines, LinesUnder, Kept, HeaderOf, Named, IsRule, IsHeader
    <3> QED BY <2>1, <2>5, <3>1, <3>2 DEF Written, RulesOf, SameArray
  <2>6. AllWritten'
    BY <2>1, <2>5 DEF WriteInv, AllWritten
  <2>7. DefaultsWritten'
    BY <2>1 DEF WriteInv, DefaultsWritten, RulesOf, IsRule, HeaderOf, IsHeader
  <2> QED BY <2>2, <2>3, <2>4, <2>6, <2>7 DEF WriteInv
<1>2. ASSUME NEW l \in Lines, ReadLine(l) PROVE WriteInv'
  <2>n. PICK n : n = Len(text) + 1
    OBVIOUS
  <2>1. Grows(l)
    BY <1>2, OneMore DEF ReadLine, Grows, PointInv, Shape
  <2>2. n \in Nat
    BY <2>1, <2>n DEF Grows
  <2>3. /\ IsHeader(n)' <=> (l.kind = "header" /\ l.name # NoName)
        /\ IsRule(n)' <=> (l.kind = "rule" \/ (l.kind = "header" /\ l.name = NoName))
        /\ IsHeader(n)' => HeaderOf(n)' = n /\ Named(n)' = Named(Len(text)) \cup {l.name}
        /\ ~IsHeader(n)' => HeaderOf(n)' = HeaderOf(Len(text)) /\ Named(n)' = Named(Len(text))
    BY <2>1, <2>n, AboveNew
  <2>4. CASE l.kind = "blank" /\ UNCHANGED <<defaults, arrays, current, sectionMap>>
    <3>1. HeadersRead' /\ AllNamed' /\ AllWritten' /\ DefaultsWritten'
      BY <2>1, <2>3, <2>4, <2>n, NothingWritten
    <3>2. CurrentIsLast'
      <4>1. HeaderOf(Len(text))' = HeaderOf(Len(text))
        BY <2>1, <2>3, <2>4, <2>n, NamedNow
      <4>2. PICK h : h = HeaderOf(Len(text))
        OBVIOUS
      <4>3. h # 0 => text'[h] = text[h]
        <5>1. h = 0 \/ h \in 1 .. Len(text)
          BY <2>1, <4>2 DEF WriteInv, HeadersRead, Grows
        <5> QED BY <2>1, <5>1, LineSame
      <4> QED BY <2>4, <4>1, <4>2, <4>3 DEF WriteInv, CurrentIsLast
    <3> QED BY <3>1, <3>2 DEF WriteInv
  <2>5. ASSUME l.kind = "header", l.name # NoName, OpenSection(l), sectionMap[l.name] # Nil
        PROVE  WriteInv'
    <3>1. /\ current' = sectionMap[l.name] /\ UNCHANGED <<defaults, arrays, sectionMap>>
          /\ l.name \in Names
      BY <2>5, NewSection DEF OpenSection
    <3>2. Named(n)' = Named(Len(text)) /\ ~IsRule(n)' /\ HeaderOf(n)' = n
      BY <2>3, <2>5, <3>1 DEF WriteInv, AllNamed
    <3>3. HeadersRead' /\ AllNamed' /\ AllWritten' /\ DefaultsWritten'
      BY <2>1, <2>n, <3>1, <3>2, NothingWritten
    <3>4. CurrentIsLast'
      <4>1. n # 0 /\ text'[n] = l
        BY <2>1, <2>n DEF Grows
      <4> QED BY <2>1, <2>5, <2>n, <3>1, <3>2, <4>1, NamedNow DEF CurrentIsLast
    <3> QED BY <3>3, <3>4 DEF WriteInv
  <2>6. ASSUME l.kind = "header", l.name # NoName, OpenSection(l), sectionMap[l.name] = Nil
        PROVE  WriteInv'
    BY <2>1, <2>3, <2>6, <2>n, SectionWritten
  <2>7. ASSUME NEW r \in Rule, r.line = n, NEW d \in Rule, d.line = n, AddRule(r, d),
               IsRule(n)', ~IsHeader(n)'
        PROVE  WriteInv'
    <3>1. CASE current = Nil
      <4>1. defaults' = Append(defaults, d) /\ UNCHANGED <<arrays, current, sectionMap>>
        BY <2>7, <3>1 DEF AddRule
      <4> QED BY <2>1, <2>7, <2>n, <3>1, <4>1, DefaultWritten
    <3>2. CASE current # Nil
      <4>1. Added(current, r) /\ UNCHANGED <<defaults, current, sectionMap>>
        BY <2>7, <3>2 DEF AddRule
      <4> QED BY <2>1, <2>7, <2>n, <3>2, <4>1, RuleWritten
    <3> QED BY <3>1, <3>2
  <2>8. ASSUME l.kind = "header", l.name = NoName, AddRule(MisreadHeader(l, n), MisreadDefault(n))
        PROVE  WriteInv'
    BY <2>2, <2>3, <2>7, <2>8, NewRules
  <2>9. ASSUME l.kind = "rule", AddRule(ParsedRule(l, n), ParsedRule(l, n)) PROVE WriteInv'
    BY <2>2, <2>3, <2>7, <2>9, NewRules
  <2> QED BY <1>2, <2>4, <2>5, <2>6, <2>8, <2>9, <2>n DEF ReadLine
<1> QED BY <1>1, <1>2 DEF Next

\* Parse, for every file: default rules are the rules above the first header;
\* every name has one section, in order of first appearance, with the attributes
\* of its first header; and its rules are, in order, the rules written under that
\* name before the array it was opened in filled up.
THEOREM ParserReads == Spec => []ParsedAsWritten
<1>1. Init => PointInv /\ WriteInv
  BY PointInit, WriteInit
<1>2. PointInv /\ WriteInv /\ [Next]_vars => (PointInv /\ WriteInv)'
  BY PointNext, WriteNext
<1>3. PointInv /\ WriteInv => ParsedAsWritten
  <2> SUFFICES ASSUME PointInv, WriteInv PROVE ParsedAsWritten
    OBVIOUS
  <2>1. Sections \in Seq(Section)
    BY Shown DEF PointInv
  <2>2. \A k \in DOMAIN Sections : Sections[k].name \in Names
    <3>1. \A k \in DOMAIN Sections : Sections[k] \in Section
      BY <2>1
    <3> QED BY <3>1 DEF Section
  <2>3. /\ Named(Len(text)) = {n \in Names : sectionMap[n] # Nil}
        /\ \A k \in DOMAIN Sections :
             sectionMap[Sections[k].name] # Nil /\ sectionMap[Sections[k].name].index = k
    BY DEF WriteInv, AllNamed
  <2>4. \A n \in Names : sectionMap[n] # Nil => Written(n)
    BY DEF WriteInv, AllWritten
  <2> HIDE DEF Sections
  <2>5. \A n \in Names : sectionMap[n] # Nil =>
          sectionMap[n].index \in DOMAIN Sections /\ Sections[sectionMap[n].index].name = n
    BY <2>4 DEF Written
  <2>6. {Sections[k].name : k \in DOMAIN Sections} = Named(Len(text))
    BY <2>2, <2>3, <2>5
  <2>7. ASSUME NEW k \in DOMAIN Sections
        PROVE  LET n == Sections[k].name
               IN  /\ k = Cardinality(Named(FirstHeader(n)))
                   /\ AsHeader(Sections[k], text[FirstHeader(n)])
                   /\ RulesOf(Sections[k].rules, {i \in LinesUnder(n) : Kept(n, i)})
    <3>1. Written(Sections[k].name) /\ sectionMap[Sections[k].name].index = k
      BY <2>2, <2>3, <2>4
    <3> QED BY <3>1 DEF Written, KeptLines
  <2> QED BY <2>6, <2>7 DEF ParsedAsWritten, WriteInv, DefaultsWritten
<1> QED BY <1>1, <1>2, <1>3, PTL DEF Spec
=============================================================================
