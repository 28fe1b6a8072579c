--------------------------- MODULE CodeownersFile ---------------------------
(***************************************************************************)
(* Parser.Parse of internal/conformity/helper/codeowners: a CODEOWNERS     *)
(* file is read line by line into default rules and sections.              *)
(*                                                                         *)
(* The parser keeps pointers into the slice of sections it is appending    *)
(* to, so the model keeps Go's arrays: when append finds the array full it *)
(* copies it into one twice as large, and pointers taken before go on      *)
(* pointing into the old one.                                              *)
(*                                                                         *)
(* A line is a record of what the regular expressions make of it; owners   *)
(* that parseOwner rejects are only remembered as "malformed".  Every      *)
(* reachable state is the result of Parse for the file read so far.        *)
(***************************************************************************)
EXTENDS Integers, Sequences, FiniteSets, SequencesExt

CONSTANTS
    Names,       \* section names, after ToLower
    NoName,      \* the name of a header without one, "[]"
    Unmatchable, \* what "[]" means as a pattern
    Lines,       \* the lines a file may consist of
    MaxLines     \* bound

ASSUME NameAssumption == NoName \notin Names
ASSUME BoundAssumption == MaxLines \in Nat
ASSUME LineAssumption ==
    \A l \in Lines :
      /\ l.kind \in {"blank", "header", "rule"}
      /\ l.kind # "blank" => l.owners \in Seq(Range(l.owners))
      /\ l.kind = "header" => l.name \in Names \cup {NoName} /\ l.count \in Int
      /\ l.kind = "rule" => l.exclusion \in BOOLEAN

VARIABLES
    text,         \* the lines read
    defaults,     \* codeowners.DefaultRules
    arrays,       \* every array append has made, the slice's own last
    current,      \* currentSection: an array and an index in it
    sectionMap    \* sectionMap: a pointer for every name met

vars == <<text, defaults, arrays, current, sectionMap>>

Nil == [array |-> 0, index |-> 0]

\* codeowners.Sections: what the slice shows.
Sections == IF arrays = <<>> THEN <<>> ELSE Last(arrays)

-----------------------------------------------------------------------------
(* parseRule and parseSection.                                             *)

\* Valid owners are kept even when others are malformed.
ParsedRule(l, n) == [pattern |-> l.pattern, exclusion |-> l.exclusion,
                     owners |-> l.owners, malformed |-> l.malformed, line |-> n]

\* A header that parseSection rejects is taken for a rule.
MisreadHeader(l, n) == [pattern |-> Unmatchable, exclusion |-> FALSE,
                        owners |-> l.owners, malformed |-> l.malformed, line |-> n]

\* Before the first section such a rule gets no owners at all.
MisreadDefault(n) == [pattern |-> Unmatchable, exclusion |-> FALSE,
                      owners |-> <<>>, malformed |-> TRUE, line |-> n]

AnyCount(c) == c
\* A count below 1, or none, means 1.
Required(c) == IF c < 1 THEN 1 ELSE c

\* One malformed default owner drops them all.
ParsedSection(l) == [name |-> l.name, optional |-> l.optional,
                     required |-> Required(l.count),
                     owners |-> IF l.malformed THEN <<>> ELSE l.owners,
                     rules |-> <<>>]

-----------------------------------------------------------------------------
(* Go's slices.                                                            *)

\* append doubles a full array, starting from one for a single section.  (A
\* Section has 112 bytes, a size the allocator does not round up until the 17th
\* section.)
Capacities == {2 ^ k : k \in 0 .. MaxLines}
Full(n) == n \in {0} \cup Capacities

Grown(s) ==
    IF Full(Len(Sections)) THEN Append(arrays, Append(Sections, s))
    ELSE [arrays EXCEPT ![Len(arrays)] = Append(@, s)]

RulesInFront(rules, r) == <<r>> \o rules
\* currentSection.Rules = append(currentSection.Rules, *rule)
RulesWith(rules, r) == Append(rules, r)

\* *p with the rule added, in whichever array p points into.
Added(p, r) ==
    LET section == arrays[p.array][p.index]
    IN  arrays' = [arrays EXCEPT ![p.array][p.index] =
                     [section EXCEPT !.rules = RulesWith(section.rules, r)]]

AddRule(r, whenDefault) ==
    /\ IF current = Nil
       THEN defaults' = Append(defaults, whenDefault) /\ UNCHANGED arrays
       ELSE Added(current, r) /\ UNCHANGED defaults
    /\ UNCHANGED <<current, sectionMap>>

\* sectionMap remembers a section under its name.
OpenSection(l) ==
    /\ IF sectionMap[l.name] # Nil
       THEN current' = sectionMap[l.name] /\ UNCHANGED <<arrays, sectionMap>>
       ELSE /\ arrays' = Grown(ParsedSection(l))
            /\ current' = [array |-> Len(arrays'), index |-> Len(Sections) + 1]
            /\ sectionMap' = [sectionMap EXCEPT ![l.name] = current']
    /\ UNCHANGED defaults

-----------------------------------------------------------------------------

\* One turn of the loop over the scanner's lines.
ReadLine(l) ==
    LET n == Len(text) + 1
    IN  /\ Len(text) < MaxLines
        /\ text' = Append(text, l)
        /\ \/ l.kind = "blank" /\ UNCHANGED <<defaults, arrays, current, sectionMap>>
           \/ l.kind = "header" /\ l.name # NoName /\ OpenSection(l)
           \/ /\ l.kind = "header" /\ l.name = NoName
              /\ AddRule(MisreadHeader(l, n), MisreadDefault(n))
           \/ l.kind = "rule" /\ AddRule(ParsedRule(l, n), ParsedRule(l, n))

Init ==
    /\ text = <<>> /\ defaults = <<>> /\ arrays = <<>>
    /\ current = Nil
    /\ sectionMap = [n \in Names |-> Nil]

Next == \E l \in Lines : ReadLine(l)

Spec == Init /\ [][Next]_vars

-----------------------------------------------------------------------------
(* What the file says, read without pointers.                              *)

IsHeader(i) == text[i].kind = "header" /\ text[i].name # NoName
IsRule(i) == text[i].kind = "rule" \/ (text[i].kind = "header" /\ ~IsHeader(i))

\* The header line i stands under; 0 before the first.
HeaderOf(i) ==
    LET before == {h \in 1 .. i : IsHeader(h)}
    IN  IF before = {} THEN 0 ELSE Max(before)

\* The header that opened section n first.
FirstHeader(n) == Min({h \in DOMAIN text : IsHeader(h) /\ text[h].name = n})

Named(upTo) == {text[h].name : h \in {k \in 1 .. upTo : IsHeader(k)}}

\* The lines of the rules written under a name.
LinesUnder(n) ==
    {i \in DOMAIN text : IsRule(i) /\ HeaderOf(i) # 0 /\ text[HeaderOf(i)].name = n}

\* A rule reaches its section if no array has filled up since the section was
\* opened: sections 1, 2, 3-4, 5-8, ... share an array.
SameArray(first, later) == \A c \in Capacities : ~(first <= c /\ c < later)
Kept(n, i) == SameArray(Cardinality(Named(FirstHeader(n))), Cardinality(Named(i)))

\* The rules are those of these lines, in the order of the file.
RulesOf(rules, lines) ==
    /\ {rules[k].line : k \in DOMAIN rules} = lines
    /\ \A k, m \in DOMAIN rules : k < m => rules[k].line < rules[m].line

TypeOK ==
    /\ text \in Seq(Lines) /\ Len(text) <= MaxLines
    /\ \A k \in DOMAIN defaults : defaults[k].line \in DOMAIN text
    /\ \A n \in Names \cup {NoName} :
         LET p == IF n \in Names THEN sectionMap[n] ELSE current
         IN  p # Nil => p.array \in DOMAIN arrays /\ p.index \in DOMAIN arrays[p.array]
    /\ \A k \in DOMAIN Sections : Sections[k].required \in Nat \ {0}

\* A section with the attributes a header gives it: at least one approval is
\* required, and one malformed owner leaves the section without any.
AsHeader(s, h) ==
    /\ s.optional = h.optional
    /\ s.required = IF h.count < 1 THEN 1 ELSE h.count
    /\ s.owners = IF h.malformed THEN <<>> ELSE h.owners

\* Parse: default rules are the rules above the first header; every name has
\* one section, in order of first appearance, as its first header has it; and its
\* rules are, in order, the rules written under that name before the array it was
\* opened in filled up - all of them, unless the section is opened again later.
ParsedAsWritten ==
    /\ RulesOf(defaults, {i \in DOMAIN text : IsRule(i) /\ HeaderOf(i) = 0})
    /\ {Sections[k].name : k \in DOMAIN Sections} = Named(Len(text))
    /\ \A k \in DOMAIN Sections :
         LET n == Sections[k].name
         IN  /\ k = Cardinality(Named(FirstHeader(n)))
             /\ AsHeader(Sections[k], text[FirstHeader(n)])
             /\ RulesOf(Sections[k].rules, {i \in LinesUnder(n) : Kept(n, i)})

\* Parse, "Combine with existing section": no rule of a section is lost.  The
\* code does not keep this: see the findings.
NoRuleLost ==
    \A k \in DOMAIN Sections :
      {Sections[k].rules[i].line : i \in DOMAIN Sections[k].rules}
        = LinesUnder(Sections[k].name)
=============================================================================
