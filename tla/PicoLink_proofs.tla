-------------------------- MODULE PicoLink_proofs --------------------------
(***************************************************************************)
(* Proofs about PicoLink: types (TypeInv), the search of the archives      *)
(* (SearchInv), the collection of what the vector table reaches (MarkInv), *)
(* the layout (LayoutInv) and the references (ResolveInv).                 *)
(***************************************************************************)
EXTENDS PicoLink, FiniteSetTheorems, SequenceTheorems, WellFoundedInduction, NaturalsInduction, TLAPS

Pos == Nat \ {0}
Loops == [object : Pos, symbol : Pos, archive : Pos, member : Pos, section : Pos, rel : Pos,
          kind : 1 .. 5, live : Nat, changed : BOOLEAN]
KindNames == {"vectors", "text", "rodata", "data", "bss"}
Sections == [object : Pos, index : Pos, kind : KindNames, live : BOOLEAN, order : Nat \cup {-1},
             vma : Nat, lma : Nat, offset : Int]
Layouts == [flash : Nat, ram : Nat, text_start : Nat, text_end : Nat, data_source : Nat,
            data_start : Nat, data_end : Nat, bss_start : Nat, bss_end : Nat]

\* The object and the header that a section belongs to.
HeaderInv ==
  \A p \in SectionRange : /\ secs[p].object \in DOMAIN objects
                          /\ secs[p].index \in DOMAIN objects[secs[p].object].sections
TypeInv ==
  /\ input \in Inputs /\ objects \in Seq(Files) /\ at \in Loops
  /\ secs \in Seq(Sections) /\ HeaderInv
  /\ layout \in Layouts

-----------------------------------------------------------------------------
(* Facts about sets, files and alignment                                    *)

LEMMA Finite ==
  ASSUME NEW n \in Nat, NEW S \in SUBSET (1 .. n)
  PROVE  IsFiniteSet(S) /\ Cardinality(S) \in Nat
<1>1. IsFiniteSet(1 .. n)
  BY FS_Interval
<1>2. IsFiniteSet(S)
  BY <1>1, FS_Subset
<1> QED
  BY <1>2, FS_CardinalityType

\* Counting the members up to one of them numbers them from 1 on.
LEMMA NthIn ==
  ASSUME NEW n \in Nat, NEW S \in SUBSET (1 .. n), NEW k \in 1 .. Cardinality(S)
  PROVE  Nth(S, k) \in S /\ Cardinality({j \in S : j <= Nth(S, k)}) = k
<1> DEFINE Upto(i) == {j \in S : j <= i}
           count == [i \in S |-> Cardinality(Upto(i))]
           c == Cardinality(S)
<1>1. IsFiniteSet(S) /\ c \in Nat /\ S \subseteq Nat
  <2>1. IsFiniteSet(S) /\ c \in Nat
    BY Finite
  <2>2. S \subseteq Nat
    OBVIOUS
  <2> QED
    BY <2>1, <2>2
<1>2. ASSUME NEW i \in S
      PROVE  /\ Upto(i) \subseteq S /\ i \in Upto(i) /\ IsFiniteSet(Upto(i))
             /\ Cardinality(Upto(i)) \in 1 .. c
  <2>1. Upto(i) \subseteq S /\ i \in Upto(i)
    BY <1>1
  <2>2. IsFiniteSet(Upto(i)) /\ Cardinality(Upto(i)) <= c
    BY <1>1, <2>1, FS_Subset
  <2>3. Cardinality(Upto(i)) \in Nat /\ Cardinality(Upto(i)) # 0
    <3> HIDE DEF Upto
    <3> QED
      BY <2>1, <2>2, FS_CardinalityType, FS_EmptySet
  <2> QED
    BY <1>1, <2>1, <2>2, <2>3
<1>3. ASSUME NEW i \in S, NEW j \in S, i < j
      PROVE  count[i] # count[j]
  <2>0. /\ i \in Nat /\ j \in Nat /\ i < j
        /\ \A x \in S : x \in Nat /\ (x <= i => x <= j)
    <3>1. i \in Nat /\ j \in Nat /\ i < j /\ \A x \in S : x \in Nat
      BY <1>1, <1>3
    <3> QED
      BY <3>1
  <2>1. Upto(i) \subseteq Upto(j) /\ j \notin Upto(i) /\ j \in Upto(j)
    <3>1. Upto(i) \subseteq Upto(j)
      BY <2>0
    <3>2. j \notin Upto(i)
      BY <2>0
    <3>3. j \in Upto(j)
      BY <2>0
    <3> QED
      BY <3>1, <3>2, <3>3
  <2>2. Cardinality(Upto(i)) # Cardinality(Upto(j))
    <3> HIDE DEF Upto
    <3> QED
      BY <1>2, <2>1, FS_Subset
  <2> QED
    BY <2>2
<1>4. \A i, j \in S : count[i] = count[j] => i = j
  <2> HIDE DEF count
  <2> SUFFICES ASSUME NEW i \in S, NEW j \in S, count[i] = count[j], i # j PROVE FALSE
    OBVIOUS
  <2>1. i < j \/ j < i
    BY <1>1
  <2> QED
    BY <2>1, <1>3
<1>5. count \in [S -> 1 .. c]
  <2> HIDE DEF c, Upto
  <2> QED
    BY <1>2
<1>6. count \in Injection(S, 1 .. c)
  <2> HIDE DEF count
  <2> QED
    BY <1>4, <1>5 DEF Injection, IsInjective
<1>7. IsFiniteSet(1 .. c) /\ Cardinality(1 .. c) = c
  <2> HIDE DEF c
  <2> QED
    BY <1>1, FS_Interval
<1>8. count \in Surjection(S, 1 .. c)
  <2> HIDE DEF count
  <2> QED
    BY <1>6, <1>7, FS_Injection
<1>9. \E i \in S : count[i] = k
  BY <1>8 DEF Surjection
<1> QED
  BY <1>9 DEF Nth

LEMMA AlignedUp ==
  ASSUME NEW v \in Nat, NEW a \in Pos
  PROVE  align_up(v, a) \in Nat /\ align_up(v, a) >= v
<1>1. (-v) % a \in 0 .. a - 1
  BY DEF Pos
<1> QED
  BY <1>1 DEF align_up

LEMMA Remainder ==
  ASSUME NEW a \in Pos, NEW k \in Int, NEW r \in 0 .. a - 1
  PROVE  (k * a + r) % a = r
  BY DEF Pos

LEMMA Division ==
  ASSUME NEW a \in Pos, NEW w \in Int
  PROVE  w \div a \in Int /\ w % a \in 0 .. a - 1 /\ w = (w \div a) * a + (w % a)
  BY DEF Pos

\* What align_up returns is a multiple.
LEMMA AlignedMultiple ==
  ASSUME NEW v \in Nat, NEW a \in Pos
  PROVE  align_up(v, a) % a = 0
<1> DEFINE w == -v
           k == w \div a
<1>1. w \in Int /\ a \in Int /\ a > 0
  BY DEF Pos
<1>2. k \in Int /\ w % a \in 0 .. a - 1 /\ w = k * a + (w % a)
  <2> HIDE DEF w
  <2> QED
    BY <1>1, Division
<1>3. v + (w % a) = (-k) * a + 0
  <2>1. v = -w
    OBVIOUS
  <2> HIDE DEF w, k
  <2>2. (-k) * a = -(k * a) /\ k * a \in Int
    BY <1>1, <1>2
  <2> QED
    BY <1>2, <2>1, <2>2
<1>4. 0 \in 0 .. a - 1 /\ -k \in Int
  BY <1>1, <1>2
<1>5. (v + (w % a)) % a = 0
  <2> HIDE DEF w, k
  <2> QED
    BY <1>3, <1>4, Remainder
<1> QED
  BY <1>5 DEF align_up

LEMMA InputFacts ==
  ASSUME input \in Inputs
  PROVE  /\ input.objects \in Seq(Files) /\ input.archives \in Seq(Seq(Files))
         /\ \A i \in DOMAIN input.objects : input.objects[i] \in Files
         /\ \A a \in DOMAIN input.archives :
              /\ input.archives[a] \in Seq(Files)
              /\ \A m \in DOMAIN input.archives[a] : input.archives[a][m] \in Files
         /\ input.gc \in BOOLEAN
  BY LinkAssumption DEF IsInput

LEMMA FileFacts ==
  ASSUME NEW file \in Files
  PROVE  /\ file.sections \in Seq(Headers) /\ Len(file.sections) \in Nat
         /\ DOMAIN file.sections = 1 .. Len(file.sections)
         /\ file.symbols \in Seq(Symbols) /\ Len(file.symbols) \in Nat
         /\ DOMAIN file.symbols = 1 .. Len(file.symbols)
         /\ file.rels \in Seq(Relocations) /\ Len(file.rels) \in Nat
         /\ DOMAIN file.rels = 1 .. Len(file.rels)
<1> HIDE DEF Headers, Symbols, Relocations
<1> QED
  BY DEF Files

\* The rows that collect_input_sections adds.
LEMMA CollectedRows ==
  ASSUME NEW file \in Files, NEW o \in Pos
  PROVE  /\ collect_input_sections(o, file) \in Seq(Sections)
         /\ \A k \in DOMAIN collect_input_sections(o, file) :
              LET s == collect_input_sections(o, file)[k]
              IN  /\ s.object = o /\ s.index \in Collected(file)
                  /\ s.kind = classify_section(file.sections[s.index])
                  /\ s.index \in DOMAIN file.sections
                  /\ ~s.live /\ s.order = -1 /\ s.vma = 0
         /\ \A k, l \in DOMAIN collect_input_sections(o, file) :
              collect_input_sections(o, file)[k].index = collect_input_sections(o, file)[l].index => k = l
<1> DEFINE S == Collected(file)
           n == Cardinality(S)
           rows == collect_input_sections(o, file)
<1>1. S \in SUBSET (1 .. Len(file.sections)) /\ Len(file.sections) \in Nat
  <2> HIDE DEF Files
  <2> QED
    BY FileFacts DEF Collected
<1>2. n \in Nat
  <2> HIDE DEF S
  <2> QED
    BY <1>1, Finite
<1>3. ASSUME NEW k \in 1 .. n PROVE Nth(S, k) \in S /\ Cardinality({j \in S : j <= Nth(S, k)}) = k
  <2> HIDE DEF S
  <2> QED
    BY <1>1, <1>3, NthIn
<1>4. rows = [k \in 1 .. n |-> InputSection(o, Nth(S, k), file.sections[Nth(S, k)])]
  BY DEF collect_input_sections
<1>5. ASSUME NEW k \in 1 .. n
      PROVE  /\ InputSection(o, Nth(S, k), file.sections[Nth(S, k)]) \in Sections
             /\ Nth(S, k) \in DOMAIN file.sections
  <2>1. Nth(S, k) \in DOMAIN file.sections /\ Nth(S, k) \in Pos
    <3>1. Nth(S, k) \in 1 .. Len(file.sections)
      BY <1>1, <1>3
    <3> HIDE DEF S, Files
    <3> QED
      BY <1>1, <3>1, FileFacts DEF Pos
  <2>2. classify_section(file.sections[Nth(S, k)]) \in KindNames
    BY DEF classify_section, KindNames
  <2> HIDE DEF S, Pos, KindNames
  <2> QED
    BY <2>1, <2>2 DEF InputSection, Sections
<1> HIDE DEF S, n, rows
<1>6. rows \in Seq(Sections) /\ DOMAIN rows = 1 .. n
  BY <1>2, <1>4, <1>5
<1>7. ASSUME NEW k \in DOMAIN rows
      PROVE  /\ rows[k].object = o /\ rows[k].index \in S
             /\ rows[k].kind = classify_section(file.sections[rows[k].index])
             /\ rows[k].index \in DOMAIN file.sections
             /\ ~rows[k].live /\ rows[k].order = -1 /\ rows[k].vma = 0
  <2>1. rows[k] = InputSection(o, Nth(S, k), file.sections[Nth(S, k)])
    BY <1>4, <1>6
  <2> QED
    <3>1. Nth(S, k) \in S /\ k \in 1 .. n
      BY <1>3, <1>6
    <3> QED
      BY <1>5, <2>1, <3>1 DEF InputSection
<1>8. ASSUME NEW k \in DOMAIN rows, NEW l \in DOMAIN rows, rows[k].index = rows[l].index PROVE k = l
  <2>1. rows[k].index = Nth(S, k) /\ rows[l].index = Nth(S, l)
    BY <1>4, <1>6 DEF InputSection
  <2>2. k = Cardinality({j \in S : j <= Nth(S, k)}) /\ l = Cardinality({j \in S : j <= Nth(S, l)})
    BY <1>3, <1>6
  <2>3. Nth(S, k) = Nth(S, l)
    BY <1>8, <2>1
  <2> QED
    BY <2>2, <2>3
<1> QED
  BY <1>6, <1>7, <1>8 DEF rows, S

LEMMA ReadEffect ==
  ASSUME TypeInv, NEW file \in Files, Read(file)
  PROVE  /\ objects' \in Seq(Files) /\ secs' \in Seq(Sections) /\ HeaderInv'
         /\ Len(objects') = Len(objects) + 1 /\ objects'[Len(objects) + 1] = file
         /\ \A o \in DOMAIN objects : o \in DOMAIN objects' /\ objects'[o] = objects[o]
         /\ \A p \in SectionRange : p \in SectionRange' /\ secs'[p] = secs[p]
         /\ \A p \in SectionRange' \ SectionRange :
              /\ ~secs'[p].live /\ secs'[p].order = -1 /\ secs'[p].vma = 0
              /\ secs'[p].object = Len(objects) + 1 /\ secs'[p].index \in Collected(file)
              /\ secs'[p].kind = classify_section(file.sections[secs'[p].index])
         /\ \A p, q \in SectionRange' \ SectionRange : secs'[p].index = secs'[q].index => p = q
<1> DEFINE o == Len(objects) + 1
           rows == collect_input_sections(o, file)
<1>1. o \in Pos /\ objects \in Seq(Files) /\ secs \in Seq(Sections)
  BY DEF TypeInv, Pos
<1>2. objects' = Append(objects, file) /\ secs' = secs \o rows
  BY DEF Read
<1>3. /\ rows \in Seq(Sections)
      /\ \A k \in DOMAIN rows : /\ rows[k].object = o /\ rows[k].index \in DOMAIN file.sections
                                /\ ~rows[k].live /\ rows[k].order = -1 /\ rows[k].vma = 0
                                /\ rows[k].index \in Collected(file)
                                /\ rows[k].kind = classify_section(file.sections[rows[k].index])
      /\ \A k, l \in DOMAIN rows : rows[k].index = rows[l].index => k = l
  BY <1>1, CollectedRows
<1> HIDE DEF rows, Files, Sections
<1>4. /\ objects' \in Seq(Files) /\ secs' \in Seq(Sections) /\ Len(objects') = o
      /\ objects'[o] = file /\ o \in DOMAIN objects'
      /\ \A i \in DOMAIN objects : i \in DOMAIN objects' /\ objects'[i] = objects[i]
  BY <1>1, <1>2, <1>3
<1>5. \A p \in SectionRange : p \in SectionRange' /\ secs'[p] = secs[p]
  BY <1>1, <1>2, <1>3 DEF SectionRange
<1>6. ASSUME NEW p \in SectionRange' \ SectionRange
      PROVE  p - Len(secs) \in DOMAIN rows /\ secs'[p] = rows[p - Len(secs)]
  BY <1>1, <1>2, <1>3 DEF SectionRange
<1>7. HeaderInv'
  <2> SUFFICES ASSUME NEW p \in SectionRange'
               PROVE  /\ secs'[p].object \in DOMAIN objects'
                      /\ secs'[p].index \in DOMAIN objects'[secs'[p].object].sections
    BY DEF HeaderInv
  <2>1. CASE p \in SectionRange
    BY <2>1, <1>4, <1>5 DEF TypeInv, HeaderInv
  <2>2. CASE p \notin SectionRange
    BY <2>2, <1>3, <1>4, <1>6
  <2> QED
    BY <2>1, <2>2
<1>8. ASSUME NEW p \in SectionRange' \ SectionRange, NEW q \in SectionRange' \ SectionRange,
             secs'[p].index = secs'[q].index
      PROVE  p = q
  <2>1. p - Len(secs) = q - Len(secs)
    BY <1>3, <1>6, <1>8
  <2> QED
    BY <1>1, <1>4, <2>1 DEF SectionRange
<1> QED
  BY <1>3, <1>4, <1>5, <1>6, <1>7, <1>8

LEMMA ConstFacts ==
  /\ Unit \in Pos /\ AppBase \in Pos /\ RamBase \in Pos /\ StackTop \in Pos /\ WordMod \in Pos
  /\ MaxObjects \in Nat /\ MaxSections \in Nat /\ MaxGlobals \in Nat /\ MaxOutput \in Nat
  BY LinkAssumption DEF Pos

LEMMA HeaderFacts ==
  ASSUME TypeInv, NEW p \in SectionRange
  PROVE  /\ secs[p] \in Sections /\ secs[p].object \in DOMAIN objects
         /\ objects[secs[p].object] \in Files
         /\ Header(p) \in Headers /\ Header(p).size \in Nat /\ Align(p) \in Pos
<1>1. /\ secs[p] \in Sections /\ secs[p].object \in DOMAIN objects
      /\ secs[p].index \in DOMAIN objects[secs[p].object].sections
  BY DEF TypeInv, HeaderInv, SectionRange
<1>2. objects[secs[p].object] \in Files
  <2> HIDE DEF Files
  <2> QED
    BY <1>1 DEF TypeInv
<1>3. Header(p) \in Headers
  <2> HIDE DEF Files, Headers
  <2>1. objects[secs[p].object].sections \in Seq(Headers)
    BY <1>2, FileFacts
  <2> QED
    BY <1>1, <2>1 DEF Header
<1>4. Header(p).size \in Nat /\ Header(p).align \in Nat
  <2> HIDE DEF Header
  <2> QED
    BY <1>3 DEF Headers
<1>5. Align(p) \in Pos
  BY <1>4 DEF Align, Pos
<1> QED
  BY <1>1, <1>2, <1>3, <1>4, <1>5

LEMMA NatMin ==
  ASSUME NEW S \in SUBSET Nat, S # {}
  PROVE  \E i \in S : \A j \in S : i <= j
<1> DEFINE R == {p \in Nat \X Nat : p[1] < p[2]}
<1>1. IsWellFoundedOn(R, Nat)
  BY NatLessThanWellFounded DEF OpToRel
<1>2. \E i \in S : \A j \in S : <<j, i>> \notin R
  <2> HIDE DEF R
  <2> QED
    BY <1>1, WFMin
<1>3. ASSUME NEW i \in S, NEW j \in S, <<j, i>> \notin R PROVE i <= j
  <2>1. <<j, i>> \in Nat \X Nat /\ i \in Nat /\ j \in Nat
    OBVIOUS
  <2>2. ~(j < i)
    BY <1>3, <2>1
  <2> QED
    BY <2>1, <2>2
<1> QED
  BY <1>2, <1>3

LEMMA NextToPlaceIn ==
  ASSUME TypeInv, NEW kind, Waiting(kind) # {}
  PROVE  /\ NextToPlace(kind) \in Waiting(kind) /\ NextToPlace(kind) \in SectionRange
         /\ \A q \in Waiting(kind) :
              IF input.reach THEN secs[NextToPlace(kind)].order <= secs[q].order
              ELSE NextToPlace(kind) <= q
<1> DEFINE W == Waiting(kind)
           orders == {secs[p].order + 1 : p \in W}
<1>1. W \subseteq SectionRange /\ SectionRange \subseteq Nat
  BY DEF Waiting, SectionRange
<1>2. \A p \in W : secs[p].order \in Nat \cup {-1}
  BY <1>1, HeaderFacts DEF Sections
<1>3. \E p \in W : \A q \in W : p <= q
  <2>1. W \in SUBSET Nat /\ W # {}
    BY <1>1
  <2> HIDE DEF W
  <2> QED
    BY <2>1, NatMin
<1>4. \E p \in W : \A q \in W : secs[p].order <= secs[q].order
  <2> HIDE DEF W
  <2>1. orders \in SUBSET Nat /\ orders # {}
    BY <1>2 DEF W
  <2>2. PICK i \in orders : \A j \in orders : i <= j
    <3> HIDE DEF orders
    <3> QED
      BY <2>1, NatMin
  <2>3. PICK p \in W : i = secs[p].order + 1
    BY <2>2
  <2>4. ASSUME NEW q \in W PROVE secs[p].order <= secs[q].order
    <3>1. secs[q].order + 1 \in orders
      OBVIOUS
    <3>2. i <= secs[q].order + 1
      BY <2>2, <3>1
    <3> QED
      BY <1>2, <2>3, <3>2
  <2> QED
    BY <2>4
<1>5. \E p \in W : \A q \in W : IF input.reach THEN secs[p].order <= secs[q].order ELSE p <= q
  <2> HIDE DEF W
  <2> QED
    BY <1>3, <1>4
<1> QED
  BY <1>1, <1>5 DEF NextToPlace

\* What the actions make of the loop variables.
LEMMA LoopSteps ==
  ASSUME at \in Loops, NEW n \in Pos, NEW l \in Nat
  PROVE  /\ [at EXCEPT !.symbol = @ + 1] \in Loops
         /\ [at EXCEPT !.symbol = at.symbol + 1] \in Loops
         /\ [at EXCEPT !.object = @ + 1, !.symbol = 1] \in Loops
         /\ [at EXCEPT !.archive = @ + 1, !.member = 1] \in Loops
         /\ [at EXCEPT !.member = @ + 1] \in Loops
         /\ [at EXCEPT !.member = @ + 1, !.changed = TRUE, !.object = n, !.symbol = 1] \in Loops
         /\ [at EXCEPT !.archive = 1, !.member = 1, !.changed = FALSE] \in Loops
         /\ [at EXCEPT !.live = l, !.changed = FALSE, !.section = 1, !.rel = 1] \in Loops
         /\ [at EXCEPT !.rel = @ + 1] \in Loops
         /\ [at EXCEPT !.rel = @ + 1, !.live = @ + 1, !.changed = TRUE] \in Loops
         /\ [at EXCEPT !.section = @ + 1, !.rel = 1] \in Loops
         /\ [at EXCEPT !.section = 1, !.rel = 1, !.changed = FALSE] \in Loops
         /\ at.kind # 5 => [at EXCEPT !.kind = @ + 1] \in Loops
         /\ [at EXCEPT !.object = 1, !.symbol = 1] \in Loops
         /\ [at EXCEPT !.object = 1, !.rel = 1] \in Loops
         /\ [at EXCEPT !.object = @ + 1, !.rel = 1] \in Loops
<1>0. /\ 1 \in Pos /\ at.object + 1 \in Pos /\ at.symbol + 1 \in Pos /\ at.archive + 1 \in Pos
      /\ at.member + 1 \in Pos /\ at.section + 1 \in Pos /\ at.rel + 1 \in Pos
      /\ at.live + 1 \in Nat
      /\ at.kind # 5 => at.kind + 1 \in 1 .. 5
  BY DEF Loops, Pos
<1> HIDE DEF Pos
<1>1. /\ [at EXCEPT !.symbol = @ + 1] \in Loops
      /\ [at EXCEPT !.symbol = at.symbol + 1] \in Loops
      /\ [at EXCEPT !.object = @ + 1, !.symbol = 1] \in Loops
      /\ [at EXCEPT !.archive = @ + 1, !.member = 1] \in Loops
      /\ [at EXCEPT !.member = @ + 1] \in Loops
  BY <1>0 DEF Loops
<1>2. /\ [at EXCEPT !.member = @ + 1, !.changed = TRUE, !.object = n, !.symbol = 1] \in Loops
      /\ [at EXCEPT !.archive = 1, !.member = 1, !.changed = FALSE] \in Loops
  BY <1>0 DEF Loops
<1>3. /\ [at EXCEPT !.live = l, !.changed = FALSE, !.section = 1, !.rel = 1] \in Loops
      /\ [at EXCEPT !.rel = @ + 1] \in Loops
  BY <1>0 DEF Loops
<1>7. [at EXCEPT !.rel = @ + 1, !.live = @ + 1, !.changed = TRUE] \in Loops
  BY <1>0 DEF Loops
<1>4. /\ [at EXCEPT !.section = @ + 1, !.rel = 1] \in Loops
      /\ [at EXCEPT !.section = 1, !.rel = 1, !.changed = FALSE] \in Loops
  BY <1>0 DEF Loops
<1>5. at.kind # 5 => [at EXCEPT !.kind = @ + 1] \in Loops
  BY <1>0 DEF Loops
<1>6. /\ [at EXCEPT !.object = 1, !.symbol = 1] \in Loops
      /\ [at EXCEPT !.object = 1, !.rel = 1] \in Loops
      /\ [at EXCEPT !.object = @ + 1, !.rel = 1] \in Loops
  BY <1>0 DEF Loops
<1> QED
  BY <1>1, <1>2, <1>3, <1>4, <1>5, <1>6, <1>7

\* Marking changes live and order, and nothing else of a row.
LEMMA MarkEffect ==
  ASSUME TypeInv, NEW marked \in SUBSET SectionRange, secs' = mark_section_live(marked)
  PROVE  /\ secs' \in Seq(Sections) /\ SectionRange' = SectionRange
         /\ \A p \in SectionRange :
              /\ secs'[p].object = secs[p].object /\ secs'[p].index = secs[p].index
              /\ secs'[p].kind = secs[p].kind /\ secs'[p].vma = secs[p].vma
              /\ secs'[p].live <=> secs[p].live \/ p \in marked
              /\ p \notin marked => secs'[p].order = secs[p].order
              /\ p \in marked =>
                   secs'[p].order = at.live + Cardinality({q \in marked : q < p})
<1>1. secs \in Seq(Sections) /\ Len(secs) \in Nat /\ SectionRange = 1 .. Len(secs) /\ at.live \in Nat
  BY DEF TypeInv, SectionRange, Loops
<1>2. ASSUME NEW p \in SectionRange
      PROVE  Cardinality({q \in marked : q < p}) \in Nat
  <2>1. {q \in marked : q < p} \in SUBSET (1 .. Len(secs))
    BY <1>1
  <2> HIDE DEF SectionRange
  <2> QED
    BY <1>1, <2>1, Finite
<1>3. ASSUME NEW p \in SectionRange
      PROVE  /\ secs'[p] \in Sections
             /\ secs'[p].object = secs[p].object /\ secs'[p].index = secs[p].index
             /\ secs'[p].kind = secs[p].kind /\ secs'[p].vma = secs[p].vma
             /\ secs'[p].live <=> secs[p].live \/ p \in marked
             /\ p \notin marked => secs'[p].order = secs[p].order
             /\ p \in marked =>
                  secs'[p].order = at.live + Cardinality({q \in marked : q < p})
  <2> DEFINE n == at.live + Cardinality({q \in marked : q < p})
  <2>1. n \in Nat /\ secs[p] \in Sections
    BY <1>1, <1>2
  <2>2. secs'[p] = IF p \in marked THEN [secs[p] EXCEPT !.live = TRUE, !.order = n] ELSE secs[p]
    BY DEF mark_section_live
  <2> HIDE DEF n
  <2>3. secs'[p] \in Sections
    BY <2>1, <2>2 DEF Sections
  <2>4. /\ secs'[p].object = secs[p].object /\ secs'[p].index = secs[p].index
        /\ secs'[p].kind = secs[p].kind /\ secs'[p].vma = secs[p].vma
        /\ secs'[p].live <=> secs[p].live \/ p \in marked
        /\ p \notin marked => secs'[p].order = secs[p].order
        /\ p \in marked => secs'[p].order = n
    BY <2>1, <2>2 DEF Sections
  <2> QED
    BY <2>3, <2>4 DEF n
<1>4. secs' = [p \in 1 .. Len(secs) |-> secs'[p]]
  BY <1>1 DEF mark_section_live
<1>5. secs' \in Seq(Sections) /\ Len(secs') = Len(secs)
  <2>1. secs' \in [1 .. Len(secs) -> Sections]
    <3> HIDE DEF Sections
    <3> QED
      BY <1>1, <1>3, <1>4
  <2> HIDE DEF Sections
  <2> QED
    BY <1>1, <2>1
<1> QED
  BY <1>1, <1>3, <1>5 DEF SectionRange

\* Placing a section changes its addresses, and nothing else of a row.
PlacedRows(p, v, l, o) == [secs EXCEPT ![p].vma = v, ![p].lma = l, ![p].offset = o]
LEMMA PlaceEffect ==
  ASSUME TypeInv, NEW x \in SectionRange, NEW v \in Nat, NEW l \in Nat, NEW o \in Int,
         secs' = PlacedRows(x, v, l, o)
  PROVE  /\ secs' \in Seq(Sections) /\ SectionRange' = SectionRange
         /\ secs'[x].vma = v /\ secs'[x].lma = l /\ secs'[x].offset = o
         /\ \A p \in SectionRange :
              /\ secs'[p].object = secs[p].object /\ secs'[p].index = secs[p].index
              /\ secs'[p].kind = secs[p].kind /\ secs'[p].live = secs[p].live
              /\ secs'[p].order = secs[p].order
              /\ p # x => secs'[p] = secs[p]
<1>1. secs \in Seq(Sections) /\ Len(secs) \in Nat /\ SectionRange = 1 .. Len(secs)
      /\ secs[x] \in Sections
  BY DEF TypeInv, SectionRange
<1> DEFINE row == [secs[x] EXCEPT !.vma = v, !.lma = l, !.offset = o]
<1>2. secs' = [secs EXCEPT ![x] = row]
  BY <1>1 DEF PlacedRows, Sections
<1>3. /\ row \in Sections /\ row.vma = v /\ row.lma = l /\ row.offset = o
      /\ row.object = secs[x].object /\ row.index = secs[x].index /\ row.kind = secs[x].kind
      /\ row.live = secs[x].live /\ row.order = secs[x].order
  BY <1>1 DEF Sections
<1> HIDE DEF row, Sections
<1>4. secs' \in Seq(Sections) /\ Len(secs') = Len(secs) /\ secs'[x] = row
  <2>1. secs \in [1 .. Len(secs) -> Sections] /\ x \in 1 .. Len(secs) /\ Len(secs) \in Nat
    BY <1>1
  <2>2. secs' \in [1 .. Len(secs) -> Sections] /\ secs'[x] = row
    BY <1>2, <1>3, <2>1
  <2>3. [secs EXCEPT ![x] = row] \in Seq(Sections) /\ Len([secs EXCEPT ![x] = row]) = Len(secs)
    BY <1>1, <1>3, <2>1, ExceptSeq
  <2> QED
    BY <1>2, <2>2, <2>3
<1>5. \A p \in SectionRange : p # x => secs'[p] = secs[p]
  BY <1>1, <1>2
<1> QED
  BY <1>1, <1>3, <1>4, <1>5 DEF SectionRange

-----------------------------------------------------------------------------
(* Types                                                                    *)

LEMMA AtMember ==
  ASSUME TypeInv, at.archive <= Len(input.archives),
         ~(at.member > Len(input.archives[at.archive]))
  PROVE  /\ at.archive \in DOMAIN input.archives
         /\ at.member \in DOMAIN input.archives[at.archive]
         /\ input.archives[at.archive][at.member] \in Files
<1>1. at.archive \in Pos /\ at.member \in Pos /\ input.archives \in Seq(Seq(Files))
  BY InputFacts DEF TypeInv, Loops
<1> HIDE DEF Files
<1>2. at.archive \in DOMAIN input.archives
  BY <1>1 DEF Pos
<1>3. input.archives[at.archive] \in Seq(Files)
  BY <1>1, <1>2
<1>4. at.member \in DOMAIN input.archives[at.archive]
  BY <1>1, <1>3 DEF Pos
<1> QED
  BY <1>2, <1>3, <1>4

LEMMA TypeInit == Init => TypeInv
<1> SUFFICES ASSUME Init PROVE TypeInv
  OBVIOUS
<1> HIDE DEF Files, Sections
<1>1. objects \in Seq(Files) /\ secs \in Seq(Sections) /\ SectionRange = {}
  BY DEF Init, SectionRange
<1>2. at \in Loops
  BY DEF Init, Loops, Pos
<1>3. layout \in Layouts
  BY ConstFacts DEF Init, Layouts, Pos
<1> QED
  BY <1>1, <1>2, <1>3 DEF Init, TypeInv, HeaderInv

\* The place of a section to be laid out and the cursor behind it.
LEMMA PlaceFacts ==
  ASSUME TypeInv, NEW kind, Waiting(kind) # {}, NEW v \in Nat
  PROVE  LET p == NextToPlace(kind)
             start == align_up(v, Align(p))
         IN  /\ p \in SectionRange /\ start \in Nat /\ start >= v
             /\ start - AppBase \in Int /\ start + Header(p).size \in Nat
<1>1. NextToPlace(kind) \in SectionRange
  BY NextToPlaceIn
<1>2. /\ align_up(v, Align(NextToPlace(kind))) \in Nat
      /\ align_up(v, Align(NextToPlace(kind))) >= v
      /\ Header(NextToPlace(kind)).size \in Nat
  BY <1>1, HeaderFacts, AlignedUp
<1> QED
  BY <1>1, <1>2, ConstFacts DEF Pos

LEMMA TargetRange ==
  ASSUME NEW o, NEW i
  PROVE  symbol_target_section(o, i) \in SectionRange \cup {NoSection, Failed}
<1>1. ASSUME NEW x, NEW n PROVE find_input_section(x, n) \in SectionRange \cup {NoSection}
  BY DEF find_input_section, OneOf, Rows
<1>2. ASSUME NEW x, NEW n PROVE Own(x, n) \in SectionRange \cup {NoSection}
  BY <1>1 DEF Own
<1> QED
  BY <1>2 DEF symbol_target_section

LEMMA NextListedIn ==
  ASSUME TypeInv, Unlisted # {}
  PROVE  /\ NextListed \in Unlisted /\ NextListed \in SectionRange
         /\ \A q \in Unlisted :
              secs[NextListed].vma < secs[q].vma \/ (secs[NextListed].vma = secs[q].vma /\ NextListed <= q)
<1> DEFINE U == Unlisted
           vmas == {secs[p].vma : p \in U}
<1>1. U \subseteq SectionRange /\ SectionRange \subseteq Nat /\ U # {}
  BY DEF Unlisted, SectionRange
<1>2. \A p \in U : secs[p].vma \in Nat
  BY <1>1, HeaderFacts DEF Sections
<1> HIDE DEF U
<1>3. vmas \in SUBSET Nat /\ vmas # {}
  BY <1>1, <1>2
<1>4. PICK v \in vmas : \A w \in vmas : v <= w
  <2> HIDE DEF vmas
  <2> QED
    BY <1>3, NatMin
<1> DEFINE low == {p \in U : secs[p].vma = v}
<1>5. low \in SUBSET Nat /\ low # {}
  BY <1>1, <1>4
<1>6. PICK p \in low : \A q \in low : p <= q
  <2> HIDE DEF low
  <2> QED
    BY <1>5, NatMin
<1>7. ASSUME NEW q \in U
      PROVE  secs[p].vma < secs[q].vma \/ (secs[p].vma = secs[q].vma /\ p <= q)
  <2>1. secs[q].vma \in vmas /\ v <= secs[q].vma /\ v \in Nat /\ secs[q].vma \in Nat
    BY <1>2, <1>3, <1>4
  <2>2. CASE secs[q].vma = v
    BY <1>6, <2>2
  <2>3. CASE secs[q].vma # v
    BY <1>6, <2>1, <2>3
  <2> QED
    BY <2>2, <2>3
<1>8. \E x \in U : \A q \in U :
        secs[x].vma < secs[q].vma \/ (secs[x].vma = secs[q].vma /\ x <= q)
  BY <1>6, <1>7
<1> QED
  <2>1. U = Unlisted
    BY DEF U
  <2>2. \E x \in Unlisted : \A q \in Unlisted :
          secs[x].vma < secs[q].vma \/ (secs[x].vma = secs[q].vma /\ x <= q)
    BY <1>8, <2>1
  <2>3. /\ NextListed \in Unlisted
        /\ \A q \in Unlisted :
             secs[NextListed].vma < secs[q].vma \/ (secs[NextListed].vma = secs[q].vma /\ NextListed <= q)
    BY <2>2, Zenon DEF NextListed
  <2>4. Unlisted \subseteq SectionRange
    BY DEF Unlisted
  <2>5. NextListed \in SectionRange
    BY <2>3, <2>4
  <2> QED
    BY <2>3, <2>5

LEMMA ListEffect ==
  ASSUME TypeInv, NEW x \in SectionRange, secs' = [secs EXCEPT ![x].order = -1]
  PROVE  /\ secs' \in Seq(Sections) /\ SectionRange' = SectionRange
         /\ secs'[x].order = -1
         /\ \A p \in SectionRange :
              /\ secs'[p].object = secs[p].object /\ secs'[p].index = secs[p].index
              /\ secs'[p].kind = secs[p].kind /\ secs'[p].live = secs[p].live
              /\ secs'[p].vma = secs[p].vma /\ secs'[p].lma = secs[p].lma
              /\ secs'[p].offset = secs[p].offset
              /\ p # x => secs'[p] = secs[p]
<1>1. secs \in Seq(Sections) /\ Len(secs) \in Nat /\ SectionRange = 1 .. Len(secs)
      /\ secs[x] \in Sections
  BY DEF TypeInv, SectionRange
<1> DEFINE row == [secs[x] EXCEPT !.order = -1]
<1>2. secs' = [secs EXCEPT ![x] = row]
  BY <1>1 DEF Sections
<1>3. /\ row \in Sections /\ row.vma = secs[x].vma /\ row.lma = secs[x].lma
      /\ row.offset = secs[x].offset
      /\ row.object = secs[x].object /\ row.index = secs[x].index /\ row.kind = secs[x].kind
      /\ row.live = secs[x].live /\ row.order = -1
  BY <1>1 DEF Sections
<1> HIDE DEF row, Sections
<1>4. secs' \in Seq(Sections) /\ Len(secs') = Len(secs)
  BY <1>1, <1>2, <1>3, ExceptSeq
<1>5. secs'[x] = row /\ \A p \in SectionRange : p # x => secs'[p] = secs[p]
  BY <1>1, <1>2
<1> QED
  BY <1>1, <1>3, <1>4, <1>5 DEF SectionRange

LEMMA TypeStep ==
  ASSUME TypeInv, [Next]_vars
  PROVE  TypeInv'
<1>1. /\ input \in Inputs /\ objects \in Seq(Files) /\ at \in Loops
      /\ secs \in Seq(Sections) /\ HeaderInv /\ layout \in Layouts
  BY DEF TypeInv
<1>2. Len(objects) \in Nat /\ Len(objects) + 1 \in Pos /\ 1 \in Pos /\ 0 \in Nat
  BY <1>1 DEF Pos
<1>3. ASSUME UNCHANGED <<objects, secs>> PROVE HeaderInv'
  BY <1>1, <1>3 DEF HeaderInv, SectionRange
<1>4. ASSUME SectionRange' = SectionRange, UNCHANGED objects,
             \A p \in SectionRange : secs'[p].object = secs[p].object /\ secs'[p].index = secs[p].index
      PROVE  HeaderInv'
  BY <1>1, <1>4 DEF HeaderInv
<1>5. CASE Fail
  BY <1>1, <1>3, <1>5 DEF Fail, TypeInv
<1> HIDE DEF Files, Sections, Loops, Layouts, Pos
<1>6. CASE ReadObject
  <2> DEFINE file == input.objects[Len(objects) + 1]
  <2>1. file \in Files
    BY <1>1, <1>6, InputFacts DEF ReadObject
  <2>2. CASE Fail
    BY <2>2, <1>5
  <2>3. CASE Read(file) /\ UNCHANGED <<input, at, layout>>
    BY <1>1, <2>1, <2>3, ReadEffect DEF TypeInv
  <2> QED
    BY <1>6, <2>2, <2>3 DEF ReadObject
<1>7. CASE collect_object_global_symbol_names
  BY <1>1, <1>2, <1>3, <1>5, <1>7, LoopSteps
     DEF collect_object_global_symbol_names, add_global_symbol, TypeInv
<1>8. CASE NextObject \/ ReadDone \/ NamesDone \/ resolve_archives \/ NextSection \/ PassDone
  BY <1>1, <1>2, <1>3, <1>8, LoopSteps
     DEF NextObject, ReadDone, NamesDone, resolve_archives, NextSection, PassDone, TypeInv
<1>9. CASE scan_archive_once
  <2> DEFINE members == input.archives[at.archive]
             file == members[at.member]
  <2>1. CASE at.member > Len(members)
    BY <1>1, <1>2, <1>3, <1>9, <2>1, LoopSteps DEF scan_archive_once, TypeInv
  <2>2. CASE ~(at.member > Len(members)) /\ ~object_buffer_defines_needed(file)
    BY <1>1, <1>2, <1>3, <1>9, <2>2, LoopSteps DEF scan_archive_once, TypeInv
  <2>3. CASE ~(at.member > Len(members)) /\ object_buffer_defines_needed(file) /\ ~Readable(file)
    BY <1>5, <1>9, <2>3 DEF scan_archive_once
  <2>4. CASE ~(at.member > Len(members)) /\ object_buffer_defines_needed(file) /\ Readable(file)
    <3>1. file \in Files
      BY <1>9, <2>4, AtMember DEF scan_archive_once
    <3>2. /\ Read(file) /\ UNCHANGED <<input, layout>>
          /\ at' = [at EXCEPT !.member = @ + 1, !.changed = TRUE,
                              !.object = Len(objects) + 1, !.symbol = 1]
      BY <1>9, <2>4 DEF scan_archive_once
    <3>3. at' \in Loops
      BY <1>1, <1>2, <3>2, LoopSteps
    <3> QED
      BY <1>1, <3>1, <3>2, <3>3, ReadEffect DEF TypeInv
  <2> QED
    BY <2>1, <2>2, <2>3, <2>4
<1>10. CASE mark_roots
  <2> DEFINE roots == {p \in SectionRange : input.gc => secs[p].kind = "vectors"}
  <2>1. Cardinality(roots) \in Nat
    <3>1. roots \in SUBSET (1 .. Len(secs)) /\ Len(secs) \in Nat
      BY <1>1 DEF SectionRange
    <3> HIDE DEF roots
    <3> QED
      BY <3>1, Finite
  <2>2. /\ secs' = mark_section_live(roots) /\ UNCHANGED <<input, objects, layout>>
        /\ at' = [at EXCEPT !.live = Cardinality(roots), !.changed = FALSE, !.section = 1, !.rel = 1]
    BY <1>10 DEF mark_roots
  <2>3. at' \in Loops
    BY <1>1, <1>2, <2>1, <2>2, LoopSteps
  <2> QED
    BY <1>1, <1>4, <2>2, <2>3, MarkEffect DEF TypeInv
<1>11. CASE mark_reachable_sections
  <2> DEFINE target == symbol_target_section(secs[at.section].object,
                         objects[secs[at.section].object].rels[at.rel].symbol)
  <2>1. CASE UNCHANGED secs /\ at' = [at EXCEPT !.rel = @ + 1]
    BY <1>1, <1>2, <1>3, <1>11, <2>1, LoopSteps, ZenonT(20)
       DEF mark_reachable_sections, TypeInv
  <2>2. CASE /\ secs' = mark_section_live({target}) /\ target \notin {NoSection, Failed}
             /\ at' = [at EXCEPT !.rel = @ + 1, !.live = @ + 1, !.changed = TRUE]
    <3>1. at' \in Loops
      BY <1>1, <1>2, <2>2, LoopSteps, ZenonT(20)
    <3>2. UNCHANGED <<input, objects, layout>>
      BY <1>11 DEF mark_reachable_sections
    <3>3. {target} \in SUBSET SectionRange
      BY <2>2, TargetRange
    <3> QED
      BY <1>1, <1>4, <2>2, <3>1, <3>2, <3>3, MarkEffect, ZenonT(20) DEF TypeInv
  <2>3. CASE Fail
    BY <1>5, <2>3
  <2> QED
    BY <1>11, <2>1, <2>2, <2>3 DEF mark_reachable_sections
<1>12. ASSUME NEW kind, Waiting(kind) # {}, NEW v \in Nat, NEW l \in Nat,
              PlaceAt(NextToPlace(kind), v, l), UNCHANGED <<input, at, objects>>, layout' \in Layouts
       PROVE  TypeInv'
  <2> DEFINE p == NextToPlace(kind)
  <2>1. CASE Fail
    BY <1>5, <2>1
  <2>2. CASE secs' = PlacedRows(p, v, l, l - AppBase)
    <3>1. p \in SectionRange /\ l - AppBase \in Int
      BY <1>12, NextToPlaceIn, ConstFacts DEF Pos
    <3> HIDE DEF p
    <3> QED
      BY <1>1, <1>4, <1>12, <2>2, <3>1, PlaceEffect DEF TypeInv
  <2> QED
    BY <1>12, <2>1, <2>2 DEF PlaceAt, PlacedRows
<1>13. CASE layout_flash_sections
  <2> DEFINE kind == Kinds[at.kind]
             p == NextToPlace(kind)
             start == align_up(layout.flash, Align(p))
  <2>1. Waiting(kind) # {} /\ layout.flash \in Nat
    BY <1>1, <1>13 DEF layout_flash_sections, Layouts
  <2>2. start \in Nat /\ start + Header(p).size \in Nat
    BY <2>1, PlaceFacts
  <2>3. layout' \in Layouts
    <3> HIDE DEF p, start
    <3>1. layout' = [layout EXCEPT !.flash = start + Header(p).size] \/ layout' = layout
      BY <1>13 DEF layout_flash_sections, p, start
    <3> QED
      BY <1>1, <2>2, <3>1 DEF Layouts
  <2> QED
    BY <1>12, <1>13, <2>1, <2>2, <2>3 DEF layout_flash_sections
<1>14. CASE layout_data_sections
  <2> DEFINE p == NextToPlace("data")
             ram == align_up(layout.ram, Align(p))
             flash == align_up(layout.flash, Align(p))
  <2>1. Waiting("data") # {} /\ layout.flash \in Nat /\ layout.ram \in Nat
    BY <1>1, <1>14 DEF layout_data_sections, Layouts
  <2>2. /\ ram \in Nat /\ ram + Header(p).size \in Nat
        /\ flash \in Nat /\ flash + Header(p).size \in Nat
    BY <2>1, PlaceFacts
  <2>3. layout' \in Layouts
    <3> HIDE DEF p, ram, flash
    <3>1. \/ layout' = [layout EXCEPT !.ram = ram + Header(p).size, !.flash = flash + Header(p).size]
          \/ layout' = layout
      BY <1>14 DEF layout_data_sections, p, ram, flash
    <3> QED
      BY <1>1, <2>2, <3>1 DEF Layouts
  <2> QED
    BY <1>12, <1>14, <2>1, <2>2, <2>3 DEF layout_data_sections
<1>15. CASE layout_bss_sections
  <2> DEFINE p == NextToPlace("bss")
             ram == align_up(layout.ram, Align(p))
  <2>1. Waiting("bss") # {} /\ layout.ram \in Nat
    BY <1>1, <1>15 DEF layout_bss_sections, Layouts
  <2>2. p \in SectionRange /\ ram \in Nat /\ ram + Header(p).size \in Nat
    BY <2>1, PlaceFacts
  <2>3. /\ layout' = [layout EXCEPT !.ram = ram + Header(p).size]
        /\ secs' = PlacedRows(p, ram, 0, 0)
        /\ UNCHANGED <<input, at, objects>>
    BY <1>15 DEF layout_bss_sections, PlacedRows
  <2> HIDE DEF p, ram
  <2>4. layout' \in Layouts
    BY <1>1, <2>2, <2>3 DEF Layouts
  <2>5. /\ secs' \in Seq(Sections) /\ SectionRange' = SectionRange
        /\ \A q \in SectionRange :
             secs'[q].object = secs[q].object /\ secs'[q].index = secs[q].index
    <3>1. 0 \in Nat /\ 0 \in Int
      OBVIOUS
    <3> QED
      BY <2>2, <2>3, <3>1, PlaceEffect
  <2> QED
    BY <1>1, <1>4, <2>3, <2>4, <2>5 DEF TypeInv
<1>16. CASE layout_sections
  <2> DEFINE kind == Kinds[at.kind]
             flash == align_up(layout.flash, Unit)
             ram == align_up(layout.ram, Unit)
  <2>1. flash \in Nat /\ ram \in Nat /\ layout.ram \in Nat
    BY <1>1, AlignedUp, ConstFacts DEF Layouts
  <2>2. layout' \in Layouts
    <3> HIDE DEF flash, ram
    <3>1. \/ layout' = layout
          \/ layout' = [layout EXCEPT !.flash = flash, !.text_end = flash, !.ram = ram,
                                      !.data_source = flash, !.data_start = ram]
          \/ layout' = [layout EXCEPT !.data_end = layout.ram, !.ram = ram, !.bss_start = ram]
          \/ layout' = [layout EXCEPT !.bss_end = ram]
      BY <1>16 DEF layout_sections, flash, ram
    <3> QED
      BY <1>1, <2>1, <3>1 DEF Layouts
  <2>3. at' \in Loops
    <3>1. kind # "bss" => at.kind # 5
      BY DEF Kinds
    <3> QED
      BY <1>1, <1>2, <1>16, <3>1, LoopSteps DEF layout_sections
  <2> QED
    BY <1>1, <1>3, <1>16, <2>2, <2>3 DEF layout_sections, TypeInv
<1>17. CASE collect_global_symbols
  BY <1>1, <1>2, <1>3, <1>5, <1>17, LoopSteps
     DEF collect_global_symbols, add_global_symbol, TypeInv
<1>18. CASE apply_relocations
  BY <1>1, <1>2, <1>3, <1>5, <1>18, LoopSteps DEF apply_relocations, TypeInv
<1>19. CASE GlobalsDone \/ NextRelocations \/ RelocationsDone
  BY <1>1, <1>2, <1>3, <1>19, LoopSteps DEF GlobalsDone, NextRelocations, RelocationsDone, TypeInv
<1>20. CASE write_map
  <2>1. CASE Unlisted = {}
    BY <1>1, <1>3, <1>20, <2>1 DEF write_map, TypeInv
  <2>2. CASE Unlisted # {}
    BY <1>1, <1>4, <1>20, <2>2, NextListedIn, ListEffect DEF write_map, TypeInv
  <2> QED
    BY <2>1, <2>2
<1>21. CASE UNCHANGED vars
  BY <1>1, <1>3, <1>21 DEF vars, TypeInv
<1> QED
  BY <1>6, <1>7, <1>8, <1>9, <1>10, <1>11, <1>13, <1>14, <1>15, <1>16, <1>17, <1>18, <1>19,
     <1>20, <1>21 DEF Next

\* Types are kept whatever is linked: of the loop variables, of the rows for
\* sections, each of which belongs to a section of an object, and of the cursors.
THEOREM LinkTypes == Spec => []TypeInv
  BY TypeInit, TypeStep, PTL DEF Spec

-----------------------------------------------------------------------------
(* The search of the archives                                               *)

Searching == {"read", "names", "archives", "mark"}
\* Before the cursor of the names: at object, at symbol.
Passed(o, i) == o < at.object \/ (o = at.object /\ i < at.symbol)
\* The names of the symbols passed are known.
NamedInv ==
  phase \in {"names", "archives", "mark"} =>
    \A o \in DOMAIN objects : \A i \in DOMAIN objects[o].symbols :
      Defines(Symbol(o, i)) /\ (phase = "names" => Passed(o, i))
        => Symbol(o, i).name \in DOMAIN globals
\* In a round that has taken nothing yet, the members passed are of no use.
SearchedInv ==
  \A a \in DOMAIN input.archives : \A m \in DOMAIN input.archives[a] :
    \/ phase = "archives" /\ ~at.changed /\ (a < at.archive \/ (a = at.archive /\ m < at.member))
    \/ phase = "mark"
    => ~object_buffer_defines_needed(input.archives[a][m])
FreshInv ==
  phase \in Searching =>
    \A b \in DOMAIN objects : b > Len(input.objects) => \A a \in 1 .. b - 1 : objects[a] # objects[b]
RoundInv ==
  /\ phase = "read" => /\ at.object = 1 /\ at.symbol = 1
                       /\ Len(objects) <= Len(input.objects)
  /\ phase \in {"read", "names"} /\ ~at.changed => at.archive = 1 /\ at.member = 1
SearchInv == TypeInv /\ NamedInv /\ SearchedInv /\ FreshInv /\ RoundInv

LEMMA SearchInit == Init => SearchInv
<1> SUFFICES ASSUME Init PROVE SearchInv
  OBVIOUS
<1>1. TypeInv
  BY TypeInit
<1>2. Len(input.objects) \in Nat
  BY <1>1, InputFacts DEF TypeInv
<1> QED
  BY <1>1, <1>2 DEF Init, SearchInv, NamedInv, SearchedInv, FreshInv, RoundInv

\* A member that is needed is not among the objects: it defines a name that is
\* not known, and the names of all objects are.
LEMMA MemberIsNew ==
  ASSUME SearchInv, phase = "archives", NEW file \in Files, object_buffer_defines_needed(file),
         NEW a \in DOMAIN objects
  PROVE  objects[a] # file
<1>1. PICK i \in DOMAIN file.symbols :
        Defines(file.symbols[i]) /\ symbol_is_unresolved(file.symbols[i].name)
  BY DEF object_buffer_defines_needed
<1>2. file.symbols[i].name \notin DOMAIN globals
  BY <1>1 DEF symbol_is_unresolved
<1>3. ASSUME objects[a] = file PROVE FALSE
  <2>1. i \in DOMAIN objects[a].symbols /\ Symbol(a, i) = file.symbols[i]
    BY <1>1, <1>3 DEF Symbol
  <2> QED
    BY <1>1, <1>2, <2>1 DEF SearchInv, NamedInv
<1> QED
  BY <1>3

LEMMA SearchStep ==
  ASSUME SearchInv, [Next]_vars
  PROVE  SearchInv'
<1>1. TypeInv /\ TypeInv'
  BY TypeStep DEF SearchInv
<1>2. /\ Len(objects) \in Nat /\ DOMAIN objects = 1 .. Len(objects) /\ objects \in Seq(Files)
      /\ at.object \in Nat /\ at.symbol \in Nat /\ at.archive \in Nat /\ at.member \in Nat
      /\ at.object >= 1 /\ at.symbol >= 1 /\ at \in Loops
  BY <1>1 DEF TypeInv, Loops, Pos
<1>3. /\ Len(input.objects) \in Nat /\ Len(input.archives) \in Nat
      /\ DOMAIN input.archives = 1 .. Len(input.archives)
      /\ \A a \in DOMAIN input.archives :
           /\ DOMAIN input.archives[a] = 1 .. Len(input.archives[a])
           /\ Len(input.archives[a]) \in Nat
  <2> HIDE DEF Files
  <2> QED
    BY <1>1, InputFacts DEF TypeInv
<1>4. \A o \in DOMAIN objects : /\ Len(objects[o].symbols) \in Nat
                               /\ DOMAIN objects[o].symbols = 1 .. Len(objects[o].symbols)
  <2>1. \A o \in DOMAIN objects : objects[o] \in Files
    BY <1>2
  <2> QED
    BY <2>1, FileFacts
<1>5. NamedInv /\ SearchedInv /\ FreshInv /\ RoundInv
  BY DEF SearchInv
<1> HIDE DEF TypeInv, Files, Loops
\* Nothing is left to show once the search is over.
<1>6. CASE phase' \notin Searching
  BY <1>1, <1>6 DEF SearchInv, NamedInv, SearchedInv, FreshInv, RoundInv, Searching
\* Steps that only move on.
<1>7. ASSUME UNCHANGED <<input, objects>>, phase \in Searching PROVE FreshInv'
  BY <1>5, <1>7 DEF FreshInv
<1>8. ASSUME UNCHANGED <<objects, globals>>, NEW file
      PROVE  object_buffer_defines_needed(file)' <=> object_buffer_defines_needed(file)
  BY <1>8 DEF object_buffer_defines_needed, symbol_is_unresolved, Symbol
<1>9. CASE ReadObject
  <2> DEFINE file == input.objects[Len(objects) + 1]
  <2>1. CASE Fail
    BY <1>6, <2>1 DEF Fail, Searching
  <2>2. CASE Read(file) /\ UNCHANGED <<phase, at>>
    <3>1. /\ phase = "read" /\ phase' = "read" /\ UNCHANGED <<input, at>>
          /\ Len(objects) < Len(input.objects)
      BY <1>9, <2>2 DEF ReadObject
    <3>2. Len(objects') = Len(objects) + 1 /\ DOMAIN objects' = 1 .. Len(objects')
      BY <1>1, <1>2, <2>2 DEF Read
    <3>3. FreshInv'
      BY <1>2, <1>3, <3>1, <3>2 DEF FreshInv
    <3>4. NamedInv' /\ SearchedInv'
      BY <3>1 DEF NamedInv, SearchedInv
    <3>5. RoundInv'
      BY <1>2, <1>3, <1>5, <3>1, <3>2 DEF RoundInv
    <3> QED
      BY <1>1, <3>3, <3>4, <3>5 DEF SearchInv
  <2> QED
    BY <1>9, <2>1, <2>2 DEF ReadObject
<1>10. CASE ReadDone
  <2>1. /\ phase = "read" /\ phase' = "names"
        /\ UNCHANGED <<input, at, objects, globals>>
    BY <1>10 DEF ReadDone
  <2>2. NamedInv'
    <3>1. \A o \in DOMAIN objects : \A i \in DOMAIN objects[o].symbols : ~Passed(o, i)
      BY <1>2, <1>4, <1>5, <2>1 DEF Passed, RoundInv
    <3> QED
      BY <2>1, <3>1 DEF NamedInv, Passed
  <2>3. SearchedInv' /\ RoundInv'
    BY <1>5, <2>1 DEF SearchedInv, RoundInv
  <2>4. FreshInv'
    BY <1>7, <2>1 DEF Searching
  <2> QED
    BY <1>1, <2>2, <2>3, <2>4 DEF SearchInv
<1>11. CASE collect_object_global_symbol_names
  <2> DEFINE sym == Symbol(at.object, at.symbol)
  <2>1. CASE Fail
    BY <1>6, <2>1 DEF Fail, Searching
  <2>2. CASE ~Fail
    <3>1. /\ phase = "names" /\ phase' = "names" /\ UNCHANGED <<input, objects>>
          /\ at' = [at EXCEPT !.symbol = at.symbol + 1]
          /\ DOMAIN globals \subseteq DOMAIN globals'
          /\ Defines(sym) => sym.name \in DOMAIN globals'
      BY <1>11, <2>2 DEF collect_object_global_symbol_names, add_global_symbol, Replaces
    <3>2. /\ at'.object = at.object /\ at'.symbol = at.symbol + 1 /\ at'.changed = at.changed
          /\ at'.archive = at.archive /\ at'.member = at.member
      BY <1>2, <3>1 DEF Loops
    <3>3. NamedInv'
      <4> SUFFICES ASSUME NEW o \in DOMAIN objects, NEW i \in DOMAIN objects[o].symbols,
                          Defines(Symbol(o, i)), Passed(o, i)'
                   PROVE  Symbol(o, i).name \in DOMAIN globals'
        BY <3>1 DEF NamedInv, Symbol
      <4>1. i \in Nat /\ o \in Nat
        BY <1>2, <1>4
      <4>2. Passed(o, i) \/ (o = at.object /\ i = at.symbol)
        BY <1>2, <3>2, <4>1 DEF Passed
      <4> QED
        BY <1>5, <3>1, <4>2 DEF NamedInv
    <3>4. SearchedInv' /\ RoundInv'
      BY <1>5, <3>1, <3>2 DEF SearchedInv, RoundInv
    <3>5. FreshInv'
      BY <1>7, <3>1 DEF Searching
    <3> QED
      BY <1>1, <3>3, <3>4, <3>5 DEF SearchInv
  <2> QED
    BY <2>1, <2>2
<1>12. CASE NextObject
  <2>1. CASE phase = "globals"
    BY <1>6, <1>12, <2>1 DEF NextObject, Searching
  <2>2. CASE phase = "names"
    <3>1. /\ phase' = "names" /\ UNCHANGED <<input, objects, globals>>
          /\ at' = [at EXCEPT !.object = at.object + 1, !.symbol = 1]
          /\ at.object <= Len(objects) /\ at.symbol > Len(objects[at.object].symbols)
      BY <1>12, <2>2 DEF NextObject
    <3>2. /\ at'.object = at.object + 1 /\ at'.symbol = 1 /\ at'.changed = at.changed
          /\ at'.archive = at.archive /\ at'.member = at.member
      BY <1>2, <3>1 DEF Loops
    <3>3. NamedInv'
      <4> SUFFICES ASSUME NEW o \in DOMAIN objects, NEW i \in DOMAIN objects[o].symbols,
                          Defines(Symbol(o, i)), Passed(o, i)'
                   PROVE  Symbol(o, i).name \in DOMAIN globals
        BY <3>1 DEF NamedInv, Symbol
      <4>1. i \in Nat /\ o \in Nat /\ i >= 1 /\ i <= Len(objects[o].symbols)
            /\ Len(objects[o].symbols) \in Nat
        BY <1>2, <1>4
      <4>2. o < at.object \/ o = at.object
        BY <1>2, <3>2, <4>1 DEF Passed
      <4>3. Passed(o, i)
        BY <1>2, <3>1, <4>1, <4>2 DEF Passed
      <4> QED
        BY <1>5, <2>2, <4>3 DEF NamedInv
    <3>4. SearchedInv' /\ RoundInv'
      BY <1>5, <2>2, <3>1, <3>2 DEF SearchedInv, RoundInv
    <3>5. FreshInv'
      BY <1>7, <2>2, <3>1 DEF Searching
    <3> QED
      BY <1>1, <3>3, <3>4, <3>5 DEF SearchInv
  <2> QED
    BY <1>12, <2>1, <2>2 DEF NextObject
<1>13. CASE NamesDone
  <2>1. /\ phase = "names" /\ phase' = "archives" /\ at.object > Len(objects)
        /\ UNCHANGED <<input, at, objects, globals>>
    BY <1>13 DEF NamesDone
  <2>2. NamedInv'
    <3>1. \A o \in DOMAIN objects : \A i : Passed(o, i)
      BY <1>2, <2>1 DEF Passed
    <3> QED
      BY <1>5, <2>1, <3>1 DEF NamedInv, Symbol
  <2>3. SearchedInv'
    BY <1>3, <1>5, <2>1 DEF SearchedInv, RoundInv
  <2>4. FreshInv' /\ RoundInv'
    BY <1>7, <2>1 DEF Searching, RoundInv
  <2> QED
    BY <1>1, <2>2, <2>3, <2>4 DEF SearchInv
<1>14. CASE scan_archive_once
  <2> DEFINE members == input.archives[at.archive]
             file == members[at.member]
  <2>1. phase = "archives" /\ at.archive <= Len(input.archives)
    BY <1>14 DEF scan_archive_once
  <2>2. CASE at.member > Len(members)
    <3>1. /\ at' = [at EXCEPT !.archive = at.archive + 1, !.member = 1]
          /\ UNCHANGED <<input, phase, objects, globals>>
      BY <1>14, <2>2 DEF scan_archive_once
    <3>2. at'.archive = at.archive + 1 /\ at'.member = 1 /\ at'.changed = at.changed
      BY <1>2, <3>1 DEF Loops
    <3>3. SearchedInv'
      <4> SUFFICES ASSUME NEW a \in DOMAIN input.archives, NEW m \in DOMAIN input.archives[a],
                          ~at.changed, a < at'.archive \/ (a = at'.archive /\ m < at'.member)
                   PROVE  ~object_buffer_defines_needed(input.archives[a][m])
        BY <1>8, <2>1, <3>1, <3>2 DEF SearchedInv
      <4>1. a < at.archive \/ (a = at.archive /\ m < at.member)
        BY <1>2, <1>3, <2>2, <3>2
      <4> QED
        BY <1>5, <2>1, <4>1 DEF SearchedInv
    <3>4. NamedInv' /\ RoundInv'
      BY <1>5, <2>1, <3>1 DEF NamedInv, RoundInv, Symbol
    <3>5. FreshInv'
      BY <1>7, <2>1, <3>1 DEF Searching
    <3> QED
      BY <1>1, <3>3, <3>4, <3>5 DEF SearchInv
  <2>3. CASE ~(at.member > Len(members)) /\ ~object_buffer_defines_needed(file)
    <3>1. /\ at' = [at EXCEPT !.member = at.member + 1]
          /\ UNCHANGED <<input, phase, objects, globals>>
      BY <1>14, <2>3 DEF scan_archive_once
    <3>2. at'.archive = at.archive /\ at'.member = at.member + 1 /\ at'.changed = at.changed
      BY <1>2, <3>1 DEF Loops
    <3>3. SearchedInv'
      <4> SUFFICES ASSUME NEW a \in DOMAIN input.archives, NEW m \in DOMAIN input.archives[a],
                          ~at.changed, a < at'.archive \/ (a = at'.archive /\ m < at'.member)
                   PROVE  ~object_buffer_defines_needed(input.archives[a][m])
        BY <1>8, <2>1, <3>1, <3>2 DEF SearchedInv
      <4>1. \/ a < at.archive \/ (a = at.archive /\ m < at.member)
            \/ a = at.archive /\ m = at.member
        BY <1>2, <1>3, <3>2
      <4> QED
        BY <1>5, <2>1, <2>3, <4>1 DEF SearchedInv
    <3>4. NamedInv' /\ RoundInv'
      BY <1>5, <2>1, <3>1 DEF NamedInv, RoundInv, Symbol
    <3>5. FreshInv'
      BY <1>7, <2>1, <3>1 DEF Searching
    <3> QED
      BY <1>1, <3>3, <3>4, <3>5 DEF SearchInv
  <2>4. CASE ~(at.member > Len(members)) /\ object_buffer_defines_needed(file) /\ ~Readable(file)
    <3>1. Fail
      BY <1>14, <2>4 DEF scan_archive_once
    <3> QED
      BY <1>6, <3>1 DEF Fail, Searching
  <2>5. CASE ~(at.member > Len(members)) /\ object_buffer_defines_needed(file) /\ Readable(file)
    <3>1. /\ Read(file) /\ phase' = "names" /\ UNCHANGED <<input, globals>>
          /\ at' = [at EXCEPT !.member = @ + 1, !.changed = TRUE,
                              !.object = Len(objects) + 1, !.symbol = 1]
      BY <1>14, <2>5 DEF scan_archive_once
    <3>2. at'.changed /\ at'.object = Len(objects) + 1 /\ at'.symbol = 1
      BY <1>2, <3>1 DEF Loops
    <3>3. file \in Files
      BY <1>1, <2>1, <2>5, AtMember
    <3>4. /\ DOMAIN objects' = 1 .. Len(objects) + 1 /\ objects'[Len(objects) + 1] = file
          /\ \A o \in DOMAIN objects : o \in DOMAIN objects' /\ objects'[o] = objects[o]
          /\ objects' \in Seq(Files)
      <4> HIDE DEF file
      <4>1. objects' \in Seq(Files) /\ Len(objects') = Len(objects) + 1
        BY <1>1, <3>1, <3>3, ReadEffect
      <4>2. DOMAIN objects' = 1 .. Len(objects) + 1
        BY <4>1
      <4> QED
        BY <1>1, <3>1, <3>3, <4>1, <4>2, ReadEffect
    <3>5. NamedInv'
      <4> SUFFICES ASSUME NEW o \in DOMAIN objects', NEW i \in DOMAIN objects'[o].symbols,
                          Defines(Symbol(o, i)'), Passed(o, i)'
                   PROVE  Symbol(o, i)'.name \in DOMAIN globals
        BY <3>1 DEF NamedInv
      <4>1. DOMAIN objects'[o].symbols = 1 .. Len(objects'[o].symbols)
            /\ Len(objects'[o].symbols) \in Nat
        <5>1. objects'[o] \in Files
          BY <3>4
        <5> QED
          BY <5>1, FileFacts
      <4>2. o \in DOMAIN objects
        BY <1>2, <3>2, <3>4, <4>1 DEF Passed
      <4>3. Symbol(o, i)' = Symbol(o, i) /\ i \in DOMAIN objects[o].symbols
        BY <3>4, <4>2 DEF Symbol
      <4> QED
        BY <1>5, <2>1, <4>2, <4>3 DEF NamedInv
    <3>6. FreshInv'
      <4> SUFFICES ASSUME NEW b \in DOMAIN objects', b > Len(input.objects), NEW a \in 1 .. b - 1
                   PROVE  objects'[a] # objects'[b]
        BY <3>1 DEF FreshInv
      <4>1. CASE b \in DOMAIN objects
        <5>1. a \in DOMAIN objects
          BY <1>2, <4>1
        <5> QED
          BY <1>5, <2>1, <3>4, <4>1, <5>1 DEF FreshInv, Searching
      <4>2. CASE b = Len(objects) + 1
        <5>1. a \in DOMAIN objects
          BY <1>2, <4>2
        <5>2. objects[a] # file
          BY <2>1, <2>5, <3>3, <5>1, MemberIsNew
        <5> QED
          BY <3>4, <4>2, <5>1, <5>2
      <4> QED
        BY <1>2, <3>4, <4>1, <4>2
    <3>7. SearchedInv' /\ RoundInv'
      BY <3>1, <3>2 DEF SearchedInv, RoundInv
    <3> QED
      BY <1>1, <3>5, <3>6, <3>7 DEF SearchInv
  <2> QED
    BY <2>2, <2>3, <2>4, <2>5
<1>15. CASE resolve_archives
  <2>1. /\ phase = "archives" /\ at.archive > Len(input.archives)
        /\ UNCHANGED <<input, objects, globals>>
    BY <1>15 DEF resolve_archives
  <2>2. CASE at.changed
    <3>1. phase' = "archives" /\ at' = [at EXCEPT !.archive = 1, !.member = 1, !.changed = FALSE]
      BY <1>15, <2>2 DEF resolve_archives
    <3>2. at'.archive = 1 /\ at'.member = 1
      BY <1>2, <3>1 DEF Loops
    <3>3. SearchedInv'
      BY <1>3, <2>1, <3>1, <3>2 DEF SearchedInv
    <3>4. NamedInv' /\ RoundInv'
      BY <1>5, <2>1, <3>1 DEF NamedInv, RoundInv, Symbol
    <3>5. FreshInv'
      BY <1>7, <2>1 DEF Searching
    <3> QED
      BY <1>1, <3>3, <3>4, <3>5 DEF SearchInv
  <2>3. CASE ~at.changed
    <3>1. phase' = "mark" /\ at' = at
      BY <1>15, <2>3 DEF resolve_archives
    <3>2. SearchedInv'
      <4>1. \A a \in DOMAIN input.archives : a < at.archive
        BY <1>2, <1>3, <2>1
      <4> QED
        BY <1>5, <1>8, <2>1, <2>3, <3>1, <4>1 DEF SearchedInv
    <3>3. NamedInv' /\ RoundInv'
      BY <1>5, <2>1, <3>1 DEF NamedInv, RoundInv, Symbol
    <3>4. FreshInv'
      BY <1>7, <2>1 DEF Searching
    <3> QED
      BY <1>1, <3>2, <3>3, <3>4 DEF SearchInv
  <2> QED
    BY <2>2, <2>3
<1>16. CASE mark_roots \/ mark_reachable_sections \/ NextSection \/ PassDone
  BY <1>6, <1>16 DEF mark_roots, mark_reachable_sections, NextSection, PassDone, Fail, Searching
<1>17. CASE layout_flash_sections \/ layout_data_sections \/ layout_bss_sections \/ layout_sections
  BY <1>6, <1>17 DEF layout_flash_sections, layout_data_sections, layout_bss_sections,
                     layout_sections, PlaceAt, Fail, Searching
<1>18. CASE collect_global_symbols \/ GlobalsDone
  BY <1>6, <1>18 DEF collect_global_symbols, add_global_symbol, GlobalsDone, Fail, Searching
<1>19. CASE apply_relocations \/ NextRelocations \/ RelocationsDone \/ write_map
  BY <1>6, <1>19 DEF apply_relocations, NextRelocations, RelocationsDone, write_map, Fail, Searching
<1>20. CASE UNCHANGED vars
  <2>1. UNCHANGED <<input, phase, at, objects, globals>>
    BY <1>20 DEF vars
  <2>2. NamedInv' /\ RoundInv' /\ FreshInv'
    BY <1>5, <2>1 DEF NamedInv, RoundInv, FreshInv, Symbol, Passed
  <2>3. SearchedInv'
    BY <1>5, <1>8, <2>1 DEF SearchedInv
  <2> QED
    BY <1>1, <2>2, <2>3 DEF SearchInv
<1> QED
  BY <1>9, <1>10, <1>11, <1>12, <1>13, <1>14, <1>15, <1>16, <1>17, <1>18, <1>19, <1>20 DEF Next

\* A link that goes on to choose sections has taken from the archives all it
\* can use, and no member twice.
THEOREM AllArchivesSearched == Spec => []ArchivesSearched
<1>1. SearchInv => ArchivesSearched
  <2> SUFFICES ASSUME SearchInv, phase = "mark" PROVE ArchivesSearched
    BY DEF ArchivesSearched
  <2> QED
    BY DEF SearchInv, SearchedInv, FreshInv, ArchivesSearched, Searching
<1> QED
  BY <1>1, SearchInit, SearchStep, PTL DEF Spec

-----------------------------------------------------------------------------
(* What is kept                                                             *)

UnmarkedInv == phase \in Searching => at.live = 0 /\ \A p \in SectionRange : ~secs[p].live
\* The table is kept, and the rest only if it was reached.
ReachedInv ==
  phase \in {"reach", "layout"} /\ input.gc =>
    \A p \in SectionRange :
      /\ secs[p].kind = "vectors" => secs[p].live
      /\ secs[p].live /\ secs[p].kind # "vectors" =>
           \E q \in Kept : secs[q].order < secs[p].order /\ p \in Targets(q)
OrderInv == phase = "reach" => input.gc /\ \A p \in Kept : secs[p].order < at.live
\* In a pass that has marked nothing yet, what the relocations passed refer to is kept.
Looked(p, n) ==
  \A k \in DOMAIN objects[secs[p].object].rels :
    LET r == objects[secs[p].object].rels[k]
    IN  k < n /\ r.section = secs[p].index
          => symbol_target_section(secs[p].object, r.symbol) \in Kept \cup {NoSection}
ClosedInv ==
  /\ phase = "reach" /\ ~at.changed => \A p \in Kept :
       (p < at.section => Targets(p) \subseteq Kept) /\ (p = at.section => Looked(p, at.rel))
  /\ phase = "layout" /\ input.gc => \A p \in Kept : Targets(p) \subseteq Kept
MarkInv == TypeInv /\ UnmarkedInv /\ ReachedInv /\ OrderInv /\ ClosedInv

LEMMA MarkInit == Init => MarkInv
  BY TypeInit DEF Init, MarkInv, UnmarkedInv, ReachedInv, OrderInv, ClosedInv, SectionRange

\* What a symbol stands for does not depend on what is kept, or where.
LEMMA SameTargets ==
  ASSUME UNCHANGED <<objects, globals>>, SectionRange' = SectionRange,
         \A p \in SectionRange : secs'[p].object = secs[p].object /\ secs'[p].index = secs[p].index
  PROVE  /\ \A o, i : symbol_target_section(o, i)' = symbol_target_section(o, i)
         /\ \A p \in SectionRange : Targets(p)' = Targets(p)
<1>1. ASSUME NEW o, NEW i PROVE find_input_section(o, i)' = find_input_section(o, i)
  <2>1. Rows(o, i)' = Rows(o, i)
    BY DEF Rows
  <2> QED
    BY <2>1 DEF find_input_section
<1>2. ASSUME NEW o, NEW i PROVE Own(o, i)' = Own(o, i)
  BY <1>1 DEF Own, Symbol
<1>3. ASSUME NEW o, NEW i
      PROVE  symbol_target_section(o, i)' = symbol_target_section(o, i)
  BY <1>2 DEF symbol_target_section, Symbol, strong_global_replacing_weak
<1>4. ASSUME NEW p \in SectionRange PROVE Targets(p)' = Targets(p)
  <2>1. Rels(p)' = Rels(p) /\ secs'[p].object = secs[p].object
    BY DEF Rels
  <2> QED
    BY <1>3, <2>1 DEF Targets
<1> QED
  BY <1>3, <1>4

\* Once every relocation of a section has been looked at, all its targets are kept.
LEMMA AllLooked ==
  ASSUME TypeInv, NEW p \in SectionRange, NEW n \in Nat,
         n > Len(objects[secs[p].object].rels), Looked(p, n)
  PROVE  Targets(p) \subseteq Kept
<1> DEFINE rels == objects[secs[p].object].rels
<1>1. DOMAIN rels = 1 .. Len(rels) /\ Len(rels) \in Nat
  BY HeaderFacts, FileFacts
<1>2. ASSUME NEW t \in Targets(p) PROVE t \in Kept
  <2>1. PICK k \in DOMAIN rels : /\ rels[k].section = secs[p].index
                                 /\ t = symbol_target_section(secs[p].object, rels[k].symbol)
    BY DEF Targets, Rels
  <2>2. k < n
    BY <1>1
  <2> QED
    BY <2>1, <2>2 DEF Looked, Targets
<1> QED
  BY <1>2

\* The places before p in S are fewer than S has.
LEMMA FewerBefore ==
  ASSUME NEW n \in Nat, NEW S \in SUBSET (1 .. n), NEW p \in S
  PROVE  Cardinality({q \in S : q < p}) < Cardinality(S)
<1> DEFINE T == {q \in S : q < p}
<1>1. p \in Nat /\ ~(p < p)
  OBVIOUS
<1>2. T \subseteq S /\ p \notin T
  BY <1>1
<1>3. IsFiniteSet(S) /\ Cardinality(S) \in Nat
  BY Finite
<1>4. T \in SUBSET (1 .. n)
  BY <1>2
<1>5. Cardinality(T) \in Nat
  <2> HIDE DEF T
  <2> QED
    BY <1>4, Finite
<1>6. Cardinality(T) <= Cardinality(S) /\ Cardinality(T) # Cardinality(S)
  <2> HIDE DEF T
  <2> QED
    BY <1>2, <1>3, FS_Subset
<1> QED
  BY <1>3, <1>5, <1>6

LEMMA MarkStep ==
  ASSUME MarkInv, [Next]_vars
  PROVE  MarkInv'
<1>1. TypeInv /\ TypeInv'
  BY TypeStep DEF MarkInv
<1>2. /\ Len(secs) \in Nat /\ SectionRange = 1 .. Len(secs) /\ SectionRange \subseteq Nat
      /\ at \in Loops /\ at.section \in Nat /\ at.rel \in Nat /\ at.live \in Nat
      /\ at.changed \in BOOLEAN /\ at.section >= 1 /\ at.rel >= 1
      /\ \A p \in SectionRange : secs[p] \in Sections
  BY <1>1, HeaderFacts, SMTT(20) DEF TypeInv, Loops, Pos, SectionRange
<1>3. UnmarkedInv /\ ReachedInv /\ OrderInv /\ ClosedInv
  BY DEF MarkInv
<1>4. \A p \in SectionRange : secs[p].order \in Int
  BY <1>2 DEF Sections
<1> HIDE DEF TypeInv, Files, Sections, Loops
\* Nothing is left to show after the layout.
<1>5. CASE phase' \notin Searching \cup {"reach", "layout"}
  BY <1>1, <1>5 DEF MarkInv, UnmarkedInv, ReachedInv, OrderInv, ClosedInv, Searching
\* Before marking.
<1>6. ASSUME phase \in Searching, phase' \in Searching, at'.live = at.live,
             secs' = secs \/ (\E file \in Files : Read(file))
      PROVE  MarkInv'
  <2>1. \A p \in SectionRange' : ~secs'[p].live
    <3>1. CASE secs' = secs
      BY <1>3, <1>6, <3>1 DEF UnmarkedInv, SectionRange
    <3>2. CASE \E file \in Files : Read(file)
      <4>1. \A p \in SectionRange : p \in SectionRange' /\ secs'[p] = secs[p]
        BY <1>1, <3>2, ReadEffect
      <4>2. \A p \in SectionRange' \ SectionRange : ~secs'[p].live
        BY <1>1, <3>2, ReadEffect
      <4> QED
        BY <1>3, <1>6, <4>1, <4>2 DEF UnmarkedInv
    <3> QED
      BY <1>6, <3>1, <3>2
  <2> QED
    BY <1>1, <1>3, <1>6, <2>1
       DEF MarkInv, UnmarkedInv, ReachedInv, OrderInv, ClosedInv, Searching
<1>7. CASE ReadObject
  <2>1. CASE Fail
    BY <1>5, <2>1 DEF Fail, Searching
  <2>2. CASE Read(input.objects[Len(objects) + 1])
    <3>1. input.objects[Len(objects) + 1] \in Files
      BY <1>1, <1>7, InputFacts DEF ReadObject, TypeInv
    <3>2. phase = "read" /\ (phase' = "read" \/ Fail) /\ at' = at
      BY <1>7 DEF ReadObject, Fail
    <3> QED
      BY <1>6, <2>1, <2>2, <3>1, <3>2 DEF Searching
  <2> QED
    BY <1>7, <2>1, <2>2 DEF ReadObject
<1>8. CASE collect_object_global_symbol_names
  <2>1. CASE phase' = "failed"
    BY <1>5, <2>1 DEF Searching
  <2>2. CASE phase' # "failed"
    <3>1. /\ phase = "names" /\ phase' = phase /\ secs' = secs
          /\ at' = [at EXCEPT !.symbol = at.symbol + 1]
      BY <1>8, <2>2 DEF collect_object_global_symbol_names, add_global_symbol, Fail
    <3>2. at'.live = at.live
      BY <1>2, <3>1 DEF Loops
    <3> QED
      BY <1>6, <3>1, <3>2 DEF Searching
  <2> QED
    BY <2>1, <2>2
<1>9. CASE NextObject
  <2>1. at'.live = at.live /\ secs' = secs /\ phase' = phase /\ phase \in {"names", "globals"}
    BY <1>2, <1>9 DEF NextObject, Loops
  <2> QED
    BY <1>5, <1>6, <2>1 DEF Searching
<1>10. CASE ReadDone \/ NamesDone
  BY <1>6, <1>10 DEF ReadDone, NamesDone, Searching
<1>11. CASE scan_archive_once
  <2> DEFINE members == input.archives[at.archive]
             file == members[at.member]
  <2>1. CASE phase' = "failed"
    BY <1>5, <2>1 DEF Searching
  <2>2. phase = "archives" /\ at.archive <= Len(input.archives)
    BY <1>11 DEF scan_archive_once
  <2>3. CASE secs' = secs /\ phase' = phase /\ at'.live = at.live
    BY <1>6, <2>2, <2>3 DEF Searching
  <2>4. CASE at.member > Len(members)
    <3>1. secs' = secs /\ phase' = phase /\ at' = [at EXCEPT !.archive = @ + 1, !.member = 1]
      BY <1>11, <2>4 DEF scan_archive_once
    <3> QED
      BY <1>2, <2>3, <3>1 DEF Loops
  <2>5. CASE ~(at.member > Len(members)) /\ ~object_buffer_defines_needed(file)
    <3>1. secs' = secs /\ phase' = phase /\ at' = [at EXCEPT !.member = @ + 1]
      BY <1>11, <2>5 DEF scan_archive_once
    <3> QED
      BY <1>2, <2>3, <3>1 DEF Loops
  <2>6. CASE ~(at.member > Len(members)) /\ object_buffer_defines_needed(file) /\ Readable(file)
    <3>1. /\ Read(file) /\ phase' = "names"
          /\ at' = [at EXCEPT !.member = @ + 1, !.changed = TRUE,
                              !.object = Len(objects) + 1, !.symbol = 1]
      BY <1>11, <2>6 DEF scan_archive_once
    <3>2. file \in Files
      BY <1>1, <2>2, <2>6, AtMember
    <3>3. at'.live = at.live
      BY <1>2, <3>1 DEF Loops
    <3> QED
      BY <1>6, <2>2, <3>1, <3>2, <3>3 DEF Searching
  <2>7. CASE ~(at.member > Len(members)) /\ object_buffer_defines_needed(file) /\ ~Readable(file)
    BY <1>11, <2>1, <2>7 DEF scan_archive_once, Fail
  <2> QED
    BY <2>4, <2>5, <2>6, <2>7
<1>12. CASE resolve_archives
  <2>1. /\ phase = "archives" /\ phase' \in {"archives", "mark"} /\ secs' = secs
        /\ at' = at \/ at' = [at EXCEPT !.archive = 1, !.member = 1, !.changed = FALSE]
    BY <1>12 DEF resolve_archives
  <2>2. at'.live = at.live
    BY <1>2, <2>1 DEF Loops
  <2> QED
    BY <1>6, <2>1, <2>2 DEF Searching
<1>13. CASE mark_roots
  <2> DEFINE roots == {p \in SectionRange : input.gc => secs[p].kind = "vectors"}
  <2>1. /\ phase = "mark" /\ secs' = mark_section_live(roots)
        /\ at' = [at EXCEPT !.live = Cardinality(roots), !.changed = FALSE, !.section = 1, !.rel = 1]
        /\ phase' = IF input.gc THEN "reach" ELSE "layout"
        /\ UNCHANGED <<input, objects, globals>>
    BY <1>13 DEF mark_roots
  <2>2. CASE ~input.gc
    BY <1>1, <2>1, <2>2 DEF MarkInv, UnmarkedInv, ReachedInv, OrderInv, ClosedInv, Searching
  <2>3. CASE input.gc
    <3>1. roots \in SUBSET SectionRange /\ \A p \in SectionRange : p \in roots <=> secs[p].kind = "vectors"
      BY <2>3
    <3> HIDE DEF roots
    <3>2. /\ phase' = "reach" /\ at'.live = Cardinality(roots) /\ ~at'.changed
          /\ at'.section = 1 /\ at'.rel = 1 /\ at.live = 0
      BY <1>2, <1>3, <2>1, <2>3 DEF Loops, UnmarkedInv, Searching
    <3>3. /\ SectionRange' = SectionRange
          /\ \A p \in SectionRange :
               /\ secs'[p].kind = secs[p].kind
               /\ secs'[p].live <=> p \in roots
               /\ p \in roots => secs'[p].order = 0 + Cardinality({q \in roots : q < p})
      <4>1. \A p \in SectionRange : ~secs[p].live
        BY <1>3, <2>1 DEF UnmarkedInv, Searching
      <4> QED
        BY <1>1, <2>1, <3>1, <3>2, <4>1, MarkEffect
    <3>4. ReachedInv'
      BY <3>1, <3>2, <3>3 DEF ReachedInv
    <3>5. OrderInv'
      <4> SUFFICES ASSUME NEW p \in SectionRange, p \in roots
                   PROVE  secs'[p].order < Cardinality(roots)
        BY <2>1, <2>3, <3>2, <3>3 DEF OrderInv, Kept
      <4>1. Cardinality({q \in roots : q < p}) < Cardinality(roots)
            /\ Cardinality({q \in roots : q < p}) \in Nat
        <5>1. {q \in roots : q < p} \in SUBSET (1 .. Len(secs)) /\ roots \in SUBSET (1 .. Len(secs))
          BY <1>2, <3>1
        <5> QED
          BY <1>2, <5>1, FewerBefore, Finite
      <4> QED
        BY <3>3, <4>1
    <3>6. ClosedInv'
      <4> SUFFICES ASSUME NEW p \in Kept'
                   PROVE  (p < 1 => Targets(p)' \subseteq Kept') /\ (p = 1 => Looked(p, 1)')
        BY <3>2 DEF ClosedInv
      <4>1. p \in SectionRange /\ ~(p < 1)
        BY <1>2, <3>3 DEF Kept
      <4>2. Looked(p, 1)'
        <5>1. DOMAIN objects'[secs'[p].object].rels = 1 .. Len(objects'[secs'[p].object].rels)
              /\ Len(objects'[secs'[p].object].rels) \in Nat
          <6>1. TypeInv' => objects'[secs'[p].object] \in Files
            <7>1. p \in SectionRange'
              BY <3>3, <4>1
            <7>2. TypeInv' => secs'[p].object \in DOMAIN objects' /\ objects' \in Seq(Files)
              BY <7>1 DEF TypeInv, HeaderInv
            <7> QED
              BY <7>2
          <6> QED
            BY <1>1, <6>1, FileFacts
        <5> QED
          BY <5>1 DEF Looked
      <4> QED
        BY <4>1, <4>2
    <3> QED
      BY <1>1, <3>2, <3>4, <3>5, <3>6 DEF MarkInv, UnmarkedInv, Searching
  <2> QED
    BY <2>2, <2>3
\* Only the loop variables move.
<1>14. ASSUME UNCHANGED <<input, objects, globals, secs>>
       PROVE  /\ SectionRange' = SectionRange /\ Kept' = Kept
              /\ \A p \in SectionRange : Targets(p)' = Targets(p)
              /\ \A o, i : symbol_target_section(o, i)' = symbol_target_section(o, i)
  BY <1>14, SameTargets DEF SectionRange, Kept
<1>a. ASSUME UNCHANGED <<input, objects, globals, secs>>
      PROVE  \A p \in SectionRange : \A n : Looked(p, n)' <=> Looked(p, n)
  BY <1>14, <1>a DEF Looked
<1>15. ASSUME UNCHANGED <<input, objects, globals, secs>>, phase = "reach", phase' \in {"reach", "layout"}
       PROVE  ReachedInv' /\ UnmarkedInv'
  BY <1>3, <1>14, <1>15 DEF ReachedInv, UnmarkedInv, Searching, Kept
<1>16. CASE mark_reachable_sections
  <2> DEFINE x == at.section
             s == secs[x]
             rels == objects[s.object].rels
             target == symbol_target_section(s.object, rels[at.rel].symbol)
  <2>1. /\ phase = "reach" /\ x \in SectionRange /\ s.live /\ at.rel <= Len(rels)
        /\ UNCHANGED <<input, objects, globals>>
    BY <1>16 DEF mark_reachable_sections
  <2>2. at.rel \in DOMAIN rels
    <3>1. DOMAIN rels = 1 .. Len(rels) /\ Len(rels) \in Nat
      BY <1>1, <2>1, HeaderFacts, FileFacts
    <3> HIDE DEF rels
    <3> QED
      BY <1>2, <2>1, <3>1
  <2>3. CASE Fail
    BY <1>5, <2>3 DEF Fail, Searching
  <2>4. CASE /\ rels[at.rel].section # s.index \/ target = NoSection \/ (target > 0 /\ secs[target].live)
             /\ at' = [at EXCEPT !.rel = at.rel + 1] /\ UNCHANGED <<phase, secs>>
    <3>1. /\ at'.section = at.section /\ at'.rel = at.rel + 1 /\ at'.changed = at.changed
          /\ at'.live = at.live
      BY <1>2, <2>4 DEF Loops
    <3>2. OrderInv'
      BY <1>3, <1>14, <2>1, <2>4, <3>1 DEF OrderInv
    <3>3. ClosedInv'
      <4> SUFFICES ASSUME ~at.changed, NEW p \in Kept
                   PROVE  /\ p < at.section => Targets(p) \subseteq Kept
                          /\ p = at.section => Looked(p, at.rel)'
        BY <1>14, <2>1, <2>4, <3>1 DEF ClosedInv, Kept
      <4>1. CASE p = at.section
        <5>1. Looked(p, at.rel)
          BY <1>3, <2>1, <4>1 DEF ClosedInv
        <5>5. Looked(p, at.rel)' <=> Looked(p, at.rel + 1)
          <6>1. p \in SectionRange
            BY DEF Kept
          <6> QED
            BY <1>a, <2>1, <2>4, <3>1, <6>1
        <5> SUFFICES Looked(p, at.rel + 1)
          BY <1>2, <4>1, <5>5
        <5> SUFFICES ASSUME NEW k \in DOMAIN rels, k < at.rel + 1, rels[k].section = s.index
                     PROVE  symbol_target_section(s.object, rels[k].symbol) \in Kept \cup {NoSection}
          BY <4>1 DEF Looked
        <5>2. k < at.rel \/ k = at.rel
          <6>1. k \in Nat
            <7>1. DOMAIN rels = 1 .. Len(rels)
              BY <1>1, <2>1, HeaderFacts, FileFacts
            <7> QED
              BY <7>1
          <6> HIDE DEF rels, s
          <6> QED
            BY <1>2, <6>1
        <5>3. CASE k < at.rel
          BY <4>1, <5>1, <5>3 DEF Looked
        <5>4. CASE k = at.rel
          <6>1. target \in SectionRange \cup {NoSection, Failed}
            BY TargetRange
          <6>2. target = NoSection \/ (target > 0 /\ secs[target].live)
            BY <2>4, <5>4
          <6>3. target \in Kept \cup {NoSection}
            <7> HIDE DEF target
            <7> QED
              BY <6>1, <6>2 DEF Kept, Failed
          <6> QED
            BY <5>4, <6>3
        <5> QED
          BY <5>2, <5>3, <5>4
      <4>2. CASE p # at.section
        BY <1>3, <2>1, <4>2 DEF ClosedInv
      <4> QED
        BY <1>3, <2>1, <4>1, <4>2 DEF ClosedInv
    <3> QED
      BY <1>1, <1>15, <2>1, <2>4, <3>2, <3>3 DEF MarkInv
  <2>5. CASE /\ rels[at.rel].section = s.index /\ target \notin {NoSection, Failed}
             /\ ~(target > 0 /\ secs[target].live)
             /\ secs' = mark_section_live({target})
             /\ at' = [at EXCEPT !.rel = @ + 1, !.live = @ + 1, !.changed = TRUE] /\ UNCHANGED phase
    <3>1. target \in SectionRange /\ ~secs[target].live
      <4>1. target \in SectionRange
        BY <2>5, TargetRange, ZenonT(20)
      <4> HIDE DEF target
      <4> QED
        BY <1>2, <2>5, <4>1
    <3>2. target \in Targets(x)
      BY <2>1, <2>2, <2>5, ZenonT(20) DEF Targets, Rels
    <3>3. /\ at'.live = at.live + 1 /\ at'.changed /\ at'.section = at.section
      BY <1>2, <2>5, ZenonT(20) DEF Loops
    <3> DEFINE t == target
    <3>4. secs' = mark_section_live({t}) /\ {t} \in SUBSET SectionRange
      BY <2>5, <3>1
    <3> HIDE DEF target, t
    <3>5. /\ SectionRange' = SectionRange
          /\ \A p \in SectionRange :
               /\ secs'[p].object = secs[p].object /\ secs'[p].index = secs[p].index
               /\ secs'[p].kind = secs[p].kind
               /\ secs'[p].live <=> secs[p].live \/ p = t
               /\ p # t => secs'[p].order = secs[p].order
               /\ p = t => secs'[p].order = at.live + Cardinality({q \in {t} : q < p})
      BY <1>1, <3>4, MarkEffect
    <3>6. secs'[t].order = at.live
      <4>1. t \in Nat /\ t \in SectionRange
        BY <1>2, <3>4
      <4>2. {q \in {t} : q < t} = {}
        BY <4>1
      <4>3. Cardinality({q \in {t} : q < t}) = 0
        BY <4>2, FS_EmptySet
      <4> QED
        BY <1>2, <3>5, <4>1, <4>3
    <3>7. \A p \in SectionRange : Targets(p)' = Targets(p)
      BY <2>1, <3>5, SameTargets
    <3>8. t \in SectionRange /\ ~secs[t].live /\ t \in Targets(x) /\ x # t
      BY <2>1, <3>1, <3>2 DEF t
    <3>9. ReachedInv'
      <4> SUFFICES ASSUME NEW p \in SectionRange
                   PROVE  /\ secs'[p].kind = "vectors" => secs'[p].live
                          /\ secs'[p].live /\ secs'[p].kind # "vectors" =>
                               \E q \in Kept' : secs'[q].order < secs'[p].order /\ p \in Targets(q)'
        BY <3>5 DEF ReachedInv
      <4>1. secs'[p].kind = "vectors" => secs'[p].live
        BY <1>3, <2>1, <3>5 DEF ReachedInv, OrderInv
      <4>2. CASE p = t
        <5>1. x \in Kept /\ x \in Kept' /\ secs[x].order < at.live
          BY <1>3, <2>1, <3>5 DEF Kept, OrderInv
        <5>2. secs'[x].order < secs'[p].order
          BY <2>1, <3>5, <3>6, <3>8, <4>2, <5>1
        <5>3. p \in Targets(x)'
          BY <2>1, <3>3, <3>7, <3>8, <4>2
        <5> QED
          BY <3>3, <4>1, <5>1, <5>2, <5>3
      <4>3. CASE p # t /\ secs'[p].live /\ secs'[p].kind # "vectors"
        <5>1. PICK q \in Kept : secs[q].order < secs[p].order /\ p \in Targets(q)
          BY <1>3, <2>1, <3>5, <4>3 DEF ReachedInv, OrderInv
        <5>2. q \in SectionRange /\ q # t /\ q \in Kept'
          BY <3>5, <3>8, <5>1 DEF Kept
        <5>3. secs'[q].order < secs'[p].order /\ p \in Targets(q)'
          BY <3>5, <3>7, <4>3, <5>1, <5>2
        <5> QED
          BY <4>1, <5>2, <5>3
      <4> QED
        BY <4>1, <4>2, <4>3
    <3>10. OrderInv'
      <4> SUFFICES ASSUME NEW p \in SectionRange, secs'[p].live
                   PROVE  secs'[p].order < at.live + 1
        BY <1>3, <2>1, <2>5, <3>3, <3>5 DEF OrderInv, Kept
      <4>1. CASE p = t
        BY <1>2, <3>6, <4>1
      <4>2. CASE p # t
        <5>1. secs'[p].order = secs[p].order /\ secs[p].order < at.live
          BY <1>3, <2>1, <3>5, <4>2 DEF OrderInv, Kept
        <5> QED
          BY <1>2, <1>4, <5>1
      <4> QED
        BY <4>1, <4>2
    <3>11. ClosedInv' /\ UnmarkedInv'
      BY <2>1, <2>5, <3>3 DEF ClosedInv, UnmarkedInv, Searching
    <3> QED
      BY <1>1, <3>9, <3>10, <3>11 DEF MarkInv
  <2> QED
    BY <1>16, <2>3, <2>4, <2>5, ZenonT(20) DEF mark_reachable_sections
<1>17. CASE NextSection
  <2>1. /\ phase = "reach" /\ at.section \in SectionRange
        /\ ~secs[at.section].live \/ at.rel > Len(objects[secs[at.section].object].rels)
        /\ at' = [at EXCEPT !.section = at.section + 1, !.rel = 1]
        /\ UNCHANGED <<input, phase, objects, secs, globals>>
    BY <1>17 DEF NextSection
  <2>2. /\ at'.section = at.section + 1 /\ at'.rel = 1 /\ at'.changed = at.changed /\ at'.live = at.live
    BY <1>2, <2>1 DEF Loops
  <2>3. OrderInv'
    BY <1>3, <1>14, <2>1, <2>2 DEF OrderInv
  <2>4. ClosedInv'
    <3> SUFFICES ASSUME ~at.changed, NEW p \in Kept
                 PROVE  /\ p < at.section + 1 => Targets(p) \subseteq Kept
                        /\ p = at.section + 1 => Looked(p, 1)'
      BY <1>14, <2>1, <2>2 DEF ClosedInv, Kept
    <3>1. p \in SectionRange /\ secs[p].live /\ p \in Nat
      BY <1>2 DEF Kept
    <3>2. Looked(p, 1)'
      <4>1. DOMAIN objects[secs[p].object].rels = 1 .. Len(objects[secs[p].object].rels)
        BY <1>1, <3>1, HeaderFacts, FileFacts
      <4> QED
        BY <2>1, <4>1 DEF Looked
    <3>3. CASE p < at.section
      BY <1>3, <2>1, <3>2, <3>3 DEF ClosedInv
    <3>4. CASE p = at.section
      <4>1. Looked(p, at.rel) /\ at.rel > Len(objects[secs[p].object].rels)
        BY <1>3, <2>1, <3>1, <3>4 DEF ClosedInv
      <4> QED
        BY <1>1, <1>2, <3>1, <3>2, <4>1, AllLooked
    <3>5. CASE p > at.section
      BY <1>2, <3>1, <3>2, <3>5
    <3> QED
      BY <1>2, <3>1, <3>3, <3>4, <3>5
  <2> QED
    BY <1>1, <1>15, <2>1, <2>3, <2>4 DEF MarkInv
<1>18. CASE PassDone
  <2>1. /\ phase = "reach" /\ at.section > Len(secs)
        /\ UNCHANGED <<input, objects, secs, globals>>
    BY <1>18 DEF PassDone
  <2>2. CASE at.changed
    <3>1. phase' = "reach" /\ at' = [at EXCEPT !.section = 1, !.rel = 1, !.changed = FALSE]
      BY <1>18, <2>1, <2>2 DEF PassDone
    <3>2. at'.section = 1 /\ at'.rel = 1 /\ at'.live = at.live
      BY <1>2, <3>1 DEF Loops
    <3>3. OrderInv'
      BY <1>3, <1>14, <2>1, <3>1, <3>2 DEF OrderInv
    <3>4. ClosedInv'
      <4> SUFFICES ASSUME NEW p \in Kept
                   PROVE  (p < 1 => Targets(p) \subseteq Kept) /\ (p = 1 => Looked(p, 1)')
        BY <1>14, <2>1, <3>1, <3>2 DEF ClosedInv, Kept
      <4>1. p \in SectionRange /\ p \in Nat /\ ~(p < 1)
        BY <1>2 DEF Kept
      <4>2. DOMAIN objects[secs[p].object].rels = 1 .. Len(objects[secs[p].object].rels)
        BY <1>1, <4>1, HeaderFacts, FileFacts
      <4>3. Looked(p, 1)'
        BY <2>1, <4>2 DEF Looked
      <4> QED
        BY <4>1, <4>3
    <3> QED
      BY <1>1, <1>15, <2>1, <3>1, <3>3, <3>4 DEF MarkInv
  <2>3. CASE ~at.changed
    <3>1. phase' = "layout"
      BY <1>18, <2>3 DEF PassDone
    <3>2. ClosedInv'
      <4> SUFFICES ASSUME NEW p \in Kept PROVE Targets(p) \subseteq Kept
        BY <1>14, <2>1, <3>1 DEF ClosedInv, Kept
      <4>1. p \in SectionRange /\ p < at.section
        BY <1>2, <2>1 DEF Kept
      <4> QED
        BY <1>3, <2>1, <2>3, <4>1 DEF ClosedInv
    <3> QED
      BY <1>1, <1>15, <2>1, <3>1, <3>2 DEF MarkInv, OrderInv
  <2> QED
    BY <2>2, <2>3
\* The layout does not touch what is kept.
<1>19. ASSUME phase = "layout", UNCHANGED <<input, objects, globals>>, SectionRange' = SectionRange,
              \A p \in SectionRange :
                /\ secs'[p].object = secs[p].object /\ secs'[p].index = secs[p].index
                /\ secs'[p].kind = secs[p].kind /\ secs'[p].live = secs[p].live
                /\ secs'[p].order = secs[p].order,
              phase' \in {"layout", "globals", "failed"}
       PROVE  MarkInv'
  <2>1. Kept' = Kept /\ \A p \in SectionRange : Targets(p)' = Targets(p)
    BY <1>19, SameTargets DEF Kept
  <2>2. ReachedInv'
    <3> SUFFICES ASSUME input.gc, NEW p \in SectionRange
                 PROVE  /\ secs[p].kind = "vectors" => secs[p].live
                        /\ secs[p].live /\ secs[p].kind # "vectors" =>
                             \E q \in Kept : secs'[q].order < secs'[p].order /\ p \in Targets(q)'
      BY <1>19, <2>1 DEF ReachedInv
    <3>1. CASE secs[p].live /\ secs[p].kind # "vectors"
      <4>1. PICK q \in Kept : secs[q].order < secs[p].order /\ p \in Targets(q)
        BY <1>3, <1>19, <3>1 DEF ReachedInv
      <4>2. q \in SectionRange
        BY DEF Kept
      <4> QED
        BY <1>19, <2>1, <3>1, <4>1, <4>2
    <3> QED
      BY <1>3, <1>19, <3>1 DEF ReachedInv
  <2>3. ClosedInv'
    <3> SUFFICES ASSUME input.gc, NEW p \in Kept PROVE Targets(p)' \subseteq Kept
      BY <1>19, <2>1 DEF ClosedInv
    <3>1. p \in SectionRange
      BY DEF Kept
    <3> QED
      BY <1>3, <1>19, <2>1, <3>1 DEF ClosedInv
  <2>4. OrderInv' /\ UnmarkedInv'
    BY <1>19 DEF OrderInv, UnmarkedInv, Searching
  <2> QED
    BY <1>1, <2>2, <2>3, <2>4 DEF MarkInv
<1>20. ASSUME NEW kind, Waiting(kind) # {}, NEW v \in Nat, NEW l \in Nat,
              PlaceAt(NextToPlace(kind), v, l), phase = "layout", UNCHANGED <<input, objects, globals>>
       PROVE  MarkInv'
  <2> DEFINE p == NextToPlace(kind)
  <2>1. CASE Fail
    BY <1>5, <2>1 DEF Fail, Searching
  <2>2. CASE secs' = PlacedRows(p, v, l, l - AppBase) /\ UNCHANGED phase
    <3>1. p \in SectionRange /\ l - AppBase \in Int
      BY <1>1, <1>20, NextToPlaceIn, ConstFacts DEF Pos
    <3> HIDE DEF p
    <3> DEFINE o == l - AppBase
    <3>2. o \in Int /\ secs' = PlacedRows(p, v, l, o)
      BY <2>2, <3>1
    <3> HIDE DEF o
    <3>3. /\ SectionRange' = SectionRange
          /\ \A q \in SectionRange :
               /\ secs'[q].object = secs[q].object /\ secs'[q].index = secs[q].index
               /\ secs'[q].kind = secs[q].kind /\ secs'[q].live = secs[q].live
               /\ secs'[q].order = secs[q].order
      BY <1>1, <1>20, <3>1, <3>2, PlaceEffect
    <3> QED
      BY <1>19, <1>20, <2>2, <3>3
  <2> QED
    BY <1>20, <2>1, <2>2 DEF PlaceAt, PlacedRows
<1>21. layout \in Layouts /\ layout.flash \in Nat /\ layout.ram \in Nat
  BY <1>1 DEF TypeInv, Layouts
<1>22. CASE layout_flash_sections
  <2> DEFINE kind == Kinds[at.kind]
  <2>1. Waiting(kind) # {} /\ align_up(layout.flash, Align(NextToPlace(kind))) \in Nat
    BY <1>1, <1>21, <1>22, PlaceFacts DEF layout_flash_sections
  <2> QED
    BY <1>20, <1>22, <2>1 DEF layout_flash_sections
<1>23. CASE layout_data_sections
  <2>1. Waiting("data") # {} /\ align_up(layout.ram, Align(NextToPlace("data"))) \in Nat
        /\ align_up(layout.flash, Align(NextToPlace("data"))) \in Nat
    BY <1>1, <1>21, <1>23, PlaceFacts DEF layout_data_sections
  <2> QED
    BY <1>20, <1>23, <2>1 DEF layout_data_sections
<1>24. CASE layout_bss_sections
  <2> DEFINE p == NextToPlace("bss")
             ram == align_up(layout.ram, Align(p))
  <2>1. p \in SectionRange /\ ram \in Nat /\ 0 \in Nat /\ 0 \in Int
    BY <1>1, <1>21, <1>24, PlaceFacts DEF layout_bss_sections
  <2>2. /\ phase = "layout" /\ secs' = PlacedRows(p, ram, 0, 0)
        /\ UNCHANGED <<input, phase, objects, globals>>
    BY <1>24 DEF layout_bss_sections, PlacedRows
  <2> HIDE DEF p, ram
  <2>3. /\ SectionRange' = SectionRange
        /\ \A q \in SectionRange :
             /\ secs'[q].object = secs[q].object /\ secs'[q].index = secs[q].index
             /\ secs'[q].kind = secs[q].kind /\ secs'[q].live = secs[q].live
             /\ secs'[q].order = secs[q].order
    BY <1>1, <2>1, <2>2, PlaceEffect
  <2> QED
    BY <1>19, <2>2, <2>3
<1>25. CASE layout_sections
  <2>1. phase = "layout" /\ UNCHANGED <<input, objects, secs, globals>>
        /\ phase' \in {"layout", "globals", "failed"}
    BY <1>25 DEF layout_sections
  <2> QED
    BY <1>19, <2>1 DEF SectionRange
<1>26. CASE collect_global_symbols \/ GlobalsDone
  BY <1>5, <1>26 DEF collect_global_symbols, add_global_symbol, GlobalsDone, Fail, Searching
<1>27. CASE apply_relocations \/ NextRelocations \/ RelocationsDone \/ write_map
  BY <1>5, <1>27 DEF apply_relocations, NextRelocations, RelocationsDone, write_map, Fail, Searching
<1>28. CASE UNCHANGED vars
  <2>1. UNCHANGED <<input, phase, at, objects, secs, globals>>
    BY <1>28 DEF vars
  <2>2. UnmarkedInv' /\ OrderInv'
    BY <1>3, <2>1 DEF UnmarkedInv, OrderInv, Kept, SectionRange
  <2>3. ReachedInv'
    BY <1>3, <1>14, <2>1 DEF ReachedInv, Kept
  <2>4. ClosedInv'
    <3>1. Kept \subseteq SectionRange
      BY DEF Kept
    <3> QED
      BY <1>3, <1>14, <1>a, <2>1, <3>1 DEF ClosedInv
  <2> QED
    BY <1>1, <2>2, <2>3, <2>4 DEF MarkInv
<1> QED
  BY <1>7, <1>8, <1>9, <1>10, <1>11, <1>12, <1>13, <1>16, <1>17, <1>18, <1>22, <1>23, <1>24,
     <1>25, <1>26, <1>27, <1>28 DEF Next

\* The sections laid out are the vector table and what it reaches through
\* references, no more and no less, whatever the order of the sections.
THEOREM KeepsTheReachable == Spec => []OnlyReachable
<1>1. MarkInv => OnlyReachable
  BY DEF MarkInv, ReachedInv, ClosedInv, OnlyReachable, Kept
<1> QED
  BY <1>1, MarkInit, MarkStep, PTL DEF Spec

-----------------------------------------------------------------------------
(* The layout                                                               *)

Early == {"read", "names", "archives", "mark", "reach"}
\* The kind of sections being laid out: 0 before the layout, 6 after it.
Now == IF phase \in Early THEN 0 ELSE IF phase = "layout" THEN at.kind ELSE 6
Rank(kind) == CASE kind = "vectors" -> 1 [] kind = "text" -> 2 [] kind = "rodata" -> 3
                [] kind = "data" -> 4 [] kind = "bss" -> 5
FlashKinds == {"vectors", "text", "rodata"}

\* Sections in the tables take space, and are of the kind their header says.
RowInv ==
  \A p \in SectionRange : /\ Header(p).size > 0 /\ Header(p).type \in {"progbits", "nobits"}
                          /\ secs[p].kind = classify_section(Header(p))
\* Kept sections have an order until they are listed.
KeptInv ==
  \A p \in Kept : IF phase \in {"map", "done"} THEN secs[p].order = -1 => p \in ToSet(listed)
                  ELSE secs[p].order >= 0
\* Exactly the kept sections of the kinds done are placed, and of the present
\* kind some.
PlacedInv ==
  \A p \in SectionRange :
    /\ secs[p].vma # 0 => secs[p].live /\ Rank(secs[p].kind) <= Now
    /\ secs[p].live /\ Rank(secs[p].kind) < Now => secs[p].vma # 0
\* The cursors, and the bounds set so far.
CursorInv ==
  /\ layout.text_start = AppBase /\ AppBase <= layout.flash /\ RamBase <= layout.ram
  /\ Now = 0 => layout.flash = AppBase /\ layout.ram = RamBase /\ at.kind = 1
  /\ Now >= 4 => layout.text_end <= layout.flash /\ RamBase <= layout.data_start
  /\ Now = 4 => layout.data_start <= layout.ram
  /\ Now >= 5 => layout.data_start <= layout.data_end /\ layout.data_end <= layout.bss_start
  /\ Now = 5 => layout.bss_start <= layout.ram
  /\ Now = 6 => layout.flash - AppBase <= MaxOutput
Low(kind) == IF kind = "data" THEN layout.data_start
             ELSE IF kind = "bss" THEN layout.bss_start ELSE AppBase
High(kind) == IF kind = "data" THEN (IF Now <= 4 THEN layout.ram ELSE layout.data_end)
              ELSE IF kind = "bss" THEN (IF Now <= 5 THEN layout.ram ELSE layout.bss_end)
              ELSE IF Now <= 3 THEN layout.flash ELSE layout.text_end
Placed == {p \in SectionRange : secs[p].vma # 0}
End(p, start) == start + Header(p).size
\* A section that is placed is aligned, within what its kind has used so far, and
\* has its bytes in the image.
Sits(p) ==
  /\ secs[p].vma % Align(p) = 0
  /\ Low(secs[p].kind) <= secs[p].vma /\ End(p, secs[p].vma) <= High(secs[p].kind)
  /\ secs[p].kind \in FlashKinds => secs[p].lma = secs[p].vma
  /\ secs[p].kind = "data" => layout.text_end <= secs[p].lma
  /\ secs[p].kind # "bss" =>
       /\ AppBase <= secs[p].lma /\ End(p, secs[p].lma) <= layout.flash
       /\ secs[p].offset = secs[p].lma - AppBase
       /\ Header(p).type = "progbits" => \A b \in 0 .. Header(p).size - 1 :
            secs[p].offset + b \in DOMAIN image /\ image[secs[p].offset + b] = <<p, b>>
SitsInv == \A p \in Placed : Sits(p)
\* Sections in flash lie apart, those in RAM too, and vectors come first.
Apart(p, q) ==
  /\ secs[p].kind # "bss" /\ secs[q].kind # "bss" =>
       End(p, secs[p].lma) <= secs[q].lma \/ End(q, secs[q].lma) <= secs[p].lma
  /\ secs[p].kind \notin FlashKinds /\ secs[q].kind \notin FlashKinds =>
       End(p, secs[p].vma) <= secs[q].vma \/ End(q, secs[q].vma) <= secs[p].vma
  /\ secs[p].kind = "vectors" /\ secs[q].kind \notin {"vectors", "bss"} => secs[p].lma < secs[q].lma
ApartInv == \A p, q \in Placed : p # q => Apart(p, q)
\* The map: what is listed is kept, by address, and below what is not listed.
ListInv ==
  /\ phase \notin {"map", "done"} => listed = <<>>
  /\ listed \in Seq(Kept)
  /\ \A i, j \in DOMAIN listed : i < j => secs[listed[i]].vma < secs[listed[j]].vma
  /\ \A i \in DOMAIN listed : secs[listed[i]].order = -1
  /\ phase = "map" => \A i \in DOMAIN listed : \A p \in Unlisted : secs[listed[i]].vma < secs[p].vma
  /\ phase = "done" /\ input.map => Unlisted = {}
LayoutInv ==
  /\ TypeInv
  /\ phase # "failed" => /\ RowInv /\ KeptInv /\ PlacedInv /\ CursorInv
                         /\ SitsInv /\ ApartInv /\ ListInv

LEMMA KindFacts ==
  /\ \A k \in 1 .. 5 : Kinds[k] \in KindNames /\ Rank(Kinds[k]) = k
  /\ \A kind \in KindNames : Rank(kind) \in 1 .. 5 /\ kind = Kinds[Rank(kind)]
<1>1. /\ Rank("vectors") = 1 /\ Rank("text") = 2 /\ Rank("rodata") = 3
      /\ Rank("data") = 4 /\ Rank("bss") = 5
  BY DEF Rank
<1>2. /\ Kinds[1] = "vectors" /\ Kinds[2] = "text" /\ Kinds[3] = "rodata"
      /\ Kinds[4] = "data" /\ Kinds[5] = "bss"
  BY DEF Kinds
<1>3. \A k \in 1 .. 5 : k = 1 \/ k = 2 \/ k = 3 \/ k = 4 \/ k = 5
  OBVIOUS
<1> QED
  BY <1>1, <1>2, <1>3 DEF KindNames

LEMMA RowFacts ==
  ASSUME LayoutInv, phase # "failed", NEW p \in SectionRange
  PROVE  /\ secs[p].kind \in KindNames /\ Rank(secs[p].kind) \in 1 .. 5
         /\ secs[p].vma \in Nat /\ secs[p].lma \in Nat /\ secs[p].offset \in Int
         /\ secs[p].order \in Nat \cup {-1} /\ secs[p].live \in BOOLEAN
         /\ Header(p).size \in Nat /\ Header(p).size > 0 /\ Align(p) \in Pos
         /\ Header(p).type \in {"progbits", "nobits"}
<1>1. TypeInv /\ RowInv
  BY DEF LayoutInv
<1>2. secs[p] \in Sections /\ Header(p).size \in Nat /\ Align(p) \in Pos
  BY <1>1, HeaderFacts
<1> HIDE DEF Pos, Header, Align, KindNames
<1>3. Header(p).size > 0 /\ Header(p).type \in {"progbits", "nobits"}
  BY <1>1 DEF RowInv
<1> QED
  BY <1>2, <1>3, KindFacts DEF Sections

LEMMA NowFacts ==
  ASSUME LayoutInv, phase # "failed"
  PROVE  /\ Now \in 0 .. 6 /\ layout \in Layouts
         /\ phase = "layout" <=> Now \in 1 .. 5
         /\ phase = "layout" => Now = at.kind
  BY DEF LayoutInv, TypeInv, Now, Loops, Early

LEMMA SameHeader ==
  ASSUME UNCHANGED objects, NEW p, secs'[p].object = secs[p].object, secs'[p].index = secs[p].index
  PROVE  Header(p)' = Header(p) /\ Align(p)' = Align(p)
  BY DEF Header, Align

\* What a step leaves of a section that is placed.
SameRow(p) ==
  /\ secs'[p].object = secs[p].object /\ secs'[p].index = secs[p].index
  /\ secs'[p].kind = secs[p].kind /\ secs'[p].live = secs[p].live
SamePlace(p) ==
  /\ SameRow(p) /\ secs'[p].vma = secs[p].vma /\ secs'[p].lma = secs[p].lma
  /\ secs'[p].offset = secs[p].offset

LEMMA SitsOn ==
  ASSUME LayoutInv, phase # "failed", NEW p \in Placed, UNCHANGED objects, SamePlace(p),
         Rank(secs[p].kind) <= Now,
         \A kind \in KindNames : Rank(kind) <= Now => Low(kind)' = Low(kind) /\ High(kind)' >= High(kind),
         \A kind \in KindNames : Rank(kind) <= Now => High(kind)' \in Nat /\ High(kind) \in Nat,
         layout' \in Layouts, layout'.flash >= layout.flash,
         secs[p].kind = "data" => layout'.text_end = layout.text_end,
         \A i \in Int : i \in DOMAIN image /\ i + AppBase < layout.flash
                          => i \in DOMAIN image' /\ image'[i] = image[i]
  PROVE  Sits(p)'
<1>1. p \in SectionRange /\ Sits(p)
  BY DEF LayoutInv, SitsInv, Placed
<1>2. /\ secs[p].kind \in KindNames /\ secs[p].vma \in Nat /\ secs[p].lma \in Nat
      /\ secs[p].offset \in Int /\ Header(p).size \in Nat
  BY <1>1, RowFacts
<1>3. Header(p)' = Header(p) /\ Align(p)' = Align(p)
  BY SameHeader DEF SamePlace, SameRow
<1>4. layout.flash \in Nat /\ layout'.flash \in Nat /\ AppBase \in Nat
  BY NowFacts, ConstFacts DEF Layouts, Pos
<1> DEFINE kind == secs[p].kind
<1>5. Low(secs[p].kind)' = Low(kind) /\ High(secs[p].kind)' >= High(kind)
      /\ High(secs[p].kind)' \in Nat /\ High(kind) \in Nat
  <2>1. Low(secs[p].kind)' = (IF kind = "data" THEN layout'.data_start
                              ELSE IF kind = "bss" THEN layout'.bss_start ELSE AppBase)
    BY DEF Low, SamePlace, SameRow
  <2>2. High(secs[p].kind)' = (IF kind = "data" THEN (IF Now' <= 4 THEN layout'.ram ELSE layout'.data_end)
                               ELSE IF kind = "bss" THEN (IF Now' <= 5 THEN layout'.ram ELSE layout'.bss_end)
                               ELSE IF Now' <= 3 THEN layout'.flash ELSE layout'.text_end)
    BY DEF High, SamePlace, SameRow
  <2>3. PICK k \in KindNames : k = kind
    BY <1>2
  <2>4. Low(k)' = Low(k) /\ High(k)' >= High(k) /\ High(k)' \in Nat /\ High(k) \in Nat
    BY <2>3
  <2>5. Low(k)' = (IF k = "data" THEN layout'.data_start
                   ELSE IF k = "bss" THEN layout'.bss_start ELSE AppBase)
    BY DEF Low
  <2>6. High(k)' = (IF k = "data" THEN (IF Now' <= 4 THEN layout'.ram ELSE layout'.data_end)
                    ELSE IF k = "bss" THEN (IF Now' <= 5 THEN layout'.ram ELSE layout'.bss_end)
                    ELSE IF Now' <= 3 THEN layout'.flash ELSE layout'.text_end)
    BY DEF High
  <2> QED
    BY <2>1, <2>2, <2>3, <2>4, <2>5, <2>6
<1>6. /\ secs[p].vma % Align(p) = 0 /\ Low(kind) <= secs[p].vma
      /\ secs[p].vma + Header(p).size <= High(kind)
      /\ kind \in FlashKinds => secs[p].lma = secs[p].vma
      /\ kind = "data" => layout.text_end <= secs[p].lma
  BY <1>1 DEF Sits, End
<1>7. /\ secs'[p].vma % Align(p)' = 0
      /\ Low(secs[p].kind)' <= secs'[p].vma /\ secs'[p].vma + Header(p)'.size <= High(secs[p].kind)'
  <2> HIDE DEF kind
  <2>1. secs'[p].vma = secs[p].vma
    BY DEF SamePlace
  <2> QED
    BY <1>2, <1>3, <1>5, <1>6, <2>1
<1>8. ASSUME kind # "bss"
      PROVE  /\ AppBase <= secs'[p].lma /\ secs'[p].lma + Header(p)'.size <= layout'.flash
             /\ secs'[p].offset = secs'[p].lma - AppBase
             /\ Header(p)'.type = "progbits" => \A b \in 0 .. Header(p)'.size - 1 :
                  secs'[p].offset + b \in DOMAIN image' /\ image'[secs'[p].offset + b] = <<p, b>>
  <2>1. /\ AppBase <= secs[p].lma /\ secs[p].lma + Header(p).size <= layout.flash
        /\ secs[p].offset = secs[p].lma - AppBase
        /\ Header(p).type = "progbits" => \A b \in 0 .. Header(p).size - 1 :
             secs[p].offset + b \in DOMAIN image /\ image[secs[p].offset + b] = <<p, b>>
    BY <1>1, <1>8 DEF Sits, End
  <2>2. secs'[p].lma = secs[p].lma /\ secs'[p].offset = secs[p].offset
    BY DEF SamePlace
  <2>3. secs[p].lma + Header(p).size <= layout'.flash
    BY <1>2, <1>4, <2>1
  <2>4. ASSUME NEW b \in 0 .. Header(p).size - 1
        PROVE  secs[p].offset + b \in Int /\ secs[p].offset + b + AppBase < layout.flash
    BY <1>2, <1>4, <2>1
  <2> HIDE DEF Header, kind
  <2> QED
    BY <1>3, <2>1, <2>2, <2>3, <2>4
<1> QED
  <2> HIDE DEF Header, Align, Low, High
  <2> QED
    BY <1>6, <1>7, <1>8 DEF Sits, End, SamePlace, SameRow

LEMMA ApartOn ==
  ASSUME NEW p, NEW q, Apart(p, q), UNCHANGED objects, SamePlace(p), SamePlace(q)
  PROVE  Apart(p, q)'
<1>1. Header(p)' = Header(p) /\ Header(q)' = Header(q)
  BY SameHeader DEF SamePlace, SameRow
<1> QED
  BY <1>1 DEF Apart, End, SamePlace, SameRow

\* What a step keeps that changes no row and no cursor: all but what the phase says.
LEMMA SameInv ==
  ASSUME LayoutInv, phase # "failed", UNCHANGED <<objects, layout, image>>, SectionRange' = SectionRange,
         \A p \in SectionRange : SamePlace(p), Now' = Now,
         Now = 0 => at'.kind = at.kind
  PROVE  RowInv' /\ PlacedInv' /\ CursorInv' /\ SitsInv' /\ ApartInv'
<1>1. RowInv /\ PlacedInv /\ CursorInv /\ SitsInv /\ ApartInv
  BY DEF LayoutInv
<1>2. \A p \in SectionRange : Header(p)' = Header(p) /\ secs'[p].kind = secs[p].kind
                               /\ secs'[p].vma = secs[p].vma /\ secs'[p].live = secs[p].live
  BY SameHeader DEF SamePlace, SameRow
<1>3. RowInv'
  <2> HIDE DEF Header
  <2> QED
    BY <1>1, <1>2 DEF RowInv, classify_section
<1>4. PlacedInv'
  BY <1>1, <1>2 DEF PlacedInv, Rank
<1>5. CursorInv'
  BY <1>1 DEF CursorInv
<1>6. Placed' = Placed /\ Placed \subseteq SectionRange
  BY <1>2 DEF Placed
<1>7. \A kind \in KindNames : /\ Low(kind)' = Low(kind) /\ High(kind)' = High(kind)
                               /\ High(kind) \in Nat
  BY NowFacts DEF Low, High, Layouts
<1>8. layout' = layout /\ layout.flash \in Nat /\ layout \in Layouts
  BY NowFacts DEF Layouts
<1>9. SitsInv'
  <2> SUFFICES ASSUME NEW p \in Placed PROVE Sits(p)'
    BY <1>6 DEF SitsInv
  <2>1. Rank(secs[p].kind) <= Now /\ SamePlace(p)
    BY <1>1, <1>6 DEF PlacedInv, Placed
  <2>2. \A kind \in KindNames : High(kind)' >= High(kind) /\ High(kind)' \in Nat
    BY <1>7
  <2> QED
    BY <1>7, <1>8, <2>1, <2>2, SitsOn
<1>10. ApartInv'
  <2> SUFFICES ASSUME NEW p \in Placed, NEW q \in Placed, p # q PROVE Apart(p, q)'
    BY <1>6 DEF ApartInv
  <2>1. Apart(p, q) /\ SamePlace(p) /\ SamePlace(q)
    BY <1>1, <1>6 DEF ApartInv
  <2> QED
    BY <2>1, ApartOn
<1> QED
  BY <1>3, <1>4, <1>5, <1>9, <1>10

LEMMA NextRow ==
  ASSUME TypeInv', NEW p \in SectionRange'
  PROVE  /\ secs'[p].kind \in KindNames /\ secs'[p].vma \in Nat /\ secs'[p].lma \in Nat
         /\ secs'[p].order \in Nat \cup {-1}
<1>1. secs' \in Seq(Sections)
  BY DEF TypeInv
<1>2. p \in 1 .. Len(secs')
  BY DEF SectionRange
<1>3. secs'[p] \in Sections
  <2> HIDE DEF Sections
  <2> QED
    BY <1>1, <1>2
<1> QED
  BY <1>3 DEF Sections

LEMMA LayoutInit == Init => LayoutInv
<1> SUFFICES ASSUME Init PROVE LayoutInv
  OBVIOUS
<1>1. TypeInv /\ AppBase \in Nat /\ RamBase \in Nat
  BY TypeInit, ConstFacts DEF Pos
<1>2. SectionRange = {} /\ Now = 0 /\ phase = "read" /\ listed = <<>>
  BY DEF Init, SectionRange, Now, Early
<1>3. RowInv /\ KeptInv /\ PlacedInv /\ SitsInv /\ ApartInv
  BY <1>2 DEF RowInv, KeptInv, PlacedInv, SitsInv, ApartInv, Kept, Placed
<1>4. CursorInv
  BY <1>1, <1>2 DEF Init, CursorInv
<1>5. ListInv
  BY <1>2 DEF ListInv
<1> QED
  BY <1>1, <1>3, <1>4, <1>5 DEF LayoutInv

\* Before the layout nothing is placed.
LEMMA EarlySteps ==
  ASSUME LayoutInv, TypeInv', phase \in Early, phase' \in Early \cup {"layout"},
         UNCHANGED <<layout, listed>>, at'.kind = at.kind, RowInv',
         \A p \in SectionRange' : secs'[p].vma = 0 /\ (secs'[p].live => secs'[p].order >= 0)
  PROVE  LayoutInv'
<1>1. /\ Now = 0 /\ CursorInv /\ ListInv /\ phase # "failed" /\ layout \in Layouts
      /\ listed = <<>> /\ AppBase \in Nat /\ RamBase \in Nat
  BY ConstFacts DEF LayoutInv, Now, Early, ListInv, TypeInv, Pos
<1>2. Now' \in {0, 1} /\ phase' # "failed" /\ phase' \notin {"map", "done"}
  BY <1>1 DEF Now, Early, CursorInv
<1>3. Placed' = {}
  BY DEF Placed
<1>4. SitsInv' /\ ApartInv'
  BY <1>3 DEF SitsInv, ApartInv
<1>5. KeptInv'
  BY <1>2 DEF KeptInv, Kept
<1>6. PlacedInv'
  <2> SUFFICES ASSUME NEW p \in SectionRange' PROVE ~(Rank(secs'[p].kind) < Now')
    BY DEF PlacedInv, Rank
  <2>1. secs'[p].kind \in KindNames
    BY NextRow
  <2>2. Rank(secs'[p].kind) \in 1 .. 5
    BY <2>1, KindFacts
  <2> QED
    BY <1>2, <2>2
<1>7. CursorInv'
  BY <1>1, <1>2 DEF CursorInv, Now
<1>8. ListInv'
  BY <1>1, <1>2 DEF ListInv
<1> QED
  BY <1>4, <1>5, <1>6, <1>7, <1>8 DEF LayoutInv

LEMMA Copies ==
  ASSUME TypeInv, NEW p \in SectionRange, NEW o \in Int, image' = copy_section_bytes(p, o)
  PROVE  /\ \A i \in Int : i \in DOMAIN image /\ i < o => i \in DOMAIN image' /\ image'[i] = image[i]
         /\ Header(p).type = "progbits" =>
              \A b \in 0 .. Header(p).size - 1 : o + b \in DOMAIN image' /\ image'[o + b] = <<p, b>>
<1> DEFINE n == Header(p).size
           bytes == IF Header(p).type = "nobits" THEN {} ELSE o .. o + n - 1
<1>1. n \in Nat
  BY HeaderFacts
<1>2. image' = [b \in DOMAIN image \cup bytes |-> IF b \in bytes THEN <<p, b - o>> ELSE image[b]]
  BY DEF copy_section_bytes
<1>3. \A i \in Int : i < o => i \notin bytes
  <2> HIDE DEF n
  <2> QED
    BY <1>1
<1>4. \A i : i \in DOMAIN image /\ i \notin bytes => i \in DOMAIN image' /\ image'[i] = image[i]
  <2> HIDE DEF bytes
  <2> QED
    BY <1>2
<1>5. ASSUME Header(p).type = "progbits", NEW b \in 0 .. n - 1
      PROVE  o + b \in DOMAIN image' /\ image'[o + b] = <<p, b>>
  <2>1. o + b \in bytes /\ (o + b) - o = b
    <3>1. o + b \in o .. o + n - 1 /\ (o + b) - o = b
      <4> HIDE DEF n
      <4> QED
        BY <1>1, <1>5
    <3> QED
      BY <1>5, <3>1
  <2> HIDE DEF bytes
  <2> QED
    BY <1>2, <2>1
<1> QED
  BY <1>3, <1>4, <1>5

\* A section is placed behind all those of its memory.
LEMMA PlaceStep ==
  ASSUME LayoutInv, TypeInv', phase = "layout", phase' = "layout",
         UNCHANGED <<input, at, objects, listed>>, SectionRange' = SectionRange,
         NEW p \in Waiting(Kinds[at.kind]),
         \A q \in SectionRange : SameRow(q) /\ secs'[q].order = secs[q].order
                                 /\ (q # p => secs'[q] = secs[q]),
         secs'[p].vma # 0, Sits(p)',
         layout' = [layout EXCEPT !.flash = layout'.flash, !.ram = layout'.ram],
         layout'.flash >= layout.flash, layout'.ram >= layout.ram,
         \A i \in Int : i \in DOMAIN image /\ i + AppBase < layout.flash
                          => i \in DOMAIN image' /\ image'[i] = image[i],
         secs[p].kind # "bss" => secs'[p].lma >= layout.flash,
         secs[p].kind \notin FlashKinds => secs'[p].vma >= layout.ram
  PROVE  LayoutInv'
<1>1. /\ TypeInv /\ RowInv /\ KeptInv /\ PlacedInv /\ CursorInv /\ SitsInv /\ ApartInv /\ ListInv
      /\ phase # "failed" /\ phase' # "failed"
  BY DEF LayoutInv
<1>2. Now = at.kind /\ Now' = Now /\ Now \in 1 .. 5 /\ layout \in Layouts /\ layout' \in Layouts
  BY NowFacts DEF TypeInv, Now
<1>3. /\ p \in SectionRange /\ secs[p].kind = Kinds[Now] /\ secs[p].live /\ secs[p].vma = 0
      /\ Rank(secs[p].kind) = Now
  BY <1>2, KindFacts DEF Waiting
<1>4. \A q \in SectionRange : /\ Header(q)' = Header(q) /\ secs'[q].kind = secs[q].kind
                               /\ secs'[q].live = secs[q].live /\ secs'[q].order = secs[q].order
  BY SameHeader DEF SameRow
<1>5. \A q \in SectionRange : q # p => SamePlace(q)
  BY DEF SamePlace
<1>6. Placed' = Placed \cup {p} /\ p \notin Placed /\ Placed \subseteq SectionRange
  BY <1>3 DEF Placed
<1>7. RowInv'
  <2> HIDE DEF Header
  <2> QED
    BY <1>1, <1>4 DEF RowInv, classify_section
<1>8. KeptInv'
  BY <1>1, <1>4 DEF KeptInv, Kept
<1>9. PlacedInv'
  <2> SUFFICES ASSUME NEW q \in SectionRange
               PROVE  /\ secs'[q].vma # 0 => secs'[q].live /\ Rank(secs[q].kind) <= Now
                      /\ secs'[q].live /\ Rank(secs[q].kind) < Now => secs'[q].vma # 0
    BY <1>2, <1>4 DEF PlacedInv, Rank
  <2> QED
    BY <1>1, <1>2, <1>3, <1>4 DEF PlacedInv
<1>10. /\ layout'.text_start = layout.text_start /\ layout'.text_end = layout.text_end
       /\ layout'.data_start = layout.data_start /\ layout'.data_end = layout.data_end
       /\ layout'.bss_start = layout.bss_start /\ layout'.bss_end = layout.bss_end
       /\ layout.flash \in Nat /\ layout'.flash \in Nat /\ layout.ram \in Nat /\ layout'.ram \in Nat
       /\ layout.text_end \in Nat /\ layout.data_start \in Nat /\ layout.data_end \in Nat
       /\ layout.bss_start \in Nat /\ layout.bss_end \in Nat /\ AppBase \in Nat /\ RamBase \in Nat
  BY <1>2, ConstFacts DEF Layouts, Pos
<1>11. CursorInv'
  BY <1>1, <1>2, <1>10 DEF CursorInv
<1>12. \A kind \in KindNames : /\ Low(kind)' = Low(kind) /\ High(kind)' >= High(kind)
                                /\ High(kind)' \in Nat /\ High(kind) \in Nat
  BY <1>2, <1>10 DEF Low, High
<1>13. SitsInv'
  <2> SUFFICES ASSUME NEW q \in Placed PROVE Sits(q)'
    BY <1>6 DEF SitsInv
  <2>1. Rank(secs[q].kind) <= Now /\ SamePlace(q)
    BY <1>1, <1>5, <1>6 DEF PlacedInv, Placed
  <2> QED
    BY <1>1, <1>2, <1>10, <1>12, <2>1, SitsOn
<1>14. ASSUME NEW q \in Placed
       PROVE  /\ secs[p].kind # "bss" /\ secs[q].kind # "bss" => End(q, secs[q].lma) <= secs'[p].lma
              /\ secs[p].kind \notin FlashKinds /\ secs[q].kind \notin FlashKinds =>
                   End(q, secs[q].vma) <= secs'[p].vma
  <2>1. Sits(q) /\ q \in SectionRange /\ Rank(secs[q].kind) <= Now
    BY <1>1, <1>6 DEF SitsInv, PlacedInv, Placed
  <2>2. /\ secs[q].vma \in Nat /\ secs[q].lma \in Nat /\ Header(q).size \in Nat
        /\ secs[q].kind \in KindNames
    BY <1>1, <2>1, RowFacts
  <2>3. secs'[p].vma \in Nat /\ secs'[p].lma \in Nat
    BY <1>3, NextRow
  <2>4. ASSUME secs[p].kind # "bss", secs[q].kind # "bss"
        PROVE  End(q, secs[q].lma) <= secs'[p].lma
    <3>1. End(q, secs[q].lma) <= layout.flash
      BY <2>1, <2>4 DEF Sits
    <3> QED
      BY <1>10, <2>2, <2>3, <2>4, <3>1 DEF End
  <2>5. ASSUME secs[p].kind \notin FlashKinds, secs[q].kind \notin FlashKinds
        PROVE  End(q, secs[q].vma) <= secs'[p].vma
    <3>1. End(q, secs[q].vma) <= High(secs[q].kind) /\ secs[q].kind \in {"data", "bss"}
      BY <2>1, <2>2, <2>5 DEF Sits, FlashKinds, KindNames
    <3>2. Rank(secs[q].kind) \in {4, 5} /\ (secs[q].kind = "bss" => Now = 5) /\ Now \in {4, 5}
      BY <1>2, <2>1, <3>1 DEF Rank
    <3>3. High(secs[q].kind) <= layout.ram
      BY <1>1, <1>10, <3>1, <3>2 DEF High, CursorInv
    <3>4. High(secs[q].kind) \in Nat
      BY <1>12, <2>2
    <3> QED
      BY <1>10, <2>2, <2>3, <2>5, <3>1, <3>3, <3>4 DEF End
  <2> QED
    BY <2>4, <2>5
<1>15. ApartInv'
  <2>1. ASSUME NEW q \in Placed, NEW r \in Placed, q # r PROVE Apart(q, r)'
    BY <1>1, <1>5, <1>6, <2>1, ApartOn DEF ApartInv
  <2>2. ASSUME NEW q \in Placed PROVE Apart(p, q)' /\ Apart(q, p)'
    <3>1. SamePlace(q) /\ q \in SectionRange /\ SameRow(p) /\ Rank(secs[q].kind) <= Now
      BY <1>1, <1>3, <1>5, <1>6 DEF PlacedInv, Placed
    <3>2. Header(p)' = Header(p) /\ Header(q)' = Header(q)
      BY <1>3, <1>4, <3>1
    <3>3. secs[p].kind = "vectors" => secs[q].kind = "vectors"
      <4>1. secs[q].kind \in KindNames
        BY <1>1, <3>1, RowFacts
      <4> QED
        BY <1>3, <3>1, <4>1 DEF Rank, KindNames
    <3>4. ASSUME secs[q].kind = "vectors", secs[p].kind \notin {"vectors", "bss"}
          PROVE  secs[q].lma < secs'[p].lma
      <4>1. secs[q].lma \in Nat /\ Header(q).size \in Nat /\ Header(q).size > 0
        BY <1>1, <3>1, RowFacts
      <4>2. secs'[p].lma \in Nat
        BY <1>3, NextRow
      <4> QED
        BY <1>14, <3>4, <4>1, <4>2 DEF End
    <3> HIDE DEF Header
    <3> QED
      BY <1>14, <3>1, <3>2, <3>3, <3>4 DEF Apart, End, SamePlace, SameRow
  <2> QED
    BY <1>6, <2>1, <2>2 DEF ApartInv
<1>16. ListInv'
  BY <1>1 DEF ListInv
<1> QED
  BY <1>7, <1>8, <1>9, <1>11, <1>13, <1>15, <1>16 DEF LayoutInv

LEMMA EarlyFacts ==
  ASSUME LayoutInv, phase \in Early
  PROVE  /\ TypeInv /\ RowInv /\ phase # "failed" /\ at.kind = 1
         /\ \A p \in SectionRange : secs[p].vma = 0 /\ (secs[p].live => secs[p].order >= 0)
<1>1. Now = 0 /\ phase # "failed" /\ phase \notin {"map", "done"}
  BY DEF Now, Early
<1>2. \A p \in SectionRange : Rank(secs[p].kind) \in 1 .. 5
  BY <1>1, RowFacts
<1>3. TypeInv /\ RowInv /\ PlacedInv /\ KeptInv /\ CursorInv
  BY <1>1 DEF LayoutInv
<1>4. \A p \in SectionRange : secs[p].vma = 0
  BY <1>1, <1>2, <1>3 DEF PlacedInv
<1> QED
  BY <1>1, <1>3, <1>4 DEF KeptInv, Kept, CursorInv

LEMMA ReadKeeps ==
  ASSUME LayoutInv, phase \in Early, NEW file \in Files, Read(file)
  PROVE  /\ RowInv'
         /\ \A p \in SectionRange' : secs'[p].vma = 0 /\ (secs'[p].live => secs'[p].order >= 0)
<1>1. /\ TypeInv /\ RowInv
      /\ \A p \in SectionRange : secs[p].vma = 0 /\ (secs[p].live => secs[p].order >= 0)
  BY EarlyFacts
<1>2. /\ objects'[Len(objects) + 1] = file
      /\ \A o \in DOMAIN objects : objects'[o] = objects[o]
      /\ \A p \in SectionRange : secs'[p] = secs[p]
      /\ \A p \in SectionRange' \ SectionRange :
           /\ ~secs'[p].live /\ secs'[p].order = -1 /\ secs'[p].vma = 0
           /\ secs'[p].object = Len(objects) + 1 /\ secs'[p].index \in Collected(file)
           /\ secs'[p].kind = classify_section(file.sections[secs'[p].index])
  BY <1>1, ReadEffect
<1>3. ASSUME NEW p \in SectionRange'
      PROVE  /\ Header(p)'.size > 0 /\ Header(p)'.type \in {"progbits", "nobits"}
             /\ secs'[p].kind = classify_section(Header(p)')
  <2>1. CASE p \in SectionRange
    <3>1. secs'[p] = secs[p] /\ objects'[secs[p].object] = objects[secs[p].object]
      BY <1>1, <1>2, <2>1, HeaderFacts
    <3>2. Header(p)' = Header(p)
      BY <3>1 DEF Header
    <3> HIDE DEF Header
    <3> QED
      BY <1>1, <2>1, <3>1, <3>2 DEF RowInv
  <2>2. CASE p \notin SectionRange
    <3>1. Header(p)' = file.sections[secs'[p].index] /\ secs'[p].index \in Collected(file)
      BY <1>2, <2>2 DEF Header
    <3>2. Header(p)'.size > 0 /\ Header(p)'.type \in {"progbits", "nobits"}
      BY <3>1 DEF Collected
    <3> QED
      BY <1>2, <2>2, <3>1, <3>2
  <2> QED
    BY <2>1, <2>2
<1>4. RowInv'
  BY <1>3 DEF RowInv, classify_section
<1> QED
  BY <1>1, <1>2, <1>4

LEMMA MarkKeeps ==
  ASSUME LayoutInv, phase \in Early, UNCHANGED objects,
         NEW marked \in SUBSET SectionRange, secs' = mark_section_live(marked)
  PROVE  /\ RowInv'
         /\ \A p \in SectionRange' : secs'[p].vma = 0 /\ (secs'[p].live => secs'[p].order >= 0)
<1>1. /\ TypeInv /\ RowInv /\ at.live \in Nat
      /\ \A p \in SectionRange : secs[p].vma = 0 /\ (secs[p].live => secs[p].order >= 0)
  BY EarlyFacts DEF TypeInv, Loops
<1>2. /\ SectionRange' = SectionRange
      /\ \A p \in SectionRange :
           /\ secs'[p].object = secs[p].object /\ secs'[p].index = secs[p].index
           /\ secs'[p].kind = secs[p].kind /\ secs'[p].vma = secs[p].vma
           /\ secs'[p].live <=> secs[p].live \/ p \in marked
           /\ p \notin marked => secs'[p].order = secs[p].order
           /\ p \in marked => secs'[p].order = at.live + Cardinality({q \in marked : q < p})
  BY <1>1, MarkEffect
<1>3. ASSUME NEW p \in SectionRange PROVE Cardinality({q \in marked : q < p}) \in Nat
  <2>1. SectionRange = 1 .. Len(secs) /\ Len(secs) \in Nat
    BY <1>1 DEF TypeInv, SectionRange
  <2>2. {q \in marked : q < p} \in SUBSET (1 .. Len(secs))
    BY <2>1
  <2> QED
    BY <2>1, <2>2, Finite
<1>4. \A p \in SectionRange : Header(p)' = Header(p) /\ secs'[p].kind = secs[p].kind
  BY <1>2, SameHeader
<1>5. RowInv'
  <2> HIDE DEF Header
  <2>1. SectionRange' = SectionRange
    BY <1>2
  <2> QED
    BY <1>1, <1>4, <2>1 DEF RowInv, classify_section
<1>6. \A p \in SectionRange : secs'[p].vma = 0
  BY <1>1, <1>2
<1>7. ASSUME NEW p \in SectionRange, secs'[p].live PROVE secs'[p].order >= 0
  <2>1. CASE p \in marked
    <3> DEFINE n == Cardinality({q \in marked : q < p})
    <3>1. secs'[p].order = at.live + n /\ n \in Nat
      BY <1>2, <1>3, <2>1
    <3> HIDE DEF n
    <3> QED
      BY <1>1, <3>1
  <2>2. CASE p \notin marked
    BY <1>1, <1>2, <1>7, <2>2
  <2> QED
    BY <2>1, <2>2
<1> QED
  BY <1>2, <1>5, <1>6, <1>7

\* Between two kinds: the bounds of one kind are set where its sections end.
LEMMA BoundsStep ==
  ASSUME LayoutInv, TypeInv', layout_sections
  PROVE  LayoutInv'
<1>1. /\ phase = "layout" /\ phase # "failed" /\ Waiting(Kinds[at.kind]) = {}
      /\ UNCHANGED <<input, objects, secs, image, listed>>
      /\ SectionRange' = SectionRange
  BY DEF layout_sections, SectionRange
<1>2. /\ TypeInv /\ RowInv /\ KeptInv /\ PlacedInv /\ CursorInv /\ SitsInv /\ ApartInv /\ ListInv
  BY <1>1 DEF LayoutInv
<1>3. Now = at.kind /\ Now \in 1 .. 5 /\ layout \in Layouts /\ layout' \in Layouts
  BY <1>1, NowFacts DEF TypeInv
<1> SUFFICES ASSUME phase' # "failed" PROVE LayoutInv'
  BY DEF LayoutInv
<1>4. Now' = Now + 1 /\ phase' \in {"layout", "globals"}
      /\ (Now = 5 => layout.flash - AppBase <= MaxOutput)
  <2>1. CASE Now = 5
    <3>1. Kinds[at.kind] = "bss"
      BY <1>3, <2>1 DEF Kinds
    <3>2. layout.flash - AppBase <= MaxOutput /\ phase' = "globals"
      <4>1. layout.flash - AppBase \in Int /\ MaxOutput \in Int
        BY <1>3, ConstFacts DEF Layouts, Pos
      <4> QED
        BY <3>1, <4>1 DEF layout_sections
    <3> QED
      BY <2>1, <3>2 DEF Now, Early
  <2>2. CASE Now # 5
    <3>1. Kinds[at.kind] # "bss"
      BY <1>3, <2>2 DEF Kinds
    <3>2. phase' = "layout" /\ at'.kind = at.kind + 1
      BY <1>1, <1>2, <3>1 DEF layout_sections, TypeInv, Loops
    <3> QED
      BY <1>3, <2>2, <3>2 DEF Now, Early
  <2> QED
    BY <2>1, <2>2
<1>5. \A p \in SectionRange : SamePlace(p) /\ Header(p)' = Header(p) /\ Align(p)' = Align(p)
  BY <1>1 DEF SamePlace, SameRow, Header, Align
<1>6. RowInv' /\ KeptInv'
  <2>1. RowInv'
    BY <1>1, <1>2 DEF RowInv, classify_section, Header
  <2>2. KeptInv'
    BY <1>1, <1>2, <1>4 DEF KeptInv, Kept
  <2> QED
    BY <2>1, <2>2
<1>7. PlacedInv'
  <2> SUFFICES ASSUME NEW p \in SectionRange
               PROVE  /\ secs[p].vma # 0 => secs[p].live /\ Rank(secs[p].kind) <= Now + 1
                      /\ secs[p].live /\ Rank(secs[p].kind) < Now + 1 => secs[p].vma # 0
    BY <1>1, <1>4 DEF PlacedInv, Rank
  <2>1. secs[p].kind \in KindNames /\ Rank(secs[p].kind) \in 1 .. 5
        /\ secs[p].kind = Kinds[Rank(secs[p].kind)]
    BY <1>1, RowFacts, KindFacts
  <2>2. ASSUME secs[p].live, Rank(secs[p].kind) = Now PROVE secs[p].vma # 0
    <3>1. secs[p].kind = Kinds[at.kind]
      BY <1>3, <2>1, <2>2
    <3> QED
      BY <1>1, <2>2, <3>1 DEF Waiting
  <2> QED
    BY <1>2, <1>3, <2>1, <2>2 DEF PlacedInv
<1>8. Placed' = Placed /\ Placed \subseteq SectionRange
  BY <1>1 DEF Placed, SectionRange
<1> DEFINE flash == align_up(layout.flash, Unit)
           ram == align_up(layout.ram, Unit)
<1>9. flash \in Nat /\ flash >= layout.flash /\ ram \in Nat /\ ram >= layout.ram
  BY <1>3, ConstFacts, AlignedUp DEF Layouts
<1>10. /\ Now \in {1, 2} => layout' = layout
       /\ Now = 3 => layout' = [layout EXCEPT !.flash = flash, !.text_end = flash, !.ram = ram,
                                               !.data_source = flash, !.data_start = ram]
       /\ Now = 4 => layout' = [layout EXCEPT !.data_end = layout.ram, !.ram = ram, !.bss_start = ram]
       /\ Now = 5 => layout' = [layout EXCEPT !.bss_end = ram]
  BY <1>3 DEF layout_sections, Kinds
<1> HIDE DEF flash, ram
<1>11. /\ layout.flash \in Nat /\ layout.ram \in Nat /\ layout.text_end \in Nat
       /\ layout.data_start \in Nat /\ layout.data_end \in Nat /\ layout.bss_start \in Nat
       /\ layout.bss_end \in Nat /\ AppBase \in Nat /\ RamBase \in Nat /\ MaxOutput \in Nat
  BY <1>3, ConstFacts DEF Layouts, Pos
<1>12. /\ layout'.flash >= layout.flash /\ layout'.ram >= layout.ram
       /\ layout'.text_start = layout.text_start
       /\ Now # 3 => layout'.flash = layout.flash /\ layout'.text_end = layout.text_end
                     /\ layout'.data_start = layout.data_start
       /\ Now = 3 => layout'.flash = flash /\ layout'.text_end = flash /\ layout'.ram = ram
                     /\ layout'.data_start = ram
       /\ Now = 4 => layout'.data_end = layout.ram /\ layout'.ram = ram /\ layout'.bss_start = ram
       /\ Now = 5 => layout'.bss_end = ram /\ layout'.ram = layout.ram
                     /\ layout'.data_end = layout.data_end /\ layout'.bss_start = layout.bss_start
       /\ layout'.flash \in Nat /\ layout'.ram \in Nat
  <2>1. CASE Now \in {1, 2}
    BY <1>10, <1>11, <2>1
  <2>2. CASE Now = 3
    BY <1>3, <1>9, <1>10, <1>11, <2>2 DEF Layouts
  <2>3. CASE Now = 4
    <3>1. layout' = [layout EXCEPT !.data_end = layout.ram, !.ram = ram, !.bss_start = ram]
      BY <1>10, <2>3
    <3>2. /\ layout'.data_end = layout.ram /\ layout'.ram = ram /\ layout'.bss_start = ram
          /\ layout'.flash = layout.flash /\ layout'.text_start = layout.text_start
          /\ layout'.text_end = layout.text_end /\ layout'.data_start = layout.data_start
      BY <1>3, <3>1 DEF Layouts
    <3> QED
      BY <1>9, <1>11, <2>3, <3>2
  <2>4. CASE Now = 5
    BY <1>3, <1>9, <1>10, <1>11, <2>4 DEF Layouts
  <2> QED
    BY <1>3, <2>1, <2>2, <2>3, <2>4
<1>13. CursorInv'
  BY <1>2, <1>3, <1>4, <1>9, <1>11, <1>12 DEF CursorInv
<1>14. \A kind \in KindNames : Rank(kind) <= Now =>
         /\ Low(kind)' = Low(kind) /\ High(kind)' >= High(kind)
         /\ High(kind)' \in Nat /\ High(kind) \in Nat
  BY <1>3, <1>4, <1>9, <1>11, <1>12 DEF Low, High, Rank, KindNames
<1>15. SitsInv'
  <2> SUFFICES ASSUME NEW p \in Placed PROVE Sits(p)'
    BY <1>8 DEF SitsInv
  <2>1. Rank(secs[p].kind) <= Now /\ SamePlace(p)
    BY <1>2, <1>5, <1>8 DEF PlacedInv, Placed
  <2>2. secs[p].kind = "data" => layout'.text_end = layout.text_end
    BY <1>3, <1>12, <2>1 DEF Rank
  <2>3. image' = image
    BY <1>1
  <2> QED
    BY <1>1, <1>3, <1>12, <1>14, <2>1, <2>2, <2>3, SitsOn
<1>16. ApartInv'
  BY <1>1, <1>2, <1>5, <1>8, ApartOn DEF ApartInv
<1>17. ListInv'
  BY <1>1, <1>2, <1>4 DEF ListInv
<1> QED
  BY <1>6, <1>7, <1>13, <1>15, <1>16, <1>17 DEF LayoutInv

LEMMA ToPlace ==
  ASSUME LayoutInv, phase = "layout", NEW kind, kind = Kinds[at.kind], Waiting(kind) # {}
  PROVE  \E p \in Waiting(kind) :
           /\ p = NextToPlace(kind) /\ p \in SectionRange /\ secs[p].kind = kind
           /\ Header(p).size \in Nat /\ Header(p).size > 0 /\ Align(p) \in Pos
           /\ Header(p).type \in {"progbits", "nobits"}
           /\ \A v \in Nat : /\ align_up(v, Align(p)) \in Nat /\ align_up(v, Align(p)) >= v
                              /\ align_up(v, Align(p)) % Align(p) = 0
<1>1. TypeInv /\ phase # "failed"
  BY DEF LayoutInv
<1>2. PICK p \in Waiting(kind) : p = NextToPlace(kind) /\ p \in SectionRange
  BY <1>1, NextToPlaceIn
<1>3. Align(p) \in Pos /\ secs[p].kind = kind
  BY <1>1, <1>2, RowFacts DEF Waiting
<1> QED
  BY <1>1, <1>2, <1>3, RowFacts, AlignedUp, AlignedMultiple

LEMMA FlashStep ==
  ASSUME LayoutInv, TypeInv', layout_flash_sections, phase' # "failed"
  PROVE  LayoutInv'
<1>1. phase = "layout" /\ phase # "failed" /\ UNCHANGED <<input, at, objects, words, listed>>
  BY DEF layout_flash_sections
<1>2. /\ TypeInv /\ layout \in Layouts /\ layout.flash \in Nat /\ layout.ram \in Nat
      /\ AppBase \in Nat /\ layout.flash >= AppBase
  BY <1>1, NowFacts, ConstFacts DEF LayoutInv, CursorInv, Layouts, Pos
<1>3. PICK kind : kind = Kinds[at.kind]
  OBVIOUS
<1>4. kind \in FlashKinds /\ Waiting(kind) # {}
  BY <1>3 DEF layout_flash_sections, FlashKinds
<1>5. PICK p \in Waiting(kind) :
        /\ p = NextToPlace(kind) /\ p \in SectionRange /\ secs[p].kind = kind
        /\ Header(p).size \in Nat /\ Header(p).size > 0 /\ Align(p) \in Pos
        /\ Header(p).type \in {"progbits", "nobits"}
        /\ \A v \in Nat : /\ align_up(v, Align(p)) \in Nat /\ align_up(v, Align(p)) >= v
                           /\ align_up(v, Align(p)) % Align(p) = 0
  BY <1>1, <1>3, <1>4, ToPlace
<1> DEFINE start == align_up(layout.flash, Align(p))
           n == Header(p).size
           o == start - AppBase
<1>6. /\ start \in Nat /\ start >= layout.flash /\ start % Align(p) = 0 /\ n \in Nat
      /\ o \in Int /\ start >= AppBase /\ start # 0
  <2>1. start \in Nat /\ start >= layout.flash /\ start % Align(p) = 0 /\ n \in Nat
    BY <1>2, <1>5
  <2> HIDE DEF start, n
  <2> QED
    BY <1>2, <2>1, ConstFacts DEF Pos
<1>7. PlaceAt(p, start, start)
      /\ layout' = IF Fits(p, o) THEN [layout EXCEPT !.flash = start + n] ELSE layout
  BY <1>3, <1>5 DEF layout_flash_sections
<1>8. /\ phase' = "layout" /\ image' = copy_section_bytes(p, o)
      /\ secs' = [secs EXCEPT ![p].vma = start, ![p].lma = start, ![p].offset = o]
      /\ layout' = [layout EXCEPT !.flash = start + n]
  BY <1>1, <1>7 DEF PlaceAt, Fail
<1> HIDE DEF start, n, o
<1>9. /\ SectionRange' = SectionRange
      /\ secs'[p].vma = start /\ secs'[p].lma = start /\ secs'[p].offset = o
      /\ \A q \in SectionRange : SameRow(q) /\ secs'[q].order = secs[q].order
                                 /\ (q # p => secs'[q] = secs[q])
  <2>1. TypeInv /\ p \in SectionRange /\ start \in Nat /\ start \in Nat /\ o \in Int
    BY <1>2, <1>5, <1>6
  <2>2. secs' = PlacedRows(p, start, start, o)
    BY <1>8 DEF PlacedRows
  <2> QED
    BY <2>1, <2>2, PlaceEffect DEF SameRow
<1>10. /\ \A i \in Int : i \in DOMAIN image /\ i < o => i \in DOMAIN image' /\ image'[i] = image[i]
       /\ Header(p).type = "progbits" =>
            \A b \in 0 .. n - 1 : o + b \in DOMAIN image' /\ image'[o + b] = <<p, b>>
  BY <1>2, <1>5, <1>6, <1>8, Copies DEF n
<1>11. \A i \in Int : i + AppBase < layout.flash => i < o
  BY <1>2, <1>6 DEF o
<1>12. layout'.flash = start + n /\ layout'.ram = layout.ram /\ layout'.flash >= layout.flash
       /\ layout' = [layout EXCEPT !.flash = layout'.flash, !.ram = layout'.ram]
  <2>1. layout'.flash = start + n /\ layout'.ram = layout.ram
    BY <1>2, <1>8 DEF Layouts
  <2>2. start + n >= layout.flash
    BY <1>2, <1>6
  <2>3. layout' = [layout EXCEPT !.flash = layout'.flash, !.ram = layout'.ram]
    BY <1>2, <1>8, <2>1 DEF Layouts
  <2> QED
    BY <2>1, <2>2, <2>3
<1>13. Now' = Now /\ Now <= 3
  <2>1. Rank(kind) \in {1, 2, 3} /\ Rank(kind) = at.kind
    BY <1>1, <1>3, <1>4, NowFacts, KindFacts DEF FlashKinds, Rank
  <2> QED
    BY <1>1, <1>8, <2>1 DEF Now, Early
<1>14. Header(p)' = Header(p) /\ Align(p)' = Align(p) /\ secs'[p].kind = kind
  BY <1>1, <1>5, <1>9, SameHeader DEF SameRow
<1>15. Sits(p)'
  <2>1. kind # "data" /\ kind # "bss"
    BY <1>4 DEF FlashKinds
  <2>2. Low(secs[p].kind)' = AppBase /\ High(secs[p].kind)' = start + n
    BY <1>12, <1>13, <1>14, <2>1 DEF Low, High
  <2> HIDE DEF Header, Align, Low, High
  <2>3. start - AppBase = o /\ Header(p).size = n
    BY DEF o, n
  <2> QED
    BY <1>2, <1>6, <1>9, <1>10, <1>12, <1>14, <2>1, <2>2, <2>3 DEF Sits, End
<1> QED
  <2>1. secs'[p].vma # 0 /\ secs'[p].lma >= layout.flash /\ secs[p].kind \in FlashKinds
        /\ layout'.ram >= layout.ram /\ p \in Waiting(Kinds[at.kind])
    BY <1>2, <1>3, <1>4, <1>5, <1>6, <1>9, <1>12
  <2>2. \A i \in Int : i \in DOMAIN image /\ i + AppBase < layout.flash
                        => i \in DOMAIN image' /\ image'[i] = image[i]
    BY <1>10, <1>11
  <2> QED
    BY <1>1, <1>8, <1>9, <1>12, <1>15, <2>1, <2>2, PlaceStep

LEMMA DataStep ==
  ASSUME LayoutInv, TypeInv', layout_data_sections, phase' # "failed"
  PROVE  LayoutInv'
<1>1. phase = "layout" /\ phase # "failed" /\ UNCHANGED <<input, at, objects, words, listed>>
  BY DEF layout_data_sections
<1>2. /\ TypeInv /\ layout \in Layouts /\ layout.flash \in Nat /\ layout.ram \in Nat
      /\ AppBase \in Nat /\ layout.flash >= AppBase /\ RamBase \in Pos /\ layout.ram >= RamBase
      /\ layout.data_start \in Nat /\ layout.text_end \in Nat
  BY <1>1, NowFacts, ConstFacts DEF LayoutInv, CursorInv, Layouts, Pos
<1>3. PICK kind : kind = "data"
  OBVIOUS
<1>4. kind = Kinds[at.kind] /\ Waiting(kind) # {} /\ Now = 4
  BY <1>1, <1>3, NowFacts, KindFacts DEF layout_data_sections, Rank
<1>5. PICK p \in Waiting(kind) :
        /\ p = NextToPlace(kind) /\ p \in SectionRange /\ secs[p].kind = kind
        /\ Header(p).size \in Nat /\ Header(p).size > 0 /\ Align(p) \in Pos
        /\ Header(p).type \in {"progbits", "nobits"}
        /\ \A v \in Nat : /\ align_up(v, Align(p)) \in Nat /\ align_up(v, Align(p)) >= v
                           /\ align_up(v, Align(p)) % Align(p) = 0
  BY <1>1, <1>4, ToPlace
<1> DEFINE flash == align_up(layout.flash, Align(p))
           ram == align_up(layout.ram, Align(p))
           n == Header(p).size
           o == flash - AppBase
<1>6. /\ flash \in Nat /\ flash >= layout.flash /\ n \in Nat /\ o \in Int /\ flash >= AppBase
      /\ ram \in Nat /\ ram >= layout.ram /\ ram % Align(p) = 0 /\ ram # 0
  <2>1. /\ flash \in Nat /\ flash >= layout.flash /\ n \in Nat
        /\ ram \in Nat /\ ram >= layout.ram /\ ram % Align(p) = 0
    BY <1>2, <1>5
  <2> HIDE DEF flash, ram, n
  <2> QED
    BY <1>2, <2>1 DEF Pos
<1>7. /\ PlaceAt(p, ram, flash)
      /\ layout' = IF Fits(p, o) THEN [layout EXCEPT !.ram = ram + n, !.flash = flash + n] ELSE layout
  BY <1>3, <1>5 DEF layout_data_sections
<1>8. /\ phase' = "layout" /\ image' = copy_section_bytes(p, o)
      /\ secs' = [secs EXCEPT ![p].vma = ram, ![p].lma = flash, ![p].offset = o]
      /\ layout' = [layout EXCEPT !.ram = ram + n, !.flash = flash + n]
  BY <1>1, <1>7 DEF PlaceAt, Fail
<1> HIDE DEF flash, ram, n, o
<1>9. /\ SectionRange' = SectionRange
      /\ secs'[p].vma = ram /\ secs'[p].lma = flash /\ secs'[p].offset = o
      /\ \A q \in SectionRange : SameRow(q) /\ secs'[q].order = secs[q].order
                                 /\ (q # p => secs'[q] = secs[q])
  <2>1. TypeInv /\ p \in SectionRange /\ ram \in Nat /\ flash \in Nat /\ o \in Int
    BY <1>2, <1>5, <1>6
  <2>2. secs' = PlacedRows(p, ram, flash, o)
    BY <1>8 DEF PlacedRows
  <2> QED
    BY <2>1, <2>2, PlaceEffect DEF SameRow
<1>10. /\ \A i \in Int : i \in DOMAIN image /\ i < o => i \in DOMAIN image' /\ image'[i] = image[i]
       /\ Header(p).type = "progbits" =>
            \A b \in 0 .. n - 1 : o + b \in DOMAIN image' /\ image'[o + b] = <<p, b>>
  BY <1>2, <1>5, <1>6, <1>8, Copies DEF n
<1>11. \A i \in Int : i + AppBase < layout.flash => i < o
  BY <1>2, <1>6 DEF o
<1>12. /\ layout'.flash = flash + n /\ layout'.ram = ram + n
       /\ layout'.text_end = layout.text_end /\ layout'.data_start = layout.data_start
       /\ layout' = [layout EXCEPT !.flash = layout'.flash, !.ram = layout'.ram]
  BY <1>2, <1>6, <1>8 DEF Layouts
<1>13. Now' = Now /\ layout.text_end <= layout.flash /\ layout.data_start <= layout.ram
  BY <1>1, <1>4, <1>8 DEF Now, Early, LayoutInv, CursorInv
<1>14. Header(p)' = Header(p) /\ Align(p)' = Align(p) /\ secs'[p].kind = "data"
  BY <1>1, <1>3, <1>5, <1>9, SameHeader DEF SameRow
<1>15. Sits(p)'
  <2>1. Low(secs[p].kind)' = layout.data_start /\ High(secs[p].kind)' = ram + n
    BY <1>4, <1>12, <1>13, <1>14 DEF Low, High
  <2> HIDE DEF Header, Align, Low, High
  <2>2. flash - AppBase = o /\ Header(p).size = n
    BY DEF o, n
  <2>3. layout.data_start <= ram /\ layout.text_end <= flash
    BY <1>2, <1>6, <1>13
  <2> QED
    BY <1>2, <1>6, <1>9, <1>10, <1>12, <1>14, <2>1, <2>2, <2>3 DEF Sits, End, FlashKinds
<1> QED
  <2>1. secs'[p].vma # 0 /\ secs'[p].lma >= layout.flash /\ secs'[p].vma >= layout.ram
        /\ layout'.flash >= layout.flash /\ layout'.ram >= layout.ram /\ p \in Waiting(Kinds[at.kind])
    BY <1>2, <1>4, <1>5, <1>6, <1>9, <1>12
  <2>2. \A i \in Int : i \in DOMAIN image /\ i + AppBase < layout.flash
                        => i \in DOMAIN image' /\ image'[i] = image[i]
    BY <1>10, <1>11
  <2> QED
    BY <1>1, <1>8, <1>9, <1>12, <1>15, <2>1, <2>2, PlaceStep

LEMMA BssStep ==
  ASSUME LayoutInv, TypeInv', layout_bss_sections
  PROVE  LayoutInv'
<1>1. phase = "layout" /\ phase' = "layout" /\ phase # "failed"
      /\ UNCHANGED <<input, at, objects, image, listed>>
  BY DEF layout_bss_sections
<1>2. /\ TypeInv /\ layout \in Layouts /\ layout.flash \in Nat /\ layout.ram \in Nat
      /\ RamBase \in Pos /\ layout.ram >= RamBase /\ layout.bss_start \in Nat
  BY <1>1, NowFacts, ConstFacts DEF LayoutInv, CursorInv, Layouts, Pos
<1>3. PICK kind : kind = "bss"
  OBVIOUS
<1>4. kind = Kinds[at.kind] /\ Waiting(kind) # {} /\ Now = 5
  BY <1>1, <1>3, NowFacts, KindFacts DEF layout_bss_sections, Rank
<1>5. PICK p \in Waiting(kind) :
        /\ p = NextToPlace(kind) /\ p \in SectionRange /\ secs[p].kind = kind
        /\ Header(p).size \in Nat /\ Header(p).size > 0 /\ Align(p) \in Pos
        /\ Header(p).type \in {"progbits", "nobits"}
        /\ \A v \in Nat : /\ align_up(v, Align(p)) \in Nat /\ align_up(v, Align(p)) >= v
                           /\ align_up(v, Align(p)) % Align(p) = 0
  BY <1>1, <1>4, ToPlace
<1> DEFINE ram == align_up(layout.ram, Align(p))
           n == Header(p).size
<1>6. ram \in Nat /\ ram >= layout.ram /\ ram % Align(p) = 0 /\ ram # 0 /\ n \in Nat
  <2>1. ram \in Nat /\ ram >= layout.ram /\ ram % Align(p) = 0 /\ n \in Nat
    BY <1>2, <1>5
  <2> HIDE DEF ram, n
  <2> QED
    BY <1>2, <2>1 DEF Pos
<1>7. /\ secs' = [secs EXCEPT ![p].vma = ram, ![p].lma = 0, ![p].offset = 0]
      /\ layout' = [layout EXCEPT !.ram = ram + n]
  BY <1>3, <1>5 DEF layout_bss_sections
<1> HIDE DEF ram, n
<1>8. /\ SectionRange' = SectionRange /\ secs'[p].vma = ram
      /\ \A q \in SectionRange : SameRow(q) /\ secs'[q].order = secs[q].order
                                 /\ (q # p => secs'[q] = secs[q])
  <2>1. TypeInv /\ p \in SectionRange /\ ram \in Nat /\ 0 \in Nat /\ 0 \in Int
    BY <1>2, <1>5, <1>6
  <2>2. secs' = PlacedRows(p, ram, 0, 0)
    BY <1>7 DEF PlacedRows
  <2> QED
    BY <2>1, <2>2, PlaceEffect DEF SameRow
<1>9. /\ layout'.flash = layout.flash /\ layout'.ram = ram + n /\ layout'.bss_start = layout.bss_start
       /\ layout' = [layout EXCEPT !.flash = layout'.flash, !.ram = layout'.ram]
  BY <1>2, <1>6, <1>7 DEF Layouts
<1>10. Now' = Now /\ layout.bss_start <= layout.ram
  BY <1>1, <1>4 DEF Now, Early, LayoutInv, CursorInv
<1>11. Header(p)' = Header(p) /\ Align(p)' = Align(p) /\ secs'[p].kind = "bss"
  BY <1>1, <1>3, <1>5, <1>8, SameHeader DEF SameRow
<1>12. Sits(p)'
  <2>1. Low(secs[p].kind)' = layout.bss_start /\ High(secs[p].kind)' = ram + n
    BY <1>4, <1>9, <1>10, <1>11 DEF Low, High
  <2> HIDE DEF Header, Align, Low, High
  <2>2. layout.bss_start <= ram /\ Header(p).size = n
    BY <1>2, <1>6, <1>10 DEF n
  <2> QED
    BY <1>6, <1>8, <1>11, <2>1, <2>2 DEF Sits, End, FlashKinds
<1> QED
  <2>1. secs'[p].vma # 0 /\ secs[p].kind = "bss" /\ secs'[p].vma >= layout.ram
        /\ layout'.flash >= layout.flash /\ layout'.ram >= layout.ram /\ p \in Waiting(Kinds[at.kind])
    BY <1>2, <1>3, <1>4, <1>5, <1>6, <1>8, <1>9
  <2> QED
    BY <1>1, <1>8, <1>9, <1>12, <2>1, PlaceStep

Later == {"globals", "relocate", "map", "done"}

LEMMA LaterFacts ==
  ASSUME LayoutInv, phase \in Later
  PROVE  /\ Now = 6 /\ phase # "failed" /\ layout \in Layouts
         /\ TypeInv /\ RowInv /\ KeptInv /\ PlacedInv /\ CursorInv /\ SitsInv /\ ApartInv /\ ListInv
         /\ Placed = Kept /\ Kept \subseteq SectionRange
<1>1. Now = 6 /\ phase # "failed"
  BY DEF Now, Early, Later
<1>2. TypeInv /\ RowInv /\ KeptInv /\ PlacedInv /\ CursorInv /\ SitsInv /\ ApartInv /\ ListInv
  BY <1>1 DEF LayoutInv
<1>3. \A p \in SectionRange : Rank(secs[p].kind) \in 1 .. 5
  BY <1>1, RowFacts
<1>4. \A p \in SectionRange : secs[p].live <=> secs[p].vma # 0
  BY <1>1, <1>2, <1>3 DEF PlacedInv
<1> QED
  BY <1>1, <1>2, <1>4, NowFacts DEF Kept, Placed

\* Flash lies below RAM, and so do the sections in it.
LEMMA FlashBelowRam ==
  ASSUME LayoutInv, phase \in Later, NEW p \in Placed, NEW q \in Placed,
         secs[p].kind \in FlashKinds, secs[q].kind \notin FlashKinds
  PROVE  End(p, secs[p].vma) <= secs[q].vma
<1>1. Now = 6 /\ CursorInv /\ Sits(p) /\ Sits(q) /\ layout \in Layouts /\ phase # "failed"
  BY LaterFacts DEF SitsInv
<1>2. p \in SectionRange /\ q \in SectionRange
  BY DEF Placed
<1>3. /\ secs[p].vma \in Nat /\ secs[q].vma \in Nat /\ Header(p).size \in Nat
      /\ secs[q].kind \in KindNames
  BY <1>1, <1>2, RowFacts
<1>4. /\ layout.flash \in Nat /\ layout.data_start \in Nat /\ layout.data_end \in Nat
      /\ layout.bss_start \in Nat /\ AppBase \in Nat /\ RamBase \in Nat /\ MaxOutput \in Nat
  BY <1>1, ConstFacts DEF Layouts, Pos
<1>5. End(p, secs[p].vma) <= layout.flash
  BY <1>1 DEF Sits, FlashKinds
<1>6. layout.flash <= RamBase
  BY <1>1, <1>4, FlashAssumption DEF CursorInv
<1>7. RamBase <= secs[q].vma
  <2>1. Low(secs[q].kind) \in {layout.data_start, layout.bss_start} /\ Low(secs[q].kind) <= secs[q].vma
    BY <1>1, <1>3 DEF Sits, Low, KindNames, FlashKinds
  <2>2. RamBase <= layout.data_start /\ RamBase <= layout.bss_start
    BY <1>1, <1>4 DEF CursorInv
  <2> QED
    BY <1>3, <1>4, <2>1, <2>2
<1> QED
  BY <1>3, <1>4, <1>5, <1>6, <1>7 DEF End

LEMMA SpansApart ==
  ASSUME LayoutInv, phase \in Later, NEW p \in Placed, NEW q \in Placed, p # q
  PROVE  End(p, secs[p].vma) <= secs[q].vma \/ End(q, secs[q].vma) <= secs[p].vma
<1>1. Apart(p, q) /\ Sits(p) /\ Sits(q)
  BY LaterFacts DEF SitsInv, ApartInv
<1>2. CASE secs[p].kind \in FlashKinds /\ secs[q].kind \in FlashKinds
  BY <1>1, <1>2 DEF Apart, Sits, FlashKinds
<1>3. CASE secs[p].kind \notin FlashKinds /\ secs[q].kind \notin FlashKinds
  BY <1>1, <1>3 DEF Apart
<1> QED
  BY <1>2, <1>3, FlashBelowRam

\* The map takes the lowest of those not listed.
LEMMA ListStep ==
  ASSUME LayoutInv, TypeInv', write_map
  PROVE  LayoutInv'
<1>1. phase = "map" /\ UNCHANGED <<input, at, objects, layout, image>>
  BY DEF write_map
<1>2. /\ Now = 6 /\ phase # "failed" /\ TypeInv /\ RowInv /\ KeptInv /\ PlacedInv /\ CursorInv /\ SitsInv
      /\ ApartInv /\ ListInv /\ Placed = Kept /\ Kept \subseteq SectionRange
  BY <1>1, LaterFacts DEF Later
<1>3. phase' \in {"map", "done"} /\ Now' = 6
  BY <1>1 DEF write_map, Now, Early
<1>4. CASE Unlisted = {}
  <2>1. phase' = "done" /\ UNCHANGED <<secs, listed>>
    BY <1>4 DEF write_map
  <2>2. SectionRange' = SectionRange /\ (\A p \in SectionRange : SamePlace(p)) /\ Unlisted' = Unlisted
        /\ Kept' = Kept
    BY <2>1 DEF SectionRange, SamePlace, SameRow, Unlisted, Kept
  <2>3. RowInv' /\ PlacedInv' /\ CursorInv' /\ SitsInv' /\ ApartInv'
    BY <1>1, <1>2, <1>3, <2>2, SameInv
  <2>4. KeptInv'
    BY <1>1, <1>2, <2>1, <2>2 DEF KeptInv
  <2>5. ListInv'
    BY <1>1, <1>2, <1>4, <2>1, <2>2 DEF ListInv
  <2> QED
    BY <2>3, <2>4, <2>5 DEF LayoutInv
<1>5. CASE Unlisted # {}
  <2>1. PICK m \in Unlisted :
          /\ m = NextListed /\ m \in SectionRange
          /\ \A q \in Unlisted : secs[m].vma < secs[q].vma \/ (secs[m].vma = secs[q].vma /\ m <= q)
    BY <1>2, <1>5, NextListedIn
  <2>2. phase' = "map" /\ listed' = Append(listed, m) /\ secs' = [secs EXCEPT ![m].order = -1]
    BY <1>1, <1>5, <2>1 DEF write_map
  <2>3. /\ SectionRange' = SectionRange /\ secs'[m].order = -1
        /\ \A p \in SectionRange :
              /\ secs'[p].object = secs[p].object /\ secs'[p].index = secs[p].index
              /\ secs'[p].kind = secs[p].kind /\ secs'[p].live = secs[p].live
              /\ secs'[p].vma = secs[p].vma /\ secs'[p].lma = secs[p].lma
              /\ secs'[p].offset = secs[p].offset
              /\ p # m => secs'[p] = secs[p]
    BY <1>2, <2>1, <2>2, ListEffect
  <2>4. (\A p \in SectionRange : SamePlace(p)) /\ Kept' = Kept
    BY <2>3 DEF SamePlace, SameRow, Kept
  <2>5. RowInv' /\ PlacedInv' /\ CursorInv' /\ SitsInv' /\ ApartInv'
    BY <1>1, <1>2, <1>3, <2>3, <2>4, SameInv
  <2>6. m \in Kept /\ listed \in Seq(Kept)
    BY <1>2, <2>1 DEF Unlisted, Kept, ListInv
  <2>7. /\ listed' \in Seq(Kept) /\ Len(listed') = Len(listed) + 1 /\ Len(listed) \in Nat
        /\ DOMAIN listed = 1 .. Len(listed) /\ DOMAIN listed' = 1 .. Len(listed) + 1
        /\ listed'[Len(listed) + 1] = m /\ \A i \in DOMAIN listed : listed'[i] = listed[i]
    BY <2>2, <2>6
  <2>8. \A i \in DOMAIN listed : listed[i] \in Kept /\ listed[i] \in SectionRange
    BY <1>2, <2>6
  <2>9. /\ \A i, j \in DOMAIN listed : i < j => secs[listed[i]].vma < secs[listed[j]].vma
        /\ \A i \in DOMAIN listed : secs[listed[i]].order = -1
        /\ \A i \in DOMAIN listed : \A p \in Unlisted : secs[listed[i]].vma < secs[p].vma
    BY <1>1, <1>2 DEF ListInv
  <2>10. KeptInv'
    <3> SUFFICES ASSUME NEW p \in Kept, secs'[p].order = -1 PROVE p \in ToSet(listed')
      BY <2>2, <2>4 DEF KeptInv
    <3>1. CASE p = m
      BY <2>7, <3>1 DEF ToSet
    <3>2. CASE p # m
      <4>1. p \in ToSet(listed)
        BY <1>1, <1>2, <2>3, <3>2 DEF KeptInv
      <4>2. PICK i \in DOMAIN listed : p = listed[i]
        BY <4>1 DEF ToSet
      <4>3. i \in DOMAIN listed' /\ p = listed'[i]
        BY <2>7, <4>2
      <4> QED
        BY <4>3 DEF ToSet
    <3> QED
      BY <3>1, <3>2
  <2>11. ASSUME NEW p \in Unlisted, p # m PROVE secs[m].vma < secs[p].vma
    <3>1. p \in Placed /\ m \in Placed /\ p \in SectionRange
      BY <1>2, <2>1 DEF Unlisted, Placed
    <3>2. /\ secs[p].vma \in Nat /\ secs[m].vma \in Nat
          /\ Header(p).size \in Nat /\ Header(p).size > 0
          /\ Header(m).size \in Nat /\ Header(m).size > 0
      BY <1>2, <2>1, <3>1, RowFacts
    <3>3. End(p, secs[p].vma) <= secs[m].vma \/ End(m, secs[m].vma) <= secs[p].vma
      BY <1>1, <2>11, <3>1, SpansApart DEF Later
    <3>4. secs[m].vma < secs[p].vma \/ secs[m].vma = secs[p].vma
      BY <2>1
    <3> QED
      BY <3>2, <3>3, <3>4 DEF End
  <2>12. Unlisted' = Unlisted \ {m}
    <3>1. ASSUME NEW p \in SectionRange
          PROVE  secs'[p].live /\ secs'[p].vma # 0 /\ secs'[p].order >= 0
                 <=> secs[p].live /\ secs[p].vma # 0 /\ secs[p].order >= 0 /\ p # m
      BY <2>3
    <3> QED
      BY <2>3, <3>1 DEF Unlisted
  <2>13. ASSUME NEW i \in DOMAIN listed', NEW j \in DOMAIN listed', i < j
         PROVE  secs'[listed'[i]].vma < secs'[listed'[j]].vma
    <3>1. i \in DOMAIN listed /\ listed'[i] = listed[i] /\ secs'[listed[i]].vma = secs[listed[i]].vma
      BY <2>3, <2>7, <2>8, <2>13
    <3>2. CASE j \in DOMAIN listed
      BY <2>3, <2>7, <2>8, <2>9, <2>13, <3>1, <3>2
    <3>3. CASE j \notin DOMAIN listed
      <4>1. listed'[j] = m /\ secs'[m].vma = secs[m].vma
        BY <2>1, <2>3, <2>7, <2>13, <3>3
      <4> QED
        BY <2>1, <2>9, <3>1, <4>1
    <3> QED
      BY <3>2, <3>3
  <2>14. ASSUME NEW i \in DOMAIN listed'
         PROVE  /\ secs'[listed'[i]].order = -1
                /\ \A p \in Unlisted' : secs'[listed'[i]].vma < secs'[p].vma
    <3>1. \A p \in Unlisted' : p \in Unlisted /\ p # m /\ secs'[p].vma = secs[p].vma
      BY <2>3, <2>12 DEF Unlisted
    <3>2. CASE i \in DOMAIN listed
      <4>1. listed'[i] = listed[i] /\ secs'[listed[i]].vma = secs[listed[i]].vma
            /\ secs'[listed[i]].order = -1
        BY <2>3, <2>7, <2>8, <2>9, <3>2
      <4> QED
        BY <2>9, <3>1, <3>2, <4>1
    <3>3. CASE i \notin DOMAIN listed
      <4>1. listed'[i] = m /\ secs'[m].vma = secs[m].vma
        BY <2>1, <2>3, <2>7, <3>3
      <4> QED
        BY <2>3, <2>11, <3>1, <4>1
    <3> QED
      BY <3>2, <3>3
  <2>15. ListInv'
    BY <2>2, <2>4, <2>7, <2>13, <2>14 DEF ListInv
  <2> QED
    BY <2>5, <2>10, <2>15 DEF LayoutInv
<1> QED
  BY <1>4, <1>5

\* After the layout nothing of it changes until the map is written.
LEMMA LaterSteps ==
  ASSUME LayoutInv, TypeInv', phase \in {"globals", "relocate"},
         phase' \in Later, UNCHANGED <<input, objects, secs, layout, image, listed>>,
         phase' = "done" => ~input.map
  PROVE  LayoutInv'
<1>1. Now = 6 /\ Now' = 6 /\ phase # "failed" /\ KeptInv /\ ListInv /\ listed = <<>>
  BY LaterFacts DEF Later, Now, Early, ListInv
<1>2. /\ SectionRange' = SectionRange /\ Kept' = Kept /\ Kept \subseteq SectionRange
      /\ \A p \in SectionRange : SamePlace(p)
  BY DEF SectionRange, Kept, SamePlace, SameRow
<1>3. RowInv' /\ PlacedInv' /\ CursorInv' /\ SitsInv' /\ ApartInv'
  BY <1>1, <1>2, SameInv
<1>4. KeptInv'
  <2>1. \A p \in Kept : secs'[p].order >= 0
    BY <1>1 DEF KeptInv
  <2> QED
    BY <1>2, <2>1 DEF KeptInv
<1>5. ListInv'
  BY <1>1, <1>2 DEF ListInv
<1> QED
  BY <1>3, <1>4, <1>5 DEF LayoutInv

LEMMA LayoutStep ==
  ASSUME LayoutInv, [Next]_vars
  PROVE  LayoutInv'
<1>1. TypeInv /\ TypeInv'
  BY TypeStep DEF LayoutInv
<1>2. ASSUME phase' = "failed" PROVE LayoutInv'
  BY <1>1, <1>2 DEF LayoutInv
<1>3. ASSUME phase \in Early, phase' \in Early \cup {"layout"},
             UNCHANGED <<objects, secs, layout, listed>>, at'.kind = at.kind
      PROVE  LayoutInv'
  <2>1. /\ RowInv
        /\ \A p \in SectionRange : secs[p].vma = 0 /\ (secs[p].live => secs[p].order >= 0)
    BY <1>3, EarlyFacts
  <2>2. SectionRange' = SectionRange /\ \A p \in SectionRange : Header(p)' = Header(p)
    BY <1>3 DEF SectionRange, Header
  <2>3. RowInv'
    <3> HIDE DEF Header
    <3> QED
      BY <1>3, <2>1, <2>2 DEF RowInv, classify_section
  <2> QED
    BY <1>1, <1>3, <2>1, <2>2, <2>3, EarlySteps
<1>4. ASSUME phase \in Early, NEW file \in Files, Read(file), phase' \in Early,
             UNCHANGED <<layout, listed>>, at'.kind = at.kind
      PROVE  LayoutInv'
  BY <1>1, <1>4, ReadKeeps, EarlySteps
<1>5. ASSUME phase \in Early, UNCHANGED <<objects, layout, listed>>, at'.kind = at.kind,
             NEW marked \in SUBSET SectionRange, secs' = mark_section_live(marked),
             phase' \in Early \cup {"layout"}
      PROVE  LayoutInv'
  BY <1>1, <1>5, MarkKeeps, EarlySteps
<1>6. at \in Loops /\ objects \in Seq(Files) /\ Len(objects) \in Nat
  BY <1>1 DEF TypeInv
<1>7. CASE ReadObject
  <2>1. phase = "read" /\ Len(objects) < Len(input.objects) /\ UNCHANGED <<layout, listed>>
    BY <1>7 DEF ReadObject
  <2>2. CASE Fail
    BY <1>2, <2>2 DEF Fail
  <2>3. CASE Read(input.objects[Len(objects) + 1]) /\ UNCHANGED <<phase, at>>
    <3>1. input.objects[Len(objects) + 1] \in Files
      <4>1. input.objects \in Seq(Files)
        BY <1>1, InputFacts DEF TypeInv
      <4> HIDE DEF Files
      <4> QED
        BY <1>6, <2>1, <4>1
    <3> QED
      BY <1>4, <2>1, <2>3, <3>1 DEF Early
  <2> QED
    BY <1>7, <2>2, <2>3 DEF ReadObject
<1>8. CASE ReadDone \/ NamesDone
  BY <1>3, <1>8 DEF ReadDone, NamesDone, Early
<1>9. CASE collect_object_global_symbol_names
  <2>1. phase = "names" /\ UNCHANGED <<objects, secs, layout, listed>>
    BY <1>9 DEF collect_object_global_symbol_names
  <2>2. phase' = "failed" \/ (phase' = phase /\ at'.kind = at.kind)
    BY <1>6, <1>9 DEF collect_object_global_symbol_names, add_global_symbol, Fail, Loops
  <2> QED
    BY <1>2, <1>3, <2>1, <2>2 DEF Early
<1>10. CASE NextObject
  <2>1. /\ phase \in {"names", "globals"} /\ phase' = phase /\ at'.kind = at.kind
        /\ UNCHANGED <<input, objects, secs, layout, image, listed>>
    BY <1>6, <1>10 DEF NextObject, Loops
  <2>2. CASE phase = "names"
    BY <1>3, <2>1, <2>2 DEF Early
  <2>3. CASE phase = "globals"
    BY <1>1, <2>1, <2>3, LaterSteps DEF Later
  <2> QED
    BY <2>1, <2>2, <2>3
<1>11. CASE scan_archive_once
  <2> DEFINE members == input.archives[at.archive]
             file == members[at.member]
  <2>1. phase = "archives" /\ at.archive <= Len(input.archives) /\ UNCHANGED <<layout, listed>>
    BY <1>11 DEF scan_archive_once
  <2>2. CASE Fail
    BY <1>2, <2>2 DEF Fail
  <2>3. CASE UNCHANGED <<phase, objects, secs>> /\ at'.kind = at.kind
    BY <1>3, <2>1, <2>3 DEF Early
  <2>4. CASE at.member <= Len(members) /\ Read(file) /\ phase' = "names" /\ at'.kind = at.kind
    <3>1. file \in Files
      <4>1. at.archive \in Pos /\ at.member \in Pos /\ input.archives \in Seq(Seq(Files))
        BY <1>1, <1>6, InputFacts DEF TypeInv, Loops
      <4> HIDE DEF Files
      <4>2. at.archive \in 1 .. Len(input.archives)
        BY <2>1, <4>1 DEF Pos
      <4>3. members \in Seq(Files)
        BY <4>1, <4>2
      <4> QED
        BY <2>4, <4>1, <4>3 DEF Pos
    <3> HIDE DEF file
    <3> QED
      BY <1>4, <2>1, <2>4, <3>1 DEF Early
  <2>5. \/ Fail \/ (UNCHANGED <<phase, objects, secs>> /\ at'.kind = at.kind)
        \/ (~(at.member > Len(members)) /\ Read(file) /\ phase' = "names" /\ at'.kind = at.kind)
    BY <1>6, <1>11 DEF scan_archive_once, Loops
  <2>6. at.member > Len(members) \/ at.member <= Len(members)
    <3>1. at.archive \in Pos /\ at.member \in Pos /\ input.archives \in Seq(Seq(Files))
      BY <1>1, <1>6, InputFacts DEF TypeInv, Loops
    <3> HIDE DEF Files
    <3>2. members \in Seq(Files)
      BY <2>1, <3>1 DEF Pos
    <3> QED
      BY <3>1, <3>2 DEF Pos
  <2> HIDE DEF file, members
  <2> QED
    BY <2>2, <2>3, <2>4, <2>5, <2>6
<1>12. CASE resolve_archives
  <2>1. /\ phase = "archives" /\ phase' \in {"archives", "mark"} /\ at'.kind = at.kind
        /\ UNCHANGED <<objects, secs, layout, listed>>
    BY <1>6, <1>12 DEF resolve_archives, Loops
  <2> QED
    BY <1>3, <2>1 DEF Early
<1>13. CASE mark_roots
  <2>1. /\ phase = "mark" /\ UNCHANGED <<objects, layout, listed>> /\ at'.kind = at.kind
        /\ phase' \in {"reach", "layout"}
    BY <1>6, <1>13 DEF mark_roots, Loops
  <2>2. \E marked \in SUBSET SectionRange : secs' = mark_section_live(marked)
    BY <1>13 DEF mark_roots
  <2> QED
    BY <1>5, <2>1, <2>2 DEF Early
<1>14. CASE mark_reachable_sections
  <2>1. phase = "reach" /\ UNCHANGED <<objects, layout, listed>>
    BY <1>14 DEF mark_reachable_sections
  <2> DEFINE target == symbol_target_section(secs[at.section].object,
                                             objects[secs[at.section].object].rels[at.rel].symbol)
  <2>2. \/ Fail \/ (UNCHANGED <<phase, secs>> /\ at'.kind = at.kind)
        \/ (/\ target # NoSection /\ target # Failed /\ secs' = mark_section_live({target})
            /\ UNCHANGED phase /\ at'.kind = at.kind)
    BY <1>6, <1>14 DEF mark_reachable_sections, Loops
  <2>3. target \in SectionRange \cup {NoSection, Failed}
    BY TargetRange
  <2> HIDE DEF target
  <2>4. CASE Fail
    BY <1>2, <2>4 DEF Fail
  <2>5. CASE UNCHANGED <<phase, secs>> /\ at'.kind = at.kind
    BY <1>3, <2>1, <2>5 DEF Early
  <2>6. CASE /\ target # NoSection /\ target # Failed /\ secs' = mark_section_live({target})
             /\ UNCHANGED phase /\ at'.kind = at.kind
    <3>1. {target} \in SUBSET SectionRange
      BY <2>3, <2>6
    <3> QED
      BY <1>5, <2>1, <2>6, <3>1 DEF Early
  <2> QED
    BY <2>2, <2>4, <2>5, <2>6
<1>15. CASE NextSection
  <2>1. /\ phase = "reach" /\ phase' = phase /\ at'.kind = at.kind
        /\ UNCHANGED <<objects, secs, layout, listed>>
    BY <1>6, <1>15 DEF NextSection, Loops
  <2> QED
    BY <1>3, <2>1 DEF Early
<1>16. CASE PassDone
  <2>1. /\ phase = "reach" /\ phase' \in {"reach", "layout"} /\ at'.kind = at.kind
        /\ UNCHANGED <<objects, secs, layout, listed>>
    BY <1>6, <1>16 DEF PassDone, Loops
  <2> QED
    BY <1>3, <2>1 DEF Early
<1>17. CASE layout_flash_sections
  BY <1>1, <1>2, <1>17, FlashStep
<1>18. CASE layout_data_sections
  BY <1>1, <1>2, <1>18, DataStep
<1>19. CASE layout_bss_sections
  BY <1>1, <1>19, BssStep
<1>20. CASE layout_sections
  BY <1>1, <1>20, BoundsStep
<1>21. CASE collect_global_symbols
  <2>1. phase = "globals" /\ UNCHANGED <<input, objects, secs, layout, image, listed>>
        /\ phase' \in {"globals", "failed"}
    BY <1>21 DEF collect_global_symbols, add_global_symbol, Fail
  <2> QED
    BY <1>1, <1>2, <2>1, LaterSteps DEF Later
<1>22. CASE GlobalsDone
  BY <1>1, <1>22, LaterSteps DEF GlobalsDone, Later
<1>23. CASE apply_relocations
  <2>1. phase = "relocate" /\ UNCHANGED <<input, objects, secs, layout, image, listed>>
        /\ phase' \in {"relocate", "failed"}
    BY <1>23 DEF apply_relocations, Fail
  <2> QED
    BY <1>1, <1>2, <2>1, LaterSteps DEF Later
<1>24. CASE NextRelocations
  BY <1>1, <1>24, LaterSteps DEF NextRelocations, Later
<1>25. CASE RelocationsDone
  BY <1>1, <1>25, LaterSteps DEF RelocationsDone, Later
<1>26. CASE write_map
  BY <1>1, <1>26, ListStep
<1>27. CASE UNCHANGED vars
  <2>1. UNCHANGED <<input, phase, at, objects, secs, layout, image, listed>>
    BY <1>27 DEF vars
  <2> SUFFICES ASSUME phase # "failed" PROVE LayoutInv'
    BY <1>1, <2>1 DEF LayoutInv
  <2>2. /\ SectionRange' = SectionRange /\ Now' = Now /\ Kept' = Kept /\ Unlisted' = Unlisted
        /\ \A p \in SectionRange : SamePlace(p)
    BY <2>1 DEF SectionRange, Now, Kept, Unlisted, SamePlace, SameRow
  <2>3. RowInv' /\ PlacedInv' /\ CursorInv' /\ SitsInv' /\ ApartInv'
    BY <2>1, <2>2, SameInv
  <2>4. KeptInv' /\ ListInv'
    BY <2>1, <2>2 DEF LayoutInv, KeptInv, ListInv
  <2> QED
    BY <1>1, <2>3, <2>4 DEF LayoutInv
<1> QED
  BY <1>7, <1>8, <1>9, <1>10, <1>11, <1>12, <1>13, <1>14, <1>15, <1>16, <1>17, <1>18, <1>19, <1>20,
     <1>21, <1>22, <1>23, <1>24, <1>25, <1>26, <1>27 DEF Next

LEMMA PlacedWell ==
  ASSUME LayoutInv, Linked, NEW p \in Kept
  PROVE  WellPlaced(p) /\ (Header(p).type = "progbits" => Loaded(p))
<1>1. phase \in Later
  BY DEF Linked, Later
<1>2. /\ Now = 6 /\ phase # "failed" /\ layout \in Layouts /\ CursorInv /\ RowInv /\ ApartInv
      /\ Placed = Kept /\ Kept \subseteq SectionRange /\ SitsInv
  BY <1>1, LaterFacts
<1>3. ASSUME NEW q \in Kept
      PROVE  /\ q \in SectionRange /\ q \in Placed /\ Sits(q)
             /\ secs[q].kind \in KindNames /\ secs[q].vma \in Nat /\ secs[q].lma \in Nat
             /\ secs[q].offset \in Int /\ Header(q).size \in Nat /\ Header(q).size > 0
  BY <1>2, RowFacts DEF SitsInv
<1>4. /\ layout.text_start = AppBase /\ layout.text_end \in Nat /\ layout.data_start \in Nat
      /\ layout.data_end \in Nat /\ layout.bss_start \in Nat /\ layout.bss_end \in Nat
      /\ layout.flash \in Nat /\ AppBase \in Nat
  BY <1>2, ConstFacts DEF CursorInv, Layouts, Pos
<1> DEFINE v == secs[p].vma
           n == Header(p).size
           kind == secs[p].kind
<1>5. Span(p, v) \subseteq Bounds(kind)
  <2>1. Low(kind) <= v /\ v + n <= High(kind) /\ v \in Nat /\ n \in Nat /\ kind \in KindNames
    BY <1>3 DEF Sits, End
  <2>2. Bounds(kind) = Low(kind) .. High(kind) - 1 /\ Low(kind) \in Nat /\ High(kind) \in Nat
    BY <1>2, <1>4, <2>1 DEF Bounds, Low, High, KindNames
  <2> HIDE DEF v, n, kind
  <2>3. Span(p, v) = v .. v + n - 1
    BY DEF Span, n
  <2> QED
    BY <2>1, <2>2, <2>3
<1>6. ASSUME NEW q \in Kept, q # p PROVE Span(p, v) \cap Span(q, secs[q].vma) = {}
  <2>1. v + n <= secs[q].vma \/ secs[q].vma + Header(q).size <= v
    BY <1>1, <1>3, <1>6, SpansApart DEF End
  <2>2. /\ Span(p, v) = v .. v + n - 1
        /\ Span(q, secs[q].vma) = secs[q].vma .. secs[q].vma + Header(q).size - 1
    BY DEF Span
  <2>3. v \in Nat /\ n \in Nat /\ secs[q].vma \in Nat /\ Header(q).size \in Nat
    BY <1>3
  <2> HIDE DEF v, n
  <2> QED
    BY <2>1, <2>2, <2>3
<1>7. ASSUME kind = "vectors", NEW q \in InFlash, secs[q].kind # "vectors"
      PROVE  secs[p].lma < secs[q].lma
  <2>1. q \in Kept /\ q # p /\ secs[q].kind # "bss"
    BY <1>7 DEF InFlash
  <2>2. Apart(p, q)
    BY <1>2, <2>1 DEF ApartInv
  <2> QED
    BY <1>7, <2>1, <2>2 DEF Apart
<1>8. WellPlaced(p)
  <2>1. v % Align(p) = 0
    BY <1>3 DEF Sits
  <2> QED
    BY <1>5, <1>6, <1>7, <2>1 DEF WellPlaced
<1>9. ASSUME Header(p).type = "progbits" PROVE Loaded(p)
  <2>1. kind # "bss"
    BY <1>2, <1>9 DEF RowInv, classify_section
  <2>2. /\ secs[p].lma + n <= layout.flash /\ secs[p].offset = secs[p].lma - AppBase
        /\ \A b \in 0 .. n - 1 : /\ secs[p].offset + b \in DOMAIN image
                                 /\ image[secs[p].offset + b] = <<p, b>>
    BY <1>3, <1>9, <2>1 DEF Sits, End
  <2>3. secs[p].lma \in Nat /\ n \in Nat
    BY <1>3
  <2>4. ASSUME NEW b \in 0 .. n - 1 PROVE secs[p].offset + b < layout.flash - AppBase
    <3> HIDE DEF n
    <3> QED
      BY <1>4, <2>2, <2>3
  <2> QED
    BY <2>2, <2>4 DEF Loaded
<1> QED
  BY <1>8, <1>9

LEMMA ListedAll ==
  ASSUME LayoutInv, phase = "done", input.map
  PROVE  /\ ToSet(listed) = Kept /\ Len(listed) = Cardinality(Kept)
         /\ \A i, j \in DOMAIN listed : i < j => secs[listed[i]].vma < secs[listed[j]].vma
<1>1. /\ phase # "failed" /\ KeptInv /\ PlacedInv /\ ListInv /\ Placed = Kept /\ Kept \subseteq SectionRange
  BY LaterFacts DEF Later
<1>2. /\ listed \in Seq(Kept) /\ Unlisted = {}
      /\ \A i, j \in DOMAIN listed : i < j => secs[listed[i]].vma < secs[listed[j]].vma
  BY <1>1 DEF ListInv
<1>3. ToSet(listed) \subseteq Kept
  BY <1>2 DEF ToSet
<1>4. ASSUME NEW p \in Kept PROVE p \in ToSet(listed)
  <2>1. p \in SectionRange /\ secs[p].live /\ secs[p].vma # 0 /\ secs[p].order \in Nat \cup {-1}
    BY <1>1, RowFacts DEF Kept, Placed
  <2>2. ~(secs[p].order >= 0)
    BY <1>2, <2>1 DEF Unlisted
  <2>3. secs[p].order = -1
    BY <2>1, <2>2
  <2> QED
    BY <1>1, <2>3 DEF KeptInv
<1>5. ToSet(listed) = Kept
  BY <1>3, <1>4
<1> DEFINE n == Len(listed)
<1>6. n \in Nat /\ listed \in [1 .. n -> Kept] /\ DOMAIN listed = 1 .. n
  BY <1>2
<1>7. \A i, j \in 1 .. n : listed[i] = listed[j] => i = j
  <2> SUFFICES ASSUME NEW i \in 1 .. n, NEW j \in 1 .. n, listed[i] = listed[j], i # j PROVE FALSE
    OBVIOUS
  <2>1. i < j \/ j < i
    BY <1>6
  <2>2. secs[listed[i]].vma \in Nat
    BY <1>1, <1>6, RowFacts
  <2>3. ~(secs[listed[i]].vma < secs[listed[i]].vma)
    BY <2>2
  <2> QED
    BY <1>2, <1>6, <2>1, <2>3
<1>8. \A p \in Kept : \E i \in 1 .. n : listed[i] = p
  BY <1>5, <1>6 DEF ToSet
<1>9. listed \in Bijection(1 .. n, Kept)
  <2> HIDE DEF n
  <2> QED
    BY <1>6, <1>7, <1>8 DEF Bijection, Injection, Surjection, IsInjective
<1>10. Cardinality(Kept) = n
  <2> HIDE DEF n
  <2> QED
    BY <1>6, <1>9, FS_CountingElements DEF ExistsBijection
<1> QED
  BY <1>2, <1>5, <1>10

\* The image is laid out as the start-up code is told: every kept section aligned
\* in the bounds of its kind, apart from the others, its bytes in the image as the
\* file has them, the vector table first; and the map lists each section once.
THEOREM LaysOut == Spec => []LayoutSound
<1>1. LayoutInv => LayoutSound
  <2> SUFFICES ASSUME LayoutInv PROVE LayoutSound
    OBVIOUS
  <2>1. ASSUME Linked, NEW p \in Kept
        PROVE  WellPlaced(p) /\ (Header(p).type = "progbits" => Loaded(p))
    BY <2>1, PlacedWell
  <2>2. phase = "done" /\ input.map =>
          /\ ToSet(listed) = Kept /\ Len(listed) = Cardinality(Kept)
          /\ \A i, j \in DOMAIN listed : i < j => secs[listed[i]].vma < secs[listed[j]].vma
    BY ListedAll
  <2> HIDE DEF WellPlaced, Loaded, Header
  <2> QED
    BY <2>1, <2>2 DEF LayoutSound
<1> QED
  BY <1>1, LayoutInit, LayoutStep, PTL DEF Spec

-----------------------------------------------------------------------------
(* References                                                               *)

\* The definitions that the loop over the names has passed.
Seen(o, i) ==
  /\ phase # "read" /\ o \in DOMAIN objects /\ i \in DOMAIN objects[o].symbols
  /\ Defines(Symbol(o, i)) /\ (phase = "names" => Passed(o, i))
Entry(n) == <<globals[n].object, globals[n].symbol>>
\* The entry of a name is a definition of that name: the only strong one, or
\* the first of the weak ones if there is none.
EntryFor(n) ==
  LET e == globals[n]
  IN  /\ Seen(e.object, e.symbol) /\ Symbol(e.object, e.symbol).name = n
      /\ Symbol(e.object, e.symbol).bind = e.bind
      /\ \A o \in DOMAIN objects : \A i \in DOMAIN objects[o].symbols :
           Seen(o, i) /\ Symbol(o, i).name = n =>
             /\ Symbol(o, i).bind = "global" => <<o, i>> = Entry(n)
             /\ e.bind = "weak" => Before(Entry(n), <<o, i>>)
EntryInv == \A n \in DOMAIN globals : EntryFor(n)
KnownInv ==
  \A o \in DOMAIN objects : \A i \in DOMAIN objects[o].symbols :
    Seen(o, i) => Symbol(o, i).name \in DOMAIN globals
\* A section of a file has one row.
UniqueInv ==
  \A p, q \in SectionRange : secs[p].object = secs[q].object /\ secs[p].index = secs[q].index => p = q
\* What refers is kept with what it refers to, from the layout on.
KeptClosedInv ==
  phase \in {"layout"} \cup Later =>
    \A p \in SectionRange : IF input.gc THEN secs[p].live => Targets(p) \subseteq Kept ELSE secs[p].live
\* The entries that the second loop over the names has passed hold the
\* addresses of their definitions.
ValueOf(n) ==
  LET e == globals[n]
      sym == Symbol(e.object, e.symbol)
      own == find_input_section(e.object, sym.section)
  IN  /\ sym.section = ABS => e.value = sym.value
      /\ sym.section # ABS /\ own # NoSection => (secs[own].live => e.value = secs[own].vma + sym.value)
ValueInv ==
  phase \in Later => \A n \in DOMAIN globals :
    (phase = "globals" => Passed(globals[n].object, globals[n].symbol)) => ValueOf(n)
\* The relocations passed have written their words, and nothing has overwritten them.
RelPassed(o, k) == o < at.object \/ (o = at.object /\ k < at.rel)
WordOf(p, r, value) ==
  CASE r.type = "abs32" -> (value + r.addend) % WordMod
    [] r.type = "rel32" -> Reach(secs[p], r, value)
    [] r.type = "call" -> apply_thumb_call(Signed(Reach(secs[p], r, value)))
Written(o, k) ==
  LET r == objects[o].rels[k]
      p == find_input_section(o, r.section)
      value == symbol_value(o, r.symbol)
      where == secs[p].offset + r.offset
  IN  p # NoSection => (secs[p].live =>
        /\ r.type # "other" /\ value # Failed
        /\ r.type = "call" => InRange(Signed(Reach(secs[p], r, value)))
        /\ where \in DOMAIN words /\ words[where] = WordOf(p, r, value))
WordsInv ==
  phase \in {"relocate", "map", "done"} =>
    \A o \in DOMAIN objects : \A k \in DOMAIN objects[o].rels :
      (phase = "relocate" => RelPassed(o, k)) => Written(o, k)
WellInv == \A o \in DOMAIN objects : WellFormed(objects[o])
ResolveInv ==
  /\ SearchInv /\ MarkInv /\ LayoutInv /\ WellInv /\ UniqueInv
  /\ phase # "failed" => EntryInv /\ KnownInv /\ KeptClosedInv /\ ValueInv /\ WordsInv

\* A step that neither reads files nor enters names.
SameEntries ==
  /\ DOMAIN globals' = DOMAIN globals
  /\ \A n \in DOMAIN globals : /\ globals'[n].object = globals[n].object
                               /\ globals'[n].symbol = globals[n].symbol
                               /\ globals'[n].bind = globals[n].bind
LEMMA EntriesStay ==
  ASSUME EntryInv, KnownInv, UNCHANGED objects, SameEntries,
         \A o \in DOMAIN objects : \A i \in DOMAIN objects[o].symbols : Seen(o, i)' <=> Seen(o, i)
  PROVE  EntryInv' /\ KnownInv'
<1>1. ASSUME NEW n \in DOMAIN globals PROVE EntryFor(n)'
  <2>1. EntryFor(n) /\ Entry(n)' = Entry(n) /\ globals'[n].bind = globals[n].bind
    BY DEF EntryInv, Entry, SameEntries
  <2>2. /\ globals'[n].object = globals[n].object /\ globals'[n].symbol = globals[n].symbol
        /\ Seen(globals[n].object, globals[n].symbol)
    BY <2>1 DEF SameEntries, EntryFor
  <2>3. globals[n].object \in DOMAIN objects
        /\ globals[n].symbol \in DOMAIN objects[globals[n].object].symbols
    BY <2>2 DEF Seen
  <2>4. Seen(globals[n].object, globals[n].symbol)'
    <3>1. PICK o \in DOMAIN objects : o = globals[n].object
      BY <2>3
    <3>2. PICK i \in DOMAIN objects[o].symbols : i = globals[n].symbol
      BY <2>3, <3>1
    <3>3. Seen(o, i)'
      BY <2>2, <3>1, <3>2
    <3> QED
      BY <2>2, <3>1, <3>2, <3>3 DEF Seen, Passed, Symbol
  <2>5. ASSUME NEW o \in DOMAIN objects, NEW i \in DOMAIN objects[o].symbols,
               Seen(o, i)', Symbol(o, i).name = n
        PROVE  /\ Symbol(o, i).bind = "global" => <<o, i>> = Entry(n)
               /\ globals[n].bind = "weak" => Before(Entry(n), <<o, i>>)
    BY <2>1, <2>5 DEF EntryFor
  <2>6. \A o, i : Symbol(o, i)' = Symbol(o, i)
    BY DEF Symbol
  <2>7. Symbol(globals[n].object, globals[n].symbol).name = n
        /\ Symbol(globals[n].object, globals[n].symbol).bind = globals[n].bind
    BY <2>1 DEF EntryFor
  <2> HIDE DEF Seen, Symbol, Entry, Before
  <2>8. Symbol(globals[n].object, globals[n].symbol)' = Symbol(globals[n].object, globals[n].symbol)
    BY <2>2 DEF Symbol
  <2>9. ASSUME NEW o \in DOMAIN objects', NEW i \in DOMAIN objects'[o].symbols,
               Seen(o, i)', Symbol(o, i)'.name = n
        PROVE  /\ Symbol(o, i)'.bind = "global" => <<o, i>> = Entry(n)'
               /\ globals'[n].bind = "weak" => Before(Entry(n)', <<o, i>>)
    BY <2>1, <2>5, <2>6, <2>9
  <2> QED
    BY <2>1, <2>4, <2>7, <2>8, <2>9 DEF EntryFor, Before
<1>2. EntryInv'
  BY <1>1 DEF EntryInv, SameEntries
<1>3. KnownInv'
  <2>1. \A o, i : Symbol(o, i)' = Symbol(o, i)
    BY DEF Symbol
  <2> HIDE DEF Seen, Symbol
  <2> QED
    BY <2>1 DEF KnownInv, SameEntries
<1> QED
  BY <1>2, <1>3

LEMMA ObjectFacts ==
  ASSUME TypeInv, NEW o \in DOMAIN objects
  PROVE  /\ objects[o] \in Files /\ o \in Nat /\ o >= 1 /\ o <= Len(objects)
         /\ DOMAIN objects[o].symbols = 1 .. Len(objects[o].symbols) /\ Len(objects[o].symbols) \in Nat
         /\ DOMAIN objects[o].rels = 1 .. Len(objects[o].rels) /\ Len(objects[o].rels) \in Nat
         /\ at.object \in Nat /\ at.symbol \in Nat /\ at.rel \in Nat
         /\ at.object >= 1 /\ at.symbol >= 1 /\ at.rel >= 1
<1>1. objects \in Seq(Files) /\ at \in Loops
  BY DEF TypeInv
<1>2. objects[o] \in Files /\ o \in Nat /\ o >= 1 /\ o <= Len(objects)
  <2> HIDE DEF Files
  <2> QED
    BY <1>1
<1>3. /\ at.object \in Nat /\ at.symbol \in Nat /\ at.rel \in Nat
      /\ at.object >= 1 /\ at.symbol >= 1 /\ at.rel >= 1
  BY <1>1 DEF Loops, Pos
<1> QED
  BY <1>2, <1>3, FileFacts

\* A name is entered: the symbol at the cursor is the latest that is seen.
LEMMA AddFirst ==
  ASSUME TypeInv, EntryInv, KnownInv, phase = "names", UNCHANGED <<phase, objects>>,
         NEW o \in DOMAIN objects, NEW i \in DOMAIN objects[o].symbols, at.object = o, at.symbol = i,
         Defines(Symbol(o, i)), at' = [at EXCEPT !.symbol = i + 1],
         ~Duplicate(Symbol(o, i), o, i), NEW v,
         globals' = IF Replaces(Symbol(o, i), o, i)
                    THEN [n \in DOMAIN globals \cup {Symbol(o, i).name} |->
                            IF n = Symbol(o, i).name THEN Global(Symbol(o, i), v, o, i) ELSE globals[n]]
                    ELSE globals
  PROVE  EntryInv' /\ KnownInv'
<1> DEFINE sym == Symbol(o, i)
           name == Symbol(o, i).name
<1>1. /\ \A a, b : Symbol(a, b)' = Symbol(a, b)
      /\ at'.object = o /\ at'.symbol = i + 1
  BY DEF Symbol, TypeInv, Loops
<1>2. ASSUME NEW a \in DOMAIN objects, NEW b \in DOMAIN objects[a].symbols
      PROVE  /\ Seen(a, b)' <=> Seen(a, b) \/ (a = o /\ b = i)
             /\ Seen(a, b) => ~(a = o /\ b = i) /\ Before(<<a, b>>, <<o, i>>)
  <2>1. a \in Nat /\ o \in Nat /\ b \in Nat /\ i \in Nat
    BY ObjectFacts
  <2> HIDE DEF Symbol
  <2> QED
    BY <1>1, <2>1 DEF Seen, Passed, Before
<1>3. Before(<<o, i>>, <<o, i>>)
  <2>1. o \in Nat /\ i \in Nat
    BY ObjectFacts
  <2> QED
    BY <2>1 DEF Before
<1> HIDE DEF Before, Symbol
\* Entries of other names.
<1>4. ASSUME NEW n \in DOMAIN globals, n \in DOMAIN globals', globals'[n] = globals[n],
             n = name => sym.bind # "global" /\ Symbol(globals[n].object, globals[n].symbol).name = name
      PROVE  EntryFor(n)'
  <2> DEFINE e == globals[n]
  <2>1. EntryFor(n) /\ Entry(n)' = Entry(n)
    BY <1>4 DEF EntryInv, Entry
  <2>2. e.object \in DOMAIN objects /\ e.symbol \in DOMAIN objects[e.object].symbols
        /\ Seen(e.object, e.symbol) /\ Symbol(e.object, e.symbol).name = n
        /\ Symbol(e.object, e.symbol).bind = e.bind
    BY <2>1 DEF EntryFor, Seen
  <2>3. Seen(e.object, e.symbol)' /\ Before(Entry(n), <<o, i>>)
    BY <1>2, <1>4, <2>2 DEF Seen, Entry
  <2>4. ASSUME NEW a \in DOMAIN objects, NEW b \in DOMAIN objects[a].symbols,
               Seen(a, b)', Symbol(a, b).name = n
        PROVE  /\ Symbol(a, b).bind = "global" => <<a, b>> = Entry(n)
               /\ e.bind = "weak" => Before(Entry(n), <<a, b>>)
    <3>1. CASE Seen(a, b)
      BY <2>1, <2>4, <3>1 DEF EntryFor
    <3>2. CASE a = o /\ b = i
      BY <1>4, <2>3, <2>4, <3>2
    <3> QED
      BY <1>2, <2>4, <3>1, <3>2
  <2>5. Symbol(globals[n].object, globals[n].symbol)' = Symbol(e.object, e.symbol)
    BY <1>4 DEF Symbol
  <2>6. Before(Entry(n)', <<o, i>>) = Before(Entry(n), <<o, i>>)
    BY <2>1
  <2>7. ASSUME NEW a \in DOMAIN objects', NEW b \in DOMAIN objects'[a].symbols,
               Seen(a, b)', Symbol(a, b)'.name = n
        PROVE  /\ Symbol(a, b)'.bind = "global" => <<a, b>> = Entry(n)'
               /\ globals'[n].bind = "weak" => Before(Entry(n)', <<a, b>>)
    BY <1>1, <1>4, <2>1, <2>4, <2>7
  <2>8. Seen(globals[n].object, globals[n].symbol)'
    BY <1>4, <2>3 DEF Seen, Passed, Symbol
  <2> HIDE DEF Seen, Entry
  <2> QED
    BY <1>4, <2>2, <2>5, <2>7, <2>8 DEF EntryFor, Before
\* The entry of this name, if it is this symbol now.
<1>5. ASSUME NEW n, n = name, n \in DOMAIN globals', globals'[n] = Global(sym, v, o, i),
             \A a \in DOMAIN objects : \A b \in DOMAIN objects[a].symbols :
               Seen(a, b) /\ Symbol(a, b).name = n => Symbol(a, b).bind # "global" /\ sym.bind = "global"
      PROVE  EntryFor(n)'
  <2>1. /\ globals'[n].object = o /\ globals'[n].symbol = i /\ globals'[n].bind = sym.bind
        /\ Entry(n)' = <<o, i>>
    BY <1>5 DEF Global, Entry
  <2>2. Seen(o, i)'
    BY <1>2
  <2>3. ASSUME NEW a \in DOMAIN objects, NEW b \in DOMAIN objects[a].symbols,
               Seen(a, b)', Symbol(a, b).name = n
        PROVE  /\ Symbol(a, b).bind = "global" => <<a, b>> = <<o, i>>
               /\ sym.bind = "weak" => Before(<<o, i>>, <<a, b>>)
    <3>1. CASE Seen(a, b)
      BY <1>5, <2>3, <3>1
    <3>2. CASE a = o /\ b = i
      BY <1>3, <3>2
    <3> QED
      BY <1>2, <2>3, <3>1, <3>2
  <2>4. Symbol(globals[n].object, globals[n].symbol)' = Symbol(o, i)
    BY <2>1, ZenonT(20) DEF Symbol
  <2>5. Seen(globals[n].object, globals[n].symbol)'
    BY <2>1, <2>2 DEF Seen, Passed, Symbol
  <2>6. ASSUME NEW a \in DOMAIN objects', NEW b \in DOMAIN objects'[a].symbols,
               Seen(a, b)', Symbol(a, b)'.name = n
        PROVE  /\ Symbol(a, b)'.bind = "global" => <<a, b>> = Entry(n)'
               /\ globals'[n].bind = "weak" => Before(Entry(n)', <<a, b>>)
    BY <1>1, <2>1, <2>3, <2>6
  <2> HIDE DEF Seen, Entry
  <2> QED
    BY <1>5, <2>1, <2>4, <2>5, <2>6 DEF EntryFor, Before
<1>6. CASE name \notin DOMAIN globals
  <2>1. /\ DOMAIN globals' = DOMAIN globals \cup {name} /\ globals'[name] = Global(sym, v, o, i)
        /\ \A n \in DOMAIN globals : globals'[n] = globals[n] /\ n # name
    BY <1>6 DEF Replaces
  <2>2. \A a \in DOMAIN objects : \A b \in DOMAIN objects[a].symbols :
          ~(Seen(a, b) /\ Symbol(a, b).name = name)
    BY <1>6 DEF KnownInv
  <2>3. \A n \in DOMAIN globals' : EntryFor(n)'
    <3> SUFFICES ASSUME NEW n \in DOMAIN globals' PROVE EntryFor(n)'
      OBVIOUS
    <3>1. CASE n \in DOMAIN globals
      BY <1>4, <2>1, <3>1
    <3>2. CASE n = name
      BY <1>5, <2>1, <2>2, <3>2
    <3> QED
      BY <2>1, <3>1, <3>2
  <2> QED
    BY <1>1, <1>2, <2>1, <2>3 DEF EntryInv, KnownInv
<1>7. CASE name \in DOMAIN globals
  <2> DEFINE e == globals[name]
  <2>1. /\ EntryFor(name) /\ Symbol(e.object, e.symbol).name = name
        /\ Symbol(e.object, e.symbol).bind = e.bind
        /\ e.object \in DOMAIN objects /\ e.symbol \in DOMAIN objects[e.object].symbols
        /\ Seen(e.object, e.symbol)
    BY <1>7 DEF EntryInv, EntryFor, Seen
  <2>2. <<e.object, e.symbol>> # <<o, i>>
    BY <1>2, <2>1
  <2>3. sym.bind \in {"global", "weak"} /\ e.bind \in {"global", "weak"}
    <3>1. sym \in Symbols /\ Symbol(e.object, e.symbol) \in Symbols
      <4>1. \A a \in DOMAIN objects : objects[a].symbols \in Seq(Symbols)
        BY ObjectFacts, FileFacts
      <4> HIDE DEF Symbols
      <4>2. \A a \in DOMAIN objects : \A b \in DOMAIN objects[a].symbols : Symbol(a, b) \in Symbols
        BY <4>1 DEF Symbol
      <4> QED
        BY <2>1, <4>2
    <3>2. sym.bind \in {"local", "global", "weak"}
          /\ Symbol(e.object, e.symbol).bind \in {"local", "global", "weak"}
      BY <3>1 DEF Symbols
    <3> QED
      BY <2>1, <3>2 DEF Defines, Seen
  <2>4. CASE e.bind = "weak" /\ sym.bind = "global"
    <3>1. /\ DOMAIN globals' = DOMAIN globals /\ globals'[name] = Global(sym, v, o, i)
          /\ \A n \in DOMAIN globals : n # name => globals'[n] = globals[n]
      BY <1>7, <2>4 DEF Replaces
    <3>2. ASSUME NEW a \in DOMAIN objects, NEW b \in DOMAIN objects[a].symbols,
                 Seen(a, b), Symbol(a, b).name = name, Symbol(a, b).bind = "global"
          PROVE  FALSE
      <4>1. <<a, b>> = Entry(name)
        BY <2>1, <3>2 DEF EntryFor
      <4> QED
        BY <2>1, <2>4, <3>2, <4>1 DEF Entry
    <3>3. \A n \in DOMAIN globals' : EntryFor(n)'
      <4> SUFFICES ASSUME NEW n \in DOMAIN globals' PROVE EntryFor(n)'
        OBVIOUS
      <4>1. CASE n # name
        BY <1>4, <3>1, <4>1
      <4>2. CASE n = name
        BY <1>5, <2>4, <3>1, <3>2, <4>2
      <4> QED
        BY <4>1, <4>2
    <3> QED
      BY <1>1, <1>2, <1>7, <3>1, <3>3 DEF EntryInv, KnownInv
  <2>5. CASE ~(e.bind = "weak" /\ sym.bind = "global")
    <3>1. sym.bind # "global" /\ globals' = globals
      BY <1>7, <2>2, <2>3, <2>5 DEF Duplicate, Replaces
    <3>2. \A n \in DOMAIN globals' : EntryFor(n)'
      BY <1>4, <2>1, <3>1
    <3> QED
      BY <1>1, <1>2, <1>7, <3>1, <3>2 DEF EntryInv, KnownInv
  <2> QED
    BY <2>4, <2>5
<1> QED
  BY <1>6, <1>7

\* The second time round the entries are there: only values change.
LEMMA AddAgain ==
  ASSUME EntryInv, KnownInv, phase = "globals", phase' # "failed",
         NEW o \in DOMAIN objects, NEW i \in DOMAIN objects[o].symbols, Defines(Symbol(o, i)),
         NEW v, add_global_symbol(v, o, i)
  PROVE  /\ SameEntries /\ phase' = phase /\ at' = [at EXCEPT !.symbol = i + 1]
         /\ \A n \in DOMAIN globals :
              /\ n = Symbol(o, i).name /\ Entry(n) = <<o, i>> => globals'[n].value = v
              /\ Entry(n) # <<o, i>> => globals'[n].value = globals[n].value
<1> DEFINE sym == Symbol(o, i)
           name == sym.name
           e == globals[name]
<1>1. Seen(o, i) /\ name \in DOMAIN globals
  BY DEF Seen, KnownInv
<1>2. /\ EntryFor(name) /\ Entry(name) = <<e.object, e.symbol>>
      /\ Symbol(e.object, e.symbol).name = name /\ Symbol(e.object, e.symbol).bind = e.bind
  BY <1>1 DEF EntryInv, EntryFor, Entry
<1>3. sym.bind = "global" => <<o, i>> = Entry(name)
  BY <1>1, <1>2 DEF EntryFor
<1>4. /\ globals' = IF Replaces(sym, o, i)
                    THEN [n \in DOMAIN globals \cup {name} |->
                            IF n = name THEN Global(sym, v, o, i) ELSE globals[n]]
                    ELSE globals
      /\ phase' = phase /\ at' = [at EXCEPT !.symbol = i + 1]
  BY DEF add_global_symbol, Fail
<1> HIDE DEF EntryFor, Symbol, e
<1>5. \A n \in DOMAIN globals : Entry(n) = <<o, i>> => n = name
  <2> SUFFICES ASSUME NEW n \in DOMAIN globals, Entry(n) = <<o, i>> PROVE n = name
    OBVIOUS
  <2>1. Symbol(globals[n].object, globals[n].symbol).name = n
    BY DEF EntryInv, EntryFor
  <2>2. globals[n].object = o /\ globals[n].symbol = i
    BY DEF Entry
  <2> QED
    BY <2>1, <2>2
<1>6. CASE Entry(name) = <<o, i>>
  <2>1. e.object = o /\ e.symbol = i /\ e.bind = sym.bind
    BY <1>2, <1>6 DEF Entry
  <2>2. Replaces(sym, o, i)
    BY <1>2, <1>6 DEF Replaces, e
  <2>3. /\ DOMAIN globals' = DOMAIN globals /\ globals'[name] = Global(sym, v, o, i)
        /\ \A n \in DOMAIN globals : n # name => globals'[n] = globals[n]
    BY <1>1, <1>4, <2>2
  <2>4. /\ globals'[name].object = e.object /\ globals'[name].symbol = e.symbol
        /\ globals'[name].bind = e.bind /\ globals'[name].value = v
    BY <2>1, <2>3 DEF Global
  <2>5. SameEntries
    BY <2>3, <2>4 DEF SameEntries, e
  <2>6. \A n \in DOMAIN globals : Entry(n) # <<o, i>> => globals'[n].value = globals[n].value
    BY <1>6, <2>3
  <2> QED
    BY <1>4, <2>4, <2>5, <2>6
<1>7. CASE Entry(name) # <<o, i>>
  <2>1. ~Replaces(sym, o, i)
    BY <1>1, <1>2, <1>3, <1>7 DEF Replaces, e
  <2>2. globals' = globals
    BY <1>4, <2>1
  <2> QED
    BY <1>4, <1>5, <1>7, <2>2 DEF SameEntries
<1> QED
  BY <1>6, <1>7

\* Between two phases in which all names are seen.
LEMMA SeenStay ==
  ASSUME UNCHANGED objects, phase \notin {"read", "names"}, phase' \notin {"read", "names"}
  PROVE  \A o, i : Seen(o, i)' <=> Seen(o, i)
  BY DEF Seen, Symbol

LEMMA ReadEntries ==
  ASSUME TypeInv, EntryInv, KnownInv, phase = "archives", phase' = "names", NEW file \in Files,
         Read(file), UNCHANGED globals, at'.object = Len(objects) + 1, at'.symbol = 1
  PROVE  EntryInv' /\ KnownInv'
<1>1. /\ Len(objects') = Len(objects) + 1 /\ Len(objects) \in Nat /\ objects' \in Seq(Files)
      /\ \A o \in DOMAIN objects : o \in DOMAIN objects' /\ objects'[o] = objects[o]
  BY ReadEffect DEF TypeInv
<1> HIDE DEF Files
<1>2. DOMAIN objects' = 1 .. Len(objects) + 1 /\ DOMAIN objects = 1 .. Len(objects)
  BY <1>1 DEF TypeInv
<1>3. ASSUME NEW o \in DOMAIN objects
      PROVE  /\ objects'[o] = objects[o] /\ \A i : Symbol(o, i)' = Symbol(o, i)
             /\ \A i : Seen(o, i)' <=> Seen(o, i)
  <2>1. objects'[o] = objects[o] /\ o \in Nat /\ o < Len(objects) + 1 /\ o \in DOMAIN objects'
    BY <1>1, <1>2
  <2>2. \A i : Symbol(o, i)' = Symbol(o, i)
    BY <2>1 DEF Symbol
  <2> HIDE DEF Symbol
  <2> QED
    BY <2>1, <2>2 DEF Seen, Passed
<1>4. ASSUME NEW o \in DOMAIN objects', o \notin DOMAIN objects, NEW i \in DOMAIN objects'[o].symbols
      PROVE  ~Seen(o, i)'
  <2>1. o = Len(objects) + 1
    BY <1>1, <1>2, <1>4
  <2>2. objects'[o] \in Files
    BY <1>1
  <2>3. i \in Nat /\ i >= 1
    BY <2>2, FileFacts
  <2> QED
    BY <1>1, <2>1, <2>3 DEF Seen, Passed
<1> HIDE DEF Seen, Symbol
<1>5. ASSUME NEW n \in DOMAIN globals PROVE EntryFor(n)'
  <2> DEFINE e == globals[n]
  <2>1. EntryFor(n) /\ Entry(n)' = Entry(n) /\ e.object \in DOMAIN objects
    BY DEF EntryInv, EntryFor, Entry, Seen
  <2>2. Seen(e.object, e.symbol)' /\ Symbol(e.object, e.symbol)' = Symbol(e.object, e.symbol)
    <3>1. PICK o \in DOMAIN objects : o = e.object
      BY <2>1
    <3>2. PICK i : i = e.symbol
      OBVIOUS
    <3>3. Seen(o, i)' /\ Symbol(o, i)' = Symbol(o, i)
      BY <1>3, <2>1, <3>1, <3>2 DEF EntryFor
    <3> QED
      BY <3>1, <3>2, <3>3 DEF Seen, Symbol, Passed
  <2>3. ASSUME NEW o \in DOMAIN objects', NEW i \in DOMAIN objects'[o].symbols,
               Seen(o, i)', Symbol(o, i)'.name = n
        PROVE  /\ Symbol(o, i)'.bind = "global" => <<o, i>> = Entry(n)'
               /\ globals'[n].bind = "weak" => Before(Entry(n)', <<o, i>>)
    <3>1. o \in DOMAIN objects
      BY <1>4, <2>3
    <3>2. i \in DOMAIN objects[o].symbols /\ Seen(o, i) /\ Symbol(o, i) = Symbol(o, i)'
      BY <1>3, <2>3, <3>1
    <3> QED
      BY <2>1, <2>3, <3>1, <3>2 DEF EntryFor
  <2> HIDE DEF Before, Entry
  <2> QED
    BY <2>1, <2>2, <2>3 DEF EntryFor, Before
<1>6. EntryInv'
  BY <1>5 DEF EntryInv
<1>7. ASSUME NEW o \in DOMAIN objects', NEW i \in DOMAIN objects'[o].symbols, Seen(o, i)'
      PROVE  Symbol(o, i)'.name \in DOMAIN globals'
  <2>1. o \in DOMAIN objects
    BY <1>4, <1>7
  <2> QED
    BY <1>3, <1>7, <2>1 DEF KnownInv
<1> QED
  BY <1>6, <1>7 DEF KnownInv

LEMMA EntryInit == Init => EntryInv /\ KnownInv
  BY DEF Init, EntryInv, KnownInv, Seen

LEMMA EntryStep ==
  ASSUME SearchInv, TypeInv', EntryInv, KnownInv, [Next]_vars, phase # "failed", phase' # "failed"
  PROVE  EntryInv' /\ KnownInv'
<1>1. TypeInv /\ RoundInv
  BY DEF SearchInv
<1>2. ASSUME UNCHANGED <<objects, globals>>, phase \notin {"read", "names"},
             phase' \notin {"read", "names"}
      PROVE  EntryInv' /\ KnownInv'
  <2>1. SameEntries
    BY <1>2 DEF SameEntries
  <2> QED
    BY <1>2, <2>1, SeenStay, EntriesStay
<1>3. ASSUME phase = "read" PROVE DOMAIN globals = {}
  BY <1>3 DEF EntryInv, EntryFor, Seen
<1>4. CASE ReadObject
  <2>1. phase = "read" /\ phase' = "read" /\ globals' = globals
    BY <1>4 DEF ReadObject, Fail
  <2> QED
    BY <1>3, <2>1 DEF EntryInv, KnownInv, Seen
<1>5. CASE ReadDone
  <2>1. phase = "read" /\ phase' = "names" /\ UNCHANGED <<objects, globals, at>>
        /\ at.object = 1 /\ at.symbol = 1
    BY <1>1, <1>5 DEF ReadDone, RoundInv
  <2>2. \A o \in DOMAIN objects : \A i \in DOMAIN objects[o].symbols : ~Seen(o, i)'
    <3> SUFFICES ASSUME NEW o \in DOMAIN objects, NEW i \in DOMAIN objects[o].symbols
                 PROVE  ~Seen(o, i)'
      OBVIOUS
    <3>1. o \in Nat /\ o >= 1 /\ i \in Nat /\ i >= 1
      BY <1>1, ObjectFacts
    <3> QED
      BY <2>1, <3>1 DEF Seen, Passed
  <2> QED
    BY <1>3, <2>1, <2>2 DEF EntryInv, KnownInv
<1>6. CASE collect_object_global_symbol_names
  <2>1. PICK o \in DOMAIN objects : o = at.object
    <3>1. at.object <= Len(objects) /\ at.object \in Nat /\ at.object >= 1 /\ Len(objects) \in Nat
          /\ DOMAIN objects = 1 .. Len(objects)
      BY <1>1, <1>6 DEF collect_object_global_symbol_names, TypeInv, Loops, Pos
    <3> QED
      BY <3>1
  <2>2. PICK i \in DOMAIN objects[o].symbols : i = at.symbol
    BY <1>1, <1>6, <2>1, ObjectFacts DEF collect_object_global_symbol_names
  <2>3. phase = "names" /\ objects' = objects
    BY <1>6 DEF collect_object_global_symbol_names
  <2>4. CASE Defines(Symbol(o, i))
    <3>1. add_global_symbol(0, o, i)
      BY <1>6, <2>1, <2>2, <2>4 DEF collect_object_global_symbol_names
    <3>2. /\ phase' = phase /\ at' = [at EXCEPT !.symbol = i + 1] /\ ~Duplicate(Symbol(o, i), o, i)
          /\ globals' = IF Replaces(Symbol(o, i), o, i)
                        THEN [n \in DOMAIN globals \cup {Symbol(o, i).name} |->
                                IF n = Symbol(o, i).name THEN Global(Symbol(o, i), 0, o, i) ELSE globals[n]]
                        ELSE globals
      BY <3>1 DEF add_global_symbol, Fail
    <3> QED
      BY <1>1, <2>1, <2>2, <2>3, <2>4, <3>2, AddFirst
  <2>5. CASE ~Defines(Symbol(o, i))
    <3>1. /\ at'.object = o /\ at'.symbol = i + 1 /\ UNCHANGED <<phase, objects, globals>>
      BY <1>1, <1>6, <2>1, <2>2, <2>5 DEF collect_object_global_symbol_names, TypeInv, Loops
    <3>2. ASSUME NEW a \in DOMAIN objects, NEW b \in DOMAIN objects[a].symbols
          PROVE  Seen(a, b)' <=> Seen(a, b)
      <4>1. a \in Nat /\ o \in Nat /\ b \in Nat /\ i \in Nat
        BY <1>1, ObjectFacts
      <4>2. Symbol(a, b)' = Symbol(a, b)
        BY <3>1 DEF Symbol
      <4> HIDE DEF Symbol
      <4> QED
        BY <2>1, <2>2, <2>5, <3>1, <4>1, <4>2 DEF Seen, Passed
    <3>3. SameEntries
      BY <3>1 DEF SameEntries
    <3> QED
      BY <3>1, <3>2, <3>3, EntriesStay
  <2> QED
    BY <2>4, <2>5
<1>7. CASE NextObject
  <2>1. /\ phase \in {"names", "globals"} /\ UNCHANGED <<phase, objects, globals>>
        /\ at.object <= Len(objects) /\ at.symbol > Len(objects[at.object].symbols)
        /\ at' = [at EXCEPT !.object = @ + 1, !.symbol = 1]
    BY <1>7 DEF NextObject
  <2>2. CASE phase = "globals"
    BY <1>2, <2>1, <2>2
  <2>3. CASE phase = "names"
    <3>1. at'.object = at.object + 1 /\ at'.symbol = 1
      BY <1>1, <2>1 DEF TypeInv, Loops
    <3>2. ASSUME NEW a \in DOMAIN objects, NEW b \in DOMAIN objects[a].symbols
          PROVE  Seen(a, b)' <=> Seen(a, b)
      <4>1. /\ a \in Nat /\ b \in 1 .. Len(objects[a].symbols) /\ at.object \in Nat /\ at.symbol \in Nat
            /\ Len(objects[a].symbols) \in Nat
        BY <1>1, ObjectFacts
      <4>2. Symbol(a, b)' = Symbol(a, b)
        BY <2>1 DEF Symbol
      <4>3. Passed(a, b)' <=> Passed(a, b)
        BY <2>1, <3>1, <4>1 DEF Passed
      <4> HIDE DEF Symbol
      <4> QED
        BY <2>1, <2>3, <4>2, <4>3 DEF Seen
    <3>3. SameEntries
      BY <2>1 DEF SameEntries
    <3> QED
      BY <2>1, <3>2, <3>3, EntriesStay
  <2> QED
    BY <2>1, <2>2, <2>3
<1>8. CASE NamesDone
  <2>1. /\ phase = "names" /\ phase' = "archives" /\ UNCHANGED <<objects, globals>>
        /\ at.object > Len(objects)
    BY <1>8 DEF NamesDone
  <2>2. ASSUME NEW a \in DOMAIN objects, NEW b \in DOMAIN objects[a].symbols
        PROVE  Seen(a, b)' <=> Seen(a, b)
    <3>1. a \in Nat /\ a <= Len(objects) /\ at.object \in Nat /\ Len(objects) \in Nat
      BY <1>1, ObjectFacts DEF TypeInv
    <3>2. Symbol(a, b)' = Symbol(a, b)
      BY <2>1 DEF Symbol
    <3> HIDE DEF Symbol
    <3> QED
      BY <2>1, <3>1, <3>2 DEF Seen, Passed
  <2>3. SameEntries
    BY <2>1 DEF SameEntries
  <2> QED
    BY <2>1, <2>2, <2>3, EntriesStay
<1>9. CASE scan_archive_once
  <2> DEFINE members == input.archives[at.archive]
             file == members[at.member]
             reads == ~(at.member > Len(members)) /\ object_buffer_defines_needed(file)
  <2>1. phase = "archives" /\ globals' = globals
    BY <1>9 DEF scan_archive_once
  <2>2. CASE reads
    <3>1. /\ Read(file) /\ phase' = "names"
          /\ at' = [at EXCEPT !.member = @ + 1, !.changed = TRUE,
                              !.object = Len(objects) + 1, !.symbol = 1]
      BY <1>9, <2>2 DEF scan_archive_once, Fail
    <3>2. at'.object = Len(objects) + 1 /\ at'.symbol = 1
      BY <1>1, <3>1 DEF TypeInv, Loops
    <3>3. file \in Files
      BY <1>1, <1>9, <2>2, AtMember DEF scan_archive_once
    <3> QED
      BY <1>1, <2>1, <3>1, <3>2, <3>3, ReadEntries
  <2>3. CASE ~reads
    <3>1. UNCHANGED <<phase, objects>>
      BY <1>9, <2>3 DEF scan_archive_once
    <3> QED
      BY <1>2, <2>1, <3>1
  <2> QED
    BY <2>2, <2>3
<1>10. CASE collect_global_symbols
  <2>1. PICK o \in DOMAIN objects : o = at.object
    <3>1. at.object <= Len(objects) /\ at.object \in Nat /\ at.object >= 1 /\ Len(objects) \in Nat
          /\ DOMAIN objects = 1 .. Len(objects)
      BY <1>1, <1>10 DEF collect_global_symbols, TypeInv, Loops, Pos
    <3> QED
      BY <3>1
  <2>2. PICK i \in DOMAIN objects[o].symbols : i = at.symbol
    BY <1>1, <1>10, <2>1, ObjectFacts DEF collect_global_symbols
  <2>3. phase = "globals" /\ objects' = objects
    BY <1>10 DEF collect_global_symbols
  <2>4. CASE UNCHANGED <<phase, globals>>
    BY <1>2, <2>3, <2>4
  <2>5. CASE Defines(Symbol(o, i)) /\ add_global_symbol(symbol_value(o, i), o, i)
    <3>1. SameEntries /\ phase' = phase
      BY <2>3, <2>5, AddAgain
    <3> QED
      BY <2>3, <3>1, SeenStay, EntriesStay
  <2> QED
    BY <1>10, <2>1, <2>2, <2>4, <2>5 DEF collect_global_symbols, Fail
<1>11. CASE resolve_archives \/ mark_roots \/ mark_reachable_sections \/ NextSection \/ PassDone
  BY <1>2, <1>11 DEF resolve_archives, mark_roots, mark_reachable_sections, NextSection, PassDone, Fail
<1>12. CASE layout_flash_sections \/ layout_data_sections \/ layout_bss_sections \/ layout_sections
  BY <1>2, <1>12 DEF layout_flash_sections, layout_data_sections, layout_bss_sections,
                     layout_sections, PlaceAt, Fail
<1>13. CASE GlobalsDone \/ apply_relocations \/ NextRelocations \/ RelocationsDone \/ write_map
  BY <1>2, <1>13 DEF GlobalsDone, apply_relocations, NextRelocations, RelocationsDone, write_map, Fail
<1>14. CASE UNCHANGED vars
  <2>1. UNCHANGED <<phase, objects, globals, at>>
    BY <1>14 DEF vars
  <2>2. SameEntries /\ \A o, i : Seen(o, i)' <=> Seen(o, i)
    BY <2>1 DEF SameEntries, Seen, Symbol, Passed
  <2> QED
    BY <2>1, <2>2, EntriesStay
<1> QED
  BY <1>4, <1>5, <1>6, <1>7, <1>8, <1>9, <1>10, <1>11, <1>12, <1>13, <1>14 DEF Next

\* Reading apart, a row keeps its section; once the layout begins, it stays kept or not.
LEMMA RowsStay ==
  ASSUME TypeInv, [Next]_vars, UNCHANGED objects
  PROVE  /\ SectionRange' = SectionRange /\ input' = input
         /\ \A p \in SectionRange : secs'[p].object = secs[p].object /\ secs'[p].index = secs[p].index
         /\ phase \in {"layout"} \cup Later => \A p \in SectionRange : secs'[p].live = secs[p].live
<1>1. /\ Len(objects) \in Nat /\ objects \in Seq(Files) /\ layout \in Layouts
      /\ Len(secs) \in Nat /\ SectionRange = 1 .. Len(secs)
  BY DEF TypeInv, SectionRange
<1> DEFINE Stay == /\ SectionRange' = SectionRange
                   /\ \A p \in SectionRange : /\ secs'[p].object = secs[p].object
                                              /\ secs'[p].index = secs[p].index
                                              /\ secs'[p].live = secs[p].live
<1>2. ASSUME UNCHANGED secs PROVE Stay
  BY <1>2 DEF SectionRange
<1>3. ASSUME NEW file, Read(file) PROVE FALSE
  <2>1. Len(objects') = Len(objects) + 1
    <3> HIDE DEF Files
    <3> QED
      BY <1>1, <1>3 DEF Read
  <2> QED
    BY <1>1, <2>1
<1>4. ASSUME NEW kind, Waiting(kind) # {}, NEW v \in Nat, NEW l \in Nat, PlaceAt(NextToPlace(kind), v, l)
      PROVE  Stay
  <2> DEFINE p == NextToPlace(kind)
  <2>1. CASE Fail
    BY <1>2, <2>1 DEF Fail
  <2>2. CASE secs' = PlacedRows(p, v, l, l - AppBase)
    <3>1. p \in SectionRange /\ l - AppBase \in Int
      BY <1>4, NextToPlaceIn, ConstFacts DEF Pos
    <3> HIDE DEF p
    <3> QED
      BY <1>4, <2>2, <3>1, PlaceEffect
  <2> QED
    BY <1>4, <2>1, <2>2 DEF PlaceAt, PlacedRows
<1> HIDE DEF Stay
<1>5. CASE ReadObject
  <2>1. UNCHANGED <<secs, input>>
    BY <1>3, <1>5 DEF ReadObject, Fail
  <2> QED
    BY <1>2, <2>1 DEF Stay
<1>6. CASE scan_archive_once
  <2>1. UNCHANGED <<secs, input>>
    BY <1>3, <1>6 DEF scan_archive_once, Fail
  <2> QED
    BY <1>2, <2>1 DEF Stay
<1>7. CASE mark_roots
  <2> DEFINE roots == {p \in SectionRange : input.gc => secs[p].kind = "vectors"}
  <2>1. roots \in SUBSET SectionRange /\ secs' = mark_section_live(roots)
        /\ phase = "mark" /\ input' = input
    BY <1>7 DEF mark_roots
  <2> HIDE DEF roots
  <2> QED
    BY <2>1, MarkEffect DEF Later
<1>8. CASE mark_reachable_sections
  <2> DEFINE target == symbol_target_section(secs[at.section].object,
                         objects[secs[at.section].object].rels[at.rel].symbol)
  <2>1. phase = "reach" /\ input' = input
    BY <1>8 DEF mark_reachable_sections
  <2>2. CASE UNCHANGED secs
    BY <1>2, <2>1, <2>2 DEF Stay
  <2>3. CASE secs' = mark_section_live({target}) /\ target \notin {NoSection, Failed}
    <3>1. {target} \in SUBSET SectionRange
      BY <2>3, TargetRange
    <3> HIDE DEF target
    <3> QED
      BY <2>1, <2>3, <3>1, MarkEffect DEF Later
  <2> QED
    BY <1>8, <2>2, <2>3 DEF mark_reachable_sections, Fail
<1>9. CASE layout_flash_sections
  <2> DEFINE kind == Kinds[at.kind]
             start == align_up(layout.flash, Align(NextToPlace(kind)))
  <2>1. Waiting(kind) # {} /\ PlaceAt(NextToPlace(kind), start, start) /\ layout.flash \in Nat
        /\ input' = input
    BY <1>1, <1>9 DEF layout_flash_sections, Layouts
  <2>2. start \in Nat
    BY <2>1, PlaceFacts
  <2> HIDE DEF start, kind
  <2> QED
    BY <1>4, <2>1, <2>2 DEF Stay
<1>10. CASE layout_data_sections
  <2> DEFINE ram == align_up(layout.ram, Align(NextToPlace("data")))
             flash == align_up(layout.flash, Align(NextToPlace("data")))
  <2>1. /\ Waiting("data") # {} /\ PlaceAt(NextToPlace("data"), ram, flash)
        /\ layout.flash \in Nat /\ layout.ram \in Nat /\ input' = input
    BY <1>1, <1>10 DEF layout_data_sections, Layouts
  <2>2. ram \in Nat /\ flash \in Nat
    BY <2>1, PlaceFacts
  <2> HIDE DEF ram, flash
  <2> QED
    BY <1>4, <2>1, <2>2 DEF Stay
<1>11. CASE layout_bss_sections
  <2> DEFINE p == NextToPlace("bss")
             ram == align_up(layout.ram, Align(p))
  <2>1. Waiting("bss") # {} /\ layout.ram \in Nat
    BY <1>1, <1>11 DEF layout_bss_sections, Layouts
  <2>2. p \in SectionRange /\ ram \in Nat /\ 0 \in Nat /\ 0 \in Int
    BY <2>1, PlaceFacts
  <2>3. secs' = PlacedRows(p, ram, 0, 0) /\ input' = input
    BY <1>11 DEF layout_bss_sections, PlacedRows
  <2> HIDE DEF p, ram
  <2> QED
    BY <2>2, <2>3, PlaceEffect
<1>12. CASE write_map
  <2>1. input' = input
    BY <1>12 DEF write_map
  <2>2. CASE Unlisted = {}
    BY <1>2, <1>12, <2>1, <2>2 DEF write_map, Stay
  <2>3. CASE Unlisted # {}
    BY <1>12, <2>1, <2>3, NextListedIn, ListEffect DEF write_map
  <2> QED
    BY <2>2, <2>3
<1>13. CASE \/ ReadDone \/ collect_object_global_symbol_names \/ NextObject \/ NamesDone
            \/ resolve_archives \/ NextSection \/ PassDone
  <2>1. UNCHANGED <<secs, input>>
    BY <1>13 DEF ReadDone, collect_object_global_symbol_names, NextObject, NamesDone,
                 resolve_archives, NextSection, PassDone
  <2> QED
    BY <1>2, <2>1 DEF Stay
<1>14. CASE \/ layout_sections \/ collect_global_symbols \/ GlobalsDone
            \/ apply_relocations \/ NextRelocations \/ RelocationsDone \/ UNCHANGED vars
  <2>1. UNCHANGED <<secs, input>>
    BY <1>14 DEF layout_sections, collect_global_symbols, GlobalsDone,
                 apply_relocations, NextRelocations, RelocationsDone, vars
  <2> QED
    BY <1>2, <2>1 DEF Stay
<1> QED
  BY <1>5, <1>6, <1>7, <1>8, <1>9, <1>10, <1>11, <1>12, <1>13, <1>14 DEF Next

\* After the layout nothing that addresses depend on changes.
LEMMA LaterStay ==
  ASSUME TypeInv, [Next]_vars, phase \in Later, phase' # "failed"
  PROVE  /\ phase' \in Later /\ UNCHANGED <<input, objects, layout>> /\ SectionRange' = SectionRange
         /\ \A p \in SectionRange : SamePlace(p)
<1>1. /\ phase' \in Later /\ UNCHANGED <<input, objects, layout>>
      /\ \/ UNCHANGED secs
         \/ phase = "map" /\ Unlisted # {} /\ secs' = [secs EXCEPT ![NextListed].order = -1]
  <2>1. CASE NextObject \/ collect_global_symbols \/ GlobalsDone \/ apply_relocations
    BY <2>1 DEF NextObject, collect_global_symbols, add_global_symbol, GlobalsDone, apply_relocations, Fail, Later
  <2>2. CASE NextRelocations \/ RelocationsDone \/ write_map \/ UNCHANGED vars
    BY <2>2 DEF NextRelocations, RelocationsDone, write_map, vars, Later
  <2>3. CASE \/ ReadObject \/ ReadDone \/ collect_object_global_symbol_names \/ NamesDone
             \/ scan_archive_once \/ resolve_archives
    BY <2>3 DEF ReadObject, ReadDone, collect_object_global_symbol_names, NamesDone,
                scan_archive_once, resolve_archives, Later
  <2>4. CASE \/ mark_roots \/ mark_reachable_sections \/ NextSection \/ PassDone
             \/ layout_flash_sections \/ layout_data_sections \/ layout_bss_sections \/ layout_sections
    BY <2>4 DEF mark_roots, mark_reachable_sections, NextSection, PassDone,
                layout_flash_sections, layout_data_sections, layout_bss_sections, layout_sections, Later
  <2> QED
    BY <2>1, <2>2, <2>3, <2>4 DEF Next
<1>2. CASE UNCHANGED secs
  BY <1>1, <1>2 DEF SectionRange, SamePlace, SameRow
<1>3. CASE Unlisted # {} /\ secs' = [secs EXCEPT ![NextListed].order = -1]
  BY <1>1, <1>3, NextListedIn, ListEffect DEF SamePlace, SameRow
<1> QED
  BY <1>1, <1>2, <1>3

LEMMA ReadsWell ==
  ASSUME TypeInv, [Next]_vars
  PROVE  UNCHANGED objects \/ \E file \in Files : Read(file) /\ WellFormed(file)
<1>1. /\ \A i \in DOMAIN input.objects : WellFormed(input.objects[i])
      /\ \A a \in DOMAIN input.archives : \A m \in DOMAIN input.archives[a] :
           WellFormed(input.archives[a][m])
  BY LinkAssumption DEF TypeInv, IsInput
<1> HIDE DEF WellFormed, Files
<1>2. CASE ReadObject
  <2>1. CASE Fail
    BY <2>1 DEF Fail
  <2>2. CASE Read(input.objects[Len(objects) + 1])
    <3>1. Len(objects) + 1 \in DOMAIN input.objects /\ input.objects[Len(objects) + 1] \in Files
      <4>1. Len(objects) < Len(input.objects) /\ input.objects \in Seq(Files) /\ objects \in Seq(Files)
        BY <1>2, InputFacts DEF ReadObject, TypeInv
      <4> QED
        BY <4>1
    <3> QED
      BY <1>1, <2>2, <3>1
  <2> QED
    BY <1>2, <2>1, <2>2 DEF ReadObject
<1>3. CASE scan_archive_once
  <2> DEFINE members == input.archives[at.archive]
             file == members[at.member]
             reads == ~(at.member > Len(members)) /\ object_buffer_defines_needed(file)
  <2>1. CASE reads
    <3>1. at.archive \in DOMAIN input.archives /\ at.member \in DOMAIN members /\ file \in Files
      BY <1>3, <2>1, AtMember DEF scan_archive_once
    <3>2. Read(file) \/ UNCHANGED objects
      BY <1>3, <2>1 DEF scan_archive_once, Fail
    <3> QED
      BY <1>1, <3>1, <3>2
  <2>2. CASE ~reads
    BY <1>3, <2>2 DEF scan_archive_once
  <2> QED
    BY <2>1, <2>2
<1>4. CASE \/ ReadDone \/ collect_object_global_symbol_names \/ NextObject \/ NamesDone \/ resolve_archives
           \/ mark_roots \/ mark_reachable_sections \/ NextSection \/ PassDone
  BY <1>4 DEF ReadDone, collect_object_global_symbol_names, NextObject, NamesDone, resolve_archives,
              mark_roots, mark_reachable_sections, NextSection, PassDone
<1>5. CASE \/ layout_flash_sections \/ layout_data_sections \/ layout_bss_sections \/ layout_sections
           \/ collect_global_symbols \/ GlobalsDone
  BY <1>5 DEF layout_flash_sections, layout_data_sections, layout_bss_sections, layout_sections,
              collect_global_symbols, GlobalsDone
<1>6. CASE apply_relocations \/ NextRelocations \/ RelocationsDone \/ write_map \/ UNCHANGED vars
  BY <1>6 DEF apply_relocations, NextRelocations, RelocationsDone, write_map, vars
<1> QED
  BY <1>2, <1>3, <1>4, <1>5, <1>6 DEF Next

LEMMA UniqueStep ==
  ASSUME TypeInv, WellInv, UniqueInv, [Next]_vars
  PROVE  WellInv' /\ UniqueInv'
<1>1. CASE UNCHANGED objects
  <2>1. /\ SectionRange' = SectionRange
        /\ \A p \in SectionRange : secs'[p].object = secs[p].object /\ secs'[p].index = secs[p].index
    BY <1>1, RowsStay
  <2> QED
    BY <1>1, <2>1 DEF WellInv, UniqueInv
<1>2. ASSUME NEW file \in Files, Read(file), WellFormed(file) PROVE WellInv' /\ UniqueInv'
  <2>1. /\ objects' \in Seq(Files) /\ Len(objects') = Len(objects) + 1 /\ objects'[Len(objects) + 1] = file
        /\ \A o \in DOMAIN objects : objects'[o] = objects[o]
        /\ \A p \in SectionRange : secs'[p] = secs[p]
        /\ \A p \in SectionRange' \ SectionRange : secs'[p].object = Len(objects) + 1
        /\ \A p, q \in SectionRange' \ SectionRange : secs'[p].index = secs'[q].index => p = q
    BY <1>2, ReadEffect
  <2>2. Len(objects) \in Nat /\ DOMAIN objects = 1 .. Len(objects) /\ objects \in Seq(Files)
    BY DEF TypeInv
  <2> HIDE DEF WellFormed, Files
  <2>3. WellInv'
    <3>1. \A o \in DOMAIN objects' : o \in DOMAIN objects \/ o = Len(objects) + 1
      BY <2>1, <2>2
    <3>2. ASSUME NEW o \in DOMAIN objects' PROVE WellFormed(objects'[o])
      BY <1>2, <2>1, <3>1 DEF WellInv
    <3> QED
      BY <3>2 DEF WellInv, WellFormed
  <2>4. \A p \in SectionRange : secs[p].object # Len(objects) + 1
    <3>1. \A p \in SectionRange : secs[p].object \in 1 .. Len(objects)
      BY <2>2, HeaderFacts
    <3> QED
      BY <2>2, <3>1
  <2>5. ASSUME NEW p \in SectionRange', NEW q \in SectionRange',
               secs'[p].object = secs'[q].object, secs'[p].index = secs'[q].index
        PROVE  p = q
    <3>1. CASE p \in SectionRange /\ q \in SectionRange
      BY <2>1, <2>5, <3>1 DEF UniqueInv
    <3>2. CASE p \notin SectionRange /\ q \notin SectionRange
      BY <2>1, <2>5, <3>2
    <3> QED
      BY <2>1, <2>4, <2>5, <3>1, <3>2
  <2>6. UniqueInv'
    BY <2>5 DEF UniqueInv
  <2> QED
    BY <2>3, <2>6
<1> QED
  BY <1>1, <1>2, ReadsWell

\* The row of a section.
LEMMA RowOf ==
  ASSUME TypeInv, UniqueInv
  PROVE  /\ \A o, i : find_input_section(o, i) # NoSection =>
              /\ find_input_section(o, i) \in SectionRange
              /\ secs[find_input_section(o, i)].object = o /\ secs[find_input_section(o, i)].index = i
         /\ \A p \in SectionRange : find_input_section(secs[p].object, secs[p].index) = p /\ p # NoSection
<1>1. ASSUME NEW o, NEW i, find_input_section(o, i) # NoSection
      PROVE  find_input_section(o, i) \in Rows(o, i)
  BY <1>1 DEF find_input_section, OneOf
<1>2. ASSUME NEW p \in SectionRange
      PROVE  find_input_section(secs[p].object, secs[p].index) = p /\ p # NoSection
  <2>1. Rows(secs[p].object, secs[p].index) = {p}
    BY DEF Rows, UniqueInv
  <2> QED
    BY <2>1 DEF find_input_section, OneOf, SectionRange, NoSection, TypeInv
<1> QED
  BY <1>1, <1>2 DEF Rows

LEMMA AtSymbol ==
  ASSUME TypeInv, at.object <= Len(objects), at.symbol <= Len(objects[at.object].symbols)
  PROVE  at.object \in DOMAIN objects /\ at.symbol \in DOMAIN objects[at.object].symbols
<1>1. at.object \in Nat /\ at.object >= 1 /\ Len(objects) \in Nat /\ DOMAIN objects = 1 .. Len(objects)
  BY DEF TypeInv, Loops, Pos
<1>2. PICK o \in DOMAIN objects : o = at.object
  BY <1>1
<1> QED
  BY <1>2, ObjectFacts

\* Once archives have been searched, no entry comes, goes or changes its definition.
LEMMA EntriesFixed ==
  ASSUME TypeInv, EntryInv, KnownInv, [Next]_vars, phase \in {"layout"} \cup Later, phase' # "failed"
  PROVE  UNCHANGED objects /\ SameEntries
<1>1. ASSUME UNCHANGED globals PROVE SameEntries
  BY <1>1 DEF SameEntries
<1>2. CASE collect_global_symbols
  <2>1. PICK o \in DOMAIN objects : o = at.object
    BY <1>2, AtSymbol DEF collect_global_symbols
  <2>2. PICK i \in DOMAIN objects[o].symbols : i = at.symbol
    BY <1>2, <2>1, AtSymbol DEF collect_global_symbols
  <2>3. phase = "globals" /\ objects' = objects
    BY <1>2 DEF collect_global_symbols
  <2>4. CASE Defines(Symbol(o, i)) /\ add_global_symbol(symbol_value(o, i), o, i)
    BY <2>3, <2>4, AddAgain
  <2>5. CASE UNCHANGED globals
    BY <1>1, <2>3, <2>5
  <2> QED
    BY <1>2, <2>1, <2>2, <2>4, <2>5 DEF collect_global_symbols, Fail
<1>3. CASE \/ ReadObject \/ ReadDone \/ collect_object_global_symbol_names \/ NamesDone
           \/ scan_archive_once \/ resolve_archives
  BY <1>3 DEF ReadObject, ReadDone, collect_object_global_symbol_names, NamesDone,
              scan_archive_once, resolve_archives, Later
<1>4. CASE mark_roots \/ mark_reachable_sections \/ NextSection \/ PassDone \/ NextObject
  BY <1>1, <1>4 DEF mark_roots, mark_reachable_sections, NextSection, PassDone, NextObject
<1>5. CASE layout_flash_sections \/ layout_data_sections \/ layout_bss_sections \/ layout_sections
  BY <1>1, <1>5 DEF layout_flash_sections, layout_data_sections, layout_bss_sections, layout_sections
<1>6. CASE \/ GlobalsDone \/ apply_relocations \/ NextRelocations \/ RelocationsDone \/ write_map
           \/ UNCHANGED vars
  BY <1>1, <1>6 DEF GlobalsDone, apply_relocations, NextRelocations, RelocationsDone, write_map, vars
<1> QED
  BY <1>2, <1>3, <1>4, <1>5, <1>6 DEF Next

\* What a symbol stands for depends on entries and rows, not on their values and addresses.
LEMMA TargetsStay ==
  ASSUME UNCHANGED objects, SameEntries, SectionRange' = SectionRange,
         \A p \in SectionRange : secs'[p].object = secs[p].object /\ secs'[p].index = secs[p].index
  PROVE  /\ \A o, i : find_input_section(o, i)' = find_input_section(o, i)
         /\ \A o, i : symbol_target_section(o, i)' = symbol_target_section(o, i)
         /\ \A p \in SectionRange : Targets(p)' = Targets(p)
<1>1. ASSUME NEW o, NEW i PROVE find_input_section(o, i)' = find_input_section(o, i)
  <2>1. Rows(o, i)' = Rows(o, i)
    BY DEF Rows
  <2> QED
    BY <2>1 DEF find_input_section
<1>2. ASSUME NEW o, NEW i PROVE Own(o, i)' = Own(o, i)
  BY <1>1 DEF Own, Symbol
<1>3. ASSUME NEW name, NEW o, NEW i
      PROVE  /\ (name \in DOMAIN globals)' <=> name \in DOMAIN globals
             /\ strong_global_replacing_weak(name, o, i)' <=> strong_global_replacing_weak(name, o, i)
             /\ name \in DOMAIN globals =>
                  Own(globals[name].object, globals[name].symbol)' = Own(globals[name].object, globals[name].symbol)
  <2>1. (name \in DOMAIN globals)' <=> name \in DOMAIN globals
    BY DEF SameEntries
  <2>2. strong_global_replacing_weak(name, o, i)' <=> strong_global_replacing_weak(name, o, i)
    BY DEF SameEntries, strong_global_replacing_weak
  <2>3. ASSUME name \in DOMAIN globals
        PROVE  Own(globals[name].object, globals[name].symbol)' = Own(globals[name].object, globals[name].symbol)
    <3>1. globals'[name].object = globals[name].object /\ globals'[name].symbol = globals[name].symbol
      BY <2>3 DEF SameEntries
    <3>2. PICK o1, i1 : o1 = globals[name].object /\ i1 = globals[name].symbol
      OBVIOUS
    <3>3. Own(o1, i1)' = Own(o1, i1)
      BY <1>2
    <3> QED
      BY <3>1, <3>2, <3>3 DEF Own, Symbol, find_input_section, Rows
  <2> QED
    BY <2>1, <2>2, <2>3
<1>4. ASSUME NEW o, NEW i
      PROVE  symbol_target_section(o, i)' = symbol_target_section(o, i)
  <2>1. PICK s : s = Symbol(o, i) /\ s = Symbol(o, i)'
    BY DEF Symbol
  <2>2. /\ (s.name \in DOMAIN globals)' <=> s.name \in DOMAIN globals
        /\ strong_global_replacing_weak(s.name, o, i)' <=> strong_global_replacing_weak(s.name, o, i)
        /\ s.name \in DOMAIN globals =>
             Own(globals[s.name].object, globals[s.name].symbol)'
               = Own(globals[s.name].object, globals[s.name].symbol)
    BY <1>3
  <2>3. Own(o, i)' = Own(o, i)
    BY <1>2
  <2>4. strong_global_replacing_weak(s.name, o, i) => s.name \in DOMAIN globals
    BY DEF strong_global_replacing_weak
  <2> HIDE DEF Own, strong_global_replacing_weak, Symbol
  <2> QED
    BY <2>1, <2>2, <2>3, <2>4 DEF symbol_target_section
<1>5. ASSUME NEW p \in SectionRange PROVE Targets(p)' = Targets(p)
  <2>1. Rels(p)' = Rels(p) /\ secs'[p].object = secs[p].object
    BY DEF Rels
  <2>2. \A r : symbol_target_section(secs[p].object, r.symbol)' = symbol_target_section(secs[p].object, r.symbol)
    <3>1. PICK o : o = secs[p].object
      OBVIOUS
    <3>2. \A r : symbol_target_section(o, r.symbol)' = symbol_target_section(o, r.symbol)
      BY <1>4
    <3> QED
      BY <2>1, <3>1, <3>2
  <2> QED
    BY <2>1, <2>2 DEF Targets
<1> QED
  BY <1>1, <1>4, <1>5

LEMMA KeptClosedStep ==
  ASSUME MarkInv, MarkInv', EntryInv, KnownInv, KeptClosedInv, [Next]_vars,
         phase # "failed", phase' # "failed"
  PROVE  KeptClosedInv'
<1>1. TypeInv /\ OrderInv /\ ClosedInv'
  BY DEF MarkInv
<1>2. CASE phase \in {"layout"} \cup Later
  <2>1. UNCHANGED objects /\ SameEntries
    BY <1>1, <1>2, EntriesFixed
  <2>2. /\ SectionRange' = SectionRange /\ input' = input
        /\ \A p \in SectionRange : /\ secs'[p].object = secs[p].object /\ secs'[p].index = secs[p].index
                                   /\ secs'[p].live = secs[p].live
    BY <1>1, <1>2, <2>1, RowsStay
  <2>3. Kept' = Kept /\ \A p \in SectionRange : Targets(p)' = Targets(p)
    BY <2>1, <2>2, TargetsStay DEF Kept
  <2>4. \A p \in SectionRange : IF input.gc THEN secs[p].live => Targets(p) \subseteq Kept ELSE secs[p].live
    BY <1>2 DEF KeptClosedInv
  <2> QED
    BY <2>2, <2>3, <2>4 DEF KeptClosedInv
<1>3. CASE phase \notin {"layout"} \cup Later /\ phase' \in {"layout"} \cup Later
  <2>1. phase' = "layout" /\ (mark_roots \/ PassDone)
    <3>1. CASE \/ ReadObject \/ ReadDone \/ collect_object_global_symbol_names \/ NamesDone
               \/ scan_archive_once \/ resolve_archives
      BY <1>3, <3>1 DEF ReadObject, ReadDone, collect_object_global_symbol_names, add_global_symbol, NamesDone,
                        scan_archive_once, resolve_archives, Fail, Later
    <3>2. CASE mark_reachable_sections \/ NextSection \/ NextObject \/ UNCHANGED vars
      BY <1>3, <3>2 DEF mark_reachable_sections, NextSection, NextObject, vars, Fail, Later
    <3>3. CASE \/ layout_flash_sections \/ layout_data_sections \/ layout_bss_sections
               \/ layout_sections \/ collect_global_symbols \/ GlobalsDone
      BY <1>3, <3>3 DEF layout_flash_sections, layout_data_sections, layout_bss_sections,
                        layout_sections, collect_global_symbols, GlobalsDone, Later
    <3>4. CASE apply_relocations \/ NextRelocations \/ RelocationsDone \/ write_map
      BY <1>3, <3>4 DEF apply_relocations, NextRelocations, RelocationsDone, write_map, Later
    <3>5. CASE mark_roots \/ PassDone
      BY <1>3, <3>5 DEF mark_roots, PassDone, Later
    <3> QED
      BY <3>1, <3>2, <3>3, <3>4, <3>5 DEF Next
  <2>2. CASE input'.gc
    BY <2>1, <2>2, <1>1 DEF ClosedInv, KeptClosedInv, Kept
  <2>3. CASE ~input'.gc
    <3>1. mark_roots
      <4>1. PassDone => phase = "reach" /\ input' = input
        BY DEF PassDone
      <4> QED
        BY <1>1, <2>1, <2>3, <4>1 DEF OrderInv
    <3> DEFINE roots == {p \in SectionRange : input.gc => secs[p].kind = "vectors"}
    <3>2. secs' = mark_section_live(roots) /\ input' = input
      BY <3>1 DEF mark_roots
    <3>3. roots = SectionRange
      BY <2>3, <3>2
    <3>4. SectionRange' = SectionRange /\ \A p \in SectionRange : secs'[p].live
      <4>1. roots \in SUBSET SectionRange
        OBVIOUS
      <4>2. /\ SectionRange' = SectionRange
            /\ \A p \in SectionRange : secs'[p].live <=> secs[p].live \/ p \in roots
        <5> HIDE DEF roots
        <5> QED
          BY <1>1, <3>2, <4>1, MarkEffect
      <4> QED
        BY <3>3, <4>2
    <3> QED
      BY <2>3, <3>4 DEF KeptClosedInv
  <2> QED
    BY <2>2, <2>3
<1> QED
  BY <1>2, <1>3 DEF KeptClosedInv

\* The entries passed keep their values, and the one at the cursor gets its own.
LEMMA ValueStep ==
  ASSUME TypeInv, TypeInv', EntryInv, KnownInv, UniqueInv, ValueInv, [Next]_vars,
         phase # "failed", phase' # "failed"
  PROVE  ValueInv'
<1>1. ASSUME phase \in Later, NEW n \in DOMAIN globals, globals'[n].value = globals[n].value, ValueOf(n)
      PROVE  ValueOf(n)'
  <2>1. /\ UNCHANGED objects /\ SectionRange' = SectionRange /\ \A p \in SectionRange : SamePlace(p)
    BY <1>1, LaterStay
  <2>2. SameEntries
    BY <1>1, EntriesFixed
  <2>3. PICK e : e = globals[n]
    OBVIOUS
  <2>4. globals'[n].object = e.object /\ globals'[n].symbol = e.symbol /\ globals'[n].value = e.value
    BY <1>1, <2>2, <2>3 DEF SameEntries
  <2>5. PICK sym : sym = Symbol(e.object, e.symbol)
    OBVIOUS
  <2>6. PICK own : own = find_input_section(e.object, sym.section)
    OBVIOUS
  <2>7. find_input_section(e.object, sym.section)' = own
    <3>1. \A p \in SectionRange : secs'[p].object = secs[p].object /\ secs'[p].index = secs[p].index
      BY <2>1 DEF SamePlace, SameRow
    <3> QED
      BY <2>1, <2>2, <2>6, <3>1, TargetsStay
  <2>8. /\ Symbol(globals[n].object, globals[n].symbol)' = sym
        /\ find_input_section(globals[n].object, sym.section)' = own
    BY <2>1, <2>4, <2>5, <2>7 DEF Symbol, find_input_section, Rows
  <2>9. own # NoSection => secs'[own].live = secs[own].live /\ secs'[own].vma = secs[own].vma
    BY <2>1, <2>6, RowOf DEF SamePlace, SameRow
  <2>10. /\ sym.section = ABS => e.value = sym.value
         /\ sym.section # ABS /\ own # NoSection => (secs[own].live => e.value = secs[own].vma + sym.value)
    BY <1>1, <2>3, <2>5, <2>6 DEF ValueOf
  <2> HIDE DEF Symbol, find_input_section
  <2> QED
    BY <2>4, <2>8, <2>9, <2>10 DEF ValueOf
<1>2. ASSUME NEW n \in DOMAIN globals
      PROVE  /\ globals[n].object \in DOMAIN objects
             /\ globals[n].symbol \in DOMAIN objects[globals[n].object].symbols
             /\ globals[n].object \in Nat /\ globals[n].object >= 1 /\ globals[n].object <= Len(objects)
             /\ globals[n].symbol \in Nat /\ globals[n].symbol >= 1
             /\ globals[n].symbol <= Len(objects[globals[n].object].symbols)
             /\ Defines(Symbol(globals[n].object, globals[n].symbol))
             /\ Symbol(globals[n].object, globals[n].symbol).name = n
  <2>1. PICK o \in DOMAIN objects : o = globals[n].object
    BY DEF EntryInv, EntryFor, Seen
  <2>2. PICK i \in DOMAIN objects[o].symbols : i = globals[n].symbol
    BY <2>1 DEF EntryInv, EntryFor, Seen
  <2>3. Defines(Symbol(o, i)) /\ Symbol(o, i).name = n
    BY <2>1, <2>2 DEF EntryInv, EntryFor, Seen
  <2>4. /\ o \in Nat /\ o >= 1 /\ o <= Len(objects)
        /\ DOMAIN objects[o].symbols = 1 .. Len(objects[o].symbols) /\ Len(objects[o].symbols) \in Nat
    BY ObjectFacts
  <2> QED
    BY <2>1, <2>2, <2>3, <2>4
<1>3. at.object \in Nat /\ at.object >= 1 /\ at.symbol \in Nat /\ at.symbol >= 1 /\ Len(objects) \in Nat
  BY DEF TypeInv, Loops, Pos
<1>4. CASE phase \notin Later
  <2>1. CASE layout_sections
    <3>1. /\ phase' \in {"layout", "globals", "failed"} /\ globals' = globals
          /\ phase' = "globals" => at'.object = 1 /\ at'.symbol = 1
      BY <2>1 DEF layout_sections, TypeInv, Loops
    <3>2. ASSUME NEW n \in DOMAIN globals', phase' = "globals"
          PROVE  ~Passed(globals[n].object, globals[n].symbol)'
      <4>1. n \in DOMAIN globals /\ globals'[n] = globals[n]
        BY <3>1, <3>2
      <4>2. /\ globals[n].object \in Nat /\ globals[n].object >= 1
            /\ globals[n].symbol \in Nat /\ globals[n].symbol >= 1
        BY <1>2, <4>1
      <4> QED
        BY <3>1, <3>2, <4>1, <4>2 DEF Passed
    <3> QED
      BY <3>1, <3>2 DEF ValueInv, Later
  <2>2. CASE ~layout_sections
    <3>1. phase' \notin Later
      <4>1. CASE \/ ReadObject \/ ReadDone \/ collect_object_global_symbol_names \/ NextObject \/ NamesDone
                 \/ scan_archive_once \/ resolve_archives
        BY <1>4, <4>1 DEF ReadObject, ReadDone, collect_object_global_symbol_names, add_global_symbol, NextObject,
                          NamesDone, scan_archive_once, resolve_archives, Fail, Later
      <4>2. CASE \/ mark_roots \/ mark_reachable_sections \/ NextSection \/ PassDone \/ UNCHANGED vars
        BY <1>4, <4>2 DEF mark_roots, mark_reachable_sections, NextSection, PassDone, vars, Fail, Later
      <4>3. CASE layout_flash_sections \/ layout_data_sections \/ layout_bss_sections
        BY <1>4, <4>3 DEF layout_flash_sections, layout_data_sections, layout_bss_sections, PlaceAt, Fail, Later
      <4>4. CASE \/ collect_global_symbols \/ GlobalsDone \/ apply_relocations \/ NextRelocations
                 \/ RelocationsDone \/ write_map
        BY <1>4, <4>4 DEF collect_global_symbols, GlobalsDone, apply_relocations, NextRelocations,
                          RelocationsDone, write_map, Later
      <4> QED
        BY <2>2, <4>1, <4>2, <4>3, <4>4 DEF Next
    <3> QED
      BY <3>1 DEF ValueInv
  <2> QED
    BY <2>1, <2>2
<1>5. CASE phase \in Later
  <2>1. /\ SameEntries /\ UNCHANGED objects /\ phase' \in Later
        /\ \A n \in DOMAIN globals' : n \in DOMAIN globals
    BY <1>5, EntriesFixed, LaterStay DEF SameEntries
  <2>2. ASSUME NEW n \in DOMAIN globals'
        PROVE  /\ globals'[n].object = globals[n].object /\ globals'[n].symbol = globals[n].symbol
               /\ Passed(globals[n].object, globals[n].symbol)' <=>
                    \/ globals[n].object < at'.object
                    \/ globals[n].object = at'.object /\ globals[n].symbol < at'.symbol
    BY <2>1 DEF SameEntries, Passed
  <2>3. CASE collect_global_symbols
    <3>1. PICK o \in DOMAIN objects : o = at.object
      BY <2>3, AtSymbol DEF collect_global_symbols
    <3>2. PICK i \in DOMAIN objects[o].symbols : i = at.symbol
      BY <2>3, <3>1, AtSymbol DEF collect_global_symbols
    <3>3. phase = "globals" /\ secs' = secs
      BY <2>3 DEF collect_global_symbols
    <3> DEFINE sym == Symbol(o, i)
               own == find_input_section(o, sym.section)
               skips == ~Defines(sym) \/ (sym.section # ABS /\ (own = NoSection \/ ~secs[own].live))
    <3>4. /\ skips => globals' = globals /\ at' = [at EXCEPT !.symbol = @ + 1] /\ phase' = phase
          /\ ~skips => add_global_symbol(symbol_value(o, i), o, i) /\ Defines(sym)
      BY <2>3, <3>1, <3>2 DEF collect_global_symbols, Fail
    <3>5. /\ phase' = phase /\ at' = [at EXCEPT !.symbol = i + 1]
          /\ \A n \in DOMAIN globals :
               /\ ~skips /\ n = sym.name /\ Entry(n) = <<o, i>> => globals'[n].value = symbol_value(o, i)
               /\ skips \/ Entry(n) # <<o, i>> => globals'[n].value = globals[n].value
      BY <3>2, <3>3, <3>4, AddAgain
    <3>6. at'.object = o /\ at'.symbol = i + 1
      BY <3>1, <3>2, <3>5 DEF TypeInv, Loops
    <3>7. ASSUME NEW n \in DOMAIN globals', Passed(globals[n].object, globals[n].symbol)'
          PROVE  ValueOf(n)'
      <4>0. n \in DOMAIN globals
        BY <2>1
      <4>1. Passed(globals[n].object, globals[n].symbol) \/ Entry(n) = <<o, i>>
        <5>1. globals[n].object \in Nat /\ globals[n].symbol \in Nat /\ o \in Nat /\ i \in Nat
          BY <1>2, <1>3, <3>1, <3>2, <4>0
        <5> QED
          BY <2>2, <3>1, <3>2, <3>6, <3>7, <5>1 DEF Passed, Entry
      <4>2. CASE Entry(n) # <<o, i>>
        <5>1. ValueOf(n) /\ globals'[n].value = globals[n].value
          BY <1>5, <3>5, <4>0, <4>1, <4>2 DEF ValueInv
        <5> QED
          BY <1>1, <1>5, <4>0, <5>1
      <4>3. CASE Entry(n) = <<o, i>> /\ skips
        <5>1. ValueOf(n)
          BY <1>2, <4>0, <4>3 DEF ValueOf, Entry
        <5>2. globals'[n].value = globals[n].value
          BY <3>5, <4>0, <4>3
        <5> QED
          BY <1>1, <1>5, <4>0, <5>1, <5>2
      <4>4. CASE Entry(n) = <<o, i>> /\ ~skips
        <5>1. n = sym.name /\ globals[n].object = o /\ globals[n].symbol = i
          BY <1>2, <4>0, <4>4 DEF Entry
        <5>2. globals'[n].value = symbol_value(o, i)
          BY <3>5, <4>0, <4>4, <5>1
        <5>3. ~strong_global_replacing_weak(sym.name, o, i)
          BY <5>1 DEF strong_global_replacing_weak
        <5>4. symbol_value(o, i) = IF sym.section = ABS THEN sym.value ELSE secs[own].vma + sym.value
          <6> HIDE DEF Symbol
          <6> QED
            BY <4>4, <5>3 DEF symbol_value, Defines
        <5>5. /\ globals'[n].object = o /\ globals'[n].symbol = i
              /\ Symbol(globals[n].object, globals[n].symbol)' = sym
              /\ find_input_section(globals[n].object, sym.section)' = own
          BY <2>1, <2>2, <3>3, <5>1 DEF Symbol, find_input_section, Rows, SectionRange
        <5> HIDE DEF Symbol, find_input_section
        <5> QED
          BY <3>3, <4>4, <5>2, <5>4, <5>5 DEF ValueOf
      <4> QED
        BY <4>2, <4>3, <4>4
    <3> QED
      BY <3>3, <3>5, <3>7 DEF ValueInv
  <2>4. ASSUME globals' = globals, \A n \in DOMAIN globals :
                 (phase' = "globals" => Passed(globals[n].object, globals[n].symbol)')
                   => (phase = "globals" => Passed(globals[n].object, globals[n].symbol))
        PROVE  ValueInv'
    <3>1. ASSUME NEW n \in DOMAIN globals, phase' = "globals" => Passed(globals[n].object, globals[n].symbol)'
          PROVE  ValueOf(n)'
      <4>1. ValueOf(n)
        BY <1>5, <2>4, <3>1 DEF ValueInv
      <4> QED
        BY <1>1, <1>5, <2>4, <4>1
    <3> QED
      BY <2>4, <3>1 DEF ValueInv
  <2>5. CASE NextObject
    <3>1. /\ phase = "globals" /\ UNCHANGED <<phase, globals>>
          /\ at.object <= Len(objects) /\ at.symbol > Len(objects[at.object].symbols)
          /\ at' = [at EXCEPT !.object = @ + 1, !.symbol = 1]
      BY <1>5, <2>5 DEF NextObject, Later
    <3>2. at'.object = at.object + 1 /\ at'.symbol = 1
      BY <3>1 DEF TypeInv, Loops
    <3>3. ASSUME NEW n \in DOMAIN globals, Passed(globals[n].object, globals[n].symbol)'
          PROVE  Passed(globals[n].object, globals[n].symbol)
      <4>1. /\ globals[n].object \in Nat /\ globals[n].symbol \in Nat /\ globals[n].symbol >= 1
            /\ globals[n].symbol <= Len(objects[globals[n].object].symbols)
            /\ Len(objects[globals[n].object].symbols) \in Nat
        BY <1>2, ObjectFacts
      <4> QED
        BY <1>3, <2>2, <3>1, <3>2, <3>3, <4>1 DEF Passed
    <3> QED
      BY <2>4, <3>1, <3>3
  <2>6. CASE GlobalsDone
    <3>1. globals' = globals /\ at.object > Len(objects)
      BY <2>6 DEF GlobalsDone
    <3>2. \A n \in DOMAIN globals : Passed(globals[n].object, globals[n].symbol)
      BY <1>2, <1>3, <3>1 DEF Passed
    <3> QED
      BY <2>4, <3>1, <3>2
  <2>7. CASE apply_relocations \/ NextRelocations \/ RelocationsDone \/ write_map
    BY <2>4, <2>7 DEF apply_relocations, NextRelocations, RelocationsDone, write_map
  <2>8. CASE UNCHANGED vars
    BY <2>4, <2>8 DEF vars, Passed
  <2>9. CASE \/ ReadObject \/ ReadDone \/ collect_object_global_symbol_names \/ NamesDone
             \/ scan_archive_once \/ resolve_archives
    BY <1>5, <2>9 DEF ReadObject, ReadDone, collect_object_global_symbol_names, NamesDone,
                      scan_archive_once, resolve_archives, Later
  <2>10. CASE \/ mark_roots \/ mark_reachable_sections \/ NextSection \/ PassDone
              \/ layout_flash_sections \/ layout_data_sections \/ layout_bss_sections \/ layout_sections
    BY <1>5, <2>10 DEF mark_roots, mark_reachable_sections, NextSection, PassDone,
                layout_flash_sections, layout_data_sections, layout_bss_sections, layout_sections, Later
  <2> QED
    BY <2>3, <2>5, <2>6, <2>7, <2>8, <2>9, <2>10 DEF Next
<1> QED
  BY <1>4, <1>5

\* While globals, rows and bounds stay, so do the values of symbols.
LEMMA ValuesStay ==
  ASSUME TypeInv, UniqueInv, UNCHANGED <<objects, globals, layout>>, SectionRange' = SectionRange,
         \A p \in SectionRange : SamePlace(p)
  PROVE  /\ \A o, i : find_input_section(o, i)' = find_input_section(o, i)
         /\ \A o, i : symbol_value(o, i)' = symbol_value(o, i)
         /\ \A p \in SectionRange : \A r, v : WordOf(p, r, v)' = WordOf(p, r, v)
                                              /\ Reach(secs[p], r, v)' = Reach(secs[p], r, v)
<1>1. SameEntries /\ \A p \in SectionRange : secs'[p].object = secs[p].object /\ secs'[p].index = secs[p].index
  BY DEF SameEntries, SamePlace, SameRow
<1>2. \A o, i : find_input_section(o, i)' = find_input_section(o, i)
  BY <1>1, TargetsStay
<1>3. ASSUME NEW o, NEW i PROVE symbol_value(o, i)' = symbol_value(o, i)
  <2>1. PICK sym : sym = Symbol(o, i) /\ sym = Symbol(o, i)'
    BY DEF Symbol
  <2>2. PICK own : own = find_input_section(o, sym.section)
    OBVIOUS
  <2>3. find_input_section(o, sym.section)' = own
    BY <1>2, <2>2
  <2>4. own # NoSection => secs'[own].vma = secs[own].vma
    BY <2>2, RowOf DEF SamePlace
  <2>5. /\ strong_global_replacing_weak(sym.name, o, i)' <=> strong_global_replacing_weak(sym.name, o, i)
        /\ special_symbol_value(sym.name)' = special_symbol_value(sym.name)
    BY DEF strong_global_replacing_weak, special_symbol_value
  <2> HIDE DEF strong_global_replacing_weak, special_symbol_value, Symbol, find_input_section, Special
  <2> QED
    BY <2>1, <2>2, <2>3, <2>4, <2>5 DEF symbol_value
<1>4. ASSUME NEW p \in SectionRange, NEW r, NEW v
      PROVE  WordOf(p, r, v)' = WordOf(p, r, v) /\ Reach(secs[p], r, v)' = Reach(secs[p], r, v)
  <2>1. Reach(secs[p], r, v)' = Reach(secs[p], r, v)
    BY DEF Reach, SamePlace
  <2> HIDE DEF Reach, apply_thumb_call
  <2> QED
    BY <2>1 DEF WordOf, apply_thumb_call, encode_thumb_call, Signed
<1> QED
  BY <1>2, <1>3, <1>4

\* A relocation lies in its section.
LEMMA RelFacts ==
  ASSUME TypeInv, WellInv, UniqueInv, NEW o \in DOMAIN objects, NEW k \in DOMAIN objects[o].rels
  PROVE  LET r == objects[o].rels[k]
             p == find_input_section(o, r.section)
         IN  /\ r \in Relocations /\ r.symbol \in DOMAIN objects[o].symbols /\ r.offset \in Nat
             /\ p # NoSection => /\ p \in SectionRange /\ secs[p].object = o /\ secs[p].index = r.section
                                 /\ Header(p).type # "nobits" /\ r.offset + Unit <= Header(p).size
<1> DEFINE r == objects[o].rels[k]
           p == find_input_section(o, r.section)
<1>1. /\ r \in Relocations /\ WellFormed(objects[o])
  <2>1. objects[o] \in Files
    BY ObjectFacts
  <2>2. objects[o].rels \in Seq(Relocations)
    BY <2>1, FileFacts
  <2> HIDE DEF Relocations
  <2> QED
    BY <2>2 DEF WellInv
<1>2. r.symbol \in DOMAIN objects[o].symbols /\ r.offset \in Nat
  BY <1>1 DEF WellFormed, Relocations
<1>3. ASSUME p # NoSection
      PROVE  /\ p \in SectionRange /\ secs[p].object = o /\ secs[p].index = r.section
             /\ Header(p).type # "nobits" /\ r.offset + Unit <= Header(p).size
  <2>1. p \in SectionRange /\ secs[p].object = o /\ secs[p].index = r.section
    BY <1>3, RowOf
  <2>2. r.section \in DOMAIN objects[o].sections /\ Header(p) = objects[o].sections[r.section]
    <3> HIDE DEF p, r
    <3> QED
      BY <2>1 DEF TypeInv, HeaderInv, Header
  <2> HIDE DEF p
  <2> QED
    BY <1>1, <2>1, <2>2 DEF WellFormed
<1> QED
  BY <1>1, <1>2, <1>3

\* No two relocations write at the same place.
LEMMA PlacesApart ==
  ASSUME LayoutInv, phase \in Later, WellInv, UniqueInv,
         NEW o1 \in DOMAIN objects, NEW k1 \in DOMAIN objects[o1].rels,
         NEW o2 \in DOMAIN objects, NEW k2 \in DOMAIN objects[o2].rels, ~(o1 = o2 /\ k1 = k2),
         NEW r, NEW s, r = objects[o1].rels[k1], s = objects[o2].rels[k2],
         NEW p, NEW q, p = find_input_section(o1, r.section), q = find_input_section(o2, s.section),
         p # NoSection, q # NoSection, secs[p].live, secs[q].live
  PROVE  secs[p].offset + r.offset # secs[q].offset + s.offset
<1>1. TypeInv /\ RowInv /\ SitsInv /\ ApartInv /\ Placed = Kept /\ Kept \subseteq SectionRange /\ phase # "failed"
  BY LaterFacts
<1>2. /\ p \in SectionRange /\ secs[p].object = o1 /\ secs[p].index = r.section
      /\ Header(p).type # "nobits" /\ r.offset + Unit <= Header(p).size /\ r.offset \in Nat
  BY <1>1, RelFacts
<1>3. /\ q \in SectionRange /\ secs[q].object = o2 /\ secs[q].index = s.section
      /\ Header(q).type # "nobits" /\ s.offset + Unit <= Header(q).size /\ s.offset \in Nat
  BY <1>1, RelFacts
<1>4. p \in Placed /\ q \in Placed /\ Sits(p) /\ Sits(q)
  BY <1>1, <1>2, <1>3 DEF Kept, SitsInv
<1>5. /\ secs[p].offset \in Int /\ secs[p].lma \in Nat /\ Header(p).size \in Nat
      /\ secs[q].offset \in Int /\ secs[q].lma \in Nat /\ Header(q).size \in Nat
      /\ AppBase \in Nat /\ Unit \in Nat /\ Unit > 0
  <2>1. Unit \in Nat /\ Unit > 0 /\ AppBase \in Nat
    BY ConstFacts DEF Pos
  <2> QED
    BY <1>1, <1>2, <1>3, <2>1, RowFacts
<1>6. CASE p = q
  <2>1. o1 = o2 /\ k1 # k2 /\ WellFormed(objects[o1]) /\ s.section = r.section
    BY <1>2, <1>3, <1>6 DEF WellInv
  <2>2. r.offset + Unit <= s.offset \/ s.offset + Unit <= r.offset
    BY <2>1 DEF WellFormed
  <2> QED
    BY <1>2, <1>3, <1>5, <1>6, <2>2
<1>7. CASE p # q
  <2>1. secs[p].kind # "bss" /\ secs[q].kind # "bss"
    BY <1>1, <1>2, <1>3 DEF RowInv, classify_section
  <2>2. secs[p].offset = secs[p].lma - AppBase /\ secs[q].offset = secs[q].lma - AppBase
    BY <1>4, <2>1 DEF Sits
  <2>3. End(p, secs[p].lma) <= secs[q].lma \/ End(q, secs[q].lma) <= secs[p].lma
    BY <1>1, <1>4, <1>7, <2>1 DEF ApartInv, Apart
  <2>4. secs[p].lma + Header(p).size <= secs[q].lma \/ secs[q].lma + Header(q).size <= secs[p].lma
    BY <2>3 DEF End
  <2> QED
    BY <1>2, <1>3, <1>5, <2>2, <2>4
<1> QED
  BY <1>6, <1>7

\* What a relocation wrote stays while its word does.
LEMMA WrittenStays ==
  ASSUME TypeInv, WellInv, UniqueInv, UNCHANGED <<objects, globals, layout>>, SectionRange' = SectionRange,
         \A p \in SectionRange : SamePlace(p),
         NEW o \in DOMAIN objects, NEW k \in DOMAIN objects[o].rels, Written(o, k),
         NEW r, r = objects[o].rels[k], NEW p, p = find_input_section(o, r.section),
         p # NoSection /\ secs[p].live /\ secs[p].offset + r.offset \in DOMAIN words =>
           /\ secs[p].offset + r.offset \in DOMAIN words'
           /\ words'[secs[p].offset + r.offset] = words[secs[p].offset + r.offset]
  PROVE  Written(o, k)'
<1>1. PICK value : value = symbol_value(o, r.symbol)
  OBVIOUS
<1>2. /\ find_input_section(o, r.section)' = p /\ symbol_value(o, r.symbol)' = value
      /\ objects'[o].rels[k] = r
  BY <1>1, ValuesStay
<1>3. CASE p = NoSection
  BY <1>2, <1>3 DEF Written
<1>4. CASE p # NoSection
  <2>1. p \in SectionRange
    BY <1>4, RelFacts
  <2>2. PICK where : where = secs[p].offset + r.offset
    OBVIOUS
  <2>3. PICK reach, word : reach = Reach(secs[p], r, value) /\ word = WordOf(p, r, value)
    OBVIOUS
  <2>4. /\ Reach(secs[p], r, value)' = reach /\ WordOf(p, r, value)' = word
        /\ secs'[p].live = secs[p].live /\ secs'[p].offset = secs[p].offset
    BY <2>1, <2>3, ValuesStay DEF SamePlace, SameRow
  <2>5. secs[p].live => /\ r.type # "other" /\ value # Failed
                        /\ r.type = "call" => InRange(Signed(reach))
                        /\ where \in DOMAIN words /\ words[where] = word
    BY <1>1, <1>4, <2>2, <2>3 DEF Written
  <2>6. secs[p].live => where \in DOMAIN words' /\ words'[where] = word
    BY <1>4, <2>2, <2>5
  <2> HIDE DEF InRange, Signed, Reach, WordOf, symbol_value, find_input_section
  <2>7. InRange(Signed(reach))' <=> InRange(Signed(reach))
    BY DEF InRange, Signed
  <2> QED
    BY <1>2, <2>2, <2>4, <2>5, <2>6, <2>7 DEF Written
<1> QED
  BY <1>3, <1>4

\* The relocations passed are those written, as the loop goes on.
LEMMA WordsStep ==
  ASSUME LayoutInv, WellInv, UniqueInv, WordsInv, [Next]_vars, phase # "failed", phase' # "failed"
  PROVE  WordsInv'
<1>1. TypeInv /\ at.object \in Nat /\ at.rel \in Nat /\ Len(objects) \in Nat
  BY DEF LayoutInv, TypeInv, Loops, Pos
<1>2. \A o \in DOMAIN objects : \A k \in DOMAIN objects[o].rels :
        o \in Nat /\ o >= 1 /\ o <= Len(objects) /\ k \in Nat /\ k >= 1 /\ k <= Len(objects[o].rels)
        /\ Len(objects[o].rels) \in Nat
  BY <1>1, ObjectFacts
<1>3. CASE phase' \notin {"relocate", "map", "done"}
  BY <1>3 DEF WordsInv
<1>4. ASSUME phase \notin {"relocate", "map", "done"}, phase' \in {"relocate", "map", "done"}
      PROVE  GlobalsDone
  <2>1. CASE \/ ReadObject \/ ReadDone \/ collect_object_global_symbol_names \/ NextObject \/ NamesDone
             \/ scan_archive_once \/ resolve_archives
    BY <1>4, <2>1 DEF ReadObject, ReadDone, collect_object_global_symbol_names, add_global_symbol, NextObject,
                      NamesDone, scan_archive_once, resolve_archives, Fail
  <2>2. CASE \/ mark_roots \/ mark_reachable_sections \/ NextSection \/ PassDone \/ UNCHANGED vars
    BY <1>4, <2>2 DEF mark_roots, mark_reachable_sections, NextSection, PassDone, vars, Fail
  <2>3. CASE layout_flash_sections \/ layout_data_sections \/ layout_bss_sections \/ layout_sections
    BY <1>4, <2>3 DEF layout_flash_sections, layout_data_sections, layout_bss_sections, layout_sections, PlaceAt, Fail
  <2>4. CASE collect_global_symbols \/ apply_relocations \/ NextRelocations \/ RelocationsDone \/ write_map
    BY <1>4, <2>4 DEF collect_global_symbols, add_global_symbol, apply_relocations, NextRelocations,
                      RelocationsDone, write_map, Fail
  <2>5. CASE GlobalsDone
    BY <2>5
  <2> QED
    BY <2>1, <2>2, <2>3, <2>4, <2>5 DEF Next
<1>5. CASE GlobalsDone
  <2>1. phase' = "relocate" /\ at'.object = 1 /\ at'.rel = 1 /\ objects' = objects
    BY <1>1, <1>5 DEF GlobalsDone, TypeInv, Loops
  <2> QED
    BY <1>2, <2>1 DEF WordsInv, RelPassed
<1>6. CASE phase \in {"relocate", "map", "done"}
  <2>0. phase \in Later
    BY <1>6 DEF Later
  <2>1. /\ phase' \in Later /\ UNCHANGED <<objects, layout>> /\ SectionRange' = SectionRange
        /\ \A p \in SectionRange : SamePlace(p)
    BY <1>1, <2>0, LaterStay
  <2>2. ASSUME globals' = globals, words' = words,
               \A o \in DOMAIN objects : \A k \in DOMAIN objects[o].rels :
                 (phase' = "relocate" => RelPassed(o, k)') => (phase = "relocate" => RelPassed(o, k))
        PROVE  WordsInv'
    <3>1. ASSUME NEW o \in DOMAIN objects, NEW k \in DOMAIN objects[o].rels,
                 phase' = "relocate" => RelPassed(o, k)'
          PROVE  Written(o, k)'
      <4>1. Written(o, k)
        BY <1>6, <2>2, <3>1 DEF WordsInv
      <4> QED
        BY <1>1, <2>1, <2>2, <4>1, WrittenStays
    <3> QED
      BY <2>1, <3>1 DEF WordsInv
  <2>3. CASE apply_relocations
    <3>1. at.object \in DOMAIN objects
      <4>1. at.object >= 1 /\ DOMAIN objects = 1 .. Len(objects)
        BY <1>1 DEF TypeInv, Loops, Pos
      <4>2. at.object <= Len(objects)
        BY <2>3 DEF apply_relocations
      <4> QED
        BY <1>1, <4>1, <4>2
    <3>2. PICK o0 \in DOMAIN objects : o0 = at.object
      BY <3>1
    <3>3. at.rel \in DOMAIN objects[o0].rels
      <4>1. /\ DOMAIN objects[o0].rels = 1 .. Len(objects[o0].rels) /\ Len(objects[o0].rels) \in Nat
            /\ at.rel >= 1
        BY <1>1, ObjectFacts
      <4>2. at.rel <= Len(objects[o0].rels)
        BY <2>3, <3>2 DEF apply_relocations
      <4> QED
        BY <1>1, <4>1, <4>2
    <3>4. PICK k0 \in DOMAIN objects[o0].rels : k0 = at.rel
      BY <3>3
    <3>5. PICK r0 : r0 = objects[o0].rels[k0]
      OBVIOUS
    <3>6. PICK p0 : p0 = find_input_section(o0, r0.section)
      OBVIOUS
    <3>7. PICK value0 : value0 = symbol_value(o0, r0.symbol)
      OBVIOUS
    <3>8. PICK where0 : where0 = secs[p0].offset + r0.offset
      OBVIOUS
    <3> DEFINE skips == p0 = NoSection \/ ~secs[p0].live
    <3>9. /\ phase = "relocate" /\ phase' = "relocate" /\ globals' = globals
          /\ at' = [at EXCEPT !.rel = @ + 1]
          /\ skips => words' = words
          /\ ~skips => /\ r0.type # "other" /\ value0 # Failed
                       /\ r0.type = "call" => InRange(Signed(Reach(secs[p0], r0, value0)))
                       /\ words' = [b \in DOMAIN words \cup {where0} |->
                                      IF b = where0 THEN WordOf(p0, r0, value0) ELSE words[b]]
      <4> HIDE DEF InRange, Signed, Reach, symbol_value, find_input_section, apply_thumb_call
      <4> QED
        BY <2>3, <3>2, <3>4, <3>5, <3>6, <3>7, <3>8, ZenonT(40)
           DEF apply_relocations, Fail, WordOf
    <3>10. at'.object = o0 /\ at'.rel = k0 + 1
      BY <1>1, <3>2, <3>4, <3>9 DEF TypeInv, Loops
    <3>11. ASSUME NEW o \in DOMAIN objects, NEW k \in DOMAIN objects[o].rels, RelPassed(o, k)'
           PROVE  RelPassed(o, k) \/ (o = o0 /\ k = k0)
      BY <1>2, <3>2, <3>4, <3>10, <3>11 DEF RelPassed
    <3>12. ASSUME NEW o \in DOMAIN objects, NEW k \in DOMAIN objects[o].rels, RelPassed(o, k),
                  ~(o = o0 /\ k = k0)
           PROVE  Written(o, k)'
      <4>1. Written(o, k)
        BY <3>9, <3>12 DEF WordsInv
      <4>2. PICK r : r = objects[o].rels[k]
        OBVIOUS
      <4>3. PICK p : p = find_input_section(o, r.section)
        OBVIOUS
      <4>4. ~skips /\ p # NoSection /\ secs[p].live => secs[p].offset + r.offset # where0
        BY <2>0, <3>5, <3>6, <3>8, <3>12, <4>2, <4>3, PlacesApart
      <4>5. p # NoSection /\ secs[p].live /\ secs[p].offset + r.offset \in DOMAIN words =>
              /\ secs[p].offset + r.offset \in DOMAIN words'
              /\ words'[secs[p].offset + r.offset] = words[secs[p].offset + r.offset]
        BY <3>9, <4>4
      <4> QED
        BY <1>1, <2>1, <3>9, <4>1, <4>2, <4>3, <4>5, WrittenStays
    <3>13. Written(o0, k0)'
      <4>1. CASE skips
        <5>1. Written(o0, k0)
          BY <3>5, <3>6, <4>1 DEF Written
        <5> QED
          BY <1>1, <2>1, <3>9, <4>1, <5>1, WrittenStays
      <4>2. CASE ~skips
        <5>1. p0 \in SectionRange
          BY <1>1, <3>5, <3>6, <4>2, RelFacts
        <5>2. PICK reach, word : reach = Reach(secs[p0], r0, value0) /\ word = WordOf(p0, r0, value0)
          OBVIOUS
        <5>3. /\ Reach(secs[p0], r0, value0)' = reach /\ WordOf(p0, r0, value0)' = word
              /\ secs'[p0].offset = secs[p0].offset
              /\ find_input_section(o0, r0.section)' = p0 /\ symbol_value(o0, r0.symbol)' = value0
          BY <1>1, <2>1, <3>6, <3>7, <3>9, <5>1, <5>2, ValuesStay DEF SamePlace
        <5>4. where0 \in DOMAIN words' /\ words'[where0] = word
          BY <3>9, <4>2, <5>2
        <5>5. /\ r0.type # "other" /\ value0 # Failed /\ objects'[o0].rels[k0] = r0
              /\ r0.type = "call" => InRange(Signed(reach))
          BY <2>1, <3>5, <3>9, <4>2, <5>2
        <5> HIDE DEF InRange, Signed, Reach, WordOf, symbol_value, find_input_section, skips
        <5>6. InRange(Signed(reach))' <=> InRange(Signed(reach))
          BY DEF InRange, Signed
        <5> QED
          BY <3>8, <5>3, <5>4, <5>5, <5>6 DEF Written
      <4> QED
        BY <4>1, <4>2
    <3>14. ASSUME NEW o \in DOMAIN objects, NEW k \in DOMAIN objects[o].rels, RelPassed(o, k)'
           PROVE  Written(o, k)'
      BY <3>11, <3>12, <3>13, <3>14
    <3> QED
      BY <2>1, <3>9, <3>14 DEF WordsInv
  <2>4. CASE NextRelocations
    <3>1. /\ phase = "relocate" /\ phase' = "relocate" /\ globals' = globals /\ words' = words
          /\ at'.object = at.object + 1 /\ at'.rel = 1
          /\ at.object <= Len(objects) /\ at.rel > Len(objects[at.object].rels)
      BY <1>1, <2>4 DEF NextRelocations, TypeInv, Loops
    <3>2. ASSUME NEW o \in DOMAIN objects, NEW k \in DOMAIN objects[o].rels, RelPassed(o, k)'
          PROVE  RelPassed(o, k)
      BY <1>1, <1>2, <3>1, <3>2 DEF RelPassed
    <3> QED
      BY <2>2, <3>1, <3>2
  <2>5. CASE RelocationsDone
    <3>1. globals' = globals /\ words' = words /\ at.object > Len(objects)
      BY <2>5 DEF RelocationsDone
    <3>2. \A o \in DOMAIN objects : \A k \in DOMAIN objects[o].rels : RelPassed(o, k)
      BY <1>1, <1>2, <3>1 DEF RelPassed
    <3> QED
      BY <2>2, <3>1, <3>2
  <2>6. CASE write_map
    BY <2>2, <2>6 DEF write_map
  <2>7. CASE UNCHANGED vars
    BY <2>2, <2>7 DEF vars, RelPassed
  <2>8. CASE \/ ReadObject \/ ReadDone \/ collect_object_global_symbol_names \/ NextObject \/ NamesDone
             \/ scan_archive_once \/ resolve_archives
    BY <1>6, <2>8 DEF ReadObject, ReadDone, collect_object_global_symbol_names, NextObject, NamesDone,
                      scan_archive_once, resolve_archives
  <2>9. CASE \/ mark_roots \/ mark_reachable_sections \/ NextSection \/ PassDone
             \/ layout_flash_sections \/ layout_data_sections \/ layout_bss_sections \/ layout_sections
    BY <1>6, <2>9 DEF mark_roots, mark_reachable_sections, NextSection, PassDone,
                layout_flash_sections, layout_data_sections, layout_bss_sections, layout_sections
  <2>10. CASE collect_global_symbols \/ GlobalsDone
    BY <1>6, <2>10 DEF collect_global_symbols, GlobalsDone
  <2> QED
    BY <2>3, <2>4, <2>5, <2>6, <2>7, <2>8, <2>9, <2>10 DEF Next
<1> QED
  BY <1>3, <1>4, <1>5, <1>6

LEMMA Quotient ==
  ASSUME NEW a \in Pos, NEW k \in Int, NEW r \in 0 .. a - 1
  PROVE  (k * a + r) \div a = k
  BY DEF Pos

LEMMA Shifted ==
  ASSUME NEW a \in Pos, NEW v \in Int, NEW k \in Int
  PROVE  (v + k * a) % a = v % a
<1>1. PICK j \in Int, r \in 0 .. a - 1 : v = j * a + r
  BY Division
<1>2. v + k * a = (j + k) * a + r /\ j + k \in Int
  BY <1>1 DEF Pos
<1>3. (v + k * a) % a = r
  BY <1>2, Remainder
<1> QED
  BY <1>1, <1>3, Remainder

LEMMA Distributed ==
  ASSUME NEW a \in Int, NEW b \in Int, NEW c \in Int, NEW d \in Int
  PROVE  (a * b + c) * d = a * (b * d) + d * c
<1>1. (a * b + c) * d = (a * b) * d + c * d
  OBVIOUS
<1>2. (a * b) * d = a * (b * d) /\ c * d = d * c
  OBVIOUS
<1> QED
  BY <1>1, <1>2

\* The fields of a call, as the weights of its bits.
LEMMA CallFields ==
  ASSUME NEW A \in Pos, A = Imm10 * Imm11, NEW e \in 0 .. 16 * A - 1, e % 2 = 0
  PROVE  \E m11, m10, b1, b2, s \in Nat :
           /\ e = 2 * m11 + 2 * (Imm11 * m10) + 2 * A * b2 + 4 * A * b1 + 8 * A * s
           /\ m11 = (e \div 2) % Imm11 /\ m10 = (e \div (2 * Imm11)) % Imm10
           /\ b2 = (e \div (2 * A)) % 2 /\ b1 = (e \div (4 * A)) % 2 /\ s = (e \div (8 * A)) % 2
           /\ b1 \in {0, 1} /\ b2 \in {0, 1} /\ s \in {0, 1} /\ (s = 1 <=> e >= 8 * A)
<1>0. Imm10 \in Pos /\ Imm11 \in Pos /\ A \in Nat /\ A > 0 /\ e \in Nat /\ e < 16 * A
  BY LinkAssumption DEF Pos
<1>1. PICK h \in Int : h = e \div 2 /\ e = 2 * h
  BY <1>0
<1>2. PICK q \in Int, m11 \in 0 .. Imm11 - 1 : q = h \div Imm11 /\ m11 = h % Imm11 /\ h = q * Imm11 + m11
  <2>1. /\ h \div Imm11 \in Int /\ h % Imm11 \in 0 .. Imm11 - 1
        /\ h = (h \div Imm11) * Imm11 + (h % Imm11)
    BY <1>0, Division
  <2> QED
    BY <2>1
<1>3. PICK t \in Int, m10 \in 0 .. Imm10 - 1 : t = q \div Imm10 /\ m10 = q % Imm10 /\ q = t * Imm10 + m10
  BY <1>0, <1>2, Division
<1>4. PICK c \in Int : c = Imm11 * m10 /\ 0 <= c /\ c <= A - Imm11
  <2>0. Imm10 \in Nat /\ Imm11 \in Nat /\ m10 \in Nat /\ m10 <= Imm10 - 1 /\ Imm11 >= 1
    BY <1>0, <1>3 DEF Pos
  <2>1. PICK i \in Nat, j \in Nat, m \in Nat : i = Imm10 /\ j = Imm11 /\ m = m10 /\ m <= i - 1 /\ j >= 1
    BY <2>0
  <2>2. j * m \in Int /\ 0 <= j * m /\ j * m <= j * (i - 1)
    BY <2>1
  <2>3. j * (i - 1) = i * j - j
    BY <2>1
  <2> QED
    BY <2>1, <2>2, <2>3
<1>5. h = t * A + c + m11
  <2>0. Imm10 \in Int /\ Imm11 \in Int /\ m10 \in Int
    BY <1>0, <1>3 DEF Pos
  <2>1. (t * Imm10 + m10) * Imm11 = t * (Imm10 * Imm11) + Imm11 * m10
    BY <2>0, Distributed
  <2>2. q * Imm11 = t * A + c
    BY <1>3, <1>4, <2>1
  <2> QED
    BY <1>2, <2>2
<1>6. m11 \in Nat /\ m11 <= Imm11 - 1 /\ Imm11 \in Nat /\ Imm11 > 0 /\ m10 \in Nat
  BY <1>0, <1>2, <1>3 DEF Pos
<1>7. c + m11 \in 0 .. A - 1
  BY <1>0, <1>4, <1>6
<1>8. PICK x \in Int : x = t * A /\ e = 2 * x + 2 * (c + m11)
  BY <1>0, <1>1, <1>5, <1>7
<1>9. t \in 0 .. 7
  <2>1. t >= 0
    <3>1. t < 0 => t * A <= -A
      BY <1>0
    <3> QED
      BY <1>0, <1>7, <1>8, <3>1
  <2>2. t <= 7
    <3>1. t >= 8 => t * A >= 8 * A
      BY <1>0
    <3> QED
      BY <1>0, <1>7, <1>8, <3>1
  <2> QED
    BY <2>1, <2>2
<1> DEFINE b2 == t % 2
           u == t \div 2
           b1 == u % 2
           s == u \div 2
<1>10. /\ t = u * 2 + b2 /\ u = s * 2 + b1 /\ u \in 0 .. 3 /\ u \in Int /\ s \in Int
       /\ b2 \in {0, 1} /\ b1 \in {0, 1} /\ s \in {0, 1}
  BY <1>9
<1>11. e \div (2 * Imm11) = q
  <2>1. e = q * (2 * Imm11) + 2 * m11
    BY <1>1, <1>2, <1>6
  <2>2. 2 * m11 \in 0 .. 2 * Imm11 - 1 /\ 2 * Imm11 \in Pos
    BY <1>6 DEF Pos
  <2> QED
    BY <2>1, <2>2, Quotient
<1>12. e \div (2 * A) = t
  <2>1. e = t * (2 * A) + 2 * (c + m11)
    BY <1>0, <1>7, <1>8
  <2>2. 2 * (c + m11) \in 0 .. 2 * A - 1 /\ 2 * A \in Pos
    BY <1>0, <1>7 DEF Pos
  <2> QED
    BY <2>1, <2>2, Quotient, ZenonT(40)
<1>13. e = 2 * (c + m11) + 2 * A * b2 + 4 * A * b1 + 8 * A * s
  <2>1. t = b2 + 2 * b1 + 4 * s
    BY <1>9, <1>10
  <2> HIDE DEF b1, b2, s, u
  <2>2. t * A = b2 * A + 2 * (b1 * A) + 4 * (s * A)
    BY <1>0, <1>10, <2>1
  <2> QED
    BY <1>0, <1>7, <1>8, <1>10, <2>2
<1>14. e \div (4 * A) = u
  <2> HIDE DEF b1, b2, s
  <2>1. 2 * A * b2 + 2 * (c + m11) \in 0 .. 4 * A - 1 /\ 4 * A \in Pos
    BY <1>0, <1>7, <1>10 DEF Pos
  <2>2. t * A = 2 * (u * A) + b2 * A
    BY <1>0, <1>9, <1>10
  <2>3. e = u * (4 * A) + (2 * A * b2 + 2 * (c + m11))
    <3> HIDE DEF u
    <3> QED
      BY <1>0, <1>7, <1>8, <1>10, <2>2
  <2> QED
    BY <1>10, <2>1, <2>3, Quotient
<1>15. e \div (8 * A) = s
  <2> HIDE DEF b1, b2, s, u
  <2>1. 4 * A * b1 + 2 * A * b2 + 2 * (c + m11) \in 0 .. 8 * A - 1 /\ 8 * A \in Pos
    BY <1>0, <1>7, <1>10 DEF Pos
  <2>2. e = s * (8 * A) + (4 * A * b1 + 2 * A * b2 + 2 * (c + m11))
    BY <1>0, <1>7, <1>10, <1>13
  <2> QED
    BY <1>10, <2>1, <2>2, Quotient
<1>16. s = 1 <=> e >= 8 * A
  <2> HIDE DEF b1, b2, s, u
  <2>1. 4 * A * b1 + 2 * A * b2 + 2 * (c + m11) \in 0 .. 8 * A - 1
    BY <1>0, <1>7, <1>10
  <2> QED
    BY <1>0, <1>7, <1>10, <1>13, <2>1
<1>17. s % 2 = s
  BY <1>10
<1>18. /\ e = 2 * m11 + 2 * (Imm11 * m10) + 2 * A * b2 + 4 * A * b1 + 8 * A * s
       /\ m11 = (e \div 2) % Imm11 /\ m10 = (e \div (2 * Imm11)) % Imm10
       /\ b2 = (e \div (2 * A)) % 2 /\ b1 = (e \div (4 * A)) % 2 /\ s = (e \div (8 * A)) % 2
  <2>1. m11 = (e \div 2) % Imm11 /\ m10 = (e \div (2 * Imm11)) % Imm10
    BY <1>1, <1>2, <1>3, <1>11
  <2>2. b2 = (e \div (2 * A)) % 2 /\ b1 = (e \div (4 * A)) % 2
    BY <1>12, <1>14
  <2>3. s = (e \div (8 * A)) % 2
    <3> HIDE DEF s
    <3> QED
      BY <1>15, <1>17
  <2>4. e = 2 * m11 + 2 * (Imm11 * m10) + 2 * A * b2 + 4 * A * b1 + 8 * A * s
    <3> HIDE DEF b1, b2, s, u
    <3> QED
      BY <1>0, <1>4, <1>6, <1>10, <1>13
  <2> QED
    BY <2>1, <2>2, <2>3, <2>4
<1> HIDE DEF b1, b2, s, u
<1>19. m11 \in Nat /\ m10 \in Nat /\ b1 \in Nat /\ b2 \in Nat /\ s \in Nat
  BY <1>6, <1>10
<1> QED
  BY <1>10, <1>16, <1>18, <1>19

\* The processor reads a call as the distance that was encoded.
LEMMA CallReads ==
  ASSUME NEW x \in Int, x >= -CallRange, x <= CallRange - 2, x % 2 = 0
  PROVE  CallDistance(encode_thumb_call(x)) = x
<1>1. PICK A \in Pos : A = Imm10 * Imm11
  <2>1. Imm10 \in Pos /\ Imm11 \in Pos
    BY LinkAssumption DEF Pos
  <2>2. Imm10 * Imm11 \in Pos
    BY <2>1 DEF Pos
  <2> QED
    BY <2>2
<1>2. /\ A \in Nat /\ A > 0 /\ Imm10 \in Nat /\ Imm11 \in Nat
      /\ CallRange = 8 * A /\ CallRange \div 2 = 4 * A /\ CallRange \div 4 = 2 * A
  <2>1. A \in Nat /\ A > 0 /\ Imm10 \in Nat /\ Imm11 \in Nat
    BY <1>1, LinkAssumption DEF Pos
  <2>2. CallRange = 8 * A
    BY <1>1, <2>1 DEF CallRange
  <2> QED
    BY <2>1, <2>2
<1>3. PICK e \in Int : e = x % (16 * A) /\ e \in 0 .. 16 * A - 1 /\ e % 2 = 0
                       /\ IF x >= 0 THEN e = x ELSE e = x + 16 * A
  <2>1. 16 * A \in Pos
    BY <1>2 DEF Pos
  <2>2. CASE x >= 0
    <3>1. x \in 0 .. 16 * A - 1 /\ x = 0 * (16 * A) + x
      BY <1>2, <2>2
    <3>2. x % (16 * A) = x
      BY <2>1, <3>1, Remainder
    <3> QED
      BY <2>2, <3>1, <3>2
  <2>3. CASE x < 0
    <3>1. x + 16 * A \in 0 .. 16 * A - 1 /\ x = (-1) * (16 * A) + (x + 16 * A)
      BY <1>2, <2>3
    <3>2. x % (16 * A) = x + 16 * A
      BY <2>1, <3>1, Remainder
    <3>3. (x + 16 * A) % 2 = 0
      BY <1>2
    <3> QED
      BY <2>3, <3>1, <3>2, <3>3
  <2> QED
    BY <2>2, <2>3
<1>4. PICK m11, m10, b1, b2, s \in Nat :
        /\ e = 2 * m11 + 2 * (Imm11 * m10) + 2 * A * b2 + 4 * A * b1 + 8 * A * s
        /\ m11 = (e \div 2) % Imm11 /\ m10 = (e \div (2 * Imm11)) % Imm10
        /\ b2 = (e \div (2 * A)) % 2 /\ b1 = (e \div (4 * A)) % 2 /\ s = (e \div (8 * A)) % 2
        /\ b1 \in {0, 1} /\ b2 \in {0, 1} /\ s \in {0, 1} /\ (s = 1 <=> e >= 8 * A)
  BY <1>1, <1>3, CallFields
<1> DEFINE J(bit) == IF bit = s THEN 1 ELSE 0
<1>5. encode_thumb_call(x) = [sign |-> s, imm10 |-> m10, j1 |-> J(b1), j2 |-> J(b2), imm11 |-> m11]
  <2>1. x % (2 * CallRange) = e
    BY <1>2, <1>3
  <2> QED
    BY <1>2, <1>4, <2>1 DEF encode_thumb_call, Bit
<1>6. \A b \in {0, 1} : (IF J(b) = s THEN 1 ELSE 0) = b
  BY <1>4
<1>7. CallDistance(encode_thumb_call(x)) =
        2 * m11 + 2 * Imm11 * m10 + (CallRange \div 4) * b2 + (CallRange \div 2) * b1 - CallRange * s
  <2>1. (IF J(b1) = s THEN 1 ELSE 0) = b1 /\ (IF J(b2) = s THEN 1 ELSE 0) = b2
    BY <1>4, <1>6
  <2> HIDE DEF J, CallRange
  <2> QED
    BY <1>5, <2>1 DEF CallDistance
<1>8. PICK c \in Int : 2 * Imm11 * m10 = 2 * c /\ Imm11 * m10 = c
  <2>1. Imm11 * m10 \in Int /\ 2 * Imm11 * m10 = 2 * (Imm11 * m10)
    BY <1>2
  <2> QED
    BY <2>1
<1>9. /\ e = 2 * m11 + 2 * c + 2 * A * b2 + 4 * A * b1 + 8 * A * s
      /\ b1 \in {0, 1} /\ b2 \in {0, 1} /\ s \in {0, 1} /\ (s = 1 <=> e >= 8 * A)
      /\ e < 16 * A /\ (IF x >= 0 THEN e = x ELSE e = x + 16 * A)
      /\ x >= -(8 * A) /\ x < 8 * A
  <2>1. e = 2 * m11 + 2 * c + 2 * A * b2 + 4 * A * b1 + 8 * A * s
    BY <1>4, <1>8, ZenonT(20)
  <2>2. b1 \in {0, 1} /\ b2 \in {0, 1} /\ s \in {0, 1} /\ (s = 1 <=> e >= 8 * A)
    BY <1>4
  <2>3. e < 16 * A /\ (IF x >= 0 THEN e = x ELSE e = x + 16 * A)
    BY <1>2, <1>3
  <2> QED
    BY <1>2, <2>1, <2>2, <2>3
<1>10. CallDistance(encode_thumb_call(x)) = (2 * m11 + 2 * c + 2 * A * b2 + 4 * A * b1) - 8 * A * s
  BY <1>2, <1>7, <1>8
<1>11. s = 1 <=> x < 0
  BY <1>2, <1>9
<1>12. 8 * A * s = IF s = 1 THEN 8 * A ELSE 0
  BY <1>2, <1>9
<1>13. PICK y \in Int : y = 2 * m11 + 2 * c + 2 * A * b2 + 4 * A * b1
  <2>1. 2 * m11 + 2 * c + 2 * A * b2 + 4 * A * b1 \in Int
    BY <1>2, <1>8
  <2> QED
    BY <2>1
<1>14. PICK z \in Int : z = 8 * A * s /\ z = IF s = 1 THEN 8 * A ELSE 0
  <2>1. 8 * A * s \in Int
    BY <1>2, <1>12
  <2> QED
    BY <1>12, <2>1
<1>15. e = y + z /\ CallDistance(encode_thumb_call(x)) = y - z
  <2>1. e = y + z
    BY <1>9, <1>13, <1>14
  <2>2. CallDistance(encode_thumb_call(x)) = y - z
    <3>1. y = 2 * m11 + 2 * c + 2 * A * b2 + 4 * A * b1 /\ z = 8 * A * s
      BY <1>13, <1>14
    <3> QED
      BY <1>10, <3>1, Zenon
  <2> QED
    BY <2>1, <2>2
<1>16. y - z = x
  <2>1. e = y + z /\ z = (IF x < 0 THEN 8 * A ELSE 0) /\ (IF x >= 0 THEN e = x ELSE e = x + 16 * A)
    BY <1>9, <1>11, <1>14, <1>15
  <2> QED
    BY <1>2, <2>1
<1> QED
  BY <1>15, <1>16

\* A word that holds a distance leads from its place to where it should, a call
\* too, but for the lowest bit.
Distance(P, v) == (v - P) % WordMod
Lands(P, v, d) == (P + d) % WordMod = v % WordMod
LEMMA DistanceLands ==
  ASSUME NEW P \in Int, NEW v \in Int
  PROVE  /\ Distance(P, v) \in Int /\ Lands(P, v, Distance(P, v))
         /\ InRange(Signed(Distance(P, v))) => \E low \in {0, 1} :
              (P + CallDistance(apply_thumb_call(Signed(Distance(P, v)))) + low) % WordMod = v % WordMod
<1>0. PICK d : d = Distance(P, v) /\ d = (v - P) % WordMod
  BY DEF Distance
<1>1. WordMod \in Pos /\ v - P \in Int /\ WordMod \in Int
  BY ConstFacts DEF Pos
<1>2. PICK k \in Int : d \in Int /\ v - P = k * WordMod + d
  <2>1. /\ (v - P) \div WordMod \in Int /\ (v - P) % WordMod \in 0 .. WordMod - 1
        /\ v - P = ((v - P) \div WordMod) * WordMod + ((v - P) % WordMod)
    BY <1>1, Division
  <2>2. d \in Int
    BY <1>0, <1>1, <2>1
  <2> QED
    BY <1>0, <2>1, <2>2
<1>3. ASSUME NEW n \in Int
      PROVE  (v + n * WordMod) % WordMod = v % WordMod
  BY <1>1, Shifted
<1>4. PICK m \in Int : m = k * WordMod /\ v - P = m + d /\ P + d = v - m
                       /\ (-k) * WordMod = -m /\ (-k - 1) * WordMod = -m - WordMod
  <2>1. k * WordMod \in Int /\ (-k) * WordMod = -(k * WordMod)
        /\ (-k - 1) * WordMod = -(k * WordMod) - WordMod
    BY <1>1
  <2>2. PICK m \in Int : m = k * WordMod
    BY <2>1
  <2>3. v - P = m + d /\ P + d = v - m
    BY <1>2, <2>2
  <2> QED
    BY <2>1, <2>2, <2>3
<1>5. (P + d) % WordMod = v % WordMod
  <2>1. P + d = v + (-k) * WordMod /\ -k \in Int
    BY <1>1, <1>4
  <2> QED
    BY <1>3, <2>1
<1>6. (P + Signed(d)) % WordMod = v % WordMod /\ Signed(d) \in Int
  <2>1. CASE Signed(d) = d
    BY <1>2, <1>5, <2>1
  <2>2. CASE Signed(d) = d - WordMod
    <3>0. P + (d - WordMod) = v + (-m - WordMod)
      <4>1. d \in Int /\ WordMod \in Int /\ P + d = v - m
        BY <1>1, <1>2, <1>4
      <4> QED
        BY <4>1
    <3>1. P + (d - WordMod) = v + (-k - 1) * WordMod /\ -k - 1 \in Int
      BY <1>4, <3>0
    <3>2. (v + (-k - 1) * WordMod) % WordMod = v % WordMod
      BY <1>3, <3>1
    <3> QED
      BY <1>1, <1>2, <2>2, <3>1, <3>2
  <2> QED
    BY <2>1, <2>2 DEF Signed
<1>7. ASSUME InRange(Signed(d))
      PROVE  \E low \in {0, 1} :
              (P + CallDistance(apply_thumb_call(Signed(d))) + low) % WordMod = v % WordMod
  <2>1. PICK z \in Int : z = Signed(d)
    BY <1>6
  <2>2. PICK x \in Int : x = 2 * (z \div 2) /\ x % 2 = 0 /\ z = x + (z % 2) /\ z % 2 \in {0, 1}
    BY <2>1
  <2>3. x >= -CallRange /\ x <= CallRange - 2
    <3>1. CallRange \in Int
      BY LinkAssumption DEF CallRange
    <3>2. x \in -CallRange .. CallRange - 2
      BY <1>7, <2>1, <2>2 DEF InRange
    <3> QED
      BY <3>1, <3>2
  <2>4. CallDistance(encode_thumb_call(x)) = x
    BY <2>2, <2>3, CallReads
  <2>5. CallDistance(apply_thumb_call(Signed(d))) = x
    BY <2>1, <2>2, <2>4 DEF apply_thumb_call
  <2>6. P + x + (z % 2) = P + z
    BY <2>2
  <2> QED
    BY <1>6, <2>1, <2>2, <2>5, <2>6
<1> HIDE DEF InRange, Signed, CallDistance, apply_thumb_call
<1> QED
  BY <1>0, <1>2, <1>5, <1>7 DEF Lands

\* An entry stands for the definitions of its name: the strong one, or the first weak one.
LEMMA EntryMeans ==
  ASSUME Linked, TypeInv, EntryInv, KnownInv, NEW n
  PROVE  /\ n \notin DOMAIN globals =>
              Definitions(n, "global") = {} /\ Definitions(n, "weak") = {}
         /\ n \in DOMAIN globals =>
              /\ globals[n].bind = "global" => Definitions(n, "global") = {Entry(n)}
              /\ globals[n].bind = "weak" =>
                   /\ Definitions(n, "global") = {}
                   /\ {d \in Definitions(n, "weak") : \A e \in Definitions(n, "weak") : Before(d, e)} = {Entry(n)}
              /\ globals[n].bind \in {"global", "weak"}
              /\ Symbol(globals[n].object, globals[n].symbol).section # UNDEF
              /\ Symbol(globals[n].object, globals[n].symbol).bind = globals[n].bind
<1>1. \A o \in DOMAIN objects : \A i \in DOMAIN objects[o].symbols : Seen(o, i) <=> Defines(Symbol(o, i))
  BY DEF Seen, Linked
<1>2. ASSUME NEW b, NEW d
      PROVE  d \in Definitions(n, b) <=>
               \E o \in DOMAIN objects : \E i \in DOMAIN objects[o].symbols :
                 d = <<o, i>> /\ Symbol(o, i).name = n /\ Symbol(o, i).bind = b /\ Defines(Symbol(o, i))
  <2> HIDE DEF Symbol, Defines
  <2> QED
    BY DEF Definitions
<1>3. CASE n \notin DOMAIN globals
  <2>1. \A b : Definitions(n, b) = {}
    <3> HIDE DEF Symbol, Defines, Definitions, Seen
    <3> QED
      BY <1>1, <1>2, <1>3 DEF KnownInv
  <2> QED
    BY <1>3, <2>1
<1>4. CASE n \in DOMAIN globals
  <2>1. PICK eo \in DOMAIN objects : eo = globals[n].object
    BY <1>4 DEF EntryInv, EntryFor, Seen
  <2>2. PICK ei \in DOMAIN objects[eo].symbols : ei = globals[n].symbol
    BY <1>4, <2>1 DEF EntryInv, EntryFor, Seen
  <2>3. PICK bind : bind = globals[n].bind
    OBVIOUS
  <2>4. /\ Symbol(eo, ei).name = n /\ Symbol(eo, ei).bind = bind /\ Defines(Symbol(eo, ei))
        /\ Entry(n) = <<eo, ei>>
        /\ \A o \in DOMAIN objects : \A i \in DOMAIN objects[o].symbols :
             Defines(Symbol(o, i)) /\ Symbol(o, i).name = n =>
               /\ Symbol(o, i).bind = "global" => <<o, i>> = <<eo, ei>>
               /\ bind = "weak" => Before(<<eo, ei>>, <<o, i>>)
    <3>1. EntryFor(n)
      BY <1>4 DEF EntryInv
    <3> HIDE DEF Symbol, Defines, Before, Seen
    <3> QED
      BY <1>1, <2>1, <2>2, <2>3, <3>1 DEF EntryFor, Entry
  <2>5. bind \in {"global", "weak"} /\ Symbol(eo, ei).section # UNDEF
    <3>1. Symbol(eo, ei) \in Symbols
      <4>1. objects[eo].symbols \in Seq(Symbols)
        <5>1. objects[eo] \in Files
          BY ObjectFacts
        <5> QED
          BY <5>1, FileFacts
      <4> HIDE DEF Symbols
      <4> QED
        BY <4>1 DEF Symbol
    <3> QED
      BY <2>4, <3>1 DEF Defines, Symbols
  <2> HIDE DEF Symbol, Defines, Definitions, Entry
  <2>6. CASE bind = "global"
    <3>1. \A d : d \in Definitions(n, "global") <=> d = <<eo, ei>>
      BY <1>2, <2>4, <2>6
    <3>2. Definitions(n, "global") = {<<eo, ei>>}
      BY <3>1
    <3> QED
      BY <1>4, <2>1, <2>2, <2>3, <2>4, <2>5, <2>6, <3>2
  <2>7. CASE bind = "weak"
    <3>1. Definitions(n, "global") = {}
      <4>1. ASSUME NEW o \in DOMAIN objects, NEW i \in DOMAIN objects[o].symbols,
                   Symbol(o, i).name = n, Symbol(o, i).bind = "global", Defines(Symbol(o, i))
            PROVE  FALSE
        <5>1. <<o, i>> = <<eo, ei>>
          BY <2>4, <4>1
        <5> QED
          BY <2>4, <2>7, <4>1, <5>1
      <4> QED
        BY <1>2, <4>1
    <3>2. <<eo, ei>> \in Definitions(n, "weak")
      BY <1>2, <2>4, <2>7
    <3>3. \A d \in Definitions(n, "weak") : Before(<<eo, ei>>, d)
      <4> HIDE DEF Before
      <4> QED
        BY <1>2, <2>4, <2>7
    <3>4. ASSUME NEW d \in Definitions(n, "weak"), Before(d, <<eo, ei>>) PROVE d = <<eo, ei>>
      <4>1. PICK o \in DOMAIN objects : \E i \in DOMAIN objects[o].symbols : d = <<o, i>>
        BY <1>2
      <4>2. PICK i \in DOMAIN objects[o].symbols : d = <<o, i>>
        BY <4>1
      <4>3. o \in Nat /\ i \in Nat /\ eo \in Nat /\ ei \in Nat
        <5>1. /\ o \in Nat /\ DOMAIN objects[o].symbols = 1 .. Len(objects[o].symbols)
              /\ Len(objects[o].symbols) \in Nat
          BY ObjectFacts
        <5>2. /\ eo \in Nat /\ DOMAIN objects[eo].symbols = 1 .. Len(objects[eo].symbols)
              /\ Len(objects[eo].symbols) \in Nat
          BY ObjectFacts
        <5> QED
          BY <5>1, <5>2
      <4>4. Before(<<o, i>>, <<eo, ei>>) /\ Before(<<eo, ei>>, <<o, i>>)
        BY <3>3, <3>4, <4>2
      <4>5. o = eo /\ i = ei
        BY <4>3, <4>4 DEF Before
      <4> QED
        BY <4>2, <4>5
    <3>5. {d \in Definitions(n, "weak") : \A e \in Definitions(n, "weak") : Before(d, e)} = {<<eo, ei>>}
      <4> HIDE DEF Before
      <4> QED
        BY <3>2, <3>3, <3>4
    <3> QED
      BY <1>4, <2>1, <2>2, <2>3, <2>4, <2>5, <2>7, <3>1, <3>5
  <2> QED
    BY <2>5, <2>6, <2>7
<1> QED
  BY <1>3, <1>4

\* The value that relocation takes is the address that the symbol means.
LEMMA ValueIsAddress ==
  ASSUME Linked, TypeInv, EntryInv, KnownInv, ValueInv,
         NEW o \in DOMAIN objects, NEW i \in DOMAIN objects[o].symbols,
         symbol_value(o, i) # Failed, HasAddress(o, i),
         symbol_target_section(o, i) \in SectionRange => secs[symbol_target_section(o, i)].live
  PROVE  /\ symbol_value(o, i) = Address(o, i)
         /\ LET d == CHOOSE d \in Meanings(o, i) : TRUE
            IN  Meanings(o, i) # {} /\ Symbol(d[1], d[2]).section # ABS => secs[Place(d)].live
<1>1. PICK sym : sym = Symbol(o, i)
  OBVIOUS
<1>2. PICK value : value = symbol_value(o, i)
  OBVIOUS
<1>3. PICK own : own = find_input_section(o, sym.section) /\ own \in SectionRange \cup {NoSection}
  <2>1. find_input_section(o, sym.section) \in SectionRange \cup {NoSection}
    BY DEF find_input_section, OneOf, Rows
  <2> QED
    BY <2>1
<1>4. ABS # UNDEF /\ Failed # NoSection
  BY DEF ABS, UNDEF, Failed, NoSection
\* Where the symbol means one definition, with that address.
<1>5. ASSUME NEW a, NEW b, NEW s, s = Symbol(a, b), NEW p, p = find_input_section(a, s.section),
             Meanings(o, i) = {<<a, b>>},
             s.section = ABS => value = s.value,
             s.section # ABS => secs[p].live /\ value = secs[p].vma + s.value
      PROVE  /\ value = Address(o, i)
             /\ LET d == CHOOSE d \in Meanings(o, i) : TRUE
                IN  Meanings(o, i) # {} /\ Symbol(d[1], d[2]).section # ABS => secs[Place(d)].live
  <2>1. (CHOOSE d \in Meanings(o, i) : TRUE) = <<a, b>> /\ Meanings(o, i) # {}
    BY <1>5
  <2>2. Place(<<a, b>>) = p /\ <<a, b>>[1] = a /\ <<a, b>>[2] = b
    BY <1>5 DEF Place
  <2> HIDE DEF Meanings, Place, Symbol
  <2>3. Address(o, i) = IF s.section = ABS THEN s.value ELSE secs[p].vma + s.value
    BY <1>5, <2>1, <2>2 DEF Address
  <2> QED
    BY <1>5, <2>1, <2>2, <2>3
\* Where the entry of its name counts.
<1>6. ASSUME sym.name \in DOMAIN globals, Meanings(o, i) = {Entry(sym.name)}, value = globals[sym.name].value,
             symbol_target_section(o, i) = Own(globals[sym.name].object, globals[sym.name].symbol)
      PROVE  /\ value = Address(o, i)
             /\ LET d == CHOOSE d \in Meanings(o, i) : TRUE
                IN  Meanings(o, i) # {} /\ Symbol(d[1], d[2]).section # ABS => secs[Place(d)].live
  <2>1. PICK a, b : a = globals[sym.name].object /\ b = globals[sym.name].symbol
    OBVIOUS
  <2>2. PICK s : s = Symbol(a, b)
    OBVIOUS
  <2>3. PICK p : p = find_input_section(a, s.section)
    OBVIOUS
  <2>4. Meanings(o, i) = {<<a, b>>}
    BY <1>6, <2>1 DEF Entry
  <2>5. s.section # ABS => p # NoSection
    <3>1. \A d \in Meanings(o, i) : Symbol(d[1], d[2]).section = ABS \/ Place(d) # NoSection
      BY DEF HasAddress
    <3>2. Symbol(a, b).section = ABS \/ Place(<<a, b>>) # NoSection
      <4> HIDE DEF Symbol, Place, Meanings
      <4> QED
        BY <2>4, <3>1
    <3> QED
      BY <2>2, <2>3, <3>2 DEF Place
  <2>6. s.section # ABS => p \in SectionRange /\ symbol_target_section(o, i) = p
    <3>1. p \in SectionRange \cup {NoSection}
      BY <2>3 DEF find_input_section, OneOf, Rows
    <3>2. s.section # ABS => Own(a, b) = p
      BY <2>2, <2>3 DEF Own
    <3> QED
      BY <1>6, <2>1, <2>5, <3>1, <3>2
  <2>7. ValueOf(sym.name)
    BY <1>6 DEF ValueInv, Linked, Later
  <2>8. /\ s.section = ABS => value = s.value
        /\ s.section # ABS => secs[p].live /\ value = secs[p].vma + s.value
    <3> HIDE DEF Symbol, find_input_section
    <3> QED
      BY <1>6, <2>1, <2>2, <2>3, <2>5, <2>6, <2>7 DEF ValueOf
  <2> QED
    BY <1>5, <2>2, <2>3, <2>4, <2>8
\* Where the symbol counts itself.
<1>7. ASSUME sym.section \notin {UNDEF, ABS}, Meanings(o, i) = {<<o, i>>},
             ~(sym.bind = "weak" /\ strong_global_replacing_weak(sym.name, o, i))
      PROVE  /\ value = Address(o, i)
             /\ LET d == CHOOSE d \in Meanings(o, i) : TRUE
                IN  Meanings(o, i) # {} /\ Symbol(d[1], d[2]).section # ABS => secs[Place(d)].live
  <2>1. value = (IF own = NoSection THEN Failed ELSE secs[own].vma + sym.value) /\ value # Failed
    <3> HIDE DEF Symbol, find_input_section, strong_global_replacing_weak
    <3> QED
      BY <1>1, <1>2, <1>3, <1>7 DEF symbol_value
  <2>2. symbol_target_section(o, i) = own
    <3> HIDE DEF Symbol, find_input_section, strong_global_replacing_weak
    <3> QED
      BY <1>1, <1>3, <1>7 DEF symbol_target_section, Own
  <2>3. own \in SectionRange /\ value = secs[own].vma + sym.value /\ secs[own].live
    BY <1>3, <2>1, <2>2
  <2> QED
    BY <1>1, <1>3, <1>5, <1>7, <2>3
<1> DEFINE n == sym.name
           Weakest == {d \in Definitions(n, "weak") : \A e \in Definitions(n, "weak") : Before(d, e)}
<1>8. /\ n \notin DOMAIN globals => Definitions(n, "global") = {} /\ Definitions(n, "weak") = {}
      /\ n \in DOMAIN globals =>
           /\ globals[n].bind = "global" => Definitions(n, "global") = {Entry(n)}
           /\ globals[n].bind = "weak" => Definitions(n, "global") = {} /\ Weakest = {Entry(n)}
           /\ globals[n].bind \in {"global", "weak"}
           /\ Symbol(globals[n].object, globals[n].symbol).bind = globals[n].bind
  BY EntryMeans
<1>9. Meanings(o, i) =
        IF sym.section = ABS \/ (sym.section # UNDEF /\ sym.bind # "weak") THEN {<<o, i>>}
        ELSE IF sym.section = UNDEF /\ n \in Special THEN {}
        ELSE IF Definitions(n, "global") # {} THEN Definitions(n, "global")
        ELSE IF sym.section # UNDEF THEN {<<o, i>>} ELSE Weakest
  <2> HIDE DEF Symbol, Definitions, Before, Special
  <2> QED
    BY <1>1 DEF Meanings
<1> HIDE DEF Symbol, Definitions, Before, Special, Weakest, Meanings, Address, Place, Entry,
             symbol_value, symbol_target_section, strong_global_replacing_weak
<1>10. CASE sym.section = ABS
  <2>1. value = sym.value
    BY <1>1, <1>2, <1>10 DEF symbol_value
  <2>2. Meanings(o, i) = {<<o, i>>}
    BY <1>9, <1>10
  <2> QED
    BY <1>1, <1>2, <1>3, <1>5, <1>10, <2>1, <2>2
<1>11. CASE sym.section \notin {UNDEF, ABS} /\ sym.bind # "weak"
  BY <1>2, <1>7, <1>9, <1>11
<1>12. CASE sym.section \notin {UNDEF, ABS} /\ sym.bind = "weak"
  <2>1. CASE strong_global_replacing_weak(n, o, i)
    <3>1. n \in DOMAIN globals /\ globals[n].bind = "global"
      BY <2>1 DEF strong_global_replacing_weak
    <3>2. Meanings(o, i) = {Entry(n)}
      BY <1>8, <1>9, <1>12, <3>1
    <3>3. value = globals[n].value
      BY <1>1, <1>2, <1>12, <2>1 DEF symbol_value
    <3>4. symbol_target_section(o, i) = Own(globals[n].object, globals[n].symbol)
      BY <1>1, <1>12, <2>1 DEF symbol_target_section
    <3> QED
      BY <1>2, <1>6, <3>1, <3>2, <3>3, <3>4
  <2>2. CASE ~strong_global_replacing_weak(n, o, i)
    <3>1. n \in DOMAIN globals
      <4>1. Seen(o, i)
        BY <1>1, <1>12 DEF Seen, Linked, Defines
      <4> QED
        BY <1>1, <4>1 DEF KnownInv
    <3>2. globals[n].bind # "global"
      <4> SUFFICES ASSUME globals[n].bind = "global" PROVE FALSE
        OBVIOUS
      <4>1. <<globals[n].object, globals[n].symbol>> = <<o, i>>
        BY <2>2, <3>1 DEF strong_global_replacing_weak
      <4>2. globals[n].object = o /\ globals[n].symbol = i
        BY <4>1
      <4> QED
        BY <1>1, <1>8, <1>12, <3>1, <4>2
    <3>3. Meanings(o, i) = {<<o, i>>}
      BY <1>8, <1>9, <1>12, <3>1, <3>2
    <3> QED
      BY <1>2, <1>7, <1>12, <2>2, <3>3
  <2> QED
    BY <2>1, <2>2
<1>13. CASE sym.section = UNDEF /\ n \in Special
  <2>1. Meanings(o, i) = {}
    BY <1>4, <1>9, <1>13
  <2>2. value = special_symbol_value(n)
    BY <1>1, <1>2, <1>4, <1>13 DEF symbol_value
  <2> QED
    BY <1>1, <1>2, <1>13, <2>1, <2>2 DEF Address
<1>14. CASE sym.section = UNDEF /\ n \notin Special /\ n \in DOMAIN globals
  <2>1. Meanings(o, i) = {Entry(n)}
    BY <1>4, <1>8, <1>9, <1>14
  <2>2. value = globals[n].value
    BY <1>1, <1>2, <1>4, <1>14 DEF symbol_value
  <2>3. symbol_target_section(o, i) = Own(globals[n].object, globals[n].symbol)
    BY <1>1, <1>4, <1>14 DEF symbol_target_section
  <2> QED
    BY <1>2, <1>6, <1>14, <2>1, <2>2, <2>3
<1>15. CASE sym.section = UNDEF /\ n \notin Special /\ n \notin DOMAIN globals
  <2>1. Meanings(o, i) = {}
    BY <1>4, <1>8, <1>9, <1>15 DEF Weakest
  <2>2. value = 0
    BY <1>1, <1>2, <1>4, <1>15 DEF symbol_value
  <2> QED
    BY <1>1, <1>2, <1>15, <2>1, <2>2 DEF Address
<1> QED
  BY <1>10, <1>11, <1>12, <1>13, <1>14, <1>15

LEMMA AddressInt ==
  ASSUME LayoutInv, Linked, UniqueInv, NEW o \in DOMAIN objects, NEW i \in DOMAIN objects[o].symbols, HasAddress(o, i)
  PROVE  Address(o, i) \in Int
<1>1. TypeInv /\ phase # "failed" /\ layout \in Layouts
  BY LaterFacts DEF Linked, Later
<1>2. CASE Meanings(o, i) = {}
  <2>1. \A name \in Special : special_symbol_value(name) \in Int
    <3>1. RamBase \in Int /\ StackTop \in Int
      BY ConstFacts DEF Pos
    <3>2. /\ layout.text_start \in Int /\ layout.text_end \in Int /\ layout.data_source \in Int
          /\ layout.data_start \in Int /\ layout.data_end \in Int
          /\ layout.bss_start \in Int /\ layout.bss_end \in Int
      BY <1>1 DEF Layouts
    <3> QED
      BY <3>1, <3>2 DEF Special, special_symbol_value
  <2> HIDE DEF Meanings, special_symbol_value, Special
  <2> QED
    BY <1>2, <2>1 DEF Address
<1>3. CASE Meanings(o, i) # {}
  <2>1. PICK d \in Meanings(o, i) : d = CHOOSE e \in Meanings(o, i) : TRUE
    BY <1>3
  <2>2. PICK a \in DOMAIN objects : \E b \in DOMAIN objects[a].symbols : d = <<a, b>>
    <3>1. \A name, bind : \A e \in Definitions(name, bind) :
            \E a \in DOMAIN objects : \E b \in DOMAIN objects[a].symbols : e = <<a, b>>
      BY DEF Definitions
    <3> HIDE DEF Definitions, Before, Symbol
    <3>2. d = <<o, i>> \/ (\E name, bind : d \in Definitions(name, bind))
      BY DEF Meanings
    <3> QED
      BY <3>1, <3>2
  <2>3. PICK b \in DOMAIN objects[a].symbols : d = <<a, b>>
    BY <2>2
  <2>4. PICK s : s = Symbol(a, b)
    OBVIOUS
  <2>5. s.value \in Nat
    <3>1. objects[a].symbols \in Seq(Symbols)
      <4>1. objects[a] \in Files
        BY <1>1, ObjectFacts
      <4> QED
        BY <4>1, FileFacts
    <3>2. s \in Symbols
      <4> HIDE DEF Symbols
      <4> QED
        BY <2>4, <3>1 DEF Symbol
    <3> QED
      BY <3>2 DEF Symbols
  <2>6. Symbol(d[1], d[2]) = s
    BY <2>3, <2>4
  <2>7. s.section # ABS => secs[Place(d)].vma \in Nat
    <3>1. s.section # ABS => Place(d) # NoSection
      <4> HIDE DEF Symbol, Place, Meanings
      <4> QED
        BY <2>6 DEF HasAddress
    <3>2. Place(d) # NoSection => Place(d) \in SectionRange
      BY <1>1, RowOf DEF Place
    <3> HIDE DEF Place
    <3> QED
      BY <1>1, <3>1, <3>2, RowFacts
  <2>8. Address(o, i) = IF s.section = ABS THEN s.value ELSE secs[Place(d)].vma + s.value
    <3> HIDE DEF Symbol, Place, Meanings
    <3> QED
      BY <1>3, <2>1, <2>6 DEF Address
  <2> QED
    BY <2>5, <2>7, <2>8
<1> QED
  BY <1>2, <1>3

LEMMA RefersRight ==
  ASSUME ResolveInv, Linked, NEW p \in Kept, NEW r \in Rels(p), HasAddress(secs[p].object, r.symbol),
         NEW address, address = Address(secs[p].object, r.symbol),
         NEW word, word = words[secs[p].offset + r.offset]
  PROVE  /\ CASE r.type = "abs32" -> word = (address + r.addend) % WordMod
              [] r.type = "rel32" -> (secs[p].vma + r.offset + word) % WordMod = (address + r.addend) % WordMod
              [] r.type = "call" ->
                   LET target == secs[p].vma + r.offset + CallDistance(word)
                   IN  \E low \in {0, 1} : (target + low) % WordMod = (address + r.addend) % WordMod
         /\ LET d == CHOOSE d \in Meanings(secs[p].object, r.symbol) : TRUE
            IN  Meanings(secs[p].object, r.symbol) # {} /\ Symbol(d[1], d[2]).section # ABS
                  => secs[Place(d)].live
<1>1. /\ phase \in Later /\ phase # "failed" /\ LayoutInv /\ TypeInv /\ UniqueInv /\ WellInv
      /\ EntryInv /\ KnownInv /\ KeptClosedInv /\ ValueInv /\ WordsInv
  BY DEF ResolveInv, Linked, Later, LayoutInv
<1>2. p \in SectionRange /\ secs[p].live
  BY DEF Kept
<1>3. PICK o \in DOMAIN objects : o = secs[p].object
  BY <1>1, <1>2 DEF TypeInv, HeaderInv
<1>4. PICK k \in DOMAIN objects[o].rels : r = objects[o].rels[k] /\ r.section = secs[p].index
  BY <1>3 DEF Rels
<1>5. find_input_section(o, r.section) = p /\ p # NoSection
  BY <1>1, <1>2, <1>3, <1>4, RowOf
<1>6. r \in Relocations /\ r.symbol \in DOMAIN objects[o].symbols /\ r.offset \in Nat
  BY <1>1, <1>4, RelFacts
<1>7. PICK i \in DOMAIN objects[o].symbols : i = r.symbol
  BY <1>6
<1>8. PICK value : value = symbol_value(o, i)
  OBVIOUS
<1>9. /\ r.type # "other" /\ value # Failed /\ word = WordOf(p, r, value)
      /\ r.type = "call" => InRange(Signed(Reach(secs[p], r, value)))
  <2>1. Written(o, k)
    BY <1>1, <1>3, <1>4 DEF WordsInv, Linked
  <2> HIDE DEF InRange, Signed, Reach, WordOf, symbol_value, find_input_section
  <2> QED
    BY <1>2, <1>4, <1>5, <1>7, <1>8, <2>1 DEF Written
<1>10. HasAddress(o, i) /\ address = Address(o, i)
  BY <1>3, <1>7
<1>11. symbol_target_section(o, i) \in SectionRange => secs[symbol_target_section(o, i)].live
  <2>1. PICK t : t = symbol_target_section(o, i)
    OBVIOUS
  <2>2. CASE input.gc
    <3>1. t \in SectionRange => t \in Targets(p)
      <4>1. t \in SectionRange => t # NoSection
        BY DEF SectionRange, NoSection
      <4> HIDE DEF symbol_target_section, Rels
      <4> QED
        BY <1>3, <1>7, <2>1, <4>1 DEF Targets
    <3>2. Targets(p) \subseteq Kept
      BY <1>1, <1>2, <2>2 DEF KeptClosedInv
    <3> QED
      BY <2>1, <3>1, <3>2 DEF Kept
  <2>3. CASE ~input.gc
    BY <1>1, <2>3 DEF KeptClosedInv
  <2> QED
    BY <2>2, <2>3
<1>12. /\ value = address /\ value \in Int
       /\ LET d == CHOOSE d \in Meanings(o, i) : TRUE
          IN  Meanings(o, i) # {} /\ Symbol(d[1], d[2]).section # ABS => secs[Place(d)].live
  BY <1>1, <1>8, <1>9, <1>10, <1>11, ValueIsAddress, AddressInt
<1>13. r.addend \in Int /\ secs[p].vma \in Int /\ r.type \in {"abs32", "rel32", "call"}
  BY <1>1, <1>2, <1>6, <1>9, RowFacts DEF Relocations
<1>14. PICK P \in Int, v \in Int : P = secs[p].vma + r.offset /\ v = value + r.addend
  BY <1>6, <1>12, <1>13
<1>15. PICK d \in Int : d = Reach(secs[p], r, value) /\ d = Distance(P, v)
  <2>1. value + r.addend - (secs[p].vma + r.offset) = v - P
    BY <1>6, <1>12, <1>13, <1>14
  <2>2. Reach(secs[p], r, value) = Distance(P, v)
    BY <2>1 DEF Reach, Distance
  <2> QED
    BY <1>14, <2>2, DistanceLands
<1>16. /\ (P + d) % WordMod = v % WordMod
       /\ InRange(Signed(d)) => \E low \in {0, 1} :
            (P + CallDistance(apply_thumb_call(Signed(d))) + low) % WordMod = v % WordMod
  <2> HIDE DEF InRange, Signed, CallDistance, apply_thumb_call, Distance
  <2>1. Lands(P, v, Distance(P, v)) /\ (InRange(Signed(Distance(P, v))) => \E low \in {0, 1} :
          (P + CallDistance(apply_thumb_call(Signed(Distance(P, v)))) + low) % WordMod = v % WordMod)
    BY <1>14, DistanceLands
  <2>2. d = Distance(P, v)
    BY <1>15
  <2> QED
    BY <2>1, <2>2 DEF Lands
<1>17. CASE r.type = "abs32"
  <2>1. word = (address + r.addend) % WordMod
    BY <1>9, <1>12, <1>17 DEF WordOf
  <2> QED
    BY <1>3, <1>7, <1>12, <1>17, <2>1
<1>18. CASE r.type = "rel32"
  <2>1. word = d
    BY <1>9, <1>15, <1>18 DEF WordOf
  <2>2. (secs[p].vma + r.offset + word) % WordMod = (address + r.addend) % WordMod
    BY <1>12, <1>14, <1>16, <2>1
  <2> QED
    BY <1>3, <1>7, <1>12, <1>18, <2>2
<1>19. CASE r.type = "call"
  <2> HIDE DEF InRange, Signed, Reach, CallDistance, apply_thumb_call
  <2>1. word = apply_thumb_call(Signed(d)) /\ InRange(Signed(d))
    BY <1>9, <1>15, <1>19 DEF WordOf
  <2>2. \E low \in {0, 1} :
          (secs[p].vma + r.offset + CallDistance(word) + low) % WordMod = (address + r.addend) % WordMod
    BY <1>12, <1>14, <1>16, <2>1
  <2> QED
    BY <1>3, <1>7, <1>12, <1>19, <2>2
<1> QED
  BY <1>13, <1>17, <1>18, <1>19

LEMMA FailedStays ==
  ASSUME phase = "failed", [Next]_vars
  PROVE  phase' = "failed"
<1>1. CASE \/ ReadObject \/ ReadDone \/ collect_object_global_symbol_names \/ NextObject \/ NamesDone
           \/ scan_archive_once \/ resolve_archives
  BY <1>1 DEF ReadObject, ReadDone, collect_object_global_symbol_names, NextObject, NamesDone,
              scan_archive_once, resolve_archives
<1>2. CASE \/ mark_roots \/ mark_reachable_sections \/ NextSection \/ PassDone
           \/ layout_flash_sections \/ layout_data_sections \/ layout_bss_sections \/ layout_sections
  BY <1>2 DEF mark_roots, mark_reachable_sections, NextSection, PassDone,
              layout_flash_sections, layout_data_sections, layout_bss_sections, layout_sections
<1>3. CASE collect_global_symbols \/ GlobalsDone \/ apply_relocations \/ NextRelocations
           \/ RelocationsDone \/ write_map \/ UNCHANGED vars
  BY <1>3 DEF collect_global_symbols, GlobalsDone, apply_relocations, NextRelocations,
              RelocationsDone, write_map, vars
<1> QED
  BY <1>1, <1>2, <1>3 DEF Next

LEMMA ResolveInit == Init => ResolveInv
<1> SUFFICES ASSUME Init PROVE ResolveInv
  OBVIOUS
<1>1. SearchInv /\ MarkInv /\ LayoutInv /\ EntryInv /\ KnownInv
  BY SearchInit, MarkInit, LayoutInit, EntryInit
<1>2. WellInv /\ UniqueInv /\ KeptClosedInv /\ ValueInv /\ WordsInv
  BY DEF Init, WellInv, UniqueInv, SectionRange, KeptClosedInv, ValueInv, WordsInv, Later
<1> QED
  BY <1>1, <1>2 DEF ResolveInv

LEMMA ResolveStep ==
  ASSUME ResolveInv, [Next]_vars
  PROVE  ResolveInv'
<1>1. SearchInv /\ MarkInv /\ LayoutInv /\ WellInv /\ UniqueInv /\ TypeInv
  BY DEF ResolveInv, SearchInv
<1>2. SearchInv' /\ MarkInv' /\ LayoutInv' /\ WellInv' /\ UniqueInv' /\ TypeInv'
  BY <1>1, SearchStep, MarkStep, LayoutStep, UniqueStep, TypeStep
<1>3. ASSUME phase' # "failed"
      PROVE  EntryInv' /\ KnownInv' /\ KeptClosedInv' /\ ValueInv' /\ WordsInv'
  <2>1. phase # "failed" /\ EntryInv /\ KnownInv /\ KeptClosedInv /\ ValueInv /\ WordsInv
    BY <1>3, FailedStays DEF ResolveInv
  <2>2. EntryInv' /\ KnownInv'
    BY <1>1, <1>2, <1>3, <2>1, EntryStep
  <2>3. KeptClosedInv'
    BY <1>1, <1>2, <1>3, <2>1, KeptClosedStep
  <2>4. ValueInv'
    BY <1>1, <1>2, <1>3, <2>1, ValueStep
  <2>5. WordsInv'
    BY <1>1, <1>3, <2>1, WordsStep
  <2> QED
    BY <2>2, <2>3, <2>4, <2>5
<1> QED
  BY <1>2, <1>3 DEF ResolveInv

\* Every reference in the image is to the one definition that its symbol means:
\* a word holds its address or the distance to it, a call goes there, and what
\* it lies in is kept.
THEOREM ReferencesAreRight == Spec => []ReferencesResolved
<1>1. ResolveInv => ReferencesResolved
  <2> SUFFICES ASSUME ResolveInv, Linked, NEW p \in Kept, NEW r \in Rels(p),
                      HasAddress(secs[p].object, r.symbol)
               PROVE  LET s == secs[p]
                          address == Address(s.object, r.symbol)
                          word == words[s.offset + r.offset]
                          d == CHOOSE d \in Meanings(s.object, r.symbol) : TRUE
                      IN  /\ CASE r.type = "abs32" -> word = (address + r.addend) % WordMod
                               [] r.type = "rel32" ->
                                    (s.vma + r.offset + word) % WordMod = (address + r.addend) % WordMod
                               [] r.type = "call" ->
                                    LET target == s.vma + r.offset + CallDistance(word)
                                    IN  \E low \in {0, 1} :
                                          (target + low) % WordMod = (address + r.addend) % WordMod
                          /\ Meanings(s.object, r.symbol) # {} /\ Symbol(d[1], d[2]).section # ABS
                               => secs[Place(d)].live
    BY DEF ReferencesResolved
  <2> HIDE DEF Address, Meanings, Symbol, Place, CallDistance, HasAddress, Kept, Rels
  <2> QED
    BY RefersRight
<1> QED
  BY <1>1, ResolveInit, ResolveStep, PTL DEF Spec
=============================================================================
