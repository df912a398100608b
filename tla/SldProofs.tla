----------------------------- MODULE SldProofs -----------------------------
(***************************************************************************)
(* Theorems about SldEnhanced, for every list of objects and every limit.  *)
(***************************************************************************)
EXTENDS SldEnhanced, TLAPS, WellFoundedInduction

EntryType == [name : Globals \cup {""}, section : Nat, part : Nat, value : Nat]
PartType == [file : Nat, name : SectNames, kind : Kinds, base : Nat, size : Nat]

-----------------------------------------------------------------------------
(* Arithmetic *)

\* The constants are numbers of the right kind.
LEMMA Numbers ==
  /\ MaxFiles \in Nat /\ MAX_SECTIONS \in Nat /\ MAX_SYMBOLS \in Nat /\ MAX_RELOCS \in Nat
  /\ OUTPUT_SIZE \in Nat
  /\ SECTION_ALIGN \in Nat \ {0} /\ PAGE_SIZE \in Nat \ {0} /\ PAGE_SIZE % SECTION_ALIGN = 0
  /\ \A h \in Headers : h.name \in SectNames /\ h.kind \in Kinds /\ h.size \in Nat
BY NumbersAssumption, NamesAssumption

LEMMA Quotients ==
  ASSUME NEW unit \in Nat \ {0}, NEW n \in Nat
  PROVE  /\ n \div unit \in Nat /\ unit * (n \div unit) <= n
         /\ n < unit * (n \div unit) + unit
<1>1. n \div unit \in Nat
  OBVIOUS
<1>2. unit * (n \div unit) <= n
  OBVIOUS
<1>3. n < unit * (n \div unit) + unit
  OBVIOUS
<1> QED
  BY <1>1, <1>2, <1>3

\* RoundUp() goes to a multiple of the unit that is not below.
LEMMA Rounded ==
  ASSUME NEW unit \in Nat \ {0}, NEW n \in Nat
  PROVE  /\ RoundUp(n, unit) \in Nat /\ RoundUp(n, unit) >= n
         /\ \E q \in Nat : RoundUp(n, unit) = q * unit
<1>1. n + unit - 1 \in Nat
  OBVIOUS
<1> PICK m \in Nat : m = n + unit - 1
  BY <1>1
<1>2. /\ m \div unit \in Nat /\ m < unit * (m \div unit) + unit
  BY Quotients
<1> PICK q \in Nat : q = m \div unit
  BY <1>2
<1>3. RoundUp(n, unit) = q * unit
  BY DEF RoundUp
<1>4. q * unit \in Nat /\ q * unit = unit * q
  OBVIOUS
<1> QED
  BY <1>2, <1>3, <1>4

LEMMA MultipleSum ==
  ASSUME NEW unit \in Nat \ {0}, NEW q \in Nat
  PROVE  (q * unit) % unit = 0
OBVIOUS

\* a multiple of a multiple
LEMMA Multiples ==
  ASSUME NEW unit \in Nat \ {0}, NEW page \in Nat, page % unit = 0, NEW q \in Nat
  PROVE  (q * page) % unit = 0
<1>1. PICK k \in Int : page = k * unit
  <2>1. page = unit * (page \div unit)
    OBVIOUS
  <2>2. page \div unit \in Int
    OBVIOUS
  <2>3. unit * (page \div unit) = (page \div unit) * unit
    BY <2>2
  <2> QED
    BY <2>1, <2>2, <2>3
<1>2. q * page = (q * k) * unit /\ q * k \in Int
  BY <1>1
<1>3. \A m \in Int : (m * unit) % unit = 0
  OBVIOUS
<1> QED
  BY <1>2, <1>3

\* numbers on both sides of a page boundary
LEMMA PagesApart ==
  ASSUME NEW page \in Nat \ {0}, NEW a \in Nat, NEW b \in Nat, NEW q \in Nat,
         a < q * page, q * page <= b
  PROVE  a \div page < b \div page
<1> PICK x \in Nat, y \in Nat : x = a \div page /\ y = b \div page
  BY Quotients
<1>1. page * x <= a /\ b < page * y + page
  BY Quotients
<1>2. page * x < page * q /\ page * q < page * (y + 1)
  BY <1>1
<1>3. \A m, n \in Nat : page * m < page * n => m < n
  <2> SUFFICES ASSUME NEW m \in Nat, NEW n \in Nat, n <= m
               PROVE  page * n <= page * m
    OBVIOUS
  <2>1. m - n \in Nat /\ m = n + (m - n)
    OBVIOUS
  <2>2. page * m = page * n + page * (m - n) /\ page * (m - n) >= 0
    BY <2>1
  <2> QED
    BY <2>1, <2>2
<1>4. x < q /\ q < y + 1
  BY <1>2, <1>3
<1> QED
  BY <1>4

Less == {p \in Nat \X Nat : p[1] < p[2]}
\* A set of numbers that is not empty has a least one.
LEMMA LeastOf ==
  ASSUME NEW S, S \subseteq Nat, S # {}
  PROVE  \E i \in S : \A j \in S : i <= j
<1>1. OpToRel(<, Nat) = Less
  BY DEF OpToRel, Less
<1>2. IsWellFoundedOn(Less, Nat)
  BY <1>1, NatLessThanWellFounded
<1>3. PICK i \in S : \A j \in S : ~(<<j, i>> \in Less)
  BY <1>2, WFMin
<1>4. \A j \in S : i <= j
  <2> SUFFICES ASSUME NEW j \in S PROVE i <= j
    OBVIOUS
  <2>1. i \in Nat /\ j \in Nat
    OBVIOUS
  <2>2. j < i => <<j, i>> \in Less
    BY <2>1 DEF Less
  <2> QED
    BY <1>3, <2>1, <2>2
<1> QED
  BY <1>4

\* Min() and Max() of numbers below a bound are members
LEMMA MinMax ==
  ASSUME NEW S, S \subseteq Nat, S # {}
  PROVE  /\ Min(S) \in S /\ \A x \in S : Min(S) <= x
         /\ \A bound \in Nat : (\A x \in S : x <= bound) =>
              Max(S) \in S /\ \A x \in S : x <= Max(S)
<1>1. Min(S) \in S /\ \A x \in S : Min(S) <= x
  <2>1. \E i \in S : \A j \in S : i <= j
    BY LeastOf
  <2> QED
    BY <2>1 DEF Min
<1>2. ASSUME NEW bound \in Nat, \A x \in S : x <= bound
      PROVE  Max(S) \in S /\ \A x \in S : x <= Max(S)
  <2> DEFINE D == {k \in Nat : \E x \in S : k = bound - x}
  <2>1. D \subseteq Nat /\ D # {}
    <3>1. PICK x \in S : TRUE
      OBVIOUS
    <3>2. bound - x \in Nat
      BY <1>2
    <3> QED
      BY <3>2
  <2>2. PICK d \in D : \A k \in D : d <= k
    BY <2>1, LeastOf
  <2>3. PICK m \in S : d = bound - m
    BY <2>2
  <2>4. \A x \in S : m >= x
    <3> SUFFICES ASSUME NEW x \in S PROVE m >= x
      OBVIOUS
    <3>1. bound - x \in Nat /\ x \in Nat /\ m \in Nat
      BY <1>2
    <3>2. d <= bound - x
      BY <2>2, <3>1
    <3> QED
      BY <2>3, <3>1, <3>2
  <2>5. \E y \in S : \A x \in S : y >= x
    BY <2>4
  <2>6. Max(S) \in S /\ \A x \in S : Max(S) >= x
    BY <2>5 DEF Max
  <2>7. \A x \in S : x \in Nat
    OBVIOUS
  <2> QED
    BY <2>6, <2>7
<1> QED
  BY <1>1, <1>2

-----------------------------------------------------------------------------
(* Types, and the bounds that keep them *)

Control ==
  /\ phase \in Kinds \cup {"files", "sections", "symbols", "apply", "write"}
  /\ status \in {"run", "done", "error", "overrun"}
  /\ nfile \in 0..MaxFiles /\ at \in Nat \ {0} /\ cursor \in Nat
  /\ phase # "files" => nfile >= 1
SectionTable == sections \in Seq(Section) /\ Len(sections) <= MAX_SECTIONS
Bytes == output_size \in Nat /\ DOMAIN output = 0..(OUTPUT_SIZE - 1)
\* the files' symbol tables, and what is known of the parts of the sections
Files ==
  /\ own \in Seq(Seq(EntryType)) /\ Len(own) = nfile
  /\ \A f \in DOMAIN own : own[f] # <<>>
  /\ \A f \in DOMAIN own : \A j \in DOMAIN own[f] : own[f][j].section <= Len(sections)
Parts ==
  /\ parts \in Seq(PartType)
  /\ \A n \in DOMAIN parts : parts[n].file \in 1..nfile /\ SectionsNamed(parts[n].name) # {}
SymbolTable ==
  /\ symbols \in Seq(SymbolEntry) /\ Len(symbols) <= MAX_SYMBOLS
  /\ \A i \in DOMAIN symbols : symbols[i].section <= Len(sections)
RelocTable ==
  /\ relocs \in Seq(Relocation) /\ Len(relocs) <= MAX_RELOCS
  /\ \A i \in DOMAIN relocs : relocs[i].section <= Len(sections)
HeaderTypes == entry \in Nat \cup {-1} /\ segments \in [code : Nat, from : Nat, to : Nat]

\* the order in which layout_sections() takes the sections
Rank(kind) == CASE kind = "code" -> 1 [] kind = "data" -> 2 [] kind = "bss" -> 3
              [] kind \in {"apply", "write"} -> 4 [] OTHER -> 0
Placed(i) == Rank(Kind(i)) < Rank(phase) \/ (Kind(i) = phase /\ i < at)
End(i) == sections[i].vaddr + sections[i].size
\* addresses are given out upwards
Below ==
  phase \in Kinds \cup {"apply"} => \A i \in DOMAIN sections : Placed(i) => End(i) <= cursor

TypeInv == /\ Control /\ SectionTable /\ Bytes /\ Files /\ Parts
           /\ SymbolTable /\ RelocTable /\ HeaderTypes /\ Below

\* The sections table, row by row.
LEMMA Rows ==
  ASSUME SectionTable
  PROVE  /\ DOMAIN sections = 1..Len(sections) /\ Len(sections) \in Nat
         /\ \A i \in DOMAIN sections :
              /\ i \in Nat /\ i >= 1 /\ sections[i] \in Section
              /\ sections[i].name \in SectNames /\ sections[i].start \in Nat
              /\ sections[i].size \in Nat /\ sections[i].vaddr \in Nat
              /\ Kind(i) \in Kinds /\ End(i) \in Nat
<1>1. \A i \in DOMAIN sections : sections[i] \in Section
  BY DEF SectionTable
<1>2. \A x \in Section : /\ x.name \in SectNames /\ x.start \in Nat /\ x.size \in Nat /\ x.vaddr \in Nat
                         /\ x.kind \in Kinds
  BY DEF Section
<1>3. \A a, b \in Nat : a + b \in Nat
  OBVIOUS
<1>4. DOMAIN sections = 1..Len(sections) /\ Len(sections) \in Nat
  BY DEF SectionTable
<1> QED
  BY <1>1, <1>2, <1>3, <1>4 DEF Kind, End

\* What reading a section of an object does: the part is put behind section i, which is
\* new when i is one past the table.
Extends(i, h) ==
  /\ h \in Headers
  /\ sections' \in Seq(Section) /\ Len(sections') <= MAX_SECTIONS
  /\ DOMAIN sections' = DOMAIN sections \cup {i}
  /\ \A j \in DOMAIN sections : j # i => sections'[j] = sections[j]
  /\ \/ /\ i \in DOMAIN sections /\ sections[i].name = h.name
        /\ Len(sections') = Len(sections)
        /\ sections'[i] = [sections[i] EXCEPT !.size = @ + h.size]
        /\ parts' = Append(parts, Part(h, sections[i].size))
     \/ /\ i = Len(sections) + 1 /\ SectionsNamed(h.name) = {}
        /\ Len(sections') = Len(sections) + 1
        /\ sections'[i] = [name |-> h.name, kind |-> h.kind, start |-> output_size,
                           size |-> h.size, vaddr |-> 0]
        /\ parts' = Append(parts, Part(h, 0))
Collects == CollectProgbits \/ CollectNobits

\* One row added to a table.
LEMMA Appended ==
  ASSUME NEW T, NEW s \in Seq(T), NEW r \in T, NEW t, t = Append(s, r)
  PROVE  /\ t \in Seq(T) /\ Len(t) = Len(s) + 1 /\ Len(s) \in Nat
         /\ DOMAIN t = DOMAIN s \cup {Len(s) + 1} /\ DOMAIN s = 1..Len(s)
         /\ t[Len(s) + 1] = r
         /\ \A j \in DOMAIN s : t[j] = s[j]
OBVIOUS

\* One row of a table replaced.
LEMMA Replaced ==
  ASSUME NEW T, NEW s \in Seq(T), NEW i \in DOMAIN s, NEW r \in T,
         NEW t, t = [s EXCEPT ![i] = r]
  PROVE  /\ t \in Seq(T) /\ Len(t) = Len(s) /\ DOMAIN t = DOMAIN s /\ t[i] = r
         /\ \A j \in DOMAIN s : j # i => t[j] = s[j]
OBVIOUS

LEMMA SectionExtended ==
  ASSUME SectionTable, Bytes, NEW h \in Headers, Collect(h)
  PROVE  Extends(Row(h), h)
<1> PICK name, kind, size, i : name = h.name /\ kind = h.kind /\ size = h.size /\ i = Row(h)
  OBVIOUS
<1> PICK t : t = WithSection(h)
  OBVIOUS
<1>a. /\ Len(t) <= MAX_SECTIONS /\ i = CHOOSE j \in DOMAIN t : t[j].name = name
      /\ sections' = [t EXCEPT ![i].size = @ + size]
      /\ parts' = Append(parts, Part(h, t[i].size))
  BY DEF Collect, Row
<1> DEFINE row == [name |-> name, kind |-> kind, start |-> output_size, size |-> 0, vaddr |-> 0]
<1>0. size \in Nat /\ output_size \in Nat /\ name \in SectNames /\ kind \in Kinds
  BY Numbers DEF Bytes
<1>1. row \in Section /\ row.name = name /\ row.size = 0
  BY <1>0 DEF Section
<1>2. CASE SectionsNamed(name) # {}
  <2>1. t = sections
    BY <1>2 DEF WithSection
  <2>2. i \in DOMAIN sections /\ sections[i].name = name
    BY <1>a, <1>2, <2>1 DEF SectionsNamed
  <2>3. sections' = [sections EXCEPT ![i].size = @ + size]
    BY <1>a, <2>1
  <2>4. [sections[i] EXCEPT !.size = @ + size] \in Section
    <3>1. sections[i] \in Section /\ sections[i].size \in Nat
      BY <2>2, Rows
    <3>2. sections[i].size + size \in Nat
      BY <1>0, <3>1
    <3> QED
      BY <3>1, <3>2 DEF Section
  <2>5. /\ DOMAIN sections' = DOMAIN sections
        /\ \A j \in DOMAIN sections : j # i => sections'[j] = sections[j]
        /\ sections'[i] = [sections[i] EXCEPT !.size = @ + size]
    BY <2>2, <2>3
  <2>6. sections' \in Seq(Section) /\ Len(sections') = Len(sections)
    <3>1. sections \in Seq(Section)
      BY DEF SectionTable
    <3> PICK r : r = [sections[i] EXCEPT !.size = @ + size]
      OBVIOUS
    <3>2. sections' = [sections EXCEPT ![i] = r]
      BY <2>3
    <3>3. r \in Section
      BY <2>4
    <3> PICK u : u = sections'
      OBVIOUS
    <3>4. u = [sections EXCEPT ![i] = r]
      BY <3>2
    <3>5. u \in Seq(Section) /\ Len(u) = Len(sections)
      BY ONLY <2>2, <3>1, <3>3, <3>4, Replaced
    <3> QED
      BY <3>5
  <2> QED
    <3>1. Len(sections') <= MAX_SECTIONS
      BY <1>a, <2>1, <2>6
    <3>2. DOMAIN sections' = DOMAIN sections \cup {i}
      BY <2>2, <2>5
    <3>3. parts' = Append(parts, Part(h, sections[i].size))
      BY <1>a, <2>1
    <3> QED
      BY <2>2, <2>5, <2>6, <3>1, <3>2, <3>3 DEF Extends
<1>3. CASE SectionsNamed(name) = {}
  <2> HIDE DEF row
  <2>1. t = Append(sections, row)
    BY <1>3 DEF WithSection, row
  <2>2. sections \in Seq(Section) /\ Len(sections) \in Nat
    BY DEF SectionTable
  <2>3. /\ t \in Seq(Section) /\ Len(t) = Len(sections) + 1 /\ t[Len(sections) + 1] = row
        /\ DOMAIN t = DOMAIN sections \cup {Len(sections) + 1}
        /\ \A j \in DOMAIN sections : t[j] = sections[j] /\ j # Len(sections) + 1
    BY <1>1, <2>1, <2>2
  <2>4. i = Len(sections) + 1
    <3>1. \A j \in DOMAIN t : t[j].name = name <=> j = Len(sections) + 1
      BY <1>1, <1>3, <2>3 DEF SectionsNamed
    <3> QED
      BY <1>a, <2>3, <3>1
  <2>5. sections' = [t EXCEPT ![i].size = @ + size]
    BY <1>a
  <2>6. [row EXCEPT !.size = @ + size] =
          [name |-> name, kind |-> kind, start |-> output_size, size |-> size, vaddr |-> 0]
    BY <1>0 DEF row
  <2>7. [row EXCEPT !.size = @ + size] \in Section
    BY <1>0, <2>6 DEF Section
  <2>8. /\ DOMAIN sections' = DOMAIN t
        /\ \A j \in DOMAIN t : j # i => sections'[j] = t[j]
        /\ sections'[i] = [row EXCEPT !.size = @ + size]
    BY <2>3, <2>4, <2>5
  <2>9. sections' \in Seq(Section) /\ Len(sections') = Len(sections) + 1
    <3> PICK r : r = [row EXCEPT !.size = @ + size]
      OBVIOUS
    <3>1. sections' = [t EXCEPT ![i] = r]
      BY <2>3, <2>4, <2>5
    <3>2. r \in Section /\ i \in DOMAIN t
      BY <2>3, <2>4, <2>7
    <3> PICK u : u = sections'
      OBVIOUS
    <3>3. u = [t EXCEPT ![i] = r]
      BY <3>1
    <3>4. t \in Seq(Section)
      BY <2>3
    <3>5. u \in Seq(Section) /\ Len(u) = Len(t)
      BY ONLY <3>2, <3>3, <3>4, Replaced
    <3> QED
      BY <2>3, <3>5
  <2>10. parts' = Append(parts, Part(h, 0)) /\ Len(sections') <= MAX_SECTIONS
    BY <1>a, <1>1, <2>3, <2>4, <2>9
  <2> QED
    BY <1>3, <2>3, <2>4, <2>6, <2>8, <2>9, <2>10 DEF Extends
<1> QED
  BY <1>2, <1>3

LEMMA CollectExtends ==
  ASSUME TypeInv, Collects
  PROVE  /\ \E i, h : Extends(i, h)
         /\ Running("sections")
         /\ UNCHANGED <<phase, status, nfile, symbols, relocs, at, cursor, result, own>>
<1>1. SectionTable /\ Bytes
  BY DEF TypeInv
<1>2. CASE CollectProgbits
  <2>1. PICK h \in Headers : Collect(h)
    BY <1>2 DEF CollectProgbits
  <2>2. Extends(Row(h), h)
    BY <1>1, <2>1, SectionExtended
  <2> QED
    BY <1>2, <2>2 DEF CollectProgbits, MoreSections
<1>3. CASE CollectNobits
  <2>1. PICK h \in Headers : Collect(h)
    BY <1>3 DEF CollectNobits
  <2>2. Extends(Row(h), h)
    BY <1>1, <2>1, SectionExtended
  <2> QED
    BY <1>3, <2>2 DEF CollectNobits, MoreSections
<1> QED
  BY <1>2, <1>3 DEF Collects

\* Which actions touch what.
LEMMA Touched ==
  ASSUME [Next]_vars
  PROVE  /\ UNCHANGED sections \/ Collects \/ Place
         /\ UNCHANGED <<output, output_size>> \/ Collects
         /\ UNCHANGED own \/ OpenObject \/ CollectLocal \/ CollectGlobal
         /\ UNCHANGED parts \/ Collects
         /\ UNCHANGED symbols \/ CollectGlobal
         /\ UNCHANGED relocs \/ CollectReloc
         /\ UNCHANGED header \/ WriteHeader
         /\ UNCHANGED applied \/ Apply
         /\ UNCHANGED filepos \/ WriteSection
         /\ UNCHANGED nfile \/ OpenObject
         /\ UNCHANGED <<at, cursor>> \/ StartLayout \/ Place \/ NextLoop \/ Apply \/ WriteHeader \/ WriteSection
         /\ \/ UNCHANGED phase
            \/ OpenObject \/ EndSections \/ EndObject \/ StartLayout \/ NextLoop \/ WriteHeader
<1> USE DEF Next, ReadObjects, LayOut, WriteProgram, Stopped, vars, tables, result, history, header, Collects
<1>1. UNCHANGED sections \/ Collects \/ Place
  BY DEF OpenObject, SectionOverrun, SymbolOverrun, RelocOverrun, Overruns, EndSections, CollectLocal, CollectGlobal, CollectReloc, EndObject,
         StartLayout, NextLoop, Apply, WriteHeader, WriteSection, CannotCreate, Finish
<1>2. UNCHANGED <<output, output_size>> \/ Collects
  BY DEF OpenObject, SectionOverrun, SymbolOverrun, RelocOverrun, Overruns, EndSections, CollectLocal, CollectGlobal, CollectReloc, EndObject,
         StartLayout, Place, NextLoop, Apply, WriteHeader, WriteSection, CannotCreate, Finish
<1>3. UNCHANGED own \/ OpenObject \/ CollectLocal \/ CollectGlobal
  BY DEF CollectProgbits, CollectNobits, SectionOverrun, SymbolOverrun, RelocOverrun, Overruns, EndSections, CollectReloc, EndObject,
         StartLayout, Place, NextLoop, Apply, WriteHeader, WriteSection, CannotCreate, Finish
<1>4. UNCHANGED parts \/ Collects
  BY DEF OpenObject, SectionOverrun, SymbolOverrun, RelocOverrun, Overruns, EndSections, CollectLocal, CollectGlobal, CollectReloc, EndObject,
         StartLayout, Place, NextLoop, Apply, WriteHeader, WriteSection, CannotCreate, Finish
<1>5. UNCHANGED symbols \/ CollectGlobal
  BY DEF OpenObject, CollectProgbits, CollectNobits, SectionOverrun, SymbolOverrun, RelocOverrun, Overruns, EndSections, CollectLocal,
         CollectReloc, EndObject, StartLayout, Place, NextLoop, Apply, WriteHeader, WriteSection, CannotCreate, Finish
<1>6. UNCHANGED relocs \/ CollectReloc
  BY DEF OpenObject, CollectProgbits, CollectNobits, SectionOverrun, SymbolOverrun, RelocOverrun, Overruns, EndSections, CollectLocal, CollectGlobal,
         EndObject, StartLayout, Place, NextLoop, Apply, WriteHeader, WriteSection, CannotCreate, Finish
<1>7. UNCHANGED header \/ WriteHeader
  BY DEF OpenObject, CollectProgbits, CollectNobits, SectionOverrun, SymbolOverrun, RelocOverrun, Overruns, EndSections, CollectLocal, CollectGlobal,
         CollectReloc, EndObject, StartLayout, Place, NextLoop, Apply, WriteSection, CannotCreate, Finish
<1>8. UNCHANGED applied \/ Apply
  BY DEF OpenObject, CollectProgbits, CollectNobits, SectionOverrun, SymbolOverrun, RelocOverrun, Overruns, EndSections, CollectLocal, CollectGlobal,
         CollectReloc, EndObject, StartLayout, Place, NextLoop, WriteHeader, WriteSection, CannotCreate, Finish
<1>9. UNCHANGED filepos \/ WriteSection
  BY DEF OpenObject, CollectProgbits, CollectNobits, SectionOverrun, SymbolOverrun, RelocOverrun, Overruns, EndSections, CollectLocal, CollectGlobal,
         CollectReloc, EndObject, StartLayout, Place, NextLoop, Apply, WriteHeader, CannotCreate, Finish
<1>10. UNCHANGED nfile \/ OpenObject
  BY DEF CollectProgbits, CollectNobits, SectionOverrun, SymbolOverrun, RelocOverrun, Overruns, EndSections, CollectLocal, CollectGlobal,
         CollectReloc, EndObject, StartLayout, Place, NextLoop, Apply, WriteHeader, WriteSection, CannotCreate, Finish
<1>11. UNCHANGED <<at, cursor>> \/ StartLayout \/ Place \/ NextLoop \/ Apply \/ WriteHeader \/ WriteSection
  BY DEF OpenObject, CollectProgbits, CollectNobits, SectionOverrun, SymbolOverrun, RelocOverrun, Overruns, EndSections, CollectLocal, CollectGlobal,
         CollectReloc, EndObject, CannotCreate, Finish
<1>12. \/ UNCHANGED phase
       \/ OpenObject \/ EndSections \/ EndObject \/ StartLayout \/ NextLoop \/ WriteHeader
  BY DEF CollectProgbits, CollectNobits, SectionOverrun, SymbolOverrun, RelocOverrun, Overruns, CollectLocal, CollectGlobal, CollectReloc,
         Place, Apply, WriteSection, CannotCreate, Finish
<1> QED
  BY <1>1, <1>2, <1>3, <1>4, <1>5, <1>6, <1>7, <1>8, <1>9, <1>10, <1>11, <1>12

\* Placing a section changes its address alone.
LEMMA PlacedRow ==
  ASSUME TypeInv, Place
  PROVE  /\ status = "run" /\ phase \in Kinds /\ at \in DOMAIN sections /\ at' = at + 1
         /\ UNCHANGED <<phase, status, nfile, output, output_size, symbols, relocs, result, history>>
         /\ sections' \in Seq(Section) /\ Len(sections') = Len(sections)
         /\ \A j \in DOMAIN sections :
              /\ sections'[j].name = sections[j].name /\ sections'[j].start = sections[j].start
              /\ sections'[j].size = sections[j].size /\ sections'[j].kind = sections[j].kind
              /\ ~(j = at /\ Kind(at) = phase) => sections'[j].vaddr = sections[j].vaddr
         /\ Kind(at) = phase => sections'[at].vaddr = cursor
                                /\ cursor' = RoundUp(cursor + sections[at].size, SECTION_ALIGN)
         /\ Kind(at) # phase => UNCHANGED <<sections, cursor>>
<1>1. SectionTable /\ Control
  BY DEF TypeInv
<1>2. /\ status = "run" /\ phase \in Kinds /\ at <= Len(sections) /\ at' = at + 1
      /\ UNCHANGED <<phase, status, nfile, output, output_size, symbols, relocs, result, history>>
  BY DEF Place
<1>3. at \in DOMAIN sections
  <2>1. at \in Nat /\ at >= 1 /\ DOMAIN sections = 1..Len(sections) /\ Len(sections) \in Nat
    BY <1>1, Rows DEF Control
  <2> QED
    BY <1>2, <2>1
<1>4. sections \in Seq(Section)
  BY <1>1 DEF SectionTable
<1>5. CASE Kind(at) = phase
  <2>1. sections' = [sections EXCEPT ![at].vaddr = cursor]
        /\ cursor' = RoundUp(cursor + sections[at].size, SECTION_ALIGN)
    BY <1>5 DEF Place
  <2> PICK r : r = [sections[at] EXCEPT !.vaddr = cursor]
    OBVIOUS
  <2>2. sections[at] \in Section /\ cursor \in Nat
    BY <1>1, <1>3, Rows DEF Control
  <2>3. r \in Section /\ r.name = sections[at].name /\ r.start = sections[at].start
        /\ r.size = sections[at].size /\ r.vaddr = cursor /\ r.kind = sections[at].kind
    BY <2>2 DEF Section
  <2> PICK u : u = sections'
    OBVIOUS
  <2>4. u = [sections EXCEPT ![at] = r]
    BY <2>1
  <2>5. u \in Seq(Section) /\ Len(u) = Len(sections) /\ u[at] = r
        /\ \A j \in DOMAIN sections : j # at => u[j] = sections[j]
    BY ONLY <1>3, <1>4, <2>3, <2>4, Replaced
  <2> QED
    BY <1>2, <1>3, <1>5, <2>1, <2>3, <2>5
<1>6. CASE Kind(at) # phase
  <2>1. UNCHANGED <<sections, cursor>>
    BY <1>6 DEF Place
  <2> QED
    BY <1>2, <1>3, <1>4, <1>6, <2>1
<1> QED
  BY <1>5, <1>6

\* Sections are only added, and keep their names and where they start; they move once
\* reading has ended, and do not grow then.
LEMMA Grown ==
  ASSUME TypeInv, [Next]_vars
  PROVE  /\ sections' \in Seq(Section) /\ Len(sections') <= MAX_SECTIONS
         /\ Len(sections) <= Len(sections') /\ DOMAIN sections \subseteq DOMAIN sections'
         /\ \A j \in DOMAIN sections :
              /\ sections'[j].name = sections[j].name /\ sections'[j].start = sections[j].start
              /\ sections'[j].kind = sections[j].kind
         /\ \A name : SectionsNamed(name) \subseteq SectionsNamed(name)'
<1> USE DEF TypeInv
<1>0. sections \in Seq(Section) /\ Len(sections) <= MAX_SECTIONS /\ Len(sections) \in Nat
      /\ DOMAIN sections = 1..Len(sections)
  BY Rows DEF SectionTable
<1>1. /\ sections' \in Seq(Section) /\ Len(sections') <= MAX_SECTIONS
      /\ Len(sections) <= Len(sections') /\ DOMAIN sections \subseteq DOMAIN sections'
      /\ \A j \in DOMAIN sections :
           /\ sections'[j].name = sections[j].name /\ sections'[j].start = sections[j].start
           /\ sections'[j].kind = sections[j].kind
  <2>1. CASE UNCHANGED sections
    BY <1>0, <2>1
  <2>2. CASE Collects
    <3>1. PICK i, h : Extends(i, h)
      BY <2>2, CollectExtends
    <3>2. CASE i \in DOMAIN sections
      <4>1. i # Len(sections) + 1
        BY <1>0, <3>2
      <4>2. sections'[i] = [sections[i] EXCEPT !.size = @ + h.size] /\ Len(sections') = Len(sections)
        BY <3>1, <4>1 DEF Extends
      <4>3. sections[i] \in Section
        BY <1>0, <3>2
      <4>4. /\ sections'[i].name = sections[i].name /\ sections'[i].start = sections[i].start
            /\ sections'[i].kind = sections[i].kind
        BY <4>2, <4>3 DEF Section
      <4>5. /\ sections' \in Seq(Section) /\ Len(sections') <= MAX_SECTIONS
            /\ DOMAIN sections' = DOMAIN sections \cup {i}
            /\ \A j \in DOMAIN sections : j # i => sections'[j] = sections[j]
        BY <3>1 DEF Extends
      <4>6. Len(sections') = Len(sections)
        BY <4>2
      <4>7. \A j \in DOMAIN sections :
              /\ sections'[j].name = sections[j].name /\ sections'[j].start = sections[j].start
              /\ sections'[j].kind = sections[j].kind
        BY <4>4, <4>5
      <4> QED
        BY ONLY <1>0, <4>5, <4>6, <4>7
    <3>3. CASE i \notin DOMAIN sections
      <4>1. Len(sections') = Len(sections) + 1
        BY <3>1, <3>3 DEF Extends
      <4>2. /\ sections' \in Seq(Section) /\ Len(sections') <= MAX_SECTIONS
            /\ DOMAIN sections' = DOMAIN sections \cup {i}
            /\ \A j \in DOMAIN sections : j # i => sections'[j] = sections[j]
        BY <3>1 DEF Extends
      <4>3. \A j \in DOMAIN sections : sections'[j] = sections[j]
        BY <3>3, <4>2
      <4> QED
        BY ONLY <1>0, <4>1, <4>2, <4>3
    <3> QED
      BY <3>2, <3>3
  <2>3. CASE Place
    <3>1. /\ sections' \in Seq(Section) /\ Len(sections') = Len(sections)
          /\ \A j \in DOMAIN sections :
               /\ sections'[j].name = sections[j].name /\ sections'[j].start = sections[j].start
               /\ sections'[j].kind = sections[j].kind
      BY <2>3, PlacedRow
    <3>2. DOMAIN sections' = DOMAIN sections
      BY <1>0, <3>1
    <3> QED
      BY <1>0, <3>1, <3>2
  <2> QED
    BY <2>1, <2>2, <2>3, Touched
<1> QED
  BY <1>1 DEF SectionsNamed

LEMMA SectionsStep ==
  ASSUME TypeInv, [Next]_vars
  PROVE  SectionTable'
BY Grown DEF SectionTable

LEMMA ControlStep ==
  ASSUME TypeInv, [Next]_vars
  PROVE  Control'
<1> USE DEF TypeInv
<1>1. /\ phase \in Kinds \cup {"files", "sections", "symbols", "apply", "write"}
      /\ status \in {"run", "done", "error", "overrun"}
      /\ nfile \in 0..MaxFiles /\ at \in Nat /\ at # 0 /\ cursor \in Nat /\ MaxFiles \in Nat
      /\ phase # "files" => nfile >= 1
  BY Numbers DEF Control
<1>2. (phase \in Kinds \cup {"files", "sections", "symbols", "apply", "write"})'
  <2>1. CASE UNCHANGED phase
    BY <1>1, <2>1
  <2>2. CASE NextLoop
    BY <1>1, <2>2 DEF NextLoop, Enter, Kinds
  <2>3. CASE OpenObject \/ EndSections \/ EndObject \/ StartLayout \/ WriteHeader
    BY <1>1, <2>3 DEF OpenObject, EndSections, EndObject, StartLayout, WriteHeader, Enter, Kinds
  <2> QED
    BY <2>1, <2>2, <2>3, Touched
<1>3. status' \in {"run", "done", "error", "overrun"}
  BY <1>1 DEF Next, ReadObjects, LayOut, WriteProgram, Stopped, vars,
     OpenObject, CollectProgbits, CollectNobits, SectionOverrun, SymbolOverrun, RelocOverrun, Overruns, EndSections, CollectLocal, CollectGlobal,
     CollectReloc, EndObject, StartLayout, Place, NextLoop, Apply, WriteHeader, WriteSection, CannotCreate, Finish
<1>4. nfile' \in 0..MaxFiles /\ nfile' >= nfile /\ nfile \in Nat
  <2>1. CASE UNCHANGED nfile
    BY <1>1, <2>1
  <2>2. CASE OpenObject
    <3>1. nfile' = nfile + 1 /\ nfile < MaxFiles
      BY <2>2 DEF OpenObject
    <3> QED
      BY <1>1, <3>1
  <2> QED
    BY <2>1, <2>2, Touched
<1>5. at' \in Nat \ {0} /\ cursor' \in Nat
  <2>1. CASE UNCHANGED <<at, cursor>>
    BY <1>1, <2>1
  <2>2. CASE StartLayout \/ WriteHeader
    BY <2>2, Numbers DEF StartLayout, WriteHeader
  <2>3. CASE Place
    <3>1. at' = at + 1 /\ at \in DOMAIN sections
      BY <2>3, PlacedRow
    <3>2. sections[at].size \in Nat
      BY <3>1, Rows
    <3>3. cursor + sections[at].size \in Nat
      BY <1>1, <3>2
    <3>4. RoundUp(cursor + sections[at].size, SECTION_ALIGN) \in Nat
      BY <3>3, Rounded, Numbers
    <3>5. cursor' \in Nat
      BY <1>1, <2>3, <3>4, PlacedRow
    <3>6. at' \in Nat \ {0}
      BY <1>1, <3>1
    <3> QED
      BY <3>5, <3>6
  <2>4. CASE NextLoop
    <3>1. RoundUp(cursor, PAGE_SIZE) \in Nat
      BY <1>1, Rounded, Numbers
    <3>2. at' = 1
      BY <2>4 DEF NextLoop
    <3>3. phase \in {"code", "data", "bss"}
      BY <2>4 DEF NextLoop, Kinds
    <3>4. cursor' = RoundUp(cursor, PAGE_SIZE) \/ cursor' = cursor
      BY <2>4, <3>3 DEF NextLoop
    <3> QED
      BY <1>1, <3>1, <3>2, <3>4
  <2>5. CASE Apply
    BY <1>1, <2>5 DEF Apply
  <2>6. CASE WriteSection
    <3>1. at' = at + 1 /\ at <= Len(sections)
      BY <2>6 DEF WriteSection
    <3>2. at \in DOMAIN sections
      BY <1>1, <3>1, Rows
    <3>3. sections[at].size \in Nat /\ sections[at].vaddr \in Nat
      BY <3>2, Rows
    <3>4. \E pos \in {cursor, sections[at].vaddr} : cursor' = pos + sections[at].size \/ UNCHANGED cursor
      BY <2>6 DEF WriteSection
    <3>5. cursor' \in Nat
      BY <1>1, <3>3, <3>4
    <3>6. at' \in Nat \ {0}
      BY <1>1, <3>1
    <3> QED
      BY <3>5, <3>6
  <2> QED
    BY <2>1, <2>2, <2>3, <2>4, <2>5, <2>6, Touched
<1>6. phase' # "files" => nfile' >= 1
  <2>1. CASE OpenObject
    <3>1. nfile' = nfile + 1
      BY <2>1 DEF OpenObject
    <3> QED
      BY <1>4, <3>1
  <2>2. CASE StartLayout
    BY <1>4, <2>2 DEF StartLayout
  <2>3. CASE UNCHANGED phase \/ EndSections \/ EndObject \/ NextLoop \/ WriteHeader
    <3>1. phase' # "files" => phase # "files"
      BY <2>3 DEF EndSections, EndObject, NextLoop, WriteHeader, Running, Kinds, Enter
    <3>2. phase # "files" => nfile >= 1
      BY <1>1
    <3> QED
      BY <1>4, <3>1, <3>2
  <2> QED
    BY <2>1, <2>2, <2>3, Touched
<1> QED
  BY <1>2, <1>3, <1>4, <1>5, <1>6 DEF Control

LEMMA BytesStep ==
  ASSUME TypeInv, [Next]_vars
  PROVE  Bytes'
<1>1. output_size \in Nat /\ DOMAIN output = 0..(OUTPUT_SIZE - 1)
  BY DEF TypeInv, Bytes
<1>2. CASE CollectProgbits
  <2>1. PICK h \in Headers : output_size' = RoundUp(output_size + h.size, SECTION_ALIGN)
    BY <1>2 DEF CollectProgbits, Padded
  <2>2. output_size + h.size \in Nat
    BY <1>1, Numbers
  <2>3. output_size' \in Nat
    BY <2>1, <2>2, Rounded, Numbers
  <2>4. DOMAIN output' = DOMAIN output
    BY <1>2 DEF CollectProgbits
  <2> QED
    BY <1>1, <2>3, <2>4 DEF Bytes
<1>3. CASE UNCHANGED <<output, output_size>>
  BY <1>1, <1>3 DEF Bytes
<1>4. CASE CollectNobits
  BY <1>1, <1>4 DEF Bytes, CollectNobits
<1> QED
  BY <1>2, <1>3, <1>4, Touched DEF Collects

-----------------------------------------------------------------------------
(* Symbols *)

LEMMA Index ==
  ASSUME NEW S
  PROVE  /\ S = {} => TheIndex(S) = 0
         /\ S # {} => TheIndex(S) \in S
BY DEF TheIndex

\* The parts, one by one.
LEMMA PartRows ==
  ASSUME TypeInv, NEW n \in DOMAIN parts
  PROVE  /\ n \in Nat /\ n >= 1 /\ parts[n] \in PartType
         /\ parts[n].file \in 1..nfile /\ parts[n].name \in SectNames /\ parts[n].kind \in Kinds
         /\ parts[n].base \in Nat /\ parts[n].size \in Nat /\ LastByte(n) \in Nat
         /\ parts[n].size > 0 => LastByte(n) = parts[n].size - 1
         /\ SectionOf(n) \in SectionsNamed(parts[n].name) /\ SectionOf(n) \in DOMAIN sections
         /\ SectionOf(n) \in Nat /\ SectionOf(n) >= 1 /\ SectionOf(n) <= Len(sections)
<1>1. n \in Nat /\ n >= 1 /\ parts[n] \in PartType
  BY DEF TypeInv, Parts
<1>2. parts[n].file \in 1..nfile /\ SectionsNamed(parts[n].name) # {}
  BY DEF TypeInv, Parts
<1>3. /\ parts[n].name \in SectNames /\ parts[n].kind \in Kinds
      /\ parts[n].base \in Nat /\ parts[n].size \in Nat
  BY <1>1 DEF PartType
<1>4. LastByte(n) \in Nat /\ (parts[n].size > 0 => LastByte(n) = parts[n].size - 1)
  BY <1>3 DEF LastByte
<1>5. SectionOf(n) \in SectionsNamed(parts[n].name)
  BY <1>2, Index DEF SectionOf
<1>6. SectionOf(n) \in DOMAIN sections
  BY <1>5 DEF SectionsNamed
<1>7. SectionOf(n) \in Nat /\ SectionOf(n) >= 1 /\ SectionOf(n) <= Len(sections)
  BY <1>6, Rows DEF TypeInv
<1> QED
  BY <1>1, <1>2, <1>3, <1>4, <1>5, <1>6, <1>7

\* What a file can say of a global symbol it mentions.
GlobalOf(e) ==
  /\ e \in EntryType /\ e.name \in Globals /\ e.section <= Len(sections)
  /\ \A j \in DOMAIN Entries : Entries[j].name # e.name
  /\ e.section # 0 =>
       /\ e.part \in Here /\ e.section \in SectionsNamed(parts[e.part].name)
       /\ e.value = LastByte(e.part)
LEMMA GlobalIs ==
  ASSUME TypeInv, NEW e \in GlobalEntries
  PROVE  GlobalOf(e)
<1> USE DEF TypeInv
<1> DEFINE names == Globals \ {Entries[j].name : j \in DOMAIN Entries}
<1>1. /\ Len(sections) \in Nat
      /\ \A i \in DOMAIN sections : i \in Nat /\ i >= 1 /\ i <= Len(sections)
  BY Rows
<1>2. \A name \in names : name \in Globals /\ \A j \in DOMAIN Entries : Entries[j].name # name
  OBVIOUS
<1>3. ASSUME NEW name \in names, e = Entry(name, 0, 0, 0)
      PROVE  GlobalOf(e)
  <2>1. e = [name |-> name, section |-> 0, part |-> 0, value |-> 0]
    BY <1>3 DEF Entry
  <2>2. e \in EntryType /\ e.name = name /\ e.section = 0
    BY <1>2, <2>1 DEF EntryType
  <2>3. e.section <= Len(sections)
    BY <1>1, <2>2
  <2> QED
    BY <1>2, <2>2, <2>3 DEF GlobalOf
<1>4. ASSUME NEW name \in names, NEW n \in Here, e = Entry(name, SectionOf(n), n, LastByte(n))
      PROVE  GlobalOf(e)
  <2>1. n \in DOMAIN parts
    BY DEF Here
  <2> PICK i, v : i = SectionOf(n) /\ v = LastByte(n)
    OBVIOUS
  <2>2. i \in SectionsNamed(parts[n].name) /\ i \in Nat /\ i <= Len(sections) /\ v \in Nat /\ n \in Nat
    BY <2>1, PartRows
  <2>3. e = [name |-> name, section |-> i, part |-> n, value |-> v]
    BY <1>4 DEF Entry
  <2>4. /\ e.name = name /\ e.section = i /\ e.part = n /\ e.value = v
        /\ e \in EntryType
    BY <1>2, <2>2, <2>3 DEF EntryType
  <2> QED
    BY <1>2, <2>2, <2>4 DEF GlobalOf
<1> QED
  BY <1>3, <1>4 DEF GlobalEntries

\* What reading a global symbol does: a new name gets an entry, a known one keeps what
\* it has; either is defined from now on if this file defines it.
Marks(i, condition) == symbols'[i].defined = condition
Known(i, e) ==
  /\ i \in DOMAIN symbols /\ symbols[i].name = e.name
  /\ Len(symbols') = Len(symbols)
  /\ symbols'[i].section = symbols[i].section /\ symbols'[i].value = symbols[i].value
  /\ Marks(i, symbols[i].defined \/ e.section # 0)
Added(i, e) ==
  /\ i = Len(symbols) + 1 /\ SymbolsNamed(e.name) = {}
  /\ Len(symbols') = Len(symbols) + 1
  /\ symbols'[i].section = e.section /\ symbols'[i].value = e.value
  /\ Marks(i, e.section # 0)
Enters(i, e) ==
  /\ GlobalOf(e)
  /\ own' = [own EXCEPT ![nfile] = Append(@, e)]
  /\ symbols' \in Seq(SymbolEntry) /\ Len(symbols') <= MAX_SYMBOLS
  /\ DOMAIN symbols' = DOMAIN symbols \cup {i}
  /\ \A j \in DOMAIN symbols : j # i => symbols'[j] = symbols[j]
  /\ symbols'[i].name = e.name
  /\ Known(i, e) \/ Added(i, e)

LEMMA GlobalEnters ==
  ASSUME TypeInv, CollectGlobal
  PROVE  /\ \E i, e : Enters(i, e)
         /\ Running("symbols")
         /\ UNCHANGED <<phase, status, nfile, sections, output, output_size, relocs, at, cursor, result, parts>>
<1> USE DEF TypeInv
<1>0. Running("symbols")
      /\ UNCHANGED <<phase, status, nfile, sections, output, output_size, relocs, at, cursor, result, parts>>
  BY DEF CollectGlobal, MoreEntries
<1>1. PICK e \in GlobalEntries :
        /\ Len(WithSymbol(e)) <= MAX_SYMBOLS
        /\ LET i == CHOOSE j \in DOMAIN WithSymbol(e) : WithSymbol(e)[j].name = e.name
           IN symbols' = IF e.section = 0 THEN WithSymbol(e) ELSE [WithSymbol(e) EXCEPT ![i].defined = TRUE]
        /\ own' = [own EXCEPT ![nfile] = Append(@, e)]
  BY DEF CollectGlobal
<1> PICK t : t = WithSymbol(e)
  OBVIOUS
<1> PICK i : i = CHOOSE j \in DOMAIN t : t[j].name = e.name
  OBVIOUS
<1>2. symbols' = IF e.section = 0 THEN t ELSE [t EXCEPT ![i].defined = TRUE]
  BY <1>1
<1>3. GlobalOf(e)
  BY GlobalIs
<1> PICK row : row = [name |-> e.name, section |-> e.section, value |-> e.value, defined |-> FALSE]
  OBVIOUS
<1>4. /\ row \in SymbolEntry /\ row.name = e.name /\ row.section = e.section /\ row.value = e.value
      /\ row.defined = FALSE
  BY <1>3 DEF GlobalOf, EntryType, SymbolEntry
<1>5. symbols \in Seq(SymbolEntry) /\ Len(symbols) \in Nat /\ DOMAIN symbols = 1..Len(symbols)
  BY DEF SymbolTable
<1>6. /\ t \in Seq(SymbolEntry) /\ i \in DOMAIN t /\ t[i].name = e.name
      /\ DOMAIN t = DOMAIN symbols \cup {i}
      /\ \A j \in DOMAIN symbols : t[j] = symbols[j]
      /\ \/ i \in DOMAIN symbols /\ Len(t) = Len(symbols)
         \/ i = Len(symbols) + 1 /\ Len(t) = Len(symbols) + 1 /\ t[i] = row /\ SymbolsNamed(e.name) = {}
  <2>1. CASE SymbolsNamed(e.name) # {}
    <3>1. t = symbols
      BY <2>1 DEF WithSymbol
    <3>2. i \in DOMAIN t /\ t[i].name = e.name
      BY <2>1, <3>1 DEF SymbolsNamed
    <3> QED
      BY <1>5, <3>1, <3>2
  <2>2. CASE SymbolsNamed(e.name) = {}
    <3>1. t = Append(symbols, row)
      BY <2>2 DEF WithSymbol
    <3>2. /\ t \in Seq(SymbolEntry) /\ Len(t) = Len(symbols) + 1
          /\ DOMAIN t = DOMAIN symbols \cup {Len(symbols) + 1}
          /\ t[Len(symbols) + 1] = row /\ \A j \in DOMAIN symbols : t[j] = symbols[j]
      BY <1>4, <1>5, <3>1
    <3>3. \A j \in DOMAIN t : t[j].name = e.name <=> j = Len(symbols) + 1
      <4>1. \A j \in DOMAIN symbols : j # Len(symbols) + 1 /\ symbols[j].name # e.name
        BY <1>5, <2>2 DEF SymbolsNamed
      <4> QED
        BY <1>4, <3>2, <4>1
    <3>4. i = Len(symbols) + 1
      BY <3>2, <3>3
    <3> QED
      BY <1>4, <2>2, <3>2, <3>4
  <2> QED
    BY <2>1, <2>2
<1> PICK r : r = [t[i] EXCEPT !.defined = TRUE]
  OBVIOUS
<1>7. t[i] \in SymbolEntry
  <2>1. t \in Seq(SymbolEntry) /\ i \in DOMAIN t
    BY <1>6
  <2> QED
    BY ONLY <2>1
<1>8. /\ r \in SymbolEntry /\ r.name = t[i].name /\ r.section = t[i].section /\ r.value = t[i].value
      /\ r.defined = TRUE
  BY <1>7 DEF SymbolEntry
<1>9. /\ symbols' \in Seq(SymbolEntry) /\ Len(symbols') = Len(t) /\ DOMAIN symbols' = DOMAIN t
      /\ \A j \in DOMAIN t : j # i => symbols'[j] = t[j]
      /\ symbols'[i].name = t[i].name /\ symbols'[i].section = t[i].section
      /\ symbols'[i].value = t[i].value
      /\ symbols'[i].defined = (t[i].defined \/ e.section # 0)
  <2>1. CASE e.section = 0
    <3>1. symbols' = t
      BY <1>2, <2>1
    <3>2. t[i].defined \in BOOLEAN
      BY <1>7 DEF SymbolEntry
    <3>3. t[i].defined = (t[i].defined \/ e.section # 0)
      BY ONLY <2>1, <3>2
    <3> QED
      BY <1>6, <3>1, <3>3
  <2>2. CASE e.section # 0
    <3> PICK u : u = symbols'
      OBVIOUS
    <3>1. u = [t EXCEPT ![i] = r]
      BY <1>2, <2>2
    <3>2. /\ u \in Seq(SymbolEntry) /\ Len(u) = Len(t) /\ DOMAIN u = DOMAIN t /\ u[i] = r
          /\ \A j \in DOMAIN t : j # i => u[j] = t[j]
      BY ONLY <1>6, <1>8, <3>1, Replaced
    <3>3. u[i].defined = (t[i].defined \/ e.section # 0)
      BY <1>8, <2>2, <3>2
    <3> QED
      BY <1>8, <3>2, <3>3
  <2> QED
    BY <2>1, <2>2
<1>10. \A j \in DOMAIN symbols : j # i => symbols'[j] = symbols[j]
  BY <1>6, <1>9
<1>11. ASSUME i \in DOMAIN symbols, Len(t) = Len(symbols)
       PROVE  Known(i, e)
  <2>1. t[i] = symbols[i]
    BY <1>6, <1>11
  <2>2. symbols'[i].defined = (symbols[i].defined \/ e.section # 0)
    <3>1. symbols'[i].defined = (t[i].defined \/ e.section # 0)
      BY <1>9
    <3> QED
      BY ONLY <2>1, <3>1
  <2>3. symbols[i].name = e.name /\ Len(symbols') = Len(symbols)
        /\ symbols'[i].section = symbols[i].section /\ symbols'[i].value = symbols[i].value
    BY <1>6, <1>9, <1>11, <2>1
  <2> QED
    BY <1>11, <2>2, <2>3 DEF Known, Marks
<1>12. ASSUME i = Len(symbols) + 1, Len(t) = Len(symbols) + 1, t[i] = row, SymbolsNamed(e.name) = {}
       PROVE  Added(i, e)
  <2>1. symbols'[i].defined = (e.section # 0)
    BY <1>4, <1>9, <1>12
  <2> QED
    BY <1>4, <1>9, <1>12, <2>1 DEF Added, Marks
<1>13. Enters(i, e)
  <2>1. Known(i, e) \/ Added(i, e)
    BY <1>6, <1>11, <1>12
  <2>2. /\ symbols' \in Seq(SymbolEntry) /\ DOMAIN symbols' = DOMAIN symbols \cup {i}
        /\ symbols'[i].name = e.name /\ Len(symbols') <= MAX_SYMBOLS
    BY <1>1, <1>6, <1>9
  <2> QED
    BY <1>1, <1>3, <1>10, <2>1, <2>2 DEF Enters
<1> QED
  BY <1>0, <1>13

LEMMA SymbolsStep ==
  ASSUME TypeInv, [Next]_vars
  PROVE  SymbolTable'
<1> USE DEF TypeInv
<1>0. /\ symbols \in Seq(SymbolEntry) /\ Len(symbols) <= MAX_SYMBOLS /\ Len(sections) \in Nat /\ Len(sections') \in Nat
      /\ Len(sections) <= Len(sections')
      /\ \A i \in DOMAIN symbols : symbols[i].section <= Len(sections) /\ symbols[i].section \in Nat
  <2>1. \A i \in DOMAIN symbols : symbols[i] \in SymbolEntry
    BY DEF SymbolTable
  <2>2. \A i \in DOMAIN symbols : symbols[i].section \in Nat
    BY <2>1 DEF SymbolEntry
  <2>3. sections' \in Seq(Section) /\ Len(sections) <= Len(sections') /\ Len(sections) \in Nat
    BY Rows, Grown
  <2>4. Len(sections') \in Nat
    BY <2>3
  <2> QED
    BY <2>2, <2>3, <2>4 DEF SymbolTable
<1>1. CASE UNCHANGED symbols
  BY <1>0, <1>1 DEF SymbolTable
<1>2. CASE CollectGlobal
  <2>1. PICK i, e : Enters(i, e)
    BY <1>2, GlobalEnters
  <2>2. UNCHANGED sections
    BY <1>2, GlobalEnters
  <2>3. /\ symbols' \in Seq(SymbolEntry) /\ Len(symbols') <= MAX_SYMBOLS
        /\ DOMAIN symbols' = DOMAIN symbols \cup {i}
        /\ \A j \in DOMAIN symbols : j # i => symbols'[j] = symbols[j]
    BY <2>1 DEF Enters
  <2>4. e.section <= Len(sections)
    BY <2>1 DEF Enters, GlobalOf
  <2>5. symbols'[i].section <= Len(sections)
    <3>1. symbols'[i].section = e.section \/ (i \in DOMAIN symbols /\ symbols'[i].section = symbols[i].section)
      <4>1. Known(i, e) \/ Added(i, e)
        BY <2>1 DEF Enters
      <4> QED
        BY <4>1 DEF Known, Added
    <3> QED
      BY <1>0, <2>4, <3>1
  <2> QED
    BY <1>0, <2>2, <2>3, <2>5 DEF SymbolTable
<1> QED
  BY <1>1, <1>2, Touched

LEMMA FilesStep ==
  ASSUME TypeInv, [Next]_vars
  PROVE  Files'
<1> USE DEF TypeInv
<1>0. /\ own \in Seq(Seq(EntryType)) /\ Len(own) = nfile /\ DOMAIN own = 1..nfile /\ nfile \in Nat
      /\ \A f \in DOMAIN own : own[f] \in Seq(EntryType) /\ own[f] # <<>>
      /\ \A f \in DOMAIN own : \A j \in DOMAIN own[f] : own[f][j] \in EntryType
      /\ Len(sections) \in Nat /\ Len(sections') \in Nat /\ Len(sections) <= Len(sections')
  BY Rows, Grown DEF Files, Control
<1>1. \A f \in DOMAIN own : \A j \in DOMAIN own[f] : own[f][j].section <= Len(sections')
  <2>1. \A f \in DOMAIN own : \A j \in DOMAIN own[f] : own[f][j].section <= Len(sections)
    BY DEF Files
  <2>2. \A x \in EntryType : x.section \in Nat
    BY DEF EntryType
  <2> QED
    BY <1>0, <2>1, <2>2
<1>2. Unnamed \in EntryType /\ Unnamed.section = 0
  BY DEF Unnamed, Entry, EntryType
<1>3. ASSUME NEW x \in EntryType, nfile >= 1, x.section <= Len(sections'), nfile' = nfile,
             own' = [own EXCEPT ![nfile] = Append(@, x)]
      PROVE  Files'
  <2> PICK r : r = Append(own[nfile], x)
    OBVIOUS
  <2> PICK u : u = own'
    OBVIOUS
  <2>0. nfile \in DOMAIN own
    BY <1>0, <1>3
  <2>1. /\ r \in Seq(EntryType) /\ r # <<>>
        /\ \A j \in DOMAIN r : (j \in DOMAIN own[nfile] /\ r[j] = own[nfile][j]) \/ r[j] = x
    BY <1>0, <2>0
  <2>2. u = [own EXCEPT ![nfile] = r]
    BY <1>3, <2>0
  <2>3. /\ u \in Seq(Seq(EntryType)) /\ Len(u) = Len(own) /\ DOMAIN u = DOMAIN own
        /\ u[nfile] = r /\ \A f \in DOMAIN own : f # nfile => u[f] = own[f]
    BY ONLY <1>0, <2>0, <2>1, <2>2, Replaced
  <2>4. \A j \in DOMAIN r : r[j].section <= Len(sections')
    BY <1>1, <1>3, <2>0, <2>1
  <2>5. \A f \in DOMAIN u : u[f] # <<>>
    BY <1>0, <2>1, <2>3
  <2>6. \A f \in DOMAIN u : \A j \in DOMAIN u[f] : u[f][j].section <= Len(sections')
    BY <1>1, <2>3, <2>4, ZenonT(40)
  <2> QED
    BY <1>0, <1>3, <2>3, <2>5, <2>6 DEF Files
<1>4. CASE UNCHANGED own
  <2>1. nfile' = nfile
    <3>1. CASE OpenObject
      <4>1. own' = Append(own, <<Unnamed>>)
        BY <3>1 DEF OpenObject
      <4>2. Len(own') = Len(own) + 1
        BY <1>0, <4>1
      <4> QED
        BY <1>0, <1>4, <4>2
    <3> QED
      BY <3>1, Touched
  <2> QED
    BY <1>0, <1>1, <1>4, <2>1 DEF Files
<1>5. CASE OpenObject
  <2>1. own' = Append(own, <<Unnamed>>) /\ nfile' = nfile + 1
    BY <1>5 DEF OpenObject
  <2> PICK s : s = <<Unnamed>>
    OBVIOUS
  <2>2. s \in Seq(EntryType) /\ s # <<>> /\ DOMAIN s = {1} /\ s[1] = Unnamed
    BY <1>2
  <2> PICK u : u = own'
    OBVIOUS
  <2>3. u = Append(own, s)
    BY <2>1
  <2>4. /\ u \in Seq(Seq(EntryType)) /\ Len(u) = nfile + 1 /\ DOMAIN u = DOMAIN own \cup {nfile + 1}
        /\ u[nfile + 1] = s /\ \A f \in DOMAIN own : u[f] = own[f]
    BY <1>0, <2>2, <2>3
  <2>5. \A f \in DOMAIN u : u[f] # <<>>
    BY <1>0, <2>2, <2>4
  <2>6. s[1].section <= Len(sections')
    BY <1>0, <1>2, <2>2
  <2>7. \A f \in DOMAIN u : \A j \in DOMAIN u[f] : u[f][j].section <= Len(sections')
    BY <1>1, <2>2, <2>4, <2>6
  <2> QED
    BY <2>1, <2>4, <2>5, <2>7 DEF Files
<1>6. CASE CollectLocal
  <2>1. own' = [own EXCEPT ![nfile] = Append(@, Unnamed)] /\ nfile' = nfile /\ phase = "symbols"
    BY <1>6 DEF CollectLocal, MoreEntries, Running
  <2>2. nfile >= 1
    BY <2>1 DEF Control
  <2>3. Unnamed.section <= Len(sections')
    BY <1>0, <1>2
  <2> QED
    BY <1>2, <1>3, <2>1, <2>2, <2>3
<1>7. CASE CollectGlobal
  <2>1. PICK i, e : Enters(i, e)
    BY <1>7, GlobalEnters
  <2>2. phase = "symbols" /\ UNCHANGED <<nfile, sections>>
    BY <1>7, GlobalEnters DEF Running
  <2>3. nfile >= 1
    BY <2>2 DEF Control
  <2>4. e \in EntryType /\ e.section <= Len(sections') /\ own' = [own EXCEPT ![nfile] = Append(@, e)]
    BY <2>1, <2>2 DEF Enters, GlobalOf
  <2> QED
    BY <1>3, <2>2, <2>3, <2>4
<1> QED
  BY <1>4, <1>5, <1>6, <1>7, Touched

-----------------------------------------------------------------------------
(* Parts, relocations, headers and addresses *)

LEMMA PartsStep ==
  ASSUME TypeInv, [Next]_vars
  PROVE  Parts'
<1> USE DEF TypeInv
<1>0. /\ parts \in Seq(PartType)
      /\ \A n \in DOMAIN parts : parts[n].file \in 1..nfile
      /\ \A n \in DOMAIN parts : \A name : parts[n].name = name => SectionsNamed(name)' # {}
      /\ nfile \in Nat /\ nfile' \in Nat /\ nfile <= nfile'
  <2>1. nfile \in Nat /\ nfile' \in Nat /\ nfile <= nfile'
    <3>1. nfile' = nfile \/ nfile' = nfile + 1
      BY Touched DEF OpenObject
    <3> QED
      BY <3>1 DEF Control
  <2>2. /\ parts \in Seq(PartType)
        /\ \A n \in DOMAIN parts : parts[n].file \in 1..nfile /\ SectionsNamed(parts[n].name) # {}
    BY DEF Parts
  <2>3. \A name : SectionsNamed(name) # {} => SectionsNamed(name)' # {}
    BY Grown
  <2> QED
    BY <2>1, <2>2, <2>3
<1>1. CASE UNCHANGED parts
  <2>1. \A n \in DOMAIN parts' : (SectionsNamed(parts[n].name) # {})'
    BY <1>0, <1>1
  <2>2. \A n \in DOMAIN parts' : (parts[n].file \in 1..nfile)'
    BY <1>0, <1>1
  <2> QED
    BY <1>0, <1>1, <2>1, <2>2 DEF Parts
<1>2. CASE Collects
  <2>1. PICK i, h : Extends(i, h)
    BY <1>2, CollectExtends
  <2>a. h \in Headers /\ h.name \in SectNames /\ h.kind \in Kinds /\ h.size \in Nat
    BY <2>1, Numbers DEF Extends
  <2>2. nfile >= 1 /\ nfile' = nfile
    BY <1>2, CollectExtends DEF Control, Running
  <2>3. \E base \in Nat : parts' = Append(parts, Part(h, base))
    <3>1. CASE parts' = Append(parts, Part(h, 0))
      BY <3>1
    <3>2. CASE i \in DOMAIN sections /\ parts' = Append(parts, Part(h, sections[i].size))
      <4>1. sections[i].size \in Nat
        BY <3>2, Rows
      <4> QED
        BY <3>2, <4>1
    <3> QED
      BY <2>1, <3>1, <3>2 DEF Extends
  <2>4. PICK base \in Nat : parts' = Append(parts, Part(h, base))
    BY <2>3
  <2> PICK p : p = Part(h, base)
    OBVIOUS
  <2>5. p \in PartType /\ p.file = nfile /\ p.name = h.name
    BY <1>0, <2>a DEF Part, PartType
  <2>6. SectionsNamed(h.name)' # {}
    <3>1. i \in DOMAIN sections'
      BY <2>1 DEF Extends
    <3>2. sections'[i].name = h.name
      <4>1. CASE i \in DOMAIN sections /\ sections[i].name = h.name
        BY <4>1, Grown
      <4>2. CASE sections'[i] = [name |-> h.name, kind |-> h.kind, start |-> output_size,
                                 size |-> h.size, vaddr |-> 0]
        BY <4>2
      <4> QED
        BY <2>1, <4>1, <4>2 DEF Extends
    <3> QED
      BY <3>1, <3>2 DEF SectionsNamed
  <2>7. p.file \in 1..nfile'
    BY <1>0, <2>2, <2>5
  <2>8. \A n \in DOMAIN parts : parts[n].file \in 1..nfile'
    BY <1>0, <2>2
  <2>9. parts' = Append(parts, p)
    BY <2>4
  <2>10. /\ parts' \in Seq(PartType)
         /\ \A n \in DOMAIN parts' : (n \in DOMAIN parts /\ parts'[n] = parts[n]) \/ parts'[n] = p
    BY <1>0, <2>5, <2>9
  <2>11. \A n \in DOMAIN parts' : (parts[n].file \in 1..nfile /\ SectionsNamed(parts[n].name) # {})'
    <3> SUFFICES ASSUME NEW n \in DOMAIN parts'
                 PROVE  (parts[n].file \in 1..nfile /\ SectionsNamed(parts[n].name) # {})'
      OBVIOUS
    <3> PICK name : name = parts'[n].name
      OBVIOUS
    <3>1. CASE n \in DOMAIN parts /\ parts'[n] = parts[n]
      <4>1. SectionsNamed(name)' # {} /\ parts'[n].file \in 1..nfile'
        BY <1>0, <2>8, <3>1
      <4> QED
        BY <4>1
    <3>2. CASE parts'[n] = p
      <4>1. SectionsNamed(name)' # {} /\ parts'[n].file \in 1..nfile'
        BY <2>5, <2>6, <2>7, <3>2
      <4> QED
        BY <4>1
    <3> QED
      BY <2>10, <3>1, <3>2
  <2> QED
    BY <2>10, <2>11 DEF Parts
<1> QED
  BY <1>1, <1>2, Touched

\* What reading a relocation does.
Relocates(r) ==
  /\ r \in Relocation /\ r.section <= Len(sections)
  /\ r.symbol + 1 \in DOMAIN Entries
  /\ r.part \in Relocated /\ r.section \in SectionsNamed(parts[r.part].name)
  /\ r.offset = LastByte(r.part)
  /\ Len(relocs) < MAX_RELOCS /\ relocs' = Append(relocs, r)
LEMMA RelocRelocates ==
  ASSUME TypeInv, CollectReloc
  PROVE  /\ \E r : Relocates(r)
         /\ Running("symbols")
         /\ UNCHANGED <<phase, status, nfile, sections, output, output_size, symbols, at, cursor,
                        result, history>>
<1> USE DEF TypeInv
<1>0. /\ Running("symbols")
      /\ UNCHANGED <<phase, status, nfile, sections, output, output_size, symbols, at, cursor,
                     result, history>>
  BY DEF CollectReloc
<1>1. PICK n \in Relocated, symbol \in 0..(Len(Entries) - 1) :
        relocs' = Append(relocs, Reloc(n, symbol)) /\ Len(relocs) < MAX_RELOCS
  BY DEF CollectReloc
<1> PICK i, v : i = SectionOf(n) /\ v = LastByte(n)
  OBVIOUS
<1>2. n \in DOMAIN parts
  BY DEF Relocated, Here
<1>3. /\ i \in SectionsNamed(parts[n].name) /\ i \in Nat /\ i >= 1 /\ i <= Len(sections)
      /\ v \in Nat /\ n \in Nat
  BY <1>2, PartRows
<1>5. nfile \in Nat /\ nfile >= 1
  BY <1>0 DEF Control, Running
<1>6. symbol \in Nat /\ symbol + 1 \in DOMAIN Entries
  <2>1. Entries \in Seq(EntryType)
    <3>1. nfile \in DOMAIN own
      BY <1>5 DEF Files
    <3> QED
      BY <3>1 DEF Files, Entries
  <2>2. Len(Entries) \in Nat /\ DOMAIN Entries = 1..Len(Entries)
    BY <2>1
  <2> QED
    BY <2>2
<1> PICK r : r = [section |-> i, offset |-> v, symbol |-> symbol, part |-> n]
  OBVIOUS
<1>7. /\ r \in Relocation /\ r.section = i /\ r.offset = v /\ r.symbol = symbol
      /\ r.part = n
  BY <1>3, <1>6 DEF Relocation
<1>8. Relocates(r)
  BY <1>1, <1>3, <1>6, <1>7 DEF Relocates, Reloc
<1> QED
  BY <1>0, <1>8

LEMMA RelocsStep ==
  ASSUME TypeInv, [Next]_vars
  PROVE  RelocTable'
<1> USE DEF TypeInv
<1>0. /\ relocs \in Seq(Relocation) /\ Len(relocs) <= MAX_RELOCS /\ Len(sections) \in Nat /\ Len(sections') \in Nat
      /\ Len(sections) <= Len(sections')
      /\ \A i \in DOMAIN relocs : relocs[i].section <= Len(sections) /\ relocs[i].section \in Nat
  <2>1. \A i \in DOMAIN relocs : relocs[i] \in Relocation
    BY DEF RelocTable
  <2>2. \A i \in DOMAIN relocs : relocs[i].section \in Nat
    BY <2>1 DEF Relocation
  <2>3. sections' \in Seq(Section) /\ Len(sections) <= Len(sections') /\ Len(sections) \in Nat
    BY Rows, Grown
  <2>4. Len(sections') \in Nat
    BY <2>3
  <2> QED
    BY <2>2, <2>3, <2>4 DEF RelocTable
<1>1. CASE UNCHANGED relocs
  BY <1>0, <1>1 DEF RelocTable
<1>2. CASE CollectReloc
  <2>1. PICK r : Relocates(r)
    BY <1>2, RelocRelocates
  <2>2. /\ r \in Relocation /\ r.section <= Len(sections) /\ relocs' = Append(relocs, r)
        /\ Len(relocs) < MAX_RELOCS /\ MAX_RELOCS \in Nat
    BY <2>1, Numbers DEF Relocates
  <2>3. /\ relocs' \in Seq(Relocation) /\ Len(relocs') <= MAX_RELOCS
        /\ \A i \in DOMAIN relocs' : (i \in DOMAIN relocs /\ relocs'[i] = relocs[i]) \/ relocs'[i] = r
    BY <1>0, <2>2
  <2>4. UNCHANGED sections
    BY <1>2, RelocRelocates
  <2> QED
    BY <1>0, <2>2, <2>3, <2>4 DEF RelocTable
<1> QED
  BY <1>1, <1>2, Touched

\* The end of the last of some sections, or a number to start from.
LEMMA LastEnd ==
  ASSUME TypeInv, NEW S \in SUBSET DOMAIN sections, NEW base \in Nat,
         NEW bound \in Nat, base <= bound, \A i \in S : End(i) <= bound
  PROVE  /\ Max({base} \cup EndOf(S)) \in {base} \cup EndOf(S)
         /\ Max({base} \cup EndOf(S)) \in Nat
         /\ base <= Max({base} \cup EndOf(S))
         /\ \A i \in S : End(i) <= Max({base} \cup EndOf(S))
<1> DEFINE E == {base} \cup EndOf(S)
<1>1. EndOf(S) = {End(i) : i \in S}
  BY DEF EndOf, End
<1>2. \A i \in S : End(i) \in Nat
  BY Rows DEF TypeInv
<1>3. E \subseteq Nat /\ E # {}
  BY <1>1, <1>2
<1>4. \A x \in E : x <= bound
  BY <1>1
<1> HIDE DEF E
<1>5. Max(E) \in E /\ \A x \in E : x <= Max(E)
  BY <1>3, <1>4, MinMax
<1>6. base \in E /\ \A i \in S : End(i) \in E
  BY <1>1 DEF E
<1>7. Max(E) \in Nat /\ base <= Max(E) /\ \A i \in S : End(i) <= Max(E)
  BY <1>3, <1>5, <1>6
<1> QED
  BY <1>5, <1>7 DEF E

\* every section has its address when relocations are applied
LEMMA AllPlaced ==
  ASSUME TypeInv, phase \in {"apply", "write"}, NEW i \in DOMAIN sections
  PROVE  Placed(i)
<1>1. Kind(i) \in Kinds
  BY Rows DEF TypeInv
<1>2. Rank(Kind(i)) < Rank(phase)
  BY <1>1 DEF Rank, Kinds
<1> QED
  BY <1>2 DEF Placed

LEMMA SegmentsFound ==
  ASSUME TypeInv, phase = "apply"
  PROVE  /\ Segments \in [code : Nat, from : Nat, to : Nat]
         /\ Segments.code \in {PAGE_SIZE} \cup EndOf(CodeSections)
         /\ \A i \in CodeSections : End(i) <= Segments.code
         /\ DataSections # {} => \E i \in DataSections : Segments.from = sections[i].vaddr
         /\ Segments.to \in {0} \cup EndOf(DataSections)
         /\ \A i \in DataSections : End(i) <= Segments.to
<1> USE DEF TypeInv
<1>1. \A i \in DOMAIN sections : End(i) <= cursor /\ End(i) \in Nat /\ sections[i].vaddr \in Nat
  BY AllPlaced, Rows DEF Below
<1>2. CodeSections \in SUBSET DOMAIN sections /\ DataSections \in SUBSET DOMAIN sections
  BY DEF CodeSections, DataSections
<1>3. cursor \in Nat /\ PAGE_SIZE \in Nat /\ 0 \in Nat
  BY Numbers DEF Control
<1>4. PICK bound \in Nat : bound = cursor + PAGE_SIZE
  BY <1>3
<1>5. /\ PAGE_SIZE <= bound /\ 0 <= bound
      /\ \A i \in DOMAIN sections : End(i) <= bound
  BY <1>1, <1>3, <1>4
<1>6. /\ Max({PAGE_SIZE} \cup EndOf(CodeSections)) \in {PAGE_SIZE} \cup EndOf(CodeSections)
      /\ Max({PAGE_SIZE} \cup EndOf(CodeSections)) \in Nat
      /\ \A i \in CodeSections : End(i) <= Max({PAGE_SIZE} \cup EndOf(CodeSections))
  BY <1>2, <1>3, <1>5, LastEnd
<1>7. /\ Max({0} \cup EndOf(DataSections)) \in {0} \cup EndOf(DataSections)
      /\ Max({0} \cup EndOf(DataSections)) \in Nat
      /\ \A i \in DataSections : End(i) <= Max({0} \cup EndOf(DataSections))
  BY <1>2, <1>3, <1>5, LastEnd
<1> DEFINE A == {sections[i].vaddr : i \in DataSections}
<1> PICK from : from = IF DataSections = {} THEN 0 ELSE Min(A)
  OBVIOUS
<1>8. from \in Nat /\ (DataSections # {} => from \in A)
  <2>1. CASE DataSections = {}
    BY <2>1
  <2>2. CASE DataSections # {}
    <3>1. A \subseteq Nat /\ A # {}
      BY <1>1, <1>2, <2>2
    <3> QED
      BY <2>2, <3>1, MinMax
  <2> QED
    BY <2>1, <2>2
<1>9. /\ Segments.code = Max({PAGE_SIZE} \cup EndOf(CodeSections))
      /\ Segments.to = Max({0} \cup EndOf(DataSections)) /\ Segments.from = from
  BY DEF Segments
<1>10. Segments \in [code : Nat, from : Nat, to : Nat]
  BY <1>6, <1>7, <1>8 DEF Segments
<1> QED
  BY <1>6, <1>7, <1>8, <1>9, <1>10

LEMMA HeadersStep ==
  ASSUME TypeInv, [Next]_vars
  PROVE  HeaderTypes'
<1> USE DEF TypeInv
<1>1. CASE UNCHANGED header
  BY <1>1 DEF HeaderTypes, header
<1>2. CASE WriteHeader
  <2>1. phase = "apply" /\ segments' = Segments
    BY <1>2 DEF WriteHeader, Running
  <2>2. segments' \in [code : Nat, from : Nat, to : Nat]
    BY <2>1, SegmentsFound
  <2>3. \A name : IsDefined(name) => EntryOf(name) \in Nat \cup {-1}
    <3> SUFFICES ASSUME NEW name, IsDefined(name) PROVE EntryOf(name) \in Nat \cup {-1}
      OBVIOUS
    <3> PICK i : i = TheIndex(SymbolsNamed(name))
      OBVIOUS
    <3>1. i \in DOMAIN symbols
      BY Index DEF IsDefined, SymbolsNamed
    <3>2. symbols[i] \in SymbolEntry /\ symbols[i].section <= Len(sections)
      BY <3>1 DEF SymbolTable
    <3>3. symbols[i].section \in Nat /\ symbols[i].value \in Nat
      BY <3>2 DEF SymbolEntry
    <3>4. CASE symbols[i].section = 0
      BY <3>4 DEF EntryOf
    <3>5. CASE symbols[i].section # 0
      <4>1. symbols[i].section \in DOMAIN sections
        BY <3>2, <3>3, <3>5, Rows
      <4>2. sections[symbols[i].section].vaddr \in Nat
        BY <4>1, Rows
      <4> PICK a : a = sections[symbols[i].section].vaddr
        OBVIOUS
      <4>3. a + symbols[i].value \in Nat
        BY <3>3, <4>2
      <4>4. EntryOf(name) = a + symbols[i].value
        BY <3>5 DEF EntryOf
      <4> QED
        BY <4>3, <4>4
    <3> QED
      BY <3>4, <3>5
  <2>4. entry' = IF IsDefined("_start") THEN EntryOf("_start")
                 ELSE IF IsDefined("main") THEN EntryOf("main") ELSE PAGE_SIZE
    BY <1>2 DEF WriteHeader
  <2>5. entry' \in Nat \cup {-1}
    BY <2>3, <2>4, Numbers
  <2> QED
    BY <2>2, <2>5 DEF HeaderTypes
<1> QED
  BY <1>1, <1>2, Touched

-----------------------------------------------------------------------------
(* The layout *)

LEMMA Ranks ==
  /\ Rank("code") = 1 /\ Rank("data") = 2 /\ Rank("bss") = 3 /\ Rank("apply") = 4
  /\ Rank("write") = 4 /\ Rank("files") = 0 /\ Rank("sections") = 0 /\ Rank("symbols") = 0
BY DEF Rank

\* The steps, as the layout sees them.
Reading == phase \in {"files", "sections", "symbols"}
LEMMA LayoutMoves ==
  ASSUME TypeInv, [Next]_vars
  PROVE  \/ Reading /\ Reading'
         \/ StartLayout
         \/ Place
         \/ NextLoop
         \/ LaidOut /\ LaidOut' /\ UNCHANGED sections
            /\ (phase' = "apply" => phase = "apply" /\ UNCHANGED cursor)
         \/ phase \in Kinds /\ UNCHANGED <<phase, sections, at, cursor>>
<1>1. phase \in Kinds \cup {"files", "sections", "symbols", "apply", "write"}
  BY DEF TypeInv, Control
<1>2. CASE UNCHANGED vars
  BY <1>1, <1>2 DEF vars, tables, Reading, LaidOut, Kinds
<1>3. CASE ReadObjects
  <2>1. CASE OpenObject
    BY <2>1 DEF OpenObject, Running, Enter, Reading
  <2>2. CASE CollectProgbits \/ CollectNobits \/ SectionOverrun \/ SymbolOverrun \/ RelocOverrun \/ EndSections
    BY <2>2 DEF CollectProgbits, CollectNobits, SectionOverrun, SymbolOverrun, RelocOverrun, Overruns,
           EndSections, MoreSections, MoreEntries, Running, Enter, Reading
  <2>3. CASE CollectLocal \/ CollectGlobal \/ CollectReloc \/ EndObject
    BY <2>3 DEF CollectLocal, CollectGlobal, CollectReloc, EndObject, MoreEntries, Running, Enter, Reading
  <2> QED
    BY <1>3, <2>1, <2>2, <2>3 DEF ReadObjects
<1>4. CASE WriteProgram
  BY <1>4 DEF WriteProgram, Apply, WriteHeader, WriteSection, CannotCreate, Finish, tables, Running, Enter, LaidOut
<1> QED
  BY <1>2, <1>3, <1>4 DEF Next, LayOut, Stopped

\* How the set of placed sections grows.
LEMMA PlacedGrows ==
  ASSUME TypeInv, NEW i \in DOMAIN sections
  PROVE  /\ Place => /\ Kind(i)' = Kind(i)
                     /\ Placed(i)' <=> Placed(i) \/ (i = at /\ Kind(at) = phase)
         /\ NextLoop => /\ sections' = sections /\ Kind(i)' = Kind(i)
                        /\ Placed(i)' <=> Placed(i)
                        /\ Rank(phase') = Rank(phase) + 1 /\ Rank(phase) \in 1..3
         /\ StartLayout => sections' = sections /\ ~Placed(i)'
<1> USE DEF TypeInv
<1>0. Kind(i) \in Kinds /\ i \in Nat /\ i >= 1 /\ i <= Len(sections) /\ Len(sections) \in Nat
  BY Rows
<1>1. Rank(Kind(i)) \in 1..3
  BY <1>0, Ranks DEF Kinds
<1>2. at \in Nat /\ at >= 1
  BY DEF Control
<1>3. ASSUME Place
      PROVE  /\ Kind(i)' = Kind(i)
             /\ Placed(i)' <=> Placed(i) \/ (i = at /\ Kind(at) = phase)
  <2>1. Kind(i)' = Kind(i) /\ phase' = phase /\ at' = at + 1
    BY <1>3, PlacedRow DEF Kind
  <2>2. i < at + 1 <=> i < at \/ i = at
    BY <1>0, <1>2
  <2> QED
    BY <2>1, <2>2 DEF Placed
<1>4. ASSUME NextLoop
      PROVE  /\ sections' = sections /\ Kind(i)' = Kind(i)
             /\ Placed(i)' <=> Placed(i)
             /\ Rank(phase') = Rank(phase) + 1 /\ Rank(phase) \in 1..3
  <2>1. sections' = sections /\ at > Len(sections) /\ at' = 1 /\ phase \in {"code", "data", "bss"}
    BY <1>4 DEF NextLoop, tables, Kinds
  <2>2. phase' = CASE phase = "code" -> "data" [] phase = "data" -> "bss" [] phase = "bss" -> "apply"
    BY <1>4, <2>1 DEF NextLoop, Enter
  <2>3. Rank(phase') = Rank(phase) + 1 /\ Rank(phase) \in 1..3
    BY <2>1, <2>2, Ranks
  <2>4. Kind(i)' = Kind(i) /\ i < at /\ ~(i < at')
    BY <1>0, <1>2, <2>1 DEF Kind
  <2>5. Kind(i) = phase <=> Rank(Kind(i)) = Rank(phase)
    BY <1>0, <2>1, Ranks DEF Kinds
  <2>6. Rank(Kind(i)) < Rank(phase') <=> Rank(Kind(i)) < Rank(phase) \/ Rank(Kind(i)) = Rank(phase)
    BY <1>1, <2>3
  <2> QED
    BY <2>1, <2>3, <2>4, <2>5, <2>6 DEF Placed
<1>5. ASSUME StartLayout
      PROVE  sections' = sections /\ ~Placed(i)'
  <2>1. sections' = sections /\ phase' = "code" /\ at' = 1
    BY <1>5 DEF StartLayout, Enter, tables
  <2>2. Kind(i)' = Kind(i) /\ ~(i < 1)
    BY <1>0, <2>1 DEF Kind
  <2>3. ~(Rank(Kind(i)) < 1)
    BY <1>1
  <2> QED
    BY <2>1, <2>2, <2>3, Ranks DEF Placed
<1> QED
  BY <1>3, <1>4, <1>5

\* A section is put at the cursor, and the cursor goes past it.
LEMMA CursorMoves ==
  ASSUME TypeInv
  PROVE  /\ Place => /\ cursor \in Nat /\ cursor' \in Nat /\ cursor <= cursor'
                     /\ Kind(at) = phase =>
                          /\ sections'[at].vaddr = cursor /\ sections'[at].vaddr + sections'[at].size <= cursor'
                          /\ \E q \in Nat : cursor' = q * SECTION_ALIGN
                     /\ \A i \in DOMAIN sections : ~(i = at /\ Kind(at) = phase) =>
                          End(i)' = End(i) /\ sections'[i].vaddr = sections[i].vaddr
         /\ NextLoop => /\ cursor \in Nat /\ cursor' \in Nat /\ cursor <= cursor'
                        /\ phase # "code" => cursor' = cursor
                        /\ phase = "code" => \E q \in Nat : cursor' = q * PAGE_SIZE
<1> USE DEF TypeInv
<1>0. cursor \in Nat
  BY DEF Control
<1>1. ASSUME Place
      PROVE  /\ cursor' \in Nat /\ cursor <= cursor'
             /\ Kind(at) = phase =>
                  /\ sections'[at].vaddr = cursor /\ sections'[at].vaddr + sections'[at].size <= cursor'
                  /\ \E q \in Nat : cursor' = q * SECTION_ALIGN
             /\ \A i \in DOMAIN sections : ~(i = at /\ Kind(at) = phase) =>
                  End(i)' = End(i) /\ sections'[i].vaddr = sections[i].vaddr
  <2>1. at \in DOMAIN sections /\ sections[at].size \in Nat
    BY <1>1, PlacedRow, Rows
  <2>2. \A i \in DOMAIN sections : ~(i = at /\ Kind(at) = phase) =>
          End(i)' = End(i) /\ sections'[i].vaddr = sections[i].vaddr
    BY <1>1, PlacedRow DEF End
  <2>3. CASE Kind(at) = phase
    <3> PICK n \in Nat : n = cursor + sections[at].size
      BY <1>0, <2>1
    <3>1. cursor' = RoundUp(n, SECTION_ALIGN) /\ sections'[at].vaddr = cursor
          /\ sections'[at].size = sections[at].size
      BY <1>1, <2>1, <2>3, PlacedRow
    <3>2. /\ cursor' \in Nat /\ cursor' >= n
          /\ \E q \in Nat : cursor' = q * SECTION_ALIGN
      BY <3>1, Rounded, Numbers
    <3>3. sections'[at].vaddr + sections'[at].size = n
      BY <3>1
    <3>4. cursor <= n
      BY <1>0, <2>1
    <3>5. cursor <= cursor' /\ sections'[at].vaddr + sections'[at].size <= cursor'
      BY <1>0, <3>2, <3>3, <3>4
    <3> QED
      BY <2>2, <3>1, <3>2, <3>5
  <2>4. CASE Kind(at) # phase
    <3>1. cursor' = cursor
      BY <1>1, <2>4, PlacedRow
    <3> QED
      BY <1>0, <2>2, <2>4, <3>1
  <2> QED
    BY <2>3, <2>4
<1>2. ASSUME NextLoop
      PROVE  /\ cursor' \in Nat /\ cursor <= cursor'
             /\ phase # "code" => cursor' = cursor
             /\ phase = "code" => \E q \in Nat : cursor' = q * PAGE_SIZE
  <2>1. CASE phase = "code"
    <3>1. cursor' = RoundUp(cursor, PAGE_SIZE)
      BY <1>2, <2>1 DEF NextLoop
    <3>2. /\ cursor' \in Nat /\ cursor' >= cursor
          /\ \E q \in Nat : cursor' = q * PAGE_SIZE
      BY <1>0, <3>1, Rounded, Numbers
    <3> QED
      BY <1>0, <2>1, <3>2
  <2>2. CASE phase # "code"
    <3>1. phase \in {"data", "bss"}
      BY <1>2, <2>2 DEF NextLoop, Kinds
    <3>2. cursor' = cursor
      BY <1>2, <3>1 DEF NextLoop
    <3> QED
      BY <1>0, <2>2, <3>2
  <2> QED
    BY <2>1, <2>2
<1> QED
  BY <1>0, <1>1, <1>2

LEMMA BelowStep ==
  ASSUME TypeInv, [Next]_vars
  PROVE  Below'
<1> USE DEF TypeInv
<1>0. /\ \A i \in DOMAIN sections : End(i) \in Nat
      /\ cursor \in Nat
  BY Rows DEF Control
<1>1. CASE Reading /\ Reading'
  BY <1>1 DEF Reading, Below, Kinds
<1>2. CASE StartLayout
  <2>1. sections' = sections
    BY <1>2 DEF StartLayout, tables
  <2>2. \A i \in DOMAIN sections : ~Placed(i)'
    BY <1>2, PlacedGrows
  <2> QED
    BY <2>1, <2>2 DEF Below
<1>3. CASE Place
  <2>1. phase \in Kinds /\ DOMAIN sections' = DOMAIN sections /\ at \in DOMAIN sections
    <3>1. sections \in Seq(Section) /\ sections' \in Seq(Section) /\ Len(sections') = Len(sections)
      BY <1>3, PlacedRow DEF SectionTable
    <3>2. DOMAIN sections' = DOMAIN sections
      BY <3>1
    <3> QED
      BY <1>3, <3>2, PlacedRow
  <2>2. \A i \in DOMAIN sections : Placed(i) => End(i) <= cursor
    BY <2>1 DEF Below
  <2>3. cursor' \in Nat /\ cursor <= cursor'
    BY <1>3, CursorMoves
  <2>4. ASSUME NEW i \in DOMAIN sections, Placed(i)'
        PROVE  End(i)' <= cursor'
    <3>1. CASE i = at /\ Kind(at) = phase
      <4>1. sections'[at].vaddr + sections'[at].size <= cursor'
        BY <1>3, <3>1, CursorMoves
      <4> QED
        BY <3>1, <4>1 DEF End
    <3>2. CASE ~(i = at /\ Kind(at) = phase)
      <4>1. Placed(i)
        BY <1>3, <2>4, <3>2, PlacedGrows
      <4>2. End(i)' = End(i)
        BY <1>3, <3>2, CursorMoves
      <4>3. End(i) <= cursor /\ End(i) \in Nat
        BY <1>0, <2>2, <4>1
      <4> QED
        BY <1>0, <2>3, <4>2, <4>3
    <3> QED
      BY <3>1, <3>2
  <2> QED
    BY <2>1, <2>4 DEF Below
<1>4. CASE NextLoop
  <2>1. phase \in Kinds /\ sections' = sections
    BY <1>4 DEF NextLoop, tables
  <2>2. \A i \in DOMAIN sections : Placed(i) => End(i) <= cursor
    BY <2>1 DEF Below
  <2>3. cursor' \in Nat /\ cursor <= cursor'
    BY <1>4, CursorMoves
  <2>4. ASSUME NEW i \in DOMAIN sections, Placed(i)'
        PROVE  End(i)' <= cursor'
    <3>1. Placed(i)
      BY <1>4, <2>4, PlacedGrows
    <3>2. End(i) <= cursor /\ End(i) \in Nat /\ End(i)' = End(i)
      BY <1>0, <2>1, <2>2, <3>1 DEF End
    <3> QED
      BY <1>0, <2>3, <3>2
  <2> QED
    BY <2>1, <2>4 DEF Below
<1>5. CASE LaidOut /\ LaidOut' /\ UNCHANGED sections /\ (phase' = "apply" => phase = "apply" /\ UNCHANGED cursor)
  <2>1. CASE phase' = "write"
    BY <2>1 DEF Below, Kinds
  <2>2. CASE phase' = "apply"
    <3>1. phase = "apply" /\ cursor' = cursor
      BY <1>5, <2>2
    <3>2. \A i \in DOMAIN sections : End(i) <= cursor
      BY <3>1, AllPlaced DEF Below
    <3> QED
      BY <1>5, <3>1, <3>2 DEF Below, End
  <2> QED
    BY <1>5, <2>1, <2>2 DEF LaidOut
<1>6. CASE phase \in Kinds /\ UNCHANGED <<phase, sections, at, cursor>>
  BY <1>6 DEF Below, Placed, End, Kind
<1> QED
  BY <1>1, <1>2, <1>3, <1>4, <1>5, <1>6, LayoutMoves

LEMMA TypeInit ==
  ASSUME Init
  PROVE  TypeInv
<1> USE DEF Init
<1>1. Control
  BY Numbers DEF Control
<1>2. SectionTable /\ SymbolTable /\ RelocTable
  BY Numbers DEF SectionTable, SymbolTable, RelocTable
<1>3. Bytes /\ HeaderTypes
  BY DEF Bytes, HeaderTypes
<1>4. Files /\ Parts
  BY DEF Files, Parts
<1>5. Below
  BY DEF Below
<1> QED
  BY <1>1, <1>2, <1>3, <1>4, <1>5 DEF TypeInv

LEMMA TypeStep ==
  ASSUME TypeInv, [Next]_vars
  PROVE  TypeInv'
BY ControlStep, SectionsStep, BytesStep, FilesStep, PartsStep, SymbolsStep, RelocsStep,
   HeadersStep, BelowStep DEF TypeInv

LEMMA Typed == Spec => []TypeInv
<1>1. Init => TypeInv
  BY TypeInit
<1>2. TypeInv /\ [Next]_vars => TypeInv'
  BY TypeStep
<1> QED
  BY <1>1, <1>2, PTL DEF Spec

\* The linker's tables hold what they should, and indices stay inside them: every
\* address that write_executable() puts in a header is a number.
THEOREM TypeCorrect == Spec => []TypeOK
<1>1. TypeInv => TypeOK
  BY DEF TypeInv, TypeOK, Control, SectionTable, Bytes, SymbolTable, RelocTable, HeaderTypes
<1> QED
  BY <1>1, Typed, PTL

Aligned(n) == n % SECTION_ALIGN = 0
Before(i, j) == Rank(Kind(i)) < Rank(Kind(j)) \/ (Kind(i) = Kind(j) /\ i < j)
InPlace ==
  /\ \A i \in DOMAIN sections :
       Placed(i) => Aligned(sections[i].vaddr) /\ sections[i].vaddr >= PAGE_SIZE
  /\ \A i, j \in DOMAIN sections :
       Placed(i) /\ Placed(j) /\ Before(i, j) => End(i) <= sections[j].vaddr
NextPlace == phase \in Kinds => Aligned(cursor) /\ cursor >= PAGE_SIZE
\* a page boundary above the code and below the rest
Boundary(q) ==
  /\ \A i \in DOMAIN sections :
       /\ Kind(i) = "code" => End(i) <= q * PAGE_SIZE
       /\ Kind(i) # "code" /\ Placed(i) => q * PAGE_SIZE <= sections[i].vaddr
  /\ phase \in Kinds => q * PAGE_SIZE <= cursor
LayoutInv ==
  /\ ~Reading => InPlace /\ NextPlace
  /\ ~Reading /\ phase # "code" => \E q \in Nat : Boundary(q)

LEMMA AlignedMultiples ==
  /\ \A q \in Nat : Aligned(q * SECTION_ALIGN) /\ Aligned(q * PAGE_SIZE)
  /\ Aligned(PAGE_SIZE)
<1>1. \A q \in Nat : Aligned(q * SECTION_ALIGN)
  BY Numbers, MultipleSum DEF Aligned
<1>2. \A q \in Nat : Aligned(q * PAGE_SIZE)
  BY Numbers, Multiples DEF Aligned
<1> QED
  BY <1>1, <1>2, Numbers DEF Aligned

\* One section placed.
LEMMA LayoutPlace ==
  ASSUME TypeInv, LayoutInv, Place
  PROVE  LayoutInv'
<1> USE DEF TypeInv
<1>0. /\ phase \in Kinds /\ phase' = phase /\ ~Reading /\ InPlace /\ NextPlace
      /\ at \in DOMAIN sections /\ at' = at + 1 /\ at \in Nat
      /\ DOMAIN sections' = DOMAIN sections
  <2>1. sections \in Seq(Section) /\ sections' \in Seq(Section) /\ Len(sections') = Len(sections)
    BY PlacedRow DEF SectionTable
  <2>2. DOMAIN sections' = DOMAIN sections
    BY <2>1
  <2> QED
    BY <2>2, PlacedRow DEF LayoutInv, Reading, Kinds, Control
<1>1. /\ \A i \in DOMAIN sections :
           /\ End(i) \in Nat /\ sections[i].vaddr \in Nat /\ i \in Nat /\ Kind(i)' = Kind(i)
           /\ Placed(i)' <=> Placed(i) \/ (i = at /\ Kind(at) = phase)
           /\ Placed(i) => End(i) <= cursor
      /\ cursor \in Nat /\ cursor' \in Nat /\ cursor <= cursor'
      /\ Aligned(cursor) /\ cursor >= PAGE_SIZE /\ PAGE_SIZE \in Nat
  BY <1>0, Rows, PlacedGrows, CursorMoves, Numbers DEF Below, NextPlace
<1>2. /\ Kind(at) = phase =>
           /\ sections'[at].vaddr = cursor
           /\ sections'[at].vaddr + sections'[at].size <= cursor'
           /\ \E q \in Nat : cursor' = q * SECTION_ALIGN
      /\ \A i \in DOMAIN sections : ~(i = at /\ Kind(at) = phase) =>
           End(i)' = End(i) /\ sections'[i].vaddr = sections[i].vaddr
  BY CursorMoves
<1>3. NextPlace'
  <2>1. Aligned(cursor)'
    <3>1. CASE Kind(at) = phase
      BY <1>2, <3>1, AlignedMultiples DEF Aligned
    <3>2. CASE Kind(at) # phase
      <4>1. cursor' = cursor
        BY <3>2, PlacedRow
      <4> QED
        BY <1>1, <4>1 DEF Aligned
    <3> QED
      BY <3>1, <3>2
  <2>2. cursor' >= PAGE_SIZE
    BY ONLY <1>1
  <2> QED
    BY <2>1, <2>2 DEF NextPlace
<1>4. ~(Placed(at) /\ Kind(at) = phase)
  BY <1>0, Ranks DEF Placed, Kinds
<1>5. ASSUME NEW i \in DOMAIN sections, Placed(i)'
      PROVE  Aligned(sections'[i].vaddr) /\ sections'[i].vaddr >= PAGE_SIZE
  <2>1. CASE i = at /\ Kind(at) = phase
    BY <1>1, <1>2, <2>1
  <2>2. CASE ~(i = at /\ Kind(at) = phase)
    BY <1>0, <1>1, <1>2, <1>5, <2>2 DEF InPlace
  <2> QED
    BY <2>1, <2>2
<1>6. ASSUME NEW i \in DOMAIN sections, NEW j \in DOMAIN sections, Placed(i)', Placed(j)', Before(i, j)'
      PROVE  End(i)' <= sections'[j].vaddr
  <2>1. Before(i, j)
    BY <1>1, <1>6 DEF Before
  <2>2. CASE j = at /\ Kind(at) = phase
    <3>1. i # at
      <4>1. ~(at < at)
        BY <1>0
      <4>2. Rank(phase) \in Nat /\ ~(Rank(phase) < Rank(phase))
        BY <1>0, Ranks DEF Kinds
      <4> QED
        BY <2>1, <2>2, <4>1, <4>2 DEF Before
    <3>2. Placed(i) /\ End(i)' = End(i)
      BY <1>1, <1>2, <1>6, <3>1
    <3>3. End(i) <= cursor
      BY <1>1, <3>2
    <3> QED
      BY <1>2, <2>2, <3>2, <3>3
  <2>3. CASE ~(j = at /\ Kind(at) = phase)
    <3>1. Placed(j) /\ sections'[j].vaddr = sections[j].vaddr
      BY <1>1, <1>2, <1>6, <2>3
    <3>2. ~(i = at /\ Kind(at) = phase)
      <4> SUFFICES ASSUME i = at, Kind(at) = phase PROVE FALSE
        OBVIOUS
      <4>1. Rank(Kind(j)) < Rank(phase) \/ (Kind(j) = phase /\ j < at)
        BY <3>1 DEF Placed
      <4>2. Rank(phase) < Rank(Kind(j)) \/ (phase = Kind(j) /\ at < j)
        BY <2>1 DEF Before
      <4>3. Rank(phase) \in Nat /\ Rank(Kind(j)) \in Nat
        <5>1. Kind(j) \in Kinds
          BY Rows
        <5> QED
          BY <1>0, <5>1, Ranks DEF Kinds
      <4>4. j \in Nat /\ at \in Nat
        BY <1>0, <1>1
      <4> QED
        BY ONLY <4>1, <4>2, <4>3, <4>4
    <3>3. Placed(i) /\ End(i)' = End(i)
      BY <1>1, <1>2, <1>6, <3>2
    <3> QED
      BY <1>0, <2>1, <3>1, <3>3 DEF InPlace
  <2> QED
    BY <2>2, <2>3
<1>7. ASSUME phase # "code"
      PROVE  \E q \in Nat : Boundary(q)'
  <2>1. PICK q \in Nat : Boundary(q)
    BY <1>0, <1>7 DEF LayoutInv
  <2>2. q * PAGE_SIZE <= cursor /\ q * PAGE_SIZE \in Nat
    BY <1>0, <1>1, <2>1 DEF Boundary
  <2>3. q * PAGE_SIZE <= cursor'
    BY ONLY <1>1, <2>2
  <2>4. ASSUME NEW i \in DOMAIN sections
        PROVE  /\ Kind(i)' = "code" => End(i)' <= q * PAGE_SIZE
               /\ Kind(i)' # "code" /\ Placed(i)' => q * PAGE_SIZE <= sections'[i].vaddr
    <3>1. CASE i = at /\ Kind(at) = phase
      <4>1. Kind(i)' # "code" /\ sections'[i].vaddr = cursor
        BY <1>1, <1>2, <1>7, <3>1
      <4> QED
        BY <2>2, <4>1
    <3>2. CASE ~(i = at /\ Kind(at) = phase)
      BY <1>1, <1>2, <2>1, <3>2 DEF Boundary
    <3> QED
      BY <3>1, <3>2
  <2>5. Boundary(q)'
    BY <1>0, <2>3, <2>4 DEF Boundary
  <2> QED
    BY <2>5
<1> QED
  BY <1>0, <1>3, <1>5, <1>6, <1>7 DEF LayoutInv, InPlace, Reading

\* One loop over.
LEMMA LayoutLoop ==
  ASSUME TypeInv, LayoutInv, NextLoop
  PROVE  LayoutInv'
<1> USE DEF TypeInv
<1>0. /\ phase \in Kinds /\ ~Reading /\ InPlace /\ NextPlace
      /\ sections' = sections
      /\ phase' = "data" \/ phase' = "bss" \/ phase' = "apply"
      /\ phase = "code" => phase' = "data"
      /\ phase' # "code"
  <2>1. phase \in {"code", "data", "bss"} /\ sections' = sections
    BY DEF NextLoop, tables, Kinds
  <2>2. phase' = CASE phase = "code" -> "data" [] phase = "data" -> "bss" [] phase = "bss" -> "apply"
    BY <2>1 DEF NextLoop, Enter
  <2> QED
    BY <2>1, <2>2 DEF LayoutInv, Reading, Kinds
<1>1. /\ \A i \in DOMAIN sections :
           /\ End(i) \in Nat /\ sections[i].vaddr \in Nat /\ Kind(i)' = Kind(i) /\ End(i)' = End(i)
           /\ Placed(i)' <=> Placed(i)
           /\ Placed(i) => End(i) <= cursor
      /\ cursor \in Nat /\ cursor' \in Nat /\ cursor <= cursor'
      /\ Aligned(cursor) /\ cursor >= PAGE_SIZE /\ PAGE_SIZE \in Nat
  BY <1>0, Rows, PlacedGrows, CursorMoves, Numbers DEF Below, NextPlace, End
<1>2. InPlace'
  BY <1>0, <1>1 DEF InPlace, Before
<1>3. NextPlace'
  <2>1. Aligned(cursor')
    BY <1>1, CursorMoves, AlignedMultiples
  <2>2. cursor' >= PAGE_SIZE
    BY ONLY <1>1
  <2> QED
    BY <2>1, <2>2 DEF NextPlace, Aligned
<1>4. \E q \in Nat : Boundary(q)'
  <2>1. CASE phase = "code"
    <3>1. PICK q \in Nat : cursor' = q * PAGE_SIZE
      BY <2>1, CursorMoves
    <3>2. ASSUME NEW i \in DOMAIN sections
          PROVE  /\ Kind(i)' = "code" => End(i)' <= q * PAGE_SIZE
                 /\ ~(Kind(i)' # "code" /\ Placed(i)')
      <4>1. Kind(i) \in Kinds /\ i \in Nat /\ i >= 1
        BY Rows
      <4>2. ASSUME Kind(i) = "code"
            PROVE  End(i) <= cursor'
        <5>1. Placed(i)
          <6>1. Rank(Kind(i)) < Rank(phase')
            BY <1>0, <2>1, <4>2, Ranks
          <6>2. Placed(i)'
            BY <1>1, <6>1 DEF Placed
          <6> QED
            BY <1>1, <6>2
        <5>2. End(i) <= cursor
          BY <1>1, <5>1
        <5> QED
          BY ONLY <1>1, <5>2
      <4>3. ASSUME Kind(i) # "code", Placed(i)
            PROVE  FALSE
        BY <2>1, <4>1, <4>3, Ranks DEF Placed, Kinds
      <4> QED
        BY <1>1, <3>1, <4>2, <4>3
    <3>3. q * PAGE_SIZE <= cursor'
      BY <1>1, <3>1
    <3>4. Boundary(q)'
      BY <1>0, <3>2, <3>3 DEF Boundary
    <3> QED
      BY <3>4
  <2>2. CASE phase # "code"
    <3>1. PICK q \in Nat : Boundary(q)
      BY <1>0, <2>2 DEF LayoutInv
    <3>2. q * PAGE_SIZE <= cursor /\ q * PAGE_SIZE \in Nat
      BY <1>0, <1>1, <3>1 DEF Boundary
    <3>3. q * PAGE_SIZE <= cursor'
      BY ONLY <1>1, <3>2
    <3>4. Boundary(q)'
      BY <1>0, <1>1, <3>1, <3>3 DEF Boundary
    <3> QED
      BY <3>4
  <2> QED
    BY <2>1, <2>2
<1> QED
  BY <1>2, <1>3, <1>4 DEF LayoutInv

LEMMA LayoutStep ==
  ASSUME TypeInv, LayoutInv, [Next]_vars
  PROVE  LayoutInv'
<1> USE DEF TypeInv
<1>1. CASE Reading /\ Reading'
  BY <1>1 DEF LayoutInv
<1>2. CASE StartLayout
  <2>1. sections' = sections /\ phase' = "code" /\ cursor' = PAGE_SIZE
    BY <1>2 DEF StartLayout, Enter, tables
  <2>2. \A i \in DOMAIN sections : ~Placed(i)'
    BY <1>2, PlacedGrows
  <2>3. InPlace'
    BY <2>1, <2>2 DEF InPlace
  <2>4. NextPlace'
    BY <2>1, AlignedMultiples, Numbers DEF NextPlace, Aligned
  <2> QED
    BY <2>1, <2>3, <2>4 DEF LayoutInv
<1>3. CASE LaidOut /\ LaidOut' /\ UNCHANGED sections
  <2>1. /\ \A i \in DOMAIN sections : Placed(i)
        /\ ~Reading /\ phase \notin Kinds /\ phase' \notin Kinds /\ phase # "code"
    BY <1>3, AllPlaced DEF LaidOut, Reading, Kinds
  <2>2. InPlace /\ \E q \in Nat : Boundary(q)
    BY <2>1 DEF LayoutInv
  <2>3. InPlace'
    BY <1>3, <2>1, <2>2 DEF InPlace, Before, Kind, End, Aligned
  <2>4. \E q \in Nat : Boundary(q)'
    <3>1. PICK q \in Nat : Boundary(q)
      BY <2>2
    <3>2. Boundary(q)'
      BY <1>3, <2>1, <3>1 DEF Boundary, Kind, End
    <3> QED
      BY <3>2
  <2> QED
    BY <2>1, <2>3, <2>4 DEF LayoutInv, NextPlace
<1>4. CASE phase \in Kinds /\ UNCHANGED <<phase, sections, at, cursor>>
  BY <1>4 DEF LayoutInv, Reading, InPlace, NextPlace, Boundary, Placed, Before, End, Kind, Aligned
<1> QED
  BY <1>1, <1>2, <1>3, <1>4, LayoutPlace, LayoutLoop, LayoutMoves

LEMMA InLayout == Spec => []LayoutInv
<1>1. Init => LayoutInv
  BY DEF Init, LayoutInv, Reading
<1>2. TypeInv /\ LayoutInv /\ [Next]_vars => LayoutInv'
  BY LayoutStep
<1> QED
  BY <1>1, <1>2, Typed, PTL DEF Spec

\* layout_sections() gives every section an address of its own, aligned, and no page
\* holds both code and data or BSS, whatever the sections' sizes and their order.
THEOREM ApartCorrect == Spec => []Apart
<1>1. ASSUME TypeInv, LayoutInv, LaidOut, NEW i \in DOMAIN sections, NEW j \in DOMAIN sections
      PROVE  /\ sections[i].vaddr % SECTION_ALIGN = 0
             /\ i # j => Mapped(i) \cap Mapped(j) = {}
             /\ Kind(i) = "code" /\ Kind(j) # "code" =>
                  \A a \in Mapped(i), b \in Mapped(j) : a \div PAGE_SIZE < b \div PAGE_SIZE
  <2>1. Placed(i) /\ Placed(j)
    BY <1>1, AllPlaced DEF LaidOut
  <2>2. InPlace /\ \E q \in Nat : Boundary(q)
    BY <1>1 DEF LayoutInv, LaidOut, Reading
  <2>3. /\ i \in Nat /\ j \in Nat /\ Kind(i) \in Kinds /\ Kind(j) \in Kinds
        /\ sections[i].vaddr \in Nat /\ sections[j].vaddr \in Nat
        /\ sections[i].size \in Nat /\ sections[j].size \in Nat
    BY <1>1, Rows DEF TypeInv
  <2>4. sections[i].vaddr % SECTION_ALIGN = 0
    BY <2>1, <2>2 DEF InPlace, Aligned
  <2>5. ASSUME i # j
        PROVE  Mapped(i) \cap Mapped(j) = {}
    <3>1. Before(i, j) \/ Before(j, i)
      <4>1. Rank(Kind(i)) \in 1..3 /\ Rank(Kind(j)) \in 1..3
            /\ (Rank(Kind(i)) = Rank(Kind(j)) => Kind(i) = Kind(j))
        BY <2>3, Ranks DEF Kinds
      <4> QED
        BY <2>3, <2>5, <4>1 DEF Before
    <3>2. End(i) <= sections[j].vaddr \/ End(j) <= sections[i].vaddr
      BY <2>1, <2>2, <3>1 DEF InPlace
    <3> QED
      BY <2>3, <3>2 DEF Mapped, End
  <2>6. ASSUME Kind(i) = "code", Kind(j) # "code", NEW a \in Mapped(i), NEW b \in Mapped(j)
        PROVE  a \div PAGE_SIZE < b \div PAGE_SIZE
    <3>1. PICK q \in Nat : Boundary(q)
      BY <2>2
    <3>2. End(i) <= q * PAGE_SIZE /\ q * PAGE_SIZE <= sections[j].vaddr
      BY <2>1, <2>6, <3>1 DEF Boundary
    <3>3. a \in Nat /\ b \in Nat /\ a < End(i) /\ sections[j].vaddr <= b /\ End(i) \in Nat
      BY <2>3 DEF Mapped, End
    <3>4. PAGE_SIZE \in Nat \ {0} /\ q * PAGE_SIZE \in Nat
      BY Numbers
    <3>5. a < q * PAGE_SIZE /\ q * PAGE_SIZE <= b
      BY <2>3, <3>2, <3>3, <3>4
    <3> QED
      BY <3>3, <3>4, <3>5, PagesApart
  <2> QED
    BY <2>4, <2>5, <2>6
<1>2. TypeInv /\ LayoutInv => Apart
  BY <1>1 DEF Apart
<1> QED
  BY <1>2, Typed, InLayout, PTL

-----------------------------------------------------------------------------
(* Names: which entry of the linker's symbol table a relocation is given *)

\* One entry more in the symbol table of the file that is read.
Lists(x) ==
  /\ DOMAIN own' = DOMAIN own /\ nfile \in DOMAIN own
  /\ \A f \in DOMAIN own : f # nfile => own'[f] = own[f]
  /\ Len(own'[nfile]) = Len(own[nfile]) + 1 /\ Len(own[nfile]) \in Nat
  /\ DOMAIN own[nfile] = 1..Len(own[nfile]) /\ DOMAIN own'[nfile] = 1..(Len(own[nfile]) + 1)
  /\ \A j \in DOMAIN own[nfile] : own'[nfile][j] = own[nfile][j]
  /\ own'[nfile][Len(own[nfile]) + 1] = x
LEMMA EntryAdded ==
  ASSUME TypeInv, phase = "symbols", NEW x \in EntryType,
         own' = [own EXCEPT ![nfile] = Append(@, x)]
  PROVE  Lists(x)
<1> USE DEF TypeInv
<1>1. nfile \in DOMAIN own /\ own[nfile] \in Seq(EntryType)
  <2>1. nfile \in Nat /\ nfile >= 1 /\ Len(own) = nfile /\ own \in Seq(Seq(EntryType))
    BY DEF Control, Files
  <2>2. nfile \in DOMAIN own
    BY <2>1
  <2> QED
    BY <2>1, <2>2
<1> PICK s : s = own[nfile]
  OBVIOUS
<1> PICK r : r = Append(s, x)
  OBVIOUS
<1>2. /\ r \in Seq(EntryType) /\ Len(r) = Len(s) + 1 /\ Len(s) \in Nat
      /\ DOMAIN s = 1..Len(s) /\ DOMAIN r = 1..(Len(s) + 1)
      /\ \A j \in DOMAIN s : r[j] = s[j]
      /\ r[Len(s) + 1] = x
  BY <1>1
<1>3. /\ DOMAIN own' = DOMAIN own /\ own'[nfile] = r
      /\ \A f \in DOMAIN own : f # nfile => own'[f] = own[f]
  BY <1>1
<1> QED
  BY <1>1, <1>2, <1>3 DEF Lists

\* What the files' symbol tables say stays.
LEMMA EntriesStay ==
  ASSUME TypeInv, [Next]_vars
  PROVE  /\ DOMAIN own \subseteq DOMAIN own'
         /\ \A f \in DOMAIN own : /\ DOMAIN own[f] \subseteq DOMAIN own'[f]
                                  /\ \A j \in DOMAIN own[f] : own'[f][j] = own[f][j]
<1> USE DEF TypeInv
<1>1. CASE UNCHANGED own
  BY <1>1
<1>2. CASE OpenObject
  <2>1. own' = Append(own, <<Unnamed>>) /\ own \in Seq(Seq(EntryType))
    BY <1>2 DEF OpenObject, Files
  <2>2. DOMAIN own \subseteq DOMAIN own' /\ \A f \in DOMAIN own : own'[f] = own[f]
    BY <2>1
  <2> QED
    BY <2>2
<1>3. ASSUME NEW x, Lists(x)
      PROVE  /\ DOMAIN own \subseteq DOMAIN own'
             /\ \A f \in DOMAIN own : /\ DOMAIN own[f] \subseteq DOMAIN own'[f]
                                      /\ \A j \in DOMAIN own[f] : own'[f][j] = own[f][j]
  <2>1. DOMAIN own[nfile] \subseteq DOMAIN own'[nfile]
    BY <1>3 DEF Lists
  <2> QED
    BY <1>3, <2>1 DEF Lists
<1>4. CASE CollectLocal
  <2>1. phase = "symbols" /\ own' = [own EXCEPT ![nfile] = Append(@, Unnamed)]
    BY <1>4 DEF CollectLocal, MoreEntries, Running
  <2>2. Unnamed \in EntryType
    BY DEF Unnamed, Entry, EntryType
  <2>3. Lists(Unnamed)
    BY <2>1, <2>2, EntryAdded
  <2> QED
    BY <1>3, <2>3
<1>5. CASE CollectGlobal
  <2>1. PICK i, e : Enters(i, e)
    BY <1>5, GlobalEnters
  <2>2. phase = "symbols" /\ e \in EntryType /\ own' = [own EXCEPT ![nfile] = Append(@, e)]
    BY <1>5, <2>1, GlobalEnters DEF Enters, GlobalOf, Running
  <2>3. Lists(e)
    BY <2>2, EntryAdded
  <2> QED
    BY <1>3, <2>3
<1> QED
  BY <1>1, <1>2, <1>4, <1>5, Touched

\* Symbols keep their places and what they say, but for whether they are defined.
LEMMA SymbolsStay ==
  ASSUME TypeInv, [Next]_vars
  PROVE  /\ DOMAIN symbols \subseteq DOMAIN symbols'
         /\ \A i \in DOMAIN symbols : /\ symbols'[i].name = symbols[i].name
                                      /\ symbols'[i].section = symbols[i].section
                                      /\ symbols'[i].value = symbols[i].value
<1>1. CASE UNCHANGED symbols
  BY <1>1
<1>2. CASE CollectGlobal
  <2>1. PICK i, e : Enters(i, e)
    BY <1>2, GlobalEnters
  <2>2. /\ DOMAIN symbols' = DOMAIN symbols \cup {i} /\ symbols'[i].name = e.name
        /\ \A j \in DOMAIN symbols : j # i => symbols'[j] = symbols[j]
        /\ Known(i, e) \/ Added(i, e)
    BY <2>1 DEF Enters
  <2>3. i \in DOMAIN symbols => /\ symbols[i].name = e.name /\ symbols'[i].section = symbols[i].section
                                /\ symbols'[i].value = symbols[i].value
    <3>1. Len(symbols) + 1 \notin DOMAIN symbols
      BY DEF TypeInv, SymbolTable
    <3> QED
      BY <2>2, <3>1 DEF Known, Added
  <2> QED
    BY <2>2, <2>3
<1> QED
  BY <1>1, <1>2, Touched

Fresh == \A i, j \in DOMAIN symbols : symbols[i].name = symbols[j].name => i = j
LEMMA FreshStep ==
  ASSUME TypeInv, Fresh, [Next]_vars
  PROVE  Fresh'
<1>1. CASE UNCHANGED symbols
  BY <1>1 DEF Fresh
<1>2. CASE CollectGlobal
  <2>1. PICK i, e : Enters(i, e)
    BY <1>2, GlobalEnters
  <2>2. /\ DOMAIN symbols' = DOMAIN symbols \cup {i} /\ symbols'[i].name = e.name
        /\ \A j \in DOMAIN symbols : j # i => symbols'[j] = symbols[j]
        /\ Known(i, e) \/ Added(i, e)
    BY <2>1 DEF Enters
  <2>3. \A j \in DOMAIN symbols : j # i => symbols[j].name # e.name
    <3>1. CASE Known(i, e)
      BY <3>1 DEF Known, Fresh
    <3>2. CASE Added(i, e)
      BY <3>2 DEF Added, SymbolsNamed
    <3> QED
      BY <2>2, <3>1, <3>2
  <2> QED
    BY <2>2, <2>3 DEF Fresh
<1> QED
  BY <1>1, <1>2, Touched

\* In the first file's symbol table, which begins with the empty entry, a global symbol
\* comes behind its place in the linker's table.
FirstFile ==
  /\ nfile = 0 => symbols = <<>>
  /\ nfile = 1 => Len(symbols) < Len(own[1])
  /\ nfile >= 1 => \A j \in DOMAIN own[1] : own[1][j].name # "" =>
       \E i \in DOMAIN symbols : symbols[i].name = own[1][j].name /\ i < j
LEMMA FirstFileStep ==
  ASSUME TypeInv, FirstFile, [Next]_vars
  PROVE  FirstFile'
<1> USE DEF TypeInv
<1>0. /\ symbols \in Seq(SymbolEntry) /\ Len(symbols) \in Nat /\ DOMAIN symbols = 1..Len(symbols)
      /\ own \in Seq(Seq(EntryType)) /\ Len(own) = nfile /\ nfile \in Nat /\ DOMAIN own = 1..nfile
  BY DEF SymbolTable, Files, Control
<1>1. CASE UNCHANGED <<symbols, own>>
  <2>1. nfile' = nfile
    <3>1. Len(own') = nfile'
      BY FilesStep DEF Files
    <3> QED
      BY <1>0, <1>1, <3>1
  <2> QED
    BY <1>1, <2>1 DEF FirstFile
<1>2. CASE OpenObject
  <2>1. own' = Append(own, <<Unnamed>>) /\ nfile' = nfile + 1 /\ symbols' = symbols
    BY <1>2 DEF OpenObject, tables
  <2> PICK s : s = <<Unnamed>>
    OBVIOUS
  <2>2. Unnamed \in EntryType /\ Unnamed.name = ""
    BY DEF Unnamed, Entry, EntryType
  <2>3. s \in Seq(EntryType) /\ Len(s) = 1 /\ DOMAIN s = {1} /\ s[1].name = ""
    <3>1. s \in Seq(EntryType) /\ Len(s) = 1 /\ DOMAIN s = {1} /\ s[1] = Unnamed
      <4> PICK x \in EntryType : x = Unnamed
        BY <2>2
      <4>1. s = <<x>>
        OBVIOUS
      <4>2. s \in Seq(EntryType) /\ Len(s) = 1 /\ s[1] = x
        BY ONLY <4>1
      <4>3. DOMAIN s = {1}
        BY ONLY <4>2
      <4> QED
        BY <4>2, <4>3
    <3> QED
      BY <2>2, <3>1
  <2>4. own'[nfile + 1] = s /\ \A f \in DOMAIN own : own'[f] = own[f]
    <3> PICK u : u = own'
      OBVIOUS
    <3>1. u = Append(own, s)
      BY <2>1
    <3>3. own \in Seq(Seq(EntryType)) /\ s \in Seq(EntryType) /\ Len(own) = nfile
      BY <1>0, <2>3
    <3>4. u[Len(own) + 1] = s /\ \A f \in DOMAIN own : u[f] = own[f]
      BY ONLY <3>1, <3>3, Appended
    <3>2. u[nfile + 1] = s /\ \A f \in DOMAIN own : u[f] = own[f]
      BY ONLY <3>3, <3>4
    <3> QED
      BY <3>2
  <2>5. CASE nfile = 0
    <3>1. own'[1] = s /\ symbols' = <<>> /\ nfile' = 1
      BY <2>1, <2>4, <2>5 DEF FirstFile
    <3>2. \A j \in DOMAIN own'[1] : own'[1][j].name = ""
      BY <2>3, <3>1
    <3>3. Len(symbols') < Len(own'[1])
      <4>1. Len(symbols') = 0 /\ Len(own'[1]) = 1
        BY <2>3, <3>1
      <4> QED
        BY <4>1
    <3> QED
      BY <3>1, <3>2, <3>3 DEF FirstFile
  <2>6. CASE nfile # 0
    <3>1. nfile >= 1 /\ 1 \in DOMAIN own /\ nfile' # 0 /\ nfile' # 1
      BY <1>0, <2>1, <2>6
    <3>2. own'[1] = own[1]
      BY <2>4, <3>1
    <3> QED
      BY <2>1, <3>1, <3>2 DEF FirstFile
  <2> QED
    BY <2>5, <2>6
<1>3. CASE CollectLocal
  <2>1. /\ phase = "symbols" /\ own' = [own EXCEPT ![nfile] = Append(@, Unnamed)]
        /\ symbols' = symbols /\ nfile' = nfile
    BY <1>3 DEF CollectLocal, MoreEntries, Running, tables
  <2>2. Unnamed \in EntryType /\ Unnamed.name = ""
    BY DEF Unnamed, Entry, EntryType
  <2>3. Lists(Unnamed)
    BY <2>1, <2>2, EntryAdded
  <2>4. CASE nfile = 1
    <3>1. /\ Len(own'[1]) = Len(own[1]) + 1 /\ Len(own[1]) \in Nat
          /\ DOMAIN own[1] = 1..Len(own[1]) /\ DOMAIN own'[1] = 1..(Len(own[1]) + 1)
          /\ \A j \in DOMAIN own[1] : own'[1][j] = own[1][j]
          /\ own'[1][Len(own[1]) + 1] = Unnamed
      BY <2>3, <2>4 DEF Lists
    <3>0. Len(symbols') = Len(symbols) /\ Len(symbols) < Len(own[1])
      BY <2>1, <2>4 DEF FirstFile
    <3>2. Len(symbols') < Len(own'[1])
      BY ONLY <1>0, <3>0, <3>1
    <3>4. \A j \in DOMAIN own'[1] : j \in DOMAIN own[1] \/ j = Len(own[1]) + 1
      BY ONLY <3>1
    <3>3. \A j \in DOMAIN own'[1] : own'[1][j].name # "" => j \in DOMAIN own[1] /\ own'[1][j] = own[1][j]
      BY ONLY <2>2, <3>1, <3>4
    <3> QED
      BY <2>1, <2>4, <3>2, <3>3 DEF FirstFile
  <2>5. CASE nfile # 1
    <3>1. nfile >= 1 => own'[1] = own[1]
      <4>1. nfile >= 1 => 1 \in DOMAIN own
        BY <1>0
      <4> QED
        BY <2>3, <2>5, <4>1 DEF Lists
    <3> QED
      BY <2>1, <2>5, <3>1 DEF FirstFile
  <2> QED
    BY <2>4, <2>5
<1>4. CASE CollectGlobal
  <2>1. PICK i, e : Enters(i, e)
    BY <1>4, GlobalEnters
  <2>2. phase = "symbols" /\ e \in EntryType /\ own' = [own EXCEPT ![nfile] = Append(@, e)]
        /\ nfile' = nfile /\ nfile >= 1
    BY <1>4, <2>1, GlobalEnters DEF Enters, GlobalOf, Running, Control
  <2>3. Lists(e)
    BY <2>2, EntryAdded
  <2>4. /\ DOMAIN symbols' = DOMAIN symbols \cup {i} /\ symbols'[i].name = e.name
        /\ \A j \in DOMAIN symbols : symbols'[j].name = symbols[j].name
    BY <2>1, SymbolsStay DEF Enters
  <2>5. i \in Nat /\ i <= Len(symbols) + 1
        /\ (Len(symbols') = Len(symbols) \/ Len(symbols') = Len(symbols) + 1)
    <3>1. Known(i, e) \/ Added(i, e)
      BY <2>1 DEF Enters
    <3> QED
      BY <1>0, <3>1 DEF Known, Added
  <2>6. CASE nfile = 1
    <3>0. /\ Len(own'[1]) = Len(own[1]) + 1 /\ Len(own[1]) \in Nat
          /\ DOMAIN own[1] = 1..Len(own[1]) /\ DOMAIN own'[1] = 1..(Len(own[1]) + 1)
          /\ \A j \in DOMAIN own[1] : own'[1][j] = own[1][j]
          /\ own'[1][Len(own[1]) + 1] = e
      BY <2>3, <2>6 DEF Lists
    <3>1. Len(own'[1]) = Len(own[1]) + 1 /\ Len(own[1]) \in Nat /\ Len(symbols) < Len(own[1])
      BY <2>6, <3>0 DEF FirstFile
    <3>2. Len(symbols') < Len(own'[1])
      BY <1>0, <2>5, <3>1
    <3>3. \A j \in DOMAIN own[1] : own'[1][j].name # "" =>
            \E k \in DOMAIN symbols' : symbols'[k].name = own'[1][j].name /\ k < j
      <4>1. \A j \in DOMAIN own[1] : own[1][j].name # "" =>
              \E k \in DOMAIN symbols : symbols[k].name = own[1][j].name /\ k < j
        BY <2>2 DEF FirstFile
      <4> QED
        BY <2>4, <3>0, <4>1
    <3>4. i \in DOMAIN symbols' /\ i < Len(own[1]) + 1
      BY <1>0, <2>4, <2>5, <3>1
    <3>5. own'[1][Len(own[1]) + 1] = e
      BY <3>0
    <3>6. \A j \in DOMAIN own'[1] : j \in DOMAIN own[1] \/ j = Len(own[1]) + 1
      BY ONLY <3>0
    <3>7. \A j \in DOMAIN own'[1] : own'[1][j].name # "" =>
            \E k \in DOMAIN symbols' : symbols'[k].name = own'[1][j].name /\ k < j
      BY <2>4, <3>3, <3>4, <3>5, <3>6
    <3>8. nfile' = 1
      BY <2>2, <2>6
    <3> QED
      <4>1. ~(nfile' = 0)
        BY ONLY <3>8
      <4>2. \A j \in DOMAIN own'[1] : own'[1][j].name # "" =>
              \E k \in DOMAIN symbols' : symbols'[k].name = own'[1][j].name /\ k < j
        BY ONLY <3>7
      <4> QED
        BY ONLY <3>2, <4>1, <4>2 DEF FirstFile
  <2>7. CASE nfile # 1
    <3>1. own'[1] = own[1] /\ nfile # 0
      BY <1>0, <2>2, <2>3, <2>7 DEF Lists
    <3>2. \A j \in DOMAIN own[1] : own[1][j].name # "" =>
            \E k \in DOMAIN symbols' : symbols'[k].name = own[1][j].name /\ k < j
      BY <2>2, <2>4 DEF FirstFile
    <3> QED
      BY <2>2, <2>7, <3>1, <3>2 DEF FirstFile
  <2> QED
    BY <2>6, <2>7
<1> QED
  BY <1>1, <1>2, <1>3, <1>4, Touched

\* A part that was read stays as it is.
LEMMA PartsStay ==
  ASSUME TypeInv, [Next]_vars
  PROVE  /\ DOMAIN parts \subseteq DOMAIN parts'
         /\ \A n \in DOMAIN parts : parts'[n] = parts[n]
<1>1. CASE UNCHANGED parts
  BY <1>1
<1>2. CASE Collects
  <2>1. PICK i, h : Extends(i, h)
    BY <1>2, CollectExtends
  <2>2. \E p : parts' = Append(parts, p)
    BY <2>1 DEF Extends
  <2>3. parts \in Seq(PartType)
    BY DEF TypeInv, Parts
  <2> QED
    BY <2>2, <2>3
<1> QED
  BY <1>1, <1>2, Touched

\* a relocation names an entry of its file's symbol table
InFile == \A i \in DOMAIN relocs :
  /\ relocs[i].part \in DOMAIN parts /\ parts[relocs[i].part].file \in DOMAIN own
  /\ relocs[i].symbol + 1 \in DOMAIN own[parts[relocs[i].part].file]
LEMMA InFileStep ==
  ASSUME TypeInv, InFile, [Next]_vars
  PROVE  InFile'
<1>1. CASE UNCHANGED relocs
  BY <1>1, EntriesStay, PartsStay DEF InFile
<1>2. CASE CollectReloc
  <2>1. PICK r : Relocates(r)
    BY <1>2, RelocRelocates
  <2>2. /\ r.part \in DOMAIN parts /\ parts[r.part].file = nfile
        /\ r.symbol + 1 \in DOMAIN own[nfile] /\ relocs' = Append(relocs, r)
        /\ r \in Relocation /\ relocs \in Seq(Relocation)
    BY <2>1 DEF Relocates, Relocated, Here, Entries, TypeInv, RelocTable
  <2>3. \A i \in DOMAIN relocs' : (i \in DOMAIN relocs /\ relocs'[i] = relocs[i]) \/ relocs'[i] = r
    BY <2>2
  <2>4. own' = own /\ parts' = parts /\ nfile \in DOMAIN own
    <3>1. own' = own /\ parts' = parts /\ phase = "symbols"
      BY <1>2, RelocRelocates DEF history, Running
    <3>2. nfile \in Nat /\ nfile >= 1 /\ own \in Seq(Seq(EntryType)) /\ Len(own) = nfile
      BY <3>1 DEF TypeInv, Control, Files
    <3> QED
      BY <3>1, <3>2
  <2> QED
    BY <2>2, <2>3, <2>4 DEF InFile
<1> QED
  BY <1>1, <1>2, Touched
\* apply_relocations() goes through the relocations in order, and shifts their symbols
GivenType == [symbol : Nat, target : Nat, skipped : BOOLEAN]
Shifted(i) == IF relocs[i].symbol < Len(symbols) THEN relocs[i].symbol + 1 ELSE 0
InApplied ==
  /\ ~LaidOut => applied = <<>>
  /\ phase = "apply" => Len(applied) = at - 1
  /\ applied \in Seq(GivenType)
  /\ Len(applied) <= Len(relocs)
  /\ \A i \in DOMAIN applied : applied[i].symbol = Shifted(i)

LEMMA GivenIs ==
  ASSUME TypeInv, NEW i \in 0..Len(symbols)
  PROVE  Given(i) \in GivenType /\ Given(i).symbol = i
<1> USE DEF TypeInv
<1>1. symbols \in Seq(SymbolEntry) /\ Len(symbols) \in Nat /\ i \in Nat /\ i <= Len(symbols)
  BY DEF SymbolTable
<1> PICK target : target = IF i = 0 \/ symbols[i].section = 0 THEN 0
                           ELSE sections[symbols[i].section].vaddr + symbols[i].value
  OBVIOUS
<1>2. target \in Nat
  <2>1. CASE i = 0 \/ symbols[i].section = 0
    BY <2>1
  <2>2. CASE i # 0 /\ symbols[i].section # 0
    <3>1. i \in DOMAIN symbols
      BY <1>1, <2>2
    <3>2. symbols[i] \in SymbolEntry /\ symbols[i].section <= Len(sections)
      BY <1>1, <3>1 DEF SymbolTable
    <3>3. symbols[i].section \in Nat /\ symbols[i].value \in Nat
      BY <3>2 DEF SymbolEntry
    <3>4. symbols[i].section \in DOMAIN sections
      BY <2>2, <3>2, <3>3, Rows
    <3> PICK a \in Nat : a = sections[symbols[i].section].vaddr
      BY <3>4, Rows
    <3> PICK b \in Nat : b = symbols[i].value
      BY <3>3
    <3>5. target = a + b
      BY <2>2
    <3> QED
      BY <3>5
  <2> QED
    BY <2>1, <2>2
<1> PICK skipped \in BOOLEAN : skipped = (i # 0 /\ ~symbols[i].defined)
  OBVIOUS
<1>3. Given(i) = [symbol |-> i, target |-> target, skipped |-> skipped]
  BY DEF Given
<1> QED
  BY <1>1, <1>2, <1>3 DEF GivenType

LEMMA ApplyStep ==
  ASSUME TypeInv, InApplied, [Next]_vars
  PROVE  InApplied'
<1> USE DEF TypeInv
<1>0. /\ applied \in Seq(GivenType) /\ Len(applied) \in Nat /\ DOMAIN applied = 1..Len(applied)
      /\ relocs \in Seq(Relocation) /\ Len(relocs) \in Nat /\ at \in Nat
  BY DEF InApplied, RelocTable, Control
<1>1. CASE Apply
  <2>1. phase = "apply" /\ at <= Len(relocs) /\ at' = at + 1 /\ UNCHANGED <<phase, symbols, relocs>>
        /\ applied' = Append(applied, Given(IF relocs[at].symbol < Len(symbols) THEN relocs[at].symbol + 1 ELSE 0))
    BY <1>1 DEF Apply, Running, tables
  <2>2. Len(applied) = at - 1
    BY <2>1 DEF InApplied
  <2>3. at \in DOMAIN relocs
    BY <1>0, <2>1, <2>2
  <2>4. relocs[at].symbol \in Nat
    <3>1. relocs[at] \in Relocation
      BY <1>0, <2>3
    <3> QED
      BY <3>1 DEF Relocation
  <2>5. symbols \in Seq(SymbolEntry) /\ Len(symbols) \in Nat
    BY DEF SymbolTable
  <2>6. Shifted(at) \in 0..Len(symbols)
    BY <2>4, <2>5 DEF Shifted
  <2> PICK r : r = Given(Shifted(at))
    OBVIOUS
  <2>7. r \in GivenType /\ r.symbol = Shifted(at)
    BY <2>6, GivenIs
  <2> PICK u : u = applied'
    OBVIOUS
  <2>8. u = Append(applied, r)
    BY <2>1 DEF Shifted
  <2>9. /\ u \in Seq(GivenType) /\ Len(u) = Len(applied) + 1 /\ DOMAIN u = DOMAIN applied \cup {Len(applied) + 1}
        /\ u[Len(applied) + 1] = r /\ \A j \in DOMAIN applied : u[j] = applied[j]
    BY ONLY <1>0, <2>7, <2>8, Appended
  <2>10. Len(applied) + 1 = at
    BY ONLY <1>0, <2>2
  <2>11. \A i : Shifted(i)' = Shifted(i)
    BY <2>1 DEF Shifted
  <2>12. \A i \in DOMAIN u : u[i].symbol = Shifted(i)'
    <3>1. \A i \in DOMAIN applied : applied[i].symbol = Shifted(i)
      BY DEF InApplied
    <3> QED
      BY <2>7, <2>9, <2>10, <2>11, <3>1
  <2>13. Len(u) = at' - 1 /\ Len(u) <= Len(relocs)
    BY ONLY <1>0, <2>1, <2>9, <2>10
  <2>14. LaidOut'
    BY <2>1 DEF LaidOut
  <2> QED
    BY <2>1, <2>9, <2>12, <2>13, <2>14 DEF InApplied
<1>2. CASE UNCHANGED applied /\ ~Apply
  <2>1. CASE ~LaidOut
    <3>1. applied = <<>>
      BY <2>1 DEF InApplied
    <3>2. phase' = "apply" => at' = 1
      BY <2>1, LayoutMoves, PlacedRow DEF LaidOut, Reading, StartLayout, Enter, Kinds, NextLoop
    <3>3. Len(relocs') \in Nat
      <4>1. relocs' \in Seq(Relocation)
        BY RelocsStep DEF RelocTable
      <4> QED
        BY <4>1
    <3>4. applied' \in Seq(GivenType) /\ Len(applied') = 0 /\ DOMAIN applied' = {}
      BY <1>2, <3>1
    <3> QED
      BY <1>2, <3>1, <3>2, <3>3, <3>4 DEF InApplied
  <2>2. CASE LaidOut
    <3>1. UNCHANGED <<relocs, symbols>>
      BY <2>2, Touched, GlobalEnters, RelocRelocates DEF LaidOut, Running
    <3>2. LaidOut' /\ (phase' = "apply" => phase = "apply" /\ (at' = at \/ Apply))
      BY <2>2, Touched, PlacedRow DEF LaidOut, OpenObject, EndSections, EndObject, StartLayout, NextLoop,
         WriteHeader, WriteSection, Running, Enter, Kinds
    <3>3. ~Apply
      BY <1>2
    <3>4. \A i : Shifted(i)' = Shifted(i)
      BY <3>1 DEF Shifted
    <3> QED
      BY <1>2, <3>1, <3>2, <3>3, <3>4 DEF InApplied
  <2> QED
    BY <2>1, <2>2
<1> QED
  BY <1>1, <1>2, Touched

RelocInv == Fresh /\ FirstFile /\ InFile /\ InApplied
LEMMA InRelocs == Spec => []RelocInv
<1>1. Init => RelocInv
  <2> SUFFICES ASSUME Init PROVE RelocInv
    OBVIOUS
  <2>1. symbols = <<>> /\ relocs = <<>> /\ applied = <<>> /\ phase = "files" /\ nfile = 0
    BY DEF Init
  <2>2. Fresh /\ FirstFile /\ InFile
    BY <2>1 DEF Fresh, FirstFile, InFile
  <2>3. InApplied
    BY <2>1 DEF InApplied
  <2> QED
    BY <2>2, <2>3 DEF RelocInv
<1>2. TypeInv /\ RelocInv /\ [Next]_vars => RelocInv'
  BY FreshStep, FirstFileStep, InFileStep, ApplyStep DEF RelocInv
<1> QED
  BY <1>1, <1>2, Typed, PTL DEF Spec

\* apply_relocations() takes a relocation's symbol for an index into the linker's own
\* table: whatever the first file holds, none of its relocations against a global
\* symbol is given that symbol.
THEOREM FirstFileCorrect == Spec => []FirstFileMissed
<1>1. ASSUME TypeInv, RelocInv, NEW i \in DOMAIN applied, parts[relocs[i].part].file = 1,
             Wanted(relocs[i]).name # ""
      PROVE  applied[i].symbol \notin SymbolsNamed(Wanted(relocs[i]).name)
  <2> PICK n : n = relocs[i].symbol
    OBVIOUS
  <2>0. Wanted(relocs[i]) = own[1][n + 1]
    BY <1>1 DEF Wanted
  <2>1. i \in DOMAIN relocs
    <3>1. /\ applied \in Seq(GivenType) /\ relocs \in Seq(Relocation) /\ Len(applied) <= Len(relocs)
      BY <1>1 DEF RelocInv, InApplied, TypeInv, RelocTable
    <3> QED
      BY <3>1
  <2>2. n \in Nat /\ 1 \in DOMAIN own /\ n + 1 \in DOMAIN own[1]
    <3>0. relocs \in Seq(Relocation)
      BY <1>1 DEF TypeInv, RelocTable
    <3>1. relocs[i] \in Relocation
      BY ONLY <2>1, <3>0
    <3>2. n \in Nat
      BY <3>1 DEF Relocation
    <3> QED
      BY <1>1, <2>1, <3>2 DEF RelocInv, InFile
  <2>3. nfile >= 1
    <3>1. own \in Seq(Seq(EntryType)) /\ Len(own) = nfile
      BY <1>1 DEF TypeInv, Files
    <3>2. DOMAIN own = 1..nfile
      BY ONLY <3>1
    <3> QED
      BY <2>2, <3>2
  <2> PICK meant : meant = own[1][n + 1].name
    OBVIOUS
  <2>4. PICK k \in DOMAIN symbols : symbols[k].name = meant /\ k < n + 1
    BY <1>1, <2>0, <2>2, <2>3 DEF RelocInv, FirstFile
  <2>5. \A m \in SymbolsNamed(meant) : m = k
    BY <1>1, <2>4 DEF RelocInv, Fresh, SymbolsNamed
  <2>6. applied[i].symbol = n + 1 \/ applied[i].symbol = 0
    BY <1>1 DEF RelocInv, InApplied, Shifted
  <2>7. k \in Nat /\ k >= 1
    <3>1. symbols \in Seq(SymbolEntry)
      BY <1>1 DEF TypeInv, SymbolTable
    <3> QED
      BY <3>1
  <2>8. applied[i].symbol # k
    BY <2>2, <2>4, <2>6, <2>7
  <2> QED
    BY <1>1, <2>0, <2>5, <2>8
<1>2. TypeInv /\ RelocInv => FirstFileMissed
  BY <1>1 DEF FirstFileMissed
<1> QED
  BY <1>2, Typed, InRelocs, PTL

-----------------------------------------------------------------------------
(* The file: where write_executable() puts the sections *)

\* what is written, and the cursor, while the table is in the order of addresses so far
WrittenTo(k) == {i \in Written : i < k}
OrderedTo(k) == \A i, j \in Written : i < j /\ j < k => sections[i].vaddr < sections[j].vaddr
SegmentsHold ==
  /\ segments.code \in {PAGE_SIZE} \cup EndOf(CodeSections)
  /\ DataSections # {} => \E i \in DataSections : segments.from = sections[i].vaddr
  /\ segments.to \in {0} \cup EndOf(DataSections)
  /\ \A i \in DataSections : End(i) <= segments.to
WrittenSoFar ==
  /\ filepos \in Seq(Nat) /\ Len(filepos) = at - 1 /\ at <= Len(sections) + 1
  /\ cursor >= PAGE_SIZE /\ SegmentsHold
  /\ \A i \in WrittenTo(at) : filepos[i] + sections[i].size <= cursor
  /\ \A i, j \in WrittenTo(at) : i < j => filepos[i] + sections[i].size <= filepos[j]
  /\ OrderedTo(at) => /\ \A i \in WrittenTo(at) : filepos[i] = sections[i].vaddr
                      /\ cursor = PAGE_SIZE \/ \E i \in WrittenTo(at) : cursor = End(i)
FileInv ==
  /\ phase # "write" => filepos = <<>> /\ status # "done"
  /\ phase = "write" => WrittenSoFar
  /\ status = "done" => at = Len(sections) + 1

LEMMA WriteMoves ==
  ASSUME TypeInv, [Next]_vars
  PROVE  \/ phase # "write" /\ phase' # "write" /\ filepos' = filepos /\ (status' = "done" => status = "done")
         \/ WriteHeader
         \/ WriteSection
         \/ Finish
         \/ UNCHANGED vars
<1>1. CASE ReadObjects
  BY <1>1 DEF ReadObjects, OpenObject, CollectProgbits, CollectNobits, SectionOverrun, SymbolOverrun, RelocOverrun, Overruns, EndSections, CollectLocal,
     CollectGlobal, CollectReloc, EndObject, MoreSections, MoreEntries, Running, Enter, result
<1>2. CASE StartLayout \/ Place \/ Apply \/ CannotCreate
  BY <1>2 DEF StartLayout, Place, Apply, CannotCreate, Running, Enter, Kinds, result
<1>3. CASE NextLoop
  <2>1. phase \in {"code", "data", "bss"} /\ filepos' = filepos /\ status' = status
    BY <1>3 DEF NextLoop, Kinds, result
  <2>2. phase' = CASE phase = "code" -> "data" [] phase = "data" -> "bss" [] phase = "bss" -> "apply"
    BY <1>3, <2>1 DEF NextLoop, Enter
  <2> QED
    BY <2>1, <2>2
<1> QED
  BY <1>1, <1>2, <1>3 DEF Next, LayOut, WriteProgram, Stopped

\* In the layout, a section is above another or below it.
LEMMA UpOrDown ==
  ASSUME TypeInv, LayoutInv, LaidOut, NEW i \in DOMAIN sections, NEW j \in DOMAIN sections
  PROVE  /\ sections[i].vaddr >= PAGE_SIZE
         /\ Rank(Kind(i)) < Rank(Kind(j)) => End(i) <= sections[j].vaddr
         /\ i # j => End(i) <= sections[j].vaddr \/ End(j) <= sections[i].vaddr
<1> USE DEF TypeInv
<1>1. Placed(i) /\ Placed(j)
  BY AllPlaced DEF LaidOut
<1>2. InPlace
  BY DEF LayoutInv, LaidOut, Reading
<1>3. i \in Nat /\ j \in Nat /\ Kind(i) \in Kinds /\ Kind(j) \in Kinds
  BY Rows
<1>4. /\ Rank(Kind(i)) \in 1..3 /\ Rank(Kind(j)) \in 1..3
      /\ (Rank(Kind(i)) = Rank(Kind(j)) => Kind(i) = Kind(j))
  BY <1>3, Ranks DEF Kinds
<1>5. i # j => Before(i, j) \/ Before(j, i)
  BY <1>3, <1>4 DEF Before
<1> QED
  BY <1>1, <1>2, <1>5 DEF InPlace, Before

LEMMA WriteOne ==
  ASSUME TypeInv, LayoutInv, WrittenSoFar, WriteSection
  PROVE  WrittenSoFar'
<1> USE DEF TypeInv
<1>0. /\ phase = "write" /\ at <= Len(sections) /\ at' = at + 1 /\ sections' = sections
      /\ segments' = segments
  BY DEF WriteSection, Running, tables, header
<1>1. /\ at \in Nat /\ at >= 1 /\ cursor \in Nat /\ Len(sections) \in Nat /\ PAGE_SIZE \in Nat
      /\ at \in DOMAIN sections
      /\ sections[at].size \in Nat /\ sections[at].vaddr \in Nat /\ LaidOut
  <2>1. at \in Nat /\ at >= 1 /\ cursor \in Nat /\ Len(sections) \in Nat /\ at \in DOMAIN sections
    BY <1>0, Rows DEF Control
  <2> QED
    BY <1>0, <2>1, Rows, Numbers DEF LaidOut
<1>2. filepos \in Seq(Nat) /\ Len(filepos) = at - 1 /\ cursor >= PAGE_SIZE /\ SegmentsHold
  BY DEF WrittenSoFar
<1>3. Written' = Written /\ (SegmentsHold => SegmentsHold') /\ \A i : Kind(i)' = Kind(i) /\ End(i)' = End(i)
  BY <1>0 DEF Written, Kind, End, SegmentsHold, CodeSections, DataSections, EndOf
<1>4. \A i \in Written : /\ i \in DOMAIN sections /\ i \in Nat /\ i >= 1 /\ End(i) \in Nat
                         /\ sections[i].vaddr \in Nat /\ sections[i].size \in Nat
  BY Rows DEF Written
<1>5. \A i \in WrittenTo(at) : i \in DOMAIN filepos /\ filepos[i] \in Nat
  <2>1. \A i \in WrittenTo(at) : i \in Nat /\ i >= 1 /\ i <= Len(filepos)
    BY <1>1, <1>2, <1>4 DEF WrittenTo
  <2> QED
    BY <1>2, <2>1
<1>6. \A i : i \in WrittenTo(at') <=> i \in WrittenTo(at) \/ (i = at /\ at \in Written)
  BY <1>0, <1>1, <1>4 DEF WrittenTo
<1>7. WrittenTo(at)' = WrittenTo(at')
  BY <1>3 DEF WrittenTo
\* the new position: behind what is written, and at or above the address
<1>8. PICK pos \in Nat :
        /\ filepos' = Append(filepos, pos)
        /\ at \notin Written => cursor' = cursor
        /\ at \in Written => /\ cursor <= pos /\ cursor' = pos + sections[at].size
                             /\ cursor <= sections[at].vaddr => pos = sections[at].vaddr
  <2>1. CASE at \notin Written
    BY <2>1 DEF WriteSection
  <2>2. CASE at \in Written
    <3> PICK pos : pos = IF sections[at].vaddr > cursor THEN sections[at].vaddr ELSE cursor
      OBVIOUS
    <3>1. filepos' = Append(filepos, pos) /\ cursor' = pos + sections[at].size
      BY <2>2 DEF WriteSection
    <3>2. pos \in Nat /\ cursor <= pos /\ (cursor <= sections[at].vaddr => pos = sections[at].vaddr)
      BY <1>1
    <3> QED
      BY <2>2, <3>1, <3>2
  <2> QED
    BY <2>1, <2>2
<1>9. /\ filepos' \in Seq(Nat) /\ Len(filepos') = at /\ filepos'[at] = pos
      /\ \A i \in WrittenTo(at) : filepos'[i] = filepos[i]
  <2> PICK u : u = filepos'
    OBVIOUS
  <2>1. u = Append(filepos, pos)
    BY <1>8
  <2>2. /\ u \in Seq(Nat) /\ Len(u) = Len(filepos) + 1 /\ u[Len(filepos) + 1] = pos
        /\ \A j \in DOMAIN filepos : u[j] = filepos[j]
    BY ONLY <1>2, <2>1, Appended
  <2>3. Len(filepos) + 1 = at
    BY ONLY <1>1, <1>2
  <2> QED
    BY <1>5, <2>2, <2>3
<1>10. /\ cursor' \in Nat /\ cursor <= cursor'
       /\ at \in Written => pos + sections[at].size <= cursor'
  <2>1. CASE at \in Written
    <3>1. cursor' = pos + sections[at].size /\ cursor <= pos
      BY <1>8, <2>1
    <3> QED
      BY ONLY <1>1, <1>8, <3>1
  <2>2. CASE at \notin Written
    BY <1>1, <1>8, <2>2
  <2> QED
    BY <2>1, <2>2
<1>11. \A i \in WrittenTo(at') : filepos'[i] + sections[i].size <= cursor'
  <2>1. ASSUME NEW i \in WrittenTo(at)
        PROVE  filepos'[i] + sections[i].size <= cursor'
    <3>1. filepos'[i] + sections[i].size <= cursor /\ filepos'[i] \in Nat
      BY <1>5, <1>9 DEF WrittenSoFar
    <3>2. sections[i].size \in Nat
      BY <1>4 DEF WrittenTo
    <3> QED
      BY ONLY <1>1, <1>10, <3>1, <3>2
  <2> QED
    BY <1>6, <1>9, <1>10, <2>1
<1>12. ASSUME NEW i \in WrittenTo(at'), NEW j \in WrittenTo(at'), i < j
       PROVE  filepos'[i] + sections[i].size <= filepos'[j]
  <2>1. i \in Nat /\ j \in Nat /\ i < at' /\ j < at'
    BY <1>4 DEF WrittenTo
  <2>2. i \in WrittenTo(at)
    BY <1>0, <1>1, <1>6, <1>12, <2>1
  <2>3. CASE j \in WrittenTo(at)
    BY <1>9, <1>12, <2>2, <2>3 DEF WrittenSoFar
  <2>4. CASE j = at /\ at \in Written
    <3>1. filepos'[i] + sections[i].size <= cursor /\ filepos'[i] \in Nat
      BY <1>5, <1>9, <2>2 DEF WrittenSoFar
    <3>2. sections[i].size \in Nat /\ cursor <= pos
      BY <1>4, <1>8, <2>2, <2>4 DEF WrittenTo
    <3>3. filepos'[i] + sections[i].size <= pos
      <4>1. \A x, y, z \in Nat : x + y <= cursor /\ cursor <= z => x + y <= z
        BY <1>1
      <4>2. pos \in Nat
        OBVIOUS
      <4> QED
        BY ONLY <3>1, <3>2, <4>1, <4>2
    <3> QED
      BY <1>9, <2>4, <3>3
  <2> QED
    BY <1>6, <2>3, <2>4
<1>13. ASSUME OrderedTo(at')
       PROVE  /\ \A i \in WrittenTo(at') : filepos'[i] = sections[i].vaddr
              /\ cursor' = PAGE_SIZE \/ \E i \in WrittenTo(at') : cursor' = End(i)
  <2>1. OrderedTo(at)
    BY <1>0, <1>1, <1>4, <1>13 DEF OrderedTo
  <2>2. /\ \A i \in WrittenTo(at) : filepos[i] = sections[i].vaddr
        /\ cursor = PAGE_SIZE \/ \E i \in WrittenTo(at) : cursor = End(i)
    BY <2>1 DEF WrittenSoFar
  <2>3. CASE at \notin Written
    <3>1. cursor' = cursor
      BY <1>8, <2>3
    <3> QED
      BY <1>6, <1>9, <2>2, <2>3, <3>1
  <2>4. CASE at \in Written
    <3>1. cursor <= sections[at].vaddr
      <4>1. CASE cursor = PAGE_SIZE
        BY <1>1, <4>1, UpOrDown
      <4>2. CASE \E i \in WrittenTo(at) : cursor = End(i)
        <5>1. PICK i \in WrittenTo(at) : cursor = End(i)
          BY <4>2
        <5>2. i \in Written /\ i < at /\ at < at'
          BY <1>0, <1>1 DEF WrittenTo
        <5>3. sections[i].vaddr < sections[at].vaddr
          BY <1>13, <2>4, <5>2 DEF OrderedTo
        <5>4. i # at /\ i \in DOMAIN sections
          BY <1>1, <1>4, <5>2
        <5>5. End(i) <= sections[at].vaddr \/ End(at) <= sections[i].vaddr
          BY <1>1, <5>4, UpOrDown
        <5>6. ~(End(at) <= sections[i].vaddr)
          BY <1>1, <1>4, <5>2, <5>3 DEF End
        <5> QED
          BY <5>1, <5>5, <5>6
      <4> QED
        BY <2>2, <4>1, <4>2
    <3>2. pos = sections[at].vaddr /\ cursor' = End(at)
      BY <1>8, <2>4, <3>1 DEF End
    <3>3. at \in WrittenTo(at')
      BY <1>6, <2>4
    <3> QED
      BY <1>6, <1>9, <2>2, <3>2, <3>3
  <2> QED
    BY <2>3, <2>4
<1>14. /\ Len(filepos') = at' - 1 /\ at' <= Len(sections') + 1 /\ cursor' >= PAGE_SIZE
       /\ SegmentsHold'
  <2>1. Len(filepos') = at' - 1 /\ at' <= Len(sections') + 1
    BY <1>0, <1>1, <1>9
  <2>2. cursor' >= PAGE_SIZE
    BY ONLY <1>1, <1>2, <1>10
  <2>3. SegmentsHold'
    BY <1>0, <1>2, <1>3
  <2> QED
    BY <2>1, <2>2, <2>3
<1>15. OrderedTo(at)' => OrderedTo(at')
  BY <1>0, <1>3 DEF OrderedTo
<1>16. /\ \A i \in WrittenTo(at)' : filepos'[i] + sections'[i].size <= cursor'
       /\ \A i, j \in WrittenTo(at)' : i < j => filepos'[i] + sections'[i].size <= filepos'[j]
       /\ OrderedTo(at)' => /\ \A i \in WrittenTo(at)' : filepos'[i] = sections'[i].vaddr
                            /\ cursor' = PAGE_SIZE \/ \E i \in WrittenTo(at)' : cursor' = End(i)'
  BY <1>0, <1>3, <1>7, <1>11, <1>12, <1>13, <1>15
<1> QED
  BY <1>9, <1>14, <1>16 DEF WrittenSoFar

LEMMA FileStep ==
  ASSUME TypeInv, LayoutInv, FileInv, [Next]_vars
  PROVE  FileInv'
<1> USE DEF TypeInv
<1>1. CASE phase # "write" /\ phase' # "write" /\ filepos' = filepos /\ (status' = "done" => status = "done")
  BY <1>1 DEF FileInv
<1>2. CASE WriteHeader
  <2>1. /\ phase = "apply" /\ phase' = "write" /\ at' = 1 /\ cursor' = PAGE_SIZE
        /\ segments' = Segments /\ sections' = sections /\ filepos' = filepos /\ status' = "run"
    BY <1>2 DEF WriteHeader, Running, Enter, tables
  <2>2. filepos' = <<>>
    BY <2>1 DEF FileInv
  <2>3. WrittenTo(at)' = {} /\ SegmentsHold'
    <3>0. /\ Segments.code \in {PAGE_SIZE} \cup EndOf(CodeSections)
          /\ DataSections # {} => \E i \in DataSections : Segments.from = sections[i].vaddr
          /\ Segments.to \in {0} \cup EndOf(DataSections)
          /\ \A i \in DataSections : End(i) <= Segments.to
      BY <2>1, SegmentsFound
    <3>1. SegmentsHold'
      BY <2>1, <3>0 DEF SegmentsHold, CodeSections, DataSections, EndOf, Kind, End
    <3>2. \A i \in DOMAIN sections : ~(i < 1)
      BY Rows
    <3>3. WrittenTo(at)' = {}
      BY <2>1, <3>2 DEF WrittenTo, Written
    <3> QED
      BY <3>1, <3>3
  <2>4. filepos' \in Seq(Nat) /\ Len(filepos') = at' - 1
    BY <2>1, <2>2
  <2>5. at' <= Len(sections') + 1 /\ cursor' >= PAGE_SIZE
    <3>1. Len(sections) \in Nat /\ PAGE_SIZE \in Nat
      BY Rows, Numbers
    <3> QED
      BY <2>1, <3>1
  <2>6. WrittenSoFar'
    BY <2>1, <2>3, <2>4, <2>5 DEF WrittenSoFar
  <2> QED
    BY <2>1, <2>6 DEF FileInv
<1>3. CASE WriteSection
  <2>1. phase = "write" /\ phase' = phase /\ status' = "run" /\ WrittenSoFar
    BY <1>3 DEF WriteSection, Running, FileInv
  <2>2. WrittenSoFar'
    BY <1>3, <2>1, WriteOne
  <2> QED
    BY <2>1, <2>2 DEF FileInv
<1>4. CASE Finish
  <2>1. /\ phase = "write" /\ phase' = phase /\ at > Len(sections) /\ WrittenSoFar
        /\ UNCHANGED <<sections, at, cursor, filepos, segments>>
    BY <1>4 DEF Finish, Running, FileInv, tables, result, header
  <2>2. at = Len(sections) + 1
    <3>1. at \in Nat /\ Len(sections) \in Nat /\ at <= Len(sections) + 1
      BY <2>1, Rows DEF Control, WrittenSoFar
    <3> QED
      BY <2>1, <3>1
  <2>3. WrittenSoFar'
    BY <2>1 DEF WrittenSoFar, WrittenTo, OrderedTo, Written, Kind, End, SegmentsHold, CodeSections, DataSections, EndOf
  <2> QED
    BY <2>1, <2>2, <2>3 DEF FileInv
<1>5. CASE UNCHANGED vars
  BY <1>5 DEF vars, tables, result, header, FileInv, WrittenSoFar, WrittenTo, OrderedTo, Written, Kind, End,
     SegmentsHold, CodeSections, DataSections, EndOf
<1> QED
  BY <1>1, <1>2, <1>3, <1>4, <1>5, WriteMoves

LEMMA InFileOrder == Spec => []FileInv
<1>1. Init => FileInv
  BY DEF Init, FileInv
<1>2. TypeInv /\ LayoutInv /\ FileInv /\ [Next]_vars => FileInv'
  BY FileStep
<1> QED
  BY <1>1, <1>2, Typed, InLayout, PTL DEF Spec

\* write_executable() can only pad forward: at the end, the sections lie at their
\* addresses exactly when the table is in the order of addresses; then the file ends with
\* the last section, the data segment reaches past it only for the BSS, and the code
\* segment ends below the data segment.
THEOREM FileCorrect == Spec => []WrittenAtAddress
<1>1. ASSUME TypeInv, LayoutInv, FileInv, status = "done"
      PROVE  /\ InOrder <=> \A i \in Written : filepos[i] = sections[i].vaddr
             /\ InOrder => cursor = Max({PAGE_SIZE} \cup EndOf(Written))
             /\ InOrder => (cursor >= segments.to <=> DataSections \subseteq Written)
             /\ segments.code <= segments.from \/ DataSections = {}
  <2> USE <1>1 DEF TypeInv
  <2>0. phase = "write" /\ LaidOut /\ WrittenSoFar /\ at = Len(sections) + 1
    BY DEF FileInv, LaidOut
  <2>1. \A i \in DOMAIN sections :
          /\ i \in Nat /\ i < at /\ End(i) \in Nat /\ sections[i].vaddr \in Nat /\ sections[i].size \in Nat
          /\ sections[i].vaddr <= End(i) /\ (sections[i].size > 0 => sections[i].vaddr < End(i))
    <3>1. \A i \in DOMAIN sections :
            /\ i \in Nat /\ End(i) \in Nat /\ sections[i].vaddr \in Nat /\ sections[i].size \in Nat
            /\ i < at
      BY <2>0, Rows
    <3> QED
      BY <3>1 DEF End
  <2>2. WrittenTo(at) = Written /\ \A i \in Written : i \in DOMAIN sections /\ sections[i].size > 0
    BY <2>1 DEF WrittenTo, Written
  <2>3. InOrder <=> OrderedTo(at)
    BY <2>1, <2>2 DEF InOrder, OrderedTo
  <2>4. cursor \in Nat /\ PAGE_SIZE \in Nat /\ cursor >= PAGE_SIZE
    BY <2>0, Numbers DEF WrittenSoFar, Control
  <2>5. \A i \in Written : filepos[i] + sections[i].size <= cursor
    BY <2>0, <2>2 DEF WrittenSoFar
  <2>6. ASSUME \A i \in Written : filepos[i] = sections[i].vaddr
        PROVE  InOrder
    <3> SUFFICES ASSUME NEW i \in Written, NEW j \in Written, i < j
                 PROVE  sections[i].vaddr < sections[j].vaddr
      BY DEF InOrder
    <3>1. filepos[i] + sections[i].size <= filepos[j]
      BY <2>0, <2>2 DEF WrittenSoFar
    <3>2. End(i) <= sections[j].vaddr
      BY <2>6, <3>1 DEF End
    <3> QED
      BY <2>1, <2>2, <3>2
  <2>7. ASSUME InOrder
        PROVE  /\ \A i \in Written : filepos[i] = sections[i].vaddr
               /\ cursor = PAGE_SIZE \/ \E i \in Written : cursor = End(i)
               /\ \A i \in Written : End(i) <= cursor
    <3>1. /\ \A i \in Written : filepos[i] = sections[i].vaddr
          /\ cursor = PAGE_SIZE \/ \E i \in Written : cursor = End(i)
      BY <2>0, <2>2, <2>3, <2>7 DEF WrittenSoFar
    <3> QED
      BY <2>5, <3>1 DEF End
  <2>8. ASSUME InOrder
        PROVE  cursor = Max({PAGE_SIZE} \cup EndOf(Written))
    <3>1. Written \in SUBSET DOMAIN sections
      BY DEF Written
    <3> PICK m : m = Max({PAGE_SIZE} \cup EndOf(Written))
      OBVIOUS
    <3>2. /\ m \in {PAGE_SIZE} \cup EndOf(Written) /\ m \in Nat /\ PAGE_SIZE <= m
          /\ \A i \in Written : End(i) <= m
      BY <2>4, <2>7, <2>8, <3>1, LastEnd
    <3>3. cursor <= m
      BY <2>7, <2>8, <3>2
    <3>4. m <= cursor
      BY <2>4, <2>7, <2>8, <3>2 DEF EndOf, End
    <3> QED
      BY <2>4, <3>2, <3>3, <3>4
  <2>9. SegmentsHold /\ CodeSections \subseteq DOMAIN sections /\ DataSections \subseteq DOMAIN sections
    BY <2>0 DEF WrittenSoFar, CodeSections, DataSections
  <2>10. segments.code <= segments.from \/ DataSections = {}
    <3> SUFFICES ASSUME DataSections # {} PROVE segments.code <= segments.from
      OBVIOUS
    <3>1. PICK j \in DataSections : segments.from = sections[j].vaddr
      BY <2>9 DEF SegmentsHold
    <3>2. CASE segments.code = PAGE_SIZE
      BY <2>0, <2>1, <2>4, <2>9, <3>1, <3>2, UpOrDown
    <3>3. CASE \E i \in CodeSections : segments.code = End(i)
      <4>1. PICK i \in CodeSections : segments.code = End(i)
        BY <3>3
      <4>2. Kind(i) = "code" /\ Kind(j) # "code" /\ Kind(j) \in Kinds
        BY <2>9, Rows DEF CodeSections, DataSections
      <4>3. Rank(Kind(i)) < Rank(Kind(j))
        BY <4>2, Ranks DEF Kinds
      <4> QED
        BY <2>0, <2>9, <3>1, <4>1, <4>3, UpOrDown
    <3> QED
      BY <2>9, <3>2, <3>3 DEF SegmentsHold, EndOf, End
  <2>11. ASSUME InOrder
         PROVE  cursor >= segments.to <=> DataSections \subseteq Written
    <3>1. ASSUME DataSections \subseteq Written
          PROVE  cursor >= segments.to
      <4>1. segments.to = 0 \/ \E i \in DataSections : segments.to = End(i)
        BY <2>9 DEF SegmentsHold, EndOf, End
      <4> QED
        BY <2>4, <2>7, <2>11, <3>1, <4>1
    <3>2. ASSUME ~(DataSections \subseteq Written)
          PROVE  ~(cursor >= segments.to)
      <4>2. PICK b \in DataSections : b \notin Written
        BY <3>2
      <4>1. b \in DOMAIN sections /\ Kind(b) = "bss" /\ sections[b].size > 0
        BY <4>2 DEF DataSections, Written
      <4>3. End(b) <= segments.to /\ segments.to \in Nat
        BY <2>9, <4>2 DEF SegmentsHold, HeaderTypes
      <4>4. cursor <= sections[b].vaddr
        <5>1. CASE cursor = PAGE_SIZE
          BY <2>0, <2>1, <2>4, <4>1, <5>1, UpOrDown
        <5>2. ASSUME NEW i \in Written, cursor = End(i)
              PROVE  cursor <= sections[b].vaddr
          <6>1. Kind(i) \in Kinds /\ Kind(i) # "bss" /\ i \in DOMAIN sections
            BY Rows DEF Written
          <6>2. Rank(Kind(i)) < Rank(Kind(b))
            BY <4>1, <6>1, Ranks DEF Kinds
          <6> QED
            BY <2>0, <4>1, <5>2, <6>1, <6>2, UpOrDown
        <5> QED
          BY <2>7, <2>11, <5>1, <5>2
      <4> QED
        BY <2>1, <2>4, <4>1, <4>3, <4>4
    <3> QED
      BY <3>1, <3>2
  <2> QED
    BY <2>6, <2>7, <2>8, <2>10, <2>11
<1>2. TypeInv /\ LayoutInv /\ FileInv => WrittenAtAddress
  BY <1>1 DEF WrittenAtAddress
<1> QED
  BY <1>2, Typed, InLayout, InFileOrder, PTL

-----------------------------------------------------------------------------
(* Mentions: what the files say of a name, and what the linker makes of it *)

\* the j-th entry of file f's symbol table has the name
Says(f, j, name) == f \in DOMAIN own /\ j \in DOMAIN own[f] /\ own[f][j].name = name
FirstSays(f, j, name) ==
  Says(f, j, name) /\ \A g, k : Says(g, k, name) => (g = f /\ k = j) \/ f < g
Kept(i) == \E f, j : /\ FirstSays(f, j, symbols[i].name)
                     /\ symbols[i].section = own[f][j].section
                     /\ symbols[i].value = own[f][j].value
SaysWhere(name) == \E f, j : Says(f, j, name) /\ own[f][j].section # 0
EntryPoint == IF IsDefined("_start") THEN EntryOf("_start")
              ELSE IF IsDefined("main") THEN EntryOf("main") ELSE PAGE_SIZE
Recorded(i) == Kept(i) /\ (symbols[i].defined <=> SaysWhere(symbols[i].name))
NamesInv ==
  /\ \A f, j, name : name # "" /\ Says(f, j, name) => SymbolsNamed(name) # {}
  /\ \A i \in DOMAIN symbols : Recorded(i)
  /\ phase = "write" => entry = EntryPoint

LEMMA NamesAre ==
  ASSUME TypeInv
  PROVE  /\ \A i \in DOMAIN symbols : symbols[i].name \in Globals /\ symbols[i].name # ""
         /\ \A i \in DOMAIN symbols : symbols[i].defined \in BOOLEAN /\ symbols[i].section \in Nat
         /\ symbols \in Seq(SymbolEntry) /\ Len(symbols) \in Nat /\ DOMAIN symbols = 1..Len(symbols)
<1>1. symbols \in Seq(SymbolEntry)
  BY DEF TypeInv, SymbolTable
<1>2. \A i \in DOMAIN symbols : symbols[i] \in SymbolEntry
  BY <1>1
<1>3. \A x \in SymbolEntry : x.name \in Globals /\ x.defined \in BOOLEAN /\ x.section \in Nat
  BY DEF SymbolEntry
<1>4. Len(symbols) \in Nat /\ DOMAIN symbols = 1..Len(symbols)
  BY ONLY <1>1
<1>5. \A i \in DOMAIN symbols : /\ symbols[i].name \in Globals /\ symbols[i].name # ""
                              /\ symbols[i].defined \in BOOLEAN /\ symbols[i].section \in Nat
  BY <1>2, <1>3, NamesAssumption
<1> QED
  BY ONLY <1>1, <1>4, <1>5

\* Nothing is said of a name by an entry that is empty, and one thing by another.
LEMMA SaysMore ==
  ASSUME TypeInv, [Next]_vars
  PROVE  \/ CollectGlobal
         \/ \A f, j, name : name # "" =>
              /\ Says(f, j, name)' <=> Says(f, j, name)
              /\ Says(f, j, name) => own'[f][j] = own[f][j]
<1> USE DEF TypeInv
<1>0. Unnamed \in EntryType /\ Unnamed.name = ""
  BY DEF Unnamed, Entry, EntryType
<1>1. CASE UNCHANGED own
  BY <1>1 DEF Says
<1>2. CASE OpenObject
  <2>1. own' = Append(own, <<Unnamed>>) /\ own \in Seq(Seq(EntryType))
    BY <1>2 DEF OpenObject, Files
  <2> PICK x \in EntryType : x = Unnamed
    BY <1>0
  <2> PICK s : s = <<x>>
    OBVIOUS
  <2>2. s \in Seq(EntryType) /\ DOMAIN s = {1} /\ s[1] = x
    OBVIOUS
  <2> PICK u : u = own'
    OBVIOUS
  <2>3. u = Append(own, s)
    BY <2>1
  <2>4. /\ DOMAIN u = DOMAIN own \cup {Len(own) + 1} /\ DOMAIN own = 1..Len(own) /\ Len(own) \in Nat
        /\ u[Len(own) + 1] = s /\ \A f \in DOMAIN own : u[f] = own[f]
    BY ONLY <2>1, <2>2, <2>3, Appended
  <2>5. \A f \in DOMAIN own : f # Len(own) + 1
    BY <2>4
  <2> QED
    BY <1>0, <2>2, <2>4, <2>5 DEF Says
<1>3. CASE CollectLocal
  <2>1. phase = "symbols" /\ own' = [own EXCEPT ![nfile] = Append(@, Unnamed)]
    BY <1>3 DEF CollectLocal, MoreEntries, Running
  <2>2. Lists(Unnamed)
    BY <1>0, <2>1, EntryAdded
  <2> PICK n \in Nat : n = Len(own[nfile])
    BY <2>2 DEF Lists
  <2>3. DOMAIN own'[nfile] = DOMAIN own[nfile] \cup {n + 1} /\ n + 1 \notin DOMAIN own[nfile]
    BY <2>2 DEF Lists
  <2> QED
    BY <1>0, <2>2, <2>3 DEF Lists, Says
<1> QED
  BY <1>1, <1>2, <1>3, Touched

LEMMA GlobalSays ==
  ASSUME TypeInv, CollectGlobal
  PROVE  \E i, e, last :
           /\ Enters(i, e) /\ last \in Nat /\ nfile \in DOMAIN own /\ e.name # ""
           /\ \A f, j, name : Says(f, j, name)' <=>
                Says(f, j, name) \/ (f = nfile /\ j = last /\ name = e.name)
           /\ \A f, j, name : Says(f, j, name) => own'[f][j] = own[f][j]
           /\ own'[nfile][last] = e
           /\ \A j : ~Says(nfile, j, e.name)
<1> USE DEF TypeInv
<1>1. PICK i, e : Enters(i, e)
  BY GlobalEnters
<1>2. phase = "symbols" /\ e \in EntryType /\ own' = [own EXCEPT ![nfile] = Append(@, e)]
  BY <1>1, GlobalEnters DEF Enters, GlobalOf, Running
<1>3. Lists(e)
  BY <1>2, EntryAdded
<1>4. e.name # "" /\ \A j \in DOMAIN own[nfile] : own[nfile][j].name # e.name
  BY <1>1, NamesAssumption DEF Enters, GlobalOf, Entries
<1> PICK n \in Nat : n = Len(own[nfile])
  BY <1>3 DEF Lists
<1>5. /\ DOMAIN own'[nfile] = DOMAIN own[nfile] \cup {n + 1} /\ n + 1 \notin DOMAIN own[nfile]
      /\ own'[nfile][n + 1] = e /\ n + 1 \in Nat /\ nfile \in DOMAIN own /\ DOMAIN own' = DOMAIN own
      /\ \A f \in DOMAIN own : f # nfile => own'[f] = own[f]
      /\ \A j \in DOMAIN own[nfile] : own'[nfile][j] = own[nfile][j]
  BY <1>3 DEF Lists
<1>6. \A f, j, name : Says(f, j, name)' <=> Says(f, j, name) \/ (f = nfile /\ j = n + 1 /\ name = e.name)
  <2>1. ASSUME NEW f, NEW j, NEW name, f = nfile
        PROVE  Says(f, j, name)' <=> Says(f, j, name) \/ (f = nfile /\ j = n + 1 /\ name = e.name)
    BY <1>5, <2>1 DEF Says
  <2>2. ASSUME NEW f, NEW j, NEW name, f # nfile
        PROVE  Says(f, j, name)' <=> Says(f, j, name)
    BY <1>5, <2>2 DEF Says
  <2> QED
    BY <2>1, <2>2
<1>7. \A f, j, name : Says(f, j, name) => own'[f][j] = own[f][j]
  BY <1>5 DEF Says
<1>8. \A j : ~Says(nfile, j, e.name)
  BY <1>4 DEF Says
<1> QED
  BY <1>1, <1>4, <1>5, <1>6, <1>7, <1>8

LEMMA NamesGlobal ==
  ASSUME TypeInv, Fresh, NamesInv, CollectGlobal
  PROVE  /\ \A f, j, name : name # "" /\ Says(f, j, name)' => SymbolsNamed(name)' # {}
         /\ \A i \in DOMAIN symbols' : Recorded(i)'
<1>1. PICK i, e, last :
        /\ Enters(i, e) /\ last \in Nat /\ nfile \in DOMAIN own /\ e.name # ""
        /\ \A f, j, name : Says(f, j, name)' <=>
             Says(f, j, name) \/ (f = nfile /\ j = last /\ name = e.name)
        /\ \A f, j, name : Says(f, j, name) => own'[f][j] = own[f][j]
        /\ own'[nfile][last] = e
        /\ \A j : ~Says(nfile, j, e.name)
  BY GlobalSays
<1>2. /\ DOMAIN symbols' = DOMAIN symbols \cup {i} /\ symbols'[i].name = e.name
      /\ \A j \in DOMAIN symbols : j # i => symbols'[j] = symbols[j]
      /\ Known(i, e) \/ Added(i, e)
  BY <1>1 DEF Enters
<1>3. \A j \in DOMAIN symbols : symbols'[j].name = symbols[j].name
  <2>1. i \in DOMAIN symbols => symbols[i].name = e.name
    <3>1. DOMAIN symbols = 1..Len(symbols) /\ Len(symbols) \in Nat
      BY NamesAre
    <3>2. Len(symbols) + 1 \notin DOMAIN symbols
      BY ONLY <3>1
    <3> QED
      BY <1>2, <3>2 DEF Known, Added
  <2> QED
    BY <1>2, <2>1
<1>4. ASSUME NEW f, NEW j, NEW name, name # "", Says(f, j, name)'
      PROVE  SymbolsNamed(name)' # {}
  <2>1. CASE Says(f, j, name)
    <3>1. PICK k \in DOMAIN symbols : symbols[k].name = name
      BY <1>4, <2>1 DEF NamesInv, SymbolsNamed
    <3> QED
      BY <1>2, <1>3, <3>1 DEF SymbolsNamed
  <2>2. CASE name = e.name
    BY <1>2, <2>2 DEF SymbolsNamed
  <2> QED
    BY <1>1, <1>4, <2>1, <2>2
\* a symbol of another name: nothing is said of it
<1>5. ASSUME NEW k \in DOMAIN symbols, k # i, symbols[k].name # e.name
      PROVE  Recorded(k)'
  <2>1. symbols'[k] = symbols[k]
    BY <1>2, <1>5
  <2> PICK name : name = symbols[k].name
    OBVIOUS
  <2>2. \A f, j : Says(f, j, name)' <=> Says(f, j, name)
    BY <1>1, <1>5
  <2>3. \A f, j : Says(f, j, name) => own'[f][j] = own[f][j]
    BY <1>1
  <2>4. PICK f, j : FirstSays(f, j, name) /\ symbols[k].section = own[f][j].section
                    /\ symbols[k].value = own[f][j].value
    BY DEF NamesInv, Recorded, Kept
  <2>5. FirstSays(f, j, name)' /\ own'[f][j] = own[f][j]
    BY <2>2, <2>3, <2>4 DEF FirstSays
  <2>6. Kept(k)'
    BY <2>1, <2>4, <2>5 DEF Kept
  <2>7. SaysWhere(name)' <=> SaysWhere(name)
    BY <2>2, <2>3 DEF SaysWhere
  <2>8. symbols[k].defined <=> SaysWhere(name)
    BY DEF NamesInv, Recorded
  <2>9. symbols'[k].name = name /\ (symbols'[k].defined <=> SaysWhere(name)')
    BY <2>1, <2>7, <2>8
  <2> QED
    BY <2>6, <2>9 DEF Recorded
\* the symbol of this name
<1>6. Recorded(i)'
  <2> PICK name : name = e.name
    OBVIOUS
  <2>0. symbols'[i].name = name
    BY <1>2
  <2>1. CASE Known(i, e)
    <3>1. i \in DOMAIN symbols /\ symbols[i].name = name /\ symbols'[i].section = symbols[i].section
          /\ symbols'[i].value = symbols[i].value
      BY <2>1 DEF Known
    <3>2. PICK f, j : FirstSays(f, j, name) /\ symbols[i].section = own[f][j].section
                      /\ symbols[i].value = own[f][j].value
      BY <3>1, ZenonT(40) DEF NamesInv, Recorded, Kept
    <3>3. Says(f, j, name)' /\ own'[f][j] = own[f][j] /\ f # nfile /\ f \in DOMAIN own
      <4>1. Says(f, j, name)
        BY <3>2 DEF FirstSays
      <4>2. Says(f, j, name)' /\ own'[f][j] = own[f][j]
        BY <1>1, <4>1
      <4>3. f # nfile
        BY <1>1, <4>1
      <4>4. f \in DOMAIN own
        BY <4>1 DEF Says
      <4> QED
        BY <4>2, <4>3, <4>4
    <3>4. f < nfile
      <4>1. own \in Seq(Seq(EntryType)) /\ Len(own) = nfile /\ nfile \in Nat
        BY DEF TypeInv, Files, Control
      <4> QED
        BY <3>3, <4>1
    <3>5. FirstSays(f, j, name)'
      <4> SUFFICES ASSUME NEW g, NEW k, Says(g, k, name)'
                   PROVE  (g = f /\ k = j) \/ f < g
        BY <3>3 DEF FirstSays
      <4>1. Says(g, k, name) \/ g = nfile
        BY <1>1
      <4> QED
        BY <3>2, <3>4, <4>1 DEF FirstSays
    <3>6. Kept(i)'
      BY <2>0, <3>1, <3>2, <3>3, <3>5 DEF Kept
    <3>7. SaysWhere(name)' <=> SaysWhere(name) \/ e.section # 0
      <4>1. ASSUME SaysWhere(name) PROVE SaysWhere(name)'
        <5>1. PICK g, k : Says(g, k, name) /\ own[g][k].section # 0
          BY <4>1 DEF SaysWhere
        <5> QED
          BY <1>1, <5>1, ZenonT(40) DEF SaysWhere
      <4>2. ASSUME e.section # 0 PROVE SaysWhere(name)'
        <5> PICK g : g = nfile
          OBVIOUS
        <5>2. Says(g, last, name)' /\ own'[g][last].section # 0
          BY <1>1, <4>2
        <5> QED
          BY <5>2 DEF SaysWhere
      <4>3. ASSUME SaysWhere(name)' PROVE SaysWhere(name) \/ e.section # 0
        <5>1. PICK g, k : Says(g, k, name)' /\ own'[g][k].section # 0
          BY <4>3 DEF SaysWhere
        <5>2. CASE Says(g, k, name)
          <6>1. own[g][k].section # 0
            BY <1>1, <5>1, <5>2
          <6> QED
            BY <5>2, <6>1 DEF SaysWhere
        <5>3. CASE g = nfile /\ k = last
          <6>1. own'[g][k] = e
            BY <1>1, <5>3
          <6> QED
            BY <5>1, <6>1
        <5> QED
          BY <1>1, <5>1, <5>2, <5>3
      <4> QED
        BY <4>1, <4>2, <4>3
    <3>8. symbols[i].defined <=> SaysWhere(name)
      BY <3>1 DEF NamesInv, Recorded
    <3>9. symbols'[i].defined <=> symbols[i].defined \/ e.section # 0
      BY <2>1 DEF Known, Marks
    <3> QED
      BY <2>0, <3>6, <3>7, <3>8, <3>9 DEF Recorded
  <2>2. CASE Added(i, e)
    <3>1. SymbolsNamed(name) = {} /\ symbols'[i].section = e.section /\ symbols'[i].value = e.value
      BY <2>2 DEF Added
    <3>2. \A g, k : ~Says(g, k, name)
      BY <1>1, <3>1 DEF NamesInv
    <3>3. \A g, k : Says(g, k, name)' <=> g = nfile /\ k = last
      BY <1>1, <3>2
    <3> PICK f : f = nfile
      OBVIOUS
    <3>4. FirstSays(f, last, name)' /\ own'[f][last] = e
      BY <1>1, <3>3, ZenonT(40) DEF FirstSays
    <3>5. Kept(i)'
      BY <2>0, <3>1, <3>4 DEF Kept
    <3>6. SaysWhere(name)' <=> e.section # 0
      BY <3>3, <3>4 DEF SaysWhere
    <3>7. symbols'[i].defined <=> e.section # 0
      BY <2>2 DEF Added, Marks
    <3> QED
      BY <2>0, <3>5, <3>6, <3>7 DEF Recorded
  <2> QED
    BY <1>2, <2>1, <2>2
<1>7. \A k \in DOMAIN symbols : k # i => symbols[k].name # e.name
  <2>1. CASE Known(i, e)
    BY <2>1 DEF Known, Fresh
  <2>2. CASE Added(i, e)
    BY <2>2 DEF Added, SymbolsNamed
  <2> QED
    BY <1>2, <2>1, <2>2
<1> QED
  BY <1>2, <1>4, <1>5, <1>6, <1>7

LEMMA NamesStep ==
  ASSUME TypeInv, Fresh, NamesInv, [Next]_vars
  PROVE  NamesInv'
<1>1. (\A f, j, name : name # "" /\ Says(f, j, name) => SymbolsNamed(name) # {})'
      /\ (\A i \in DOMAIN symbols : Recorded(i))'
  <2>1. CASE CollectGlobal
    BY <2>1, NamesGlobal
  <2>2. CASE /\ ~CollectGlobal
             /\ \A f, j, name : name # "" =>
                  /\ Says(f, j, name)' <=> Says(f, j, name)
                  /\ Says(f, j, name) => own'[f][j] = own[f][j]
    <3>1. symbols' = symbols
      BY <2>2, Touched
    <3>2. \A f, j, name : name # "" /\ Says(f, j, name)' => SymbolsNamed(name)' # {}
      <4>1. \A name : SymbolsNamed(name)' = SymbolsNamed(name)
        BY <3>1 DEF SymbolsNamed
      <4>2. \A f, j, name : name # "" /\ Says(f, j, name) => SymbolsNamed(name) # {}
        BY DEF NamesInv
      <4> QED
        BY ONLY <2>2, <4>1, <4>2
    <3>3. ASSUME NEW i \in DOMAIN symbols
          PROVE  Recorded(i)'
      <4> PICK name : name = symbols[i].name
        OBVIOUS
      <4>1. /\ name # "" /\ Recorded(i) /\ symbols'[i].name = name
            /\ symbols'[i].section = symbols[i].section /\ symbols'[i].value = symbols[i].value
            /\ symbols'[i].defined = symbols[i].defined
        BY <3>1, NamesAre DEF NamesInv
      <4>2. \A f, j : /\ Says(f, j, name)' <=> Says(f, j, name)
                      /\ Says(f, j, name) => own'[f][j] = own[f][j]
        BY <2>2, <4>1
      <4>3. PICK f, j : FirstSays(f, j, name) /\ symbols[i].section = own[f][j].section
                        /\ symbols[i].value = own[f][j].value
        BY <4>1 DEF Recorded, Kept
      <4>4. FirstSays(f, j, name)' /\ own'[f][j] = own[f][j]
        BY <4>2, <4>3 DEF FirstSays
      <4>5. Kept(i)'
        BY <4>1, <4>3, <4>4 DEF Kept
      <4>6. SaysWhere(name)' <=> SaysWhere(name)
        BY <4>2 DEF SaysWhere
      <4>7. symbols'[i].defined <=> SaysWhere(name)'
        BY <4>1, <4>6 DEF Recorded
      <4> QED
        BY <4>1, <4>5, <4>7 DEF Recorded
    <3> QED
      BY <3>1, <3>2, <3>3
  <2> QED
    BY <2>1, <2>2, SaysMore
<1>2. (phase = "write" => entry = EntryPoint)'
  <2>1. CASE phase # "write" /\ phase' # "write"
    BY <2>1
  <2>2. CASE WriteHeader
    BY <2>2 DEF WriteHeader, tables, EntryPoint, IsDefined, EntryOf, SymbolsNamed
  <2>3. CASE WriteSection \/ Finish
    <3>1. UNCHANGED <<phase, symbols, sections, entry>>
      BY <2>3 DEF WriteSection, CannotCreate, Finish, tables, result, header
    <3> QED
      BY <3>1 DEF NamesInv, EntryPoint, IsDefined, EntryOf, SymbolsNamed
  <2>4. CASE UNCHANGED vars
    <3>1. UNCHANGED <<phase, symbols, sections, entry>>
      BY <2>4 DEF vars, tables, result, header
    <3> QED
      BY <3>1 DEF NamesInv, EntryPoint, IsDefined, EntryOf, SymbolsNamed
  <2> QED
    BY <2>1, <2>2, <2>3, <2>4, WriteMoves
<1> QED
  BY <1>1, <1>2 DEF NamesInv

LEMMA InNames == Spec => [](Fresh /\ NamesInv)
<1>1. Init => Fresh /\ NamesInv
  BY DEF Init, Fresh, NamesInv, Says
<1>2. TypeInv /\ (Fresh /\ NamesInv) /\ [Next]_vars => (Fresh /\ NamesInv)'
  BY FreshStep, NamesStep
<1> QED
  BY <1>1, <1>2, Typed, PTL DEF Spec

LEMMA MentionsAre ==
  ASSUME NEW name
  PROVE  /\ \A m \in Mentions(name) : \E f, j : m = <<f, j>> /\ Says(f, j, name)
         /\ \A f, j : Says(f, j, name) => <<f, j>> \in Mentions(name)
BY DEF Mentions, Says

\* A symbol's first mention in the code's order of files is the one its entry was made of.
LEMMA FirstMention ==
  ASSUME TypeInv, NEW i \in DOMAIN symbols, Kept(i)
  PROVE  LET m == First(symbols[i].name)
         IN /\ m[1] \in DOMAIN own /\ m[2] \in DOMAIN own[m[1]]
            /\ symbols[i].section = Meant(m).section /\ symbols[i].value = Meant(m).value
<1> PICK name : name = symbols[i].name
  OBVIOUS
<1>1. PICK f, j : FirstSays(f, j, name) /\ symbols[i].section = own[f][j].section
                  /\ symbols[i].value = own[f][j].value
  BY DEF Kept
<1>2. own \in Seq(Seq(EntryType))
  BY DEF TypeInv, Files
<1>3. \A m \in Mentions(name) : m[1] \in Nat
  <2>1. \A g, k : Says(g, k, name) => g \in Nat
    BY <1>2 DEF Says
  <2> QED
    BY <2>1, MentionsAre
<1>4. <<f, j>> \in Mentions(name) /\ f \in Nat
  <2>1. Says(f, j, name)
    BY <1>1 DEF FirstSays
  <2> QED
    BY <1>2, <2>1, MentionsAre DEF Says
<1>5. \A n \in Mentions(name) : n = <<f, j>> \/ f < n[1]
  <2> SUFFICES ASSUME NEW n \in Mentions(name) PROVE n = <<f, j>> \/ f < n[1]
    OBVIOUS
  <2>1. PICK g, k : n = <<g, k>> /\ Says(g, k, name)
    BY MentionsAre
  <2> QED
    BY <1>1, <2>1 DEF FirstSays
<1>6. \A n \in Mentions(name) : <<f, j>>[1] <= n[1]
  BY <1>3, <1>4, <1>5
<1>7. First(name) \in Mentions(name) /\ \A n \in Mentions(name) : First(name)[1] <= n[1]
  BY <1>4, <1>6 DEF First
<1>8. First(name) = <<f, j>>
  <2>1. First(name)[1] <= f
    BY <1>4, <1>7
  <2>2. First(name)[1] \in Nat
    BY <1>3, <1>7
  <2> QED
    BY <1>4, <1>5, <1>7, <2>1, <2>2
<1>9. f \in DOMAIN own /\ j \in DOMAIN own[f]
  BY <1>1 DEF FirstSays, Says
<1> QED
  BY <1>1, <1>8, <1>9 DEF Meant

\* add_symbol() keeps what the first file said of a name: a symbol that a later file
\* defines is marked as defined and has no address, and an entry point that is such a
\* symbol is read in front of the section table.
THEOREM LateCorrect == Spec => []DefinedLate
<1>1. ASSUME TypeInv, Fresh, NamesInv, phase = "write", NEW i \in DOMAIN symbols
      PROVE  /\ symbols[i].defined <=> \E m \in Mentions(symbols[i].name) : DefinedIn(m)
             /\ symbols[i].section = 0 <=> ~DefinedIn(First(symbols[i].name))
             /\ symbols[i].name = "_start" /\ symbols[i].defined =>
                  (entry = -1 <=> ~DefinedIn(First(symbols[i].name)))
  <2> USE <1>1
  <2> PICK name : name = symbols[i].name
    OBVIOUS
  <2>1. Recorded(i)
    BY DEF NamesInv
  <2>2. SaysWhere(name) <=> \E m \in Mentions(name) : Meant(m).section # 0
    <3>1. ASSUME SaysWhere(name)
          PROVE  \E m \in Mentions(name) : Meant(m).section # 0
      <4>1. PICK f, j : Says(f, j, name) /\ own[f][j].section # 0
        BY <3>1 DEF SaysWhere
      <4>2. <<f, j>> \in Mentions(name) /\ Meant(<<f, j>>).section # 0
        BY <4>1, MentionsAre DEF Meant
      <4> QED
        BY <4>2
    <3>2. ASSUME NEW m \in Mentions(name), Meant(m).section # 0
          PROVE  SaysWhere(name)
      <4>1. PICK f, j : m = <<f, j>> /\ Says(f, j, name)
        BY MentionsAre
      <4> QED
        BY <3>2, <4>1 DEF SaysWhere, Meant
    <3> QED
      BY <3>1, <3>2
  <2>3. symbols[i].section = Meant(First(name)).section
    BY <2>1, FirstMention DEF Recorded
  <2>4. ASSUME name = "_start", symbols[i].defined
        PROVE  entry = -1 <=> symbols[i].section = 0
    <3>1. SymbolsNamed("_start") = {i}
      BY <2>4 DEF SymbolsNamed, Fresh
    <3>2. TheIndex(SymbolsNamed("_start")) = i /\ IsDefined("_start")
      <4>1. TheIndex(SymbolsNamed("_start")) \in SymbolsNamed("_start")
        BY <3>1, Index
      <4> QED
        BY <2>4, <3>1, <4>1 DEF IsDefined
    <3>3. entry = IF symbols[i].section = 0 THEN -1 ELSE sections[symbols[i].section].vaddr + symbols[i].value
      BY <3>2 DEF NamesInv, EntryPoint, EntryOf
    <3>4. symbols[i].section # 0 => sections[symbols[i].section].vaddr + symbols[i].value \in Nat
      <4>1. symbols[i] \in SymbolEntry /\ symbols[i].section <= Len(sections) /\ symbols[i].section \in Nat
        <5>1. symbols \in Seq(SymbolEntry) /\ symbols[i].section \in Nat
          BY NamesAre
        <5>2. symbols[i] \in SymbolEntry
          BY ONLY <5>1, <1>1
        <5> QED
          BY <5>1, <5>2 DEF TypeInv, SymbolTable
      <4>2. symbols[i].value \in Nat
        BY <4>1 DEF SymbolEntry
      <4>3. symbols[i].section # 0 => symbols[i].section \in DOMAIN sections
        BY <4>1, Rows DEF TypeInv
      <4>4. symbols[i].section # 0 => sections[symbols[i].section].vaddr \in Nat
        BY <4>3, Rows DEF TypeInv
      <4> PICK a : a = sections[symbols[i].section].vaddr
        OBVIOUS
      <4>5. symbols[i].section # 0 => a + symbols[i].value \in Nat
        BY <4>2, <4>4
      <4> QED
        BY <4>5
    <3> PICK a : a = sections[symbols[i].section].vaddr + symbols[i].value
      OBVIOUS
    <3>5. \A n \in Nat : n # -1
      OBVIOUS
    <3> QED
      BY <3>3, <3>4, <3>5
  <2> QED
    BY <2>1, <2>2, <2>3, <2>4 DEF Recorded, DefinedIn
<1>2. TypeInv /\ (Fresh /\ NamesInv) => DefinedLate
  BY <1>1 DEF DefinedLate
<1> QED
  BY <1>2, Typed, InNames, PTL

-----------------------------------------------------------------------------
(* Bytes: what the parts of the sections become in the output *)

\* What reading a section does: the part is put at `to', behind the `base' bytes that
\* section i has already; only the bytes of a part that is in the file are copied.
Grows(i, h, base, to) ==
  /\ h \in Headers /\ h.size \in Nat /\ base \in Nat /\ to \in Nat
  /\ DOMAIN sections' = DOMAIN sections \cup {i}
  /\ \A j \in DOMAIN sections : j # i => sections'[j] = sections[j]
  /\ sections'[i].name = h.name /\ sections'[i].start + base = to
  /\ sections'[i].size = base + h.size /\ sections'[i].start \in Nat
  /\ \/ /\ i \in DOMAIN sections /\ sections[i].name = h.name
        /\ sections'[i].kind = sections[i].kind
        /\ sections'[i].start = sections[i].start /\ base = sections[i].size
     \/ /\ i \notin DOMAIN sections /\ SectionsNamed(h.name) = {}
        /\ sections'[i].kind = h.kind
        /\ base = 0 /\ to = output_size
  /\ parts' = Append(parts, Part(h, base))
Copies(h, to) ==
  /\ h.kind # "bss" /\ Padded(h) <= OUTPUT_SIZE /\ to + h.size <= OUTPUT_SIZE
  /\ output_size' = Padded(h)
  /\ output' = [b \in DOMAIN output |->
                  IF b \in output_size + h.size .. Padded(h) - 1 THEN Zero
                  ELSE IF b \in to .. to + h.size - 1
                  THEN Byte(Len(parts) + 1, b - to) ELSE output[b]]
Reserves(h) == h.kind = "bss" /\ UNCHANGED <<output, output_size>>

LEMMA ExtendsGrows ==
  ASSUME TypeInv, NEW i, NEW h, Extends(i, h)
  PROVE  \E base, to : /\ Grows(i, h, base, to)
                       /\ \/ i \in DOMAIN sections /\ to = sections[i].start + sections[i].size
                          \/ i \notin DOMAIN sections /\ to = output_size
<1> USE DEF TypeInv
<1>1. /\ h \in Headers /\ h.size \in Nat
      /\ DOMAIN sections' = DOMAIN sections \cup {i}
      /\ \A j \in DOMAIN sections : j # i => sections'[j] = sections[j]
  BY Numbers DEF Extends
<1>2. CASE /\ i \in DOMAIN sections /\ sections[i].name = h.name
           /\ sections'[i] = [sections[i] EXCEPT !.size = @ + h.size]
           /\ parts' = Append(parts, Part(h, sections[i].size))
  <2>1. sections[i] \in Section /\ sections[i].start \in Nat /\ sections[i].size \in Nat
    BY <1>2, Rows
  <2>2. sections'[i].name = h.name /\ sections'[i].start = sections[i].start
        /\ sections'[i].size = sections[i].size + h.size /\ sections'[i].kind = sections[i].kind
    BY <1>2, <2>1 DEF Section
  <2> PICK base \in Nat : base = sections[i].size
    BY <2>1
  <2> PICK to \in Nat : to = sections[i].start + base
    BY <2>1
  <2>3. Grows(i, h, base, to)
    BY <1>1, <1>2, <2>1, <2>2 DEF Grows
  <2> QED
    BY <1>2, <2>3
<1>3. CASE /\ i = Len(sections) + 1 /\ SectionsNamed(h.name) = {}
           /\ sections'[i] = [name |-> h.name, kind |-> h.kind, start |-> output_size,
                              size |-> h.size, vaddr |-> 0]
           /\ parts' = Append(parts, Part(h, 0))
  <2>1. i \notin DOMAIN sections
    BY <1>3, Rows
  <2>2. output_size \in Nat
    BY DEF Bytes
  <2>3. sections'[i].name = h.name /\ sections'[i].start = output_size
        /\ sections'[i].size = h.size /\ sections'[i].kind = h.kind
    BY <1>3
  <2> PICK base \in Nat : base = 0
    OBVIOUS
  <2> PICK to \in Nat : to = output_size
    BY <2>2
  <2>4. sections'[i].start + base = to /\ sections'[i].size = base + h.size
    BY <1>1, <2>2, <2>3
  <2>5. Grows(i, h, base, to)
    BY <1>1, <1>3, <2>1, <2>2, <2>3, <2>4 DEF Grows
  <2> QED
    BY <2>1, <2>5
<1> QED
  BY <1>2, <1>3 DEF Extends

LEMMA CollectGrows ==
  ASSUME TypeInv, Collects
  PROVE  \E i, h, base, to : Grows(i, h, base, to) /\ (Copies(h, to) \/ Reserves(h))
<1>0. SectionTable /\ Bytes
  BY DEF TypeInv
<1>1. CASE CollectProgbits
  <2>1. PICK h \in Headers :
          /\ h.kind # "bss"
          /\ Padded(h) <= OUTPUT_SIZE /\ Behind(h) + h.size <= OUTPUT_SIZE
          /\ Collect(h)
          /\ output' = [b \in DOMAIN output |->
                          IF b \in output_size + h.size .. Padded(h) - 1 THEN Zero
                          ELSE IF b \in Behind(h) .. Behind(h) + h.size - 1
                          THEN Byte(Len(parts) + 1, b - Behind(h)) ELSE output[b]]
          /\ output_size' = Padded(h)
    BY <1>1 DEF CollectProgbits
  <2> PICK t, i : t = WithSection(h) /\ i = Row(h)
    OBVIOUS
  <2>2. Extends(i, h)
    BY <1>0, <2>1, SectionExtended
  <2>3. PICK base, to : /\ Grows(i, h, base, to)
                        /\ \/ i \in DOMAIN sections /\ to = sections[i].start + sections[i].size
                           \/ i \notin DOMAIN sections /\ to = output_size
    BY <2>2, ExtendsGrows
  <2>4. Behind(h) = to
    <3>0. Behind(h) = t[i].start + t[i].size /\ i = CHOOSE j \in DOMAIN t : t[j].name = h.name
      BY DEF Behind, Row
    <3>1. CASE SectionsNamed(h.name) # {}
      <4>1. t = sections
        BY <3>1 DEF WithSection
      <4>2. i \in DOMAIN sections
        BY <3>0, <3>1, <4>1 DEF SectionsNamed
      <4> QED
        BY <2>3, <3>0, <4>1, <4>2
    <3>2. CASE SectionsNamed(h.name) = {}
      <4> PICK row : row = [name |-> h.name, kind |-> h.kind, start |-> output_size, size |-> 0,
                            vaddr |-> 0]
        OBVIOUS
      <4>1. t = Append(sections, row)
        BY <3>2 DEF WithSection
      <4>2. output_size \in Nat /\ sections \in Seq(Section) /\ Len(sections) \in Nat
        BY <1>0, Rows DEF Bytes, SectionTable
      <4>3. row \in Section /\ row.start = output_size /\ row.size = 0
        BY <4>2, Numbers DEF Section
      <4>4. i \notin DOMAIN sections
        BY <2>3, <3>2 DEF Grows, SectionsNamed
      <4>5. i = Len(sections) + 1
        BY <2>2, <4>4 DEF Extends
      <4>6. t[Len(sections) + 1] = row
        BY ONLY <4>1, <4>2, <4>3, Appended
      <4>7. Behind(h) = output_size
        <5>1. t[i] = row
          BY <4>5, <4>6
        <5>2. Behind(h) = output_size + 0
          BY <3>0, <4>3, <5>1
        <5> QED
          BY <4>2, <5>2
      <4> QED
        BY <2>3, <4>4, <4>7
    <3> QED
      BY <3>1, <3>2
  <2>5. Copies(h, to)
    BY <2>1, <2>4 DEF Copies
  <2> QED
    BY <2>3, <2>5
<1>2. CASE CollectNobits
  <2>1. PICK h \in Headers : h.kind = "bss" /\ Collect(h)
    BY <1>2 DEF CollectNobits
  <2>2. Extends(Row(h), h)
    BY <1>0, <2>1, SectionExtended
  <2>3. Reserves(h)
    BY <1>2, <2>1 DEF CollectNobits, Reserves
  <2> QED
    BY <2>2, <2>3, ExtendsGrows
<1> QED
  BY <1>1, <1>2 DEF Collects

Unique == \A i, j \in DOMAIN sections : sections[i].name = sections[j].name => i = j
\* the parts of a section lie in it one after another, and there is one at least
Inside ==
  \A n \in DOMAIN parts : \A i \in SectionsNamed(parts[n].name) :
    parts[n].base + parts[n].size <= sections[i].size
Holder(n, i, o) ==
  parts[n].name = sections[i].name /\ parts[n].base <= o /\ o < parts[n].base + parts[n].size
Tiled == \A i \in DOMAIN sections, o \in Nat :
           o < sections[i].size => \E n \in DOMAIN parts : Holder(n, i, o)
Named == \A i \in DOMAIN sections : \E n \in DOMAIN parts : parts[n].name = sections[i].name
Room == \A i \in Loaded : /\ sections[i].start + sections[i].size <= output_size
                          /\ sections[i].start + sections[i].size <= OUTPUT_SIZE
\* the bytes of a part, where nothing was copied over its section
IntactIn(n, i) ==
  \A k \in 0..(parts[n].size - 1) : output[sections[i].start + parts[n].base + k] = Byte(n, k)
BytesIn == \A n \in Progbits :
             \A i \in SectionsNamed(parts[n].name) : IntactIn(n, i) \/ Overwritten(i)
Once == \A m, n \in DOMAIN parts : parts[m].name = parts[n].name => m = n
Free == \A i \in Loaded : ~Overwritten(i)
BytesInv ==
  /\ Unique /\ Inside /\ Tiled /\ Named
  /\ Uniform => Room /\ BytesIn /\ (Once => Free)

\* A list of parts whose headers agree, or that reads no name twice, did so before.
LEMMA AgreedBefore ==
  ASSUME TypeInv, [Next]_vars
  PROVE  (Uniform' => Uniform) /\ (Once' => Once)
<1>1. DOMAIN parts \subseteq DOMAIN parts' /\ \A n \in DOMAIN parts : parts'[n] = parts[n]
  BY PartsStay
<1>2. ASSUME Uniform', NEW n \in DOMAIN parts, NEW i \in SectionsNamed(parts[n].name)
      PROVE  Kind(i) = "bss" <=> parts[n].kind = "bss"
  <2> PICK name : name = parts[n].name
    OBVIOUS
  <2>1. i \in SectionsNamed(name)' /\ i \in DOMAIN sections
    BY <1>2, Grown DEF SectionsNamed
  <2>2. n \in DOMAIN parts' /\ parts'[n] = parts[n] /\ parts'[n].name = name
    BY <1>1
  <2>3. Kind(i)' = Kind(i)
    BY <2>1, Grown DEF Kind
  <2>4. i \in (SectionsNamed(parts[n].name))'
    BY <2>1, <2>2
  <2>5. Kind(i)' = "bss" <=> parts'[n].kind = "bss"
    BY <1>2, <2>2, <2>4 DEF Uniform
  <2> QED
    BY <2>2, <2>3, <2>5
<1>3. Once' => Once
  BY <1>1 DEF Once
<1> QED
  BY <1>2, <1>3 DEF Uniform

\* Other steps than reading a section leave the spans of the sections alone.
LEMMA SpansStay ==
  ASSUME TypeInv, [Next]_vars, ~Collects
  PROVE  /\ UNCHANGED <<output, output_size, parts>> /\ DOMAIN sections' = DOMAIN sections
         /\ \A i \in DOMAIN sections :
              /\ sections'[i].name = sections[i].name /\ sections'[i].start = sections[i].start
              /\ sections'[i].size = sections[i].size
         /\ Loaded' = Loaded
         /\ \A name : SectionsNamed(name)' = SectionsNamed(name)
         /\ \A i \in DOMAIN sections : Overwritten(i)' <=> Overwritten(i)
<1>1. UNCHANGED <<output, output_size, parts>>
  BY Touched
<1>2. /\ DOMAIN sections' = DOMAIN sections
      /\ \A i \in DOMAIN sections :
           /\ sections'[i].name = sections[i].name /\ sections'[i].start = sections[i].start
           /\ sections'[i].size = sections[i].size /\ sections'[i].kind = sections[i].kind
  <2>1. CASE UNCHANGED sections
    BY <2>1
  <2>2. CASE Place
    <3>1. sections \in Seq(Section) /\ sections' \in Seq(Section) /\ Len(sections') = Len(sections)
      BY <2>2, PlacedRow DEF TypeInv, SectionTable
    <3>2. DOMAIN sections' = DOMAIN sections
      BY <3>1
    <3> QED
      BY <2>2, <3>2, PlacedRow
  <2> QED
    BY <2>1, <2>2, Touched
<1>3. Loaded' = Loaded
  BY <1>2 DEF Loaded, Kind
<1>4. \A name : SectionsNamed(name)' = SectionsNamed(name)
  BY <1>2 DEF SectionsNamed
<1>5. \A i \in DOMAIN sections : Span(i)' = Span(i)
  BY <1>2 DEF Span
<1>6. \A i \in DOMAIN sections : Overwritten(i)' <=> Overwritten(i)
  <2>1. Loaded \subseteq DOMAIN sections
    BY DEF Loaded
  <2> QED
    BY <1>3, <1>5, <2>1 DEF Overwritten
<1> QED
  BY <1>1, <1>2, <1>3, <1>4, <1>6

LEMMA BytesStayed ==
  ASSUME TypeInv, BytesInv, [Next]_vars, ~Collects
  PROVE  BytesInv'
<1>1. /\ UNCHANGED <<output, output_size, parts>> /\ DOMAIN sections' = DOMAIN sections
      /\ \A i \in DOMAIN sections :
           /\ sections'[i].name = sections[i].name /\ sections'[i].start = sections[i].start
           /\ sections'[i].size = sections[i].size
      /\ Loaded' = Loaded
      /\ \A name : SectionsNamed(name)' = SectionsNamed(name)
      /\ \A i \in DOMAIN sections : Overwritten(i)' <=> Overwritten(i)
  BY SpansStay
<1>2. \A name : SectionsNamed(name) \subseteq DOMAIN sections
  BY DEF SectionsNamed
<1>3. Loaded \subseteq DOMAIN sections
  BY DEF Loaded
<1>4. Unique' /\ Named'
  BY <1>1 DEF BytesInv, Unique, Named
<1>a. \A n \in DOMAIN parts : (SectionsNamed(parts[n].name))' = SectionsNamed(parts[n].name)
  BY <1>1
<1>5. Inside'
  BY <1>1, <1>2, <1>a DEF BytesInv, Inside
<1>6. Tiled'
  BY <1>1 DEF BytesInv, Tiled, Holder
<1>b. ASSUME Uniform
      PROVE  Room' /\ BytesIn' /\ (Once' => Free')
  <2>0. Room /\ BytesIn /\ (Once => Free)
    BY <1>b DEF BytesInv
  <2>1. Room'
    BY <1>1, <1>3, <2>0 DEF Room
  <2>2. \A n \in Progbits : \A i \in SectionsNamed(parts[n].name) : IntactIn(n, i)' \/ Overwritten(i)'
    BY <1>1, <1>2, <2>0 DEF BytesIn, IntactIn
  <2>3. BytesIn'
    <3>1. Progbits' = Progbits /\ Progbits \subseteq DOMAIN parts
      BY <1>1 DEF Progbits
    <3> QED
      BY <1>a, <2>2, <3>1 DEF BytesIn
  <2>4. Once' => Free'
    BY <1>1, <1>3, <2>0 DEF Once, Free
  <2> QED
    BY <2>1, <2>3, <2>4
<1>7. Uniform' => Uniform
  BY AgreedBefore
<1> QED
  BY <1>4, <1>5, <1>6, <1>7, <1>b DEF BytesInv

\* One part more.
Adds(new, h, base) ==
  /\ new \in Nat /\ new = Len(parts) + 1 /\ new \notin DOMAIN parts
  /\ DOMAIN parts' = DOMAIN parts \cup {new}
  /\ \A n \in DOMAIN parts : parts'[n] = parts[n]
  /\ parts'[new].name = h.name /\ parts'[new].kind = h.kind
  /\ parts'[new].base = base /\ parts'[new].size = h.size
LEMMA PartAdded ==
  ASSUME TypeInv, NEW i, NEW h, NEW base, NEW to, Grows(i, h, base, to)
  PROVE  \E new : Adds(new, h, base)
<1> PICK p : p = Part(h, base)
  OBVIOUS
<1>1. /\ p.name = h.name /\ p.kind = h.kind /\ p.base = base /\ p.size = h.size
      /\ p \in PartType
  <2>1. nfile \in Nat /\ h \in Headers /\ base \in Nat
    BY DEF TypeInv, Control, Grows
  <2> QED
    BY <2>1, Numbers DEF Part, PartType
<1>2. parts' = Append(parts, p) /\ parts \in Seq(PartType)
  BY DEF Grows, TypeInv, Parts
<1> PICK t : t = parts'
  OBVIOUS
<1>3. t = Append(parts, p)
  BY <1>2
<1>4. /\ Len(parts) \in Nat /\ DOMAIN t = DOMAIN parts \cup {Len(parts) + 1}
      /\ DOMAIN parts = 1..Len(parts) /\ t[Len(parts) + 1] = p
      /\ \A n \in DOMAIN parts : t[n] = parts[n]
  BY ONLY <1>1, <1>2, <1>3, Appended
<1> PICK new \in Nat : new = Len(parts) + 1
  BY <1>4
<1>5. new \notin DOMAIN parts
  BY <1>4
<1> QED
  BY <1>1, <1>4, <1>5 DEF Adds

\* Reading a section, in the terms of the proofs below.
LEMMA GrownRows ==
  ASSUME TypeInv, NEW i, NEW h, NEW base, NEW to, Grows(i, h, base, to)
  PROVE  /\ \A j \in DOMAIN sections :
              /\ sections'[j].name = sections[j].name /\ sections'[j].start = sections[j].start
              /\ sections[j].size <= sections'[j].size /\ sections'[j].kind = sections[j].kind
              /\ sections'[j].size \in Nat /\ sections'[j].start \in Nat
              /\ Span(j) \subseteq Span(j)'
         /\ sections'[i].size \in Nat
         /\ \A b : b \in Span(i)' <=> b \in Nat /\ sections'[i].start <= b /\ b < to + h.size
         /\ i \in DOMAIN sections => sections[i].name = h.name
<1> USE DEF TypeInv
<1> PICK size \in Nat : size = h.size
  BY DEF Grows
<1>1. /\ base \in Nat /\ to \in Nat
      /\ DOMAIN sections' = DOMAIN sections \cup {i}
      /\ \A j \in DOMAIN sections : j # i => sections'[j] = sections[j]
      /\ sections'[i].start + base = to /\ sections'[i].size = base + size
      /\ sections'[i].start \in Nat /\ sections'[i].name = h.name
      /\ i \in DOMAIN sections =>
           /\ sections[i].name = h.name /\ sections'[i].start = sections[i].start
           /\ sections'[i].kind = sections[i].kind /\ base = sections[i].size
  BY DEF Grows
<1>2. \A j \in DOMAIN sections : sections[j].size \in Nat /\ sections[j].start \in Nat
  BY Rows
<1>3. sections'[i].size \in Nat
  BY <1>1
<1>4. \A j \in DOMAIN sections :
        /\ sections'[j].name = sections[j].name /\ sections'[j].start = sections[j].start
        /\ sections[j].size <= sections'[j].size /\ sections'[j].kind = sections[j].kind
        /\ sections'[j].size \in Nat /\ sections'[j].start \in Nat
  <2>1. ASSUME NEW j \in DOMAIN sections, j # i
        PROVE  /\ sections'[j].name = sections[j].name /\ sections'[j].start = sections[j].start
               /\ sections[j].size <= sections'[j].size /\ sections'[j].kind = sections[j].kind
               /\ sections'[j].size \in Nat /\ sections'[j].start \in Nat
    BY <1>1, <1>2, <2>1
  <2>2. ASSUME NEW j \in DOMAIN sections, j = i
        PROVE  /\ sections'[j].name = sections[j].name /\ sections'[j].start = sections[j].start
               /\ sections[j].size <= sections'[j].size /\ sections'[j].kind = sections[j].kind
               /\ sections'[j].size \in Nat /\ sections'[j].start \in Nat
    BY <1>1, <1>2, <1>3, <2>2
  <2> QED
    BY <2>1, <2>2
<1>5. \A j \in DOMAIN sections : Span(j) \subseteq Span(j)'
  <2> SUFFICES ASSUME NEW j \in DOMAIN sections PROVE Span(j) \subseteq Span(j)'
    OBVIOUS
  <2> PICK s \in Nat, m \in Nat, n \in Nat :
        s = sections[j].start /\ m = sections[j].size /\ n = sections'[j].size
    BY <1>2, <1>4
  <2>1. m <= n /\ sections'[j].start = s
    BY <1>4
  <2>2. s..(s + m - 1) \subseteq s..(s + n - 1)
    BY <2>1
  <2>3. Span(j) = s..(s + m - 1)
    BY DEF Span
  <2>4. Span(j)' = s..(s + n - 1)
    BY <2>1 DEF Span
  <2> QED
    BY <2>2, <2>3, <2>4
<1>6. \A b : b \in Span(i)' <=> b \in Nat /\ sections'[i].start <= b /\ b < to + size
  <2> PICK s \in Nat : s = sections'[i].start
    BY <1>1
  <2>1. s + base = to
    BY <1>1
  <2>2. \A b : b \in s..(s + (base + size) - 1) <=> b \in Nat /\ s <= b /\ b < to + size
    BY <1>1, <2>1
  <2>3. Span(i)' = s..(s + (base + size) - 1)
    BY <1>1 DEF Span
  <2> QED
    BY <2>2, <2>3
<1> QED
  BY <1>1, <1>3, <1>4, <1>5, <1>6

\* When the headers of a name agree, a part with bytes is a section's that has bytes.
LEMMA GrownLoaded ==
  ASSUME TypeInv, NEW i, NEW h, NEW base, NEW to, Grows(i, h, base, to), Uniform'
  PROVE  /\ Loaded' = Loaded \cup (IF h.kind = "bss" THEN {} ELSE {i})
         /\ i \in DOMAIN sections => (i \in Loaded <=> h.kind # "bss")
         /\ \A j \in Loaded : j \in DOMAIN sections /\ (h.kind = "bss" => j # i)
<1>0. PICK new : Adds(new, h, base)
  BY PartAdded
<1>1. new \in DOMAIN parts' /\ parts'[new].name = h.name /\ parts'[new].kind = h.kind
  BY <1>0 DEF Adds
<1>2. DOMAIN sections' = DOMAIN sections \cup {i} /\ sections'[i].name = h.name
  BY DEF Grows
<1>3. i \in (SectionsNamed(parts[new].name))'
  BY <1>1, <1>2 DEF SectionsNamed
<1>4. Kind(i)' = "bss" <=> h.kind = "bss"
  <2>1. Kind(i)' = "bss" <=> parts'[new].kind = "bss"
    BY <1>1, <1>3 DEF Uniform
  <2> QED
    BY <1>1, <2>1
<1>5. \A j \in DOMAIN sections : Kind(j)' = Kind(j)
  BY GrownRows DEF Kind
<1>6. Loaded' = Loaded \cup (IF h.kind = "bss" THEN {} ELSE {i})
  BY <1>2, <1>4, <1>5 DEF Loaded
<1>7. i \in DOMAIN sections => (i \in Loaded <=> h.kind # "bss")
  BY <1>4, <1>5 DEF Loaded
<1>8. \A j \in Loaded : j \in DOMAIN sections
  BY DEF Loaded
<1> QED
  BY <1>6, <1>7, <1>8

LEMMA PartsGrow ==
  ASSUME TypeInv, BytesInv, NEW i, NEW h, NEW base, NEW to, Grows(i, h, base, to)
  PROVE  Unique' /\ Inside' /\ Tiled' /\ Named'
<1> USE DEF TypeInv
<1>0. Unique /\ Inside /\ Tiled /\ Named
  BY DEF BytesInv
<1> PICK size \in Nat : size = h.size
  BY DEF Grows
<1>1. /\ base \in Nat /\ to \in Nat
      /\ DOMAIN sections' = DOMAIN sections \cup {i}
      /\ sections'[i].name = h.name /\ sections'[i].size = base + size
      /\ i \in DOMAIN sections => base = sections[i].size
      /\ i \notin DOMAIN sections => SectionsNamed(h.name) = {} /\ base = 0
  BY DEF Grows
<1>2. /\ \A j \in DOMAIN sections : /\ sections'[j].name = sections[j].name
                                    /\ sections[j].size <= sections'[j].size
                                    /\ sections'[j].size \in Nat /\ sections[j].size \in Nat
                                    /\ j # i => sections'[j] = sections[j]
      /\ i \in DOMAIN sections => sections[i].name = h.name
  BY GrownRows, Rows DEF Grows
<1>a. PICK new : Adds(new, h, base)
  BY PartAdded
<1>3. /\ DOMAIN parts' = DOMAIN parts \cup {new}
      /\ \A n \in DOMAIN parts : parts'[n] = parts[n]
      /\ parts'[new].name = h.name /\ parts'[new].base = base /\ parts'[new].size = size
  BY <1>a DEF Adds
<1>4. \A n \in DOMAIN parts : /\ parts[n].base \in Nat /\ parts[n].size \in Nat
                              /\ SectionsNamed(parts[n].name) # {}
  BY PartRows DEF Parts
<1>5. \A j \in DOMAIN sections : j # i => sections[j].name # h.name
  <2>1. CASE i \in DOMAIN sections
    BY <1>0, <1>2, <2>1 DEF Unique
  <2>2. CASE i \notin DOMAIN sections
    BY <1>1, <2>2 DEF SectionsNamed
  <2> QED
    BY <2>1, <2>2
<1>6. Unique'
  BY <1>0, <1>1, <1>2, <1>5 DEF Unique
<1>7. Named'
  <2>1. \A j \in DOMAIN sections : \E n \in DOMAIN parts' : parts'[n].name = sections'[j].name
    BY <1>0, <1>2, <1>3 DEF Named
  <2>2. \E n \in DOMAIN parts' : parts'[n].name = sections'[i].name
    BY <1>1, <1>3
  <2> QED
    BY <1>1, <2>1, <2>2 DEF Named
<1>8. Inside'
  <2>1. ASSUME NEW n \in DOMAIN parts, NEW j \in DOMAIN sections', sections'[j].name = parts[n].name
        PROVE  parts[n].base + parts[n].size <= sections'[j].size
    <3> PICK p \in Nat, q \in Nat : p = parts[n].base /\ q = parts[n].size
      BY <1>4
    <3>2. CASE j \in DOMAIN sections
      <4>1. p + q <= sections[j].size
        BY <1>0, <1>2, <2>1, <3>2 DEF Inside, SectionsNamed
      <4>2. sections[j].size <= sections'[j].size /\ sections[j].size \in Nat /\ sections'[j].size \in Nat
        BY <1>2, <3>2
      <4>3. p + q <= sections'[j].size
        BY ONLY <4>1, <4>2
      <4> QED
        BY <4>3
    <3>3. CASE j \notin DOMAIN sections
      <4>1. j = i /\ parts[n].name = h.name /\ SectionsNamed(h.name) = {}
        BY <1>1, <2>1, <3>3
      <4> QED
        BY <1>4, <4>1
    <3> QED
      BY <3>2, <3>3
  <2>2. ASSUME NEW j \in DOMAIN sections', sections'[j].name = h.name
        PROVE  base + size <= sections'[j].size
    <3>1. j = i
      BY <1>1, <1>2, <1>5, <2>2
    <3> QED
      BY <1>1, <3>1
  <2>3. \A n \in DOMAIN parts' : \A j \in DOMAIN sections' :
          sections'[j].name = parts'[n].name => parts'[n].base + parts'[n].size <= sections'[j].size
    BY <1>3, <2>1, <2>2
  <2> QED
    BY <2>3 DEF Inside, SectionsNamed
<1>9. Tiled'
  <2> SUFFICES ASSUME NEW j \in DOMAIN sections', NEW o \in Nat, o < sections'[j].size
               PROVE  \E n \in DOMAIN parts' : Holder(n, j, o)'
    BY DEF Tiled
  <2>1. CASE j \in DOMAIN sections /\ o < sections[j].size
    <3>1. PICK n \in DOMAIN parts : Holder(n, j, o)
      BY <1>0, <2>1 DEF Tiled
    <3>2. Holder(n, j, o)'
      BY <1>2, <1>3, <2>1, <3>1 DEF Holder
    <3> QED
      BY <1>3, <3>2
  <2>2. CASE ~(j \in DOMAIN sections /\ o < sections[j].size)
    <3>1. j = i
      BY <1>1, <1>2, <2>2
    <3>2. base <= o /\ o < base + size
      <4>1. o < base + size
        BY <1>1, <3>1
      <4>2. i \in DOMAIN sections => ~(o < base)
        BY <1>1, <2>2, <3>1
      <4>3. i \notin DOMAIN sections => base = 0
        BY <1>1
      <4> QED
        BY <1>1, <4>1, <4>2, <4>3
    <3>3. Holder(new, j, o)'
      BY <1>1, <1>3, <3>1, <3>2 DEF Holder
    <3> QED
      BY <1>3, <3>3
  <2> QED
    BY <2>1, <2>2
<1> QED
  BY <1>6, <1>7, <1>8, <1>9

\* Where the bytes of a part go: behind its section's, which is inside of the output.
LEMMA RoomGrows ==
  ASSUME TypeInv, Room, NEW i, NEW h, NEW base, NEW to, Uniform',
         Grows(i, h, base, to), Copies(h, to) \/ Reserves(h)
  PROVE  /\ Room'
         /\ Copies(h, to) => to <= output_size
<1> USE DEF TypeInv
<1> PICK size \in Nat : size = h.size
  BY DEF Grows
<1>1. /\ base \in Nat /\ to \in Nat
      /\ sections'[i].start + base = to /\ sections'[i].size = base + size
      /\ sections'[i].start \in Nat
      /\ i \in DOMAIN sections => base = sections[i].size /\ sections'[i].start = sections[i].start
      /\ i \notin DOMAIN sections => to = output_size
      /\ \A j \in DOMAIN sections : j # i => sections'[j] = sections[j]
  BY DEF Grows
<1>2. output_size \in Nat /\ OUTPUT_SIZE \in Nat
  BY Numbers DEF Bytes
<1>3. \A j \in Loaded : j \in DOMAIN sections /\ sections[j].start \in Nat /\ sections[j].size \in Nat
  BY Rows DEF Loaded
<1>4. /\ Loaded' = Loaded \cup (IF h.kind = "bss" THEN {} ELSE {i})
      /\ i \in DOMAIN sections /\ h.kind # "bss" => i \in Loaded
      /\ \A j \in Loaded : h.kind = "bss" => j # i
  BY GrownLoaded
<1>6. CASE Copies(h, to)
  <2> PICK top \in Nat : top = output_size + size
    BY <1>2
  <2>1. /\ h.kind # "bss" /\ to + size <= OUTPUT_SIZE
        /\ output_size' = RoundUp(top, SECTION_ALIGN)
    BY <1>6 DEF Copies, Padded
  <2>2. to <= output_size
    <3>1. CASE i \in DOMAIN sections
      BY <1>1, <1>4, <2>1, <3>1 DEF Room
    <3>2. CASE i \notin DOMAIN sections
      BY <1>1, <1>2, <3>2
    <3> QED
      BY <3>1, <3>2
  <2>3. output_size' \in Nat /\ top <= output_size' /\ output_size <= top
    <3>1. output_size' \in Nat /\ output_size' >= top
      BY <2>1, Rounded, Numbers
    <3> QED
      BY <1>2, <3>1
  <2>4. ASSUME NEW j \in Loaded, j # i
        PROVE  /\ sections'[j].start + sections'[j].size <= output_size'
               /\ sections'[j].start + sections'[j].size <= OUTPUT_SIZE
    <3> PICK end \in Nat : end = sections[j].start + sections[j].size
      BY <1>3
    <3>1. end <= output_size /\ end <= OUTPUT_SIZE
      BY DEF Room
    <3>2. sections'[j] = sections[j]
      BY <1>1, <1>3, <2>4
    <3>3. end <= output_size'
      BY ONLY <1>2, <2>3, <3>1
    <3> QED
      BY <3>1, <3>2, <3>3
  <2>5. sections'[i].start + sections'[i].size <= output_size'
        /\ sections'[i].start + sections'[i].size <= OUTPUT_SIZE
    <3> PICK s \in Nat : s = sections'[i].start
      BY <1>1
    <3>1. s + sections'[i].size = to + size
      BY <1>1
    <3>2. to + size <= top
      BY <1>1, <1>2, <2>2
    <3>3. to + size <= output_size' /\ to + size <= OUTPUT_SIZE
      BY ONLY <1>1, <1>2, <2>1, <2>3, <3>2
    <3> QED
      BY <3>1, <3>3
  <2> QED
    BY <1>4, <2>1, <2>2, <2>4, <2>5 DEF Room
<1>7. CASE Reserves(h)
  <2>1. h.kind = "bss" /\ output_size' = output_size
    BY <1>7 DEF Reserves
  <2>2. \A j \in Loaded : j # i /\ sections'[j] = sections[j]
    BY <1>1, <1>3, <1>4, <2>1
  <2>3. Loaded' = Loaded
    BY <1>4, <2>1
  <2>4. Room'
    BY <2>1, <2>2, <2>3 DEF Room
  <2>5. ~Copies(h, to)
    BY <2>1 DEF Copies
  <2> QED
    BY <2>4, <2>5
<1> QED
  BY <1>6, <1>7

\* A section that was copied over stays so, and the step copies over no other section
\* than the ones that now overlap.
LEMMA OverlapsGrow ==
  ASSUME TypeInv, NEW i, NEW h, NEW base, NEW to, Grows(i, h, base, to), Uniform'
  PROVE  /\ \A j \in DOMAIN sections : Overwritten(j) => Overwritten(j)'
         /\ h.kind # "bss" =>
              \A j \in DOMAIN sections, b \in Nat :
                (/\ j # i /\ b \in Span(j) /\ to <= b /\ b < to + h.size) => Overwritten(j)'
<1>1. /\ \A j \in DOMAIN sections : Span(j) \subseteq Span(j)'
      /\ \A b : b \in Span(i)' <=> b \in Nat /\ sections'[i].start <= b /\ b < to + h.size
      /\ Loaded' = Loaded \cup (IF h.kind = "bss" THEN {} ELSE {i})
  BY GrownRows, GrownLoaded
<1>2. Loaded \subseteq DOMAIN sections
  BY DEF Loaded
<1>3. ASSUME NEW j \in DOMAIN sections, Overwritten(j)
      PROVE  Overwritten(j)'
  <2>1. PICK m \in Loaded \ {j} : Span(j) \cap Span(m) # {}
    BY <1>3 DEF Overwritten
  <2>2. Span(j)' \cap Span(m)' # {} /\ m \in Loaded'
    BY <1>1, <1>2, <2>1
  <2> QED
    BY <2>1, <2>2 DEF Overwritten
<1>4. ASSUME h.kind # "bss", NEW j \in DOMAIN sections, NEW b \in Nat,
             j # i, b \in Span(j), to <= b, b < to + h.size
      PROVE  Overwritten(j)'
  <2>1. sections'[i].start <= b
    <3>1. /\ base \in Nat /\ to \in Nat /\ sections'[i].start \in Nat
          /\ sections'[i].start + base = to
      BY DEF Grows
    <3> QED
      BY <1>4, <3>1
  <2>2. b \in Span(i)' /\ b \in Span(j)' /\ i \in Loaded'
    BY <1>1, <1>4, <2>1
  <2> QED
    BY <1>4, <2>2 DEF Overwritten
<1> QED
  BY <1>3, <1>4

LEMMA BytesInGrow ==
  ASSUME TypeInv, Unique', Inside, Room, BytesIn, Uniform', NEW i, NEW h, NEW base, NEW to,
         Grows(i, h, base, to), Copies(h, to) \/ Reserves(h)
  PROVE  BytesIn'
<1> USE DEF TypeInv
<1> PICK size \in Nat : size = h.size
  BY DEF Grows
<1>1. /\ base \in Nat /\ to \in Nat
      /\ DOMAIN sections' = DOMAIN sections \cup {i}
      /\ sections'[i].name = h.name /\ sections'[i].start + base = to
      /\ sections'[i].start \in Nat
      /\ i \in DOMAIN sections => base = sections[i].size /\ sections'[i].start = sections[i].start
      /\ i \notin DOMAIN sections => SectionsNamed(h.name) = {}
  BY DEF Grows
<1>2. \A j \in DOMAIN sections : /\ sections'[j].name = sections[j].name
                                 /\ sections'[j].start = sections[j].start
                                 /\ sections[j].start \in Nat /\ sections[j].size \in Nat
  BY GrownRows, Rows
<1>a. PICK new : Adds(new, h, base)
  BY PartAdded
<1>3. /\ new \in Nat /\ new = Len(parts) + 1
      /\ DOMAIN parts' = DOMAIN parts \cup {new}
      /\ \A n \in DOMAIN parts : parts'[n] = parts[n]
      /\ parts'[new].name = h.name /\ parts'[new].kind = h.kind
      /\ parts'[new].base = base /\ parts'[new].size = size
  BY <1>a DEF Adds
<1>4. DOMAIN output = 0..(OUTPUT_SIZE - 1) /\ OUTPUT_SIZE \in Nat /\ output_size \in Nat
  BY Numbers DEF Bytes
<1> PICK top \in Nat : top = output_size + size
  BY <1>4
<1> PICK padded : padded = Padded(h)
  OBVIOUS
<1>5. Copies(h, to) =>
        /\ h.kind # "bss" /\ to + size <= OUTPUT_SIZE /\ to <= output_size
        /\ output' = [b \in DOMAIN output |->
                        IF b \in top .. padded - 1 THEN Zero
                        ELSE IF b \in to .. to + size - 1 THEN Byte(new, b - to) ELSE output[b]]
  BY <1>3, RoomGrows DEF Copies
<1>6. Reserves(h) => h.kind = "bss" /\ output' = output
  BY DEF Reserves
<1>b. padded \in Nat
  BY Rounded, Numbers DEF Padded
\* the new part
<1>7. ASSUME h.kind # "bss", NEW k \in Nat, k < size
      PROVE  output'[sections'[i].start + base + k] = Byte(new, k)
  <2>1. Copies(h, to)
    BY <1>6, <1>7
  <2> PICK b \in Nat : b = to + k
    BY <1>1
  <2>2. b \in to .. to + size - 1 /\ b - to = k
    BY <1>1, <1>7
  <2>3. b < OUTPUT_SIZE /\ ~(b \in top .. padded - 1)
    BY <1>1, <1>4, <1>5, <1>7, <1>b, <2>1
  <2>4. b \in DOMAIN output
    BY <1>4, <2>3
  <2>5. output'[b] = Byte(new, k)
    BY <1>5, <2>1, <2>2, <2>3, <2>4
  <2>6. sections'[i].start + base + k = b
    BY <1>1
  <2> QED
    BY <2>5, <2>6
<1>8. ASSUME h.kind # "bss"
      PROVE  IntactIn(new, i)'
  <2>1. \A k \in 0..(size - 1) : output'[sections'[i].start + base + k] = Byte(new, k)
    BY <1>7, <1>8
  <2> QED
    BY <1>3, <2>1 DEF IntactIn
\* the parts that are there already
<1>9. ASSUME NEW n \in Progbits, NEW j \in DOMAIN sections, sections[j].name = parts[n].name
      PROVE  IntactIn(n, j)' \/ Overwritten(j)'
  <2>0. n \in DOMAIN parts /\ parts[n].kind # "bss" /\ parts'[n] = parts[n]
    BY <1>3 DEF Progbits
  <2> PICK pb \in Nat, ps \in Nat : pb = parts[n].base /\ ps = parts[n].size
    BY <2>0, PartRows
  <2>1. j \in SectionsNamed(parts[n].name)
    BY <1>9 DEF SectionsNamed
  <2>2. IntactIn(n, j) \/ Overwritten(j)
    BY <2>1 DEF BytesIn
  <2>3. pb + ps <= sections[j].size
    BY <2>0, <2>1 DEF Inside
  <2>4. Overwritten(j) => Overwritten(j)'
    BY OverlapsGrow
  <2>5. j \in Loaded
    <3>1. Kind(j) = Kind(j)' /\ j \in (SectionsNamed(parts[n].name))'
      BY <1>1, <1>2, <1>9, <2>0, GrownRows DEF Kind, SectionsNamed
    <3>2. n \in DOMAIN parts'
      BY <1>3, <2>0
    <3>3. Kind(j)' = "bss" <=> parts'[n].kind = "bss"
      BY <3>1, <3>2 DEF Uniform
    <3> QED
      BY <1>9, <2>0, <3>1, <3>3 DEF Loaded
  <2> PICK s \in Nat, w \in Nat : s = sections[j].start /\ w = sections[j].size
    BY <1>2
  <2>6. s + w <= OUTPUT_SIZE /\ s + w <= output_size
    BY <2>5 DEF Room
  <2>7. ASSUME IntactIn(n, j), ~Overwritten(j)', NEW k \in 0..(ps - 1)
        PROVE  output'[s + pb + k] = Byte(n, k)
    <3>1. k \in Nat /\ k < ps
      BY <2>7
    <3> PICK b \in Nat : b = s + pb + k
      BY <3>1
    <3>2. s <= b /\ b < s + w
      BY <2>3, <3>1
    <3>3. b < OUTPUT_SIZE /\ ~(b \in top .. padded - 1)
      <4>1. b < OUTPUT_SIZE /\ b < output_size
        BY ONLY <1>4, <2>6, <3>2
      <4>2. output_size <= top
        BY <1>4
      <4> QED
        BY ONLY <1>4, <1>b, <4>1, <4>2
    <3>4. b \in DOMAIN output /\ output[b] = Byte(n, k)
      BY <1>4, <2>7, <3>3 DEF IntactIn
    <3>5. CASE Reserves(h)
      BY <1>6, <3>4, <3>5
    <3>6. CASE Copies(h, to)
      <4>1. ~(to <= b /\ b < to + size)
        <5>1. CASE j = i
          <6>1. sections'[i].start = s /\ base = w
            BY <1>1, <1>2, <5>1
          <6>2. s + w = to
            BY <1>1, <6>1
          <6> QED
            BY <1>1, <3>2, <6>2
        <5>2. CASE j # i
          <6>1. b \in Span(j)
            <7>1. b \in s..(s + w - 1)
              BY <3>2
            <7> QED
              BY <7>1 DEF Span
          <6> QED
            BY <1>5, <2>7, <3>6, <5>2, <6>1, OverlapsGrow
        <5> QED
          BY <5>1, <5>2
      <4>2. ~(b \in to .. to + size - 1)
        BY <1>1, <4>1
      <4> QED
        BY <1>5, <3>3, <3>4, <3>6, <4>2
    <3> QED
      BY <3>5, <3>6
  <2>8. IntactIn(n, j) /\ ~Overwritten(j)' => IntactIn(n, j)'
    BY <1>2, <2>0, <2>7 DEF IntactIn
  <2> QED
    BY <2>2, <2>4, <2>8
<1>10. ASSUME NEW n \in DOMAIN parts, NEW j \in DOMAIN sections', sections'[j].name = parts[n].name
       PROVE  j \in DOMAIN sections /\ sections[j].name = parts[n].name
  <2>1. SectionsNamed(parts[n].name) # {}
    BY DEF Parts
  <2>2. j \notin DOMAIN sections => j = i /\ SectionsNamed(h.name) = {} /\ parts[n].name = h.name
    BY <1>1, <1>10
  <2> QED
    BY <1>2, <1>10, <2>1, <2>2
<1>11. ASSUME NEW n \in Progbits', NEW j \in DOMAIN sections', sections'[j].name = parts'[n].name
       PROVE  IntactIn(n, j)' \/ Overwritten(j)'
  <2>0. n \in DOMAIN parts' /\ parts'[n].kind # "bss"
    BY <1>11 DEF Progbits
  <2>1. CASE n \in DOMAIN parts
    <3>1. n \in Progbits /\ parts'[n] = parts[n]
      BY <1>3, <2>0, <2>1 DEF Progbits
    <3> QED
      BY <1>9, <1>10, <1>11, <2>1, <3>1
  <2>2. CASE n = new
    <3>1. j = i
      BY <1>1, <1>3, <1>11, <2>2 DEF Unique
    <3> QED
      BY <1>3, <1>8, <2>0, <2>2, <3>1
  <2> QED
    BY <1>3, <2>0, <2>1, <2>2
<1> QED
  BY <1>11 DEF BytesIn, SectionsNamed

LEMMA FreeGrows ==
  ASSUME TypeInv, Named, Room, Free, Uniform', Once', NEW i, NEW h, NEW base, NEW to,
         Grows(i, h, base, to), Copies(h, to) \/ Reserves(h)
  PROVE  Free'
<1> USE DEF TypeInv
<1> PICK size \in Nat : size = h.size
  BY DEF Grows
<1>1. /\ base \in Nat /\ to \in Nat
      /\ \A j \in DOMAIN sections : j # i => sections'[j] = sections[j]
      /\ sections'[i].start + base = to /\ sections'[i].start \in Nat
      /\ i \notin DOMAIN sections => base = 0 /\ to = output_size
  BY DEF Grows
<1>2. /\ i \in DOMAIN sections => sections[i].name = h.name
      /\ \A b : b \in Span(i)' <=> b \in Nat /\ sections'[i].start <= b /\ b < to + size
      /\ Loaded' = Loaded \cup (IF h.kind = "bss" THEN {} ELSE {i})
  BY GrownRows, GrownLoaded
<1>3. i \notin DOMAIN sections
  <2> SUFFICES ASSUME i \in DOMAIN sections PROVE FALSE
    OBVIOUS
  <2>1. PICK n \in DOMAIN parts : parts[n].name = h.name
    BY <1>2 DEF Named
  <2>2. PICK new : Adds(new, h, base)
    BY PartAdded
  <2>3. /\ new \notin DOMAIN parts /\ new \in DOMAIN parts' /\ n \in DOMAIN parts'
        /\ parts'[n] = parts[n] /\ parts'[new].name = h.name
    BY <2>2 DEF Adds
  <2>4. n = new
    BY <2>1, <2>3 DEF Once
  <2> QED
    BY <2>3, <2>4
<1>4. \A n \in Loaded : n # i /\ n \in DOMAIN sections /\ Span(n)' = Span(n)
  BY <1>1, <1>3 DEF Loaded, Span
<1> SUFFICES ASSUME NEW j \in Loaded', NEW m \in Loaded', j # m, Span(j)' \cap Span(m)' # {}
             PROVE  FALSE
  <2>1. (\A j \in Loaded' : \A m \in Loaded' \ {j} : Span(j)' \cap Span(m)' = {}) => Free'
    BY DEF Free, Overwritten
  <2> QED
    BY <2>1
<1>5. ~(j \in Loaded /\ m \in Loaded)
  <2> SUFFICES ASSUME j \in Loaded, m \in Loaded PROVE FALSE
    OBVIOUS
  <2>1. Span(j) \cap Span(m) # {}
    BY <1>4
  <2> QED
    BY <2>1 DEF Free, Overwritten
<1>6. ASSUME NEW n \in Loaded
      PROVE  Span(n)' \cap Span(i)' = {}
  <2> PICK s \in Nat, w \in Nat : s = sections[n].start /\ w = sections[n].size
    BY <1>4, Rows
  <2>1. s + w <= output_size
    BY DEF Room
  <2>2. Span(n)' = s..(s + w - 1)
    BY <1>4 DEF Span
  <2>3. \A b \in Span(i)' : b \in Nat /\ output_size <= b
    BY <1>1, <1>2, <1>3
  <2>4. output_size \in Nat
    BY DEF Bytes
  <2>5. \A b \in s..(s + w - 1) : b < output_size
    BY <2>1, <2>4
  <2>6. \A b \in Nat : ~(output_size <= b /\ b < output_size)
    BY <2>4
  <2> QED
    BY <2>2, <2>3, <2>5, <2>6
<1> QED
  BY <1>2, <1>5, <1>6

LEMMA BytesMove ==
  ASSUME TypeInv, BytesInv, [Next]_vars
  PROVE  BytesInv'
<1>1. CASE Collects
  <2>1. PICK i, h, base, to : Grows(i, h, base, to) /\ (Copies(h, to) \/ Reserves(h))
    BY <1>1, CollectGrows
  <2>2. Unique' /\ Inside' /\ Tiled' /\ Named'
    BY <2>1, PartsGrow
  <2>3. ASSUME Uniform'
        PROVE  Room' /\ BytesIn' /\ (Once' => Free')
    <3>1. Uniform /\ (Once' => Once)
      BY <2>3, AgreedBefore
    <3>2. Inside /\ Named /\ Room /\ BytesIn /\ (Once => Free)
      BY <3>1 DEF BytesInv
    <3>3. Room' /\ BytesIn'
      BY <2>1, <2>2, <2>3, <3>2, RoomGrows, BytesInGrow
    <3>4. Once' => Free'
      BY <2>1, <2>3, <3>1, <3>2, FreeGrows
    <3> QED
      BY <3>3, <3>4
  <2> QED
    BY <2>2, <2>3 DEF BytesInv
<1>2. CASE ~Collects
  BY <1>2, BytesStayed
<1> QED
  BY <1>1, <1>2

\* sections, and where their bytes are, with what the other invariants add
BytesAre == TypeInv /\ BytesInv

LEMMA InBytes == Spec => []BytesAre
<1>1. Init => BytesInv
  <2> SUFFICES ASSUME Init PROVE BytesInv
    OBVIOUS
  <2>1. DOMAIN sections = {} /\ DOMAIN parts = {}
    BY DEF Init
  <2>2. Loaded = {} /\ Progbits = {}
    BY <2>1 DEF Loaded, Progbits
  <2> QED
    BY <2>1, <2>2 DEF BytesInv, Unique, Inside, Tiled, Named, Room, BytesIn, Free
<1>2. TypeInv /\ BytesInv /\ [Next]_vars => BytesInv'
  BY BytesMove
<1> QED
  BY <1>1, <1>2, Typed, PTL DEF Spec, BytesAre

\* process_object() puts every byte where the section has room for it: when the headers
\* of a name agree, a part is lost only under another section, and never when no name is
\* read twice.
THEOREM KeptCorrect == Spec => []BytesKept
<1>1. BytesAre => BytesKept
  <2> SUFFICES ASSUME BytesAre, Uniform PROVE BytesKept
    BY DEF BytesKept
  <2>1. BytesIn /\ Room /\ (Once => Free)
    BY DEF BytesAre, BytesInv
  <2>2. ASSUME NEW n \in Progbits, ~ \E i \in SectionsNamed(parts[n].name) : Overwritten(i)
        PROVE  Intact(n)
    BY <2>1, <2>2 DEF Intact, BytesIn, IntactIn
  <2>3. \A i \in Loaded : sections[i].start + sections[i].size <= output_size
    BY <2>1 DEF Room
  <2>4. (\A m, n \in DOMAIN parts : parts[m].name = parts[n].name => m = n) =>
          \A i \in Loaded : ~Overwritten(i)
    BY <2>1 DEF Once, Free
  <2> QED
    BY <2>2, <2>3, <2>4 DEF BytesKept
<1> QED
  BY <1>1, InBytes, PTL

-----------------------------------------------------------------------------
(* What symbols and relocations lead to *)

\* a place in the linker's table that a file gave: the last byte of its part of a section
Located(n, section, value) ==
  n \in DOMAIN parts /\ section \in SectionsNamed(parts[n].name) /\ value = LastByte(n)
Patched(n, section, offset) ==
  Located(n, section, offset) /\ parts[n].kind # "bss" /\ parts[n].size > 0
EntrySays(f, j) ==
  own[f][j].section # 0 => Located(own[f][j].part, own[f][j].section, own[f][j].value)
EntriesSay == \A f \in DOMAIN own : \A j \in DOMAIN own[f] : EntrySays(f, j)
RelocSays(j) == Patched(relocs[j].part, relocs[j].section, relocs[j].offset)
RelocsSay == \A j \in DOMAIN relocs : RelocSays(j)

LEMMA PlacesStay ==
  ASSUME TypeInv, [Next]_vars
  PROVE  /\ \A n, s, v : Located(n, s, v) => Located(n, s, v)'
         /\ \A n, s, o : Patched(n, s, o) => Patched(n, s, o)'
<1>1. DOMAIN parts \subseteq DOMAIN parts' /\ \A n \in DOMAIN parts : parts'[n] = parts[n]
  BY PartsStay
<1>2. \A name : SectionsNamed(name) \subseteq SectionsNamed(name)'
  BY Grown
<1>3. ASSUME NEW n, NEW s, NEW v, Located(n, s, v)
      PROVE  Located(n, s, v)'
  <2>1. n \in DOMAIN parts' /\ parts'[n] = parts[n]
    BY <1>1, <1>3 DEF Located
  <2> PICK name : name = parts[n].name
    OBVIOUS
  <2>2. s \in SectionsNamed(name)'
    BY <1>2, <1>3 DEF Located
  <2>3. s \in (SectionsNamed(parts[n].name))'
    BY <2>1, <2>2
  <2>4. LastByte(n)' = LastByte(n)
    BY <2>1 DEF LastByte
  <2> QED
    BY <1>3, <2>1, <2>3, <2>4 DEF Located
<1>4. ASSUME NEW n, NEW s, NEW o, Patched(n, s, o)
      PROVE  Patched(n, s, o)'
  <2>1. Located(n, s, o)' /\ parts'[n] = parts[n]
    BY <1>1, <1>3, <1>4 DEF Patched, Located
  <2> QED
    BY <1>4, <2>1 DEF Patched
<1> QED
  BY <1>3, <1>4

LEMMA EntriesSayStep ==
  ASSUME TypeInv, EntriesSay, [Next]_vars
  PROVE  EntriesSay'
<1> USE DEF TypeInv
<1>0. Unnamed \in EntryType /\ Unnamed.section = 0
  BY DEF Unnamed, Entry, EntryType
<1>1. ASSUME NEW f \in DOMAIN own, NEW j \in DOMAIN own[f]
      PROVE  EntrySays(f, j)'
  <2> PICK e : e = own[f][j]
    OBVIOUS
  <2>1. own'[f][j] = e
    BY EntriesStay
  <2>2. e.section # 0 => Located(e.part, e.section, e.value)
    BY <1>1 DEF EntriesSay, EntrySays
  <2>3. e.section # 0 => Located(e.part, e.section, e.value)'
    <3> PICK n, s, v : n = e.part /\ s = e.section /\ v = e.value
      OBVIOUS
    <3> QED
      BY <2>2, PlacesStay
  <2> QED
    BY <2>1, <2>3 DEF EntrySays
\* an entry more in the table of the file being read
<1>2. ASSUME NEW x, Lists(x), x.section # 0 => Located(x.part, x.section, x.value)'
      PROVE  EntriesSay'
  <2> SUFFICES ASSUME NEW f \in DOMAIN own', NEW j \in DOMAIN own'[f]
               PROVE  EntrySays(f, j)'
    BY DEF EntriesSay
  <2>1. f \in DOMAIN own
    BY <1>2 DEF Lists
  <2>2. CASE j \in DOMAIN own[f]
    BY <1>1, <2>1, <2>2
  <2>3. CASE j \notin DOMAIN own[f]
    <3>1. f = nfile
      BY <1>2, <2>1, <2>3 DEF Lists
    <3> PICK n \in Nat : n = Len(own[nfile])
      BY <1>2 DEF Lists
    <3>2. DOMAIN own[nfile] = 1..n /\ DOMAIN own'[nfile] = 1..(n + 1)
      BY <1>2 DEF Lists
    <3>3. j = n + 1
      BY <2>3, <3>1, <3>2
    <3>4. own'[f][j] = x
      BY <1>2, <3>1, <3>3 DEF Lists
    <3> QED
      BY <1>2, <3>4 DEF EntrySays
  <2> QED
    BY <2>2, <2>3
<1>3. CASE UNCHANGED own
  BY <1>1, <1>3 DEF EntriesSay
<1>4. CASE OpenObject
  <2>1. own' = Append(own, <<Unnamed>>) /\ own \in Seq(Seq(EntryType))
    BY <1>4 DEF OpenObject, Files
  <2> PICK x \in EntryType : x = Unnamed
    BY <1>0
  <2> PICK s : s = <<x>>
    OBVIOUS
  <2>2. s \in Seq(EntryType) /\ DOMAIN s = {1} /\ s[1] = x
    OBVIOUS
  <2> PICK u : u = own'
    OBVIOUS
  <2>3. u = Append(own, s)
    BY <2>1
  <2>4. /\ DOMAIN u = DOMAIN own \cup {Len(own) + 1}
        /\ u[Len(own) + 1] = s /\ \A f \in DOMAIN own : u[f] = own[f]
    BY ONLY <2>1, <2>2, <2>3, Appended
  <2>5. \A f \in DOMAIN own' : \A j \in DOMAIN own'[f] :
          (f \in DOMAIN own /\ j \in DOMAIN own[f]) \/ own'[f][j].section = 0
    BY <1>0, <2>2, <2>4
  <2> QED
    BY <1>1, <2>5 DEF EntriesSay, EntrySays
<1>5. CASE CollectLocal
  <2>1. phase = "symbols" /\ own' = [own EXCEPT ![nfile] = Append(@, Unnamed)]
    BY <1>5 DEF CollectLocal, MoreEntries, Running
  <2>2. Lists(Unnamed)
    BY <1>0, <2>1, EntryAdded
  <2> QED
    BY <1>0, <1>2, <2>2
<1>6. CASE CollectGlobal
  <2>1. PICK i, e : Enters(i, e)
    BY <1>6, GlobalEnters
  <2>2. phase = "symbols" /\ e \in EntryType /\ own' = [own EXCEPT ![nfile] = Append(@, e)]
    BY <1>6, <2>1, GlobalEnters DEF Enters, GlobalOf, Running
  <2>3. Lists(e)
    BY <2>2, EntryAdded
  <2>4. e.section # 0 => Located(e.part, e.section, e.value)
    BY <2>1 DEF Enters, GlobalOf, Located, Here
  <2> PICK n, s, v : n = e.part /\ s = e.section /\ v = e.value
    OBVIOUS
  <2>5. Located(n, s, v) => Located(n, s, v)'
    BY PlacesStay
  <2>6. e.section # 0 => Located(e.part, e.section, e.value)'
    BY <2>4, <2>5
  <2> QED
    BY <1>2, <2>3, <2>6
<1> QED
  BY <1>3, <1>4, <1>5, <1>6, Touched

LEMMA RelocsSayStep ==
  ASSUME TypeInv, RelocsSay, [Next]_vars
  PROVE  RelocsSay'
<1>1. ASSUME NEW r, Patched(r.part, r.section, r.offset)
      PROVE  Patched(r.part, r.section, r.offset)'
  <2> PICK n, s, o : n = r.part /\ s = r.section /\ o = r.offset
    OBVIOUS
  <2> QED
    BY <1>1, PlacesStay
<1>2. CASE UNCHANGED relocs
  <2> SUFFICES ASSUME NEW j \in DOMAIN relocs
               PROVE  RelocSays(j)'
    BY <1>2 DEF RelocsSay
  <2> PICK r : r = relocs[j]
    OBVIOUS
  <2> QED
    BY <1>1, <1>2 DEF RelocsSay, RelocSays
<1>3. CASE CollectReloc
  <2>1. PICK r : Relocates(r)
    BY <1>3, RelocRelocates
  <2>2. Patched(r.part, r.section, r.offset)
    BY <2>1 DEF Relocates, Patched, Located, Relocated, Here
  <2>3. relocs' = Append(relocs, r) /\ r \in Relocation /\ relocs \in Seq(Relocation)
    BY <2>1 DEF Relocates, TypeInv, RelocTable
  <2>4. \A i \in DOMAIN relocs' : (i \in DOMAIN relocs /\ relocs'[i] = relocs[i]) \/ relocs'[i] = r
    BY <2>3
  <2> SUFFICES ASSUME NEW j \in DOMAIN relocs'
               PROVE  RelocSays(j)'
    BY DEF RelocsSay
  <2> PICK q : q = relocs'[j]
    OBVIOUS
  <2>5. Patched(q.part, q.section, q.offset)
    BY <2>2, <2>4 DEF RelocsSay, RelocSays
  <2> QED
    BY <1>1, <2>5 DEF RelocSays
<1> QED
  BY <1>2, <1>3, Touched

\* The byte at a part's own offset is that part's exactly when the part is the first.
LEMMA OwnByte ==
  ASSUME BytesAre, Uniform, NEW n \in Progbits, NEW s \in SectionsNamed(parts[n].name),
         NEW v, v = LastByte(n), parts[n].size > 0, ~Overwritten(s)
  PROVE  Holds(s, v, n, v) <=> parts[n].base = 0
<1>0. TypeInv /\ Inside /\ Tiled /\ BytesIn
  BY DEF BytesAre, BytesInv
<1>1. n \in DOMAIN parts /\ parts[n].kind # "bss"
  BY DEF Progbits
<1> PICK name : name = parts[n].name
  OBVIOUS
<1> PICK pb \in Nat, ps \in Nat : pb = parts[n].base /\ ps = parts[n].size
  BY <1>0, <1>1, PartRows
<1>2. v \in Nat /\ v = ps - 1
  BY <1>0, <1>1, PartRows
<1>3. s \in DOMAIN sections /\ sections[s].name = name /\ Kind(s) # "bss"
  BY <1>1 DEF SectionsNamed, Uniform
<1> PICK w \in Nat, b \in Nat : w = sections[s].size /\ b = sections[s].start
  BY <1>0, <1>3, Rows DEF TypeInv
<1>4. ASSUME NEW q \in DOMAIN parts, parts[q].name = name
      PROVE  IntactIn(q, s)
  <2>1. s \in SectionsNamed(parts[q].name)
    BY <1>3, <1>4 DEF SectionsNamed
  <2>2. q \in Progbits
    BY <1>3, <2>1 DEF Uniform, Progbits
  <2> QED
    BY <1>0, <2>1, <2>2 DEF BytesIn
<1>5. ASSUME pb = 0
      PROVE  Holds(s, v, n, v)
  <2>1. output[b + pb + v] = Byte(n, v)
    <3>1. v \in 0..(ps - 1)
      BY <1>2
    <3> QED
      BY <1>1, <1>4, <3>1 DEF IntactIn
  <2>2. b + pb + v = b + v
    BY <1>2, <1>5
  <2> QED
    BY <2>1, <2>2 DEF Holds
<1>6. ASSUME Holds(s, v, n, v)
      PROVE  pb = 0
  <2>1. v < w
    <3>1. pb + ps <= w
      BY <1>0, <1>1 DEF Inside
    <3> QED
      BY <1>2, <3>1
  <2>2. PICK q \in DOMAIN parts : Holder(q, s, v)
    BY <1>0, <1>2, <1>3, <2>1 DEF Tiled
  <2> PICK qb \in Nat, qs \in Nat : qb = parts[q].base /\ qs = parts[q].size
    BY <1>0, PartRows
  <2>3. parts[q].name = name /\ qb <= v /\ v < qb + qs
    BY <1>3, <2>2 DEF Holder
  <2> PICK k \in Nat : k = v - qb
    BY <1>2, <2>3
  <2>4. output[b + qb + k] = Byte(q, k)
    <3>1. k \in 0..(qs - 1)
      BY <1>2, <2>3
    <3> QED
      BY <1>4, <2>3, <3>1 DEF IntactIn
  <2>5. b + qb + k = b + v
    BY <1>2, <2>3
  <2>6. Byte(q, k) = Byte(n, v)
    BY <1>6, <2>4, <2>5 DEF Holds
  <2>7. q = n /\ k = v
    BY <2>6 DEF Byte
  <2>8. qb = pb
    BY <2>7
  <2> QED
    BY <1>2, <2>3, <2>7, <2>8
<1> QED
  BY <1>5, <1>6

LEMMA InPlaces == Spec => [](EntriesSay /\ RelocsSay)
<1>1. Init => EntriesSay /\ RelocsSay
  BY DEF Init, EntriesSay, RelocsSay
<1>2. TypeInv /\ (EntriesSay /\ RelocsSay) /\ [Next]_vars => (EntriesSay /\ RelocsSay)'
  BY EntriesSayStep, RelocsSayStep
<1> QED
  BY <1>1, <1>2, Typed, PTL DEF Spec

\* Values and offsets count from a file's own part of a section and are used from the
\* section's start: outside of what was copied over, a symbol leads to the byte its file
\* gave it, and a relocation patches its file's byte, exactly when that part comes first.
THEOREM OwnCorrect == Spec => []OwnPartOnly
<1>1. ASSUME BytesAre, Uniform, NamesInv, EntriesSay, NEW i \in DOMAIN symbols,
             symbols[i].section \in Loaded
      PROVE  LET n == Meant(First(symbols[i].name)).part
             IN \/ Overwritten(symbols[i].section) \/ parts[n].size = 0
                \/ Holds(symbols[i].section, symbols[i].value, n, symbols[i].value)
                   <=> parts[n].base = 0
  <2>0. TypeInv
    BY <1>1 DEF BytesAre
  <2> PICK m : m = First(symbols[i].name)
    OBVIOUS
  <2>1. /\ m[1] \in DOMAIN own /\ m[2] \in DOMAIN own[m[1]]
        /\ symbols[i].section = Meant(m).section /\ symbols[i].value = Meant(m).value
    BY <1>1, <2>0, FirstMention DEF NamesInv, Recorded
  <2> PICK s, v, n : s = symbols[i].section /\ v = symbols[i].value /\ n = Meant(m).part
    OBVIOUS
  <2>2. s \in DOMAIN sections /\ Kind(s) # "bss" /\ s # 0
    BY <1>1, <2>0, Rows DEF Loaded, TypeInv
  <2>3. Located(n, s, v)
    BY <1>1, <2>1, <2>2 DEF EntriesSay, EntrySays, Meant
  <2>4. /\ n \in DOMAIN parts /\ s \in SectionsNamed(parts[n].name) /\ v = LastByte(n)
        /\ parts[n].size \in Nat
    BY <2>0, <2>3, PartRows DEF Located
  <2>5. n \in Progbits
    BY <1>1, <2>2, <2>4 DEF Uniform, Progbits
  <2>6. \/ Overwritten(s) \/ parts[n].size = 0
        \/ Holds(s, v, n, v) <=> parts[n].base = 0
    BY <1>1, <2>4, <2>5, OwnByte
  <2> QED
    BY <2>6
<1>2. ASSUME BytesAre, Uniform, RelocsSay, NEW j \in DOMAIN relocs
      PROVE  LET r == relocs[j]
             IN \/ Overwritten(r.section)
                \/ Holds(r.section, r.offset, r.part, r.offset) <=> parts[r.part].base = 0
  <2> PICK s, v, n : s = relocs[j].section /\ v = relocs[j].offset /\ n = relocs[j].part
    OBVIOUS
  <2>1. Patched(n, s, v)
    BY <1>2 DEF RelocsSay, RelocSays
  <2>2. /\ n \in Progbits /\ s \in SectionsNamed(parts[n].name) /\ v = LastByte(n)
        /\ parts[n].size > 0
    BY <2>1 DEF Patched, Located, Progbits
  <2>3. Overwritten(s) \/ (Holds(s, v, n, v) <=> parts[n].base = 0)
    BY <1>2, <2>2, OwnByte
  <2> QED
    BY <2>3
<1>3. BytesAre /\ (Fresh /\ NamesInv) /\ (EntriesSay /\ RelocsSay) => OwnPartOnly
  BY <1>1, <1>2 DEF OwnPartOnly
<1> QED
  BY <1>3, InBytes, InNames, InPlaces, PTL
=============================================================================
