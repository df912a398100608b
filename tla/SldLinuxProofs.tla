--------------------------- MODULE SldLinuxProofs ---------------------------
(***************************************************************************)
(* Theorems about SldLinux, for every list of objects and every limit: the *)
(* types of the linker's tables, that the program in memory is the file it *)
(* wrote, and what comes of its numbering of sections and symbols.         *)
(***************************************************************************)
EXTENDS SldLinux, TLAPS, WellFoundedInduction

Section == [offset : Nat, size : Sizes, addr : Nat]
Symbol == [name : Names, value : Values \cup {0}, section : Nat]
Reloc == [offset : Values, type : {"64", "PC32", "other"}, symbol : Nat, section : Int]
TableEntry == [name : Names \cup {""}, value : Values \cup {0}, section : Nat]
Origin == [file : Nat, entry : Nat, section : Nat]
PatchRow == [place : Nat, width : {4, 8}, value : Int]

-----------------------------------------------------------------------------
(* Types *)

\* What TypeOK leaves out: when a file has a symbol table, the history of where
\* things come from, and that a relocation is applied once.
Books ==
  /\ Len(entries) = IF phase = "sections" THEN nfile - 1 ELSE nfile
  /\ phase \in {"sections", "symbols", "relocs"} => nfile >= 1
  /\ sources \in [symbols : Seq(Origin), relocs : Seq(Origin)]
  /\ IF phase = "apply" THEN Len(patches) < at /\ at <= Len(relocs) + 1
                        ELSE patches = <<>>

TypeInv == TypeOK /\ Books

Less == {p \in Nat \X Nat : p[1] < p[2]}
\* A set of numbers that is not empty has a least one.
LEMMA LeastOf ==
  ASSUME NEW S, S \subseteq Nat, S # {}
  PROVE  \E i \in S : \A j \in S : i <= j
<1>1. OpToRel(<, Nat) = Less
  BY DEF OpToRel, Less
<1>2. IsWellFoundedOn(Less, Nat)
  BY <1>1, NatLessThanWellFounded
<1>3. PICK i \in S : \A j \in S : ~(<<j, i>> \in Less)
  BY <1>2, WFMin
<1>4. \A j \in S : i <= j
  <2> SUFFICES ASSUME NEW j \in S PROVE i <= j
    OBVIOUS
  <2>1. i \in Nat /\ j \in Nat
    OBVIOUS
  <2>2. j < i => <<j, i>> \in Less
    BY <2>1 DEF Less
  <2> QED
    BY <1>3, <2>1, <2>2
<1> QED
  BY <1>4

\* The constants are numbers of the right kind.
LEMMA Numbers ==
  /\ MaxFiles \in Nat /\ MAX_SECTIONS \in Nat /\ BUF_SIZE \in Nat
  /\ MAX_SYMBOLS \in Nat /\ MAX_RELOCS \in Nat
  /\ ALIGN \in Nat \ {0} /\ PAGE_SIZE \in Nat \ {0} /\ PAGE_SIZE % ALIGN = 0
  /\ \A v \in Values \cup {0} : v \in Nat
  /\ \A s \in Sizes : s \in Nat
BY NumbersAssumption

\* The tables, row by row.
LEMMA Rows ==
  ASSUME TypeOK
  PROVE  /\ sections \in Seq(Section) /\ Len(sections) \in Nat
         /\ DOMAIN sections = 1..Len(sections)
         /\ \A i \in DOMAIN sections :
              /\ sections[i] \in Section /\ sections[i].offset \in Nat
              /\ sections[i].size \in Nat /\ sections[i].addr \in Nat
         /\ symbols \in Seq(Symbol) /\ Len(symbols) \in Nat
         /\ DOMAIN symbols = 1..Len(symbols)
         /\ \A i \in DOMAIN symbols :
              /\ symbols[i] \in Symbol /\ symbols[i].value \in Nat
              /\ symbols[i].section \in Nat
         /\ output_size \in Nat
<1>1. sections \in Seq(Section) /\ symbols \in Seq(Symbol)
  BY DEF TypeOK, Section, Symbol
<1>2. /\ Len(sections) \in Nat /\ DOMAIN sections = 1..Len(sections)
      /\ Len(symbols) \in Nat /\ DOMAIN symbols = 1..Len(symbols)
  BY <1>1
<1>3. /\ \A i \in DOMAIN sections : sections[i] \in Section
      /\ \A i \in DOMAIN symbols : symbols[i] \in Symbol
  BY <1>1, <1>2
<1>4. \A s \in Section : s.offset \in Nat /\ s.size \in Nat /\ s.addr \in Nat
  BY Numbers DEF Section
<1>5. \A s \in Symbol : s.value \in Nat /\ s.section \in Nat
  BY Numbers DEF Symbol
<1>6. output_size \in Nat
  <2>1. output_size \in 0..BUF_SIZE
    BY DEF TypeOK
  <2> QED
    BY <2>1, Numbers
<1> QED
  BY <1>1, <1>2, <1>3, <1>4, <1>5, <1>6

\* The object files, as far as they were read.
LEMMA Files ==
  ASSUME TypeInv
  PROVE  /\ nfile \in Nat /\ headers \in Seq(Seq(Int)) /\ Len(headers) = nfile
         /\ DOMAIN headers = 1..nfile
         /\ \A f \in DOMAIN headers :
              /\ headers[f] \in Seq(Int) /\ Len(headers[f]) \in Nat
              /\ DOMAIN headers[f] = 1..Len(headers[f])
         /\ entries \in Seq(Seq(TableEntry)) /\ Len(entries) \in Nat
         /\ DOMAIN entries = 1..Len(entries)
         /\ \A f \in DOMAIN entries :
              /\ entries[f] \in Seq(TableEntry) /\ Len(entries[f]) \in Nat
              /\ DOMAIN entries[f] = 1..Len(entries[f])
         /\ relocs \in Seq(Reloc) /\ Len(relocs) \in Nat /\ DOMAIN relocs = 1..Len(relocs)
         /\ sources.symbols \in Seq(Origin) /\ sources.relocs \in Seq(Origin)
<1>1. headers \in Seq(Seq(Int)) /\ Len(headers) = nfile /\ nfile \in Nat
  <2>1. headers \in Seq(Seq(Int)) /\ Len(headers) = nfile
    BY DEF TypeInv, TypeOK
  <2> QED
    BY <2>1
<1>2. entries \in Seq(Seq(TableEntry)) /\ relocs \in Seq(Reloc)
  BY DEF TypeInv, TypeOK, TableEntry, Reloc
<1>3. sources.symbols \in Seq(Origin) /\ sources.relocs \in Seq(Origin)
  BY DEF TypeInv, Books
<1>4. /\ DOMAIN headers = 1..nfile /\ Len(entries) \in Nat /\ DOMAIN entries = 1..Len(entries)
      /\ Len(relocs) \in Nat /\ DOMAIN relocs = 1..Len(relocs)
  BY <1>1, <1>2
<1>5. \A f \in DOMAIN headers : headers[f] \in Seq(Int)
  BY <1>1, <1>4
<1>6. \A f \in DOMAIN entries : entries[f] \in Seq(TableEntry)
  BY <1>2, <1>4
<1>7. /\ \A f \in DOMAIN headers :
           Len(headers[f]) \in Nat /\ DOMAIN headers[f] = 1..Len(headers[f])
      /\ \A f \in DOMAIN entries :
           Len(entries[f]) \in Nat /\ DOMAIN entries[f] = 1..Len(entries[f])
  BY <1>5, <1>6
<1> QED
  BY <1>1, <1>2, <1>3, <1>4, <1>5, <1>6, <1>7

\* Where the linker looks behind its tables it finds zeroes.
LEMMA Lookups ==
  ASSUME TypeOK, NEW i \in Int
  PROVE  /\ SectionAt(i).offset \in Nat /\ SectionAt(i).addr \in Nat
         /\ SymbolAt(i).value \in Nat /\ SymbolAt(i).section \in Nat
         /\ AddressOf(SymbolAt(i)) \in Nat
<1>1. \A j \in Int : SectionAt(j).offset \in Nat /\ SectionAt(j).addr \in Nat
  BY Rows DEF SectionAt, NoSection
<1>2. SymbolAt(i).value \in Nat /\ SymbolAt(i).section \in Nat
  BY Rows DEF SymbolAt, Unnamed, SHN_UNDEF
<1>3. SectionAt(SymbolAt(i).section).addr \in Nat
  BY <1>1, <1>2
<1>4. AddressOf(SymbolAt(i)) \in Nat
  BY <1>2, <1>3 DEF AddressOf
<1> QED
  BY <1>1, <1>2, <1>4

\* A quotient is the largest number of times the divisor goes into the dividend.
LEMMA Divided ==
  ASSUME NEW x \in Nat, NEW d \in Nat, NEW q \in Nat, d > 0, q = x \div d
  PROVE  q * d <= x /\ x < (q + 1) * d
OBVIOUS

\* ALIGN rounds up.
LEMMA Rounded ==
  ASSUME NEW n \in Nat
  PROVE  /\ RoundUp(n) \in Nat /\ RoundUp(n) >= n /\ RoundUp(n) % ALIGN = 0
         /\ RoundUp(PAGE_SIZE + n) = PAGE_SIZE + RoundUp(n)
<1> DEFINE m == n + ALIGN - 1
           q == m \div ALIGN
           r == PAGE_SIZE \div ALIGN
<1>1. ALIGN \in Nat /\ ALIGN > 0 /\ PAGE_SIZE \in Nat /\ PAGE_SIZE % ALIGN = 0
  BY Numbers
<1>2. m \in Nat
  BY <1>1
<1>3. q \in Nat /\ q * ALIGN <= m /\ m < (q + 1) * ALIGN
  <2>1. q \in Nat
    BY <1>1, <1>2
  <2> QED
    BY <1>1, <1>2, <2>1, Divided
<1>4. RoundUp(n) = q * ALIGN
  BY DEF RoundUp
<1>5. q * ALIGN \in Nat
  BY <1>1, <1>3
<1>6. q * ALIGN >= n
  <2>1. (q + 1) * ALIGN = q * ALIGN + ALIGN
    BY <1>1, <1>3
  <2> QED
    BY <1>1, <1>3, <1>5, <2>1
<1>7. (q * ALIGN) % ALIGN = 0
  BY <1>1, <1>3
<1>8. r \in Nat /\ PAGE_SIZE = r * ALIGN
  BY <1>1
<1>9. (PAGE_SIZE + n + ALIGN - 1) \div ALIGN = r + q
  <2>1. PAGE_SIZE + n + ALIGN - 1 = r * ALIGN + m
    BY <1>1, <1>8
  <2>2. (r * ALIGN + m) \div ALIGN = r + q
    BY <1>1, <1>2, <1>8
  <2> QED
    BY <2>1, <2>2
<1>10. (r + q) * ALIGN = PAGE_SIZE + q * ALIGN
  BY <1>1, <1>3, <1>8
<1> HIDE DEF q, r, m
<1>11. RoundUp(PAGE_SIZE + n) = PAGE_SIZE + RoundUp(n)
  BY <1>4, <1>9, <1>10 DEF RoundUp
<1> QED
  BY <1>4, <1>5, <1>6, <1>7, <1>11

LEMMA TypeInit == Init => TypeInv
<1> SUFFICES ASSUME Init PROVE TypeInv
  OBVIOUS
<1>1. sections = <<>> /\ symbols = <<>> /\ relocs = <<>> /\ patches = <<>>
      /\ headers = <<>> /\ entries = <<>> /\ nfile = 0 /\ phase = "files"
  BY DEF Init
<1>2. 0 \in 0..MaxFiles /\ 0 \in 0..BUF_SIZE /\ 0 % ALIGN = 0 /\ PAGE_SIZE \in Nat
      /\ 0 <= MAX_SECTIONS /\ 0 <= MAX_SYMBOLS /\ 0 <= MAX_RELOCS
  BY Numbers
<1>3. sources \in [symbols : Seq(Origin), relocs : Seq(Origin)]
      /\ Len(sources.symbols) = 0 /\ Len(sources.relocs) = 0
  BY DEF Init
<1>4. Books
  BY <1>1, <1>3 DEF Books
<1>5. TypeOK
  BY <1>1, <1>2, <1>3 DEF Init, TypeOK
<1> QED
  BY <1>4, <1>5 DEF TypeInv

\* A step that only stops the linker
LEMMA TypeStops ==
  ASSUME TypeInv, status' \in {"run", "done", "error", "overrun"},
         UNCHANGED <<phase, nfile, tables, layout, patches, history>>,
         entry' \in Nat, second' \in SUBSET Nat
  PROVE  TypeInv'
<1>1. TypeOK'
  BY DEF TypeInv, TypeOK, tables, layout, history
<1>2. Books'
  BY DEF TypeInv, Books, tables, layout, history
<1> QED
  BY <1>1, <1>2 DEF TypeInv

\* read_object(): the sections of a file
LEMMA TypeSections ==
  ASSUME TypeInv, OpenObject \/ AppendSection \/ SkipSection \/ EndSections
  PROVE  TypeInv'
<1>1. TypeOK /\ Books
  BY DEF TypeInv
<1>2. CASE OpenObject
  <2>1. nfile' \in 0..MaxFiles /\ nfile' = nfile + 1 /\ nfile \in Nat
    BY <1>2, Files, Numbers DEF OpenObject
  <2>2. headers' \in Seq(Seq(Int)) /\ Len(headers') = nfile'
    BY <1>2, <2>1, Files DEF OpenObject
  <2>3. TypeOK'
    BY <1>1, <1>2, <2>1, <2>2 DEF OpenObject, Enter, TypeOK, tables, layout, program
  <2>4. Len(entries) = nfile' - 1 /\ patches = <<>>
    BY <1>1, <1>2, <2>1 DEF OpenObject, Running, Books
  <2>5. Books'
    BY <1>1, <1>2, <2>1, <2>4 DEF OpenObject, Enter, Books, tables, program
  <2> QED
    BY <2>3, <2>5 DEF TypeInv
<1>3. ASSUME NEW number \in Int, NextHeader(number),
             \/ UNCHANGED <<sections, output_size>>
             \/ /\ sections' \in Seq(Section) /\ Len(sections') <= MAX_SECTIONS
                /\ Len(sections') = Len(sections) + 1
                /\ output_size' \in 0..BUF_SIZE /\ output_size' % ALIGN = 0
      PROVE  TypeInv'
  <2>1. nfile \in DOMAIN headers
    BY <1>1, <1>3, Files DEF NextHeader, Running, Books
  <2>2. Append(headers[nfile], number) \in Seq(Int)
    BY <2>1, Files
  <2>3. headers' \in Seq(Seq(Int)) /\ Len(headers') = nfile
    BY <1>3, <2>1, <2>2, Files DEF NextHeader
  <2>4. /\ sections' \in Seq(Section) /\ Len(sections') <= MAX_SECTIONS
        /\ output_size' \in 0..BUF_SIZE /\ output_size' % ALIGN = 0
        /\ Len(sections') = Len(sections) \/ Len(sections') = Len(sections) + 1
    BY <1>1, <1>3, Rows DEF TypeOK
  <2>5. \A i \in DOMAIN symbols : symbols[i].section < Len(sections')
    <3>1. \A i \in DOMAIN symbols : symbols[i].section < Len(sections) /\ symbols[i].section \in Nat
      BY <1>1, Rows DEF TypeOK
    <3>2. Len(sections) \in Nat
      BY <1>1, Rows
    <3> QED
      BY <2>4, <3>1, <3>2
  <2>6. TypeOK'
    BY <1>1, <1>3, <2>3, <2>4, <2>5 DEF NextHeader, Running, TypeOK, Section, layout, program
  <2>7. Books'
    BY <1>1, <1>3 DEF NextHeader, Books, layout, program
  <2> QED
    BY <2>6, <2>7 DEF TypeInv
<1>4. CASE AppendSection
  <2>1. PICK size \in Sizes :
          /\ RoundUp(output_size + size) <= BUF_SIZE
          /\ sections' = Append(sections, [NoSection EXCEPT !.offset = output_size, !.size = size])
          /\ output_size' = RoundUp(output_size + size)
    BY <1>4 DEF AppendSection
  <2> DEFINE e == [NoSection EXCEPT !.offset = output_size, !.size = size]
  <2>2. e \in Section
    BY <1>1, Rows DEF NoSection, Section
  <2> HIDE DEF e
  <2>3. sections' \in Seq(Section) /\ Len(sections') = Len(sections) + 1
    BY <1>1, <2>1, <2>2, Rows DEF e
  <2>4. Len(sections') <= MAX_SECTIONS
    <3>1. Len(sections) < MAX_SECTIONS
      BY <1>4 DEF AppendSection
    <3>2. Len(sections) \in Nat /\ MAX_SECTIONS \in Nat
      BY <1>1, Rows, Numbers
    <3> QED
      BY <2>3, <3>1, <3>2
  <2>5. output_size + size \in Nat
    BY <1>1, Rows, Numbers
  <2>6. RoundUp(output_size + size) \in Nat /\ RoundUp(output_size + size) % ALIGN = 0
    BY <2>5, Rounded
  <2>7. output_size' \in 0..BUF_SIZE /\ output_size' % ALIGN = 0
    BY <2>1, <2>6, Numbers
  <2>8. Len(sections) \in Int /\ NextHeader(Len(sections))
    <3>1. Len(sections) \in Nat
      BY <1>1, Rows
    <3>2. Len(sections) \in Int
      BY <3>1
    <3>3. NextHeader(Len(sections))
      BY <1>4 DEF AppendSection
    <3> QED
      BY <3>2, <3>3
  <2> QED
    BY <1>3, <2>3, <2>4, <2>7, <2>8
<1>5. CASE SkipSection
  BY <1>3, <1>5 DEF SkipSection
<1>6. CASE EndSections
  <2>1. PICK table \in {<<Unnamed>>, <<>>} : entries' = Append(entries, table)
    BY <1>6 DEF EndSections
  <2>2. Unnamed \in TableEntry
    BY DEF Unnamed, TableEntry, SHN_UNDEF
  <2>3. table \in Seq(TableEntry)
    <3>1. <<Unnamed>> \in Seq(TableEntry) /\ <<>> \in Seq(TableEntry)
      BY <2>2
    <3> QED
      BY <3>1
  <2>4. entries' \in Seq(Seq(TableEntry)) /\ Len(entries') = Len(entries) + 1
    BY <2>1, <2>3, Files
  <2>5. TypeOK'
    BY <1>1, <1>6, <2>4 DEF EndSections, Enter, TypeOK, TableEntry, tables, layout, program
  <2>6. Len(entries) = nfile - 1 /\ nfile >= 1 /\ patches = <<>> /\ nfile \in Nat
    BY <1>1, <1>6, Files DEF EndSections, Running, Books
  <2>7. Books'
    BY <1>1, <1>6, <2>4, <2>6 DEF EndSections, Enter, Books, tables, program
  <2> QED
    BY <2>5, <2>7 DEF TypeInv
<1> QED
  BY <1>2, <1>4, <1>5, <1>6

\* An entry of a symbol table, and one that is kept
LEMMA EntryType ==
  ASSUME TypeInv, nfile \in DOMAIN headers, NEW e \in Entry
  PROVE  /\ e \in TableEntry /\ e.section \in Nat
         /\ Kept(e) => e \in Symbol /\ e.section < Len(sections)
<1>1. \A k \in DOMAIN headers[nfile] : k \in Nat
  BY Files
<1>2. SHN_UNDEF \in Nat /\ SHN_ABS \in Nat
  BY DEF SHN_UNDEF, SHN_ABS
<1>3. \/ e \in {Unnamed, Blank}
      \/ e \in [name : Names, value : {0}, section : {SHN_UNDEF, SHN_ABS}]
      \/ e \in [name : Names, value : Values, section : DOMAIN headers[nfile]]
      \/ e \in [name : Names, value : Values \cup {0}, section : 0..MAX_SECTIONS]
  BY DEF Entry
<1>4. \A u \in {Unnamed, Blank} : u \in TableEntry /\ u.name = ""
  <2>1. Unnamed \in TableEntry /\ Unnamed.name = ""
    BY <1>2 DEF Unnamed, TableEntry
  <2>2. Blank \in TableEntry /\ Blank.name = ""
    BY <1>2 DEF Blank, TableEntry
  <2> QED
    BY <2>1, <2>2
<1>5. e \in {Unnamed, Blank} \/ e \in Symbol
  BY <1>1, <1>2, <1>3, Numbers DEF Symbol
<1>6. Symbol \subseteq TableEntry /\ \A x \in TableEntry : x.section \in Nat
  BY DEF Symbol, TableEntry
<1> QED
  BY <1>4, <1>5, <1>6 DEF Kept

\* read_object(): the symbols and relocations of a file
LEMMA TypeEntries ==
  ASSUME TypeInv, CollectSymbol \/ EndSymbols \/ CollectReloc \/ EndObject
  PROVE  TypeInv'
<1>1. TypeOK /\ Books
  BY DEF TypeInv
<1>2. phase \in {"symbols", "relocs"}
  BY DEF CollectSymbol, EndSymbols, CollectReloc, EndObject, Running
<1>3. nfile \in DOMAIN headers /\ nfile \in DOMAIN entries /\ Len(entries) = nfile
      /\ nfile \in Nat /\ patches = <<>>
  BY <1>1, <1>2, Files DEF Books
<1>4. CASE CollectSymbol
  <2>1. PICK e \in Entry :
       /\ Kept(e) => Len(symbols) < MAX_SYMBOLS
       /\ entries' = [entries EXCEPT ![nfile] = Append(@, e)]
       /\ IF Kept(e)
          THEN /\ symbols' = Append(symbols, e)
               /\ sources' = [sources EXCEPT !.symbols =
                                 Append(@, Source(Len(entries[nfile]), e.section))]
          ELSE UNCHANGED <<symbols, sources>>
    BY <1>4 DEF CollectSymbol
  <2>2. /\ e \in TableEntry /\ e.section \in Nat
        /\ Kept(e) => e \in Symbol /\ e.section < Len(sections)
    BY <1>3, EntryType
  <2>3. Append(entries[nfile], e) \in Seq(TableEntry)
    BY <1>3, <2>2, Files
  <2>4. entries' \in Seq(Seq(TableEntry)) /\ Len(entries') = Len(entries)
    BY <1>3, <2>1, <2>3, Files
  <2> DEFINE o == Source(Len(entries[nfile]), e.section)
  <2>5. o \in Origin
    BY <1>3, <2>2, Files DEF Source, Origin
  <2> HIDE DEF o
  <2>6. /\ symbols' \in Seq(Symbol)
        /\ \A i \in DOMAIN symbols' : symbols'[i].section < Len(sections)
        /\ sources' \in [symbols : Seq(Origin), relocs : Seq(Origin)]
        /\ Len(sources'.symbols) = Len(symbols') /\ sources'.relocs = sources.relocs
        /\ Len(symbols') <= MAX_SYMBOLS
    <3>1. CASE Kept(e)
      <4>1. symbols' = Append(symbols, e) /\ e \in Symbol
        BY <2>1, <2>2, <3>1
      <4>2. /\ symbols' \in Seq(Symbol) /\ Len(symbols') = Len(symbols) + 1
            /\ DOMAIN symbols' = 1..(Len(symbols) + 1)
        BY <1>1, <4>1, Rows
      <4>3. \A i \in DOMAIN symbols' : symbols'[i].section < Len(sections)
        <5>1. \A i \in DOMAIN symbols : symbols[i].section < Len(sections)
          BY <1>1 DEF TypeOK
        <5>2. \A i \in DOMAIN symbols' : symbols'[i] = e \/ (i \in DOMAIN symbols /\ symbols'[i] = symbols[i])
          BY <1>1, <4>1, <4>2, Rows
        <5> QED
          BY <2>2, <3>1, <5>1, <5>2
      <4>4. sources' = [sources EXCEPT !.symbols = Append(@, o)]
        BY <2>1, <3>1 DEF o
      <4>5. Append(sources.symbols, o) \in Seq(Origin)
            /\ Len(Append(sources.symbols, o)) = Len(sources.symbols) + 1
        BY <2>5, Files
      <4>6. /\ sources' \in [symbols : Seq(Origin), relocs : Seq(Origin)]
            /\ sources'.symbols = Append(sources.symbols, o)
            /\ sources'.relocs = sources.relocs
        BY <1>1, <4>4, <4>5 DEF Books
      <4>7. Len(sources.symbols) = Len(symbols)
        BY <1>1 DEF TypeOK
      <4>8. Len(symbols') <= MAX_SYMBOLS
        <5>1. Len(symbols) < MAX_SYMBOLS
          BY <2>1, <3>1
        <5>2. Len(symbols) \in Nat /\ MAX_SYMBOLS \in Nat
          BY <1>1, Rows, Numbers
        <5> QED
          BY <4>2, <5>1, <5>2
      <4> QED
        BY <4>2, <4>3, <4>5, <4>6, <4>7, <4>8
    <3>2. CASE ~Kept(e)
      BY <1>1, <2>1, <3>2, Rows DEF TypeOK, Books
    <3> QED
      BY <3>1, <3>2
  <2>7. UNCHANGED <<phase, status, nfile, sections, output_size, relocs, layout, program, headers>>
    BY <1>4 DEF CollectSymbol
  <2>8. TypeOK'
    BY <1>1, <2>4, <2>6, <2>7 DEF TypeOK, TableEntry, Symbol, layout, program
  <2>9. Books'
    BY <1>1, <2>4, <2>6, <2>7 DEF Books, layout, program
  <2> QED
    BY <2>8, <2>9 DEF TypeInv
<1>5. CASE EndSymbols \/ EndObject
  <2>1. /\ UNCHANGED <<status, nfile, tables, layout, program, history>>
        /\ phase' \in {"relocs", "files"}
    BY <1>5 DEF EndSymbols, EndObject, Enter
  <2>2. TypeOK'
    BY <1>1, <2>1 DEF TypeOK, tables, layout, program, history
  <2>3. Books'
    BY <1>1, <1>2, <1>3, <2>1 DEF Books, tables, layout, program, history
  <2> QED
    BY <2>2, <2>3 DEF TypeInv
<1>6. CASE CollectReloc
  <2>1. PICK k \in DOMAIN headers[nfile], e \in 0..(Len(entries[nfile]) - 1),
             o \in Values, t \in {"64", "PC32", "other"} :
       /\ relocs' = Append(relocs, [offset |-> o, type |-> t, symbol |-> e, section |-> k])
       /\ sources' = [sources EXCEPT !.relocs = Append(@, Source(e, k))]
    BY <1>6 DEF CollectReloc
  <2>2. k \in Nat /\ e \in Nat
    BY <1>3, Files
  <2> DEFINE r == [offset |-> o, type |-> t, symbol |-> e, section |-> k]
             src == Source(e, k)
  <2>3. r \in Reloc
    BY <2>2 DEF Reloc
  <2>4. src \in Origin
    BY <1>3, <2>2 DEF Source, Origin
  <2> HIDE DEF r, src
  <2>5. relocs' \in Seq(Reloc) /\ Len(relocs') = Len(relocs) + 1
    BY <2>1, <2>3, Files DEF r
  <2>6. Len(relocs') <= MAX_RELOCS /\ Len(patches) <= Len(relocs')
    <3>1. Len(relocs) < MAX_RELOCS
      BY <1>6 DEF CollectReloc
    <3>2. Len(relocs) \in Nat /\ MAX_RELOCS \in Nat /\ Len(patches) = 0
      BY <1>3, Files, Numbers
    <3> QED
      BY <2>5, <3>1, <3>2
  <2>7. sources' = [sources EXCEPT !.relocs = Append(@, src)]
    BY <2>1 DEF src
  <2>8. Append(sources.relocs, src) \in Seq(Origin)
        /\ Len(Append(sources.relocs, src)) = Len(sources.relocs) + 1
    BY <2>4, Files
  <2>9. /\ sources' \in [symbols : Seq(Origin), relocs : Seq(Origin)]
        /\ sources'.relocs = Append(sources.relocs, src)
        /\ sources'.symbols = sources.symbols
    BY <1>1, <2>7, <2>8 DEF Books
  <2>10. Len(sources'.relocs) = Len(relocs')
    BY <1>1, <2>5, <2>8, <2>9 DEF TypeOK
  <2>11. UNCHANGED <<phase, status, nfile, sections, output_size, symbols, layout, program,
                     headers, entries>>
    BY <1>6 DEF CollectReloc
  <2>12. TypeOK'
    BY <1>1, <2>5, <2>6, <2>9, <2>10, <2>11 DEF TypeOK, Reloc, layout, program
  <2>13. Books'
    BY <1>1, <1>2, <1>3, <2>9, <2>11 DEF Books, layout, program
  <2> QED
    BY <2>12, <2>13 DEF TypeInv
<1> QED
  BY <1>4, <1>5, <1>6

\* main() and apply_relocations()
LEMMA TypeLink ==
  ASSUME TypeInv, LayOut \/ Apply
  PROVE  TypeInv'
<1>1. TypeOK /\ Books
  BY DEF TypeInv
<1>2. CASE StartLayout
  <2>1. /\ UNCHANGED <<status, nfile, tables, program, history>>
        /\ phase = "files" /\ phase' = "layout" /\ at' = 1 /\ current_vaddr' = PAGE_SIZE
    BY <1>2 DEF StartLayout, Running, Enter
  <2>2. TypeOK'
    BY <1>1, <2>1, Numbers DEF TypeOK, tables, program, history
  <2>3. Books'
    BY <1>1, <2>1 DEF Books, tables, program, history
  <2> QED
    BY <2>2, <2>3 DEF TypeInv
<1>3. CASE PlaceSection
  <2> DEFINE s == [sections[at] EXCEPT !.addr = current_vaddr]
  <2>1. at \in DOMAIN sections /\ at \in Nat /\ current_vaddr \in Nat
    BY <1>1, <1>3 DEF PlaceSection, TypeOK
  <2>2. s \in Section
    BY <1>1, <2>1, Rows DEF Section
  <2>3. sections' = [sections EXCEPT ![at] = s]
    BY <1>3 DEF PlaceSection
  <2> HIDE DEF s
  <2>4. sections' \in Seq(Section) /\ Len(sections') = Len(sections)
    BY <1>1, <2>1, <2>2, <2>3, Rows
  <2>5. current_vaddr + sections[at].size \in Nat
    BY <1>1, <2>1, Rows
  <2>6. current_vaddr' \in Nat
    BY <1>3, <2>5, Rounded DEF PlaceSection
  <2>7. /\ UNCHANGED <<phase, status, nfile, output_size, symbols, relocs, program, history>>
        /\ at' = at + 1 /\ phase = "layout"
    BY <1>3 DEF PlaceSection, Running
  <2>8. at' \in Nat
    BY <2>1, <2>7
  <2>9. TypeOK'
    BY <1>1, <2>4, <2>6, <2>7, <2>8 DEF TypeOK, Section, program, history
  <2>10. Books'
    BY <1>1, <2>7 DEF Books, program, history
  <2> QED
    BY <2>9, <2>10 DEF TypeInv
<1>4. CASE StartRelocs
  <2>1. /\ UNCHANGED <<status, nfile, tables, current_vaddr, program, history>>
        /\ phase = "layout" /\ phase' = "apply" /\ at' = 1
    BY <1>4 DEF StartRelocs, Running, Enter
  <2>2. TypeOK'
    BY <1>1, <2>1 DEF TypeOK, tables, program, history
  <2>3. Len(patches) < 1 /\ 1 <= Len(relocs) + 1
    BY <1>1, <2>1, Files DEF Books
  <2>4. Books'
    BY <1>1, <2>1, <2>3 DEF Books, tables, program, history
  <2> QED
    BY <2>2, <2>4 DEF TypeInv
<1>5. CASE Apply
  <2> DEFINE r == relocs[at]
  <2>1. at \in 1..Len(relocs) /\ r \in Reloc /\ phase = "apply"
    BY <1>5, Files DEF Apply, Running
  <2>2. r.symbol \in Int /\ r.section \in Int /\ r.offset \in Nat
    BY <2>1, Numbers DEF Reloc
  <2>3. Patch(r) \in PatchRow
    <3>1. /\ SectionAt(r.section).offset \in Nat /\ SectionAt(r.section).addr \in Nat
          /\ AddressOf(SymbolAt(r.symbol)) \in Nat
      BY <1>1, <2>2, Lookups
    <3> QED
      BY <2>2, <3>1 DEF Patch, PatchRow
  <2>4. patches \in Seq(PatchRow) /\ Len(patches) < at /\ Len(patches) \in Nat
    <3>1. patches \in Seq(PatchRow)
      BY <1>1 DEF TypeOK, PatchRow
    <3> QED
      BY <1>1, <2>1, <3>1 DEF Books
  <2>5. patches' = patches \/ patches' = Append(patches, Patch(r))
    BY <1>5 DEF Apply
  <2> HIDE DEF r
  <2>6. /\ patches' \in Seq(PatchRow)
        /\ Len(patches') = Len(patches) \/ Len(patches') = Len(patches) + 1
    BY <2>3, <2>4, <2>5
  <2>7. Len(patches') < at + 1 /\ at + 1 <= Len(relocs) + 1 /\ Len(patches') <= Len(relocs)
        /\ at + 1 \in Nat
    BY <2>1, <2>4, <2>6, Files
  <2>8. UNCHANGED <<phase, status, nfile, tables, current_vaddr, entry, second, history>>
        /\ at' = at + 1
    BY <1>5 DEF Apply
  <2>9. TypeOK'
    BY <1>1, <2>6, <2>7, <2>8 DEF TypeOK, PatchRow, tables, history
  <2>10. Books'
    BY <1>1, <2>1, <2>7, <2>8 DEF Books, tables, history
  <2> QED
    BY <2>9, <2>10 DEF TypeInv
<1> QED
  BY <1>2, <1>3, <1>4, <1>5 DEF LayOut

\* The program's entry and its second header are addresses.
LEMMA TypeWritten ==
  ASSUME TypeInv, WriteProgram
  PROVE  entry' \in Nat /\ second' \in SUBSET Nat
<1>1. TypeOK
  BY DEF TypeInv
<1>2. CASE UNCHANGED <<entry, second>>
  BY <1>1, <1>2 DEF TypeOK
<1>3. CASE entry' = AddressOf(symbols[First(Starts)]) /\ second' = SecondHeader
  <2>1. \E i \in Starts : \A j \in Starts : i <= j
    <3>1. Starts \subseteq Nat /\ Starts # {}
      BY <1>1, Rows DEF Starts, WriteProgram
    <3> QED
      BY <3>1, LeastOf
  <2>2. First(Starts) \in Starts
    BY <2>1 DEF First
  <2>3. symbols[First(Starts)].section \in Nat /\ symbols[First(Starts)].value \in Nat
    BY <1>1, <2>2, Rows DEF Starts
  <2>4. SectionAt(symbols[First(Starts)].section).addr \in Nat
    BY <1>1, <2>3, Lookups
  <2>5. entry' \in Nat
    BY <1>3, <2>3, <2>4 DEF AddressOf
  <2>6. second' \in SUBSET Nat
    <3>1. PAGE_SIZE + output_size \in Nat
      BY <1>1, Rows, Numbers
    <3> QED
      BY <1>3, <3>1 DEF SecondHeader
  <2> QED
    BY <2>5, <2>6
<1> QED
  BY <1>2, <1>3 DEF WriteProgram

LEMMA TypeNext == TypeInv /\ [Next]_vars => TypeInv'
<1> SUFFICES ASSUME TypeInv, [Next]_vars PROVE TypeInv'
  OBVIOUS
<1>1. entry \in Nat /\ second \in SUBSET Nat /\ status \in {"run", "done", "error", "overrun"}
  BY DEF TypeInv, TypeOK
<1>2. CASE OpenObject \/ AppendSection \/ SkipSection \/ EndSections
  BY <1>2, TypeSections
<1>3. CASE CollectSymbol \/ EndSymbols \/ CollectReloc \/ EndObject
  BY <1>3, TypeEntries
<1>4. CASE LayOut \/ Apply
  BY <1>4, TypeLink
<1>5. CASE \/ Fail \/ SectionOverrun \/ SymbolOverrun \/ RelocOverrun \/ NoStart \/ Stopped
           \/ UNCHANGED vars
  BY <1>1, <1>5, TypeStops
  DEF Fail, SectionOverrun, SymbolOverrun, RelocOverrun, NoStart, Stopped, vars, program
<1>6. CASE WriteProgram
  <2>1. status' \in {"run", "done", "error", "overrun"}
        /\ UNCHANGED <<phase, nfile, tables, layout, patches, history>>
    BY <1>6 DEF WriteProgram
  <2> QED
    BY <1>6, <2>1, TypeStops, TypeWritten
<1> QED
  BY <1>2, <1>3, <1>4, <1>5, <1>6 DEF Next, ReadObjects, Link

\* The linker's tables keep their types and the output stays within its buffer
\* (all of sld_linux_x64.c).
THEOREM TypeCorrect == Spec => []TypeOK
<1>1. TypeInv => TypeOK
  BY DEF TypeInv
<1> QED
  BY <1>1, TypeInit, TypeNext, PTL DEF Spec

-----------------------------------------------------------------------------
(* The file and the memory *)

\* Where the k-th section begins in the output, or where the next would
Place(k) == IF k \in DOMAIN sections THEN sections[k].offset ELSE output_size

\* read_object() puts each section behind the one before, rounded up.
Chained ==
  /\ Place(1) = 0
  /\ \A i \in DOMAIN sections :
       Place(i + 1) = RoundUp(sections[i].offset + sections[i].size)
Ordered ==
  \A i \in DOMAIN sections :
    /\ sections[i].offset + sections[i].size <= output_size
    /\ \A j \in 1..(i - 1) : sections[j].offset + sections[j].size <= sections[i].offset

\* main() has placed the sections before its i where read_object() put them.
Placed ==
  /\ phase = "layout" => /\ at \in 1..(Len(sections) + 1)
                         /\ current_vaddr = PAGE_SIZE + Place(at)
  /\ \A i \in DOMAIN sections :
       phase = "apply" \/ (phase = "layout" /\ i < at)
         => sections[i].addr = PAGE_SIZE + sections[i].offset

MemoryInv == Chained /\ Ordered /\ Placed

\* Steps that place no section
LEMMA MemoryKept ==
  ASSUME MemoryInv, UNCHANGED <<sections, output_size>>,
         \/ phase' \in {"files", "sections", "symbols", "relocs"}
         \/ phase' = phase /\ (phase = "apply" \/ UNCHANGED <<at, current_vaddr>>)
  PROVE  MemoryInv'
<1>1. \A k : Place(k)' = Place(k)
  BY DEF Place
<1>2. Chained' /\ Ordered'
  BY <1>1 DEF MemoryInv, Chained, Ordered
<1>3. Placed'
  BY <1>1 DEF MemoryInv, Placed
<1> QED
  BY <1>2, <1>3 DEF MemoryInv

\* A section is appended where the output ends.
LEMMA MemoryAppend ==
  ASSUME TypeInv, MemoryInv, AppendSection
  PROVE  MemoryInv'
<1> DEFINE n == Len(sections)
<1>1. TypeOK /\ Chained /\ Ordered
  BY DEF TypeInv, MemoryInv
<1>2. PICK size \in Sizes :
        /\ sections' = Append(sections, [NoSection EXCEPT !.offset = output_size, !.size = size])
        /\ output_size' = RoundUp(output_size + size)
  BY DEF AppendSection
<1> DEFINE e == [NoSection EXCEPT !.offset = output_size, !.size = size]
<1>3. /\ n \in Nat /\ sections \in Seq(Section) /\ DOMAIN sections = 1..n
      /\ output_size \in Nat /\ size \in Nat
      /\ \A i \in DOMAIN sections : sections[i].offset \in Nat /\ sections[i].size \in Nat
  BY <1>1, Rows, Numbers
<1>4. e \in Section /\ e.offset = output_size /\ e.size = size
  BY <1>3 DEF NoSection, Section
<1> HIDE DEF e
<1>5. sections' = Append(sections, e)
  BY <1>2 DEF e
<1>6. /\ DOMAIN sections' = 1..(n + 1) /\ sections'[n + 1] = e
      /\ \A i \in 1..n : sections'[i] = sections[i]
  BY <1>3, <1>4, <1>5
<1> HIDE DEF n
<1>7. /\ output_size + size \in Nat /\ output_size' \in Nat
      /\ output_size' >= output_size + size
  BY <1>2, <1>3, Rounded
<1>8. ASSUME NEW k \in 1..(n + 1)
      PROVE  Place(k)' = Place(k)
  <2>1. CASE k = n + 1
    BY <1>3, <1>4, <1>6, <2>1 DEF Place
  <2>2. CASE k \in 1..n
    BY <1>3, <1>6, <2>2 DEF Place
  <2> QED
    BY <1>3, <2>1, <2>2
<1>9. Chained'
  <2>1. Place(1)' = 0
    BY <1>1, <1>3, <1>8 DEF Chained
  <2>2. ASSUME NEW i \in 1..(n + 1)
        PROVE  Place(i + 1)' = RoundUp(sections'[i].offset + sections'[i].size)
    <3>1. CASE i = n + 1
      <4>1. i + 1 \notin 1..(n + 1)
        BY <1>3, <3>1
      <4> QED
        BY <1>2, <1>4, <1>6, <3>1, <4>1 DEF Place
    <3>2. CASE i \in 1..n
      <4>1. i + 1 \in 1..(n + 1)
        BY <1>3, <3>2
      <4>2. Place(i + 1) = RoundUp(sections[i].offset + sections[i].size)
        BY <1>1, <1>3, <3>2 DEF Chained
      <4> QED
        BY <1>6, <1>8, <3>2, <4>1, <4>2
    <3> QED
      BY <1>3, <3>1, <3>2
  <2>3. RoundUp(0)' = RoundUp(0)
    OBVIOUS
  <2> QED
    BY <1>6, <2>1, <2>2 DEF Chained, RoundUp
<1>10. Ordered'
  <2> SUFFICES ASSUME NEW i \in 1..(n + 1)
               PROVE  /\ sections'[i].offset + sections'[i].size <= output_size'
                      /\ \A j \in 1..(i - 1) :
                           sections'[j].offset + sections'[j].size <= sections'[i].offset
    BY <1>6 DEF Ordered
  <2>1. CASE i = n + 1
    <3>1. \A j \in 1..(i - 1) : j \in 1..n
      BY <1>3, <2>1
    <3> QED
      BY <1>1, <1>3, <1>4, <1>6, <1>7, <2>1, <3>1 DEF Ordered
  <2>2. CASE i \in 1..n
    <3>1. \A j \in 1..(i - 1) : j \in 1..n
      BY <1>3, <2>2
    <3>2. /\ sections[i].offset + sections[i].size <= output_size
          /\ \A j \in 1..(i - 1) :
               sections[j].offset + sections[j].size <= sections[i].offset
      BY <1>1, <1>3, <2>2 DEF Ordered
    <3>3. output_size <= output_size'
      BY <1>3, <1>7
    <3>4. sections[i].offset + sections[i].size \in Nat
      BY <1>3, <2>2
    <3> QED
      BY <1>3, <1>6, <1>7, <2>2, <3>1, <3>2, <3>3, <3>4, SMTT(30)
  <2> QED
    BY <1>3, <2>1, <2>2
<1>11. Placed'
  BY DEF AppendSection, NextHeader, Running, Placed
<1> QED
  BY <1>9, <1>10, <1>11 DEF MemoryInv

\* main() gives the next section its address.
LEMMA MemoryPlace ==
  ASSUME TypeInv, MemoryInv, PlaceSection
  PROVE  MemoryInv'
<1> DEFINE n == Len(sections)
           s == [sections[at] EXCEPT !.addr = current_vaddr]
<1>1. TypeOK /\ Chained /\ Ordered /\ Placed
  BY DEF TypeInv, MemoryInv
<1>2. /\ phase = "layout" /\ phase' = "layout" /\ at \in DOMAIN sections
      /\ sections' = [sections EXCEPT ![at] = s]
      /\ current_vaddr' = RoundUp(current_vaddr + sections[at].size)
      /\ at' = at + 1 /\ output_size' = output_size
  BY DEF PlaceSection, Running
<1>3. /\ n \in Nat /\ sections \in Seq(Section) /\ DOMAIN sections = 1..n
      /\ \A i \in DOMAIN sections :
           sections[i].offset \in Nat /\ sections[i].size \in Nat /\ sections[i] \in Section
      /\ at \in 1..n /\ at \in Nat
  BY <1>1, <1>2, Rows
<1>4. s.offset = sections[at].offset /\ s.size = sections[at].size /\ s.addr = current_vaddr
  BY <1>2, <1>3 DEF Section
<1> HIDE DEF s
<1>5. /\ DOMAIN sections' = 1..n /\ Len(sections') = n
      /\ \A i \in 1..n : sections'[i] = IF i = at THEN s ELSE sections[i]
  BY <1>2, <1>3
<1>6. \A i \in 1..n : /\ sections'[i].offset = sections[i].offset
                      /\ sections'[i].size = sections[i].size
                      /\ i # at => sections'[i].addr = sections[i].addr
  BY <1>4, <1>5
<1> HIDE DEF n
<1>7. \A k : Place(k)' = Place(k)
  BY <1>2, <1>3, <1>5, <1>6 DEF Place
<1>8. Chained'
  BY <1>1, <1>3, <1>5, <1>6, <1>7 DEF Chained, RoundUp
<1>9. Ordered'
  <2>1. \A i \in 1..n : \A j \in 1..(i - 1) : j \in 1..n
    BY <1>3
  <2> QED
    BY <1>1, <1>2, <1>3, <1>5, <1>6, <2>1 DEF Ordered
<1>10. current_vaddr' = PAGE_SIZE + Place(at + 1)
  <2>1. current_vaddr = PAGE_SIZE + sections[at].offset
    BY <1>1, <1>2 DEF Placed, Place
  <2>2. sections[at].offset + sections[at].size \in Nat /\ PAGE_SIZE \in Nat
        /\ sections[at].offset \in Nat /\ sections[at].size \in Nat
    BY <1>2, <1>3, Numbers, SMTT(30)
  <2>3. current_vaddr + sections[at].size = PAGE_SIZE + (sections[at].offset + sections[at].size)
    BY <2>1, <2>2
  <2>4. current_vaddr' = PAGE_SIZE + RoundUp(sections[at].offset + sections[at].size)
    BY <1>2, <2>2, <2>3, Rounded
  <2> QED
    BY <1>1, <1>2, <2>4 DEF Chained
<1>11. at + 1 \in 1..(n + 1)
  BY <1>3
<1>12. ASSUME NEW i \in 1..n, i < at + 1
       PROVE  sections'[i].addr = PAGE_SIZE + sections'[i].offset
  <2>1. CASE i = at
    BY <1>1, <1>2, <1>3, <1>4, <1>5, <1>6, <2>1 DEF Placed, Place
  <2>2. CASE i # at
    <3>1. i < at
      BY <1>3, <1>12, <2>2
    <3> QED
      BY <1>1, <1>2, <1>3, <1>6, <2>2, <3>1 DEF Placed
  <2> QED
    BY <2>1, <2>2
<1>13. Placed'
  BY <1>2, <1>5, <1>7, <1>10, <1>11, <1>12 DEF Placed
<1> QED
  BY <1>8, <1>9, <1>13 DEF MemoryInv

LEMMA MemoryNext ==
  ASSUME TypeInv, MemoryInv, [Next]_vars
  PROVE  MemoryInv'
<1>1. CASE AppendSection
  BY <1>1, MemoryAppend
<1>2. CASE PlaceSection
  BY <1>2, MemoryPlace
<1>3. CASE StartLayout
  <2>1. /\ phase' = "layout" /\ at' = 1 /\ current_vaddr' = PAGE_SIZE
        /\ UNCHANGED <<sections, output_size>>
    BY <1>3 DEF StartLayout, Enter, tables
  <2>2. \A k : Place(k)' = Place(k)
    BY <2>1 DEF Place
  <2>3. Chained' /\ Ordered'
    BY <2>1, <2>2 DEF MemoryInv, Chained, Ordered
  <2>4. PAGE_SIZE = PAGE_SIZE + Place(1) /\ Len(sections) \in Nat
        /\ DOMAIN sections = 1..Len(sections)
    BY Numbers, Rows DEF TypeInv, MemoryInv, Chained
  <2>5. Placed'
    BY <2>1, <2>2, <2>4 DEF Placed
  <2> QED
    BY <2>3, <2>5 DEF MemoryInv
<1>4. CASE StartRelocs
  <2>1. /\ phase = "layout" /\ at > Len(sections) /\ phase' = "apply"
        /\ UNCHANGED <<sections, output_size>>
    BY <1>4 DEF StartRelocs, Running, Enter, tables
  <2>2. Chained' /\ Ordered'
    BY <2>1 DEF MemoryInv, Chained, Ordered, Place
  <2>3. Len(sections) \in Nat /\ DOMAIN sections = 1..Len(sections)
        /\ at \in 1..(Len(sections) + 1)
    BY <2>1, Rows DEF TypeInv, MemoryInv, Placed
  <2>4. \A i \in DOMAIN sections : i < at
    BY <2>1, <2>3
  <2>5. Placed'
    BY <2>1, <2>4 DEF MemoryInv, Placed
  <2> QED
    BY <2>2, <2>5 DEF MemoryInv
<1>5. CASE \/ Fail \/ OpenObject \/ SkipSection \/ SectionOverrun \/ EndSections
           \/ CollectSymbol \/ SymbolOverrun \/ EndSymbols \/ CollectReloc \/ RelocOverrun
           \/ EndObject
  BY <1>5, MemoryKept
  DEF Fail, OpenObject, SkipSection, NextHeader, SectionOverrun, EndSections, CollectSymbol,
      SymbolOverrun, EndSymbols, CollectReloc, RelocOverrun, EndObject, Running, Enter, tables, layout
<1>6. CASE Link \/ Stopped \/ UNCHANGED vars
  BY <1>6, MemoryKept
  DEF Link, Apply, NoStart, WriteProgram, Stopped, vars, Running, tables, layout
<1> QED
  BY <1>1, <1>2, <1>3, <1>4, <1>5, <1>6 DEF Next, ReadObjects, LayOut

LEMMA MemoryInit == Init => MemoryInv
<1> SUFFICES ASSUME Init PROVE MemoryInv
  OBVIOUS
<1>1. DOMAIN sections = {} /\ output_size = 0 /\ phase = "files"
  BY DEF Init
<1> QED
  BY <1>1 DEF MemoryInv, Chained, Ordered, Placed, Place

LinkInv == TypeInv /\ MemoryInv

LEMMA LinkInit == Init => LinkInv
BY TypeInit, MemoryInit DEF LinkInv

LEMMA LinkNext == LinkInv /\ [Next]_vars => LinkInv'
BY TypeNext, MemoryNext DEF LinkInv

\* main() maps every section where read_object() stored it, and no two share a byte:
\* the program in memory is its file.
THEOREM MemoryCorrect == Spec => []FileIsMemory
<1>1. LinkInv => FileIsMemory
  BY DEF LinkInv, MemoryInv, Ordered, Placed, FileIsMemory
<1> QED
  BY <1>1, LinkInit, LinkNext, PTL DEF Spec

-----------------------------------------------------------------------------
(* Numbers of sections and symbols *)

\* What a step does to the files as read: nothing, or it adds a row to one table.
Unread == UNCHANGED <<nfile, headers, entries, symbols, relocs, sources>>
HeaderRead(number) ==
  /\ nfile >= 1 /\ phase = "sections"
  /\ headers' = [headers EXCEPT ![nfile] = Append(@, number)]
  /\ UNCHANGED <<nfile, entries, symbols, relocs, sources>>

\* The rows a symbol of the table adds
LEMMA SymbolRead ==
  ASSUME TypeInv, CollectSymbol
  PROVE  \E e \in Entry :
           /\ nfile \in DOMAIN entries /\ Len(entries') = Len(entries) /\ Len(entries) = nfile
           /\ \A f \in DOMAIN entries : f # nfile => entries'[f] = entries[f]
           /\ Len(entries'[nfile]) = Len(entries[nfile]) + 1
           /\ entries'[nfile][Len(entries[nfile]) + 1] = e
           /\ \A d \in DOMAIN entries[nfile] : entries'[nfile][d] = entries[nfile][d]
           /\ IF Kept(e)
              THEN /\ Len(symbols') = Len(symbols) + 1 /\ symbols'[Len(symbols) + 1] = e
                   /\ \A i \in DOMAIN symbols : /\ symbols'[i] = symbols[i]
                                                /\ sources'.symbols[i] = sources.symbols[i]
                   /\ sources'.symbols[Len(symbols) + 1]
                        = [file |-> nfile, entry |-> Len(entries[nfile]), section |-> e.section]
              ELSE symbols' = symbols /\ sources'.symbols = sources.symbols
           /\ sources'.relocs = sources.relocs
           /\ UNCHANGED <<nfile, headers, sections, relocs>>
<1>1. TypeOK /\ Books /\ phase = "symbols"
  BY DEF TypeInv, CollectSymbol, Running
<1>2. nfile \in DOMAIN headers /\ nfile \in DOMAIN entries /\ Len(entries) = nfile
  BY <1>1, Files DEF Books
<1>3. PICK e \in Entry :
       /\ Kept(e) => Len(symbols) < MAX_SYMBOLS
       /\ entries' = [entries EXCEPT ![nfile] = Append(@, e)]
       /\ IF Kept(e)
          THEN /\ symbols' = Append(symbols, e)
               /\ sources' = [sources EXCEPT !.symbols =
                                 Append(@, Source(Len(entries[nfile]), e.section))]
          ELSE UNCHANGED <<symbols, sources>>
  BY DEF CollectSymbol
<1>4. /\ e \in TableEntry /\ e.section \in Nat
      /\ Kept(e) => e \in Symbol /\ e.section < Len(sections)
  BY <1>2, EntryType
<1>5. /\ Append(entries[nfile], e) \in Seq(TableEntry)
      /\ Len(Append(entries[nfile], e)) = Len(entries[nfile]) + 1
      /\ Append(entries[nfile], e)[Len(entries[nfile]) + 1] = e
      /\ \A d \in DOMAIN entries[nfile] : Append(entries[nfile], e)[d] = entries[nfile][d]
  BY <1>2, <1>4, Files
<1>6. entries'[nfile] = Append(entries[nfile], e) /\ Len(entries') = Len(entries)
      /\ \A f \in DOMAIN entries : f # nfile => entries'[f] = entries[f]
  BY <1>2, <1>3, <1>5, Files
<1>7. ASSUME Kept(e)
      PROVE  /\ Len(symbols') = Len(symbols) + 1 /\ symbols'[Len(symbols) + 1] = e
             /\ \A i \in DOMAIN symbols : /\ symbols'[i] = symbols[i]
                                          /\ sources'.symbols[i] = sources.symbols[i]
             /\ sources'.symbols[Len(symbols) + 1]
                  = [file |-> nfile, entry |-> Len(entries[nfile]), section |-> e.section]
             /\ sources'.relocs = sources.relocs
  <2> DEFINE o == Source(Len(entries[nfile]), e.section)
  <2>1. o \in Origin
    BY <1>2, <1>4, Files DEF Source, Origin
  <2>2. o = [file |-> nfile, entry |-> Len(entries[nfile]), section |-> e.section]
    BY DEF Source
  <2> HIDE DEF o
  <2>3. symbols' = Append(symbols, e) /\ e \in Symbol
    BY <1>3, <1>4, <1>7
  <2>4. /\ Len(symbols') = Len(symbols) + 1 /\ symbols'[Len(symbols) + 1] = e
        /\ \A i \in DOMAIN symbols : symbols'[i] = symbols[i]
    BY <1>1, <2>3, Rows
  <2>5. sources' = [sources EXCEPT !.symbols = Append(@, o)]
    BY <1>3, <1>7 DEF o
  <2>6. sources'.symbols = Append(sources.symbols, o) /\ sources'.relocs = sources.relocs
    BY <1>1, <2>5 DEF Books
  <2>7. Len(sources.symbols) = Len(symbols) /\ sources.symbols \in Seq(Origin)
    BY <1>1, Files DEF TypeOK
  <2>8. /\ Append(sources.symbols, o)[Len(symbols) + 1] = o
        /\ \A i \in 1..Len(symbols) : Append(sources.symbols, o)[i] = sources.symbols[i]
    BY <2>1, <2>7
  <2> QED
    BY <1>1, <2>2, <2>4, <2>6, <2>8, Rows
<1>8. ASSUME ~Kept(e)
      PROVE  symbols' = symbols /\ sources' = sources
  BY <1>3, <1>8
<1>9. UNCHANGED <<nfile, headers, sections, relocs>>
  BY DEF CollectSymbol
<1> QED
  BY <1>2, <1>5, <1>6, <1>7, <1>8, <1>9, ZenonT(40)

\* The rows a relocation adds
LEMMA RelocRead ==
  ASSUME TypeInv, CollectReloc
  PROVE  \E k \in DOMAIN headers[nfile], e \in 0..(Len(entries[nfile]) - 1) :
           /\ Len(relocs') = Len(relocs) + 1
           /\ relocs'[Len(relocs) + 1].section = k /\ relocs'[Len(relocs) + 1].symbol = e
           /\ \A i \in DOMAIN relocs : /\ relocs'[i] = relocs[i]
                                       /\ sources'.relocs[i] = sources.relocs[i]
           /\ sources'.relocs[Len(relocs) + 1] = [file |-> nfile, entry |-> e, section |-> k]
           /\ sources'.symbols = sources.symbols
           /\ nfile \in DOMAIN headers
           /\ UNCHANGED <<nfile, headers, entries, sections, symbols>>
<1>1. TypeOK /\ Books /\ phase = "relocs"
  BY DEF TypeInv, CollectReloc, Running
<1>2. nfile \in DOMAIN headers /\ nfile \in DOMAIN entries /\ nfile \in Nat
  BY <1>1, Files DEF Books
<1>3. PICK k \in DOMAIN headers[nfile], e \in 0..(Len(entries[nfile]) - 1),
           o \in Values, t \in {"64", "PC32", "other"} :
       /\ relocs' = Append(relocs, [offset |-> o, type |-> t, symbol |-> e, section |-> k])
       /\ sources' = [sources EXCEPT !.relocs = Append(@, Source(e, k))]
  BY DEF CollectReloc
<1>4. k \in Nat /\ e \in Nat
  BY <1>2, Files, SMTT(30)
<1> DEFINE r == [offset |-> o, type |-> t, symbol |-> e, section |-> k]
           src == Source(e, k)
<1>5. r \in Reloc /\ r.section = k /\ r.symbol = e
  BY <1>4 DEF Reloc
<1>6. src \in Origin /\ src = [file |-> nfile, entry |-> e, section |-> k]
  BY <1>2, <1>4 DEF Source, Origin
<1> HIDE DEF r, src
<1>7. relocs' = Append(relocs, r)
  BY <1>3 DEF r
<1>8. /\ Len(relocs') = Len(relocs) + 1 /\ relocs'[Len(relocs) + 1] = r
      /\ \A i \in DOMAIN relocs : relocs'[i] = relocs[i]
  BY <1>5, <1>7, Files
<1>9. sources' = [sources EXCEPT !.relocs = Append(@, src)]
  BY <1>3 DEF src
<1>10. sources'.relocs = Append(sources.relocs, src) /\ sources'.symbols = sources.symbols
  BY <1>1, <1>9 DEF Books
<1>11. Len(sources.relocs) = Len(relocs) /\ sources.relocs \in Seq(Origin)
  BY <1>1, Files DEF TypeOK
<1>12. /\ Append(sources.relocs, src)[Len(relocs) + 1] = src
       /\ \A i \in 1..Len(relocs) : Append(sources.relocs, src)[i] = sources.relocs[i]
  BY <1>6, <1>11
<1>13. UNCHANGED <<nfile, headers, entries, sections, symbols>>
  BY DEF CollectReloc
<1> QED
  BY <1>2, <1>5, <1>6, <1>8, <1>10, <1>12, <1>13, Files, ZenonT(40)

\* The other steps
LEMMA ReadSteps ==
  ASSUME TypeInv, [Next]_vars
  PROVE  \/ Unread /\ Len(sections') = Len(sections)
         \/ OpenObject
         \/ HeaderRead(Len(sections)) /\ Len(sections') = Len(sections) + 1
         \/ HeaderRead(-1) /\ sections' = sections
         \/ EndSections
         \/ CollectSymbol
         \/ CollectReloc
<1>1. TypeOK /\ Books
  BY DEF TypeInv
<1>2. CASE AppendSection
  <2>1. PICK size \in Sizes :
          sections' = Append(sections, [NoSection EXCEPT !.offset = output_size, !.size = size])
    BY <1>2 DEF AppendSection
  <2>2. Len(sections') = Len(sections) + 1
    BY <1>1, <2>1, Rows
  <2>3. phase = "sections" /\ nfile >= 1
    BY <1>1, <1>2 DEF AppendSection, NextHeader, Running, Books
  <2> QED
    BY <1>2, <2>2, <2>3 DEF AppendSection, NextHeader, HeaderRead
<1>3. CASE SkipSection
  <2>1. phase = "sections" /\ nfile >= 1
    BY <1>1, <1>3 DEF SkipSection, NextHeader, Running, Books
  <2> QED
    BY <1>3, <2>1 DEF SkipSection, NextHeader, HeaderRead
<1>4. CASE PlaceSection
  <2>1. sections' = [sections EXCEPT ![at].addr = current_vaddr]
    BY <1>4 DEF PlaceSection
  <2>2. Len(sections') = Len(sections)
    BY <1>1, <2>1, Rows
  <2> QED
    BY <1>4, <2>2 DEF PlaceSection, Unread, history
<1>5. CASE \/ Fail \/ SectionOverrun \/ SymbolOverrun \/ RelocOverrun \/ EndSymbols
           \/ EndObject
  BY <1>5 DEF Fail, SectionOverrun, SymbolOverrun, RelocOverrun, EndSymbols, EndObject,
              Unread, tables, history
<1>6. CASE StartLayout \/ StartRelocs \/ Link \/ Stopped \/ UNCHANGED vars
  BY <1>6 DEF StartLayout, StartRelocs, Link, Apply, NoStart, WriteProgram, Stopped, vars,
              Unread, tables, history
<1> QED
  BY <1>2, <1>3, <1>4, <1>5, <1>6 DEF Next, ReadObjects, LayOut

\* A header's number is the count of sections before it, so that in the first file
\* it is below the header's own.
Numbered ==
  /\ \A f \in DOMAIN headers : \A k \in DOMAIN headers[f] : headers[f][k] < Len(sections)
  /\ nfile = 0 => Len(sections) = 0
  /\ nfile = 1 => Len(sections) <= Len(headers[1])
  /\ nfile >= 1 => \A k \in DOMAIN headers[1] : headers[1][k] < k

LEMMA NumberedNext ==
  ASSUME TypeInv, Numbered, [Next]_vars
  PROVE  Numbered'
<1>0. /\ Len(sections) \in Nat /\ nfile \in Nat /\ headers \in Seq(Seq(Int))
      /\ Len(headers) = nfile /\ DOMAIN headers = 1..nfile
      /\ \A f \in DOMAIN headers : /\ headers[f] \in Seq(Int) /\ Len(headers[f]) \in Nat
                                   /\ DOMAIN headers[f] = 1..Len(headers[f])
      /\ \A f \in DOMAIN headers : \A k \in DOMAIN headers[f] : headers[f][k] \in Int
  <2>1. TypeOK
    BY DEF TypeInv
  <2>2. \A f \in DOMAIN headers : headers[f] \in Seq(Int)
    BY Files
  <2>3. \A f \in DOMAIN headers : \A k \in DOMAIN headers[f] : headers[f][k] \in Int
    BY <2>2
  <2> QED
    BY <2>1, <2>3, Rows, Files
<1>1. CASE UNCHANGED <<nfile, headers>> /\ Len(sections') = Len(sections)
  BY <1>1 DEF Numbered
<1>2. CASE OpenObject
  <2>1. nfile' = nfile + 1 /\ headers' = Append(headers, <<>>) /\ sections' = sections
    BY <1>2 DEF OpenObject, tables
  <2>2. <<>> \in Seq(Int) /\ Len(<<>>) = 0 /\ DOMAIN <<>> = {}
    OBVIOUS
  <2>3. /\ DOMAIN headers' = 1..(nfile + 1)
        /\ \A f \in 1..nfile : headers'[f] = headers[f]
        /\ headers'[nfile + 1] = <<>>
    BY <1>0, <2>1, <2>2
  <2>4. \A f \in DOMAIN headers' : f \in 1..nfile \/ f = nfile + 1
    BY <1>0, <2>3
  <2>5. \A f \in DOMAIN headers' : \A k \in DOMAIN headers'[f] : headers'[f][k] < Len(sections)
    BY <1>0, <2>2, <2>3, <2>4 DEF Numbered
  <2>6. CASE nfile = 0
    <3>1. nfile' = 1 /\ headers'[1] = <<>> /\ Len(sections) = 0
      BY <2>1, <2>3, <2>6 DEF Numbered
    <3> QED
      BY <2>1, <2>2, <2>5, <3>1 DEF Numbered
  <2>7. CASE nfile >= 1
    <3>1. nfile' # 0 /\ nfile' # 1 /\ headers'[1] = headers[1]
      BY <1>0, <2>1, <2>3, <2>7
    <3> QED
      BY <2>1, <2>5, <2>7, <3>1 DEF Numbered
  <2> QED
    BY <1>0, <2>6, <2>7
<1>3. ASSUME NEW number \in Int, HeaderRead(number), number <= Len(sections),
             number < Len(sections'), Len(sections') \in Nat,
             \/ number = -1 /\ Len(sections') = Len(sections)
             \/ Len(sections') = Len(sections) + 1
      PROVE  Numbered'
  <2>1. nfile \in 1..nfile /\ nfile' = nfile /\ nfile >= 1
        /\ headers' = [headers EXCEPT ![nfile] = Append(@, number)]
    BY <1>0, <1>3 DEF HeaderRead
  <2> DEFINE h == Append(headers[nfile], number)
             n == Len(headers[nfile])
  <2>2. /\ n \in Nat /\ h \in Seq(Int) /\ Len(h) = n + 1 /\ DOMAIN h = 1..(n + 1)
        /\ h[n + 1] = number /\ \A k \in 1..n : h[k] = headers[nfile][k]
    BY <1>0, <1>3, <2>1
  <2>3. headers' = [headers EXCEPT ![nfile] = h]
    BY <2>1
  <2> HIDE DEF h
  <2>4. /\ DOMAIN headers' = 1..nfile /\ headers'[nfile] = h
        /\ \A f \in 1..nfile : f # nfile => headers'[f] = headers[f]
    BY <1>0, <2>1, <2>3
  <2>5. \A f \in 1..nfile : \A k \in DOMAIN headers[f] : headers[f][k] < Len(sections')
    <3> SUFFICES ASSUME NEW f \in 1..nfile, NEW k \in DOMAIN headers[f]
                 PROVE  headers[f][k] < Len(sections')
      OBVIOUS
    <3>1. headers[f][k] \in Int /\ headers[f][k] < Len(sections)
      BY <1>0 DEF Numbered
    <3>2. Len(sections) <= Len(sections')
      BY <1>0, <1>3
    <3> QED
      BY <1>0, <1>3, <3>1, <3>2
  <2>6. \A k \in 1..(n + 1) : k \in 1..n \/ k = n + 1
    BY <2>2
  <2>7. \A k \in DOMAIN h : h[k] < Len(sections')
    BY <1>0, <1>3, <2>1, <2>2, <2>5, <2>6
  <2>8. \A f \in DOMAIN headers' : \A k \in DOMAIN headers'[f] : headers'[f][k] < Len(sections')
    BY <2>4, <2>5, <2>7
  <2>9. CASE nfile = 1
    <3>1. Len(sections) <= n /\ \A k \in 1..n : headers[1][k] < k
      BY <1>0, <2>9 DEF Numbered
    <3>2. Len(sections') <= Len(h)
      BY <1>0, <1>3, <2>2, <3>1
    <3>3. \A k \in DOMAIN h : h[k] < k
      <4>1. number < n + 1
        BY <1>0, <1>3, <2>2, <3>1
      <4> QED
        BY <2>2, <2>6, <2>9, <3>1, <4>1
    <3> QED
      BY <2>1, <2>4, <2>8, <2>9, <3>2, <3>3 DEF Numbered
  <2>10. CASE nfile # 1
    <3>1. headers'[1] = headers[1]
      BY <1>0, <2>1, <2>4, <2>10
    <3> QED
      BY <1>0, <2>1, <2>8, <2>10, <3>1 DEF Numbered
  <2> QED
    BY <2>9, <2>10
<1>4. CASE HeaderRead(Len(sections)) /\ Len(sections') = Len(sections) + 1
  <2>1. Len(sections) \in Int /\ Len(sections) <= Len(sections) /\ Len(sections) < Len(sections')
        /\ Len(sections') \in Nat
    BY <1>0, <1>4
  <2> QED
    BY <1>3, <1>4, <2>1
<1>5. CASE HeaderRead(-1) /\ sections' = sections
  <2>1. -1 \in Int /\ -1 <= Len(sections) /\ -1 < Len(sections') /\ Len(sections') \in Nat
        /\ Len(sections') = Len(sections)
    BY <1>0, <1>5
  <2> QED
    BY <1>3, <1>5, <2>1
<1>6. CASE EndSections
  BY <1>1, <1>6 DEF EndSections, tables
<1>7. CASE CollectSymbol \/ CollectReloc
  BY <1>1, <1>7 DEF CollectSymbol, CollectReloc
<1> QED
  BY <1>1, <1>2, <1>4, <1>5, <1>6, <1>7, ReadSteps DEF Unread

\* Tables of files only grow.
LEMMA FilesGrow ==
  ASSUME TypeInv, [Next]_vars
  PROVE  /\ Len(entries) \in Nat /\ Len(entries') \in Nat /\ Len(entries) <= Len(entries')
         /\ \A f \in 1..Len(entries) :
              /\ Len(entries[f]) \in Nat /\ Len(entries'[f]) \in Nat
              /\ Len(entries[f]) <= Len(entries'[f])
              /\ \A e \in 1..Len(entries[f]) : entries'[f][e] = entries[f][e]
         /\ nfile <= nfile' /\ nfile \in Nat /\ nfile' \in Nat
         /\ \A f \in 1..nfile : \A k \in DOMAIN headers[f] :
              k \in DOMAIN headers'[f] /\ headers'[f][k] = headers[f][k]
<1>0. /\ Len(entries) \in Nat /\ DOMAIN entries = 1..Len(entries)
      /\ \A f \in 1..Len(entries) :
           Len(entries[f]) \in Nat /\ DOMAIN entries[f] = 1..Len(entries[f])
      /\ entries \in Seq(Seq(TableEntry)) /\ headers \in Seq(Seq(Int)) /\ nfile \in Nat
      /\ Len(headers) = nfile /\ DOMAIN headers = 1..nfile
      /\ \A f \in 1..nfile : /\ headers[f] \in Seq(Int) /\ Len(headers[f]) \in Nat
                              /\ DOMAIN headers[f] = 1..Len(headers[f])
  BY Files
<1>1. CASE Unread \/ CollectReloc
  <2>1. UNCHANGED <<nfile, headers, entries>>
    BY <1>1 DEF Unread, CollectReloc
  <2> QED
    BY <1>0, <2>1
<1>2. CASE OpenObject
  <2>1. nfile' = nfile + 1 /\ headers' = Append(headers, <<>>) /\ entries' = entries
    BY <1>2 DEF OpenObject
  <2>2. <<>> \in Seq(Int)
    OBVIOUS
  <2>3. \A f \in 1..nfile : headers'[f] = headers[f]
    BY <1>0, <2>1, <2>2
  <2> QED
    BY <1>0, <2>1, <2>3
<1>3. ASSUME NEW number \in Int, HeaderRead(number)
      PROVE  /\ UNCHANGED <<nfile, entries>>
             /\ \A f \in 1..nfile : \A k \in DOMAIN headers[f] :
                  k \in DOMAIN headers'[f] /\ headers'[f][k] = headers[f][k]
  <2>1. nfile \in 1..nfile /\ UNCHANGED <<nfile, entries>>
        /\ headers' = [headers EXCEPT ![nfile] = Append(@, number)]
    BY <1>0, <1>3 DEF HeaderRead
  <2>2. \A k \in DOMAIN headers[nfile] :
          /\ k \in DOMAIN Append(headers[nfile], number)
          /\ Append(headers[nfile], number)[k] = headers[nfile][k]
    BY <1>0, <1>3, <2>1
  <2>3. \A f \in 1..nfile :
          headers'[f] = IF f = nfile THEN Append(headers[nfile], number) ELSE headers[f]
    BY <1>0, <2>1
  <2> QED
    BY <2>1, <2>2, <2>3
<1>4. CASE EndSections
  <2>1. PICK table \in {<<Unnamed>>, <<>>} : entries' = Append(entries, table)
    BY <1>4 DEF EndSections
  <2>2. Unnamed \in TableEntry
    BY DEF Unnamed, TableEntry, SHN_UNDEF
  <2>3. <<Unnamed>> \in Seq(TableEntry) /\ <<>> \in Seq(TableEntry)
    BY <2>2
  <2>4. table \in Seq(TableEntry)
    BY <2>3
  <2>5. Len(entries') = Len(entries) + 1 /\ \A f \in 1..Len(entries) : entries'[f] = entries[f]
    BY <1>0, <2>1, <2>4
  <2>6. UNCHANGED <<nfile, headers>>
    BY <1>4 DEF EndSections
  <2> QED
    BY <1>0, <2>5, <2>6
<1>5. CASE CollectSymbol
  <2>1. PICK e \in Entry :
           /\ nfile \in DOMAIN entries /\ Len(entries') = Len(entries)
           /\ \A f \in DOMAIN entries : f # nfile => entries'[f] = entries[f]
           /\ Len(entries'[nfile]) = Len(entries[nfile]) + 1
           /\ \A d \in DOMAIN entries[nfile] : entries'[nfile][d] = entries[nfile][d]
           /\ UNCHANGED <<nfile, headers>>
    BY <1>5, SymbolRead
  <2>2. \A f \in 1..Len(entries) : f # nfile => entries'[f] = entries[f]
    BY <1>0, <2>1
  <2>3. /\ Len(entries[nfile]) \in Nat /\ Len(entries'[nfile]) \in Nat
        /\ Len(entries[nfile]) <= Len(entries'[nfile])
        /\ \A d \in 1..Len(entries[nfile]) : entries'[nfile][d] = entries[nfile][d]
    BY <1>0, <2>1
  <2>4. \A f \in 1..Len(entries) :
          /\ Len(entries[f]) \in Nat /\ Len(entries'[f]) \in Nat
          /\ Len(entries[f]) <= Len(entries'[f])
          /\ \A e1 \in 1..Len(entries[f]) : entries'[f][e1] = entries[f][e1]
    BY <1>0, <2>2, <2>3
  <2> QED
    BY <1>0, <2>1, <2>4
<1>6. CASE HeaderRead(Len(sections)) \/ HeaderRead(-1)
  <2>1. Len(sections) \in Int /\ -1 \in Int
    BY Rows DEF TypeInv
  <2>2. /\ UNCHANGED <<nfile, entries>>
        /\ \A f \in 1..nfile : \A k \in DOMAIN headers[f] :
             k \in DOMAIN headers'[f] /\ headers'[f][k] = headers[f][k]
    BY <1>3, <1>6, <2>1
  <2> QED
    BY <1>0, <2>2
<1> QED
  BY <1>1, <1>2, <1>4, <1>5, <1>6, ReadSteps

\* Symbols and relocations keep the numbers their object gave them.
SymbolTrue(x, o) ==
  /\ x.section = o.section /\ o.file \in 1..Len(entries)
  /\ o.file = 1 => o.entry \in 0..(Len(entries[1]) - 1)
RelocTrue(x, o) ==
  /\ x.section = o.section /\ x.symbol = o.entry
  /\ o.file = 1 => nfile >= 1 /\ o.section \in DOMAIN headers[1]
SourcesTrue ==
  /\ \A i \in DOMAIN symbols : SymbolTrue(symbols[i], sources.symbols[i])
  /\ \A i \in DOMAIN relocs : RelocTrue(relocs[i], sources.relocs[i])

\* What is true of a row stays true while tables grow.
LEMMA TrueStays ==
  ASSUME TypeInv, [Next]_vars, NEW x, NEW o
  PROVE  /\ SymbolTrue(x, o) =>
              /\ x.section = o.section /\ o.file \in 1..Len(entries')
              /\ o.file = 1 => o.entry \in 0..(Len(entries'[1]) - 1)
         /\ RelocTrue(x, o) =>
              /\ x.section = o.section /\ x.symbol = o.entry
              /\ o.file = 1 => nfile' >= 1 /\ o.section \in DOMAIN headers'[1]
<1>1. ASSUME SymbolTrue(x, o)
      PROVE  /\ x.section = o.section /\ o.file \in 1..Len(entries')
             /\ o.file = 1 => o.entry \in 0..(Len(entries'[1]) - 1)
  <2>1. o.file \in 1..Len(entries)
    BY <1>1 DEF SymbolTrue
  <2>2. o.file \in 1..Len(entries')
    BY <2>1, FilesGrow
  <2>3. ASSUME o.file = 1
        PROVE  o.entry \in 0..(Len(entries'[1]) - 1)
    <3>1. o.entry \in 0..(Len(entries[1]) - 1) /\ 1 \in 1..Len(entries)
      BY <1>1, <2>1, <2>3 DEF SymbolTrue
    <3>2. /\ Len(entries[1]) \in Nat /\ Len(entries'[1]) \in Nat
          /\ Len(entries[1]) <= Len(entries'[1])
      BY <3>1, FilesGrow
    <3> QED
      BY <3>1, <3>2
  <2> QED
    BY <1>1, <2>2, <2>3 DEF SymbolTrue
<1>2. ASSUME RelocTrue(x, o)
      PROVE  /\ x.section = o.section /\ x.symbol = o.entry
             /\ o.file = 1 => nfile' >= 1 /\ o.section \in DOMAIN headers'[1]
  <2>1. ASSUME o.file = 1
        PROVE  nfile' >= 1 /\ o.section \in DOMAIN headers'[1]
    <3>1. nfile >= 1 /\ o.section \in DOMAIN headers[1]
      BY <1>2, <2>1 DEF RelocTrue
    <3>2. nfile \in Nat /\ nfile' \in Nat /\ nfile <= nfile'
      BY FilesGrow
    <3>3. 1 \in 1..nfile
      BY <3>1, <3>2
    <3> QED
      BY <3>1, <3>2, <3>3, FilesGrow
  <2> QED
    BY <1>2, <2>1 DEF RelocTrue
<1> QED
  BY <1>1, <1>2

LEMMA SourcesNext ==
  ASSUME TypeInv, SourcesTrue, [Next]_vars
  PROVE  SourcesTrue'
<1>0. /\ Len(symbols) \in Nat /\ DOMAIN symbols = 1..Len(symbols)
      /\ Len(relocs) \in Nat /\ DOMAIN relocs = 1..Len(relocs)
      /\ Len(symbols') \in Nat /\ DOMAIN symbols' = 1..Len(symbols')
      /\ Len(relocs') \in Nat /\ DOMAIN relocs' = 1..Len(relocs')
  <2>1. TypeInv'
    BY TypeNext
  <2>2. symbols \in Seq(Symbol) /\ relocs \in Seq(Reloc)
    BY DEF TypeInv, TypeOK, Symbol, Reloc
  <2>3. symbols' \in Seq(Symbol) /\ relocs' \in Seq(Reloc)
    BY <2>1 DEF TypeInv, TypeOK, Symbol, Reloc
  <2> QED
    BY <2>2, <2>3
<1>1. ASSUME NEW i \in DOMAIN symbols
      PROVE  SymbolTrue(symbols[i], sources.symbols[i])'
               \/ ~(symbols'[i] = symbols[i] /\ sources'.symbols[i] = sources.symbols[i])
  BY <1>1, TrueStays, ZenonT(40) DEF SourcesTrue, SymbolTrue
<1>2. ASSUME NEW i \in DOMAIN relocs
      PROVE  RelocTrue(relocs[i], sources.relocs[i])'
               \/ ~(relocs'[i] = relocs[i] /\ sources'.relocs[i] = sources.relocs[i])
  <2> SUFFICES ASSUME relocs'[i] = relocs[i] /\ sources'.relocs[i] = sources.relocs[i]
               PROVE  RelocTrue(relocs[i], sources.relocs[i])'
    OBVIOUS
  <2>1. PICK x, o : x = relocs[i] /\ o = sources.relocs[i]
    OBVIOUS
  <2>2. RelocTrue(x, o)
    BY <2>1 DEF SourcesTrue
  <2>3. /\ x.section = o.section /\ x.symbol = o.entry
        /\ o.file = 1 => nfile' >= 1 /\ o.section \in DOMAIN headers'[1]
    BY <2>2, TrueStays
  <2> QED
    BY <2>1, <2>3 DEF RelocTrue
<1>3. CASE UNCHANGED <<symbols, relocs, sources>>
  BY <1>1, <1>2, <1>3 DEF SourcesTrue
<1>4. CASE CollectSymbol
  <2>1. PICK e \in Entry :
           /\ nfile \in DOMAIN entries /\ Len(entries') = Len(entries) /\ Len(entries) = nfile
           /\ Len(entries'[nfile]) = Len(entries[nfile]) + 1
           /\ IF Kept(e)
              THEN /\ Len(symbols') = Len(symbols) + 1 /\ symbols'[Len(symbols) + 1] = e
                   /\ \A i \in DOMAIN symbols : /\ symbols'[i] = symbols[i]
                                                /\ sources'.symbols[i] = sources.symbols[i]
                   /\ sources'.symbols[Len(symbols) + 1]
                        = [file |-> nfile, entry |-> Len(entries[nfile]), section |-> e.section]
              ELSE symbols' = symbols /\ sources'.symbols = sources.symbols
           /\ sources'.relocs = sources.relocs /\ relocs' = relocs
    BY <1>4, SymbolRead
  <2>2. \A i \in DOMAIN relocs' : RelocTrue(relocs[i], sources.relocs[i])'
    BY <1>2, <2>1
  <2>3. CASE ~Kept(e)
    BY <1>1, <2>1, <2>2, <2>3 DEF SourcesTrue
  <2>4. CASE Kept(e)
    <3>1. \A i \in DOMAIN symbols : SymbolTrue(symbols[i], sources.symbols[i])'
      BY <1>1, <2>1, <2>4
    <3>0. PICK n : n = Len(symbols) + 1
      OBVIOUS
    <3> DEFINE o == [file |-> nfile, entry |-> Len(entries[nfile]), section |-> e.section]
    <3>2. symbols'[n] = e /\ sources'.symbols[n] = o
      BY <2>1, <2>4, <3>0
    <3>3. o.section = e.section /\ o.file = nfile /\ o.entry = Len(entries[nfile])
      OBVIOUS
    <3> HIDE DEF o
    <3>4. nfile \in 1..Len(entries') /\ Len(entries[nfile]) \in 0..(Len(entries'[nfile]) - 1)
      BY <2>1, Files
    <3>5. SymbolTrue(symbols[n], sources.symbols[n])'
      <4>1. e.section = o.section /\ o.file \in 1..Len(entries')
        BY <3>3, <3>4
      <4>2. o.file = 1 => o.entry \in 0..(Len(entries'[1]) - 1)
        BY <3>3, <3>4
      <4> QED
        BY <3>2, <4>1, <4>2 DEF SymbolTrue
    <3>6. \A i \in DOMAIN symbols' : i \in DOMAIN symbols \/ i = n
      BY <1>0, <2>1, <2>4, <3>0
    <3> QED
      BY <2>2, <3>1, <3>5, <3>6 DEF SourcesTrue
  <2> QED
    BY <2>3, <2>4
<1>5. CASE CollectReloc
  <2>1. PICK k \in DOMAIN headers[nfile], e \in 0..(Len(entries[nfile]) - 1) :
           /\ Len(relocs') = Len(relocs) + 1
           /\ relocs'[Len(relocs) + 1].section = k /\ relocs'[Len(relocs) + 1].symbol = e
           /\ \A i \in DOMAIN relocs : /\ relocs'[i] = relocs[i]
                                       /\ sources'.relocs[i] = sources.relocs[i]
           /\ sources'.relocs[Len(relocs) + 1] = [file |-> nfile, entry |-> e, section |-> k]
           /\ sources'.symbols = sources.symbols
           /\ nfile \in DOMAIN headers
           /\ UNCHANGED <<nfile, headers, entries, sections, symbols>>
    BY <1>5, RelocRead
  <2>2. \A i \in DOMAIN symbols' : SymbolTrue(symbols[i], sources.symbols[i])'
    BY <1>1, <2>1
  <2>3. \A i \in DOMAIN relocs : RelocTrue(relocs[i], sources.relocs[i])'
    BY <1>2, <2>1
  <2>4. PICK n : n = Len(relocs) + 1
    OBVIOUS
  <2>5. RelocTrue(relocs[n], sources.relocs[n])'
    <3>1. nfile >= 1 /\ nfile' = nfile /\ headers' = headers
      BY <2>1, Files
    <3> QED
      BY <2>1, <2>4, <3>1 DEF RelocTrue
  <2>6. \A i \in DOMAIN relocs' : i \in DOMAIN relocs \/ i = n
    BY <1>0, <2>1, <2>4
  <2> QED
    BY <2>2, <2>3, <2>5, <2>6 DEF SourcesTrue
<1>6. CASE OpenObject \/ EndSections
  BY <1>3, <1>6 DEF OpenObject, EndSections, tables
<1> QED
  BY <1>3, <1>4, <1>5, <1>6, ReadSteps DEF Unread, HeaderRead

\* Behind an empty entry every symbol of the first file is further down its object's
\* table than in the linker's.
Behind ==
  Len(entries) >= 1 /\ entries[1] # <<>> /\ entries[1][1] = Unnamed =>
    /\ nfile = 1 => Len(symbols) < Len(entries[1])
    /\ \A j \in DOMAIN symbols : sources.symbols[j].file = 1 => j <= sources.symbols[j].entry

\* A file that has no entries yet has given no symbols.
LEMMA NoneYet ==
  ASSUME TypeInv, SourcesTrue,
         Len(entries) = 0 \/ (Len(entries) = 1 /\ entries[1] = <<>>)
  PROVE  Len(symbols) = 0
<1>1. Len(symbols) \in Nat /\ DOMAIN symbols = 1..Len(symbols)
  BY Rows DEF TypeInv
<1>2. ASSUME Len(symbols) >= 1
      PROVE  FALSE
  <2>1. SymbolTrue(symbols[1], sources.symbols[1])
    BY <1>1, <1>2 DEF SourcesTrue
  <2>2. PICK o : o = sources.symbols[1]
    OBVIOUS
  <2>3. o.file \in 1..Len(entries) /\ (o.file = 1 => o.entry \in 0..(Len(entries[1]) - 1))
    BY <2>1, <2>2 DEF SymbolTrue
  <2>4. Len(entries) # 0
    BY <2>3
  <2>5. Len(entries) = 1 /\ Len(entries[1]) = 0
    BY <2>4
  <2>6. o.file = 1 /\ o.entry \in 0..(-1)
    BY <2>3, <2>5
  <2> QED
    BY <2>6
<1> QED
  BY <1>1, <1>2

LEMMA BehindNext ==
  ASSUME TypeInv, SourcesTrue, Behind, [Next]_vars
  PROVE  Behind'
<1>0. /\ Len(symbols) \in Nat /\ DOMAIN symbols = 1..Len(symbols)
      /\ Len(entries) \in Nat /\ DOMAIN entries = 1..Len(entries)
      /\ entries \in Seq(Seq(TableEntry))
      /\ \A f \in DOMAIN entries : /\ Len(entries[f]) \in Nat
                                   /\ entries[f] \in Seq(TableEntry)
                                   /\ DOMAIN entries[f] = 1..Len(entries[f])
      /\ nfile \in Nat
  <2>1. TypeOK
    BY DEF TypeInv
  <2> QED
    BY <2>1, Rows, Files
<1>1. CASE UNCHANGED <<entries, symbols>> /\ sources'.symbols = sources.symbols
           /\ (nfile' = nfile \/ nfile' # 1)
  BY <1>1 DEF Behind
<1>2. CASE OpenObject
  <2>1. /\ UNCHANGED <<entries, symbols, sources>> /\ nfile' = nfile + 1 /\ phase = "files"
    BY <1>2 DEF OpenObject, tables, Running
  <2>2. CASE nfile = 0
    <3>1. Len(entries) = 0
      BY <2>1, <2>2 DEF TypeInv, Books
    <3> QED
      BY <2>1, <3>1 DEF Behind
  <2>3. CASE nfile # 0
    BY <1>0, <1>1, <2>1, <2>3
  <2> QED
    BY <2>2, <2>3
<1>3. CASE EndSections
  <2>1. PICK table \in {<<Unnamed>>, <<>>} : entries' = Append(entries, table)
    BY <1>3 DEF EndSections
  <2>2. UNCHANGED <<nfile, symbols, sources>> /\ phase = "sections" /\ Len(entries) = nfile - 1
    BY <1>3 DEF EndSections, tables, Running, TypeInv, Books
  <2>3. Unnamed \in TableEntry
    BY DEF Unnamed, TableEntry, SHN_UNDEF
  <2>4. <<Unnamed>> \in Seq(TableEntry) /\ <<>> \in Seq(TableEntry)
    BY <2>3
  <2>5. table \in Seq(TableEntry)
    BY <2>4
  <2>6. CASE Len(entries) = 0
    <3>1. Len(symbols) = 0
      BY <2>6, NoneYet
    <3>2. entries' = <<table>> /\ entries'[1] = table /\ Len(entries') = 1
      BY <1>0, <2>1, <2>5, <2>6
    <3>3. table # <<>> => Len(table) = 1
      BY <2>4
    <3> QED
      BY <1>0, <2>2, <3>1, <3>2, <3>3 DEF Behind
  <2>7. CASE Len(entries) >= 1
    <3>1. nfile # 1 /\ entries'[1] = entries[1]
      BY <1>0, <2>1, <2>2, <2>5, <2>7
    <3> QED
      BY <2>2, <2>7, <3>1 DEF Behind
  <2> QED
    BY <1>0, <2>6, <2>7
<1>4. CASE CollectSymbol
  <2>1. PICK e \in Entry :
           /\ nfile \in DOMAIN entries /\ Len(entries') = Len(entries) /\ Len(entries) = nfile
           /\ \A f \in DOMAIN entries : f # nfile => entries'[f] = entries[f]
           /\ Len(entries'[nfile]) = Len(entries[nfile]) + 1
           /\ entries'[nfile][Len(entries[nfile]) + 1] = e
           /\ \A d \in DOMAIN entries[nfile] : entries'[nfile][d] = entries[nfile][d]
           /\ IF Kept(e)
              THEN /\ Len(symbols') = Len(symbols) + 1 /\ symbols'[Len(symbols) + 1] = e
                   /\ \A i \in DOMAIN symbols : /\ symbols'[i] = symbols[i]
                                                /\ sources'.symbols[i] = sources.symbols[i]
                   /\ sources'.symbols[Len(symbols) + 1]
                        = [file |-> nfile, entry |-> Len(entries[nfile]), section |-> e.section]
              ELSE symbols' = symbols /\ sources'.symbols = sources.symbols
           /\ UNCHANGED nfile
    BY <1>4, SymbolRead
  <2>2. DOMAIN symbols' = 1..Len(symbols')
    <3>1. TypeInv'
      BY TypeNext
    <3>2. symbols' \in Seq(Symbol)
      BY <3>1 DEF TypeInv, TypeOK, Symbol
    <3> QED
      BY <3>2
  <2>3. CASE nfile = 1 /\ entries[1] = <<>>
    <3>1. Len(symbols) = 0
      BY <2>1, <2>3, NoneYet
    <3>2. Len(entries'[1]) = 1 /\ entries'[1][1] = e
      BY <2>1, <2>3
    <3>3. e = Unnamed => ~Kept(e)
      <4>1. Unnamed.name = ""
        BY DEF Unnamed
      <4> QED
        BY <4>1 DEF Kept
    <3> QED
      BY <1>0, <2>1, <2>3, <3>1, <3>2, <3>3 DEF Behind
  <2>4. CASE nfile = 1 /\ entries[1] # <<>>
    <3>1. 1 \in DOMAIN entries /\ Len(entries) = 1 /\ Len(entries[1]) \in Nat
      BY <2>1, <2>4, <1>0
    <3>2. Len(entries[1]) >= 1 /\ 1 \in DOMAIN entries[1]
      BY <1>0, <2>4, <3>1
    <3>3. entries'[1][1] = entries[1][1] /\ Len(entries'[1]) = Len(entries[1]) + 1
      BY <2>1, <2>4, <3>2
    <3> SUFFICES ASSUME entries[1][1] = Unnamed
                 PROVE  /\ Len(symbols') < Len(entries'[1])
                        /\ \A j \in DOMAIN symbols' :
                             sources'.symbols[j].file = 1 => j <= sources'.symbols[j].entry
      BY <2>1, <2>4, <3>3 DEF Behind
    <3>4. /\ Len(symbols) < Len(entries[1])
          /\ \A j \in DOMAIN symbols :
               sources.symbols[j].file = 1 => j <= sources.symbols[j].entry
      BY <2>4, <3>1 DEF Behind
    <3>5. CASE ~Kept(e)
      BY <1>0, <2>1, <3>1, <3>3, <3>4, <3>5
    <3>6. CASE Kept(e)
      <4>1. Len(symbols') = Len(symbols) + 1 /\ Len(symbols) + 1 <= Len(entries[1])
        BY <1>0, <2>1, <3>1, <3>4, <3>6
      <4>2. sources'.symbols[Len(symbols) + 1].entry = Len(entries[1])
        BY <2>1, <2>4, <3>6
      <4>3. \A j \in DOMAIN symbols : sources'.symbols[j] = sources.symbols[j]
        BY <2>1, <3>6
      <4>4. \A j \in DOMAIN symbols' : j \in DOMAIN symbols \/ j = Len(symbols) + 1
        BY <1>0, <2>2, <4>1
      <4>5. Len(symbols') < Len(entries'[1])
        BY <1>0, <3>1, <3>3, <4>1
      <4> QED
        BY <3>4, <4>1, <4>2, <4>3, <4>4, <4>5
    <3> QED
      BY <3>5, <3>6
  <2>5. CASE nfile # 1
    <3>1. Len(entries) >= 1 => entries'[1] = entries[1]
      <4>1. Len(entries) >= 1 => 1 \in DOMAIN entries
        BY <1>0
      <4> QED
        BY <2>1, <2>5, <4>1
    <3>2. \A j \in DOMAIN symbols' :
            \/ j \in DOMAIN symbols /\ sources'.symbols[j] = sources.symbols[j]
            \/ sources'.symbols[j].file = nfile
      <4>1. CASE Kept(e)
        <5>1. \A j \in DOMAIN symbols' : j \in DOMAIN symbols \/ j = Len(symbols) + 1
          BY <1>0, <2>1, <2>2, <4>1
        <5> QED
          BY <2>1, <4>1, <5>1
      <4>2. CASE ~Kept(e)
        BY <2>1, <4>2
      <4> QED
        BY <4>1, <4>2
    <3> QED
      BY <2>1, <2>5, <3>1, <3>2 DEF Behind
  <2> QED
    BY <2>3, <2>4, <2>5
<1>5. CASE CollectReloc
  <2>1. UNCHANGED <<nfile, entries, symbols>> /\ sources'.symbols = sources.symbols
    BY <1>5, RelocRead
  <2> QED
    BY <1>1, <2>1
<1> QED
  BY <1>1, <1>2, <1>3, <1>4, <1>5, ReadSteps DEF Unread, HeaderRead

NumberInv == Numbered /\ SourcesTrue /\ Behind

LEMMA NumberInit == Init => NumberInv
<1> SUFFICES ASSUME Init PROVE NumberInv
  OBVIOUS
<1>1. /\ nfile = 0 /\ DOMAIN headers = {} /\ Len(entries) = 0 /\ Len(sections) = 0
      /\ DOMAIN symbols = {} /\ DOMAIN relocs = {}
  BY DEF Init
<1> QED
  BY <1>1 DEF NumberInv, Numbered, SourcesTrue, Behind

LEMMA ShiftedFollows == TypeInv /\ NumberInv => NumbersShifted
<1> SUFFICES ASSUME TypeInv, NumberInv PROVE NumbersShifted
  OBVIOUS
<1>1. /\ Len(symbols) \in Nat /\ DOMAIN symbols = 1..Len(symbols)
      /\ nfile \in Nat /\ DOMAIN headers = 1..nfile
      /\ \A f \in DOMAIN headers : /\ headers[f] \in Seq(Int) /\ Len(headers[f]) \in Nat
                                   /\ DOMAIN headers[f] = 1..Len(headers[f])
      /\ Len(entries) \in Nat /\ DOMAIN entries = 1..Len(entries)
      /\ \A f \in DOMAIN entries : /\ entries[f] \in Seq(TableEntry)
                                   /\ Len(entries[f]) \in Nat
  <2>1. TypeOK
    BY DEF TypeInv
  <2> QED
    BY <2>1, Rows, Files
<1>2. ASSUME nfile >= 1, NEW k \in DOMAIN headers[1]
      PROVE  headers[1][k] # k
  <2>1. 1 \in DOMAIN headers
    BY <1>1, <1>2
  <2>2. headers[1] \in Seq(Int) /\ DOMAIN headers[1] = 1..Len(headers[1])
    BY <1>1, <2>1
  <2>3. headers[1][k] \in Int /\ headers[1][k] < k
    BY <1>2, <2>2 DEF NumberInv, Numbered
  <2> QED
    BY <2>2, <2>3
<1>3. ASSUME NEW i \in DOMAIN symbols, sources.symbols[i].file = 1,
             sources.symbols[i].section \in DOMAIN headers[1]
      PROVE  symbols[i].section # headers[1][sources.symbols[i].section]
  <2>1. PICK o : o = sources.symbols[i]
    OBVIOUS
  <2>2. symbols[i].section = o.section /\ o.file \in 1..Len(entries)
    BY <2>1 DEF NumberInv, SourcesTrue, SymbolTrue
  <2>3. nfile >= 1
    BY <1>1, <1>3, <2>1, <2>2 DEF TypeInv, Books
  <2> QED
    BY <1>2, <1>3, <2>1, <2>2, <2>3
<1>4. ASSUME NEW i \in DOMAIN relocs, sources.relocs[i].file = 1
      PROVE  relocs[i].section # headers[1][sources.relocs[i].section]
  <2>1. PICK o : o = sources.relocs[i]
    OBVIOUS
  <2>2. relocs[i].section = o.section /\ nfile >= 1 /\ o.section \in DOMAIN headers[1]
    BY <1>4, <2>1 DEF NumberInv, SourcesTrue, RelocTrue
  <2> QED
    BY <1>2, <2>1, <2>2
<1>5. ASSUME NEW i \in DOMAIN relocs, NEW j \in DOMAIN symbols,
             sources.symbols[j].file = 1,
             sources.symbols[j].entry = sources.relocs[i].entry, entries[1][1] = Unnamed
      PROVE  relocs[i].symbol # j - 1
  <2>1. PICK o : o = sources.symbols[j]
    OBVIOUS
  <2>2. o.file \in 1..Len(entries) /\ o.file = 1 /\ o.entry \in 0..(Len(entries[1]) - 1)
    BY <1>5, <2>1 DEF NumberInv, SourcesTrue, SymbolTrue
  <2>3. Len(entries) >= 1 /\ entries[1] # <<>>
    <3>1. Len(entries) >= 1 /\ 1 \in DOMAIN entries
      BY <1>1, <2>2
    <3>2. Len(entries[1]) # 0
      BY <1>1, <2>2, <3>1
    <3> QED
      BY <3>1, <3>2
  <2>4. j <= o.entry
    BY <1>5, <2>1, <2>2, <2>3 DEF NumberInv, Behind
  <2>5. relocs[i].symbol = o.entry
    BY <1>5, <2>1 DEF NumberInv, SourcesTrue, RelocTrue
  <2>6. o.entry \in Int /\ j \in Int
    BY <1>1, <2>2
  <2> QED
    BY <2>4, <2>5, <2>6
<1> QED
  BY <1>3, <1>4, <1>5 DEF NumbersShifted

\* The linker uses the objects' numbers of sections and symbols as its own; for the
\* first object they never name the section or the symbol they were written for.
THEOREM NumbersCorrect == Spec => []NumbersShifted
<1>1. TypeInv /\ NumberInv /\ [Next]_vars => (TypeInv /\ NumberInv)'
  BY TypeNext, NumberedNext, SourcesNext, BehindNext DEF NumberInv
<1> QED
  BY <1>1, TypeInit, NumberInit, ShiftedFollows, PTL DEF Spec

-----------------------------------------------------------------------------
(* The entry of the program *)

StartRef == [Unnamed EXCEPT !.name = "_start"]

\* entry e of the first file is its first mention of _start, and no definition
Refers(e) ==
  /\ entries[1][e] = StartRef
  /\ \A d \in 1..(e - 1) : entries[1][d].name # "_start"
  /\ \E k \in DOMAIN headers[1] : headers[1][k] >= 0

\* the first symbol called _start is such a mention
Found == \E i \in DOMAIN symbols : /\ symbols[i] = StartRef
                                   /\ \A j \in 1..(i - 1) : symbols[j].name # "_start"

FirstFound ==
  /\ Len(entries) = 1 => \A i \in DOMAIN symbols : \E d \in DOMAIN entries[1] :
                             symbols[i].name = entries[1][d].name
  /\ Len(entries) >= 1 => \A e \in DOMAIN entries[1] : Refers(e) => Found

Written ==
  status = "done" => /\ phase = "apply" /\ Starts # {}
                     /\ entry = AddressOf(symbols[First(Starts)])

LEMMA StartNamed == StartRef.name = "_start" /\ StartRef.value = 0 /\ StartRef.section = 0
BY DEF StartRef, Unnamed, SHN_UNDEF

\* Symbols added behind it do not hide it.
LEMMA FoundStays ==
  ASSUME TypeOK, Found, DOMAIN symbols \subseteq DOMAIN symbols',
         \A i \in DOMAIN symbols : symbols'[i] = symbols[i]
  PROVE  Found'
<1>1. PICK i \in DOMAIN symbols : /\ symbols[i] = StartRef
                                  /\ \A j \in 1..(i - 1) : symbols[j].name # "_start"
  BY DEF Found
<1>2. \A j \in 1..(i - 1) : j \in DOMAIN symbols
  BY Rows
<1>3. StartRef' = StartRef
  BY DEF StartRef, Unnamed
<1> QED
  BY <1>1, <1>2, <1>3 DEF Found

\* A symbol of the first file
LEMMA FirstCollected ==
  ASSUME TypeInv, NumberInv, FirstFound, CollectSymbol, [Next]_vars
  PROVE  FirstFound'
<1>1. TypeOK
  BY DEF TypeInv
<1>2. PICK e \in Entry :
           /\ nfile \in DOMAIN entries /\ Len(entries') = Len(entries) /\ Len(entries) = nfile
           /\ \A f \in DOMAIN entries : f # nfile => entries'[f] = entries[f]
           /\ Len(entries'[nfile]) = Len(entries[nfile]) + 1
           /\ entries'[nfile][Len(entries[nfile]) + 1] = e
           /\ \A d \in DOMAIN entries[nfile] : entries'[nfile][d] = entries[nfile][d]
           /\ IF Kept(e)
              THEN /\ Len(symbols') = Len(symbols) + 1 /\ symbols'[Len(symbols) + 1] = e
                   /\ \A i \in DOMAIN symbols : symbols'[i] = symbols[i]
              ELSE symbols' = symbols
           /\ UNCHANGED <<headers, sections>>
  BY SymbolRead
<1>3. /\ Len(symbols) \in Nat /\ DOMAIN symbols = 1..Len(symbols)
      /\ DOMAIN symbols' = 1..Len(symbols') /\ Len(symbols') \in Nat
      /\ Len(entries) \in Nat /\ DOMAIN entries = 1..Len(entries)
      /\ \A f \in DOMAIN entries : /\ Len(entries[f]) \in Nat
                                   /\ DOMAIN entries[f] = 1..Len(entries[f])
      /\ \A f \in DOMAIN entries' : DOMAIN entries'[f] = 1..Len(entries'[f])
      /\ DOMAIN entries' = 1..Len(entries')
  <2>1. TypeInv'
    BY TypeNext
  <2>2. symbols' \in Seq(Symbol) /\ entries' \in Seq(Seq(TableEntry))
    BY <2>1 DEF TypeInv, TypeOK, Symbol, TableEntry
  <2>3. \A f \in 1..Len(entries') : entries'[f] \in Seq(TableEntry)
    BY <2>2
  <2> QED
    BY <1>1, <2>2, <2>3, Rows, Files
<1>4. /\ DOMAIN symbols \subseteq DOMAIN symbols'
      /\ \A i \in DOMAIN symbols : symbols'[i] = symbols[i]
  <2>1. CASE Kept(e)
    <3>1. /\ Len(symbols') = Len(symbols) + 1
          /\ \A i \in DOMAIN symbols : symbols'[i] = symbols[i]
      BY <1>2, <2>1
    <3> QED
      BY <1>3, <3>1
  <2>2. CASE ~Kept(e)
    <3>1. symbols' = symbols
      BY <1>2, <2>2
    <3> QED
      BY <3>1
  <2> QED
    BY <2>1, <2>2
<1>5. Found => Found'
  BY <1>1, <1>4, FoundStays
<1>6. CASE nfile # 1
  <2>1a. nfile \in 1..Len(entries) /\ Len(entries') = Len(entries) /\ Len(entries) = nfile
        /\ Len(entries) \in Nat
    BY <1>2, <1>3
  <2>1b. 1 \in DOMAIN entries /\ Len(entries') # 1 /\ Len(entries) >= 1
    BY <1>3, <1>6, <2>1a
  <2>1. 1 \in DOMAIN entries /\ entries'[1] = entries[1] /\ Len(entries') # 1
        /\ Len(entries) >= 1
    BY <1>2, <1>6, <2>1b
  <2>2. \A d \in DOMAIN entries[1] : Refers(d)' => Refers(d)
    BY <1>2, <2>1 DEF Refers, StartRef, Unnamed
  <2> QED
    BY <1>2, <1>5, <2>1, <2>2 DEF FirstFound
<1>7. CASE nfile = 1
  <2>1. PICK n : n = Len(entries[1]) + 1
    OBVIOUS
  <2>2a. Len(entries) = 1 /\ Len(entries') = 1
    BY <1>2, <1>7
  <2>2b. 1 \in DOMAIN entries /\ 1 \in DOMAIN entries'
    BY <1>3, <2>2a
  <2>2c. /\ Len(entries[1]) \in Nat /\ DOMAIN entries[1] = 1..Len(entries[1])
    BY <1>3, <2>2b
  <2>2d. /\ Len(entries'[1]) = Len(entries[1]) + 1 /\ entries'[1][Len(entries[1]) + 1] = e
         /\ \A d \in DOMAIN entries[1] : entries'[1][d] = entries[1][d]
    BY <1>2, <1>7
  <2>2. /\ Len(entries) = 1 /\ Len(entries') = 1 /\ 1 \in DOMAIN entries /\ 1 \in DOMAIN entries'
        /\ Len(entries[1]) \in Nat /\ DOMAIN entries[1] = 1..Len(entries[1])
        /\ Len(entries'[1]) = n /\ entries'[1][n] = e /\ n \in Nat
        /\ \A d \in DOMAIN entries[1] : entries'[1][d] = entries[1][d]
    BY <2>2a, <2>2b, <2>2c, <2>2d, <2>1
  <2>3. DOMAIN entries'[1] = 1..n
    BY <1>3, <2>2
  <2>4. \A d \in DOMAIN entries'[1] : d \in DOMAIN entries[1] \/ d = n
    BY <2>1, <2>2, <2>3
  <2>5. ASSUME NEW i \in DOMAIN symbols'
        PROVE  \E d \in DOMAIN entries'[1] : symbols'[i].name = entries'[1][d].name
    <3>1. CASE i \in DOMAIN symbols
      <4>1. PICK d \in DOMAIN entries[1] : symbols[i].name = entries[1][d].name
        BY <2>2, <3>1 DEF FirstFound
      <4>2. d \in DOMAIN entries'[1]
        BY <2>1, <2>2, <2>3
      <4> QED
        BY <1>4, <2>2, <3>1, <4>1, <4>2
    <3>2. CASE i \notin DOMAIN symbols
      <4>1. Kept(e) /\ i = Len(symbols) + 1
        <5>1. Kept(e)
          <6>1. SUFFICES ASSUME ~Kept(e) PROVE FALSE
            OBVIOUS
          <6>2. symbols' = symbols
            BY <1>2, <6>1
          <6> QED
            BY <2>5, <3>2, <6>2
        <5>2. Len(symbols') = Len(symbols) + 1
          BY <1>2, <5>1
        <5>3. i \in 1..(Len(symbols) + 1) /\ i \notin 1..Len(symbols)
          BY <1>3, <2>5, <3>2, <5>2
        <5> QED
          BY <1>3, <5>1, <5>3
      <4>2. symbols'[i] = e /\ n \in DOMAIN entries'[1]
        BY <1>2, <2>1, <2>2, <2>3, <4>1
      <4> QED
        BY <2>2, <4>2
    <3> QED
      BY <3>1, <3>2
  <2>6. ASSUME NEW d \in DOMAIN entries'[1], Refers(d)'
        PROVE  Found'
    <3>1. /\ entries'[1][d] = StartRef
          /\ \A c \in 1..(d - 1) : entries'[1][c].name # "_start"
          /\ \E k \in DOMAIN headers[1] : headers[1][k] >= 0
      BY <1>2, <2>6 DEF Refers, StartRef, Unnamed
    <3>2. CASE d \in DOMAIN entries[1]
      <4>1. \A c \in 1..(d - 1) : c \in DOMAIN entries[1]
        BY <2>2, <3>2
      <4>2. Refers(d)
        BY <2>2, <3>1, <3>2, <4>1 DEF Refers
      <4> QED
        BY <1>5, <2>2, <3>2, <4>2 DEF FirstFound
    <3>3. CASE d = n
      <4>1. e = StartRef /\ \A c \in DOMAIN entries[1] : entries[1][c].name # "_start"
        BY <2>1, <2>2, <3>1, <3>3
      <4>2. \A i \in DOMAIN symbols : symbols[i].name # "_start"
        BY <2>2, <4>1 DEF FirstFound
      <4>3. 0 < Len(sections)
        <5>1. PICK k \in DOMAIN headers[1] : headers[1][k] >= 0
          BY <3>1
        <5>2. 1 \in DOMAIN headers /\ headers[1] \in Seq(Int)
          BY <1>2, <1>7, Files
        <5>3. headers[1][k] \in Int /\ headers[1][k] < Len(sections) /\ Len(sections) \in Nat
          BY <1>1, <5>2, Rows DEF NumberInv, Numbered
        <5> QED
          BY <5>1, <5>3
      <4>4. Kept(e)
        BY <4>1, <4>3, StartNamed DEF Kept
      <4>5. PICK m : m = Len(symbols) + 1
        OBVIOUS
      <4>6. m \in DOMAIN symbols' /\ symbols'[m] = StartRef
            /\ \A j \in 1..(m - 1) : j \in DOMAIN symbols
        BY <1>2, <1>3, <4>1, <4>4, <4>5
      <4>7. StartRef' = StartRef
        BY DEF StartRef, Unnamed
      <4> QED
        BY <1>4, <4>2, <4>6, <4>7 DEF Found
    <3> QED
      BY <2>4, <3>2, <3>3
  <2> QED
    BY <2>2, <2>5, <2>6 DEF FirstFound
<1> QED
  BY <1>6, <1>7

LEMMA FirstNext ==
  ASSUME TypeInv, NumberInv, FirstFound, [Next]_vars
  PROVE  FirstFound'
<1>0. /\ Len(entries) \in Nat /\ entries \in Seq(Seq(TableEntry)) /\ nfile \in Nat
      /\ headers \in Seq(Seq(Int)) /\ Len(headers) = nfile
  BY Files
<1>1. CASE UNCHANGED <<headers, entries, symbols>>
  BY <1>1 DEF FirstFound, Refers, Found, StartRef, Unnamed
<1>2. CASE OpenObject
  <2>1. /\ UNCHANGED <<entries, symbols>> /\ headers' = Append(headers, <<>>)
        /\ phase = "files"
    BY <1>2 DEF OpenObject, tables, Running
  <2>2. CASE nfile = 0
    <3>1. Len(entries) = 0
      BY <2>1, <2>2 DEF TypeInv, Books
    <3> QED
      BY <2>1, <3>1 DEF FirstFound
  <2>3. CASE nfile # 0
    <3>1. <<>> \in Seq(Int)
      OBVIOUS
    <3>2. headers'[1] = headers[1]
      BY <1>0, <2>1, <2>3, <3>1
    <3> QED
      BY <2>1, <3>2 DEF FirstFound, Refers, Found, StartRef, Unnamed
  <2> QED
    BY <2>2, <2>3
<1>3. ASSUME NEW number, HeaderRead(number)
      PROVE  FirstFound'
  <2>1. /\ UNCHANGED <<entries, symbols>> /\ Len(entries) = nfile - 1
        /\ headers' = [headers EXCEPT ![nfile] = Append(@, number)]
    BY <1>3 DEF HeaderRead, TypeInv, Books
  <2>2. CASE Len(entries) = 0
    BY <2>1, <2>2 DEF FirstFound
  <2>3. CASE Len(entries) >= 1
    <3>1. headers'[1] = headers[1]
      BY <1>0, <2>1, <2>3
    <3> QED
      BY <2>1, <3>1 DEF FirstFound, Refers, Found, StartRef, Unnamed
  <2> QED
    BY <1>0, <2>2, <2>3
<1>4. CASE EndSections
  <2>1. PICK table \in {<<Unnamed>>, <<>>} : entries' = Append(entries, table)
    BY <1>4 DEF EndSections
  <2>2. UNCHANGED <<headers, symbols>>
    BY <1>4 DEF EndSections, tables
  <2>3. Unnamed \in TableEntry
    BY DEF Unnamed, TableEntry, SHN_UNDEF
  <2>4. <<Unnamed>> \in Seq(TableEntry) /\ <<>> \in Seq(TableEntry)
    BY <2>3
  <2>5. table \in Seq(TableEntry)
    BY <2>4
  <2>6. CASE Len(entries) = 0
    <3>1. Len(symbols) = 0 /\ DOMAIN symbols = 1..Len(symbols)
      BY <2>6, NoneYet, Rows DEF NumberInv, TypeInv
    <3>2. entries' = <<table>> /\ entries'[1] = table /\ Len(entries') = 1
      BY <1>0, <2>1, <2>5, <2>6
    <3>3. \A d \in DOMAIN table : table[d] = Unnamed
      BY <2>4
    <3>4. Unnamed # StartRef
      <4>1. Unnamed.name = ""
        BY DEF Unnamed
      <4> QED
        BY <4>1, StartNamed
    <3>5. \A d \in DOMAIN entries'[1] : ~Refers(d)'
      BY <3>2, <3>3, <3>4 DEF Refers, StartRef, Unnamed
    <3> QED
      BY <2>2, <3>1, <3>2, <3>5 DEF FirstFound
  <2>7. CASE Len(entries) >= 1
    <3>1. entries'[1] = entries[1] /\ Len(entries') # 1
      BY <1>0, <2>1, <2>5, <2>7
    <3> QED
      BY <2>2, <2>7, <3>1 DEF FirstFound, Refers, Found, StartRef, Unnamed
  <2> QED
    BY <1>0, <2>6, <2>7
<1>5. CASE CollectSymbol
  BY <1>5, FirstCollected
<1>6. CASE CollectReloc
  <2>1. UNCHANGED <<headers, entries, symbols>>
    BY <1>6 DEF CollectReloc
  <2> QED
    BY <1>1, <2>1
<1> QED
  BY <1>1, <1>2, <1>3, <1>4, <1>5, <1>6, ReadSteps DEF Unread

\* Once the program is written nothing changes.
LEMMA WrittenNext ==
  ASSUME Written, [Next]_vars
  PROVE  Written'
<1>1. CASE Stopped \/ UNCHANGED vars
  BY <1>1 DEF Stopped, vars, tables, program, layout, Written, Starts, First, AddressOf,
              SectionAt
<1>2. CASE WriteProgram
  <2>1. phase' = phase /\ phase = "apply" /\ UNCHANGED <<sections, symbols, output_size>>
    BY <1>2 DEF WriteProgram, Running, tables
  <2>2. status' = "done" => entry' = AddressOf(symbols[First(Starts)])
    BY <1>2 DEF WriteProgram
  <2>3. Starts # {}
    BY <1>2 DEF WriteProgram
  <2> QED
    BY <2>1, <2>2, <2>3 DEF Written, Starts, First, AddressOf, SectionAt
<1>3. CASE ReadObjects
  <2>1. status' # "done"
    BY <1>3 DEF ReadObjects, Fail, OpenObject, AppendSection, SkipSection, NextHeader,
                SectionOverrun, EndSections, CollectSymbol, SymbolOverrun, EndSymbols,
                CollectReloc, RelocOverrun, EndObject, Running
  <2> QED
    BY <2>1 DEF Written
<1>4. CASE LayOut \/ Apply \/ NoStart
  <2>1. status' # "done"
    BY <1>4 DEF LayOut, StartLayout, PlaceSection, StartRelocs, Apply, NoStart, Running
  <2> QED
    BY <2>1 DEF Written
<1> QED
  BY <1>1, <1>2, <1>3, <1>4 DEF Next, Link

EntryInv == LinkInv /\ NumberInv /\ FirstFound /\ Written

LEMMA EntryInit == Init => EntryInv
<1>1. Init => FirstFound /\ Written
  BY DEF Init, FirstFound, Written
<1> QED
  BY <1>1, LinkInit, NumberInit DEF EntryInv

LEMMA EntryNext == EntryInv /\ [Next]_vars => EntryInv'
<1>1. EntryInv /\ [Next]_vars => LinkInv'
  BY LinkNext DEF EntryInv
<1> QED
  BY <1>1, NumberedNext, SourcesNext, BehindNext, FirstNext, WrittenNext
  DEF EntryInv, NumberInv, LinkInv

LEMMA ReferenceFollows == EntryInv => ReferenceWins
<1> SUFFICES ASSUME EntryInv, status = "done", NEW e \in DOMAIN entries[1], Refers(e)
             PROVE  entry = PAGE_SIZE
  BY DEF ReferenceWins, Refers, StartRef
<1>1. TypeOK /\ TypeInv /\ MemoryInv /\ NumberInv /\ FirstFound /\ Written
  BY DEF EntryInv, LinkInv, TypeInv
<1>2. /\ Len(symbols) \in Nat /\ DOMAIN symbols = 1..Len(symbols)
      /\ Len(sections) \in Nat /\ DOMAIN sections = 1..Len(sections)
      /\ Len(entries) \in Nat
  BY <1>1, Rows, Files
<1>3. Starts # {}
  BY <1>1 DEF Written
<1>4. Len(entries) >= 1
  <2>1. Len(symbols) # 0
    BY <1>2, <1>3 DEF Starts
  <2> QED
    BY <1>1, <1>2, <2>1, NoneYet DEF NumberInv
<1>5. PICK i \in DOMAIN symbols : /\ symbols[i] = StartRef
                                  /\ \A j \in 1..(i - 1) : symbols[j].name # "_start"
  BY <1>1, <1>4 DEF FirstFound, Found
<1>6. First(Starts) = i
  <2>1. i \in Starts /\ \A j \in Starts : i <= j /\ j \in Nat
    <3>1. i \in Starts
      BY <1>5, StartNamed DEF Starts
    <3>2. ASSUME NEW j \in Starts
          PROVE  i <= j /\ j \in Nat
      <4>1. j \in DOMAIN symbols /\ symbols[j].name = "_start"
        BY DEF Starts
      <4>2. j \notin 1..(i - 1)
        BY <1>5, <4>1
      <4> QED
        BY <1>2, <4>1, <4>2
    <3> QED
      BY <3>1, <3>2
  <2>2. \A c \in Starts : (\A j \in Starts : c <= j) => c = i
    BY <2>1
  <2> QED
    BY <2>1, <2>2 DEF First
<1>7. entry = AddressOf(StartRef)
  BY <1>1, <1>5, <1>6 DEF Written
<1>8. 1 \in DOMAIN sections
  <2>1. StartRef.section < Len(sections)
    BY <1>1, <1>5 DEF TypeOK
  <2> QED
    BY <1>2, <2>1, StartNamed
<1>9. sections[1].addr = PAGE_SIZE
  <2>1. sections[1].addr = PAGE_SIZE + sections[1].offset
    BY <1>1, <1>8 DEF MemoryInv, Placed, Written
  <2>2. sections[1].offset = 0
    BY <1>1, <1>8 DEF MemoryInv, Chained, Place
  <2> QED
    BY <2>1, <2>2, Numbers
<1>10. AddressOf(StartRef) = PAGE_SIZE
  <2>1. SectionAt(0) = sections[1]
    BY <1>8 DEF SectionAt
  <2> QED
    BY <1>9, <2>1, StartNamed, Numbers DEF AddressOf
<1> QED
  BY <1>7, <1>10

\* A first file that only mentions _start makes the program start at its first byte
\* (find_symbol() and write_elf_header()).
THEOREM ReferenceCorrect == Spec => []ReferenceWins
BY EntryInit, EntryNext, ReferenceFollows, PTL DEF Spec
=============================================================================
