----------------------------- MODULE SasProofs -----------------------------
(***************************************************************************)
(* Theorems about SasEnhanced, for every source, alignment and limit: the  *)
(* types of its tables, when a section keeps its bytes, and where its      *)
(* relocations point.                                                      *)
(***************************************************************************)
EXTENDS SasEnhanced, TLAPS

Section == [name : SectionNames, start : Nat, size : Nat]
Symbol == [name : Names, value : Nat, section : Nat \ {0},
           type : {"local", "global"}, defined : BOOLEAN]
Reloc(syms, secs) == [offset : Nat, symbol : syms, section : secs]
Word == [name : Names, known : BOOLEAN, value : Nat]
Statuses == {"run", "done", "failed", "overrun"}

\* What a step does to store, current and returned.
NewSection ==
  \E name \in SectionNames :
    /\ sections' = Append(sections, [name |-> name, start |-> output_size, size |-> 0])
    /\ current' = Len(sections) + 1
    /\ UNCHANGED <<output, output_size, returned>>
Entering == /\ UNCHANGED store
            /\ current' = current \/ returned'
            /\ returned => returned'
Emission == /\ \E k \in Nat : Emit(k)
            /\ UNCHANGED <<current, returned>>

-----------------------------------------------------------------------------
(* Types *)

\* The constants are numbers of the right kind.
LEMMA Numbers ==
  /\ OutputSize \in Nat /\ Field \in Nat
  /\ \A k \in Lengths : k \in Nat
  /\ \A a \in Alignments : a \in Nat
BY BoundsAssumption DEF Field

\* The sections table, row by row.
LEMMA Rows ==
  ASSUME TypeOK
  PROVE  /\ sections \in Seq(Section) /\ Len(sections) \in Nat
         /\ DOMAIN sections = 1..Len(sections)
         /\ \A i \in DOMAIN sections :
              sections[i] \in Section /\ sections[i].start \in Nat /\ sections[i].size \in Nat
         /\ current \in 1..Len(sections) /\ current \in Nat \ {0}
         /\ lead \in {0, 1} /\ lead \in Nat
<1>1. sections \in Seq(Section) /\ current \in DOMAIN sections
  BY DEF TypeOK, Section
<1>2. Len(sections) \in Nat /\ DOMAIN sections = 1..Len(sections)
  BY <1>1
<1>3. \A i \in DOMAIN sections : sections[i] \in Section
  BY <1>1, <1>2
<1>4. \A i \in DOMAIN sections : sections[i].start \in Nat /\ sections[i].size \in Nat
  BY <1>3 DEF Section
<1>5. current \in 1..Len(sections) /\ current \in Nat \ {0}
  BY <1>1, <1>2
<1>6. lead \in {0, 1} /\ lead \in Nat
  BY DEF TypeOK
<1> QED
  BY <1>1, <1>2, <1>3, <1>4, <1>5, <1>6

\* .align emits a natural number of bytes.
LEMMA PaddingType ==
  ASSUME TypeOK, NEW align \in Alignments
  PROVE  Padding(align) \in Nat
<1>0. align \in Nat /\ sections[current].size \in Nat
  BY Numbers, Rows
<1>1. CASE align # 0
  <2>1. sections[current].size % align \in 0..(align - 1)
    BY <1>0, <1>1
  <2>2. align - (sections[current].size % align) \in Nat
    BY <1>0, <1>1, <2>1
  <2> QED
    BY <1>0, <1>1, <2>2 DEF Padding
<1> QED
  BY <1>1 DEF Padding

\* emit_byte() leaves all sections but the current one alone.
LEMMA Emitted ==
  ASSUME TypeOK, NEW k \in Nat, Emit(k)
  PROVE  /\ sections' \in Seq(Section) /\ DOMAIN sections' = DOMAIN sections
         /\ \A i \in DOMAIN sections :
              /\ sections'[i].start = sections[i].start
              /\ sections'[i].size = IF i = current THEN sections[i].size + k
                                                    ELSE sections[i].size
         /\ output_size' = output_size + k /\ output_size' \in Nat
         /\ output' \in [Area -> [section : Nat, offset : Nat]]
<1> DEFINE s == sections[current]
           t == [s EXCEPT !.size = s.size + k]
<1>1. s \in Section /\ s.start \in Nat /\ s.size \in Nat /\ current \in DOMAIN sections
  BY Rows
<1>2. sections' = [sections EXCEPT ![current] = t]
  BY DEF Emit
<1>3. t \in Section /\ t.start = s.start /\ t.size = s.size + k
  BY <1>1 DEF Section
<1> HIDE DEF t
<1>4. sections' \in Seq(Section) /\ DOMAIN sections' = DOMAIN sections
  BY <1>1, <1>2, <1>3, Rows
<1>5. \A i \in DOMAIN sections : sections'[i] = IF i = current THEN t ELSE sections[i]
  BY <1>2, Rows
<1>6. output_size' = output_size + k /\ output_size' \in Nat
  BY SMTT(30) DEF Emit, TypeOK
<1>7. output' \in [Area -> [section : Nat, offset : Nat]]
  <2> SUFFICES ASSUME NEW p \in Area
               PROVE  (IF s.start + s.size <= p /\ p < s.start + s.size + k
                       THEN [section |-> current, offset |-> p - s.start]
                       ELSE output[p]) \in [section : Nat, offset : Nat]
    BY DEF Emit
  <2>1. p \in Nat
    BY Numbers DEF Area
  <2>2. output[p] \in [section : Nat, offset : Nat]
    BY DEF TypeOK
  <2>3. ASSUME s.start + s.size <= p
        PROVE  p - s.start \in Nat
    BY <2>1, <2>3, <1>1
  <2> QED
    BY <2>2, <2>3, Rows
<1> QED
  BY <1>3, <1>4, <1>5, <1>6, <1>7

\* add_section() adds an empty section at the end of the table.
LEMMA Added ==
  ASSUME TypeOK, NewSection
  PROVE  /\ sections' \in Seq(Section) /\ Len(sections') = Len(sections) + 1
         /\ \A i \in DOMAIN sections : sections'[i] = sections[i]
         /\ sections'[Len(sections) + 1].start = output_size
         /\ sections'[Len(sections) + 1].size = 0
         /\ current' = Len(sections) + 1 /\ output_size \in Nat
         /\ output' = output /\ output_size' = output_size /\ returned' = returned
<1>1. PICK name \in SectionNames :
        /\ sections' = Append(sections, [name |-> name, start |-> output_size, size |-> 0])
        /\ current' = Len(sections) + 1
        /\ UNCHANGED <<output, output_size, returned>>
  BY DEF NewSection
<1>2. output_size \in Nat
  BY DEF TypeOK
<1> DEFINE e == [name |-> name, start |-> output_size, size |-> 0]
<1>3. e \in Section /\ e.start = output_size /\ e.size = 0
  BY <1>2 DEF Section
<1> HIDE DEF e
<1>4. sections' = Append(sections, e)
  BY <1>1 DEF e
<1> QED
  BY <1>1, <1>2, <1>3, <1>4, Rows

\* add_symbol() keeps the entries there are, and the name has one afterwards.
LEMMA Entered ==
  ASSUME TypeOK, NEW n \in Names
  PROVE  /\ WithSymbol(n) \in Seq(Symbol)
         /\ DOMAIN symbols \subseteq DOMAIN WithSymbol(n)
         /\ Index(n) \in DOMAIN WithSymbol(n)
<1> DEFINE e == [name |-> n, value |-> 0, section |-> 1, type |-> "local", defined |-> FALSE]
<1>1. symbols \in Seq(Symbol) /\ Len(symbols) \in Nat /\ DOMAIN symbols = 1..Len(symbols)
  BY DEF TypeOK, Symbol
<1>2. e \in Symbol /\ e.name = n
  BY DEF Symbol
<1> HIDE DEF e
<1>3. \/ IsSymbol(n) /\ WithSymbol(n) = symbols
      \/ WithSymbol(n) = Append(symbols, e)
  BY DEF WithSymbol, e
<1>4. /\ WithSymbol(n) \in Seq(Symbol)
      /\ DOMAIN symbols \subseteq DOMAIN WithSymbol(n)
  BY <1>1, <1>2, <1>3
<1>5. \E i \in DOMAIN WithSymbol(n) : WithSymbol(n)[i].name = n
  <2>1. CASE IsSymbol(n) /\ WithSymbol(n) = symbols
    BY <2>1 DEF IsSymbol
  <2>2. CASE WithSymbol(n) = Append(symbols, e)
    <3>1. Len(symbols) + 1 \in DOMAIN Append(symbols, e)
          /\ Append(symbols, e)[Len(symbols) + 1] = e
      BY <1>1, <1>2
    <3> QED
      BY <2>2, <3>1, <1>2
  <2> QED
    BY <1>3, <2>1, <2>2
<1> QED
  BY <1>4, <1>5 DEF Index

\* A definition changes one entry of the table.
LEMMA Defined ==
  ASSUME TypeOK, NEW n \in Names, NEW v \in Nat, AddSymbol(n, v)
  PROVE  symbols' \in Seq(Symbol) /\ DOMAIN symbols \subseteq DOMAIN symbols'
<1> DEFINE e == [name |-> n, value |-> v, section |-> current,
                 type |-> "local", defined |-> TRUE]
<1>1. e \in Symbol
  BY Rows DEF Symbol
<1>2. symbols' = [WithSymbol(n) EXCEPT ![Index(n)] = e]
  BY DEF AddSymbol
<1> HIDE DEF e
<1> QED
  BY <1>1, <1>2, Entered

\* Relocations of a table that grows keep their type.
LEMMA RelocTypes ==
  ASSUME NEW A, NEW B, NEW C, NEW D, A \subseteq B, C \subseteq D,
         NEW s \in Seq(Reloc(A, C))
  PROVE  s \in Seq(Reloc(B, D))
<1>1. \A i \in 1..Len(s) : s[i] \in Reloc(B, D)
  <2>1. Reloc(A, C) \subseteq Reloc(B, D)
    BY DEF Reloc
  <2> QED
    BY <2>1
<1> QED
  BY <1>1

-----------------------------------------------------------------------------
\* A step lets the current section grow, adds a section or only moves between
\* those there are.
LEMMA StoreSteps ==
  ASSUME TypeOK, [Next]_vars
  PROVE  Entering \/ Emission \/ NewSection
<1>0. returned \in BOOLEAN
  BY DEF TypeOK
<1>1. ASSUME UNCHANGED <<store, current, returned>>
      PROVE  Entering
  BY <1>1 DEF Entering
<1>2. CASE SymbolLines
  BY <1>1, <1>2 DEF SymbolLines, Label, Equ, AddSymbol, GlobalName, ExternName, history
<1>3. CASE SectionLines
  <2>1. PICK name \in SectionNames : SwitchBack(name) \/ SwitchNew(name)
    BY <1>3 DEF SectionLines
  <2>2. CASE SwitchBack(name)
    BY <2>2, <1>0 DEF SwitchBack, Entering
  <2>3. CASE SwitchNew(name)
    BY <2>3 DEF SwitchNew, NewSection, history
  <2> QED
    BY <2>1, <2>2, <2>3
<1>4. CASE CodeLines
  <2>1. ASSUME NEW k \in Lengths, Bytes(k)
        PROVE  Emission
    BY <2>1, Numbers DEF Bytes, Emission, history
  <2>2. ASSUME NEW align \in Alignments, Align(align)
        PROVE  Emission
    BY <2>2, PaddingType DEF Align, Emission, history
  <2>3. ASSUME NEW n \in Names, DataWord(n)
        PROVE  Emission
    BY <2>3, Numbers DEF DataWord, Emission
  <2>4. ASSUME NEW n \in Names, Call(n)
        PROVE  Emission
    <3>1. lead + Field \in Nat
      BY Numbers, Rows
    <3> QED
      BY <2>4, <3>1 DEF Call, Emission, history
  <2>5. Arch \/ DataUnread => Entering
    BY <1>1 DEF Arch, DataUnread, history
  <2> QED
    BY <1>4, <2>1, <2>2, <2>3, <2>4, <2>5 DEF CodeLines
<1>5. CASE Arch \/ DataUnread \/ Overrun \/ EndOfFile \/ Stopped \/ UNCHANGED vars
  BY <1>1, <1>5 DEF Arch, DataUnread, Overrun, EndOfFile, Stopped, vars, history
<1> QED
  BY <1>2, <1>3, <1>4, <1>5 DEF Next

\* The part of TypeOK that is about the store holds after every step.
LEMMA StoreTypes ==
  ASSUME TypeOK, [Next]_vars
  PROVE  /\ sections' \in Seq(Section) /\ DOMAIN sections \subseteq DOMAIN sections'
         /\ output' \in [Area -> [section : Nat, offset : Nat]] /\ output_size' \in Nat
<1>1. CASE Entering
  BY <1>1, Rows DEF Entering, store, TypeOK
<1>2. CASE Emission
  BY <1>2, Emitted DEF Emission
<1>3. CASE NewSection
  <2>1. sections' \in Seq(Section) /\ Len(sections') = Len(sections) + 1
    BY <1>3, Added
  <2>2. DOMAIN sections' = 1..(Len(sections) + 1)
    BY <2>1
  <2>3. DOMAIN sections \subseteq DOMAIN sections'
    BY <2>2, Rows
  <2> QED
    BY <1>3, <2>1, <2>3, Added DEF TypeOK
<1> QED
  BY <1>1, <1>2, <1>3, StoreSteps

\* Only symbols are given values.
LEMMA Relabelled ==
  ASSUME TypeOK, [Next]_vars
  PROVE  relabelled' \subseteq Names
<1>0. relabelled \subseteq Names
  BY DEF TypeOK
<1>1. ASSUME NEW n \in Names, NEW v, AddSymbol(n, v)
      PROVE  relabelled' \subseteq Names
  BY <1>0, <1>1 DEF AddSymbol
<1>2. CASE SymbolLines
  BY <1>0, <1>1, <1>2 DEF SymbolLines, Label, Equ, GlobalName, ExternName, history
<1>3. CASE SectionLines
  BY <1>0, <1>3 DEF SectionLines, SwitchBack, SwitchNew, history
<1>4. CASE CodeLines
  BY <1>0, <1>4 DEF CodeLines, Bytes, Align, DataWord, Call, Arch, DataUnread, history
<1>5. CASE Arch \/ DataUnread \/ Overrun \/ EndOfFile \/ Stopped \/ UNCHANGED vars
  BY <1>0, <1>5 DEF Arch, DataUnread, Overrun, EndOfFile, Stopped, vars, history
<1> QED
  BY <1>2, <1>3, <1>4, <1>5 DEF Next

\* The target is one of two.
LEMMA LeadType ==
  ASSUME TypeOK, [Next]_vars
  PROVE  lead' \in {0, 1}
<1>0. lead \in {0, 1}
  BY DEF TypeOK
<1>1. SymbolLines \/ SectionLines => lead' = lead
  BY DEF SymbolLines, Label, Equ, GlobalName, ExternName, SectionLines, SwitchBack, SwitchNew
<1>2. CodeLines => lead' \in {0, 1}
  BY <1>0 DEF CodeLines, Bytes, Align, DataWord, Call, Arch, DataUnread
<1>3. Overrun \/ EndOfFile \/ Stopped \/ UNCHANGED vars => lead' = lead
  BY DEF Overrun, EndOfFile, Stopped, vars
<1> QED
  BY <1>0, <1>1, <1>2, <1>3 DEF Next

\* The rest of TypeOK after a step that leaves the symbols and relocations alone.
LEMMA OtherTypes ==
  ASSUME TypeOK, [Next]_vars, UNCHANGED <<symbols, relocs, exported>>,
         current' \in DOMAIN sections', nlines' \in 0..MaxLines,
         status' \in Statuses, returned' \in BOOLEAN,
         words' \subseteq Word
  PROVE  TypeOK'
<1>1. relocs \in Seq(Reloc(DOMAIN symbols, DOMAIN sections))
  BY DEF TypeOK, Reloc
<1>2. relocs' \in Seq(Reloc(DOMAIN symbols', DOMAIN sections'))
  BY <1>1, StoreTypes, RelocTypes
<1>3. sections' \in Seq(Section) /\ output' \in [Area -> [section : Nat, offset : Nat]]
      /\ output_size' \in Nat
  BY StoreTypes
<1> QED
  BY <1>2, <1>3, Relabelled, LeadType DEF TypeOK, Section, Reloc, Word, Statuses

\* The rest of TypeOK after a step that enters or defines a symbol.
LEMMA SymbolTypes ==
  ASSUME TypeOK, [Next]_vars, symbols' \in Seq(Symbol),
         DOMAIN symbols \subseteq DOMAIN symbols', nlines' \in 0..MaxLines,
         relocs' = relocs \/ \E r \in Reloc(DOMAIN symbols', DOMAIN sections') :
                               relocs' = Append(relocs, r),
         exported' \subseteq Names, UNCHANGED <<current, status, words, returned>>
  PROVE  TypeOK'
<1>1. relocs \in Seq(Reloc(DOMAIN symbols, DOMAIN sections))
  BY DEF TypeOK, Reloc
<1>2. DOMAIN sections \subseteq DOMAIN sections'
  BY StoreTypes
<1>3. relocs \in Seq(Reloc(DOMAIN symbols', DOMAIN sections'))
  BY <1>1, <1>2, RelocTypes
<1>4. relocs' \in Seq(Reloc(DOMAIN symbols', DOMAIN sections'))
  BY <1>3
<1>5. current' \in DOMAIN sections'
  BY <1>2 DEF TypeOK
<1>6. sections' \in Seq(Section) /\ output' \in [Area -> [section : Nat, offset : Nat]]
      /\ output_size' \in Nat
  BY StoreTypes
<1> QED
  BY <1>4, <1>5, <1>6, Relabelled, LeadType
  DEF TypeOK, Section, Symbol, Reloc, Word, Statuses

LEMMA TypeInit == Init => TypeOK
<1> SUFFICES ASSUME Init PROVE TypeOK
  OBVIOUS
<1> DEFINE e == [name |-> Text, start |-> 0, size |-> 0]
<1>1. e \in Section
  BY NamesAssumption DEF Section
<1> HIDE DEF e
<1>2. <<e>> \in Seq(Section) /\ 1 \in DOMAIN <<e>>
  BY <1>1
<1>3. sections = <<e>> /\ current = 1
  BY DEF Init, e
<1>4. sections \in Seq(Section) /\ current \in DOMAIN sections
  BY <1>2, <1>3
<1>5. output \in [Area -> [section : Nat, offset : Nat]]
  BY DEF Init, Free
<1>6. /\ symbols = <<>> /\ relocs = <<>>
      /\ symbols \in Seq(Symbol) /\ relocs \in Seq(Reloc(DOMAIN symbols, DOMAIN sections))
  BY DEF Init
<1>7. nlines \in 0..MaxLines
  BY BoundsAssumption DEF Init
<1> QED
  BY <1>4, <1>5, <1>6, <1>7 DEF Init, TypeOK, Section, Symbol, Reloc, Word

LEMMA TypeNext == TypeOK /\ [Next]_vars => TypeOK'
<1> SUFFICES ASSUME TypeOK, [Next]_vars PROVE TypeOK'
  OBVIOUS
<1>0. /\ MaxLines \in Nat /\ nlines \in 0..MaxLines
      /\ status \in Statuses /\ returned \in BOOLEAN
      /\ current \in DOMAIN sections'
      /\ exported \subseteq Names /\ words \subseteq Word
  BY BoundsAssumption, StoreTypes DEF TypeOK, Word, Statuses
<1>1. NextLine => nlines' \in 0..MaxLines
  BY <1>0 DEF NextLine
<1>2. ASSUME NEW n \in Names, Label(n) \/ Equ(n)
      PROVE  TypeOK'
  <2>1. sections[current].size \in Nat
    BY Rows
  <2>2. PICK v \in Nat : AddSymbol(n, v)
    BY <1>2, <2>1 DEF Label, Equ
  <2>3. symbols' \in Seq(Symbol) /\ DOMAIN symbols \subseteq DOMAIN symbols'
    BY <2>2, Defined
  <2>4. nlines' \in 0..MaxLines /\ UNCHANGED <<current, status, words, returned, relocs, exported>>
    BY <1>1, <1>2 DEF Label, Equ, AddSymbol
  <2> QED
    BY <1>0, <2>3, <2>4, SymbolTypes
<1>3. ASSUME NEW n \in Names, GlobalName(n) \/ ExternName(n)
      PROVE  TypeOK'
  <2>1. symbols' = WithSymbol(n) \/ symbols' = [WithSymbol(n) EXCEPT ![Index(n)].type = "global"]
    BY <1>3 DEF GlobalName, ExternName
  <2>2. WithSymbol(n)[Index(n)] \in Symbol
    BY Entered
  <2>3. [WithSymbol(n)[Index(n)] EXCEPT !.type = "global"] \in Symbol
    BY <2>2 DEF Symbol
  <2>4. symbols' \in Seq(Symbol) /\ DOMAIN symbols \subseteq DOMAIN symbols'
    BY <2>1, <2>3, Entered
  <2>5. /\ nlines' \in 0..MaxLines /\ UNCHANGED <<current, status, words, returned, relocs>>
        /\ exported' \subseteq Names
    BY <1>0, <1>1, <1>3 DEF GlobalName, ExternName, history
  <2> QED
    BY <2>4, <2>5, SymbolTypes
<1>4. ASSUME NEW name \in SectionNames, SwitchBack(name)
      PROVE  TypeOK'
  <2>1. current' \in DOMAIN sections'
    BY <1>4 DEF SwitchBack, store
  <2>2. returned' \in BOOLEAN
    BY <1>0, <1>4 DEF SwitchBack
  <2> QED
    BY <1>0, <1>1, <1>4, <2>1, <2>2, OtherTypes DEF SwitchBack
<1>5. ASSUME NEW name \in SectionNames, SwitchNew(name)
      PROVE  TypeOK'
  <2>1. NewSection
    BY <1>5 DEF SwitchNew, NewSection, history
  <2>2. sections' \in Seq(Section) /\ Len(sections') = Len(sections) + 1
        /\ current' = Len(sections) + 1
    BY <2>1, Added
  <2>3. current' \in DOMAIN sections'
    BY <2>2, Rows
  <2> QED
    BY <1>0, <1>1, <1>5, <2>3, OtherTypes DEF SwitchNew, history
<1>6. ASSUME NEW k \in Lengths, Bytes(k)
      PROVE  TypeOK'
  BY <1>0, <1>1, <1>6, OtherTypes DEF Bytes, history
<1>7. ASSUME NEW align \in Alignments, Align(align)
      PROVE  TypeOK'
  BY <1>0, <1>1, <1>7, OtherTypes DEF Align, history
<1>8. ASSUME NEW n \in Names, DataWord(n)
      PROVE  TypeOK'
  <2> DEFINE v == IF \E i \in DOMAIN symbols : symbols[i].name = n /\ symbols[i].defined
                  THEN symbols[Index(n)].value ELSE 0
  <2>1. ASSUME NEW i \in DOMAIN symbols, symbols[i].name = n
        PROVE  symbols[Index(n)].value \in Nat
    <3>1. WithSymbol(n) = symbols
      BY <2>1 DEF WithSymbol, IsSymbol
    <3>2. symbols[Index(n)] \in Symbol
      BY <3>1, Entered
    <3> QED
      BY <3>2 DEF Symbol
  <2>2. v \in Nat
    BY <2>1
  <2> HIDE DEF v
  <2>3. words' = words \cup {[name |-> n, known |-> HasValue(n), value |-> v]}
    BY <1>8 DEF DataWord, v, HasValue
  <2>4. [name |-> n, known |-> HasValue(n), value |-> v] \in Word
    BY <2>2 DEF Word, HasValue
  <2>41. words' \subseteq Word
    BY <1>0, <2>3, <2>4
  <2>5. UNCHANGED <<current, symbols, relocs, status, exported, returned>> /\ NextLine
    BY <1>8 DEF DataWord
  <2> QED
    BY <1>0, <1>1, <2>41, <2>5, OtherTypes
<1>9. ASSUME NEW n \in Names, Call(n)
      PROVE  TypeOK'
  <2> DEFINE r == [symbol |-> Index(n), section |-> current,
                   offset |-> sections[current].size + lead]
  <2>1. symbols' = WithSymbol(n) /\ relocs' = Append(relocs, r) /\ NextLine
        /\ UNCHANGED <<current, status, exported, words, returned>>
    BY <1>9 DEF Call, history
  <2>2. sections[current].size + lead \in Nat
    BY Rows, Numbers
  <2>3. symbols' \in Seq(Symbol) /\ DOMAIN symbols \subseteq DOMAIN symbols'
        /\ Index(n) \in DOMAIN symbols'
    BY <2>1, Entered
  <2>4. r \in Reloc(DOMAIN symbols', DOMAIN sections')
    BY <1>0, <2>2, <2>3 DEF Reloc
  <2> HIDE DEF r
  <2> QED
    BY <1>0, <1>1, <2>1, <2>3, <2>4, SymbolTypes
<1>10. CASE Arch \/ DataUnread \/ Overrun \/ EndOfFile
  <2>1. UNCHANGED <<symbols, relocs, exported, current, returned, words>>
        /\ nlines' \in 0..MaxLines /\ status' \in Statuses
    BY <1>0, <1>1, <1>10 DEF Arch, DataUnread, Overrun, EndOfFile, history, Statuses
  <2> QED
    BY <1>0, <2>1, OtherTypes
<1>11. CASE Stopped \/ UNCHANGED vars
  BY <1>11 DEF Stopped, vars, store, history, TypeOK
<1> QED
  BY <1>2, <1>3, <1>4, <1>5, <1>6, <1>7, <1>8, <1>9, <1>10, <1>11
  DEF Next, SymbolLines, SectionLines, CodeLines

\* The tables of the assembler keep their types (all of sas_enhanced.c).
THEOREM TypeCorrect == Spec => []TypeOK
BY TypeInit, TypeNext, PTL DEF Spec

-----------------------------------------------------------------------------
(* Bytes kept and bytes lost *)

\* Every byte stored has a place in output.
Bounded == \A i \in DOMAIN sections :
             sections[i].size = 0 \/ sections[i].start + sections[i].size <= OutputSize

\* The bytes emitted are the new places of the current section, and only they
\* are written.
LEMMA Grown ==
  ASSUME TypeOK, Bounded, Emission
  PROVE  /\ DOMAIN sections' = DOMAIN sections /\ current' = current /\ Bounded'
         /\ \A i \in DOMAIN sections :
              /\ Places(i) \subseteq Places(i)'
              /\ i # current => Places(i)' = Places(i)
              /\ sections'[i].start = sections[i].start
         /\ \A p \in Places(current)' :
              \/ p \in Places(current) /\ output'[p] = output[p]
              \/ output'[p] = [section |-> current, offset |-> p - sections[current].start]
         /\ \A i \in DOMAIN sections \ {current} :
              \A p \in Places(i) : p \notin Places(current)' => output'[p] = output[p]
<1>1. PICK k \in Nat : Emit(k)
  BY DEF Emission
<1> DEFINE s == sections[current]
           from == s.start + s.size
<1>2. /\ DOMAIN sections' = DOMAIN sections /\ current \in DOMAIN sections
      /\ OutputSize \in Nat /\ s.start \in Nat /\ s.size \in Nat
  BY <1>1, Emitted, Rows, Numbers
<1>3. \A i \in DOMAIN sections :
        /\ sections[i].start \in Nat /\ sections[i].size \in Nat
        /\ sections'[i].start = sections[i].start
        /\ sections'[i].size = IF i = current THEN sections[i].size + k ELSE sections[i].size
  BY <1>1, Emitted, Rows
<1>4. k = 0 \/ from + k <= OutputSize
  BY <1>1 DEF Emit, Fits
<1>5. current' = current
  BY DEF Emission
<1>6. Bounded'
  BY <1>2, <1>3, <1>4 DEF Bounded
<1>7. \A i \in DOMAIN sections :
        Places(i) \subseteq Places(i)' /\ (i # current => Places(i)' = Places(i))
  BY <1>3, SMTT(30) DEF Places
<1>8. \A p \in Area : output'[p] = IF from <= p /\ p < from + k
                                  THEN [section |-> current, offset |-> p - s.start]
                                  ELSE output[p]
  BY <1>1 DEF Emit
<1>9. \A i \in DOMAIN sections : Places(i) \subseteq Area /\ Places(i)' \subseteq Area
  <2>1. ASSUME NEW start \in Nat, NEW size \in Nat, size = 0 \/ start + size <= OutputSize
        PROVE  start..(start + size - 1) \subseteq Area
    BY <1>2, <2>1 DEF Area
  <2>2. \A i \in DOMAIN sections : sections'[i].start \in Nat /\ sections'[i].size \in Nat
    BY <1>2, <1>3
  <2>3. \A i \in DOMAIN sections :
          /\ sections[i].size = 0 \/ sections[i].start + sections[i].size <= OutputSize
          /\ sections'[i].size = 0 \/ sections'[i].start + sections'[i].size <= OutputSize
    BY <1>2, <1>6 DEF Bounded
  <2> QED
    BY <1>3, <2>1, <2>2, <2>3 DEF Places
<1>10. Places(current)' = s.start..(from + k - 1) /\ Places(current) = s.start..(from - 1)
  <2>1. sections'[current].start = s.start /\ sections'[current].size = s.size + k
    BY <1>2, <1>3
  <2> QED
    BY <1>2, <1>5, <2>1 DEF Places
<1> HIDE DEF s
<1>11. ASSUME NEW p \in Places(current)'
       PROVE  \/ p \in Places(current) /\ output'[p] = output[p]
              \/ output'[p] = [section |-> current, offset |-> p - s.start]
  <2>1. p \in Area /\ p \in s.start..(from + k - 1)
    BY <1>2, <1>9, <1>10, <1>5
  <2>2. p \in Places(current) \/ (from <= p /\ p < from + k)
    BY <2>1, <1>2, <1>10
  <2>3. output'[p] = IF from <= p /\ p < from + k
                     THEN [section |-> current, offset |-> p - s.start] ELSE output[p]
    BY <1>8, <2>1
  <2> QED
    BY <2>2, <2>3
<1>12. ASSUME NEW i \in DOMAIN sections \ {current}, NEW p \in Places(i),
              p \notin Places(current)'
       PROVE  output'[p] = output[p]
  <2>1. p \in Area /\ p \notin s.start..(from + k - 1)
    BY <1>9, <1>10, <1>12
  <2>2. ~(from <= p /\ p < from + k)
    BY <2>1, <1>2, Numbers DEF Area
  <2> QED
    BY <1>8, <2>1, <2>2
<1> QED
  BY <1>2, <1>3, <1>5, <1>6, <1>7, <1>11, <1>12 DEF s

\* A section keeps its own bytes when bytes are emitted outside its range, or
\* to it.
LEMMA IntactEmission ==
  ASSUME TypeOK, Bounded, Emission, NEW i \in DOMAIN sections, Intact(i),
         i = current \/ Places(i) \cap Places(current)' = {}
  PROVE  Intact(i)'
<1> SUFFICES ASSUME NEW p \in Places(i)'
             PROVE  output'[p] = [section |-> i, offset |-> p - sections'[i].start]
  BY DEF Intact
<1>1. sections'[i].start = sections[i].start
  BY Grown
<1>2. CASE i = current
  <2>1. \/ p \in Places(i) /\ output'[p] = output[p]
        \/ output'[p] = [section |-> i, offset |-> p - sections[i].start]
    BY <1>2, Grown
  <2> QED
    BY <1>1, <2>1 DEF Intact
<1>3. CASE i # current /\ Places(i) \cap Places(current)' = {}
  <2>1. p \in Places(i) /\ p \notin Places(current)' /\ i \in DOMAIN sections \ {current}
    BY <1>3, Grown
  <2>2. output'[p] = output[p]
    BY <2>1, Grown
  <2> QED
    BY <1>1, <2>1, <2>2 DEF Intact
<1> QED
  BY <1>2, <1>3

\* A section that is added is empty, and the others stay as they are.
LEMMA IntactNew ==
  ASSUME TypeOK, NewSection, NEW n \in Nat, n = Len(sections) + 1
  PROVE  /\ DOMAIN sections' = DOMAIN sections \cup {n}
         /\ Places(n)' = {} /\ Intact(n)'
         /\ \A i \in DOMAIN sections :
              Places(i)' = Places(i) /\ (Intact(i) => Intact(i)')
<1>1. DOMAIN sections' = DOMAIN sections \cup {n}
  <2>1. Len(sections) \in Nat /\ DOMAIN sections = 1..Len(sections)
    BY Rows
  <2>2. sections' \in Seq(Section) /\ Len(sections') = n
    BY Added
  <2>3. DOMAIN sections' = 1..n
    BY <2>2
  <2> QED
    BY <2>1, <2>3
<1>2. sections'[n].start \in Nat /\ sections'[n].size = 0 /\ output' = output
  BY Added
<1>3. Places(n)' = {}
  BY <1>2 DEF Places
<1>4. Intact(n)'
  BY <1>3 DEF Intact
<1>5. \A i \in DOMAIN sections : sections'[i] = sections[i]
  BY Added
<1>6. \A i \in DOMAIN sections :
        Places(i)' = Places(i) /\ (Intact(i) => Intact(i)')
  BY <1>2, <1>5 DEF Places, Intact
<1> QED
  BY <1>1, <1>3, <1>4, <1>6

\* As long as no section is entered twice, they lie one behind the other and
\* the last one grows at the end of the output.
Contiguous ==
  ~returned =>
    /\ current = Len(sections)
    /\ output_size = sections[current].start + sections[current].size
    /\ \A i \in DOMAIN sections :
         i < current => sections[i].start + sections[i].size <= sections[current].start

KeptInv == Bounded /\ Contiguous /\ OneVisitIntact /\ DamageIsOverlap

LEMMA KeptInit == Init => KeptInv
<1> SUFFICES ASSUME Init PROVE KeptInv
  OBVIOUS
<1>1. DOMAIN sections = {1} /\ current = 1 /\ Len(sections) = 1
      /\ sections[1].size = 0 /\ sections[1].start = 0
  BY DEF Init
<1>2. Places(1) = {}
  BY <1>1 DEF Places
<1> QED
  BY <1>1, <1>2 DEF Init, KeptInv, Bounded, Contiguous, OneVisitIntact, DamageIsOverlap, Intact

LEMMA KeptNext ==
  ASSUME TypeOK, KeptInv, [Next]_vars
  PROVE  KeptInv'
<1>0. Bounded /\ Contiguous /\ OneVisitIntact /\ DamageIsOverlap
  BY DEF KeptInv
<1>1. CASE Entering
  <2>1. sections' = sections /\ output' = output /\ output_size' = output_size
    BY <1>1 DEF Entering, store
  <2>2. Bounded' /\ DamageIsOverlap'
    BY <1>0, <2>1 DEF Bounded, DamageIsOverlap, Intact, Places
  <2>3. ~returned' => ~returned /\ current' = current
    BY <1>1 DEF Entering
  <2>4. Contiguous' /\ OneVisitIntact'
    BY <1>0, <2>1, <2>3 DEF Contiguous, OneVisitIntact, Intact, Places
  <2> QED
    BY <2>2, <2>4 DEF KeptInv
<1>2. CASE Emission
  <2>1. /\ Bounded' /\ DOMAIN sections' = DOMAIN sections /\ current' = current
        /\ \A i \in DOMAIN sections : Places(i) \subseteq Places(i)'
    BY <1>0, <1>2, Grown
  <2>2. current \in DOMAIN sections /\ returned' = returned
    BY <1>2, Rows DEF Emission
  <2>3. DamageIsOverlap'
    <3> SUFFICES ASSUME NEW i \in DOMAIN sections,
                        \A j \in DOMAIN sections \ {i} : Places(i)' \cap Places(j)' = {}
                 PROVE  Intact(i)'
      BY <2>1 DEF DamageIsOverlap
    <3>1. \A j \in DOMAIN sections \ {i} : Places(i) \cap Places(j) = {}
      BY <2>1
    <3>2. Intact(i)
      BY <1>0, <3>1 DEF DamageIsOverlap
    <3>3. i = current \/ Places(i) \cap Places(current)' = {}
      BY <2>1, <2>2
    <3> QED
      BY <1>0, <1>2, <3>2, <3>3, IntactEmission
  <2>4. CASE returned
    BY <2>1, <2>2, <2>3, <2>4 DEF KeptInv, Contiguous, OneVisitIntact
  <2>5. CASE ~returned
    <3>1. PICK k \in Nat : Emit(k)
      BY <1>2 DEF Emission
    <3>2. \A i \in DOMAIN sections :
            /\ sections[i].start \in Nat /\ sections[i].size \in Nat
            /\ sections'[i].start = sections[i].start
            /\ sections'[i].size = IF i = current THEN sections[i].size + k
                                                  ELSE sections[i].size
      BY <3>1, Emitted, Rows
    <3>3. /\ current = Len(sections) /\ \A i \in DOMAIN sections : Intact(i)
          /\ output_size = sections[current].start + sections[current].size
          /\ \A i \in DOMAIN sections :
               i < current => sections[i].start + sections[i].size <= sections[current].start
      BY <1>0, <2>5 DEF Contiguous, OneVisitIntact
    <3>4. output_size' = output_size + k /\ sections' \in Seq(Section)
      BY <3>1, Emitted
    <3>5. Len(sections') = Len(sections) /\ Len(sections) \in Nat
          /\ DOMAIN sections = 1..Len(sections)
      BY <2>1, <3>4, Rows
    <3>6. sections'[current].start = sections[current].start
          /\ sections'[current].size = sections[current].size + k
          /\ sections[current].start \in Nat /\ sections[current].size \in Nat
      BY <2>2, <3>2
    <3>7. Contiguous'
      BY <2>1, <3>2, <3>3, <3>4, <3>5, <3>6 DEF Contiguous
    <3>8. ASSUME NEW i \in DOMAIN sections, i # current
          PROVE  Places(i) \cap Places(current)' = {}
      <4>1. i < current /\ i \in Nat
        BY <3>3, <3>5, <3>8
      <4>2. sections[i].start + sections[i].size <= sections'[current].start
        BY <3>3, <3>6, <4>1
      <4>3. sections[i].start \in Nat /\ sections[i].size \in Nat
        BY <3>2
      <4> QED
        BY <2>1, <3>6, <4>2, <4>3 DEF Places
    <3>9. OneVisitIntact'
      BY <1>0, <1>2, <2>1, <3>3, <3>8, IntactEmission DEF OneVisitIntact
    <3> QED
      BY <2>1, <2>3, <3>7, <3>9 DEF KeptInv
  <2> QED
    BY <2>4, <2>5
<1>3. CASE NewSection
  <2>0. PICK n \in Nat : n = Len(sections) + 1
    BY Rows
  <2>1. /\ DOMAIN sections' = DOMAIN sections \cup {n}
        /\ Places(n)' = {} /\ Intact(n)'
        /\ \A i \in DOMAIN sections : Places(i)' = Places(i) /\ (Intact(i) => Intact(i)')
    BY <1>3, <2>0, IntactNew
  <2>2. /\ \A i \in DOMAIN sections : sections'[i] = sections[i]
        /\ sections'[n].start = output_size /\ sections'[n].size = 0
        /\ current' = n /\ output_size' = output_size /\ returned' = returned
        /\ output_size \in Nat /\ sections' \in Seq(Section) /\ Len(sections') = n
    BY <1>3, <2>0, Added
  <2>3. Bounded'
    BY <1>0, <2>1, <2>2 DEF Bounded
  <2>4. DamageIsOverlap'
    <3> SUFFICES ASSUME NEW i \in DOMAIN sections,
                        \A j \in DOMAIN sections' \ {i} : Places(i)' \cap Places(j)' = {}
                 PROVE  Intact(i)'
      BY <2>1 DEF DamageIsOverlap
    <3>1. \A j \in DOMAIN sections \ {i} : Places(i) \cap Places(j) = {}
      BY <2>1
    <3> QED
      BY <1>0, <2>1, <3>1 DEF DamageIsOverlap
  <2>5. OneVisitIntact'
    <3>1. returned' = returned
      BY <2>2
    <3> QED
      BY <1>0, <2>1, <3>1 DEF OneVisitIntact
  <2>6. Contiguous'
    <3> SUFFICES ASSUME ~returned
                 PROVE  /\ output_size = output_size + 0
                        /\ \A i \in DOMAIN sections :
                             sections[i].start + sections[i].size <= output_size
      BY <2>1, <2>2 DEF Contiguous
    <3>1. /\ current = Len(sections)
          /\ output_size = sections[current].start + sections[current].size
          /\ \A i \in DOMAIN sections :
               i < current => sections[i].start + sections[i].size <= sections[current].start
      BY <1>0 DEF Contiguous
    <3>2. /\ \A i \in DOMAIN sections :
               sections[i].start \in Nat /\ sections[i].size \in Nat
          /\ DOMAIN sections = 1..Len(sections) /\ Len(sections) \in Nat
          /\ current \in DOMAIN sections
      BY Rows
    <3>3. ASSUME NEW i \in DOMAIN sections
          PROVE  sections[i].start + sections[i].size <= output_size
      <4>1. i = current \/ i < current
        BY <3>1, <3>2
      <4>2. sections[i].start \in Nat /\ sections[i].size \in Nat
            /\ sections[current].start \in Nat /\ sections[current].size \in Nat
        BY <3>2
      <4>3. i < current => sections[i].start + sections[i].size <= sections[current].start
        BY <3>1
      <4> QED
        BY <3>1, <4>1, <4>2, <4>3
    <3> QED
      BY <2>2, <3>3
  <2> QED
    BY <2>3, <2>4, <2>5, <2>6 DEF KeptInv
<1> QED
  BY <1>1, <1>2, <1>3, StoreSteps

\* A section whose range overlaps no other holds its own bytes, for every source
\* (emit_byte(), add_section()).
THEOREM DamageCorrect == Spec => []DamageIsOverlap
<1>1. Init => TypeOK /\ KeptInv
  BY TypeInit, KeptInit
<1>2. TypeOK /\ KeptInv /\ [Next]_vars => (TypeOK /\ KeptInv)'
  BY TypeNext, KeptNext
<1>3. TypeOK /\ KeptInv => DamageIsOverlap
  BY DEF KeptInv
<1> QED
  BY <1>1, <1>2, <1>3, PTL DEF Spec

\* A source that never returns to a section keeps every byte it emits.
THEOREM OneVisitCorrect == Spec => []OneVisitIntact
<1>1. Init => TypeOK /\ KeptInv
  BY TypeInit, KeptInit
<1>2. TypeOK /\ KeptInv /\ [Next]_vars => (TypeOK /\ KeptInv)'
  BY TypeNext, KeptNext
<1>3. TypeOK /\ KeptInv => OneVisitIntact
  BY DEF KeptInv
<1> QED
  BY <1>1, <1>2, <1>3, PTL DEF Spec

-----------------------------------------------------------------------------
(* Relocations *)

\* A section never shrinks.
LEMMA SizesGrow ==
  ASSUME TypeOK, [Next]_vars, NEW i \in DOMAIN sections
  PROVE  sections[i].size \in Nat /\ sections'[i].size \in Nat
         /\ sections[i].size <= sections'[i].size
<1>0. sections[i].size \in Nat
  BY Rows
<1>1. CASE Entering
  BY <1>0, <1>1 DEF Entering, store
<1>2. CASE Emission
  <2>1. PICK k \in Nat : Emit(k)
    BY <1>2 DEF Emission
  <2>2. sections'[i].size = IF i = current THEN sections[i].size + k ELSE sections[i].size
    BY <2>1, Emitted
  <2> QED
    BY <1>0, <2>2
<1>3. CASE NewSection
  BY <1>0, <1>3, Added
<1> QED
  BY <1>1, <1>2, <1>3, StoreSteps

\* Only a call makes a relocation.
LEMMA RelocSteps ==
  ASSUME [Next]_vars
  PROVE  relocs' = relocs \/ \E n \in Names : Call(n)
<1>1. SymbolLines => relocs' = relocs
  BY DEF SymbolLines, Label, Equ, GlobalName, ExternName
<1>2. SectionLines => relocs' = relocs
  BY DEF SectionLines, SwitchBack, SwitchNew
<1>3. CodeLines => relocs' = relocs \/ \E n \in Names : Call(n)
  BY DEF CodeLines, Bytes, Align, DataWord, Arch, DataUnread
<1>4. Arch \/ DataUnread \/ Overrun \/ EndOfFile \/ Stopped \/ UNCHANGED vars => relocs' = relocs
  BY DEF Arch, DataUnread, Overrun, EndOfFile, Stopped, vars
<1> QED
  BY <1>1, <1>2, <1>3, <1>4 DEF Next

LEMMA ApartNext ==
  ASSUME TypeOK, RelocsApart, [Next]_vars
  PROVE  RelocsApart'
<1> DEFINE T == Reloc(DOMAIN symbols, DOMAIN sections)
<1>1. relocs \in Seq(T) /\ Len(relocs) \in Nat /\ DOMAIN relocs = 1..Len(relocs)
      /\ Field \in Nat /\ lead \in Nat
  BY Numbers, Rows DEF TypeOK, Reloc
<1>2. \A i \in DOMAIN relocs :
        relocs[i] \in T /\ relocs[i].offset \in Nat /\ relocs[i].section \in DOMAIN sections
  <2>1. \A i \in DOMAIN relocs : relocs[i] \in T
    BY <1>1
  <2>2. \A t \in T : t.offset \in Nat /\ t.section \in DOMAIN sections
    BY DEF Reloc
  <2> QED
    BY <2>1, <2>2
<1>3. ASSUME NEW i \in DOMAIN relocs
      PROVE  relocs[i].offset + Field <= sections'[relocs[i].section].size
  <2> DEFINE sec == relocs[i].section
  <2>1. sec \in DOMAIN sections /\ relocs[i].offset \in Nat
    BY <1>2
  <2>2. relocs[i].offset + Field <= sections[sec].size
    BY DEF RelocsApart
  <2>3. /\ sections[sec].size \in Nat /\ sections'[sec].size \in Nat
        /\ sections[sec].size <= sections'[sec].size
    BY <2>1, SizesGrow
  <2> HIDE DEF sec
  <2>4. relocs[i].offset + Field <= sections'[sec].size
    BY <1>1, <2>1, <2>2, <2>3
  <2> QED
    BY <2>4 DEF sec
<1>4. \A i \in DOMAIN relocs : \A j \in 1..(i - 1) :
        relocs[j].section = relocs[i].section => relocs[j].offset + Field <= relocs[i].offset
  BY DEF RelocsApart
<1>5. CASE relocs' = relocs
  BY <1>3, <1>4, <1>5 DEF RelocsApart
<1>6. ASSUME NEW n \in Names, Call(n)
      PROVE  RelocsApart'
  <2> DEFINE size == sections[current].size
             r == [symbol |-> Index(n), section |-> current, offset |-> size + lead]
             m == Len(relocs) + 1
  <2>1. /\ current \in DOMAIN sections /\ size \in Nat /\ m \in Nat
        /\ r.section = current /\ r.offset = size + lead
    BY Rows, <1>1
  <2>2. sections'[current].size = size + (lead + Field)
    BY <1>1, <1>6, <2>1, Emitted, SMTT(30) DEF Call
  <2>3. relocs' = Append(relocs, r)
    BY <1>6 DEF Call
  <2> HIDE DEF r
  <2>4. DOMAIN relocs' = 1..m /\ relocs'[m] = r /\ \A i \in DOMAIN relocs : relocs'[i] = relocs[i]
    BY <1>1, <2>3
  <2> HIDE DEF m
  <2> SUFFICES ASSUME NEW i \in 1..m
               PROVE  /\ relocs'[i].offset + Field <= sections'[relocs'[i].section].size
                      /\ \A j \in 1..(i - 1) : relocs'[j].section = relocs'[i].section
                           => relocs'[j].offset + Field <= relocs'[i].offset
    BY <2>4 DEF RelocsApart
  <2>5. CASE i = m
    <3>1. relocs'[i].offset + Field <= sections'[relocs'[i].section].size
      BY <1>1, <2>1, <2>2, <2>4, <2>5
    <3>2. ASSUME NEW j \in 1..(i - 1), relocs'[j].section = relocs'[i].section
          PROVE  relocs'[j].offset + Field <= relocs'[i].offset
      <4>1. j \in DOMAIN relocs
        BY <1>1, <2>5 DEF m
      <4>2. relocs[j].section = current /\ relocs[j].offset \in Nat
        BY <1>2, <2>1, <2>4, <2>5, <3>2, <4>1
      <4>3. relocs[j].offset + Field <= size
        BY <4>1, <4>2 DEF RelocsApart
      <4> QED
        BY <1>1, <2>1, <2>4, <2>5, <4>1, <4>2, <4>3
    <3> QED
      BY <3>1, <3>2
  <2>6. CASE i \in DOMAIN relocs
    <3>1. \A j \in 1..(i - 1) : j \in DOMAIN relocs
      BY <1>1, <2>6
    <3> QED
      BY <1>3, <1>4, <2>4, <2>6, <3>1
  <2>7. i = m \/ i \in DOMAIN relocs
    BY <1>1 DEF m
  <2> QED
    BY <2>5, <2>6, <2>7
<1> QED
  BY <1>5, <1>6, RelocSteps

\* The fields the linker patches lie in their sections and do not overlap
\* (add_relocation() and the instructions that call it).
THEOREM RelocsCorrect == Spec => []RelocsApart
<1>1. Init => TypeOK /\ RelocsApart
  <2>1. Init => RelocsApart
    BY DEF Init, RelocsApart
  <2> QED
    BY <2>1, TypeInit
<1>2. TypeOK /\ RelocsApart /\ [Next]_vars => (TypeOK /\ RelocsApart)'
  BY TypeNext, ApartNext
<1> QED
  BY <1>1, <1>2, PTL DEF Spec
-----------------------------------------------------------------------------
(* Labels, exported names and words *)

\* A name has one entry, and what is exported has one.
OneEntryEach == \A i, j \in DOMAIN symbols : symbols[i].name = symbols[j].name => i = j
ExportedEntered == \A n \in exported : IsSymbol(n)

LabelInv == OneEntryEach /\ ExportedEntered /\ ExportKept /\ WordsStand

Fresh(n) == [name |-> n, value |-> 0, section |-> 1, type |-> "local", defined |-> FALSE]

\* The entry add_symbol() finds or makes: the one there was, or a fresh one at the end.
LEMMA EntryFound ==
  ASSUME TypeOK, OneEntryEach, NEW n \in Names
  PROVE  LET W == WithSymbol(n) IN
         /\ Index(n) \in DOMAIN W /\ W[Index(n)].name = n /\ W[Index(n)] \in Symbol
         /\ DOMAIN W = DOMAIN symbols \cup {Index(n)}
         /\ \A j \in DOMAIN symbols : W[j] = symbols[j]
         /\ \A j \in DOMAIN symbols : symbols[j].name = n <=> j = Index(n)
         /\ IsSymbol(n) => Index(n) \in DOMAIN symbols
         /\ ~IsSymbol(n) => Index(n) \notin DOMAIN symbols /\ W[Index(n)] = Fresh(n)
<1> DEFINE W == WithSymbol(n)
           k == Len(symbols) + 1
<1>1. /\ symbols \in Seq(Symbol) /\ Len(symbols) \in Nat
      /\ DOMAIN symbols = 1..Len(symbols) /\ k \in Nat /\ k \notin DOMAIN symbols
  BY DEF TypeOK, Symbol
<1>2. W \in Seq(Symbol) /\ Index(n) \in DOMAIN W /\ W[Index(n)] \in Symbol
  BY Entered
<1>3. W[Index(n)].name = n
  <2>1. \E i \in DOMAIN W : W[i].name = n
    <3>1. CASE IsSymbol(n)
      BY <3>1 DEF WithSymbol, IsSymbol
    <3>2. CASE ~IsSymbol(n)
      <4>1. W = Append(symbols, Fresh(n))
        BY <3>2 DEF WithSymbol, Fresh
      <4>2. k \in DOMAIN W /\ W[k] = Fresh(n) /\ Fresh(n).name = n
        BY <1>1, <4>1 DEF Fresh
      <4> QED
        BY <4>2
    <3> QED
      BY <3>1, <3>2
  <2> QED
    BY <2>1 DEF Index
<1>4. CASE IsSymbol(n)
  <2>1. W = symbols
    BY <1>4 DEF WithSymbol
  <2> HIDE DEF W, k
  <2>2. Index(n) \in DOMAIN symbols /\ symbols[Index(n)].name = n
    BY <1>2, <1>3, <2>1
  <2>3. \A j \in DOMAIN symbols : symbols[j].name = n <=> j = Index(n)
    BY <2>2 DEF OneEntryEach
  <2> QED
    BY <1>2, <1>3, <1>4, <2>1, <2>2, <2>3 DEF W
<1>5. CASE ~IsSymbol(n)
  <2>1. W = Append(symbols, Fresh(n))
    BY <1>5 DEF WithSymbol, Fresh
  <2>2. \A j \in DOMAIN symbols : symbols[j].name # n
    BY <1>5 DEF IsSymbol
  <2>3. /\ DOMAIN W = DOMAIN symbols \cup {k} /\ W[k] = Fresh(n)
        /\ \A j \in DOMAIN symbols : W[j] = symbols[j]
    <3>1. Fresh(n) \in Symbol
      BY DEF Fresh, Symbol
    <3>2. DOMAIN W = 1..k
      BY <1>1, <2>1, <3>1
    <3>3. 1..k = (1..Len(symbols)) \cup {k}
      BY <1>1
    <3> QED
      BY <1>1, <2>1, <3>1, <3>2, <3>3
  <2> HIDE DEF W, k
  <2>4. Index(n) = k
    BY <1>2, <1>3, <2>2, <2>3 DEF W
  <2> QED
    BY <1>1, <1>2, <1>3, <1>5, <2>2, <2>3, <2>4 DEF W
<1> QED
  BY <1>4, <1>5

\* A line about n changes the entry of n alone.
LEMMA EntryWritten ==
  ASSUME TypeOK, OneEntryEach, NEW n \in Names, NEW e \in Symbol, e.name = n,
         symbols' = [WithSymbol(n) EXCEPT ![Index(n)] = e]
  PROVE  /\ DOMAIN symbols' = DOMAIN symbols \cup {Index(n)} /\ symbols'[Index(n)] = e
         /\ \A j \in DOMAIN symbols' : j = Index(n) \/
              (j \in DOMAIN symbols /\ symbols'[j] = symbols[j] /\ symbols[j].name # n)
         /\ \A j \in DOMAIN symbols : symbols[j].name # n =>
              j \in DOMAIN symbols' /\ symbols'[j] = symbols[j]
         /\ OneEntryEach' /\ IsSymbol(n)' /\ \A m : IsSymbol(m) => IsSymbol(m)'
<1> DEFINE W == WithSymbol(n)
           x == Index(n)
<1>1. /\ x \in DOMAIN W /\ DOMAIN W = DOMAIN symbols \cup {x}
      /\ \A j \in DOMAIN symbols : W[j] = symbols[j] /\ (symbols[j].name = n <=> j = x)
  BY EntryFound
<1>2. symbols' = [W EXCEPT ![x] = e]
  OBVIOUS
<1> HIDE DEF W, x
<1>3. DOMAIN symbols' = DOMAIN symbols \cup {x} /\ symbols'[x] = e
  BY <1>1, <1>2
<1>4. \A j \in DOMAIN symbols' : j = x \/
        (j \in DOMAIN symbols /\ symbols'[j] = symbols[j] /\ symbols[j].name # n)
  <2>1. ASSUME NEW j \in DOMAIN symbols, j # x
        PROVE  symbols'[j] = symbols[j] /\ symbols[j].name # n
    <3>1. symbols'[j] = W[j]
      BY <1>1, <1>2, <2>1
    <3> QED
      BY <1>1, <2>1, <3>1
  <2>2. \A j \in DOMAIN symbols' : j = x \/ j \in DOMAIN symbols
    BY <1>3
  <2> QED
    BY <2>1, <2>2
<1>5. OneEntryEach'
  BY <1>3, <1>4 DEF OneEntryEach
<1>6. IsSymbol(n)'
  BY <1>3 DEF IsSymbol
<1>7. ASSUME NEW m, IsSymbol(m)
      PROVE  IsSymbol(m)'
  BY <1>1, <1>2, <1>3, <1>6, <1>7 DEF IsSymbol
<1>8. ASSUME NEW j \in DOMAIN symbols, symbols[j].name # n
      PROVE  j \in DOMAIN symbols' /\ symbols'[j] = symbols[j]
  <2>1. j # x /\ W[j] = symbols[j] /\ j \in DOMAIN W
    BY <1>1, <1>8
  <2> QED
    BY <1>2, <2>1
<1> QED
  BY <1>3, <1>4, <1>5, <1>6, <1>7, <1>8 DEF x

\* A line that leaves the symbols alone, and is no .dword
LEMMA LabelsKept ==
  ASSUME LabelInv, UNCHANGED <<symbols, exported, words, relabelled>>
  PROVE  LabelInv'
BY DEF LabelInv, OneEntryEach, ExportedEntered, ExportKept, WordsStand, IsSymbol

\* .dword of a name stores its value, or 0 if it has none.
LEMMA LabelsWord ==
  ASSUME TypeOK, LabelInv, NEW n \in Names, DataWord(n)
  PROVE  LabelInv'
<1> DEFINE v == IF HasValue(n) THEN symbols[Index(n)].value ELSE 0
           w == [name |-> n, known |-> HasValue(n), value |-> v]
<1>1. OneEntryEach /\ ExportedEntered /\ ExportKept /\ WordsStand
  BY DEF LabelInv
<1>2. words' = words \cup {w} /\ UNCHANGED <<symbols, exported, relabelled>>
  BY DEF DataWord
<1>3. ~w.known => w.value = 0
  OBVIOUS
<1>4. ASSUME w.known
      PROVE  \E i \in DOMAIN symbols : symbols[i].name = w.name /\ symbols[i].defined
                                      /\ symbols[i].value = w.value
  <2>1. PICK i \in DOMAIN symbols : symbols[i].name = n /\ symbols[i].defined
    BY <1>4 DEF HasValue
  <2>2. i = Index(n)
    BY <1>1, <2>1, EntryFound
  <2> QED
    BY <1>4, <2>1, <2>2
<1> HIDE DEF w
<1>5. OneEntryEach' /\ ExportedEntered' /\ ExportKept'
  BY <1>1, <1>2 DEF OneEntryEach, ExportedEntered, ExportKept, IsSymbol
<1>6. WordsStand'
  BY <1>1, <1>2, <1>3, <1>4 DEF WordsStand
<1> QED
  BY <1>5, <1>6 DEF LabelInv

\* A label, .equ or .set gives a name a value; if the name was in the table already
\* it counts as relabelled from then on.
LEMMA LabelsDefined ==
  ASSUME TypeOK, LabelInv, NEW n \in Names, NEW v \in Nat, AddSymbol(n, v)
  PROVE  LabelInv'
<1> DEFINE e == [name |-> n, value |-> v, section |-> current,
                 type |-> "local", defined |-> TRUE]
<1>1. OneEntryEach /\ ExportedEntered /\ ExportKept /\ WordsStand
  BY DEF LabelInv
<1>2. e \in Symbol /\ e.name = n /\ e.value = v /\ e.type # "global"
  BY Rows DEF Symbol
<1>3. symbols' = [WithSymbol(n) EXCEPT ![Index(n)] = e]
      /\ UNCHANGED <<exported, words>>
      /\ relabelled' = IF IsSymbol(n) THEN relabelled \cup {n} ELSE relabelled
  BY DEF AddSymbol
<1> HIDE DEF e
<1>4. /\ OneEntryEach' /\ symbols'[Index(n)] = e
      /\ \A j \in DOMAIN symbols' : j = Index(n) \/
            (j \in DOMAIN symbols /\ symbols'[j] = symbols[j] /\ symbols[j].name # n)
      /\ \A j \in DOMAIN symbols : symbols[j].name # n =>
            j \in DOMAIN symbols' /\ symbols'[j] = symbols[j]
      /\ \A m : IsSymbol(m) => IsSymbol(m)'
  BY <1>1, <1>2, <1>3, EntryWritten
<1>5. PICK x : x = Index(n)
  OBVIOUS
<1>6. n \in exported => n \in relabelled'
  BY <1>1, <1>3 DEF ExportedEntered
<1>7. \A w \in words : w.known /\ w.name = n => n \in relabelled'
  BY <1>1, <1>3 DEF WordsStand, IsSymbol
<1>8. relabelled \subseteq relabelled'
  BY <1>3
<1>9. ExportedEntered'
  BY <1>1, <1>3, <1>4 DEF ExportedEntered
<1>10. ASSUME NEW j \in DOMAIN symbols'
       PROVE  /\ symbols'[j].type = "global" => symbols'[j].name \in exported
              /\ symbols'[j].name \in exported \ relabelled' => symbols'[j].type = "global"
  <2>1. CASE j = x
    BY <1>2, <1>4, <1>5, <1>6, <2>1
  <2>2. CASE j # x
    BY <1>1, <1>4, <1>5, <1>8, <2>2 DEF ExportKept
  <2> QED
    BY <2>1, <2>2
<1>11. ASSUME NEW w \in words, w.known, w.name \notin relabelled'
       PROVE  \E j \in DOMAIN symbols' : symbols'[j].name = w.name /\ symbols'[j].defined
                                         /\ symbols'[j].value = w.value
  <2>1. PICK j \in DOMAIN symbols : symbols[j].name = w.name /\ symbols[j].defined
                                   /\ symbols[j].value = w.value
    BY <1>1, <1>8, <1>11 DEF WordsStand
  <2>2. symbols[j].name # n
    BY <1>7, <1>11, <2>1
  <2> QED
    BY <1>4, <2>1, <2>2
<1>12. \A w \in words : ~w.known => w.value = 0
  BY <1>1 DEF WordsStand
<1> QED
  BY <1>3, <1>4, <1>9, <1>10, <1>11, <1>12 DEF LabelInv, ExportKept, WordsStand

\* .global, .extern and a call enter a name; only .global changes an entry there is.
LEMMA LabelsEntered ==
  ASSUME TypeOK, LabelInv, NEW n \in Names, UNCHANGED <<words, relabelled>>,
         \/ symbols' = WithSymbol(n) /\ exported' = exported
         \/ /\ symbols' = [WithSymbol(n) EXCEPT ![Index(n)].type = "global"]
            /\ exported' = exported \cup {n}
  PROVE  LabelInv'
<1> DEFINE W == WithSymbol(n)
           x == Index(n)
           e == IF exported' = exported /\ symbols' = W THEN W[x]
                ELSE [W[x] EXCEPT !.type = "global"]
<1>1. OneEntryEach /\ ExportedEntered /\ ExportKept /\ WordsStand
  BY DEF LabelInv
<1>2. /\ W \in Seq(Symbol) /\ W[x] \in Symbol /\ W[x].name = n /\ x \in DOMAIN W
      /\ DOMAIN W = DOMAIN symbols \cup {x}
      /\ x \in DOMAIN symbols => W[x] = symbols[x]
      /\ x \notin DOMAIN symbols => ~IsSymbol(n) /\ W[x] = Fresh(n)
  BY <1>1, EntryFound, Entered
<1>3. e \in Symbol /\ e.name = n /\ e.value = W[x].value /\ e.defined = W[x].defined
  BY <1>2 DEF Symbol
<1>4. symbols' = [W EXCEPT ![x] = e]
  <2>1. CASE symbols' = W /\ exported' = exported
    BY <1>2, <2>1
  <2>2. CASE /\ ~(symbols' = W /\ exported' = exported)
             /\ symbols' = [W EXCEPT ![x].type = "global"]
    BY <1>2, <2>2
  <2> QED
    BY <2>1, <2>2
<1>5. \/ e = W[x] /\ exported' = exported
      \/ e.type = "global" /\ exported' = exported \cup {n}
  BY <1>2 DEF Symbol
<1> HIDE DEF W, e
<1>6. /\ OneEntryEach' /\ symbols'[x] = e /\ IsSymbol(n)'
      /\ \A j \in DOMAIN symbols' : j = x \/
            (j \in DOMAIN symbols /\ symbols'[j] = symbols[j] /\ symbols[j].name # n)
      /\ \A j \in DOMAIN symbols : symbols[j].name # n =>
            j \in DOMAIN symbols' /\ symbols'[j] = symbols[j]
      /\ \A m : IsSymbol(m) => IsSymbol(m)'
      /\ x \in DOMAIN symbols'
      /\ \A j \in DOMAIN symbols : symbols[j].name = n => j = x
  <2>1. symbols' = [WithSymbol(n) EXCEPT ![Index(n)] = e]
    BY <1>4 DEF W
  <2>2. \A j \in DOMAIN symbols : symbols[j].name = n => j = x
    BY <1>1, EntryFound
  <2> QED
    BY <1>1, <1>3, <2>1, <2>2, EntryWritten
<1> HIDE DEF x
<1>7. PICK y : y = x
  OBVIOUS
<1>8. ExportedEntered'
  BY <1>1, <1>5, <1>6 DEF ExportedEntered
<1>9. WordsStand'
  <2>1. ASSUME NEW j \in DOMAIN symbols
        PROVE  /\ j \in DOMAIN symbols' /\ symbols'[j].name = symbols[j].name
               /\ symbols'[j].defined = symbols[j].defined
               /\ symbols'[j].value = symbols[j].value
    <3>1. CASE symbols[j].name = n
      <4>1. j = y
        BY <1>6, <1>7, <3>1
      <4> QED
        BY <1>2, <1>3, <1>6, <1>7, <3>1, <4>1
    <3>2. CASE symbols[j].name # n
      BY <1>6, <3>2
    <3> QED
      BY <3>1, <3>2
  <2> QED
    BY <1>1, <2>1 DEF WordsStand
<1>10. CASE y \in DOMAIN symbols
  <2>1. symbols[y].name = n /\ e.value = symbols[y].value
        /\ (e.type = symbols[y].type \/ e.type = "global")
    BY <1>2, <1>3, <1>5, <1>7, <1>10
  <2>2. ExportKept'
    <3> SUFFICES ASSUME NEW j \in DOMAIN symbols'
                 PROVE  /\ symbols'[j].type = "global" => symbols'[j].name \in exported'
                        /\ symbols'[j].name \in exported' \ relabelled
                             => symbols'[j].type = "global"
      BY DEF ExportKept
    <3>1. CASE j = y
      <4>1. symbols'[j] = e /\ e.name = n
        BY <1>3, <1>6, <1>7, <3>1
      <4>2. CASE e = W[x] /\ exported' = exported
        BY <1>1, <1>2, <1>7, <1>10, <2>1, <4>1, <4>2 DEF ExportKept
      <4>3. CASE e.type = "global" /\ exported' = exported \cup {n}
        BY <4>1, <4>3
      <4> QED
        BY <1>5, <4>2, <4>3
    <3>2. CASE j # y
      BY <1>1, <1>5, <1>6, <1>7, <3>2 DEF ExportKept
    <3> QED
      BY <3>1, <3>2
  <2> QED
    BY <1>6, <1>8, <1>9, <2>2 DEF LabelInv
<1>11. CASE y \notin DOMAIN symbols
  <2>1. ~IsSymbol(n) /\ n \notin exported
    BY <1>1, <1>2, <1>7, <1>11 DEF ExportedEntered
  <2>2. e.type # "global" \/ n \in exported'
    BY <1>2, <1>5, <1>7, <1>11 DEF Fresh
  <2>3. e.type = "global" \/ n \notin exported'
    BY <1>5, <2>1
  <2>4. ExportKept'
    BY <1>1, <1>3, <1>5, <1>6, <1>7, <2>2, <2>3 DEF ExportKept
  <2> QED
    BY <1>6, <1>8, <1>9, <2>4 DEF LabelInv
<1> QED
  BY <1>10, <1>11

LEMMA LabelNext ==
  ASSUME TypeOK, LabelInv, [Next]_vars
  PROVE  LabelInv'
<1>1. ASSUME NEW n \in Names, Label(n) \/ Equ(n)
      PROVE  LabelInv'
  <2>1. sections[current].size \in Nat
    BY Rows
  <2>2. PICK v \in Nat : AddSymbol(n, v)
    BY <1>1, <2>1 DEF Label, Equ
  <2> QED
    BY <2>2, LabelsDefined
<1>2. ASSUME NEW n \in Names, GlobalName(n) \/ ExternName(n) \/ Call(n)
      PROVE  LabelInv'
  BY <1>2, LabelsEntered DEF GlobalName, ExternName, Call, history
<1>3. ASSUME NEW n \in Names, DataWord(n)
      PROVE  LabelInv'
  BY <1>3, LabelsWord
<1>4. CASE SectionLines
  BY <1>4, LabelsKept DEF SectionLines, SwitchBack, SwitchNew, history
<1>5. ASSUME NEW k, Bytes(k) \/ Align(k)
      PROVE  LabelInv'
  BY <1>5, LabelsKept DEF Bytes, Align, history
<1>6. CASE Arch \/ DataUnread \/ Overrun \/ EndOfFile \/ Stopped \/ UNCHANGED vars
  BY <1>6, LabelsKept DEF Arch, DataUnread, Overrun, EndOfFile, Stopped, vars, history
<1> QED
  BY <1>1, <1>2, <1>3, <1>4, <1>5, <1>6 DEF Next, SymbolLines, CodeLines

\* In the object file a symbol is global if it was exported and no label or .equ of it
\* came after its entry was made, and a word holds its symbol's value if it was read
\* after the symbol's only definition; a word read before it holds 0 (add_symbol(),
\* eval_primary()).
THEOREM LabelsCorrect == Spec => []FirstLabelStands
<1>1. Init => TypeOK /\ LabelInv
  <2>1. Init => LabelInv
    BY DEF Init, LabelInv, OneEntryEach, ExportedEntered, ExportKept, WordsStand
  <2> QED
    BY <2>1, TypeInit
<1>2. TypeOK /\ LabelInv /\ [Next]_vars => (TypeOK /\ LabelInv)'
  BY TypeNext, LabelNext
<1>3. TypeOK /\ LabelInv => FirstLabelStands
  BY DEF LabelInv, FirstLabelStands
<1> QED
  BY <1>1, <1>2, <1>3, PTL DEF Spec
=============================================================================
