---------------------------- MODULE SldEnhanced ----------------------------
(***************************************************************************)
(* The enhanced ELF linker sld_enhanced.c: it reads object files one after *)
(* the other into one section table, one symbol table and one relocation   *)
(* table, lays the sections out, applies the relocations and writes the    *)
(* program.  An action is one iteration of one of its loops.               *)
(*                                                                         *)
(* An object file is chosen while it is read: its section headers, then    *)
(* its symbol table, which begins with the empty entry, then relocations   *)
(* (symbols and relocations are collected in the order of their headers,   *)
(* but neither loop touches what the other one does).                      *)
(* Addresses count from BASE_ADDR.  Indices are one more than the code's,  *)
(* so that 0 stands for its -1; a relocation's symbol stays as read.       *)
(* Where the fields of a header lie in the file is left out.               *)
(***************************************************************************)
EXTENDS Integers, Sequences, FiniteSets, FiniteSetsExt

CONSTANTS
  SectNames,           \* section names
  Headers,             \* headers of allocated sections: [name, kind, size]
  Globals,             \* names of global symbols
  MaxFiles, MaxParts, MaxEntries,  \* bounds: files, and what they hold together
  MAX_SECTIONS, MAX_SYMBOLS, MAX_RELOCS, OUTPUT_SIZE,
  PAGE_SIZE, SECTION_ALIGN

\* SHT_NOBITS is "bss"; SHT_PROGBITS is "code" with SHF_EXECINSTR and "data" without
Kinds == {"code", "data", "bss"}

ASSUME NamesAssumption ==
  /\ Headers \subseteq [name : SectNames, kind : Kinds, size : Nat]
  /\ "" \notin Globals
ASSUME NumbersAssumption ==
  /\ {MaxFiles, MaxParts, MaxEntries} \subseteq Nat
  /\ {MAX_SECTIONS, MAX_SYMBOLS, MAX_RELOCS, OUTPUT_SIZE} \subseteq Nat
  /\ SECTION_ALIGN \in Nat \ {0}
  /\ PAGE_SIZE \in Nat \ {0} /\ PAGE_SIZE % SECTION_ALIGN = 0

VARIABLES
  phase, status,       \* which loop runs; "run", "done", "error", "overrun"
  nfile,               \* number of the file being read
  sections,            \* [name, kind, start, size, vaddr]; start counts from output
  output, output_size,
  symbols,             \* [name, section, value, defined]
  relocs,              \* [section, offset, symbol, file]
  at, cursor,          \* the loops' i and vaddr, or file_offset
  applied,             \* addresses the relocations were given, in order
  filepos, entry,      \* where write_executable() put each section; entry_addr
  segments,            \* code_size, data_start and data_end of the program headers
  parts, own           \* history: the parts read; each file's symbol table

tables == <<sections, output, output_size, symbols, relocs>>
header == <<entry, segments>>
result == <<applied, filepos, header>>
history == <<parts, own>>
vars == <<phase, status, nfile, tables, at, cursor, result, history>>

Running(p) == status = "run" /\ phase = p
Enter(p) == phase' = p

RoundUp(n, unit) == ((n + unit - 1) \div unit) * unit

\* find_section(), find_symbol()
SectionsNamed(name) == {i \in DOMAIN sections : sections[i].name = name}
SymbolsNamed(name) == {i \in DOMAIN symbols : symbols[i].name = name}
TheIndex(S) == IF S = {} THEN 0 ELSE CHOOSE i \in S : TRUE

Kind(i) == sections[i].kind
Span(i) == sections[i].start .. sections[i].start + sections[i].size - 1

\* the k-th byte of the n-th part read, and a byte that is 0
Byte(n, k) == [part |-> n, k |-> k]
Zero == Byte(0, 0)

\* a symbol table's entry: its name ("" if it is local), the section in the linker's
\* table and the part of it that it lies in (0 if there is none), the value
Entry(name, section, part, value) ==
  [name |-> name, section |-> section, part |-> part, value |-> value]
Unnamed == Entry("", 0, 0, 0)
-----------------------------------------------------------------------------
(* process_object() *)

\* a file that cannot be opened or read as an object ends the program
OpenObject ==
  /\ Running("files")
  /\ nfile < MaxFiles
  /\ nfile' = nfile + 1
  /\ own' = Append(own, <<Unnamed>>)
  /\ \/ Enter("sections") /\ UNCHANGED status
     \/ status' = "error" /\ UNCHANGED phase
  /\ UNCHANGED <<tables, at, cursor, result, parts>>

\* add_section(): a known name keeps its entry, and with it the type and flags of the
\* first header of that name; a new one starts at output_size
WithSection(h) ==
  IF SectionsNamed(h.name) # {} THEN sections
  ELSE Append(sections, [name |-> h.name, kind |-> h.kind, start |-> output_size,
                         size |-> 0, vaddr |-> 0])
Row(h) == CHOOSE i \in DOMAIN WithSection(h) : WithSection(h)[i].name = h.name
Padded(h) == RoundUp(output_size + h.size, SECTION_ALIGN)

\* a part: the file, the header read, and the section's size in front of it
Part(h, base) ==
  [file |-> nfile, name |-> h.name, kind |-> h.kind, base |-> base, size |-> h.size]

MoreSections == Running("sections") /\ Len(parts) < MaxParts

\* what both kinds of header do: the section grows by the part
Collect(h) ==
  LET table == WithSection(h)
      i == Row(h)
  IN /\ Len(table) <= MAX_SECTIONS
     /\ sections' = [table EXCEPT ![i].size = @ + h.size]
     /\ parts' = Append(parts, Part(h, table[i].size))

\* where the bytes of a part are copied to: behind those of its section
Behind(h) == WithSection(h)[Row(h)].start + WithSection(h)[Row(h)].size

\* Mutant: the bytes go to the end of the output, as if every part began a section.
CollectAtEnd ==
  /\ MoreSections
  /\ \E h \in Headers :
       /\ h.kind # "bss" /\ Padded(h) <= OUTPUT_SIZE
       /\ Collect(h)
       /\ output' = [b \in DOMAIN output |->
                       IF b \in output_size .. output_size + h.size - 1
                       THEN Byte(Len(parts) + 1, b - output_size) ELSE output[b]]
       /\ output_size' = Padded(h)
  /\ UNCHANGED <<phase, status, nfile, symbols, relocs, at, cursor, result, own>>

\* SHT_PROGBITS: copied behind the section's bytes; output_size grows all the same, and
\* is padded with zeros
CollectProgbits ==
  /\ MoreSections
  /\ \E h \in Headers :
       /\ h.kind # "bss"
       /\ Padded(h) <= OUTPUT_SIZE /\ Behind(h) + h.size <= OUTPUT_SIZE
       /\ Collect(h)
       /\ output' = [b \in DOMAIN output |->
                       IF b \in output_size + h.size .. Padded(h) - 1 THEN Zero
                       ELSE IF b \in Behind(h) .. Behind(h) + h.size - 1
                       THEN Byte(Len(parts) + 1, b - Behind(h)) ELSE output[b]]
       /\ output_size' = Padded(h)
  /\ UNCHANGED <<phase, status, nfile, symbols, relocs, at, cursor, result, own>>

\* SHT_NOBITS: only the size is kept
CollectNobits ==
  /\ MoreSections
  /\ \E h \in Headers : h.kind = "bss" /\ Collect(h)
  /\ UNCHANGED <<phase, status, nfile, output, output_size, symbols, relocs, at, cursor,
                 result, own>>

\* No limit is checked: an entry or a byte too many goes past its array, and the
\* model follows the program no further.
Overruns == status' = "overrun" /\ UNCHANGED <<phase, nfile, tables, at, cursor, result, history>>

SectionOverrun ==
  /\ MoreSections
  /\ \E h \in Headers :
       \/ Len(WithSection(h)) > MAX_SECTIONS
       \/ h.kind # "bss" /\ (Padded(h) > OUTPUT_SIZE \/ Behind(h) + h.size > OUTPUT_SIZE)
  /\ Overruns

EndSections ==
  /\ Running("sections")
  /\ Enter("symbols")
  /\ UNCHANGED <<status, nfile, tables, at, cursor, result, history>>

Entries == own[nfile]
MoreEntries ==
  /\ Running("symbols")
  /\ Cardinality(UNION {{f} \X (2..Len(own[f])) : f \in DOMAIN own}) < MaxEntries

\* local symbols, which come first, are passed over like the empty entry
CollectLocal ==
  /\ MoreEntries
  /\ \A j \in DOMAIN Entries : Entries[j] = Unnamed
  /\ own' = [own EXCEPT ![nfile] = Append(@, Unnamed)]
  /\ UNCHANGED <<phase, status, nfile, tables, at, cursor, result, parts>>

\* the parts of this file, the section a part is found in by its name, its last byte
Here == {n \in DOMAIN parts : parts[n].file = nfile}
SectionOf(n) == TheIndex(SectionsNamed(parts[n].name))
LastByte(n) == IF parts[n].size = 0 THEN 0 ELSE parts[n].size - 1

\* where a global symbol may lie: the last byte of a part of this file, or in none of
\* them (undefined, absolute or in a section that is not loaded)
GlobalEntries ==
  LET names == Globals \ {Entries[j].name : j \in DOMAIN Entries}
  IN {Entry(name, 0, 0, 0) : name \in names} \cup
     {Entry(name, SectionOf(n), n, LastByte(n)) : name \in names, n \in Here}

\* add_symbol(): a known name keeps what its first mention said
WithSymbol(e) ==
  IF SymbolsNamed(e.name) # {} THEN symbols
  ELSE Append(symbols, [name |-> e.name, section |-> e.section, value |-> e.value, defined |-> FALSE])

\* a global symbol; its value counts from the file's own part of the section
CollectGlobal ==
  /\ MoreEntries
  /\ \E e \in GlobalEntries :
       /\ Len(WithSymbol(e)) <= MAX_SYMBOLS
       /\ LET table == WithSymbol(e)
              i == CHOOSE j \in DOMAIN table : table[j].name = e.name
          IN symbols' = IF e.section = 0 THEN table ELSE [table EXCEPT ![i].defined = TRUE]
       /\ own' = [own EXCEPT ![nfile] = Append(@, e)]
  /\ UNCHANGED <<phase, status, nfile, sections, output, output_size, relocs, at, cursor,
                 result, parts>>

SymbolOverrun ==
  /\ MoreEntries
  /\ \E e \in GlobalEntries : Len(WithSymbol(e)) > MAX_SYMBOLS
  /\ Overruns

\* the parts a relocation section may be for, and the relocation of a part's last byte;
\* the symbol is an index into the file's own symbol table
Relocated == {n \in Here : parts[n].kind # "bss" /\ parts[n].size > 0}
Reloc(n, symbol) ==
  [section |-> SectionOf(n), offset |-> LastByte(n), symbol |-> symbol, part |-> n]

\* Mutant: a relocation section for a section that was not collected is read as well.
CollectRelocUnchecked ==
  /\ Running("symbols")
  /\ Len(relocs) < MAX_RELOCS
  /\ \E n \in Here, symbol \in 0..(Len(Entries) - 1) : \E section \in {SectionOf(n), 0} :
       relocs' = Append(relocs, [Reloc(n, symbol) EXCEPT !.section = section])
  /\ UNCHANGED <<phase, status, nfile, sections, output, output_size, symbols, at, cursor,
                 result, history>>

CollectReloc ==
  /\ Running("symbols")
  /\ Len(relocs) < MAX_RELOCS
  /\ \E n \in Relocated, symbol \in 0..(Len(Entries) - 1) :
       relocs' = Append(relocs, Reloc(n, symbol))
  /\ UNCHANGED <<phase, status, nfile, sections, output, output_size, symbols, at, cursor,
                 result, history>>

RelocOverrun ==
  /\ Running("symbols")
  /\ Len(relocs) = MAX_RELOCS /\ Relocated # {}
  /\ Overruns

EndObject ==
  /\ Running("symbols")
  /\ Enter("files")
  /\ UNCHANGED <<status, nfile, tables, at, cursor, result, history>>

-----------------------------------------------------------------------------
(* layout_sections(): three loops over the section table *)

StartLayout ==
  /\ Running("files")
  /\ nfile > 0
  /\ Enter("code")
  /\ at' = 1
  /\ cursor' = PAGE_SIZE
  /\ UNCHANGED <<status, nfile, tables, result, history>>

\* Mutant: the next section is put behind the bytes of this one, unrounded.
PlaceUnaligned ==
  /\ status = "run" /\ phase \in Kinds /\ at <= Len(sections)
  /\ at' = at + 1
  /\ IF Kind(at) = phase
     THEN /\ sections' = [sections EXCEPT ![at].vaddr = cursor]
          /\ cursor' = cursor + sections[at].size
     ELSE UNCHANGED <<sections, cursor>>
  /\ UNCHANGED <<phase, status, nfile, output, output_size, symbols, relocs, result, history>>

Place ==
  /\ status = "run" /\ phase \in Kinds /\ at <= Len(sections)
  /\ at' = at + 1
  /\ IF Kind(at) = phase
     THEN /\ sections' = [sections EXCEPT ![at].vaddr = cursor]
          /\ cursor' = RoundUp(cursor + sections[at].size, SECTION_ALIGN)
     ELSE UNCHANGED <<sections, cursor>>
  /\ UNCHANGED <<phase, status, nfile, output, output_size, symbols, relocs, result, history>>

\* code is followed by a page boundary, then data, then BSS
NextLoop ==
  /\ status = "run" /\ phase \in Kinds /\ at > Len(sections)
  /\ at' = 1
  /\ CASE phase = "code" -> Enter("data") /\ cursor' = RoundUp(cursor, PAGE_SIZE)
       [] phase = "data" -> Enter("bss") /\ UNCHANGED cursor
       [] phase = "bss" -> Enter("apply") /\ UNCHANGED cursor
  /\ UNCHANGED <<status, nfile, tables, result, history>>

-----------------------------------------------------------------------------
(* apply_relocations() and write_executable() *)

\* what a relocation is given: an entry of the linker's symbol table (0 beyond its end)
\* and that entry's address (0 when it has no section); skipped with a warning when the
\* entry is not defined
Given(i) ==
  [symbol |-> i,
   target |-> IF i = 0 \/ symbols[i].section = 0 THEN 0
              ELSE sections[symbols[i].section].vaddr + symbols[i].value,
   skipped |-> i # 0 /\ ~symbols[i].defined]

\* the index is taken for one of the linker's own symbol table
Apply ==
  /\ Running("apply") /\ at <= Len(relocs)
  /\ at' = at + 1
  /\ LET symbol == relocs[at].symbol
     IN applied' = Append(applied, Given(IF symbol < Len(symbols) THEN symbol + 1 ELSE 0))
  /\ UNCHANGED <<phase, status, nfile, tables, cursor, filepos, header, history>>

\* the entry point: _start, else main, else the first page behind the headers;
\* -1 when a defined symbol has no section, which reads in front of the table
EntryOf(name) ==
  LET i == TheIndex(SymbolsNamed(name))
  IN IF symbols[i].section = 0 THEN -1
     ELSE sections[symbols[i].section].vaddr + symbols[i].value
IsDefined(name) == \E i \in SymbolsNamed(name) : symbols[i].defined

\* the ends of the sections; the headers' own page belongs to the code segment
EndOf(S) == {sections[i].vaddr + sections[i].size : i \in S}
CodeSections == {i \in DOMAIN sections : Kind(i) = "code"}
DataSections == {i \in DOMAIN sections \ CodeSections : sections[i].size > 0}
Segments ==
  [code |-> Max({PAGE_SIZE} \cup EndOf(CodeSections)),
   from |-> IF DataSections = {} THEN 0 ELSE Min({sections[i].vaddr : i \in DataSections}),
   to |-> Max({0} \cup EndOf(DataSections))]

WriteHeader ==
  /\ Running("apply") /\ at > Len(relocs)
  /\ Enter("write")
  /\ entry' = IF IsDefined("_start") THEN EntryOf("_start")
              ELSE IF IsDefined("main") THEN EntryOf("main") ELSE PAGE_SIZE
  /\ segments' = Segments
  /\ at' = 1
  /\ cursor' = PAGE_SIZE
  /\ UNCHANGED <<status, nfile, tables, applied, filepos, history>>

\* creat() fails: nothing is written
CannotCreate ==
  /\ Running("apply") /\ at > Len(relocs)
  /\ status' = "error"
  /\ UNCHANGED <<phase, nfile, tables, at, cursor, result, history>>

\* the sections that have bytes in the file
Written == {i \in DOMAIN sections : Kind(i) # "bss" /\ sections[i].size > 0}

\* Mutant: no padding is written in front of a section.
WriteUnpadded ==
  /\ Running("write") /\ at <= Len(sections)
  /\ at' = at + 1
  /\ IF at \in Written
     THEN /\ filepos' = Append(filepos, cursor)
          /\ cursor' = cursor + sections[at].size
     ELSE filepos' = Append(filepos, 0) /\ UNCHANGED cursor
  /\ UNCHANGED <<phase, status, nfile, tables, applied, header, history>>

\* sections with bytes are written in the order of the table, padded up to their address,
\* which may lie behind already
WriteSection ==
  /\ Running("write") /\ at <= Len(sections)
  /\ at' = at + 1
  /\ IF at \in Written
     THEN LET pos == IF sections[at].vaddr > cursor THEN sections[at].vaddr ELSE cursor
          IN filepos' = Append(filepos, pos) /\ cursor' = pos + sections[at].size
     ELSE filepos' = Append(filepos, 0) /\ UNCHANGED cursor
  /\ UNCHANGED <<phase, status, nfile, tables, applied, header, history>>

Finish ==
  /\ Running("write") /\ at > Len(sections)
  /\ status' = "done"
  /\ UNCHANGED <<phase, nfile, tables, at, cursor, result, history>>

-----------------------------------------------------------------------------
Init ==
  /\ phase = "files" /\ status = "run" /\ nfile = 0
  /\ sections = <<>> /\ symbols = <<>> /\ relocs = <<>>
  /\ output = [b \in 0..(OUTPUT_SIZE - 1) |-> Zero] /\ output_size = 0
  /\ at = 1 /\ cursor = 0
  /\ applied = <<>> /\ filepos = <<>> /\ entry = 0
  /\ segments = [code |-> 0, from |-> 0, to |-> 0]
  /\ parts = <<>> /\ own = <<>>

ReadObjects == OpenObject \/ CollectProgbits \/ CollectNobits \/ SectionOverrun \/ EndSections
               \/ CollectLocal \/ CollectGlobal \/ SymbolOverrun
               \/ CollectReloc \/ RelocOverrun \/ EndObject
LayOut == StartLayout \/ Place \/ NextLoop
WriteProgram == Apply \/ CannotCreate \/ WriteHeader \/ WriteSection \/ Finish

\* the process has exited
Stopped == status # "run" /\ UNCHANGED vars

Next == ReadObjects \/ LayOut \/ WriteProgram \/ Stopped

Spec == Init /\ [][Next]_vars

-----------------------------------------------------------------------------
(* Properties *)

Section == [name : SectNames, kind : Kinds, start : Nat, size : Nat, vaddr : Nat]
SymbolEntry == [name : Globals, section : Nat, value : Nat, defined : BOOLEAN]
Relocation == [section : Nat \ {0}, offset : Nat, symbol : Nat, part : Nat]

\* Types of the linker's tables and cursors; indices stay inside the tables.
TypeOK ==
  /\ phase \in Kinds \cup {"files", "sections", "symbols", "apply", "write"}
  /\ status \in {"run", "done", "error", "overrun"}
  /\ nfile \in 0..MaxFiles /\ at \in Nat \ {0} /\ cursor \in Nat
  /\ sections \in Seq(Section) /\ Len(sections) <= MAX_SECTIONS
  /\ symbols \in Seq(SymbolEntry) /\ Len(symbols) <= MAX_SYMBOLS
  /\ \A i \in DOMAIN symbols : symbols[i].section <= Len(sections)
  /\ relocs \in Seq(Relocation) /\ Len(relocs) <= MAX_RELOCS
  /\ \A i \in DOMAIN relocs : relocs[i].section <= Len(sections)
  /\ output_size \in Nat /\ entry \in Nat \cup {-1}
  /\ segments \in [code : Nat, from : Nat, to : Nat]
  /\ DOMAIN output = 0..(OUTPUT_SIZE - 1)

Loaded == {i \in DOMAIN sections : Kind(i) # "bss"}
Overwritten(i) == \E j \in Loaded \ {i} : Span(i) \cap Span(j) # {}
\* an object file has just been read, or none yet
Collected == phase = "files"
\* the headers of a name agree on having bytes
Uniform ==
  \A n \in DOMAIN parts : \A i \in SectionsNamed(parts[n].name) :
    Kind(i) = "bss" <=> parts[n].kind = "bss"
\* no object has two sections of one name, as is the rule
NamesApart ==
  \A m, n \in DOMAIN parts :
    parts[m].file = parts[n].file /\ parts[m].name = parts[n].name => m = n
Progbits == {n \in DOMAIN parts : parts[n].kind # "bss"}
Intact(n) ==
  \A i \in SectionsNamed(parts[n].name), k \in 0..(parts[n].size - 1) :
    output[sections[i].start + parts[n].base + k] = Byte(n, k)

\* process_object() copies a part behind the section's earlier parts, where another
\* section may have begun: when the headers of a name agree, bytes are lost only where
\* two sections' ranges overlap, never as long as no name is read twice, and no part
\* reaches past output_size.
BytesKept ==
  Collected /\ Uniform =>
    /\ \A n \in Progbits :
         Intact(n) \/ \E i \in SectionsNamed(parts[n].name) : Overwritten(i)
    /\ (\A m, n \in DOMAIN parts : parts[m].name = parts[n].name => m = n) =>
         \A i \in Loaded : ~Overwritten(i)
    /\ \A i \in Loaded : sections[i].start + sections[i].size <= output_size

Mapped(i) == sections[i].vaddr .. sections[i].vaddr + sections[i].size - 1
LaidOut == phase \in {"apply", "write"}

\* layout_sections() gives every section an address of its own: ranges are disjoint,
\* aligned, and no page holds both code and data or BSS.
Apart ==
  LaidOut => \A i, j \in DOMAIN sections :
    /\ sections[i].vaddr % SECTION_ALIGN = 0
    /\ i # j => Mapped(i) \cap Mapped(j) = {}
    /\ Kind(i) = "code" /\ Kind(j) # "code" =>
         \A a \in Mapped(i), b \in Mapped(j) : a \div PAGE_SIZE < b \div PAGE_SIZE

\* the sections to be written lie in the table in the order of their addresses
InOrder == \A i, j \in Written : i < j => sections[i].vaddr < sections[j].vaddr

\* write_executable() writes in the order of the table and can only pad forward: each
\* section with bytes lies in the file at its address exactly when these are in the order
\* of addresses.  The file then ends where the last segment does unless there is BSS to
\* reserve, which the data segment counts among the bytes to be read from the file.
WrittenAtAddress ==
  status = "done" =>
    /\ InOrder <=> \A i \in Written : filepos[i] = sections[i].vaddr
    /\ InOrder => cursor = Max({PAGE_SIZE} \cup EndOf(Written))
    /\ InOrder => (cursor >= segments.to <=> DataSections \subseteq Written)
    /\ segments.code <= segments.from \/ DataSections = {}

\* the entries of a name, and the one of the first file that mentions it
Mentions(name) ==
  {m \in UNION {{f} \X DOMAIN own[f] : f \in DOMAIN own} : own[m[1]][m[2]].name = name}
Meant(m) == own[m[1]][m[2]]
First(name) == CHOOSE m \in Mentions(name) : \A n \in Mentions(name) : m[1] <= n[1]
DefinedIn(m) == Meant(m).section # 0

\* "Basic symbol resolution" (LINKERS_README.md:152): a symbol that some object defines
\* has a section, and so an address, when the program is written.
SymbolsResolved ==
  \A i \in DOMAIN symbols :
    (\E m \in Mentions(symbols[i].name) : DefinedIn(m)) => symbols[i].section # 0

\* What add_symbol() does instead: it keeps the section of the first mention.  A symbol
\* is marked as defined when any file defines it, but has an address only if the first
\* file that mentions it does, else the entry point is read in front of the table.
DefinedLate ==
  phase = "write" => \A i \in DOMAIN symbols :
    LET name == symbols[i].name
    IN /\ symbols[i].defined <=> \E m \in Mentions(name) : DefinedIn(m)
       /\ symbols[i].section = 0 <=> ~DefinedIn(First(name))
       /\ name = "_start" /\ symbols[i].defined => (entry = -1 <=> ~DefinedIn(First(name)))

\* the byte of output[] at an offset of a section is the k-th one of part n
Holds(i, offset, n, k) == output[sections[i].start + offset] = Byte(n, k)

\* "Better section handling" of "multiple object files" (LINKERS_README.md:30, 85): a
\* relocation patches the byte of its own object's part, if that was not overwritten.
OwnBytePatched ==
  Uniform /\ NamesApart => \A j \in DOMAIN relocs :
    LET r == relocs[j]
    IN Overwritten(r.section) \/ Holds(r.section, r.offset, r.part, r.offset)

\* What happens instead: symbol values and relocation offsets count from their own part
\* of a section but are used from the section's start, so a symbol leads to the byte its
\* file gave it, and a relocation patches the byte of its file, exactly when nothing of
\* the section lies in front of that part.
OwnPartOnly ==
  Collected /\ Uniform =>
    /\ \A i \in DOMAIN symbols : symbols[i].section \in Loaded =>
         LET n == Meant(First(symbols[i].name)).part
         IN \/ Overwritten(symbols[i].section) \/ parts[n].size = 0
            \/ Holds(symbols[i].section, symbols[i].value, n, symbols[i].value)
               <=> parts[n].base = 0
    /\ \A j \in DOMAIN relocs :
         LET r == relocs[j]
         IN \/ Overwritten(r.section)
            \/ Holds(r.section, r.offset, r.part, r.offset) <=> parts[r.part].base = 0

\* the entry of a relocation's symbol in its own object; a local one has the name ""
Wanted(r) == own[parts[r.part].file][r.symbol + 1]

\* "Simple C programs" and "simple global variables" work (LINKERS_README.md:113, 115):
\* a relocation of the first object against a global symbol that this object defines is
\* given that symbol.
GlobalsReached ==
  \A i \in DOMAIN applied :
    LET e == Wanted(relocs[i])
    IN parts[relocs[i].part].file = 1 /\ e.name # "" /\ e.section # 0
         => applied[i].symbol \in SymbolsNamed(e.name)

\* What happens instead: a relocation keeps the symbol index of its file and is applied
\* to the linker's table, which has no empty first entry: in the first file no relocation
\* against a global symbol is given that symbol.
FirstFileMissed ==
  \A i \in DOMAIN applied :
    LET r == relocs[i]
    IN parts[r.part].file = 1 /\ Wanted(r).name # "" =>
         applied[i].symbol \notin SymbolsNamed(Wanted(r).name)

\* Of every program written, one of the three claims can be made at least.  A link that
\* breaks this breaks each of them: none holds of the linker.
SomeClaimHolds == status = "done" => SymbolsResolved \/ OwnBytePatched \/ GlobalsReached
=============================================================================
