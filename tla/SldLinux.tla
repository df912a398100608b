------------------------------ MODULE SldLinux ------------------------------
(***************************************************************************)
(* The simple Linux linker sld_linux_x64.c: it appends the sections of all *)
(* object files to one output, gives them addresses, patches the           *)
(* relocations and writes the program.  An action is one iteration of one  *)
(* of its loops.                                                           *)
(*                                                                         *)
(* An object file is chosen while it is read.  Header 0 of its section     *)
(* table is the empty one; its symbol table begins with an unnamed entry.  *)
(* Section and symbol numbers are the code's, from 0, and stay as read;    *)
(* the linker's number i is position i + 1 of a sequence.  Addresses count *)
(* from BASE_ADDR.                                                         *)
(***************************************************************************)
EXTENDS Integers, Sequences, FiniteSets

CONSTANTS
  Names,              \* names of symbols, "_start" among them
  Sizes, Values,      \* sizes of sections, offsets in them of symbols and relocations
  MaxFiles, MaxHeaders, MaxEntries, \* bounds: files, and what they hold together
  MAX_SECTIONS, MAX_SYMBOLS, MAX_RELOCS, BUF_SIZE,
  PAGE_SIZE, ALIGN

ASSUME NamesAssumption == "_start" \in Names /\ "" \notin Names
ASSUME NumbersAssumption ==
  /\ Sizes \subseteq Nat /\ Values \subseteq Nat
  /\ {MaxFiles, MaxHeaders, MaxEntries} \subseteq Nat
  /\ {MAX_SECTIONS, MAX_SYMBOLS, MAX_RELOCS, BUF_SIZE} \subseteq Nat
  /\ ALIGN \in Nat \ {0} /\ PAGE_SIZE \in Nat \ {0} /\ PAGE_SIZE % ALIGN = 0

VARIABLES
  phase, status,      \* which loop runs; "run", "done", "error" (return 1), "overrun"
  nfile,              \* number of the file being read
  sections,           \* [offset, size, addr]
  output_size,
  symbols,            \* [name, value, section]
  relocs,             \* [offset, type, symbol, section]
  at, current_vaddr,  \* a loop's i; where the next section goes
  patches,            \* [place, width, value] written by apply_relocations(), in order
  entry, second,      \* e_entry; the addresses of the second program header
  headers, entries,   \* history: each file's headers (the section appended, or -1),
                      \* and its symbol table
  sources             \* history: file, entry and section of each symbol and relocation

tables == <<sections, output_size, symbols, relocs>>
layout == <<at, current_vaddr>>
program == <<patches, entry, second>>
history == <<headers, entries, sources>>
vars == <<phase, status, nfile, tables, layout, program, history>>

SHN_UNDEF == 0
SHN_ABS == 65521
Unnamed == [name |-> "", value |-> 0, section |-> SHN_UNDEF]
Blank == [name |-> "", value |-> 0, section |-> SHN_ABS]

Running(p) == status = "run" /\ phase = p
Enter(p) == phase' = p

RoundUp(n) == ((n + ALIGN - 1) \div ALIGN) * ALIGN

\* arrays of zeroes behind the entries made
NoSection == [offset |-> 0, size |-> 0, addr |-> 0]
SectionAt(i) == IF i + 1 \in DOMAIN sections THEN sections[i + 1] ELSE NoSection
SymbolAt(i) == IF i + 1 \in DOMAIN symbols THEN symbols[i + 1] ELSE Unnamed
AddressOf(symbol) == SectionAt(symbol.section).addr + symbol.value

\* how many headers, entries and relocations the files hold together
Held(tabs) == LET sum[i \in 0..Len(tabs)] == IF i = 0 THEN 0 ELSE sum[i - 1] + Len(tabs[i])
              IN sum[Len(tabs)]
\* files whose table has its empty entry, which does not count against MaxEntries
Tables == {f \in DOMAIN entries : entries[f] # <<>> /\ entries[f][1] = Unnamed}

-----------------------------------------------------------------------------
(* read_object() *)

\* the command line is wrong, or a file cannot be opened or is no ELF file
Fail ==
  /\ Running("files")
  /\ nfile = 0 \/ nfile < MaxFiles
  /\ status' = "error"
  /\ UNCHANGED <<phase, nfile, tables, layout, program, history>>

OpenObject ==
  /\ Running("files") /\ nfile < MaxFiles
  /\ nfile' = nfile + 1
  /\ Enter("sections")
  /\ headers' = Append(headers, <<>>)
  /\ UNCHANGED <<status, tables, layout, program, entries, sources>>

NextHeader(number) ==
  /\ Running("sections") /\ Held(headers) < MaxHeaders
  /\ headers' = [headers EXCEPT ![nfile] = Append(@, number)]
  /\ UNCHANGED <<phase, status, nfile, symbols, relocs, layout, program, entries, sources>>

\* Mutant: only the bytes, not their padding, are counted against the output.
AppendTight ==
  /\ NextHeader(Len(sections))
  /\ Len(sections) < MAX_SECTIONS
  /\ \E size \in Sizes :
       /\ output_size + size <= BUF_SIZE
       /\ sections' = Append(sections, [NoSection EXCEPT !.offset = output_size, !.size = size])
       /\ output_size' = output_size + size

\* SHT_PROGBITS with SHF_ALLOC: appended, and the output padded
AppendSection ==
  /\ NextHeader(Len(sections))
  /\ Len(sections) < MAX_SECTIONS
  /\ \E size \in Sizes :
       /\ RoundUp(output_size + size) <= BUF_SIZE
       /\ sections' = Append(sections, [NoSection EXCEPT !.offset = output_size, !.size = size])
       /\ output_size' = RoundUp(output_size + size)

\* all other sections, .bss among them
SkipSection == NextHeader(-1) /\ UNCHANGED <<sections, output_size>>

\* no limit is checked
SectionOverrun ==
  /\ Running("sections") /\ Held(headers) < MaxHeaders
  /\ \/ Len(sections) = MAX_SECTIONS
     \/ \E size \in Sizes : RoundUp(output_size + size) > BUF_SIZE
  /\ status' = "overrun"
  /\ UNCHANGED <<phase, nfile, tables, layout, program, history>>

\* Without an SHT_SYMTAB symtab_offset is not initialized: what is read then, if
\* anything, are bytes of the object that are no symbol table.
EndSections ==
  /\ Running("sections")
  /\ Enter("symbols")
  /\ \E table \in {<<Unnamed>>, <<>>} : entries' = Append(entries, table)
  /\ UNCHANGED <<status, nfile, tables, layout, program, headers, sources>>

\* where in the object an entry of a table comes from, for the properties only
Source(e, k) == [file |-> nfile, entry |-> e, section |-> k]
-----------------------------------------------------------------------------
\* An entry of the file's symbol table, or what is read in place of one, whose
\* section can be any number: MAX_SECTIONS stands for those too large, and Blank for
\* all without a name, of which nothing else is read.
Entry ==
  IF nfile \in Tables
  THEN {Unnamed}
         \cup [name : Names, value : {0}, section : {SHN_UNDEF, SHN_ABS}]
         \cup [name : Names, value : Values, section : DOMAIN headers[nfile]]
  ELSE {Blank} \cup [name : Names, value : Values \cup {0}, section : 0..MAX_SECTIONS]

\* Mutant: undefined symbols are left out.
KeptDefined(e) == e.name # "" /\ e.section \in 1..(Len(sections) - 1)

\* *name && st_shndx < section_count: the count so far, over all files
Kept(e) == e.name # "" /\ e.section < Len(sections)

CollectSymbol ==
  /\ Running("symbols") /\ Held(entries) - Cardinality(Tables) < MaxEntries
  /\ \E e \in Entry :
       /\ Kept(e) => Len(symbols) < MAX_SYMBOLS
       /\ entries' = [entries EXCEPT ![nfile] = Append(@, e)]
       /\ IF Kept(e)
          THEN /\ symbols' = Append(symbols, e)
               /\ sources' = [sources EXCEPT !.symbols =
                                 Append(@, Source(Len(entries[nfile]), e.section))]
          ELSE UNCHANGED <<symbols, sources>>
  /\ UNCHANGED <<phase, status, nfile, sections, output_size, relocs, layout, program, headers>>

SymbolOverrun ==
  /\ Running("symbols") /\ Held(entries) - Cardinality(Tables) < MaxEntries
  /\ Len(symbols) = MAX_SYMBOLS /\ \E e \in Entry : Kept(e)
  /\ status' = "overrun"
  /\ UNCHANGED <<phase, nfile, tables, layout, program, history>>

EndSymbols ==
  /\ Running("symbols")
  /\ Enter("relocs")
  /\ UNCHANGED <<status, nfile, tables, layout, program, history>>

\* a field of any section that has a relocation section; symbol numbers count
\* all entries of the file
CollectReloc ==
  /\ Running("relocs") /\ Len(relocs) < MAX_RELOCS
  /\ \E k \in DOMAIN headers[nfile], e \in 0..(Len(entries[nfile]) - 1),
        o \in Values, t \in {"64", "PC32", "other"} :
       /\ relocs' = Append(relocs, [offset |-> o, type |-> t, symbol |-> e, section |-> k])
       /\ sources' = [sources EXCEPT !.relocs = Append(@, Source(e, k))]
  /\ UNCHANGED <<phase, status, nfile, sections, output_size, symbols, layout, program,
                 headers, entries>>

RelocOverrun ==
  /\ Running("relocs") /\ Len(relocs) = MAX_RELOCS
  /\ headers[nfile] # <<>> /\ entries[nfile] # <<>>
  /\ status' = "overrun"
  /\ UNCHANGED <<phase, nfile, tables, layout, program, history>>

EndObject ==
  /\ Running("relocs")
  /\ Enter("files")
  /\ UNCHANGED <<status, nfile, tables, layout, program, history>>

-----------------------------------------------------------------------------
(* main(), apply_relocations() *)

StartLayout ==
  /\ Running("files")
  /\ Enter("layout") /\ at' = 1 /\ current_vaddr' = PAGE_SIZE
  /\ UNCHANGED <<status, nfile, tables, program, history>>

\* Mutant: the addresses are not rounded up as the output was.
PlaceUnpadded ==
  /\ Running("layout") /\ at \in DOMAIN sections
  /\ sections' = [sections EXCEPT ![at].addr = current_vaddr]
  /\ current_vaddr' = current_vaddr + sections[at].size
  /\ at' = at + 1
  /\ UNCHANGED <<phase, status, nfile, output_size, symbols, relocs, program, history>>

PlaceSection ==
  /\ Running("layout") /\ at \in DOMAIN sections
  /\ sections' = [sections EXCEPT ![at].addr = current_vaddr]
  /\ current_vaddr' = RoundUp(current_vaddr + sections[at].size)
  /\ at' = at + 1
  /\ UNCHANGED <<phase, status, nfile, output_size, symbols, relocs, program, history>>

StartRelocs ==
  /\ Running("layout") /\ at > Len(sections)
  /\ Enter("apply") /\ at' = 1
  /\ UNCHANGED <<status, nfile, tables, current_vaddr, program, history>>

\* What is written, and where.  Addends are left out.
Patch(r) ==
  LET target == AddressOf(SymbolAt(r.symbol))
      section == SectionAt(r.section)
  IN [place |-> section.offset + r.offset,
      width |-> IF r.type = "64" THEN 8 ELSE 4,
      value |-> IF r.type = "64" THEN target ELSE target - (section.addr + r.offset)]

\* types the linker does not know are passed over
Apply ==
  /\ Running("apply") /\ at \in DOMAIN relocs
  /\ patches' = IF relocs[at].type = "other" THEN patches ELSE Append(patches, Patch(relocs[at]))
  /\ at' = at + 1
  /\ UNCHANGED <<phase, status, nfile, tables, current_vaddr, entry, second, history>>

\* find_symbol("_start"): the first entry of the name
Starts == {i \in DOMAIN symbols : symbols[i].name = "_start"}
First(S) == CHOOSE i \in S : \A j \in S : i <= j

NoStart ==
  /\ Running("apply") /\ at > Len(relocs)
  /\ Starts = {}
  /\ status' = "error"
  /\ UNCHANGED <<phase, nfile, tables, layout, program, history>>

\* write_program_headers(): one page for data, from where the code ends
SecondHeader == PAGE_SIZE + output_size .. 2 * PAGE_SIZE + output_size - 1

\* the program is written, or its file cannot be created
WriteProgram ==
  /\ Running("apply") /\ at > Len(relocs)
  /\ Starts # {}
  /\ \/ /\ status' = "done"
        /\ entry' = AddressOf(symbols[First(Starts)])
        /\ second' = SecondHeader
     \/ status' = "error" /\ UNCHANGED <<entry, second>>
  /\ UNCHANGED <<phase, nfile, tables, layout, patches, history>>

-----------------------------------------------------------------------------
Init ==
  /\ phase = "files" /\ status = "run" /\ nfile = 0
  /\ sections = <<>> /\ output_size = 0 /\ symbols = <<>> /\ relocs = <<>>
  /\ at = 0 /\ current_vaddr = PAGE_SIZE
  /\ patches = <<>> /\ entry = 0 /\ second = {}
  /\ headers = <<>> /\ entries = <<>> /\ sources = [symbols |-> <<>>, relocs |-> <<>>]

ReadObjects == Fail \/ OpenObject \/ AppendSection \/ SkipSection \/ SectionOverrun
               \/ EndSections \/ CollectSymbol \/ SymbolOverrun \/ EndSymbols
               \/ CollectReloc \/ RelocOverrun \/ EndObject
LayOut == StartLayout \/ PlaceSection \/ StartRelocs
Link == Apply \/ NoStart \/ WriteProgram
Stopped == status # "run" /\ UNCHANGED vars

Next == ReadObjects \/ LayOut \/ Link \/ Stopped

Spec == Init /\ [][Next]_vars

-----------------------------------------------------------------------------
(* Properties *)

\* Types of the linker's tables.  Every number of bytes appended is a multiple of
\* the alignment, and the bytes stay within the output.  No symbol names a section that
\* is not there, though the test of its number is made while the table still grows.
TypeOK ==
  /\ phase \in {"files", "sections", "symbols", "relocs", "layout", "apply"}
  /\ status \in {"run", "done", "error", "overrun"}
  /\ nfile \in 0..MaxFiles
  /\ sections \in Seq([offset : Nat, size : Sizes, addr : Nat]) /\ Len(sections) <= MAX_SECTIONS
  /\ output_size \in 0..BUF_SIZE /\ output_size % ALIGN = 0
  /\ symbols \in Seq([name : Names, value : Values \cup {0}, section : Nat])
  /\ \A i \in DOMAIN symbols : symbols[i].section < Len(sections)
  /\ relocs \in Seq([offset : Values, type : {"64", "PC32", "other"}, symbol : Nat, section : Int])
  /\ Len(symbols) <= MAX_SYMBOLS /\ Len(relocs) <= MAX_RELOCS
  /\ at \in Nat /\ current_vaddr \in Nat
  /\ patches \in Seq([place : Nat, width : {4, 8}, value : Int]) /\ Len(patches) <= Len(relocs)
  /\ entry \in Nat /\ second \in SUBSET Nat
  /\ headers \in Seq(Seq(Int)) /\ Len(headers) = nfile
  /\ entries \in Seq(Seq([name : Names \cup {""}, value : Values \cup {0}, section : Nat]))
  /\ Len(sources.symbols) = Len(symbols) /\ Len(sources.relocs) = Len(relocs)

\* main() lays the sections out a second time, without looking at where
\* read_object() put them.  Both agree: the byte at position p of the output is
\* mapped by the one header to PAGE_SIZE + p, which is the address its section was
\* given, and no two sections share a byte.
FileIsMemory ==
  phase = "apply" => \A i \in DOMAIN sections :
    /\ sections[i].addr = PAGE_SIZE + sections[i].offset
    /\ \A j \in 1..(i - 1) : sections[j].offset + sections[j].size <= sections[i].offset

\* find_symbol() does not tell a reference from a definition: when the first file
\* mentions _start before anything defines it, the program starts at its first byte,
\* wherever _start is.
ReferenceWins ==
  status = "done" =>
    \A e \in DOMAIN entries[1] :
      /\ entries[1][e] = [Unnamed EXCEPT !.name = "_start"]
      /\ \A d \in 1..(e - 1) : entries[1][d].name # "_start"
      /\ \E k \in DOMAIN headers[1] : headers[1][k] >= 0
      => entry = PAGE_SIZE

\* Numbers are used as the object has them, but the linker does not number the empty
\* header, nor entries without a name.  Whatever sections the first file has, none of
\* its symbols and relocations is given its own section; and behind the table's empty
\* entry none of its relocations finds the symbol it names.
NumbersShifted ==
  /\ \A i \in DOMAIN symbols : LET s == sources.symbols[i] IN
       s.file = 1 /\ s.section \in DOMAIN headers[1] => symbols[i].section # headers[1][s.section]
  /\ \A i \in DOMAIN relocs : LET r == sources.relocs[i] IN
       r.file = 1 => /\ relocs[i].section # headers[1][r.section]
                     /\ \A j \in DOMAIN symbols : LET s == sources.symbols[j] IN
                          s.file = 1 /\ s.entry = r.entry /\ entries[1][1] = Unnamed
                            => relocs[i].symbol # j - 1

\* no two entries of the first file's table have one name
NamesOnce == \A d, e \in DOMAIN entries[1] :
               entries[1][d].name = entries[1][e].name => d = e \/ entries[1][e].name = ""

\* LINKERS_README.md:19 and :152, "Handles basic x64 relocations" and "Basic symbol
\* resolution": where one object is linked that has a symbol table, a relocation
\* reaches the symbol it names, at its value in the section that symbol is defined in.
SymbolsReached ==
  nfile = 1 /\ 1 \in Tables /\ NamesOnce =>
    \A i \in DOMAIN relocs :
      LET e == entries[1][sources.relocs[i].entry + 1] IN
        e.name # "" /\ e.section \in DOMAIN headers[1] /\ headers[1][e.section] >= 0
          => AddressOf(SymbolAt(relocs[i].symbol))
               = SectionAt(headers[1][e.section]).addr + e.value

PageOf(a) == a \div PAGE_SIZE

\* LINKERS_README.md:150, "Two PT_LOAD segments (code and data)": the loader maps whole
\* pages, the second header's last and without the right to execute, so none of them
\* is the page the program starts on.
EntryMapped == PageOf(entry) \notin {PageOf(a) : a \in second}

\* Of every program written, one of the two claims can be made at least.  A link that
\* breaks this breaks each of them: neither holds of the linker.
SomeClaimHolds == status = "done" => SymbolsReached \/ EntryMapped
=============================================================================
