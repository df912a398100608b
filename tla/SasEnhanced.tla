---------------------------- MODULE SasEnhanced ----------------------------
(***************************************************************************)
(* The enhanced assembler sas_enhanced.c: one pass over the lines, which   *)
(* fills sections, symbols and relocations, then writes the object file.   *)
(*                                                                         *)
(* All sections live in one array, output.  What is kept of a byte there   *)
(* is whose it is.  A line is an action; a label and an instruction on one *)
(* line are two of them, and instructions differ only in their length and  *)
(* in whether they name a symbol.                                          *)
(***************************************************************************)
EXTENDS Integers, Sequences

CONSTANTS
  Names,              \* symbols of the source
  SectionNames, Text, \* section names, and ".text", which is there from the start
  Lengths,            \* bytes emitted by instructions and data without symbols
  Alignments,         \* arguments of .align: powers of 2, and 0
  MaxLines,           \* bound: lines of the file
  OutputSize, MaxSections, MaxSymbols, MaxRelocs

ASSUME NamesAssumption == Text \in SectionNames
ASSUME BoundsAssumption ==
  /\ Lengths \subseteq Nat
  /\ Alignments \subseteq Nat /\ \A a \in Alignments : a = 0 \/ \E k \in 0..30 : a = 2^k
  /\ MaxLines \in Nat /\ OutputSize \in Nat /\ MaxSections \in Nat \ {0}
  /\ MaxSymbols \in Nat /\ MaxRelocs \in Nat

Field == 4            \* bytes of a .dword, or of a call that its relocation fills in

VARIABLES
  sections,           \* name, start (section_data) and size of every section
  current,            \* current_section
  output,             \* the section and offset stored last at each place
  output_size,
  symbols, relocs,
  lead,               \* bytes before the field of a call: 1 (x64), 0 (is_arm64)
  nlines, status,     \* lines read; "run", "done", "failed", "overrun" (past an array)
  exported, words,    \* history: the names in .global, the symbols in .dword
  returned,           \* history: a section was left and entered again
  relabelled          \* history: names given a value when they were in the table

store == <<sections, output, output_size>>
history == <<exported, words, returned, relabelled>>
vars == <<store, current, symbols, relocs, lead, nlines, status, history>>

Area == 0..(OutputSize - 1)
Free == [section |-> 0, offset |-> 0]

-----------------------------------------------------------------------------
(* Helpers *)

\* The next k bytes of the current section are places of output.
Fits(k) == k = 0 \/ sections[current].start + sections[current].size + k <= OutputSize

\* Mutant: the size is advanced before the byte is stored.
EmitOneLate(k) ==
  LET s == sections[current]
      from == s.start + s.size + 1
  IN /\ Fits(k)
     /\ output' = [p \in Area |-> IF from <= p /\ p < from + k
                                  THEN [section |-> current, offset |-> p - s.start]
                                  ELSE output[p]]
     /\ sections' = [sections EXCEPT ![current].size = s.size + k]
     /\ output_size' = output_size + k

\* emit_byte(), k times
Emit(k) ==
  LET s == sections[current]
      from == s.start + s.size
  IN /\ Fits(k)
     /\ output' = [p \in Area |-> IF from <= p /\ p < from + k
                                  THEN [section |-> current, offset |-> p - s.start]
                                  ELSE output[p]]
     /\ sections' = [sections EXCEPT ![current].size = s.size + k]
     /\ output_size' = output_size + k

\* .align emits while size & (align - 1) is not 0: for a power of 2, up to the next
\* multiple; for 0 without end, unless the size is 0.
Ends(align) == align # 0 \/ sections[current].size = 0
Padding(align) == IF align = 0 THEN 0
                  ELSE (align - (sections[current].size % align)) % align

\* find_section(), find_symbol()
IsSection(name) == \E i \in DOMAIN sections : sections[i].name = name
IsSymbol(n) == \E i \in DOMAIN symbols : symbols[i].name = n

\* add_symbol(name, 0, -1, ...): an entry for the name, whatever the type given
WithSymbol(n) ==
  IF IsSymbol(n) THEN symbols
  ELSE Append(symbols, [name |-> n, value |-> 0, section |-> 1,
                        type |-> "local", defined |-> FALSE])
Index(n) == CHOOSE i \in DOMAIN WithSymbol(n) : WithSymbol(n)[i].name = n

SymbolFits(n) == IsSymbol(n) \/ Len(symbols) < MaxSymbols

\* add_symbol(name, value, current_section, SYM_LOCAL)
AddSymbol(n, v) ==
  /\ SymbolFits(n)
  /\ symbols' = [WithSymbol(n) EXCEPT ![Index(n)] =
                   [name |-> n, value |-> v, section |-> current,
                    type |-> "local", defined |-> TRUE]]
  /\ relabelled' = IF IsSymbol(n) THEN relabelled \cup {n} ELSE relabelled
  /\ UNCHANGED <<exported, words, returned>>

NextLine == status = "run" /\ nlines < MaxLines /\ nlines' = nlines + 1

-----------------------------------------------------------------------------
(* Lines *)

Label(n) ==
  /\ NextLine
  /\ AddSymbol(n, sections[current].size)
  /\ UNCHANGED <<store, current, relocs, lead, status>>

\* .equ and .set, to a number or to $
Equ(n) ==
  /\ NextLine
  /\ \E v \in {0, sections[current].size} : AddSymbol(n, v)
  /\ UNCHANGED <<store, current, relocs, lead, status>>

\* .text, .data, .bss, .section: back to a section there is
SwitchBack(name) ==
  /\ NextLine /\ IsSection(name)
  /\ \E i \in DOMAIN sections :
       sections[i].name = name /\ (\A j \in 1..(i - 1) : sections[j].name # name)
                               /\ current' = i
  /\ returned' = (returned \/ current' # current)
  /\ UNCHANGED <<store, symbols, relocs, lead, status, exported, words, relabelled>>
\* Mutant: a new section starts behind the bytes of the current one alone.
SwitchNewBehind(name) ==
  /\ NextLine /\ ~IsSection(name) /\ Len(sections) < MaxSections
  /\ sections' = Append(sections, [name |-> name, size |-> 0,
                                   start |-> sections[current].size])
  /\ current' = Len(sections) + 1
  /\ UNCHANGED <<output, output_size, symbols, relocs, lead, status, history>>

\* a section new in the file starts where the output ends now
SwitchNew(name) ==
  /\ NextLine /\ ~IsSection(name) /\ Len(sections) < MaxSections
  /\ sections' = Append(sections, [name |-> name, start |-> output_size, size |-> 0])
  /\ current' = Len(sections) + 1
  /\ UNCHANGED <<output, output_size, symbols, relocs, lead, status, history>>

GlobalName(n) ==
  /\ NextLine /\ SymbolFits(n)
  /\ symbols' = [WithSymbol(n) EXCEPT ![Index(n)].type = "global"]
  /\ exported' = exported \cup {n}
  /\ UNCHANGED <<store, current, relocs, lead, status, words, returned, relabelled>>

\* Mutant: .extern writes the entry anew, as a label does.
ExternResets(n) ==
  /\ NextLine /\ SymbolFits(n)
  /\ symbols' = [WithSymbol(n) EXCEPT ![Index(n)] =
                   [name |-> n, value |-> 0, section |-> 1, type |-> "local", defined |-> FALSE]]
  /\ UNCHANGED <<store, current, relocs, lead, status, history>>

ExternName(n) ==
  /\ NextLine /\ SymbolFits(n)
  /\ symbols' = WithSymbol(n)
  /\ UNCHANGED <<store, current, relocs, lead, status, history>>

\* instructions, data and .space without symbols
Bytes(k) ==
  /\ NextLine
  /\ Emit(k)
  /\ UNCHANGED <<current, symbols, relocs, lead, status, history>>

Align(align) ==
  /\ NextLine /\ Ends(align)
  /\ Emit(Padding(align))
  /\ UNCHANGED <<current, symbols, relocs, lead, status, history>>

\* .dword n: the value n has now, 0 if none (known), and no relocation
HasValue(n) == \E i \in DOMAIN symbols : symbols[i].name = n /\ symbols[i].defined
DataWord(n) ==
  /\ NextLine
  /\ Emit(Field)
  /\ words' = words \cup {[name |-> n, known |-> HasValue(n),
                           value |-> IF HasValue(n) THEN symbols[Index(n)].value ELSE 0]}
  /\ UNCHANGED <<current, symbols, relocs, lead, status, exported, returned, relabelled>>

\* Mutant: the relocation is made after the field is emitted.
CallLate(n) ==
  /\ NextLine /\ SymbolFits(n) /\ Len(relocs) < MaxRelocs
  /\ symbols' = WithSymbol(n)
  /\ relocs' = Append(relocs, [symbol |-> Index(n), section |-> current,
                               offset |-> sections[current].size + lead + Field])
  /\ Emit(lead + Field)
  /\ UNCHANGED <<current, lead, status, history>>

\* Mutant: the symbol called is not entered into the table.
CallUnentered(n) ==
  /\ NextLine /\ SymbolFits(n) /\ Len(relocs) < MaxRelocs
  /\ relocs' = Append(relocs, [symbol |-> Index(n), section |-> current,
                               offset |-> sections[current].size + lead])
  /\ Emit(lead + Field)
  /\ UNCHANGED <<current, symbols, lead, status, history>>

\* call, jmp, bl and b
Call(n) ==
  /\ NextLine /\ SymbolFits(n) /\ Len(relocs) < MaxRelocs
  /\ symbols' = WithSymbol(n)
  /\ relocs' = Append(relocs, [symbol |-> Index(n), section |-> current,
                               offset |-> sections[current].size + lead])
  /\ Emit(lead + Field)
  /\ UNCHANGED <<current, lead, status, history>>

\* .arch, to the target there is or the other one
Arch ==
  /\ NextLine
  /\ lead' \in {0, 1}
  /\ UNCHANGED <<store, current, symbols, relocs, status, history>>

\* No limit is checked; a line that needs more writes past an array.
NeedsMore ==
  \/ Len(sections) = MaxSections /\ \E name \in SectionNames : ~IsSection(name)
  \/ Names # {} /\ Len(relocs) = MaxRelocs
  \/ \E n \in Names : ~SymbolFits(n)
  \/ \E k \in Lengths \cup {Field, lead + Field} : ~Fits(k)
  \/ \E a \in Alignments : ~Ends(a) \/ ~Fits(Padding(a))
Overrun ==
  /\ NextLine /\ NeedsMore
  /\ status' = "overrun"
  /\ UNCHANGED <<store, current, symbols, relocs, lead, history>>

\* A data directive reads values until its line ends.  eval_expr() does not get past
\* ; # : [ ] and ): with one of them behind the values, as where a comment begins,
\* zeros are emitted past the end of output.
DataUnread ==
  /\ NextLine
  /\ status' = "overrun"
  /\ UNCHANGED <<store, current, symbols, relocs, lead, history>>

\* The object file is written, unless creat() fails.
EndOfFile ==
  /\ status = "run"
  /\ status' \in {"done", "failed"}
  /\ UNCHANGED <<store, current, symbols, relocs, lead, nlines, history>>

-----------------------------------------------------------------------------
Init ==
  /\ sections = <<[name |-> Text, start |-> 0, size |-> 0]>> /\ current = 1
  /\ output = [p \in Area |-> Free] /\ output_size = 0
  /\ symbols = <<>> /\ relocs = <<>>
  /\ lead \in {0, 1} /\ nlines = 0 /\ status = "run"
  /\ exported = {} /\ words = {} /\ returned = FALSE /\ relabelled = {}

SymbolLines == \E n \in Names : Label(n) \/ Equ(n) \/ GlobalName(n) \/ ExternName(n)
SectionLines == \E name \in SectionNames : SwitchBack(name) \/ SwitchNew(name)
CodeLines == \/ \E k \in Lengths : Bytes(k)
             \/ \E align \in Alignments : Align(align)
             \/ \E n \in Names : DataWord(n) \/ Call(n)
             \/ Arch \/ DataUnread
Stopped == status # "run" /\ UNCHANGED vars

Next == SymbolLines \/ SectionLines \/ CodeLines \/ Overrun \/ EndOfFile \/ Stopped

Spec == Init /\ [][Next]_vars

-----------------------------------------------------------------------------
(* Properties *)

\* Types of the assembler's tables.
TypeOK ==
  /\ sections \in Seq([name : SectionNames, start : Nat, size : Nat])
  /\ current \in DOMAIN sections
  /\ output \in [Area -> [section : Nat, offset : Nat]] /\ output_size \in Nat
  /\ symbols \in Seq([name : Names, value : Nat, section : Nat \ {0},
                      type : {"local", "global"}, defined : BOOLEAN])
  /\ relocs \in Seq([offset : Nat, symbol : DOMAIN symbols, section : DOMAIN sections])
  /\ lead \in {0, 1} /\ nlines \in 0..MaxLines
  /\ status \in {"run", "done", "failed", "overrun"}
  /\ exported \subseteq Names
  /\ words \subseteq [name : Names, known : BOOLEAN, value : Nat]
  /\ returned \in BOOLEAN /\ relabelled \subseteq Names

Places(i) == sections[i].start..(sections[i].start + sections[i].size - 1)
Intact(i) == \A p \in Places(i) :
               output[p] = [section |-> i, offset |-> p - sections[i].start]

\* Bytes are lost in one way only: a section whose range in output meets no
\* other section's range holds its own bytes at its own offsets (emit_byte()).
DamageIsOverlap ==
  \A i \in DOMAIN sections :
    (\A j \in DOMAIN sections \ {i} : Places(i) \cap Places(j) = {}) => Intact(i)

\* A source that finishes each section before it enters another loses nothing,
\* however many sections it has and whatever it emits (add_section() and
\* emit_byte() together): every section holds its own bytes.
OneVisitIntact == ~returned => \A i \in DOMAIN sections : Intact(i)

\* The linker patches four bytes at each relocation: they are bytes of its
\* section, and no two relocations share any.
RelocsApart ==
  \A i \in DOMAIN relocs :
    /\ relocs[i].offset + Field <= sections[relocs[i].section].size
    /\ \A j \in 1..(i - 1) : relocs[j].section = relocs[i].section
                               => relocs[j].offset + Field <= relocs[i].offset

\* add_symbol() at a label makes the symbol local again.  What .global exports is
\* global in the object file if its label, where it has one, came before anything
\* else that names it; for other symbols it is not.
ExportKept ==
  \A i \in DOMAIN symbols :
    /\ symbols[i].type = "global" => symbols[i].name \in exported
    /\ symbols[i].name \in exported \ relabelled => symbols[i].type = "global"

\* There is no second pass: .dword of a symbol stores the value it has when the line
\* is read, and makes no relocation.  A word read before its symbol has a value holds
\* 0, whatever the symbol is given later; one read after it holds the value the symbol
\* has in the object file, unless the symbol is given another.
WordsStand ==
  \A w \in words :
    /\ ~w.known => w.value = 0
    /\ w.known /\ w.name \notin relabelled
         => \E i \in DOMAIN symbols : symbols[i].name = w.name /\ symbols[i].defined
                                      /\ symbols[i].value = w.value

\* Both together: the order of a symbol's lines decides what the object file holds.
FirstLabelStands == ExportKept /\ WordsStand

-----------------------------------------------------------------------------
(* What the documents say *)

\* ".dword label_address ; Symbol references" (SAS_COMPARISON.md:103): a word that names
\* a label holds the label's value.  A word in front of its label does not
\* (eval_primary(), one pass).
WordsResolved ==
  \A w \in words, i \in DOMAIN symbols :
    symbols[i].name = w.name /\ symbols[i].defined => w.value = symbols[i].value

\* ".global symbol - Export symbol" (SAS_ENHANCED_README.md:78): what is exported is
\* global.  A label behind its .global makes it local again (add_symbol()).
ExportsGlobal ==
  \A i \in DOMAIN symbols : symbols[i].name \in exported => symbols[i].type = "global"

\* "Can switch between sections" (SAS_COMPARISON.md:134): a section entered again goes on
\* where it stopped, and every section keeps its bytes.  The bytes emitted after a
\* return run into the section behind (emit_byte()).
SwitchKeeps == \A i \in DOMAIN sections : Intact(i)

\* Of every object file written, one of the three can be said at least.  A source that
\* breaks this breaks each of them: none of these claims holds of the assembler.
SomeClaimHolds == status = "done" => WordsResolved \/ ExportsGlobal \/ SwitchKeeps
=============================================================================
