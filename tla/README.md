# A verification development for the Small-C toolchain

The repository is a family of small sequential C programs that form a
toolchain: a preprocessor expands a source file, a compiler turns it into
assembly text, an assembler into an object file, a linker into an executable,
and the program runs on a small runtime library. Every program keeps its state
in global arrays with fixed limits. Nothing runs concurrently and nothing
survives a run; what is hard are long sequences of legal inputs, recursion over
shared tables, limits, and the points where two pieces of code must agree
(who reads the comma, who pops the stack, whose index this is).

## Inventory

| Component | Source | State | Operations | What makes it correct |
|---|---|---|---|---|
| Basic compiler | `scc.c` | lookahead token, symbol tables `globals`/`locals`, stack offset `sp`, label counter `lab`, loop stack `breaklab`/`contlab`/`wsp`, emitted text, and the C call stack of the recursive descent | `gettoken`, `program`, `function`, `statement`, the expression routines, `add_symbol`, `push`/`pop`, `emit_*` | `break`/`continue` use the innermost loop's labels; every jump has one target in its own function; pushes and pops pair up; compilation ends |
| Enhanced compiler | `scc_enhanced.c` | the same, plus types, parameters, a function table, `tokstr` and a saved input position | the same, plus `parameter_list`, sized and initialised declarations, `for`, `&&`/`\|\|` with jumps, compound assignment, calls in `postfix` | as above; one entry per function name; the saved position of a `for` increment is its start; a call is compiled as a call |
| Basic preprocessor | `spp.c` | definitions table, include stack | `#include`, `#define`, substitution | a name is replaced by its definition |
| Enhanced preprocessor | `sppe.c` | definitions table with parameters, include stack, `ifstack`/`skipping`, line buffer and `continuation` flag | lines and directives, macro expansion, end of file | a line is output exactly if all conditionals around it hold; `#undef` removes; a line belongs to one file |
| Simple assembler | `sas.c` | symbols, relocations, code buffer, `pc`, `pass`, last token and number | two passes over the lines | both passes agree on every value; relocations are the placeholders |
| Enhanced assembler | `sas_enhanced.c` | sections that share one output buffer, symbols, relocations | labels, directives, instructions, object output | bytes of one section never overwrite another's; `.global` symbols stay global |
| Full x64 assembler | `sas_full_x64.c` | the two passes of `sas`, with encoding tables | as above | as above |
| Enhanced ELF linker | `sld_enhanced.c` | merged sections, global symbols, relocations, addresses, program headers | read object, lay out, relocate, write | merged sections keep their bytes; sections have addresses of their own and lie in the file where they are mapped; a reference gets the address of its symbol |
| Simple Linux linkers | `sld_linux_x64.c`, `sld_linux_arm64.c` | appended sections, symbols, relocations | the same | the file is the memory; numbers in an object lead to its own sections and symbols; the program starts at `_start` |
| PE linkers | `sld_win_x64.c`, `sld_win_arm64.c`, `sld_win_enhanced.c` | the same for COFF | the same | the same, with RVAs |
| Runtime | `runtime.c`, `syscall_*.s` | a heap pointer, otherwise none | strings, conversions, system calls | `atoi` inverts `itoa` |
| Programs, scripts | `test*.c`, `calculator.c`, ... , `*.sh`, `Makefile` | - | inputs and build steps | - |

Interaction is by files only: each stage reads what the one before wrote. Inside
a stage the parts interact through shared tables: the compiler's statement and
expression routines through `token`, `sp`, `lab` and the loop stack; the
preprocessor's directives through `skipping` and the definitions; the linker's
three passes through the section, symbol and relocation tables.

## Modules

### SccParser: the basic compiler

The recursive descent is read as a stack machine. `ctl` is the C call stack: a
sequence of *pieces*, the head being the straight-line code that runs next and
the others the return points of the active calls, the innermost first. A piece
carries what the C routine keeps in local variables across the call: the two
labels of an `if` or `while` (`l1`, `l2`), the argument count of a call (`n`),
a declared name (`arg`). Every action runs one piece, reads at most one token,
and replaces the head by the pieces the code goes on with; `expect` is the
`if (token != T) error(...); token = gettoken();` that ends most of them.

| Variable | In scc.c |
|---|---|
| `token`, `ntok` | `token`/`tokstr`; how much of the input is read |
| `status` | running, returned from `program()`, `exit(1)` in `error()`, or a write past the loop stack |
| `ctl` | the C call stack |
| `globals`, `locals` | the symbol tables with `nglobals`, `nlocals` |
| `sp`, `lab` | stack offset and next label |
| `wsp`, `breaklab`, `contlab` | the loop stack |
| `code` | function entries, labels and jumps in the order emitted, each with the `sp` of its emission |

The input is any sequence of tokens, chosen one by one, so one run covers every
file of the given length over the given tokens. An identifier token is its own
name. A `T_NUMBER` is zero or not, which is all a declarator tells apart.

Two fields are there for the properties alone: `slot` in a `whileEnd` piece
(the value of `wsp` when the loop was entered) and the token in a `callMore`
piece. No guard reads them.

When a `while` opens with `MAXWHILE` loops active, the code reads the next token,
writes past `breaklab` and `contlab` and goes on with `wsp + 1`. What is hit depends
on the layout of the build, so the model stops there with status `overrun`; no
property, `TypeOK` included, says anything of such a run from that write on.

Not modelled: the text of instructions that move data, string literals and the
prolog, and the argument parsing of `main()`; no branch of the compiler depends
on them.

Properties:

- `InnermostLoop`: `break`/`continue` get the labels of the innermost loop under
  compilation, none outside loops; the overrun happens with `MAXWHILE` loops
  open and not before.
- `JumpsLand`: no label is emitted twice; a jump's label is in its own function
  or owed by an active call of `statement()`.
- `SingleEntry`: nothing jumps into the middle of a loop; conditional jumps go
  forward.
- `StackBalanced`: a jump and its label see the same number of pushed
  temporaries, and between statements there are none.
- `Halts`: compilation ends on every file, with one exception the code has: a
  file that ends inside a parameter list.
- `OwnNumbers`: symbols and labels draw from one counter; no two symbols have the
  same number, and none has the number of a label that is emitted.
- `TypeOK`, with the limits of the symbol tables: `add_symbol()` checks before it
  writes.

Two claims of the documents are refuted, as findings of `scc_test`:

- `LocalsInFrame` (COMPARISON.md: local variables; scc.c: "stack offset for locals").
  `add_symbol()` uses the local table if it is not empty, and nothing makes it
  non-empty: every variable becomes a global.
- `NextArgument` (test.c: `min(10, 20)`). `primary()` reads the comma behind an
  argument inside the loop and then tests for a comma (`CallArg`, `CallMore`):
  `f(a,)` is compiled, `f(a, b)` and `f(a,, b)` are errors.

`scc.c` has the token `for` and no case for it in `statement()`, so the model, like
the code, takes it for the beginning of an expression and rejects it (COMPARISON.md
ticks `for` here too). `StackBalanced` holds of the programs the compiler accepts,
none of which has a call with two arguments.

### MCScc

The small instances of `SccParser`. Every file is drawn from one of a few lists of
tokens (`question`), each with a length of its own: few kinds of tokens afford longer
files. All properties are checked on the files of all lists of a run.

| Run | List | Tokens, bounds | Why enough |
|---|---|---|---|
| `scc` | `control` | 15 of 12 kinds, `MAXWHILE` 2 | `f(){while(0)while(0)while(` is 14, `f(){while(0){while(0);break` is 15: two nested loops, the overrun, `break` after an inner loop has closed, an `if`/`else` within a `while`, and two functions |
| | `expressions` | 11 of 16 kinds, ARM64 word | calls with no argument, one, and one with a trailing comma, nested calls, subscripts, assignments, an `if` around them |
| | `files` | 10 of 23 kinds: declarations and one of each statement; tables of 1 and 2 | every loop of the parser is entered and files end in each of them; two globals, a variable declared in a body and a label; the error exits of the table checks |
| `scc_test` | `test` | 12 of 9 kinds | `f(){int v;f(v,v` is 12 |

`scc_test` checks `SomeClaimHolds`, that of every file one of the two claims can be
made: its counterexample is one file that breaks both.

Fairness: `WF_vars(Next)`. The compiler is one thread of control that runs until
it exits; reading its input does not block forever.

### SccParserProofs

For every token set, every table size, every number of tokens and every nesting:
`TypeCorrect` (`TypeOK`), `LoopStackCorrect` (`InnermostLoop`), `NumbersCorrect`
(`OwnNumbers`), `JumpsCorrect` (`JumpsLand`), `EntryCorrect` (`SingleEntry`) and
`BalanceCorrect` (`StackBalanced`). None is inductive alone. The
invariant for the first two (`Inv`) adds:

- `LoopStack`: the active `while` statements and the used part of the loop stack
  correspond. Of two active loops the inner has the higher `slot`, every slot
  below `wsp` belongs to an active loop, and the slot holds that loop's labels.
  It is needed because closing a loop makes the one outside it innermost, and
  only its stored slot says that its labels are still on top;
- `Bottom`: the last piece of the call stack is `start` or `program` and no
  other piece is, so the stack is never empty while the compiler runs;
- an overrun leaves `wsp = MAXWHILE`, as the write itself is the last step modelled.

Most actions replace the head of `ctl` by pieces that are not loops and touch no
loop variable; the lemma `PlainStep` (with `GotoLoops`, `GotoBottom`,
`OperandPlain`) settles these at once, and the proof of a group of actions only
shows that each is such a step. `WhileHead` and `WhileEnd`, which push and pop,
have lemmas of their own. The assumptions used are those `SccParser` states of
its constants.

`LabelInv` carries `OwnNumbers`, `JumpsLand` and `SingleEntry`, which need each other:
variables and labels draw their numbers from one counter. It says

- `Labelling` (from `CompilerLemmas`): every number used is below `lab`; a number that
  is a variable's, one that was emitted as a label and one that a piece of the stack
  still owes (the end of a loop, of an `if` or of its `else`) are different; every
  jump's label is emitted in its function, or owed and the function is the last;
  jumps before the head of an open loop go to older labels, labels behind it are
  younger, and no such head lies inside a loop that is closed;
- `Nested`: the labels of inner statements are the higher ones, so what one piece owes
  no other does; the test of an open loop jumps to the end its piece owes; no
  statement is open below the pieces of `program()`, so nothing is owed when a
  function is entered;
- `locals` is empty, and two globals have two numbers.

`DepthInv` carries `StackBalanced`: `-sp` is the sum of the words the pieces on the
C stack stand for, a `pop` for one and a piece of a call for one for each argument
pushed, and it is 0 where a statement begins. The sum is a function on the positions
of the stack, given by what it does at each (`Sums`), so no recursion is involved.

That the pops of a call undo its pushes needs one more fact, since the code pops
nothing for a call with more arguments than registers. `CallInv` gives it: no piece
of a call counts a second argument, except one that waits for the second argument
itself, and that one is on the stack only while `token` is still the comma behind
the first and the compiler is on its way from `expression()` to `primary()`, which
rejects a comma. So a call is closed with one argument at most, and one register is
enough (`BoundsAssumption`; the code has six or eight). `BalanceCorrect` therefore
holds for every file.

Only model-checked: `Halts` (liveness, beyond the prover).

### CompilerLemmas

What the proofs about both compilers rest on. The first part is about a sequence
whose head is replaced by other elements, as every action does with `ctl`: what
is true of the new elements and of the tail is true of the whole. The second is a
theory of labels apart from any compiler: for a code sequence `c`, a counter, sets
of labels owed, of open heads and of numbers taken by variables, `Labelling` says
what is consistent, and one lemma for each thing a compiler does (draw numbers, emit the
head of a loop, a jump forward, a jump back, a label that was owed, any other
instruction, or nothing, and be done with a loop) says that it stays so. The proof
about a compiler then shows, action by action, which of these steps it is.

### Sppe and CondSpec: the enhanced preprocessor

`Sppe` models `processfile()` and `processline()`. An action reads and splices a
physical line, ends a file, or obeys one directive of a complete line. A line is
a kind and the name in it; files may hold any lines and end anywhere, so a line
is chosen when it is read and one run covers every tree of files of the given
number of lines.

| Variable | In sppe.c |
|---|---|
| `files` | `includefd`, `includelevel`; each file opened gets a number |
| `linebuf`, `continuation` | the line spliced so far, and whether it goes on |
| `defs` | `defnames`, `defcount`, in table order |
| `ifstack`, `skipping` | the same |
| `out` | text lines written: their number, and whether the name in them was replaced |
| `status` | running, ended, ended with an open group, `exit(1)` in `error()` |
| `groups`, `seen` | history: the open groups in full, the text lines read |

`CondSpec` is the promise, in which `skipping` and `ifstack` do not occur: all
open groups are kept, with their condition and whether `#else` turned them, and a
line has an effect exactly when every group holds. `Sppe` implements it
(`Conditional == C!Spec`, with `defined` mapped to the set of names in `defs`).

Not modelled: the characters of a line, the values and parameters of macros and
thus `parsemacroargs()` and `expandmacro()`. Three simplifications are visible in
the module: a directive carries its name on its first physical line, a spliced
text line keeps the name of its first part, and between two logical lines
`linebuf` counts as empty, since the next line overwrites it unread.

Properties:

- `SkippingIsExact`: one flag and a stack of flags tell of every open group
  whether it or one outside it fails, through any nesting and any number of
  `#else` (the code accepts several in one group, and so does `CondSpec`).
- `Conditional`: the refinement above.
- `TypeOK`, with the limits of the stacks.

- `SplicedOutwards`: `continuation` outlives the file that set it, in one direction
  only: lines are joined with the last line of a file that ended inside their own,
  never with a line of a file that is still waiting for its `#include`.

Visible in the module, without a property: `#define` always appends, so a name may
be there twice, and `undefine()` removes one entry.

| Run (`MCSppe`) | Question | Bounds | Why enough |
|---|---|---|---|
| `sppe_lines` | `TypeOK`, `SkippingIsExact`, `SplicedOutwards`, `Conditional` | 8 lines of every kind, three groups and three files nested, tables of 2 | a group within a failing one, each with `#else`, and text after them; the limits are reached; every error, splicing, files that end inside a group |

### SppeProofs

For every set of lines and every limit: `TypeCorrect` (`TypeOK`),
`SkippingCorrect` (`SkippingIsExact`), `Implements` (`Conditional`) and
`SplicedCorrect` (`SplicedOutwards`). The
invariant is `Inv == TypeOK /\ SkippingIsExact /\ Named`; `Named` says that a
directive held in `linebuf` has a macro name, which the types of `defs` need.
`SkippingIsExact` is inductive because it speaks of every entry of `ifstack` and
not of the top alone: `#endif` restores `skipping` from an entry that was pushed
many lines before. `ExactPush`, `ExactPop` and `ExactTurn` are the three facts
about sequences behind it. The refinement has one step per action: conditional
directives map to `Open`, `Turn` and `Close`, text lines to `Text`, `#define`,
`#undef` and `#include` to `Effect`, everything else to a stutter.
`SplicedOutwards` needs in addition (`SpliceInv`) that files are numbered as they are
opened: of two files on the include stack the inner one has the higher number, and
no line read is of a file not opened yet.

### SasEnhanced: the enhanced assembler

One pass over the lines, then the tables are written to the object file, unless
`creat()` fails. An action is a line, or its label part, or one value of a data
directive. Instructions differ in their length alone, except those that name a symbol.

| Variable | In sas_enhanced.c |
|---|---|
| `sections` | `section_names`, `section_data` (as an index into `output`), `section_sizes` |
| `current` | `current_section`, counted from 1 |
| `output`, `output_size` | the same; of a byte is kept whose it is: section and offset |
| `symbols`, `relocs` | the symbol and relocation arrays |
| `status` | reading, written, or a write past an array |
| `lead` | what `is_arm64` decides: the bytes of a call in front of its field; `.arch` may change it on any line |
| `exported`, `words`, `returned` | history: names in `.global`; symbols in `.dword` with the value stored and whether the symbol had a value then; whether a section was left and entered again |
| `relabelled` | history: names given a value when they were in the table already |

No limit is checked in the code; where one is exceeded the model stops with
status `overrun`. Two lines lead there whatever the limits: a `.align 0` in a section
whose size is not 0 pads without end (`Ends`), and a data directive with a comment
behind its values does not end, since `eval_expr()` does not get past the `;`
(`DataUnread`; SAS_COMPARISON.md:101-104 has such lines). Not modelled: encodings, expressions other than a number, `$`
or a symbol, the flags of a section (`.bss` bytes are stored and not written)
and the layout of the object file, which no linker of the repository reads.

Properties:

- `DamageIsOverlap`: a section's bytes are damaged only if its range in `output`
  overlaps another's.
- `OneVisitIntact`: a source that finishes each section before it enters another
  keeps all its bytes.
- `RelocsApart`: relocated fields lie inside their section and share no byte.
- `TypeOK`: among others, that relocations name entries that exist.

- `FirstLabelStands` (`ExportKept` and `WordsStand`): `add_symbol()` makes a name
  local and sets its value every time, and there is no second pass. What is exported
  is global if its label, where it has one, came before anything else that names it.
  A `.dword` read before its symbol has a value holds 0, whatever the symbol is given
  later; one read after it holds the value the symbol has in the object file, unless
  the symbol was given another one (`relabelled`).

Three claims of the documents are refuted, as findings of `sas_docs`:

- `WordsResolved` (SAS_COMPARISON.md: `.dword label_address ; Symbol references`): a
  word in front of its label holds 0. `WordsStand` says what words hold instead.
- `ExportsGlobal` (SAS_ENHANCED_README.md: `.global symbol` exports it): a label
  behind its `.global` is local. `ExportKept` says which exports last.
- `SwitchKeeps` (SAS_COMPARISON.md: `.text ; Can switch between sections`): bytes
  emitted after a return overwrite the section behind. `OneVisitIntact` needs
  sections that are entered once, `DamageIsOverlap` says what happens otherwise.

| Run (`MCSas`) | Question | Bounds | Why enough |
|---|---|---|---|
| `sas_object` | `TypeOK`, `DamageIsOverlap`, `OneVisitIntact`, `RelocsApart`, `FirstLabelStands` | 6 lines, 4 section names for 3 entries, 2 names for 1 entry, 3 relocations, pieces of 1, 3, 4 and 5 bytes, alignments of 4 and 0, either target, output of 16 | three sections entered, left and entered again with bytes in each; three calls with other bytes between them in two sections; every limit is reached |
| `sas_docs` | `SomeClaimHolds`: of every object file one of the three claims can be made | 7 lines, one name, two sections | the counterexample is one source of 6 lines that breaks all three |

### SasProofs

For every source, set of lengths and limit: `TypeCorrect`, `DamageCorrect`,
`OneVisitCorrect` and `RelocsCorrect` prove `TypeOK`, `DamageIsOverlap`,
`OneVisitIntact` and `RelocsApart`. `StoreSteps` reduces all actions to three
kinds of change: the current section grows, a section is added, or neither. The
invariant `KeptInv` adds to the two storage properties

- `Bounded`: every byte stored has a place in `output` (writes past the end are
  not in the array, so nothing could be said of them);
- `Contiguous`: while no section was entered twice, the current section is the
  last and ends where the output ends, and each other one ends before it
  begins. Without it a byte emitted might hit a finished section.

`RelocsApart` is inductive with `TypeOK` and the fact that sections never shrink
(`SizesGrow`): a new relocation lies behind the size its section had, all older
ones before it.

`LabelsCorrect` proves `FirstLabelStands`. `LabelInv` adds to its two parts that a name
has one entry (`OneEntryEach`) and that an exported name is in the table
(`ExportedEntered`); that a name stored in a word with a value is, `WordsStand` itself
says. A label whose
name is not found is thus the first that is said of it, and one whose name is found
makes the name `relabelled`.

### SccEnhanced: the enhanced compiler

Read the way `SccParser` reads `scc.c`, as a module of its own: nearly every
routine differs. The pieces, the tokens and the variables of the same names are as
above; what is new:

| Variable | In scc_enhanced.c |
|---|---|
| `tokstr` | the same: the last word or string, which the parser reads after the next token may have replaced it |
| `globals`, `locals` | with type, size, `offset` and `isparam` |
| `param_offset` | the same |
| `functions` | `functions[]`, `nfuncs`; only names, since `nparams` and `param_types` are never read |
| `code` | now also the calls |
| `unpopped` | history: arguments pushed by a call that pops none of them |

The file does not compile as it is (the comment at line 19 ends the header
comment, `INT_MAX` lacks its header); the model is of the program with both
repaired, which changes no definition. `break`, `continue` and the loop stack are
as in `scc.c`, except that a full loop stack is an error.

The skipping of a `for` increment (`ForSkip`) reads tokens until a `)` at the
depth it began with, from a position that is already past the increment's first
token. The text behind the loop's body, which would go back to the increment, is
never reached (`ForRejected`) and has no action. The count of arguments that a
call makes ahead of the parser is never used, so it is left out.

Properties:

- `InnermostLoop`, `JumpsLand`, `StackBalanced` and `Halts` ask the questions of
  `SccParser` again. Here `&&` and `||` draw labels too, a compound assignment
  pushes twice, and `Halts` has no exception: the parameter list is parsed.
  `StackBalanced` has one: a call with more arguments than registers starts its
  loop of pops at the last one, which is not below the limit, and pops none.
- `FunctionTable`: a name is emitted as a function at most once, is in the table,
  and an accepted file has `main`.
- `TypeOK`, with the limits of the tables.

Three claims of the documents are refuted, as findings of `enh_test`:

- `CallsCompiled` (BUILD_GUIDE.md compiles `max(10, 20)` with this compiler).
  `primary()` hands a name followed by `(` to `postfix()`, which calls `primary()`
  again with `(` as its token: `f(x)` compiles to the value of `x`.
- `ForCompiled` (COMPARISON.md ticks `for`, test_enhanced.c uses it): a `for`
  statement is refused at the name its increment begins with. `ForRejected`, which is
  proved and has no run, is the general form: none is ever compiled to its end.
- `LocalsInFrame` (COMPARISON.md: function parameters, local variables): both become
  globals, with a label number and no place in the frame.

| Run (`MCSccEnhanced`) | List | Tokens, bounds | Why enough |
|---|---|---|---|
| `enh` | `control` | 12 of 14 kinds, `MAXWHILE` 2 | two loops nested and closed one after the other, `break` and `continue` in each, an `if` with `else`, a loop within it, `for` with every part empty or one token, `&&` and `\|\|` in the condition of a loop; the refusal of a third loop is out of reach, and `wsp` cannot pass the limit before it |
| | `files` | 9 of 17 kinds, tables of 2 | two functions of the same name; parameters and locals; array sizes of 0, 2 and more than 65536; an initialiser that fits and one that does not; every table full; files that end anywhere |
| | `expressions` | 10 of 15 kinds, one register, two arguments, ARM64 word | a call with more arguments than registers and one with too many, an element of an array assigned and compound-assigned |
| `enh_test` | `test` | 14 of 6 kinds | `SomeClaimHolds`: of every file one of the three claims can be made; the counterexample is `main(main){for(main(main);;main`, with a parameter, a call and a `for` statement |

The lists are used as in `MCScc`, and every property is checked on the files of all
three. `WF` of the next-state relation again, for the same reason.

### SccEnhancedProofs

For every token set and bound: `TypeCorrect`, `LoopStackCorrect`, `TableCorrect`,
`ForCorrect`, `JumpsCorrect` and `BalanceCorrect` prove `TypeOK`, `InnermostLoop`,
`FunctionTable`, `ForRejected`, `JumpsLand` and `StackBalanced`. The parts of the invariant:

- `Inv`: the types, `Bottom` and `LoopStack` as in `SccParserProofs`, for `while` and
  `for`; `Sound`, what a piece may hold; `Globals`, that no table of locals is ever
  used and a global's `offset` is its label number.
- `Room`: while a `for` statement is begun and its loop not yet pushed, the loop stack
  has a place left. The routine tests for one first; only expressions are compiled
  between the test and the push, and they open no loop.
- `TableInv`: the table has exactly the names emitted as functions, each emitted once.
- `HeldInv`: while the body of a `for` is compiled, the token is the `)` that ended
  the increment, and the compiler is on its way from `statement()` to `primary()`,
  where nothing takes it. `ForRejected` follows: the body never ends.
- `LabelInv`: as above, with the labels of `&&`, `||` and of `for`.
- `DepthInv`: as above, with `unpopped` for what stays pushed. Calls have
  many arguments in this compiler, and `StackBalanced` counts what they leave.

### Sas: the simple assembler

`sas.c` reads its file twice. Lines are sequences of tokens, chosen when pass 1
reads them and read again in pass 2; an action is the start of a line (with its
label), a statement, or one value of a list.

| Variable | In sas.c |
|---|---|
| `target`, `status`, `pass` | the same; `done` and `failed` are `main()`'s results |
| `file`, `lineno`, `rest` | the file, and where `lptr` stands in its line |
| `token`, `tokval` | the same: kept over lines and over passes |
| `section`, `width` | the section, and the size of one value of the list being read |
| `code` | `codebuf`, with what each byte is; `pc` and `codesize` are its length, as they are set together |
| `syms`, `rels` | the tables |
| `changed` | names reported as changed between passes |
| `pcs`, `mentions`, `stale` | history: `pc` at each line of pass 1; the calls of `add_sym()`; whether a statement used a token or number of an earlier line |

`stale` is there because `.space` without a number, or `.globl` without a name,
takes what the lexer read last. In pass 2 the first such line takes what was last
in pass 1, and the two passes part for good.

- `PassesAgree`: unless that happens, every line is at the same `pc` in both
  passes and pass 2 enters no new symbol.
- `ChangedNames`: which names are reported as changed (those with a `.globl` or
  `.extern`, which set the value to 0, or with two labels), and that the value
  written is that of the last mention.
- `RelocSites`: the relocations' fields are exactly the placeholders, once each,
  until a table or the buffer is full.
- `TypeOK`, with the limits.

| Run (`MCSasSimple`) | Question | Bounds | Why enough |
|---|---|---|---|
| `sas_two_passes` | all four | every file of four of 16 lines, both targets, 2 symbols, 3 relocations, 14 bytes | a label before, after and between the two mentions of its name; a stale count behind a label; three calls; every table and the buffer full |

Lengths are those of the instructions; what the bytes say is not modelled.

The file is closed and opened again in front of each pass, unchecked (line 597). If that
fails for pass 2, it has no lines and ends at once (`EndFile`); in front of pass 1 it is
taken to succeed, as the file has been opened a moment before.

The set `Lines` is any set of sequences of tokens: `LinesAssumption` gives the kinds
of token the lexer knows and nothing else. `LineTokens` and `Texts` name the tokens
that occur and what `token` can hold.

### SasSimpleProofs

For every set of lines, target and limit: `TypeCorrect`, `RelocsCorrect`,
`PassesCorrect` and `NamesCorrect` prove `TypeOK`, `RelocSites`, `PassesAgree` and
`ChangedNames`.

- `TypeInv` adds the types of the history and how `pass` and `status` go together.
- `RelocInv`: until a limit is met, a byte of the code is a placeholder exactly if it
  is in the field of a relocation, and the fields follow one another.
- `LineInv`: unless `stale`, where a line ends depends on where it begins and on
  the line alone. `Ends` says this of a line and its remaining tokens, as a relation
  between `pc` before and after; that it is a function (`EndsOnce`) is why pass 2 meets
  in every line the `pc` of pass 1. What a statement does on the first tokens of `rest`
  is the same in both passes, except that pass 2 writes what pass 1 counted.
- `NameInv`: line `k` can mention names twice, by its label and by its declaration.
  These events get the numbers `2k - 1` and `2k`, so that "up to here" is one
  number, `Progress`, in both passes. In pass 1 a symbol has the value of the last
  event up to here (`FirstPass`). In pass 2 (`SecondPass`) the values compared so far
  are those of the events up to here; the symbol has the value of the last of them or,
  before the first, pass 1's last; and it is reported exactly if two of the values
  seen, that one among them, differ. At the end all events have been seen, which is
  `ChangedNames`.
- `Done`: the status `done` is reached at the end of the file in pass 2.

### SldEnhanced: the enhanced ELF linker

All four parts of `main()`: `process_object()` for each file, `layout_sections()`,
`apply_relocations()`, `write_executable()`. An action is one iteration of one of
their loops. An object file is chosen while it is read; what it holds is any
list of section headers, symbols and relocations: several sections of one name in a
file, empty sections, and names that are code, data or BSS by their first header only.

| Variable | In sld_enhanced.c |
|---|---|
| `phase`, `at`, `cursor` | which loop runs, its `i`, its running address or file offset |
| `sections` | name, `data` (as an index into `output`), `size`, `vaddr` |
| `output`, `output_size` | the same; of a byte is kept which file's and section's it is |
| `symbols`, `relocs` | the same |
| `applied`, `filepos`, `entry`, `segments` | addresses given to relocations, file position of each section, `entry_addr`, the numbers in the program headers |
| `parts`, `own` | history: each file's part of each section, each file's symbol table |

The structures it reads have the field widths of ELF32 headers; the model takes a
file to be what that reader sees. Encodings of patched instructions are left out,
symbol and relocation numbers are not. No limit is checked in the code: the model
stops with status `overrun` at the first section, symbol, relocation or byte too many. Not modelled: sections without bytes
that are executable, the number of files on the command line, and the cutting of a
file at the size of the read buffer.

- `BytesKept`: a part is copied behind the section's earlier parts, where another
  section may have begun. Where the headers of a name agree on having bytes, these are
  lost only where two sections overlap, never as long as no name is read twice, and no
  part reaches past `output_size`.
- `Apart`: the layout gives every section addresses of its own, aligned, and no
  page holds code and data.
- `WrittenAtAddress`: a section with bytes lies in the file at its address exactly when
  the sections written stand in the table in the order of addresses. The file then
  ends where the data segment does exactly when there is no BSS to reserve; an empty
  section is neither written nor in a segment.
- `TypeOK`, with the limits of the tables.

Three claims of the documents are refuted, as findings of `sld_objects`, each with a
definition that says what the linker does instead; these are proved and have no run.

- `SymbolsResolved` (LINKERS_README.md: symbol resolution, and link lines whose first
  objects use the later ones). `DefinedLate`: a symbol has an address only if the first
  file that mentions it defines it, and what that does to the entry point.
- `OwnBytePatched` (LINKERS_README.md: multiple objects, better section handling).
  `OwnPartOnly`: values and offsets lead to the right byte exactly where nothing of the
  section lies in front of the file's own part.
- `GlobalsReached` (LINKERS_README.md: simple programs with global variables work).
  `FirstFileMissed`: no relocation of the first file against a global symbol is given
  that symbol.

| Run (`MCSld`) | Question | Bounds | Why enough |
|---|---|---|---|
| `sld_link` | `TypeOK`, `BytesKept`, `Apart`, `WrittenAtAddress` | two files that hold four section parts together, or three of fewer sizes with two symbols and one relocation (`FewParts`); 12 headers of four names, of code, data and BSS; sizes from 0 to 3; a page of 4, alignment 2, output of 10; room for three sections, one symbol, one relocation | a section continued behind another one that has begun; data seen before code; sections that end at and across a page; empty sections anywhere; data in a section that began as BSS or as code; every limit exceeded |
| `sld_objects` | `SomeClaimHolds`: of every program written one of the three claims can be made | two files with a part of one section each, three symbols and two relocations | the counterexample is one link that breaks all three |

### SldProofs

For any object files and limits: `TypeCorrect`, `KeptCorrect` (`BytesKept`),
`ApartCorrect` (`Apart`), `FileCorrect` (`WrittenAtAddress`), and of the definitions
without a run `LateCorrect` (`DefinedLate`), `OwnCorrect` (`OwnPartOnly`) and
`FirstFileCorrect` (`FirstFileMissed`). Each rests on `TypeInv` (one part for each
group of variables, and that addresses are given out upwards) and one more:

- `BytesInv`: a section has one entry (`Unique`), its parts fill it without gaps
  (`Inside`, `Tiled`) and it has one at least (`Named`). Where the headers of a name
  agree on having bytes, every section ends inside `output` (`Room`), every byte of a
  part is there unless its section is overwritten (`BytesIn`), and as long as no name
  is read twice none is (`Free`). A new part is copied behind the section's earlier
  ones, so it damages none of its own section.
- `LayoutInv`: sections placed so far are aligned and in the order code, data, BSS,
  each before the next, and there is a multiple of the page size between the code
  and all else. The boundary is an existential: it comes into being between the
  first two loops and is kept by the others.
- `FileInv`: sections written lie one behind the other, since padding only goes
  forward; as long as those with bytes stand in the order of addresses each is at its
  address, and the file ends with the last of them. Empty sections have addresses and
  no place in the file, so the order is asked of the others only.
- `NamesInv`: an entry of the global table says what the first file that mentions the
  name says, and it is marked as defined exactly if some file defines it.
- `EntriesSay`, `RelocsSay`: what a file's symbols and relocations name is a byte of
  that file's own part. With `BytesInv` the byte at that offset from the section's
  start is the same byte exactly if the part is the first one.
- `RelocInv`: in the first file's table, which begins with the empty entry, a global
  symbol comes behind its place in the linker's table, and the number a relocation is
  applied with is one more than the one read.

### SldLinux: the simple Linux linker

`sld_linux_x64.c`: sections are appended to one output in the order they come,
`main()` lays them out in a second loop, patches relocations and writes two
program headers. `sld_linux_arm64.c` differs in relocation types alone.

| Variable | In sld_linux_x64.c |
|---|---|
| `sections`, `output_size` | `section_offsets`, `section_sizes`, `section_addrs`; the same |
| `symbols`, `relocs` | the tables, with the numbers as read |
| `current_vaddr`, `at` | the same; a loop's `i` |
| `patches`, `entry`, `second` | what `apply_relocations()` writes, `e_entry`, the addresses of the second header |
| `headers`, `entries`, `sources` | history: each file's headers and symbol table, and where each symbol and relocation comes from |

- `FileIsMemory`: the second layout finds every section where the first one put
  it, and sections share no byte.
- `ReferenceWins`: a file that mentions `_start` before the file that defines it
  makes the program start at its first byte.
- `TypeOK`: among others, that no symbol names a section that is not there, and the
  limits of the tables and of the output.

Two claims of the documents are refuted, as findings of `sld_linux_object`:

- `SymbolsReached` (LINKERS_README.md: "Handles basic x64 relocations", "Basic symbol
  resolution"). Section and symbol numbers of an object are used as numbers of the
  linker's tables, which leave out the empty header and the unnamed entry.
  `NumbersShifted`, which is proved and has no run, is the general form: in the first
  file none leads where it should.
- `EntryMapped` (LINKERS_README.md: "Two PT_LOAD segments (code and data)"). The
  writable segment starts in the page where the code ends, so a program smaller than a
  page is mapped over without execute permission.

When an object has no symbol table, `symtab_offset` and the count are not
initialized; the model lets the loop read nothing, or any entries with any section
number (`EndSections`, `Entry`). An uninitialized entry size of 0, with which the loop
would not end, is left out. One symbol or relocation too many is written past its
array, where the model stops (`SymbolOverrun`, `RelocOverrun`).

| Run (`MCSldLinux`) | Question | Bounds | Why enough |
|---|---|---|---|
| `sld_linux` | `TypeOK`, `FileIsMemory`, `ReferenceWins` | two files that hold three headers, two symbols and one relocation together, or one header and three symbols (`FewHeaders`); a size that needs padding; two names; a page of 8, alignment 4, output of 8, room for two sections, two symbols and one relocation | both files with a section, with none, with skipped headers; a reference before, after and without its definition; a section in the second file; the limits exceeded |
| `sld_linux_object` | `SomeClaimHolds`: of every program written one of the two claims can be made | the same with two symbols | the counterexample is one link of one object that breaks both |

### SldLinuxProofs

For any object files and limits: `TypeCorrect`, `MemoryCorrect` (`FileIsMemory`),
`ReferenceCorrect` (`ReferenceWins`) and, of the definition without a run,
`NumbersCorrect` (`NumbersShifted`).

- `TypeInv` is `TypeOK` with `Books`: which file has a symbol table when, and that each
  relocation is applied once.
- `MemoryInv`: each section is stored behind the one before, rounded up (`Chained`), none
  overlaps an earlier one (`Ordered`), and the layout loop is, before its `i`-th step,
  at the address of the `i`-th section (`Placed`): both loops compute the same sums.
- `NumberInv`: a header of the first file is given a number below its own, and a symbol
  of the first file a place before its own, if the first entry is the unnamed one; every
  row of the tables is the row it was read from.
- `EntryInv`: a `_start` that the first file mentions before it defines it is the first
  of its name in the table, and the entry point written is that of the first.

## Runs

| Run | Module | Result |
|---|---|---|
| `scc`, `enh` | `MCScc`, `MCSccEnhanced` | hold |
| `sppe_lines` | `MCSppe` | hold |
| `sas_object`, `sas_two_passes` | `MCSas`, `MCSasSimple` | hold |
| `sld_link`, `sld_linux` | `MCSld`, `MCSldLinux` | hold |
| `scc_test`, `enh_test`, `sas_docs`, `sld_objects`, `sld_linux_object` | `MCScc`, `MCSccEnhanced`, `MCSas`, `MCSld`, `MCSldLinux` | `SomeClaimHolds` is violated |

`SomeClaimHolds` is, in each of the five modules, the disjunction of what the
documents say of the program and the code does not do. A file that breaks one claim
shows nothing of the others; one that breaks the disjunction breaks each of them, so
a single counterexample stands for all findings of the module.

| Claim | Said in | Broken at | In general |
|---|---|---|---|
| `SccParser!LocalsInFrame` | COMPARISON.md:13, scc.c:51 | scc.c:298 | |
| `SccParser!NextArgument` | test.c:92, BUILD_GUIDE.md:134 | scc.c:1008 | |
| `SccEnhanced!LocalsInFrame` | COMPARISON.md:12-13 | scc_enhanced.c:451 | |
| `SccEnhanced!CallsCompiled` | BUILD_GUIDE.md:164 | scc_enhanced.c:1582 | |
| `SccEnhanced!ForCompiled` | COMPARISON.md:30, test_enhanced.c:42 | scc_enhanced.c:900 | `ForRejected` |
| `SasEnhanced!WordsResolved` | SAS_COMPARISON.md:103 | sas_enhanced.c:357 | `WordsStand` |
| `SasEnhanced!ExportsGlobal` | SAS_ENHANCED_README.md:78 | sas_enhanced.c:272 | `ExportKept` |
| `SasEnhanced!SwitchKeeps` | SAS_COMPARISON.md:134 | sas_enhanced.c:281 | `DamageIsOverlap` |
| `SldEnhanced!SymbolsResolved` | LINKERS_README.md:83-86, 152 | sld_enhanced.c:190 | `DefinedLate` |
| `SldEnhanced!OwnBytePatched` | LINKERS_README.md:30, 85 | sld_enhanced.c:324 | `OwnPartOnly` |
| `SldEnhanced!GlobalsReached` | LINKERS_README.md:113-115 | sld_enhanced.c:379 | `FirstFileMissed` |
| `SldLinux!SymbolsReached` | LINKERS_README.md:19, 152 | sld_linux_x64.c:220 | `NumbersShifted` |
| `SldLinux!EntryMapped` | LINKERS_README.md:150 | sld_linux_x64.c:313 | |

The last column names the definition that says what the code does instead, for every
value of the constants. They are theorems.

Every property of the passing runs has a mutant in its module: a definition changed the way a bug in
that code would change it (a dropped guard, an off-by-one, a missing reset), which
violates the property under the same bounds. None of the programs is left
waiting: every run checks for deadlock, and each specification has an explicit
step for the program that has ended.

`ReferenceWins` says when the code does something that no document speaks of, and
`StackBalanced` of `SccEnhanced` what a call with more arguments than registers
leaves. They are the behaviour of this code, to be revised with it.

## What is proved and what is only checked

Every safety invariant, action property and refinement that a passing run checks is
also a theorem, for every value of the constants. The exception:

- `Halts` of `SccParser` and of `SccEnhanced` is liveness under fairness, which
  the prover cannot do; it is checked in `scc` and `enh` only.

The other way round, five theorems are about definitions that no run checks, since
they are the general form of a counterexample: `ForRejected`, `DefinedLate`,
`OwnPartOnly`, `FirstFileMissed` and `NumbersShifted`. The claims themselves are
refuted on small instances only.

The assumptions are those the modules name for their constants (bounds are natural
numbers, sizes and alignments positive, names are not keywords, lines are made of
tokens), and TLC evaluates them in every run. All but the refinement have the form
`Spec => []P`: initial states satisfy an inductive invariant, each action keeps it,
and it gives `P`. Nothing is proved by induction over data: what a sum or a length
of a sequence is, is said by the conditions it satisfies at each position, and the
least element of a set of numbers comes from the library's theorem that `<` is
well founded.

What the proofs do not say is how the modules relate to the C code; the tables above,
the comments on the definitions and the line numbers in `PROJECT.json` are for
comparing the two.

## Not modelled

- `spp.c`: its lines, include stack and definitions table are those of `sppe.c`
  without what makes them hard there; substitution is work on characters.
- Macros with arguments in `sppe.c`: `expandmacro()` and `parsemacroargs()` decide
  by the characters of a line. `parsemacroargs()` counts parentheses and the caller
  then skips to the first `)`, which needs lines as sequences of characters.
- `sas_full_x64.c`: it cannot be built, since `assemble_two_operand()` is called and
  defined nowhere, and `parse_number_str()` is defined twice.
- The PE linkers: they keep the tables of the Linux linkers; new is the layout of
  their headers, which is data.
- Encodings of instructions, in the assemblers and in relocations, and what
  emitted instructions compute.
- `runtime.c` and the system call stubs: stateless functions and single calls.
- Example programs and scripts.

## Plan

1. `SccParser`, `Sppe`, `SasEnhanced` with their proofs, `SccEnhanced`, `Sas`,
   `SldEnhanced`, `SldLinux` (done).
2. Proofs of what the runs check (done, as far as the prover reaches).
3. Macro arguments of `sppe.c`, with a line as a sequence of characters; number
   conversions of `runtime.c` with wrap-around.
4. `SccExpr`: the instructions emitted for an expression, executed, against the
   value of the expression.
