----------------------------- MODULE SccParser -----------------------------
(***************************************************************************)
(* The recursive-descent compiler scc.c, read as a stack machine.          *)
(*                                                                         *)
(* The C call stack is ctl: its head is the next piece of straight-line    *)
(* code to run, the rest are the return points of the active calls, the    *)
(* innermost first.  Every action runs one piece, which reads at most one  *)
(* token, and replaces the head by the calls the piece makes.              *)
(*                                                                         *)
(* Kept: every token test, error exit, symbol-table change, label, push    *)
(* and pop, and the loop stack breaklab/contlab/wsp.  Of the emitted text  *)
(* function entries, labels and jumps are kept (variable code), each with  *)
(* the value of sp at its emission; instructions that move data are not.   *)
(***************************************************************************)
EXTENDS Integers, Sequences

CONSTANTS
  Names,       \* identifiers; a T_IDENT token is represented by its tokstr
  Tokens,      \* tokens a source file may hold (EOF comes by itself)
  MaxTokens,   \* bound: tokens in the file
  Word,        \* bytes of one push: 8 (TARGET_X64) or 16 (TARGET_ARM64)
  RegArgs,     \* registers for arguments: 6 or 8
  MaxWhile, MaxLocals, MaxGlobals    \* MAXWHILE, MAXLOCALS, MAXGLOBALS

EOF == "EOF"
Unknown == "?"           \* a character gettoken() does not know
Types == {"int", "char"}
\* T_NUMBER tokens: a zero and a positive value are all the parser tells apart
Number == {"0", "2"}
NumVal == [t \in Number |-> IF t = "0" THEN 0 ELSE 2]

Reserved == Types \cup Number \cup {EOF, Unknown, "none", "string", "if", "else",
  "while", "for", "return", "break", "continue", "++", "--", "(", ")", "[", "]",
  "{", "}", ",", ";", ".", "=", "!", "~", "&&", "||", "|", "^", "&", "==", "!=",
  "<", ">", "<=", ">=", "<<", ">>", "+", "-", "*", "/", "%"}

ASSUME NamesAssumption == Names \cap Reserved = {}
ASSUME TokensAssumption == Tokens \subseteq (Names \cup Reserved) \ {EOF, "none"}
ASSUME BoundsAssumption ==
  /\ MaxTokens \in Nat /\ Word \in Nat \ {0} /\ RegArgs \in Nat \ {0}
  /\ MaxWhile \in Nat \ {0} /\ MaxLocals \in Nat /\ MaxGlobals \in Nat

VARIABLES
  token, ntok,              \* lookahead token; tokens read so far
  status,                   \* "run", "done", "error" (exit(1)), "overrun"
  ctl,                      \* pieces of code still to run, innermost first
  globals, locals,          \* symbol tables; nglobals, nlocals are their lengths
  sp, lab,                  \* compile-time stack offset; next label number
  wsp, breaklab, contlab,   \* the loop stack
  code                      \* entries, labels and jumps emitted so far, in order

input == <<token, ntok, status>>
symbols == <<globals, locals>>
loops == <<wsp, breaklab, contlab>>
vars == <<input, ctl, symbols, sp, lab, loops, code>>

-----------------------------------------------------------------------------
(* Pieces of code *)

\* at: which piece; arg: a token or name it holds; n: a level, count or size;
\* l1, l2: labels in the routine's local variables; slot: wsp at loop entry.
\* slot, and the token in a "callMore" piece, are there for the properties only.
Piece(a, t, k, lab1, lab2, s) ==
  [at |-> a, arg |-> t, n |-> k, l1 |-> lab1, l2 |-> lab2, slot |-> s]
It(a) == Piece(a, "", 0, 0, 0, 0)
With(a, t) == Piece(a, t, 0, 0, 0, 0)
Count(a, k) == Piece(a, "", k, 0, 0, 0)
Labelled(a, lab1) == Piece(a, "", 0, lab1, 0, 0)

\* if (token != t) error(...); token = gettoken();
Expect(t) == With("expect", t)

At(a) == status = "run" /\ Head(ctl).at = a
Top == Head(ctl)
Goto(pieces) == ctl' = pieces \o Tail(ctl)

\* token = gettoken(); at end of file it keeps answering T_EOF
GetToken ==
  \E t \in IF token = EOF \/ ntok = MaxTokens THEN {EOF} ELSE Tokens \cup {EOF} :
    /\ token' = t
    /\ ntok' = IF t = EOF THEN ntok ELSE ntok + 1
    /\ status' = IF t = Unknown THEN "error" ELSE "run"
Stay == UNCHANGED input

Push == sp' = sp - Word
Instr(op, l) == [op |-> op, l |-> l, sp |-> sp]
Emit(instrs) == code' = code \o instrs

\* lookup(): locals, then globals
Declared(name) ==
  \/ \E i \in DOMAIN locals : locals[i].name = name
  \/ \E i \in DOMAIN globals : globals[i].name = name

\* Mutant: a global does not use up its label number.
AddSymbolKeeps(name, size) ==
  /\ Len(globals) < MaxGlobals
  /\ globals' = Append(globals, [name |-> name, offset |-> lab, size |-> size])
  /\ UNCHANGED <<locals, sp, lab>>

\* Mutant: the check of the table of globals lets one entry too many in.
AddSymbolLate(name, size) ==
  /\ Len(globals) <= MaxGlobals
  /\ globals' = Append(globals, [name |-> name, offset |-> lab, size |-> size])
  /\ lab' = lab + 1
  /\ UNCHANGED <<locals, sp>>

\* add_symbol(): the local table is used only when it already holds an entry
AddSymbol(name, size) ==
  LET sym(offset) == [name |-> name, offset |-> offset, size |-> size]
  IN IF locals # <<>>
     THEN /\ Len(locals) < MaxLocals
          /\ sp' = sp - 8 * (IF size > 0 THEN size ELSE 1)
          /\ locals' = Append(locals, sym(sp'))
          /\ UNCHANGED <<globals, lab>>
     ELSE /\ Len(globals) < MaxGlobals
          /\ globals' = Append(globals, sym(lab))
          /\ lab' = lab + 1
          /\ UNCHANGED <<locals, sp>>

TableFull == IF locals # <<>> THEN Len(locals) >= MaxLocals
                              ELSE Len(globals) >= MaxGlobals
-----------------------------------------------------------------------------
(* program(): declarations at file level *)

Start ==
  /\ At("start")
  /\ GetToken
  /\ Goto(<<It("program")>>)
  /\ UNCHANGED <<symbols, sp, lab, loops, code>>

Program ==
  /\ At("program")
  /\ \/ /\ token = EOF
        /\ status' = "done"
        /\ UNCHANGED <<token, ntok, ctl>>
     \/ /\ token \in Types
        /\ GetToken
        /\ Goto(<<It("progName"), It("program")>>)
     \/ /\ token \notin Types \cup {EOF}
        /\ Stay
        /\ Goto(<<It("progName"), It("program")>>)
  /\ UNCHANGED <<symbols, sp, lab, loops, code>>

ProgramName ==
  /\ At("progName")
  /\ token \in Names
  /\ GetToken
  /\ Goto(<<With("progKind", token)>>)
  /\ UNCHANGED <<symbols, sp, lab, loops, code>>

\* '(' makes it a function, anything else a global variable
ProgramKind ==
  /\ At("progKind")
  /\ \/ /\ token = "("
        /\ GetToken
        /\ Emit(<<Instr("entry", 0)>>)
        /\ Goto(<<It("params")>>)
     \/ /\ token # "("
        /\ Stay
        /\ Goto(<<With("dim", Top.arg), Expect(";")>>)
        /\ UNCHANGED code
  /\ UNCHANGED <<symbols, sp, lab, loops>>

\* the optional [size] of a declarator, then add_symbol()
Dimension ==
  /\ At("dim")
  /\ \/ token = "[" /\ GetToken /\ Goto(<<With("dimSize", Top.arg)>>)
     \/ token # "[" /\ Stay /\ Goto(<<With("declare", Top.arg)>>)
  /\ UNCHANGED <<symbols, sp, lab, loops, code>>

DimensionSize ==
  /\ At("dimSize")
  /\ token \in Number
  /\ GetToken
  /\ Goto(<<Expect("]"), Piece("declare", Top.arg, NumVal[token], 0, 0, 0)>>)
  /\ UNCHANGED <<symbols, sp, lab, loops, code>>

Declare ==
  /\ At("declare")
  /\ AddSymbol(Top.arg, Top.n)
  /\ Stay
  /\ Goto(<<>>)
  /\ UNCHANGED <<loops, code>>

-----------------------------------------------------------------------------
(* function(): parameters are skipped, locals declared, statements compiled *)

SkipParams ==
  /\ At("params")
  /\ GetToken
  /\ IF token = ")" THEN Goto(<<It("funcOpen")>>) ELSE UNCHANGED ctl
  /\ UNCHANGED <<symbols, sp, lab, loops, code>>

FunctionOpen ==
  /\ At("funcOpen")
  /\ token = "{"
  /\ GetToken
  /\ sp' = 0
  /\ locals' = <<>>
  /\ Goto(<<It("locals")>>)
  /\ UNCHANGED <<globals, lab, loops, code>>

Locals ==
  /\ At("locals")
  /\ \/ token \in Types /\ GetToken /\ Goto(<<It("localName")>>)
     \/ token \notin Types /\ Stay /\ Goto(<<It("body")>>)
  /\ UNCHANGED <<symbols, sp, lab, loops, code>>

LocalName ==
  /\ At("localName")
  /\ token \in Names
  /\ GetToken
  /\ Goto(<<With("dim", token), It("localNext")>>)
  /\ UNCHANGED <<symbols, sp, lab, loops, code>>

LocalNext ==
  /\ At("localNext")
  /\ \/ token = "," /\ GetToken /\ Goto(<<It("localName")>>)
     \/ token # "," /\ Stay /\ Goto(<<Expect(";"), It("locals")>>)
  /\ UNCHANGED <<symbols, sp, lab, loops, code>>

Body ==
  /\ At("body")
  /\ \/ /\ token # "}"
        /\ Stay
        /\ Goto(<<It("stmt"), It("body")>>)
        /\ UNCHANGED locals
     \/ /\ token = "}"
        /\ GetToken
        /\ Goto(<<>>)
        /\ locals' = <<>>
  /\ UNCHANGED <<globals, sp, lab, loops, code>>

-----------------------------------------------------------------------------
(* statement(), one action per case and one per return from a call in it *)

ExpectToken ==
  /\ At("expect")
  /\ token = Top.arg
  /\ GetToken
  /\ Goto(<<>>)
  /\ UNCHANGED <<symbols, sp, lab, loops, code>>

StmtStart == {"{", "if", "while", "return", "break", "continue", ";"}
\* Mutant: the empty statement does not read past its ';'.
StatementStuck ==
  /\ At("stmt")
  /\ Stay
  /\ Goto(IF token = ";" THEN <<>> ELSE <<It("expr"), Expect(";")>>)
  /\ UNCHANGED <<symbols, sp, lab, loops, code>>

Statement ==
  /\ At("stmt")
  /\ \/ /\ token \in StmtStart
        /\ GetToken
        /\ \/ token = "{" /\ Goto(<<It("block")>>)
           \/ token = "if" /\ Goto(<<Expect("("), It("expr"), It("ifTest")>>)
           \/ token = "while" /\ Goto(<<It("whileHead")>>)
           \/ token = "return" /\ Goto(<<It("returnValue")>>)
           \/ token = "break" /\ Goto(<<Expect(";"), It("break")>>)
           \/ token = "continue" /\ Goto(<<Expect(";"), It("continue")>>)
           \/ token = ";" /\ Goto(<<>>)
     \/ /\ token \notin StmtStart
        /\ Stay
        /\ Goto(<<It("expr"), Expect(";")>>)
  /\ UNCHANGED <<symbols, sp, lab, loops, code>>

Block ==
  /\ At("block")
  /\ \/ token # "}" /\ Stay /\ Goto(<<It("stmt"), It("block")>>)
     \/ token = "}" /\ GetToken /\ Goto(<<>>)
  /\ UNCHANGED <<symbols, sp, lab, loops, code>>

ReturnValue ==
  /\ At("returnValue")
  /\ Stay
  /\ Goto(IF token = ";" THEN <<Expect(";")>> ELSE <<It("expr"), Expect(";")>>)
  /\ UNCHANGED <<symbols, sp, lab, loops, code>>

IfTest ==
  /\ At("ifTest")
  /\ token = ")"
  /\ GetToken
  /\ lab' = lab + 1
  /\ Emit(<<Instr("jz", lab)>>)
  /\ Goto(<<It("stmt"), Labelled("ifElse", lab)>>)
  /\ UNCHANGED <<symbols, sp, loops>>
\* Mutant: an if without else leaves its label out.
IfElseNoLabel ==
  /\ At("ifElse")
  /\ token # "else"
  /\ Stay
  /\ Goto(<<>>)
  /\ UNCHANGED <<symbols, sp, lab, loops, code>>

IfElse ==
  /\ At("ifElse")
  /\ \/ /\ token = "else"
        /\ GetToken
        /\ lab' = lab + 1
        /\ Emit(<<Instr("jump", lab), Instr("label", Top.l1)>>)
        /\ Goto(<<It("stmt"), Labelled("ifEnd", lab)>>)
     \/ /\ token # "else"
        /\ Stay
        /\ Emit(<<Instr("label", Top.l1)>>)
        /\ Goto(<<>>)
        /\ UNCHANGED lab
  /\ UNCHANGED <<symbols, sp, loops>>

IfEnd ==
  /\ At("ifEnd")
  /\ Stay
  /\ Emit(<<Instr("label", Top.l1)>>)
  /\ Goto(<<>>)
  /\ UNCHANGED <<symbols, sp, lab, loops>>

\* lab1 is the loop's start (contlab), lab2 its end (breaklab)
WhileHead ==
  /\ At("whileHead")
  /\ token = "("
  /\ wsp < MaxWhile
  /\ GetToken
  /\ lab' = lab + 2
  /\ breaklab' = [breaklab EXCEPT ![wsp] = lab + 1]
  /\ contlab' = [contlab EXCEPT ![wsp] = lab]
  /\ wsp' = wsp + 1
  /\ Emit(<<Instr("label", lab)>>)
  /\ LET exit == Piece("whileTest", "", 0, 0, lab + 1, 0)
         end == Piece("whileEnd", "", 0, lab, lab + 1, wsp)
     IN Goto(<<It("expr"), exit, It("stmt"), end>>)
  /\ UNCHANGED <<symbols, sp>>

\* MAXWHILE loops are open and nothing checks it: the write goes past the
\* arrays.  What follows depends on the layout the C compiler chose (gcc puts
\* padding, wsp or nlocals there), so the model follows the program no further.
WhileOverrun ==
  /\ At("whileHead")
  /\ token = "("
  /\ wsp >= MaxWhile
  /\ status' = "overrun"
  /\ UNCHANGED <<token, ntok, ctl, symbols, sp, lab, loops, code>>

WhileTest ==
  /\ At("whileTest")
  /\ token = ")"
  /\ GetToken
  /\ Emit(<<Instr("jz", Top.l2)>>)
  /\ Goto(<<>>)
  /\ UNCHANGED <<symbols, sp, lab, loops>>
\* Mutant: the loop is left on the loop stack.
WhileEndNoPop ==
  /\ At("whileEnd")
  /\ Stay
  /\ Emit(<<Instr("jump", Top.l1), Instr("label", Top.l2)>>)
  /\ Goto(<<>>)
  /\ UNCHANGED <<symbols, sp, lab, loops>>

\* Mutant: the jump back tests a register the body has overwritten.
WhileEndTests ==
  /\ At("whileEnd")
  /\ Stay
  /\ Emit(<<Instr("jz", Top.l1), Instr("label", Top.l2)>>)
  /\ wsp' = wsp - 1
  /\ Goto(<<>>)
  /\ UNCHANGED <<symbols, sp, lab, breaklab, contlab>>

WhileEnd ==
  /\ At("whileEnd")
  /\ Stay
  /\ Emit(<<Instr("jump", Top.l1), Instr("label", Top.l2)>>)
  /\ wsp' = wsp - 1
  /\ Goto(<<>>)
  /\ UNCHANGED <<symbols, sp, lab, breaklab, contlab>>

LeaveLoop ==
  /\ \/ At("break") /\ wsp > 0 /\ Emit(<<Instr("jump", breaklab[wsp - 1])>>)
     \/ At("continue") /\ wsp > 0 /\ Emit(<<Instr("jump", contlab[wsp - 1])>>)
  /\ Stay
  /\ Goto(<<>>)
  /\ UNCHANGED <<symbols, sp, lab, loops>>

-----------------------------------------------------------------------------
(* Expressions *)

LogicalOr == {"||"}
LogicalAnd == {"&&"}
BitwiseOr == {"|"}
BitwiseXor == {"^"}
BitwiseAnd == {"&"}
Equality == {"==", "!="}
Relational == {"<", ">", "<=", ">="}
Shift == {"<<", ">>"}
Additive == {"+", "-"}
Multiplicative == {"*", "/", "%"}
Levels == <<LogicalOr, LogicalAnd, BitwiseOr, BitwiseXor, BitwiseAnd,
            Equality, Relational, Shift, Additive, Multiplicative>>

\* The call of level k's routine calls down to unary() before anything else;
\* the loops of levels 10, 9, ..., k then run as the calls return.
Operand(k) == <<It("unary")>> \o [i \in 1..(11 - k) |-> Count("level", 11 - i)]

Expression ==
  /\ At("expr")
  /\ Stay
  /\ Goto(Operand(1) \o <<It("assign")>>)
  /\ UNCHANGED <<symbols, sp, lab, loops, code>>

Assignment ==
  /\ At("assign")
  /\ \/ token = "=" /\ Push /\ GetToken /\ Goto(<<It("expr"), It("pop")>>)
     \/ token # "=" /\ Stay /\ Goto(<<>>) /\ UNCHANGED sp
  /\ UNCHANGED <<symbols, lab, loops, code>>

\* while (token is an operator of level n) { push(); gettoken(); operand; pop }
BinaryLoop ==
  /\ At("level")
  /\ \/ /\ token \in Levels[Top.n]
        /\ Push
        /\ GetToken
        /\ Goto(Operand(Top.n + 1) \o <<It("pop"), Top>>)
     \/ /\ token \notin Levels[Top.n]
        /\ Stay
        /\ Goto(<<>>)
        /\ UNCHANGED sp
  /\ UNCHANGED <<symbols, lab, loops, code>>

Pop ==
  /\ At("pop")
  /\ sp' = sp + Word
  /\ Stay
  /\ Goto(<<>>)
  /\ UNCHANGED <<symbols, lab, loops, code>>

Prefix == {"!", "~", "-", "*", "++", "--"}

Unary ==
  /\ At("unary")
  /\ \/ token \in Prefix /\ GetToken /\ Goto(<<It("unary")>>)
     \/ token = "&" /\ GetToken /\ Goto(<<It("addressOf")>>)
     \/ token \notin Prefix \cup {"&"} /\ Stay /\ Goto(<<It("primary"), It("postfix")>>)
  /\ UNCHANGED <<symbols, sp, lab, loops, code>>

AddressOf ==
  /\ At("addressOf")
  /\ token \in Names /\ Declared(token)
  /\ GetToken
  /\ Goto(<<>>)
  /\ UNCHANGED <<symbols, sp, lab, loops, code>>

Postfix ==
  /\ At("postfix")
  /\ \/ /\ token = "["
        /\ Push
        /\ GetToken
        /\ Goto(<<It("expr"), Expect("]"), It("pop"), It("postfix")>>)
     \/ token \in {"++", "--"} /\ GetToken /\ UNCHANGED <<ctl, sp>>
     \/ token \notin {"[", "++", "--"} /\ Stay /\ Goto(<<>>) /\ UNCHANGED sp
  /\ UNCHANGED <<symbols, lab, loops, code>>

Primary ==
  /\ At("primary")
  /\ GetToken
  /\ \/ token \in Number /\ Goto(<<>>) /\ UNCHANGED lab
     \/ token = "string" /\ Goto(<<>>) /\ lab' = lab + 1
     \/ token \in Names /\ Goto(<<With("name", token)>>) /\ UNCHANGED lab
     \/ token = "(" /\ Goto(<<It("expr"), Expect(")")>>) /\ UNCHANGED lab
  /\ UNCHANGED <<symbols, sp, loops, code>>

\* name( is a call, whatever the name; anything else a use of a variable
NameUse ==
  /\ At("name")
  /\ \/ token = "(" /\ GetToken /\ Goto(<<It("callOpen")>>)
     \/ token # "(" /\ Declared(Top.arg) /\ Stay /\ Goto(<<>>)
  /\ UNCHANGED <<symbols, sp, lab, loops, code>>

CallOpen ==
  /\ At("callOpen")
  /\ Stay
  /\ Goto(IF token = ")" THEN <<Count("callClose", 0)>>
          ELSE <<It("expr"), Count("callArg", 0)>>)
  /\ UNCHANGED <<symbols, sp, lab, loops, code>>

\* push(); nargs++; if (token == ',') token = gettoken();
CallArg ==
  /\ At("callArg")
  /\ Push
  /\ \/ token = "," /\ GetToken
     \/ token # "," /\ Stay
  /\ Goto(<<Piece("callMore", token, Top.n + 1, 0, 0, 0)>>)
  /\ UNCHANGED <<symbols, lab, loops, code>>

\* while (token == ',')
CallMore ==
  /\ At("callMore")
  /\ Stay
  /\ Goto(IF token = "," THEN <<It("expr"), Count("callArg", Top.n)>>
          ELSE <<Count("callClose", Top.n)>>)
  /\ UNCHANGED <<symbols, sp, lab, loops, code>>
\* Mutant: the pop loop stops before argument 0.
CallClosePopsLess ==
  /\ At("callClose")
  /\ token = ")"
  /\ GetToken
  /\ sp' = IF Top.n > 0 THEN sp + Word * (Top.n - 1) ELSE sp
  /\ Goto(<<>>)
  /\ UNCHANGED <<symbols, lab, loops, code>>

\* the pop loop starts at nargs-1 and gives up at once past the last register
CallClose ==
  /\ At("callClose")
  /\ token = ")"
  /\ GetToken
  /\ sp' = IF Top.n <= RegArgs THEN sp + Word * Top.n ELSE sp
  /\ Goto(<<>>)
  /\ UNCHANGED <<symbols, lab, loops, code>>

-----------------------------------------------------------------------------
(* error(): every test that calls it; the program exits at once *)

Rejects ==
  \/ At("expect") /\ token # Top.arg
  \/ status = "run" /\ Top.at \in {"progName", "localName"} /\ token \notin Names
  \/ At("addressOf") /\ ~(token \in Names /\ Declared(token))
  \/ At("dimSize") /\ token \notin Number
  \/ At("declare") /\ TableFull
  \/ At("funcOpen") /\ token # "{"
  \/ At("whileHead") /\ token # "("
  \/ status = "run" /\ Top.at \in {"ifTest", "whileTest", "callClose"} /\ token # ")"
  \/ status = "run" /\ Top.at \in {"break", "continue"} /\ wsp = 0
  \/ At("name") /\ token # "(" /\ ~Declared(Top.arg)
  \/ At("primary") /\ token \notin Number \cup Names \cup {"string", "("}

ErrorExit ==
  /\ Rejects
  /\ status' = "error"
  /\ UNCHANGED <<token, ntok, ctl, symbols, sp, lab, loops, code>>

-----------------------------------------------------------------------------
Init ==
  /\ token = "none" /\ ntok = 0 /\ status = "run"
  /\ ctl = <<It("start")>>
  /\ globals = <<>> /\ locals = <<>>
  /\ sp = 0 /\ lab = 1
  /\ wsp = 0
  /\ breaklab = [i \in 0..(MaxWhile - 1) |-> 0]
  /\ contlab = [i \in 0..(MaxWhile - 1) |-> 0]
  /\ code = <<>>

Declarations == Start \/ Program \/ ProgramName \/ ProgramKind \/ Dimension
                \/ DimensionSize \/ Declare
FunctionParts == SkipParams \/ FunctionOpen \/ Locals \/ LocalName \/ LocalNext \/ Body
Statements == ExpectToken \/ Statement \/ Block \/ ReturnValue \/ IfTest \/ IfElse
              \/ IfEnd \/ WhileHead \/ WhileOverrun \/ WhileTest \/ WhileEnd \/ LeaveLoop
Expressions == Expression \/ Assignment \/ BinaryLoop \/ Pop \/ Unary \/ AddressOf
               \/ Postfix \/ Primary \/ NameUse \/ CallOpen \/ CallArg \/ CallMore
               \/ CallClose

\* the process has exited
Stopped == status # "run" /\ UNCHANGED vars

Next == Declarations \/ FunctionParts \/ Statements \/ Expressions \/ ErrorExit \/ Stopped

Spec == Init /\ [][Next]_vars

\* one thread of control that runs until it exits
FairSpec == Spec /\ WF_vars(Next)

-----------------------------------------------------------------------------
(* Properties *)

Places == {"start", "program", "progName", "progKind", "dim", "dimSize", "declare",
  "params", "funcOpen", "locals", "localName", "localNext", "body", "stmt", "expect",
  "block", "returnValue", "ifTest", "ifElse", "ifEnd", "whileHead", "whileTest",
  "whileEnd", "break", "continue", "expr", "assign", "level", "pop", "unary",
  "addressOf", "postfix", "primary", "name", "callOpen", "callArg", "callMore",
  "callClose"}
Token == Names \cup Reserved
Item == [at : Places, arg : Token \cup {""}, n : Nat, l1 : Nat, l2 : Nat, slot : Nat]
Symbol == [name : Token \cup {""}, offset : Int, size : Nat]
Instruction == [op : {"entry", "label", "jump", "jz"}, l : Nat, sp : Int]

\* Types of the compiler's globals, of its C stack and of its output.  add_symbol()
\* makes its checks before it writes an entry: no table grows past its limit.
TypeOK ==
  /\ token \in Token /\ ntok \in 0..MaxTokens
  /\ status \in {"run", "done", "error", "overrun"}
  /\ ctl \in Seq(Item) /\ ctl # <<>>
  /\ globals \in Seq(Symbol) /\ locals \in Seq(Symbol)
  /\ Len(globals) <= MaxGlobals /\ Len(locals) <= MaxLocals
  /\ sp \in Int /\ lab \in Nat \ {0}
  /\ wsp \in 0..MaxWhile
  /\ breaklab \in [0..(MaxWhile - 1) -> Nat]
  /\ contlab \in [0..(MaxWhile - 1) -> Nat]
  /\ code \in Seq(Instruction)

OpenLoops == {i \in DOMAIN ctl : ctl[i].at = "whileEnd"}

\* break and continue use breaklab[wsp-1] and contlab[wsp-1] (statement()):
\* whenever a loop is being compiled these are the labels of the innermost
\* one, and outside every loop wsp is 0, so both are rejected there.  The
\* unchecked write past the arrays needs MAXWHILE loops already open.
InnermostLoop ==
  /\ wsp = 0 => OpenLoops = {}
  /\ wsp > 0 => \E i \in OpenLoops :
        /\ \A j \in OpenLoops : i <= j
        /\ breaklab[wsp - 1] = ctl[i].l2
        /\ contlab[wsp - 1] = ctl[i].l1
  /\ status = "overrun" => wsp = MaxWhile

LabelAt(l) == {i \in DOMAIN code : code[i].op = "label" /\ code[i].l = l}
JumpsAt == {i \in DOMAIN code : code[i].op \in {"jump", "jz"}}
Entries == {i \in DOMAIN code : code[i].op = "entry"}

\* labels some active call of statement() still has to emit
Owed == {ctl[i].l1 : i \in {k \in DOMAIN ctl : ctl[k].at \in {"ifElse", "ifEnd"}}}
        \cup {ctl[i].l2 : i \in OpenLoops}

\* The assembler gets a file it can resolve: no label is emitted twice, and
\* every jump's label is emitted in the jump's own function, or is one that an
\* active statement() emits before the function ends.
JumpsLand ==
  /\ \A i, j \in DOMAIN code :
       code[i].op = "label" /\ code[j].op = "label" /\ code[i].l = code[j].l => i = j
  /\ \A j \in JumpsAt :
       \/ \E i \in LabelAt(code[j].l) :
            \A e \in Entries : (e < i) <=> (e < j)
       \/ /\ Top.at # "program"
          /\ code[j].l \in Owed
          /\ \A e \in Entries : e < j

\* Loops are entered only through their head: a jump back to a label spans
\* code that no jump from outside enters.  A conditional jump goes forward.
SingleEntry ==
  \A j \in JumpsAt : \A h \in LabelAt(code[j].l) :
    h < j => /\ code[j].op = "jump"
             /\ \A k \in JumpsAt \ (h..j) : \A p \in LabelAt(code[k].l) : ~(h < p /\ p < j)

LocalBase == IF locals = <<>> THEN 0 ELSE locals[Len(locals)].offset

\* A jump and its label are emitted with the same number of temporaries on
\* the run-time stack, and between two statements there is none: push() and
\* pop() are paired on every path through the expression routines.  (The loop that
\* pops the arguments of a call gives up when there are more than registers; it would
\* break this if NextArgument held.)
StackBalanced ==
  /\ \A j \in JumpsAt : \A i \in LabelAt(code[j].l) : code[i].sp = code[j].sp
  /\ At("stmt") \/ At("body") \/ At("block") => sp = LocalBase

\* Compilation ends on every file, accepted or rejected, except when the file
\* ends inside a parameter list: function()'s skipping loop never leaves it.
Halts == <>[](status # "run" \/ (Top.at = "params" /\ token = EOF))

\* Symbols draw their numbers from the same counter as jumps (add_symbol(),
\* statement()): no two declarations of the file have the same one, wherever they
\* stand, and none has a number that is emitted as a label.
OwnNumbers ==
  \A i \in DOMAIN globals :
    /\ globals[i].offset < lab /\ LabelAt(globals[i].offset) = {}
    /\ \A j \in DOMAIN globals : globals[j].offset = globals[i].offset => i = j

-----------------------------------------------------------------------------
(* What the repository's documents say of scc.c, and what it does not do *)

\* test.c:92: min(10, 20).  When an argument of a call is followed by a comma and a name,
\* the compiler goes on to compile the second argument.
NextArgument == (At("callMore") /\ Top.arg = "," /\ token \in Names) ~> At("expr")

\* COMPARISON.md:13: local variables.  A variable declared in a body has its entry in the
\* table of locals and its place below the frame pointer (scc.c:51: "stack offset for
\* locals").
LocalsInFrame == At("localNext") => locals # <<>> /\ sp < 0

\* Of every file, one of the two can be said at least.  A file that breaks this breaks
\* each of them: neither claim of the documents holds of the compiler.
SomeClaimHolds == []LocalsInFrame \/ NextArgument
=============================================================================
