---------------------------- MODULE SccEnhanced ----------------------------
(***************************************************************************)
(* The enhanced compiler scc_enhanced.c, read as a stack machine in the    *)
(* way SccParser reads scc.c: ctl is the C call stack, its head the next   *)
(* piece of straight-line code to run, and an action runs one piece.       *)
(*                                                                         *)
(* Kept: every token test, error exit, table and its limit, push and pop,  *)
(* label number, the loop stack, and tokstr, which the parser reads after  *)
(* the lexer may have overwritten it.  Of the emitted text function        *)
(* entries, labels, jumps and calls are kept (variable code), each with    *)
(* the value of sp at its emission.                                        *)
(***************************************************************************)
EXTENDS Integers, Sequences

CONSTANTS
  Names,       \* identifiers; a T_IDENT token is represented by its spelling
  Tokens,      \* tokens a source file may hold (EOF comes by itself)
  MaxTokens,   \* bound: tokens in the file
  Word,        \* bytes of one push: 8 (TARGET_X64) or 16 (TARGET_ARM64)
  RegArgs,     \* registers for arguments: 6 or 8
  MaxArgs, MaxLocals, MaxGlobals, MaxFuncs, MaxWhile   \* MAXARGS, ..., MAXWHILE

EOF == "EOF"
Unknown == "?"    \* text gettoken() refuses: a stray character, an open string ...
Types == {"int", "char"}
Number == {"0", "2", "65537"}
NumVal == [t \in Number |-> CASE t = "0" -> 0 [] t = "2" -> 2 [] OTHER -> 65537]
MaxArray == 65536

Keywords == Types \cup {"if", "else", "while", "for", "return", "break", "continue"}
Reserved == Keywords \cup Number \cup {EOF, Unknown, "none", "string", "charlit",
  "++", "--", "(", ")", "[", "]", "{", "}", ",", ";", ".", "=", "+=", "-=", "*=",
  "/=", "!", "~", "&&", "||", "|", "^", "&", "==", "!=", "<", ">", "<=", ">=",
  "<<", ">>", "+", "-", "*", "/", "%"}

ASSUME NamesAssumption == Names \cap Reserved = {}
ASSUME TokensAssumption == Tokens \subseteq (Names \cup Reserved) \ {EOF, "none"}
ASSUME BoundsAssumption ==
  /\ MaxTokens \in Nat /\ Word \in Nat \ {0} /\ RegArgs \in Nat /\ MaxArgs \in Nat
  /\ MaxWhile \in Nat \ {0} /\ MaxLocals \in Nat /\ MaxGlobals \in Nat /\ MaxFuncs \in Nat

VARIABLES
  token, tokstr, ntok,      \* lookahead token; last word or string; tokens read
  status,                   \* "run", "done" (exit(0)), "error" (exit(1))
  ctl,                      \* pieces of code still to run, innermost first
  globals, locals,          \* symbol tables; nglobals, nlocals are their lengths
  param_offset,             \* add_symbol() takes a name for a parameter below 16
  functions,                \* names of the function table; its length is nfuncs
  sp, lab,                  \* compile-time stack offset; next label number
  wsp, breaklab, contlab,   \* the loop stack
  code,                     \* entries, labels, jumps and calls emitted so far
  unpopped                  \* history: arguments pushed and never popped

input == <<token, tokstr, ntok, status>>
symbols == <<globals, locals, param_offset>>
loops == <<wsp, breaklab, contlab>>
vars == <<input, ctl, symbols, functions, sp, lab, loops, code, unpopped>>

-----------------------------------------------------------------------------
(* Pieces of code *)

\* at: which piece; arg: a token or name it holds; typ: a declared type;
\* n: a level, count or size; l1, l2: labels in the routine's local variables;
\* slot: wsp at loop entry or length of code at a call, for the properties.
Piece(a, t, y, k, lab1, lab2, s) ==
  [at |-> a, arg |-> t, typ |-> y, n |-> k, l1 |-> lab1, l2 |-> lab2, slot |-> s]
It(a) == Piece(a, "", "int", 0, 0, 0, 0)
With(a, t) == Piece(a, t, "int", 0, 0, 0, 0)
Declarator(a, t, y, k) == Piece(a, t, y, k, 0, 0, 0)
Count(a, k) == Piece(a, "", "int", k, 0, 0, 0)
Labelled(a, lab1, lab2) == Piece(a, "", "int", 0, lab1, lab2, 0)

\* if (token != t) error(...); token = gettoken();
Expect(t) == With("expect", t)

At(a) == status = "run" /\ Head(ctl).at = a
AtAny(places) == status = "run" /\ Head(ctl).at \in places
Top == Head(ctl)
Goto(pieces) == ctl' = pieces \o Tail(ctl)

\* words and string literals are spelled in tokstr
Spelled == Names \cup Keywords \cup {"string"}

\* token = gettoken(); at end of file it keeps answering T_EOF
GetToken ==
  \E t \in IF token = EOF \/ ntok = MaxTokens THEN {EOF} ELSE Tokens \cup {EOF} :
    /\ token' = t
    /\ tokstr' = IF t \in Spelled THEN t ELSE tokstr
    /\ ntok' = IF t = EOF THEN ntok ELSE ntok + 1
    /\ status' = IF t = Unknown THEN "error" ELSE "run"
Stay == UNCHANGED input

Push == sp' = sp - Word
Instr(op, l, name) == [op |-> op, l |-> l, name |-> name, sp |-> sp]
Jump(op, l) == Instr(op, l, "")
Label(l) == Instr("label", l, "")
Emit(instrs) == code' = code \o instrs

\* lookup(): locals, then globals; lookup_func()
Declared(name) ==
  \/ \E i \in DOMAIN locals : locals[i].name = name
  \/ \E i \in DOMAIN globals : globals[i].name = name
IsFunction(name) == \E i \in DOMAIN functions : functions[i] = name

\* the local table is used only when it already holds an entry or for parameters
LocalTable == locals # <<>> \/ param_offset < 16
Symbol(name, type, size, offset, param) ==
  [name |-> name, type |-> type, size |-> size, offset |-> offset, isparam |-> param]

AddSymbol(name, type, size) ==
  IF ~LocalTable
  THEN /\ Len(globals) < MaxGlobals
       /\ globals' = Append(globals, Symbol(name, type, size, lab, FALSE))
       /\ lab' = lab + 1
       /\ UNCHANGED <<locals, param_offset, sp>>
  ELSE /\ ~(locals # <<>> /\ Declared(name))
       /\ Len(locals) < MaxLocals
       /\ IF param_offset < 16
          THEN /\ locals' = Append(locals, Symbol(name, type, size, param_offset, TRUE))
               /\ param_offset' = param_offset + 8
               /\ UNCHANGED sp
          ELSE /\ sp' = sp - 8 * (IF size > 0 THEN size ELSE 1)
               /\ locals' = Append(locals, Symbol(name, type, size, sp', FALSE))
               /\ UNCHANGED param_offset
       /\ UNCHANGED <<globals, lab>>

AddSymbolFails(name) ==
  IF LocalTable THEN Len(locals) >= MaxLocals \/ (locals # <<>> /\ Declared(name))
                ELSE Len(globals) >= MaxGlobals
-----------------------------------------------------------------------------
(* program() and global_declaration() *)

Start ==
  /\ At("start")
  /\ GetToken
  /\ Goto(<<It("program")>>)
  /\ UNCHANGED <<symbols, functions, sp, lab, loops, code, unpopped>>

\* Mutant: the loop over the file's declarations runs once.
ProgramOnce ==
  /\ At("program")
  /\ token # EOF
  /\ Stay
  /\ Goto(<<It("progName")>>)
  /\ UNCHANGED <<symbols, functions, sp, lab, loops, code, unpopped>>

Program ==
  /\ At("program")
  /\ \/ /\ token \in Types
        /\ GetToken
        /\ Goto(<<Declarator("progName", "", token, 0), It("program")>>)
     \/ /\ token \notin Types \cup {EOF}
        /\ Stay
        /\ Goto(<<It("progName"), It("program")>>)
  /\ UNCHANGED <<symbols, functions, sp, lab, loops, code, unpopped>>

\* The end of the file; without main() error() closes the input file a second
\* time, and whatever that does the program exits with a failure.
EndOfFile ==
  /\ At("program")
  /\ token = EOF
  /\ status' = IF IsFunction("main") THEN "done" ELSE "error"
  /\ UNCHANGED <<token, tokstr, ntok, ctl, symbols, functions, sp, lab, loops, code, unpopped>>

ProgramName ==
  /\ At("progName")
  /\ token \in Names
  /\ GetToken
  /\ Goto(<<Declarator("progKind", token, Top.typ, 0)>>)
  /\ UNCHANGED <<symbols, functions, sp, lab, loops, code, unpopped>>

\* Mutant: a function may be defined again.
BeginFunctionAgain ==
  /\ At("progKind")
  /\ token = "("
  /\ functions' = IF IsFunction(Top.arg) THEN functions ELSE Append(functions, Top.arg)
  /\ GetToken
  /\ Emit(<<Instr("entry", 0, Top.arg)>>)
  /\ param_offset' = 16
  /\ Goto(<<Count("params", 0)>>)
  /\ UNCHANGED <<globals, locals, sp, lab, loops, unpopped>>

\* every entry of the function table was defined when it was made
BeginFunction ==
  /\ At("progKind")
  /\ token = "("
  /\ ~IsFunction(Top.arg) /\ Len(functions) < MaxFuncs
  /\ functions' = Append(functions, Top.arg)
  /\ GetToken
  /\ Emit(<<Instr("entry", 0, Top.arg)>>)
  /\ param_offset' = 16
  /\ Goto(<<Count("params", 0)>>)
  /\ UNCHANGED <<globals, locals, sp, lab, loops, unpopped>>

\* global_declaration() takes the name from tokstr, one token after it
GlobalVariable ==
  /\ At("progKind")
  /\ token # "("
  /\ Stay
  /\ Goto(<<Declarator("dim", tokstr, Top.typ, 0), Declarator("globalInit", Top.arg, Top.typ, 0),
            With("globalEnd", Top.arg)>>)
  /\ UNCHANGED <<symbols, functions, sp, lab, loops, code, unpopped>>

\* the optional [size] of a declarator, then add_symbol()
Dimension ==
  /\ At("dim")
  /\ \/ token = "[" /\ GetToken /\ Goto(<<Declarator("dimSize", Top.arg, Top.typ, 0)>>)
     \/ token # "[" /\ Stay /\ Goto(<<Declarator("declare", Top.arg, Top.typ, 0)>>)
  /\ UNCHANGED <<symbols, functions, sp, lab, loops, code, unpopped>>

IsSize(t) == t \in Number /\ NumVal[t] > 0 /\ NumVal[t] <= MaxArray

DimensionSize ==
  /\ At("dimSize")
  /\ IsSize(token)
  /\ GetToken
  /\ Goto(<<Expect("]"), Declarator("declare", Top.arg, Top.typ, NumVal[token])>>)
  /\ UNCHANGED <<symbols, functions, sp, lab, loops, code, unpopped>>

Declare ==
  /\ At("declare")
  /\ AddSymbol(Top.arg, Top.typ, Top.n)
  /\ Stay
  /\ Goto(<<>>)
  /\ UNCHANGED <<functions, loops, code, unpopped>>

GlobalInit ==
  /\ At("globalInit")
  /\ \/ token = "=" /\ GetToken /\ Goto(<<It("globalValue")>>)
     \/ token # "=" /\ Stay /\ Goto(<<>>)
  /\ UNCHANGED <<symbols, functions, sp, lab, loops, code, unpopped>>

\* the symbol just added decides whether a string may initialise it
StringFits ==
  /\ token = "string"
  /\ globals[Len(globals)].type = "char" /\ globals[Len(globals)].size > 0

GlobalValue ==
  /\ At("globalValue")
  /\ StringFits \/ token \in Number \cup {"charlit"}
  /\ GetToken
  /\ Goto(<<>>)
  /\ UNCHANGED <<symbols, functions, sp, lab, loops, code, unpopped>>

GlobalEnd ==
  /\ At("globalEnd")
  /\ token = ";"
  /\ GetToken
  /\ Goto(<<>>)
  /\ UNCHANGED <<symbols, functions, sp, lab, loops, code, unpopped>>

-----------------------------------------------------------------------------
(* function() and parameter_list() *)

Parameters ==
  /\ At("params")
  /\ \/ token = ")" /\ GetToken /\ Goto(<<It("funcOpen")>>)
     \/ token \in Types /\ GetToken /\ Goto(<<Declarator("paramName", "", token, Top.n)>>)
     \/ token \notin Types \cup {")"} /\ Stay /\ Goto(<<Count("paramName", Top.n)>>)
  /\ UNCHANGED <<symbols, functions, sp, lab, loops, code, unpopped>>

ParameterName ==
  /\ At("paramName")
  /\ token \in Names
  /\ Top.n < MaxArgs
  /\ AddSymbol(token, Top.typ, 0)
  /\ GetToken
  /\ Goto(<<Count("paramNext", Top.n + 1)>>)
  /\ UNCHANGED <<functions, loops, code, unpopped>>

ParameterNext ==
  /\ At("paramNext")
  /\ \/ token = "," /\ GetToken
     \/ token = ")" /\ Stay
  /\ Goto(<<Count("params", Top.n)>>)
  /\ UNCHANGED <<symbols, functions, sp, lab, loops, code, unpopped>>

FunctionOpen ==
  /\ At("funcOpen")
  /\ token = "{"
  /\ GetToken
  /\ sp' = 0
  /\ unpopped' = 0
  /\ Goto(<<It("locals")>>)
  /\ UNCHANGED <<symbols, functions, lab, loops, code>>

Locals ==
  /\ At("locals")
  /\ \/ token \in Types /\ GetToken /\ Goto(<<Declarator("localName", "", token, 0)>>)
     \/ token \notin Types /\ Stay /\ Goto(<<It("body")>>)
  /\ UNCHANGED <<symbols, functions, sp, lab, loops, code, unpopped>>

LocalName ==
  /\ At("localName")
  /\ token \in Names
  /\ GetToken
  /\ Goto(<<Declarator("dim", token, Top.typ, 0), Declarator("localInit", "", Top.typ, 0)>>)
  /\ UNCHANGED <<symbols, functions, sp, lab, loops, code, unpopped>>

LocalInit ==
  /\ At("localInit")
  /\ LET next == Declarator("localNext", "", Top.typ, 0)
     IN \/ token = "=" /\ GetToken /\ Goto(<<It("expr"), next>>)
        \/ token # "=" /\ Stay /\ Goto(<<next>>)
  /\ UNCHANGED <<symbols, functions, sp, lab, loops, code, unpopped>>

LocalNext ==
  /\ At("localNext")
  /\ \/ token = "," /\ GetToken /\ Goto(<<Declarator("localName", "", Top.typ, 0)>>)
     \/ token # "," /\ Stay /\ Goto(<<Expect(";"), It("locals")>>)
  /\ UNCHANGED <<symbols, functions, sp, lab, loops, code, unpopped>>

Body ==
  /\ At("body")
  /\ \/ token # "}" /\ Stay /\ Goto(<<It("stmt"), It("body")>>) /\ UNCHANGED locals
     \/ token = "}" /\ GetToken /\ Goto(<<>>) /\ locals' = <<>>
  /\ UNCHANGED <<globals, param_offset, functions, sp, lab, loops, code, unpopped>>

-----------------------------------------------------------------------------
(* statement(), one action per case and one per return from a call in it *)

ExpectToken ==
  /\ At("expect")
  /\ token = Top.arg
  /\ GetToken
  /\ Goto(<<>>)
  /\ UNCHANGED <<symbols, functions, sp, lab, loops, code, unpopped>>

StmtStart == {"{", "if", "while", "for", "return", "break", "continue", ";"}

\* Mutant: nothing stops statement() at the end of the file.
StatementAtEnd ==
  /\ At("stmt")
  /\ Stay
  /\ Goto(IF token = EOF THEN <<>> ELSE <<It("expr"), Expect(";")>>)
  /\ UNCHANGED <<symbols, functions, sp, lab, loops, code, unpopped>>

Statement ==
  /\ At("stmt")
  /\ \/ /\ token \in StmtStart
        /\ GetToken
        /\ \/ token = "{" /\ Goto(<<It("block")>>)
           \/ token = "if" /\ Goto(<<Expect("("), It("expr"), It("ifTest")>>)
           \/ token = "while" /\ Goto(<<It("whileHead")>>)
           \/ token = "for" /\ Goto(<<It("forHead")>>)
           \/ token = "return" /\ Goto(<<It("returnValue")>>)
           \/ token = "break" /\ Goto(<<Expect(";"), It("break")>>)
           \/ token = "continue" /\ Goto(<<Expect(";"), It("continue")>>)
           \/ token = ";" /\ Goto(<<>>)
     \/ /\ token \notin StmtStart \cup {EOF}
        /\ Stay
        /\ Goto(<<It("expr"), Expect(";")>>)
  /\ UNCHANGED <<symbols, functions, sp, lab, loops, code, unpopped>>

Block ==
  /\ At("block")
  /\ \/ token \notin {"}", EOF} /\ Stay /\ Goto(<<It("stmt"), It("block")>>)
     \/ token = "}" /\ GetToken /\ Goto(<<>>)
  /\ UNCHANGED <<symbols, functions, sp, lab, loops, code, unpopped>>

ReturnValue ==
  /\ At("returnValue")
  /\ Stay
  /\ Goto(IF token = ";" THEN <<Expect(";")>> ELSE <<It("expr"), Expect(";")>>)
  /\ UNCHANGED <<symbols, functions, sp, lab, loops, code, unpopped>>

IfTest ==
  /\ At("ifTest")
  /\ token = ")"
  /\ GetToken
  /\ lab' = lab + 1
  /\ Emit(<<Jump("jz", lab)>>)
  /\ Goto(<<It("stmt"), Labelled("ifElse", lab, 0)>>)
  /\ UNCHANGED <<symbols, functions, sp, loops, unpopped>>

IfElse ==
  /\ At("ifElse")
  /\ \/ /\ token = "else"
        /\ GetToken
        /\ lab' = lab + 1
        /\ Emit(<<Jump("jump", lab), Label(Top.l1)>>)
        /\ Goto(<<It("stmt"), Labelled("ifEnd", lab, 0)>>)
     \/ /\ token # "else"
        /\ Stay
        /\ Emit(<<Label(Top.l1)>>)
        /\ Goto(<<>>)
        /\ UNCHANGED lab
  /\ UNCHANGED <<symbols, functions, sp, loops, unpopped>>

IfEnd ==
  /\ At("ifEnd")
  /\ Stay
  /\ Emit(<<Label(Top.l1)>>)
  /\ Goto(<<>>)
  /\ UNCHANGED <<symbols, functions, sp, lab, loops, unpopped>>

\* a loop's entry on the loop stack: where break and continue go
OpenLoop(break, continue) ==
  /\ breaklab' = [breaklab EXCEPT ![wsp] = break]
  /\ contlab' = [contlab EXCEPT ![wsp] = continue]
  /\ wsp' = wsp + 1

\* lab1 is the loop's start, lab2 its end
WhileHead ==
  /\ At("whileHead")
  /\ token = "("
  /\ wsp < MaxWhile
  /\ GetToken
  /\ lab' = lab + 2
  /\ OpenLoop(lab + 1, lab)
  /\ Emit(<<Label(lab)>>)
  /\ LET end == Piece("whileEnd", "", "int", 0, lab, lab + 1, wsp)
     IN Goto(<<It("expr"), Labelled("whileTest", 0, lab + 1), It("stmt"), end>>)
  /\ UNCHANGED <<symbols, functions, sp, unpopped>>

WhileTest ==
  /\ At("whileTest")
  /\ token = ")"
  /\ GetToken
  /\ Emit(<<Jump("jz", Top.l2)>>)
  /\ Goto(<<>>)
  /\ UNCHANGED <<symbols, functions, sp, lab, loops, unpopped>>

\* Mutant: the loop is left on the loop stack.
WhileEndNoPop ==
  /\ At("whileEnd")
  /\ Stay
  /\ Emit(<<Jump("jump", Top.l1), Label(Top.l2)>>)
  /\ Goto(<<>>)
  /\ UNCHANGED <<symbols, functions, sp, lab, loops, unpopped>>

WhileEnd ==
  /\ At("whileEnd")
  /\ Stay
  /\ Emit(<<Jump("jump", Top.l1), Label(Top.l2)>>)
  /\ wsp' = wsp - 1
  /\ Goto(<<>>)
  /\ UNCHANGED <<symbols, functions, sp, lab, breaklab, contlab, unpopped>>

ForHead ==
  /\ At("forHead")
  /\ token = "("
  /\ wsp < MaxWhile
  /\ GetToken
  /\ Goto(<<It("forInit")>>)
  /\ UNCHANGED <<symbols, functions, sp, lab, loops, code, unpopped>>

ForInit ==
  /\ At("forInit")
  /\ Stay
  /\ LET rest == <<Expect(";"), It("forLoop")>>
     IN Goto(IF token = ";" THEN rest ELSE <<It("expr")>> \o rest)
  /\ UNCHANGED <<symbols, functions, sp, lab, loops, code, unpopped>>

\* lab1 is the loop's start, lab2 its end, lab3 the increment
ForLoop ==
  /\ At("forLoop")
  /\ Stay
  /\ lab' = lab + 3
  /\ OpenLoop(lab + 1, lab + 2)
  /\ Emit(<<Label(lab)>>)
  /\ LET rest == <<Expect(";"), Piece("forSkip", "", "int", 0, lab + 2, lab + 1, wsp)>>
     IN Goto(IF token = ";" THEN rest
             ELSE <<It("expr"), Labelled("forTest", 0, lab + 1)>> \o rest)
  /\ UNCHANGED <<symbols, functions, sp, unpopped>>

ForTest ==
  /\ At("forTest")
  /\ Stay
  /\ Emit(<<Jump("jz", Top.l2)>>)
  /\ Goto(<<>>)
  /\ UNCHANGED <<symbols, functions, sp, lab, loops, unpopped>>

\* The increment's first token is read already.  The text behind it is skipped to
\* the ')' that closes the parenthesis, which is looked for on the same line (see
\* Rejects); then the token read before the skipping must be ')', and the next
\* token is the ')' the skipping stopped at.
ForSkip ==
  /\ At("forSkip")
  /\ token = ")"
  /\ UNCHANGED input
  /\ Goto(<<It("stmt"), [Top EXCEPT !.at = "forTail"]>>)
  /\ UNCHANGED <<symbols, functions, sp, lab, loops, code, unpopped>>

LeaveLoop ==
  /\ \/ At("break") /\ wsp > 0 /\ Emit(<<Jump("jump", breaklab[wsp - 1])>>)
     \/ At("continue") /\ wsp > 0 /\ Emit(<<Jump("jump", contlab[wsp - 1])>>)
  /\ Stay
  /\ Goto(<<>>)
  /\ UNCHANGED <<symbols, functions, sp, lab, loops, unpopped>>

-----------------------------------------------------------------------------
(* Expressions *)

LogicalOr == {"||"}
LogicalAnd == {"&&"}
BitwiseOr == {"|"}
BitwiseXor == {"^"}
BitwiseAnd == {"&"}
Equality == {"==", "!="}
Relational == {"<", ">", "<=", ">="}
Shift == {"<<", ">>"}
Additive == {"+", "-"}
Multiplicative == {"*", "/", "%"}
Levels == <<LogicalOr, LogicalAnd, BitwiseOr, BitwiseXor, BitwiseAnd,
            Equality, Relational, Shift, Additive, Multiplicative>>

\* The call of level k's routine calls down to unary() before anything else;
\* the loops of levels 10, 9, ..., k then run as the calls return.
Operand(k) == <<It("unary")>> \o [i \in 1..(11 - k) |-> Count("level", 11 - i)]

Expression ==
  /\ At("expr")
  /\ Stay
  /\ Goto(Operand(1) \o <<It("assign")>>)
  /\ UNCHANGED <<symbols, functions, sp, lab, loops, code, unpopped>>

Compound == {"+=", "-=", "*=", "/="}

\* Mutant: the second push of a compound assignment is not counted.
AssignmentOnePush ==
  /\ At("assign")
  /\ \/ /\ token \in {"="} \cup Compound
        /\ Push
        /\ GetToken
        /\ Goto(<<It("expr"), Count("pop", IF token = "=" THEN 1 ELSE 2), It("assign")>>)
     \/ token \notin {"="} \cup Compound /\ Stay /\ Goto(<<>>) /\ UNCHANGED sp
  /\ UNCHANGED <<symbols, functions, lab, loops, code, unpopped>>

\* a compound assignment pushes the address and then the old value
Assignment ==
  /\ At("assign")
  /\ \/ token = "=" /\ Push /\ GetToken /\ Goto(<<It("expr"), Count("pop", 1), It("assign")>>)
     \/ /\ token \in Compound
        /\ sp' = sp - 2 * Word
        /\ GetToken
        /\ Goto(<<It("expr"), Count("pop", 2), It("assign")>>)
     \/ token \notin {"="} \cup Compound /\ Stay /\ Goto(<<>>) /\ UNCHANGED sp
  /\ UNCHANGED <<symbols, functions, lab, loops, code, unpopped>>

\* while (token is an operator of level n) { push(); gettoken(); operand; pop }
BinaryLoop ==
  /\ At("level")
  /\ Top.n > 2
  /\ \/ /\ token \in Levels[Top.n]
        /\ Push
        /\ GetToken
        /\ Goto(Operand(Top.n + 1) \o <<Count("pop", 1), Top>>)
     \/ /\ token \notin Levels[Top.n]
        /\ Stay
        /\ Goto(<<>>)
        /\ UNCHANGED sp
  /\ UNCHANGED <<symbols, functions, lab, loops, code, unpopped>>

\* || and && keep nothing on the stack: they jump over the right operand
ShortCircuit ==
  /\ At("level")
  /\ Top.n <= 2
  /\ \/ /\ token \in Levels[Top.n]
        /\ lab' = lab + 2
        /\ Emit(<<Jump(IF Top.n = 1 THEN "jnz" ELSE "jz", lab)>>)
        /\ GetToken
        /\ Goto(Operand(Top.n + 1) \o
                <<Labelled(IF Top.n = 1 THEN "orEnd" ELSE "andEnd", lab, lab + 1), Top>>)
     \/ token \notin Levels[Top.n] /\ Stay /\ Goto(<<>>) /\ UNCHANGED <<lab, code>>
  /\ UNCHANGED <<symbols, functions, sp, loops, unpopped>>

\* Mutant: && emits its end label in front of the constant 0, and not its second.
ShortCircuitOneLabel ==
  /\ \/ At("orEnd") /\ Emit(<<Label(Top.l1), Label(Top.l2)>>)
     \/ At("andEnd") /\ Emit(<<Jump("jump", Top.l2), Label(Top.l1)>>)
  /\ Stay
  /\ Goto(<<>>)
  /\ UNCHANGED <<symbols, functions, sp, lab, loops, unpopped>>

ShortCircuitEnd ==
  /\ \/ At("orEnd") /\ Emit(<<Label(Top.l1), Label(Top.l2)>>)
     \/ At("andEnd") /\ Emit(<<Jump("jump", Top.l2), Label(Top.l1), Label(Top.l2)>>)
  /\ Stay
  /\ Goto(<<>>)
  /\ UNCHANGED <<symbols, functions, sp, lab, loops, unpopped>>

Pop ==
  /\ At("pop")
  /\ sp' = sp + Word * Top.n
  /\ Stay
  /\ Goto(<<>>)
  /\ UNCHANGED <<symbols, functions, lab, loops, code, unpopped>>

Prefix == {"!", "~", "-", "*", "++", "--"}

Unary ==
  /\ At("unary")
  /\ \/ token \in Prefix /\ GetToken /\ Goto(<<It("unary")>>)
     \/ token = "&" /\ GetToken /\ Goto(<<It("addressOf")>>)
     \/ token \notin Prefix \cup {"&"} /\ Stay /\ Goto(<<It("primary"), It("postfix")>>)
  /\ UNCHANGED <<symbols, functions, sp, lab, loops, code, unpopped>>

AddressOf ==
  /\ At("addressOf")
  /\ token \in Names /\ Declared(token)
  /\ GetToken
  /\ Goto(<<>>)
  /\ UNCHANGED <<symbols, functions, sp, lab, loops, code, unpopped>>

\* the callee is whatever tokstr holds when the '(' is met
Postfix ==
  /\ At("postfix")
  /\ \/ /\ token = "["
        /\ Push
        /\ GetToken
        /\ Goto(<<It("expr"), Expect("]"), Count("pop", 1), It("postfix")>>)
     \/ token \in {"++", "--"} /\ GetToken /\ UNCHANGED <<ctl, sp>>
     \/ token = "(" /\ GetToken /\ Goto(<<With("args", tokstr), It("postfix")>>) /\ UNCHANGED sp
     \/ token \notin {"[", "++", "--", "("} /\ Stay /\ Goto(<<>>) /\ UNCHANGED sp
  /\ UNCHANGED <<symbols, functions, lab, loops, code, unpopped>>

\* Counting the arguments in the text ahead leaves no trace: the position and the
\* line number are restored and the count is not used.
Arguments ==
  /\ At("args")
  /\ Stay
  /\ \/ /\ token \notin {")", EOF}
        /\ Top.n < MaxArgs
        /\ Goto(<<It("expr"), Declarator("arg", Top.arg, "int", Top.n)>>)
     \/ token \in {")", EOF} /\ Goto(<<Declarator("call", Top.arg, "int", Top.n)>>)
  /\ UNCHANGED <<symbols, functions, sp, lab, loops, code, unpopped>>

Argument ==
  /\ At("arg")
  /\ Push
  /\ \/ token = "," /\ GetToken
     \/ token = ")" /\ Stay
  /\ Goto(<<Declarator("args", Top.arg, "int", Top.n + 1)>>)
  /\ UNCHANGED <<symbols, functions, lab, loops, code, unpopped>>

\* the pop loop starts at arg_count-1 and gives up at once past the last register
Call ==
  /\ At("call")
  /\ token = ")"
  /\ GetToken
  /\ IF Top.n <= RegArgs
     THEN sp' = sp + Word * Top.n /\ UNCHANGED unpopped
     ELSE unpopped' = unpopped + Top.n /\ UNCHANGED sp
  /\ Emit(<<Instr("call", 0, Top.arg)>>)
  /\ Goto(<<>>)
  /\ UNCHANGED <<symbols, functions, lab, loops>>

Primary ==
  /\ At("primary")
  /\ GetToken
  /\ \/ token \in Number \cup {"charlit"} /\ Goto(<<>>) /\ UNCHANGED lab
     \/ token = "string" /\ Goto(<<>>) /\ lab' = lab + 1
     \/ token \in Names /\ Goto(<<With("name", token)>>) /\ UNCHANGED lab
     \/ token = "(" /\ Goto(<<It("expr"), Expect(")")>>) /\ UNCHANGED lab
  /\ UNCHANGED <<symbols, functions, sp, loops, code, unpopped>>

\* name( : tokstr is set back to the name and postfix() called, which begins with
\* primary(), so that the arguments are read as an expression in parentheses
NameUse ==
  /\ At("name")
  /\ \/ /\ token = "("
        /\ tokstr' = Top.arg
        /\ UNCHANGED <<token, ntok, status>>
        /\ Goto(<<It("primary"), It("postfix"),
                  Piece("called", Top.arg, "int", 0, 0, 0, Len(code))>>)
     \/ token # "(" /\ (Declared(Top.arg) \/ IsFunction(Top.arg)) /\ Stay /\ Goto(<<>>)
  /\ UNCHANGED <<symbols, functions, sp, lab, loops, code, unpopped>>

\* primary() returns from the call it made for name(
Called ==
  /\ At("called")
  /\ Stay
  /\ Goto(<<>>)
  /\ UNCHANGED <<symbols, functions, sp, lab, loops, code, unpopped>>

-----------------------------------------------------------------------------
(* error(): every test that calls it; the program exits at once, and what the *)
(* callers do after the call never runs                                      *)

Rejects ==
  \/ At("expect") /\ token # Top.arg
  \/ AtAny({"progName", "paramName", "localName"}) /\ token \notin Names
  \/ At("progKind") /\ token = "(" /\ (IsFunction(Top.arg) \/ Len(functions) >= MaxFuncs)
  \/ At("dimSize") /\ ~IsSize(token)
  \/ At("declare") /\ AddSymbolFails(Top.arg)
  \/ At("paramName") /\ (Top.n >= MaxArgs \/ AddSymbolFails(token))
  \/ At("globalValue") /\ ~(StringFits \/ token \in Number \cup {"charlit"})
  \/ At("globalEnd") /\ token # ";"
  \/ AtAny({"paramNext", "arg"}) /\ token \notin {",", ")"}
  \/ At("funcOpen") /\ token # "{"
  \/ AtAny({"stmt", "block"}) /\ token = EOF
  \/ AtAny({"ifTest", "whileTest", "call"}) /\ token # ")"
  \/ AtAny({"whileHead", "forHead"}) /\ (token # "(" \/ wsp >= MaxWhile)
  \/ At("forSkip")          \* no ')' for it on this line, or token is not ')'
  \/ AtAny({"break", "continue"}) /\ wsp = 0
  \/ At("args") /\ token \notin {")", EOF} /\ Top.n >= MaxArgs
  \/ At("addressOf") /\ ~(token \in Names /\ Declared(token))
  \/ At("name") /\ token # "(" /\ ~Declared(Top.arg) /\ ~IsFunction(Top.arg)
  \/ At("primary") /\ token \notin Number \cup Names \cup {"charlit", "string", "("}

ErrorExit ==
  /\ Rejects
  /\ status' = "error"
  /\ UNCHANGED <<token, tokstr, ntok, ctl, symbols, functions, sp, lab, loops, code, unpopped>>

-----------------------------------------------------------------------------
Init ==
  /\ token = "none" /\ tokstr = "" /\ ntok = 0 /\ status = "run"
  /\ ctl = <<It("start")>>
  /\ globals = <<>> /\ locals = <<>> /\ functions = <<>>
  /\ param_offset = 16
  /\ sp = 0 /\ lab = 1
  /\ wsp = 0
  /\ breaklab = [i \in 0..(MaxWhile - 1) |-> 0]
  /\ contlab = [i \in 0..(MaxWhile - 1) |-> 0]
  /\ code = <<>> /\ unpopped = 0

Declarations == Start \/ Program \/ EndOfFile \/ ProgramName \/ BeginFunction
                \/ GlobalVariable \/ Dimension \/ DimensionSize \/ Declare
                \/ GlobalInit \/ GlobalValue \/ GlobalEnd
FunctionParts == Parameters \/ ParameterName \/ ParameterNext \/ FunctionOpen
                 \/ Locals \/ LocalName \/ LocalInit \/ LocalNext \/ Body
Statements == ExpectToken \/ Statement \/ Block \/ ReturnValue \/ IfTest \/ IfElse
              \/ IfEnd \/ WhileHead \/ WhileTest \/ WhileEnd \/ ForHead \/ ForInit
              \/ ForLoop \/ ForTest \/ ForSkip \/ LeaveLoop
Expressions == Expression \/ Assignment \/ BinaryLoop \/ ShortCircuit
               \/ ShortCircuitEnd \/ Pop \/ Unary \/ AddressOf \/ Postfix \/ Arguments
               \/ Argument \/ Call \/ Primary \/ NameUse \/ Called

\* the process has exited
Stopped == status # "run" /\ UNCHANGED vars

Next == Declarations \/ FunctionParts \/ Statements \/ Expressions \/ ErrorExit \/ Stopped

Spec == Init /\ [][Next]_vars

\* one thread of control that runs until it exits
FairSpec == Spec /\ WF_vars(Next)

-----------------------------------------------------------------------------
(* Properties *)

Places == {"start", "program", "progName", "progKind", "dim", "dimSize", "declare",
  "globalInit", "globalValue", "globalEnd", "params", "paramName", "paramNext",
  "funcOpen", "locals", "localName", "localInit", "localNext", "body", "stmt",
  "expect", "block", "returnValue", "ifTest", "ifElse", "ifEnd", "whileHead",
  "whileTest", "whileEnd", "forHead", "forInit", "forLoop", "forTest", "forSkip",
  "forTail", "break", "continue", "expr", "assign", "level", "orEnd", "andEnd",
  "pop", "unary", "addressOf", "postfix", "args", "arg", "call", "primary", "name",
  "called"}
Token == Names \cup Reserved \cup {""}
Item == [at : Places, arg : Token, typ : Types, n : Nat, l1 : Nat, l2 : Nat, slot : Nat]
SymbolType == [name : Token, type : Types, size : Nat, offset : Int, isparam : BOOLEAN]
Instruction == [op : {"entry", "label", "jump", "jz", "jnz", "call"}, l : Nat,
                name : Token, sp : Int]

\* Types of the compiler's globals, of its C stack and of its output.
TypeOK ==
  /\ token \in Token /\ tokstr \in Token /\ ntok \in 0..MaxTokens
  /\ status \in {"run", "done", "error"}
  /\ ctl \in Seq(Item) /\ ctl # <<>>
  /\ globals \in Seq(SymbolType) /\ Len(globals) <= MaxGlobals
  /\ locals \in Seq(SymbolType) /\ param_offset \in Nat
  /\ functions \in Seq(Names) /\ Len(functions) <= MaxFuncs
  /\ sp \in Int /\ lab \in Nat \ {0} /\ unpopped \in Nat
  /\ wsp \in 0..MaxWhile
  /\ breaklab \in [0..(MaxWhile - 1) -> Nat]
  /\ contlab \in [0..(MaxWhile - 1) -> Nat]
  /\ code \in Seq(Instruction)

OpenLoops == {i \in DOMAIN ctl : ctl[i].at \in {"whileEnd", "forSkip", "forTail"}}

\* break and continue use breaklab[wsp-1] and contlab[wsp-1] (statement()): these
\* are the labels of the innermost loop being compiled, and wsp is the number of
\* such loops, so that both are rejected outside a loop and never overrun.
InnermostLoop ==
  /\ wsp = 0 => OpenLoops = {}
  /\ wsp > 0 => \E i \in OpenLoops :
        /\ \A j \in OpenLoops : i <= j
        /\ ctl[i].slot = wsp - 1
        /\ breaklab[wsp - 1] = ctl[i].l2
        /\ contlab[wsp - 1] = ctl[i].l1

LabelAt(l) == {i \in DOMAIN code : code[i].op = "label" /\ code[i].l = l}
JumpsAt == {i \in DOMAIN code : code[i].op \in {"jump", "jz", "jnz"}}
Entries == {i \in DOMAIN code : code[i].op = "entry"}

\* labels some active call still has to emit
Owed == UNION {{ctl[i].l1, ctl[i].l2} : i \in {k \in DOMAIN ctl :
          ctl[k].at \in {"ifElse", "ifEnd", "whileEnd", "orEnd", "andEnd", "forSkip", "forTail"}}}

\* The assembler gets a file it can resolve: statements and the || and && operators
\* share one label counter, no label is emitted twice, and every jump's label is
\* emitted in the jump's own function or owed by an active call.
JumpsLand ==
  /\ \A i, j \in DOMAIN code :
       code[i].op = "label" /\ code[j].op = "label" /\ code[i].l = code[j].l => i = j
  /\ \A j \in JumpsAt :
       \/ \E i \in LabelAt(code[j].l) : \A e \in Entries : (e < i) <=> (e < j)
       \/ /\ ctl[1].at # "program"
          /\ code[j].l \in Owed
          /\ \A e \in Entries : e < j

\* push() and pop() are paired on every path through the expression routines, the two
\* pushes of a compound assignment included, except that a call with more arguments
\* than registers pops none of them.
StackBalanced ==
  /\ AtAny({"stmt", "body", "block"}) => sp = -(Word * unpopped)
  /\ unpopped > 0 => MaxArgs > RegArgs

\* A name is entered in the output at most once as a function, never past MAXFUNCS
\* names, and an accepted file enters main.
FunctionTable ==
  /\ \A i, j \in Entries : code[i].name = code[j].name => i = j
  /\ \A i \in Entries : IsFunction(code[i].name)
  /\ status = "done" => \E i \in Entries : code[i].name = "main"

\* Compilation ends on every file, accepted or rejected.
Halts == <>(status # "run")

-----------------------------------------------------------------------------
(* What the repository's documents say of scc_enhanced.c, and what it does not do *)

\* BUILD_GUIDE.md:164: max(10, 20) calls max.  A name followed by '(' is compiled to a
\* call of that name.
CallsCompiled ==
  At("called") => \E i \in (Top.slot + 1)..Len(code) : code[i].op = "call" /\ code[i].name = Top.arg

\* COMPARISON.md:30: for; test_enhanced.c:42: for (i = 0; i < 3; i++).  A for statement is
\* not refused at the name its increment begins with.
ForCompiled == ~(status = "error" /\ Top.at = "forSkip" /\ token \in Names)

\* In fact the body of a for statement is never compiled to its end, on any file: the
\* increment's first token is read before the skipping starts, so an increment is
\* refused, and without one the body is taken to begin with the ')'.
ForRejected == ~At("forTail")

\* COMPARISON.md:12-13: function parameters (full support), local variables.  The parameter
\* or the variable a function has just declared has an entry in the table of locals.
LocalsInFrame == AtAny({"paramNext", "localInit"}) => locals # <<>>

\* Of every file, one of the three can be said at least.  A file that breaks this breaks
\* each of them: none of these claims of the documents holds of the compiler.
SomeClaimHolds == []CallsCompiled \/ []ForCompiled \/ []LocalsInFrame
=============================================================================
