------------------------- MODULE SccEnhancedProofs -------------------------
(***************************************************************************)
(* Theorems about SccEnhanced, for every token set and every bound.        *)
(*                                                                         *)
(*   Inv       types, the loop stack, and the symbol table: break and      *)
(*             continue always find the innermost loop, while or for.      *)
(*   Room      the loop stack has a place for every for statement begun.   *)
(*   TableInv  the function table and the entries emitted.                 *)
(*   HeldInv   what holds while a for statement's body is compiled.        *)
(*   LabelInv  the labels: what the pieces on the C stack still owe, and   *)
(*             what has been emitted (the theory is in CompilerLemmas).    *)
(*   DepthInv  the words pushed on the run-time stack.                     *)
(***************************************************************************)
EXTENDS SccEnhanced, CompilerLemmas, TLAPS

-----------------------------------------------------------------------------
(* Kinds of pieces *)

\* the bottom of the C stack is program(), which never returns before EOF
Outermost == {"start", "program"}

\* pieces of program() and global_declaration(): no function is open below them
FileLevel == {"start", "program", "progName", "progKind", "globalInit", "globalValue",
  "globalEnd"}
\* pieces that run between two statements or as a part of a declaration
Between == {"dim", "dimSize", "declare", "params", "paramName", "paramNext", "funcOpen",
  "locals", "localName", "localInit", "localNext", "body", "stmt", "block", "returnValue",
  "ifTest", "whileHead", "forHead", "forInit", "forLoop", "break", "continue"}
\* pieces that run inside an expression, and expect()
Inner == {"expect", "expr", "assign", "level", "unary", "addressOf", "postfix", "primary",
  "name", "called"}

\* pieces of an open loop, which hold its place on the loop stack
LoopAt == {"whileEnd", "forSkip", "forTail"}
\* pieces that stand for labels, and those that stand for words pushed
Owing == LoopAt \cup {"ifElse", "ifEnd", "orEnd", "andEnd"}
Testing == {"whileTest", "forTest"}
Weighing == {"pop", "args", "arg", "call"}
Laden == Owing \cup Testing \cup Weighing

\* where nothing is pushed
StatementLevel == FileLevel \cup Between \cup LoopAt \cup Testing \cup {"ifElse", "ifEnd"}

\* what a piece holds in its fields
Sound(x) ==
  /\ x.at = "progKind" => x.arg \in Names
  /\ x.at \in {"args", "call"} => x.n <= MaxArgs
  /\ x.at = "arg" => x.n < MaxArgs

LEMMA Kinds ==
  /\ Inner \subseteq Places /\ Between \subseteq Places /\ FileLevel \subseteq Places
  /\ Laden \subseteq Places
  /\ \A a \in Inner : a \notin Laden /\ a \notin FileLevel /\ a \notin StatementLevel
  /\ \A a \in Between : a \notin Laden /\ a \notin FileLevel /\ a \in StatementLevel
  /\ \A a \in FileLevel : a \notin Laden /\ a \in StatementLevel
  /\ \A a \in Laden : a \notin FileLevel /\ a \notin Outermost
  /\ Outermost \subseteq FileLevel
<1>1. Inner \subseteq Places /\ Between \subseteq Places /\ FileLevel \subseteq Places
  BY DEF Inner, Between, FileLevel, Places
<1>2. Laden \subseteq Places
  BY DEF Laden, Owing, LoopAt, Testing, Weighing, Places
<1>3. \A a \in Inner : a \notin Laden /\ a \notin FileLevel /\ a \notin StatementLevel
  BY DEF Inner, Laden, Owing, LoopAt, Testing, Weighing, FileLevel, StatementLevel, Between
<1>4. \A a \in Between : a \notin Laden /\ a \notin FileLevel /\ a \in StatementLevel
  BY DEF Laden, Owing, LoopAt, Testing, Weighing, FileLevel, StatementLevel, Between
<1>5. \A a \in FileLevel : a \notin Laden /\ a \in StatementLevel
  BY DEF Laden, Owing, LoopAt, Testing, Weighing, FileLevel, StatementLevel
<1>6. Outermost \subseteq FileLevel
  BY DEF Outermost, FileLevel
<1> QED
  BY <1>1, <1>2, <1>3, <1>4, <1>5, <1>6

-----------------------------------------------------------------------------
(* The invariant *)

Bottom == ctl[Len(ctl)].at \in Outermost

\* The first w entries of breaklab/contlab, read from the top, are the labels of the
\* open loops of a call stack c, read from the innermost.
LoopStackOf(c, w, b, k) ==
  /\ \A i \in DOMAIN c : c[i].at \in LoopAt =>
       c[i].slot < w /\ b[c[i].slot] = c[i].l2 /\ k[c[i].slot] = c[i].l1
  /\ \A i, j \in DOMAIN c :
       c[i].at \in LoopAt /\ c[j].at \in LoopAt /\ i < j => c[i].slot > c[j].slot
  /\ \A s \in 0..(w - 1) : \E i \in DOMAIN c : c[i].at \in LoopAt /\ c[i].slot = s
LoopStack == LoopStackOf(ctl, wsp, breaklab, contlab)

\* every symbol is a global with a number drawn from the label counter
Globals ==
  /\ locals = <<>> /\ param_offset = 16
  /\ \A i \in DOMAIN globals : globals[i].offset > 0 /\ ~globals[i].isparam

Inv ==
  /\ TypeOK
  /\ Bottom
  /\ \A i \in DOMAIN ctl : Sound(ctl[i])
  /\ LoopStack
  /\ Globals

\* the C stack, its innermost piece and what is below it
LEMMA StackFacts ==
  ASSUME Inv
  PROVE  /\ ctl \in Seq(Item) /\ ctl # <<>> /\ Top = ctl[1] /\ 1 \in DOMAIN ctl
         /\ DOMAIN ctl = 1..Len(ctl) /\ Len(ctl) \in Nat
         /\ Top \in Item /\ Sound(Top) /\ Tail(ctl) \in Seq(Item)
         /\ code \in Seq(Instruction)
<1>1. ctl \in Seq(Item) /\ ctl # <<>> /\ code \in Seq(Instruction)
  BY DEF Inv, TypeOK
<1>2. /\ Top = ctl[1] /\ 1 \in DOMAIN ctl /\ DOMAIN ctl = 1..Len(ctl) /\ Len(ctl) \in Nat
      /\ Tail(ctl) \in Seq(Item)
  BY <1>1 DEF Top
<1>3. ctl[1] \in Item
  BY <1>1, <1>2
<1> QED
  BY <1>1, <1>2, <1>3 DEF Inv

LEMMA TopType ==
  ASSUME Inv
  PROVE  /\ Top.at \in Places /\ Top.arg \in Token /\ Top.typ \in Types /\ Top.n \in Nat
         /\ Top.l1 \in Nat /\ Top.l2 \in Nat /\ Top.slot \in Nat
         /\ token \in Token /\ tokstr \in Token /\ lab \in Nat \ {0} /\ sp \in Int
         /\ unpopped \in Nat /\ Word \in Nat /\ wsp \in Nat
<1>1. Top \in Item
  BY StackFacts
<1>2. /\ token \in Token /\ tokstr \in Token /\ lab \in Nat \ {0} /\ sp \in Int
      /\ unpopped \in Nat
  BY DEF Inv, TypeOK
<1>3. Word \in Nat /\ wsp \in Nat
  BY BoundsAssumption DEF Inv, TypeOK
<1> QED
  BY <1>1, <1>2, <1>3 DEF Item

LEMMA TopNumbers ==
  ASSUME Inv
  PROVE  /\ Top.n + 1 \in Nat /\ Word * Top.n \in Int
         /\ lab \in Nat /\ lab + 1 \in Nat \ {0} /\ lab + 2 \in Nat \ {0}
         /\ lab + 3 \in Nat \ {0}
         /\ sp - Word \in Int /\ sp - 2 * Word \in Int /\ sp + Word * Top.n \in Int
         /\ unpopped + Top.n \in Nat
<1>1. Top.n \in Nat /\ lab \in Nat \ {0} /\ sp \in Int /\ Word \in Nat /\ unpopped \in Nat
  BY TopType
<1>2. \A x \in Nat, y \in Nat : x + 1 \in Nat /\ x * y \in Int /\ x + y \in Nat /\ 2 * x \in Int
  OBVIOUS
<1>3. \A x \in Nat \ {0} : x + 1 \in Nat \ {0} /\ x + 2 \in Nat \ {0} /\ x + 3 \in Nat \ {0}
  OBVIOUS
<1>4. \A x \in Int, y \in Int : x - y \in Int /\ x + y \in Int
  OBVIOUS
<1>5. Top.n + 1 \in Nat /\ Word * Top.n \in Int /\ unpopped + Top.n \in Nat /\ 2 * Word \in Int
  BY <1>1, <1>2
<1>6. sp - Word \in Int /\ sp - 2 * Word \in Int /\ sp + Word * Top.n \in Int
  BY <1>1, <1>4, <1>5
<1> QED
  BY <1>1, <1>3, <1>5, <1>6

LEMMA TokenConstants ==
  /\ \A t \in {")", "]", ";", "(", ""} : t \in Token
  /\ Names \subseteq Token
BY DEF Token, Reserved

-----------------------------------------------------------------------------
(* Pieces put in the place of the innermost one *)

\* a piece that may be put in the place of one of kind a: no label, no word pushed
Fits(x, a) ==
  /\ x \in Item /\ Sound(x) /\ x.at \notin Laden
  /\ x.at \in FileLevel => a \in FileLevel
  /\ x.at \in StatementLevel => a \in StatementLevel
  /\ x.at \in {"forInit", "forLoop"} => a \in {"forHead", "forInit"}
Calm(p, a) == p \in Seq(Item) /\ \A i \in DOMAIN p : Fits(p[i], a)

\* program()'s piece stays at the bottom
Founded(p, a) == a \in Outermost => p # <<>> /\ p[Len(p)].at \in Outermost

LEMMA FitsAll ==
  ASSUME NEW a, NEW b, b # "progKind",
         b \in {"forInit", "forLoop"} => a \in {"forHead", "forInit"},
         b \in Inner \/ (b \in Between /\ a \in StatementLevel) \/ (b \in FileLevel /\ a \in FileLevel)
  PROVE  /\ Fits(It(b), a)
         /\ \A k \in Nat : Fits(Count(b, k), a)
         /\ \A t \in Token : Fits(With(b, t), a)
         /\ \A t \in Token, y \in Types, k \in Nat : Fits(Declarator(b, t, y, k), a)
         /\ \A t \in Token, s \in Nat : Fits(Piece(b, t, "int", 0, 0, 0, s), a)
<1>1. /\ b \in Places /\ b \notin Laden
      /\ b \in FileLevel => a \in FileLevel
      /\ b \in StatementLevel => a \in StatementLevel
  BY Kinds
<1>2. b \notin {"args", "arg", "call"}
  BY <1>1 DEF Laden, Weighing
<1>3. \A t \in Token, y \in Types, k, s \in Nat :
        /\ Piece(b, t, y, k, 0, 0, s) \in Item
        /\ Piece(b, t, y, k, 0, 0, s).at = b
  BY <1>1 DEF Piece, Item
<1> HIDE DEF Piece
<1>4. \A t \in Token, y \in Types, k, s \in Nat : Fits(Piece(b, t, y, k, 0, 0, s), a)
  BY <1>1, <1>2, <1>3 DEF Fits, Sound
<1>5. "" \in Token /\ "int" \in Types /\ 0 \in Nat
  BY TokenConstants DEF Types
<1> QED
  BY <1>4, <1>5 DEF It, Count, With, Declarator

LEMMA CalmShort ==
  ASSUME NEW a
  PROVE  /\ Calm(<<>>, a)
         /\ \A x : Fits(x, a) => Calm(<<x>>, a)
         /\ \A x, y : Fits(x, a) /\ Fits(y, a) => Calm(<<x, y>>, a)
         /\ \A x, y, z : Fits(x, a) /\ Fits(y, a) /\ Fits(z, a) => Calm(<<x, y, z>>, a)
<1>1. \A x : Fits(x, a) => x \in Item
  BY DEF Fits
<1> QED
  BY <1>1 DEF Calm

LEMMA CalmConcat ==
  ASSUME NEW a, NEW p, NEW q, Calm(p, a), Calm(q, a)
  PROVE  Calm(p \o q, a)
<1>1. p \in Seq(Item) /\ q \in Seq(Item)
  BY DEF Calm
<1>2. \A i \in DOMAIN (p \o q) : \/ i \in DOMAIN p /\ (p \o q)[i] = p[i]
                                 \/ i - Len(p) \in DOMAIN q /\ (p \o q)[i] = q[i - Len(p)]
  BY <1>1, Concatenated
<1>3. p \o q \in Seq(Item)
  BY <1>1
<1> QED
  BY <1>2, <1>3 DEF Calm

LEMMA CalmOperand ==
  ASSUME NEW a, NEW k \in Nat
  PROVE  Calm(Operand(k), a)
<1> DEFINE m == IF 11 - k >= 0 THEN 11 - k ELSE 0
           rest == [i \in 1..(11 - k) |-> Count("level", 11 - i)]
<1>1. 1..(11 - k) = 1..m /\ m \in Nat
  OBVIOUS
<1>2. \A n \in Nat : Fits(Count("level", n), a)
  BY FitsAll DEF Inner
<1>3. \A i \in 1..m : 11 - i \in Nat
  BY DEF m
<1>4. \A i \in 1..m : Fits(Count("level", 11 - i), a) /\ Count("level", 11 - i) \in Item
  BY <1>2, <1>3 DEF Fits
<1>5. rest \in Seq(Item) /\ DOMAIN rest = 1..m /\ \A i \in 1..m : rest[i] = Count("level", 11 - i)
  BY <1>1, <1>4
<1>6. Calm(rest, a)
  BY <1>4, <1>5 DEF Calm
<1>7. Calm(<<It("unary")>>, a)
  BY FitsAll, CalmShort DEF Inner
<1> QED
  BY <1>6, <1>7, CalmConcat DEF Operand
-----------------------------------------------------------------------------
(* The actions that push no word and owe no label: what they leave on the C stack *)

\* the stack changes at its head only, and calmly
Quiet ==
  /\ \/ \E p : Goto(p) /\ Calm(p, Top.at) /\ Founded(p, Top.at)
     \/ UNCHANGED ctl
  /\ Top.at \notin Laden
  /\ UNCHANGED loops

LEMMA MoveOn ==
  ASSUME NEW a \in Inner \cup Between \cup (FileLevel \ Outermost), At(a),
         NEW p, Goto(p), Calm(p, a), UNCHANGED loops
  PROVE  Quiet
<1>1. Top.at = a
  BY DEF At, Top
<1>2. a \notin Laden /\ a \notin Outermost
  BY Kinds
<1> QED
  BY <1>1, <1>2 DEF Quiet, Founded

LEMMA DeclarationMoves ==
  ASSUME Inv, Declarations
  PROVE  Quiet
<1>0. /\ Top.arg \in Token /\ tokstr \in Token /\ Top.typ \in Types /\ Top.n \in Nat
      /\ token \in Token /\ "]" \in Token /\ 0 \in Nat /\ "" \in Token
  BY TopType, TokenConstants
<1>1. CASE Start
  <2>1. Calm(<<It("program")>>, "start")
    BY FitsAll, CalmShort DEF FileLevel
  <2>2. Top.at = "start" /\ Goto(<<It("program")>>) /\ UNCHANGED loops
    BY <1>1 DEF Start, At, Top
  <2>3. Founded(<<It("program")>>, "start")
    BY DEF Founded, It, Piece, Outermost
  <2> QED
    BY <2>1, <2>2, <2>3, Kinds DEF Quiet, FileLevel
<1>2. CASE Program
  <2> DEFINE p == <<Declarator("progName", "", token, 0), It("program")>>
             q == <<It("progName"), It("program")>>
  <2>1. Calm(q, "program") /\ (token \in Types => Calm(p, "program"))
    <3>1. Fits(It("progName"), "program") /\ Fits(It("program"), "program")
      BY FitsAll DEF FileLevel
    <3>2. token \in Types => Fits(Declarator("progName", "", token, 0), "program")
      BY <1>0, FitsAll DEF FileLevel
    <3> QED
      BY <3>1, <3>2, CalmShort
  <2>2. Top.at = "program" /\ ((Goto(p) /\ token \in Types) \/ Goto(q)) /\ UNCHANGED loops
    BY <1>2 DEF Program, At, Top
  <2>3. Founded(p, "program") /\ Founded(q, "program")
    BY DEF Founded, It, Piece, Outermost
  <2> QED
    BY <2>1, <2>2, <2>3, Kinds DEF Quiet, FileLevel
<1>3. CASE EndOfFile
  <2>1. Top.at = "program" /\ UNCHANGED ctl /\ UNCHANGED loops
    BY <1>3 DEF EndOfFile, At, Top
  <2> QED
    BY <2>1, Kinds DEF Quiet, FileLevel
<1>4. CASE ProgramName
  <2> DEFINE x == Declarator("progKind", token, Top.typ, 0)
  <2>1. token \in Names /\ At("progName") /\ Goto(<<x>>) /\ UNCHANGED loops
    BY <1>4 DEF ProgramName
  <2>2. x \in Item /\ x.at = "progKind" /\ x.arg = token
    BY <1>0 DEF Declarator, Piece, Item, Places
  <2>3. Fits(x, "progName")
    BY <2>1, <2>2, Kinds DEF Fits, Sound, FileLevel
  <2>4. Calm(<<x>>, "progName")
    BY <2>3, CalmShort
  <2> QED
    BY <2>1, <2>4, MoveOn DEF FileLevel, Outermost
<1>5. CASE BeginFunction
  <2>1. Calm(<<Count("params", 0)>>, "progKind")
    BY <1>0, FitsAll, CalmShort DEF Between, StatementLevel, FileLevel
  <2> QED
    BY <1>5, <2>1, MoveOn DEF BeginFunction, FileLevel, Outermost
<1>6. CASE GlobalVariable
  <2> DEFINE x == Declarator("dim", tokstr, Top.typ, 0)
             y == Declarator("globalInit", Top.arg, Top.typ, 0)
             z == With("globalEnd", Top.arg)
  <2>1. Fits(x, "progKind") /\ Fits(y, "progKind") /\ Fits(z, "progKind")
    BY <1>0, FitsAll DEF FileLevel, Between, StatementLevel
  <2>2. Calm(<<x, y, z>>, "progKind")
    BY <2>1, CalmShort
  <2> QED
    BY <1>6, <2>2, MoveOn DEF GlobalVariable, FileLevel, Outermost
<1>7. CASE Dimension
  <2>1. /\ Calm(<<Declarator("dimSize", Top.arg, Top.typ, 0)>>, "dim")
        /\ Calm(<<Declarator("declare", Top.arg, Top.typ, 0)>>, "dim")
    BY <1>0, FitsAll, CalmShort DEF Between, StatementLevel
  <2> QED
    BY <1>7, <2>1, MoveOn DEF Dimension, Between
<1>8. CASE DimensionSize
  <2> DEFINE x == Declarator("declare", Top.arg, Top.typ, NumVal[token])
  <2>1. NumVal[token] \in Nat
    BY <1>8 DEF DimensionSize, IsSize, NumVal
  <2>2. Fits(Expect("]"), "dimSize") /\ Fits(x, "dimSize")
    BY <1>0, <2>1, FitsAll DEF Inner, Between, StatementLevel, Expect
  <2>3. Calm(<<Expect("]"), x>>, "dimSize")
    BY <2>2, CalmShort
  <2> QED
    BY <1>8, <2>3, MoveOn DEF DimensionSize, Between
<1>9. CASE Declare
  BY <1>9, CalmShort, MoveOn DEF Declare, Between
<1>10. CASE GlobalInit
  <2>1. Calm(<<It("globalValue")>>, "globalInit")
    BY FitsAll, CalmShort DEF FileLevel
  <2> QED
    BY <1>10, <2>1, CalmShort, MoveOn DEF GlobalInit, FileLevel, Outermost
<1>11. CASE GlobalValue
  BY <1>11, CalmShort, MoveOn DEF GlobalValue, FileLevel, Outermost
<1>12. CASE GlobalEnd
  BY <1>12, CalmShort, MoveOn DEF GlobalEnd, FileLevel, Outermost
<1> QED
  BY <1>1, <1>2, <1>3, <1>4, <1>5, <1>6, <1>7, <1>8, <1>9, <1>10, <1>11, <1>12
     DEF Declarations

LEMMA FunctionMoves ==
  ASSUME Inv, FunctionParts
  PROVE  Quiet
<1>0. /\ Top.typ \in Types /\ Top.n \in Nat /\ Top.n + 1 \in Nat /\ token \in Token
      /\ 0 \in Nat /\ "" \in Token /\ ";" \in Token
  BY TopType, TopNumbers, TokenConstants
<1>1. CASE Parameters
  <2>1. /\ Calm(<<It("funcOpen")>>, "params") /\ Calm(<<Count("paramName", Top.n)>>, "params")
        /\ token \in Types => Calm(<<Declarator("paramName", "", token, Top.n)>>, "params")
    BY <1>0, FitsAll, CalmShort DEF Between, StatementLevel
  <2> QED
    BY <1>1, <2>1, MoveOn DEF Parameters, Between
<1>2. CASE ParameterName
  <2>1. Calm(<<Count("paramNext", Top.n + 1)>>, "paramName")
    BY <1>0, FitsAll, CalmShort DEF Between, StatementLevel
  <2> QED
    BY <1>2, <2>1, MoveOn DEF ParameterName, Between
<1>3. CASE ParameterNext
  <2>1. Calm(<<Count("params", Top.n)>>, "paramNext")
    BY <1>0, FitsAll, CalmShort DEF Between, StatementLevel
  <2> QED
    BY <1>3, <2>1, MoveOn DEF ParameterNext, Between
<1>4. CASE FunctionOpen
  <2>1. Calm(<<It("locals")>>, "funcOpen")
    BY FitsAll, CalmShort DEF Between, StatementLevel
  <2> QED
    BY <1>4, <2>1, MoveOn DEF FunctionOpen, Between
<1>5. CASE Locals
  <2>1. /\ Calm(<<It("body")>>, "locals")
        /\ token \in Types => Calm(<<Declarator("localName", "", token, 0)>>, "locals")
    BY <1>0, FitsAll, CalmShort DEF Between, StatementLevel
  <2> QED
    BY <1>5, <2>1, MoveOn DEF Locals, Between
<1>6. CASE LocalName
  <2> DEFINE x == Declarator("dim", token, Top.typ, 0)
             y == Declarator("localInit", "", Top.typ, 0)
  <2>1. Fits(x, "localName") /\ Fits(y, "localName")
    BY <1>0, FitsAll DEF Between, StatementLevel
  <2>2. Calm(<<x, y>>, "localName")
    BY <2>1, CalmShort
  <2> QED
    BY <1>6, <2>2, MoveOn DEF LocalName, Between
<1>7. CASE LocalInit
  <2> DEFINE y == Declarator("localNext", "", Top.typ, 0)
  <2>1. Fits(It("expr"), "localInit") /\ Fits(y, "localInit")
    BY <1>0, FitsAll DEF Inner, Between, StatementLevel
  <2>2. Calm(<<It("expr"), y>>, "localInit") /\ Calm(<<y>>, "localInit")
    BY <2>1, CalmShort
  <2> QED
    BY <1>7, <2>2, MoveOn DEF LocalInit, Between
<1>8. CASE LocalNext
  <2> DEFINE x == Declarator("localName", "", Top.typ, 0)
  <2>1. /\ Fits(x, "localNext") /\ Fits(Expect(";"), "localNext")
        /\ Fits(It("locals"), "localNext")
    BY <1>0, FitsAll DEF Inner, Between, StatementLevel, Expect
  <2>2. Calm(<<x>>, "localNext") /\ Calm(<<Expect(";"), It("locals")>>, "localNext")
    BY <2>1, CalmShort
  <2> QED
    BY <1>8, <2>2, MoveOn DEF LocalNext, Between
<1>9. CASE Body
  <2>1. Fits(It("stmt"), "body") /\ Fits(It("body"), "body")
    BY FitsAll DEF Between, StatementLevel
  <2>2. Calm(<<It("stmt"), It("body")>>, "body") /\ Calm(<<>>, "body")
    BY <2>1, CalmShort
  <2> QED
    BY <1>9, <2>2, MoveOn DEF Body, Between
<1> QED
  BY <1>1, <1>2, <1>3, <1>4, <1>5, <1>6, <1>7, <1>8, <1>9 DEF FunctionParts

QuietStatements == ExpectToken \/ Statement \/ Block \/ ReturnValue \/ ForHead \/ ForInit

LEMMA StatementMoves ==
  ASSUME Inv, QuietStatements
  PROVE  Quiet
<1>0. ";" \in Token /\ "(" \in Token
  BY TokenConstants
<1>1. CASE ExpectToken
  BY <1>1, CalmShort, MoveOn DEF ExpectToken, Inner
<1>2. CASE Statement
  <2>1. /\ Fits(It("block"), "stmt") /\ Fits(It("whileHead"), "stmt") /\ Fits(It("forHead"), "stmt")
        /\ Fits(It("returnValue"), "stmt") /\ Fits(It("break"), "stmt")
        /\ Fits(It("continue"), "stmt") /\ Fits(It("ifTest"), "stmt") /\ Fits(It("expr"), "stmt")
        /\ Fits(Expect(";"), "stmt") /\ Fits(Expect("("), "stmt")
    BY <1>0, FitsAll DEF Inner, Between, StatementLevel, Expect
  <2>2. /\ Calm(<<It("block")>>, "stmt") /\ Calm(<<It("whileHead")>>, "stmt")
        /\ Calm(<<It("forHead")>>, "stmt") /\ Calm(<<>>, "stmt")
        /\ Calm(<<It("returnValue")>>, "stmt") /\ Calm(<<Expect(";"), It("break")>>, "stmt")
        /\ Calm(<<Expect(";"), It("continue")>>, "stmt") /\ Calm(<<It("expr"), Expect(";")>>, "stmt")
        /\ Calm(<<Expect("("), It("expr"), It("ifTest")>>, "stmt")
    BY <2>1, CalmShort
  <2>3. At("stmt") /\ UNCHANGED loops
    BY <1>2 DEF Statement
  <2>4. \E p : Goto(p) /\ Calm(p, "stmt")
    BY <1>2, <2>2 DEF Statement
  <2> QED
    BY <2>3, <2>4, MoveOn DEF Between
<1>3. CASE Block
  <2>1. Fits(It("stmt"), "block") /\ Fits(It("block"), "block")
    BY FitsAll DEF Between, StatementLevel
  <2>2. Calm(<<It("stmt"), It("block")>>, "block") /\ Calm(<<>>, "block")
    BY <2>1, CalmShort
  <2> QED
    BY <1>3, <2>2, MoveOn DEF Block, Between
<1>4. CASE ReturnValue
  <2>1. Fits(It("expr"), "returnValue") /\ Fits(Expect(";"), "returnValue")
    BY <1>0, FitsAll DEF Inner, Expect
  <2>2. Calm(<<Expect(";")>>, "returnValue") /\ Calm(<<It("expr"), Expect(";")>>, "returnValue")
    BY <2>1, CalmShort
  <2> QED
    BY <1>4, <2>2, MoveOn DEF ReturnValue, Between
<1>5. CASE ForHead
  <2>1. Calm(<<It("forInit")>>, "forHead")
    BY FitsAll, CalmShort DEF Between, StatementLevel
  <2> QED
    BY <1>5, <2>1, MoveOn DEF ForHead, Between
<1>6. CASE ForInit
  <2> DEFINE rest == <<Expect(";"), It("forLoop")>>
  <2>1. /\ Fits(It("expr"), "forInit") /\ Fits(Expect(";"), "forInit")
        /\ Fits(It("forLoop"), "forInit")
    BY <1>0, FitsAll DEF Inner, Between, StatementLevel, Expect
  <2>2. Calm(rest, "forInit") /\ Calm(<<It("expr")>>, "forInit")
    BY <2>1, CalmShort
  <2> HIDE DEF rest
  <2>3. Calm(<<It("expr")>> \o rest, "forInit")
    BY <2>2, CalmConcat
  <2>4. At("forInit") /\ (Goto(rest) \/ Goto(<<It("expr")>> \o rest)) /\ UNCHANGED loops
    BY <1>6 DEF ForInit, rest
  <2> QED
    BY <2>2, <2>3, <2>4, MoveOn DEF Between
<1> QED
  BY <1>1, <1>2, <1>3, <1>4, <1>5, <1>6 DEF QuietStatements

QuietExpressions == Expression \/ Unary \/ AddressOf \/ Primary \/ NameUse \/ Called

LEMMA ExpressionMoves ==
  ASSUME Inv, QuietExpressions
  PROVE  Quiet
<1>0. token \in Token /\ Top.arg \in Token /\ ")" \in Token
  BY TopType, TokenConstants
<1>1. CASE Expression
  <2>1. Calm(<<It("assign")>>, "expr") /\ Calm(Operand(1), "expr")
    BY FitsAll, CalmShort, CalmOperand DEF Inner
  <2>2. Calm(Operand(1) \o <<It("assign")>>, "expr")
    BY <2>1, CalmConcat
  <2> QED
    BY <1>1, <2>2, MoveOn DEF Expression, Inner
<1>2. CASE Unary
  <2>1. /\ Fits(It("unary"), "unary") /\ Fits(It("addressOf"), "unary")
        /\ Fits(It("primary"), "unary") /\ Fits(It("postfix"), "unary")
    BY FitsAll DEF Inner
  <2>2. /\ Calm(<<It("unary")>>, "unary") /\ Calm(<<It("addressOf")>>, "unary")
        /\ Calm(<<It("primary"), It("postfix")>>, "unary")
    BY <2>1, CalmShort
  <2> QED
    BY <1>2, <2>2, MoveOn DEF Unary, Inner
<1>3. CASE AddressOf
  BY <1>3, CalmShort, MoveOn DEF AddressOf, Inner
<1>4. CASE Primary
  <2>1. /\ Fits(With("name", token), "primary") /\ Fits(It("expr"), "primary")
        /\ Fits(Expect(")"), "primary")
    BY <1>0, FitsAll DEF Inner, Expect
  <2>2. /\ Calm(<<With("name", token)>>, "primary") /\ Calm(<<>>, "primary")
        /\ Calm(<<It("expr"), Expect(")")>>, "primary")
    BY <2>1, CalmShort
  <2> QED
    BY <1>4, <2>2, MoveOn DEF Primary, Inner
<1>5. CASE NameUse
  <2> DEFINE x == Piece("called", Top.arg, "int", 0, 0, 0, Len(code))
  <2>1. Len(code) \in Nat
    BY StackFacts
  <2>2. Fits(It("primary"), "name") /\ Fits(It("postfix"), "name") /\ Fits(x, "name")
    BY <1>0, <2>1, FitsAll DEF Inner
  <2>3. Calm(<<It("primary"), It("postfix"), x>>, "name") /\ Calm(<<>>, "name")
    BY <2>2, CalmShort
  <2> QED
    BY <1>5, <2>3, MoveOn DEF NameUse, Inner
<1>6. CASE Called
  BY <1>6, CalmShort, MoveOn DEF Called, Inner
<1> QED
  BY <1>1, <1>2, <1>3, <1>4, <1>5, <1>6 DEF QuietExpressions

QuietActions == Declarations \/ FunctionParts \/ QuietStatements \/ QuietExpressions

LEMMA QuietMoves ==
  ASSUME Inv, QuietActions
  PROVE  Quiet
BY DeclarationMoves, FunctionMoves, StatementMoves, ExpressionMoves DEF QuietActions
-----------------------------------------------------------------------------
(* The lookahead token and the tables *)

\* what an action does to the lookahead token and to the exit status
Reads ==
  \/ GetToken
  \/ Stay
  \/ tokstr' = Top.arg /\ UNCHANGED <<token, ntok, status>>
  \/ UNCHANGED <<token, tokstr, ntok>> /\ status' \in {"done", "error"}

LEMMA Reading == Next => Reads
<1>1. Declarations => Reads
  <2>1. \/ Start \/ Program \/ ProgramName \/ BeginFunction \/ GlobalVariable \/ Dimension
        => Reads
    BY DEF Start, Program, ProgramName, BeginFunction, GlobalVariable, Dimension, Reads
  <2>2. \/ DimensionSize \/ Declare \/ GlobalInit \/ GlobalValue \/ GlobalEnd => Reads
    BY DEF DimensionSize, Declare, GlobalInit, GlobalValue, GlobalEnd, Reads
  <2>3. EndOfFile => Reads
    BY DEF EndOfFile, Reads
  <2> QED
    BY <2>1, <2>2, <2>3 DEF Declarations
<1>2. FunctionParts => Reads
  BY DEF FunctionParts, Parameters, ParameterName, ParameterNext, FunctionOpen, Locals,
         LocalName, LocalInit, LocalNext, Body, Reads
<1>3. Statements => Reads
  <2>1. QuietStatements => Reads
    BY DEF QuietStatements, ExpectToken, Statement, Block, ReturnValue, ForHead, ForInit, Reads
  <2>2. IfTest \/ IfElse \/ IfEnd \/ WhileHead \/ WhileTest \/ WhileEnd => Reads
    BY DEF IfTest, IfElse, IfEnd, WhileHead, WhileTest, WhileEnd, Reads
  <2>3. ForLoop \/ ForTest \/ ForSkip \/ LeaveLoop => Reads
    BY DEF ForLoop, ForTest, ForSkip, LeaveLoop, Reads, Stay
  <2> QED
    BY <2>1, <2>2, <2>3 DEF Statements, QuietStatements
<1>4. Expressions => Reads
  <2>1. QuietExpressions => Reads
    BY DEF QuietExpressions, Expression, Unary, AddressOf, Primary, NameUse, Called, Reads
  <2>2. Assignment \/ BinaryLoop \/ ShortCircuit \/ ShortCircuitEnd \/ Pop => Reads
    BY DEF Assignment, BinaryLoop, ShortCircuit, ShortCircuitEnd, Pop, Reads
  <2>3. Postfix \/ Arguments \/ Argument \/ Call => Reads
    BY DEF Postfix, Arguments, Argument, Call, Reads
  <2> QED
    BY <2>1, <2>2, <2>3 DEF Expressions, QuietExpressions
<1>5. ErrorExit => Reads
  BY DEF ErrorExit, Reads
<1>6. Stopped => Reads
  BY DEF Stopped, vars, Reads, Stay
<1> QED
  BY <1>1, <1>2, <1>3, <1>4, <1>5, <1>6 DEF Next

LEMMA ReadsType ==
  ASSUME Inv, Reads
  PROVE  /\ token' \in Token /\ tokstr' \in Token /\ ntok' \in 0..MaxTokens
         /\ status' \in {"run", "done", "error"}
<1>1. /\ token \in Token /\ tokstr \in Token /\ ntok \in 0..MaxTokens
      /\ status \in {"run", "done", "error"}
  BY DEF Inv, TypeOK
<1>2. Tokens \cup {EOF} \subseteq Token
  BY TokensAssumption DEF Token, Reserved
<1>3. CASE GetToken
  BY <1>1, <1>2, <1>3, BoundsAssumption DEF GetToken
<1>4. CASE Stay
  BY <1>1, <1>4 DEF Stay, input
<1>5. CASE tokstr' = Top.arg /\ UNCHANGED <<token, ntok, status>>
  BY <1>1, <1>5, TopType
<1>6. CASE UNCHANGED <<token, tokstr, ntok>> /\ status' \in {"done", "error"}
  BY <1>1, <1>6
<1> QED
  BY <1>3, <1>4, <1>5, <1>6 DEF Reads

\* add_symbol(): the local table is never chosen
LEMMA SymbolAdded ==
  ASSUME Inv, NEW name \in Token, NEW type \in Types, NEW size \in Nat,
         AddSymbol(name, type, size)
  PROVE  /\ globals' \in Seq(SymbolType) /\ Len(globals') <= MaxGlobals
         /\ Globals' /\ lab' = lab + 1 /\ sp' = sp
<1> DEFINE s == Symbol(name, type, size, lab, FALSE)
<1>1. ~LocalTable
  BY DEF LocalTable, Inv, Globals
<1>2. /\ Len(globals) < MaxGlobals /\ globals' = Append(globals, s) /\ lab' = lab + 1
      /\ UNCHANGED <<locals, param_offset, sp>>
  BY <1>1 DEF AddSymbol
<1>3. s \in SymbolType /\ s.offset = lab /\ s.isparam = FALSE
  BY TopType DEF Symbol, SymbolType
<1> HIDE DEF s
<1>4. globals \in Seq(SymbolType) /\ MaxGlobals \in Nat
  BY BoundsAssumption DEF Inv, TypeOK
<1>5. /\ globals' \in Seq(SymbolType) /\ Len(globals') <= MaxGlobals
      /\ \A i \in DOMAIN globals' :
           (i \in DOMAIN globals /\ globals'[i] = globals[i]) \/ globals'[i] = s
  BY <1>2, <1>3, <1>4
<1>6. s.offset > 0 /\ ~s.isparam
  BY <1>3, TopType
<1>7. Globals'
  BY <1>2, <1>5, <1>6 DEF Globals, Inv
<1> QED
  BY <1>2, <1>5, <1>7

\* what the quiet actions do to the tables and to the numbers
TablesTyped ==
  /\ globals' \in Seq(SymbolType) /\ Len(globals') <= MaxGlobals /\ Globals'
  /\ functions' \in Seq(Names) /\ Len(functions') <= MaxFuncs

LEMMA TablesKept ==
  ASSUME Inv, UNCHANGED <<symbols, functions>>
  PROVE  TablesTyped
BY DEF Inv, TypeOK, Globals, TablesTyped, symbols

LEMMA QuietData ==
  ASSUME Inv, QuietActions
  PROVE  /\ TablesTyped
         /\ lab' = lab \/ lab' = lab + 1
         /\ UNCHANGED <<sp, unpopped>> \/ (At("funcOpen") /\ sp' = 0 /\ unpopped' = 0)
         /\ code' = code \/ BeginFunction
         /\ UNCHANGED functions \/ BeginFunction
<1>0. UNCHANGED <<symbols, functions, sp, lab, code, unpopped>>
      => /\ TablesTyped
         /\ lab' = lab \/ lab' = lab + 1
         /\ UNCHANGED <<sp, unpopped>> \/ (At("funcOpen") /\ sp' = 0 /\ unpopped' = 0)
         /\ code' = code \/ BeginFunction
         /\ UNCHANGED functions \/ BeginFunction
  BY TablesKept
<1>1. CASE Start \/ Program \/ EndOfFile \/ ProgramName \/ GlobalVariable \/ Dimension
           \/ DimensionSize \/ GlobalInit \/ GlobalValue \/ GlobalEnd
  BY <1>0, <1>1 DEF Start, Program, EndOfFile, ProgramName, GlobalVariable, Dimension,
           DimensionSize, GlobalInit, GlobalValue, GlobalEnd, symbols
<1>2. CASE BeginFunction
  <2>1. /\ At("progKind") /\ Len(functions) < MaxFuncs
        /\ functions' = Append(functions, Top.arg) /\ param_offset' = 16
        /\ UNCHANGED <<globals, locals, sp, lab, unpopped>>
    BY <1>2 DEF BeginFunction
  <2>2. Top.arg \in Names
    BY <2>1, StackFacts DEF Sound, At, Top
  <2>3. functions \in Seq(Names) /\ MaxFuncs \in Nat
    BY BoundsAssumption DEF Inv, TypeOK
  <2>4. functions' \in Seq(Names) /\ Len(functions') <= MaxFuncs
    BY <2>1, <2>2, <2>3
  <2>5. Globals' /\ globals' \in Seq(SymbolType) /\ Len(globals') <= MaxGlobals
    BY <2>1 DEF Inv, TypeOK, Globals
  <2> QED
    BY <1>2, <2>1, <2>4, <2>5 DEF TablesTyped
<1>3. CASE Declare
  <2>1. /\ AddSymbol(Top.arg, Top.typ, Top.n) /\ UNCHANGED <<functions, code, unpopped>>
    BY <1>3 DEF Declare
  <2>2. Top.arg \in Token /\ Top.typ \in Types /\ Top.n \in Nat
    BY TopType
  <2>3. /\ globals' \in Seq(SymbolType) /\ Len(globals') <= MaxGlobals
        /\ Globals' /\ lab' = lab + 1 /\ sp' = sp
    BY <2>1, <2>2, SymbolAdded
  <2> QED
    BY <2>1, <2>3 DEF TablesTyped, Inv, TypeOK
<1>4. CASE ParameterName
  <2>1. /\ AddSymbol(token, Top.typ, 0) /\ UNCHANGED <<functions, code, unpopped>>
    BY <1>4 DEF ParameterName
  <2>2. token \in Token /\ Top.typ \in Types /\ 0 \in Nat
    BY TopType
  <2>3. /\ globals' \in Seq(SymbolType) /\ Len(globals') <= MaxGlobals
        /\ Globals' /\ lab' = lab + 1 /\ sp' = sp
    BY <2>1, <2>2, SymbolAdded
  <2> QED
    BY <2>1, <2>3 DEF TablesTyped, Inv, TypeOK
<1>5. CASE Parameters \/ ParameterNext \/ Locals \/ LocalName \/ LocalInit \/ LocalNext
  BY <1>0, <1>5 DEF Parameters, ParameterNext, Locals, LocalName, LocalInit, LocalNext, symbols
<1>6. CASE FunctionOpen
  BY <1>6, TablesKept DEF FunctionOpen
<1>7. CASE Body
  <2>1. UNCHANGED <<globals, locals, param_offset, functions, sp, lab, code, unpopped>>
    BY <1>7 DEF Body, Inv, Globals
  <2> QED
    BY <1>0, <2>1 DEF symbols
<1>8. CASE QuietStatements
  BY <1>0, <1>8 DEF QuietStatements, ExpectToken, Statement, Block, ReturnValue, ForHead,
           ForInit, symbols
<1>9. CASE QuietExpressions
  <2>1. CASE Primary
    <3>1. UNCHANGED <<symbols, functions, sp, code, unpopped>> /\ (lab' = lab \/ lab' = lab + 1)
      BY <2>1 DEF Primary
    <3> QED
      BY <3>1, TablesKept
  <2>2. CASE Expression \/ Unary \/ AddressOf \/ NameUse \/ Called
    BY <1>0, <2>2 DEF Expression, Unary, AddressOf, NameUse, Called, symbols
  <2> QED
    BY <1>9, <2>1, <2>2 DEF QuietExpressions
<1> QED
  BY <1>1, <1>2, <1>3, <1>4, <1>5, <1>6, <1>7, <1>8, <1>9
     DEF QuietActions, Declarations, FunctionParts

\* well-typed instructions, and what emitting them does to code
LEMMA EmitType ==
  ASSUME Inv
  PROVE  /\ \A op \in {"entry", "label", "jump", "jz", "jnz", "call"}, l \in Nat, name \in Token :
               /\ Instr(op, l, name) \in Instruction
               /\ Instr(op, l, name).op = op /\ Instr(op, l, name).l = l
               /\ Instr(op, l, name).name = name
         /\ \A x \in Instruction : Emit(<<x>>) => code' = Append(code, x)
         /\ \A x, y \in Instruction : Emit(<<x, y>>) => code' = Append(Append(code, x), y)
         /\ \A x, y, z \in Instruction :
               Emit(<<x, y, z>>) => code' = Append(Append(Append(code, x), y), z)
         /\ \A c \in Seq(Instruction), x \in Instruction : Append(c, x) \in Seq(Instruction)
<1>1. code \in Seq(Instruction) /\ sp \in Int
  BY DEF Inv, TypeOK
<1>2. \A op \in {"entry", "label", "jump", "jz", "jnz", "call"}, l \in Nat, name \in Token :
               /\ Instr(op, l, name) \in Instruction
               /\ Instr(op, l, name).op = op /\ Instr(op, l, name).l = l
               /\ Instr(op, l, name).name = name
  BY <1>1 DEF Instr, Instruction
<1>3. \A x \in Instruction : code \o <<x>> = Append(code, x)
  BY <1>1
<1>4. \A x, y \in Instruction : code \o <<x, y>> = Append(Append(code, x), y)
  BY <1>1
<1>5. \A x, y, z \in Instruction : code \o <<x, y, z>> = Append(Append(Append(code, x), y), z)
  BY <1>1
<1>6. \A c \in Seq(Instruction), x \in Instruction : Append(c, x) \in Seq(Instruction)
  OBVIOUS
<1> QED
  BY <1>2, <1>3, <1>4, <1>5, <1>6 DEF Emit

LEMMA JumpType ==
  ASSUME Inv
  PROVE  /\ \A op \in {"jump", "jz", "jnz"}, l \in Nat :
               Jump(op, l) \in Instruction /\ Jump(op, l).op = op /\ Jump(op, l).l = l
         /\ \A l \in Nat : Label(l) \in Instruction /\ Label(l).op = "label" /\ Label(l).l = l
<1>1. "" \in Token /\ sp \in Int
  BY TokenConstants DEF Inv, TypeOK
<1>2. \A op \in {"jump", "jz", "jnz"}, l \in Nat :
        Jump(op, l) \in Instruction /\ Jump(op, l).op = op /\ Jump(op, l).l = l
  BY <1>1 DEF Jump, Instr, Instruction
<1>3. \A l \in Nat : Label(l) \in Instruction /\ Label(l).op = "label" /\ Label(l).l = l
  BY <1>1 DEF Label, Instr, Instruction
<1> QED
  BY <1>2, <1>3
-----------------------------------------------------------------------------
(* The loop stack under returns and calls *)

\* the innermost piece returns
LEMMA TailIndex ==
  ASSUME NEW S, NEW c \in Seq(S), c # <<>>
  PROVE  /\ Tail(c) \in Seq(S) /\ 1 \in DOMAIN c
         /\ \A i \in DOMAIN Tail(c) : /\ i \in Nat /\ i >= 1 /\ 1 < i + 1
                                      /\ i + 1 \in DOMAIN c /\ Tail(c)[i] = c[i + 1]
         /\ \A i \in DOMAIN c : i # 1 => /\ i \in Nat /\ 1 < i /\ i - 1 + 1 = i
                                         /\ i - 1 \in DOMAIN Tail(c) /\ Tail(c)[i - 1] = c[i]
         /\ \A i, j \in DOMAIN Tail(c) : i < j => i + 1 < j + 1
<1>1. /\ Len(c) \in Nat /\ Len(c) >= 1 /\ DOMAIN c = 1..Len(c)
      /\ Tail(c) \in Seq(S) /\ DOMAIN Tail(c) = 1..(Len(c) - 1)
      /\ \A i \in DOMAIN Tail(c) : Tail(c)[i] = c[i + 1]
  OBVIOUS
<1>2. \A i \in DOMAIN Tail(c) : i \in Nat /\ i >= 1 /\ 1 < i + 1 /\ i + 1 \in DOMAIN c
  BY <1>1
<1>3. \A i \in DOMAIN c : i # 1 =>
        i \in Nat /\ 1 < i /\ i - 1 + 1 = i /\ i - 1 \in DOMAIN Tail(c)
  BY <1>1
<1>4. \A i \in DOMAIN c : i # 1 => Tail(c)[i - 1] = c[i]
  BY <1>1, <1>3
<1> QED
  BY <1>1, <1>2, <1>3, <1>4

\* a piece is put before c
LEMMA ConsIndex ==
  ASSUME NEW S, NEW c \in Seq(S), NEW x \in S
  PROVE  /\ <<x>> \o c \in Seq(S) /\ 1 \in DOMAIN (<<x>> \o c) /\ (<<x>> \o c)[1] = x
         /\ \A i \in DOMAIN c : /\ i \in Nat /\ i >= 1 /\ i + 1 \in DOMAIN (<<x>> \o c)
                                /\ (<<x>> \o c)[i + 1] = c[i]
         /\ \A i \in DOMAIN (<<x>> \o c) :
              /\ i \in Nat /\ i >= 1
              /\ i # 1 => i > 1 /\ i - 1 \in DOMAIN c /\ (<<x>> \o c)[i] = c[i - 1]
<1> DEFINE d == <<x>> \o c
<1>1. /\ <<x>> \in Seq(S) /\ Len(<<x>>) = 1 /\ DOMAIN <<x>> = {1} /\ <<x>>[1] = x
  OBVIOUS
<1>2. /\ d \in Seq(S)
      /\ 1 \in DOMAIN d /\ d[1] = x
      /\ \A i \in DOMAIN c : 1 + i \in DOMAIN d /\ d[1 + i] = c[i]
      /\ \A i \in DOMAIN d : i = 1 \/ (i > 1 /\ i - 1 \in DOMAIN c /\ d[i] = c[i - 1])
  BY <1>1, Concatenated
<1> HIDE DEF d
<1>3. /\ \A i \in DOMAIN c : i \in Nat /\ i >= 1 /\ 1 + i = i + 1
      /\ \A i \in DOMAIN d : i \in Nat /\ i >= 1
  BY <1>2
<1> QED
  BY <1>2, <1>3 DEF d

\* pieces that open no loop are put before c
Plain(p) == p \in Seq(Item) /\ \A i \in DOMAIN p : p[i].at \notin LoopAt

LEMMA PushPlain ==
  ASSUME NEW c \in Seq(Item), NEW w, NEW b, NEW k, LoopStackOf(c, w, b, k), NEW p, Plain(p)
  PROVE  LoopStackOf(p \o c, w, b, k)
<1> PICK d, n : d = p \o c /\ n = Len(p)
  OBVIOUS
<1>1. /\ d \in Seq(Item) /\ n \in Nat
      /\ \A i \in DOMAIN c : n + i \in DOMAIN d /\ d[n + i] = c[i]
      /\ \A i \in DOMAIN d : \/ i \in DOMAIN p /\ d[i] = p[i]
                             \/ i > n /\ i - n \in DOMAIN c /\ d[i] = c[i - n]
  BY Concatenated, SMTT(30) DEF Plain
<1>2. \A i \in DOMAIN d : /\ i \in Nat
                          /\ d[i].at \in LoopAt => i - n \in DOMAIN c /\ d[i] = c[i - n]
  BY <1>1 DEF Plain
<1>3. ASSUME NEW i \in DOMAIN d, d[i].at \in LoopAt
      PROVE  d[i].slot < w /\ b[d[i].slot] = d[i].l2 /\ k[d[i].slot] = d[i].l1
  BY <1>2, <1>3 DEF LoopStackOf
<1>4. ASSUME NEW i \in DOMAIN d, NEW j \in DOMAIN d,
             d[i].at \in LoopAt, d[j].at \in LoopAt, i < j
      PROVE  d[i].slot > d[j].slot
  <2>1. i - n < j - n
    BY <1>1, <1>2, <1>4
  <2> QED
    BY <1>2, <1>4, <2>1 DEF LoopStackOf
<1>5. ASSUME NEW s \in 0..(w - 1)
      PROVE  \E i \in DOMAIN d : d[i].at \in LoopAt /\ d[i].slot = s
  <2>1. PICK i \in DOMAIN c : c[i].at \in LoopAt /\ c[i].slot = s
    BY DEF LoopStackOf
  <2>2. n + i \in DOMAIN d /\ d[n + i] = c[i]
    BY <1>1
  <2> QED
    BY <2>1, <2>2
<1> QED
  BY <1>3, <1>4, <1>5 DEF LoopStackOf

\* a piece that opens no loop returns
LEMMA PopPlain ==
  ASSUME NEW c \in Seq(Item), c # <<>>, c[1].at \notin LoopAt, NEW w, NEW b, NEW k,
         LoopStackOf(c, w, b, k)
  PROVE  LoopStackOf(Tail(c), w, b, k)
<1> PICK d : d = Tail(c)
  OBVIOUS
<1>1. /\ \A i \in DOMAIN d : i + 1 \in DOMAIN c /\ d[i] = c[i + 1]
      /\ \A i \in DOMAIN c : i # 1 => i - 1 \in DOMAIN d /\ d[i - 1] = c[i]
      /\ \A i, j \in DOMAIN d : i < j => i + 1 < j + 1
  BY TailIndex
<1>2. \A i \in DOMAIN d : d[i].at \in LoopAt =>
        d[i].slot < w /\ b[d[i].slot] = d[i].l2 /\ k[d[i].slot] = d[i].l1
  BY <1>1 DEF LoopStackOf
<1>3. \A i, j \in DOMAIN d :
        d[i].at \in LoopAt /\ d[j].at \in LoopAt /\ i < j => d[i].slot > d[j].slot
  BY <1>1 DEF LoopStackOf
<1>4. ASSUME NEW s \in 0..(w - 1)
      PROVE  \E i \in DOMAIN d : d[i].at \in LoopAt /\ d[i].slot = s
  <2>1. PICK i \in DOMAIN c : c[i].at \in LoopAt /\ c[i].slot = s
    BY DEF LoopStackOf
  <2> QED
    BY <1>1, <2>1
<1> QED
  BY <1>2, <1>3, <1>4 DEF LoopStackOf

\* a loop's piece is put before c, and its labels above the others
LoopOpened(x, w, b, k, b2, k2) ==
  /\ x.at \in LoopAt /\ x.slot = w
  /\ b2[w] = x.l2 /\ k2[w] = x.l1
  /\ \A s \in 0..(w - 1) : b2[s] = b[s] /\ k2[s] = k[s]

LEMMA PushLoop ==
  ASSUME NEW c \in Seq(Item), NEW w \in Nat, NEW b, NEW k, LoopStackOf(c, w, b, k),
         NEW x \in Item, NEW b2, NEW k2, LoopOpened(x, w, b, k, b2, k2), NEW v, v = w + 1
  PROVE  LoopStackOf(Before(x, c), v, b2, k2)
<1>0. /\ x.at \in LoopAt /\ x.slot = w
      /\ b2[w] = x.l2 /\ k2[w] = x.l1
      /\ \A s \in 0..(w - 1) : b2[s] = b[s] /\ k2[s] = k[s]
  BY DEF LoopOpened
<1> PICK d : d = <<x>> \o c
  OBVIOUS
<1>1. /\ 1 \in DOMAIN d /\ d[1] = x
      /\ \A i \in DOMAIN c : i + 1 \in DOMAIN d /\ d[i + 1] = c[i]
      /\ \A i \in DOMAIN d : /\ i \in Nat /\ i >= 1
                             /\ i # 1 => i > 1 /\ i - 1 \in DOMAIN c /\ d[i] = c[i - 1]
  BY ConsIndex
<1>2. \A i \in DOMAIN c : c[i].slot \in Nat
  <2>1. \A i \in DOMAIN c : c[i] \in Item
    OBVIOUS
  <2> QED
    BY <2>1 DEF Item
<1>3. \A i \in DOMAIN c : c[i].at \in LoopAt =>
        /\ c[i].slot < w /\ c[i].slot < w + 1
        /\ b2[c[i].slot] = c[i].l2 /\ k2[c[i].slot] = c[i].l1
  <2> SUFFICES ASSUME NEW i \in DOMAIN c, c[i].at \in LoopAt
               PROVE  /\ c[i].slot < w /\ c[i].slot < w + 1
                      /\ b2[c[i].slot] = c[i].l2 /\ k2[c[i].slot] = c[i].l1
    OBVIOUS
  <2>1. /\ c[i].slot < w /\ c[i].slot \in Nat
        /\ b[c[i].slot] = c[i].l2 /\ k[c[i].slot] = c[i].l1
    BY <1>2 DEF LoopStackOf
  <2>2. c[i].slot \in 0..(w - 1) /\ c[i].slot < w + 1
    BY <2>1
  <2> QED
    BY <1>0, <2>1, <2>2
<1>4. ASSUME NEW i \in DOMAIN d, d[i].at \in LoopAt
      PROVE  d[i].slot < w + 1 /\ b2[d[i].slot] = d[i].l2 /\ k2[d[i].slot] = d[i].l1
  <2>1. CASE i = 1
    BY <1>0, <1>1, <2>1
  <2>2. CASE i # 1
    BY <1>1, <1>3, <1>4, <2>2
  <2> QED
    BY <2>1, <2>2
<1>5. ASSUME NEW i \in DOMAIN d, NEW j \in DOMAIN d,
             d[i].at \in LoopAt, d[j].at \in LoopAt, i < j
      PROVE  d[i].slot > d[j].slot
  <2>1. j # 1 /\ j - 1 \in DOMAIN c /\ d[j] = c[j - 1]
    BY <1>1, <1>5
  <2>2. CASE i = 1
    <3>1. d[j].slot < w /\ d[j].slot \in Nat /\ d[i].slot = w
      BY <1>0, <1>1, <1>2, <1>3, <1>5, <2>1, <2>2
    <3> QED
      BY <3>1
  <2>3. CASE i # 1
    <3>1. i - 1 \in DOMAIN c /\ d[i] = c[i - 1] /\ i - 1 < j - 1
      BY <1>1, <1>5, <2>3
    <3> QED
      BY <1>5, <2>1, <3>1 DEF LoopStackOf
  <2> QED
    BY <2>2, <2>3
<1>6. ASSUME NEW s \in 0..w
      PROVE  \E i \in DOMAIN d : d[i].at \in LoopAt /\ d[i].slot = s
  <2>1. CASE s = w
    BY <1>0, <1>1, <2>1
  <2>2. CASE s # w
    <3>1. s \in 0..(w - 1)
      BY <2>2
    <3>2. PICK i \in DOMAIN c : c[i].at \in LoopAt /\ c[i].slot = s
      BY <3>1 DEF LoopStackOf
    <3> QED
      BY <1>1, <3>2
  <2> QED
    BY <2>1, <2>2
<1>7. \A s \in 0..(v - 1) : s \in 0..w
  OBVIOUS
<1>8. LoopStackOf(d, v, b2, k2)
  <2>1. \A i \in DOMAIN d : d[i].at \in LoopAt =>
          d[i].slot < v /\ b2[d[i].slot] = d[i].l2 /\ k2[d[i].slot] = d[i].l1
    BY <1>4
  <2>2. \A i, j \in DOMAIN d :
          d[i].at \in LoopAt /\ d[j].at \in LoopAt /\ i < j => d[i].slot > d[j].slot
    BY <1>5
  <2>3. \A s \in 0..(v - 1) : \E i \in DOMAIN d : d[i].at \in LoopAt /\ d[i].slot = s
    BY <1>6, <1>7
  <2> QED
    BY ONLY <2>1, <2>2, <2>3 DEF LoopStackOf
<1> QED
  BY <1>8 DEF Before

\* the innermost loop's piece returns: its labels were on top
LEMMA PopLoop ==
  ASSUME NEW c \in Seq(Item), c # <<>>, c[1].at \in LoopAt, NEW w \in Nat, NEW b, NEW k,
         LoopStackOf(c, w, b, k)
  PROVE  /\ w > 0 /\ c[1].slot = w - 1
         /\ b[w - 1] = c[1].l2 /\ k[w - 1] = c[1].l1
         /\ LoopStackOf(Tail(c), w - 1, b, k)
<1> PICK d : d = Tail(c)
  OBVIOUS
<1>1. /\ 1 \in DOMAIN c /\ c[1] \in Item
      /\ \A i \in DOMAIN d : i + 1 \in DOMAIN c /\ d[i] = c[i + 1] /\ 1 < i + 1
      /\ \A i \in DOMAIN c : i # 1 => i - 1 \in DOMAIN d /\ d[i - 1] = c[i] /\ 1 < i
      /\ \A i, j \in DOMAIN d : i < j => i + 1 < j + 1
  BY TailIndex
<1>2. /\ c[1].slot \in Nat /\ c[1].slot < w
      /\ b[c[1].slot] = c[1].l2 /\ k[c[1].slot] = c[1].l1
  BY <1>1 DEF Item, LoopStackOf
<1>3. w > 0 /\ w - 1 \in 0..(w - 1)
  BY <1>2
<1>4. c[1].slot = w - 1
  <2>1. PICK i \in DOMAIN c : c[i].at \in LoopAt /\ c[i].slot = w - 1
    BY <1>3 DEF LoopStackOf
  <2>2. CASE i = 1
    BY <2>1, <2>2
  <2>3. CASE i # 1
    <3>1. c[1].slot > c[i].slot
      BY <1>1, <2>1, <2>3 DEF LoopStackOf
    <3> QED
      BY <1>2, <2>1, <3>1
  <2> QED
    BY <2>2, <2>3
<1>5. ASSUME NEW i \in DOMAIN d, d[i].at \in LoopAt
      PROVE  d[i].slot < w - 1 /\ b[d[i].slot] = d[i].l2 /\ k[d[i].slot] = d[i].l1
  <2>1. c[1].slot > d[i].slot
    BY <1>1, <1>5 DEF LoopStackOf
  <2>2. d[i].slot < w - 1
    BY <1>4, <2>1
  <2>3. b[d[i].slot] = d[i].l2 /\ k[d[i].slot] = d[i].l1
    BY <1>1, <1>5 DEF LoopStackOf
  <2> QED
    BY <2>2, <2>3
<1>6. \A i, j \in DOMAIN d :
        d[i].at \in LoopAt /\ d[j].at \in LoopAt /\ i < j => d[i].slot > d[j].slot
  BY <1>1 DEF LoopStackOf
<1>7. ASSUME NEW s \in 0..(w - 1 - 1)
      PROVE  \E i \in DOMAIN d : d[i].at \in LoopAt /\ d[i].slot = s
  <2>1. s \in 0..(w - 1) /\ s # w - 1
    OBVIOUS
  <2>2. PICK i \in DOMAIN c : c[i].at \in LoopAt /\ c[i].slot = s
    BY <2>1 DEF LoopStackOf
  <2>3. i # 1
    BY <1>4, <2>1, <2>2
  <2> QED
    BY <1>1, <2>2, <2>3
<1>8. LoopStackOf(d, w - 1, b, k)
  BY <1>5, <1>6, <1>7 DEF LoopStackOf
<1> QED
  BY <1>2, <1>3, <1>4, <1>8

\* program()'s piece stays
LEMMA BottomKept ==
  ASSUME NEW c \in Seq(Item), c # <<>>, c[Len(c)].at \in Outermost,
         NEW p \in Seq(Item), Founded(p, c[1].at)
  PROVE  /\ p \o Tail(c) \in Seq(Item) /\ p \o Tail(c) # <<>>
         /\ (p \o Tail(c))[Len(p \o Tail(c))].at \in Outermost
<1> PICK d : d = p \o Tail(c)
  OBVIOUS
<1>1. /\ Len(d) = Len(p) + Len(c) - 1
      /\ \A i \in 1..Len(p) : d[i] = p[i]
      /\ \A i \in 2..Len(c) : d[Len(p) + i - 1] = c[i]
      /\ d \in Seq(Item)
  <2> PICK e : e = p \o Tail(c)
    OBVIOUS
  <2>1. e \in Seq(Item) /\ Len(e) = Len(p) + Len(c) - 1
    BY GotoIndex
  <2>2. \A i \in 1..Len(p) : e[i] = p[i]
    BY GotoIndex
  <2>3. \A i \in 2..Len(c) : e[Len(p) + i - 1] = c[i]
    BY GotoIndex
  <2>4. d = e
    OBVIOUS
  <2> QED
    BY <2>1, <2>2, <2>3, <2>4
<1>2. Len(p) \in Nat /\ Len(c) \in Nat /\ Len(c) >= 1 /\ (p # <<>> => Len(p) >= 1)
  OBVIOUS
<1>3. CASE Len(c) = 1
  <2>1. p # <<>> /\ p[Len(p)].at \in Outermost
    BY <1>3 DEF Founded
  <2>2. Len(d) = Len(p) /\ Len(p) \in 1..Len(p)
    BY <1>1, <1>2, <1>3, <2>1
  <2>3. d[Len(d)] = p[Len(p)]
    BY <1>1, <2>2
  <2>4. d # <<>>
    BY <1>2, <2>2, NonEmpty
  <2> QED
    BY <1>1, <2>1, <2>3, <2>4
<1>4. CASE Len(c) # 1
  <2> PICK m \in Nat, n \in Nat : m = Len(c) /\ n = Len(p)
    BY <1>2
  <2>a. m >= 1 /\ m # 1 /\ Len(d) = n + m - 1
    BY <1>1, <1>2, <1>4
  <2>b. m \in 2..m /\ n + m - 1 > 0
    BY ONLY <2>a, m \in Nat, n \in Nat
  <2>1. Len(c) \in 2..Len(c) /\ Len(d) > 0
    BY <2>a, <2>b
  <2>2. d[Len(d)] = c[Len(c)]
    BY <2>1, <1>1
  <2>3. d # <<>>
    BY <2>1, NonEmpty
  <2> QED
    BY <1>1, <2>2, <2>3
<1> QED
  BY <1>3, <1>4
-----------------------------------------------------------------------------
(* The C stack under the steps *)

StackOf(c, w, b, k) ==
  c \in Seq(Item) /\ (\A i \in DOMAIN c : Sound(c[i])) /\ LoopStackOf(c, w, b, k)

\* a piece x, with calm ones around it, takes the place of the innermost one
Pushed(x) == \E q, r : Goto(q \o (<<x>> \o r)) /\ Calm(q, Top.at) /\ Calm(r, Top.at)

LEMMA StackPop ==
  ASSUME NEW c, c # <<>>, c[1].at \notin LoopAt, NEW w, NEW b, NEW k, StackOf(c, w, b, k)
  PROVE  StackOf(Tail(c), w, b, k)
<1>1. c \in Seq(Item) /\ (\A i \in DOMAIN c : Sound(c[i])) /\ LoopStackOf(c, w, b, k)
  BY DEF StackOf
<1>2. /\ Tail(c) \in Seq(Item)
      /\ \A i \in DOMAIN Tail(c) : i + 1 \in DOMAIN c /\ Tail(c)[i] = c[i + 1]
  BY <1>1, TailIndex
<1>3. LoopStackOf(Tail(c), w, b, k)
  BY <1>1, PopPlain
<1>4. \A i \in DOMAIN Tail(c) : Sound(Tail(c)[i])
  BY <1>1, <1>2
<1> QED
  BY <1>2, <1>3, <1>4 DEF StackOf

LEMMA StackPush ==
  ASSUME NEW c, NEW w, NEW b, NEW k, StackOf(c, w, b, k), NEW p, Plain(p),
         \A i \in DOMAIN p : Sound(p[i])
  PROVE  StackOf(p \o c, w, b, k)
<1>1. c \in Seq(Item) /\ (\A i \in DOMAIN c : Sound(c[i])) /\ LoopStackOf(c, w, b, k)
  BY DEF StackOf
<1>2. p \in Seq(Item)
  BY DEF Plain
<1>3. /\ p \o c \in Seq(Item)
      /\ \A i \in DOMAIN (p \o c) : \/ i \in DOMAIN p /\ (p \o c)[i] = p[i]
                                    \/ i - Len(p) \in DOMAIN c /\ (p \o c)[i] = c[i - Len(p)]
  BY <1>1, <1>2, Concatenated
<1>4. LoopStackOf(p \o c, w, b, k)
  BY <1>1, PushPlain
<1>5. \A i \in DOMAIN (p \o c) : Sound((p \o c)[i])
  BY <1>1, <1>3
<1> QED
  BY <1>3, <1>4, <1>5 DEF StackOf

LEMMA StackCalm ==
  ASSUME NEW c, NEW w, NEW b, NEW k, StackOf(c, w, b, k), NEW p, NEW a, Calm(p, a)
  PROVE  StackOf(p \o c, w, b, k)
<1>1. p \in Seq(Item) /\ \A i \in DOMAIN p : Sound(p[i]) /\ p[i].at \notin Laden
  BY DEF Calm, Fits
<1>2. Plain(p)
  BY <1>1 DEF Plain, Laden, Owing
<1> QED
  BY <1>1, <1>2, StackPush

LEMMA StackOne ==
  ASSUME NEW c, NEW w, NEW b, NEW k, StackOf(c, w, b, k), NEW x \in Item,
         x.at \notin LoopAt, Sound(x)
  PROVE  StackOf(Before(x, c), w, b, k)
<1>1. Plain(<<x>>) /\ \A i \in DOMAIN <<x>> : Sound(<<x>>[i])
  BY DEF Plain
<1> QED
  BY <1>1, StackPush DEF Before

\* where the pieces of a step end up
LEMMA PushedAt ==
  ASSUME Inv, NEW x \in Item, Pushed(x)
  PROVE  \E q, r : /\ Calm(q, Top.at) /\ Calm(r, Top.at)
                   /\ ctl' = q \o Before(x, r \o Tail(ctl))
                   /\ ctl' = (q \o (<<x>> \o r)) \o Tail(ctl)
                   /\ q \o (<<x>> \o r) \in Seq(Item)
<1>1. PICK q, r : Goto(q \o (<<x>> \o r)) /\ Calm(q, Top.at) /\ Calm(r, Top.at)
  BY DEF Pushed
<1>2. q \in Seq(Item) /\ r \in Seq(Item) /\ <<x>> \in Seq(Item) /\ Tail(ctl) \in Seq(Item)
  BY <1>1, StackFacts DEF Calm
<1> PICK one, below : one = <<x>> /\ below = Tail(ctl)
  OBVIOUS
<1>3. one \o r \in Seq(Item)
  BY <1>2, Concatenated
<1>4. (one \o r) \o below = one \o (r \o below)
  BY <1>2, Associated
<1>5. (q \o (one \o r)) \o below = q \o ((one \o r) \o below)
  BY <1>2, <1>3, Associated, SMTT(30)
<1>6. q \o (one \o r) \in Seq(Item)
  BY <1>2, <1>3, Concatenated
<1> QED
  BY <1>1, <1>4, <1>5, <1>6 DEF Goto, Before

\* the invariant's part about the stack
LEMMA InvStack ==
  ASSUME Inv
  PROVE  /\ StackOf(ctl, wsp, breaklab, contlab) /\ ctl # <<>> /\ ctl[1] = Top
         /\ ctl[Len(ctl)].at \in Outermost
BY StackFacts DEF Inv, StackOf, LoopStack, Bottom

LEMMA BottomStep ==
  ASSUME Inv, NEW p \in Seq(Item), ctl' = p \o Tail(ctl), Founded(p, Top.at)
  PROVE  ctl' \in Seq(Item) /\ ctl' # <<>> /\ Bottom'
<1>1. ctl \in Seq(Item) /\ ctl # <<>> /\ ctl[Len(ctl)].at \in Outermost /\ ctl[1] = Top
  BY StackFacts, InvStack
<1>2. /\ p \o Tail(ctl) \in Seq(Item) /\ p \o Tail(ctl) # <<>>
      /\ (p \o Tail(ctl))[Len(p \o Tail(ctl))].at \in Outermost
  BY <1>1, BottomKept
<1> QED
  BY <1>2 DEF Bottom

\* a step that opens and closes no loop
StackKept == StackOf(ctl', wsp', breaklab', contlab') /\ ctl' # <<>> /\ Bottom'

LEMMA QuietStack ==
  ASSUME Inv, Quiet
  PROVE  StackKept
<1>1. /\ StackOf(ctl, wsp, breaklab, contlab) /\ ctl # <<>> /\ ctl[1] = Top
      /\ UNCHANGED <<wsp, breaklab, contlab>> /\ Top.at \notin LoopAt
  BY InvStack DEF Quiet, loops, Laden, Owing
<1>2. CASE UNCHANGED ctl
  BY <1>1, <1>2 DEF StackKept, Inv, Bottom
<1>3. CASE \E p : Goto(p) /\ Calm(p, Top.at) /\ Founded(p, Top.at)
  <2>1. PICK p : Goto(p) /\ Calm(p, Top.at) /\ Founded(p, Top.at)
    BY <1>3
  <2>2. ctl' = p \o Tail(ctl) /\ p \in Seq(Item)
    BY <2>1 DEF Goto, Calm
  <2>3. StackOf(Tail(ctl), wsp, breaklab, contlab)
    BY <1>1, StackPop
  <2>4. StackOf(p \o Tail(ctl), wsp, breaklab, contlab)
    BY <2>1, <2>3, StackCalm
  <2>5. ctl' # <<>> /\ Bottom'
    BY <2>1, <2>2, BottomStep
  <2> QED
    BY <1>1, <2>2, <2>4, <2>5 DEF StackKept
<1> QED
  BY <1>2, <1>3 DEF Quiet

LEMMA PushedStack ==
  ASSUME Inv, NEW x \in Item, Pushed(x), Sound(x), x.at \notin LoopAt,
         Top.at \notin LoopAt, Top.at \notin Outermost, UNCHANGED loops
  PROVE  StackKept
<1>1. /\ StackOf(ctl, wsp, breaklab, contlab) /\ ctl # <<>> /\ ctl[1] = Top
      /\ UNCHANGED <<wsp, breaklab, contlab>>
  BY InvStack DEF loops
<1>2. PICK q, r : /\ Calm(q, Top.at) /\ Calm(r, Top.at)
                  /\ ctl' = q \o Before(x, r \o Tail(ctl))
                  /\ ctl' = (q \o (<<x>> \o r)) \o Tail(ctl)
                  /\ q \o (<<x>> \o r) \in Seq(Item)
  BY PushedAt
<1>3. StackOf(Tail(ctl), wsp, breaklab, contlab)
  BY <1>1, StackPop
<1>4. StackOf(r \o Tail(ctl), wsp, breaklab, contlab)
  BY <1>2, <1>3, StackCalm
<1>5. StackOf(Before(x, r \o Tail(ctl)), wsp, breaklab, contlab)
  BY <1>4, StackOne
<1>6. StackOf(q \o Before(x, r \o Tail(ctl)), wsp, breaklab, contlab)
  BY <1>2, <1>5, StackCalm
<1>7. ctl' # <<>> /\ Bottom'
  BY <1>2, BottomStep DEF Founded
<1> QED
  BY <1>1, <1>2, <1>6, <1>7 DEF StackKept

LEMMA ReturnStack ==
  ASSUME Inv, Goto(<<>>), Top.at \notin LoopAt, Top.at \notin Outermost, UNCHANGED loops
  PROVE  StackKept
<1>1. /\ StackOf(ctl, wsp, breaklab, contlab) /\ ctl # <<>> /\ ctl[1] = Top
      /\ UNCHANGED <<wsp, breaklab, contlab>>
  BY InvStack DEF loops
<1>2. StackOf(Tail(ctl), wsp, breaklab, contlab)
  BY <1>1, StackPop
<1>3. Calm(<<>>, Top.at)
  BY CalmShort
<1>4. StackOf(<<>> \o Tail(ctl), wsp, breaklab, contlab)
  BY <1>2, <1>3, StackCalm
<1>5. ctl' = <<>> \o Tail(ctl) /\ <<>> \in Seq(Item)
  BY <1>3 DEF Goto, Calm
<1>6. ctl' # <<>> /\ Bottom'
  BY <1>5, BottomStep DEF Founded
<1> QED
  BY <1>1, <1>4, <1>5, <1>6 DEF StackKept

LEMMA InvStep ==
  ASSUME Inv, Reads, StackKept, TablesTyped,
         sp' \in Int, lab' \in Nat \ {0}, unpopped' \in Nat, wsp' \in 0..MaxWhile,
         breaklab' \in [0..(MaxWhile - 1) -> Nat], contlab' \in [0..(MaxWhile - 1) -> Nat],
         code' \in Seq(Instruction)
  PROVE  Inv'
<1>1. /\ token' \in Token /\ tokstr' \in Token /\ ntok' \in 0..MaxTokens
      /\ status' \in {"run", "done", "error"}
  BY ReadsType
<1>2. /\ ctl' \in Seq(Item) /\ ctl' # <<>> /\ Bottom' /\ LoopStack'
      /\ \A i \in DOMAIN ctl' : Sound(ctl'[i])
  BY DEF StackKept, StackOf, LoopStack
<1>3. Globals'
  BY DEF TablesTyped
<1>4. locals' \in Seq(SymbolType) /\ param_offset' \in Nat
  BY <1>3 DEF Globals
<1>5. TypeOK'
  BY <1>1, <1>2, <1>4 DEF TypeOK, TablesTyped
<1>6. (\A i \in DOMAIN ctl : Sound(ctl[i]))'
  BY <1>2 DEF Sound
<1> QED
  BY <1>2, <1>3, <1>5, <1>6 DEF Inv

\* the same when the loop stack is not touched
LEMMA InvKept ==
  ASSUME Inv, Reads, StackKept, TablesTyped, UNCHANGED loops,
         sp' \in Int, lab' \in Nat \ {0}, unpopped' \in Nat, code' \in Seq(Instruction)
  PROVE  Inv'
<1>1. /\ wsp \in 0..MaxWhile /\ UNCHANGED <<wsp, breaklab, contlab>>
      /\ breaklab \in [0..(MaxWhile - 1) -> Nat] /\ contlab \in [0..(MaxWhile - 1) -> Nat]
  BY DEF Inv, TypeOK, loops
<1> QED
  BY <1>1, InvStep

LEMMA QuietInv ==
  ASSUME Inv, QuietActions
  PROVE  Inv'
<1>1. Quiet /\ StackKept /\ UNCHANGED loops
  BY QuietMoves, QuietStack DEF Quiet
<1>2. Reads
  BY Reading DEF QuietActions, Next, QuietStatements, Statements, QuietExpressions, Expressions
<1>3. /\ TablesTyped /\ (lab' = lab \/ lab' = lab + 1)
      /\ UNCHANGED <<sp, unpopped>> \/ (sp' = 0 /\ unpopped' = 0)
      /\ code' = code \/ BeginFunction
  BY QuietData
<1>4. lab' \in Nat \ {0} /\ sp' \in Int /\ unpopped' \in Nat
  BY <1>3, TopType, TopNumbers
<1>5. code' \in Seq(Instruction)
  <2>1. CASE BeginFunction
    <3> PICK x : x = Instr("entry", 0, Top.arg)
      OBVIOUS
    <3>1. x \in Instruction
      BY TopType, EmitType
    <3>2. Emit(<<x>>)
      BY <2>1 DEF BeginFunction
    <3>3. code' = Append(code, x) /\ code \in Seq(Instruction)
      BY <3>1, <3>2, EmitType DEF Inv, TypeOK
    <3> QED
      BY <3>1, <3>3, EmitType
  <2> QED
    BY <1>3, <2>1 DEF Inv, TypeOK
<1> QED
  BY <1>1, <1>2, <1>3, <1>4, <1>5, InvKept
-----------------------------------------------------------------------------
(* The actions that push words and pop them *)

\* the words a piece stands for
Weight(x) == IF x.at \in Weighing THEN Word * x.n ELSE 0

WeighingActions == Assignment \/ BinaryLoop \/ Pop \/ Postfix \/ Arguments \/ Argument \/ Call

\* a piece that stands for words is put down, or the innermost piece returns
Weighs ==
  \/ \E x \in Item : /\ Pushed(x) /\ Sound(x) /\ x.at \in Weighing
                     /\ sp' = sp + Weight(Top) - Weight(x) /\ UNCHANGED unpopped
  \/ Goto(<<>>) /\ sp' = sp + Weight(Top) /\ UNCHANGED unpopped
  \/ /\ Goto(<<>>) /\ UNCHANGED sp /\ unpopped' = unpopped + Top.n
     /\ Top.at = "call" /\ Top.n > RegArgs
  \/ UNCHANGED <<ctl, sp, unpopped>>

LEMMA WeightType ==
  ASSUME NEW x \in Item
  PROVE  /\ Weight(x) \in Int
         /\ x.at \notin Weighing => Weight(x) = 0
         /\ x.at \in Weighing => Weight(x) = Word * x.n /\ x.n \in Nat
<1>1. x.n \in Nat /\ Word \in Nat
  BY BoundsAssumption DEF Item
<1>2. \A m \in Nat, n \in Nat : m * n \in Int
  OBVIOUS
<1>3. Word * x.n \in Int
  BY <1>1, <1>2
<1> QED
  BY <1>1, <1>3 DEF Weight

\* the pieces with a weight
LEMMA WeighingPieces ==
  /\ \A k \in Nat : /\ Count("pop", k) \in Item /\ Count("pop", k).at = "pop"
                    /\ Count("pop", k).n = k
  /\ \A t \in Token, k \in Nat :
       /\ Declarator("arg", t, "int", k) \in Item /\ Declarator("arg", t, "int", k).at = "arg"
       /\ Declarator("arg", t, "int", k).n = k
       /\ Declarator("args", t, "int", k) \in Item /\ Declarator("args", t, "int", k).at = "args"
       /\ Declarator("args", t, "int", k).n = k
       /\ Declarator("call", t, "int", k) \in Item /\ Declarator("call", t, "int", k).at = "call"
       /\ Declarator("call", t, "int", k).n = k
  /\ \A t \in Token : /\ With("args", t) \in Item /\ With("args", t).at = "args"
                      /\ With("args", t).n = 0
<1>1. "" \in Token /\ "int" \in Types /\ 0 \in Nat
  BY TokenConstants DEF Types
<1>2. \A k \in Nat : /\ Count("pop", k) \in Item /\ Count("pop", k).at = "pop"
                     /\ Count("pop", k).n = k
  BY <1>1, ZenonT(40) DEF Count, Piece, Item, Places
<1>3. \A t \in Token, k \in Nat :
       /\ Declarator("arg", t, "int", k) \in Item /\ Declarator("arg", t, "int", k).at = "arg"
       /\ Declarator("arg", t, "int", k).n = k
  <2> TAKE t \in Token, k \in Nat
  <2>1. Piece("arg", t, "int", k, 0, 0, 0) \in Item
    BY <1>1 DEF Piece, Item, Places
  <2> QED
    BY <2>1 DEF Declarator, Piece
<1>4. \A t \in Token, k \in Nat :
       /\ Declarator("args", t, "int", k) \in Item /\ Declarator("args", t, "int", k).at = "args"
       /\ Declarator("args", t, "int", k).n = k
  <2> TAKE t \in Token, k \in Nat
  <2>1. Piece("args", t, "int", k, 0, 0, 0) \in Item
    BY <1>1 DEF Piece, Item, Places
  <2> QED
    BY <2>1 DEF Declarator, Piece
<1>5. \A t \in Token, k \in Nat :
       /\ Declarator("call", t, "int", k) \in Item /\ Declarator("call", t, "int", k).at = "call"
       /\ Declarator("call", t, "int", k).n = k
  <2> TAKE t \in Token, k \in Nat
  <2>1. Piece("call", t, "int", k, 0, 0, 0) \in Item
    BY <1>1 DEF Piece, Item, Places
  <2> QED
    BY <2>1 DEF Declarator, Piece
<1>6. \A t \in Token : /\ With("args", t) \in Item /\ With("args", t).at = "args"
                       /\ With("args", t).n = 0
  BY <1>1, ZenonT(40) DEF With, Piece, Item, Places
<1> QED
  BY <1>2, <1>3, <1>4, <1>5, <1>6

LEMMA Multiples ==
  ASSUME NEW s \in Int
  PROVE  /\ s - Word = s + 0 - Word * 1 /\ s - 2 * Word = s + 0 - Word * 2
         /\ s = s + 0 - Word * 0
         /\ \A k \in Nat : s - Word = s + Word * k - Word * (k + 1)
         /\ \A k \in Nat : s = s + Word * k - Word * k
<1>1. Word \in Nat
  BY BoundsAssumption
<1>2. \A k \in Nat : Word * k \in Int /\ Word * (k + 1) = Word * k + Word
  BY <1>1
<1>3. \A m \in Int : s - Word = s + m - (m + Word) /\ s = s + m - m
  BY <1>1
<1>4. \A k \in Nat : s - Word = s + Word * k - Word * (k + 1)
  BY <1>2, <1>3
<1>5. \A k \in Nat : s = s + Word * k - Word * k
  BY <1>2, <1>3
<1>6. /\ s - Word = s + 0 - Word * 1 /\ s - 2 * Word = s + 0 - Word * 2
      /\ s = s + 0 - Word * 0
  BY <1>1
<1> QED
  BY <1>4, <1>5, <1>6

LEMMA WeighingMoves ==
  ASSUME Inv, WeighingActions
  PROVE  /\ Weighs /\ status = "run"
         /\ Top.at \in {"assign", "level", "pop", "postfix", "args", "arg", "call"}
         /\ UNCHANGED <<symbols, functions, lab, loops>>
         /\ code' = code \/ Call
<1>0. /\ Top \in Item /\ Top.arg \in Token /\ Top.n \in Nat /\ tokstr \in Token /\ sp \in Int
      /\ Top.n + 1 \in Nat /\ "]" \in Token /\ Sound(Top)
  BY TopType, TopNumbers, StackFacts, TokenConstants
<1>1. CASE Assignment
  <2>1. Top.at = "assign" /\ status = "run" /\ UNCHANGED <<symbols, functions, lab, loops, code>>
        /\ UNCHANGED unpopped
    BY <1>1 DEF Assignment, At, Top
  <2>2. Weight(Top) = 0
    BY <2>1, <1>0, WeightType DEF Weighing
  <2>3. Calm(<<It("expr")>>, "assign") /\ Calm(<<It("assign")>>, "assign")
    BY FitsAll, CalmShort DEF Inner
  <2>4. ASSUME NEW k \in {1, 2},
               Goto(<<It("expr"), Count("pop", k), It("assign")>>), sp' = sp + 0 - Word * k
        PROVE  Weighs
    <3> PICK x : x = Count("pop", k)
      OBVIOUS
    <3>1. x \in Item /\ x.at = "pop" /\ x.n = k
      BY <2>4, WeighingPieces
    <3>2. <<It("expr"), x, It("assign")>> = <<It("expr")>> \o (<<x>> \o <<It("assign")>>)
      OBVIOUS
    <3>3. Pushed(x)
      BY <2>1, <2>3, <2>4, <3>2 DEF Pushed
    <3>4. Sound(x) /\ x.at \in Weighing /\ Weight(x) = Word * k
      BY <3>1, WeightType DEF Sound, Weighing
    <3> QED
      BY <2>1, <2>2, <2>4, <3>1, <3>3, <3>4 DEF Weighs
  <2>5. \/ Goto(<<It("expr"), Count("pop", 1), It("assign")>>) /\ sp' = sp + 0 - Word * 1
        \/ Goto(<<It("expr"), Count("pop", 2), It("assign")>>) /\ sp' = sp + 0 - Word * 2
        \/ Goto(<<>>) /\ UNCHANGED sp
    BY <1>0, <1>1, Multiples DEF Assignment, Push
  <2>6. CASE Goto(<<>>) /\ UNCHANGED sp
    <3>1. sp' = sp + Weight(Top)
      BY <1>0, <2>2, <2>6
    <3> QED
      BY <2>1, <2>6, <3>1 DEF Weighs
  <2> QED
    BY <2>1, <2>4, <2>5, <2>6
<1>2. CASE BinaryLoop
  <2>1. Top.at = "level" /\ status = "run" /\ UNCHANGED <<symbols, functions, lab, loops, code>>
        /\ UNCHANGED unpopped
    BY <1>2 DEF BinaryLoop, At, Top
  <2>2. Weight(Top) = 0
    BY <2>1, <1>0, WeightType DEF Weighing
  <2>3. \/ Goto(Operand(Top.n + 1) \o <<Count("pop", 1), Top>>) /\ sp' = sp + 0 - Word * 1
        \/ Goto(<<>>) /\ UNCHANGED sp
    BY <1>0, <1>2, Multiples DEF BinaryLoop, Push
  <2>4. CASE Goto(Operand(Top.n + 1) \o <<Count("pop", 1), Top>>) /\ sp' = sp + 0 - Word * 1
    <3> PICK x : x = Count("pop", 1)
      OBVIOUS
    <3>1. x \in Item /\ x.at = "pop" /\ x.n = 1
      BY WeighingPieces
    <3>2. <<x, Top>> = <<x>> \o <<Top>>
      OBVIOUS
    <3>3. Fits(Top, "level")
      BY <1>0, <2>1, Kinds DEF Fits, Sound, Inner
    <3>4. Calm(<<Top>>, Top.at) /\ Calm(Operand(Top.n + 1), Top.at)
      BY <1>0, <2>1, <3>3, CalmShort, CalmOperand
    <3>5. Pushed(x)
      BY <2>4, <3>2, <3>4 DEF Pushed
    <3>6. Sound(x) /\ x.at \in Weighing /\ Weight(x) = Word * 1
      BY <3>1, WeightType DEF Sound, Weighing
    <3> QED
      BY <2>1, <2>2, <2>4, <3>1, <3>5, <3>6 DEF Weighs
  <2>5. CASE Goto(<<>>) /\ UNCHANGED sp
    <3>1. sp' = sp + Weight(Top)
      BY <1>0, <2>2, <2>5
    <3> QED
      BY <2>1, <2>5, <3>1 DEF Weighs
  <2> QED
    BY <2>1, <2>3, <2>4, <2>5
<1>3. CASE Pop
  <2>1. /\ Top.at = "pop" /\ status = "run" /\ UNCHANGED <<symbols, functions, lab, loops, code>>
        /\ UNCHANGED unpopped /\ Goto(<<>>) /\ sp' = sp + Word * Top.n
    BY <1>3 DEF Pop, At, Top
  <2>2. Weight(Top) = Word * Top.n
    BY <2>1, <1>0, WeightType DEF Weighing
  <2> QED
    BY <2>1, <2>2 DEF Weighs
<1>4. CASE Postfix
  <2>1. Top.at = "postfix" /\ status = "run" /\ UNCHANGED <<symbols, functions, lab, loops, code>>
        /\ UNCHANGED unpopped
    BY <1>4 DEF Postfix, At, Top
  <2>2. Weight(Top) = 0
    BY <2>1, <1>0, WeightType DEF Weighing
  <2>3. \/ /\ Goto(<<It("expr"), Expect("]"), Count("pop", 1), It("postfix")>>)
           /\ sp' = sp + 0 - Word * 1
        \/ Goto(<<With("args", tokstr), It("postfix")>>) /\ UNCHANGED sp
        \/ Goto(<<>>) /\ UNCHANGED sp
        \/ UNCHANGED <<ctl, sp>>
    BY <1>0, <1>4, Multiples DEF Postfix, Push
  <2>4. CASE /\ Goto(<<It("expr"), Expect("]"), Count("pop", 1), It("postfix")>>)
             /\ sp' = sp + 0 - Word * 1
    <3> PICK x : x = Count("pop", 1)
      OBVIOUS
    <3>1. x \in Item /\ x.at = "pop" /\ x.n = 1
      BY WeighingPieces
    <3>2. <<It("expr"), Expect("]"), x, It("postfix")>>
          = <<It("expr"), Expect("]")>> \o (<<x>> \o <<It("postfix")>>)
      OBVIOUS
    <3>3. Calm(<<It("expr"), Expect("]")>>, "postfix") /\ Calm(<<It("postfix")>>, "postfix")
      BY <1>0, FitsAll, CalmShort DEF Inner, Expect
    <3>4. Pushed(x)
      BY <2>1, <2>4, <3>2, <3>3 DEF Pushed
    <3>5. Sound(x) /\ x.at \in Weighing /\ Weight(x) = Word * 1
      BY <3>1, WeightType DEF Sound, Weighing
    <3> QED
      BY <2>1, <2>2, <2>4, <3>1, <3>4, <3>5 DEF Weighs
  <2>5. CASE Goto(<<With("args", tokstr), It("postfix")>>) /\ UNCHANGED sp
    <3> PICK x : x = With("args", tokstr)
      OBVIOUS
    <3>1. x \in Item /\ x.at = "args" /\ x.n = 0
      BY <1>0, WeighingPieces
    <3>2. <<x, It("postfix")>> = <<>> \o (<<x>> \o <<It("postfix")>>)
      OBVIOUS
    <3>3. Calm(<<>>, "postfix") /\ Calm(<<It("postfix")>>, "postfix")
      BY FitsAll, CalmShort DEF Inner
    <3>4. Pushed(x)
      BY <2>1, <2>5, <3>2, <3>3 DEF Pushed
    <3>5. Sound(x) /\ x.at \in Weighing /\ Weight(x) = Word * 0
      BY <3>1, WeightType, BoundsAssumption DEF Sound, Weighing
    <3>6. sp' = sp + Weight(Top) - Weight(x)
      BY <1>0, <2>2, <2>5, <3>5, Multiples
    <3> QED
      BY <2>1, <3>1, <3>4, <3>5, <3>6 DEF Weighs
  <2>6. CASE Goto(<<>>) /\ UNCHANGED sp
    <3>1. sp' = sp + Weight(Top)
      BY <1>0, <2>2, <2>6
    <3> QED
      BY <2>1, <2>6, <3>1 DEF Weighs
  <2>7. CASE UNCHANGED <<ctl, sp>>
    BY <2>1, <2>7 DEF Weighs
  <2> QED
    BY <2>1, <2>3, <2>4, <2>5, <2>6, <2>7
<1>5. CASE Arguments
  <2>1. /\ Top.at = "args" /\ status = "run" /\ UNCHANGED <<symbols, functions, lab, loops, code>>
        /\ UNCHANGED unpopped /\ sp' = sp
    BY <1>5 DEF Arguments, At, Top
  <2>2. Weight(Top) = Word * Top.n /\ Top.n <= MaxArgs
    BY <2>1, <1>0, WeightType DEF Weighing, Sound
  <2>3. \/ /\ Goto(<<It("expr"), Declarator("arg", Top.arg, "int", Top.n)>>)
           /\ Top.n < MaxArgs
        \/ Goto(<<Declarator("call", Top.arg, "int", Top.n)>>)
    BY <1>5 DEF Arguments
  <2>4. CASE /\ Goto(<<It("expr"), Declarator("arg", Top.arg, "int", Top.n)>>)
             /\ Top.n < MaxArgs
    <3> PICK x : x = Declarator("arg", Top.arg, "int", Top.n)
      OBVIOUS
    <3>1. x \in Item /\ x.at = "arg" /\ x.n = Top.n
      BY <1>0, WeighingPieces
    <3>2. <<It("expr"), x>> = <<It("expr")>> \o (<<x>> \o <<>>)
      OBVIOUS
    <3>3. Calm(<<It("expr")>>, "args") /\ Calm(<<>>, "args")
      BY FitsAll, CalmShort DEF Inner
    <3>4. Pushed(x)
      BY <2>1, <2>4, <3>2, <3>3 DEF Pushed
    <3>5. Sound(x) /\ x.at \in Weighing /\ Weight(x) = Word * Top.n
      BY <2>4, <3>1, WeightType DEF Sound, Weighing
    <3>6. sp' = sp + Weight(Top) - Weight(x)
      BY <1>0, <2>1, <2>2, <3>5, Multiples
    <3> QED
      BY <2>1, <3>1, <3>4, <3>5, <3>6 DEF Weighs
  <2>5. CASE Goto(<<Declarator("call", Top.arg, "int", Top.n)>>)
    <3> PICK x : x = Declarator("call", Top.arg, "int", Top.n)
      OBVIOUS
    <3>1. x \in Item /\ x.at = "call" /\ x.n = Top.n
      BY <1>0, WeighingPieces
    <3>2. <<x>> = <<>> \o (<<x>> \o <<>>)
      OBVIOUS
    <3>3. Calm(<<>>, "args")
      BY CalmShort
    <3>4. Pushed(x)
      BY <2>1, <2>5, <3>2, <3>3 DEF Pushed
    <3>5. Sound(x) /\ x.at \in Weighing /\ Weight(x) = Word * Top.n
      BY <2>2, <3>1, WeightType DEF Sound, Weighing
    <3>6. sp' = sp + Weight(Top) - Weight(x)
      BY <1>0, <2>1, <2>2, <3>5, Multiples
    <3> QED
      BY <2>1, <3>1, <3>4, <3>5, <3>6 DEF Weighs
  <2> QED
    BY <2>1, <2>3, <2>4, <2>5
<1>6. CASE Argument
  <2>1. /\ Top.at = "arg" /\ status = "run" /\ UNCHANGED <<symbols, functions, lab, loops, code>>
        /\ UNCHANGED unpopped /\ sp' = sp - Word
        /\ Goto(<<Declarator("args", Top.arg, "int", Top.n + 1)>>)
    BY <1>6 DEF Argument, At, Top, Push
  <2>2. Weight(Top) = Word * Top.n /\ Top.n < MaxArgs
    BY <2>1, <1>0, WeightType DEF Weighing, Sound
  <2> PICK x : x = Declarator("args", Top.arg, "int", Top.n + 1)
    OBVIOUS
  <2>3. x \in Item /\ x.at = "args" /\ x.n = Top.n + 1
    BY <1>0, WeighingPieces
  <2>4. <<x>> = <<>> \o (<<x>> \o <<>>)
    OBVIOUS
  <2>5. Calm(<<>>, "arg")
    BY CalmShort
  <2>6. Pushed(x)
    BY <2>1, <2>4, <2>5 DEF Pushed
  <2>7. x.n <= MaxArgs
    BY <1>0, <2>2, <2>3, BoundsAssumption
  <2>8. Sound(x) /\ x.at \in Weighing /\ Weight(x) = Word * (Top.n + 1)
    BY <2>3, <2>7, WeightType DEF Sound, Weighing
  <2>9. sp' = sp + Weight(Top) - Weight(x)
    BY <1>0, <2>1, <2>2, <2>8, Multiples
  <2> QED
    BY <2>1, <2>3, <2>6, <2>8, <2>9 DEF Weighs
<1>7. CASE Call
  <2>1. /\ Top.at = "call" /\ status = "run" /\ UNCHANGED <<symbols, functions, lab, loops>>
        /\ Goto(<<>>)
        /\ \/ sp' = sp + Word * Top.n /\ UNCHANGED unpopped
           \/ unpopped' = unpopped + Top.n /\ UNCHANGED sp /\ ~(Top.n <= RegArgs)
    BY <1>7 DEF Call, At, Top
  <2>2. Weight(Top) = Word * Top.n
    BY <2>1, <1>0, WeightType DEF Weighing
  <2>3. ~(Top.n <= RegArgs) => Top.n > RegArgs
    BY <1>0, BoundsAssumption
  <2> QED
    BY <1>7, <2>1, <2>2, <2>3 DEF Weighs
<1> QED
  BY <1>1, <1>2, <1>3, <1>4, <1>5, <1>6, <1>7 DEF WeighingActions
-----------------------------------------------------------------------------
(* The actions that draw labels and emit jumps *)

LabelPieces(x, a, la, lb) ==
  /\ x \in Item /\ x.at = a /\ x.l1 = la /\ x.l2 = lb /\ Sound(x)

LEMMA LabelledType ==
  ASSUME NEW a \in {"ifElse", "ifEnd", "orEnd", "andEnd", "whileTest", "forTest"},
         NEW la \in Nat, NEW lb \in Nat
  PROVE  LabelPieces(Labelled(a, la, lb), a, la, lb)
<1>1. "" \in Token /\ "int" \in Types /\ 0 \in Nat
  BY TokenConstants DEF Types
<1>2. a \in Places
  BY DEF Places
<1>3. /\ Labelled(a, la, lb) \in Item /\ Labelled(a, la, lb).at = a
      /\ Labelled(a, la, lb).l1 = la /\ Labelled(a, la, lb).l2 = lb
  BY <1>1, <1>2 DEF Labelled, Piece, Item
<1> QED
  BY <1>3 DEF LabelPieces, Sound

\* a loop's piece holds its labels and its place on the loop stack
LoopPiece(x, a, la, lb, s) == LabelPieces(x, a, la, lb) /\ x.slot = s

LEMMA LoopPieceType ==
  ASSUME NEW a \in {"whileEnd", "forSkip"}, NEW la \in Nat, NEW lb \in Nat, NEW s \in Nat
  PROVE  LoopPiece(Piece(a, "", "int", 0, la, lb, s), a, la, lb, s)
<1>1. "" \in Token /\ "int" \in Types /\ 0 \in Nat
  BY TokenConstants DEF Types
<1>2. a \in Places
  BY DEF Places
<1> PICK x : x = Piece(a, "", "int", 0, la, lb, s)
  OBVIOUS
<1>3. x \in Item /\ x.at = a /\ x.l1 = la /\ x.l2 = lb /\ x.slot = s
  BY <1>1, <1>2 DEF Piece, Item
<1> QED
  BY <1>3 DEF LoopPiece, LabelPieces, Sound

LabellingActions == ShortCircuit \/ ShortCircuitEnd \/ IfTest \/ IfElse \/ IfEnd
                    \/ WhileTest \/ ForTest \/ LeaveLoop

\* what each of them does to the C stack, to the label counter and to the code
LEMMA ShortCircuitMoves ==
  ASSUME Inv, ShortCircuit
  PROVE  /\ Top.at = "level" /\ status = "run"
         /\ UNCHANGED <<symbols, functions, sp, loops, unpopped>>
         /\ \/ /\ lab' = lab + 2
               /\ \E x \in Item : \E a \in {"orEnd", "andEnd"} :
                    LabelPieces(x, a, lab, lab + 1) /\ Pushed(x)
               /\ \E op \in {"jz", "jnz"} : code' = Append(code, Jump(op, lab))
            \/ Goto(<<>>) /\ UNCHANGED <<lab, code>>
<1>0. /\ Top \in Item /\ Top.n + 1 \in Nat /\ Sound(Top) /\ lab \in Nat /\ lab + 1 \in Nat
  BY TopType, TopNumbers, StackFacts
<1>1. /\ Top.at = "level" /\ status = "run"
      /\ UNCHANGED <<symbols, functions, sp, loops, unpopped>>
  BY DEF ShortCircuit, At, Top
<1>2. CASE Goto(<<>>) /\ UNCHANGED <<lab, code>>
  BY <1>1, <1>2
<1>3. CASE /\ lab' = lab + 2
           /\ Emit(<<Jump(IF Top.n = 1 THEN "jnz" ELSE "jz", lab)>>)
           /\ Goto(Operand(Top.n + 1) \o
                   <<Labelled(IF Top.n = 1 THEN "orEnd" ELSE "andEnd", lab, lab + 1), Top>>)
  <2> PICK a, op, x : /\ a = IF Top.n = 1 THEN "orEnd" ELSE "andEnd"
                      /\ op = IF Top.n = 1 THEN "jnz" ELSE "jz"
                      /\ x = Labelled(a, lab, lab + 1)
    OBVIOUS
  <2>1. a \in {"orEnd", "andEnd"} /\ op \in {"jz", "jnz"}
    OBVIOUS
  <2>2. LabelPieces(x, a, lab, lab + 1)
    BY <1>0, <2>1, LabelledType
  <2>3. <<x, Top>> = <<x>> \o <<Top>>
    OBVIOUS
  <2>4. Fits(Top, "level")
    BY <1>0, <1>1, Kinds DEF Fits, Sound, Inner
  <2>5. Calm(<<Top>>, Top.at) /\ Calm(Operand(Top.n + 1), Top.at)
    BY <1>0, <1>1, <2>4, CalmShort, CalmOperand
  <2>6. Pushed(x)
    BY <1>3, <2>3, <2>5 DEF Pushed
  <2>7. code' = Append(code, Jump(op, lab))
    <3> PICK y : y = Jump(op, lab)
      OBVIOUS
    <3>1. y \in Instruction /\ Emit(<<y>>)
      BY <1>0, <1>3, <2>1, JumpType
    <3> QED
      BY <3>1, EmitType
  <2> QED
    BY <1>1, <1>3, <2>1, <2>2, <2>6, <2>7 DEF LabelPieces
<1> QED
  BY <1>2, <1>3 DEF ShortCircuit

LEMMA ShortCircuitEndMoves ==
  ASSUME Inv, ShortCircuitEnd
  PROVE  /\ Top.at \in {"orEnd", "andEnd"} /\ status = "run" /\ Goto(<<>>)
         /\ UNCHANGED <<symbols, functions, sp, lab, loops, unpopped>>
         /\ \/ code' = Append(Append(code, Label(Top.l1)), Label(Top.l2))
            \/ code' = Append(Append(Append(code, Jump("jump", Top.l2)), Label(Top.l1)),
                              Label(Top.l2))
<1>1. /\ Top.at \in {"orEnd", "andEnd"} /\ status = "run" /\ Goto(<<>>)
      /\ UNCHANGED <<symbols, functions, sp, lab, loops, unpopped>>
      /\ \/ Emit(<<Label(Top.l1), Label(Top.l2)>>)
         \/ Emit(<<Jump("jump", Top.l2), Label(Top.l1), Label(Top.l2)>>)
  BY DEF ShortCircuitEnd, At, Top
<1>2. Top.l1 \in Nat /\ Top.l2 \in Nat
  BY TopType
<1> PICK x, y, z : x = Label(Top.l1) /\ y = Label(Top.l2) /\ z = Jump("jump", Top.l2)
  OBVIOUS
<1>3. x \in Instruction /\ y \in Instruction /\ z \in Instruction
  BY <1>2, JumpType
<1>4. Emit(<<x, y>>) \/ Emit(<<z, x, y>>)
  BY <1>1
<1>5. code' = Append(Append(code, x), y) \/ code' = Append(Append(Append(code, z), x), y)
  BY <1>3, <1>4, EmitType
<1> QED
  BY <1>1, <1>5

LEMMA IfTestMoves ==
  ASSUME Inv, IfTest
  PROVE  /\ Top.at = "ifTest" /\ status = "run"
         /\ UNCHANGED <<symbols, functions, sp, loops, unpopped>>
         /\ lab' = lab + 1
         /\ \E x \in Item : LabelPieces(x, "ifElse", lab, 0) /\ Pushed(x)
         /\ code' = Append(code, Jump("jz", lab))
<1>0. lab \in Nat /\ 0 \in Nat
  BY TopType, TopNumbers
<1>1. /\ Top.at = "ifTest" /\ status = "run"
      /\ UNCHANGED <<symbols, functions, sp, loops, unpopped>>
      /\ lab' = lab + 1 /\ Emit(<<Jump("jz", lab)>>)
      /\ Goto(<<It("stmt"), Labelled("ifElse", lab, 0)>>)
  BY DEF IfTest, At, Top
<1> PICK x : x = Labelled("ifElse", lab, 0)
  OBVIOUS
<1>2. LabelPieces(x, "ifElse", lab, 0)
  BY <1>0, LabelledType
<1>3. <<It("stmt"), x>> = <<It("stmt")>> \o (<<x>> \o <<>>)
  OBVIOUS
<1>4. Calm(<<It("stmt")>>, "ifTest") /\ Calm(<<>>, "ifTest")
  BY FitsAll, CalmShort DEF Between, StatementLevel
<1>5. Pushed(x)
  BY <1>1, <1>3, <1>4 DEF Pushed
<1>6. code' = Append(code, Jump("jz", lab))
  <2> PICK y : y = Jump("jz", lab)
    OBVIOUS
  <2>1. y \in Instruction /\ Emit(<<y>>)
    BY <1>0, <1>1, JumpType
  <2> QED
    BY <2>1, EmitType
<1> QED
  BY <1>1, <1>2, <1>5, <1>6 DEF LabelPieces

LEMMA IfElseMoves ==
  ASSUME Inv, IfElse
  PROVE  /\ Top.at = "ifElse" /\ status = "run"
         /\ UNCHANGED <<symbols, functions, sp, loops, unpopped>>
         /\ \/ /\ lab' = lab + 1
               /\ \E x \in Item : LabelPieces(x, "ifEnd", lab, 0) /\ Pushed(x)
               /\ code' = Append(Append(code, Jump("jump", lab)), Label(Top.l1))
            \/ Goto(<<>>) /\ lab' = lab /\ code' = Append(code, Label(Top.l1))
<1>0. lab \in Nat /\ 0 \in Nat /\ Top.l1 \in Nat
  BY TopType, TopNumbers
<1>1. /\ Top.at = "ifElse" /\ status = "run"
      /\ UNCHANGED <<symbols, functions, sp, loops, unpopped>>
      /\ \/ /\ lab' = lab + 1 /\ Emit(<<Jump("jump", lab), Label(Top.l1)>>)
            /\ Goto(<<It("stmt"), Labelled("ifEnd", lab, 0)>>)
         \/ lab' = lab /\ Emit(<<Label(Top.l1)>>) /\ Goto(<<>>)
  BY DEF IfElse, At, Top
<1> PICK x, y, z : /\ x = Labelled("ifEnd", lab, 0) /\ y = Jump("jump", lab)
                   /\ z = Label(Top.l1)
  OBVIOUS
<1>2. LabelPieces(x, "ifEnd", lab, 0) /\ x \in Item
  BY <1>0, LabelledType DEF LabelPieces
<1>3. <<It("stmt"), x>> = <<It("stmt")>> \o (<<x>> \o <<>>)
  OBVIOUS
<1>4. Calm(<<It("stmt")>>, "ifElse") /\ Calm(<<>>, "ifElse")
  BY FitsAll, CalmShort DEF Between, StatementLevel
<1>5. Goto(<<It("stmt"), x>>) => Pushed(x)
  BY <1>1, <1>3, <1>4 DEF Pushed
<1>6. y \in Instruction /\ z \in Instruction
  BY <1>0, JumpType
<1>7. /\ Emit(<<y, z>>) => code' = Append(Append(code, y), z)
      /\ Emit(<<z>>) => code' = Append(code, z)
  BY <1>6, EmitType
<1> QED
  BY <1>1, <1>2, <1>5, <1>7

LEMMA IfEndMoves ==
  ASSUME Inv, IfEnd
  PROVE  /\ Top.at = "ifEnd" /\ status = "run" /\ Goto(<<>>)
         /\ UNCHANGED <<symbols, functions, sp, lab, loops, unpopped>>
         /\ code' = Append(code, Label(Top.l1))
<1>1. /\ Top.at = "ifEnd" /\ status = "run" /\ Goto(<<>>)
      /\ UNCHANGED <<symbols, functions, sp, lab, loops, unpopped>>
      /\ Emit(<<Label(Top.l1)>>)
  BY DEF IfEnd, At, Top
<1> PICK z : z = Label(Top.l1)
  OBVIOUS
<1>2. z \in Instruction
  BY TopType, JumpType
<1>3. code' = Append(code, z)
  BY <1>1, <1>2, EmitType
<1> QED
  BY <1>1, <1>3

LEMMA TestMoves ==
  ASSUME Inv, WhileTest \/ ForTest
  PROVE  /\ Top.at \in {"whileTest", "forTest"} /\ status = "run" /\ Goto(<<>>)
         /\ UNCHANGED <<symbols, functions, sp, lab, loops, unpopped>>
         /\ code' = Append(code, Jump("jz", Top.l2))
<1>1. /\ Top.at \in {"whileTest", "forTest"} /\ status = "run" /\ Goto(<<>>)
      /\ UNCHANGED <<symbols, functions, sp, lab, loops, unpopped>>
      /\ Emit(<<Jump("jz", Top.l2)>>)
  BY DEF WhileTest, ForTest, At, Top
<1> PICK z : z = Jump("jz", Top.l2)
  OBVIOUS
<1>2. z \in Instruction
  BY TopType, JumpType
<1>3. code' = Append(code, z)
  BY <1>1, <1>2, EmitType
<1> QED
  BY <1>1, <1>3

\* break and continue: the labels of the innermost loop on the loop stack
LEMMA LeaveMoves ==
  ASSUME Inv, LeaveLoop
  PROVE  /\ Top.at \in {"break", "continue"} /\ status = "run" /\ Goto(<<>>)
         /\ UNCHANGED <<symbols, functions, sp, lab, loops, unpopped>>
         /\ wsp > 0 /\ wsp - 1 \in 0..(MaxWhile - 1)
         /\ \E l \in {breaklab[wsp - 1], contlab[wsp - 1]} :
              l \in Nat /\ code' = Append(code, Jump("jump", l))
<1>1. /\ Top.at \in {"break", "continue"} /\ status = "run" /\ Goto(<<>>)
      /\ UNCHANGED <<symbols, functions, sp, lab, loops, unpopped>>
      /\ wsp > 0
      /\ \/ Emit(<<Jump("jump", breaklab[wsp - 1])>>)
         \/ Emit(<<Jump("jump", contlab[wsp - 1])>>)
  BY DEF LeaveLoop, At, Top
<1>2. /\ wsp \in 0..MaxWhile /\ MaxWhile \in Nat
      /\ breaklab \in [0..(MaxWhile - 1) -> Nat] /\ contlab \in [0..(MaxWhile - 1) -> Nat]
  BY BoundsAssumption DEF Inv, TypeOK
<1>3. wsp - 1 \in 0..(MaxWhile - 1)
  BY <1>1, <1>2
<1>4. breaklab[wsp - 1] \in Nat /\ contlab[wsp - 1] \in Nat
  BY <1>2, <1>3
<1>5. ASSUME NEW l \in Nat, Emit(<<Jump("jump", l)>>)
      PROVE  code' = Append(code, Jump("jump", l))
  <2> PICK z : z = Jump("jump", l)
    OBVIOUS
  <2>1. z \in Instruction
    BY JumpType
  <2> QED
    BY <1>5, <2>1, EmitType
<1> QED
  BY <1>1, <1>3, <1>4, <1>5
-----------------------------------------------------------------------------
(* The actions on the loop stack *)

LEMMA ShortItems ==
  It("expr") \in Item /\ It("stmt") \in Item /\ Expect(";") \in Item
BY TokenConstants DEF It, Expect, With, Piece, Item, Places, Types

LEMMA WhileHeadMoves ==
  ASSUME Inv, WhileHead
  PROVE  \E test, end \in Item :
           /\ LabelPieces(test, "whileTest", 0, lab + 1)
           /\ LoopPiece(end, "whileEnd", lab, lab + 1, wsp)
           /\ ctl' = Before(It("expr"), Before(test, Before(It("stmt"), Before(end, Tail(ctl)))))
           /\ Top.at = "whileHead" /\ status = "run" /\ wsp < MaxWhile
           /\ OpenLoop(lab + 1, lab) /\ lab' = lab + 2
           /\ code' = Append(code, Label(lab))
           /\ UNCHANGED <<symbols, functions, sp, unpopped>>
<1>0. lab \in Nat /\ lab + 1 \in Nat /\ wsp \in Nat /\ 0 \in Nat
  BY TopType, TopNumbers
<1> PICK test, end, z : /\ test = Labelled("whileTest", 0, lab + 1)
                        /\ end = Piece("whileEnd", "", "int", 0, lab, lab + 1, wsp)
                        /\ z = Label(lab)
  OBVIOUS
<1>1. /\ Goto(<<It("expr"), test, It("stmt"), end>>)
      /\ Top.at = "whileHead" /\ status = "run" /\ wsp < MaxWhile
      /\ OpenLoop(lab + 1, lab) /\ lab' = lab + 2 /\ Emit(<<z>>)
      /\ UNCHANGED <<symbols, functions, sp, unpopped>>
  BY DEF WhileHead, At, Top
<1>a. PICK o \in Nat, m \in Nat : o = 0 /\ m = lab + 1
  BY <1>0
<1>b. test = Labelled("whileTest", o, m) /\ end = Piece("whileEnd", "", "int", 0, lab, m, wsp)
  BY <1>a
<1>2. LabelPieces(test, "whileTest", 0, lab + 1) /\ test \in Item
  <2>1. LabelPieces(test, "whileTest", o, m)
    BY <1>b, LabelledType
  <2> QED
    BY <1>a, <2>1 DEF LabelPieces
<1>3. LoopPiece(end, "whileEnd", lab, lab + 1, wsp) /\ end \in Item
  <2>1. LoopPiece(end, "whileEnd", lab, m, wsp)
    BY <1>0, <1>b, LoopPieceType
  <2> QED
    BY <1>a, <2>1 DEF LoopPiece, LabelPieces
<1>4. z \in Instruction
  BY <1>0, JumpType
<1>5. code' = Append(code, z)
  BY <1>1, <1>4, EmitType
<1>6. ctl' = Before(It("expr"), Before(test, Before(It("stmt"), Before(end, Tail(ctl)))))
  <2>1. It("expr") \in Item /\ It("stmt") \in Item /\ Tail(ctl) \in ListOf(Item)
    BY ShortItems, StackFacts DEF ListOf
  <2>2. ctl' = Joined(Quad(It("expr"), test, It("stmt"), end), Tail(ctl))
    BY <1>1 DEF Quad, Goto, Joined
  <2>3. test \in Item /\ end \in Item
    BY <1>2, <1>3
  <2> QED
    BY ONLY <2>1, <2>2, <2>3, JoinedQuad
<1> QED
  BY <1>1, <1>2, <1>3, <1>5, <1>6

LEMMA WhileEndMoves ==
  ASSUME Inv, WhileEnd
  PROVE  /\ Top.at = "whileEnd" /\ status = "run" /\ Goto(<<>>) /\ wsp' = wsp - 1
         /\ UNCHANGED <<symbols, functions, sp, lab, breaklab, contlab, unpopped>>
         /\ code' = Append(Append(code, Jump("jump", Top.l1)), Label(Top.l2))
<1>1. /\ Top.at = "whileEnd" /\ status = "run" /\ Goto(<<>>) /\ wsp' = wsp - 1
      /\ UNCHANGED <<symbols, functions, sp, lab, breaklab, contlab, unpopped>>
      /\ Emit(<<Jump("jump", Top.l1), Label(Top.l2)>>)
  BY DEF WhileEnd, At, Top
<1> PICK y, z : y = Jump("jump", Top.l1) /\ z = Label(Top.l2)
  OBVIOUS
<1>2. y \in Instruction /\ z \in Instruction
  BY TopType, JumpType
<1>3. code' = Append(Append(code, y), z)
  BY <1>1, <1>2, EmitType
<1> QED
  BY <1>1, <1>3

\* the test of a for statement may be empty
LEMMA ForLoopMoves ==
  ASSUME Inv, ForLoop
  PROVE  \E test, end \in Item :
           /\ LabelPieces(test, "forTest", 0, lab + 1)
           /\ LoopPiece(end, "forSkip", lab + 2, lab + 1, wsp)
           /\ \/ ctl' = Before(Expect(";"), Before(end, Tail(ctl)))
              \/ ctl' = Before(It("expr"), Before(test, Before(Expect(";"), Before(end, Tail(ctl)))))
           /\ Top.at = "forLoop" /\ status = "run"
           /\ OpenLoop(lab + 1, lab + 2) /\ lab' = lab + 3
           /\ code' = Append(code, Label(lab))
           /\ UNCHANGED <<symbols, functions, sp, unpopped>>
<1>0. lab \in Nat /\ lab + 1 \in Nat /\ lab + 2 \in Nat /\ wsp \in Nat /\ 0 \in Nat
  BY TopType, TopNumbers
<1> PICK test, end, z : /\ test = Labelled("forTest", 0, lab + 1)
                        /\ end = Piece("forSkip", "", "int", 0, lab + 2, lab + 1, wsp)
                        /\ z = Label(lab)
  OBVIOUS
<1> PICK e, s, below : e = It("expr") /\ s = Expect(";") /\ below = Tail(ctl)
  OBVIOUS
<1>1. /\ \/ Goto(<<s, end>>)
         \/ Goto(<<e, test>> \o <<s, end>>)
      /\ Top.at = "forLoop" /\ status = "run"
      /\ OpenLoop(lab + 1, lab + 2) /\ lab' = lab + 3 /\ Emit(<<z>>)
      /\ UNCHANGED <<symbols, functions, sp, unpopped>>
  BY DEF ForLoop, At, Top
<1>a. PICK o \in Nat, m \in Nat, k \in Nat : o = 0 /\ m = lab + 1 /\ k = lab + 2
  BY <1>0
<1>b. test = Labelled("forTest", o, m) /\ end = Piece("forSkip", "", "int", 0, k, m, wsp)
  BY <1>a
<1>2. LabelPieces(test, "forTest", 0, lab + 1) /\ test \in Item
  <2>1. LabelPieces(test, "forTest", o, m)
    BY <1>b, LabelledType
  <2> QED
    BY <1>a, <2>1 DEF LabelPieces
<1>3. LoopPiece(end, "forSkip", lab + 2, lab + 1, wsp) /\ end \in Item
  <2>1. LoopPiece(end, "forSkip", k, m, wsp)
    BY <1>0, <1>b, LoopPieceType
  <2> QED
    BY <1>a, <2>1 DEF LoopPiece, LabelPieces
<1>4. z \in Instruction
  BY <1>0, JumpType
<1>5. code' = Append(code, z)
  BY <1>1, <1>4, EmitType
<1>6. e \in Item /\ s \in Item /\ below \in ListOf(Item)
  BY ShortItems, StackFacts DEF ListOf
<1>7. \/ ctl' = Joined(Pair(s, end), below)
      \/ ctl' = Joined(Joined(Pair(e, test), Pair(s, end)), below)
  BY <1>1 DEF Pair, Goto, Joined
<1>8. \/ ctl' = Before(s, Before(end, below))
       \/ ctl' = Before(e, Before(test, Before(s, Before(end, below))))
  <2>1. test \in Item /\ end \in Item
    BY <1>2, <1>3
  <2>2. Joined(Pair(s, end), below) = Before(s, Before(end, below))
    BY ONLY <1>6, <2>1, JoinedPair
  <2>3. Joined(Joined(Pair(e, test), Pair(s, end)), below)
        = Before(e, Before(test, Before(s, Before(end, below))))
    BY ONLY <1>6, <2>1, JoinedPairs
  <2> QED
    BY ONLY <1>7, <2>2, <2>3
<1> QED
  BY <1>1, <1>2, <1>3, <1>5, <1>8

\* the loop's piece waits for the body; where it is in the loop is all that changes
LEMMA ForSkipMoves ==
  ASSUME Inv, ForSkip
  PROVE  \E end \in Item :
           /\ LoopPiece(end, "forTail", Top.l1, Top.l2, Top.slot)
           /\ ctl' = Before(It("stmt"), Before(end, Tail(ctl)))
           /\ Top.at = "forSkip" /\ status = "run" /\ token = ")" /\ UNCHANGED input
           /\ UNCHANGED <<symbols, functions, sp, lab, loops, code, unpopped>>
<1> PICK end : end = [Top EXCEPT !.at = "forTail"]
  OBVIOUS
<1>1. /\ Goto(<<It("stmt"), end>>)
      /\ Top.at = "forSkip" /\ status = "run" /\ token = ")" /\ UNCHANGED input
      /\ UNCHANGED <<symbols, functions, sp, lab, loops, code, unpopped>>
  BY DEF ForSkip, At, Top
<1>2. Top \in Item /\ "forTail" \in Places
  BY StackFacts DEF Places
<1>3. /\ end \in Item /\ end.at = "forTail" /\ end.l1 = Top.l1 /\ end.l2 = Top.l2
      /\ end.slot = Top.slot
  BY <1>2 DEF Item
<1>4. LoopPiece(end, "forTail", Top.l1, Top.l2, Top.slot)
  BY <1>3 DEF LoopPiece, LabelPieces, Sound
<1>5. ctl' = Before(It("stmt"), Before(end, Tail(ctl)))
  <2>1. It("stmt") \in Item /\ Tail(ctl) \in ListOf(Item)
    BY ShortItems, StackFacts DEF ListOf
  <2>2. ctl' = Joined(Pair(It("stmt"), end), Tail(ctl))
    BY <1>1 DEF Pair, Goto, Joined
  <2> QED
    BY <1>3, <2>1, <2>2, JoinedPair
<1> QED
  BY <1>1, <1>3, <1>4, <1>5

\* what OpenLoop writes
LEMMA OpenLoopWrites ==
  ASSUME Inv, wsp < MaxWhile, NEW break \in Nat, NEW continue \in Nat,
         OpenLoop(break, continue)
  PROVE  /\ wsp' = wsp + 1 /\ wsp' \in 0..MaxWhile /\ wsp \in Nat
         /\ breaklab' \in [0..(MaxWhile - 1) -> Nat] /\ contlab' \in [0..(MaxWhile - 1) -> Nat]
         /\ breaklab'[wsp] = break /\ contlab'[wsp] = continue
         /\ \A s \in 0..(wsp - 1) : breaklab'[s] = breaklab[s] /\ contlab'[s] = contlab[s]
<1>1. /\ wsp \in 0..MaxWhile /\ MaxWhile \in Nat \ {0}
      /\ breaklab \in [0..(MaxWhile - 1) -> Nat] /\ contlab \in [0..(MaxWhile - 1) -> Nat]
  BY BoundsAssumption DEF Inv, TypeOK
<1>2. wsp \in 0..(MaxWhile - 1) /\ wsp + 1 \in 0..MaxWhile /\ wsp \in Nat
  BY <1>1
<1>3. /\ breaklab' = [breaklab EXCEPT ![wsp] = break]
      /\ contlab' = [contlab EXCEPT ![wsp] = continue]
      /\ wsp' = wsp + 1
  BY DEF OpenLoop
<1>4. \A s \in 0..(wsp - 1) : s \in 0..(MaxWhile - 1) /\ s # wsp
  BY <1>1
<1>5. /\ breaklab' \in [0..(MaxWhile - 1) -> Nat] /\ contlab' \in [0..(MaxWhile - 1) -> Nat]
  BY <1>1, <1>2, <1>3
<1>6. breaklab'[wsp] = break /\ contlab'[wsp] = continue
  BY <1>1, <1>2, <1>3
<1>7. \A s \in 0..(wsp - 1) : breaklab'[s] = breaklab[s] /\ contlab'[s] = contlab[s]
  BY <1>1, <1>3, <1>4
<1> QED
  BY <1>2, <1>3, <1>5, <1>6, <1>7
-----------------------------------------------------------------------------
(* The invariant is inductive *)

LEMMA EmittedType ==
  ASSUME Inv, NEW x \in Instruction, NEW y \in Instruction, NEW z \in Instruction,
         \/ code' = code \/ code' = Append(code, x) \/ code' = Append(Append(code, x), y)
         \/ code' = Append(Append(Append(code, x), y), z)
  PROVE  code' \in Seq(Instruction)
<1>1. code \in Seq(Instruction)
  BY DEF Inv, TypeOK
<1>2. /\ Append(code, x) \in Seq(Instruction)
      /\ Append(Append(code, x), y) \in Seq(Instruction)
      /\ Append(Append(Append(code, x), y), z) \in Seq(Instruction)
  BY <1>1
<1> QED
  BY <1>1, <1>2

LEMMA WeighingInv ==
  ASSUME Inv, WeighingActions
  PROVE  Inv'
<1>1. /\ Weighs
      /\ Top.at \in {"assign", "level", "pop", "postfix", "args", "arg", "call"}
      /\ UNCHANGED <<symbols, functions, lab, loops>>
      /\ code' = code \/ Call
  BY WeighingMoves
<1>2. Reads
  BY Reading DEF WeighingActions, Next, Expressions
<1>3. TablesTyped
  BY <1>1, TablesKept
<1>4. Top.at \notin LoopAt /\ Top.at \notin Outermost
  BY <1>1 DEF LoopAt, Outermost
<1>5. StackKept
  <2>1. ASSUME NEW x \in Item, Pushed(x), Sound(x), x.at \in Weighing
        PROVE  StackKept
    <3>1. x.at \notin LoopAt
      BY <2>1 DEF Weighing, LoopAt
    <3> QED
      BY <1>1, <1>4, <2>1, <3>1, PushedStack
  <2>2. Goto(<<>>) => StackKept
    BY <1>1, <1>4, ReturnStack
  <2>3. UNCHANGED ctl => StackKept
    BY <1>1, InvStack DEF StackKept, Inv, Bottom, loops
  <2> QED
    BY <1>1, <2>1, <2>2, <2>3 DEF Weighs
<1>6. sp' \in Int /\ unpopped' \in Nat
  <2>1. /\ sp \in Int /\ unpopped \in Nat /\ unpopped + Top.n \in Nat /\ Top \in Item
        /\ Weight(Top) \in Int
    BY TopType, TopNumbers, StackFacts, WeightType
  <2>2. ASSUME NEW x \in Item
        PROVE  sp + Weight(Top) - Weight(x) \in Int /\ sp + Weight(Top) \in Int
    <3>1. Weight(x) \in Int
      BY WeightType
    <3> QED
      BY <2>1, <3>1
  <2> QED
    BY <1>1, <2>1, <2>2 DEF Weighs
<1>7. lab' \in Nat \ {0}
  BY <1>1, TopType
<1>8. code' \in Seq(Instruction)
  <2>1. CASE Call
    <3> PICK x : x = Instr("call", 0, Top.arg)
      OBVIOUS
    <3>1. x \in Instruction
      BY TopType, EmitType
    <3>2. Emit(<<x>>)
      BY <2>1 DEF Call
    <3>3. code' = Append(code, x)
      BY <3>1, <3>2, EmitType
    <3> QED
      BY <3>1, <3>3, EmittedType
  <2> QED
    BY <1>1, <2>1 DEF Inv, TypeOK
<1> QED
  BY <1>1, <1>2, <1>3, <1>5, <1>6, <1>7, <1>8, InvKept

\* the actions of statements and of || and &&
LEMMA LabellingInv ==
  ASSUME Inv, LabellingActions
  PROVE  Inv'
<1>0. /\ lab \in Nat \ {0} /\ lab + 1 \in Nat \ {0} /\ lab + 2 \in Nat \ {0}
      /\ sp \in Int /\ unpopped \in Nat
      /\ Top.l1 \in Nat /\ Top.l2 \in Nat
  BY TopType, TopNumbers
<1>1. Reads
  BY Reading DEF LabellingActions, Next, Statements, Expressions
<1>2. ASSUME UNCHANGED <<symbols, functions, sp, loops, unpopped>>, StackKept,
             lab' \in {lab, lab + 1, lab + 2}, code' \in Seq(Instruction)
      PROVE  Inv'
  <2>1. TablesTyped
    BY <1>2, TablesKept
  <2> QED
    BY <1>0, <1>1, <1>2, <2>1, InvKept
<1>3. ASSUME NEW x \in Item, Pushed(x), Sound(x), x.at \notin LoopAt, Top.at \notin LoopAt,
             Top.at \notin Outermost, UNCHANGED loops
      PROVE  StackKept
  BY <1>3, PushedStack
<1>4. ASSUME Goto(<<>>), Top.at \notin LoopAt, Top.at \notin Outermost, UNCHANGED loops
      PROVE  StackKept
  BY <1>4, ReturnStack
<1>5. CASE ShortCircuit
  <2>1. /\ Top.at = "level"
        /\ UNCHANGED <<symbols, functions, sp, loops, unpopped>>
        /\ \/ /\ lab' = lab + 2
              /\ \E x \in Item : \E a \in {"orEnd", "andEnd"} :
                   LabelPieces(x, a, lab, lab + 1) /\ Pushed(x)
              /\ \E op \in {"jz", "jnz"} : code' = Append(code, Jump(op, lab))
           \/ Goto(<<>>) /\ UNCHANGED <<lab, code>>
    BY <1>5, ShortCircuitMoves
  <2>2. CASE Goto(<<>>) /\ UNCHANGED <<lab, code>>
    BY <1>2, <1>4, <2>1, <2>2 DEF LoopAt, Outermost, Inv, TypeOK
  <2>3. CASE /\ lab' = lab + 2
             /\ \E x \in Item : \E a \in {"orEnd", "andEnd"} :
                  LabelPieces(x, a, lab, lab + 1) /\ Pushed(x)
             /\ \E op \in {"jz", "jnz"} : code' = Append(code, Jump(op, lab))
    <3>1. PICK x \in Item : \E a \in {"orEnd", "andEnd"} :
                  LabelPieces(x, a, lab, lab + 1) /\ Pushed(x)
      BY <2>3
    <3>2. StackKept
      BY <1>3, <2>1, <3>1 DEF LabelPieces, LoopAt, Outermost
    <3>3. PICK op \in {"jz", "jnz"} : code' = Append(code, Jump(op, lab))
      BY <2>3
    <3>4. Jump(op, lab) \in Instruction
      BY <1>0, <3>3, JumpType
    <3>5. code' \in Seq(Instruction)
      BY <3>3, <3>4, EmittedType
    <3> QED
      BY <1>2, <2>1, <2>3, <3>2, <3>5
  <2> QED
    BY <2>1, <2>2, <2>3
<1>6. CASE ShortCircuitEnd
  <2>1. /\ Top.at \in {"orEnd", "andEnd"} /\ Goto(<<>>)
        /\ UNCHANGED <<symbols, functions, sp, lab, loops, unpopped>>
        /\ \/ code' = Append(Append(code, Label(Top.l1)), Label(Top.l2))
           \/ code' = Append(Append(Append(code, Jump("jump", Top.l2)), Label(Top.l1)),
                             Label(Top.l2))
    BY <1>6, ShortCircuitEndMoves
  <2>2. /\ Label(Top.l1) \in Instruction /\ Label(Top.l2) \in Instruction
        /\ Jump("jump", Top.l2) \in Instruction
    BY <1>0, JumpType
  <2>3. code' \in Seq(Instruction)
    BY <2>1, <2>2, EmittedType
  <2> QED
    BY <1>2, <1>4, <2>1, <2>3 DEF LoopAt, Outermost
<1>7. CASE IfTest
  <2>1. /\ Top.at = "ifTest"
        /\ UNCHANGED <<symbols, functions, sp, loops, unpopped>>
        /\ lab' = lab + 1
        /\ \E x \in Item : LabelPieces(x, "ifElse", lab, 0) /\ Pushed(x)
        /\ code' = Append(code, Jump("jz", lab))
    BY <1>7, IfTestMoves
  <2>2. PICK x \in Item : LabelPieces(x, "ifElse", lab, 0) /\ Pushed(x)
    BY <2>1
  <2>3. StackKept
    BY <1>3, <2>1, <2>2 DEF LabelPieces, LoopAt, Outermost
  <2>4. Jump("jz", lab) \in Instruction
    BY <1>0, JumpType
  <2>5. code' \in Seq(Instruction)
    BY <2>1, <2>4, EmittedType
  <2> QED
    BY <1>2, <2>1, <2>3, <2>5
<1>8. CASE IfElse
  <2>1. /\ Top.at = "ifElse"
        /\ UNCHANGED <<symbols, functions, sp, loops, unpopped>>
        /\ \/ /\ lab' = lab + 1
              /\ \E x \in Item : LabelPieces(x, "ifEnd", lab, 0) /\ Pushed(x)
              /\ code' = Append(Append(code, Jump("jump", lab)), Label(Top.l1))
           \/ Goto(<<>>) /\ lab' = lab /\ code' = Append(code, Label(Top.l1))
    BY <1>8, IfElseMoves
  <2>2. Jump("jump", lab) \in Instruction /\ Label(Top.l1) \in Instruction
    BY <1>0, JumpType
  <2>3. code' \in Seq(Instruction)
    BY <2>1, <2>2, EmittedType
  <2>4. ASSUME NEW x \in Item, LabelPieces(x, "ifEnd", lab, 0), Pushed(x)
        PROVE  StackKept
    BY <1>3, <2>1, <2>4 DEF LabelPieces, LoopAt, Outermost
  <2>5. Goto(<<>>) => StackKept
    BY <1>4, <2>1 DEF LoopAt, Outermost
  <2> QED
    BY <1>2, <2>1, <2>3, <2>4, <2>5
<1>9. CASE IfEnd
  <2>1. /\ Top.at = "ifEnd" /\ Goto(<<>>)
        /\ UNCHANGED <<symbols, functions, sp, lab, loops, unpopped>>
        /\ code' = Append(code, Label(Top.l1))
    BY <1>9, IfEndMoves
  <2>2. Label(Top.l1) \in Instruction
    BY <1>0, JumpType
  <2>3. code' \in Seq(Instruction)
    BY <2>1, <2>2, EmittedType
  <2> QED
    BY <1>2, <1>4, <2>1, <2>3 DEF LoopAt, Outermost
<1>10. CASE WhileTest \/ ForTest
  <2>1. /\ Top.at \in {"whileTest", "forTest"} /\ Goto(<<>>)
        /\ UNCHANGED <<symbols, functions, sp, lab, loops, unpopped>>
        /\ code' = Append(code, Jump("jz", Top.l2))
    BY <1>10, TestMoves
  <2>2. Jump("jz", Top.l2) \in Instruction
    BY <1>0, JumpType
  <2>3. code' \in Seq(Instruction)
    BY <2>1, <2>2, EmittedType
  <2> QED
    BY <1>2, <1>4, <2>1, <2>3 DEF LoopAt, Outermost
<1>11. CASE LeaveLoop
  <2>1. /\ Top.at \in {"break", "continue"} /\ Goto(<<>>)
        /\ UNCHANGED <<symbols, functions, sp, lab, loops, unpopped>>
        /\ \E l \in {breaklab[wsp - 1], contlab[wsp - 1]} :
             l \in Nat /\ code' = Append(code, Jump("jump", l))
    BY <1>11, LeaveMoves
  <2>2. PICK l \in Nat : code' = Append(code, Jump("jump", l))
    BY <2>1
  <2>3. Jump("jump", l) \in Instruction
    BY JumpType
  <2>4. code' \in Seq(Instruction)
    BY <2>2, <2>3, EmittedType
  <2> QED
    BY <1>2, <1>4, <2>1, <2>4 DEF LoopAt, Outermost
<1> QED
  BY <1>5, <1>6, <1>7, <1>8, <1>9, <1>10, <1>11 DEF LabellingActions
-----------------------------------------------------------------------------
(* The loop stack has room for every for statement begun: nothing that opens a loop *)
(* is compiled between the test of its limit and the loop's entry in it             *)

RoomOf(c, w) ==
  \A j \in DOMAIN c : c[j].at \in {"forInit", "forLoop"} =>
    w < MaxWhile /\ \A i \in DOMAIN c : i < j => c[i].at \notin StatementLevel
Room == RoomOf(ctl, wsp)

\* a for statement is not begun below a piece that runs between two expressions
NoneBegun(c) == \A j \in DOMAIN c : c[j].at \notin {"forInit", "forLoop"}

LEMMA NoneBelow ==
  ASSUME Inv, Room, Top.at \in StatementLevel
  PROVE  NoneBegun(Tail(ctl)) /\ (Top.at \in {"forInit", "forLoop"} => wsp < MaxWhile)
<1>1. /\ 1 \in DOMAIN ctl /\ ctl[1] = Top
      /\ \A i \in DOMAIN Tail(ctl) : 1 < i + 1 /\ i + 1 \in DOMAIN ctl /\ Tail(ctl)[i] = ctl[i + 1]
  BY StackFacts, TailIndex
<1> QED
  BY <1>1 DEF Room, RoomOf, NoneBegun

LEMMA NoneBefore ==
  ASSUME NEW c \in Seq(Item), NoneBegun(c), NEW x \in Item, x.at \notin {"forInit", "forLoop"}
  PROVE  NoneBegun(Before(x, c)) /\ \A w : RoomOf(Before(x, c), w)
<1> PICK d : d = <<x>> \o c
  OBVIOUS
<1>1. /\ d[1] = x
      /\ \A i \in DOMAIN d : i # 1 => i - 1 \in DOMAIN c /\ d[i] = c[i - 1]
  BY ConsIndex
<1>2. NoneBegun(d)
  BY <1>1 DEF NoneBegun
<1> QED
  BY <1>2 DEF Before, NoneBegun, RoomOf

\* pieces put in the place of the innermost one
LEMMA RoomKept ==
  ASSUME Inv, Room, NEW p \in Seq(Item), ctl' = p \o Tail(ctl), wsp' = wsp,
         \A i \in DOMAIN p : /\ p[i].at \notin {"forInit", "forLoop"}
                             /\ p[i].at \in StatementLevel => Top.at \in StatementLevel
  PROVE  Room'
<1> PICK below, d, n : below = Tail(ctl) /\ d = p \o below /\ n = Len(p)
  OBVIOUS
<1>1. /\ below \in Seq(Item) /\ 1 \in DOMAIN ctl /\ ctl[1] = Top
      /\ \A i \in DOMAIN below : /\ i \in Nat /\ 1 < i + 1
                                 /\ i + 1 \in DOMAIN ctl /\ below[i] = ctl[i + 1]
  BY StackFacts, TailIndex
<1>2. /\ n \in Nat
      /\ \A i \in DOMAIN p : d[i] = p[i]
      /\ \A i \in DOMAIN d : \/ i \in DOMAIN p
                             \/ i > n /\ i - n \in DOMAIN below /\ d[i] = below[i - n]
      /\ d \in Seq(Item)
  BY <1>1, Concatenated
<1>3. ASSUME NEW j \in DOMAIN d, d[j].at \in {"forInit", "forLoop"}
      PROVE  wsp < MaxWhile /\ \A i \in DOMAIN d : i < j => d[i].at \notin StatementLevel
  <2>1. j > n /\ j - n \in DOMAIN below /\ d[j] = below[j - n]
    BY <1>2, <1>3
  <2>2. /\ j - n + 1 \in DOMAIN ctl /\ ctl[j - n + 1] = d[j] /\ 1 < j - n + 1
    BY <1>1, <2>1
  <2>3. /\ wsp < MaxWhile /\ Top.at \notin StatementLevel
        /\ \A i \in DOMAIN ctl : i < j - n + 1 => ctl[i].at \notin StatementLevel
    BY <1>1, <1>3, <2>2 DEF Room, RoomOf
  <2>4. ASSUME NEW i \in DOMAIN d, i < j
        PROVE  d[i].at \notin StatementLevel
    <3>1. CASE i \in DOMAIN p
      BY <1>2, <2>3, <3>1
    <3>2. CASE i > n /\ i - n \in DOMAIN below /\ d[i] = below[i - n]
      <4>1. i - n + 1 \in DOMAIN ctl /\ ctl[i - n + 1] = d[i]
        BY <1>1, <3>2
      <4>2. i \in Nat /\ j \in Nat
        BY <1>2
      <4>3. i - n + 1 < j - n + 1
        BY <1>2, <2>4, <4>2
      <4> QED
        BY <2>3, <4>1, <4>3
    <3> QED
      BY <1>2, <3>1, <3>2
  <2> QED
    BY <2>3, <2>4
<1>4. RoomOf(d, wsp)
  BY <1>3 DEF RoomOf
<1> QED
  BY <1>4 DEF Room

\* the same for a for statement that is begun
LEMMA RoomMade ==
  ASSUME Inv, Room, NEW p \in Seq(Item), Len(p) > 0, ctl' = p \o Tail(ctl), wsp' = wsp,
         wsp < MaxWhile, Top.at \in StatementLevel,
         \A i \in DOMAIN p : i < Len(p) => p[i].at \notin StatementLevel
  PROVE  Room'
<1> PICK below, d, n : below = Tail(ctl) /\ d = p \o below /\ n = Len(p)
  OBVIOUS
<1>1. below \in Seq(Item) /\ NoneBegun(below)
  BY StackFacts, NoneBelow
<1>2. /\ n \in Nat /\ DOMAIN p = 1..n
      /\ \A i \in DOMAIN p : d[i] = p[i]
      /\ \A i \in DOMAIN d : \/ i \in DOMAIN p
                             \/ i > n /\ i - n \in DOMAIN below /\ d[i] = below[i - n]
      /\ d \in Seq(Item)
  BY <1>1, Concatenated
<1>3. ASSUME NEW j \in DOMAIN d, d[j].at \in {"forInit", "forLoop"}, NEW i \in DOMAIN d, i < j
      PROVE  d[i].at \notin StatementLevel
  <2>1. j \in 1..n
    BY <1>1, <1>2, <1>3 DEF NoneBegun
  <2>2. i \in 1..n /\ i < n
    BY <1>2, <1>3, <2>1
  <2> QED
    BY <1>2, <2>2
<1>4. RoomOf(d, wsp)
  BY <1>3 DEF RoomOf
<1> QED
  BY <1>4 DEF Room

LEMMA QuietRoom ==
  ASSUME Inv, Room, Quiet, Top.at \notin {"forHead", "forInit"}
  PROVE  Room'
<1>1. wsp' = wsp
  BY DEF Quiet, loops
<1>2. CASE UNCHANGED ctl
  BY <1>1, <1>2 DEF Room, RoomOf
<1>3. CASE \E p : Goto(p) /\ Calm(p, Top.at)
  <2>1. PICK p : Goto(p) /\ Calm(p, Top.at)
    BY <1>3
  <2>2. /\ p \in Seq(Item) /\ ctl' = p \o Tail(ctl)
        /\ \A i \in DOMAIN p : /\ p[i].at \notin {"forInit", "forLoop"}
                               /\ p[i].at \in StatementLevel => Top.at \in StatementLevel
    BY <2>1 DEF Calm, Fits, Goto
  <2> QED
    BY <1>1, <2>2, RoomKept
<1> QED
  BY <1>2, <1>3 DEF Quiet

LEMMA ForHeadRoom ==
  ASSUME Inv, Room, ForHead \/ ForInit
  PROVE  Room'
<1>1. It("forInit") \in Item /\ It("forLoop") \in Item
  BY TokenConstants DEF It, Piece, Item, Places, Types
<1>2. It("expr") \in Item /\ Expect(";") \in Item
  BY ShortItems
<1>3. It("expr").at \notin StatementLevel /\ Expect(";").at \notin StatementLevel
  BY Kinds DEF It, Expect, With, Piece, Inner
<1> PICK x, y, e, s : x = It("forInit") /\ y = It("forLoop") /\ e = It("expr") /\ s = Expect(";")
  OBVIOUS
<1>4. wsp' = wsp /\ Top.at \in {"forHead", "forInit"} /\ Top.at \in StatementLevel
  BY DEF ForHead, ForInit, At, Top, loops, StatementLevel, Between
<1>5. CASE ForHead
  <2>1. wsp < MaxWhile /\ ctl' = <<x>> \o Tail(ctl)
    BY <1>5 DEF ForHead, Goto
  <2>2. <<x>> \in Seq(Item) /\ Len(<<x>>) > 0 /\ \A i \in DOMAIN <<x>> : ~(i < Len(<<x>>))
    <3>1. x \in Item
      BY <1>1
    <3> QED
      BY ONLY <3>1
  <2> QED
    BY <1>4, <2>1, <2>2, RoomMade
<1>6. CASE ForInit
  <2>1. wsp < MaxWhile
    BY <1>6, NoneBelow, <1>4 DEF ForInit, At, Top
  <2>2. e \in Item /\ s \in Item /\ y \in Item
    BY <1>1, <1>2
  <2> PICK two, three : two = <<s, y>> /\ three = <<e>> \o two
    OBVIOUS
  <2>3. ctl' = two \o Tail(ctl) \/ ctl' = three \o Tail(ctl)
    <3>1. \/ Goto(<<Expect(";"), It("forLoop")>>)
          \/ Goto(<<It("expr")>> \o <<Expect(";"), It("forLoop")>>)
      BY <1>6 DEF ForInit
    <3> QED
      BY <3>1 DEF Goto
  <2>4. /\ two \in Seq(Item) /\ Len(two) = 2 /\ two[1] = s /\ two[2] = y
    BY ONLY <2>2, two = <<s, y>>
  <2>5. /\ three \in Seq(Item) /\ Len(three) = 3 /\ three[1] = e /\ three[2] = s
    BY ONLY <2>2, two = <<s, y>>, three = <<e>> \o two
  <2>6. e.at \notin StatementLevel /\ s.at \notin StatementLevel
    BY <1>3
  <2>7. \A i \in DOMAIN two : i < Len(two) => two[i].at \notin StatementLevel
    <3>1. \A i \in DOMAIN two : i < Len(two) => i = 1
      BY ONLY <2>4
    <3> QED
      BY <2>4, <2>6, <3>1
  <2>8. \A i \in DOMAIN three : i < Len(three) => three[i].at \notin StatementLevel
    <3>1. \A i \in DOMAIN three : i < Len(three) => i = 1 \/ i = 2
      BY ONLY <2>5
    <3> QED
      BY <2>5, <2>6, <3>1
  <2>9. Len(two) > 0 /\ Len(three) > 0
    BY ONLY <2>4, <2>5
  <2>10. ASSUME ctl' = two \o Tail(ctl)
         PROVE  Room'
    BY <1>4, <2>1, <2>4, <2>7, <2>9, <2>10, RoomMade
  <2>11. ASSUME ctl' = three \o Tail(ctl)
         PROVE  Room'
    BY <1>4, <2>1, <2>5, <2>8, <2>9, <2>11, RoomMade
  <2> QED
    BY <2>3, <2>10, <2>11
<1> QED
  BY <1>5, <1>6

LEMMA QuietActionsRoom ==
  ASSUME Inv, Room, QuietActions
  PROVE  Room'
<1>1. Quiet
  BY QuietMoves
<1>2. CASE Top.at \notin {"forHead", "forInit"}
  BY <1>1, <1>2, QuietRoom
<1>3. CASE Top.at \in {"forHead", "forInit"}
  <2>1. ForHead \/ ForInit
    <3>1. ~Declarations
      BY <1>3 DEF Declarations, Start, Program, EndOfFile, ProgramName, BeginFunction,
            GlobalVariable, Dimension, DimensionSize, Declare, GlobalInit, GlobalValue, GlobalEnd,
            At, Top
    <3>2. ~FunctionParts
      BY <1>3 DEF FunctionParts, Parameters, ParameterName, ParameterNext, FunctionOpen, Locals,
            LocalName, LocalInit, LocalNext, Body, At, Top
    <3>3. QuietStatements => ForHead \/ ForInit
      BY <1>3 DEF QuietStatements, ExpectToken, Statement, Block, ReturnValue, At, Top
    <3>4. ~QuietExpressions
      BY <1>3 DEF QuietExpressions, Expression, Unary, AddressOf, Primary, NameUse, Called, At, Top
    <3> QED
      BY <3>1, <3>2, <3>3, <3>4 DEF QuietActions
  <2> QED
    BY <2>1, ForHeadRoom
<1> QED
  BY <1>2, <1>3

\* a piece put down with calm ones around it, or a return
LEMMA PushedRoom ==
  ASSUME Inv, Room, NEW x \in Item, Pushed(x), wsp' = wsp,
         Top.at \notin {"forHead", "forInit"}, x.at \notin {"forInit", "forLoop"},
         x.at \in StatementLevel => Top.at \in StatementLevel
  PROVE  Room'
<1>1. PICK q, r : /\ Calm(q, Top.at) /\ Calm(r, Top.at)
                  /\ ctl' = (q \o (<<x>> \o r)) \o Tail(ctl)
                  /\ q \o (<<x>> \o r) \in Seq(Item)
  BY PushedAt
<1>2. q \in Seq(Item) /\ r \in Seq(Item) /\ <<x>> \in Seq(Item)
  BY <1>1 DEF Calm
<1> PICK one, d, p : one = <<x>> /\ d = one \o r /\ p = q \o d
  OBVIOUS
<1>3. DOMAIN one = {1} /\ one[1] = x
  OBVIOUS
<1>4. /\ d \in Seq(Item)
      /\ \A i \in DOMAIN one : d[i] = one[i]
      /\ \A i \in DOMAIN d : \/ i \in DOMAIN one
                             \/ i - Len(one) \in DOMAIN r /\ d[i] = r[i - Len(one)]
  BY <1>2, Concatenated
<1>5. /\ \A i \in DOMAIN q : p[i] = q[i]
      /\ \A i \in DOMAIN p : \/ i \in DOMAIN q
                             \/ i - Len(q) \in DOMAIN d /\ p[i] = d[i - Len(q)]
  BY <1>2, <1>4, Concatenated, SMTT(30)
<1>6. \A y : Fits(y, Top.at) \/ y = x => /\ y.at \notin {"forInit", "forLoop"}
                                         /\ y.at \in StatementLevel => Top.at \in StatementLevel
  BY DEF Fits
<1>7. \A i \in DOMAIN d : Fits(d[i], Top.at) \/ d[i] = x
  BY <1>1, <1>3, <1>4 DEF Calm
<1>8. \A i \in DOMAIN p : Fits(p[i], Top.at) \/ p[i] = x
  BY <1>1, <1>5, <1>7 DEF Calm
<1>9. \A i \in DOMAIN p : /\ p[i].at \notin {"forInit", "forLoop"}
                          /\ p[i].at \in StatementLevel => Top.at \in StatementLevel
  BY <1>6, <1>8
<1> QED
  BY <1>1, <1>9, RoomKept

LEMMA ReturnRoom ==
  ASSUME Inv, Room, Goto(<<>>), wsp' = wsp
  PROVE  Room'
<1>1. <<>> \in Seq(Item) /\ ctl' = <<>> \o Tail(ctl) /\ \A i \in DOMAIN <<>> : FALSE
  BY DEF Goto
<1> QED
  BY <1>1, RoomKept

LEMMA WeighingRoom ==
  ASSUME Inv, Room, WeighingActions
  PROVE  Room'
<1>1. /\ Weighs
      /\ Top.at \in {"assign", "level", "pop", "postfix", "args", "arg", "call"}
      /\ wsp' = wsp
  BY WeighingMoves DEF loops
<1>2. ASSUME NEW x \in Item, Pushed(x), x.at \in Weighing
      PROVE  Room'
  <2>1. x.at \notin {"forInit", "forLoop"} /\ x.at \notin StatementLevel
    BY <1>2 DEF Weighing, StatementLevel, FileLevel, Between, LoopAt, Testing
  <2> QED
    BY <1>1, <1>2, <2>1, PushedRoom
<1>3. UNCHANGED ctl => Room'
  BY <1>1 DEF Room, RoomOf
<1> QED
  BY <1>1, <1>2, <1>3, ReturnRoom DEF Weighs

LEMMA LabellingRoom ==
  ASSUME Inv, Room, LabellingActions
  PROVE  Room'
<1>1. ASSUME ShortCircuit
      PROVE  Room'
  <2>1. /\ Top.at = "level" /\ wsp' = wsp
        /\ \/ \E x \in Item : \E a \in {"orEnd", "andEnd"} :
                LabelPieces(x, a, lab, lab + 1) /\ Pushed(x)
           \/ Goto(<<>>)
    BY <1>1, ShortCircuitMoves DEF loops
  <2>2. ASSUME NEW x \in Item, NEW a \in {"orEnd", "andEnd"},
               LabelPieces(x, a, lab, lab + 1), Pushed(x)
        PROVE  Room'
    <3>1. x.at \notin {"forInit", "forLoop"} /\ x.at \notin StatementLevel
      BY <2>2 DEF LabelPieces, StatementLevel, FileLevel, Between, LoopAt, Testing
    <3> QED
      BY <2>1, <2>2, <3>1, PushedRoom
  <2> QED
    BY <2>1, <2>2, ReturnRoom
<1>2. ASSUME IfTest \/ IfElse
      PROVE  Room'
  <2>1. /\ Top.at \in {"ifTest", "ifElse"} /\ wsp' = wsp
        /\ \/ \E x \in Item : x.at \in {"ifElse", "ifEnd"} /\ Pushed(x)
           \/ Goto(<<>>)
    BY <1>2, IfTestMoves, IfElseMoves DEF loops, LabelPieces
  <2>2. Top.at \in StatementLevel /\ Top.at \notin {"forHead", "forInit"}
    BY <2>1 DEF StatementLevel, Between
  <2> QED
    BY <2>1, <2>2, PushedRoom, ReturnRoom
<1>3. ASSUME ShortCircuitEnd \/ IfEnd \/ WhileTest \/ ForTest \/ LeaveLoop
      PROVE  Room'
  <2>1. Goto(<<>>) /\ wsp' = wsp
    BY <1>3, ShortCircuitEndMoves, IfEndMoves, TestMoves, LeaveMoves DEF loops
  <2> QED
    BY <2>1, ReturnRoom
<1> QED
  BY <1>1, <1>2, <1>3 DEF LabellingActions
-----------------------------------------------------------------------------
(* The actions that open and close a loop, and the whole invariant *)

\* a stack with program()'s piece at the bottom
Grounded(c) == c \in Seq(Item) /\ c # <<>> /\ c[Len(c)].at \in Outermost

LEMMA GroundTail ==
  ASSUME Inv, Top.at \notin Outermost
  PROVE  Grounded(Tail(ctl))
<1>1. ctl \in Seq(Item) /\ ctl # <<>> /\ ctl[Len(ctl)].at \in Outermost /\ ctl[1] = Top
  BY StackFacts, InvStack
<1>2. Len(ctl) \in Nat /\ Len(ctl) # 1 /\ Len(ctl) > 0
  BY <1>1
<1> PICK c : c = Tail(ctl)
  OBVIOUS
<1>3. c \in Seq(Item) /\ Len(c) = Len(ctl) - 1 /\ \A i \in 1..Len(c) : c[i] = ctl[i + 1]
  BY <1>1
<1>4. Len(c) > 0 /\ Len(c) \in 1..Len(c) /\ Len(c) + 1 = Len(ctl)
  BY <1>2, <1>3
<1>5. c[Len(c)] = ctl[Len(ctl)] /\ c # <<>>
  BY <1>3, <1>4
<1> QED
  BY <1>1, <1>3, <1>5 DEF Grounded

LEMMA GroundBefore ==
  ASSUME NEW c, Grounded(c), NEW x \in Item
  PROVE  Grounded(Before(x, c))
<1> PICK d : d = <<x>> \o c
  OBVIOUS
<1>1. c \in Seq(Item) /\ c # <<>> /\ c[Len(c)].at \in Outermost
  BY DEF Grounded
<1>2. Len(c) \in Nat /\ Len(c) > 0 /\ Len(c) \in 1..Len(c) /\ DOMAIN c = 1..Len(c)
  BY <1>1
<1>3. d \in Seq(Item) /\ 1 \in DOMAIN d /\ \A i \in DOMAIN c : d[i + 1] = c[i]
  BY <1>1, ConsIndex
<1>4. Len(d) = Len(c) + 1
  BY <1>1
<1>5. d[Len(d)] = c[Len(c)] /\ d # <<>>
  BY <1>2, <1>3, <1>4
<1> QED
  BY <1>1, <1>3, <1>5 DEF Grounded, Before

\* a loop's piece is put on the stack and its labels on the loop stack
LEMMA StackLoop ==
  ASSUME NEW c, NEW w \in Nat, NEW b, NEW k, StackOf(c, w, b, k),
         NEW x \in Item, Sound(x), NEW b2, NEW k2, LoopOpened(x, w, b, k, b2, k2),
         NEW v, v = w + 1
  PROVE  StackOf(Before(x, c), v, b2, k2)
<1>1. c \in Seq(Item) /\ (\A i \in DOMAIN c : Sound(c[i])) /\ LoopStackOf(c, w, b, k)
  BY DEF StackOf
<1>2. LoopStackOf(Before(x, c), v, b2, k2)
  BY <1>1, PushLoop
<1> PICK d : d = <<x>> \o c
  OBVIOUS
<1>3. /\ d \in Seq(Item) /\ d[1] = x
      /\ \A i \in DOMAIN d : i # 1 => i - 1 \in DOMAIN c /\ d[i] = c[i - 1]
  BY <1>1, ConsIndex
<1>4. \A i \in DOMAIN d : Sound(d[i])
  BY <1>1, <1>3
<1> QED
  BY <1>2, <1>3, <1>4 DEF StackOf, Before

LEMMA StackClose ==
  ASSUME NEW c, c # <<>>, c[1].at \in LoopAt, NEW w \in Nat, NEW b, NEW k, StackOf(c, w, b, k)
  PROVE  /\ w > 0 /\ c[1].slot = w - 1 /\ b[w - 1] = c[1].l2 /\ k[w - 1] = c[1].l1
         /\ StackOf(Tail(c), w - 1, b, k)
<1>1. c \in Seq(Item) /\ (\A i \in DOMAIN c : Sound(c[i])) /\ LoopStackOf(c, w, b, k)
  BY DEF StackOf
<1>2. /\ w > 0 /\ c[1].slot = w - 1 /\ b[w - 1] = c[1].l2 /\ k[w - 1] = c[1].l1
      /\ LoopStackOf(Tail(c), w - 1, b, k)
  BY <1>1, PopLoop
<1>3. /\ Tail(c) \in Seq(Item)
      /\ \A i \in DOMAIN Tail(c) : i + 1 \in DOMAIN c /\ Tail(c)[i] = c[i + 1]
  BY <1>1, TailIndex
<1> QED
  BY <1>1, <1>2, <1>3 DEF StackOf

\* expressions, statements and what expect() waits for
LEMMA PlainPieces ==
  /\ \A x \in {It("expr"), It("stmt"), Expect(";")} :
        /\ x \in Item /\ Sound(x) /\ x.at \notin LoopAt
        /\ x.at \notin {"forInit", "forLoop"} /\ x.at \notin Laden /\ x.at \notin FileLevel
  /\ It("stmt").at = "stmt" /\ It("expr").at = "expr" /\ Expect(";").at = "expect"
<1>1. It("stmt").at = "stmt" /\ It("expr").at = "expr" /\ Expect(";").at = "expect"
  BY DEF It, Expect, With, Piece
<1>2. \A a \in {"stmt", "expr", "expect"} : a \notin Laden /\ a \notin FileLevel
  BY Kinds DEF Inner, Between
<1>3. \A x \in {It("expr"), It("stmt"), Expect(";")} :
        x.at \in {"stmt", "expr", "expect"}
  BY <1>1
<1>4. \A x \in {It("expr"), It("stmt"), Expect(";")} :
        x.at \in {"stmt", "expr", "expect"} => Sound(x) /\ x.at \notin LoopAt
  BY DEF Sound, LoopAt
<1> QED
  BY <1>1, <1>2, <1>3, <1>4, ShortItems

LEMMA WhileHeadInv ==
  ASSUME Inv, Room, WhileHead
  PROVE  Inv' /\ Room'
<1>1. PICK test \in Item, end \in Item :
           /\ LabelPieces(test, "whileTest", 0, lab + 1)
           /\ LoopPiece(end, "whileEnd", lab, lab + 1, wsp)
           /\ ctl' = Before(It("expr"), Before(test, Before(It("stmt"), Before(end, Tail(ctl)))))
           /\ Top.at = "whileHead" /\ status = "run" /\ wsp < MaxWhile
           /\ OpenLoop(lab + 1, lab) /\ lab' = lab + 2
           /\ code' = Append(code, Label(lab))
           /\ UNCHANGED <<symbols, functions, sp, unpopped>>
  BY WhileHeadMoves
<1>0. lab \in Nat /\ lab + 1 \in Nat /\ lab + 2 \in Nat \ {0} /\ sp \in Int /\ unpopped \in Nat
  BY TopType, TopNumbers
<1>2. /\ wsp' = wsp + 1 /\ wsp' \in 0..MaxWhile /\ wsp \in Nat
      /\ breaklab' \in [0..(MaxWhile - 1) -> Nat] /\ contlab' \in [0..(MaxWhile - 1) -> Nat]
      /\ breaklab'[wsp] = lab + 1 /\ contlab'[wsp] = lab
      /\ \A s \in 0..(wsp - 1) : breaklab'[s] = breaklab[s] /\ contlab'[s] = contlab[s]
  <2> PICK m \in Nat : m = lab + 1
    BY <1>0
  <2>1. OpenLoop(m, lab) /\ wsp < MaxWhile
    BY <1>1
  <2> QED
    BY <1>0, <2>1, OpenLoopWrites
<1>3. /\ Top.at \notin LoopAt /\ Top.at \notin Outermost /\ Top.at \in StatementLevel
  BY <1>1 DEF LoopAt, Outermost, StatementLevel, Between
<1>4. /\ test \in Item /\ Sound(test) /\ test.at \notin LoopAt
      /\ test.at \notin {"forInit", "forLoop"}
  BY <1>1 DEF LabelPieces, LoopAt
<1>5. /\ end \in Item /\ Sound(end) /\ end.at \in LoopAt /\ end.slot = wsp
      /\ end.l1 = lab /\ end.l2 = lab + 1 /\ end.at \notin {"forInit", "forLoop"}
  BY <1>1 DEF LoopPiece, LabelPieces, LoopAt
<1> PICK below, four, three, two, one, e, s :
      /\ e = It("expr") /\ s = It("stmt")
      /\ below = Tail(ctl) /\ four = Before(end, below) /\ three = Before(s, four)
      /\ two = Before(test, three) /\ one = Before(e, two)
  OBVIOUS
<1>6. /\ e \in Item /\ Sound(e) /\ e.at \notin LoopAt /\ e.at \notin {"forInit", "forLoop"}
      /\ s \in Item /\ Sound(s) /\ s.at \notin LoopAt /\ s.at \notin {"forInit", "forLoop"}
  BY PlainPieces
<1>7. ctl' = one
  BY <1>1
<1>8. StackOf(below, wsp, breaklab, contlab)
  BY <1>3, InvStack, StackPop
<1>9. StackOf(four, wsp', breaklab', contlab')
  <2> PICK b2, k2, w2 : b2 = breaklab' /\ k2 = contlab' /\ w2 = wsp'
    OBVIOUS
  <2>1. LoopOpened(end, wsp, breaklab, contlab, b2, k2)
    BY <1>2, <1>5 DEF LoopOpened
  <2>2. StackOf(four, w2, b2, k2)
    BY <1>2, <1>5, <1>8, <2>1, StackLoop
  <2> QED
    BY <2>2
<1>10. StackOf(one, wsp', breaklab', contlab')
  <2> PICK b2, k2, w2 : b2 = breaklab' /\ k2 = contlab' /\ w2 = wsp'
    OBVIOUS
  <2>1. StackOf(three, w2, b2, k2)
    BY <1>6, <1>9, StackOne
  <2>2. StackOf(two, w2, b2, k2)
    BY <1>4, <2>1, StackOne
  <2>3. StackOf(one, w2, b2, k2)
    BY <1>6, <2>2, StackOne
  <2> QED
    BY <2>3
<1>11. Grounded(one)
  BY <1>3, <1>5, <1>4, <1>6, GroundTail, GroundBefore
<1>12. StackKept
  BY <1>7, <1>10, <1>11 DEF StackKept, Grounded, Bottom
<1>13. Room'
  <2>1. NoneBegun(below)
    BY <1>3, NoneBelow
  <2>2. /\ below \in Seq(Item) /\ four \in Seq(Item) /\ three \in Seq(Item) /\ two \in Seq(Item)
    BY <1>3, <1>5, <1>4, <1>6, GroundTail, GroundBefore DEF Grounded
  <2>3. NoneBegun(four)
    BY <1>5, <2>1, <2>2, NoneBefore
  <2>4. NoneBegun(three)
    BY <1>6, <2>2, <2>3, NoneBefore
  <2>5. NoneBegun(two)
    BY <1>4, <2>2, <2>4, NoneBefore
  <2>6. RoomOf(one, wsp')
    BY <1>6, <2>2, <2>5, NoneBefore
  <2> QED
    BY <1>7, <2>6 DEF Room
<1>14. TablesTyped
  BY <1>1, TablesKept
<1>15. code' \in Seq(Instruction)
  <2>1. Label(lab) \in Instruction
    BY <1>0, JumpType
  <2> QED
    BY <1>1, <2>1, EmittedType
<1>16. Reads
  BY Reading DEF Next, Statements
<1>17. Inv'
  BY <1>0, <1>1, <1>2, <1>12, <1>14, <1>15, <1>16, InvStep
<1> QED
  BY <1>13, <1>17

LEMMA WhileEndInv ==
  ASSUME Inv, Room, WhileEnd
  PROVE  Inv' /\ Room' /\ wsp > 0
<1>1. /\ Top.at = "whileEnd" /\ status = "run" /\ Goto(<<>>) /\ wsp' = wsp - 1
      /\ UNCHANGED <<symbols, functions, sp, lab, breaklab, contlab, unpopped>>
      /\ code' = Append(Append(code, Jump("jump", Top.l1)), Label(Top.l2))
  BY WhileEndMoves
<1>2. /\ Top.at \in LoopAt /\ Top.at \in StatementLevel /\ Top.at \notin Outermost
  BY <1>1 DEF LoopAt, StatementLevel, Outermost
<1>3. ctl' = Tail(ctl)
  <2>1. Tail(ctl) \in Seq(Item)
    BY StackFacts
  <2> QED
    BY <1>1, <2>1 DEF Goto
<1>4. /\ StackOf(ctl, wsp, breaklab, contlab) /\ ctl # <<>> /\ ctl[1].at \in LoopAt
  BY <1>2, InvStack
<1>5. wsp \in 0..MaxWhile /\ wsp \in Nat /\ MaxWhile \in Nat
  BY BoundsAssumption DEF Inv, TypeOK
<1>6. wsp > 0 /\ StackOf(Tail(ctl), wsp - 1, breaklab, contlab)
  BY <1>4, <1>5, StackClose
<1>7. wsp' \in 0..MaxWhile
  BY <1>1, <1>5, <1>6
<1>8. StackKept
  BY <1>1, <1>2, <1>3, <1>6, GroundTail DEF StackKept, Grounded, Bottom
<1>9. Room'
  BY <1>2, <1>3, NoneBelow DEF NoneBegun, Room, RoomOf
<1>10. TablesTyped
  BY <1>1, TablesKept
<1>11. code' \in Seq(Instruction)
  <2>1. Jump("jump", Top.l1) \in Instruction /\ Label(Top.l2) \in Instruction
    BY TopType, JumpType
  <2> QED
    BY <1>1, <2>1, EmittedType
<1>12. Reads
  BY Reading DEF Next, Statements
<1>13. /\ breaklab' \in [0..(MaxWhile - 1) -> Nat] /\ contlab' \in [0..(MaxWhile - 1) -> Nat]
       /\ sp' \in Int /\ lab' \in Nat \ {0} /\ unpopped' \in Nat
  BY <1>1 DEF Inv, TypeOK
<1>14. Inv'
  BY <1>7, <1>8, <1>10, <1>11, <1>12, <1>13, InvStep
<1> QED
  BY <1>6, <1>9, <1>14

LEMMA ForLoopInv ==
  ASSUME Inv, Room, ForLoop
  PROVE  Inv' /\ Room'
<1>1. PICK test \in Item, end \in Item :
           /\ LabelPieces(test, "forTest", 0, lab + 1)
           /\ LoopPiece(end, "forSkip", lab + 2, lab + 1, wsp)
           /\ \/ ctl' = Before(Expect(";"), Before(end, Tail(ctl)))
              \/ ctl' = Before(It("expr"), Before(test, Before(Expect(";"), Before(end, Tail(ctl)))))
           /\ Top.at = "forLoop" /\ status = "run"
           /\ OpenLoop(lab + 1, lab + 2) /\ lab' = lab + 3
           /\ code' = Append(code, Label(lab))
           /\ UNCHANGED <<symbols, functions, sp, unpopped>>
  BY ForLoopMoves
<1>0. /\ lab \in Nat /\ lab + 1 \in Nat /\ lab + 2 \in Nat /\ lab + 3 \in Nat \ {0}
      /\ sp \in Int /\ unpopped \in Nat
  BY TopType, TopNumbers
<1>3. /\ Top.at \notin LoopAt /\ Top.at \notin Outermost /\ Top.at \in StatementLevel
  BY <1>1 DEF LoopAt, Outermost, StatementLevel, Between
<1>a. wsp < MaxWhile
  BY <1>1, <1>3, NoneBelow
<1>2. /\ wsp' = wsp + 1 /\ wsp' \in 0..MaxWhile /\ wsp \in Nat
      /\ breaklab' \in [0..(MaxWhile - 1) -> Nat] /\ contlab' \in [0..(MaxWhile - 1) -> Nat]
      /\ breaklab'[wsp] = lab + 1 /\ contlab'[wsp] = lab + 2
      /\ \A s \in 0..(wsp - 1) : breaklab'[s] = breaklab[s] /\ contlab'[s] = contlab[s]
  <2> PICK m \in Nat, n \in Nat : m = lab + 1 /\ n = lab + 2
    BY <1>0
  <2>1. OpenLoop(m, n)
    BY <1>1
  <2> QED
    BY <1>a, <2>1, OpenLoopWrites
<1>4. /\ test \in Item /\ Sound(test) /\ test.at \notin LoopAt
      /\ test.at \notin {"forInit", "forLoop"}
  BY <1>1 DEF LabelPieces, LoopAt
<1>5. /\ end \in Item /\ Sound(end) /\ end.at \in LoopAt /\ end.slot = wsp
      /\ end.l1 = lab + 2 /\ end.l2 = lab + 1 /\ end.at \notin {"forInit", "forLoop"}
  BY <1>1 DEF LoopPiece, LabelPieces, LoopAt
<1> PICK below, four, three, two, one, e, s :
      /\ e = It("expr") /\ s = Expect(";")
      /\ below = Tail(ctl) /\ four = Before(end, below) /\ three = Before(s, four)
      /\ two = Before(test, three) /\ one = Before(e, two)
  OBVIOUS
<1>6. /\ e \in Item /\ Sound(e) /\ e.at \notin LoopAt /\ e.at \notin {"forInit", "forLoop"}
      /\ s \in Item /\ Sound(s) /\ s.at \notin LoopAt /\ s.at \notin {"forInit", "forLoop"}
  BY PlainPieces
<1>7. ctl' = one \/ ctl' = three
  BY <1>1
<1>8. StackOf(below, wsp, breaklab, contlab)
  BY <1>3, InvStack, StackPop
<1>9. StackOf(four, wsp', breaklab', contlab')
  <2> PICK b2, k2, w2 : b2 = breaklab' /\ k2 = contlab' /\ w2 = wsp'
    OBVIOUS
  <2>1. LoopOpened(end, wsp, breaklab, contlab, b2, k2)
    BY <1>2, <1>5 DEF LoopOpened
  <2>2. StackOf(four, w2, b2, k2)
    BY <1>2, <1>5, <1>8, <2>1, StackLoop
  <2> QED
    BY <2>2
<1>10. /\ StackOf(one, wsp', breaklab', contlab')
       /\ StackOf(three, wsp', breaklab', contlab')
  <2> PICK b2, k2, w2 : b2 = breaklab' /\ k2 = contlab' /\ w2 = wsp'
    OBVIOUS
  <2>1. StackOf(three, w2, b2, k2)
    BY <1>6, <1>9, StackOne
  <2>2. StackOf(two, w2, b2, k2)
    BY <1>4, <2>1, StackOne
  <2>3. StackOf(one, w2, b2, k2)
    BY <1>6, <2>2, StackOne
  <2> QED
    BY <2>1, <2>3
<1>11. Grounded(three) /\ Grounded(one)
  BY <1>3, <1>5, <1>4, <1>6, GroundTail, GroundBefore
<1>12. StackKept
  BY <1>7, <1>10, <1>11 DEF StackKept, Grounded, Bottom
<1>13. Room'
  <2>1. NoneBegun(below)
    BY <1>3, NoneBelow
  <2>2. /\ below \in Seq(Item) /\ four \in Seq(Item) /\ three \in Seq(Item) /\ two \in Seq(Item)
    BY <1>3, <1>5, <1>4, <1>6, GroundTail, GroundBefore DEF Grounded
  <2>3. NoneBegun(four)
    BY <1>5, <2>1, <2>2, NoneBefore
  <2>4. NoneBegun(three) /\ RoomOf(three, wsp')
    BY <1>6, <2>2, <2>3, NoneBefore
  <2>5. NoneBegun(two)
    BY <1>4, <2>2, <2>4, NoneBefore
  <2>6. RoomOf(one, wsp')
    BY <1>6, <2>2, <2>5, NoneBefore
  <2> QED
    BY <1>7, <2>4, <2>6 DEF Room
<1>14. TablesTyped
  BY <1>1, TablesKept
<1>15. code' \in Seq(Instruction)
  <2>1. Label(lab) \in Instruction
    BY <1>0, JumpType
  <2> QED
    BY <1>1, <2>1, EmittedType
<1>16. Reads
  BY Reading DEF Next, Statements
<1>17. Inv'
  BY <1>0, <1>1, <1>2, <1>12, <1>14, <1>15, <1>16, InvStep
<1> QED
  BY <1>13, <1>17

LEMMA ForSkipInv ==
  ASSUME Inv, Room, ForSkip
  PROVE  Inv' /\ Room'
<1>1. PICK end \in Item :
           /\ LoopPiece(end, "forTail", Top.l1, Top.l2, Top.slot)
           /\ ctl' = Before(It("stmt"), Before(end, Tail(ctl)))
           /\ Top.at = "forSkip" /\ status = "run" /\ token = ")" /\ UNCHANGED input
           /\ UNCHANGED <<symbols, functions, sp, lab, loops, code, unpopped>>
  BY ForSkipMoves
<1>2. /\ Top.at \in LoopAt /\ Top.at \in StatementLevel /\ Top.at \notin Outermost
  BY <1>1 DEF LoopAt, StatementLevel, Outermost
<1>3. /\ end \in Item /\ Sound(end) /\ end.at \in LoopAt /\ end.slot = Top.slot
      /\ end.l1 = Top.l1 /\ end.l2 = Top.l2 /\ end.at \notin {"forInit", "forLoop"}
  BY <1>1 DEF LoopPiece, LabelPieces, LoopAt
<1> PICK below, two, one, s : /\ s = It("stmt") /\ below = Tail(ctl)
                              /\ two = Before(end, below) /\ one = Before(s, two)
  OBVIOUS
<1>4. /\ s \in Item /\ Sound(s) /\ s.at \notin LoopAt /\ s.at \notin {"forInit", "forLoop"}
  BY PlainPieces
<1>5. ctl' = one
  BY <1>1
<1>6. /\ StackOf(ctl, wsp, breaklab, contlab) /\ ctl # <<>> /\ ctl[1] = Top
      /\ ctl[1].at \in LoopAt
  BY <1>2, InvStack
<1>7. wsp \in 0..MaxWhile /\ wsp \in Nat /\ MaxWhile \in Nat
  BY BoundsAssumption DEF Inv, TypeOK
<1> PICK w : w = wsp - 1
  OBVIOUS
<1>8. /\ wsp > 0 /\ Top.slot = w /\ breaklab[w] = Top.l2 /\ contlab[w] = Top.l1
      /\ StackOf(below, w, breaklab, contlab)
  BY <1>6, <1>7, StackClose
<1>9. w \in Nat /\ wsp = w + 1
  BY <1>7, <1>8
<1>10. LoopOpened(end, w, breaklab, contlab, breaklab, contlab)
  BY <1>3, <1>8 DEF LoopOpened
<1>11. StackOf(two, wsp, breaklab, contlab)
  BY <1>3, <1>8, <1>9, <1>10, StackLoop
<1>12. StackOf(one, wsp, breaklab, contlab)
  BY <1>4, <1>11, StackOne
<1>13. Grounded(one) /\ Grounded(two) /\ Grounded(below)
  BY <1>2, <1>3, <1>4, GroundTail, GroundBefore
<1>14. StackKept
  BY <1>1, <1>5, <1>12, <1>13 DEF StackKept, Grounded, Bottom, loops
<1>15. Room'
  <2>1. NoneBegun(below)
    BY <1>2, NoneBelow
  <2>2. NoneBegun(two)
    BY <1>3, <1>13, <2>1, NoneBefore DEF Grounded
  <2>3. RoomOf(one, wsp')
    BY <1>4, <1>13, <2>2, NoneBefore DEF Grounded
  <2> QED
    BY <1>5, <2>3 DEF Room
<1>16. TablesTyped
  BY <1>1, TablesKept
<1>17. Reads
  BY Reading DEF Next, Statements
<1>18. sp' \in Int /\ lab' \in Nat \ {0} /\ unpopped' \in Nat /\ code' \in Seq(Instruction)
  BY <1>1 DEF Inv, TypeOK
<1>19. UNCHANGED loops
  BY <1>1
<1>20. Inv'
  BY <1>14, <1>16, <1>17, <1>18, <1>19, InvKept
<1> QED
  BY <1>15, <1>20

LoopActions == WhileHead \/ WhileEnd \/ ForLoop \/ ForSkip

\* the process exits, or has exited
LEMMA ExitInv ==
  ASSUME Inv, Room, ErrorExit \/ Stopped
  PROVE  Inv' /\ Room' /\ UNCHANGED <<token, tokstr, ntok, ctl, symbols, functions, sp, lab,
                                      loops, code, unpopped>>
<1>1. UNCHANGED <<token, tokstr, ntok, ctl, symbols, functions, sp, lab, loops, code, unpopped>>
  BY DEF ErrorExit, Stopped, vars, input
<1>2. UNCHANGED <<globals, locals, param_offset, wsp, breaklab, contlab>>
  BY <1>1 DEF symbols, loops
<1>3. status' \in {"run", "done", "error"}
  BY DEF ErrorExit, Stopped, vars, input, Inv, TypeOK
<1>4. TypeOK'
  BY <1>1, <1>2, <1>3 DEF TypeOK, Inv
<1>5. Bottom' /\ LoopStack' /\ Globals' /\ (\A i \in DOMAIN ctl : Sound(ctl[i]))'
  BY <1>1, <1>2 DEF Inv, Bottom, LoopStack, LoopStackOf, Globals, Sound
<1>6. Room'
  BY <1>1, <1>2 DEF Room, RoomOf
<1> QED
  BY <1>1, <1>4, <1>5, <1>6 DEF Inv

LEMMA NextActions ==
  ASSUME Next
  PROVE  \/ QuietActions \/ WeighingActions \/ LabellingActions \/ LoopActions
         \/ ErrorExit \/ Stopped
BY DEF Next, Statements, Expressions, QuietActions, QuietStatements, QuietExpressions,
       WeighingActions, LabellingActions, LoopActions

LEMMA InitInv ==
  ASSUME Init
  PROVE  Inv /\ Room
<1> PICK x : x = It("start")
  OBVIOUS
<1>1. x \in Item /\ x.at = "start"
  BY TokenConstants DEF It, Piece, Item, Places, Types
<1>2. ctl = <<x>>
  BY DEF Init
<1>3. ctl \in Seq(Item) /\ ctl # <<>> /\ Len(ctl) = 1 /\ DOMAIN ctl = {1} /\ ctl[1] = x
  BY ONLY <1>1, <1>2
<1>4. MaxTokens \in Nat /\ MaxGlobals \in Nat /\ MaxFuncs \in Nat /\ MaxWhile \in Nat
  BY BoundsAssumption
<1>5. "none" \in Token /\ "" \in Token
  BY DEF Token, Reserved
<1>6. /\ token = "none" /\ tokstr = "" /\ status = "run"
      /\ globals = <<>> /\ locals = <<>> /\ functions = <<>> /\ code = <<>>
  BY DEF Init
<1>a. /\ ntok = 0 /\ param_offset = 16 /\ sp = 0 /\ lab = 1 /\ wsp = 0 /\ unpopped = 0
  BY DEF Init
<1>b. /\ breaklab = [i \in 0..(MaxWhile - 1) |-> 0]
      /\ contlab = [i \in 0..(MaxWhile - 1) |-> 0]
  BY DEF Init
<1>7. /\ globals \in Seq(SymbolType) /\ Len(globals) <= MaxGlobals /\ locals \in Seq(SymbolType)
      /\ functions \in Seq(Names) /\ Len(functions) <= MaxFuncs /\ code \in Seq(Instruction)
  <2>1. \A S : <<>> \in Seq(S) /\ Len(<<>>) = 0
    OBVIOUS
  <2>2. 0 <= MaxGlobals /\ 0 <= MaxFuncs
    BY <1>4
  <2> QED
    BY <1>6, <2>1, <2>2
<1>8. /\ breaklab \in [0..(MaxWhile - 1) -> Nat] /\ contlab \in [0..(MaxWhile - 1) -> Nat]
      /\ ntok \in 0..MaxTokens /\ wsp \in 0..MaxWhile /\ param_offset \in Nat
      /\ sp \in Int /\ lab \in Nat \ {0} /\ unpopped \in Nat
  <2>1. breaklab \in [0..(MaxWhile - 1) -> Nat] /\ contlab \in [0..(MaxWhile - 1) -> Nat]
    BY ONLY <1>b
  <2>2. ntok \in 0..MaxTokens /\ wsp \in 0..MaxWhile /\ param_offset \in Nat
    BY ONLY <1>4, <1>a
  <2>3. sp \in Int /\ lab \in Nat \ {0} /\ unpopped \in Nat
    BY ONLY <1>a
  <2> QED
    BY <2>1, <2>2, <2>3
<1>9. TypeOK
  BY <1>3, <1>5, <1>6, <1>7, <1>8 DEF TypeOK
<1>10. Bottom /\ \A i \in DOMAIN ctl : Sound(ctl[i])
  BY <1>1, <1>3 DEF Bottom, Outermost, Sound
<1>11. LoopStack
  <2>1. 0..(wsp - 1) = {}
    BY ONLY <1>a
  <2>2. \A i \in DOMAIN ctl : ctl[i].at \notin LoopAt
    BY <1>1, <1>3 DEF LoopAt
  <2> QED
    BY <2>1, <2>2 DEF LoopStack, LoopStackOf
<1>12. Globals
  <2>1. DOMAIN globals = {}
    <3>1. globals = <<>>
      BY <1>6
    <3> QED
      BY ONLY <3>1
  <2> QED
    BY <1>6, <1>a, <2>1 DEF Globals
<1>13. Room
  BY <1>1, <1>3 DEF Room, RoomOf
<1> QED
  BY <1>9, <1>10, <1>11, <1>12, <1>13 DEF Inv

LEMMA Inductive ==
  ASSUME Inv, Room, [Next]_vars
  PROVE  Inv' /\ Room'
<1>1. CASE QuietActions
  BY <1>1, QuietInv, QuietActionsRoom
<1>2. CASE WeighingActions
  BY <1>2, WeighingInv, WeighingRoom
<1>3. CASE LabellingActions
  BY <1>3, LabellingInv, LabellingRoom
<1>4. CASE LoopActions
  BY <1>4, WhileHeadInv, WhileEndInv, ForLoopInv, ForSkipInv DEF LoopActions
<1>5. CASE ErrorExit \/ Stopped
  BY <1>5, ExitInv
<1>6. CASE UNCHANGED vars
  <2>1. CASE status = "run"
    <3>1. UNCHANGED <<token, tokstr, ntok, status, ctl, globals, locals, param_offset, functions,
                      sp, lab, wsp, breaklab, contlab, code, unpopped>>
      BY <1>6 DEF vars, input, symbols, loops
    <3>2. TypeOK'
      BY <3>1 DEF TypeOK, Inv
    <3>3. Bottom' /\ LoopStack' /\ Globals' /\ (\A i \in DOMAIN ctl : Sound(ctl[i]))'
      BY <3>1 DEF Inv, Bottom, LoopStack, LoopStackOf, Globals, Sound
    <3>4. Room'
      BY <3>1 DEF Room, RoomOf
    <3> QED
      BY <3>2, <3>3, <3>4 DEF Inv
  <2>2. CASE status # "run"
    BY <1>6, <2>2, ExitInv DEF Stopped
  <2> QED
    BY <2>1, <2>2
<1> QED
  BY <1>1, <1>2, <1>3, <1>4, <1>5, <1>6, NextActions

\* The strengthened invariant.
THEOREM Invariant == Spec => [](Inv /\ Room)
<1>1. Init => Inv /\ Room
  BY InitInv
<1>2. (Inv /\ Room) /\ [Next]_vars => (Inv /\ Room)'
  BY Inductive
<1> QED
  BY <1>1, <1>2, PTL DEF Spec

\* The compiler's globals, its C stack and its output keep their types for every token
\* set and every bound: no table and no place of the loop stack is ever overrun.
THEOREM TypeCorrect == Spec => []TypeOK
<1>1. Inv => TypeOK
  BY DEF Inv
<1> QED
  BY <1>1, Invariant, PTL

LEMMA InnermostFollows ==
  ASSUME Inv
  PROVE  InnermostLoop
<1>1. OpenLoops = {i \in DOMAIN ctl : ctl[i].at \in LoopAt}
  BY DEF OpenLoops, LoopAt
<1>2. /\ ctl \in Seq(Item) /\ DOMAIN ctl \subseteq Nat /\ wsp \in Nat
      /\ \A i \in DOMAIN ctl : ctl[i].slot \in Nat
  <2>1. \A i \in DOMAIN ctl : ctl[i] \in Item
    BY StackFacts
  <2>2. \A i \in DOMAIN ctl : ctl[i].slot \in Nat
    BY <2>1 DEF Item
  <2>3. wsp \in Nat
    BY BoundsAssumption DEF Inv, TypeOK
  <2>4. ctl \in Seq(Item) /\ DOMAIN ctl = 1..Len(ctl) /\ Len(ctl) \in Nat
    BY StackFacts
  <2> QED
    BY <2>2, <2>3, <2>4
<1>3. LoopStackOf(ctl, wsp, breaklab, contlab)
  BY DEF Inv, LoopStack
<1>4. wsp = 0 => OpenLoops = {}
  <2>1. ASSUME wsp = 0, NEW i \in OpenLoops
        PROVE  FALSE
    BY <1>1, <1>2, <1>3, <2>1 DEF LoopStackOf
  <2> QED
    BY <2>1
<1>5. ASSUME wsp > 0
      PROVE  \E i \in OpenLoops : /\ \A j \in OpenLoops : i <= j
                                  /\ ctl[i].slot = wsp - 1
                                  /\ breaklab[wsp - 1] = ctl[i].l2
                                  /\ contlab[wsp - 1] = ctl[i].l1
  <2>1. wsp - 1 \in 0..(wsp - 1)
    BY <1>2, <1>5
  <2>2. PICK i \in DOMAIN ctl : ctl[i].at \in LoopAt /\ ctl[i].slot = wsp - 1
    BY <1>3, <2>1 DEF LoopStackOf
  <2>3. ASSUME NEW j \in OpenLoops, ~(i <= j)
        PROVE  FALSE
    <3>1. j < i /\ j \in DOMAIN ctl /\ ctl[j].at \in LoopAt
      BY <1>1, <1>2, <2>2, <2>3
    <3>2. ctl[j].slot > ctl[i].slot /\ ctl[j].slot < wsp
      BY <1>3, <2>2, <3>1 DEF LoopStackOf
    <3> QED
      BY <1>2, <2>2, <3>1, <3>2
  <2> QED
    BY <1>1, <1>3, <2>2, <2>3 DEF LoopStackOf
<1> QED
  BY <1>4, <1>5 DEF InnermostLoop

\* break and continue use the labels of the innermost loop being compiled, while or for,
\* and are rejected outside a loop.
THEOREM LoopStackCorrect == Spec => []InnermostLoop
BY InnermostFollows, Invariant, PTL

-----------------------------------------------------------------------------
(* The function table and the entries emitted *)

\* what the actions that begin no function append to the code
Other(x) == x \in Instruction /\ x.op # "entry"
Emitted(c) ==
  \/ c = code
  \/ \E x \in {y \in Instruction : Other(y)} : c = Append(code, x)
  \/ \E x, y \in {z \in Instruction : Other(z)} : c = Append(Append(code, x), y)
  \/ \E x, y, z \in {u \in Instruction : Other(u)} : c = Append(Append(Append(code, x), y), z)

LEMMA OtherCode ==
  ASSUME Inv, Next
  PROVE  BeginFunction \/ (Emitted(code') /\ UNCHANGED functions)
<1>0. /\ \A op \in {"jump", "jz", "jnz"}, l \in Nat : Other(Jump(op, l))
      /\ \A l \in Nat : Other(Label(l))
  BY JumpType DEF Other
<1>1. /\ lab \in Nat /\ Top.l1 \in Nat /\ Top.l2 \in Nat
  BY TopType, TopNumbers
<1>2. \A x : Other(x) => x \in {y \in Instruction : Other(y)}
  BY DEF Other
<1>3. CASE QuietActions
  BY <1>3, QuietData DEF Emitted
<1>4. CASE WeighingActions
  <2>1. UNCHANGED functions /\ (code' = code \/ Call)
    BY <1>4, WeighingMoves
  <2>2. CASE Call
    <3> PICK x : x = Instr("call", 0, Top.arg)
      OBVIOUS
    <3>1. x \in Instruction /\ x.op = "call"
      BY TopType DEF Instr, Instruction
    <3>2. Emit(<<x>>)
      BY <2>2 DEF Call
    <3>3. code' = Append(code, x)
      BY <3>1, <3>2, EmitType
    <3> QED
      BY <2>1, <3>1, <3>3 DEF Emitted, Other
  <2> QED
    BY <2>1, <2>2 DEF Emitted
<1>5. CASE LabellingActions
  <2>1. CASE ShortCircuit
    <3>1. /\ UNCHANGED functions
          /\ code' = code \/ \E op \in {"jz", "jnz"} : code' = Append(code, Jump(op, lab))
      BY <2>1, ShortCircuitMoves
    <3>2. \A op \in {"jz", "jnz"} : Jump(op, lab) \in {y \in Instruction : Other(y)}
      BY <1>0, <1>1, <1>2
    <3> QED
      BY <3>1, <3>2 DEF Emitted
  <2>2. CASE ShortCircuitEnd
    <3>1. /\ UNCHANGED functions
          /\ \/ code' = Append(Append(code, Label(Top.l1)), Label(Top.l2))
             \/ code' = Append(Append(Append(code, Jump("jump", Top.l2)), Label(Top.l1)),
                               Label(Top.l2))
      BY <2>2, ShortCircuitEndMoves
    <3> PICK x, y, z : x = Label(Top.l1) /\ y = Label(Top.l2) /\ z = Jump("jump", Top.l2)
      OBVIOUS
    <3>2. /\ x \in {u \in Instruction : Other(u)} /\ y \in {u \in Instruction : Other(u)}
          /\ z \in {u \in Instruction : Other(u)}
      BY <1>0, <1>1, <1>2
    <3>3. \/ code' = Append(Append(code, x), y)
          \/ code' = Append(Append(Append(code, z), x), y)
      BY <3>1
    <3> QED
      BY <3>1, <3>2, <3>3 DEF Emitted
  <2>3. CASE IfTest
    <3>1. UNCHANGED functions /\ code' = Append(code, Jump("jz", lab))
      BY <2>3, IfTestMoves
    <3> PICK x : x = Jump("jz", lab)
      OBVIOUS
    <3>2. x \in {u \in Instruction : Other(u)} /\ code' = Append(code, x)
      BY <1>0, <1>1, <1>2, <3>1
    <3> QED
      BY <3>1, <3>2 DEF Emitted
  <2>4. CASE IfElse
    <3>1. /\ UNCHANGED functions
          /\ \/ code' = Append(Append(code, Jump("jump", lab)), Label(Top.l1))
             \/ code' = Append(code, Label(Top.l1))
      BY <2>4, IfElseMoves
    <3> PICK x, y : x = Jump("jump", lab) /\ y = Label(Top.l1)
      OBVIOUS
    <3>2. /\ x \in {u \in Instruction : Other(u)} /\ y \in {u \in Instruction : Other(u)}
          /\ code' = Append(Append(code, x), y) \/ code' = Append(code, y)
      BY <1>0, <1>1, <1>2, <3>1
    <3> QED
      BY <3>1, <3>2 DEF Emitted
  <2>5. CASE IfEnd
    <3>1. UNCHANGED functions /\ code' = Append(code, Label(Top.l1))
      BY <2>5, IfEndMoves
    <3> PICK x : x = Label(Top.l1)
      OBVIOUS
    <3>2. x \in {u \in Instruction : Other(u)} /\ code' = Append(code, x)
      BY <1>0, <1>1, <1>2, <3>1
    <3> QED
      BY <3>1, <3>2 DEF Emitted
  <2>6. CASE WhileTest \/ ForTest
    <3>1. UNCHANGED functions /\ code' = Append(code, Jump("jz", Top.l2))
      BY <2>6, TestMoves
    <3> PICK x : x = Jump("jz", Top.l2)
      OBVIOUS
    <3>2. x \in {u \in Instruction : Other(u)} /\ code' = Append(code, x)
      BY <1>0, <1>1, <1>2, <3>1
    <3> QED
      BY <3>1, <3>2 DEF Emitted
  <2>7. CASE LeaveLoop
    <3>1. UNCHANGED functions /\ \E l \in Nat : code' = Append(code, Jump("jump", l))
      BY <2>7, LeaveMoves
    <3>2. PICK l \in Nat : code' = Append(code, Jump("jump", l))
      BY <3>1
    <3>3. Jump("jump", l) \in {u \in Instruction : Other(u)}
      BY <1>0, <1>2
    <3> QED
      BY <3>1, <3>2, <3>3 DEF Emitted
  <2> QED
    BY <1>5, <2>1, <2>2, <2>3, <2>4, <2>5, <2>6, <2>7 DEF LabellingActions
<1>6. CASE LoopActions
  <2>1. CASE WhileHead \/ ForLoop
    <3>1. UNCHANGED functions /\ code' = Append(code, Label(lab))
      BY <2>1, WhileHeadMoves, ForLoopMoves
    <3> PICK x : x = Label(lab)
      OBVIOUS
    <3>2. x \in {u \in Instruction : Other(u)} /\ code' = Append(code, x)
      BY <1>0, <1>1, <1>2, <3>1
    <3> QED
      BY <3>1, <3>2 DEF Emitted
  <2>2. CASE WhileEnd
    <3>1. UNCHANGED functions
          /\ code' = Append(Append(code, Jump("jump", Top.l1)), Label(Top.l2))
      BY <2>2, WhileEndMoves
    <3> PICK x, y : x = Jump("jump", Top.l1) /\ y = Label(Top.l2)
      OBVIOUS
    <3>2. /\ x \in {u \in Instruction : Other(u)} /\ y \in {u \in Instruction : Other(u)}
          /\ code' = Append(Append(code, x), y)
      BY <1>0, <1>1, <1>2, <3>1
    <3> QED
      BY <3>1, <3>2 DEF Emitted
  <2>3. CASE ForSkip
    BY <2>3, ForSkipMoves DEF Emitted
  <2> QED
    BY <1>6, <2>1, <2>2, <2>3 DEF LoopActions
<1>7. CASE ErrorExit \/ Stopped
  BY <1>7 DEF ErrorExit, Stopped, vars, Emitted
<1> QED
  BY <1>3, <1>4, <1>5, <1>6, <1>7, NextActions

\* only the end of the file lets the compiler accept it
LEMMA Accepting ==
  ASSUME Inv, Next, status' = "done"
  PROVE  status = "done" \/ IsFunction("main")
<1>1. ASSUME GetToken \/ Stay \/ UNCHANGED status
      PROVE  status = "done"
  BY <1>1 DEF GetToken, Stay, input
<1>2. CASE Declarations
  <2>1. CASE EndOfFile
    BY <2>1 DEF EndOfFile
  <2>2. CASE \/ Start \/ Program \/ ProgramName \/ BeginFunction \/ GlobalVariable \/ Dimension
    BY <1>1, <2>2 DEF Start, Program, ProgramName, BeginFunction, GlobalVariable, Dimension
  <2>3. CASE DimensionSize \/ Declare \/ GlobalInit \/ GlobalValue \/ GlobalEnd
    BY <1>1, <2>3 DEF DimensionSize, Declare, GlobalInit, GlobalValue, GlobalEnd
  <2> QED
    BY <1>2, <2>1, <2>2, <2>3 DEF Declarations
<1>3. CASE FunctionParts
  BY <1>1, <1>3 DEF FunctionParts, Parameters, ParameterName, ParameterNext, FunctionOpen, Locals,
         LocalName, LocalInit, LocalNext, Body
<1>4. CASE Statements
  <2>1. CASE QuietStatements
    BY <1>1, <2>1 DEF QuietStatements, ExpectToken, Statement, Block, ReturnValue, ForHead, ForInit
  <2>2. CASE IfTest \/ IfElse \/ IfEnd \/ WhileHead \/ WhileTest \/ WhileEnd
    BY <1>1, <2>2 DEF IfTest, IfElse, IfEnd, WhileHead, WhileTest, WhileEnd
  <2>3. CASE ForLoop \/ ForTest \/ ForSkip \/ LeaveLoop
    BY <1>1, <2>3 DEF ForLoop, ForTest, ForSkip, LeaveLoop, Stay
  <2> QED
    BY <1>4, <2>1, <2>2, <2>3 DEF Statements, QuietStatements
<1>5. CASE Expressions
  <2>1. CASE QuietExpressions
    BY <1>1, <2>1 DEF QuietExpressions, Expression, Unary, AddressOf, Primary, NameUse, Called
  <2>2. CASE Assignment \/ BinaryLoop \/ ShortCircuit \/ ShortCircuitEnd \/ Pop
    BY <1>1, <2>2 DEF Assignment, BinaryLoop, ShortCircuit, ShortCircuitEnd, Pop
  <2>3. CASE Postfix \/ Arguments \/ Argument \/ Call
    BY <1>1, <2>3 DEF Postfix, Arguments, Argument, Call
  <2> QED
    BY <1>5, <2>1, <2>2, <2>3 DEF Expressions, QuietExpressions
<1>6. CASE ErrorExit
  BY <1>6 DEF ErrorExit
<1>7. CASE Stopped
  BY <1>1, <1>7 DEF Stopped, vars, Stay
<1> QED
  BY <1>2, <1>3, <1>4, <1>5, <1>6, <1>7 DEF Next

\* every function in the table was entered in the code, and once
Tabled(c, f) ==
  /\ \A i \in EntriesIn(c) : \E k \in DOMAIN f : f[k] = c[i].name
  /\ \A k \in DOMAIN f : \E i \in EntriesIn(c) : c[i].name = f[k]
  /\ \A i, j \in EntriesIn(c) : c[i].name = c[j].name => i = j
TableInv == Tabled(code, functions) /\ (status = "done" => IsFunction("main"))

LEMMA TabledOther ==
  ASSUME NEW c \in Seq(Instruction), NEW f, Tabled(c, f), NEW x, Other(x)
  PROVE  Append(c, x) \in Seq(Instruction) /\ Tabled(Append(c, x), f)
<1> PICK d : d = Append(c, x)
  OBVIOUS
<1>1. x \in Instruction /\ x.op # "entry"
  BY DEF Other
<1>2. /\ d \in Seq(Instruction)
      /\ \A i \in DOMAIN c : i \in DOMAIN d /\ d[i] = c[i]
      /\ \A i \in DOMAIN d : i \in DOMAIN c \/ d[i] = x
  BY <1>1
<1>3. EntriesIn(d) = EntriesIn(c) /\ \A i \in EntriesIn(c) : d[i] = c[i]
  BY <1>1, <1>2 DEF EntriesIn
<1>4. /\ \A i \in EntriesIn(c) : \E k \in DOMAIN f : f[k] = d[i].name
      /\ \A k \in DOMAIN f : \E i \in EntriesIn(c) : d[i].name = f[k]
      /\ \A i, j \in EntriesIn(c) : d[i].name = d[j].name => i = j
  <2>1. /\ \A i \in EntriesIn(c) : \E k \in DOMAIN f : f[k] = c[i].name
        /\ \A k \in DOMAIN f : \E i \in EntriesIn(c) : c[i].name = f[k]
        /\ \A i, j \in EntriesIn(c) : c[i].name = c[j].name => i = j
    BY DEF Tabled
  <2>2. \A i \in EntriesIn(c) : d[i] = c[i]
    BY <1>3
  <2>3. \A i, j \in EntriesIn(c) : d[i].name = d[j].name => i = j
    BY ONLY <2>1, <2>2
  <2> QED
    BY ONLY <2>1, <2>2, <2>3
<1>5. Tabled(d, f)
  BY ONLY <1>3, <1>4 DEF Tabled
<1> QED
  BY <1>2, <1>5

LEMMA TabledEntry ==
  ASSUME NEW c \in Seq(Instruction), NEW f \in Seq(Names), Tabled(c, f), NEW x \in Instruction,
         x.op = "entry", NEW name \in Names, x.name = name, \A k \in DOMAIN f : f[k] # name
  PROVE  Tabled(Append(c, x), Append(f, name))
<1> PICK d, g, m, n : d = Append(c, x) /\ g = Append(f, name) /\ m = Len(c) + 1 /\ n = Len(f) + 1
  OBVIOUS
<1>1. /\ \A i \in DOMAIN c : i \in DOMAIN d /\ d[i] = c[i]
      /\ m \in DOMAIN d /\ d[m] = x
      /\ \A i \in DOMAIN d : i \in DOMAIN c \/ i = m
  OBVIOUS
<1>2. /\ \A k \in DOMAIN f : k \in DOMAIN g /\ g[k] = f[k]
      /\ n \in DOMAIN g /\ g[n] = name
      /\ \A k \in DOMAIN g : k \in DOMAIN f \/ k = n
  OBVIOUS
<1>3. /\ EntriesIn(d) = EntriesIn(c) \cup {m}
      /\ \A i \in EntriesIn(c) : d[i] = c[i] /\ c[i].name # name
  <2>1. \A i \in EntriesIn(c) : i \in DOMAIN c /\ c[i].name # name
    BY DEF Tabled, EntriesIn
  <2> QED
    BY <1>1, <2>1 DEF EntriesIn
<1>4. /\ \A i \in EntriesIn(c) : \E k \in DOMAIN f : f[k] = c[i].name
      /\ \A k \in DOMAIN f : \E i \in EntriesIn(c) : c[i].name = f[k]
      /\ \A i, j \in EntriesIn(c) : c[i].name = c[j].name => i = j
  BY DEF Tabled
<1>5. \A i \in EntriesIn(d) : \E k \in DOMAIN g : g[k] = d[i].name
  <2> TAKE i \in EntriesIn(d)
  <2>1. CASE i = m
    BY <2>1, <1>1, <1>2
  <2>2. CASE i \in EntriesIn(c)
    <3>1. PICK k \in DOMAIN f : f[k] = c[i].name
      BY <2>2, <1>4
    <3> QED
      BY <3>1, <2>2, <1>2, <1>3
  <2> QED
    BY <2>1, <2>2, <1>3
<1>6. \A k \in DOMAIN g : \E i \in EntriesIn(d) : d[i].name = g[k]
  <2> TAKE k \in DOMAIN g
  <2>1. CASE k = n
    BY <2>1, <1>1, <1>2, <1>3
  <2>2. CASE k \in DOMAIN f
    <3>1. PICK i \in EntriesIn(c) : c[i].name = f[k]
      BY <2>2, <1>4
    <3> QED
      BY <3>1, <2>2, <1>2, <1>3
  <2> QED
    BY <2>1, <2>2, <1>2
<1>7. \A i, j \in EntriesIn(d) : d[i].name = d[j].name => i = j
  <2>1. d[m].name = name
    BY <1>1
  <2>2. \A i \in EntriesIn(c) : d[i].name = c[i].name /\ d[i].name # name
    BY <1>3
  <2> QED
    BY ONLY <1>3, <1>4, <2>1, <2>2
<1>8. Tabled(d, g)
  BY ONLY <1>5, <1>6, <1>7 DEF Tabled
<1> QED
  BY <1>8

LEMMA TableNext ==
  ASSUME Inv, TableInv, [Next]_vars
  PROVE  TableInv'
<1>0. code \in Seq(Instruction) /\ functions \in Seq(Names) /\ Tabled(code, functions)
  BY DEF Inv, TypeOK, TableInv
<1>1. CASE UNCHANGED vars
  BY <1>1 DEF TableInv, Tabled, EntriesIn, IsFunction, vars, input
<1>2. CASE Next
  <2>0. ASSUME status' = "done"
        PROVE  IsFunction("main")'
    <3>1. IsFunction("main")
      BY <1>2, <2>0, Accepting DEF TableInv
    <3>2. \/ functions' = functions
          \/ functions' = Append(functions, Top.arg) /\ functions \in Seq(Names)
      BY <1>0, <1>2, OtherCode DEF BeginFunction
    <3>3. \A i \in DOMAIN functions : i \in DOMAIN functions' /\ functions'[i] = functions[i]
      BY <3>2
    <3> QED
      BY <3>1, <3>3 DEF IsFunction
  <2>1. CASE BeginFunction
    <3> PICK name, x : name = Top.arg /\ x = Instr("entry", 0, Top.arg)
      OBVIOUS
    <3>1. /\ At("progKind") /\ ~IsFunction(name) /\ functions' = Append(functions, name)
          /\ Emit(<<x>>)
      BY <2>1 DEF BeginFunction
    <3>2. x \in Instruction /\ x.op = "entry" /\ x.name = name
      BY TopType DEF Instr, Instruction
    <3>3. name \in Names
      BY <3>1, StackFacts DEF Sound, At, Top
    <3>4. code' = Append(code, x)
      BY <3>1, <3>2, EmitType
    <3>5. \A k \in DOMAIN functions : functions[k] # name
      BY <3>1 DEF IsFunction
    <3>6. Tabled(Append(code, x), Append(functions, name))
      BY <1>0, <3>2, <3>3, <3>5, TabledEntry
    <3>7. Tabled(code, functions)'
      BY <3>1, <3>4, <3>6
    <3> QED
      BY <3>7, <2>0 DEF TableInv
  <2>3. CASE Emitted(code') /\ UNCHANGED functions
    <3>1. \A c \in Seq(Instruction), x \in {y \in Instruction : Other(y)} :
            Tabled(c, functions) => /\ Append(c, x) \in Seq(Instruction)
                                    /\ Tabled(Append(c, x), functions)
      BY TabledOther
    <3>2. Tabled(code', functions)
      BY <1>0, <2>3, <3>1 DEF Emitted
    <3> QED
      BY <2>0, <2>3, <3>2 DEF TableInv, Tabled, EntriesIn
  <2> QED
    BY <1>2, <2>1, <2>3, OtherCode
<1> QED
  BY <1>1, <1>2

\* The function table holds exactly the functions entered in the output, each once, never more
\* than MAXFUNCS, and a file is accepted only with a main among them.
THEOREM TableCorrect == Spec => []FunctionTable
<1>1. Init => TableInv
  <2>1. DOMAIN <<>> = {}
    OBVIOUS
  <2> QED
    BY <2>1 DEF Init, TableInv, Tabled, EntriesIn
<1>2. Inv /\ TableInv /\ [Next]_vars => TableInv'
  BY TableNext
<1>3. TableInv => FunctionTable
  <2>1. Entries = EntriesIn(code)
    BY DEF Entries, EntriesIn
  <2> QED
    BY <2>1 DEF TableInv, Tabled, FunctionTable, IsFunction
<1> QED
  BY <1>1, <1>2, <1>3, Invariant, PTL DEF Spec

-----------------------------------------------------------------------------
(* The body of a for statement *)

Held(c) == \E i \in DOMAIN c : c[i].at = "forTail"

\* while it is compiled nothing has been read behind the ')' in front of it
HeldInv ==
  Held(ctl) => token = ")" /\ Top.at \in {"stmt", "expr", "unary", "primary"}

LEMMA HeldBefore ==
  ASSUME NEW c, c \in ListOf(Item), NEW x \in Item, x.at # "forTail", Held(Before(x, c))
  PROVE  Held(c)
<1> PICK d : d = <<x>> \o c
  OBVIOUS
<1>1. c \in Seq(Item)
  BY DEF ListOf
<1>2. d[1] = x /\ \A i \in DOMAIN d : i # 1 => i - 1 \in DOMAIN c /\ d[i] = c[i - 1]
  BY <1>1, ConsIndex
<1>3. PICK i \in DOMAIN d : d[i].at = "forTail"
  BY DEF Held, Before
<1>4. i - 1 \in DOMAIN c /\ c[i - 1].at = "forTail"
  BY <1>2, <1>3
<1> QED
  BY <1>4 DEF Held

LEMMA HeldCalm ==
  ASSUME NEW p, NEW a, Calm(p, a), NEW c, c \in ListOf(Item), NEW d, d = p \o c, Held(d)
  PROVE  Held(c)
<1>1. c \in Seq(Item) /\ p \in Seq(Item) /\ \A i \in DOMAIN p : p[i].at \notin Laden
  BY DEF ListOf, Calm, Fits
<1>2. \A i \in DOMAIN d : \/ i \in DOMAIN p /\ d[i] = p[i]
                          \/ i - Len(p) \in DOMAIN c /\ d[i] = c[i - Len(p)]
  BY <1>1, Concatenated
<1>3. PICK i \in DOMAIN d : d[i].at = "forTail"
  BY DEF Held
<1>4. d[i].at \in Laden
  BY <1>3 DEF Laden, Owing, LoopAt
<1> QED
  BY <1>1, <1>2, <1>3, <1>4 DEF Held

LEMMA HeldBelow ==
  ASSUME Inv
  PROVE  /\ Tail(ctl) \in ListOf(Item)
         /\ Held(Tail(ctl)) => Held(ctl)
         /\ \A x : Pushed(x) /\ x \in Item /\ x.at # "forTail" /\ Held(ctl') => Held(ctl)
         /\ Goto(<<>>) /\ Held(ctl') => Held(ctl)
<1>1. Tail(ctl) \in ListOf(Item) /\ ctl \in Seq(Item) /\ ctl # <<>>
  BY StackFacts DEF ListOf
<1>2. Held(Tail(ctl)) => Held(ctl)
  BY <1>1, TailIndex DEF Held
<1>3. ASSUME NEW x, Pushed(x), x \in Item, x.at # "forTail", Held(ctl')
      PROVE  Held(ctl)
  <2>1. PICK q, r : /\ Calm(q, Top.at) /\ Calm(r, Top.at)
                    /\ ctl' = q \o Before(x, r \o Tail(ctl))
    BY <1>3, PushedAt
  <2> PICK c, d : c = r \o Tail(ctl) /\ d = Before(x, r \o Tail(ctl))
    OBVIOUS
  <2>2. c \in ListOf(Item)
    BY <1>1, <2>1, Concatenated DEF Calm, ListOf
  <2>3. d \in ListOf(Item)
    BY <1>3, <2>2, ConsIndex DEF ListOf, Before
  <2>4. Held(d)
    BY <1>3, <2>1, <2>3, HeldCalm
  <2>5. Held(c)
    BY <1>3, <2>2, <2>4, HeldBefore
  <2> QED
    BY <1>1, <1>2, <2>1, <2>5, HeldCalm
<1>4. ASSUME Goto(<<>>), Held(ctl')
      PROVE  Held(ctl)
  <2>1. <<>> \o Tail(ctl) = Tail(ctl)
    BY <1>1 DEF ListOf
  <2> QED
    BY <1>2, <1>4, <2>1 DEF Goto
<1> QED
  BY <1>1, <1>2, <1>3, <1>4

\* only skipping the increment puts the piece down that runs behind the body
LEMMA HeldNew ==
  ASSUME Inv, Next, Held(ctl')
  PROVE  ForSkip \/ Held(ctl)
<1>h. Held(ctl')
  OBVIOUS
<1>0. /\ \A p, a : Calm(p, a) /\ ctl' = p \o Tail(ctl) => Held(ctl)
      /\ \A c, x : (c \in ListOf(Item) /\ x \in Item /\ x.at # "forTail"
                    /\ Held(Before(x, c))) => Held(c)
      /\ \A c, x : c \in ListOf(Item) /\ x \in Item => Before(x, c) \in ListOf(Item)
  <2>1. Tail(ctl) \in ListOf(Item)
    BY HeldBelow
  <2>2. \A p, a : Calm(p, a) /\ ctl' = p \o Tail(ctl) => Held(Tail(ctl))
    BY <1>h, <2>1, HeldCalm
  <2>3. \A c, x : (c \in ListOf(Item) /\ x \in Item /\ x.at # "forTail"
                   /\ Held(Before(x, c))) => Held(c)
    BY HeldBefore
  <2>4. \A c, x : c \in ListOf(Item) /\ x \in Item => Before(x, c) \in ListOf(Item)
    BY ConsIndex DEF ListOf, Before
  <2> QED
    BY <2>2, <2>3, <2>4, HeldBelow
<1>1. CASE QuietActions
  BY <1>0, <1>1, QuietMoves DEF Quiet, Goto
<1>2. CASE WeighingActions
  <2>1. \A x : x.at \in Weighing => x.at # "forTail"
    BY DEF Weighing
  <2> QED
    BY <1>2, <2>1, WeighingMoves, HeldBelow DEF Weighs
<1>3. CASE LabellingActions
  <2>1. CASE ShortCircuit
    BY <2>1, ShortCircuitMoves, HeldBelow DEF LabelPieces
  <2>2. CASE ShortCircuitEnd \/ IfEnd \/ WhileTest \/ ForTest \/ LeaveLoop
    BY <2>2, ShortCircuitEndMoves, IfEndMoves, TestMoves, LeaveMoves, HeldBelow
  <2>3. CASE IfTest \/ IfElse
    BY <2>3, IfTestMoves, IfElseMoves, HeldBelow DEF LabelPieces
  <2> QED
    BY <1>3, <2>1, <2>2, <2>3 DEF LabellingActions
<1>4. CASE LoopActions
  <2>0. /\ It("expr").at # "forTail" /\ It("stmt").at # "forTail" /\ Expect(";").at # "forTail"
        /\ It("expr") \in Item /\ It("stmt") \in Item /\ Expect(";") \in Item
    BY ShortItems DEF It, Expect, With, Piece
  <2>1. CASE WhileHead
    <3>1. PICK test, end \in Item :
            /\ test.at = "whileTest" /\ end.at = "whileEnd"
            /\ ctl' = Before(It("expr"), Before(test, Before(It("stmt"), Before(end, Tail(ctl)))))
      BY <2>1, WhileHeadMoves DEF LabelPieces, LoopPiece
    <3> PICK u, v, w : /\ w = Before(end, Tail(ctl)) /\ v = Before(It("stmt"), w)
                       /\ u = Before(test, v)
      OBVIOUS
    <3>2. w \in ListOf(Item) /\ v \in ListOf(Item) /\ u \in ListOf(Item)
      BY <1>0, <2>0, HeldBelow
    <3>3. Held(u)
      BY <1>0, <2>0, <3>1, <3>2
    <3>4. Held(v)
      BY <1>0, <3>1, <3>2, <3>3
    <3>5. Held(w)
      BY <1>0, <2>0, <3>2, <3>4
    <3> QED
      BY <1>0, <3>1, <3>5, HeldBelow
  <2>2. CASE WhileEnd
    BY <2>2, WhileEndMoves, HeldBelow
  <2>3. CASE ForLoop
    <3>1. PICK test, end \in Item :
            /\ test.at = "forTest" /\ end.at = "forSkip"
            /\ \/ ctl' = Before(Expect(";"), Before(end, Tail(ctl)))
               \/ ctl' = Before(It("expr"), Before(test, Before(Expect(";"), Before(end, Tail(ctl)))))
      BY <2>3, ForLoopMoves DEF LabelPieces, LoopPiece
    <3> PICK u, v, w : /\ w = Before(end, Tail(ctl)) /\ v = Before(Expect(";"), w)
                       /\ u = Before(test, v)
      OBVIOUS
    <3>2. w \in ListOf(Item) /\ v \in ListOf(Item) /\ u \in ListOf(Item)
      BY <1>0, <2>0, HeldBelow
    <3>3. ctl' = v \/ ctl' = Before(It("expr"), u)
      BY <3>1
    <3>4. ctl' = v \/ Held(u)
      BY <1>0, <2>0, <3>2, <3>3
    <3>5. Held(v)
      BY <1>0, <3>1, <3>2, <3>4
    <3>6. Held(w)
      BY <1>0, <2>0, <3>2, <3>5
    <3> QED
      BY <1>0, <3>1, <3>6, HeldBelow
  <2> QED
    BY <1>4, <2>1, <2>2, <2>3 DEF LoopActions
<1>5. CASE ErrorExit \/ Stopped
  BY <1>5 DEF ErrorExit, Stopped, vars
<1> QED
  BY <1>1, <1>2, <1>3, <1>4, <1>5, NextActions

\* what may run in front of the body's first token
LEMMA HeldActions ==
  ASSUME Inv, Next, token = ")", Top.at \in {"stmt", "expr", "unary", "primary"}
  PROVE  Statement \/ Expression \/ Unary \/ ErrorExit \/ Stopped
<1>1. ~Declarations
  BY DEF Declarations, Start, Program, EndOfFile, ProgramName, BeginFunction, GlobalVariable,
         Dimension, DimensionSize, Declare, GlobalInit, GlobalValue, GlobalEnd, At, Top
<1>2. ~FunctionParts
  BY DEF FunctionParts, Parameters, ParameterName, ParameterNext, FunctionOpen, Locals,
         LocalName, LocalInit, LocalNext, Body, At, Top
<1>3. Statements => Statement
  BY DEF Statements, ExpectToken, Block, ReturnValue, IfTest, IfElse, IfEnd, WhileHead,
         WhileTest, WhileEnd, ForHead, ForInit, ForLoop, ForTest, ForSkip, LeaveLoop, At, Top
<1>4. ~WeighingActions /\ ~ShortCircuit /\ ~ShortCircuitEnd
  BY WeighingMoves, ShortCircuitMoves, ShortCircuitEndMoves
<1>5. ~AddressOf /\ ~NameUse /\ ~Called
  BY DEF AddressOf, NameUse, Called, At, Top
<1>6. ~Primary
  <2>1. ")" \notin Number \cup {"charlit", "string", "("} /\ ")" \notin Names
    BY NamesAssumption DEF Number, Reserved
  <2> QED
    BY <2>1 DEF Primary
<1> QED
  BY <1>1, <1>2, <1>3, <1>4, <1>5, <1>6 DEF Next, Expressions, WeighingActions

\* the innermost piece after a step
LEMMA NewTop ==
  ASSUME NEW x \in Item, NEW c, c \in ListOf(Item), ctl' = Before(x, c)
  PROVE  Top' = x
<1> PICK u : u = ctl'
  OBVIOUS
<1>1. u = <<x>> \o c /\ c \in Seq(Item)
  BY DEF Before, ListOf
<1>2. u \in Seq(Item) /\ u[1] = x
  BY <1>1, ConsIndex
<1>3. Head(u) = x
  BY <1>2
<1> QED
  BY <1>3 DEF Top

LEMMA NewTopCalm ==
  ASSUME Inv, NEW x \in Item, NEW r \in Seq(Item), NEW p, p = <<x>> \o r, Goto(p)
  PROVE  Top' = x
<1>1. <<x>> \in Seq(Item) /\ Tail(ctl) \in Seq(Item)
  BY StackFacts
<1> PICK one, below : one = <<x>> /\ below = Tail(ctl)
  OBVIOUS
<1>2. (one \o r) \o below = one \o (r \o below)
  BY <1>1, Associated
<1>3. r \o below \in ListOf(Item)
  BY <1>1, Concatenated DEF ListOf
<1>4. ctl' = Before(x, r \o below)
  BY <1>2 DEF Goto, Before
<1> QED
  BY <1>3, <1>4, NewTop

LEMMA TwoMade ==
  ASSUME NEW S, NEW x \in S, NEW y \in S
  PROVE  <<x, y>> = <<x>> \o <<y>> /\ <<y>> \in Seq(S)
<1> PICK p, q, one, two : p = <<x, y>> /\ one = <<x>> /\ two = <<y>> /\ q = one \o two
  OBVIOUS
<1>1. p \in Seq(S) /\ Len(p) = 2 /\ p[1] = x /\ p[2] = y
  OBVIOUS
<1>2. two \in Seq(S) /\ q \in Seq(S) /\ Len(q) = 2 /\ q[1] = x /\ q[2] = y
  OBVIOUS
<1>3. \A i \in 1..2 : i = 1 \/ i = 2
  OBVIOUS
<1>4. p = q
  BY <1>1, <1>2, <1>3, SameItems
<1> QED
  BY <1>2, <1>4

LEMMA HeldNext ==
  ASSUME Inv, HeldInv, [Next]_vars
  PROVE  HeldInv'
<1>0. /\ It("expr") \in Item /\ It("unary") \in Item /\ It("primary") \in Item
      /\ It("postfix") \in Item /\ It("stmt") \in Item /\ Expect(";") \in Item
      /\ It("assign") \in Item
      /\ It("expr").at = "expr" /\ It("unary").at = "unary" /\ It("primary").at = "primary"
      /\ It("stmt").at = "stmt"
  <2>1. "" \in Token /\ "int" \in Types /\ 0 \in Nat
    BY TokenConstants DEF Types
  <2>2. \A b \in Places : It(b) \in Item /\ It(b).at = b
    BY <2>1 DEF It, Piece, Item
  <2>3. "unary" \in Places /\ "primary" \in Places /\ "postfix" \in Places
        /\ "assign" \in Places /\ "stmt" \in Places /\ "expr" \in Places
    BY DEF Places
  <2> QED
    BY <2>2, <2>3, ShortItems
<1>1. CASE UNCHANGED vars
  BY <1>1 DEF HeldInv, Held, Top, vars, input
<1>2. CASE ForSkip
  <2>1. PICK end \in Item : /\ ctl' = Before(It("stmt"), Before(end, Tail(ctl)))
                            /\ token = ")" /\ UNCHANGED input
    BY <1>2, ForSkipMoves
  <2>2. Before(end, Tail(ctl)) \in ListOf(Item)
    BY StackFacts, ConsIndex DEF Before, ListOf
  <2>3. Top' = It("stmt")
    BY <1>0, <2>1, <2>2, NewTop
  <2>4. token' = ")"
    BY <2>1 DEF input
  <2> QED
    BY <1>0, <2>3, <2>4 DEF HeldInv
<1>3. CASE Next /\ Held(ctl)
  <2>0. token = ")" /\ Top.at \in {"stmt", "expr", "unary", "primary"}
    BY <1>3 DEF HeldInv
  <2>1. CASE Statement
    <3>1. token' = token /\ Goto(<<It("expr"), Expect(";")>>)
      BY <2>0, <2>1 DEF Statement, StmtStart, Stay, input
    <3> PICK x, y : x = It("expr") /\ y = Expect(";")
      OBVIOUS
    <3>a. x \in Item /\ y \in Item
      BY <1>0
    <3>2. <<x, y>> = <<x>> \o <<y>> /\ <<y>> \in Seq(Item)
      BY <3>a, TwoMade
    <3>3. Top' = x
      BY <3>a, <3>1, <3>2, NewTopCalm
    <3> QED
      BY <1>0, <2>0, <3>1, <3>3 DEF HeldInv
  <2>2. CASE Expression
    <3>1. token' = token /\ Goto(Operand(1) \o <<It("assign")>>)
      BY <2>2 DEF Expression, Stay, input
    <3> PICK x, y, rest : /\ x = It("unary") /\ y = <<It("assign")>>
                          /\ rest = [i \in 1..(11 - 1) |-> Count("level", 11 - i)]
      OBVIOUS
    <3>2. rest \in Seq(Item)
      <4>1. \A i \in 1..10 : Count("level", 11 - i) \in Item
        <5>1. \A n \in Nat : Count("level", n) \in Item
          BY FitsAll DEF Inner, Fits
        <5>2. \A i \in 1..10 : 11 - i \in Nat
          OBVIOUS
        <5> QED
          BY <5>1, <5>2
      <4>2. rest = [i \in 1..10 |-> Count("level", 11 - i)]
        OBVIOUS
      <4> QED
        BY ONLY <4>1, <4>2
    <3> PICK z : z = It("assign")
      OBVIOUS
    <3>a. x \in Item /\ z \in Item /\ y = <<z>>
      BY <1>0
    <3>3. x \in Item /\ <<x>> \in Seq(Item) /\ y \in Seq(Item)
      BY ONLY <3>a
    <3>4. (<<x>> \o rest) \o y = <<x>> \o (rest \o y) /\ rest \o y \in Seq(Item)
      BY <3>2, <3>3, Associated, Concatenated
    <3>5. Goto(<<x>> \o (rest \o y))
      BY <3>1, <3>4 DEF Operand
    <3>6. Top' = x
      BY <3>3, <3>4, <3>5, NewTopCalm
    <3> QED
      BY <1>0, <2>0, <3>1, <3>6 DEF HeldInv
  <2>3. CASE Unary
    <3>1. token' = token /\ Goto(<<It("primary"), It("postfix")>>)
      BY <2>0, <2>3 DEF Unary, Prefix, Stay, input
    <3> PICK x, y : x = It("primary") /\ y = It("postfix")
      OBVIOUS
    <3>a. x \in Item /\ y \in Item
      BY <1>0
    <3>2. <<x, y>> = <<x>> \o <<y>> /\ <<y>> \in Seq(Item)
      BY <3>a, TwoMade
    <3>3. Top' = x
      BY <3>a, <3>1, <3>2, NewTopCalm
    <3> QED
      BY <1>0, <2>0, <3>1, <3>3 DEF HeldInv
  <2>4. CASE ErrorExit \/ Stopped
    BY <2>0, <2>4 DEF HeldInv, ErrorExit, Stopped, vars, input, Top
  <2> QED
    BY <1>3, <2>0, <2>1, <2>2, <2>3, <2>4, HeldActions
<1> QED
  BY <1>1, <1>2, <1>3, HeldNew DEF HeldInv

\* No for statement is ever compiled: with the increment skipped over the text, its body is
\* read from the closing parenthesis and rejected before it ends.
THEOREM ForCorrect == Spec => []ForRejected
<1>1. Init => HeldInv
  <2>1. ASSUME Init
        PROVE  HeldInv
    <3> PICK x : x = It("start")
      OBVIOUS
    <3>1. x.at = "start" /\ ctl = <<x>>
      BY <2>1 DEF Init, It, Piece
    <3>2. DOMAIN ctl = {1} /\ ctl[1] = x
      BY <3>1
    <3> QED
      BY <3>1, <3>2 DEF HeldInv, Held
  <2> QED
    BY <2>1
<1>2. Inv /\ HeldInv /\ [Next]_vars => HeldInv'
  BY HeldNext
<1>3. Inv /\ HeldInv => ForRejected
  BY StackFacts DEF HeldInv, Held, ForRejected, At, Top
<1> QED
  BY <1>1, <1>2, <1>3, Invariant, PTL DEF Spec

-----------------------------------------------------------------------------
(* The words on the run-time stack.  A piece stands for the words its return *)
(* pops; what is pushed and neither popped by a piece of the C stack nor     *)
(* given up by a call is nothing.                                            *)

\* f[i] is the sum of the weights from place i on; none below a statement
Sums(c, f) ==
  /\ f \in [1..(Len(c) + 1) -> Int]
  /\ f[Len(c) + 1] = 0
  /\ \A i \in DOMAIN c : /\ f[i] = f[i + 1] + Weight(c[i])
                         /\ c[i].at \in StatementLevel => f[i] = 0
Depth(c, d) == \E f : Sums(c, f) /\ f[1] = d

Kept == (0 - sp) - Word * unpopped
DepthInv == Depth(ctl, Kept) /\ (unpopped > 0 => MaxArgs > RegArgs)

LEMMA DepthPop ==
  ASSUME NEW c \in Seq(Item), c # <<>>, NEW d, Depth(c, d)
  PROVE  /\ d \in Int /\ Depth(Tail(c), d - Weight(c[1]))
         /\ c[1].at \in StatementLevel => d = 0
<1>1. PICK f : Sums(c, f) /\ f[1] = d
  BY DEF Depth
<1> PICK t, n : t = Tail(c) /\ n = Len(c)
  OBVIOUS
<1>2. /\ n \in Nat /\ n >= 1 /\ DOMAIN c = 1..n /\ Len(t) = n - 1 /\ DOMAIN t = 1..(n - 1)
      /\ \A i \in 1..(n - 1) : t[i] = c[i + 1] /\ i + 1 \in 1..n
      /\ 1 \in DOMAIN c /\ c[1] \in Item
  OBVIOUS
<1>3. /\ f \in [1..(n + 1) -> Int] /\ f[n + 1] = 0
      /\ \A i \in 1..n : f[i] = f[i + 1] + Weight(c[i])
      /\ \A i \in 1..n : c[i].at \in StatementLevel => f[i] = 0
  BY <1>1, <1>2 DEF Sums
<1>4. f[1] \in Int /\ f[1 + 1] \in Int /\ Weight(c[1]) \in Int
  <2>1. Weight(c[1]) \in Int
    BY <1>2, WeightType
  <2>2. 1 \in 1..(n + 1) /\ 1 + 1 \in 1..(n + 1)
    BY <1>2
  <2> QED
    BY <1>3, <2>1, <2>2
<1>5. f[1 + 1] = d - Weight(c[1]) /\ d \in Int
  BY <1>1, <1>2, <1>3, <1>4
<1> DEFINE g == [i \in 1..n |-> f[i + 1]]
<1>6. \A i \in 1..n : f[i + 1] \in Int
  <2>1. \A i \in 1..n : i + 1 \in 1..(n + 1)
    BY <1>2
  <2> QED
    BY <1>3, <2>1
<1>7. /\ g \in [1..n -> Int] /\ g[1] = f[1 + 1] /\ \A i \in 1..n : g[i] = f[i + 1]
  BY <1>2, <1>6
<1> HIDE DEF g
<1>8. Sums(t, g)
  <2>1. Len(t) + 1 = n
    BY <1>2
  <2>2. g[n] = 0
    BY <1>2, <1>3, <1>7
  <2>3. \A i \in 1..(n - 1) : /\ g[i] = g[i + 1] + Weight(t[i])
                              /\ t[i].at \in StatementLevel => g[i] = 0
    <3> SUFFICES ASSUME NEW i \in 1..(n - 1)
                 PROVE  /\ g[i] = g[i + 1] + Weight(t[i])
                        /\ t[i].at \in StatementLevel => g[i] = 0
      OBVIOUS
    <3>1. i \in 1..n /\ i + 1 \in 1..n /\ t[i] = c[i + 1]
      BY <1>2
    <3>2. g[i] = f[i + 1] /\ g[i + 1] = f[i + 1 + 1]
      BY <1>7, <3>1
    <3> QED
      BY <1>3, <3>1, <3>2
  <2> QED
    BY <1>2, <1>7, <2>1, <2>2, <2>3 DEF Sums
<1>9. Depth(t, d - Weight(c[1]))
  BY <1>5, <1>7, <1>8 DEF Depth
<1>10. c[1].at \in StatementLevel => d = 0
  BY <1>1, <1>2, <1>3
<1> QED
  BY <1>5, <1>9, <1>10

\* pieces that stand for no word; statements only where there is none
Weightless(p, d) ==
  /\ p \in Seq(Item)
  /\ \A i \in DOMAIN p : Weight(p[i]) = 0 /\ (p[i].at \in StatementLevel => d = 0)

LEMMA DepthWeightless ==
  ASSUME NEW c \in Seq(Item), NEW d \in Int, Depth(c, d), NEW p, Weightless(p, d)
  PROVE  Depth(p \o c, d)
<1>1. PICK f : Sums(c, f) /\ f[1] = d
  BY DEF Depth
<1> PICK e, n, m : e = p \o c /\ n = Len(p) /\ m = Len(c)
  OBVIOUS
<1>2. p \in Seq(Item)
  BY DEF Weightless
<1>3. /\ n \in Nat /\ m \in Nat /\ DOMAIN p = 1..n /\ DOMAIN c = 1..m
      /\ e \in Seq(Item) /\ Len(e) = n + m /\ DOMAIN e = 1..(n + m)
      /\ \A i \in 1..n : e[i] = p[i]
      /\ \A i \in 1..(n + m) : i > n => e[i] = c[i - n]
  BY <1>2
<1>4. /\ f \in [1..(m + 1) -> Int] /\ f[m + 1] = 0
      /\ \A i \in 1..m : f[i] = f[i + 1] + Weight(c[i])
      /\ \A i \in 1..m : c[i].at \in StatementLevel => f[i] = 0
  BY <1>1, <1>3 DEF Sums
<1> DEFINE g == [i \in 1..(n + m + 1) |-> IF i <= n THEN d ELSE f[i - n]]
<1>5. \A i \in 1..(n + m + 1) : i > n => i - n \in 1..(m + 1) /\ f[i - n] \in Int
  <2>1. \A i \in 1..(n + m + 1) : i > n => i - n \in 1..(m + 1)
    BY <1>3
  <2> QED
    BY <1>4, <2>1
<1>6. /\ g \in [1..(n + m + 1) -> Int]
      /\ \A i \in 1..(n + m + 1) : /\ i <= n => g[i] = d
                                   /\ i > n => g[i] = f[i - n]
  BY <1>3, <1>5
<1> HIDE DEF g
<1>7. g[1] = d
  <2>1. CASE n = 0
    BY <1>1, <1>3, <1>6, <2>1
  <2>2. CASE n >= 1
    BY <1>3, <1>6, <2>2
  <2> QED
    BY <1>3, <2>1, <2>2
<1>8. g[n + m + 1] = 0
  <2>1. n + m + 1 \in 1..(n + m + 1) /\ n + m + 1 > n /\ n + m + 1 - n = m + 1
    BY <1>3
  <2> QED
    BY <1>4, <1>6, <2>1
<1>9. ASSUME NEW i \in 1..(n + m)
      PROVE  /\ g[i] = g[i + 1] + Weight(e[i])
             /\ e[i].at \in StatementLevel => g[i] = 0
  <2>1. i \in 1..(n + m + 1) /\ i + 1 \in 1..(n + m + 1) /\ i \in Nat
    BY <1>3
  <2>2. CASE i <= n
    <3>1. i \in 1..n /\ e[i] = p[i] /\ Weight(p[i]) = 0 /\ (p[i].at \in StatementLevel => d = 0)
      BY <1>3, <2>1, <2>2 DEF Weightless
    <3>2. g[i] = d /\ g[i + 1] = d
      <4>1. CASE i + 1 <= n
        BY <1>6, <2>1, <2>2, <4>1
      <4>2. CASE i = n
        <5>1. i + 1 > n /\ i + 1 - n = 1
          BY <1>3, <4>2
        <5> QED
          BY <1>1, <1>6, <2>1, <2>2, <5>1
      <4> QED
        BY <1>3, <2>1, <2>2, <4>1, <4>2
    <3> QED
      BY <3>1, <3>2
  <2>3. CASE i > n
    <3>1. i - n \in 1..m /\ e[i] = c[i - n] /\ i + 1 > n /\ i + 1 - n = i - n + 1
      BY <1>3, <2>1, <2>3
    <3>2. g[i] = f[i - n] /\ g[i + 1] = f[i - n + 1]
      BY <1>6, <2>1, <2>3, <3>1
    <3> QED
      BY <1>4, <3>1, <3>2
  <2> QED
    BY <1>3, <2>1, <2>2, <2>3
<1>10. Sums(e, g)
  BY <1>3, <1>6, <1>8, <1>9 DEF Sums
<1> QED
  BY <1>7, <1>10 DEF Depth

LEMMA DepthOne ==
  ASSUME NEW x \in Item, NEW c, c \in ListOf(Item), NEW d \in Int, Depth(c, d),
         NEW k, k = d + Weight(x), x.at \in StatementLevel => k = 0
  PROVE  Depth(Before(x, c), k) /\ Before(x, c) \in ListOf(Item) /\ k \in Int
<1>0. c \in Seq(Item)
  BY DEF ListOf
<1>1. Weight(x) \in Int /\ k \in Int
  BY WeightType
<1>2. PICK f : Sums(c, f) /\ f[1] = d
  BY DEF Depth
<1> PICK e, m : e = <<x>> \o c /\ m = Len(c)
  OBVIOUS
<1>3. /\ m \in Nat /\ DOMAIN c = 1..m /\ e \in Seq(Item) /\ Len(e) = m + 1
      /\ DOMAIN e = 1..(m + 1) /\ e[1] = x
      /\ \A i \in 1..(m + 1) : i # 1 => i - 1 \in 1..m /\ e[i] = c[i - 1]
  BY <1>0
<1>4. /\ f \in [1..(m + 1) -> Int] /\ f[m + 1] = 0
      /\ \A i \in 1..m : f[i] = f[i + 1] + Weight(c[i])
      /\ \A i \in 1..m : c[i].at \in StatementLevel => f[i] = 0
  BY <1>2, <1>3 DEF Sums
<1> DEFINE g == [i \in 1..(m + 2) |-> IF i = 1 THEN k ELSE f[i - 1]]
<1>5. \A i \in 1..(m + 2) : i # 1 => i - 1 \in 1..(m + 1) /\ f[i - 1] \in Int
  <2>1. \A i \in 1..(m + 2) : i # 1 => i - 1 \in 1..(m + 1)
    BY <1>3
  <2> QED
    BY <1>4, <2>1
<1>7. /\ g \in [1..(m + 2) -> Int]
      /\ g[1] = k
      /\ \A i \in 1..(m + 2) : i # 1 => g[i] = f[i - 1]
  BY <1>1, <1>3, <1>5
<1> HIDE DEF g
<1>8. g[m + 2] = 0
  BY <1>3, <1>4, <1>7
<1>9. ASSUME NEW i \in 1..(m + 1)
      PROVE  /\ g[i] = g[i + 1] + Weight(e[i])
             /\ e[i].at \in StatementLevel => g[i] = 0
  <2>1. i \in 1..(m + 2) /\ i + 1 \in 1..(m + 2) /\ i + 1 # 1 /\ i + 1 - 1 = i
    BY <1>3
  <2>2. CASE i = 1
    <3>1. g[1] = k /\ g[1 + 1] = f[1]
      BY <1>7, <2>1, <2>2
    <3> QED
      BY <1>2, <1>3, <2>2, <3>1
  <2>3. CASE i # 1
    <3>1. i - 1 \in 1..m /\ e[i] = c[i - 1] /\ i - 1 + 1 = i
      BY <1>3, <2>3
    <3>2. g[i] = f[i - 1] /\ g[i + 1] = f[i]
      BY <1>7, <2>1, <2>3
    <3>3. f[i - 1] = f[i] + Weight(c[i - 1])
      BY <1>4, <3>1
    <3> QED
      BY <1>4, <3>1, <3>2, <3>3
  <2> QED
    BY <2>2, <2>3
<1>10. Sums(e, g)
  <2>1. Len(e) + 1 = m + 2
    BY <1>3
  <2> QED
    BY <1>3, <1>7, <1>8, <1>9, <2>1 DEF Sums
<1>11. Depth(e, k) /\ e \in ListOf(Item)
  BY <1>3, <1>7, <1>10 DEF Depth, ListOf
<1> QED
  BY <1>1, <1>11 DEF Before

\* the C stack without its innermost piece
LEMMA DepthTop ==
  ASSUME Inv, DepthInv
  PROVE  /\ Kept \in Int /\ Weight(Top) \in Int /\ Kept - Weight(Top) \in Int
         /\ Depth(Tail(ctl), Kept - Weight(Top))
         /\ Tail(ctl) \in ListOf(Item) /\ Tail(ctl) \in Seq(Item)
         /\ Top.at \in StatementLevel => Kept = 0 /\ Weight(Top) = 0
<1>1. ctl \in Seq(Item) /\ ctl # <<>> /\ ctl[1] = Top /\ Top \in Item /\ Tail(ctl) \in Seq(Item)
  BY StackFacts
<1>2. /\ Kept \in Int /\ Depth(Tail(ctl), Kept - Weight(Top))
      /\ Top.at \in StatementLevel => Kept = 0
  BY <1>1, DepthPop DEF DepthInv
<1>3. Weight(Top) \in Int
  BY <1>1, WeightType
<1>4. Top.at \in StatementLevel => Weight(Top) = 0
  <2>1. \A a \in StatementLevel : a \notin Weighing
    BY DEF StatementLevel, FileLevel, Between, LoopAt, Testing, Weighing
  <2> QED
    BY <1>1, <2>1, WeightType
<1> QED
  BY <1>1, <1>2, <1>3, <1>4 DEF ListOf

LEMMA CalmWeightless ==
  ASSUME NEW p, NEW a, Calm(p, a), NEW d, a \in StatementLevel => d = 0
  PROVE  Weightless(p, d)
<1>1. \A i \in DOMAIN p : /\ p[i] \in Item /\ p[i].at \notin Weighing
                          /\ p[i].at \in StatementLevel => a \in StatementLevel
  BY DEF Calm, Fits, Laden
<1>2. \A i \in DOMAIN p : Weight(p[i]) = 0
  BY <1>1, WeightType
<1> QED
  BY <1>1, <1>2 DEF Calm, Weightless

\* calm pieces take the place of the innermost one
LEMMA DepthCalm ==
  ASSUME Inv, DepthInv, NEW p, Goto(p), Calm(p, Top.at)
  PROVE  Depth(ctl', Kept - Weight(Top))
<1> PICK d, t : d = Kept - Weight(Top) /\ t = Tail(ctl)
  OBVIOUS
<1>1. /\ d \in Int /\ Depth(t, d) /\ t \in Seq(Item)
      /\ Top.at \in StatementLevel => d = 0
  BY DepthTop
<1>2. Weightless(p, d)
  BY <1>1, CalmWeightless
<1>3. Depth(p \o t, d)
  BY <1>1, <1>2, DepthWeightless
<1> QED
  BY <1>3 DEF Goto

\* a piece with calm ones around it does
LEMMA DepthPushed ==
  ASSUME Inv, DepthInv, NEW x \in Item, Pushed(x),
         x.at \in StatementLevel => Top.at \in StatementLevel,
         Top.at \in StatementLevel => Weight(x) = 0
  PROVE  Depth(ctl', (Kept - Weight(Top)) + Weight(x))
<1> PICK d, t, k : d = Kept - Weight(Top) /\ t = Tail(ctl) /\ k = d + Weight(x)
  OBVIOUS
<1>0. Weight(x) \in Int
  BY WeightType
<1>1. /\ d \in Int /\ Depth(t, d) /\ t \in Seq(Item)
      /\ Top.at \in StatementLevel => d = 0
  BY DepthTop
<1>2. k \in Int /\ (Top.at \in StatementLevel => k = 0)
  BY <1>0, <1>1
<1>3. PICK q, r : /\ Calm(q, Top.at) /\ Calm(r, Top.at)
                  /\ ctl' = q \o Before(x, r \o t)
  BY PushedAt
<1>4. Weightless(r, d) /\ Weightless(q, k)
  BY <1>1, <1>2, <1>3, CalmWeightless
<1> PICK c, e : c = r \o t /\ e = Before(x, r \o t)
  OBVIOUS
<1>5. Depth(c, d)
  BY <1>1, <1>4, DepthWeightless
<1>6. c \in ListOf(Item)
  BY <1>1, <1>3, Concatenated DEF Calm, ListOf
<1>7. Depth(e, k) /\ e \in ListOf(Item)
  <2>1. Depth(Before(x, c), k) /\ Before(x, c) \in ListOf(Item)
    BY <1>1, <1>2, <1>5, <1>6, DepthOne
  <2> QED
    BY <2>1
<1>8. e \in Seq(Item)
  BY <1>7 DEF ListOf
<1>9. Depth(q \o e, k)
  BY <1>2, <1>4, <1>7, <1>8, DepthWeightless
<1> QED
  BY <1>3, <1>9

\* the words pushed by a step are those the pieces it leaves stand for
LEMMA DepthStep ==
  ASSUME Inv, DepthInv, NEW k \in Int, Depth(ctl', (Kept - Weight(Top)) + k),
         UNCHANGED unpopped, sp' = sp + Weight(Top) - k
  PROVE  DepthInv'
<1>1. sp \in Int /\ Weight(Top) \in Int /\ unpopped \in Nat /\ Word \in Nat
  BY TopType, DepthTop
<1> PICK m : m = Word * unpopped
  OBVIOUS
<1>2. m \in Int
  BY <1>1
<1>3. (0 - sp') - m = (((0 - sp) - m) - Weight(Top)) + k
  BY <1>1, <1>2
<1>4. Kept' = (Kept - Weight(Top)) + k
  BY <1>3 DEF Kept
<1> QED
  BY <1>4 DEF DepthInv

LEMMA DepthSame ==
  ASSUME Inv, DepthInv, Depth(ctl', Kept - Weight(Top)), UNCHANGED unpopped,
         sp' = sp + Weight(Top)
  PROVE  DepthInv'
<1> PICK k \in Int : k = 0
  OBVIOUS
<1>1. Kept \in Int /\ Weight(Top) \in Int /\ sp \in Int
  BY TopType, DepthTop
<1>2. (Kept - Weight(Top)) + k = Kept - Weight(Top) /\ sp + Weight(Top) - k = sp + Weight(Top)
  BY <1>1
<1> QED
  BY <1>2, DepthStep

LEMMA QuietDepth ==
  ASSUME Inv, DepthInv, QuietActions
  PROVE  DepthInv'
<1>1. /\ Quiet /\ Top.at \notin Laden
      /\ UNCHANGED <<sp, unpopped>> \/ (At("funcOpen") /\ sp' = 0 /\ unpopped' = 0)
  BY QuietMoves, QuietData DEF Quiet
<1>2. Weight(Top) = 0 /\ Kept \in Int /\ sp \in Int
  BY <1>1, StackFacts, WeightType, DepthTop, TopType DEF Laden
<1>3. Depth(ctl', Kept)
  <2>1. CASE UNCHANGED ctl
    BY <2>1 DEF DepthInv
  <2>2. ASSUME NEW p, Goto(p), Calm(p, Top.at)
        PROVE  Depth(ctl', Kept)
    <3>1. Kept - Weight(Top) = Kept
      BY <1>2
    <3> QED
      BY <2>2, <3>1, DepthCalm
  <2> QED
    BY <1>1, <2>1, <2>2 DEF Quiet
<1>4. CASE UNCHANGED <<sp, unpopped>>
  BY <1>3, <1>4 DEF DepthInv, Kept
<1>5. CASE At("funcOpen") /\ sp' = 0 /\ unpopped' = 0
  <2>1. Top.at \in StatementLevel
    BY <1>5 DEF At, Top, StatementLevel, Between
  <2>2. Kept = 0
    BY <2>1, DepthTop
  <2>3. (0 - sp') - Word * unpopped' = 0
    BY <1>5, BoundsAssumption
  <2>4. Kept' = 0 /\ ~(unpopped' > 0)
    BY <1>5, <2>3 DEF Kept
  <2> QED
    BY <1>3, <2>2, <2>4 DEF DepthInv
<1> QED
  BY <1>1, <1>4, <1>5

LEMMA ReturnDepth ==
  ASSUME Inv, DepthInv, Goto(<<>>)
  PROVE  Depth(ctl', Kept - Weight(Top))
BY CalmShort, DepthCalm

LEMMA WeighingDepth ==
  ASSUME Inv, DepthInv, WeighingActions
  PROVE  DepthInv'
<1>1. Weighs /\ Top.at \in {"assign", "level", "pop", "postfix", "args", "arg", "call"}
  BY WeighingMoves
<1>2. Top.at \notin StatementLevel
  BY <1>1 DEF StatementLevel, FileLevel, Between, LoopAt, Testing
<1>3. \A a \in Weighing : a \notin StatementLevel
  BY DEF StatementLevel, FileLevel, Between, LoopAt, Testing, Weighing
<1>4. ASSUME NEW x \in Item, Pushed(x), x.at \in Weighing, UNCHANGED unpopped,
             sp' = sp + Weight(Top) - Weight(x)
      PROVE  DepthInv'
  <2>1. Depth(ctl', (Kept - Weight(Top)) + Weight(x)) /\ Weight(x) \in Int
    BY <1>2, <1>3, <1>4, DepthPushed, WeightType
  <2> QED
    BY <1>4, <2>1, DepthStep
<1>5. CASE Goto(<<>>) /\ sp' = sp + Weight(Top) /\ UNCHANGED unpopped
  BY <1>5, ReturnDepth, DepthSame
<1>6. CASE /\ Goto(<<>>) /\ UNCHANGED sp /\ unpopped' = unpopped + Top.n
           /\ Top.at = "call" /\ Top.n > RegArgs
  <2>1. Depth(ctl', Kept - Weight(Top))
    BY <1>6, ReturnDepth
  <2>2. Weight(Top) = Word * Top.n /\ Top.n \in Nat /\ Top.n <= MaxArgs
    BY <1>6, StackFacts, WeightType DEF Weighing, Sound
  <2>3. Word \in Nat /\ unpopped \in Nat /\ sp \in Int /\ RegArgs \in Nat /\ MaxArgs \in Nat
    BY TopType, BoundsAssumption
  <2>4. \A a, b, c \in Nat : a * (b + c) = a * b + a * c /\ a * b \in Nat /\ a * c \in Nat
    OBVIOUS
  <2> PICK m, w : m = Word * unpopped /\ w = Word * Top.n
    OBVIOUS
  <2>5. Word * unpopped' = m + w /\ m \in Nat /\ w \in Nat
    BY <1>6, <2>2, <2>3, <2>4, SMTT(30)
  <2>6. (0 - sp) - (m + w) = ((0 - sp) - m) - w
    BY <2>3, <2>5
  <2>7. Kept' = Kept - Weight(Top)
    BY <1>6, <2>2, <2>5, <2>6 DEF Kept
  <2>8. MaxArgs > RegArgs
    BY <1>6, <2>2, <2>3
  <2> QED
    BY <2>1, <2>7, <2>8 DEF DepthInv
<1>7. CASE UNCHANGED <<ctl, sp, unpopped>>
  BY <1>7 DEF DepthInv, Kept
<1> QED
  BY <1>1, <1>4, <1>5, <1>6, <1>7 DEF Weighs

\* a piece without words takes the place of one without
LEMMA LightDepth ==
  ASSUME Inv, DepthInv, Top.at \notin Weighing, UNCHANGED <<sp, unpopped>>,
         \/ Goto(<<>>)
         \/ \E x \in Item : /\ Pushed(x) /\ x.at \notin Weighing
                            /\ x.at \in StatementLevel => Top.at \in StatementLevel
         \/ Depth(ctl', Kept)
  PROVE  DepthInv'
<1>1. Weight(Top) = 0 /\ Kept \in Int
  BY StackFacts, WeightType, DepthTop
<1>2. Kept - Weight(Top) = Kept
  BY <1>1
<1>3. CASE Goto(<<>>)
  BY <1>2, <1>3, ReturnDepth DEF DepthInv, Kept
<1>4. ASSUME NEW x \in Item, Pushed(x), x.at \notin Weighing,
             x.at \in StatementLevel => Top.at \in StatementLevel
      PROVE  Depth(ctl', Kept)
  <2>1. Weight(x) = 0
    BY <1>4, WeightType
  <2>2. Depth(ctl', (Kept - Weight(Top)) + Weight(x))
    BY <1>4, <2>1, DepthPushed
  <2>3. (Kept - Weight(Top)) + Weight(x) = Kept
    BY <1>1, <2>1
  <2> QED
    BY <2>2, <2>3
<1>5. CASE Depth(ctl', Kept)
  BY <1>5 DEF DepthInv, Kept
<1> QED
  BY <1>3, <1>4, <1>5

LEMMA LabellingDepth ==
  ASSUME Inv, DepthInv, LabellingActions
  PROVE  DepthInv'
<1>0. /\ \A a \in {"level", "orEnd", "andEnd", "ifTest", "ifElse", "ifEnd", "whileTest", "forTest",
                   "break", "continue"} : a \notin Weighing
      /\ \A a \in {"orEnd", "andEnd"} : a \notin StatementLevel
      /\ \A a \in {"ifTest", "ifElse"} : a \in StatementLevel
  BY DEF Weighing, StatementLevel, FileLevel, Between, LoopAt, Testing
<1>1. CASE ShortCircuit
  BY <1>0, <1>1, ShortCircuitMoves, LightDepth DEF LabelPieces
<1>2. CASE ShortCircuitEnd \/ IfEnd \/ WhileTest \/ ForTest \/ LeaveLoop
  BY <1>0, <1>2, ShortCircuitEndMoves, IfEndMoves, TestMoves, LeaveMoves, LightDepth
<1>3. CASE IfTest
  BY <1>0, <1>3, IfTestMoves, LightDepth DEF LabelPieces
<1>4. CASE IfElse
  BY <1>0, <1>4, IfElseMoves, LightDepth DEF LabelPieces
<1> QED
  BY <1>1, <1>2, <1>3, <1>4 DEF LabellingActions

LEMMA LoopDepth ==
  ASSUME Inv, DepthInv, LoopActions
  PROVE  DepthInv'
<1>0. /\ \A a \in {"whileHead", "whileEnd", "forLoop", "forSkip", "whileTest", "forTest", "forTail",
                   "expr", "stmt", "expect"} : a \notin Weighing
      /\ \A a \in {"whileHead", "whileEnd", "forLoop", "forSkip"} : a \in StatementLevel
  BY DEF Weighing, StatementLevel, FileLevel, Between, LoopAt, Testing
<1> PICK z \in Int : z = 0
  OBVIOUS
<1>1. /\ It("expr") \in Item /\ It("stmt") \in Item /\ Expect(";") \in Item
      /\ It("expr").at = "expr" /\ It("stmt").at = "stmt" /\ Expect(";").at = "expect"
  BY ShortItems DEF It, Expect, With, Piece
<1>2. ASSUME NEW x \in Item, x.at \notin Weighing, NEW c, c \in ListOf(Item), Depth(c, z)
      PROVE  Depth(Before(x, c), z) /\ Before(x, c) \in ListOf(Item)
  <2>1. z = z + Weight(x)
    BY <1>2, WeightType
  <2> QED
    BY <1>2, <2>1, DepthOne
<1>3. ASSUME Top.at \in {"whileHead", "whileEnd", "forLoop", "forSkip"}
      PROVE  Depth(Tail(ctl), z) /\ Tail(ctl) \in ListOf(Item) /\ Kept = z /\ Top.at \notin Weighing
  <2>1. Kept = 0 /\ Weight(Top) = 0 /\ Depth(Tail(ctl), Kept - Weight(Top))
    BY <1>0, <1>3, DepthTop
  <2>2. Kept - Weight(Top) = z
    BY <2>1
  <2> QED
    BY <1>0, <1>3, <2>1, <2>2, DepthTop
<1>4. CASE WhileHead
  <2>1. PICK test, end \in Item :
          /\ test.at = "whileTest" /\ end.at = "whileEnd" /\ Top.at = "whileHead"
          /\ ctl' = Before(It("expr"), Before(test, Before(It("stmt"), Before(end, Tail(ctl)))))
          /\ UNCHANGED <<sp, unpopped>>
    BY <1>4, WhileHeadMoves DEF LabelPieces, LoopPiece
  <2> PICK u, v, w : /\ w = Before(end, Tail(ctl)) /\ v = Before(It("stmt"), w)
                     /\ u = Before(test, v)
    OBVIOUS
  <2>2. Depth(w, z) /\ w \in ListOf(Item)
    BY <1>0, <1>2, <1>3, <2>1
  <2>3. Depth(v, z) /\ v \in ListOf(Item)
    BY <1>0, <1>1, <1>2, <2>2
  <2>4. Depth(u, z) /\ u \in ListOf(Item)
    BY <1>0, <1>2, <2>1, <2>3
  <2>5. Depth(Before(It("expr"), u), z)
    BY <1>0, <1>1, <1>2, <2>4
  <2>6. Depth(ctl', Kept)
    BY <1>3, <2>1, <2>5
  <2> QED
    BY <1>3, <2>1, <2>6, LightDepth
<1>5. CASE WhileEnd
  BY <1>0, <1>5, WhileEndMoves, LightDepth
<1>6. CASE ForLoop
  <2>1. PICK test, end \in Item :
          /\ test.at = "forTest" /\ end.at = "forSkip" /\ Top.at = "forLoop"
          /\ \/ ctl' = Before(Expect(";"), Before(end, Tail(ctl)))
             \/ ctl' = Before(It("expr"), Before(test, Before(Expect(";"), Before(end, Tail(ctl)))))
          /\ UNCHANGED <<sp, unpopped>>
    BY <1>6, ForLoopMoves DEF LabelPieces, LoopPiece
  <2> PICK u, v, w : /\ w = Before(end, Tail(ctl)) /\ v = Before(Expect(";"), w)
                     /\ u = Before(test, v)
    OBVIOUS
  <2>2. Depth(w, z) /\ w \in ListOf(Item)
    BY <1>0, <1>2, <1>3, <2>1
  <2>3. Depth(v, z) /\ v \in ListOf(Item)
    BY <1>0, <1>1, <1>2, <2>2
  <2>4. Depth(u, z) /\ u \in ListOf(Item)
    BY <1>0, <1>2, <2>1, <2>3
  <2>5. Depth(Before(It("expr"), u), z)
    BY <1>0, <1>1, <1>2, <2>4
  <2>6. Depth(ctl', Kept)
    BY <1>3, <2>1, <2>3, <2>5
  <2> QED
    BY <1>3, <2>1, <2>6, LightDepth
<1>7. CASE ForSkip
  <2>1. PICK end \in Item :
          /\ end.at = "forTail" /\ Top.at = "forSkip"
          /\ ctl' = Before(It("stmt"), Before(end, Tail(ctl)))
          /\ UNCHANGED <<sp, unpopped>>
    BY <1>7, ForSkipMoves DEF LabelPieces, LoopPiece
  <2> PICK w : w = Before(end, Tail(ctl))
    OBVIOUS
  <2>2. Depth(w, z) /\ w \in ListOf(Item)
    BY <1>0, <1>2, <1>3, <2>1
  <2>3. Depth(Before(It("stmt"), w), z)
    BY <1>0, <1>1, <1>2, <2>2
  <2>4. Depth(ctl', Kept)
    BY <1>3, <2>1, <2>3
  <2> QED
    BY <1>3, <2>1, <2>4, LightDepth
<1> QED
  BY <1>4, <1>5, <1>6, <1>7 DEF LoopActions

LEMMA DepthInit == Init => DepthInv
<1> SUFFICES ASSUME Init PROVE DepthInv
  OBVIOUS
<1> PICK x : x = It("start")
  OBVIOUS
<1>1. ctl = <<x>> /\ sp = 0 /\ unpopped = 0
  BY DEF Init
<1>2. x \in Item /\ x.at = "start"
  BY TokenConstants DEF It, Piece, Item, Places, Types
<1>3. Len(ctl) = 1 /\ DOMAIN ctl = {1} /\ ctl[1] = x
  BY ONLY <1>1
<1>4. Weight(x) = 0
  BY <1>2 DEF Weight, Weighing
<1> DEFINE f == [i \in 1..2 |-> 0]
<1>5. f \in [1..(1 + 1) -> Int] /\ f[1 + 1] = 0 /\ f[1] = 0 /\ f[1] = f[1 + 1] + 0
  OBVIOUS
<1> HIDE DEF f
<1>6. Sums(ctl, f)
  BY <1>3, <1>4, <1>5 DEF Sums
<1>7. Kept = 0
  <2>1. Word * 0 = 0
    BY BoundsAssumption
  <2>2. Kept = (0 - 0) - 0
    BY <1>1, <2>1 DEF Kept
  <2> QED
    BY <2>2
<1>8. Depth(ctl, Kept)
  BY <1>5, <1>6, <1>7 DEF Depth
<1> QED
  BY <1>1, <1>8 DEF DepthInv

LEMMA DepthNext ==
  ASSUME Inv, DepthInv, [Next]_vars
  PROVE  DepthInv'
<1>1. CASE UNCHANGED vars
  BY <1>1 DEF vars, DepthInv, Kept
<1>2. CASE ErrorExit \/ Stopped
  BY <1>2 DEF ErrorExit, Stopped, vars, DepthInv, Kept
<1> QED
  BY <1>1, <1>2, QuietDepth, WeighingDepth, LabellingDepth, LoopDepth, NextActions

LEMMA DepthGives ==
  ASSUME Inv, DepthInv
  PROVE  StackBalanced
<1>1. sp \in Int /\ Word \in Nat /\ unpopped \in Nat
  BY TopType
<1> PICK m : m = Word * unpopped
  OBVIOUS
<1>2. m \in Nat
  BY <1>1
<1>3. ASSUME Top.at \in StatementLevel
      PROVE  sp = -(Word * unpopped)
  <2>1. (0 - sp) - m = 0
    BY <1>3, DepthTop DEF Kept
  <2>2. sp = -m
    BY <1>1, <1>2, <2>1
  <2> QED
    BY <2>2
<1>4. \A a \in {"stmt", "body", "block"} : a \in StatementLevel
  BY DEF StatementLevel, Between
<1>5. AtAny({"stmt", "body", "block"}) => sp = -(Word * unpopped)
  BY <1>3, <1>4 DEF AtAny, Top
<1> QED
  BY <1>5 DEF StackBalanced, DepthInv

LEMMA DepthAlways == Spec => [](Inv /\ DepthInv)
BY Invariant, DepthInit, DepthNext, PTL DEF Spec

\* For every file, however its expressions nest: every push is popped, except for the arguments of
\* calls with more of them than there are registers, which all stay on the stack.
THEOREM BalanceCorrect == Spec => []StackBalanced
BY DepthAlways, DepthGives, PTL
-----------------------------------------------------------------------------
(* The labels.  The pieces that still have to emit a label hold the numbers drawn *)
(* for them, the innermost the highest.                                           *)

\* the labels a piece holds; a while statement has emitted the first of its two
LabelsOf(x) == IF x.at \in {"ifElse", "ifEnd"} THEN {x.l1}
               ELSE IF x.at \in Owing THEN {x.l1, x.l2} ELSE {}
HeadOf(x) == IF x.at = "whileEnd" THEN {x.l1} ELSE {}
OwedBy(x) == LabelsOf(x) \ HeadOf(x)
TwoLabels(x) == x.at \in Owing \ {"ifElse", "ifEnd"} => x.l1 # x.l2

OwedIn(c) == UNION {OwedBy(c[i]) : i \in DOMAIN c}
HeadsIn(c) == UNION {HeadOf(c[i]) : i \in DOMAIN c}

SortedIn(c) ==
  \A i, j \in DOMAIN c : i < j => \A a \in LabelsOf(c[i]), b \in LabelsOf(c[j]) : b < a
\* the test of a loop jumps to its end
TestsIn(c) ==
  \A i \in DOMAIN c : c[i].at \in Testing => \E j \in DOMAIN c : i < j /\ c[i].l2 \in OwedBy(c[j])
\* no statement is open below the pieces of program()
LevelledIn(c) ==
  \A i, j \in DOMAIN c : i < j /\ c[i].at \in FileLevel => c[j].at \notin Owing
Nested(c) == /\ \A i \in DOMAIN c : TwoLabels(c[i])
             /\ SortedIn(c) /\ TestsIn(c) /\ LevelledIn(c)

LabelInv == Nested(ctl) /\ Labelling(code, lab, OwedIn(ctl), HeadsIn(ctl), {})

\* a C stack that owes the labels o and has the heads h
Carries(c, o, h) == c \in ListOf(Item) /\ Nested(c) /\ OwedIn(c) = o /\ HeadsIn(c) = h

LEMMA LabelSets ==
  ASSUME NEW x
  PROVE  /\ LabelsOf(x) = OwedBy(x) \cup HeadOf(x)
         /\ x.at \notin Owing => LabelsOf(x) = {} /\ OwedBy(x) = {} /\ HeadOf(x) = {}
         /\ x.at \in {"ifElse", "ifEnd"} => /\ LabelsOf(x) = {x.l1} /\ OwedBy(x) = {x.l1}
                                            /\ HeadOf(x) = {}
         /\ x.at \in {"orEnd", "andEnd", "forSkip", "forTail"} =>
              LabelsOf(x) = {x.l1, x.l2} /\ OwedBy(x) = {x.l1, x.l2} /\ HeadOf(x) = {}
         /\ x.at = "whileEnd" => LabelsOf(x) = {x.l1, x.l2} /\ HeadOf(x) = {x.l1}
         /\ x.at = "whileEnd" /\ TwoLabels(x) => OwedBy(x) = {x.l2}
<1>1. /\ x.at \in {"ifElse", "ifEnd"} => LabelsOf(x) = {x.l1} /\ x.at # "whileEnd"
      /\ x.at \in {"orEnd", "andEnd", "forSkip", "forTail"} =>
           LabelsOf(x) = {x.l1, x.l2} /\ x.at # "whileEnd"
      /\ x.at = "whileEnd" => LabelsOf(x) = {x.l1, x.l2}
      /\ x.at \notin Owing => LabelsOf(x) = {} /\ x.at # "whileEnd"
  BY DEF LabelsOf, Owing, LoopAt
<1>2. HeadOf(x) = (IF x.at = "whileEnd" THEN {x.l1} ELSE {})
  BY DEF HeadOf
<1>3. x.at = "whileEnd" /\ TwoLabels(x) => x.l1 # x.l2
  BY DEF TwoLabels, Owing, LoopAt
<1>4. LabelsOf(x) = OwedBy(x) \cup HeadOf(x)
  BY <1>1, <1>2 DEF OwedBy
<1> QED
  BY <1>1, <1>2, <1>3, <1>4 DEF OwedBy

LEMMA LabelNumbers ==
  ASSUME NEW x \in Item
  PROVE  \A l \in LabelsOf(x) : l \in Nat
BY DEF LabelsOf, Item

\* the innermost piece returns
LEMMA LabelsPop ==
  ASSUME NEW c \in Seq(Item), c # <<>>, Nested(c)
  PROVE  \E o, h : /\ Carries(Tail(c), o, h)
                   /\ OwedIn(c) = o \cup OwedBy(c[1]) /\ HeadsIn(c) = h \cup HeadOf(c[1])
                   /\ \A l \in o \cup h : \A a \in LabelsOf(c[1]) : l < a
                   /\ c[1].at \in FileLevel => o = {} /\ h = {}
                   /\ c[1].at \in Testing => c[1].l2 \in o
                   /\ TwoLabels(c[1])
<1> PICK d : d = Tail(c)
  OBVIOUS
<1>1. /\ d \in Seq(Item) /\ 1 \in DOMAIN c
      /\ \A i \in DOMAIN d : /\ i \in Nat /\ i >= 1 /\ 1 < i + 1
                             /\ i + 1 \in DOMAIN c /\ d[i] = c[i + 1]
      /\ \A i \in DOMAIN c : i # 1 => /\ i \in Nat /\ 1 < i /\ i - 1 + 1 = i
                                      /\ i - 1 \in DOMAIN d /\ d[i - 1] = c[i]
      /\ \A i, j \in DOMAIN d : i < j => i + 1 < j + 1
  BY TailIndex
<1>2. SortedIn(d) /\ \A i \in DOMAIN d : TwoLabels(d[i])
  BY <1>1 DEF Nested, SortedIn
<1>3. TestsIn(d)
  <2> SUFFICES ASSUME NEW i \in DOMAIN d, d[i].at \in Testing
               PROVE  \E j \in DOMAIN d : i < j /\ d[i].l2 \in OwedBy(d[j])
    BY DEF TestsIn
  <2>1. PICK j \in DOMAIN c : i + 1 < j /\ d[i].l2 \in OwedBy(c[j])
    BY <1>1 DEF Nested, TestsIn
  <2>2. j # 1 /\ i < j - 1
    BY <1>1, <2>1
  <2> QED
    BY <1>1, <2>1, <2>2
<1>4. LevelledIn(d)
  BY <1>1 DEF Nested, LevelledIn
<1>5. OwedIn(c) = OwedIn(d) \cup OwedBy(c[1])
  <2>1. ASSUME NEW l \in OwedIn(c) PROVE l \in OwedIn(d) \cup OwedBy(c[1])
    BY <1>1 DEF OwedIn
  <2>2. ASSUME NEW l \in OwedIn(d) \cup OwedBy(c[1]) PROVE l \in OwedIn(c)
    BY <1>1 DEF OwedIn
  <2> QED
    BY <2>1, <2>2
<1>6. HeadsIn(c) = HeadsIn(d) \cup HeadOf(c[1])
  <2>1. ASSUME NEW l \in HeadsIn(c) PROVE l \in HeadsIn(d) \cup HeadOf(c[1])
    BY <1>1 DEF HeadsIn
  <2>2. ASSUME NEW l \in HeadsIn(d) \cup HeadOf(c[1]) PROVE l \in HeadsIn(c)
    BY <1>1 DEF HeadsIn
  <2> QED
    BY <2>1, <2>2
<1>7. \A l \in OwedIn(d) \cup HeadsIn(d) : \E i \in DOMAIN d : l \in LabelsOf(d[i])
  BY LabelSets DEF OwedIn, HeadsIn
<1>8. ASSUME NEW l \in OwedIn(d) \cup HeadsIn(d), NEW a \in LabelsOf(c[1])
      PROVE  l < a
  <2>1. PICK i \in DOMAIN d : l \in LabelsOf(d[i])
    BY <1>7
  <2> QED
    BY <1>1, <2>1 DEF Nested, SortedIn
<1>9. ASSUME c[1].at \in FileLevel
      PROVE  OwedIn(d) = {} /\ HeadsIn(d) = {}
  <2>1. \A i \in DOMAIN d : d[i].at \notin Owing
    BY <1>1, <1>9 DEF Nested, LevelledIn
  <2>2. \A i \in DOMAIN d : LabelsOf(d[i]) = {}
    BY <2>1, LabelSets
  <2> QED
    BY <1>7, <2>2
<1>10. ASSUME c[1].at \in Testing
       PROVE  c[1].l2 \in OwedIn(d)
  <2>1. PICK j \in DOMAIN c : 1 < j /\ c[1].l2 \in OwedBy(c[j])
    BY <1>1, <1>10 DEF Nested, TestsIn
  <2>2. j # 1
    BY <2>1
  <2> QED
    BY <1>1, <2>1, <2>2, SMTT(30) DEF OwedIn
<1>11. Carries(d, OwedIn(d), HeadsIn(d)) /\ TwoLabels(c[1])
  BY <1>1, <1>2, <1>3, <1>4 DEF Carries, Nested, ListOf
<1> QED
  BY <1>5, <1>6, <1>8, <1>9, <1>10, <1>11

\* a piece is put on the stack
LEMMA LabelsOne ==
  ASSUME NEW c, NEW o, NEW h, Carries(c, o, h), NEW x \in Item, TwoLabels(x),
         \A l \in o \cup h : \A a \in LabelsOf(x) : l < a,
         x.at \in FileLevel => o = {} /\ h = {},
         x.at \in Testing => x.l2 \in o
  PROVE  Carries(Before(x, c), o \cup OwedBy(x), h \cup HeadOf(x))
<1> PICK d : d = <<x>> \o c
  OBVIOUS
<1>0. c \in Seq(Item) /\ Nested(c) /\ OwedIn(c) = o /\ HeadsIn(c) = h
  BY DEF Carries, ListOf
<1>1. /\ d \in Seq(Item) /\ 1 \in DOMAIN d /\ d[1] = x
      /\ \A i \in DOMAIN c : i \in Nat /\ i >= 1 /\ i + 1 \in DOMAIN d /\ d[i + 1] = c[i]
      /\ \A i \in DOMAIN d : /\ i \in Nat /\ i >= 1
                             /\ i # 1 => i > 1 /\ i - 1 \in DOMAIN c /\ d[i] = c[i - 1]
  BY <1>0, ConsIndex
<1>2. \A i, j \in DOMAIN d : i < j => /\ j # 1 /\ j - 1 \in DOMAIN c /\ d[j] = c[j - 1]
                                      /\ i # 1 => i - 1 < j - 1
  BY <1>1
<1>3. \A i \in DOMAIN c : \A l \in LabelsOf(c[i]) : l \in o \cup h
  BY <1>0, LabelSets DEF OwedIn, HeadsIn
<1>4. SortedIn(d)
  <2> SUFFICES ASSUME NEW i \in DOMAIN d, NEW j \in DOMAIN d, i < j,
                      NEW a \in LabelsOf(d[i]), NEW b \in LabelsOf(d[j])
               PROVE  b < a
    BY DEF SortedIn
  <2>1. j - 1 \in DOMAIN c /\ b \in LabelsOf(c[j - 1])
    BY <1>2
  <2>2. CASE i = 1
    BY <1>1, <1>3, <2>1, <2>2
  <2>3. CASE i # 1
    <3>1. i - 1 \in DOMAIN c /\ d[i] = c[i - 1] /\ i - 1 < j - 1
      BY <1>1, <1>2, <2>3
    <3> QED
      BY <1>0, <2>1, <3>1 DEF Nested, SortedIn
  <2> QED
    BY <2>2, <2>3
<1>5. TestsIn(d)
  <2> SUFFICES ASSUME NEW i \in DOMAIN d, d[i].at \in Testing
               PROVE  \E j \in DOMAIN d : i < j /\ d[i].l2 \in OwedBy(d[j])
    BY DEF TestsIn
  <2>1. CASE i = 1
    <3>1. PICK j \in DOMAIN c : x.l2 \in OwedBy(c[j])
      BY <1>0, <1>1, <2>1 DEF OwedIn
    <3>2. j + 1 \in DOMAIN d /\ d[j + 1] = c[j] /\ 1 < j + 1
      BY <1>1
    <3> QED
      BY <1>1, <2>1, <3>1, <3>2
  <2>2. CASE i # 1
    <3>1. i - 1 \in DOMAIN c /\ d[i] = c[i - 1]
      BY <1>1, <2>2
    <3>2. PICK j \in DOMAIN c : i - 1 < j /\ d[i].l2 \in OwedBy(c[j])
      BY <1>0, <3>1 DEF Nested, TestsIn
    <3>3. j + 1 \in DOMAIN d /\ d[j + 1] = c[j] /\ i < j + 1
      BY <1>1, <3>2
    <3> QED
      BY <3>2, <3>3
  <2> QED
    BY <2>1, <2>2
<1>6. LevelledIn(d)
  <2> SUFFICES ASSUME NEW i \in DOMAIN d, NEW j \in DOMAIN d, i < j, d[i].at \in FileLevel,
                      d[j].at \in Owing
               PROVE  FALSE
    BY DEF LevelledIn
  <2>1. j - 1 \in DOMAIN c /\ c[j - 1].at \in Owing
    BY <1>2
  <2>2. CASE i = 1
    <3>1. c[j - 1].l1 \in LabelsOf(c[j - 1])
      BY <2>1 DEF LabelsOf
    <3> QED
      BY <1>1, <1>3, <2>1, <2>2, <3>1
  <2>3. CASE i # 1
    <3>1. i - 1 \in DOMAIN c /\ d[i] = c[i - 1] /\ i - 1 < j - 1
      BY <1>1, <1>2, <2>3
    <3> QED
      BY <1>0, <2>1, <3>1 DEF Nested, LevelledIn
  <2> QED
    BY <2>2, <2>3
<1>7. \A i \in DOMAIN d : TwoLabels(d[i])
  BY <1>0, <1>1 DEF Nested
<1>8. OwedIn(d) = o \cup OwedBy(x)
  <2>1. ASSUME NEW l \in OwedIn(d) PROVE l \in o \cup OwedBy(x)
    BY <1>0, <1>1 DEF OwedIn
  <2>2. ASSUME NEW l \in o \cup OwedBy(x) PROVE l \in OwedIn(d)
    <3>1. \A i \in DOMAIN c : OwedBy(d[i + 1]) = OwedBy(c[i]) /\ i + 1 \in DOMAIN d
      BY <1>1
    <3>2. l \in OwedBy(x) \/ \E i \in DOMAIN c : l \in OwedBy(c[i])
      BY <1>0 DEF OwedIn
    <3>3. \E k \in DOMAIN d : l \in OwedBy(d[k])
      BY <1>1, <3>1, <3>2
    <3> QED
      BY <3>3 DEF OwedIn
  <2> QED
    BY <2>1, <2>2
<1>9. HeadsIn(d) = h \cup HeadOf(x)
  <2>1. ASSUME NEW l \in HeadsIn(d) PROVE l \in h \cup HeadOf(x)
    BY <1>0, <1>1 DEF HeadsIn
  <2>2. ASSUME NEW l \in h \cup HeadOf(x) PROVE l \in HeadsIn(d)
    <3>1. \A i \in DOMAIN c : HeadOf(d[i + 1]) = HeadOf(c[i]) /\ i + 1 \in DOMAIN d
      BY <1>1
    <3>2. l \in HeadOf(x) \/ \E i \in DOMAIN c : l \in HeadOf(c[i])
      BY <1>0 DEF HeadsIn
    <3>3. \E k \in DOMAIN d : l \in HeadOf(d[k])
      BY <1>1, <3>1, <3>2
    <3> QED
      BY <3>3 DEF HeadsIn
  <2> QED
    BY <2>1, <2>2
<1> QED
  BY <1>1, <1>4, <1>5, <1>6, <1>7, <1>8, <1>9 DEF Carries, Nested, ListOf, Before

\* a piece without labels is
LEMMA LabelsNone ==
  ASSUME NEW c, NEW o, NEW h, Carries(c, o, h), NEW x \in Item, x.at \notin Owing,
         x.at \notin FileLevel, x.at \in Testing => x.l2 \in o
  PROVE  Carries(Before(x, c), o, h)
<1>1. LabelsOf(x) = {} /\ OwedBy(x) = {} /\ HeadOf(x) = {} /\ TwoLabels(x)
  BY LabelSets DEF TwoLabels
<1>2. Carries(Before(x, c), o \cup OwedBy(x), h \cup HeadOf(x))
  BY <1>1, LabelsOne
<1>3. o \cup OwedBy(x) = o /\ h \cup HeadOf(x) = h
  BY <1>1
<1> QED
  BY <1>2, <1>3
\* calm pieces are
LEMMA LabelsCalm ==
  ASSUME NEW c, NEW o, NEW h, Carries(c, o, h), NEW p, NEW a, Calm(p, a),
         a \in FileLevel => o = {} /\ h = {}
  PROVE  Carries(p \o c, o, h)
<1> PICK d, n : d = p \o c /\ n = Len(p)
  OBVIOUS
<1>0. c \in Seq(Item) /\ Nested(c) /\ OwedIn(c) = o /\ HeadsIn(c) = h /\ p \in Seq(Item)
  BY DEF Carries, ListOf, Calm
<1>1. /\ d \in Seq(Item) /\ n \in Nat
      /\ \A i \in DOMAIN p : i \in DOMAIN d /\ d[i] = p[i]
      /\ \A i \in DOMAIN c : n + i \in DOMAIN d /\ d[n + i] = c[i]
      /\ \A i \in DOMAIN d : \/ i \in DOMAIN p
                             \/ i > n /\ i - n \in DOMAIN c /\ d[i] = c[i - n]
  BY <1>0, Concatenated
<1>2. /\ \A i \in DOMAIN p : i \in Nat /\ i <= n
      /\ \A i \in DOMAIN d : i \in Nat
      /\ \A i \in DOMAIN c : i \in Nat /\ i >= 1
  BY <1>0, <1>1
<1>3. \A i \in DOMAIN p : /\ p[i].at \notin Owing /\ p[i].at \notin Testing
                          /\ p[i].at \in FileLevel => a \in FileLevel
                          /\ LabelsOf(p[i]) = {} /\ OwedBy(p[i]) = {} /\ HeadOf(p[i]) = {}
                          /\ TwoLabels(p[i])
  BY LabelSets DEF Calm, Fits, Laden, TwoLabels
<1>4. \A i, j \in DOMAIN d : i > n /\ i < j => i - n < j - n
  BY <1>1, <1>2
<1>5. SortedIn(d)
  <2> SUFFICES ASSUME NEW i \in DOMAIN d, NEW j \in DOMAIN d, i < j,
                      NEW e \in LabelsOf(d[i]), NEW b \in LabelsOf(d[j])
               PROVE  b < e
    BY DEF SortedIn
  <2>1. i \notin DOMAIN p /\ j \notin DOMAIN p
    BY <1>1, <1>3
  <2>2. /\ i > n /\ i - n \in DOMAIN c /\ d[i] = c[i - n]
        /\ j - n \in DOMAIN c /\ d[j] = c[j - n]
    BY <1>1, <2>1
  <2>3. i - n < j - n
    BY <1>4, <2>2
  <2> QED
    BY <1>0, <2>2, <2>3 DEF Nested, SortedIn
<1>6. TestsIn(d)
  <2> SUFFICES ASSUME NEW i \in DOMAIN d, d[i].at \in Testing
               PROVE  \E j \in DOMAIN d : i < j /\ d[i].l2 \in OwedBy(d[j])
    BY DEF TestsIn
  <2>1. i \notin DOMAIN p
    BY <1>1, <1>3
  <2>2. i > n /\ i - n \in DOMAIN c /\ d[i] = c[i - n]
    BY <1>1, <2>1
  <2>3. PICK j \in DOMAIN c : i - n < j /\ d[i].l2 \in OwedBy(c[j])
    BY <1>0, <2>2 DEF Nested, TestsIn
  <2>4. i < n + j /\ n + j \in DOMAIN d /\ d[n + j] = c[j]
    BY <1>1, <1>2, <2>3
  <2> QED
    BY <2>3, <2>4
<1>7. LevelledIn(d)
  <2> SUFFICES ASSUME NEW i \in DOMAIN d, NEW j \in DOMAIN d, i < j, d[i].at \in FileLevel,
                      d[j].at \in Owing
               PROVE  FALSE
    BY DEF LevelledIn
  <2>1. j \notin DOMAIN p
    BY <1>1, <1>3
  <2>2. j - n \in DOMAIN c /\ c[j - n].at \in Owing
    BY <1>1, <2>1
  <2>3. CASE i \in DOMAIN p
    <3>1. o = {} /\ h = {}
      BY <1>1, <1>3, <2>3
    <3>2. c[j - n].l1 \in OwedBy(c[j - n]) \cup HeadOf(c[j - n])
      BY <2>2, LabelSets DEF LabelsOf
    <3> QED
      BY <1>0, <2>2, <3>1, <3>2 DEF OwedIn, HeadsIn
  <2>4. CASE i \notin DOMAIN p
    <3>1. i > n /\ i - n \in DOMAIN c /\ d[i] = c[i - n]
      BY <1>1, <2>4
    <3>2. i - n < j - n
      BY <1>4, <3>1
    <3> QED
      BY <1>0, <2>2, <3>1, <3>2 DEF Nested, LevelledIn
  <2> QED
    BY <2>3, <2>4
<1>8. \A i \in DOMAIN d : TwoLabels(d[i])
  BY <1>0, <1>1, <1>3 DEF Nested
<1>9. ASSUME NEW l
      PROVE  /\ (\E i \in DOMAIN d : l \in OwedBy(d[i])) <=> (\E i \in DOMAIN c : l \in OwedBy(c[i]))
             /\ (\E i \in DOMAIN d : l \in HeadOf(d[i])) <=> (\E i \in DOMAIN c : l \in HeadOf(c[i]))
  <2>1. \A i \in DOMAIN d : \/ OwedBy(d[i]) = {} /\ HeadOf(d[i]) = {}
                            \/ i - n \in DOMAIN c /\ d[i] = c[i - n]
    BY <1>1, <1>3
  <2>2. \A i \in DOMAIN c : \E j \in DOMAIN d : d[j] = c[i]
    BY <1>1
  <2> QED
    BY <2>1, <2>2
<1>10. OwedIn(d) = o
  <2>1. \A l : l \in OwedIn(d) <=> l \in OwedIn(c)
    BY <1>9 DEF OwedIn
  <2> QED
    BY <1>0, <2>1
<1>11. HeadsIn(d) = h
  <2>1. \A l : l \in HeadsIn(d) <=> l \in HeadsIn(c)
    BY <1>9 DEF HeadsIn
  <2> QED
    BY <1>0, <2>1
<1> QED
  BY <1>1, <1>5, <1>6, <1>7, <1>8, <1>10, <1>11 DEF Carries, Nested, ListOf

\* a piece x in the place of the innermost one, calm ones around it
LEMMA LabelsPushed ==
  ASSUME Inv, NEW x \in Item, Pushed(x), NEW o, NEW h, Carries(Tail(ctl), o, h),
         Top.at \notin FileLevel, x.at \notin FileLevel, x.at \notin Testing, TwoLabels(x),
         \A l \in o \cup h : \A a \in LabelsOf(x) : l < a
  PROVE  Carries(ctl', o \cup OwedBy(x), h \cup HeadOf(x))
<1>1. PICK q, r : /\ Calm(q, Top.at) /\ Calm(r, Top.at)
                  /\ ctl' = q \o Before(x, r \o Tail(ctl))
  BY PushedAt
<1> PICK t, d, e : t = Tail(ctl) /\ d = r \o t /\ e = Before(x, d)
  OBVIOUS
<1>2. Carries(d, o, h)
  BY <1>1, LabelsCalm
<1>3. Carries(e, o \cup OwedBy(x), h \cup HeadOf(x))
  BY <1>2, LabelsOne
<1>4. Carries(q \o e, o \cup OwedBy(x), h \cup HeadOf(x))
  BY <1>1, <1>3, LabelsCalm
<1> QED
  BY <1>1, <1>4

LEMMA LabelsReturned ==
  ASSUME Inv, Goto(<<>>), NEW o, NEW h, Carries(Tail(ctl), o, h)
  PROVE  Carries(ctl', o, h)
<1>1. Calm(<<>>, "stmt") /\ "stmt" \notin FileLevel
  BY CalmShort DEF FileLevel
<1>2. Carries(<<>> \o Tail(ctl), o, h)
  BY <1>1, LabelsCalm
<1> QED
  BY <1>2 DEF Goto

\* the innermost piece, what is below it, and the code so far
LEMMA LabelTop ==
  ASSUME Inv, LabelInv
  PROVE  \E o, h : /\ Carries(Tail(ctl), o, h)
                   /\ Labelling(code, lab, o \cup OwedBy(Top), h \cup HeadOf(Top), {})
                   /\ Top.at \notin Owing => Labelling(code, lab, o, h, {})
                   /\ \A l \in o \cup h : l \in Nat /\ l < lab
                   /\ \A l \in o \cup h : \A a \in LabelsOf(Top) : l < a
                   /\ \A a \in LabelsOf(Top) : a \in Nat /\ a < lab
                   /\ Top.at \in FileLevel => o = {} /\ h = {}
                   /\ Top.at \in Testing => Top.l2 \in o
                   /\ TwoLabels(Top)
                   /\ OwedIn(ctl) = o \cup OwedBy(Top) /\ HeadsIn(ctl) = h \cup HeadOf(Top)
<1>1. ctl \in Seq(Item) /\ ctl # <<>> /\ Top = ctl[1] /\ Nested(ctl)
      /\ Labelling(code, lab, OwedIn(ctl), HeadsIn(ctl), {})
  BY StackFacts DEF LabelInv
<1>2. PICK o, h : /\ Carries(Tail(ctl), o, h)
                  /\ OwedIn(ctl) = o \cup OwedBy(Top) /\ HeadsIn(ctl) = h \cup HeadOf(Top)
                  /\ \A l \in o \cup h : \A a \in LabelsOf(Top) : l < a
                  /\ Top.at \in FileLevel => o = {} /\ h = {}
                  /\ Top.at \in Testing => Top.l2 \in o
                  /\ TwoLabels(Top)
  BY <1>1, LabelsPop
<1>3. \A l \in OwedIn(ctl) \cup HeadsIn(ctl) : l \in Nat /\ l < lab
  BY <1>1 DEF Labelling, Drawn
<1>4. \A l \in o \cup h \cup LabelsOf(Top) : l \in Nat /\ l < lab
  BY <1>2, <1>3, LabelSets
<1>5. Top.at \notin Owing => Labelling(code, lab, o, h, {})
  <2>1. ASSUME Top.at \notin Owing
        PROVE  o \cup OwedBy(Top) = o /\ h \cup HeadOf(Top) = h
    <3>1. OwedBy(Top) = {} /\ HeadOf(Top) = {}
      BY <2>1, LabelSets
    <3> QED
      BY <3>1
  <2> QED
    BY <1>1, <1>2, <2>1
<1> QED
  BY <1>1, <1>2, <1>4, <1>5

LEMMA LabelsMade ==
  ASSUME NEW o, NEW h, Carries(ctl', o, h), Labelling(code', lab', o, h, {})
  PROVE  LabelInv'
BY DEF Carries, LabelInv
\* the actions that owe no label, and the entries of functions
LEMMA QuietLabels ==
  ASSUME Inv, LabelInv, QuietActions
  PROVE  LabelInv'
<1>1. PICK o, h : /\ Carries(Tail(ctl), o, h)
                  /\ Top.at \notin Owing => Labelling(code, lab, o, h, {})
                  /\ Top.at \in FileLevel => o = {} /\ h = {}
                  /\ OwedIn(ctl) = o \cup OwedBy(Top) /\ HeadsIn(ctl) = h \cup HeadOf(Top)
  BY LabelTop
<1>2. /\ Quiet /\ Top.at \notin Owing
      /\ lab' = lab \/ lab' = lab + 1
      /\ code' = code \/ BeginFunction
  BY QuietMoves, QuietData DEF Quiet, Laden
<1>3. Carries(ctl', o, h)
  <2>1. CASE UNCHANGED ctl
    <3>1. OwedBy(Top) = {} /\ HeadOf(Top) = {}
      BY <1>2, LabelSets
    <3>2. OwedIn(ctl) = o /\ HeadsIn(ctl) = h
      BY <1>1, <3>1
    <3>3. Carries(ctl, o, h)
      BY <3>2, StackFacts DEF LabelInv, Carries, ListOf
    <3> QED
      BY <2>1, <3>3
  <2>2. ASSUME NEW p, Goto(p), Calm(p, Top.at)
        PROVE  Carries(ctl', o, h)
    <3>1. Carries(p \o Tail(ctl), o, h)
      BY <1>1, <2>2, LabelsCalm
    <3> QED
      BY <2>2, <3>1 DEF Goto
  <2> QED
    BY <1>2, <2>1, <2>2 DEF Quiet
<1>4. Labelling(code, lab', o, h, {})
  <2>1. Labelling(code, lab, o, h, {}) /\ lab \in Nat
    BY <1>1, <1>2, TopType
  <2>2. Labelling(code, lab + 1, o, h, {})
    BY <2>1, Draw
  <2> QED
    BY <1>2, <2>1, <2>2
<1>5. Labelling(code', lab', o, h, {})
  <2>1. CASE BeginFunction
    <3> PICK x : x = Instr("entry", 0, Top.arg)
      OBVIOUS
    <3>1. Emit(<<x>>) /\ Top.at = "progKind"
      BY <2>1 DEF BeginFunction, At, Top
    <3>2. x \in Instruction /\ x.op = "entry"
      BY TopType DEF Instr, Instruction
    <3>3. code' = Append(code, x)
      BY <3>1, <3>2, EmitType
    <3>4. o = {} /\ h = {}
      BY <1>1, <3>1 DEF FileLevel
    <3>5. code \in Seq(Instruction) /\ x.op # "label" /\ x.op \notin JumpOps
      BY <3>2, StackFacts DEF JumpOps
    <3>6. Labelling(Append(code, x), lab', o, h, {})
      BY <1>4, <3>2, <3>4, <3>5, OtherInstruction
    <3> QED
      BY <3>3, <3>6
  <2> QED
    BY <1>2, <1>4, <2>1
<1> QED
  BY <1>3, <1>5, LabelsMade

\* the actions on the words pushed
LEMMA WeighingLabels ==
  ASSUME Inv, LabelInv, WeighingActions
  PROVE  LabelInv'
<1>1. PICK o, h : /\ Carries(Tail(ctl), o, h)
                  /\ Top.at \notin Owing => Labelling(code, lab, o, h, {})
                  /\ OwedIn(ctl) = o \cup OwedBy(Top) /\ HeadsIn(ctl) = h \cup HeadOf(Top)
  BY LabelTop
<1>2. /\ Weighs /\ Top.at \notin Owing /\ Top.at \notin FileLevel
      /\ lab' = lab /\ (code' = code \/ Call)
  BY WeighingMoves DEF Owing, LoopAt, FileLevel
<1>3. Carries(ctl', o, h)
  <2>1. ASSUME NEW x \in Item, Pushed(x), x.at \in Weighing
        PROVE  Carries(ctl', o, h)
    <3>1. /\ x.at \notin Owing /\ x.at \notin FileLevel /\ x.at \notin Testing
          /\ LabelsOf(x) = {} /\ OwedBy(x) = {} /\ HeadOf(x) = {} /\ TwoLabels(x)
      BY <2>1, LabelSets DEF Weighing, Owing, LoopAt, FileLevel, Testing, TwoLabels
    <3>2. Carries(ctl', o \cup OwedBy(x), h \cup HeadOf(x))
      BY <1>1, <1>2, <2>1, <3>1, LabelsPushed
    <3>3. o \cup OwedBy(x) = o /\ h \cup HeadOf(x) = h
      BY <3>1
    <3> QED
      BY <3>2, <3>3
  <2>2. CASE Goto(<<>>)
    BY <1>1, <2>2, LabelsReturned
  <2>3. CASE UNCHANGED ctl
    <3>1. OwedBy(Top) = {} /\ HeadOf(Top) = {}
      BY <1>2, LabelSets
    <3>2. OwedIn(ctl) = o /\ HeadsIn(ctl) = h
      BY <1>1, <3>1
    <3>3. Carries(ctl, o, h)
      BY <3>2, StackFacts DEF LabelInv, Carries, ListOf
    <3> QED
      BY <2>3, <3>3
  <2> QED
    BY <1>2, <2>1, <2>2, <2>3 DEF Weighs
<1>4. Labelling(code', lab', o, h, {})
  <2>1. Labelling(code, lab', o, h, {}) /\ code \in Seq(Instruction)
    BY <1>1, <1>2, StackFacts
  <2>2. CASE Call
    <3> PICK x : x = Instr("call", 0, Top.arg)
      OBVIOUS
    <3>1. x \in Instruction /\ x.op = "call"
      BY TopType DEF Instr, Instruction
    <3>2. Emit(<<x>>)
      BY <2>2 DEF Call
    <3>3. code' = Append(code, x)
      BY <3>1, <3>2, EmitType
    <3>4. x.op # "label" /\ x.op \notin JumpOps /\ x.op # "entry"
      BY <3>1 DEF JumpOps
    <3>5. Labelling(Append(code, x), lab', o, h, {})
      BY <2>1, <3>1, <3>4, OtherInstruction
    <3> QED
      BY <3>3, <3>5
  <2> QED
    BY <1>2, <2>1, <2>2
<1> QED
  BY <1>3, <1>4, LabelsMade

\* || and &&: a jump over the right operand, to a label still to come
LEMMA ShortCircuitLabels ==
  ASSUME Inv, LabelInv, ShortCircuit
  PROVE  LabelInv'
<1>1. PICK o, h : /\ Carries(Tail(ctl), o, h)
                  /\ Top.at \notin Owing => Labelling(code, lab, o, h, {})
                  /\ \A l \in o \cup h : l \in Nat /\ l < lab
  BY LabelTop
<1>2. Top.at = "level" /\ Top.at \notin Owing /\ Top.at \notin FileLevel
  BY ShortCircuitMoves DEF Owing, LoopAt, FileLevel
<1>3. /\ Labelling(code, lab, o, h, {}) /\ code \in Seq(Instruction)
      /\ lab \in Nat /\ lab + 1 \in Nat
  BY <1>1, <1>2, StackFacts, TopNumbers
<1>4. CASE Goto(<<>>) /\ UNCHANGED <<lab, code>>
  BY <1>1, <1>3, <1>4, LabelsReturned, LabelsMade
<1>5. ASSUME lab' = lab + 2,
             NEW x \in Item, NEW a \in {"orEnd", "andEnd"}, LabelPieces(x, a, lab, lab + 1), Pushed(x),
             NEW op \in {"jz", "jnz"}, code' = Append(code, Jump(op, lab))
      PROVE  LabelInv'
  <2> PICK m, y : m \in Nat /\ m = lab + 1 /\ y = Jump(op, lab)
    BY <1>3
  <2>1. x.at = a /\ x.l1 = lab /\ x.l2 = m
    BY <1>5 DEF LabelPieces
  <2>2. /\ LabelsOf(x) = {lab, m} /\ OwedBy(x) = {lab, m} /\ HeadOf(x) = {}
        /\ x.at \notin FileLevel /\ x.at \notin Testing /\ TwoLabels(x)
    BY <1>3, <1>5, <2>1, LabelSets DEF FileLevel, Testing, TwoLabels
  <2>3. \A l \in o \cup h : \A b \in LabelsOf(x) : l < b
    BY <1>1, <1>3, <2>2
  <2>4. Carries(ctl', o \cup OwedBy(x), h \cup HeadOf(x))
    BY <1>1, <1>2, <1>5, <2>2, <2>3, LabelsPushed
  <2>5. Labelling(code, m, o \cup {lab}, h, {})
    BY <1>3, Draw
  <2>6. Labelling(code, m + 1, (o \cup {lab}) \cup {m}, h, {})
    BY <2>5, Draw
  <2>7. y \in Instruction /\ y.op \in JumpOps /\ y.l \in (o \cup {lab}) \cup {m}
    BY <1>3, <1>5, JumpType DEF JumpOps
  <2>8. Labelling(Append(code, y), m + 1, (o \cup {lab}) \cup {m}, h, {})
    BY <1>3, <2>6, <2>7, JumpForward
  <2>9. /\ m + 1 = lab' /\ (o \cup {lab}) \cup {m} = o \cup OwedBy(x)
        /\ h \cup HeadOf(x) = h
    BY <1>3, <1>5, <2>2
  <2> QED
    BY <1>5, <2>4, <2>8, <2>9, LabelsMade
<1> QED
  BY <1>4, <1>5, ShortCircuitMoves

\* their ends: both labels are emitted
LEMMA ShortCircuitEndLabels ==
  ASSUME Inv, LabelInv, ShortCircuitEnd
  PROVE  LabelInv'
<1>1. PICK o, h : /\ Carries(Tail(ctl), o, h)
                  /\ Labelling(code, lab, o \cup OwedBy(Top), h \cup HeadOf(Top), {})
                  /\ \A l \in o \cup h : \A a \in LabelsOf(Top) : l < a
                  /\ \A l \in o \cup h : l \in Nat /\ l < lab
                  /\ TwoLabels(Top)
  BY LabelTop
<1>2. /\ Top.at \in {"orEnd", "andEnd"} /\ Goto(<<>>) /\ lab' = lab
      /\ \/ code' = Append(Append(code, Label(Top.l1)), Label(Top.l2))
         \/ code' = Append(Append(Append(code, Jump("jump", Top.l2)), Label(Top.l1)), Label(Top.l2))
  BY ShortCircuitEndMoves
<1> PICK p \in Nat, q \in Nat : p = Top.l1 /\ q = Top.l2
  BY TopType
<1> PICK x, y, z, w : x = Label(p) /\ y = Label(q) /\ z = Jump("jump", q) /\ w = o \cup {p, q}
  OBVIOUS
<1>3. /\ x \in Instruction /\ x.op = "label" /\ x.l = p
      /\ y \in Instruction /\ y.op = "label" /\ y.l = q
      /\ z \in Instruction /\ z.op \in JumpOps /\ z.l = q
  BY JumpType DEF JumpOps
<1>4. p # q /\ LabelsOf(Top) = {p, q} /\ OwedBy(Top) = {p, q} /\ HeadOf(Top) = {}
  BY <1>1, <1>2, LabelSets DEF TwoLabels, Owing
<1>5. Labelling(code, lab, w, h, {})
  <2>1. o \cup OwedBy(Top) = w /\ h \cup HeadOf(Top) = h
    BY <1>4
  <2> QED
    BY <1>1, <2>1
<1>6. /\ \A n \in h : n < p /\ n < q
      /\ p \in w /\ q \in w /\ q \in w \ {p}
      /\ (w \ {p}) \ {q} = o
  <2>1. \A l \in o \cup h : l < p /\ l < q /\ l # p /\ l # q
    BY <1>1, <1>4
  <2> QED
    BY <1>4, <2>1
<1>7. code \in Seq(Instruction)
  BY StackFacts
<1>8. ASSUME NEW c \in Seq(Instruction), Labelling(c, lab, w, h, {})
      PROVE  Labelling(Append(Append(c, x), y), lab, o, h, {})
  <2>1. Labelling(Append(c, x), lab, w \ {x.l}, h, {})
    BY <1>3, <1>6, <1>8, LabelOwed
  <2>2. Append(c, x) \in Seq(Instruction)
    BY <1>3
  <2>3. Labelling(Append(c, x), lab, w \ {p}, h, {})
    BY <1>3, <2>1
  <2>4. Labelling(Append(Append(c, x), y), lab, (w \ {p}) \ {y.l}, h, {})
    BY <1>3, <1>6, <2>2, <2>3, LabelOwed
  <2> QED
    BY <1>3, <1>6, <2>4
<1>9. Labelling(code', lab', o, h, {})
  <2>1. CASE code' = Append(Append(code, x), y)
    BY <1>2, <1>5, <1>7, <1>8, <2>1
  <2>2. CASE code' = Append(Append(Append(code, z), x), y)
    <3>1. Labelling(Append(code, z), lab, w, h, {})
      BY <1>3, <1>5, <1>6, <1>7, JumpForward
    <3>2. Append(code, z) \in Seq(Instruction)
      BY <1>3, <1>7
    <3> QED
      BY <1>2, <1>8, <2>2, <3>1, <3>2
  <2> QED
    BY <1>2, <2>1, <2>2
<1> QED
  BY <1>1, <1>2, <1>9, LabelsReturned, LabelsMade
\* if (...): a jump over the statement, to a label still to come
LEMMA IfTestLabels ==
  ASSUME Inv, LabelInv, IfTest
  PROVE  LabelInv'
<1>1. PICK o, h : /\ Carries(Tail(ctl), o, h)
                  /\ Top.at \notin Owing => Labelling(code, lab, o, h, {})
                  /\ \A l \in o \cup h : l \in Nat /\ l < lab
  BY LabelTop
<1>2. PICK x \in Item : /\ LabelPieces(x, "ifElse", lab, 0) /\ Pushed(x)
                        /\ Top.at = "ifTest" /\ lab' = lab + 1
                        /\ code' = Append(code, Jump("jz", lab))
  BY IfTestMoves
<1> PICK y : y = Jump("jz", lab)
  OBVIOUS
<1>3. /\ Labelling(code, lab, o, h, {}) /\ code \in Seq(Instruction) /\ lab \in Nat
      /\ Top.at \notin FileLevel
  BY <1>1, <1>2, StackFacts, TopType DEF Owing, LoopAt, FileLevel
<1>4. /\ LabelsOf(x) = {lab} /\ OwedBy(x) = {lab} /\ HeadOf(x) = {}
      /\ x.at \notin FileLevel /\ x.at \notin Testing /\ TwoLabels(x)
  BY <1>2, LabelSets DEF LabelPieces, FileLevel, Testing, TwoLabels
<1>5. Carries(ctl', o \cup {lab}, h)
  <2>1. Carries(ctl', o \cup OwedBy(x), h \cup HeadOf(x))
    BY <1>1, <1>2, <1>3, <1>4, LabelsPushed
  <2> QED
    BY <1>4, <2>1
<1>6. Labelling(code, lab', o \cup {lab}, h, {})
  BY <1>2, <1>3, Draw
<1>7. y \in Instruction /\ y.op \in JumpOps /\ y.l \in o \cup {lab}
  BY <1>3, JumpType DEF JumpOps
<1>8. Labelling(Append(code, y), lab', o \cup {lab}, h, {})
  BY <1>3, <1>6, <1>7, JumpForward
<1> QED
  BY <1>2, <1>5, <1>8, LabelsMade

\* the first statement's label, after a jump over the second if there is one
LEMMA IfElseLabels ==
  ASSUME Inv, LabelInv, IfElse \/ IfEnd
  PROVE  LabelInv'
<1>1. PICK o, h : /\ Carries(Tail(ctl), o, h)
                  /\ Labelling(code, lab, o \cup OwedBy(Top), h \cup HeadOf(Top), {})
                  /\ \A l \in o \cup h : l \in Nat /\ l < lab
                  /\ \A l \in o \cup h : \A a \in LabelsOf(Top) : l < a
                  /\ \A a \in LabelsOf(Top) : a \in Nat /\ a < lab
  BY LabelTop
<1>2. /\ Top.at \in {"ifElse", "ifEnd"}
      /\ \/ /\ lab' = lab + 1
            /\ \E x \in Item : LabelPieces(x, "ifEnd", lab, 0) /\ Pushed(x)
            /\ code' = Append(Append(code, Jump("jump", lab)), Label(Top.l1))
         \/ Goto(<<>>) /\ lab' = lab /\ code' = Append(code, Label(Top.l1))
  BY IfElseMoves, IfEndMoves
<1> PICK p \in Nat : p = Top.l1
  BY TopType
<1> PICK y, z : y = Jump("jump", lab) /\ z = Label(p)
  OBVIOUS
<1>3. /\ code \in Seq(Instruction) /\ lab \in Nat /\ Top.at \notin FileLevel
      /\ y \in Instruction /\ y.op \in JumpOps /\ y.l = lab
      /\ z \in Instruction /\ z.op = "label" /\ z.l = p
  BY <1>2, StackFacts, TopType, JumpType DEF FileLevel, JumpOps
<1>4. LabelsOf(Top) = {p} /\ OwedBy(Top) = {p} /\ HeadOf(Top) = {}
  BY <1>2, LabelSets
<1>5. /\ Labelling(code, lab, o \cup {p}, h, {}) /\ p # lab
      /\ \A l \in o \cup h : l < p /\ l # p
  <2>1. h \cup HeadOf(Top) = h
    BY <1>4
  <2>2. \A l \in o \cup h : l < p
    BY <1>1, <1>4
  <2> QED
    BY <1>1, <1>3, <1>4, <2>1, <2>2
<1>6. CASE Goto(<<>>) /\ lab' = lab /\ code' = Append(code, z)
  <2>1. Labelling(Append(code, z), lab, (o \cup {p}) \ {z.l}, h, {})
    BY <1>3, <1>5, LabelOwed
  <2>2. (o \cup {p}) \ {z.l} = o
    BY <1>3, <1>5
  <2> QED
    BY <1>1, <1>6, <2>1, <2>2, LabelsReturned, LabelsMade
<1>7. ASSUME lab' = lab + 1, NEW x \in Item, LabelPieces(x, "ifEnd", lab, 0), Pushed(x),
             code' = Append(Append(code, y), z)
      PROVE  LabelInv'
  <2>1. /\ LabelsOf(x) = {lab} /\ OwedBy(x) = {lab} /\ HeadOf(x) = {}
        /\ x.at \notin FileLevel /\ x.at \notin Testing /\ TwoLabels(x)
    BY <1>7, LabelSets DEF LabelPieces, FileLevel, Testing, TwoLabels
  <2>2. Carries(ctl', o \cup {lab}, h)
    <3>1. Carries(ctl', o \cup OwedBy(x), h \cup HeadOf(x))
      BY <1>1, <1>3, <1>7, <2>1, LabelsPushed
    <3> QED
      BY <2>1, <3>1
  <2> PICK w : w = (o \cup {p}) \cup {lab}
    OBVIOUS
  <2>3. Labelling(code, lab', w, h, {})
    BY <1>3, <1>5, <1>7, Draw
  <2>4. Labelling(Append(code, y), lab', w, h, {}) /\ Append(code, y) \in Seq(Instruction)
    BY <1>3, <2>3, JumpForward
  <2>5. Labelling(Append(Append(code, y), z), lab', w \ {z.l}, h, {})
    BY <1>3, <1>5, <2>4, LabelOwed
  <2>6. w \ {z.l} = o \cup {lab}
    BY <1>3, <1>5
  <2> QED
    BY <1>7, <2>2, <2>5, <2>6, LabelsMade
<1> QED
  BY <1>2, <1>6, <1>7

\* a jump to a label owed, or back to the innermost head
LEMMA JumpLabels ==
  ASSUME Inv, LabelInv, Top.at \notin Owing, Goto(<<>>), UNCHANGED lab,
         NEW l \in Nat, NEW op \in {"jump", "jz"}, code' = Append(code, Jump(op, l)),
         \/ l \in OwedIn(ctl)
         \/ op = "jump" /\ l \in HeadsIn(ctl) /\ \A n \in HeadsIn(ctl) : n <= l
  PROVE  LabelInv'
<1>1. PICK o, h : /\ Carries(Tail(ctl), o, h)
                  /\ Labelling(code, lab, o, h, {})
                  /\ OwedIn(ctl) = o \cup OwedBy(Top) /\ HeadsIn(ctl) = h \cup HeadOf(Top)
  BY LabelTop
<1> PICK x : x = Jump(op, l)
  OBVIOUS
<1>2. x \in Instruction /\ x.op = op /\ x.op \in JumpOps /\ x.l = l /\ code \in Seq(Instruction)
  BY JumpType, StackFacts DEF JumpOps
<1>3. OwedIn(ctl) = o /\ HeadsIn(ctl) = h
  <2>1. OwedBy(Top) = {} /\ HeadOf(Top) = {}
    BY LabelSets
  <2> QED
    BY <1>1, <2>1
<1>4. Labelling(Append(code, x), lab, o, h, {})
  <2>1. CASE l \in OwedIn(ctl)
    BY <1>1, <1>2, <1>3, <2>1, JumpForward
  <2>2. CASE op = "jump" /\ l \in HeadsIn(ctl) /\ \A n \in HeadsIn(ctl) : n <= l
    BY <1>1, <1>2, <1>3, <2>2, JumpBack
  <2> QED
    BY <2>1, <2>2
<1> QED
  BY <1>1, <1>4, LabelsReturned, LabelsMade

\* a loop's test jumps to its end
LEMMA TestLabels ==
  ASSUME Inv, LabelInv, WhileTest \/ ForTest
  PROVE  LabelInv'
<1>1. /\ Top.at \in Testing /\ Top.at \notin Owing /\ Goto(<<>>) /\ UNCHANGED lab
      /\ code' = Append(code, Jump("jz", Top.l2))
  BY TestMoves DEF Testing, Owing, LoopAt
<1>2. Top.l2 \in OwedIn(ctl) /\ Top.l2 \in Nat
  BY <1>1, LabelTop, TopType
<1> QED
  BY <1>1, <1>2, JumpLabels

\* break and continue go to the labels of the innermost loop
LEMMA LeaveLabels ==
  ASSUME Inv, LabelInv, LeaveLoop
  PROVE  LabelInv'
<1>1. PICK l \in Nat : /\ l = breaklab[wsp - 1] \/ l = contlab[wsp - 1]
                       /\ code' = Append(code, Jump("jump", l))
                       /\ wsp > 0 /\ Top.at \in {"break", "continue"}
                       /\ Goto(<<>>) /\ UNCHANGED lab
  BY LeaveMoves
<1>2. PICK i \in OpenLoops : /\ \A j \in OpenLoops : i <= j
                             /\ breaklab[wsp - 1] = ctl[i].l2
                             /\ contlab[wsp - 1] = ctl[i].l1
  BY <1>1, InnermostFollows DEF InnermostLoop
<1>3. OpenLoops = {j \in DOMAIN ctl : ctl[j].at \in LoopAt} /\ DOMAIN ctl \subseteq Nat
  BY StackFacts DEF OpenLoops, LoopAt
<1>4. l \in LabelsOf(ctl[i]) /\ i \in DOMAIN ctl
  BY <1>1, <1>2, <1>3 DEF LabelsOf, LoopAt, Owing
<1>5. Top.at \notin Owing
  BY <1>1 DEF Owing, LoopAt
<1>6. CASE l \in OwedBy(ctl[i])
  <2>1. l \in OwedIn(ctl)
    BY <1>4, <1>6 DEF OwedIn
  <2> QED
    BY <1>1, <1>5, <2>1, JumpLabels
<1>7. CASE l \in HeadOf(ctl[i])
  <2>1. l \in HeadsIn(ctl)
    BY <1>4, <1>7 DEF HeadsIn
  <2>2. ASSUME NEW n \in HeadsIn(ctl)
        PROVE  n <= l
    <3>1. PICK j \in DOMAIN ctl : n \in HeadOf(ctl[j])
      BY DEF HeadsIn
    <3>2. ctl[j].at = "whileEnd" /\ j \in OpenLoops /\ ctl[j] \in Item
      BY <1>3, <3>1, StackFacts DEF HeadOf, LoopAt
    <3>3. n \in LabelsOf(ctl[j]) /\ n \in Nat /\ i \in Nat /\ j \in Nat
      BY <1>3, <1>4, <3>1, <3>2, LabelSets, LabelNumbers
    <3>4. CASE i = j
      BY <1>7, <3>1, <3>3, <3>4 DEF HeadOf
    <3>5. CASE i < j
      <4>1. n < l
        BY <1>4, <3>3, <3>5 DEF LabelInv, Nested, SortedIn
      <4> QED
        BY <3>3, <4>1
    <3> QED
      BY <1>2, <3>2, <3>3, <3>4, <3>5
  <2> QED
    BY <1>1, <1>5, <2>1, <2>2, JumpLabels
<1> QED
  BY <1>4, <1>6, <1>7, LabelSets

\* while: the label of the loop's start is emitted, that of its end is owed
LEMMA WhileHeadLabels ==
  ASSUME Inv, LabelInv, WhileHead
  PROVE  LabelInv'
<1>1. PICK o, h : /\ Carries(Tail(ctl), o, h)
                  /\ Top.at \notin Owing => Labelling(code, lab, o, h, {})
                  /\ \A l \in o \cup h : l \in Nat /\ l < lab
  BY LabelTop
<1>2. PICK test, end \in Item :
        /\ test.at = "whileTest" /\ test.l2 = lab + 1
        /\ end.at = "whileEnd" /\ end.l1 = lab /\ end.l2 = lab + 1
        /\ ctl' = Before(It("expr"), Before(test, Before(It("stmt"), Before(end, Tail(ctl)))))
        /\ Top.at = "whileHead" /\ lab' = lab + 2 /\ code' = Append(code, Label(lab))
  BY WhileHeadMoves DEF LabelPieces, LoopPiece
<1>3. Labelling(code, lab, o, h, {}) /\ code \in Seq(Instruction) /\ lab \in Nat /\ lab + 1 \in Nat
  BY <1>1, <1>2, StackFacts, TopNumbers DEF Owing, LoopAt
<1> PICK m, y : m \in Nat /\ m = lab + 1 /\ y = Label(lab)
  BY <1>3
<1>4. /\ LabelsOf(end) = {lab, m} /\ OwedBy(end) = {m} /\ HeadOf(end) = {lab}
      /\ TwoLabels(end) /\ end.at \notin FileLevel /\ end.at \notin Testing
  <2>1. TwoLabels(end)
    BY <1>2, <1>3 DEF TwoLabels
  <2> QED
    BY <1>2, <2>1, LabelSets DEF FileLevel, Testing
<1>5. \A l \in o \cup h : \A a \in LabelsOf(end) : l < a
  BY <1>1, <1>3, <1>4
<1> PICK u, v, w, p, q : /\ w = Before(end, Tail(ctl)) /\ v = Before(It("stmt"), w)
                         /\ u = Before(test, v) /\ p = o \cup {m} /\ q = h \cup {lab}
  OBVIOUS
<1>6. Carries(w, p, q)
  <2>1. Carries(w, o \cup OwedBy(end), h \cup HeadOf(end))
    BY <1>1, <1>4, <1>5, LabelsOne
  <2> QED
    BY <1>4, <2>1
<1>7. Carries(v, p, q) /\ It("expr") \in Item /\ It("expr").at = "expr"
  <2>1. /\ It("stmt") \in Item /\ It("stmt").at = "stmt"
        /\ It("expr") \in Item /\ It("expr").at = "expr"
    BY ShortItems DEF It, Piece
  <2>2. "stmt" \notin Owing /\ "stmt" \notin FileLevel /\ "stmt" \notin Testing
    BY DEF Owing, LoopAt, FileLevel, Testing
  <2> QED
    BY <1>6, <2>1, <2>2, LabelsNone
<1>8. Carries(u, p, q)
  <2>1. test.at \notin Owing /\ test.at \notin FileLevel /\ test.l2 \in p
    BY <1>2 DEF Owing, LoopAt, FileLevel
  <2> QED
    BY <1>7, <2>1, LabelsNone
<1>9. Carries(ctl', p, q)
  <2>1. "expr" \notin Owing /\ "expr" \notin FileLevel /\ "expr" \notin Testing
    BY DEF Owing, LoopAt, FileLevel, Testing
  <2>2. Carries(Before(It("expr"), u), p, q)
    BY <1>7, <1>8, <2>1, LabelsNone
  <2> QED
    BY <1>2, <2>2
<1>10. Labelling(code', lab', p, q, {})
  <2>1. y \in Instruction /\ y.op = "label" /\ y.l = lab
    BY <1>3, JumpType
  <2>2. Labelling(Append(code, y), lab + 1, o, q, {})
    BY <1>3, <2>1, LabelHead
  <2>3. Labelling(Append(code, y), m + 1, p, q, {})
    BY <2>2, Draw
  <2>4. m + 1 = lab'
    BY <1>2, <1>3
  <2> QED
    BY <1>2, <2>3, <2>4
<1> QED
  BY <1>9, <1>10, LabelsMade

\* its end: a jump back to the innermost head, and the label owed
LEMMA WhileEndLabels ==
  ASSUME Inv, LabelInv, WhileEnd
  PROVE  LabelInv'
<1>1. PICK o, h : /\ Carries(Tail(ctl), o, h)
                  /\ Labelling(code, lab, o \cup OwedBy(Top), h \cup HeadOf(Top), {})
                  /\ \A l \in o \cup h : l \in Nat
                  /\ \A l \in o \cup h : \A a \in LabelsOf(Top) : l < a
                  /\ TwoLabels(Top)
  BY LabelTop
<1>2. /\ Top.at = "whileEnd" /\ Goto(<<>>) /\ lab' = lab
      /\ code' = Append(Append(code, Jump("jump", Top.l1)), Label(Top.l2))
  BY WhileEndMoves
<1> PICK a \in Nat, b \in Nat : a = Top.l1 /\ b = Top.l2
  BY TopType
<1> PICK y, z, p, q : y = Jump("jump", a) /\ z = Label(b) /\ p = o \cup {b} /\ q = h \cup {a}
  OBVIOUS
<1>3. /\ y \in Instruction /\ y.op = "jump" /\ y.l = a
      /\ z \in Instruction /\ z.op = "label" /\ z.l = b
      /\ code \in Seq(Instruction)
  BY JumpType, StackFacts
<1>4. LabelsOf(Top) = {a, b} /\ OwedBy(Top) = {b} /\ HeadOf(Top) = {a}
  BY <1>1, <1>2, LabelSets
<1>5. /\ a \in q /\ \A n \in q : n <= a
      /\ b \in p /\ p \ {b} = o
      /\ \A n \in h : n < b
  <2>1. \A l \in o \cup h : l \in Nat /\ l < a /\ l < b /\ l # b /\ l <= a
    BY <1>1, <1>4
  <2> QED
    BY <2>1
<1>6. Labelling(code, lab, p, q, {})
  BY <1>1, <1>4
<1>7. Labelling(Append(code, y), lab, p, q, {}) /\ Append(code, y) \in Seq(Instruction)
  <2>1. y.l \in q /\ \A n \in q : n <= y.l
    BY <1>3, <1>5
  <2>2. Labelling(Append(code, y), lab, p, q, {})
    BY <1>3, <1>6, <2>1, JumpBack
  <2> QED
    BY <1>3, <2>2
<1>8. Labelling(Append(code, y), lab, p, h, {})
  BY <1>7, CloseLoop
<1>9. Labelling(Append(Append(code, y), z), lab, p \ {z.l}, h, {})
  BY <1>3, <1>5, <1>7, <1>8, LabelOwed
<1>10. Labelling(code', lab', o, h, {})
  BY <1>2, <1>3, <1>5, <1>9
<1> QED
  BY <1>1, <1>2, <1>10, LabelsReturned, LabelsMade

\* for: a label for the test, to which nothing jumps, and two that are owed
LEMMA ForLoopLabels ==
  ASSUME Inv, LabelInv, ForLoop
  PROVE  LabelInv'
<1>1. PICK o, h : /\ Carries(Tail(ctl), o, h)
                  /\ Top.at \notin Owing => Labelling(code, lab, o, h, {})
                  /\ \A l \in o \cup h : l \in Nat /\ l < lab
  BY LabelTop
<1>2. PICK test, end \in Item :
        /\ test.at = "forTest" /\ test.l2 = lab + 1
        /\ end.at = "forSkip" /\ end.l1 = lab + 2 /\ end.l2 = lab + 1
        /\ \/ ctl' = Before(Expect(";"), Before(end, Tail(ctl)))
           \/ ctl' = Before(It("expr"), Before(test, Before(Expect(";"), Before(end, Tail(ctl)))))
        /\ Top.at = "forLoop" /\ lab' = lab + 3 /\ code' = Append(code, Label(lab))
  BY ForLoopMoves DEF LabelPieces, LoopPiece
<1>3. /\ Labelling(code, lab, o, h, {}) /\ code \in Seq(Instruction)
      /\ lab \in Nat /\ lab + 1 \in Nat /\ lab + 2 \in Nat
  BY <1>1, <1>2, StackFacts, TopNumbers DEF Owing, LoopAt
<1>a. lab + 2 # lab + 1 /\ (lab + 1) + 1 = lab + 2 /\ (lab + 2) + 1 = lab + 3
  BY ONLY <1>3
<1> PICK m, n, y : m \in Nat /\ n \in Nat /\ m = lab + 1 /\ n = lab + 2 /\ y = Label(lab)
  BY <1>3
<1>4. /\ LabelsOf(end) = {n, m} /\ OwedBy(end) = {n, m} /\ HeadOf(end) = {}
      /\ TwoLabels(end) /\ end.at \notin FileLevel /\ end.at \notin Testing
  <2>1. TwoLabels(end)
    BY <1>2, <1>a DEF TwoLabels
  <2> QED
    BY <1>2, <2>1, LabelSets DEF FileLevel, Testing
<1>5. \A l \in o \cup h : \A a \in LabelsOf(end) : l < a
  BY <1>1, <1>3, <1>4
<1> PICK u, v, w, p : /\ w = Before(end, Tail(ctl)) /\ v = Before(Expect(";"), w)
                      /\ u = Before(test, v) /\ p = (o \cup {m}) \cup {n}
  OBVIOUS
<1>6. Carries(w, p, h)
  <2>1. Carries(w, o \cup OwedBy(end), h \cup HeadOf(end))
    BY <1>1, <1>4, <1>5, LabelsOne
  <2>2. o \cup OwedBy(end) = p /\ h \cup HeadOf(end) = h
    BY <1>4
  <2> QED
    BY <2>1, <2>2
<1>7. Carries(v, p, h) /\ It("expr") \in Item /\ It("expr").at = "expr"
  <2>1. /\ Expect(";") \in Item /\ Expect(";").at = "expect"
        /\ It("expr") \in Item /\ It("expr").at = "expr"
    BY ShortItems DEF It, Expect, With, Piece
  <2>2. "expect" \notin Owing /\ "expect" \notin FileLevel /\ "expect" \notin Testing
    BY DEF Owing, LoopAt, FileLevel, Testing
  <2> QED
    BY <1>6, <2>1, <2>2, LabelsNone
<1>8. Carries(u, p, h)
  <2>1. test.at \notin Owing /\ test.at \notin FileLevel /\ test.l2 \in p
    BY <1>2 DEF Owing, LoopAt, FileLevel
  <2> QED
    BY <1>7, <2>1, LabelsNone
<1>9. Carries(ctl', p, h)
  <2>1. "expr" \notin Owing /\ "expr" \notin FileLevel /\ "expr" \notin Testing
    BY DEF Owing, LoopAt, FileLevel, Testing
  <2>2. Carries(Before(It("expr"), u), p, h)
    BY <1>7, <1>8, <2>1, LabelsNone
  <2> QED
    BY <1>2, <1>7, <2>2
<1>10. Labelling(code', lab', p, h, {})
  <2>1. y \in Instruction /\ y.op = "label" /\ y.l = lab
    BY <1>3, JumpType
  <2>2. Labelling(Append(code, y), lab + 1, o, h \cup {lab}, {})
    BY <1>3, <2>1, LabelHead
  <2>3. Labelling(Append(code, y), m, o, h, {})
    BY <2>2, CloseLoop
  <2>4. Labelling(Append(code, y), m + 1, o \cup {m}, h, {})
    BY <2>3, Draw
  <2>5. m + 1 = n /\ n + 1 = lab'
    BY <1>2, <1>a
  <2>6. Labelling(Append(code, y), n + 1, p, h, {})
    BY <2>4, <2>5, Draw
  <2> QED
    BY <1>2, <2>5, <2>6
<1> QED
  BY <1>9, <1>10, LabelsMade

\* its increment is skipped
LEMMA ForSkipLabels ==
  ASSUME Inv, LabelInv, ForSkip
  PROVE  LabelInv'
<1>1. PICK o, h : /\ Carries(Tail(ctl), o, h)
                  /\ Labelling(code, lab, o \cup OwedBy(Top), h \cup HeadOf(Top), {})
                  /\ \A l \in o \cup h : \A a \in LabelsOf(Top) : l < a
                  /\ TwoLabels(Top)
  BY LabelTop
<1>2. PICK end \in Item :
        /\ end.at = "forTail" /\ end.l1 = Top.l1 /\ end.l2 = Top.l2
        /\ ctl' = Before(It("stmt"), Before(end, Tail(ctl)))
        /\ Top.at = "forSkip" /\ UNCHANGED <<lab, code>>
  BY ForSkipMoves DEF LabelPieces, LoopPiece
<1>3. /\ LabelsOf(end) = LabelsOf(Top) /\ OwedBy(end) = OwedBy(Top) /\ HeadOf(end) = HeadOf(Top)
      /\ TwoLabels(end)
  <2>1. TwoLabels(end)
    BY <1>1, <1>2 DEF TwoLabels, Owing, LoopAt
  <2> QED
    BY <1>2, <2>1, LabelSets
<1> PICK w, p, q : /\ w = Before(end, Tail(ctl))
                   /\ p = o \cup OwedBy(Top) /\ q = h \cup HeadOf(Top)
  OBVIOUS
<1>4. Carries(w, p, q)
  <2>1. end.at \notin FileLevel /\ end.at \notin Testing
    BY <1>2 DEF FileLevel, Testing
  <2>2. Carries(w, o \cup OwedBy(end), h \cup HeadOf(end))
    BY <1>1, <1>3, <2>1, LabelsOne
  <2> QED
    BY <1>3, <2>2
<1>5. Carries(ctl', p, q)
  <2>1. It("stmt") \in Item /\ It("stmt").at = "stmt"
    BY ShortItems DEF It, Piece
  <2>2. "stmt" \notin Owing /\ "stmt" \notin FileLevel /\ "stmt" \notin Testing
    BY DEF Owing, LoopAt, FileLevel, Testing
  <2>3. Carries(Before(It("stmt"), w), p, q)
    BY <1>4, <2>1, <2>2, LabelsNone
  <2> QED
    BY <1>2, <2>3
<1>6. Labelling(code', lab', p, q, {})
  BY <1>1, <1>2
<1> QED
  BY <1>5, <1>6, LabelsMade

LEMMA LabelInit == Init => LabelInv
<1> SUFFICES ASSUME Init PROVE LabelInv
  OBVIOUS
<1> PICK x : x = It("start")
  OBVIOUS
<1>1. ctl = <<x>> /\ code = <<>> /\ lab = 1 /\ x.at = "start"
  BY DEF Init, It, Piece
<1>2. DOMAIN ctl = {1} /\ ctl[1] = x
  BY ONLY <1>1
<1>3. "start" \notin Owing /\ "start" \notin Testing
  BY DEF Owing, LoopAt, Testing
<1>4. LabelsOf(x) = {} /\ OwedBy(x) = {} /\ HeadOf(x) = {} /\ TwoLabels(x)
  BY <1>1, <1>3, LabelSets DEF TwoLabels
<1>5. OwedIn(ctl) = {} /\ HeadsIn(ctl) = {}
  BY <1>2, <1>4 DEF OwedIn, HeadsIn
<1>6. Nested(ctl)
  <2>1. \A i, j \in DOMAIN ctl : ~(i < j)
    BY <1>2
  <2> QED
    BY <1>1, <1>2, <1>3, <1>4, <2>1 DEF Nested, SortedIn, TestsIn, LevelledIn
<1>7. Labelling(<<>>, lab, {}, {}, {})
  BY <1>1, NoCode
<1> QED
  BY <1>1, <1>5, <1>6, <1>7 DEF LabelInv

LEMMA LabelNext ==
  ASSUME Inv, LabelInv, [Next]_vars
  PROVE  LabelInv'
<1>1. CASE UNCHANGED vars
  BY <1>1 DEF vars, LabelInv
<1>2. CASE ErrorExit \/ Stopped
  BY <1>2 DEF ErrorExit, Stopped, vars, LabelInv
<1>3. CASE LabellingActions
  BY <1>3, ShortCircuitLabels, ShortCircuitEndLabels, IfTestLabels, IfElseLabels, TestLabels,
     LeaveLabels DEF LabellingActions
<1>4. CASE LoopActions
  BY <1>4, WhileHeadLabels, WhileEndLabels, ForLoopLabels, ForSkipLabels DEF LoopActions
<1> QED
  BY <1>1, <1>2, <1>3, <1>4, QuietLabels, WeighingLabels, NextActions

\* the property's sets are those of the theory
LEMMA SameSets ==
  ASSUME Inv
  PROVE  /\ \A l : LabelAt(l) = LabelsIn(code, l)
         /\ JumpsAt = JumpsIn(code) /\ Entries = EntriesIn(code)
         /\ OwedIn(ctl) \subseteq Owed
<1>1. (\A l : LabelAt(l) = LabelsIn(code, l)) /\ Entries = EntriesIn(code)
      /\ JumpsAt = JumpsIn(code)
  BY DEF LabelAt, LabelsIn, Entries, EntriesIn, JumpsAt, JumpsIn, JumpOps
<1>2. ASSUME NEW l \in OwedIn(ctl)
      PROVE  l \in Owed
  <2>1. PICK i \in DOMAIN ctl : l \in OwedBy(ctl[i])
    BY DEF OwedIn
  <2>2. ctl[i].at \in Owing
    BY <2>1, LabelSets
  <2>3. l \in {ctl[i].l1, ctl[i].l2}
    BY <2>1 DEF OwedBy, LabelsOf
  <2>4. ctl[i].at \in {"ifElse", "ifEnd", "whileEnd", "orEnd", "andEnd", "forSkip", "forTail"}
    BY <2>2 DEF Owing, LoopAt
  <2> QED
    BY <2>3, <2>4 DEF Owed
<1> QED
  BY <1>1, <1>2

LEMMA LabelsGive ==
  ASSUME Inv, LabelInv
  PROVE  JumpsLand
<1>1. ASSUME NEW i \in DOMAIN code, NEW j \in DOMAIN code,
             code[i].op = "label", code[j].op = "label", code[i].l = code[j].l
      PROVE  i = j
  BY <1>1 DEF LabelInv, Labelling, EmittedOnce, AllLabels
<1>2. OwedIn(ctl) # {} => ctl[1].at # "program"
  <2>1. ASSUME Top.at = "program"
        PROVE  OwedIn(ctl) = {}
    <3>1. "program" \in FileLevel /\ "program" \notin Owing
      BY DEF FileLevel, Owing, LoopAt
    <3>2. OwedBy(Top) = {}
      BY <2>1, <3>1, LabelSets
    <3>3. PICK o : OwedIn(ctl) = o \cup OwedBy(Top) /\ o = {}
      BY <2>1, <3>1, LabelTop
    <3> QED
      BY <3>2, <3>3
  <2> QED
    BY <2>1, StackFacts
<1>3. ASSUME NEW j \in JumpsAt
      PROVE  \/ \E i \in LabelAt(code[j].l) : \A e \in Entries : (e < i) <=> (e < j)
             \/ code[j].l \in OwedIn(ctl) /\ \A e \in Entries : e < j
  BY SameSets DEF LabelInv, Labelling, JumpsSettled
<1> QED
  BY <1>1, <1>2, <1>3, SameSets DEF JumpsLand

LEMMA LabelsAlways == Spec => [](Inv /\ LabelInv)
BY Invariant, LabelInit, LabelNext, PTL DEF Spec

\* For every file, however its statements and its || and && operators nest: no label is emitted
\* twice, and every jump's label is in the jump's own function or will be emitted there by a
\* routine that is still active.
THEOREM JumpsCorrect == Spec => []JumpsLand
BY LabelsAlways, LabelsGive, PTL
=============================================================================
