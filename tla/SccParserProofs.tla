-------------------------- MODULE SccParserProofs --------------------------
(***************************************************************************)
(* Theorems about SccParser, for every token set and every bound.          *)
(*                                                                         *)
(*   Inv       types, and the loop stack: break and continue always find   *)
(*             the innermost loop in breaklab/contlab.                     *)
(*   LabelInv  the labels: what the pieces on the C stack still owe, and   *)
(*             what has been emitted (the theory is in CompilerLemmas).    *)
(*   CallInv   no call comes to a second argument.                         *)
(*   DepthInv  the words pushed on the run-time stack.                     *)
(***************************************************************************)
EXTENDS SccParser, CompilerLemmas, TLAPS

-----------------------------------------------------------------------------
(* The invariant *)

\* the bottom of the C stack is program(), which never returns before EOF
Outermost == {"start", "program"}
Bottom == ctl[Len(ctl)].at \in Outermost

\* The first wsp entries of breaklab/contlab, read from the top, are the labels
\* of the "whileEnd" pieces of a call stack c, read from the innermost.
LoopStackOf(c, w, b, k) ==
  /\ \A i \in DOMAIN c : c[i].at = "whileEnd" =>
       c[i].slot < w /\ b[c[i].slot] = c[i].l2 /\ k[c[i].slot] = c[i].l1
  /\ \A i, j \in DOMAIN c :
       c[i].at = "whileEnd" /\ c[j].at = "whileEnd" /\ i < j => c[i].slot > c[j].slot
  /\ \A s \in 0..(w - 1) : \E i \in DOMAIN c : c[i].at = "whileEnd" /\ c[i].slot = s
LoopStack == LoopStackOf(ctl, wsp, breaklab, contlab)

Inv ==
  /\ TypeOK
  /\ Bottom
  /\ LoopStack
  /\ status = "overrun" => wsp = MaxWhile

\* pieces that are well typed and open no loop
Plain(p) == p \in Seq(Item) /\ \A i \in DOMAIN p : p[i].at # "whileEnd"

-----------------------------------------------------------------------------
(* Pieces *)

LEMMA PlainShort ==
  /\ Plain(<<>>)
  /\ \A x \in Item : x.at # "whileEnd" => Plain(<<x>>)
  /\ \A x, y \in Item : x.at # "whileEnd" /\ y.at # "whileEnd" => Plain(<<x, y>>)
BY DEF Plain

LEMMA PlainConcat ==
  ASSUME NEW p, NEW q, Plain(p), Plain(q)
  PROVE  Plain(p \o q)
BY DEF Plain

LEMMA OperandPlain ==
  ASSUME NEW k \in Nat
  PROVE  Plain(Operand(k))
<1> DEFINE m == IF 11 - k >= 0 THEN 11 - k ELSE 0
           rest == [i \in 1..(11 - k) |-> Count("level", 11 - i)]
<1>1. 1..(11 - k) = 1..m /\ m \in Nat
  OBVIOUS
<1>2. \A i \in 1..m : Count("level", 11 - i) \in Item /\ Count("level", 11 - i).at = "level"
  BY DEF Count, Piece, Item, Places
<1>3. rest \in Seq(Item) /\ DOMAIN rest = 1..m /\ \A i \in 1..m : rest[i].at = "level"
  BY <1>1, <1>2
<1>4. Plain(rest)
  BY <1>3 DEF Plain
<1>5. Plain(<<It("unary")>>)
  BY PlainShort DEF It, Piece, Item, Places
<1>6. QED
  BY <1>4, <1>5, PlainConcat DEF Operand

-----------------------------------------------------------------------------
(* Steps that only replace the innermost piece by plain ones *)

LEMMA GotoLoops ==
  ASSUME NEW c \in Seq(Item), c # <<>>, c[1].at # "whileEnd", NEW p, Plain(p),
         NEW w \in Nat, NEW b, NEW k, LoopStackOf(c, w, b, k)
  PROVE  LoopStackOf(p \o Tail(c), w, b, k)
<1> DEFINE d == p \o Tail(c)
<1>1. /\ d \in Seq(Item)
      /\ \A i \in 1..Len(p) : d[i] = p[i]
      /\ \A i \in 2..Len(c) : d[Len(p) + i - 1] = c[i] /\ Len(p) + i - 1 \in DOMAIN d
      /\ \A i \in DOMAIN d : i <= Len(p) \/ (i - Len(p) + 1 \in 2..Len(c)
                                               /\ d[i] = c[i - Len(p) + 1])
  BY GotoIndex, SMTT(30) DEF Plain
<1>2. \A i \in DOMAIN d : d[i].at = "whileEnd" =>
         i - Len(p) + 1 \in DOMAIN c /\ d[i] = c[i - Len(p) + 1]
  BY <1>1, SMTT(30) DEF Plain
<1>3. ASSUME NEW i \in DOMAIN d, d[i].at = "whileEnd"
      PROVE  d[i].slot < w /\ b[d[i].slot] = d[i].l2 /\ k[d[i].slot] = d[i].l1
  BY <1>2, <1>3 DEF LoopStackOf
<1>4. ASSUME NEW i \in DOMAIN d, NEW j \in DOMAIN d,
             d[i].at = "whileEnd", d[j].at = "whileEnd", i < j
      PROVE  d[i].slot > d[j].slot
  <2>1. i - Len(p) + 1 < j - Len(p) + 1
    BY <1>1, <1>4 DEF Plain
  <2>2. QED
    BY <2>1, <1>2, <1>4, SMTT(30) DEF LoopStackOf
<1>5. ASSUME NEW s \in 0..(w - 1)
      PROVE  \E i \in DOMAIN d : d[i].at = "whileEnd" /\ d[i].slot = s
  <2>1. PICK i \in DOMAIN c : c[i].at = "whileEnd" /\ c[i].slot = s
    BY DEF LoopStackOf
  <2>2. i \in 2..Len(c)
    BY <2>1
  <2>3. Len(p) + i - 1 \in DOMAIN d /\ d[Len(p) + i - 1] = c[i]
    BY <2>2, <1>1
  <2>4. QED
    BY <2>1, <2>3
<1>6. QED
  BY <1>3, <1>4, <1>5 DEF LoopStackOf

LEMMA GotoBottom ==
  ASSUME NEW c \in Seq(Item), c # <<>>, c[Len(c)].at \in Outermost, NEW p \in Seq(Item),
         c[1].at \notin Outermost \/ (p # <<>> /\ p[Len(p)].at \in Outermost)
  PROVE  /\ p \o Tail(c) # <<>>
         /\ (p \o Tail(c))[Len(p \o Tail(c))].at \in Outermost
<1> DEFINE d == p \o Tail(c)
<1>1. /\ Len(d) = Len(p) + Len(c) - 1
      /\ \A i \in 1..Len(p) : d[i] = p[i]
      /\ \A i \in 2..Len(c) : d[Len(p) + i - 1] = c[i]
      /\ d \in Seq(Item)
  BY GotoIndex
<1>2. CASE Len(c) = 1
  BY <1>1, <1>2
<1>3. CASE Len(c) > 1
  <2>1. Len(c) \in 2..Len(c) /\ Len(p) \in Nat
    BY <1>3
  <2>2. d[Len(d)] = c[Len(c)]
    BY <2>1, <1>1
  <2>3. Len(d) \in Nat /\ Len(d) > 0
    BY <2>1, <1>1, <1>3
  <2>. d # <<>>
    BY <2>3, NonEmpty
  <2>4. QED
    BY <2>2, <2>3
<1>4. QED
  BY <1>2, <1>3

LEMMA TokenType ==
  ASSUME TypeOK, GetToken \/ Stay
  PROVE  /\ token' \in Token
         /\ ntok' \in 0..MaxTokens
         /\ status = "run" => status' \in {"run", "error"}
<1>1. Tokens \cup {EOF} \subseteq Token
  BY TokensAssumption DEF Token, Reserved
<1>2. QED
  BY <1>1, BoundsAssumption DEF TypeOK, GetToken, Stay, input, EOF, Unknown

\* what a step that leaves the loop stack alone has to show
LEMMA PlainStep ==
  ASSUME Inv, status = "run", NEW p, Plain(p), Goto(p), UNCHANGED loops,
         GetToken \/ Stay,
         Top.at # "whileEnd",
         Top.at \notin Outermost \/ (p # <<>> /\ p[Len(p)].at \in Outermost),
         globals' \in Seq(Symbol), locals' \in Seq(Symbol), sp' \in Int,
         Len(globals') <= MaxGlobals, Len(locals') <= MaxLocals,
         lab' \in Nat \ {0}, code' \in Seq(Instruction)
  PROVE  Inv'
<1>1. ctl \in Seq(Item) /\ ctl # <<>> /\ Top = ctl[1] /\ p \in Seq(Item)
  BY DEF Inv, TypeOK, Top, Plain
<1>2. ctl' = p \o Tail(ctl) /\ ctl' \in Seq(Item)
  BY <1>1, GotoIndex DEF Goto
<1>3. ctl' # <<>> /\ Bottom'
  BY <1>1, <1>2, GotoBottom DEF Inv, Bottom
<1>4. LoopStack'
  <2>1. wsp \in Nat
    BY BoundsAssumption DEF Inv, TypeOK
  <2>2. LoopStackOf(p \o Tail(ctl), wsp, breaklab, contlab)
    BY <1>1, <2>1, GotoLoops DEF Inv, LoopStack
  <2>3. QED
    BY <2>2, <1>2 DEF LoopStack, loops
<1>5. TypeOK'
  BY <1>2, <1>3, TokenType DEF Inv, TypeOK, loops
<1>6. status' # "overrun"
  BY TokenType DEF Inv
<1>7. QED
  BY <1>3, <1>4, <1>5, <1>6 DEF Inv

-----------------------------------------------------------------------------
(* One lemma per group of actions *)

\* the actions that touch nothing but the lookahead and the innermost piece
LEMMA QuietStep ==
  ASSUME Inv, status = "run", NEW p, Plain(p), Goto(p), GetToken \/ Stay,
         Top.at # "whileEnd",
         Top.at \notin Outermost \/ (p # <<>> /\ p[Len(p)].at \in Outermost),
         UNCHANGED <<symbols, sp, lab, loops, code>>
  PROVE  Inv'
BY PlainStep DEF symbols, Inv, TypeOK

\* reading a token inside a piece that goes on running
LEMMA SameStack ==
  ASSUME Inv, status = "run", GetToken,
         UNCHANGED <<ctl, symbols, sp, lab, loops, code>>
  PROVE  Inv'
BY TokenType DEF Inv, TypeOK, Bottom, LoopStack, loops, symbols

LEMMA TopType ==
  ASSUME Inv
  PROVE  /\ Top \in Item /\ Top.arg \in Token \cup {""} /\ Top.n \in Nat
         /\ Top.l1 \in Nat /\ Top.l2 \in Nat
         /\ token \in Token /\ lab \in Nat \ {0} /\ sp \in Int /\ Word \in Nat
<1>1. ctl \in Seq(Item) /\ ctl # <<>> /\ Top = Head(ctl)
  BY DEF Inv, TypeOK, Top
<1>2. Top \in Item
  BY <1>1
<1>3. token \in Token /\ lab \in Nat \ {0} /\ sp \in Int
  BY DEF Inv, TypeOK
<1>4. Word \in Nat
  BY BoundsAssumption
<1>5. QED
  BY <1>2, <1>3, <1>4 DEF Item

LEMMA TopNumbers ==
  ASSUME Inv
  PROVE  /\ Top.n \in Nat /\ Top.n + 1 \in Nat /\ Word * Top.n \in Int
         /\ lab + 1 \in Nat \ {0} /\ lab + 2 \in Nat \ {0}
         /\ sp - Word \in Int /\ sp + Word \in Int /\ sp + Word * Top.n \in Int
<1>1. Top.n \in Nat /\ lab \in Nat \ {0} /\ sp \in Int /\ Word \in Nat
  BY TopType
<1>2. \A x \in Nat, y \in Nat : x + 1 \in Nat /\ x * y \in Int
  OBVIOUS
<1>3. \A x \in Nat \ {0} : x + 1 \in Nat \ {0} /\ x + 2 \in Nat \ {0}
  OBVIOUS
<1>4. \A x \in Int, y \in Int : x - y \in Int /\ x + y \in Int
  OBVIOUS
<1>5. Top.n + 1 \in Nat /\ Word * Top.n \in Int
  BY <1>1, <1>2
<1>6. lab + 1 \in Nat \ {0} /\ lab + 2 \in Nat \ {0}
  BY <1>1, <1>3
<1>7. sp - Word \in Int /\ sp + Word \in Int /\ sp + Word * Top.n \in Int
  BY <1>1, <1>4, <1>5
<1>8. QED
  BY <1>1, <1>5, <1>6, <1>7

\* emitting well-typed instructions
LEMMA EmitType ==
  ASSUME Inv
  PROVE  /\ \A x \in Instruction : Emit(<<x>>) => code' \in Seq(Instruction)
         /\ \A x, y \in Instruction : Emit(<<x, y>>) => code' \in Seq(Instruction)
         /\ \A op \in {"entry", "label", "jump", "jz"}, l \in Nat : Instr(op, l) \in Instruction
<1>1. code \in Seq(Instruction) /\ sp \in Int
  BY DEF Inv, TypeOK
<1>2. \A x \in Instruction : code \o <<x>> \in Seq(Instruction)
  BY <1>1
<1>3. \A x, y \in Instruction : code \o <<x, y>> \in Seq(Instruction)
  BY <1>1
<1>4. QED
  BY <1>1, <1>2, <1>3 DEF Emit, Instr, Instruction

LEMMA TokenConstants ==
  /\ \A t \in {")", "]", ";", "("} : t \in Token
  /\ Names \subseteq Token
BY DEF Token, Reserved

LEMMA DeclarationsInv ==
  ASSUME Inv, Declarations
  PROVE  Inv'
<1>1. CASE Start
  <2>1. Plain(<<It("program")>>)
    BY PlainShort DEF It, Piece, Item, Places
  <2>2. QED
    BY <1>1, <2>1, QuietStep DEF Start, At, Top, Outermost, It, Piece
<1>2. CASE Program
  <2> DEFINE p == <<It("progName"), It("program")>>
  <2>1. Plain(p) /\ p # <<>> /\ p[Len(p)].at \in Outermost
    BY PlainShort DEF It, Piece, Item, Places, Outermost
  <2>2. CASE token = EOF /\ status' = "done" /\ UNCHANGED <<token, ntok, ctl>>
    BY <1>2, <2>2 DEF Program, Inv, TypeOK, Bottom, LoopStack, loops, symbols
  <2>3. CASE (GetToken \/ Stay) /\ Goto(p)
    BY <1>2, <2>1, <2>3, QuietStep DEF Program, At, Top
  <2>4. QED
    BY <1>2, <2>2, <2>3 DEF Program
<1>3. CASE ProgramName
  <2>1. Plain(<<With("progKind", token)>>)
    BY TopType, PlainShort DEF With, Piece, Item, Places
  <2>2. QED
    BY <1>3, <2>1, QuietStep DEF ProgramName, At, Top, Outermost
<1>4. CASE ProgramKind
  <2>1. Plain(<<It("params")>>) /\ Plain(<<With("dim", Top.arg), Expect(";")>>)
    BY TopType, TokenConstants, PlainShort DEF It, With, Expect, Piece, Item, Places
  <2>2. CASE Goto(<<It("params")>>) /\ GetToken /\ Emit(<<Instr("entry", 0)>>)
    <3>1. code' \in Seq(Instruction)
      BY <2>2, EmitType
    <3>2. QED
      BY <1>4, <2>1, <2>2, <3>1, PlainStep
         DEF ProgramKind, At, Top, Outermost, symbols, Inv, TypeOK
  <2>3. CASE Goto(<<With("dim", Top.arg), Expect(";")>>) /\ Stay /\ UNCHANGED code
    BY <1>4, <2>1, <2>3, QuietStep DEF ProgramKind, At, Top, Outermost
  <2>4. QED
    BY <1>4, <2>2, <2>3 DEF ProgramKind
<1>5. CASE Dimension
  <2>1. Plain(<<With("dimSize", Top.arg)>>) /\ Plain(<<With("declare", Top.arg)>>)
    BY TopType, PlainShort DEF With, Piece, Item, Places
  <2>2. QED
    BY <1>5, <2>1, QuietStep DEF Dimension, At, Top, Outermost
<1>6. CASE DimensionSize
  <2> DEFINE p == <<Expect("]"), Piece("declare", Top.arg, NumVal[token], 0, 0, 0)>>
  <2>1. NumVal[token] \in Nat
    BY <1>6 DEF DimensionSize, NumVal
  <2>2. Plain(p)
    BY <2>1, TopType, TokenConstants, PlainShort DEF Expect, With, Piece, Item, Places
  <2>3. QED
    BY <1>6, <2>2, QuietStep DEF DimensionSize, At, Top, Outermost
<1>7. CASE Declare
  <2> DEFINE sym(offset) == [name |-> Top.arg, offset |-> offset, size |-> Top.n]
  <2>1. \A offset \in Int : sym(offset) \in Symbol
    BY TopType DEF Symbol
  <2>2. globals \in Seq(Symbol) /\ locals \in Seq(Symbol) /\ lab \in Nat /\ sp \in Int
    BY DEF Inv, TypeOK
  <2>a. Len(globals) <= MaxGlobals /\ Len(locals) <= MaxLocals
        /\ MaxGlobals \in Nat /\ MaxLocals \in Nat
    BY BoundsAssumption DEF Inv, TypeOK
  <2>3. /\ globals' \in Seq(Symbol) /\ locals' \in Seq(Symbol)
        /\ Len(globals') <= MaxGlobals /\ Len(locals') <= MaxLocals
        /\ sp' \in Int /\ lab' \in Nat \ {0}
    <3>1. CASE locals # <<>>
      <4> DEFINE cells == IF Top.n > 0 THEN Top.n ELSE 1
      <4>1. /\ sp' = sp - 8 * cells
            /\ locals' = Append(locals, sym(sp'))
            /\ Len(locals) < MaxLocals
            /\ UNCHANGED <<globals, lab>>
        BY <1>7, <3>1 DEF Declare, AddSymbol
      <4>2. cells \in Nat
        BY TopType
      <4>3. sp' \in Int
        BY <4>1, <4>2, <2>2
      <4>4. sym(sp') \in Symbol
        BY <4>3, <2>1
      <4>. HIDE DEF sym
      <4>5. locals' \in Seq(Symbol) /\ Len(locals') <= MaxLocals
        BY <4>1, <4>4, <2>2, <2>a
      <4>6. QED
        BY <4>1, <4>3, <4>5, <2>2, <2>a, TopType
    <3>2. CASE locals = <<>>
      <4>1. /\ globals' = Append(globals, sym(lab))
            /\ lab' = lab + 1
            /\ Len(globals) < MaxGlobals
            /\ UNCHANGED <<locals, sp>>
        BY <1>7, <3>2 DEF Declare, AddSymbol
      <4>2. sym(lab) \in Symbol
        BY <2>1, <2>2
      <4>. HIDE DEF sym
      <4>3. globals' \in Seq(Symbol) /\ Len(globals') <= MaxGlobals
        BY <4>1, <4>2, <2>2, <2>a
      <4>4. QED
        BY <4>1, <4>3, <2>2, <2>a
    <3>3. QED
      BY <3>1, <3>2
  <2>4. Plain(<<>>)
    BY PlainShort
  <2>5. code' \in Seq(Instruction)
    BY <1>7 DEF Declare, Inv, TypeOK
  <2>6. QED
    BY <1>7, <2>3, <2>4, <2>5, PlainStep DEF Declare, At, Top, Outermost
<1>8. QED
  BY <1>1, <1>2, <1>3, <1>4, <1>5, <1>6, <1>7 DEF Declarations

LEMMA EmptyTable == <<>> \in Seq(Symbol) /\ Len(<<>>) <= MaxGlobals /\ Len(<<>>) <= MaxLocals
BY BoundsAssumption

LEMMA FunctionPartsInv ==
  ASSUME Inv, FunctionParts
  PROVE  Inv'
<1>0. Plain(<<>>)
  BY PlainShort
<1>1. CASE SkipParams
  <2>1. Plain(<<It("funcOpen")>>)
    BY PlainShort DEF It, Piece, Item, Places
  <2>2. CASE token = ")"
    BY <1>1, <2>1, <2>2, QuietStep DEF SkipParams, At, Top, Outermost
  <2>3. CASE token # ")"
    <3>1. /\ UNCHANGED <<ctl, symbols, sp, lab, loops, code>>
          /\ GetToken
          /\ status = "run"
      BY <1>1, <2>3 DEF SkipParams, At
    <3>2. QED
      BY <3>1, SameStack
  <2>4. QED
    BY <2>2, <2>3
<1>2. CASE FunctionOpen
  <2>1. Plain(<<It("locals")>>)
    BY PlainShort DEF It, Piece, Item, Places
  <2>2. locals' \in Seq(Symbol) /\ Len(locals') <= MaxLocals /\ sp' \in Int
    <3>1. locals' \in Seq(Symbol) /\ Len(locals') <= MaxLocals
      BY <1>2, EmptyTable DEF FunctionOpen
    <3>2. sp' = 0
      BY <1>2 DEF FunctionOpen
    <3>3. QED
      BY <3>1, <3>2
  <2>3. QED
    BY <1>2, <2>1, <2>2, PlainStep DEF FunctionOpen, At, Top, Outermost, Inv, TypeOK
<1>3. CASE Locals
  <2>1. Plain(<<It("localName")>>) /\ Plain(<<It("body")>>)
    BY PlainShort DEF It, Piece, Item, Places
  <2>2. QED
    BY <1>3, <2>1, QuietStep DEF Locals, At, Top, Outermost
<1>4. CASE LocalName
  <2>1. Plain(<<With("dim", token), It("localNext")>>)
    BY TopType, PlainShort DEF It, With, Piece, Item, Places
  <2>2. QED
    BY <1>4, <2>1, QuietStep DEF LocalName, At, Top, Outermost
<1>5. CASE LocalNext
  <2>1. Plain(<<It("localName")>>) /\ Plain(<<Expect(";"), It("locals")>>)
    BY TokenConstants, PlainShort DEF It, Expect, With, Piece, Item, Places
  <2>2. QED
    BY <1>5, <2>1, QuietStep DEF LocalNext, At, Top, Outermost
<1>6. CASE Body
  <2>1. Plain(<<It("stmt"), It("body")>>)
    BY PlainShort DEF It, Piece, Item, Places
  <2>2. /\ locals' \in Seq(Symbol) /\ globals' \in Seq(Symbol)
        /\ Len(globals') <= MaxGlobals /\ Len(locals') <= MaxLocals
    BY <1>6, EmptyTable DEF Body, Inv, TypeOK
  <2>3. QED
    BY <1>6, <1>0, <2>1, <2>2, PlainStep DEF Body, At, Top, Outermost, Inv, TypeOK
<1>7. QED
  BY <1>1, <1>2, <1>3, <1>4, <1>5, <1>6 DEF FunctionParts

LEMMA ExpressionsInv ==
  ASSUME Inv, Expressions
  PROVE  Inv'
<1>0. Plain(<<>>)
  BY PlainShort
<1>a. ASSUME NEW p, Plain(p), status = "run", Goto(p), GetToken \/ Stay,
             Top.at \notin Outermost \cup {"whileEnd"},
             sp' \in Int, lab' \in Nat \ {0}, UNCHANGED <<symbols, loops, code>>
      PROVE  Inv'
  BY <1>a, PlainStep DEF symbols, Inv, TypeOK
<1>b. ASSUME Push
      PROVE  sp' \in Int
  BY <1>b, TopNumbers DEF Push
<1>c. lab' = lab => lab' \in Nat \ {0}
  BY TopType
<1>d. sp' = sp => sp' \in Int
  BY TopType
<1>1. CASE Expression
  <2>1. Plain(<<It("assign")>>)
    BY PlainShort DEF It, Piece, Item, Places
  <2>2. Plain(Operand(1) \o <<It("assign")>>)
    BY <2>1, OperandPlain, PlainConcat
  <2>3. QED
    BY <1>1, <2>2, QuietStep DEF Expression, At, Top, Outermost
<1>2. CASE Assignment
  <2>1. Plain(<<It("expr"), It("pop")>>)
    BY PlainShort DEF It, Piece, Item, Places
  <2>2. QED
    BY <1>2, <1>0, <1>a, <1>b, <1>c, <1>d, <2>1 DEF Assignment, At, Top, Outermost
<1>3. CASE BinaryLoop
  <2>1. Plain(<<It("pop"), Top>>)
    BY <1>3, TopType, PlainShort DEF BinaryLoop, At, Top, It, Piece, Item, Places
  <2>2. Top.n + 1 \in Nat
    BY TopNumbers
  <2>3. Plain(Operand(Top.n + 1) \o <<It("pop"), Top>>)
    BY <2>1, <2>2, OperandPlain, PlainConcat
  <2>4. QED
    BY <1>3, <1>0, <1>a, <1>b, <1>c, <1>d, <2>3 DEF BinaryLoop, At, Top, Outermost
<1>4. CASE Pop
  <2>1. sp' \in Int
    BY <1>4, TopNumbers DEF Pop
  <2>2. QED
    BY <1>4, <1>0, <1>a, <1>c, <2>1 DEF Pop, At, Top, Outermost
<1>5. CASE Unary
  <2>1. /\ Plain(<<It("unary")>>) /\ Plain(<<It("addressOf")>>)
        /\ Plain(<<It("primary"), It("postfix")>>)
    BY PlainShort DEF It, Piece, Item, Places
  <2>2. QED
    BY <1>5, <2>1, QuietStep DEF Unary, At, Top, Outermost
<1>6. CASE AddressOf
  BY <1>6, <1>0, QuietStep DEF AddressOf, At, Top, Outermost
<1>7. CASE Postfix
  <2> DEFINE p == <<It("expr"), Expect("]"), It("pop"), It("postfix")>>
  <2>1. Plain(p)
    <3>1. p = <<It("expr"), Expect("]")>> \o <<It("pop"), It("postfix")>>
      OBVIOUS
    <3>2. Plain(<<It("expr"), Expect("]")>>) /\ Plain(<<It("pop"), It("postfix")>>)
      BY TokenConstants, PlainShort DEF It, Expect, With, Piece, Item, Places
    <3>3. QED
      BY <3>1, <3>2, PlainConcat
  <2>2. CASE GetToken /\ UNCHANGED <<ctl, sp>>
    BY <1>7, <2>2, SameStack DEF Postfix, At
  <2>3. CASE Push /\ GetToken /\ Goto(p)
    BY <1>7, <1>a, <1>b, <1>c, <2>1, <2>3 DEF Postfix, At, Top, Outermost
  <2>4. CASE Stay /\ Goto(<<>>) /\ UNCHANGED sp
    BY <1>7, <1>0, <1>a, <1>c, <1>d, <2>4 DEF Postfix, At, Top, Outermost
  <2>5. QED
    BY <1>7, <2>2, <2>3, <2>4 DEF Postfix
<1>8. CASE Primary
  <2>1. Plain(<<It("expr"), Expect(")")>>)
    BY TokenConstants, PlainShort DEF It, Expect, With, Piece, Item, Places
  <2>2. Plain(<<With("name", token)>>)
    BY TopType, PlainShort DEF With, Piece, Item, Places
  <2>3. lab' \in Nat \ {0}
    BY <1>8, TopType, TopNumbers DEF Primary
  <2>4. QED
    BY <1>8, <1>0, <1>a, <1>d, <2>1, <2>2, <2>3 DEF Primary, At, Top, Outermost
<1>9. CASE NameUse
  <2>1. Plain(<<It("callOpen")>>)
    BY PlainShort DEF It, Piece, Item, Places
  <2>2. QED
    BY <1>9, <1>0, <2>1, QuietStep DEF NameUse, At, Top, Outermost
<1>10. CASE CallOpen
  <2>1. Plain(<<Count("callClose", 0)>>) /\ Plain(<<It("expr"), Count("callArg", 0)>>)
    BY PlainShort DEF It, Count, Piece, Item, Places
  <2>2. QED
    BY <1>10, <2>1, QuietStep DEF CallOpen, At, Top, Outermost
<1>11. CASE CallArg
  <2>1. Top.n + 1 \in Nat
    BY TopNumbers
  <2>2. Plain(<<Piece("callMore", token, Top.n + 1, 0, 0, 0)>>)
    BY <2>1, TopType, PlainShort DEF Piece, Item, Places
  <2>3. QED
    BY <1>11, <1>a, <1>b, <1>c, <2>2 DEF CallArg, At, Top, Outermost
<1>12. CASE CallMore
  <2>1. Plain(<<Count("callClose", Top.n)>>) /\ Plain(<<It("expr"), Count("callArg", Top.n)>>)
    BY TopType, PlainShort DEF It, Count, Piece, Item, Places
  <2>2. QED
    BY <1>12, <2>1, QuietStep DEF CallMore, At, Top, Outermost
<1>13. CASE CallClose
  <2>1. sp' \in Int
    BY <1>13, TopType, TopNumbers DEF CallClose
  <2>2. QED
    BY <1>13, <1>0, <1>a, <1>c, <2>1 DEF CallClose, At, Top, Outermost
<1>14. QED
  BY <1>1, <1>2, <1>3, <1>4, <1>5, <1>6, <1>7, <1>8, <1>9, <1>10, <1>11, <1>12, <1>13
     DEF Expressions

-----------------------------------------------------------------------------
(* Statements: the two actions that change the loop stack come first *)

LEMMA WhileHeadInv ==
  ASSUME Inv, WhileHead
  PROVE  Inv'
<1> DEFINE test == Piece("whileTest", "", 0, 0, lab + 1, 0)
           end == Piece("whileEnd", "", 0, lab, lab + 1, wsp)
           p == <<It("expr"), test, It("stmt"), end>>
           d == p \o Tail(ctl)
<1>1. ctl \in Seq(Item) /\ ctl # <<>> /\ 1 \in DOMAIN ctl /\ DOMAIN ctl = 1..Len(ctl)
      /\ Len(ctl) \in Nat
  BY DEF Inv, TypeOK
<1>2. /\ ctl[1].at = "whileHead" /\ status = "run" /\ GetToken
      /\ wsp \in Nat /\ wsp < MaxWhile /\ lab \in Nat /\ lab + 1 \in Nat
  <2>1. Head(ctl) = ctl[1]
    BY <1>1
  <2>2. wsp \in Nat /\ lab \in Nat /\ lab + 1 \in Nat
    BY BoundsAssumption DEF Inv, TypeOK
  <2>3. QED
    BY <2>1, <2>2 DEF WhileHead, At
<1>3. /\ ctl' = d
      /\ wsp' = wsp + 1
      /\ breaklab' = [breaklab EXCEPT ![wsp] = lab + 1]
      /\ contlab' = [contlab EXCEPT ![wsp] = lab]
      /\ lab' = lab + 2
  BY DEF WhileHead, Goto
<1>4. /\ p \in Seq(Item) /\ Len(p) = 4 /\ p[4] = end
      /\ \A i \in 1..4 : p[i].at = "whileEnd" => i = 4
      /\ end.at = "whileEnd" /\ end.slot = wsp /\ end.l1 = lab /\ end.l2 = lab + 1
  <2>1. It("expr") \in Item /\ It("stmt") \in Item /\ test \in Item /\ end \in Item
    BY <1>2 DEF It, Piece, Item, Places
  <2>2. /\ It("expr").at = "expr" /\ It("stmt").at = "stmt" /\ test.at = "whileTest"
        /\ end.at = "whileEnd" /\ end.slot = wsp /\ end.l1 = lab /\ end.l2 = lab + 1
    BY DEF It, Piece
  <2>. HIDE DEF test, end
  <2>3. QED
    BY <2>1, <2>2
<1>. HIDE DEF p, end, test
<1>5. /\ d \in Seq(Item)
      /\ Len(d) = Len(ctl) + 3
      /\ \A i \in 1..4 : d[i] = p[i]
      /\ \A i \in 2..Len(ctl) : d[i + 3] = ctl[i]
      /\ \A i \in DOMAIN d : i <= 4 \/ (i - 3 \in 2..Len(ctl) /\ d[i] = ctl[i - 3])
  <2>1. /\ d \in Seq(Item)
        /\ Len(d) = Len(p) + Len(ctl) - 1
        /\ \A i \in 1..Len(p) : d[i] = p[i]
        /\ \A i \in 2..Len(ctl) : d[Len(p) + i - 1] = ctl[i]
        /\ \A i \in DOMAIN d : i <= Len(p) \/ (i - Len(p) + 1 \in 2..Len(ctl)
                                                 /\ d[i] = ctl[i - Len(p) + 1])
    <3>1. ctl \in Seq(Item) /\ ctl # <<>> /\ p \in Seq(Item)
      BY <1>1, <1>4
    <3>2. QED
      BY <3>1, GotoIndex
  <2>. HIDE DEF d
  <2>2. \A i \in 2..Len(ctl) : Len(p) + i - 1 = i + 3
    BY <1>4
  <2>3. \A i \in DOMAIN d : i \in Int /\ i - Len(p) + 1 = i - 3
    BY <1>4, <2>1
  <2>4. QED
    BY <2>1, <2>2, <2>3, <1>1, <1>4
<1>a. \A i \in DOMAIN d : d[i].at = "whileEnd" =>
         \/ i = 4 /\ d[i] = end
         \/ i > 4 /\ i - 3 \in DOMAIN ctl /\ d[i] = ctl[i - 3] /\ ctl[i - 3].at = "whileEnd"
  <2> SUFFICES ASSUME NEW i \in DOMAIN d, d[i].at = "whileEnd"
               PROVE  \/ i = 4 /\ d[i] = end
                      \/ i > 4 /\ i - 3 \in DOMAIN ctl /\ d[i] = ctl[i - 3]
                         /\ ctl[i - 3].at = "whileEnd"
    OBVIOUS
  <2>. HIDE DEF d
  <2>1. i \in Nat /\ i >= 1
    BY <1>5
  <2>2. CASE i <= 4
    <3>1. i \in 1..4 /\ d[i] = p[i]
      BY <2>1, <2>2, <1>5
    <3>2. QED
      BY <3>1, <1>4
  <2>3. CASE i > 4
    <3>1. i - 3 \in 2..Len(ctl) /\ d[i] = ctl[i - 3]
      BY <2>1, <2>3, <1>5
    <3>2. i - 3 \in DOMAIN ctl
      BY <3>1, <1>1
    <3>3. QED
      BY <3>1, <3>2, <2>3
  <2>4. QED
    BY <2>1, <2>2, <2>3
<1>. HIDE DEF d
<1>6. \A s \in 0..(MaxWhile - 1) : s # wsp => breaklab'[s] = breaklab[s] /\ contlab'[s] = contlab[s]
  BY <1>3 DEF Inv, TypeOK
<1>7. breaklab'[wsp] = lab + 1 /\ contlab'[wsp] = lab
  BY <1>2, <1>3, BoundsAssumption DEF Inv, TypeOK
<1>8. \A i \in DOMAIN ctl : ctl[i].at = "whileEnd" =>
        /\ ctl[i].slot \in Nat /\ ctl[i].slot < wsp
        /\ breaklab[ctl[i].slot] = ctl[i].l2 /\ contlab[ctl[i].slot] = ctl[i].l1
  <2>a. \A i \in DOMAIN ctl : ctl[i] \in Item
    BY <1>1
  <2>1. \A i \in DOMAIN ctl : ctl[i].slot \in Nat
    BY <2>a DEF Item
  <2>2. QED
    BY <2>1 DEF Inv, LoopStack, LoopStackOf
<1>9. LoopStack'
  <2>1. ASSUME NEW i \in DOMAIN d, d[i].at = "whileEnd"
        PROVE  d[i].slot < wsp' /\ breaklab'[d[i].slot] = d[i].l2 /\ contlab'[d[i].slot] = d[i].l1
    <3>1. CASE d[i] = end
      <4>1. d[i].slot = wsp /\ wsp < wsp'
        BY <3>1, <1>2, <1>3, <1>4
      <4>2. QED
        BY <3>1, <4>1, <1>4, <1>7
    <3>2. CASE i - 3 \in DOMAIN ctl /\ d[i] = ctl[i - 3] /\ ctl[i - 3].at = "whileEnd"
      <4> DEFINE t == d[i].slot
      <4>1. t \in Nat /\ t < wsp /\ breaklab[t] = d[i].l2 /\ contlab[t] = d[i].l1
        BY <3>2, <1>8
      <4>. HIDE DEF t
      <4>2. t \in 0..(MaxWhile - 1) /\ t # wsp /\ t < wsp'
        BY <4>1, <1>2, <1>3, BoundsAssumption
      <4>3. breaklab'[t] = d[i].l2 /\ contlab'[t] = d[i].l1
        BY <4>1, <4>2, <1>6
      <4>4. QED
        BY <4>2, <4>3 DEF t
    <3>3. QED
      BY <2>1, <3>1, <3>2, <1>a
  <2>2. ASSUME NEW i \in DOMAIN d, NEW j \in DOMAIN d,
               d[i].at = "whileEnd", d[j].at = "whileEnd", i < j
        PROVE  d[i].slot > d[j].slot
    <3>1. i \in Nat /\ j \in Nat /\ i >= 1
      BY <1>5
    <3>2. \/ i = 4 /\ d[i] = end
          \/ i > 4 /\ i - 3 \in DOMAIN ctl /\ d[i] = ctl[i - 3] /\ ctl[i - 3].at = "whileEnd"
      BY <2>2, <1>a
    <3>3. j - 3 \in DOMAIN ctl /\ d[j] = ctl[j - 3] /\ ctl[j - 3].at = "whileEnd"
      <4>1. j # 4
        BY <2>2, <3>1, <3>2
      <4>2. QED
        BY <2>2, <4>1, <1>a
    <3>4. CASE i = 4 /\ d[i] = end
      <4>1. d[i].slot = wsp
        BY <3>4, <1>4
      <4>2. d[j].slot \in Nat /\ d[j].slot < wsp
        BY <3>3, <1>8
      <4>3. QED
        BY <4>1, <4>2, <1>2
    <3>5. CASE i - 3 \in DOMAIN ctl /\ d[i] = ctl[i - 3] /\ ctl[i - 3].at = "whileEnd"
      <4>1. i - 3 < j - 3
        BY <2>2, <3>1
      <4>2. QED
        BY <3>3, <3>5, <4>1 DEF Inv, LoopStack, LoopStackOf
    <3>6. QED
      BY <3>2, <3>4, <3>5
  <2>3. ASSUME NEW s \in 0..(wsp' - 1)
        PROVE  \E i \in DOMAIN d : d[i].at = "whileEnd" /\ d[i].slot = s
    <3>1. CASE s = wsp
      <4>1. 4 \in DOMAIN d /\ d[4] = end
        BY <1>1, <1>4, <1>5
      <4>2. QED
        BY <3>1, <4>1, <1>4
    <3>2. CASE s # wsp
      <4>1. s \in 0..(wsp - 1)
        BY <3>2, <1>2, <1>3
      <4>2. PICK i \in DOMAIN ctl : ctl[i].at = "whileEnd" /\ ctl[i].slot = s
        BY <4>1 DEF Inv, LoopStack, LoopStackOf
      <4>3. i \in 2..Len(ctl)
        BY <4>2, <1>1, <1>2
      <4>4. i + 3 \in DOMAIN d /\ d[i + 3] = ctl[i]
        BY <4>3, <1>1, <1>5
      <4>5. QED
        BY <4>2, <4>4
    <3>3. QED
      BY <3>1, <3>2
  <2>4. QED
    BY <1>3, <2>1, <2>2, <2>3 DEF LoopStack, LoopStackOf
<1>10. ctl' # <<>> /\ Bottom'
  <2>1. ctl[1].at \notin Outermost
    BY <1>2 DEF Outermost
  <2>2. d # <<>> /\ d[Len(d)].at \in Outermost
    BY <1>1, <1>4, <2>1, GotoBottom DEF Inv, Bottom, d
  <2>3. QED
    BY <1>3, <2>2 DEF Bottom
<1>11. TypeOK'
  <2>1. code' \in Seq(Instruction)
    <3>1. Instr("label", lab) \in Instruction
      BY EmitType, <1>2
    <3>2. QED
      BY <3>1, EmitType DEF WhileHead
  <2>2. wsp' \in 0..MaxWhile
    BY <1>2, <1>3, BoundsAssumption
  <2>3. breaklab' \in [0..(MaxWhile - 1) -> Nat] /\ contlab' \in [0..(MaxWhile - 1) -> Nat]
    BY <1>2, <1>3 DEF Inv, TypeOK
  <2>4. lab' \in Nat \ {0}
    BY <1>3, TopNumbers
  <2>5. /\ token' \in Token /\ ntok' \in 0..MaxTokens
        /\ status' \in {"run", "done", "error", "overrun"}
    BY <1>2, TokenType DEF Inv
  <2>6. ctl' \in Seq(Item) /\ ctl' # <<>>
    BY <1>3, <1>5, <1>10
  <2>7. /\ globals' \in Seq(Symbol) /\ locals' \in Seq(Symbol) /\ sp' \in Int
        /\ Len(globals') <= MaxGlobals /\ Len(locals') <= MaxLocals
    BY DEF WhileHead, symbols, Inv, TypeOK
  <2>8. QED
    BY <2>1, <2>2, <2>3, <2>4, <2>5, <2>6, <2>7 DEF TypeOK
<1>12. status' # "overrun"
  BY <1>2, TokenType DEF Inv
<1>13. QED
  BY <1>9, <1>10, <1>11, <1>12 DEF Inv

LEMMA WhileEndInv ==
  ASSUME Inv, WhileEnd
  PROVE  Inv'
<1> DEFINE d == Tail(ctl)
<1>1. ctl \in Seq(Item) /\ ctl # <<>> /\ DOMAIN ctl = 1..Len(ctl) /\ Len(ctl) \in Nat
      /\ wsp \in Nat /\ Len(ctl) > 0
  BY BoundsAssumption DEF Inv, TypeOK
<1>2. /\ ctl[1].at = "whileEnd" /\ status = "run" /\ Stay
      /\ wsp' = wsp - 1 /\ UNCHANGED <<symbols, sp, lab, breaklab, contlab>>
  <2>1. Head(ctl) = ctl[1]
    BY <1>1
  <2>2. QED
    BY <2>1 DEF WhileEnd, At
<1>3. ctl' = d
  <2>1. d \in Seq(Item)
    BY <1>1
  <2>2. <<>> \o d = d
    BY <2>1
  <2>3. QED
    BY <2>2 DEF WhileEnd, Goto
<1>4. d \in Seq(Item) /\ DOMAIN d = 1..(Len(ctl) - 1) /\ Len(d) = Len(ctl) - 1
      /\ \A i \in 1..(Len(ctl) - 1) : d[i] = ctl[i + 1]
  BY <1>1
<1>. HIDE DEF d
<1>5. ctl[1].slot \in Nat /\ ctl[1].slot < wsp
  <2>1. ctl[1] \in Item /\ 1 \in DOMAIN ctl
    BY <1>1
  <2>2. QED
    BY <2>1, <1>2 DEF Item, Inv, LoopStack, LoopStackOf
\* the innermost piece holds the topmost slot
<1>6. ctl[1].slot = wsp - 1
  <2>1. wsp - 1 \in 0..(wsp - 1)
    BY <1>1, <1>5
  <2>2. PICK i \in DOMAIN ctl : ctl[i].at = "whileEnd" /\ ctl[i].slot = wsp - 1
    BY <2>1 DEF Inv, LoopStack, LoopStackOf
  <2>3. CASE i = 1
    BY <2>2, <2>3
  <2>4. CASE i # 1
    <3>1. 1 \in DOMAIN ctl /\ 1 < i
      BY <2>4, <1>1
    <3>2. ctl[1].slot > ctl[i].slot
      BY <2>2, <3>1, <1>2 DEF Inv, LoopStack, LoopStackOf
    <3>3. QED
      BY <2>2, <3>2, <1>1, <1>5
  <2>5. QED
    BY <2>3, <2>4
<1>7. LoopStack'
  <2>0. \A i \in DOMAIN d : i + 1 \in DOMAIN ctl /\ d[i] = ctl[i + 1] /\ i \in Nat /\ 1 < i + 1
    BY <1>1, <1>4
  <2>1. ASSUME NEW i \in DOMAIN d, d[i].at = "whileEnd"
        PROVE  d[i].slot < wsp' /\ breaklab'[d[i].slot] = d[i].l2 /\ contlab'[d[i].slot] = d[i].l1
    <3>1. i + 1 \in DOMAIN ctl /\ d[i] = ctl[i + 1] /\ 1 < i + 1 /\ 1 \in DOMAIN ctl
      BY <2>0, <1>1
    <3>2. ctl[1].slot > d[i].slot
      BY <2>1, <3>1, <1>2 DEF Inv, LoopStack, LoopStackOf
    <3>3. d[i].slot < wsp'
      BY <3>2, <1>2, <1>6
    <3>4. breaklab[d[i].slot] = d[i].l2 /\ contlab[d[i].slot] = d[i].l1
      BY <2>1, <3>1 DEF Inv, LoopStack, LoopStackOf
    <3>5. QED
      BY <3>3, <3>4, <1>2
  <2>2. ASSUME NEW i \in DOMAIN d, NEW j \in DOMAIN d,
               d[i].at = "whileEnd", d[j].at = "whileEnd", i < j
        PROVE  d[i].slot > d[j].slot
    <3>1. i + 1 \in DOMAIN ctl /\ d[i] = ctl[i + 1] /\ j + 1 \in DOMAIN ctl /\ d[j] = ctl[j + 1]
          /\ i + 1 < j + 1
      BY <2>0, <2>2
    <3>2. QED
      BY <2>2, <3>1 DEF Inv, LoopStack, LoopStackOf
  <2>3. ASSUME NEW s \in 0..(wsp' - 1)
        PROVE  \E i \in DOMAIN d : d[i].at = "whileEnd" /\ d[i].slot = s
    <3>1. s \in 0..(wsp - 1) /\ s # wsp - 1
      BY <1>1, <1>2
    <3>2. PICK i \in DOMAIN ctl : ctl[i].at = "whileEnd" /\ ctl[i].slot = s
      BY <3>1 DEF Inv, LoopStack, LoopStackOf
    <3>3. i # 1
      BY <3>1, <3>2, <1>6
    <3>4. i - 1 \in 1..(Len(ctl) - 1) /\ i - 1 + 1 = i
      BY <3>3, <1>1
    <3>5. d[i - 1] = ctl[i] /\ i - 1 \in DOMAIN d
      BY <3>4, <1>4
    <3>6. QED
      BY <3>2, <3>5
  <2>4. QED
    BY <1>3, <2>1, <2>2, <2>3 DEF LoopStack, LoopStackOf
<1>8. ctl' # <<>> /\ Bottom'
  <2>1. ctl[1].at \notin Outermost /\ <<>> \in Seq(Item)
    BY <1>2 DEF Outermost
  <2>2. <<>> \o d # <<>> /\ (<<>> \o d)[Len(<<>> \o d)].at \in Outermost
    BY <2>1, <1>1, GotoBottom DEF Inv, Bottom, d
  <2>3. <<>> \o d = d
    BY <1>4
  <2>4. QED
    BY <1>3, <2>2, <2>3 DEF Bottom
<1>9. TypeOK'
  <2>1. code' \in Seq(Instruction)
    <3>1. Top.l1 \in Nat /\ Top.l2 \in Nat
      BY TopType
    <3>2. Instr("jump", Top.l1) \in Instruction /\ Instr("label", Top.l2) \in Instruction
      BY EmitType, <3>1
    <3>3. QED
      BY <3>2, EmitType DEF WhileEnd
  <2>2. wsp' \in 0..MaxWhile
    BY <1>2, <1>5, BoundsAssumption DEF Inv, TypeOK
  <2>3. QED
    BY <2>1, <2>2, <1>2, <1>3, <1>4, <1>8 DEF Inv, TypeOK, Stay, input, symbols
<1>10. status' # "overrun"
  BY <1>2 DEF Stay, input
<1>11. QED
  BY <1>7, <1>8, <1>9, <1>10 DEF Inv

LEMMA StatementsInv ==
  ASSUME Inv, Statements
  PROVE  Inv'
<1>0. Plain(<<>>)
  BY PlainShort
<1>a. ASSUME NEW p, Plain(p), status = "run", Goto(p), GetToken \/ Stay,
             Top.at \notin Outermost \cup {"whileEnd"},
             lab' \in Nat \ {0}, code' \in Seq(Instruction),
             UNCHANGED <<symbols, sp, loops>>
      PROVE  Inv'
  BY <1>a, PlainStep DEF symbols, Inv, TypeOK
<1>b. lab' = lab => lab' \in Nat \ {0}
  BY TopType
<1>c. /\ Instr("jz", lab) \in Instruction /\ Instr("jump", lab) \in Instruction
      /\ Instr("label", Top.l1) \in Instruction /\ Instr("jz", Top.l2) \in Instruction
  BY TopType, EmitType
<1>1. CASE ExpectToken
  BY <1>1, <1>0, QuietStep DEF ExpectToken, At, Top, Outermost
<1>2. CASE Statement
  <2>1. /\ Plain(<<It("block")>>) /\ Plain(<<It("whileHead")>>) /\ Plain(<<It("returnValue")>>)
        /\ Plain(<<Expect(";"), It("break")>>) /\ Plain(<<Expect(";"), It("continue")>>)
        /\ Plain(<<It("expr"), Expect(";")>>)
    BY TokenConstants, PlainShort DEF It, Expect, With, Piece, Item, Places
  <2>2. Plain(<<Expect("("), It("expr"), It("ifTest")>>)
    <3>1. Plain(<<Expect("("), It("expr")>>) /\ Plain(<<It("ifTest")>>)
      BY TokenConstants, PlainShort DEF It, Expect, With, Piece, Item, Places
    <3>2. <<Expect("("), It("expr"), It("ifTest")>> = <<Expect("("), It("expr")>> \o <<It("ifTest")>>
      OBVIOUS
    <3>3. QED
      BY <3>1, <3>2, PlainConcat
  <2>3. PICK p : Plain(p) /\ Goto(p) /\ (GetToken \/ Stay)
    BY <1>2, <1>0, <2>1, <2>2 DEF Statement
  <2>4. QED
    BY <1>2, <2>3, QuietStep DEF Statement, At, Top, Outermost
<1>3. CASE Block
  <2>1. Plain(<<It("stmt"), It("block")>>)
    BY PlainShort DEF It, Piece, Item, Places
  <2>2. QED
    BY <1>3, <1>0, <2>1, QuietStep DEF Block, At, Top, Outermost
<1>4. CASE ReturnValue
  <2>1. Plain(<<Expect(";")>>) /\ Plain(<<It("expr"), Expect(";")>>)
    BY TokenConstants, PlainShort DEF It, Expect, With, Piece, Item, Places
  <2>2. QED
    BY <1>4, <2>1, QuietStep DEF ReturnValue, At, Top, Outermost
<1>5. CASE IfTest
  <2>1. Plain(<<It("stmt"), Labelled("ifElse", lab)>>)
    BY TopType, PlainShort DEF It, Labelled, Piece, Item, Places
  <2>2. lab' \in Nat \ {0}
    BY <1>5, TopNumbers DEF IfTest
  <2>3. code' \in Seq(Instruction)
    BY <1>5, <1>c, EmitType DEF IfTest
  <2>4. QED
    BY <1>5, <1>a, <2>1, <2>2, <2>3 DEF IfTest, At, Top, Outermost
<1>6. CASE IfElse
  <2>1. Plain(<<It("stmt"), Labelled("ifEnd", lab)>>)
    BY TopType, PlainShort DEF It, Labelled, Piece, Item, Places
  <2>2. lab' \in Nat \ {0}
    BY <1>6, TopNumbers, TopType DEF IfElse
  <2>3. code' \in Seq(Instruction)
    BY <1>6, <1>c, EmitType DEF IfElse
  <2>4. QED
    BY <1>6, <1>0, <1>a, <2>1, <2>2, <2>3 DEF IfElse, At, Top, Outermost
<1>7. CASE IfEnd
  <2>1. code' \in Seq(Instruction)
    BY <1>7, <1>c, EmitType DEF IfEnd
  <2>2. QED
    BY <1>7, <1>0, <1>a, <1>b, <2>1 DEF IfEnd, At, Top, Outermost
<1>8. CASE WhileHead
  BY <1>8, WhileHeadInv
<1>9. CASE WhileOverrun
  <2>1. wsp = MaxWhile
    BY <1>9, BoundsAssumption DEF WhileOverrun, Inv, TypeOK
  <2>2. QED
    BY <1>9, <2>1 DEF WhileOverrun, Inv, TypeOK, Bottom, LoopStack, loops, symbols
<1>10. CASE WhileTest
  <2>1. code' \in Seq(Instruction)
    BY <1>10, <1>c, EmitType DEF WhileTest
  <2>2. QED
    BY <1>10, <1>0, <1>a, <1>b, <2>1 DEF WhileTest, At, Top, Outermost
<1>11. CASE WhileEnd
  BY <1>11, WhileEndInv
<1>12. CASE LeaveLoop
  <2>1. wsp > 0 => wsp - 1 \in 0..(MaxWhile - 1)
    BY BoundsAssumption DEF Inv, TypeOK
  <2>2. wsp > 0 => breaklab[wsp - 1] \in Nat /\ contlab[wsp - 1] \in Nat
    BY <2>1 DEF Inv, TypeOK
  <2>3. code' \in Seq(Instruction)
    BY <1>12, <2>2, EmitType DEF LeaveLoop
  <2>4. QED
    BY <1>12, <1>0, <1>a, <1>b, <2>3 DEF LeaveLoop, At, Top, Outermost
<1>13. QED
  BY <1>1, <1>2, <1>3, <1>4, <1>5, <1>6, <1>7, <1>8, <1>9, <1>10, <1>11, <1>12 DEF Statements

-----------------------------------------------------------------------------
(* The theorems *)

\* Inv is inductive.
LEMMA InvInit == Init => Inv
<1> SUFFICES ASSUME Init PROVE Inv
  OBVIOUS
<1>1. It("start") \in Item /\ It("start").at = "start"
  BY DEF It, Piece, Item, Places
<1>2. ctl = <<It("start")>> /\ ctl \in Seq(Item) /\ ctl # <<>> /\ Len(ctl) = 1
      /\ \A i \in DOMAIN ctl : ctl[i].at = "start"
  BY <1>1 DEF Init
<1>3. TypeOK
  <2>1. token \in Token
    BY DEF Init, Token, Reserved
  <2>2. breaklab \in [0..(MaxWhile - 1) -> Nat] /\ contlab \in [0..(MaxWhile - 1) -> Nat]
    BY DEF Init
  <2>3. QED
    BY <1>2, <2>1, <2>2, EmptyTable, BoundsAssumption DEF Init, TypeOK
<1>4. Bottom
  BY <1>2 DEF Bottom, Outermost
<1>5. LoopStack
  BY <1>2 DEF Init, LoopStack, LoopStackOf
<1>6. status = "run"
  BY DEF Init
<1>7. QED
  BY <1>3, <1>4, <1>5, <1>6 DEF Inv

LEMMA InvNext == Inv /\ [Next]_vars => Inv'
<1> SUFFICES ASSUME Inv, [Next]_vars PROVE Inv'
  OBVIOUS
<1>1. CASE Declarations
  BY <1>1, DeclarationsInv
<1>2. CASE FunctionParts
  BY <1>2, FunctionPartsInv
<1>3. CASE Statements
  BY <1>3, StatementsInv
<1>4. CASE Expressions
  BY <1>4, ExpressionsInv
<1>5. CASE ErrorExit
  BY <1>5 DEF ErrorExit, Inv, TypeOK, Bottom, LoopStack, loops, symbols
<1>6. CASE UNCHANGED vars
  BY <1>6 DEF vars, input, loops, symbols, Inv, TypeOK, Bottom, LoopStack
<1>7. CASE Stopped
  BY <1>7, <1>6 DEF Stopped
<1>8. QED
  BY <1>1, <1>2, <1>3, <1>4, <1>5, <1>6, <1>7 DEF Next

\* The compiler's state is well typed in every reachable state: in particular
\* no symbol table grows past its limit and program()'s frame stays on the C stack.
\* (Of wsp the code checks nothing; the model stops where it would write past the
\* loop stack, so its range is not a result about the code.)
THEOREM TypeCorrect == Spec => []TypeOK
<1>1. Inv => TypeOK
  BY DEF Inv
<1>2. QED
  BY <1>1, InvInit, InvNext, PTL DEF Spec

\* the loop stack and the C stack agree on the innermost loop
LEMMA InnermostFollows == Inv => InnermostLoop
<1> SUFFICES ASSUME Inv PROVE InnermostLoop
  OBVIOUS
<1>1. wsp \in Nat /\ DOMAIN ctl = 1..Len(ctl) /\ Len(ctl) \in Nat
  BY BoundsAssumption DEF Inv, TypeOK
<1>2. \A i \in DOMAIN ctl : ctl[i] \in Item
  BY DEF Inv, TypeOK
<1>3. \A i \in OpenLoops : ctl[i].slot \in Nat /\ ctl[i].slot < wsp
  BY <1>2 DEF OpenLoops, Item, Inv, LoopStack, LoopStackOf
<1>4. wsp = 0 => OpenLoops = {}
  BY <1>3
<1>5. ASSUME wsp > 0
      PROVE  \E i \in OpenLoops : /\ \A j \in OpenLoops : i <= j
                                 /\ breaklab[wsp - 1] = ctl[i].l2
                                 /\ contlab[wsp - 1] = ctl[i].l1
  <2>1. wsp - 1 \in 0..(wsp - 1)
    BY <1>1, <1>5
  <2>2. PICK i \in DOMAIN ctl : ctl[i].at = "whileEnd" /\ ctl[i].slot = wsp - 1
    BY <2>1 DEF Inv, LoopStack, LoopStackOf
  <2>3. i \in OpenLoops /\ breaklab[wsp - 1] = ctl[i].l2 /\ contlab[wsp - 1] = ctl[i].l1
    BY <2>2 DEF OpenLoops, Inv, LoopStack, LoopStackOf
  <2>4. ASSUME NEW j \in OpenLoops
        PROVE  i <= j
    <3>1. i \in Nat /\ j \in Nat
      BY <1>1 DEF OpenLoops
    <3>2. CASE j < i
      <4>1. ctl[j].slot > ctl[i].slot
        BY <2>2, <3>2 DEF OpenLoops, Inv, LoopStack, LoopStackOf
      <4>2. QED
        BY <4>1, <2>2, <1>1, <1>3
    <3>3. QED
      BY <3>1, <3>2
  <2>5. QED
    BY <2>3, <2>4
<1>6. status = "overrun" => wsp = MaxWhile
  BY DEF Inv
<1>7. QED
  BY <1>4, <1>5, <1>6 DEF InnermostLoop

\* break and continue always find the labels of the innermost open loop.
THEOREM LoopStackCorrect == Spec => []InnermostLoop
BY InnermostFollows, InvInit, InvNext, PTL DEF Spec

-----------------------------------------------------------------------------
(* Labels.  The pieces that still have to emit a label hold the numbers drawn *)
(* for them, the innermost the highest; the theory of the emitted code is in  *)
(* CompilerLemmas.                                                            *)

Owing == {"ifElse", "ifEnd", "whileEnd"}
OwedBy(x) == IF x.at = "whileEnd" THEN x.l2 ELSE x.l1

OwedIn(c) == {l \in Nat : \E i \in DOMAIN c : c[i].at \in Owing /\ OwedBy(c[i]) = l}
HeadsIn(c) == {l \in Nat : \E i \in DOMAIN c : c[i].at = "whileEnd" /\ c[i].l1 = l}
Taken(g) == {l \in Int : \E i \in DOMAIN g : g[i].offset = l}

\* program()'s pieces, which have no open statement below them
FileLevel == {"start", "program", "progName", "progKind"}

SortedIn(c) ==
  /\ \A i \in DOMAIN c : c[i].at \in Owing => c[i].l1 <= OwedBy(c[i])
  /\ \A i, j \in DOMAIN c :
       c[i].at \in Owing /\ c[j].at \in Owing /\ i < j => OwedBy(c[j]) < c[i].l1
\* the test of a loop jumps to its end
TestsIn(c) ==
  \A i \in DOMAIN c : c[i].at = "whileTest" =>
    \E j \in DOMAIN c : i < j /\ c[j].at = "whileEnd" /\ c[j].l2 = c[i].l2
LevelledIn(c) ==
  \A i, j \in DOMAIN c : i < j /\ c[i].at \in FileLevel => c[j].at \notin Owing
Nested(c) == SortedIn(c) /\ TestsIn(c) /\ LevelledIn(c)

OneEach(g) == \A i, j \in DOMAIN g : g[i].offset = g[j].offset => i = j

LabelInv ==
  /\ Labelling(code, lab, OwedIn(ctl), HeadsIn(ctl), Taken(globals))
  /\ Nested(ctl)
  /\ locals = <<>>
  /\ OneEach(globals)

\* every number in a piece is a natural number
LEMMA PieceTypes ==
  ASSUME NEW c \in Seq(Item)
  PROVE  /\ DOMAIN c = 1..Len(c) /\ Len(c) \in Nat
         /\ \A i \in DOMAIN c : /\ i \in Nat /\ i >= 1 /\ c[i] \in Item
                                /\ c[i].l1 \in Nat /\ c[i].l2 \in Nat /\ OwedBy(c[i]) \in Nat
                                /\ c[i].at \in Places
<1>1. \A i \in DOMAIN c : c[i] \in Item
  OBVIOUS
<1>2. \A x \in Item : x.l1 \in Nat /\ x.l2 \in Nat /\ x.at \in Places
  BY DEF Item
<1> QED
  BY <1>1, <1>2 DEF OwedBy

\* the innermost piece returns
LEMMA PopPiece ==
  ASSUME NEW c \in Seq(Item), c # <<>>, Nested(c)
  PROVE  /\ Tail(c) \in Seq(Item) /\ Nested(Tail(c))
         /\ c[1].at \notin Owing => /\ OwedIn(Tail(c)) = OwedIn(c)
                                    /\ HeadsIn(Tail(c)) = HeadsIn(c)
         /\ c[1].at \in Owing =>
              /\ OwedIn(Tail(c)) = OwedIn(c) \ {OwedBy(c[1])}
              /\ OwedBy(c[1]) \in OwedIn(c)
              /\ HeadsIn(Tail(c)) \subseteq HeadsIn(c)
              /\ \A n \in HeadsIn(Tail(c)) : n < c[1].l1 /\ n < OwedBy(c[1])
         /\ c[1].at = "whileEnd" => HeadsIn(c) = HeadsIn(Tail(c)) \cup {c[1].l1}
         /\ c[1].at \in FileLevel => OwedIn(Tail(c)) = {} /\ HeadsIn(Tail(c)) = {}
<1> PICK d : d = Tail(c)
  OBVIOUS
<1>1. /\ d \in Seq(Item) /\ Len(c) \in Nat /\ Len(c) >= 1 /\ DOMAIN c = 1..Len(c)
      /\ DOMAIN d = 1..(Len(c) - 1)
      /\ \A i \in DOMAIN d : d[i] = c[i + 1]
  OBVIOUS
<1>2. /\ 1 \in DOMAIN c
      /\ \A i \in DOMAIN d : i + 1 \in DOMAIN c /\ d[i] = c[i + 1] /\ 1 < i + 1
      /\ \A i \in DOMAIN c : i # 1 => i - 1 \in DOMAIN d /\ d[i - 1] = c[i] /\ 1 < i
      /\ \A i, j \in DOMAIN d : i < j <=> i + 1 < j + 1
  <2>1. \A i \in DOMAIN c : i # 1 => i - 1 \in DOMAIN d /\ i - 1 + 1 = i /\ 1 < i
    BY <1>1
  <2> QED
    BY <1>1, <2>1
<1>3. \A i \in DOMAIN c : /\ i \in Nat /\ i >= 1
                          /\ c[i].l1 \in Nat /\ c[i].l2 \in Nat /\ OwedBy(c[i]) \in Nat
  BY PieceTypes
<1>4. \A i \in DOMAIN d : i \in Nat
  BY <1>1
<1>5. SortedIn(d)
  BY <1>2 DEF Nested, SortedIn
<1>6. TestsIn(d)
  <2> SUFFICES ASSUME NEW i \in DOMAIN d, d[i].at = "whileTest"
               PROVE  \E j \in DOMAIN d : i < j /\ d[j].at = "whileEnd" /\ d[j].l2 = d[i].l2
    BY DEF TestsIn
  <2>1. PICK j \in DOMAIN c : i + 1 < j /\ c[j].at = "whileEnd" /\ c[j].l2 = d[i].l2
    BY <1>2 DEF Nested, TestsIn
  <2>2. j # 1 /\ i < j - 1
    BY <1>3, <1>4, <2>1
  <2> QED
    BY <1>2, <2>1, <2>2
<1>7. LevelledIn(d)
  BY <1>2 DEF Nested, LevelledIn
<1>8. \A l \in OwedIn(c) : l \in OwedIn(d) \/ (c[1].at \in Owing /\ OwedBy(c[1]) = l)
  BY <1>2 DEF OwedIn
<1>9. OwedIn(d) \subseteq OwedIn(c) /\ HeadsIn(d) \subseteq HeadsIn(c)
  BY <1>2 DEF OwedIn, HeadsIn
<1>10. \A l \in HeadsIn(c) : l \in HeadsIn(d) \/ (c[1].at = "whileEnd" /\ c[1].l1 = l)
  BY <1>2, ZenonT(40) DEF HeadsIn
<1>11. c[1].at \in Owing => OwedBy(c[1]) \in OwedIn(c)
  BY <1>2, <1>3 DEF OwedIn
<1>12. c[1].at = "whileEnd" => c[1].l1 \in HeadsIn(c)
  BY <1>2, <1>3 DEF HeadsIn
<1>13. ASSUME c[1].at \in Owing, NEW l \in OwedIn(d)
       PROVE  l < c[1].l1 /\ l # OwedBy(c[1])
  <2>1. PICK i \in DOMAIN d : d[i].at \in Owing /\ OwedBy(d[i]) = l
    BY DEF OwedIn
  <2>2. OwedBy(c[i + 1]) < c[1].l1 /\ c[1].l1 <= OwedBy(c[1])
    BY <1>2, <1>13, <2>1 DEF Nested, SortedIn
  <2> QED
    BY <1>2, <1>3, <2>1, <2>2
<1>14. ASSUME c[1].at \in Owing, NEW n \in HeadsIn(d)
       PROVE  n < c[1].l1 /\ n < OwedBy(c[1])
  <2>1. PICK i \in DOMAIN d : d[i].at = "whileEnd" /\ d[i].l1 = n
    BY DEF HeadsIn
  <2>2. i + 1 \in DOMAIN c /\ c[i + 1].at = "whileEnd" /\ c[i + 1].l1 = n /\ 1 < i + 1
    BY <1>2, <2>1
  <2>3. /\ OwedBy(c[i + 1]) < c[1].l1 /\ c[1].l1 <= OwedBy(c[1])
        /\ n <= OwedBy(c[i + 1])
    BY <1>2, <1>14, <2>2 DEF Nested, SortedIn, Owing
  <2> QED
    BY <1>2, <1>3, <2>2, <2>3
<1>15. ASSUME c[1].at \in FileLevel
       PROVE  OwedIn(d) = {} /\ HeadsIn(d) = {}
  <2>1. \A i \in DOMAIN d : d[i].at \notin Owing
    BY <1>2, <1>15 DEF Nested, LevelledIn
  <2> QED
    BY <2>1 DEF OwedIn, HeadsIn, Owing
<1>16. c[1].at \in Owing => OwedIn(d) = OwedIn(c) \ {OwedBy(c[1])}
  BY <1>8, <1>9, <1>13
<1>17. c[1].at \notin Owing => OwedIn(d) = OwedIn(c) /\ HeadsIn(d) = HeadsIn(c)
  BY <1>8, <1>9, <1>10 DEF Owing
<1>18. c[1].at = "whileEnd" => HeadsIn(c) = HeadsIn(d) \cup {c[1].l1}
  BY <1>9, <1>10, <1>12
<1> QED
  BY <1>1, <1>5, <1>6, <1>7, <1>9, <1>11, <1>14, <1>15, <1>16, <1>17, <1>18 DEF Nested

\* Pieces that emit no label and jump to none but a loop's end that waits below them
Light(p, c) ==
  /\ p \in Seq(Item)
  /\ \A i \in DOMAIN p :
       /\ p[i].at \notin Owing
       /\ p[i].at = "whileTest" =>
            \E j \in DOMAIN c : c[j].at = "whileEnd" /\ c[j].l2 = p[i].l2
       /\ p[i].at \in FileLevel => OwedIn(c) = {}

LEMMA PushLight ==
  ASSUME NEW c \in Seq(Item), Nested(c), NEW p, Light(p, c)
  PROVE  /\ p \o c \in Seq(Item) /\ Nested(p \o c)
         /\ OwedIn(p \o c) = OwedIn(c) /\ HeadsIn(p \o c) = HeadsIn(c)
<1> PICK d, n : d = p \o c /\ n = Len(p)
  OBVIOUS
<1>1. /\ d \in Seq(Item) /\ n \in Nat
      /\ \A i \in DOMAIN p : i \in DOMAIN d /\ d[i] = p[i]
      /\ \A i \in DOMAIN c : n + i \in DOMAIN d /\ d[n + i] = c[i]
      /\ \A i \in DOMAIN d : \/ i \in DOMAIN p
                             \/ i > n /\ i - n \in DOMAIN c /\ d[i] = c[i - n]
  <2>1. p \in Seq(Item)
    BY DEF Light
  <2> QED
    BY <2>1, Concatenated
<1>2. /\ \A i \in DOMAIN p : i \in Nat /\ i <= n
      /\ \A i \in DOMAIN d : i \in Nat
      /\ \A i \in DOMAIN c : i \in Nat /\ i >= 1
  <2>1. p \in Seq(Item)
    BY DEF Light
  <2> QED
    BY <1>1, <2>1
<1>3. \A i \in DOMAIN d : d[i].at \in Owing => i > n /\ i - n \in DOMAIN c /\ d[i] = c[i - n]
  BY <1>1 DEF Light
<1>4. \A i \in DOMAIN c : n + i \in DOMAIN d /\ d[n + i] = c[i]
  BY <1>1
<1>5. SortedIn(d)
  <2>1. \A i \in DOMAIN d : d[i].at \in Owing => d[i].l1 <= OwedBy(d[i])
    BY <1>3 DEF Nested, SortedIn
  <2>2. ASSUME NEW i \in DOMAIN d, NEW j \in DOMAIN d,
               d[i].at \in Owing, d[j].at \in Owing, i < j
        PROVE  OwedBy(d[j]) < d[i].l1
    <3>1. i - n < j - n
      BY <1>1, <1>2, <2>2
    <3> QED
      BY <1>3, <2>2, <3>1 DEF Nested, SortedIn
  <2> QED
    BY <2>1, <2>2 DEF SortedIn
<1>6. TestsIn(d)
  <2> SUFFICES ASSUME NEW i \in DOMAIN d, d[i].at = "whileTest"
               PROVE  \E j \in DOMAIN d : i < j /\ d[j].at = "whileEnd" /\ d[j].l2 = d[i].l2
    BY DEF TestsIn
  <2>1. CASE i \in DOMAIN p
    <3>1. PICK j \in DOMAIN c : c[j].at = "whileEnd" /\ c[j].l2 = d[i].l2
      BY <1>1, <2>1 DEF Light
    <3>2. i < n + j
      BY <1>1, <1>2, <2>1
    <3> QED
      BY <1>4, <3>1, <3>2
  <2>2. CASE i > n /\ i - n \in DOMAIN c /\ d[i] = c[i - n]
    <3>1. PICK j \in DOMAIN c : i - n < j /\ c[j].at = "whileEnd" /\ c[j].l2 = d[i].l2
      BY <2>2 DEF Nested, TestsIn
    <3>2. i < n + j
      BY <1>1, <1>2, <3>1
    <3> QED
      BY <1>4, <3>1, <3>2
  <2> QED
    BY <1>1, <2>1, <2>2
<1>7. LevelledIn(d)
  <2> SUFFICES ASSUME NEW i \in DOMAIN d, NEW j \in DOMAIN d, i < j,
                      d[i].at \in FileLevel, d[j].at \in Owing
               PROVE  FALSE
    BY DEF LevelledIn
  <2>1. j - n \in DOMAIN c /\ c[j - n].at \in Owing
    BY <1>3
  <2>2. CASE i \in DOMAIN p
    <3>1. OwedIn(c) = {}
      BY <1>1, <2>2 DEF Light
    <3>2. OwedBy(c[j - n]) \in Nat
      BY <2>1, PieceTypes
    <3> QED
      BY <2>1, <3>1, <3>2 DEF OwedIn
  <2>3. CASE i - n \in DOMAIN c /\ d[i] = c[i - n]
    <3>1. i - n < j - n
      BY <1>1, <1>2
    <3> QED
      BY <2>1, <2>3, <3>1 DEF Nested, LevelledIn
  <2> QED
    BY <1>1, <2>2, <2>3
<1>8. OwedIn(d) = OwedIn(c)
  <2>1. OwedIn(d) \subseteq OwedIn(c)
    BY <1>3 DEF OwedIn
  <2>2. OwedIn(c) \subseteq OwedIn(d)
    BY <1>4 DEF OwedIn
  <2> QED
    BY <2>1, <2>2
<1>9. HeadsIn(d) = HeadsIn(c)
  <2>1. HeadsIn(d) \subseteq HeadsIn(c)
    BY <1>3 DEF HeadsIn, Owing
  <2>2. HeadsIn(c) \subseteq HeadsIn(d)
    BY <1>4 DEF HeadsIn
  <2> QED
    BY <2>1, <2>2
<1> QED
  BY <1>1, <1>5, <1>6, <1>7, <1>8, <1>9 DEF Nested

\* a statement with labels of its own begins
LEMMA PushOwing ==
  ASSUME NEW c \in Seq(Item), Nested(c), NEW x \in Item, x.at \in Owing, x.l1 <= OwedBy(x),
         \A l \in OwedIn(c) : l < x.l1
  PROVE  /\ <<x>> \o c \in Seq(Item) /\ Nested(<<x>> \o c)
         /\ OwedIn(<<x>> \o c) = OwedIn(c) \cup {OwedBy(x)}
         /\ HeadsIn(<<x>> \o c) = IF x.at = "whileEnd" THEN HeadsIn(c) \cup {x.l1} ELSE HeadsIn(c)
<1> PICK d : d = <<x>> \o c
  OBVIOUS
<1>1. /\ d \in Seq(Item) /\ 1 \in DOMAIN d /\ d[1] = x
      /\ \A i \in DOMAIN c : i + 1 \in DOMAIN d /\ d[i + 1] = c[i] /\ i \in Nat /\ i >= 1
      /\ \A i \in DOMAIN d : /\ i \in Nat /\ i >= 1
                             /\ i # 1 => i - 1 \in DOMAIN c /\ d[i] = c[i - 1] /\ i > 1
  <2>1. /\ <<x>> \in Seq(Item) /\ Len(<<x>>) = 1 /\ DOMAIN <<x>> = {1} /\ <<x>>[1] = x
    OBVIOUS
  <2>2. /\ d \in Seq(Item)
        /\ 1 \in DOMAIN d /\ d[1] = x
        /\ \A i \in DOMAIN c : 1 + i \in DOMAIN d /\ d[1 + i] = c[i]
        /\ \A i \in DOMAIN d : i = 1 \/ (i > 1 /\ i - 1 \in DOMAIN c /\ d[i] = c[i - 1])
    BY <2>1, Concatenated
  <2>3. /\ \A i \in DOMAIN c : i \in Nat /\ i >= 1 /\ 1 + i = i + 1
        /\ \A i \in DOMAIN d : i \in Nat /\ i >= 1
    BY <2>2
  <2> QED
    BY <2>2, <2>3
<1>2. \A i \in DOMAIN c : /\ c[i].l1 \in Nat /\ c[i].l2 \in Nat /\ OwedBy(c[i]) \in Nat
  BY PieceTypes
<1>3. x.l1 \in Nat /\ x.l2 \in Nat /\ OwedBy(x) \in Nat
  BY DEF Item, OwedBy
<1>4. SortedIn(d)
  <2>1. \A i \in DOMAIN d : d[i].at \in Owing => d[i].l1 <= OwedBy(d[i])
    BY <1>1 DEF Nested, SortedIn
  <2>2. ASSUME NEW i \in DOMAIN d, NEW j \in DOMAIN d,
               d[i].at \in Owing, d[j].at \in Owing, i < j
        PROVE  OwedBy(d[j]) < d[i].l1
    <3>1. j # 1 /\ j - 1 \in DOMAIN c /\ d[j] = c[j - 1]
      BY <1>1, <2>2
    <3>2. CASE i = 1
      <4>1. OwedBy(d[j]) \in OwedIn(c)
        BY <1>2, <2>2, <3>1 DEF OwedIn
      <4> QED
        BY <1>1, <3>2, <4>1
    <3>3. CASE i # 1
      <4>1. i - 1 \in DOMAIN c /\ d[i] = c[i - 1] /\ i - 1 < j - 1
        BY <1>1, <2>2, <3>3
      <4> QED
        BY <2>2, <3>1, <4>1 DEF Nested, SortedIn
    <3> QED
      BY <3>2, <3>3
  <2> QED
    BY <2>1, <2>2 DEF SortedIn
<1>5. TestsIn(d)
  <2> SUFFICES ASSUME NEW i \in DOMAIN d, d[i].at = "whileTest"
               PROVE  \E j \in DOMAIN d : i < j /\ d[j].at = "whileEnd" /\ d[j].l2 = d[i].l2
    BY DEF TestsIn
  <2>1. i # 1 /\ i - 1 \in DOMAIN c /\ d[i] = c[i - 1]
    BY <1>1 DEF Owing
  <2>2. PICK j \in DOMAIN c : i - 1 < j /\ c[j].at = "whileEnd" /\ c[j].l2 = d[i].l2
    BY <2>1 DEF Nested, TestsIn
  <2>3. i < j + 1 /\ j + 1 \in DOMAIN d /\ d[j + 1] = c[j]
    BY <1>1, <2>1, <2>2
  <2> QED
    BY <2>2, <2>3
<1>6. LevelledIn(d)
  <2> SUFFICES ASSUME NEW i \in DOMAIN d, NEW j \in DOMAIN d, i < j,
                      d[i].at \in FileLevel, d[j].at \in Owing
               PROVE  FALSE
    BY DEF LevelledIn
  <2>1. i # 1
    BY <1>1 DEF Owing, FileLevel
  <2>2. /\ i - 1 \in DOMAIN c /\ d[i] = c[i - 1] /\ i - 1 < j - 1
        /\ j - 1 \in DOMAIN c /\ d[j] = c[j - 1]
    BY <1>1, <2>1
  <2> QED
    BY <2>2 DEF Nested, LevelledIn
<1>7. OwedIn(d) = OwedIn(c) \cup {OwedBy(x)}
  BY <1>1, <1>3, ZenonT(40) DEF OwedIn
<1>8. HeadsIn(d) = IF x.at = "whileEnd" THEN HeadsIn(c) \cup {x.l1} ELSE HeadsIn(c)
  <2>1. HeadsIn(c) \subseteq HeadsIn(d)
    <3> SUFFICES ASSUME NEW l \in HeadsIn(c) PROVE l \in HeadsIn(d)
      OBVIOUS
    <3>1. PICK i \in DOMAIN c : c[i].at = "whileEnd" /\ c[i].l1 = l
      BY DEF HeadsIn
    <3>2. i + 1 \in DOMAIN d /\ d[i + 1] = c[i]
      BY <1>1
    <3>3. l \in Nat
      BY DEF HeadsIn
    <3> QED
      BY <3>1, <3>2, <3>3 DEF HeadsIn
  <2>2. x.at = "whileEnd" => x.l1 \in HeadsIn(d)
    BY <1>1, <1>3 DEF HeadsIn
  <2>3. \A l \in HeadsIn(d) : l \in HeadsIn(c) \/ (x.at = "whileEnd" /\ l = x.l1)
    BY <1>1 DEF HeadsIn
  <2> QED
    BY <2>1, <2>2, <2>3
<1> QED
  BY <1>1, <1>4, <1>5, <1>6, <1>7, <1>8 DEF Nested

-----------------------------------------------------------------------------
(* The actions that neither emit nor push: what they leave on the C stack *)

\* pieces that run between statements
StatementLevel == FileLevel \cup
  {"params", "funcOpen", "locals", "localName", "localNext", "body", "stmt", "block",
   "ifTest", "ifElse", "ifEnd", "whileHead", "whileTest", "whileEnd", "break", "continue"}

\* pieces that stand for labels, or for words pushed
Laden == Owing \cup {"whileTest", "pop", "callArg", "callMore", "callClose"}

\* a piece that may be put in the place of one of kind a
Fits(x, a) == /\ x \in Item /\ x.at \notin Laden
              /\ x.at \in FileLevel => a \in FileLevel
              /\ x.at \in StatementLevel => a \in StatementLevel
Calm(p, a) == p \in Seq(Item) /\ \A i \in DOMAIN p : Fits(p[i], a)

\* the places of pieces that are parts of declarations and expressions
Inner == {"dim", "dimSize", "declare", "expect", "returnValue", "expr", "assign", "level",
  "unary", "addressOf", "postfix", "primary", "name", "callOpen"}
\* and those of pieces between statements, of which no file-level one is pushed
\* but by another
Between == {"params", "funcOpen", "locals", "localName", "localNext", "body", "stmt",
  "block", "ifTest", "whileHead", "break", "continue"}

LEMMA Kinds ==
  /\ Inner \subseteq Places /\ Between \subseteq Places /\ FileLevel \subseteq Places
  /\ \A a \in Inner : a \notin Laden /\ a \notin FileLevel /\ a \notin StatementLevel
  /\ \A a \in Between : a \notin Laden /\ a \notin FileLevel /\ a \in StatementLevel
  /\ \A a \in FileLevel : a \notin Laden /\ a \in StatementLevel
BY DEF Inner, Between, FileLevel, StatementLevel, Laden, Owing, Places

LEMMA FitsAll ==
  ASSUME NEW a, NEW b,
         b \in Inner \/ (b \in Between /\ a \in StatementLevel) \/ (b \in FileLevel /\ a \in FileLevel)
  PROVE  /\ Fits(It(b), a)
         /\ \A k \in Nat : Fits(Count(b, k), a)
         /\ \A t \in Token \cup {""}, k \in Nat : Fits(Piece(b, t, k, 0, 0, 0), a)
         /\ \A t \in Token \cup {""} : Fits(With(b, t), a)
<1>1. /\ b \in Places /\ b \notin Laden
      /\ b \in FileLevel => a \in FileLevel
      /\ b \in StatementLevel => a \in StatementLevel
  BY Kinds
<1>2. \A t \in Token \cup {""}, k \in Nat : Fits(Piece(b, t, k, 0, 0, 0), a)
  BY <1>1 DEF Piece, Fits, Item
<1> QED
  BY <1>2 DEF It, Count, With

LEMMA CalmShort ==
  ASSUME NEW a
  PROVE  /\ Calm(<<>>, a)
         /\ \A x : Fits(x, a) => Calm(<<x>>, a)
         /\ \A x, y : Fits(x, a) /\ Fits(y, a) => Calm(<<x, y>>, a)
         /\ \A x, y, z : Fits(x, a) /\ Fits(y, a) /\ Fits(z, a) => Calm(<<x, y, z>>, a)
<1>1. \A x : Fits(x, a) => x \in Item
  BY DEF Fits
<1> QED
  BY <1>1 DEF Calm

LEMMA CalmConcat ==
  ASSUME NEW a, NEW p, NEW q, Calm(p, a), Calm(q, a)
  PROVE  Calm(p \o q, a)
<1>1. p \in Seq(Item) /\ q \in Seq(Item)
  BY DEF Calm
<1>2. \A i \in DOMAIN (p \o q) : \/ i \in DOMAIN p /\ (p \o q)[i] = p[i]
                                 \/ i - Len(p) \in DOMAIN q /\ (p \o q)[i] = q[i - Len(p)]
  BY <1>1, Concatenated
<1> QED
  BY <1>1, <1>2 DEF Calm

LEMMA CalmOperand ==
  ASSUME NEW a, NEW k \in Nat
  PROVE  Calm(Operand(k), a)
<1> DEFINE m == IF 11 - k >= 0 THEN 11 - k ELSE 0
           rest == [i \in 1..(11 - k) |-> Count("level", 11 - i)]
<1>1. 1..(11 - k) = 1..m /\ m \in Nat
  OBVIOUS
<1>2. \A n \in Int : Count("level", n).at = "level" /\ (n \in Nat => Fits(Count("level", n), a))
  BY FitsAll DEF Inner, Count, Piece
<1>3. \A i \in 1..m : 11 - i \in Nat
  BY DEF m
<1>4. \A i \in 1..m : Fits(Count("level", 11 - i), a) /\ Count("level", 11 - i) \in Item
  BY <1>2, <1>3 DEF Fits
<1>5. rest \in Seq(Item) /\ DOMAIN rest = 1..m /\ \A i \in 1..m : rest[i] = Count("level", 11 - i)
  BY <1>1, <1>4
<1>6. Calm(rest, a)
  BY <1>4, <1>5 DEF Calm
<1>7. Calm(<<It("unary")>>, a)
  BY FitsAll, CalmShort DEF Inner
<1> QED
  BY <1>6, <1>7, CalmConcat DEF Operand

\* the stack changes at its head only, and calmly
Quiet == (\E p : Goto(p) /\ Calm(p, Top.at)) \/ UNCHANGED ctl

QuietActions ==
  \/ Start \/ Program \/ ProgramName \/ Dimension \/ DimensionSize
  \/ (ProgramKind /\ UNCHANGED code)
  \/ FunctionParts
  \/ ExpectToken \/ Statement \/ Block \/ ReturnValue \/ WhileOverrun
  \/ Expression \/ Unary \/ AddressOf \/ Primary \/ NameUse

LEMMA TopToken ==
  ASSUME Inv
  PROVE  token \in Token \cup {""} /\ Top.arg \in Token \cup {""}
BY TopType

LEMMA ReservedTokens == \A t \in {")", "]", ";", "("} : t \in Token \cup {""}
BY TokenConstants

LEMMA QuietMoves ==
  ASSUME Inv, QuietActions
  PROVE  /\ Quiet
         /\ Top.at \notin Laden
         /\ UNCHANGED <<globals, code>>
         /\ locals' = locals \/ locals' = <<>>
         /\ lab' = lab \/ lab' = lab + 1
         /\ sp' = sp \/ (sp' = 0 /\ Top.at \in StatementLevel)
<1> USE TopToken, ReservedTokens
<1>0. \A a : Calm(<<>>, a)
  BY CalmShort
<1>1. CASE Start
  <2>1. Calm(<<It("program")>>, "start")
    BY FitsAll, CalmShort DEF FileLevel
  <2>2. Top.at = "start" /\ Goto(<<It("program")>>)
    BY <1>1 DEF Start, At, Top
  <2>3. Quiet
    BY <2>1, <2>2 DEF Quiet
  <2> QED
    BY <1>1, <2>2, <2>3 DEF Start, symbols, Laden, Owing
<1>2. CASE Program
  <2>1. Calm(<<It("progName"), It("program")>>, "program")
    BY FitsAll, CalmShort DEF FileLevel
  <2>2. Top.at = "program" /\ (Goto(<<It("progName"), It("program")>>) \/ UNCHANGED ctl)
    BY <1>2 DEF Program, At, Top
  <2>3. Quiet
    BY <2>1, <2>2 DEF Quiet
  <2> QED
    BY <1>2, <2>2, <2>3 DEF Program, symbols, Laden, Owing
<1>3. CASE ProgramName
  <2>1. Calm(<<With("progKind", token)>>, "progName")
    BY FitsAll, CalmShort DEF FileLevel
  <2>2. Top.at = "progName" /\ Goto(<<With("progKind", token)>>)
    BY <1>3 DEF ProgramName, At, Top
  <2>3. Quiet
    BY <2>1, <2>2 DEF Quiet
  <2> QED
    BY <1>3, <2>2, <2>3 DEF ProgramName, symbols, Laden, Owing
<1>4. CASE Dimension
  <2>1. Calm(<<With("dimSize", Top.arg)>>, "dim") /\ Calm(<<With("declare", Top.arg)>>, "dim")
    BY FitsAll, CalmShort DEF Inner
  <2>2. Top.at = "dim" /\ (Goto(<<With("dimSize", Top.arg)>>) \/ Goto(<<With("declare", Top.arg)>>))
    BY <1>4 DEF Dimension, At, Top
  <2>3. Quiet
    BY <2>1, <2>2 DEF Quiet
  <2> QED
    BY <1>4, <2>2, <2>3 DEF Dimension, symbols, Laden, Owing
<1>5. CASE DimensionSize
  <2> DEFINE p == <<Expect("]"), Piece("declare", Top.arg, NumVal[token], 0, 0, 0)>>
  <2>1. NumVal[token] \in Nat
    BY <1>5 DEF DimensionSize, NumVal
  <2>2. Fits(Expect("]"), "dimSize")
    BY FitsAll DEF Inner, Expect
  <2>3. Fits(Piece("declare", Top.arg, NumVal[token], 0, 0, 0), "dimSize")
    BY <2>1, FitsAll DEF Inner
  <2>4. Calm(p, "dimSize")
    BY <2>2, <2>3, CalmShort
  <2>5. Top.at = "dimSize" /\ Goto(p)
    BY <1>5 DEF DimensionSize, At, Top
  <2>6. Quiet
    BY <2>4, <2>5 DEF Quiet
  <2> QED
    BY <1>5, <2>5, <2>6 DEF DimensionSize, symbols, Laden, Owing
<1>6. CASE ProgramKind /\ UNCHANGED code
  <2>1. Calm(<<With("dim", Top.arg), Expect(";")>>, "progKind") /\ Calm(<<It("params")>>, "progKind")
    <3>1. /\ Fits(With("dim", Top.arg), "progKind") /\ Fits(Expect(";"), "progKind")
          /\ Fits(It("params"), "progKind")
      BY FitsAll DEF Inner, Between, StatementLevel, FileLevel, Expect
    <3> QED
      BY <3>1, CalmShort
  <2>2. /\ Top.at = "progKind"
        /\ Goto(<<With("dim", Top.arg), Expect(";")>>) \/ Goto(<<It("params")>>)
    BY <1>6 DEF ProgramKind, At, Top
  <2>3. Quiet
    BY <2>1, <2>2 DEF Quiet
  <2> QED
    BY <1>6, <2>2, <2>3 DEF ProgramKind, symbols, Laden, Owing
<1>7. CASE FunctionParts
  <2>1. CASE SkipParams
    <3>1. Calm(<<It("funcOpen")>>, "params")
      BY FitsAll, CalmShort DEF Between, StatementLevel
    <3>2. Top.at = "params" /\ (Goto(<<It("funcOpen")>>) \/ UNCHANGED ctl)
      BY <2>1 DEF SkipParams, At, Top
    <3>3. Quiet
      BY <3>1, <3>2 DEF Quiet
    <3> QED
      BY <2>1, <3>2, <3>3 DEF SkipParams, symbols, Laden, Owing
  <2>2. CASE FunctionOpen
    <3>1. Calm(<<It("locals")>>, "funcOpen")
      BY FitsAll, CalmShort DEF Between, StatementLevel
    <3>2. Top.at = "funcOpen" /\ Goto(<<It("locals")>>)
      BY <2>2 DEF FunctionOpen, At, Top
    <3>3. Quiet
      BY <3>1, <3>2 DEF Quiet
    <3> QED
      BY <2>2, <3>2, <3>3 DEF FunctionOpen, Laden, Owing, StatementLevel
  <2>3. CASE Locals
    <3>1. Calm(<<It("localName")>>, "locals") /\ Calm(<<It("body")>>, "locals")
      BY FitsAll, CalmShort DEF Between, StatementLevel
    <3>2. Top.at = "locals" /\ (Goto(<<It("localName")>>) \/ Goto(<<It("body")>>))
      BY <2>3 DEF Locals, At, Top
    <3>3. Quiet
      BY <3>1, <3>2 DEF Quiet
    <3> QED
      BY <2>3, <3>2, <3>3 DEF Locals, symbols, Laden, Owing
  <2>4. CASE LocalName
    <3>1. Fits(With("dim", token), "localName") /\ Fits(It("localNext"), "localName")
      BY FitsAll DEF Inner, Between, StatementLevel
    <3>2. Calm(<<With("dim", token), It("localNext")>>, "localName")
      BY <3>1, CalmShort
    <3>3. Top.at = "localName" /\ Goto(<<With("dim", token), It("localNext")>>)
      BY <2>4 DEF LocalName, At, Top
    <3>4. Quiet
      BY <3>2, <3>3 DEF Quiet
    <3> QED
      BY <2>4, <3>3, <3>4 DEF LocalName, symbols, Laden, Owing
  <2>5. CASE LocalNext
    <3>1. /\ Fits(It("localName"), "localNext") /\ Fits(Expect(";"), "localNext")
          /\ Fits(It("locals"), "localNext")
      BY FitsAll DEF Inner, Between, StatementLevel, Expect
    <3>2. Calm(<<It("localName")>>, "localNext") /\ Calm(<<Expect(";"), It("locals")>>, "localNext")
      BY <3>1, CalmShort
    <3>3. Top.at = "localNext" /\ (Goto(<<It("localName")>>) \/ Goto(<<Expect(";"), It("locals")>>))
      BY <2>5 DEF LocalNext, At, Top
    <3>4. Quiet
      BY <3>2, <3>3 DEF Quiet
    <3> QED
      BY <2>5, <3>3, <3>4 DEF LocalNext, symbols, Laden, Owing
  <2>6. CASE Body
    <3>1. Fits(It("stmt"), "body") /\ Fits(It("body"), "body")
      BY FitsAll DEF Between, StatementLevel
    <3>2. Calm(<<It("stmt"), It("body")>>, "body")
      BY <3>1, CalmShort
    <3>3. Top.at = "body" /\ (Goto(<<It("stmt"), It("body")>>) \/ Goto(<<>>))
      BY <2>6 DEF Body, At, Top
    <3>4. Quiet
      BY <1>0, <3>2, <3>3 DEF Quiet
    <3> QED
      BY <2>6, <3>3, <3>4 DEF Body, Laden, Owing
  <2> QED
    BY <1>7, <2>1, <2>2, <2>3, <2>4, <2>5, <2>6 DEF FunctionParts
<1>8. CASE ExpectToken
  <2>1. Top.at = "expect" /\ Goto(<<>>)
    BY <1>8 DEF ExpectToken, At, Top
  <2>2. Quiet
    BY <1>0, <2>1 DEF Quiet
  <2> QED
    BY <1>8, <2>1, <2>2 DEF ExpectToken, symbols, Laden, Owing
<1>9. CASE Statement
  <2>1. /\ Fits(It("block"), "stmt") /\ Fits(It("whileHead"), "stmt")
        /\ Fits(It("returnValue"), "stmt") /\ Fits(It("break"), "stmt")
        /\ Fits(It("continue"), "stmt") /\ Fits(It("ifTest"), "stmt") /\ Fits(It("expr"), "stmt")
        /\ Fits(Expect(";"), "stmt") /\ Fits(Expect("("), "stmt")
    BY FitsAll DEF Inner, Between, StatementLevel, Expect
  <2>2. /\ Calm(<<It("block")>>, "stmt") /\ Calm(<<It("whileHead")>>, "stmt")
        /\ Calm(<<It("returnValue")>>, "stmt") /\ Calm(<<Expect(";"), It("break")>>, "stmt")
        /\ Calm(<<Expect(";"), It("continue")>>, "stmt") /\ Calm(<<It("expr"), Expect(";")>>, "stmt")
        /\ Calm(<<Expect("("), It("expr"), It("ifTest")>>, "stmt")
    BY <2>1, CalmShort
  <2>3. Top.at = "stmt" /\ \E p : Goto(p) /\ Calm(p, "stmt")
    BY <1>9, <1>0, <2>2 DEF Statement, At, Top
  <2>4. Quiet
    BY <2>3 DEF Quiet
  <2> QED
    BY <1>9, <2>3, <2>4 DEF Statement, symbols, Laden, Owing
<1>10. CASE Block
  <2>1. Fits(It("stmt"), "block") /\ Fits(It("block"), "block")
    BY FitsAll DEF Between, StatementLevel
  <2>2. Calm(<<It("stmt"), It("block")>>, "block")
    BY <2>1, CalmShort
  <2>3. Top.at = "block" /\ (Goto(<<It("stmt"), It("block")>>) \/ Goto(<<>>))
    BY <1>10 DEF Block, At, Top
  <2>4. Quiet
    BY <1>0, <2>2, <2>3 DEF Quiet
  <2> QED
    BY <1>10, <2>3, <2>4 DEF Block, symbols, Laden, Owing
<1>11. CASE ReturnValue
  <2>1. Fits(It("expr"), "returnValue") /\ Fits(Expect(";"), "returnValue")
    BY FitsAll DEF Inner, Expect
  <2>2. Calm(<<Expect(";")>>, "returnValue") /\ Calm(<<It("expr"), Expect(";")>>, "returnValue")
    BY <2>1, CalmShort
  <2>3. Top.at = "returnValue" /\ (Goto(<<Expect(";")>>) \/ Goto(<<It("expr"), Expect(";")>>))
    BY <1>11 DEF ReturnValue, At, Top
  <2>4. Quiet
    BY <2>2, <2>3 DEF Quiet
  <2> QED
    BY <1>11, <2>3, <2>4 DEF ReturnValue, symbols, Laden, Owing
<1>12. CASE WhileOverrun
  <2>1. Quiet
    BY <1>12 DEF WhileOverrun, Quiet
  <2> QED
    BY <1>12, <2>1 DEF WhileOverrun, At, Top, symbols, Laden, Owing
<1>13. CASE Expression
  <2>1. Calm(<<It("assign")>>, "expr") /\ Calm(Operand(1), "expr")
    BY FitsAll, CalmShort, CalmOperand DEF Inner
  <2>2. Calm(Operand(1) \o <<It("assign")>>, "expr")
    BY <2>1, CalmConcat
  <2>3. Top.at = "expr" /\ Goto(Operand(1) \o <<It("assign")>>)
    BY <1>13 DEF Expression, At, Top
  <2>4. Quiet
    BY <2>2, <2>3 DEF Quiet
  <2> QED
    BY <1>13, <2>3, <2>4 DEF Expression, symbols, Laden, Owing
<1>14. CASE Unary
  <2>1. /\ Fits(It("unary"), "unary") /\ Fits(It("addressOf"), "unary")
        /\ Fits(It("primary"), "unary") /\ Fits(It("postfix"), "unary")
    BY FitsAll DEF Inner
  <2>2. /\ Calm(<<It("unary")>>, "unary") /\ Calm(<<It("addressOf")>>, "unary")
        /\ Calm(<<It("primary"), It("postfix")>>, "unary")
    BY <2>1, CalmShort
  <2>3. /\ Top.at = "unary"
        /\ \/ Goto(<<It("unary")>>) \/ Goto(<<It("addressOf")>>)
           \/ Goto(<<It("primary"), It("postfix")>>)
    BY <1>14 DEF Unary, At, Top
  <2>4. Quiet
    BY <2>2, <2>3 DEF Quiet
  <2> QED
    BY <1>14, <2>3, <2>4 DEF Unary, symbols, Laden, Owing
<1>15. CASE AddressOf
  <2>1. Top.at = "addressOf" /\ Goto(<<>>)
    BY <1>15 DEF AddressOf, At, Top
  <2>2. Quiet
    BY <1>0, <2>1 DEF Quiet
  <2> QED
    BY <1>15, <2>1, <2>2 DEF AddressOf, symbols, Laden, Owing
<1>16. CASE Primary
  <2>1. /\ Fits(With("name", token), "primary") /\ Fits(It("expr"), "primary")
        /\ Fits(Expect(")"), "primary")
    BY FitsAll DEF Inner, Expect
  <2>2. Calm(<<With("name", token)>>, "primary") /\ Calm(<<It("expr"), Expect(")")>>, "primary")
    BY <2>1, CalmShort
  <2>3. /\ Top.at = "primary"
        /\ Goto(<<>>) \/ Goto(<<With("name", token)>>) \/ Goto(<<It("expr"), Expect(")")>>)
    BY <1>16 DEF Primary, At, Top
  <2>4. Quiet
    BY <1>0, <2>2, <2>3 DEF Quiet
  <2>5. lab' = lab \/ lab' = lab + 1
    BY <1>16 DEF Primary
  <2> QED
    BY <1>16, <2>3, <2>4, <2>5 DEF Primary, symbols, Laden, Owing
<1>17. CASE NameUse
  <2>1. Calm(<<It("callOpen")>>, "name")
    BY FitsAll, CalmShort DEF Inner
  <2>2. Top.at = "name" /\ (Goto(<<It("callOpen")>>) \/ Goto(<<>>))
    BY <1>17 DEF NameUse, At, Top
  <2>3. Quiet
    BY <1>0, <2>1, <2>2 DEF Quiet
  <2> QED
    BY <1>17, <2>2, <2>3 DEF NameUse, symbols, Laden, Owing
<1> QED
  BY <1>1, <1>2, <1>3, <1>4, <1>5, <1>6, <1>7, <1>8, <1>9, <1>10, <1>11, <1>12, <1>13, <1>14,
     <1>15, <1>16, <1>17 DEF QuietActions

-----------------------------------------------------------------------------
(* The labels, one lemma per action or group of actions *)

\* pieces with which nothing comes or goes for the labels
Single(p) == p \in Seq(Item) /\ \A i \in DOMAIN p :
               p[i].at \notin Owing \cup {"whileTest"} \cup FileLevel

LEMMA SilentLight ==
  ASSUME NEW p, Single(p), NEW c
  PROVE  Light(p, c)
BY DEF Single, Light

LEMMA SilentCalm ==
  ASSUME NEW p, NEW a, Calm(p, a), a \notin FileLevel
  PROVE  Single(p)
BY DEF Calm, Fits, Single, Laden

LEMMA SilentShort ==
  /\ Single(<<>>)
  /\ \A x \in Item : x.at \notin Owing \cup {"whileTest"} \cup FileLevel => Single(<<x>>)
  /\ \A x, y \in Item : /\ x.at \notin Owing \cup {"whileTest"} \cup FileLevel
                        /\ y.at \notin Owing \cup {"whileTest"} \cup FileLevel
                        => Single(<<x, y>>)
BY DEF Single

LEMMA SilentConcat ==
  ASSUME NEW p, NEW q, Single(p), Single(q)
  PROVE  Single(p \o q)
<1>1. p \in Seq(Item) /\ q \in Seq(Item)
  BY DEF Single
<1>2. \A i \in DOMAIN (p \o q) : \/ i \in DOMAIN p /\ (p \o q)[i] = p[i]
                                 \/ i - Len(p) \in DOMAIN q /\ (p \o q)[i] = q[i - Len(p)]
  BY <1>1, Concatenated
<1> QED
  BY <1>1, <1>2 DEF Single

LEMMA StackFacts ==
  ASSUME Inv
  PROVE  /\ ctl \in Seq(Item) /\ ctl # <<>> /\ Top = ctl[1] /\ 1 \in DOMAIN ctl
         /\ DOMAIN ctl = 1..Len(ctl) /\ Len(ctl) \in Nat
         /\ code \in Seq(Instruction) /\ lab \in Nat /\ lab + 1 \in Nat
BY DEF Inv, TypeOK, Top

LEMMA EmitOne ==
  ASSUME Inv
  PROVE  /\ \A x : Emit(<<x>>) => code' = code \o <<x>>
         /\ \A x \in Instruction : Emit(<<x>>) => code' = Append(code, x)
         /\ \A x, y \in Instruction : Emit(<<x, y>>) => code' = Append(Append(code, x), y)
<1>1. code \in Seq(Instruction)
  BY StackFacts
<1>2. \A x \in Instruction : code \o <<x>> = Append(code, x)
  BY <1>1
<1>3. \A x, y \in Instruction : code \o <<x, y>> = Append(Append(code, x), y)
  BY <1>1
<1> QED
  BY <1>2, <1>3 DEF Emit

\* the head is replaced by light pieces, nothing is emitted
LEMMA LightStep ==
  ASSUME Inv, LabelInv,
         (\E p : Goto(p) /\ Light(p, Tail(ctl))) \/ UNCHANGED ctl,
         Top.at \notin Owing,
         UNCHANGED <<globals, code>>, locals' = locals \/ locals' = <<>>,
         lab' = lab \/ lab' = lab + 1
  PROVE  LabelInv'
<1>1. /\ Nested(ctl') /\ OwedIn(ctl') = OwedIn(ctl) /\ HeadsIn(ctl') = HeadsIn(ctl)
  <2>1. CASE UNCHANGED ctl
    BY <2>1 DEF LabelInv
  <2>2. CASE \E p : Goto(p) /\ Light(p, Tail(ctl))
    <3>1. PICK p : ctl' = p \o Tail(ctl) /\ Light(p, Tail(ctl))
      BY <2>2 DEF Goto
    <3>2. ctl \in Seq(Item) /\ ctl # <<>> /\ Nested(ctl) /\ ctl[1].at \notin Owing
      BY StackFacts DEF LabelInv
    <3>3. /\ Tail(ctl) \in Seq(Item) /\ Nested(Tail(ctl)) /\ OwedIn(Tail(ctl)) = OwedIn(ctl)
          /\ HeadsIn(Tail(ctl)) = HeadsIn(ctl)
      BY <3>2, PopPiece
    <3> QED
      BY <3>1, <3>3, PushLight
  <2> QED
    BY <2>1, <2>2
<1>2. Labelling(code, lab, OwedIn(ctl), HeadsIn(ctl), Taken(globals)) /\ lab \in Nat
  BY StackFacts DEF LabelInv
<1>3. Labelling(code, lab', OwedIn(ctl), HeadsIn(ctl), Taken(globals))
  <2>1. CASE lab' = lab
    BY <1>2, <2>1
  <2>2. CASE lab' = lab + 1
    <3>1. Labelling(code, lab + 1, OwedIn(ctl), HeadsIn(ctl), Taken(globals))
      BY <1>2, Draw
    <3> QED
      BY <2>2, <3>1
  <2> QED
    BY <2>1, <2>2
<1>4. locals' = <<>> /\ OneEach(globals')
  BY DEF LabelInv
<1> QED
  BY <1>1, <1>3, <1>4 DEF LabelInv

LEMMA QuietLabels ==
  ASSUME Inv, LabelInv, QuietActions
  PROVE  LabelInv'
<1>1. /\ Quiet /\ Top.at \notin Laden /\ UNCHANGED <<globals, code>>
      /\ locals' = locals \/ locals' = <<>>
      /\ lab' = lab \/ lab' = lab + 1
  BY QuietMoves
<1>2. ctl[1].at \in FileLevel => OwedIn(Tail(ctl)) = {}
  BY StackFacts, PopPiece DEF LabelInv
<1>3. \A p : Calm(p, Top.at) => Light(p, Tail(ctl))
  BY <1>2, StackFacts DEF Calm, Fits, Light, Laden
<1>4. (\E p : Goto(p) /\ Light(p, Tail(ctl))) \/ UNCHANGED ctl
  BY <1>1, <1>3 DEF Quiet
<1> QED
  BY <1>1, <1>4, LightStep DEF Laden

\* the actions that push and pop words
PushActions == \/ Assignment \/ BinaryLoop \/ Pop \/ Postfix \/ CallOpen \/ CallArg
               \/ CallMore \/ CallClose

LEMMA PushLabels ==
  ASSUME Inv, LabelInv, PushActions
  PROVE  LabelInv'
<1>0. Single(<<>>)
  BY SilentShort
<1>1. \A b \in Inner \cup {"pop", "callArg", "callMore", "callClose"} :
         /\ b \in Places
         /\ b \notin Owing \cup {"whileTest"} \cup FileLevel
  BY DEF Inner, Places, Owing, FileLevel
<1>2. \A b \in Inner \cup {"pop", "callArg", "callMore", "callClose"},
         t \in Token \cup {""}, k \in Nat : Single(<<Piece(b, t, k, 0, 0, 0)>>)
  <2> SUFFICES ASSUME NEW b \in Inner \cup {"pop", "callArg", "callMore", "callClose"},
                      NEW t \in Token \cup {""}, NEW k \in Nat
               PROVE  Single(<<Piece(b, t, k, 0, 0, 0)>>)
    OBVIOUS
  <2>1. Piece(b, t, k, 0, 0, 0) \in Item /\ Piece(b, t, k, 0, 0, 0).at = b
    BY <1>1 DEF Piece, Item
  <2> QED
    BY <1>1, <2>1, SilentShort
<1>3. /\ \A b \in Inner \cup {"pop"} : Single(<<It(b)>>)
      /\ \A b \in {"callArg", "callClose"}, k \in Nat : Single(<<Count(b, k)>>)
      /\ Single(<<Expect("]")>>)
  BY <1>2, TokenConstants DEF It, Count, Expect, With, Inner
<1>4. Top.n \in Nat /\ Top.n + 1 \in Nat /\ Top \in Item /\ token \in Token
  BY TopType, TopNumbers
<1>5. ASSUME NEW p, Single(p), Goto(p), Top.at \in Inner \cup {"pop", "callArg", "callMore", "callClose"},
             UNCHANGED <<symbols, lab, code>>
      PROVE  LabelInv'
  <2>1. Light(p, Tail(ctl)) /\ Top.at \notin Owing
    BY <1>1, <1>5, SilentLight
  <2> QED
    BY <1>5, <2>1, LightStep DEF symbols
<1>6. CASE Assignment
  <2>1. Single(<<It("expr"), It("pop")>>)
    <3>1. <<It("expr"), It("pop")>> = <<It("expr")>> \o <<It("pop")>>
      OBVIOUS
    <3> QED
      BY <1>3, <3>1, SilentConcat DEF Inner
  <2>2. Top.at = "assign" /\ (Goto(<<It("expr"), It("pop")>>) \/ Goto(<<>>))
    BY <1>6 DEF Assignment, At, Top
  <2> QED
    BY <1>0, <1>5, <1>6, <2>1, <2>2 DEF Assignment, Inner
<1>7. CASE BinaryLoop
  <2>1. Top.at = "level" /\ (Goto(Operand(Top.n + 1) \o <<It("pop"), Top>>) \/ Goto(<<>>))
    BY <1>7 DEF BinaryLoop, At, Top
  <2>2. Single(<<It("pop"), Top>>)
    <3>1. It("pop") \in Item /\ It("pop").at = "pop"
      BY DEF It, Piece, Item, Places
    <3> QED
      BY <1>1, <1>4, <2>1, <3>1, SilentShort DEF Inner
  <2>3. Single(Operand(Top.n + 1))
    <3>1. Calm(Operand(Top.n + 1), "expr")
      BY <1>4, CalmOperand
    <3>2. "expr" \notin FileLevel
      BY DEF FileLevel
    <3> QED
      BY <3>1, <3>2, SilentCalm
  <2>4. Single(Operand(Top.n + 1) \o <<It("pop"), Top>>)
    BY <2>2, <2>3, SilentConcat
  <2> QED
    BY <1>0, <1>5, <1>7, <2>1, <2>4 DEF BinaryLoop, Inner
<1>8. CASE Pop
  <2>1. Top.at = "pop" /\ Goto(<<>>)
    BY <1>8 DEF Pop, At, Top
  <2> QED
    BY <1>0, <1>5, <1>8, <2>1 DEF Pop
<1>9. CASE Postfix
  <2> DEFINE p == <<It("expr"), Expect("]"), It("pop"), It("postfix")>>
  <2>1. Single(p)
    <3>1. p = ((<<It("expr")>> \o <<Expect("]")>>) \o <<It("pop")>>) \o <<It("postfix")>>
      OBVIOUS
    <3> HIDE DEF p
    <3>2. Single(<<It("expr")>> \o <<Expect("]")>>)
      BY <1>3, SilentConcat DEF Inner
    <3>3. Single((<<It("expr")>> \o <<Expect("]")>>) \o <<It("pop")>>)
      BY <1>3, <3>2, SilentConcat
    <3> QED
      BY <1>3, <3>1, <3>3, SilentConcat DEF Inner
  <2>2. Top.at = "postfix" /\ (Goto(p) \/ Goto(<<>>) \/ UNCHANGED ctl)
    BY <1>9 DEF Postfix, At, Top
  <2>3. CASE UNCHANGED ctl
    BY <1>1, <1>9, <2>2, <2>3, LightStep DEF Postfix, symbols, Inner
  <2> QED
    BY <1>0, <1>5, <1>9, <2>1, <2>2, <2>3 DEF Postfix, Inner
<1>10. CASE CallOpen
  <2>1. Single(<<Count("callClose", 0)>>) /\ Single(<<It("expr"), Count("callArg", 0)>>)
    <3>1. <<It("expr"), Count("callArg", 0)>> = <<It("expr")>> \o <<Count("callArg", 0)>>
      OBVIOUS
    <3> QED
      BY <1>3, <3>1, SilentConcat DEF Inner
  <2>2. /\ Top.at = "callOpen"
        /\ Goto(<<Count("callClose", 0)>>) \/ Goto(<<It("expr"), Count("callArg", 0)>>)
    BY <1>10 DEF CallOpen, At, Top
  <2> QED
    BY <1>5, <1>10, <2>1, <2>2 DEF CallOpen, Inner
<1>11. CASE CallArg
  <2>1. Single(<<Piece("callMore", token, Top.n + 1, 0, 0, 0)>>)
    BY <1>2, <1>4
  <2>2. Top.at = "callArg" /\ Goto(<<Piece("callMore", token, Top.n + 1, 0, 0, 0)>>)
    BY <1>11 DEF CallArg, At, Top
  <2> QED
    BY <1>5, <1>11, <2>1, <2>2 DEF CallArg
<1>12. CASE CallMore
  <2>1. Single(<<Count("callClose", Top.n)>>) /\ Single(<<It("expr"), Count("callArg", Top.n)>>)
    <3>1. <<It("expr"), Count("callArg", Top.n)>> = <<It("expr")>> \o <<Count("callArg", Top.n)>>
      OBVIOUS
    <3> QED
      BY <1>3, <1>4, <3>1, SilentConcat DEF Inner
  <2>2. /\ Top.at = "callMore"
        /\ Goto(<<Count("callClose", Top.n)>>) \/ Goto(<<It("expr"), Count("callArg", Top.n)>>)
    BY <1>12 DEF CallMore, At, Top
  <2> QED
    BY <1>5, <1>12, <2>1, <2>2 DEF CallMore
<1>13. CASE CallClose
  <2>1. Top.at = "callClose" /\ Goto(<<>>)
    BY <1>13 DEF CallClose, At, Top
  <2> QED
    BY <1>0, <1>5, <1>13, <2>1 DEF CallClose
<1> QED
  BY <1>6, <1>7, <1>8, <1>9, <1>10, <1>11, <1>12, <1>13 DEF PushActions

\* a variable takes the number drawn for it
LEMMA DeclareLabels ==
  ASSUME Inv, LabelInv, Declare
  PROVE  LabelInv'
<1> DEFINE sym == [name |-> Top.arg, offset |-> lab, size |-> Top.n]
<1>1. /\ globals' = Append(globals, sym) /\ lab' = lab + 1 /\ locals' = locals /\ code' = code
      /\ Goto(<<>>) /\ Top.at = "declare" /\ locals = <<>>
  BY DEF Declare, AddSymbol, LabelInv, At, Top
<1>2. globals \in Seq(Symbol) /\ sym.offset = lab /\ lab \in Nat
  BY StackFacts DEF Inv, TypeOK
<1> HIDE DEF sym
<1>3. /\ DOMAIN globals' = DOMAIN globals \cup {Len(globals) + 1}
      /\ globals'[Len(globals) + 1] = sym
      /\ \A i \in DOMAIN globals : globals'[i] = globals[i]
  BY <1>1, <1>2
<1>4. Taken(globals') = Taken(globals) \cup {lab}
  <2>1. Taken(globals') \subseteq Taken(globals) \cup {lab}
    BY <1>2, <1>3 DEF Taken
  <2>2. Taken(globals) \subseteq Taken(globals')
    BY <1>3 DEF Taken
  <2>3. lab \in Taken(globals')
    BY <1>2, <1>3 DEF Taken
  <2> QED
    BY <2>1, <2>2, <2>3
<1>5. \A i \in DOMAIN globals : globals[i].offset \in Taken(globals) /\ globals[i].offset # lab
  <2> SUFFICES ASSUME NEW i \in DOMAIN globals
               PROVE  globals[i].offset \in Taken(globals) /\ globals[i].offset # lab
    OBVIOUS
  <2>1. globals[i] \in Symbol
    BY <1>2
  <2>2. globals[i].offset \in Int
    BY <2>1 DEF Symbol
  <2>3. globals[i].offset \in Taken(globals)
    BY <2>2 DEF Taken
  <2>4. globals[i].offset < lab
    BY <2>3 DEF LabelInv, Labelling, Drawn
  <2> QED
    BY <1>2, <2>2, <2>3, <2>4
<1>6. OneEach(globals')
  BY <1>2, <1>3, <1>5 DEF OneEach, LabelInv
<1>7. Labelling(code, lab + 1, OwedIn(ctl), HeadsIn(ctl), Taken(globals'))
  BY <1>2, <1>4, Draw DEF LabelInv
<1>8. ctl' = <<>> \o Tail(ctl) /\ Light(<<>>, Tail(ctl))
  BY <1>1, SilentShort, SilentLight DEF Goto
<1>9. /\ Nested(ctl') /\ OwedIn(ctl') = OwedIn(ctl) /\ HeadsIn(ctl') = HeadsIn(ctl)
  <2>1. ctl \in Seq(Item) /\ ctl # <<>> /\ Nested(ctl) /\ ctl[1].at \notin Owing
    BY <1>1, StackFacts DEF LabelInv, Owing
  <2>2. /\ Tail(ctl) \in Seq(Item) /\ Nested(Tail(ctl)) /\ OwedIn(Tail(ctl)) = OwedIn(ctl)
        /\ HeadsIn(Tail(ctl)) = HeadsIn(ctl)
    BY <2>1, PopPiece
  <2> QED
    BY <1>8, <2>2, PushLight
<1> QED
  BY <1>1, <1>6, <1>7, <1>9 DEF LabelInv

\* a function begins when nothing is owed
LEMMA EntryLabels ==
  ASSUME Inv, LabelInv, ProgramKind, code' # code
  PROVE  LabelInv'
<1>1. /\ Top.at = "progKind" /\ Emit(<<Instr("entry", 0)>>) /\ Goto(<<It("params")>>)
      /\ UNCHANGED <<globals, locals, lab>>
  BY DEF ProgramKind, At, Top, symbols
<1>2. ctl \in Seq(Item) /\ ctl # <<>> /\ Nested(ctl) /\ ctl[1].at = "progKind"
  BY <1>1, StackFacts DEF LabelInv
<1>3. ctl[1].at \in FileLevel /\ ctl[1].at \notin Owing
  BY <1>2 DEF FileLevel, Owing
<1>4. /\ Tail(ctl) \in Seq(Item) /\ Nested(Tail(ctl))
      /\ OwedIn(Tail(ctl)) = {} /\ HeadsIn(Tail(ctl)) = {}
      /\ OwedIn(ctl) = {} /\ HeadsIn(ctl) = {}
  BY <1>2, <1>3, PopPiece
<1>5. Light(<<It("params")>>, Tail(ctl))
  <2>1. Fits(It("params"), "stmt")
    BY FitsAll DEF Between, StatementLevel
  <2> QED
    BY <2>1, CalmShort, SilentCalm, SilentLight DEF FileLevel
<1>6. Nested(ctl') /\ OwedIn(ctl') = {} /\ HeadsIn(ctl') = {}
  BY <1>1, <1>4, <1>5, PushLight DEF Goto
<1>7. Instr("entry", 0) \in Instruction /\ Instr("entry", 0).op = "entry"
  BY EmitType DEF Instr
<1>8. code' = Append(code, Instr("entry", 0))
  BY <1>1, <1>7, EmitOne
<1>9. Labelling(code', lab, OwedIn(ctl), HeadsIn(ctl), Taken(globals))
  <2>1. code \in Seq(Instruction)
    BY StackFacts
  <2> QED
    BY <1>4, <1>7, <1>8, <2>1, OtherInstruction DEF LabelInv, JumpOps
<1> QED
  BY <1>1, <1>4, <1>6, <1>9 DEF LabelInv

\* a statement with labels of its own begins, and pieces are put before it
LEMMA PushStatement ==
  ASSUME NEW c \in Seq(Item), Nested(c), NEW x \in Item, x.at \in Owing, x.l1 <= OwedBy(x),
         \A l \in OwedIn(c) : l < x.l1,
         NEW p, Light(p, <<x>> \o c)
  PROVE  /\ Nested((p \o <<x>>) \o c)
         /\ OwedIn((p \o <<x>>) \o c) = OwedIn(c) \cup {OwedBy(x)}
         /\ HeadsIn((p \o <<x>>) \o c) =
              IF x.at = "whileEnd" THEN HeadsIn(c) \cup {x.l1} ELSE HeadsIn(c)
<1> PICK d : d = <<x>> \o c
  OBVIOUS
<1>1. /\ d \in Seq(Item) /\ Nested(d)
      /\ OwedIn(d) = OwedIn(c) \cup {OwedBy(x)}
      /\ HeadsIn(d) = IF x.at = "whileEnd" THEN HeadsIn(c) \cup {x.l1} ELSE HeadsIn(c)
  BY PushOwing
<1>2. Nested(p \o d) /\ OwedIn(p \o d) = OwedIn(d) /\ HeadsIn(p \o d) = HeadsIn(d)
  BY <1>1, PushLight
<1>3. (p \o <<x>>) \o c = p \o d
  <2>1. p \in Seq(Item) /\ <<x>> \in Seq(Item)
    BY DEF Light
  <2> QED
    BY <2>1, Associated
<1> QED
  BY <1>1, <1>2, <1>3

\* what is below the innermost piece, and what has been emitted
LEMMA BelowTop ==
  ASSUME Inv, LabelInv
  PROVE  /\ Tail(ctl) \in Seq(Item) /\ Nested(Tail(ctl))
         /\ Top.at \notin Owing => /\ OwedIn(Tail(ctl)) = OwedIn(ctl)
                                   /\ HeadsIn(Tail(ctl)) = HeadsIn(ctl)
         /\ Top.at \in Owing =>
              /\ OwedIn(Tail(ctl)) = OwedIn(ctl) \ {OwedBy(Top)}
              /\ OwedBy(Top) \in OwedIn(ctl)
              /\ HeadsIn(Tail(ctl)) \in SUBSET HeadsIn(ctl)
              /\ \A n \in HeadsIn(Tail(ctl)) : n < Top.l1 /\ n < OwedBy(Top)
         /\ Top.at = "whileEnd" => HeadsIn(ctl) = HeadsIn(Tail(ctl)) \cup {Top.l1}
         /\ \A l \in OwedIn(ctl) \cup HeadsIn(ctl) : l \in Nat /\ l < lab
         /\ code \in Seq(Instruction) /\ lab \in Nat /\ lab + 1 \in Nat
         /\ Labelling(code, lab, OwedIn(ctl), HeadsIn(ctl), Taken(globals))
         /\ locals = <<>> /\ OneEach(globals)
<1>1. ctl \in Seq(Item) /\ ctl # <<>> /\ Nested(ctl) /\ Top = ctl[1]
  BY StackFacts DEF LabelInv
<1>2. \A l \in OwedIn(ctl) \cup HeadsIn(ctl) : l \in Nat /\ l < lab
  BY DEF LabelInv, Labelling, Drawn
<1> QED
  BY <1>1, <1>2, PopPiece, StackFacts DEF LabelInv

\* if (...): a jump over the statement, to a label still to come
LEMMA IfTestLabels ==
  ASSUME Inv, LabelInv, IfTest
  PROVE  LabelInv'
<1> DEFINE x == Labelled("ifElse", lab)
           i == Instr("jz", lab)
<1>1. /\ Top.at = "ifTest" /\ lab' = lab + 1 /\ Emit(<<i>>)
      /\ Goto(<<It("stmt"), x>>) /\ UNCHANGED <<globals, locals>>
  BY DEF IfTest, At, Top, symbols
<1>2. /\ x \in Item /\ x.at = "ifElse" /\ x.l1 = lab /\ OwedBy(x) = lab
      /\ It("stmt") \in Item /\ It("stmt").at = "stmt"
  <2>1. lab \in Nat
    BY StackFacts
  <2> QED
    BY <2>1 DEF Labelled, It, Piece, Item, Places, OwedBy
<1>3. i \in Instruction /\ i.op = "jz" /\ i.l = lab
  BY StackFacts, EmitType DEF Instr
<1> HIDE DEF x, i
<1>4. Labelling(code, lab + 1, OwedIn(ctl) \cup {lab}, HeadsIn(ctl), Taken(globals))
  BY BelowTop, Draw
<1>5. code' = Append(code, i)
  BY <1>1, <1>3, EmitOne
<1>6. i.op \in JumpOps /\ i.l \in OwedIn(ctl) \cup {lab}
  BY <1>3 DEF JumpOps
<1>7. Labelling(code', lab + 1, OwedIn(ctl) \cup {lab}, HeadsIn(ctl), Taken(globals))
  BY <1>3, <1>4, <1>5, <1>6, BelowTop, JumpForward
<1>8. /\ OwedIn(Tail(ctl)) = OwedIn(ctl) /\ HeadsIn(Tail(ctl)) = HeadsIn(ctl)
      /\ Tail(ctl) \in Seq(Item) /\ Nested(Tail(ctl))
      /\ \A l \in OwedIn(Tail(ctl)) : l < lab
  BY <1>1, BelowTop DEF Owing
<1>9. Light(<<It("stmt")>>, <<x>> \o Tail(ctl))
  BY <1>2, SilentShort, SilentLight DEF Owing, FileLevel
<1>10. x.at \in Owing /\ x.l1 <= OwedBy(x)
  BY <1>2, BelowTop DEF Owing
<1>11. ctl' = (<<It("stmt")>> \o <<x>>) \o Tail(ctl)
  <2>1. <<It("stmt"), x>> = <<It("stmt")>> \o <<x>>
    OBVIOUS
  <2> QED
    BY <1>1, <2>1 DEF Goto
<1>12. /\ Nested(ctl') /\ OwedIn(ctl') = OwedIn(ctl) \cup {lab} /\ HeadsIn(ctl') = HeadsIn(ctl)
  BY <1>2, <1>8, <1>9, <1>10, <1>11, PushStatement
<1> QED
  BY <1>1, <1>7, <1>12, BelowTop DEF LabelInv

\* else: a jump over the second statement, and the label of the first
LEMMA ElseLabels ==
  ASSUME Inv, LabelInv, IfElse, token = "else"
  PROVE  LabelInv'
<1> DEFINE x == Labelled("ifEnd", lab)
           i == Instr("jump", lab)
           j == Instr("label", Top.l1)
<1>1. /\ Top.at = "ifElse" /\ lab' = lab + 1 /\ Emit(<<i, j>>)
      /\ Goto(<<It("stmt"), x>>) /\ UNCHANGED <<globals, locals>>
  BY DEF IfElse, At, Top, symbols
<1>2. /\ x \in Item /\ x.at = "ifEnd" /\ x.l1 = lab /\ OwedBy(x) = lab
      /\ It("stmt") \in Item /\ It("stmt").at = "stmt"
  <2>1. lab \in Nat
    BY StackFacts
  <2> QED
    BY <2>1 DEF Labelled, It, Piece, Item, Places, OwedBy
<1>3. /\ i \in Instruction /\ i.op = "jump" /\ i.l = lab
      /\ j \in Instruction /\ j.op = "label" /\ j.l = Top.l1 /\ Top.l1 = OwedBy(Top)
  BY <1>1, StackFacts, TopType, EmitType DEF Instr, OwedBy
<1> HIDE DEF x, i, j
<1> DEFINE below == Tail(ctl)
           owed == OwedIn(ctl) \cup {lab}
<1>4. Labelling(code, lab + 1, owed, HeadsIn(ctl), Taken(globals))
  BY BelowTop, Draw
<1>5. code' = Append(Append(code, i), j) /\ Append(code, i) \in Seq(Instruction)
  BY <1>1, <1>3, EmitOne, BelowTop
<1>6. i.op \in JumpOps /\ i.l \in owed
  BY <1>3 DEF JumpOps
<1>7. Labelling(Append(code, i), lab + 1, owed, HeadsIn(ctl), Taken(globals))
  BY <1>3, <1>4, <1>6, BelowTop, JumpForward
<1>8. /\ OwedIn(below) = OwedIn(ctl) \ {j.l} /\ HeadsIn(below) \in SUBSET HeadsIn(ctl)
      /\ j.l \in OwedIn(ctl) /\ j.l # lab
      /\ below \in Seq(Item) /\ Nested(below)
      /\ \A l \in OwedIn(below) : l < lab
      /\ \A n \in HeadsIn(below) : n < j.l
  <2>1. Top.at \in Owing
    BY <1>1 DEF Owing
  <2>2. \A l \in OwedIn(ctl) : l < lab /\ l # lab
    BY BelowTop
  <2> QED
    BY <1>3, <2>1, <2>2, BelowTop
<1> HIDE DEF below, owed
<1>9. Labelling(Append(code, i), lab + 1, owed, HeadsIn(below), Taken(globals))
  BY <1>7, <1>8, CloseLoop
<1>10. Labelling(code', lab + 1, owed \ {j.l}, HeadsIn(below), Taken(globals))
  BY <1>3, <1>5, <1>8, <1>9, LabelOwed DEF owed
<1>11. Light(<<It("stmt")>>, <<x>> \o below)
  BY <1>2, SilentShort, SilentLight DEF Owing, FileLevel
<1>12. x.at \in Owing /\ x.l1 <= OwedBy(x)
  BY <1>2, BelowTop DEF Owing
<1>13. ctl' = (<<It("stmt")>> \o <<x>>) \o below
  <2>1. <<It("stmt"), x>> = <<It("stmt")>> \o <<x>>
    OBVIOUS
  <2> QED
    BY <1>1, <2>1 DEF Goto, below
<1>14. /\ Nested(ctl') /\ OwedIn(ctl') = OwedIn(below) \cup {lab} /\ HeadsIn(ctl') = HeadsIn(below)
  BY <1>2, <1>8, <1>11, <1>12, <1>13, PushStatement, ZenonT(40)
<1>15. OwedIn(below) \cup {lab} = owed \ {j.l}
  BY <1>8 DEF owed
<1> QED
  BY <1>1, <1>10, <1>14, <1>15, BelowTop DEF LabelInv

\* the label a statement owes is emitted, and the statement ends
LEMMA LabelReturn ==
  ASSUME Inv, LabelInv, Top.at \in {"ifElse", "ifEnd"}, Emit(<<Instr("label", Top.l1)>>),
         Goto(<<>>), UNCHANGED <<globals, locals, lab>>
  PROVE  LabelInv'
<1> DEFINE j == Instr("label", Top.l1)
           below == Tail(ctl)
<1>1. j \in Instruction /\ j.op = "label" /\ j.l = OwedBy(Top)
  BY TopType, EmitType DEF Instr, OwedBy
<1>2. code' = Append(code, j)
  BY <1>1, EmitOne
<1> HIDE DEF j
<1>3. Top.at \in Owing
  BY DEF Owing
<1>4. Labelling(code, lab, OwedIn(ctl), HeadsIn(below), Taken(globals))
  BY <1>3, BelowTop, CloseLoop
<1>5. Labelling(code', lab, OwedIn(ctl) \ {j.l}, HeadsIn(below), Taken(globals))
  BY <1>1, <1>2, <1>3, <1>4, BelowTop, LabelOwed
<1>6. ctl' = <<>> \o below
  BY DEF Goto
<1>7. Nested(ctl') /\ OwedIn(ctl') = OwedIn(below) /\ HeadsIn(ctl') = HeadsIn(below)
  BY <1>6, SilentShort, SilentLight, BelowTop, PushLight
<1> QED
  BY <1>1, <1>3, <1>5, <1>7, BelowTop DEF LabelInv

\* while: the head's label, and the number of the end's
LEMMA WhileHeadLabels ==
  ASSUME Inv, LabelInv, WhileHead
  PROVE  LabelInv'
<1> DEFINE test == Piece("whileTest", "", 0, 0, lab + 1, 0)
           x == Piece("whileEnd", "", 0, lab, lab + 1, wsp)
           j == Instr("label", lab)
           p == <<It("expr"), test, It("stmt")>>
           below == Tail(ctl)
<1>1. /\ Top.at = "whileHead" /\ lab' = lab + 2 /\ Emit(<<j>>)
      /\ Goto(<<It("expr"), test, It("stmt"), x>>) /\ UNCHANGED <<globals, locals>>
  BY DEF WhileHead, At, Top, symbols
<1>2. /\ x \in Item /\ x.at = "whileEnd" /\ x.l1 = lab /\ x.l2 = lab + 1 /\ OwedBy(x) = lab + 1
      /\ It("stmt") \in Item /\ It("stmt").at = "stmt"
      /\ It("expr") \in Item /\ It("expr").at = "expr"
      /\ test \in Item /\ test.at = "whileTest" /\ test.l2 = lab + 1
  <2>1. lab \in Nat /\ lab + 1 \in Nat /\ wsp \in Nat
    BY StackFacts, BoundsAssumption DEF Inv, TypeOK
  <2> QED
    BY <2>1 DEF It, Piece, Item, Places, OwedBy
<1>3. j \in Instruction /\ j.op = "label" /\ j.l = lab
  BY StackFacts, EmitType DEF Instr
<1>4. <<It("expr"), test, It("stmt"), x>> = p \o <<x>>
  <2>1. \A a, b, c, d : <<a, b, c, d>> = <<a, b, c>> \o <<d>>
    OBVIOUS
  <2> QED
    BY <2>1
<1>5. /\ p \in Seq(Item) /\ DOMAIN p = 1..3
      /\ p[1] = It("expr") /\ p[2] = test /\ p[3] = It("stmt")
  <2>1. \A a, b, c \in Item : <<a, b, c>> \in Seq(Item) /\ DOMAIN <<a, b, c>> = 1..3
    OBVIOUS
  <2> QED
    BY <1>2, <2>1
<1>6. \A i \in DOMAIN p : /\ p[i].at \in {"expr", "whileTest", "stmt"}
                          /\ p[i].at = "whileTest" => p[i].l2 = lab + 1
  <2>1. \A i \in 1..3 : i = 1 \/ i = 2 \/ i = 3
    OBVIOUS
  <2> HIDE DEF p, test
  <2> QED
    BY <1>2, <1>5, <2>1
<1>7. lab + 1 \in Nat /\ lab \in Nat /\ lab + 1 + 1 = lab + 2 /\ lab <= lab + 1
  BY StackFacts
<1> HIDE DEF test, x, j, p, below
<1>8. code' = Append(code, j) /\ code' \in Seq(Instruction)
  BY <1>1, <1>3, EmitOne, EmitType
<1>9. Labelling(code', lab + 1, OwedIn(ctl), HeadsIn(ctl) \cup {lab}, Taken(globals))
  BY <1>3, <1>7, <1>8, BelowTop, LabelHead
<1>10. Labelling(code', lab + 1 + 1, OwedIn(ctl) \cup {lab + 1}, HeadsIn(ctl) \cup {lab}, Taken(globals))
  BY <1>7, <1>9, Draw
<1>11. /\ OwedIn(below) = OwedIn(ctl) /\ HeadsIn(below) = HeadsIn(ctl)
       /\ below \in Seq(Item) /\ Nested(below)
       /\ \A l \in OwedIn(below) : l < lab
  BY <1>1, BelowTop DEF Owing, below
<1>12. Light(p, <<x>> \o below)
  <2>1. 1 \in DOMAIN (<<x>> \o below) /\ (<<x>> \o below)[1] = x
    BY <1>2, <1>11
  <2>2. \A i \in DOMAIN p : p[i].at \notin Owing /\ p[i].at \notin FileLevel
    BY <1>6 DEF Owing, FileLevel
  <2> QED
    BY <1>2, <1>5, <1>6, <2>1, <2>2 DEF Light
<1>13. ctl' = (p \o <<x>>) \o below
  BY <1>1, <1>4 DEF Goto, below
<1>14. x.at \in Owing /\ x.l1 <= OwedBy(x) /\ \A l \in OwedIn(below) : l < x.l1
  BY <1>2, <1>7, <1>11 DEF Owing
<1>15. /\ Nested(ctl') /\ OwedIn(ctl') = OwedIn(ctl) \cup {lab + 1}
       /\ HeadsIn(ctl') = HeadsIn(ctl) \cup {lab}
  BY <1>2, <1>11, <1>12, <1>13, <1>14, PushStatement
<1> QED
  BY <1>1, <1>7, <1>10, <1>15, BelowTop DEF LabelInv

\* a jump, after which the piece returns
LEMMA JumpReturn ==
  ASSUME Inv, LabelInv, NEW x \in Instruction, Emit(<<x>>), Goto(<<>>),
         Top.at \notin Owing, UNCHANGED <<globals, locals, lab>>,
         \/ x.op \in JumpOps /\ x.l \in OwedIn(ctl)
         \/ x.op = "jump" /\ x.l \in HeadsIn(ctl) /\ \A n \in HeadsIn(ctl) : n <= x.l
  PROVE  LabelInv'
<1>1. code' = Append(code, x)
  BY EmitOne
<1>2. Labelling(code', lab, OwedIn(ctl), HeadsIn(ctl), Taken(globals))
  <2>1. CASE x.op \in JumpOps /\ x.l \in OwedIn(ctl)
    BY <1>1, <2>1, BelowTop, JumpForward
  <2>2. CASE x.op = "jump" /\ x.l \in HeadsIn(ctl) /\ \A n \in HeadsIn(ctl) : n <= x.l
    BY <1>1, <2>2, BelowTop, JumpBack
  <2> QED
    BY <2>1, <2>2
<1>3. ctl' = <<>> \o Tail(ctl)
  BY DEF Goto
<1>4. Nested(ctl') /\ OwedIn(ctl') = OwedIn(ctl) /\ HeadsIn(ctl') = HeadsIn(ctl)
  BY <1>3, SilentShort, SilentLight, BelowTop, PushLight
<1> QED
  BY <1>2, <1>4, BelowTop DEF LabelInv

\* the loop's test jumps to its end
LEMMA WhileTestLabels ==
  ASSUME Inv, LabelInv, WhileTest
  PROVE  LabelInv'
<1>1. /\ Top.at = "whileTest" /\ Emit(<<Instr("jz", Top.l2)>>) /\ Goto(<<>>)
      /\ UNCHANGED <<globals, locals, lab>>
  BY DEF WhileTest, At, Top, symbols
<1>2. Instr("jz", Top.l2) \in Instruction
  BY TopType, EmitType
<1>3. Instr("jz", Top.l2).op \in JumpOps /\ Instr("jz", Top.l2).l = Top.l2
  BY DEF Instr, JumpOps
<1>4. Top.l2 \in OwedIn(ctl)
  <2>1. PICK j \in DOMAIN ctl : ctl[j].at = "whileEnd" /\ ctl[j].l2 = Top.l2
    BY <1>1, StackFacts DEF LabelInv, Nested, TestsIn
  <2> QED
    BY <2>1, TopType DEF OwedIn, OwedBy, Owing
<1>5. Top.at \notin Owing
  BY <1>1 DEF Owing
<1> QED
  BY <1>1, <1>2, <1>3, <1>4, <1>5, JumpReturn

\* the end of a loop: back to its head, and the label of its end
LEMMA WhileEndLabels ==
  ASSUME Inv, LabelInv, WhileEnd
  PROVE  LabelInv'
<1> DEFINE i == Instr("jump", Top.l1)
           j == Instr("label", Top.l2)
           below == Tail(ctl)
<1>1. /\ Top.at = "whileEnd" /\ Emit(<<i, j>>) /\ Goto(<<>>)
      /\ UNCHANGED <<globals, locals, lab>>
  BY DEF WhileEnd, At, Top, symbols
<1>2. /\ i \in Instruction /\ i.op = "jump" /\ i.l = Top.l1
      /\ j \in Instruction /\ j.op = "label" /\ j.l = Top.l2 /\ Top.l2 = OwedBy(Top)
  BY <1>1, TopType, EmitType DEF Instr, OwedBy
<1> HIDE DEF i, j
<1>3. /\ HeadsIn(ctl) = HeadsIn(below) \cup {Top.l1}
      /\ HeadsIn(below) \in SUBSET HeadsIn(ctl)
      /\ OwedIn(below) = OwedIn(ctl) \ {j.l} /\ j.l \in OwedIn(ctl)
      /\ \A n \in HeadsIn(below) : n < Top.l1 /\ n < j.l
      /\ below \in Seq(Item) /\ Nested(below)
  <2>1. Top.at \in Owing
    BY <1>1 DEF Owing
  <2> QED
    BY <1>1, <1>2, <2>1, BelowTop
<1>4. i.l \in HeadsIn(ctl) /\ \A n \in HeadsIn(ctl) : n <= i.l
  <2>1. Top.l1 \in Nat /\ \A n \in HeadsIn(ctl) : n \in Nat
    BY TopType, BelowTop
  <2> QED
    BY <1>2, <1>3, <2>1
<1>5. /\ code' = Append(Append(code, i), j) /\ Append(code, i) \in Seq(Instruction)
  BY <1>1, <1>2, EmitOne, BelowTop
<1>6. Labelling(Append(code, i), lab, OwedIn(ctl), HeadsIn(ctl), Taken(globals))
  BY <1>2, <1>4, BelowTop, JumpBack
<1>7. Labelling(Append(code, i), lab, OwedIn(ctl), HeadsIn(below), Taken(globals))
  BY <1>3, <1>6, CloseLoop
<1>8. Labelling(code', lab, OwedIn(below), HeadsIn(below), Taken(globals))
  <2>1. Labelling(Append(Append(code, i), j), lab, OwedIn(ctl) \ {j.l}, HeadsIn(below), Taken(globals))
    BY <1>2, <1>3, <1>5, <1>7, LabelOwed
  <2> QED
    BY <1>3, <1>5, <2>1
<1>9. ctl' = <<>> \o below
  BY <1>1 DEF Goto
<1>10. Nested(ctl') /\ OwedIn(ctl') = OwedIn(below) /\ HeadsIn(ctl') = HeadsIn(below)
  BY <1>3, <1>9, SilentShort, SilentLight, PushLight
<1> QED
  BY <1>1, <1>8, <1>10, BelowTop DEF LabelInv

\* break goes to the end of the innermost loop, continue to its head
LEMMA LeaveLoopLabels ==
  ASSUME Inv, LabelInv, LeaveLoop
  PROVE  LabelInv'
<1>1. /\ wsp > 0 /\ Goto(<<>>) /\ UNCHANGED <<globals, locals, lab>>
      /\ \/ Top.at = "break" /\ Emit(<<Instr("jump", breaklab[wsp - 1])>>)
         \/ Top.at = "continue" /\ Emit(<<Instr("jump", contlab[wsp - 1])>>)
  BY DEF LeaveLoop, At, Top, symbols
<1>2. PICK i \in OpenLoops : /\ \A j \in OpenLoops : i <= j
                             /\ breaklab[wsp - 1] = ctl[i].l2
                             /\ contlab[wsp - 1] = ctl[i].l1
  BY <1>1, InnermostFollows DEF InnermostLoop
<1>3. /\ i \in DOMAIN ctl /\ ctl[i].at = "whileEnd" /\ ctl[i].l1 \in Nat /\ ctl[i].l2 \in Nat
      /\ OwedBy(ctl[i]) = ctl[i].l2
  BY <1>2, StackFacts, PieceTypes DEF OpenLoops, OwedBy
<1>4. ctl[i].l2 \in OwedIn(ctl) /\ ctl[i].l1 \in HeadsIn(ctl)
  BY <1>3 DEF OwedIn, HeadsIn, Owing
<1>5. \A n \in HeadsIn(ctl) : n <= ctl[i].l1
  <2> SUFFICES ASSUME NEW n \in HeadsIn(ctl)
               PROVE  n <= ctl[i].l1
    OBVIOUS
  <2>1. PICK j \in DOMAIN ctl : ctl[j].at = "whileEnd" /\ ctl[j].l1 = n
    BY DEF HeadsIn
  <2>2. i <= j /\ i \in Nat /\ j \in Nat /\ OwedBy(ctl[j]) \in Nat /\ n \in Nat
    BY <1>2, <2>1, StackFacts, PieceTypes DEF OpenLoops
  <2>3. CASE i = j
    BY <1>3, <2>1, <2>3
  <2>4. CASE i < j
    <3>1. OwedBy(ctl[j]) < ctl[i].l1 /\ n <= OwedBy(ctl[j])
      BY <1>3, <2>1, <2>4 DEF LabelInv, Nested, SortedIn, Owing
    <3> QED
      BY <1>3, <2>2, <3>1
  <2> QED
    BY <2>2, <2>3, <2>4
<1>6. \A l \in Nat : /\ Instr("jump", l) \in Instruction
                     /\ Instr("jump", l).op = "jump" /\ Instr("jump", l).l = l
  BY EmitType DEF Instr
<1>7. "jump" \in JumpOps /\ Top.at \notin Owing
  BY <1>1 DEF JumpOps, Owing
<1>8. CASE Emit(<<Instr("jump", breaklab[wsp - 1])>>)
  <2> DEFINE x == Instr("jump", ctl[i].l2)
  <2>1. x \in Instruction /\ x.op \in JumpOps /\ x.l \in OwedIn(ctl) /\ Emit(<<x>>)
    BY <1>2, <1>3, <1>4, <1>6, <1>7, <1>8
  <2> QED
    BY <1>1, <1>7, <2>1, JumpReturn
<1>9. CASE Emit(<<Instr("jump", contlab[wsp - 1])>>)
  <2> DEFINE x == Instr("jump", ctl[i].l1)
  <2>1. /\ x \in Instruction /\ x.op = "jump" /\ x.l \in HeadsIn(ctl) /\ Emit(<<x>>)
        /\ \A n \in HeadsIn(ctl) : n <= x.l
    BY <1>2, <1>3, <1>4, <1>5, <1>6, <1>9
  <2> QED
    BY <1>1, <1>7, <2>1, JumpReturn
<1> QED
  BY <1>1, <1>8, <1>9

LEMMA LabelInit == Init => LabelInv
<1> SUFFICES ASSUME Init PROVE LabelInv
  OBVIOUS
<1>1. code = <<>> /\ lab = 1 /\ globals = <<>> /\ locals = <<>> /\ ctl = <<It("start")>>
  BY DEF Init
<1>2. DOMAIN ctl = {1} /\ ctl[1].at = "start"
  <2>1. It("start").at = "start"
    BY DEF It, Piece
  <2>2. \A x : DOMAIN <<x>> = {1} /\ <<x>>[1] = x
    OBVIOUS
  <2> QED
    BY <1>1, <2>1, <2>2
<1>3. OwedIn(ctl) = {} /\ HeadsIn(ctl) = {}
  BY <1>2 DEF OwedIn, HeadsIn, Owing
<1>4. Taken(globals) = {} /\ OneEach(globals)
  BY <1>1 DEF Taken, OneEach
<1>5. Nested(ctl)
  BY <1>2 DEF Nested, SortedIn, TestsIn, LevelledIn, Owing
<1>6. Labelling(code, lab, {}, {}, {})
  BY <1>1, NoCode
<1> QED
  BY <1>1, <1>3, <1>4, <1>5, <1>6 DEF LabelInv

LEMMA LabelNext == Inv /\ LabelInv /\ [Next]_vars => LabelInv'
<1> SUFFICES ASSUME Inv, LabelInv, [Next]_vars PROVE LabelInv'
  OBVIOUS
<1>1. CASE UNCHANGED vars
  BY <1>1 DEF vars, symbols, LabelInv
<1>2. CASE Declarations
  <2>1. CASE Declare
    BY <2>1, DeclareLabels
  <2>2. CASE ProgramKind
    BY <2>2, EntryLabels, QuietLabels DEF QuietActions
  <2> QED
    BY <1>2, <2>1, <2>2, QuietLabels DEF Declarations, QuietActions
<1>3. CASE FunctionParts
  BY <1>3, QuietLabels DEF QuietActions
<1>4. CASE Statements
  <2>1. CASE IfElse
    <3>1. CASE token = "else"
      BY <2>1, <3>1, ElseLabels
    <3>2. CASE token # "else"
      <4>1. /\ Top.at \in {"ifElse", "ifEnd"} /\ Emit(<<Instr("label", Top.l1)>>)
            /\ Goto(<<>>) /\ UNCHANGED <<globals, locals, lab>>
        BY <2>1, <3>2 DEF IfElse, At, Top, symbols
      <4> QED
        BY <4>1, LabelReturn
    <3> QED
      BY <3>1, <3>2
  <2>2. CASE IfEnd
    <3>1. /\ Top.at \in {"ifElse", "ifEnd"} /\ Emit(<<Instr("label", Top.l1)>>)
          /\ Goto(<<>>) /\ UNCHANGED <<globals, locals, lab>>
      BY <2>2 DEF IfEnd, At, Top, symbols
    <3> QED
      BY <3>1, LabelReturn
  <2>3. CASE IfTest \/ WhileHead \/ WhileTest \/ WhileEnd \/ LeaveLoop
    BY <2>3, IfTestLabels, WhileHeadLabels, WhileTestLabels, WhileEndLabels, LeaveLoopLabels
  <2>4. CASE QuietActions
    BY <2>4, QuietLabels
  <2> QED
    BY <1>4, <2>1, <2>2, <2>3, <2>4 DEF Statements, QuietActions
<1>5. CASE Expressions
  <2>1. CASE PushActions
    BY <2>1, PushLabels
  <2>2. CASE QuietActions
    BY <2>2, QuietLabels
  <2> QED
    BY <1>5, <2>1, <2>2 DEF Expressions, QuietActions, PushActions
<1>6. CASE ErrorExit
  BY <1>6 DEF ErrorExit, symbols, LabelInv
<1> QED
  BY <1>1, <1>2, <1>3, <1>4, <1>5, <1>6 DEF Next, Stopped

\* the properties' sets are those of the theory
LEMMA SameSets ==
  ASSUME Inv
  PROVE  /\ \A l : LabelAt(l) = LabelsIn(code, l)
         /\ JumpsAt = JumpsIn(code) /\ Entries = EntriesIn(code)
         /\ Owed = OwedIn(ctl)
         /\ \A i \in DOMAIN code : i \in Nat /\ code[i].l \in Nat
<1>1. \A i \in DOMAIN code : i \in Nat /\ code[i] \in Instruction
  BY StackFacts
<1>2. \A i \in DOMAIN code : code[i].op \in {"entry", "label", "jump", "jz"} /\ code[i].l \in Nat
  BY <1>1 DEF Instruction
<1>3. JumpsAt = JumpsIn(code)
  <2>1. \A i \in DOMAIN code : code[i].op \in {"jump", "jz"} <=> code[i].op \in JumpOps
    BY <1>2 DEF JumpOps
  <2> QED
    BY <2>1 DEF JumpsAt, JumpsIn
<1>4. (\A l : LabelAt(l) = LabelsIn(code, l)) /\ Entries = EntriesIn(code)
  BY DEF LabelAt, LabelsIn, Entries, EntriesIn
<1>5. \A i \in DOMAIN ctl : ctl[i].l1 \in Nat /\ ctl[i].l2 \in Nat
  BY StackFacts, PieceTypes
<1>6. Owed \subseteq OwedIn(ctl)
  <2> SUFFICES ASSUME NEW l \in Owed PROVE l \in OwedIn(ctl)
    OBVIOUS
  <2>1. CASE \E i \in DOMAIN ctl : ctl[i].at \in {"ifElse", "ifEnd"} /\ ctl[i].l1 = l
    <3>1. PICK i \in DOMAIN ctl : ctl[i].at \in {"ifElse", "ifEnd"} /\ ctl[i].l1 = l
      BY <2>1
    <3>2. ctl[i].at \in Owing /\ OwedBy(ctl[i]) = l /\ l \in Nat
      BY <1>5, <3>1 DEF Owing, OwedBy
    <3> QED
      BY <3>2 DEF OwedIn
  <2>2. CASE \E i \in DOMAIN ctl : ctl[i].at = "whileEnd" /\ ctl[i].l2 = l
    <3>1. PICK i \in DOMAIN ctl : ctl[i].at = "whileEnd" /\ ctl[i].l2 = l
      BY <2>2
    <3>2. ctl[i].at \in Owing /\ OwedBy(ctl[i]) = l /\ l \in Nat
      BY <1>5, <3>1 DEF Owing, OwedBy
    <3> QED
      BY <3>2 DEF OwedIn
  <2> QED
    BY <2>1, <2>2 DEF Owed, OpenLoops
<1>7. OwedIn(ctl) \subseteq Owed
  <2> SUFFICES ASSUME NEW i \in DOMAIN ctl, ctl[i].at \in Owing PROVE OwedBy(ctl[i]) \in Owed
    BY DEF OwedIn
  <2>1. CASE ctl[i].at = "whileEnd"
    BY <2>1 DEF OwedBy, Owed, OpenLoops
  <2>2. CASE ctl[i].at # "whileEnd"
    BY <2>2 DEF OwedBy, Owed, Owing
  <2> QED
    BY <2>1, <2>2
<1> QED
  BY <1>1, <1>2, <1>3, <1>4, <1>6, <1>7

LEMMA LabelsGive == Inv /\ LabelInv => OwnNumbers /\ JumpsLand /\ SingleEntry
<1> SUFFICES ASSUME Inv, LabelInv PROVE OwnNumbers /\ JumpsLand /\ SingleEntry
  OBVIOUS
<1>1. OwnNumbers
  <2>1. ASSUME NEW i \in DOMAIN globals
        PROVE  globals[i].offset < lab /\ LabelAt(globals[i].offset) = {}
    <3>1. globals[i] \in Symbol
      BY DEF Inv, TypeOK
    <3>2. globals[i].offset \in Taken(globals)
      BY <3>1 DEF Symbol, Taken
    <3> QED
      BY <3>2, SameSets DEF LabelInv, Labelling, Drawn, Unused
  <2> QED
    BY <2>1 DEF OwnNumbers, LabelInv, OneEach
<1>2. JumpsLand
  <2>1. ASSUME NEW i \in DOMAIN code, NEW j \in DOMAIN code,
               code[i].op = "label", code[j].op = "label", code[i].l = code[j].l
        PROVE  i = j
    BY <2>1 DEF LabelInv, Labelling, EmittedOnce, AllLabels
  <2>2. Owed # {} => Top.at # "program"
    <3>1. Top.at = "program" => OwedIn(ctl) = {}
      BY StackFacts, PopPiece DEF LabelInv, FileLevel, Owing
    <3> QED
      BY <3>1, SameSets
  <2>3. ASSUME NEW j \in JumpsAt
        PROVE  \/ \E i \in LabelAt(code[j].l) :
                    \A e \in Entries : (e < i) <=> (e < j)
               \/ code[j].l \in Owed /\ \A e \in Entries : e < j
    BY SameSets DEF LabelInv, Labelling, JumpsSettled
  <2> QED
    BY <2>1, <2>2, <2>3 DEF JumpsLand
<1>3. SingleEntry
  <2> SUFFICES ASSUME NEW j \in JumpsAt, NEW h \in LabelAt(code[j].l), h < j
               PROVE  /\ code[j].op = "jump"
                      /\ \A k \in JumpsAt \ (h..j) : \A p \in LabelAt(code[k].l) : ~(h < p /\ p < j)
    BY DEF SingleEntry
  <2>1. /\ code[j].op = "jump"
        /\ \A k \in JumpsAt : \A p \in LabelAt(code[k].l) :
             (k < h \/ j < k) => ~(h < p /\ p < j)
    BY SameSets DEF LabelInv, Labelling, LoopsClosed
  <2>2. \A k \in JumpsAt \ (h..j) : k < h \/ j < k
    BY SameSets DEF JumpsAt, LabelAt
  <2> QED
    BY <2>1, <2>2
<1> QED
  BY <1>1, <1>2, <1>3

LEMMA LabelsAlways == Spec => [](Inv /\ LabelInv)
BY InvInit, InvNext, LabelInit, LabelNext, PTL DEF Spec

\* However the declarations and the statements of a file alternate, every global has a
\* number of its own, and no number is a variable's and a label's: add_symbol() and the
\* statements share one counter and each draws what it uses.
THEOREM NumbersCorrect == Spec => []OwnNumbers
BY LabelsAlways, LabelsGive, PTL

\* For every file, however deep its statements nest: no label is emitted twice, and every
\* jump's label is in the jump's own function or will be emitted there by a statement()
\* that is still active.
THEOREM JumpsCorrect == Spec => []JumpsLand
BY LabelsAlways, LabelsGive, PTL

\* For every file, a loop is entered only through its head, and no jump back is conditional.
THEOREM EntryCorrect == Spec => []SingleEntry
BY LabelsAlways, LabelsGive, PTL

-----------------------------------------------------------------------------
(* Calls.  A piece callArg that already counts an argument is begun by a     *)
(* comma, and no expression begins with one: the file is rejected before the *)
(* piece is reached.                                                         *)

Calls == {"callArg", "callMore", "callClose"}
Seeking == {"expr", "unary", "primary"}

Small(c) == \A i \in DOMAIN c : c[i].at \in Calls => c[i].n <= 1
Second(c) == \E i \in DOMAIN c : c[i].at = "callArg" /\ c[i].n >= 1
\* a sequence of such pieces
Mute(p) == p \in Seq(Item) /\ Small(p) /\ ~Second(p)

\* a piece that counts no second argument
Muted(x) ==
  /\ x \in Item
  /\ x.at \in Calls => x.n <= 1
  /\ ~(x.at = "callArg" /\ x.n >= 1)

CallInv == Small(ctl) /\ (Second(ctl) => token = "," /\ Top.at \in Seeking)

LEMMA CallGoto ==
  ASSUME Inv, Small(ctl), NEW p \in Seq(Item), Small(p), Goto(p)
  PROVE  /\ Small(ctl')
         /\ Second(ctl') => Second(p) \/ Second(ctl)
         /\ Len(p) >= 1 => Top' = p[1]
<1>1. ctl \in Seq(Item) /\ ctl # <<>> /\ DOMAIN ctl = 1..Len(ctl) /\ Len(ctl) \in Nat
  BY StackFacts
<1> PICK d : d = p \o Tail(ctl)
  OBVIOUS
<1>2. /\ d \in Seq(Item)
      /\ \A i \in 1..Len(p) : d[i] = p[i]
      /\ \A i \in DOMAIN d : i <= Len(p) \/ (i - Len(p) + 1 \in 2..Len(ctl)
                                              /\ d[i] = ctl[i - Len(p) + 1])
  BY <1>1, GotoIndex
<1>3. /\ DOMAIN p = 1..Len(p) /\ Len(p) \in Nat
      /\ \A i \in DOMAIN d : i \in Nat /\ i >= 1
  BY <1>2
<1>4. \A i \in DOMAIN d : (\E k \in DOMAIN p : d[i] = p[k]) \/ \E k \in DOMAIN ctl : d[i] = ctl[k]
  <2> SUFFICES ASSUME NEW i \in DOMAIN d
               PROVE  (\E k \in DOMAIN p : d[i] = p[k]) \/ \E k \in DOMAIN ctl : d[i] = ctl[k]
    OBVIOUS
  <2>1. CASE i <= Len(p)
    BY <1>2, <1>3, <2>1
  <2>2. CASE ~(i <= Len(p))
    <3>1. i - Len(p) + 1 \in 1..Len(ctl) /\ d[i] = ctl[i - Len(p) + 1]
      BY <1>1, <1>2, <1>3, <2>2
    <3> QED
      BY <1>1, <3>1
  <2> QED
    BY <2>1, <2>2
<1>5. Small(d)
  BY <1>4 DEF Small
<1>6. Second(d) => Second(p) \/ Second(ctl)
  BY <1>4 DEF Second
<1>7. Len(p) >= 1 => Head(d) = p[1]
  <2> SUFFICES ASSUME Len(p) >= 1 PROVE Head(d) = p[1]
    OBVIOUS
  <2>1. d[1] = p[1]
    BY <1>2, <1>3
  <2>2. Head(d) = d[1]
    BY <1>2
  <2> QED
    BY <2>1, <2>2
<1>8. ctl' = d
  BY DEF Goto
<1>9. Top' = Head(d)
  BY <1>8 DEF Top
<1> QED
  BY <1>5, <1>6, <1>7, <1>8, <1>9

\* a step of a piece that is no expression's first, to pieces that hold no second argument
LEMMA CallMoves ==
  ASSUME Inv, CallInv, Top.at \notin Seeking, NEW p, Mute(p), Goto(p)
  PROVE  CallInv'
BY CallGoto DEF CallInv, Mute

LEMMA CalmCalls ==
  ASSUME NEW p, NEW a, Calm(p, a)
  PROVE  Mute(p)
BY DEF Calm, Fits, Laden, Small, Second, Calls, Mute

LEMMA SeekingActions ==
  ASSUME QuietActions, Top.at \in Seeking
  PROVE  Expression \/ Unary \/ Primary
<1>1. Top.at = "expr" \/ Top.at = "unary" \/ Top.at = "primary"
  BY DEF Seeking
<1>2. ~(Start \/ Program \/ ProgramName \/ Dimension \/ DimensionSize)
  BY <1>1 DEF Start, Program, ProgramName, Dimension, DimensionSize, At, Top
<1>3. ~ProgramKind
  BY <1>1 DEF ProgramKind, At, Top
<1>4. ~FunctionParts
  BY <1>1 DEF FunctionParts, SkipParams, FunctionOpen, Locals, LocalName, LocalNext, Body, At, Top
<1>5. ~(ExpectToken \/ Block \/ ReturnValue \/ WhileOverrun)
  BY <1>1 DEF ExpectToken, Block, ReturnValue, WhileOverrun, At, Top
<1>6. ~Statement
  BY <1>1 DEF Statement, At, Top
<1>7. ~(AddressOf \/ NameUse)
  BY <1>1 DEF AddressOf, NameUse, At, Top
<1> QED
  BY <1>2, <1>3, <1>4, <1>5, <1>6, <1>7 DEF QuietActions

LEMMA NoOperandComma == "," \notin Number \cup Names \cup {"string", "("} \cup Prefix \cup {"&"}
BY NamesAssumption DEF Reserved, Number, Prefix

LEMMA CallQuiet ==
  ASSUME Inv, CallInv, QuietActions
  PROVE  CallInv'
<1>1. Quiet
  BY QuietMoves
<1>2. CASE ~Second(ctl)
  <2>1. CASE UNCHANGED ctl
    BY <1>2, <2>1 DEF CallInv
  <2>2. CASE \E p : Goto(p) /\ Calm(p, Top.at)
    <3>1. PICK p : Goto(p) /\ Calm(p, Top.at)
      BY <2>2
    <3>2. Small(ctl') /\ ~Second(ctl')
      BY <1>2, <3>1, CalmCalls, CallGoto DEF CallInv, Mute
    <3> QED
      BY <3>2 DEF CallInv
  <2> QED
    BY <1>1, <2>1, <2>2 DEF Quiet
<1>3. CASE Second(ctl)
  <2>1. token = "," /\ Top.at \in Seeking
    BY <1>3 DEF CallInv
  <2>2. CASE Expression
    <3> DEFINE p == Operand(1) \o <<It("assign")>>
    <3>1. Goto(p) /\ token' = token
      BY <2>2 DEF Expression, Stay, input
    <3>2. p \in Seq(Item) /\ Small(p) /\ Len(p) >= 1 /\ p[1] = It("unary")
      <4>1. Calm(Operand(1), "expr")
        BY CalmOperand
      <4>2. Calm(<<It("assign")>>, "expr")
        BY FitsAll, CalmShort DEF Inner
      <4>3. Small(Operand(1)) /\ Operand(1) \in Seq(Item) /\ Small(<<It("assign")>>)
            /\ <<It("assign")>> \in Seq(Item)
        BY <4>1, <4>2, CalmCalls DEF Mute
      <4>4. Operand(1) = <<It("unary")>> \o [i \in 1..10 |-> Count("level", 11 - i)]
        BY DEF Operand
      <4>5. \A i \in 1..10 : Count("level", 11 - i) \in Item
        BY DEF Count, Piece, Item, Places
      <4>6. [i \in 1..10 |-> Count("level", 11 - i)] \in Seq(Item)
        BY <4>5
      <4>7. It("unary") \in Item
        BY DEF It, Piece, Item, Places
      <4>8. Len(Operand(1)) >= 1 /\ Operand(1)[1] = It("unary")
        BY <4>4, <4>6, <4>7
      <4>9. \A q, r \in Seq(Item) : Small(q) /\ Small(r) => Small(q \o r)
        BY DEF Small
      <4>10. \A q, r \in Seq(Item) : Len(q) >= 1 => /\ (q \o r)[1] = q[1] /\ Len(q \o r) >= 1
                                                   /\ q \o r \in Seq(Item)
        OBVIOUS
      <4> QED
        BY <4>3, <4>8, <4>9, <4>10
    <3>3. Top' = It("unary") /\ Small(ctl')
      BY <3>1, <3>2, CallGoto DEF CallInv
    <3>4. It("unary").at = "unary"
      BY DEF It, Piece
    <3> QED
      BY <2>1, <3>1, <3>3, <3>4 DEF CallInv, Seeking
  <2>3. CASE Unary
    <3> DEFINE p == <<It("primary"), It("postfix")>>
    <3>1. Goto(p) /\ token' = token
      BY <2>1, <2>3, NoOperandComma DEF Unary, Stay, input
    <3>2. Calm(p, "unary")
      BY FitsAll, CalmShort DEF Inner
    <3>3. p \in Seq(Item) /\ Small(p)
      BY <3>2, CalmCalls DEF Mute
    <3>4. Len(p) >= 1 /\ p[1].at = "primary"
      <4>1. \A x, y : Len(<<x, y>>) = 2 /\ <<x, y>>[1] = x
        OBVIOUS
      <4>2. It("primary").at = "primary"
        BY DEF It, Piece
      <4> QED
        BY <4>1, <4>2
    <3> HIDE DEF p
    <3>5. Top' = p[1] /\ Small(ctl')
      BY <3>1, <3>3, <3>4, CallGoto DEF CallInv
    <3> QED
      BY <2>1, <3>1, <3>4, <3>5 DEF CallInv, Seeking
  <2>4. CASE Primary
    BY <2>1, <2>4, NoOperandComma DEF Primary
  <2> QED
    BY <2>1, <2>2, <2>3, <2>4, SeekingActions
<1> QED
  BY <1>2, <1>3

LEMMA MuteAll ==
  ASSUME NEW p \in Seq(Item), \A i \in DOMAIN p : Muted(p[i])
  PROVE  Mute(p)
<1>1. Small(p)
  BY DEF Small, Muted
<1>2. ~Second(p)
  BY DEF Second, Muted
<1> QED
  BY <1>1, <1>2 DEF Mute

LEMMA MuteShort ==
  /\ Mute(<<>>)
  /\ \A x : Muted(x) => Mute(<<x>>)
  /\ \A x, y : Muted(x) /\ Muted(y) => Mute(<<x, y>>)
  /\ \A x, y, z, u :
       Muted(x) /\ Muted(y) /\ Muted(z) /\ Muted(u) => Mute(<<x, y, z, u>>)
<1>0. \A x : Muted(x) => x \in Item
  BY DEF Muted
<1>1. Mute(<<>>)
  BY DEF Mute, Small, Second
<1>2. ASSUME NEW x, Muted(x)
      PROVE  Mute(<<x>>)
  <2> DEFINE p == <<x>>
  <2>1. p \in Seq(Item) /\ \A i \in DOMAIN p : Muted(p[i])
    BY <1>0, <1>2
  <2> QED
    BY <2>1, MuteAll
<1>3. ASSUME NEW x, NEW y, Muted(x), Muted(y)
      PROVE  Mute(<<x, y>>)
  <2> DEFINE p == <<x, y>>
  <2>1. p \in Seq(Item) /\ \A i \in DOMAIN p : Muted(p[i])
    BY <1>0, <1>3
  <2> QED
    BY <2>1, MuteAll
<1>4. ASSUME NEW x, NEW y, NEW z, NEW u, Muted(x), Muted(y), Muted(z), Muted(u)
      PROVE  Mute(<<x, y, z, u>>)
  <2> DEFINE p == <<x, y, z, u>>
  <2>1. p \in Seq(Item) /\ \A i \in DOMAIN p : Muted(p[i])
    BY <1>0, <1>4
  <2> QED
    BY <2>1, MuteAll
<1> QED
  BY <1>1, <1>2, <1>3, <1>4

LEMMA MuteConcat ==
  ASSUME NEW p, NEW q, Mute(p), Mute(q)
  PROVE  Mute(p \o q)
<1>1. p \in Seq(Item) /\ q \in Seq(Item)
  BY DEF Mute
<1> PICK d : d = p \o q
  OBVIOUS
<1>2. d \in Seq(Item)
  BY <1>1
<1>3. \A i \in DOMAIN d : (\E k \in DOMAIN p : d[i] = p[k]) \/ \E k \in DOMAIN q : d[i] = q[k]
  <2> SUFFICES ASSUME NEW i \in DOMAIN d
               PROVE  (\E k \in DOMAIN p : d[i] = p[k]) \/ \E k \in DOMAIN q : d[i] = q[k]
    OBVIOUS
  <2>1. CASE i <= Len(p)
    BY <1>1, <2>1
  <2>2. CASE ~(i <= Len(p))
    BY <1>1, <2>2
  <2> QED
    BY <2>1, <2>2
<1> QED
  BY <1>2, <1>3 DEF Mute, Small, Second

Args == Token \cup {""}

LEMMA ArgsHold == "" \in Args /\ \A t \in Token : t \in Args
BY Zenon DEF Args

LEMMA ItemArgs == Item = [at : Places, arg : Args, n : Nat, l1 : Nat, l2 : Nat, slot : Nat]
BY DEF Item, Args

LEMMA MutedPieces ==
  /\ \A b \in Places \ Calls, t \in Args, k, l, m, n \in Nat : Muted(Piece(b, t, k, l, m, n))
  /\ \A b \in {"callMore", "callClose"}, t \in Args, k \in {0, 1} :
       Muted(Piece(b, t, k, 0, 0, 0))
  /\ Muted(Piece("callArg", "", 0, 0, 0, 0))
<1>0. "callArg" \in Places /\ "callMore" \in Places /\ "callClose" \in Places
  BY DEF Places
<1>1. \A b \in Places, t \in Args, k, l, m, n \in Nat :
        /\ Piece(b, t, k, l, m, n) \in Item
        /\ Piece(b, t, k, l, m, n).at = b
        /\ Piece(b, t, k, l, m, n).n = k
  <2> TAKE b \in Places, t \in Args, k, l, m, n \in Nat
  <2>2. Piece(b, t, k, l, m, n) \in Item
    BY ItemArgs DEF Piece
  <2>3. Piece(b, t, k, l, m, n).at = b /\ Piece(b, t, k, l, m, n).n = k
    BY DEF Piece
  <2> QED
    BY <2>2, <2>3
<1>2. ASSUME NEW b \in Places \ Calls, NEW t \in Args,
             NEW k \in Nat, NEW l \in Nat, NEW m \in Nat, NEW n \in Nat
      PROVE  Muted(Piece(b, t, k, l, m, n))
  <2>1. Piece(b, t, k, l, m, n) \in Item /\ Piece(b, t, k, l, m, n).at = b
    BY <1>1
  <2>2. b \notin Calls /\ b # "callArg"
    BY DEF Calls
  <2> QED
    BY <2>1, <2>2 DEF Muted
<1>3. ASSUME NEW b \in {"callMore", "callClose"}, NEW t \in Args, NEW k \in {0, 1}
      PROVE  Muted(Piece(b, t, k, 0, 0, 0))
  <2>1. b \in Places /\ b # "callArg" /\ k \in Nat /\ k <= 1
    BY <1>0
  <2> QED
    BY <1>1, <2>1 DEF Muted
<1>4. Muted(Piece("callArg", "", 0, 0, 0, 0))
  <2>1. Piece("callArg", "", 0, 0, 0, 0) \in Item
    BY <1>0, ArgsHold, ItemArgs DEF Piece
  <2>2. Piece("callArg", "", 0, 0, 0, 0).n = 0
    BY DEF Piece
  <2> HIDE DEF Piece
  <2>3. ~(0 >= 1) /\ 0 <= 1
    OBVIOUS
  <2> QED
    BY <2>1, <2>2, <2>3 DEF Muted
<1> QED
  BY <1>2, <1>3, <1>4

\* The loop over the arguments goes on when a comma follows the one it has read.
LEMMA CallMoreStep ==
  ASSUME Inv, CallInv, CallMore
  PROVE  CallInv'
<1>1. Top.at = "callMore" /\ token' = token
  BY DEF CallMore, At, Top, Stay, input
<1>2. /\ Top.n \in 0..1 /\ ~Second(ctl) /\ Small(ctl)
  <2>1. Top.n \in Nat
    BY TopType
  <2>2. Top.n <= 1
    BY <1>1, StackFacts DEF CallInv, Small, Calls
  <2>3. ~Second(ctl)
    BY <1>1 DEF CallInv, Seeking
  <2>4. Small(ctl)
    BY DEF CallInv
  <2>5. Top.n \in 0..1
    BY <2>1, <2>2
  <2> QED
    BY <2>3, <2>4, <2>5
<1>3. CASE token = ","
  <2> DEFINE p == <<It("expr"), Count("callArg", Top.n)>>
  <2>1. Goto(p)
    BY <1>3 DEF CallMore
  <2>2. /\ It("expr") \in Item /\ It("expr").at = "expr"
        /\ Count("callArg", Top.n) \in Item /\ Count("callArg", Top.n).n = Top.n
    BY <1>2 DEF It, Count, Piece, Item, Places
  <2>3. p \in Seq(Item) /\ Small(p) /\ Len(p) >= 1 /\ p[1].at = "expr"
    BY <1>2, <2>2 DEF Small, Calls
  <2> HIDE DEF p
  <2>4. Small(ctl') /\ Top' = p[1]
    BY <1>2, <2>1, <2>3, CallGoto
  <2> QED
    BY <1>1, <1>3, <2>3, <2>4 DEF CallInv, Seeking
<1>4. CASE token # ","
  <2>1. Goto(<<Count("callClose", Top.n)>>)
    BY <1>4 DEF CallMore
  <2>2. Top.n \in {0, 1}
    BY <1>2
  <2>3. Mute(<<Count("callClose", Top.n)>>)
    BY <2>2, ArgsHold, MutedPieces, MuteShort DEF Count
  <2> QED
    BY <1>1, <2>1, <2>3, CallMoves DEF Seeking
<1> QED
  BY <1>3, <1>4

LEMMA CallPush ==
  ASSUME Inv, CallInv, PushActions
  PROVE  CallInv'
<1>0. Mute(<<>>)
  BY MuteShort
<1>1. /\ \A b \in Inner \cup {"pop"} : b \in Places \ Calls
  BY DEF Inner, Calls, Places
<1>2. /\ \A b \in Inner \cup {"pop"} : Muted(It(b))
      /\ Muted(Expect("]")) /\ Muted(Count("callArg", 0)) /\ Muted(Count("callClose", 0))
  <2>1. \A b \in Inner \cup {"pop"} : Muted(It(b))
    BY <1>1, ArgsHold, MutedPieces DEF It
  <2>2. Muted(Expect("]"))
    <3>1. "expect" \in Places \ Calls /\ "]" \in Args
      BY TokenConstants, ArgsHold DEF Places, Calls
    <3> QED
      BY <3>1, MutedPieces DEF Expect, With
  <2>3. Muted(Count("callArg", 0)) /\ Muted(Count("callClose", 0))
    BY ArgsHold, MutedPieces DEF Count
  <2> QED
    BY <2>1, <2>2, <2>3
<1>3. CASE Assignment
  <2>1. Mute(<<It("expr"), It("pop")>>)
    BY <1>2, MuteShort DEF Inner
  <2>2. Top.at = "assign" /\ (Goto(<<It("expr"), It("pop")>>) \/ Goto(<<>>))
    BY <1>3 DEF Assignment, At, Top
  <2> QED
    BY <1>0, <2>1, <2>2, CallMoves DEF Seeking
<1>4. CASE BinaryLoop
  <2>1. Top.at = "level" /\ (Goto(Operand(Top.n + 1) \o <<It("pop"), Top>>) \/ Goto(<<>>))
    BY <1>4 DEF BinaryLoop, At, Top
  <2>2. Mute(<<It("pop"), Top>>)
    <3>1. Muted(Top)
      BY <2>1, TopType DEF Muted, Calls
    <3> QED
      BY <1>2, <3>1, MuteShort
  <2>3. Mute(Operand(Top.n + 1))
    BY TopNumbers, CalmOperand, CalmCalls
  <2>4. Mute(Operand(Top.n + 1) \o <<It("pop"), Top>>)
    BY <2>2, <2>3, MuteConcat
  <2> QED
    BY <1>0, <2>1, <2>4, CallMoves DEF Seeking
<1>5. CASE Pop
  <2>1. Top.at = "pop" /\ Goto(<<>>)
    BY <1>5 DEF Pop, At, Top
  <2> QED
    BY <1>0, <2>1, CallMoves DEF Seeking
<1>6. CASE Postfix
  <2> DEFINE p == <<It("expr"), Expect("]"), It("pop"), It("postfix")>>
  <2>1. Mute(p)
    BY <1>2, MuteShort DEF Inner
  <2>2. Top.at = "postfix" /\ (Goto(p) \/ Goto(<<>>) \/ UNCHANGED ctl)
    BY <1>6 DEF Postfix, At, Top
  <2>3. CASE UNCHANGED ctl
    BY <2>2, <2>3 DEF CallInv, Seeking
  <2> QED
    BY <1>0, <2>1, <2>2, <2>3, CallMoves DEF Seeking
<1>7. CASE CallOpen
  <2>1. Mute(<<It("expr"), Count("callArg", 0)>>) /\ Mute(<<Count("callClose", 0)>>)
    BY <1>2, MuteShort DEF Inner
  <2>2. /\ Top.at = "callOpen"
        /\ Goto(<<Count("callClose", 0)>>) \/ Goto(<<It("expr"), Count("callArg", 0)>>)
    BY <1>7 DEF CallOpen, At, Top
  <2> QED
    BY <2>1, <2>2, CallMoves DEF Seeking
<1>8. CASE CallArg
  <2>1. Top.at = "callArg" /\ Goto(<<Piece("callMore", token, Top.n + 1, 0, 0, 0)>>)
    BY <1>8 DEF CallArg, At, Top
  <2>2. ~Second(ctl)
    BY <2>1 DEF CallInv, Seeking
  <2>3. Top.n = 0
    <3>1. ~(Top.n >= 1) /\ Top.n \in Nat
      BY <2>1, <2>2, StackFacts, TopType DEF Second
    <3> QED
      BY <3>1
  <2>4. Mute(<<Piece("callMore", token, Top.n + 1, 0, 0, 0)>>)
    <3>1. Top.n + 1 = 1
      BY <2>3
    <3>2. token \in Args
      BY TopType, ArgsHold
    <3> QED
      BY <3>1, <3>2, MutedPieces, MuteShort
  <2> QED
    BY <2>1, <2>4, CallMoves DEF Seeking
<1>9. CASE CallMore
  BY <1>9, CallMoreStep
<1>10. CASE CallClose
  <2>1. Top.at = "callClose" /\ Goto(<<>>)
    BY <1>10 DEF CallClose, At, Top
  <2> QED
    BY <1>0, <2>1, CallMoves DEF Seeking
<1> QED
  BY <1>3, <1>4, <1>5, <1>6, <1>7, <1>8, <1>9, <1>10 DEF PushActions

LEMMA CallStatement ==
  ASSUME Inv, CallInv,
         IfTest \/ IfElse \/ IfEnd \/ WhileHead \/ WhileTest \/ WhileEnd \/ LeaveLoop
  PROVE  CallInv'
<1>0. Mute(<<>>)
  BY MuteShort
<1>1. lab \in Nat /\ lab + 1 \in Nat /\ wsp \in Nat
  BY StackFacts, BoundsAssumption DEF Inv, TypeOK
<1>2. \A b \in {"stmt", "expr", "ifElse", "ifEnd", "whileTest", "whileEnd"} : b \in Places \ Calls
  BY DEF Places, Calls
<1>3. /\ Muted(It("stmt")) /\ Muted(It("expr"))
      /\ Muted(Labelled("ifElse", lab)) /\ Muted(Labelled("ifEnd", lab))
      /\ Muted(Piece("whileTest", "", 0, 0, lab + 1, 0))
      /\ Muted(Piece("whileEnd", "", 0, lab, lab + 1, wsp))
  BY <1>1, <1>2, ArgsHold, MutedPieces DEF It, Labelled
<1>4. CASE IfTest
  <2>1. Top.at = "ifTest" /\ Goto(<<It("stmt"), Labelled("ifElse", lab)>>)
    BY <1>4 DEF IfTest, At, Top
  <2> QED
    BY <1>3, <2>1, MuteShort, CallMoves DEF Seeking
<1>5. CASE IfElse
  <2>1. Top.at = "ifElse" /\ (Goto(<<It("stmt"), Labelled("ifEnd", lab)>>) \/ Goto(<<>>))
    BY <1>5 DEF IfElse, At, Top
  <2> QED
    BY <1>0, <1>3, <2>1, MuteShort, CallMoves DEF Seeking
<1>6. CASE WhileHead
  <2> DEFINE p == <<It("expr"), Piece("whileTest", "", 0, 0, lab + 1, 0), It("stmt"),
                    Piece("whileEnd", "", 0, lab, lab + 1, wsp)>>
  <2>1. Top.at = "whileHead" /\ Goto(p)
    BY <1>6 DEF WhileHead, At, Top
  <2>2. Mute(p)
    BY <1>3, MuteShort
  <2> HIDE DEF p
  <2> QED
    BY <2>1, <2>2, CallMoves DEF Seeking
<1>7. CASE IfEnd \/ WhileTest \/ WhileEnd \/ LeaveLoop
  <2>1. Top.at \in {"ifEnd", "whileTest", "whileEnd", "break", "continue"} /\ Goto(<<>>)
    BY <1>7 DEF IfEnd, WhileTest, WhileEnd, LeaveLoop, At, Top
  <2> QED
    BY <1>0, <2>1, CallMoves DEF Seeking
<1> QED
  BY <1>4, <1>5, <1>6, <1>7

LEMMA CallInit == Init => CallInv
<1> SUFFICES ASSUME Init PROVE CallInv
  OBVIOUS
<1>1. \A i \in DOMAIN ctl : ctl[i].at = "start"
  <2>1. ctl = <<It("start")>>
    BY DEF Init
  <2>2. \A x : \A i \in DOMAIN <<x>> : <<x>>[i] = x
    OBVIOUS
  <2>3. It("start").at = "start"
    BY DEF It, Piece
  <2> QED
    BY <2>1, <2>2, <2>3
<1>2. Small(ctl)
  BY <1>1 DEF Small, Calls
<1>3. ~Second(ctl)
  BY <1>1 DEF Second
<1> QED
  BY <1>2, <1>3 DEF CallInv

\* No call is compiled with a second argument.
LEMMA CallNext == Inv /\ CallInv /\ [Next]_vars => CallInv'
<1> SUFFICES ASSUME Inv, CallInv, [Next]_vars PROVE CallInv'
  OBVIOUS
<1>1. CASE UNCHANGED vars
  BY <1>1 DEF vars, input, CallInv, Top
<1>2. CASE Declarations
  <2>1. CASE Declare \/ (ProgramKind /\ code' # code)
    <3>1. /\ Top.at \in {"declare", "progKind"}
          /\ Goto(<<>>) \/ Goto(<<It("params")>>) \/ Goto(<<With("dim", Top.arg), Expect(";")>>)
      BY <2>1 DEF Declare, ProgramKind, At, Top
    <3>2. Mute(<<>>) /\ Mute(<<It("params")>>) /\ Mute(<<With("dim", Top.arg), Expect(";")>>)
      <4>1. "params" \in Places \ Calls /\ "dim" \in Places \ Calls /\ "expect" \in Places \ Calls
        BY DEF Places, Calls
      <4>2. Top.arg \in Args /\ ";" \in Args
        BY TopType, TokenConstants, ArgsHold DEF Args
      <4>3. Muted(It("params")) /\ Muted(With("dim", Top.arg)) /\ Muted(Expect(";"))
        BY <4>1, <4>2, ArgsHold, MutedPieces DEF It, With, Expect
      <4> QED
        BY <4>3, MuteShort
    <3> QED
      BY <3>1, <3>2, CallMoves DEF Seeking
  <2>2. CASE QuietActions
    BY <2>2, CallQuiet
  <2> QED
    BY <1>2, <2>1, <2>2 DEF Declarations, QuietActions
<1>3. CASE FunctionParts
  BY <1>3, CallQuiet DEF QuietActions
<1>4. CASE Statements
  <2>1. CASE QuietActions
    BY <2>1, CallQuiet
  <2> QED
    BY <1>4, <2>1, CallStatement DEF Statements, QuietActions
<1>5. CASE Expressions
  <2>1. CASE QuietActions
    BY <2>1, CallQuiet
  <2> QED
    BY <1>5, <2>1, CallPush DEF Expressions, QuietActions, PushActions
<1>6. CASE ErrorExit
  BY <1>6 DEF ErrorExit, CallInv, Top
<1> QED
  BY <1>1, <1>2, <1>3, <1>4, <1>5, <1>6 DEF Next, Stopped

-----------------------------------------------------------------------------
(* The words on the run-time stack.  A piece stands for the words its return *)
(* pops; the depth of a C stack is their sum, and sp is its negative.        *)

Weight(x) == IF x.at = "pop" THEN Word
             ELSE IF x.at \in {"callArg", "callMore", "callClose"} THEN Word * x.n ELSE 0

\* f[i] is the sum of the weights from place i on; none below a statement
Sums(c, f) ==
  /\ f \in [1..(Len(c) + 1) -> Int]
  /\ f[Len(c) + 1] = 0
  /\ \A i \in DOMAIN c : /\ f[i] = f[i + 1] + Weight(c[i])
                         /\ c[i].at \in StatementLevel => f[i] = 0
Depth(c, d) == \E f : Sums(c, f) /\ f[1] = d

DepthInv ==
  /\ Depth(ctl, 0 - sp)
  /\ \A i \in DOMAIN code : code[i].op # "entry" => code[i].sp = 0

LEMMA WeightType ==
  /\ \A x \in Item : Weight(x) \in Int
  /\ \A x : x.at \notin {"pop", "callArg", "callMore", "callClose"} => Weight(x) = 0
  /\ \A x : x.at = "pop" => Weight(x) = Word
  /\ \A x : x.at \in {"callArg", "callMore", "callClose"} => Weight(x) = Word * x.n
<1>1. \A x \in Item : Word \in Int /\ x.n \in Int
  <2>1. \A x \in Item : x.n \in Nat
    BY DEF Item
  <2> QED
    BY <2>1, BoundsAssumption
<1>2. \A a, b \in Int : a * b \in Int
  OBVIOUS
<1>3. \A x \in Item : Weight(x) \in Int
  BY <1>1, <1>2 DEF Weight
<1> QED
  BY <1>3 DEF Weight

LEMMA DepthPop ==
  ASSUME NEW c \in Seq(Item), c # <<>>, NEW d, Depth(c, d)
  PROVE  /\ d \in Int /\ Depth(Tail(c), d - Weight(c[1]))
         /\ c[1].at \in StatementLevel => d = 0
<1>1. PICK f : Sums(c, f) /\ f[1] = d
  BY DEF Depth
<1> PICK t, n : t = Tail(c) /\ n = Len(c)
  OBVIOUS
<1>2. /\ n \in Nat /\ n >= 1 /\ DOMAIN c = 1..n /\ Len(t) = n - 1 /\ DOMAIN t = 1..(n - 1)
      /\ \A i \in 1..(n - 1) : t[i] = c[i + 1] /\ i + 1 \in 1..n
      /\ 1 \in DOMAIN c /\ c[1] \in Item
  OBVIOUS
<1>3. /\ f \in [1..(n + 1) -> Int] /\ f[n + 1] = 0
      /\ \A i \in 1..n : f[i] = f[i + 1] + Weight(c[i])
      /\ \A i \in 1..n : c[i].at \in StatementLevel => f[i] = 0
  BY <1>1, <1>2 DEF Sums
<1>4. f[1] \in Int /\ f[1 + 1] \in Int /\ Weight(c[1]) \in Int
  BY <1>2, <1>3, WeightType, SMTT(30)
<1>5. f[1 + 1] = d - Weight(c[1]) /\ d \in Int
  BY <1>1, <1>2, <1>3, <1>4
<1> DEFINE g == [i \in 1..n |-> f[i + 1]]
<1>6. \A i \in 1..n : f[i + 1] \in Int
  BY <1>2, <1>3, SMTT(30)
<1>7. /\ g \in [1..n -> Int] /\ g[1] = f[1 + 1] /\ \A i \in 1..n : g[i] = f[i + 1]
  BY <1>2, <1>6
<1> HIDE DEF g
<1>8. Sums(t, g)
  <2>1. Len(t) + 1 = n
    BY <1>2
  <2>2. g[n] = 0
    BY <1>2, <1>3, <1>7
  <2>3. \A i \in 1..(n - 1) : /\ g[i] = g[i + 1] + Weight(t[i])
                              /\ t[i].at \in StatementLevel => g[i] = 0
    <3> SUFFICES ASSUME NEW i \in 1..(n - 1)
                 PROVE  /\ g[i] = g[i + 1] + Weight(t[i])
                        /\ t[i].at \in StatementLevel => g[i] = 0
      OBVIOUS
    <3>1. i \in 1..n /\ i + 1 \in 1..n /\ t[i] = c[i + 1]
      BY <1>2
    <3>2. g[i] = f[i + 1] /\ g[i + 1] = f[i + 1 + 1]
      BY <1>7, <3>1
    <3> QED
      BY <1>3, <3>1, <3>2
  <2> QED
    BY <1>2, <1>7, <2>1, <2>2, <2>3 DEF Sums
<1>9. Depth(t, d - Weight(c[1]))
  BY <1>5, <1>7, <1>8 DEF Depth
<1>10. c[1].at \in StatementLevel => d = 0
  BY <1>1, <1>2, <1>3
<1> QED
  BY <1>5, <1>9, <1>10

\* p stands for k words, wherever it is pushed
Piles(p, k) ==
  /\ p \in Seq(Item) /\ k \in Int
  /\ \A c \in Seq(Item), d \in Int : Depth(c, d) => Depth(p \o c, d + k)

\* pieces that stand for no word; statements only where there is none
Weightless(p, d) ==
  /\ p \in Seq(Item)
  /\ \A i \in DOMAIN p : Weight(p[i]) = 0 /\ (p[i].at \in StatementLevel => d = 0)

LEMMA DepthWeightless ==
  ASSUME NEW c \in Seq(Item), NEW d \in Int, Depth(c, d), NEW p, Weightless(p, d)
  PROVE  Depth(p \o c, d)
<1>1. PICK f : Sums(c, f) /\ f[1] = d
  BY DEF Depth
<1> PICK e, n, m : e = p \o c /\ n = Len(p) /\ m = Len(c)
  OBVIOUS
<1>2. p \in Seq(Item)
  BY DEF Weightless
<1>3. /\ n \in Nat /\ m \in Nat /\ DOMAIN p = 1..n /\ DOMAIN c = 1..m
      /\ e \in Seq(Item) /\ Len(e) = n + m /\ DOMAIN e = 1..(n + m)
      /\ \A i \in 1..n : e[i] = p[i]
      /\ \A i \in 1..(n + m) : i > n => e[i] = c[i - n]
  BY <1>2
<1>4. /\ f \in [1..(m + 1) -> Int] /\ f[m + 1] = 0
      /\ \A i \in 1..m : f[i] = f[i + 1] + Weight(c[i])
      /\ \A i \in 1..m : c[i].at \in StatementLevel => f[i] = 0
  BY <1>1, <1>3 DEF Sums
<1> DEFINE g == [i \in 1..(n + m + 1) |-> IF i <= n THEN d ELSE f[i - n]]
<1>5. \A i \in 1..(n + m + 1) : i > n => i - n \in 1..(m + 1) /\ f[i - n] \in Int
  <2>1. \A i \in 1..(n + m + 1) : i > n => i - n \in 1..(m + 1)
    BY <1>3
  <2> QED
    BY <1>4, <2>1
<1>6. /\ g \in [1..(n + m + 1) -> Int]
      /\ \A i \in 1..(n + m + 1) : /\ i <= n => g[i] = d
                                   /\ i > n => g[i] = f[i - n]
  BY <1>3, <1>5
<1> HIDE DEF g
<1>7. g[1] = d
  <2>1. CASE n = 0
    BY <1>1, <1>3, <1>6, <2>1
  <2>2. CASE n >= 1
    BY <1>3, <1>6, <2>2
  <2> QED
    BY <1>3, <2>1, <2>2
<1>8. g[n + m + 1] = 0
  <2>1. n + m + 1 \in 1..(n + m + 1) /\ n + m + 1 > n /\ n + m + 1 - n = m + 1
    BY <1>3
  <2> QED
    BY <1>4, <1>6, <2>1
<1>9. ASSUME NEW i \in 1..(n + m)
      PROVE  /\ g[i] = g[i + 1] + Weight(e[i])
             /\ e[i].at \in StatementLevel => g[i] = 0
  <2>1. i \in 1..(n + m + 1) /\ i + 1 \in 1..(n + m + 1) /\ i \in Nat
    BY <1>3
  <2>2. CASE i <= n
    <3>1. i \in 1..n /\ e[i] = p[i] /\ Weight(p[i]) = 0 /\ (p[i].at \in StatementLevel => d = 0)
      BY <1>3, <2>1, <2>2 DEF Weightless
    <3>2. g[i] = d /\ g[i + 1] = d
      <4>1. CASE i + 1 <= n
        BY <1>6, <2>1, <2>2, <4>1
      <4>2. CASE i = n
        <5>1. i + 1 > n /\ i + 1 - n = 1
          BY <1>3, <4>2
        <5> QED
          BY <1>1, <1>6, <2>1, <2>2, <5>1
      <4> QED
        BY <1>3, <2>1, <2>2, <4>1, <4>2
    <3> QED
      BY <3>1, <3>2
  <2>3. CASE i > n
    <3>1. i - n \in 1..m /\ e[i] = c[i - n] /\ i + 1 > n /\ i + 1 - n = i - n + 1
      BY <1>3, <2>1, <2>3
    <3>2. g[i] = f[i - n] /\ g[i + 1] = f[i - n + 1]
      BY <1>6, <2>1, <2>3, <3>1
    <3> QED
      BY <1>4, <3>1, <3>2
  <2> QED
    BY <1>3, <2>1, <2>2, <2>3
<1>10. Sums(e, g)
  BY <1>3, <1>6, <1>8, <1>9 DEF Sums
<1> QED
  BY <1>7, <1>10 DEF Depth

LEMMA PilesOne ==
  ASSUME NEW x \in Item, x.at \notin StatementLevel
  PROVE  Piles(<<x>>, Weight(x))
<1>1. Weight(x) \in Int /\ <<x>> \in Seq(Item)
  BY WeightType
<1> SUFFICES ASSUME NEW c \in Seq(Item), NEW d \in Int, Depth(c, d)
             PROVE  Depth(<<x>> \o c, d + Weight(x))
  BY <1>1 DEF Piles
<1>2. PICK f : Sums(c, f) /\ f[1] = d
  BY DEF Depth
<1> PICK e, m : e = <<x>> \o c /\ m = Len(c)
  OBVIOUS
<1>3. /\ m \in Nat /\ DOMAIN c = 1..m /\ e \in Seq(Item) /\ Len(e) = m + 1
      /\ DOMAIN e = 1..(m + 1) /\ e[1] = x
      /\ \A i \in 1..(m + 1) : i # 1 => i - 1 \in 1..m /\ e[i] = c[i - 1]
  OBVIOUS
<1>4. /\ f \in [1..(m + 1) -> Int] /\ f[m + 1] = 0
      /\ \A i \in 1..m : f[i] = f[i + 1] + Weight(c[i])
      /\ \A i \in 1..m : c[i].at \in StatementLevel => f[i] = 0
  BY <1>2, <1>3 DEF Sums
<1> DEFINE g == [i \in 1..(m + 2) |-> IF i = 1 THEN d + Weight(x) ELSE f[i - 1]]
<1>5. \A i \in 1..(m + 2) : i # 1 => i - 1 \in 1..(m + 1) /\ f[i - 1] \in Int
  <2>1. \A i \in 1..(m + 2) : i # 1 => i - 1 \in 1..(m + 1)
    BY <1>3
  <2> QED
    BY <1>4, <2>1
<1>6. d + Weight(x) \in Int
  BY <1>1
<1>7. /\ g \in [1..(m + 2) -> Int]
      /\ g[1] = d + Weight(x)
      /\ \A i \in 1..(m + 2) : i # 1 => g[i] = f[i - 1]
  BY <1>3, <1>5, <1>6
<1> HIDE DEF g
<1>8. g[m + 2] = 0
  BY <1>3, <1>4, <1>7
<1>9. ASSUME NEW i \in 1..(m + 1)
      PROVE  /\ g[i] = g[i + 1] + Weight(e[i])
             /\ e[i].at \in StatementLevel => g[i] = 0
  <2>1. i \in 1..(m + 2) /\ i + 1 \in 1..(m + 2) /\ i + 1 # 1 /\ i + 1 - 1 = i
    BY <1>3
  <2>2. CASE i = 1
    <3>1. g[1] = d + Weight(x) /\ g[1 + 1] = f[1]
      BY <1>7, <2>1, <2>2
    <3> QED
      BY <1>2, <1>3, <2>2, <3>1
  <2>3. CASE i # 1
    <3>1. i - 1 \in 1..m /\ e[i] = c[i - 1] /\ i - 1 + 1 = i
      BY <1>3, <2>3
    <3>2. g[i] = f[i - 1] /\ g[i + 1] = f[i]
      BY <1>7, <2>1, <2>3
    <3>3. f[i - 1] = f[i] + Weight(c[i - 1])
      BY <1>4, <3>1
    <3> QED
      BY <1>4, <3>1, <3>2, <3>3
  <2> QED
    BY <2>2, <2>3
<1>10. Sums(e, g)
  <2>1. Len(e) + 1 = m + 2
    BY <1>3
  <2> QED
    BY <1>3, <1>7, <1>8, <1>9, <2>1 DEF Sums
<1> QED
  BY <1>7, <1>10 DEF Depth

LEMMA PilesConcat ==
  ASSUME NEW p, NEW q, NEW k, NEW m, Piles(p, k), Piles(q, m)
  PROVE  Piles(p \o q, k + m)
<1>1. p \in Seq(Item) /\ q \in Seq(Item) /\ k \in Int /\ m \in Int
  BY DEF Piles
<1>2. p \o q \in Seq(Item) /\ k + m \in Int
  BY <1>1
<1> SUFFICES ASSUME NEW c \in Seq(Item), NEW d \in Int, Depth(c, d)
             PROVE  Depth((p \o q) \o c, d + (k + m))
  BY <1>2 DEF Piles
<1>3. Depth(q \o c, d + m)
  BY DEF Piles
<1>4. q \o c \in Seq(Item) /\ d + m \in Int /\ d + m + k = d + (k + m)
  BY <1>1
<1>5. Depth(p \o (q \o c), d + m + k)
  BY <1>3, <1>4 DEF Piles
<1>6. (p \o q) \o c = p \o (q \o c)
  BY <1>1, Associated, SMTT(30)
<1> QED
  BY <1>4, <1>5, <1>6

\* calm pieces under an expression weigh nothing
LEMMA PilesCalm ==
  ASSUME NEW p, Calm(p, "expr")
  PROVE  Piles(p, 0)
<1>1. p \in Seq(Item)
  BY DEF Calm
<1>2. "expr" \notin StatementLevel
  BY DEF StatementLevel, FileLevel
<1>3. \A d : Weightless(p, d)
  BY <1>1, <1>2, WeightType DEF Calm, Fits, Laden, Weightless
<1>4. \A d \in Int : d + 0 = d
  OBVIOUS
<1> QED
  BY <1>1, <1>3, <1>4, DepthWeightless DEF Piles

\* the innermost piece is replaced by statements and parts of statements
LEMMA DepthStatement ==
  ASSUME Inv, Depth(ctl, 0 - sp), Top.at \in StatementLevel, NEW p, Weightless(p, 0), Goto(p)
  PROVE  Depth(ctl', 0) /\ sp = 0
<1>1. ctl \in Seq(Item) /\ ctl # <<>> /\ ctl[1] = Top /\ Tail(ctl) \in Seq(Item)
  BY StackFacts
<1>2. 0 - sp = 0 /\ Depth(Tail(ctl), 0 - sp - Weight(Top))
  BY <1>1, DepthPop
<1>3. Weight(Top) = 0
  BY WeightType DEF StatementLevel, FileLevel
<1>4. Depth(Tail(ctl), 0)
  BY <1>2, <1>3
<1>5. Depth(p \o Tail(ctl), 0)
  <2> PICK d \in Int : d = 0
    OBVIOUS
  <2>1. Depth(Tail(ctl), d) /\ Weightless(p, d)
    BY <1>4
  <2>2. Depth(p \o Tail(ctl), d)
    BY <1>1, <2>1, DepthWeightless
  <2> QED
    BY <2>2
<1>6. sp \in Int
  BY TopType
<1> QED
  BY <1>2, <1>5, <1>6 DEF Goto

\* the innermost piece is replaced by others that stand for k words
LEMMA DepthPiles ==
  ASSUME Inv, DepthInv, NEW p, NEW k, Piles(p, k), Goto(p), code' = code,
         sp' = sp + Weight(Top) - k
  PROVE  DepthInv'
<1>1. ctl \in Seq(Item) /\ ctl # <<>> /\ ctl[1] = Top /\ Tail(ctl) \in Seq(Item) /\ Top \in Item
  <2>1. ctl \in Seq(Item) /\ ctl # <<>> /\ ctl[1] = Top
    BY StackFacts
  <2>2. Tail(ctl) \in Seq(Item)
    BY <2>1
  <2> QED
    BY <2>1, <2>2, TopType
<1>2. 0 - sp \in Int /\ Depth(Tail(ctl), 0 - sp - Weight(Top))
  BY <1>1, DepthPop DEF DepthInv
<1>3. Weight(Top) \in Int /\ sp \in Int /\ k \in Int
  BY <1>1, WeightType, TopType DEF Piles
<1>4. 0 - sp - Weight(Top) \in Int /\ 0 - sp' = 0 - sp - Weight(Top) + k
  BY <1>3
<1>5. Depth(p \o Tail(ctl), 0 - sp - Weight(Top) + k)
  BY <1>1, <1>2, <1>4 DEF Piles
<1> QED
  BY <1>4, <1>5 DEF Goto, DepthInv

\* statements: the instructions emitted note that no word is pushed
LEMMA EmitDepth ==
  ASSUME Inv, DepthInv, Top.at \in StatementLevel, NEW p, Weightless(p, 0), Goto(p), sp' = sp,
         \/ \E x \in Instruction : Emit(<<x>>) /\ x.sp = sp
         \/ \E x, y \in Instruction : Emit(<<x, y>>) /\ x.sp = sp /\ y.sp = sp
  PROVE  DepthInv'
<1>1. Depth(ctl', 0) /\ sp = 0
  BY DepthStatement DEF DepthInv
<1>2. Depth(ctl, 0 - sp)' /\ sp' = 0
  <2>1. 0 - sp' = 0
    BY <1>1
  <2> QED
    BY <1>1, <2>1
<1>3. code \in Seq(Instruction)
  BY StackFacts
<1>4. \A c \in Seq(Instruction), x \in Instruction :
         (\A i \in DOMAIN c : c[i].op # "entry" => c[i].sp = 0) /\ x.sp = 0
         => \A i \in DOMAIN Append(c, x) : Append(c, x)[i].op # "entry" => Append(c, x)[i].sp = 0
  <2> SUFFICES ASSUME NEW c \in Seq(Instruction), NEW x \in Instruction, x.sp = 0,
                      \A i \in DOMAIN c : c[i].op # "entry" => c[i].sp = 0,
                      NEW i \in DOMAIN Append(c, x), Append(c, x)[i].op # "entry"
               PROVE  Append(c, x)[i].sp = 0
    OBVIOUS
  <2>1. (i \in DOMAIN c /\ Append(c, x)[i] = c[i]) \/ Append(c, x)[i] = x
    OBVIOUS
  <2> QED
    BY <2>1
<1>5. \A i \in DOMAIN code' : code'[i].op # "entry" => code'[i].sp = 0
  <2>1. CASE \E x \in Instruction : Emit(<<x>>) /\ x.sp = sp
    <3>1. PICK x \in Instruction : Emit(<<x>>) /\ x.sp = 0
      BY <1>1, <2>1
    <3>2. code' = Append(code, x)
      BY <3>1, EmitOne
    <3> QED
      BY <1>3, <1>4, <3>1, <3>2 DEF DepthInv
  <2>2. CASE \E x, y \in Instruction : Emit(<<x, y>>) /\ x.sp = sp /\ y.sp = sp
    <3>1. PICK x \in Instruction, y \in Instruction : Emit(<<x, y>>) /\ x.sp = 0 /\ y.sp = 0
      BY <1>1, <2>2
    <3>2. code' = Append(Append(code, x), y) /\ Append(code, x) \in Seq(Instruction)
      BY <1>3, <3>1, EmitOne
    <3>3. \A i \in DOMAIN Append(code, x) :
             Append(code, x)[i].op # "entry" => Append(code, x)[i].sp = 0
      BY <1>3, <1>4, <3>1 DEF DepthInv
    <3> QED
      BY <1>4, <3>1, <3>2, <3>3
  <2> QED
    BY <2>1, <2>2
<1> QED
  BY <1>2, <1>5 DEF DepthInv

\* between statements nothing is pushed
LEMMA StatementEmpty ==
  ASSUME Inv, DepthInv, Top.at \in StatementLevel
  PROVE  sp = 0
<1>1. 0 - sp = 0
  BY StackFacts, DepthPop DEF DepthInv
<1>2. sp \in Int
  BY TopType
<1> QED
  BY <1>1, <1>2

LEMMA QuietDepth ==
  ASSUME Inv, DepthInv, QuietActions
  PROVE  DepthInv'
<1>1. /\ Quiet /\ Top.at \notin Laden /\ code' = code
      /\ sp' = sp \/ (sp' = 0 /\ Top.at \in StatementLevel)
  BY QuietMoves
<1>2. Weight(Top) = 0
  BY <1>1, WeightType DEF Laden
<1>3. Top.at \in StatementLevel => sp = 0
  BY StatementEmpty
<1>a. sp \in Int
  BY TopType
<1>4. CASE UNCHANGED ctl
  BY <1>1, <1>3, <1>4 DEF DepthInv
<1>5. CASE \E p : Goto(p) /\ Calm(p, Top.at)
  <2>1. PICK p : Goto(p) /\ Calm(p, Top.at)
    BY <1>5
  <2>2. CASE Top.at \in StatementLevel
    <3>1. Weightless(p, 0)
      BY <2>1, WeightType DEF Weightless, Calm, Fits, Laden
    <3>2. Depth(ctl', 0) /\ 0 - sp' = 0
      BY <1>1, <1>3, <2>1, <2>2, <3>1, DepthStatement DEF DepthInv
    <3> QED
      BY <1>1, <3>2 DEF DepthInv
  <2>3. CASE Top.at \notin StatementLevel
    <3>1. Calm(p, "expr")
      BY <2>1, <2>3 DEF Calm, Fits, StatementLevel
    <3>2. sp' = sp + Weight(Top) - 0
      BY <1>1, <1>2, <1>a, <2>3
    <3> QED
      BY <1>1, <2>1, <3>1, <3>2, PilesCalm, DepthPiles
  <2> QED
    BY <2>2, <2>3
<1> QED
  BY <1>1, <1>4, <1>5 DEF Quiet

\* variables and functions
LEMMA DeclarationDepth ==
  ASSUME Inv, DepthInv, locals = <<>>, Declare \/ (ProgramKind /\ code' # code)
  PROVE  DepthInv'
<1>1. CASE Declare
  <2>1. /\ Top.at = "declare" /\ Goto(<<>>) /\ code' = code /\ sp' = sp
    BY <1>1 DEF Declare, AddSymbol, At, Top
  <2>2. sp' = sp + Weight(Top) - 0
    <3>1. Weight(Top) = 0
      BY <2>1, WeightType
    <3>2. sp \in Int
      BY TopType
    <3> QED
      BY <2>1, <3>1, <3>2
  <2>3. Piles(<<>>, 0)
    BY CalmShort, PilesCalm
  <2> QED
    BY <2>1, <2>2, <2>3, DepthPiles
<1>2. CASE ProgramKind /\ code' # code
  <2>1. /\ Top.at = "progKind" /\ Emit(<<Instr("entry", 0)>>) /\ Goto(<<It("params")>>) /\ sp' = sp
    BY <1>2 DEF ProgramKind, At, Top
  <2>2. Instr("entry", 0) \in Instruction /\ Instr("entry", 0).sp = sp
    BY EmitType DEF Instr
  <2>3. It("params") \in Item /\ It("params").at = "params"
    BY DEF It, Piece, Item, Places
  <2>4. Weightless(<<It("params")>>, 0)
    BY <2>3, WeightType DEF Weightless
  <2>5. Top.at \in StatementLevel
    BY <2>1 DEF StatementLevel, FileLevel
  <2> QED
    BY <2>1, <2>2, <2>4, <2>5, EmitDepth
<1> QED
  BY <1>1, <1>2

\* the statements that emit labels and jumps
LEMMA StatementDepth ==
  ASSUME Inv, DepthInv,
         IfTest \/ IfElse \/ IfEnd \/ WhileHead \/ WhileTest \/ WhileEnd \/ LeaveLoop
  PROVE  DepthInv'
<1>1. \A op \in {"label", "jump", "jz"}, l \in Nat :
         Instr(op, l) \in Instruction /\ Instr(op, l).sp = sp
  BY EmitType DEF Instr
<1>2. Top.l1 \in Nat /\ Top.l2 \in Nat /\ lab \in Nat /\ lab + 1 \in Nat
  BY TopType, StackFacts
<1>3. Weightless(<<>>, 0)
  BY DEF Weightless
<1>4. \A a \in {"stmt", "ifElse", "ifEnd", "expr", "whileTest", "whileEnd"} :
         a \in Places /\ a \notin {"pop", "callArg", "callMore", "callClose"}
  BY DEF Places
<1>5. \A a \in {"stmt", "ifElse", "ifEnd", "expr", "whileTest", "whileEnd"},
         m \in Nat, n \in Nat, s \in Nat :
         Piece(a, "", 0, m, n, s) \in Item /\ Weight(Piece(a, "", 0, m, n, s)) = 0
  BY <1>4, WeightType DEF Piece, Item
<1>6. \A x, y \in Item : Weight(x) = 0 /\ Weight(y) = 0 => Weightless(<<x, y>>, 0)
  BY DEF Weightless
<1>7. \A a \in {"ifTest", "ifElse", "ifEnd", "whileHead", "whileTest", "whileEnd", "break", "continue"} :
         a \in StatementLevel
  BY DEF StatementLevel
<1>8. CASE IfTest
  <2>1. /\ Top.at = "ifTest" /\ Emit(<<Instr("jz", lab)>>) /\ sp' = sp
        /\ Goto(<<It("stmt"), Labelled("ifElse", lab)>>)
    BY <1>8 DEF IfTest, At, Top
  <2>2. Weightless(<<It("stmt"), Labelled("ifElse", lab)>>, 0)
    <3>1. /\ It("stmt") \in Item /\ Weight(It("stmt")) = 0
          /\ Labelled("ifElse", lab) \in Item /\ Weight(Labelled("ifElse", lab)) = 0
      <4>1. /\ It("stmt") \in Item /\ It("stmt").at = "stmt"
            /\ Labelled("ifElse", lab) \in Item /\ Labelled("ifElse", lab).at = "ifElse"
        BY <1>2, <1>4 DEF It, Labelled, Piece, Item
      <4> QED
        BY <4>1, WeightType
    <3> QED
      BY <1>6, <3>1
  <2> QED
    BY <1>1, <1>2, <1>7, <2>1, <2>2, EmitDepth
<1>9. CASE IfElse
  <2>1. /\ Top.at = "ifElse" /\ sp' = sp
        /\ \/ /\ Emit(<<Instr("jump", lab), Instr("label", Top.l1)>>)
              /\ Goto(<<It("stmt"), Labelled("ifEnd", lab)>>)
           \/ /\ Emit(<<Instr("label", Top.l1)>>)
              /\ Goto(<<>>)
    BY <1>9 DEF IfElse, At, Top
  <2>2. Weightless(<<It("stmt"), Labelled("ifEnd", lab)>>, 0)
    <3>1. /\ It("stmt") \in Item /\ Weight(It("stmt")) = 0
          /\ Labelled("ifEnd", lab) \in Item /\ Weight(Labelled("ifEnd", lab)) = 0
      <4>1. /\ It("stmt") \in Item /\ It("stmt").at = "stmt"
            /\ Labelled("ifEnd", lab) \in Item /\ Labelled("ifEnd", lab).at = "ifEnd"
        BY <1>2, <1>4 DEF It, Labelled, Piece, Item
      <4> QED
        BY <4>1, WeightType
    <3> QED
      BY <1>6, <3>1
  <2> QED
    BY <1>1, <1>2, <1>3, <1>7, <2>1, <2>2, EmitDepth, ZenonT(40)
<1>10. CASE IfEnd
  <2>1. Top.at = "ifEnd" /\ Emit(<<Instr("label", Top.l1)>>) /\ Goto(<<>>) /\ sp' = sp
    BY <1>10 DEF IfEnd, At, Top
  <2> QED
    BY <1>1, <1>2, <1>3, <1>7, <2>1, EmitDepth
<1>11. CASE WhileHead
  <2> DEFINE test == Piece("whileTest", "", 0, 0, lab + 1, 0)
             end == Piece("whileEnd", "", 0, lab, lab + 1, wsp)
  <2>1. /\ Top.at = "whileHead" /\ Emit(<<Instr("label", lab)>>) /\ sp' = sp
        /\ Goto(<<It("expr"), test, It("stmt"), end>>)
    BY <1>11 DEF WhileHead, At, Top
  <2>2. wsp \in Nat
    BY BoundsAssumption DEF Inv, TypeOK
  <2>3. /\ It("expr") \in Item /\ test \in Item /\ It("stmt") \in Item /\ end \in Item
        /\ Weight(It("expr")) = 0 /\ Weight(test) = 0 /\ Weight(It("stmt")) = 0 /\ Weight(end) = 0
    <3>1. \A a \in {"stmt", "expr"} : It(a) \in Item /\ Weight(It(a)) = 0
      <4>1. \A a \in {"stmt", "expr"} : It(a) \in Item /\ It(a).at = a
        BY <1>4 DEF It, Piece, Item
      <4> QED
        BY <4>1, WeightType
    <3>2. test \in Item /\ Weight(test) = 0
      BY <1>2, <1>5, ZenonT(40)
    <3>3. end \in Item /\ Weight(end) = 0
      BY <1>2, <1>5, <2>2
    <3> QED
      BY <3>1, <3>2, <3>3
  <2>4. \A a, b, c, e \in Item :
           Weight(a) = 0 /\ Weight(b) = 0 /\ Weight(c) = 0 /\ Weight(e) = 0
           => Weightless(<<a, b, c, e>>, 0)
    BY DEF Weightless
  <2>5. Weightless(<<It("expr"), test, It("stmt"), end>>, 0)
    BY <2>3, <2>4
  <2> HIDE DEF test, end
  <2> QED
    BY <1>1, <1>2, <1>7, <2>1, <2>5, EmitDepth
<1>12. CASE WhileTest
  <2>1. Top.at = "whileTest" /\ Emit(<<Instr("jz", Top.l2)>>) /\ Goto(<<>>) /\ sp' = sp
    BY <1>12 DEF WhileTest, At, Top
  <2> QED
    BY <1>1, <1>2, <1>3, <1>7, <2>1, EmitDepth
<1>13. CASE WhileEnd
  <2>1. /\ Top.at = "whileEnd" /\ Emit(<<Instr("jump", Top.l1), Instr("label", Top.l2)>>)
        /\ Goto(<<>>) /\ sp' = sp
    BY <1>13 DEF WhileEnd, At, Top
  <2> QED
    BY <1>1, <1>2, <1>3, <1>7, <2>1, EmitDepth, ZenonT(40)
<1>14. CASE LeaveLoop
  <2>1. /\ Top.at \in {"break", "continue"} /\ wsp > 0 /\ Goto(<<>>) /\ sp' = sp
        /\ \/ Emit(<<Instr("jump", breaklab[wsp - 1])>>)
           \/ Emit(<<Instr("jump", contlab[wsp - 1])>>)
    BY <1>14 DEF LeaveLoop, At, Top
  <2>2. wsp - 1 \in 0..(MaxWhile - 1)
    BY <2>1, BoundsAssumption DEF Inv, TypeOK
  <2>3. breaklab[wsp - 1] \in Nat /\ contlab[wsp - 1] \in Nat
    BY <2>2 DEF Inv, TypeOK
  <2> QED
    BY <1>1, <1>3, <1>7, <2>1, <2>3, EmitDepth
<1> QED
  BY <1>8, <1>9, <1>10, <1>11, <1>12, <1>13, <1>14

\* every push is matched by the pop of the piece left on the C stack for it
LEMMA PushDepth ==
  ASSUME Inv, CallInv, DepthInv, PushActions
  PROVE  DepthInv'
<1>0. /\ sp \in Int /\ Word \in Int /\ Top.n \in Nat /\ Top.n + 1 \in Nat /\ Word * Top.n \in Int
      /\ Word * 0 = 0 /\ Word * (Top.n + 1) = Word * Top.n + Word
  <2>1. \A a, b \in Nat : a * 0 = 0 /\ a * (b + 1) = a * b + a
    OBVIOUS
  <2>2. Word \in Nat /\ Top.n \in Nat /\ sp \in Int
    BY TopType
  <2>3. Top.n + 1 \in Nat /\ Word * Top.n \in Int
    BY TopNumbers
  <2> QED
    BY <2>1, <2>2, <2>3
<1>1. Piles(<<>>, 0) /\ Piles(<<It("expr")>>, 0) /\ Piles(<<Expect("]")>>, 0)
      /\ Piles(<<It("postfix")>>, 0)
  <2>1. /\ Fits(It("expr"), "expr") /\ Fits(Expect("]"), "expr") /\ Fits(It("postfix"), "expr")
    BY FitsAll, TokenConstants DEF Inner, Expect
  <2> QED
    BY <2>1, CalmShort, PilesCalm
<1>2. Piles(<<It("pop")>>, Word)
  <2>1. It("pop") \in Item /\ It("pop").at = "pop"
    BY DEF It, Piece, Item, Places
  <2> QED
    BY <2>1, PilesOne, WeightType DEF StatementLevel, FileLevel
<1>3. \A a \in {"callArg", "callMore", "callClose"}, t \in Token \cup {""}, k \in Nat :
         Piles(<<Piece(a, t, k, 0, 0, 0)>>, Word * k)
  <2> SUFFICES ASSUME NEW a \in {"callArg", "callMore", "callClose"},
                      NEW t \in Token \cup {""}, NEW k \in Nat
               PROVE  Piles(<<Piece(a, t, k, 0, 0, 0)>>, Word * k)
    OBVIOUS
  <2>1. /\ Piece(a, t, k, 0, 0, 0) \in Item /\ Piece(a, t, k, 0, 0, 0).at = a
        /\ Piece(a, t, k, 0, 0, 0).n = k
    BY DEF Piece, Item, Places
  <2>2. a \notin StatementLevel
    BY DEF StatementLevel, FileLevel, Owing
  <2>3. Weight(Piece(a, t, k, 0, 0, 0)) = Word * k
    <3> PICK x : x = Piece(a, t, k, 0, 0, 0)
      OBVIOUS
    <3>1. x.at \in {"callArg", "callMore", "callClose"} /\ x.n = k
      BY <2>1
    <3>2. x.at # "pop"
      BY <3>1
    <3>3. Weight(x) = Word * x.n
      BY <3>1, <3>2, Zenon DEF Weight
    <3> QED
      BY <3>1, <3>3
  <2> HIDE DEF Piece
  <2> QED
    BY <2>1, <2>2, <2>3, PilesOne
<1>4. \A a \in {"callArg", "callClose"}, k \in Nat : Piles(<<Count(a, k)>>, Word * k)
  BY <1>3 DEF Count
<1>5. Weight(Top) \in Int
  BY TopType, WeightType
<1>6. /\ Top.at \notin {"pop", "callArg", "callMore", "callClose"} => Weight(Top) = 0
      /\ Top.at = "pop" => Weight(Top) = Word
      /\ Top.at \in {"callArg", "callMore", "callClose"} => Weight(Top) = Word * Top.n
  BY WeightType
<1>7. Piles(<<It("expr")>> \o <<Count("callArg", Top.n)>>, 0 + Word * Top.n)
  BY <1>0, <1>1, <1>4, PilesConcat
<1>8. CASE Assignment
  <2>1. /\ Top.at = "assign" /\ code' = code
        /\ \/ Goto(<<It("expr"), It("pop")>>) /\ sp' = sp - Word
           \/ Goto(<<>>) /\ sp' = sp
    BY <1>8 DEF Assignment, At, Top, Push
  <2>2. Piles(<<It("expr"), It("pop")>>, 0 + Word)
    <3>1. <<It("expr"), It("pop")>> = <<It("expr")>> \o <<It("pop")>>
      OBVIOUS
    <3> QED
      BY <1>1, <1>2, <3>1, PilesConcat
  <2>3. CASE Goto(<<It("expr"), It("pop")>>) /\ sp' = sp - Word
    <3>1. sp' = sp + Weight(Top) - (0 + Word)
      BY <1>0, <1>6, <2>1, <2>3
    <3> QED
      BY <2>1, <2>2, <2>3, <3>1, DepthPiles
  <2>4. CASE Goto(<<>>) /\ sp' = sp
    <3>1. sp' = sp + Weight(Top) - 0
      BY <1>0, <1>6, <2>1, <2>4
    <3> QED
      BY <1>1, <2>1, <2>4, <3>1, DepthPiles
  <2> QED
    BY <2>1, <2>3, <2>4
<1>9. CASE BinaryLoop
  <2> DEFINE p == Operand(Top.n + 1) \o <<It("pop"), Top>>
  <2>1. /\ Top.at = "level" /\ code' = code
        /\ \/ Goto(p) /\ sp' = sp - Word
           \/ Goto(<<>>) /\ sp' = sp
    BY <1>9 DEF BinaryLoop, At, Top, Push
  <2>2. Piles(p, 0 + (Word + 0))
    <3>1. <<It("pop"), Top>> = <<It("pop")>> \o <<Top>>
      OBVIOUS
    <3>2. Piles(<<Top>>, 0)
      <4>1. Top.at \notin StatementLevel /\ Weight(Top) = 0
        BY <1>6, <2>1 DEF StatementLevel, FileLevel
      <4> QED
        BY <4>1, TopType, PilesOne
    <3>3. Piles(<<It("pop"), Top>>, Word + 0)
      BY <1>2, <3>1, <3>2, PilesConcat
    <3>4. Piles(Operand(Top.n + 1), 0)
      BY <1>0, CalmOperand, PilesCalm
    <3> QED
      BY <3>3, <3>4, PilesConcat
  <2> HIDE DEF p
  <2>3. CASE Goto(p) /\ sp' = sp - Word
    <3>1. sp' = sp + Weight(Top) - (0 + (Word + 0))
      BY <1>0, <1>6, <2>1, <2>3
    <3> QED
      BY <2>1, <2>2, <2>3, <3>1, DepthPiles
  <2>4. CASE Goto(<<>>) /\ sp' = sp
    <3>1. sp' = sp + Weight(Top) - 0
      BY <1>0, <1>6, <2>1, <2>4
    <3> QED
      BY <1>1, <2>1, <2>4, <3>1, DepthPiles
  <2> QED
    BY <2>1, <2>3, <2>4
<1>10. CASE Pop
  <2>1. Top.at = "pop" /\ code' = code /\ Goto(<<>>) /\ sp' = sp + Word
    BY <1>10 DEF Pop, At, Top
  <2>2. sp' = sp + Weight(Top) - 0
    BY <1>0, <1>6, <2>1
  <2> QED
    BY <1>1, <2>1, <2>2, DepthPiles
<1>11. CASE Postfix
  <2> DEFINE p == <<It("expr"), Expect("]"), It("pop"), It("postfix")>>
  <2>1. /\ Top.at = "postfix" /\ code' = code
        /\ \/ Goto(p) /\ sp' = sp - Word
           \/ UNCHANGED ctl /\ sp' = sp
           \/ Goto(<<>>) /\ sp' = sp
    BY <1>11 DEF Postfix, At, Top, Push
  <2>2. Piles(p, ((0 + 0) + Word) + 0)
    <3>1. p = ((<<It("expr")>> \o <<Expect("]")>>) \o <<It("pop")>>) \o <<It("postfix")>>
      OBVIOUS
    <3> HIDE DEF p
    <3>2. Piles(<<It("expr")>> \o <<Expect("]")>>, 0 + 0)
      BY <1>1, PilesConcat
    <3>3. Piles((<<It("expr")>> \o <<Expect("]")>>) \o <<It("pop")>>, (0 + 0) + Word)
      BY <1>2, <3>2, PilesConcat
    <3> QED
      BY <1>1, <3>1, <3>3, PilesConcat
  <2> HIDE DEF p
  <2>3. CASE Goto(p) /\ sp' = sp - Word
    <3>1. sp' = sp + Weight(Top) - (((0 + 0) + Word) + 0)
      BY <1>0, <1>6, <2>1, <2>3
    <3> QED
      BY <2>1, <2>2, <2>3, <3>1, DepthPiles
  <2>4. CASE Goto(<<>>) /\ sp' = sp
    <3>1. sp' = sp + Weight(Top) - 0
      BY <1>0, <1>6, <2>1, <2>4
    <3> QED
      BY <1>1, <2>1, <2>4, <3>1, DepthPiles
  <2>5. CASE UNCHANGED ctl /\ sp' = sp
    BY <2>1, <2>5 DEF DepthInv
  <2> QED
    BY <2>1, <2>3, <2>4, <2>5
<1>12. CASE CallOpen
  <2>1. /\ Top.at = "callOpen" /\ code' = code /\ sp' = sp
        /\ Goto(<<Count("callClose", 0)>>) \/ Goto(<<It("expr"), Count("callArg", 0)>>)
    BY <1>12 DEF CallOpen, At, Top
  <2>2. Piles(<<It("expr"), Count("callArg", 0)>>, 0 + Word * 0)
    <3>1. <<It("expr"), Count("callArg", 0)>> = <<It("expr")>> \o <<Count("callArg", 0)>>
      OBVIOUS
    <3> QED
      BY <1>1, <1>4, <3>1, PilesConcat
  <2>3. sp' = sp + Weight(Top) - (0 + Word * 0) /\ sp' = sp + Weight(Top) - Word * 0
    BY <1>0, <1>6, <2>1
  <2> QED
    BY <1>4, <2>1, <2>2, <2>3, DepthPiles
<1>13. CASE CallArg
  <2>1. /\ Top.at = "callArg" /\ code' = code /\ sp' = sp - Word
        /\ Goto(<<Piece("callMore", token, Top.n + 1, 0, 0, 0)>>)
    BY <1>13 DEF CallArg, At, Top, Push
  <2>2. sp' = sp + Weight(Top) - Word * (Top.n + 1)
    BY <1>0, <1>6, <2>1
  <2>3. Piles(<<Piece("callMore", token, Top.n + 1, 0, 0, 0)>>, Word * (Top.n + 1))
    BY <1>0, <1>3, TopType
  <2> QED
    BY <2>1, <2>2, <2>3, DepthPiles
<1>14. CASE CallMore
  <2>1. /\ Top.at = "callMore" /\ code' = code /\ sp' = sp
        /\ Goto(<<Count("callClose", Top.n)>>) \/ Goto(<<It("expr"), Count("callArg", Top.n)>>)
    BY <1>14 DEF CallMore, At, Top
  <2>2. Piles(<<It("expr"), Count("callArg", Top.n)>>, 0 + Word * Top.n)
    <3>1. <<It("expr"), Count("callArg", Top.n)>> = <<It("expr")>> \o <<Count("callArg", Top.n)>>
      OBVIOUS
    <3> QED
      BY <1>7, <3>1
  <2>3. sp' = sp + Weight(Top) - (0 + Word * Top.n) /\ sp' = sp + Weight(Top) - Word * Top.n
    BY <1>0, <1>6, <2>1
  <2> QED
    BY <1>0, <1>4, <2>1, <2>2, <2>3, DepthPiles
<1>15. CASE CallClose
  <2>1. /\ Top.at = "callClose" /\ code' = code /\ Goto(<<>>)
        /\ At("callClose") /\ sp' = IF Top.n <= RegArgs THEN sp + Word * Top.n ELSE sp
    BY <1>15 DEF CallClose, At, Top
  <2>2. Top.n <= RegArgs
    <3>1. Top.n <= 1
      BY <2>1, StackFacts DEF CallInv, Small, Calls
    <3> QED
      BY <1>0, <3>1, BoundsAssumption
  <2>3. sp' = sp + Weight(Top) - 0
    BY <1>0, <1>6, <2>1, <2>2
  <2> QED
    BY <1>1, <2>1, <2>3, DepthPiles
<1> QED
  BY <1>8, <1>9, <1>10, <1>11, <1>12, <1>13, <1>14, <1>15 DEF PushActions

LEMMA DepthInit == Init => DepthInv
<1> SUFFICES ASSUME Init PROVE DepthInv
  OBVIOUS
<1>1. code = <<>> /\ sp = 0 /\ ctl = <<It("start")>>
  BY DEF Init
<1>2. It("start") \in Item /\ It("start").at = "start"
  BY DEF It, Piece, Item, Places
<1>3. ctl \in Seq(Item) /\ Len(ctl) = 1 /\ DOMAIN ctl = {1} /\ ctl[1] = It("start")
  BY <1>1, <1>2
<1>4. Weight(It("start")) = 0
  BY <1>2, WeightType
<1> DEFINE f == [i \in 1..2 |-> 0]
<1>5. f \in [1..(1 + 1) -> Int] /\ f[1 + 1] = 0 /\ f[1] = 0 /\ f[1] = f[1 + 1] + 0
  OBVIOUS
<1> HIDE DEF f
<1>6. Sums(ctl, f)
  BY <1>3, <1>4, <1>5 DEF Sums
<1>7. 0 - sp = 0
  BY <1>1
<1> QED
  BY <1>1, <1>5, <1>6, <1>7 DEF DepthInv, Depth

LEMMA DepthNext == Inv /\ LabelInv /\ CallInv /\ DepthInv /\ [Next]_vars => DepthInv'
<1> SUFFICES ASSUME Inv, LabelInv, CallInv, DepthInv, [Next]_vars PROVE DepthInv'
  OBVIOUS
<1>1. CASE UNCHANGED vars
  BY <1>1 DEF vars, DepthInv
<1>2. CASE Declarations
  <2>1. CASE Declare \/ ProgramKind
    BY <2>1, DeclarationDepth, QuietDepth DEF QuietActions, LabelInv
  <2> QED
    BY <1>2, <2>1, QuietDepth DEF Declarations, QuietActions
<1>3. CASE FunctionParts
  BY <1>3, QuietDepth DEF QuietActions
<1>4. CASE Statements
  <2>1. CASE QuietActions
    BY <2>1, QuietDepth
  <2> QED
    BY <1>4, <2>1, StatementDepth DEF Statements, QuietActions
<1>5. CASE Expressions
  <2>1. CASE QuietActions
    BY <2>1, QuietDepth
  <2> QED
    BY <1>5, <2>1, PushDepth DEF Expressions, QuietActions, PushActions
<1>6. CASE ErrorExit
  BY <1>6 DEF ErrorExit, DepthInv
<1> QED
  BY <1>1, <1>2, <1>3, <1>4, <1>5, <1>6 DEF Next, Stopped

LEMMA DepthGives == Inv /\ LabelInv /\ CallInv /\ DepthInv => StackBalanced
<1> SUFFICES ASSUME Inv, LabelInv, CallInv, DepthInv PROVE StackBalanced
  OBVIOUS
<1>1. \A j \in JumpsAt : \A i \in LabelAt(code[j].l) : code[i].sp = code[j].sp
  BY DEF JumpsAt, LabelAt, DepthInv
<1>2. LocalBase = 0
  BY DEF LocalBase, LabelInv
<1>3. Top.at \in {"stmt", "body", "block"} => sp = 0
  BY StatementEmpty DEF StatementLevel
<1> QED
  BY <1>1, <1>2, <1>3 DEF StackBalanced, At, Top

LEMMA DepthAlways == Spec => [](Inv /\ LabelInv /\ CallInv /\ DepthInv)
BY InvInit, InvNext, LabelInit, LabelNext, CallInit, CallNext, DepthInit, DepthNext, PTL DEF Spec

\* For every file: a jump and its label are emitted with the same number of words pushed,
\* and none is left between two statements.  The loop that pops arguments leaves them all
\* pushed if there are more than registers; that it never meets more than one, by which
\* this holds, is a defect of its own (NextArgument).
THEOREM BalanceCorrect == Spec => []StackBalanced
BY DepthAlways, DepthGives, PTL
=============================================================================
