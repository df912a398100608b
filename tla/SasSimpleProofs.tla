-------------------------- MODULE SasSimpleProofs --------------------------
(***************************************************************************)
(* Theorems about Sas, for every set of lines and every limit.             *)
(*                                                                         *)
(*   TypeInv   the types of the tables and of what is read.                *)
(*   RelocInv  the placeholders emitted and the relocations noted.         *)
(*   LineInv   where each line begins and ends: the bytes of a line depend *)
(*             on the line alone, so the second pass finds every line      *)
(*             where the first one did.                                    *)
(*   NameInv   the mentions of names: a line's label and declaration are   *)
(*             events, numbered along the file; which one gave a symbol    *)
(*             its value, and which values pass 2 has compared.            *)
(***************************************************************************)
EXTENDS Sas, TLAPS

Byte == {"op", "hole", "datum"}
Kinds == {"local", "global", "extern"}
Symbol == [name : Texts, val : 0..MAXCODE, type : Kinds, sec : {".text", ".data"}]
Reloc == [off : 0..MAXCODE, sym : 0..MAXSYMS]
Mention == [pass : 1..2, name : Texts, val : 0..MAXCODE, type : Kinds]

TypeInv ==
  /\ TypeOK
  /\ file \in Seq(Lines) /\ rest \in Seq(LineTokens)
  /\ changed \in SUBSET Texts /\ rels \in Seq(Reloc) /\ mentions \in Seq(Mention)
  /\ status = "start" <=> pass = 0 /\ status # "failed"
  /\ pass = 0 => status \in {"start", "failed"} /\ phase = "line"

\* the length of the code after n more bytes
Cap(n) == IF n < MAXCODE THEN n ELSE MAXCODE

-----------------------------------------------------------------------------
(* Tokens and bytes *)

\* what get_token() returns is in the line, whatever it left before
LEMMA TokenType ==
  ASSUME NEW ts \in Seq(LineTokens), NEW last \in Texts, NEW val \in Int
  PROVE  /\ GetToken(ts, last, val).token \in Texts
         /\ GetToken(ts, last, val).tokval \in Int
         /\ GetToken(ts, last, val).rest \in Seq(LineTokens)
<1> PICK g : g = GetToken(ts, last, val)
  OBVIOUS
<1>1. CASE ts = <<>>
  <2>1. g.token = "" /\ g.tokval = val /\ g.rest = ts
    BY <1>1 DEF GetToken
  <2> QED
    BY <2>1 DEF Texts
<1>2. CASE ts # <<>>
  <2> PICK t, r : t = Head(ts) /\ r = Tail(ts)
    OBVIOUS
  <2>1. t \in LineTokens /\ r \in Seq(LineTokens)
    BY <1>2
  <2>2. /\ t.kind = "N" => t.value \in Int
        /\ t.kind \in {"I", ":", ","} => t.text \in Texts
        /\ t.kind \in {"I", ":", ",", "N", "string", "bad"}
    BY <2>1, LinesAssumption DEF Texts
  <2>3. \/ t.kind = "N" /\ g.token = last /\ g.tokval = t.value /\ g.rest = r
        \/ t.kind \in {"bad", "string"} /\ g.token = last /\ g.tokval = val /\ g.rest = ts
        \/ t.kind \in {"I", ":", ","} /\ g.token = t.text /\ g.tokval = val /\ g.rest = r
    BY <1>2, <2>2 DEF GetToken
  <2> QED
    BY <2>1, <2>2, <2>3
<1> QED
  BY <1>1, <1>2

\* the same tokens are read whatever was left before, and a number leaves its value
LEMMA TokenSame ==
  ASSUME NEW ts, NEW a, NEW v, NEW b, NEW w
  PROVE  LET g == GetToken(ts, a, v)  h == GetToken(ts, b, w)
         IN /\ g.tok = h.tok /\ g.rest = h.rest
            /\ g.tok = "N" => g.token = a /\ h.token = b /\ g.tokval = h.tokval
            /\ g.tok \notin {"N", "end"} => g.token = h.token
            /\ a = b => g.token = h.token
<1> PICK t : t = Head(ts)
  OBVIOUS
<1>1. CASE ts = <<>>
  BY <1>1 DEF GetToken
<1>2. CASE ts # <<>> /\ t.kind = "N"
  BY <1>2 DEF GetToken
<1>3. CASE ts # <<>> /\ t.kind # "N" /\ t.kind \in {"bad", "string"}
  BY <1>3 DEF GetToken
<1>4. CASE ts # <<>> /\ t.kind # "N" /\ t.kind \notin {"bad", "string"}
  BY <1>4 DEF GetToken
<1> QED
  BY <1>1, <1>2, <1>3, <1>4

LEMMA BytesType ==
  ASSUME NEW n \in Int, NEW b \in Byte
  PROVE  Bytes(n, b) \in Seq(Byte) /\ Len(Bytes(n, b)) = (IF n > 0 THEN n ELSE 0)
         /\ \A i \in DOMAIN Bytes(n, b) : Bytes(n, b)[i] = b
<1> PICK m \in Nat : m = (IF n > 0 THEN n ELSE 0)
  OBVIOUS
<1>1. 1..n = 1..m
  OBVIOUS
<1> PICK f : f = [k \in 1..m |-> b]
  OBVIOUS
<1>2. f \in Seq(Byte) /\ Len(f) = m /\ \A i \in DOMAIN f : f[i] = b
  OBVIOUS
<1> QED
  BY <1>1, <1>2 DEF Bytes

\* emit_byte() drops what is beyond the buffer
LEMMA EmitType ==
  ASSUME NEW c \in Seq(Byte), NEW s \in Seq(Byte), Len(c) <= MAXCODE
  PROVE  /\ WithBytes(c, s) \in Seq(Byte)
         /\ Len(WithBytes(c, s)) = Cap(Len(c) + Len(s))
         /\ \A i \in DOMAIN WithBytes(c, s) :
              \/ i \in DOMAIN c /\ WithBytes(c, s)[i] = c[i]
              \/ i > Len(c) /\ i - Len(c) \in DOMAIN s /\ WithBytes(c, s)[i] = s[i - Len(c)]
         /\ \A i \in DOMAIN c : i \in DOMAIN WithBytes(c, s)
<1> PICK d, n : d = c \o s /\ n = (IF Len(d) < MAXCODE THEN Len(d) ELSE MAXCODE)
  OBVIOUS
<1>1. /\ d \in Seq(Byte) /\ Len(d) = Len(c) + Len(s) /\ Len(c) \in Nat /\ Len(s) \in Nat
      /\ DOMAIN d = 1..Len(d) /\ DOMAIN c = 1..Len(c) /\ DOMAIN s = 1..Len(s)
  OBVIOUS
<1>2. MAXCODE \in Nat
  BY BoundsAssumption
<1>3. n \in Nat /\ n <= Len(d) /\ n <= MAXCODE /\ n >= Len(c) /\ n = Cap(Len(c) + Len(s))
  BY <1>1, <1>2 DEF Cap
<1>4. \A i \in 1..n : d[i] \in Byte /\ i \in DOMAIN d
  BY <1>1, <1>3
<1> PICK e : e = SubSeq(d, 1, n)
  OBVIOUS
<1>5. e \in Seq(Byte) /\ Len(e) = n /\ \A i \in 1..n : e[i] = d[i]
  BY <1>3, <1>4
<1>6. e = WithBytes(c, s)
  BY DEF WithBytes
<1>7. \A i \in 1..n : \/ i \in DOMAIN c /\ d[i] = c[i]
                      \/ i > Len(c) /\ i - Len(c) \in DOMAIN s /\ d[i] = s[i - Len(c)]
  BY <1>1, <1>3, <1>4
<1>8. DOMAIN e = 1..n
  BY <1>5
<1>9. \A i \in DOMAIN c : i \in DOMAIN e
  BY <1>1, <1>3, <1>8
<1>10. \A i \in DOMAIN e : \/ i \in DOMAIN c /\ e[i] = c[i]
                           \/ i > Len(c) /\ i - Len(c) \in DOMAIN s /\ e[i] = s[i - Len(c)]
  BY <1>5, <1>7, <1>8
<1>11. e \in Seq(Byte) /\ Len(e) = Cap(Len(c) + Len(s))
  BY <1>3, <1>5
<1> QED
  BY <1>6, <1>9, <1>10, <1>11

-----------------------------------------------------------------------------
(* The symbol table *)

\* lookup_sym() finds an entry of that name if there is one
LEMMA LookupFinds ==
  ASSUME NEW name, syms \in Seq(Symbol)
  PROVE  \/ /\ Lookup(name) = 0 /\ \A j \in DOMAIN syms : syms[j].name # name
         \/ /\ Lookup(name) # 0 /\ Lookup(name) \in DOMAIN syms
            /\ syms[Lookup(name)].name = name
<1>1. 0 \notin DOMAIN syms
  OBVIOUS
<1>2. CASE SymbolsNamed(name) = {}
  BY <1>2 DEF Lookup, SymbolsNamed
<1>3. CASE SymbolsNamed(name) # {}
  <2>1. Lookup(name) \in SymbolsNamed(name)
    BY <1>3 DEF Lookup
  <2> QED
    BY <1>1, <2>1 DEF SymbolsNamed
<1> QED
  BY <1>2, <1>3

\* add_sym(): what it does to a symbol of that name, to a name without one, and to a
\* name for which there is no room
Known(i, name, val) ==
  /\ i \in DOMAIN syms /\ syms[i].name = name
  /\ Len(syms') = Len(syms) /\ syms'[i].val = val
  /\ \A j \in DOMAIN syms : /\ syms'[j].name = syms[j].name
                            /\ j # i => syms'[j].val = syms[j].val
  /\ changed' = IF pass = 2 /\ syms[i].val # val THEN changed \cup {name} ELSE changed
Unknown(name) == \A j \in DOMAIN syms : syms[j].name # name
Entered(name, val) ==
  /\ Unknown(name) /\ Len(syms) < MAXSYMS
  /\ Len(syms') = Len(syms) + 1 /\ syms'[Len(syms) + 1].name = name
  /\ syms'[Len(syms) + 1].val = val
  /\ \A j \in DOMAIN syms : syms'[j] = syms[j]
  /\ changed' = changed
Full(name) == Unknown(name) /\ Len(syms) >= MAXSYMS /\ UNCHANGED <<syms, changed>>

LEMMA AddSymEffect ==
  ASSUME TypeInv, pass \in 1..2, NEW name \in Texts, NEW val \in 0..MAXCODE,
         NEW type \in Kinds, NEW sec \in {".text", ".data"}, AddSym(name, val, type, sec)
  PROVE  /\ syms' \in Seq(Symbol) /\ changed' \in SUBSET Texts /\ mentions' \in Seq(Mention)
         /\ Len(syms') <= MAXSYMS
         /\ Len(syms) = Len(syms') \/ Len(syms') = Len(syms) + 1
         /\ mentions' = Append(mentions, [pass |-> pass, name |-> name, val |-> val, type |-> type])
         /\ (\E i \in DOMAIN syms : Known(i, name, val)) \/ Entered(name, val) \/ Full(name)
<1> PICK i : i = Lookup(name)
  OBVIOUS
<1>1. /\ syms \in Seq(Symbol) /\ Len(syms) <= MAXSYMS /\ Len(syms) \in Nat
      /\ changed \in SUBSET Texts /\ mentions \in Seq(Mention) /\ MAXSYMS \in Nat
  BY BoundsAssumption DEF TypeInv, TypeOK, Symbol, Kinds
<1> PICK m, e, k : /\ m = [pass |-> pass, name |-> name, val |-> val, type |-> type]
                   /\ e = [name |-> name, val |-> val, type |-> type, sec |-> sec]
                   /\ k = [syms EXCEPT ![i].val = val,
                                       ![i].type = IF type = "global" THEN type ELSE @]
  OBVIOUS
<1>2. m \in Mention /\ e \in Symbol /\ e.name = name /\ e.val = val
  BY DEF Mention, Symbol
<1>3. /\ mentions' = Append(mentions, m)
      /\ changed' = (IF pass = 2 /\ i # 0 /\ syms[i].val # val THEN changed \cup {name} ELSE changed)
      /\ syms' = IF i # 0 THEN k ELSE IF Len(syms) < MAXSYMS THEN Append(syms, e) ELSE syms
  BY DEF AddSym
<1>4. mentions' \in Seq(Mention) /\ changed' \in SUBSET Texts
  BY <1>1, <1>2, <1>3
<1>5. CASE i # 0
  <2>1. i \in DOMAIN syms /\ syms[i].name = name
    BY <1>1, <1>5, LookupFinds
  <2>2. k \in Seq(Symbol) /\ Len(k) = Len(syms) /\ k[i].val = val
        /\ \A j \in DOMAIN syms : k[j].name = syms[j].name /\ (j # i => k[j].val = syms[j].val)
    <3>1. syms[i] \in Symbol
      BY <1>1, <2>1
    <3> PICK x : x = [syms[i] EXCEPT !.val = val, !.type = IF type = "global" THEN type ELSE @]
      OBVIOUS
    <3>2. x \in Symbol /\ x.val = val /\ x.name = syms[i].name
      BY <3>1 DEF Symbol
    <3>3. k = [syms EXCEPT ![i] = x]
      BY <1>1, <2>1
    <3>4. /\ k \in Seq(Symbol) /\ Len(k) = Len(syms) /\ k[i] = x
          /\ \A j \in DOMAIN syms : j # i => k[j] = syms[j]
      BY ONLY <1>1, <2>1, <3>2, <3>3
    <3> QED
      BY <3>2, <3>4
  <2>3. syms' = k
    BY <1>3, <1>5
  <2>4. Known(i, name, val)
    BY <1>3, <1>5, <2>1, <2>2, <2>3 DEF Known
  <2> QED
    BY <1>1, <1>3, <1>4, <2>1, <2>2, <2>3, <2>4
<1>6. CASE i = 0
  <2>1. Unknown(name) /\ changed' = changed
    BY <1>1, <1>3, <1>6, LookupFinds DEF Unknown
  <2>2. CASE Len(syms) < MAXSYMS
    <3>1. syms' = Append(syms, e)
      BY <1>3, <1>6, <2>2
    <3>2. /\ syms' \in Seq(Symbol) /\ Len(syms') = Len(syms) + 1 /\ syms'[Len(syms) + 1] = e
          /\ \A j \in DOMAIN syms : syms'[j] = syms[j]
      BY <1>1, <1>2, <3>1
    <3>3. Entered(name, val)
      BY <1>2, <2>1, <2>2, <3>2 DEF Entered
    <3>4. Len(syms) + 1 <= MAXSYMS
      BY <1>1, <2>2
    <3> QED
      BY <1>3, <1>4, <3>2, <3>3, <3>4
  <2>3. CASE ~(Len(syms) < MAXSYMS)
    <3>1. syms' = syms
      BY <1>3, <1>6, <2>3
    <3>2. Full(name)
      BY <1>1, <2>1, <2>3, <3>1 DEF Full
    <3> QED
      BY <1>1, <1>3, <1>4, <3>1, <3>2
  <2> QED
    BY <2>2, <2>3
<1> QED
  BY <1>5, <1>6

-----------------------------------------------------------------------------
(* Types *)

\* what is read, in a step that reads
ReadType == rest' \in Seq(LineTokens) /\ token' \in Texts /\ tokval' \in Int
\* the code after a statement
CodeType == code' \in Seq(Byte) /\ Len(code') <= MAXCODE

LEMMA EmitCode ==
  ASSUME TypeInv, NEW s \in Seq(Byte), Emit(s)
  PROVE  CodeType /\ pc' = Cap(pc + Len(s))
<1>1. code \in Seq(Byte) /\ Len(code) <= MAXCODE /\ MAXCODE \in Nat
  BY BoundsAssumption DEF TypeInv, TypeOK, Byte
<1> PICK d : d = WithBytes(code, s)
  OBVIOUS
<1>2. d \in Seq(Byte) /\ Len(d) = Cap(Len(code) + Len(s))
  BY <1>1, EmitType
<1>3. code' = d
  BY DEF Emit
<1>4. Len(d) <= MAXCODE
  BY <1>1, <1>2 DEF Cap
<1> QED
  BY <1>2, <1>3, <1>4 DEF CodeType, pc

\* the tokens that a statement may read
LEMMA GotTypes ==
  ASSUME TypeInv
  PROVE  /\ Got.token \in Texts /\ Got.tokval \in Int /\ Got.rest \in Seq(LineTokens)
         /\ After(Got).token \in Texts /\ After(Got).tokval \in Int
         /\ After(Got).rest \in Seq(LineTokens)
         /\ Operands.last.token \in Texts /\ Operands.last.tokval \in Int
         /\ Operands.last.rest \in Seq(LineTokens)
         /\ Operands.op1 \in Texts
<1> PICK g, h, k : g = Got /\ h = After(g) /\ k = After(h)
  OBVIOUS
<1>0. rest \in Seq(LineTokens) /\ token \in Texts /\ tokval \in Int
  BY DEF TypeInv, TypeOK
<1>1. g.token \in Texts /\ g.tokval \in Int /\ g.rest \in Seq(LineTokens)
  BY <1>0, TokenType DEF Got
<1>2. h.token \in Texts /\ h.tokval \in Int /\ h.rest \in Seq(LineTokens)
  BY <1>1, TokenType DEF After
<1>3. k.token \in Texts /\ k.tokval \in Int /\ k.rest \in Seq(LineTokens)
  BY <1>2, TokenType DEF After
<1>4. Operands = (IF g.tok = "end" THEN [op1 |-> "", last |-> g]
                  ELSE [op1 |-> g.token, last |-> IF h.tok = "," THEN k ELSE h])
  BY DEF Operands
<1>5. CASE g.tok = "end"
  <2>1. Operands.op1 = "" /\ Operands.last = g
    BY <1>4, <1>5
  <2>2. "" \in Texts
    BY DEF Texts
  <2> QED
    BY <1>1, <1>2, <2>1, <2>2
<1>6. CASE g.tok # "end"
  <2>1. Operands.op1 = g.token /\ (Operands.last = h \/ Operands.last = k)
    BY <1>4, <1>6
  <2> QED
    BY <1>1, <1>2, <1>3, <2>1
<1> QED
  BY <1>5, <1>6

\* a line of the file has the tokens of lines
LEMMA LineTypes ==
  ASSUME NEW l \in Lines, NEW last \in Texts, NEW val \in Int
  PROVE  LET g == GetToken(l, last, val)  h == After(g)
         IN /\ l \in Seq(LineTokens)
            /\ g.token \in Texts /\ g.tokval \in Int /\ g.rest \in Seq(LineTokens)
            /\ h.token \in Texts /\ h.tokval \in Int /\ h.rest \in Seq(LineTokens)
<1> PICK g, h : g = GetToken(l, last, val) /\ h = After(g)
  OBVIOUS
<1>0. l \in Seq(LineTokens)
  BY LinesAssumption
<1>1. g.token \in Texts /\ g.tokval \in Int /\ g.rest \in Seq(LineTokens)
  BY <1>0, TokenType
<1>2. h.token \in Texts /\ h.tokval \in Int /\ h.rest \in Seq(LineTokens)
  BY <1>1, TokenType DEF After
<1> QED
  BY <1>0, <1>1, <1>2

LEMMA TypeInit == Init => TypeInv
<1> SUFFICES ASSUME Init PROVE TypeInv
  OBVIOUS
<1>1. MaxLines \in Nat /\ MAXSYMS \in Nat /\ MAXRELS \in Nat /\ MAXCODE \in Nat
  BY BoundsAssumption
<1>2. /\ file = <<>> /\ rest = <<>> /\ code = <<>> /\ syms = <<>> /\ rels = <<>>
      /\ pcs = <<>> /\ mentions = <<>> /\ changed = {}
  BY Zenon DEF Init
<1>3. /\ target \in {"x64", "arm64"} /\ status = "start" /\ pass = 0 /\ phase = "line"
      /\ lineno = 0 /\ tokval = 0 /\ width = 0 /\ section = ".text"
  BY Zenon DEF Init
<1>4. token \in Texts /\ stale \in BOOLEAN
  BY Zenon DEF Init, Texts
<1>5. \A S : <<>> \in Seq(S)
  OBVIOUS
<1>6. Len(file) = 0 /\ Len(code) = 0 /\ Len(syms) = 0 /\ Len(rels) = 0 /\ DOMAIN rels = {}
  BY <1>2
<1>7. lineno \in 0..Len(file) /\ tokval \in Int /\ pass \in 0..2
      /\ width \in {0} \cup {Width[d] : d \in DOMAIN Width}
  BY <1>3, <1>6
<1>8. /\ code \in Seq({"op", "hole", "datum"}) /\ pcs \in Seq(0..MAXCODE)
      /\ syms \in Seq([name : Texts, val : 0..MAXCODE, type : {"local", "global", "extern"},
                       sec : {".text", ".data"}])
  BY <1>2, <1>5
<1>9. Len(file) <= MaxLines /\ Len(syms) <= MAXSYMS /\ Len(rels) <= MAXRELS /\ Len(code) <= MAXCODE
  BY <1>1, <1>6
<1>10. \A i \in DOMAIN rels : rels[i].off \in 0..MAXCODE /\ rels[i].sym \in 0..Len(syms)
  BY <1>6
<1>11. TypeOK
  BY <1>3, <1>4, <1>7, <1>8, <1>9, <1>10 DEF TypeOK
<1> QED
  BY <1>2, <1>3, <1>5, <1>11 DEF TypeInv

\* the parts of TypeInv
PlaceType ==
  /\ target \in {"x64", "arm64"} /\ status \in {"start", "run", "done", "failed"}
  /\ pass \in 0..2 /\ phase \in {"line", "statement", "values"}
  /\ file \in Seq(Lines) /\ Len(file) <= MaxLines /\ lineno \in 0..Len(file)
  /\ status = "start" <=> pass = 0 /\ status # "failed"
  /\ pass = 0 => status \in {"start", "failed"} /\ phase = "line"
LexerType == rest \in Seq(LineTokens) /\ token \in Texts /\ tokval \in Int
DataType == section \in {".text", ".data"} /\ width \in {0} \cup {Width[d] : d \in DOMAIN Width}
BytesTyped == code \in Seq(Byte) /\ Len(code) <= MAXCODE
SymbolType == /\ syms \in Seq(Symbol) /\ Len(syms) <= MAXSYMS
              /\ changed \in SUBSET Texts /\ mentions \in Seq(Mention)
RelocType == /\ rels \in Seq(Reloc) /\ Len(rels) <= MAXRELS
             /\ \A i \in DOMAIN rels : rels[i].sym <= Len(syms)
HistoryType == pcs \in Seq(0..MAXCODE) /\ stale \in BOOLEAN

LEMMA TypeParts ==
  TypeInv <=> /\ PlaceType /\ LexerType /\ DataType /\ BytesTyped /\ SymbolType /\ RelocType
              /\ HistoryType
<1>1. MAXSYMS \in Nat /\ MAXCODE \in Nat
  BY BoundsAssumption
<1>2. ASSUME rels \in Seq(Reloc), syms \in Seq(Symbol)
      PROVE  (\A i \in DOMAIN rels : rels[i].off \in 0..MAXCODE /\ rels[i].sym \in 0..Len(syms))
             <=> (\A i \in DOMAIN rels : rels[i].sym <= Len(syms))
  <2>1. \A i \in DOMAIN rels : rels[i] \in Reloc
    BY <1>2
  <2>2. \A i \in DOMAIN rels : rels[i].off \in 0..MAXCODE /\ rels[i].sym \in 0..MAXSYMS
    BY <2>1 DEF Reloc
  <2>3. Len(syms) \in Nat
    BY <1>2
  <2> QED
    BY <1>1, <2>2, <2>3
<1>3. ASSUME TypeInv
      PROVE  /\ PlaceType /\ LexerType /\ DataType /\ BytesTyped /\ SymbolType /\ RelocType
             /\ HistoryType
  <2>1. PlaceType
    BY <1>3 DEF TypeInv, TypeOK, PlaceType
  <2>2. LexerType /\ DataType
    BY <1>3 DEF TypeInv, TypeOK, LexerType, DataType
  <2>3. BytesTyped /\ SymbolType
    BY <1>3 DEF TypeInv, TypeOK, BytesTyped, SymbolType, Byte, Symbol, Kinds
  <2>4. RelocType
    BY <1>2, <1>3, <2>3 DEF TypeInv, TypeOK, RelocType, SymbolType
  <2>5. HistoryType
    BY <1>3, Zenon DEF TypeInv, TypeOK, HistoryType
  <2> QED
    BY <2>1, <2>2, <2>3, <2>4, <2>5
<1>4. ASSUME PlaceType, LexerType, DataType, BytesTyped, SymbolType, RelocType, HistoryType
      PROVE  TypeInv
  <2>1. \A i \in DOMAIN rels : rels[i].off \in 0..MAXCODE /\ rels[i].sym \in 0..Len(syms)
    BY <1>2, <1>4 DEF RelocType, SymbolType
  <2>2. /\ syms \in Seq([name : Texts, val : 0..MAXCODE, type : {"local", "global", "extern"},
                         sec : {".text", ".data"}])
        /\ code \in Seq({"op", "hole", "datum"})
    BY <1>4, Zenon DEF SymbolType, Symbol, Kinds, BytesTyped, Byte
  <2>3. TypeOK
    BY <1>4, <2>1, <2>2, Zenon DEF TypeOK, PlaceType, LexerType, DataType, BytesTyped,
       SymbolType, RelocType, HistoryType
  <2> QED
    BY <1>4, <2>3, Zenon DEF TypeInv, PlaceType, LexerType, SymbolType, RelocType
<1> QED
  BY <1>3, <1>4

LEMMA TypeMade ==
  /\ PlaceType' /\ LexerType' /\ DataType' /\ BytesTyped' /\ SymbolType' /\ RelocType'
  /\ HistoryType'
  => TypeInv'
BY TypeParts, PTL

\* nothing a step leaves as it was loses its type
LEMMA TypesStay ==
  ASSUME TypeInv
  PROVE  /\ UNCHANGED place => PlaceType'
         /\ UNCHANGED lexer => LexerType'
         /\ UNCHANGED <<section, width>> => DataType'
         /\ UNCHANGED code => BytesTyped'
         /\ UNCHANGED table => SymbolType'
         /\ UNCHANGED rels /\ Len(syms) <= Len(syms') /\ syms' \in Seq(Symbol) => RelocType'
         /\ UNCHANGED <<pcs, stale>> => HistoryType'
<1>1. /\ PlaceType /\ LexerType /\ DataType /\ BytesTyped /\ SymbolType /\ RelocType
      /\ HistoryType
  BY TypeParts
<1>2. /\ UNCHANGED place => PlaceType'
      /\ UNCHANGED lexer => LexerType'
      /\ UNCHANGED <<section, width>> => DataType'
      /\ UNCHANGED code => BytesTyped'
      /\ UNCHANGED table => SymbolType'
  BY <1>1 DEF place, lexer, table, PlaceType, LexerType, DataType, BytesTyped, SymbolType
<1>3. UNCHANGED <<pcs, stale>> => HistoryType'
  BY <1>1, Zenon DEF HistoryType
<1>4. ASSUME UNCHANGED rels, Len(syms) <= Len(syms'), syms' \in Seq(Symbol)
      PROVE  RelocType'
  <2>1. \A i \in DOMAIN rels : rels[i].sym \in Nat
    <3>1. \A i \in DOMAIN rels : rels[i] \in Reloc
      BY <1>1 DEF RelocType
    <3>2. MAXSYMS \in Nat
      BY BoundsAssumption
    <3> QED
      BY <3>1, <3>2 DEF Reloc
  <2>2. Len(syms) \in Nat /\ Len(syms') \in Nat
    BY <1>1, <1>4 DEF SymbolType
  <2> QED
    BY <1>1, <1>4, <2>1, <2>2 DEF RelocType
<1> QED
  BY <1>2, <1>3, <1>4

LEMMA PlaceMoves ==
  ASSUME TypeInv, status = "run"
  PROVE  /\ \A p \in {"line", "statement", "values"} : Enter(p) => PlaceType'
         /\ pass \in 1..2
<1>1. PlaceType
  BY TypeParts
<1>2. pass \in 1..2
  BY <1>1 DEF PlaceType
<1> QED
  BY <1>1, <1>2 DEF PlaceType, Enter

LEMMA ReadingMoves ==
  ASSUME TypeInv, NEW l \in Lines, Reading(l), phase' \in {"line", "statement", "values"}
  PROVE  /\ PlaceType' /\ pcs' \in Seq(0..MAXCODE) /\ pass \in 1..2 /\ status = "run"
         /\ lineno' = lineno + 1 /\ UNCHANGED <<target, status, pass>> /\ phase = "line"
<1>1. PlaceType /\ HistoryType /\ BytesTyped /\ status = "run" /\ phase = "line"
  BY TypeParts DEF Reading, Running
<1>2. /\ MaxLines \in Nat /\ MAXCODE \in Nat /\ pc \in 0..MAXCODE /\ pass \in 1..2
      /\ file \in Seq(Lines) /\ Len(file) \in Nat /\ lineno \in Nat /\ lineno <= Len(file)
  BY <1>1, BoundsAssumption DEF BytesTyped, pc, PlaceType
<1>3. pcs \in Seq(0..MAXCODE)
  BY <1>1, Zenon DEF HistoryType
<1>4. CASE pass = 1
  <2>1. Len(file) < MaxLines /\ file' = Append(file, l) /\ pcs' = Append(pcs, pc)
        /\ lineno' = lineno + 1 /\ UNCHANGED <<target, status, pass>>
    BY <1>4 DEF Reading
  <2>2. file' \in Seq(Lines) /\ Len(file') = Len(file) + 1 /\ pcs' \in Seq(0..MAXCODE)
    BY <1>2, <1>3, <2>1
  <2>3. Len(file') <= MaxLines /\ lineno' \in 0..Len(file')
    BY <1>2, <2>1, <2>2
  <2> QED
    BY <1>1, <1>2, <2>1, <2>2, <2>3 DEF PlaceType
<1>5. CASE pass # 1
  <2>1. lineno < Len(file) /\ lineno' = lineno + 1 /\ UNCHANGED <<target, status, pass, file, pcs>>
    BY <1>5 DEF Reading
  <2>2. lineno' \in 0..Len(file')
    BY <1>2, <2>1
  <2> QED
    BY <1>1, <1>2, <1>3, <2>1, <2>2 DEF PlaceType
<1> QED
  BY <1>4, <1>5

LEMMA SymbolMoves ==
  ASSUME TypeInv, pass \in 1..2, NEW name \in Texts, NEW val \in 0..MAXCODE,
         NEW type \in Kinds, NEW sec \in {".text", ".data"}, AddSym(name, val, type, sec)
  PROVE  SymbolType' /\ (UNCHANGED rels => RelocType') /\ Len(syms) <= Len(syms')
         /\ syms' \in Seq(Symbol)
<1>1. /\ syms' \in Seq(Symbol) /\ changed' \in SUBSET Texts /\ mentions' \in Seq(Mention)
      /\ Len(syms') <= MAXSYMS
      /\ Len(syms) = Len(syms') \/ Len(syms') = Len(syms) + 1
  BY AddSymEffect
<1>2. Len(syms) \in Nat
  BY TypeParts DEF SymbolType
<1>3. Len(syms) <= Len(syms')
  BY <1>1, <1>2
<1> QED
  BY <1>1, <1>3, TypesStay DEF SymbolType

LEMMA LinesTyped ==
  ASSUME TypeInv, OpenFile \/ EmptyLine \/ Unlabelled \/ Labelled \/ EndFile
  PROVE  TypeInv'
<1>0. /\ PlaceType /\ LexerType /\ DataType /\ BytesTyped /\ SymbolType /\ RelocType
      /\ HistoryType
  BY TypeParts
<1>s. syms \in Seq(Symbol) /\ Len(syms) <= Len(syms)
  BY <1>0 DEF SymbolType
<1>1. CASE OpenFile
  <2>1. /\ UNCHANGED lexer /\ UNCHANGED <<section, width>> /\ UNCHANGED code /\ UNCHANGED table
        /\ UNCHANGED rels /\ UNCHANGED <<pcs, stale>> /\ UNCHANGED syms
    BY <1>1 DEF OpenFile, table
  <2>2. PlaceType'
    BY <1>0, <1>1 DEF OpenFile, PlaceType
  <2> QED
    BY <1>s, <2>1, <2>2, TypesStay, TypeMade
<1>2. CASE EmptyLine
  <2>1. PICK l \in Lines : LET g == GetToken(l, token, tokval)
                           IN Reading(l) /\ g.tok = "end" /\ Reads(g)
    BY <1>2 DEF EmptyLine
  <2>2. /\ UNCHANGED phase /\ UNCHANGED <<section, width>> /\ UNCHANGED code /\ UNCHANGED table
        /\ UNCHANGED rels /\ UNCHANGED syms /\ UNCHANGED stale
    BY <1>2 DEF EmptyLine, table
  <2>3. LexerType'
    BY <1>0, <2>1, LineTypes DEF Reads, LexerType
  <2>4. PlaceType' /\ pcs' \in Seq(0..MAXCODE)
    BY <1>0, <2>1, <2>2, ReadingMoves DEF PlaceType
  <2>5. HistoryType'
    BY <1>0, <2>2, <2>4, Zenon DEF HistoryType
  <2> QED
    BY <1>s, <2>2, <2>3, <2>4, <2>5, TypesStay, TypeMade
<1>3. CASE Unlabelled
  <2>1. PICK l \in Lines : LET g == GetToken(l, token, tokval)
                           IN /\ Reading(l) /\ g.tok \notin {"end", ":"} /\ Reads(g)
                              /\ stale' = (stale \/ g.tok = "N")
    BY <1>3 DEF Unlabelled
  <2>2. /\ phase' = "statement" /\ UNCHANGED <<section, width>> /\ UNCHANGED code /\ UNCHANGED table
        /\ UNCHANGED rels /\ UNCHANGED syms
    BY <1>3 DEF Unlabelled, table
  <2>3. LexerType'
    BY <1>0, <2>1, LineTypes DEF Reads, LexerType
  <2>4. PlaceType' /\ pcs' \in Seq(0..MAXCODE)
    BY <1>0, <2>1, <2>2, ReadingMoves DEF PlaceType
  <2>5. stale' \in BOOLEAN
    BY <2>1, Zenon
  <2>6. HistoryType'
    BY <2>4, <2>5, Zenon DEF HistoryType
  <2> QED
    BY <1>s, <2>2, <2>3, <2>4, <2>6, TypesStay, TypeMade
<1>4. CASE Labelled
  <2>1. PICK l \in Lines : LET g == GetToken(l, token, tokval)  h == After(g)
                           IN /\ Reading(l) /\ g.tok = ":" /\ Reads(h)
                              /\ AddSym(g.token, pc, "local", section)
                              /\ phase' = IF h.tok = "end" THEN "line" ELSE "statement"
    BY <1>4 DEF Labelled
  <2> PICK g, h : g = GetToken(l, token, tokval) /\ h = After(g)
    OBVIOUS
  <2>2. /\ UNCHANGED <<section, width>> /\ UNCHANGED code /\ UNCHANGED rels /\ UNCHANGED stale
        /\ phase' \in {"line", "statement", "values"}
    BY <1>4, <2>1 DEF Labelled
  <2>3. LexerType' /\ g.token \in Texts
    BY <1>0, <2>1, LineTypes DEF Reads, LexerType
  <2>4. PlaceType' /\ pcs' \in Seq(0..MAXCODE) /\ pass \in 1..2
    BY <2>1, <2>2, ReadingMoves
  <2>5. HistoryType'
    BY <1>0, <2>2, <2>4, Zenon DEF HistoryType
  <2>6. pc \in 0..MAXCODE /\ "local" \in Kinds /\ section \in {".text", ".data"}
    BY <1>0, BoundsAssumption DEF BytesTyped, pc, Kinds, DataType
  <2>7. SymbolType' /\ RelocType'
    BY <2>1, <2>2, <2>3, <2>4, <2>6, SymbolMoves
  <2> QED
    BY <2>2, <2>3, <2>4, <2>5, <2>7, TypesStay, TypeMade
<1>5. CASE EndFile
  <2>1. /\ UNCHANGED lexer /\ UNCHANGED <<section, width>> /\ UNCHANGED table
        /\ UNCHANGED rels /\ UNCHANGED stale /\ UNCHANGED syms /\ UNCHANGED <<target, phase, file>>
        /\ status = "run" /\ phase = "line"
    BY <1>5 DEF EndFile, table, Running
  <2>2. \/ pass = 1 /\ pass' = 2 /\ lineno' = 0 /\ code' = <<>> /\ pcs' = Append(pcs, pc)
           /\ UNCHANGED status
        \/ pass # 1 /\ status' \in {"done", "failed"}
           /\ UNCHANGED <<pass, lineno, code, pcs>>
    BY <1>5 DEF EndFile
  <2>3. pcs \in Seq(0..MAXCODE) /\ pc \in 0..MAXCODE /\ MAXCODE \in Nat /\ pass \in 1..2
    <3>1. pcs \in Seq(0..MAXCODE)
      BY <1>0, Zenon DEF HistoryType
    <3> QED
      BY <1>0, <2>1, <3>1, BoundsAssumption DEF BytesTyped, pc, PlaceType
  <2>4. pcs' \in Seq(0..MAXCODE) /\ PlaceType' /\ BytesTyped'
    <3>1. CASE pass = 1
      <4>1. pass' = 2 /\ lineno' = 0 /\ code' = <<>> /\ pcs' = Append(pcs, pc) /\ UNCHANGED status
        BY <2>2, <3>1
      <4>2. code' \in Seq(Byte) /\ Len(code') = 0 /\ 0 \in 0..Len(file)
        BY <1>0, <4>1 DEF PlaceType
      <4>3. BytesTyped' /\ pcs' \in Seq(0..MAXCODE)
        BY <2>3, <4>1, <4>2 DEF BytesTyped
      <4>4. PlaceType'
        BY <1>0, <2>1, <3>1, <4>1, <4>2 DEF PlaceType
      <4> QED
        BY <4>3, <4>4
    <3>2. CASE pass # 1
      BY <1>0, <2>1, <2>2, <2>3, <3>2 DEF PlaceType, BytesTyped
    <3> QED
      BY <3>1, <3>2
  <2>5. HistoryType'
    BY <1>0, <2>1, <2>4, Zenon DEF HistoryType
  <2> QED
    BY <1>s, <2>1, <2>4, <2>5, TypesStay, TypeMade
<1> QED
  BY <1>1, <1>2, <1>3, <1>4, <1>5

\* the bytes that the statements emit
LEMMA BytesEmitted ==
  /\ CallOpcode \in Seq(Byte) /\ Len(CallOpcode) = (IF target = "x64" THEN 1 ELSE 0)
  /\ Placeholder \in Seq(Byte) /\ Len(Placeholder) = 4
  /\ CallOpcode \o Placeholder \in Seq(Byte)
  /\ Len(CallOpcode \o Placeholder) = (IF target = "x64" THEN 5 ELSE 4)
  /\ ReturnBytes \in Seq(Byte) /\ Len(ReturnBytes) = (IF target = "x64" THEN 1 ELSE 4)
  /\ <<"op">> \in Seq(Byte) /\ Len(<<"op">>) = 1 /\ <<>> \in Seq(Byte) /\ Len(<<>>) = 0
<1>1. "op" \in Byte /\ "hole" \in Byte
  BY DEF Byte
<1>2. <<"op">> \in Seq(Byte) /\ Len(<<"op">>) = 1 /\ <<>> \in Seq(Byte) /\ Len(<<>>) = 0
  BY <1>1
<1>3. CallOpcode \in Seq(Byte) /\ Len(CallOpcode) = (IF target = "x64" THEN 1 ELSE 0)
  BY <1>2 DEF CallOpcode
<1>4. Placeholder \in Seq(Byte) /\ Len(Placeholder) = 4
  <2>1. PICK n \in Int : n = 4
    OBVIOUS
  <2>2. PICK b \in Byte : b = "hole"
    BY <1>1
  <2>3. Bytes(n, b) \in Seq(Byte) /\ Len(Bytes(n, b)) = (IF n > 0 THEN n ELSE 0)
    BY BytesType
  <2>4. (IF n > 0 THEN n ELSE 0) = 4
    BY <2>1
  <2>5. Placeholder = Bytes(n, b)
    BY <2>1, <2>2 DEF Placeholder
  <2> QED
    BY <2>3, <2>4, <2>5
<1>5. CallOpcode \o Placeholder \in Seq(Byte)
      /\ Len(CallOpcode \o Placeholder) = Len(CallOpcode) + Len(Placeholder)
  <2> PICK a, b : a = CallOpcode /\ b = Placeholder
    OBVIOUS
  <2>1. a \in Seq(Byte) /\ b \in Seq(Byte)
    BY <1>3, <1>4
  <2>2. a \o b \in Seq(Byte) /\ Len(a \o b) = Len(a) + Len(b)
    BY ONLY <2>1
  <2> QED
    BY <2>2
<1>6. ReturnBytes \in Seq(Byte) /\ Len(ReturnBytes) = (IF target = "x64" THEN 1 ELSE 4)
  BY <1>1, BytesType DEF ReturnBytes
<1> QED
  BY <1>2, <1>3, <1>4, <1>5, <1>6

LEMMA DirectivesTyped ==
  ASSUME TypeInv,
         SetSection \/ DeclareSymbol \/ BeginValues \/ Value \/ EndValues \/ Ascii \/ Space
         \/ UnknownDirective
  PROVE  TypeInv'
<1>0. /\ PlaceType /\ LexerType /\ DataType /\ BytesTyped /\ SymbolType /\ RelocType
      /\ HistoryType
  BY TypeParts
<1>s. syms \in Seq(Symbol) /\ Len(syms) <= Len(syms)
  BY <1>0 DEF SymbolType
<1>e. EndLine /\ status = "run" => PlaceType'
  BY PlaceMoves DEF EndLine
<1>k. UNCHANGED table => UNCHANGED syms
  BY DEF table
<1>h. UNCHANGED pcs /\ stale' \in BOOLEAN => HistoryType'
  BY <1>0, Zenon DEF HistoryType
<1>1. CASE SetSection
  <2>1. /\ EndLine /\ status = "run" /\ section' = token /\ token \in {".text", ".data"}
        /\ UNCHANGED lexer /\ UNCHANGED width /\ UNCHANGED code /\ UNCHANGED table
        /\ UNCHANGED rels /\ UNCHANGED <<pcs, stale>>
    BY <1>1 DEF SetSection, Directive, Running
  <2>2. DataType'
    BY <1>0, <2>1 DEF DataType
  <2> QED
    BY <1>s, <1>e, <1>k, <2>1, <2>2, TypesStay, TypeMade
<1>2. CASE DeclareSymbol
  <2>1. /\ EndLine /\ status = "run" /\ Reads(Got)
        /\ AddSym(Got.token, 0, IF token = ".extern" THEN "extern" ELSE "global", section)
        /\ UNCHANGED <<section, width>> /\ UNCHANGED code
        /\ UNCHANGED rels /\ UNCHANGED <<pcs, stale>>
    BY <1>2 DEF DeclareSymbol, Directive, Running
  <2>2. LexerType' /\ Got.token \in Texts
    BY <2>1, GotTypes DEF Reads, LexerType
  <2>3. /\ 0 \in 0..MAXCODE /\ (IF token = ".extern" THEN "extern" ELSE "global") \in Kinds
        /\ section \in {".text", ".data"} /\ pass \in 1..2
    BY <1>0, <2>1, BoundsAssumption, PlaceMoves DEF Kinds, DataType
  <2>4. SymbolType' /\ RelocType'
    BY <2>1, <2>2, <2>3, SymbolMoves
  <2> QED
    BY <1>e, <2>1, <2>2, <2>4, TypesStay, TypeMade
<1>3. CASE BeginValues
  <2>1. /\ Enter("values") /\ status = "run" /\ width' = Width[token] /\ token \in DOMAIN Width
        /\ UNCHANGED lexer /\ UNCHANGED section /\ UNCHANGED code /\ UNCHANGED table
        /\ UNCHANGED rels /\ UNCHANGED <<pcs, stale>>
    BY <1>3 DEF BeginValues, Directive, Running
  <2>2. DataType' /\ PlaceType'
    <3>1. width' \in {Width[d] : d \in DOMAIN Width}
      BY <2>1
    <3> QED
      BY <1>0, <2>1, <3>1, PlaceMoves DEF DataType
  <2> QED
    BY <1>s, <1>k, <2>1, <2>2, TypesStay, TypeMade
<1>4. CASE Value
  <2>1. /\ Emit(Bytes(width, "datum")) /\ status = "run" /\ Reads(After(Got))
        /\ UNCHANGED place \/ EndLine
        /\ UNCHANGED <<section, width>> /\ UNCHANGED table
        /\ UNCHANGED rels /\ UNCHANGED <<pcs, stale>>
    BY <1>4 DEF Value, Running
  <2>2. LexerType'
    BY <2>1, GotTypes DEF Reads, LexerType
  <2>3. width \in Int
    BY <1>0 DEF DataType, Width
  <2>4. Bytes(width, "datum") \in Seq(Byte)
    BY <2>3, BytesType DEF Byte
  <2>5. BytesTyped'
    BY <2>1, <2>4, EmitCode DEF CodeType, BytesTyped
  <2> QED
    BY <1>s, <1>e, <1>k, <2>1, <2>2, <2>5, TypesStay, TypeMade
<1>5. CASE EndValues
  <2>1. /\ status = "run" /\ Reads(Got) /\ EndLine
        /\ UNCHANGED <<section, width>> /\ UNCHANGED code /\ UNCHANGED table
        /\ UNCHANGED rels /\ UNCHANGED <<pcs, stale>>
    BY <1>5 DEF EndValues, Running
  <2>2. LexerType'
    BY <2>1, GotTypes DEF Reads, LexerType
  <2> QED
    BY <1>s, <1>e, <1>k, <2>1, <2>2, TypesStay, TypeMade
<1>6. CASE Ascii
  <2>1. /\ status = "run" /\ EndLine
        /\ UNCHANGED lexer /\ UNCHANGED <<section, width>> /\ UNCHANGED table
        /\ UNCHANGED rels /\ UNCHANGED <<pcs, stale>>
    BY <1>6 DEF Ascii, Directive, Running
  <2>2. BytesTyped'
    <3>1. CASE rest # <<>> /\ Head(rest).kind = "string"
      <4> PICK n : n = Head(rest).value + (IF token = ".asciz" THEN 1 ELSE 0)
        OBVIOUS
      <4>1. Head(rest) \in LineTokens
        BY <1>0, <3>1 DEF LexerType
      <4>2. n \in Int
        <5>1. Head(rest).value \in Nat
          BY <3>1, <4>1, LinesAssumption
        <5> QED
          BY <5>1
      <4>3. Bytes(n, "datum") \in Seq(Byte)
        BY <4>2, BytesType DEF Byte
      <4>4. Emit(Bytes(n, "datum"))
        BY <1>6, <3>1 DEF Ascii
      <4> QED
        BY <4>3, <4>4, EmitCode DEF CodeType, BytesTyped
    <3>2. CASE ~(rest # <<>> /\ Head(rest).kind = "string")
      BY <1>6, <3>2, TypesStay DEF Ascii
    <3> QED
      BY <3>1, <3>2
  <2> QED
    BY <1>s, <1>e, <1>k, <2>1, <2>2, TypesStay, TypeMade
<1>7. CASE Space
  <2>1. /\ Emit(Bytes(Got.tokval, "datum")) /\ status = "run" /\ Reads(Got) /\ EndLine
        /\ UNCHANGED <<section, width>> /\ UNCHANGED table
        /\ UNCHANGED rels /\ UNCHANGED pcs /\ stale' = (stale \/ Got.tok # "N")
    BY <1>7 DEF Space, Directive, Running
  <2>2. LexerType'
    BY <2>1, GotTypes DEF Reads, LexerType
  <2>3. Bytes(Got.tokval, "datum") \in Seq(Byte)
    BY GotTypes, BytesType DEF Byte
  <2>4. BytesTyped'
    BY <2>1, <2>3, EmitCode DEF CodeType, BytesTyped
  <2>5. HistoryType'
    <3>1. stale' \in BOOLEAN
      BY <2>1, Zenon
    <3> QED
      BY <1>h, <2>1, <3>1
  <2> QED
    BY <1>s, <1>e, <1>k, <2>1, <2>2, <2>4, <2>5, TypesStay, TypeMade
<1>8. CASE UnknownDirective
  <2>1. /\ status = "run" /\ EndLine
        /\ UNCHANGED lexer /\ UNCHANGED <<section, width>> /\ UNCHANGED code /\ UNCHANGED table
        /\ UNCHANGED rels /\ UNCHANGED <<pcs, stale>>
    BY <1>8 DEF UnknownDirective, Directive, Running
  <2> QED
    BY <1>s, <1>e, <1>k, <2>1, TypesStay, TypeMade
<1> QED
  BY <1>1, <1>2, <1>3, <1>4, <1>5, <1>6, <1>7, <1>8

LEMMA InstructionsTyped ==
  ASSUME TypeInv, Call \/ Return \/ PushPop \/ Unsupported
  PROVE  TypeInv'
<1>0. /\ PlaceType /\ LexerType /\ DataType /\ BytesTyped /\ SymbolType /\ RelocType
      /\ HistoryType
  BY TypeParts
<1>s. syms \in Seq(Symbol) /\ Len(syms) <= Len(syms) /\ (UNCHANGED table => UNCHANGED syms)
  BY <1>0 DEF SymbolType, table
<1>e. EndLine /\ status = "run" => PlaceType'
  BY PlaceMoves DEF EndLine
<1>r. Reads(Operands.last) => LexerType'
  BY GotTypes DEF Reads, LexerType
<1>c. ASSUME NEW b \in Seq(Byte), Emit(b)
      PROVE  BytesTyped'
  BY <1>c, EmitCode DEF CodeType, BytesTyped
<1>1. CASE Call
  <2> PICK i, b, off, sym : /\ i = Lookup(Operands.op1) /\ b = CallOpcode \o Placeholder
                            /\ off = Len(WithBytes(code, CallOpcode))
                            /\ sym = IF i # 0 THEN i ELSE NextEntry
    OBVIOUS
  <2>1. /\ status = "run" /\ Emit(b) /\ Reads(Operands.last) /\ EndLine
        /\ IF i # 0 THEN UNCHANGED table ELSE AddSym(Operands.op1, 0, "extern", ".text")
        /\ rels' = IF pass = 2 /\ Len(rels) < MAXRELS
                   THEN Append(rels, [off |-> off, sym |-> sym]) ELSE rels
        /\ UNCHANGED <<section, width>> /\ UNCHANGED <<pcs, stale>>
    BY <1>1 DEF Call, AddReloc, Instruction, Running
  <2>2. BytesTyped'
    BY <1>c, <2>1, BytesEmitted
  <2>3. /\ 0 \in 0..MAXCODE /\ "extern" \in Kinds /\ ".text" \in {".text", ".data"} /\ pass \in 1..2
        /\ Operands.op1 \in Texts /\ MAXSYMS \in Nat /\ MAXCODE \in Nat /\ MAXRELS \in Nat
    BY <2>1, BoundsAssumption, PlaceMoves, GotTypes DEF Kinds
  <2>4. /\ SymbolType' /\ (UNCHANGED rels => RelocType')
        /\ Len(syms) <= Len(syms') /\ syms' \in Seq(Symbol) /\ sym \in 0..Len(syms')
    <3>1. CASE i # 0
      <4>1. UNCHANGED table /\ UNCHANGED syms
        BY <1>s, <2>1, <3>1
      <4>2. i \in DOMAIN syms
        BY <1>s, <3>1, LookupFinds
      <4>3. sym = i /\ i \in 0..Len(syms)
        BY <1>s, <3>1, <4>2
      <4> QED
        BY <1>s, <4>1, <4>3, TypesStay
    <3>2. CASE i = 0
      <4>1. AddSym(Operands.op1, 0, "extern", ".text")
        BY <2>1, <3>2
      <4>2. /\ SymbolType' /\ (UNCHANGED rels => RelocType')
            /\ Len(syms) <= Len(syms') /\ syms' \in Seq(Symbol)
        BY <2>3, <4>1, SymbolMoves
      <4>3. /\ (\E j \in DOMAIN syms : Known(j, Operands.op1, 0)) \/ Entered(Operands.op1, 0)
               \/ Full(Operands.op1)
        BY <2>3, <4>1, AddSymEffect
      <4>4. \A j \in DOMAIN syms : syms[j].name # Operands.op1
        BY <1>s, <3>2, LookupFinds
      <4>5. Entered(Operands.op1, 0) \/ Full(Operands.op1)
        BY <4>3, <4>4 DEF Known
      <4>6. Len(syms) < MAXSYMS => Len(syms') = Len(syms) + 1
        BY <1>s, <2>3, <4>5 DEF Entered, Full
      <4>7. sym = (IF Len(syms) < MAXSYMS THEN Len(syms) + 1 ELSE 0)
        BY <3>2 DEF NextEntry
      <4>8. sym \in 0..Len(syms')
        BY <1>s, <4>2, <4>6, <4>7
      <4> QED
        BY <4>2, <4>8
    <3> QED
      BY <3>1, <3>2
  <2>5. RelocType'
    <3>1. CASE UNCHANGED rels
      BY <2>4, <3>1
    <3>2. CASE Len(rels) < MAXRELS /\ rels' = Append(rels, [off |-> off, sym |-> sym])
      <4> PICK r : r = [off |-> off, sym |-> sym]
        OBVIOUS
      <4>1. off \in 0..MAXCODE
        <5>1. code \in Seq(Byte) /\ Len(code) <= MAXCODE /\ CallOpcode \in Seq(Byte)
          BY <1>0, BytesEmitted DEF BytesTyped
        <5>2. /\ WithBytes(code, CallOpcode) \in Seq(Byte)
              /\ Len(WithBytes(code, CallOpcode)) = Cap(Len(code) + Len(CallOpcode))
          BY <5>1, EmitType
        <5> QED
          BY <2>3, <5>2 DEF Cap
      <4>2. Len(syms') <= MAXSYMS /\ Len(syms') \in Nat /\ Len(syms) \in Nat
        BY <1>s, <2>4 DEF SymbolType
      <4>3. r \in Reloc /\ r.sym = sym
        BY <2>3, <2>4, <4>1, <4>2 DEF Reloc
      <4>4. /\ rels \in Seq(Reloc) /\ Len(rels) \in Nat
            /\ \A k \in DOMAIN rels : rels[k].sym <= Len(syms) /\ rels[k] \in Reloc
        BY <1>0 DEF RelocType
      <4>5. /\ rels' \in Seq(Reloc) /\ Len(rels') = Len(rels) + 1
            /\ \A k \in DOMAIN rels' : (k \in DOMAIN rels /\ rels'[k] = rels[k]) \/ rels'[k] = r
        BY <3>2, <4>3, <4>4
      <4>6. \A k \in DOMAIN rels : rels[k].sym <= Len(syms')
        BY <2>3, <2>4, <4>2, <4>4 DEF Reloc
      <4>7. \A k \in DOMAIN rels' : rels'[k].sym <= Len(syms')
        BY <2>4, <4>3, <4>5, <4>6
      <4>8. Len(rels') <= MAXRELS
        BY <2>3, <3>2, <4>4, <4>5
      <4> QED
        BY <4>5, <4>7, <4>8 DEF RelocType
    <3> QED
      BY <2>1, <3>1, <3>2
  <2> QED
    BY <1>e, <1>r, <2>1, <2>2, <2>4, <2>5, TypesStay, TypeMade
<1>2. CASE Return
  <2>1. /\ status = "run" /\ Emit(ReturnBytes) /\ Reads(Operands.last) /\ EndLine
        /\ UNCHANGED <<section, width>> /\ UNCHANGED table
        /\ UNCHANGED rels /\ UNCHANGED <<pcs, stale>>
    BY <1>2 DEF Return, Instruction, Running
  <2>2. BytesTyped'
    BY <1>c, <2>1, BytesEmitted
  <2> QED
    BY <1>s, <1>e, <1>r, <2>1, <2>2, TypesStay, TypeMade
<1>3. CASE PushPop
  <2>1. /\ status = "run" /\ Reads(Operands.last) /\ EndLine
        /\ Emit(<<"op">>) \/ Emit(<<>>)
        /\ UNCHANGED <<section, width>> /\ UNCHANGED table
        /\ UNCHANGED rels /\ UNCHANGED <<pcs, stale>>
    BY <1>3 DEF PushPop, Instruction, Running
  <2>2. BytesTyped'
    BY <1>c, <2>1, BytesEmitted
  <2> QED
    BY <1>s, <1>e, <1>r, <2>1, <2>2, TypesStay, TypeMade
<1>4. CASE Unsupported
  <2>1. /\ status = "run" /\ Reads(Operands.last) /\ EndLine
        /\ UNCHANGED <<section, width>> /\ UNCHANGED code /\ UNCHANGED table
        /\ UNCHANGED rels /\ UNCHANGED <<pcs, stale>>
    BY <1>4 DEF Unsupported, Running
  <2> QED
    BY <1>s, <1>e, <1>r, <2>1, TypesStay, TypeMade
<1> QED
  BY <1>1, <1>2, <1>3, <1>4

LEMMA TypeNext ==
  ASSUME TypeInv, [Next]_vars
  PROVE  TypeInv'
<1>1. CASE Stopped \/ UNCHANGED vars
  <2>1. /\ UNCHANGED place /\ UNCHANGED lexer /\ UNCHANGED <<section, width>> /\ UNCHANGED code
        /\ UNCHANGED table /\ UNCHANGED rels /\ UNCHANGED <<pcs, stale>> /\ UNCHANGED syms
    BY <1>1 DEF Stopped, vars, table
  <2>2. syms \in Seq(Symbol) /\ Len(syms) <= Len(syms)
    BY TypeParts DEF SymbolType
  <2> QED
    BY <2>1, <2>2, TypesStay, TypeMade
<1> QED
  BY <1>1, LinesTyped, DirectivesTyped, InstructionsTyped DEF Next, Passes, Statements

\* The tables of the assembler keep their types and their limits in both passes, and a
\* relocation's symbol is an entry of the table, or none (all of sas.c).
THEOREM TypeCorrect == Spec => []TypeOK
<1>1. TypeInv => TypeOK
  BY DEF TypeInv
<1> QED
  BY <1>1, TypeInit, TypeNext, PTL DEF Spec

-----------------------------------------------------------------------------
(* Relocations *)

\* The second pass notes a relocation for every placeholder and for nothing else, in the
\* order of the code and apart, until the buffer or the table is full.
RelocInv ==
  /\ pass \in 0..1 => rels = <<>>
  /\ pass = 2 /\ pc < MAXCODE /\ Len(rels) < MAXRELS =>
       /\ \A k \in DOMAIN code :
            code[k] = "hole" <=> \E i \in DOMAIN rels : rels[i].off < k /\ k <= rels[i].off + 4
       /\ \A i \in DOMAIN rels : rels[i].off + 4 <= pc
       /\ \A i, j \in DOMAIN rels : i < j => rels[i].off + 4 <= rels[j].off

\* the bytes s follow the code, when the buffer has room for them
Follows(s) ==
  /\ pc' = pc + Len(s)
  /\ \A k \in DOMAIN code : k \in DOMAIN code' /\ code'[k] = code[k]
  /\ \A k \in DOMAIN code' : \/ k \in DOMAIN code
                             \/ k > pc /\ k - pc \in DOMAIN s /\ code'[k] = s[k - pc]

LEMMA EmitFollows ==
  ASSUME TypeInv, NEW s \in Seq(Byte), Emit(s), pc' < MAXCODE
  PROVE  Follows(s) /\ pc < MAXCODE
<1>1. code \in Seq(Byte) /\ Len(code) <= MAXCODE /\ MAXCODE \in Nat
  BY BoundsAssumption DEF TypeInv, TypeOK, Byte
<1> PICK d : d = WithBytes(code, s)
  OBVIOUS
<1>2. /\ d \in Seq(Byte) /\ Len(d) = Cap(Len(code) + Len(s))
      /\ \A i \in DOMAIN d : \/ i \in DOMAIN code /\ d[i] = code[i]
                             \/ i > Len(code) /\ i - Len(code) \in DOMAIN s /\ d[i] = s[i - Len(code)]
      /\ \A i \in DOMAIN code : i \in DOMAIN d
  BY <1>1, EmitType
<1>3. code' = d /\ pc = Len(code) /\ pc' = Len(d)
  BY DEF Emit, pc
<1>4. Len(code) \in Nat /\ Len(s) \in Nat /\ DOMAIN code = 1..Len(code)
  BY <1>1
<1>5. Len(d) = Len(code) + Len(s)
  BY <1>1, <1>2, <1>3, <1>4 DEF Cap
<1>6. \A k \in DOMAIN code : k \in DOMAIN d /\ d[k] = code[k]
  BY <1>2, <1>4
<1>7. \A k \in DOMAIN d : \/ k \in DOMAIN code
                          \/ k > pc /\ k - pc \in DOMAIN s /\ d[k] = s[k - pc]
  BY <1>2, <1>3
<1>8. Follows(s)
  BY <1>3, <1>5, <1>6, <1>7 DEF Follows
<1> QED
  BY <1>1, <1>3, <1>4, <1>5, <1>8

\* no statement but a call emits a placeholder, or notes a relocation
Solid(s) == s \in Seq(Byte) /\ \A k \in DOMAIN s : s[k] # "hole"

LEMMA SolidBytes ==
  /\ Solid(<<>>) /\ Solid(<<"op">>) /\ Solid(ReturnBytes)
  /\ \A n \in Int : Solid(Bytes(n, "datum"))
<1>1. "op" \in Byte /\ "datum" \in Byte /\ "op" # "hole" /\ "datum" # "hole"
  BY DEF Byte
<1>2. Solid(<<>>)
  BY DEF Solid
<1>3. Solid(<<"op">>)
  <2> PICK s : s = <<"op">>
    OBVIOUS
  <2>1. s \in Seq(Byte) /\ DOMAIN s = {1} /\ s[1] = "op"
    BY <1>1
  <2> QED
    BY <1>1, <2>1 DEF Solid
<1>4. ASSUME NEW n \in Int, NEW b \in Byte, b # "hole"
      PROVE  Solid(Bytes(n, b))
  BY <1>4, BytesType DEF Solid
<1>5. Solid(ReturnBytes)
  <2> PICK n \in Int : n = IF target = "x64" THEN 1 ELSE 4
    OBVIOUS
  <2>1. Solid(Bytes(n, "op"))
    BY <1>1, <1>4
  <2> QED
    BY <2>1 DEF ReturnBytes
<1> QED
  BY <1>1, <1>2, <1>3, <1>4, <1>5

LEMMA OthersEmit ==
  ASSUME TypeInv, [Next]_vars, ~Call, ~OpenFile, ~EndFile
  PROVE  UNCHANGED pass /\ UNCHANGED rels /\ (UNCHANGED code \/ \E s : Solid(s) /\ Emit(s))
<1>1. CASE Stopped \/ UNCHANGED vars
  BY <1>1 DEF Stopped, vars, place
<1>2. CASE EmptyLine \/ Unlabelled \/ Labelled
  BY <1>2 DEF EmptyLine, Unlabelled, Labelled, Reading
<1>3. CASE SetSection \/ DeclareSymbol \/ BeginValues \/ EndValues \/ UnknownDirective \/ Unsupported
  BY <1>3 DEF SetSection, DeclareSymbol, BeginValues, EndValues, UnknownDirective, Unsupported,
     EndLine, Enter
<1>4. CASE Value
  <2>1. width \in Int
    BY TypeParts DEF DataType, Width
  <2>2. Emit(Bytes(width, "datum")) /\ UNCHANGED rels /\ UNCHANGED pass
    BY <1>4 DEF Value, EndLine, Enter, place
  <2> QED
    BY <2>1, <2>2, SolidBytes
<1>5. CASE Ascii
  <2>1. UNCHANGED pass /\ UNCHANGED rels
    BY <1>5 DEF Ascii, EndLine, Enter
  <2>2. CASE rest # <<>> /\ Head(rest).kind = "string"
    <3> PICK n : n = Head(rest).value + (IF token = ".asciz" THEN 1 ELSE 0)
      OBVIOUS
    <3>1. rest \in Seq(LineTokens)
      BY TypeParts DEF LexerType
    <3>2. Head(rest) \in LineTokens
      BY <2>2, <3>1
    <3>3. Head(rest).value \in Nat
      BY <2>2, <3>2, LinesAssumption
    <3>4. n \in Int
      BY <3>3
    <3>5. Emit(Bytes(n, "datum"))
      BY <1>5, <2>2 DEF Ascii
    <3> QED
      BY <2>1, <3>4, <3>5, SolidBytes
  <2>3. CASE ~(rest # <<>> /\ Head(rest).kind = "string")
    BY <1>5, <2>1, <2>3 DEF Ascii
  <2> QED
    BY <2>2, <2>3
<1>6. CASE Space
  <2>1. Emit(Bytes(Got.tokval, "datum")) /\ UNCHANGED rels /\ UNCHANGED pass
    BY <1>6 DEF Space, EndLine, Enter
  <2>2. Got.tokval \in Int
    BY GotTypes
  <2> QED
    BY <2>1, <2>2, SolidBytes
<1>7. CASE Return
  <2>1. Emit(ReturnBytes) /\ UNCHANGED rels /\ UNCHANGED pass
    BY <1>7 DEF Return, EndLine, Enter
  <2> QED
    BY <2>1, SolidBytes
<1>8. CASE PushPop
  <2>1. (Emit(<<"op">>) \/ Emit(<<>>)) /\ UNCHANGED rels /\ UNCHANGED pass
    BY <1>8 DEF PushPop, EndLine, Enter
  <2> QED
    BY <2>1, SolidBytes
<1> QED
  BY <1>1, <1>2, <1>3, <1>4, <1>5, <1>6, <1>7, <1>8 DEF Next, Passes, Statements

\* the placeholder of a call is behind its opcode
LEMMA CallBytes ==
  ASSUME NEW b, b = CallOpcode \o Placeholder
  PROVE  /\ b \in Seq(Byte) /\ Len(CallOpcode) \in Nat /\ Len(b) = Len(CallOpcode) + 4
         /\ \A k \in DOMAIN b : b[k] = "hole" <=> k > Len(CallOpcode)
<1> PICK c, h : c = CallOpcode /\ h = Placeholder
  OBVIOUS
<1>1. c \in Seq(Byte) /\ h \in Seq(Byte) /\ Len(h) = 4 /\ Len(c) \in Nat
  BY BytesEmitted
<1>2. \A k \in DOMAIN c : c[k] # "hole"
  <2>1. Solid(c)
    BY SolidBytes DEF CallOpcode
  <2> QED
    BY <2>1 DEF Solid
<1>3. \A k \in DOMAIN h : h[k] = "hole"
  BY DEF Placeholder, Bytes
<1>4. /\ b \in Seq(Byte) /\ Len(b) = Len(c) + Len(h)
      /\ \A k \in 1..Len(b) : b[k] = IF k <= Len(c) THEN c[k] ELSE h[k - Len(c)]
  <2>1. b = c \o h
    OBVIOUS
  <2>0. c \in Seq(Byte) /\ h \in Seq(Byte)
    BY <1>1
  <2>2. b \in Seq(Byte) /\ Len(b) = Len(c) + Len(h)
    BY ONLY <2>0, <2>1
  <2>3. \A k \in 1..Len(c) + Len(h) : b[k] = IF k <= Len(c) THEN c[k] ELSE h[k - Len(c)]
    BY ONLY <2>0, <2>1
  <2> QED
    BY <2>2, <2>3
<1>5. DOMAIN b = 1..Len(b) /\ DOMAIN c = 1..Len(c) /\ DOMAIN h = 1..Len(h)
  BY <1>1, <1>4
<1>6. ASSUME NEW k \in DOMAIN b
      PROVE  b[k] = "hole" <=> k > Len(c)
  <2>1. CASE k <= Len(c)
    BY <1>1, <1>2, <1>4, <1>5, <2>1
  <2>2. CASE ~(k <= Len(c))
    <3>1. k - Len(c) \in DOMAIN h
      BY <1>1, <1>4, <1>5, <2>2
    <3> QED
      BY <1>1, <1>3, <1>4, <1>5, <2>2, <3>1
  <2> QED
    BY <2>1, <2>2
<1> QED
  BY <1>1, <1>4, <1>6

LEMMA CallRelocs ==
  ASSUME TypeInv, RelocInv, Call
  PROVE  RelocInv'
<1> PICK b, c, i, r : /\ b = CallOpcode \o Placeholder /\ c = Len(CallOpcode)
                      /\ i = Lookup(Operands.op1)
                      /\ r = [off |-> Len(WithBytes(code, CallOpcode)),
                              sym |-> IF i # 0 THEN i ELSE NextEntry]
  OBVIOUS
<1>1. /\ Emit(b) /\ UNCHANGED pass
      /\ rels' = IF pass = 2 /\ Len(rels) < MAXRELS THEN Append(rels, r) ELSE rels
  BY DEF Call, AddReloc, EndLine, Enter
<1>2. /\ b \in Seq(Byte) /\ c \in Nat /\ Len(b) = c + 4
      /\ \A k \in DOMAIN b : b[k] = "hole" <=> k > c
  BY CallBytes
<1>3. pass' \in 0..1 => rels' = <<>>
  BY <1>1 DEF RelocInv
<1>4. ASSUME pass' = 2, pc' < MAXCODE, Len(rels') < MAXRELS
      PROVE  /\ \A k \in DOMAIN code' :
                  code'[k] = "hole" <=> \E j \in DOMAIN rels' : rels'[j].off < k /\ k <= rels'[j].off + 4
             /\ \A j \in DOMAIN rels' : rels'[j].off + 4 <= pc'
             /\ \A j, k \in DOMAIN rels' : j < k => rels'[j].off + 4 <= rels'[k].off
  <2>1. Follows(b) /\ pc < MAXCODE
    BY <1>1, <1>2, <1>4, EmitFollows
  <2>2. /\ rels \in Seq(Reloc) /\ Len(rels) \in Nat /\ DOMAIN rels = 1..Len(rels)
        /\ MAXRELS \in Nat /\ MAXCODE \in Nat /\ code \in Seq(Byte) /\ pc \in Nat /\ pc = Len(code)
        /\ DOMAIN code = 1..pc /\ Len(code) <= MAXCODE
    BY BoundsAssumption DEF TypeInv, TypeOK, pc, Byte
  <2>3. Len(rels) < MAXRELS /\ rels' = Append(rels, r)
    BY <1>1, <1>4
  <2>4. r.off = pc + c
    <3>1. CallOpcode \in Seq(Byte)
      BY BytesEmitted
    <3>2. Len(WithBytes(code, CallOpcode)) = Cap(Len(code) + Len(CallOpcode))
      BY <2>2, <3>1, EmitType
    <3>3. pc' = pc + c + 4
      BY <1>2, <2>1, <2>2 DEF Follows
    <3>4. pc + c < MAXCODE
      BY <1>2, <1>4, <2>2, <3>3
    <3>5. r.off = Cap(pc + c)
      BY <2>2, <3>2
    <3> QED
      BY <3>4, <3>5 DEF Cap
  <2>5. /\ DOMAIN rels' = 1..Len(rels) + 1 /\ rels'[Len(rels) + 1] = r
        /\ \A j \in DOMAIN rels : j \in DOMAIN rels' /\ rels'[j] = rels[j]
    BY <2>2, <2>3
  <2>6. \A j \in DOMAIN rels : rels[j].off \in Nat
    <3>1. \A j \in DOMAIN rels : rels[j] \in Reloc
      BY <2>2
    <3> QED
      BY <2>2, <3>1 DEF Reloc
  <2>7. /\ \A k \in DOMAIN code :
              code[k] = "hole" <=> \E j \in DOMAIN rels : rels[j].off < k /\ k <= rels[j].off + 4
        /\ \A j \in DOMAIN rels : rels[j].off + 4 <= pc
        /\ \A j, k \in DOMAIN rels : j < k => rels[j].off + 4 <= rels[k].off
    BY <1>1, <1>4, <2>1, <2>3 DEF RelocInv
  <2>8. \A j \in DOMAIN rels' : (j \in DOMAIN rels /\ rels'[j] = rels[j])
                                \/ (j = Len(rels) + 1 /\ rels'[j] = r)
    BY <2>2, <2>5
  <2>9. pc' = pc + c + 4
    BY <1>2, <2>1, <2>2 DEF Follows
  <2>10. \A j \in DOMAIN rels' : rels'[j].off + 4 <= pc'
    <3> SUFFICES ASSUME NEW j \in DOMAIN rels' PROVE rels'[j].off + 4 <= pc'
      OBVIOUS
    <3>1. CASE j \in DOMAIN rels /\ rels'[j] = rels[j]
      <4>1. rels[j].off + 4 <= pc /\ rels[j].off \in Nat
        BY <2>6, <2>7, <3>1
      <4> QED
        BY <1>2, <2>2, <2>9, <3>1, <4>1
    <3>2. CASE rels'[j] = r
      BY <1>2, <2>2, <2>4, <2>9, <3>2
    <3> QED
      BY <2>8, <3>1, <3>2
  <2>11. ASSUME NEW j \in DOMAIN rels', NEW k \in DOMAIN rels', j < k
         PROVE  rels'[j].off + 4 <= rels'[k].off
    <3>1. j \in DOMAIN rels /\ rels'[j] = rels[j] /\ rels[j].off \in Nat /\ rels[j].off + 4 <= pc
      BY <2>2, <2>5, <2>6, <2>7, <2>8, <2>11
    <3>2. CASE k \in DOMAIN rels /\ rels'[k] = rels[k]
      BY <2>7, <2>11, <3>1, <3>2
    <3>3. CASE rels'[k] = r
      BY <1>2, <2>2, <2>4, <3>1, <3>3
    <3> QED
      BY <2>8, <3>2, <3>3
  <2>12. ASSUME NEW k \in DOMAIN code'
         PROVE  code'[k] = "hole" <=> \E j \in DOMAIN rels' : rels'[j].off < k /\ k <= rels'[j].off + 4
    <3>1. CASE k \in DOMAIN code
      <4>1. code'[k] = code[k] /\ k \in Nat /\ k <= pc
        BY <2>1, <2>2, <3>1 DEF Follows
      <4>2. ~(r.off < k)
        BY <1>2, <2>2, <2>4, <4>1
      <4>3. (\E j \in DOMAIN rels' : rels'[j].off < k /\ k <= rels'[j].off + 4)
            <=> \E j \in DOMAIN rels : rels[j].off < k /\ k <= rels[j].off + 4
        BY <2>5, <2>8, <4>2
      <4> QED
        BY <2>7, <3>1, <4>1, <4>3
    <3>2. CASE k > pc /\ k - pc \in DOMAIN b /\ code'[k] = b[k - pc]
      <4>1. DOMAIN b = 1..c + 4
        BY <1>2
      <4>2. k \in Int /\ k <= pc + c + 4
        <5>1. DOMAIN code' = 1..Len(code')
          BY <1>1, <1>2, EmitCode DEF CodeType
        <5>2. Len(code') = pc'
          BY DEF pc
        <5>3. k \in 1..pc'
          BY <5>1, <5>2
        <5>4. pc + c + 4 \in Nat
          BY <1>2, <2>2
        <5> QED
          BY <2>9, <5>3, <5>4
      <4>3. code'[k] = "hole" <=> k > pc + c
        BY <1>2, <2>2, <3>2, <4>2
      <4>4. \A j \in DOMAIN rels : ~(k <= rels[j].off + 4)
        BY <2>2, <2>6, <2>7, <3>2, <4>2
      <4>5. (\E j \in DOMAIN rels' : rels'[j].off < k /\ k <= rels'[j].off + 4) <=> k > pc + c
        <5>1. r.off < k /\ k <= r.off + 4 <=> k > pc + c
          BY <1>2, <2>2, <2>4, <4>2
        <5>2. Len(rels) + 1 \in DOMAIN rels' /\ rels'[Len(rels) + 1] = r
          BY <2>2, <2>5
        <5> QED
          BY <2>8, <4>4, <5>1, <5>2
      <4> QED
        BY <4>3, <4>5
    <3> QED
      BY <2>1, <3>1, <3>2 DEF Follows
  <2> QED
    BY <2>10, <2>11, <2>12
<1> QED
  BY <1>3, <1>4 DEF RelocInv

LEMMA RelocNext ==
  ASSUME TypeInv, RelocInv, [Next]_vars
  PROVE  RelocInv'
<1>1. CASE OpenFile
  <2>1. status = "start" /\ (pass' = 1 \/ UNCHANGED pass) /\ UNCHANGED rels
    BY <1>1 DEF OpenFile
  <2>2. pass = 0
    BY <2>1, TypeParts DEF PlaceType
  <2> QED
    BY <2>1, <2>2 DEF RelocInv
<1>2. CASE EndFile
  <2>1. CASE pass = 1
    <3>1. pass' = 2 /\ code' = <<>> /\ rels' = <<>>
      BY <1>2, <2>1 DEF EndFile, RelocInv
    <3>2. DOMAIN code' = {} /\ DOMAIN rels' = {}
      BY <3>1
    <3> QED
      BY <3>1, <3>2 DEF RelocInv
  <2>2. CASE pass # 1
    <3>1. UNCHANGED pass /\ UNCHANGED code /\ UNCHANGED rels
      BY <1>2, <2>2 DEF EndFile
    <3> QED
      BY <3>1 DEF RelocInv, pc
  <2> QED
    BY <2>1, <2>2
<1>3. CASE ~Call /\ ~OpenFile /\ ~EndFile
  <2>1. UNCHANGED pass /\ UNCHANGED rels /\ (UNCHANGED code \/ \E s : Solid(s) /\ Emit(s))
    BY <1>3, OthersEmit
  <2>2. CASE UNCHANGED code
    BY <2>1, <2>2 DEF RelocInv, pc
  <2>3. ASSUME NEW s, Solid(s), Emit(s)
        PROVE  RelocInv'
    <3>1. s \in Seq(Byte) /\ \A k \in DOMAIN s : s[k] # "hole"
      BY <2>3 DEF Solid
    <3>2. ASSUME pass' = 2, pc' < MAXCODE, Len(rels') < MAXRELS
          PROVE  /\ \A k \in DOMAIN code' :
                      code'[k] = "hole"
                      <=> \E i \in DOMAIN rels' : rels'[i].off < k /\ k <= rels'[i].off + 4
                 /\ \A i \in DOMAIN rels' : rels'[i].off + 4 <= pc'
                 /\ \A i, j \in DOMAIN rels' : i < j => rels'[i].off + 4 <= rels'[j].off
      <4>1. Follows(s) /\ pc < MAXCODE
        BY <2>3, <3>1, <3>2, EmitFollows
      <4>2. /\ \A k \in DOMAIN code :
                  code[k] = "hole" <=> \E i \in DOMAIN rels : rels[i].off < k /\ k <= rels[i].off + 4
            /\ \A i \in DOMAIN rels : rels[i].off + 4 <= pc
            /\ \A i, j \in DOMAIN rels : i < j => rels[i].off + 4 <= rels[j].off
        BY <2>1, <3>2, <4>1 DEF RelocInv
      <4>3. /\ \A i \in DOMAIN rels : rels[i].off \in Nat
            /\ pc \in Nat /\ Len(s) \in Nat
        <5>1. rels \in Seq(Reloc) /\ code \in Seq(Byte) /\ MAXCODE \in Nat
          BY BoundsAssumption DEF TypeInv, TypeOK, Byte
        <5>2. \A i \in DOMAIN rels : rels[i] \in Reloc
          BY <5>1
        <5> QED
          BY <3>1, <5>1, <5>2 DEF Reloc, pc
      <4>4. \A i \in DOMAIN rels : rels[i].off + 4 <= pc'
        BY <4>1, <4>2, <4>3 DEF Follows
      <4>5. ASSUME NEW k \in DOMAIN code'
            PROVE  code'[k] = "hole" <=> \E i \in DOMAIN rels : rels[i].off < k /\ k <= rels[i].off + 4
        <5>1. CASE k \in DOMAIN code
          BY <4>1, <4>2, <5>1 DEF Follows
        <5>2. CASE k > pc /\ k - pc \in DOMAIN s /\ code'[k] = s[k - pc]
          <6>1. code'[k] # "hole"
            BY <3>1, <5>2
          <6>2. k \in Int
            <7>1. DOMAIN code' = 1..Len(code')
              BY <2>3, <3>1, EmitCode DEF CodeType
            <7> QED
              BY <7>1
          <6>3. \A i \in DOMAIN rels : ~(k <= rels[i].off + 4)
            BY <4>2, <4>3, <5>2, <6>2
          <6> QED
            BY <6>1, <6>3
        <5> QED
          BY <4>1, <5>1, <5>2 DEF Follows
      <4> QED
        BY <2>1, <4>2, <4>4, <4>5
    <3> QED
      BY <2>1, <3>2 DEF RelocInv
  <2> QED
    BY <2>1, <2>2, <2>3
<1> QED
  BY <1>1, <1>2, <1>3, CallRelocs

\* Pass 2 notes one relocation for each placeholder, in the order of the code, as long as
\* neither the buffer nor the table is full (parse_instruction(), add_reloc()).
THEOREM RelocsCorrect == Spec => []RelocSites
<1>1. TypeInv /\ RelocInv => RelocSites
  <2> SUFFICES ASSUME TypeInv, RelocInv, pass = 2, pc < MAXCODE, Len(rels) < MAXRELS
               PROVE  /\ Holes = UNION {Site(rels[i]) : i \in DOMAIN rels}
                      /\ \A i, j \in DOMAIN rels : i < j => rels[i].off + 4 <= rels[j].off
    BY DEF RelocSites
  <2>1. /\ \A k \in DOMAIN code :
              code[k] = "hole" <=> \E i \in DOMAIN rels : rels[i].off < k /\ k <= rels[i].off + 4
        /\ \A i \in DOMAIN rels : rels[i].off + 4 <= pc
        /\ \A i, j \in DOMAIN rels : i < j => rels[i].off + 4 <= rels[j].off
    BY DEF RelocInv
  <2>2. DOMAIN code = 1..pc /\ pc \in Nat
    BY DEF TypeInv, TypeOK, pc
  <2>3. \A i \in DOMAIN rels : rels[i].off \in Nat
    <3>1. \A i \in DOMAIN rels : rels[i] \in Reloc
      BY DEF TypeInv
    <3> QED
      BY <3>1, BoundsAssumption DEF Reloc
  <2>4. \A i \in DOMAIN rels : Site(rels[i]) \subseteq DOMAIN code
    BY <2>1, <2>2, <2>3 DEF Site
  <2>5. \A i \in DOMAIN rels : \A k \in DOMAIN code :
          k \in Site(rels[i]) <=> rels[i].off < k /\ k <= rels[i].off + 4
    BY <2>2, <2>3 DEF Site
  <2>6. Holes \subseteq UNION {Site(rels[i]) : i \in DOMAIN rels}
    BY <2>1, <2>5 DEF Holes
  <2>7. UNION {Site(rels[i]) : i \in DOMAIN rels} \subseteq Holes
    <3> SUFFICES ASSUME NEW i \in DOMAIN rels, NEW k \in Site(rels[i]) PROVE k \in Holes
      OBVIOUS
    <3> QED
      BY <2>1, <2>4, <2>5 DEF Holes
  <2> QED
    BY <2>1, <2>6, <2>7
<1>2. Init => RelocInv
  <2>1. Init => rels = <<>> /\ pass = 0
    BY Zenon DEF Init
  <2> QED
    BY <2>1 DEF RelocInv
<1> QED
  BY <1>1, <1>2, TypeInit, TypeNext, RelocNext, PTL DEF Spec

-----------------------------------------------------------------------------
(* Lines *)

\* A line's first token, its statement, and the bytes that a statement named w adds whose
\* tokens are ts, when its count is a number of its own (a list of values is below).
First(l) == GetToken(l, "none", 0)
Stmt(l) == IF First(l).tok = ":" THEN After(First(l)) ELSE First(l)

Is(ts, i, kind) == i \in DOMAIN ts /\ ts[i].kind = kind
Count(n) == IF n > 0 THEN n ELSE 0
Adds(t, w, ts) ==
  IF w \in {".ascii", ".asciz"}
  THEN IF Is(ts, 1, "string") THEN Count(ts[1].value + (IF w = ".asciz" THEN 1 ELSE 0)) ELSE 0
  ELSE IF w \in {".space", ".zero"} THEN Count(ts[1].value)
  ELSE IF w \in Directives THEN 0
  ELSE IF w \in Opcode({"call"}, {"bl"})[t] THEN IF t = "x64" THEN 5 ELSE 4
  ELSE IF w \in Opcode({"ret"}, {"ret"})[t] THEN IF t = "x64" THEN 1 ELSE 4
  ELSE IF w \in Opcode({"pushq", "popq"}, {})[t] /\ GetToken(ts, w, 0).tok # "end"
          /\ GetToken(ts, w, 0).token \in {"%rax", "%rbp"} THEN 1
  ELSE 0

\* the kth of a list of numbers, and the comma behind it
NumberAt(ts, k) == \E i \in DOMAIN ts : i = 2 * k - 1 /\ ts[i].kind = "N"
CommaAt(ts, k) == \E i \in DOMAIN ts : i = 2 * k /\ ts[i].kind = ","
\* a list has n values: there is no comma behind the last, or no number behind the comma
Listed(ts, n) ==
  /\ \A k \in 1..n : NumberAt(ts, k) /\ (k < n => CommaAt(ts, k))
  /\ (n >= 1 /\ ~CommaAt(ts, n)) \/ ~NumberAt(ts, n + 1)
\* the tokens r are those of ts behind the first d
Behind(r, ts, d) ==
  \A i \in Nat \ {0} : /\ i \in DOMAIN r <=> i + d \in DOMAIN ts
                       /\ i \in DOMAIN r => r[i] = ts[i + d]

\* the line l begins at a and ends at b
Ends(t, l, a, b) ==
  LET s == Stmt(l)
  IN \/ s.tok = "end" /\ b = a
     \/ s.tok # "end" /\ s.token \notin DOMAIN Width /\ b = Cap(a + Adds(t, s.token, s.rest))
     \/ /\ s.tok # "end" /\ s.token \in DOMAIN Width
        /\ \E n \in Nat : Listed(s.rest, n) /\ b = Cap(a + n * Width[s.token])

LEMMA ListedOnce ==
  ASSUME NEW ts, NEW m \in Nat, NEW n \in Nat, Listed(ts, m), Listed(ts, n)
  PROVE  m = n
<1>1. ASSUME NEW i \in Nat, NEW j \in Nat, Listed(ts, i), Listed(ts, j), i < j
      PROVE  FALSE
  <2>1. i + 1 \in 1..j
    BY <1>1
  <2>2. NumberAt(ts, i + 1)
    BY <1>1, <2>1 DEF Listed
  <2>3. i >= 1 /\ ~CommaAt(ts, i)
    BY <1>1, <2>2 DEF Listed
  <2>4. i \in 1..j /\ i < j
    BY <1>1, <2>3
  <2> QED
    BY <1>1, <2>3, <2>4 DEF Listed
<1> QED
  BY <1>1

\* the second pass ends a line where the first one did
LEMMA EndsOnce ==
  ASSUME NEW t, NEW l, NEW a, NEW b, NEW c, Ends(t, l, a, b), Ends(t, l, a, c)
  PROVE  b = c
<1> PICK s : s = Stmt(l)
  OBVIOUS
<1>1. CASE s.tok = "end"
  BY <1>1 DEF Ends
<1>2. CASE s.tok # "end" /\ s.token \notin DOMAIN Width
  BY <1>2 DEF Ends
<1>3. CASE s.tok # "end" /\ s.token \in DOMAIN Width
  <2>1. PICK m \in Nat : Listed(s.rest, m) /\ b = Cap(a + m * Width[s.token])
    BY <1>3 DEF Ends
  <2>2. PICK n \in Nat : Listed(s.rest, n) /\ c = Cap(a + n * Width[s.token])
    BY <1>3 DEF Ends
  <2>3. m = n
    BY <2>1, <2>2, ListedOnce
  <2> QED
    BY <2>1, <2>2, <2>3
<1> QED
  BY <1>1, <1>2, <1>3

LEMMA CapAdds ==
  ASSUME NEW a \in Nat, NEW b \in Nat
  PROVE  Cap(Cap(a) + b) = Cap(a + b)
BY BoundsAssumption DEF Cap

\* the tokens of a line lead to its statement, whatever was left before
LEMMA FirstRead ==
  ASSUME NEW l, NEW a, NEW v
  PROVE  LET g == GetToken(l, a, v)
         IN /\ g.tok = First(l).tok /\ g.rest = First(l).rest
            /\ g.tok \notin {"N", "end"} => g.token = First(l).token
            /\ g.tok = ":" => /\ After(g).tok = Stmt(l).tok /\ After(g).rest = Stmt(l).rest
                              /\ After(g).token = Stmt(l).token
            /\ g.tok # ":" => Stmt(l) = First(l)
<1> PICK g, f, n : g = GetToken(l, a, v) /\ f = First(l) /\ n = "none"
  OBVIOUS
<1>1. f = GetToken(l, n, 0)
  BY DEF First
<1>2. g.tok = f.tok /\ g.rest = f.rest /\ (g.tok \notin {"N", "end"} => g.token = f.token)
  BY <1>1, TokenSame
<1>3. ASSUME g.tok = ":"
      PROVE  /\ After(g).tok = Stmt(l).tok /\ After(g).rest = Stmt(l).rest
             /\ After(g).token = Stmt(l).token
  <2>1. g.token = f.token /\ g.rest = f.rest /\ Stmt(l) = After(f)
    BY <1>2, <1>3 DEF Stmt
  <2>2. After(g) = GetToken(g.rest, g.token, g.tokval) /\ After(f) = GetToken(g.rest, g.token, f.tokval)
    BY <2>1 DEF After
  <2> QED
    BY <2>1, <2>2, TokenSame
<1>4. g.tok # ":" => Stmt(l) = f
  BY <1>2 DEF Stmt
<1> QED
  BY <1>2, <1>3, <1>4

\* The lines read are where pass 1 began them: each ends where the next one begins, and
\* the one that is read has used as much of itself as the code has grown.
Counts ==
  /\ pass \in 0..1 => lineno = Len(file) /\ Len(pcs) = Len(file)
  /\ pass = 0 => lineno = 0 /\ pc = 0
  /\ pass = 2 => Len(pcs) = Len(file) + 1
  /\ \A k \in DOMAIN pcs : k = 1 => pcs[k] = 0
  /\ lineno = 0 => pc = 0 /\ phase = "line"

LinesEnd ==
  \A k \in DOMAIN file : k + 1 \in DOMAIN pcs => Ends(target, file[k], pcs[k], pcs[k + 1])

InStatement(s) == s.tok # "end" /\ token = s.token /\ rest = s.rest /\ pc = pcs[lineno]
InValues(s) ==
  /\ s.tok # "end" /\ s.token \in DOMAIN Width /\ width = Width[s.token]
  /\ \E m, d \in Nat : /\ \A k \in 1..m : NumberAt(s.rest, k) /\ CommaAt(s.rest, k)
                       /\ d = 2 * m /\ Behind(rest, s.rest, d)
                       /\ pc = Cap(pcs[lineno] + m * width)
Here ==
  lineno > 0 =>
    /\ phase = "line" => Ends(target, file[lineno], pcs[lineno], pc)
    /\ phase = "statement" => InStatement(Stmt(file[lineno]))
    /\ phase = "values" => InValues(Stmt(file[lineno]))

LineInv == Counts /\ (~stale => LinesEnd /\ Here)

\* what the lines read keep when one more is read
LEMMA ReadingLine ==
  ASSUME TypeInv, LineInv, NEW l \in Lines, Reading(l), UNCHANGED code
  PROVE  /\ Counts' /\ UNCHANGED <<pass, target>>
         /\ lineno' = lineno + 1 /\ lineno' \in DOMAIN file' /\ file'[lineno'] = l
         /\ lineno' \in DOMAIN pcs'
         /\ ~stale => LinesEnd' /\ pcs'[lineno'] = pc
<1>0. /\ file \in Seq(Lines) /\ lineno \in Nat /\ lineno <= Len(file) /\ Len(file) \in Nat
      /\ DOMAIN file = 1..Len(file) /\ pass \in 1..2 /\ phase = "line"
  <2>1. PlaceType /\ phase = "line" /\ status = "run"
    BY TypeParts DEF Reading, Running
  <2> QED
    BY <2>1 DEF PlaceType
<1>1. pcs \in Seq(0..MAXCODE) /\ Len(pcs) \in Nat /\ DOMAIN pcs = 1..Len(pcs) /\ pc \in 0..MAXCODE
  <2>1. HistoryType /\ BytesTyped
    BY TypeParts
  <2>2. pcs \in Seq(0..MAXCODE)
    BY <2>1, Zenon DEF HistoryType
  <2> QED
    BY <2>1, <2>2, BoundsAssumption DEF BytesTyped, pc
<1>2. lineno' = lineno + 1 /\ UNCHANGED <<pass, target>> /\ pc' = pc
  BY DEF Reading, pc
<1>3. Counts
  BY DEF LineInv
<1>4. CASE pass = 1
  <2>1. file' = Append(file, l) /\ pcs' = Append(pcs, pc)
    BY <1>4 DEF Reading
  <2>2. lineno = Len(file) /\ Len(pcs) = Len(file)
    BY <1>3, <1>4 DEF Counts
  <2>3. /\ Len(file') = Len(file) + 1 /\ DOMAIN file' = 1..Len(file) + 1
        /\ file'[Len(file) + 1] = l /\ \A k \in DOMAIN file : file'[k] = file[k]
    BY <1>0, <2>1
  <2>4. /\ Len(pcs') = Len(file) + 1 /\ DOMAIN pcs' = 1..Len(file) + 1
        /\ pcs'[Len(file) + 1] = pc /\ \A k \in DOMAIN pcs : pcs'[k] = pcs[k]
    BY <1>1, <2>1, <2>2
  <2>5. Counts'
    <3>1. \A k \in DOMAIN pcs' : k = 1 => pcs'[k] = 0
      <4>1. CASE lineno = 0
        BY <1>3, <2>2, <2>4, <4>1 DEF Counts
      <4>2. CASE lineno # 0
        <5>1. 1 \in DOMAIN pcs
          BY <1>0, <1>1, <2>2, <4>2
        <5> QED
          BY <1>3, <2>4, <5>1 DEF Counts
      <4> QED
        BY <4>1, <4>2
    <3>2. lineno' = Len(file') /\ Len(pcs') = Len(file') /\ lineno' # 0
      BY <1>0, <1>2, <2>2, <2>3, <2>4
    <3> QED
      BY <1>2, <1>4, <3>1, <3>2 DEF Counts
  <2>6. ASSUME ~stale
        PROVE  LinesEnd'
    <3> SUFFICES ASSUME NEW k \in DOMAIN file', k + 1 \in DOMAIN pcs'
                 PROVE  Ends(target', file'[k], pcs'[k], pcs'[k + 1])
      BY DEF LinesEnd
    <3>1. k \in DOMAIN file /\ file'[k] = file[k] /\ k \in DOMAIN pcs /\ pcs'[k] = pcs[k] /\ k \in Nat
      BY <1>0, <1>1, <2>2, <2>3, <2>4
    <3>2. LinesEnd /\ Here
      BY <2>6 DEF LineInv
    <3>3. CASE k = Len(file)
      <4>1. Ends(target, file[lineno], pcs[lineno], pc)
        BY <1>0, <2>2, <3>1, <3>2, <3>3 DEF Here
      <4> QED
        BY <1>2, <2>2, <2>4, <3>1, <3>3, <4>1
    <3>4. CASE k # Len(file)
      <4>1. k + 1 \in DOMAIN pcs
        BY <1>0, <1>1, <2>2, <3>1, <3>4
      <4>2. Ends(target, file[k], pcs[k], pcs[k + 1])
        BY <3>1, <3>2, <4>1 DEF LinesEnd
      <4> QED
        BY <1>2, <2>4, <3>1, <4>1, <4>2
    <3> QED
      BY <3>3, <3>4
  <2>7. lineno' = Len(file) + 1 /\ lineno' \in DOMAIN file'
    BY <1>0, <1>2, <2>2, <2>3
  <2> QED
    BY <1>2, <2>3, <2>4, <2>5, <2>6, <2>7
<1>5. CASE pass = 2
  <2>1. lineno < Len(file) /\ l = file[lineno + 1] /\ UNCHANGED <<file, pcs>>
    BY <1>5 DEF Reading
  <2>2. Len(pcs) = Len(file) + 1 /\ \A k \in DOMAIN pcs : k = 1 => pcs[k] = 0
    BY <1>3, <1>5 DEF Counts
  <2>3. lineno' \in DOMAIN file /\ lineno' # 0 /\ lineno' \in DOMAIN pcs
    BY <1>0, <1>1, <1>2, <2>1, <2>2
  <2>4. Counts'
    BY <1>2, <1>5, <2>1, <2>2, <2>3 DEF Counts
  <2>5. ASSUME ~stale
        PROVE  LinesEnd' /\ pcs'[lineno'] = pc
    <3>1. LinesEnd /\ Here
      BY <2>5 DEF LineInv
    <3>2. LinesEnd'
      BY <1>2, <2>1, <3>1 DEF LinesEnd
    <3>3. CASE lineno = 0
      BY <1>1, <1>2, <1>3, <2>1, <2>2, <2>3, <3>2, <3>3 DEF Counts
    <3>4. CASE lineno # 0
      <4>1. lineno \in DOMAIN file /\ lineno + 1 \in DOMAIN pcs
        BY <1>0, <1>1, <2>1, <2>2, <3>4
      <4>2. Ends(target, file[lineno], pcs[lineno], pcs[lineno + 1])
        BY <3>1, <4>1 DEF LinesEnd
      <4>3. Ends(target, file[lineno], pcs[lineno], pc)
        BY <1>0, <3>1, <3>4 DEF Here
      <4>4. pcs[lineno + 1] = pc
        BY <4>2, <4>3, EndsOnce
      <4> QED
        BY <1>2, <2>1, <3>2, <4>4
    <3> QED
      BY <3>3, <3>4
  <2> QED
    BY <1>2, <2>1, <2>3, <2>4, <2>5
<1> QED
  BY <1>0, <1>4, <1>5

LEMMA LinesRead ==
  ASSUME TypeInv, LineInv, EmptyLine \/ Unlabelled \/ Labelled
  PROVE  LineInv'
<1>0. lineno \in Nat
  BY TypeParts DEF PlaceType
<1>1. CASE EmptyLine
  <2>1. PICK l \in Lines : LET g == GetToken(l, token, tokval)
                           IN Reading(l) /\ g.tok = "end" /\ Reads(g)
    BY <1>1 DEF EmptyLine
  <2>2. UNCHANGED <<phase, code, stale>> /\ phase = "line" /\ pc' = pc
    BY <1>1, <2>1 DEF EmptyLine, Reading, Running, pc
  <2>3. /\ Counts' /\ UNCHANGED target /\ file'[lineno'] = l
        /\ ~stale => LinesEnd' /\ pcs'[lineno'] = pc
    BY <2>1, <2>2, ReadingLine
  <2>4. Stmt(l).tok = "end"
    <3> PICK g : g = GetToken(l, token, tokval)
      OBVIOUS
    <3>1. g.tok = "end"
      BY <2>1
    <3>2. g.tok = First(l).tok /\ (g.tok # ":" => Stmt(l) = First(l))
      BY FirstRead
    <3> QED
      BY <3>1, <3>2
  <2>5. ASSUME ~stale'
        PROVE  LinesEnd' /\ Here'
    <3>1. LinesEnd' /\ pcs'[lineno'] = pc
      BY <2>2, <2>3, <2>5
    <3>2. Ends(target', file'[lineno'], pcs'[lineno'], pc')
      BY <2>2, <2>3, <2>4, <3>1 DEF Ends
    <3> QED
      BY <2>2, <3>1, <3>2 DEF Here
  <2> QED
    BY <2>3, <2>5 DEF LineInv
<1>2. CASE Unlabelled
  <2>1. PICK l \in Lines : LET g == GetToken(l, token, tokval)
                           IN /\ Reading(l) /\ g.tok \notin {"end", ":"} /\ Reads(g)
                              /\ stale' = (stale \/ g.tok = "N")
    BY <1>2 DEF Unlabelled
  <2>2. UNCHANGED code /\ phase' = "statement" /\ pc' = pc
    BY <1>2 DEF Unlabelled, pc
  <2>3. /\ Counts' /\ UNCHANGED target /\ file'[lineno'] = l
        /\ ~stale => LinesEnd' /\ pcs'[lineno'] = pc
    BY <2>1, <2>2, ReadingLine
  <2> PICK g, f : g = GetToken(l, token, tokval) /\ f = First(l)
    OBVIOUS
  <2>4. /\ g.tok = f.tok /\ g.rest = f.rest /\ (g.tok \notin {"N", "end"} => g.token = f.token)
        /\ g.tok # ":" => Stmt(l) = f
    BY FirstRead
  <2>5. ASSUME ~stale'
        PROVE  LinesEnd' /\ Here'
    <3>1. ~stale /\ g.tok \notin {"N", "end", ":"} /\ rest' = g.rest /\ token' = g.token
      BY <2>1, <2>5 DEF Reads
    <3>2. LinesEnd' /\ pcs'[lineno'] = pc
      BY <2>3, <3>1
    <3>3. Stmt(l).tok # "end" /\ token' = Stmt(l).token /\ rest' = Stmt(l).rest
      BY <2>4, <3>1
    <3>4. InStatement(Stmt(file[lineno]))'
      BY <2>2, <2>3, <3>2, <3>3 DEF InStatement
    <3> QED
      BY <2>2, <3>2, <3>4 DEF Here
  <2> QED
    BY <2>3, <2>5 DEF LineInv
<1>3. CASE Labelled
  <2>1. PICK l \in Lines : LET g == GetToken(l, token, tokval)  h == After(g)
                           IN /\ Reading(l) /\ g.tok = ":" /\ Reads(h)
                              /\ phase' = IF h.tok = "end" THEN "line" ELSE "statement"
    BY <1>3 DEF Labelled
  <2>2. UNCHANGED <<code, stale>> /\ pc' = pc
    BY <1>3 DEF Labelled, pc
  <2>3. /\ Counts' /\ UNCHANGED target /\ file'[lineno'] = l
        /\ ~stale => LinesEnd' /\ pcs'[lineno'] = pc
    BY <2>1, <2>2, ReadingLine
  <2> PICK g, h : g = GetToken(l, token, tokval) /\ h = After(g)
    OBVIOUS
  <2>4. h.tok = Stmt(l).tok /\ h.rest = Stmt(l).rest /\ h.token = Stmt(l).token
    <3>1. g.tok = ":"
      BY <2>1
    <3> QED
      BY <3>1, FirstRead
  <2>5. ASSUME ~stale'
        PROVE  LinesEnd' /\ Here'
    <3>1. LinesEnd' /\ pcs'[lineno'] = pc
      BY <2>2, <2>3, <2>5
    <3>2. /\ rest' = Stmt(l).rest /\ token' = Stmt(l).token
          /\ phase' = IF Stmt(l).tok = "end" THEN "line" ELSE "statement"
      BY <2>1, <2>4 DEF Reads
    <3>3. CASE Stmt(l).tok = "end"
      <4>1. Ends(target', file'[lineno'], pcs'[lineno'], pc')
        BY <2>2, <2>3, <3>1, <3>3 DEF Ends
      <4>2. phase' = "line"
        BY <3>2, <3>3
      <4> QED
        BY <3>1, <4>1, <4>2 DEF Here
    <3>4. CASE Stmt(l).tok # "end"
      <4>1. InStatement(Stmt(file[lineno]))'
        BY <2>2, <2>3, <3>1, <3>2, <3>4 DEF InStatement
      <4>2. phase' = "statement"
        BY <3>2, <3>4
      <4> QED
        BY <3>1, <4>1, <4>2 DEF Here
    <3> QED
      BY <3>3, <3>4
  <2> QED
    BY <2>3, <2>5 DEF LineInv
<1> QED
  BY <1>1, <1>2, <1>3

\* the next token is a number, or a comma, when it says so
LEMMA TokenIs ==
  ASSUME NEW ts \in Seq(LineTokens), NEW a, NEW v
  PROVE  LET g == GetToken(ts, a, v)
         IN /\ g.tok = "N" <=> Is(ts, 1, "N")
            /\ g.tok = "," <=> Is(ts, 1, ",")
            /\ g.tok = "N" => g.tokval = ts[1].value
            /\ g.tok \in {"N", ","} => g.rest = Tail(ts)
<1> PICK g : g = GetToken(ts, a, v)
  OBVIOUS
<1>1. CASE ts = <<>>
  <2>1. g.tok = "end"
    BY <1>1 DEF GetToken
  <2>2. 1 \notin DOMAIN ts
    BY <1>1
  <2> QED
    BY <2>1, <2>2 DEF Is
<1>2. CASE ts # <<>>
  <2> PICK t, r : t = Head(ts) /\ r = Tail(ts)
    OBVIOUS
  <2>1. t \in LineTokens /\ 1 \in DOMAIN ts /\ ts[1] = t
    BY <1>2
  <2>2. t.kind \in {"I", ":", ",", "N", "string", "bad"}
    BY <2>1, LinesAssumption
  <2>3. \/ t.kind = "N" /\ g.tok = "N" /\ g.tokval = t.value /\ g.rest = r
        \/ t.kind \in {"bad", "string"} /\ g.tok = "end"
        \/ t.kind \in {"I", ":", ","} /\ g.tok = t.kind /\ g.rest = r
    BY <1>2, <2>2 DEF GetToken
  <2> QED
    BY <2>1, <2>3 DEF Is
<1> QED
  BY <1>1, <1>2

\* pc at the beginning of a line
LEMMA LinePlace ==
  ASSUME TypeInv, LineInv, phase # "line"
  PROVE  /\ lineno \in DOMAIN file /\ lineno \in DOMAIN pcs /\ pcs[lineno] \in Nat /\ lineno > 0
         /\ pass \in 1..2 /\ rest \in Seq(LineTokens)
<1>1. /\ file \in Seq(Lines) /\ lineno \in Nat /\ lineno <= Len(file) /\ Len(file) \in Nat
      /\ pass \in 0..2
  BY TypeParts DEF PlaceType
<1>2. pcs \in Seq(0..MAXCODE) /\ MAXCODE \in Nat
  BY TypeParts, BoundsAssumption, Zenon DEF HistoryType
<1>3. Counts
  BY DEF LineInv
<1>4. lineno # 0 /\ pass # 0 /\ Len(pcs) >= Len(file)
  BY <1>1, <1>2, <1>3 DEF Counts
<1>5. lineno \in DOMAIN file /\ lineno \in DOMAIN pcs
  BY <1>1, <1>2, <1>4
<1>6. pcs[lineno] \in 0..MAXCODE
  BY <1>2, <1>5
<1>7. rest \in Seq(LineTokens)
  BY TypeParts DEF LexerType
<1> QED
  BY <1>1, <1>2, <1>4, <1>5, <1>6, <1>7

LEMMA StatementEnds ==
  ASSUME TypeInv, LineInv, phase = "statement", EndLine, UNCHANGED pcs, stale => stale',
         ~stale' => token \notin DOMAIN Width /\ pc' = Cap(pc + Adds(target, token, rest))
  PROVE  LineInv'
<1>1. UNCHANGED <<target, status, pass, file, lineno, pcs>> /\ phase' = "line"
  BY DEF EndLine, Enter
<1>2. lineno \in DOMAIN file /\ lineno > 0 /\ pass \in 1..2 /\ lineno \in Nat
  <2>1. lineno \in Nat
    BY TypeParts DEF PlaceType
  <2> QED
    BY <2>1, LinePlace
<1>3. Counts'
  BY <1>1, <1>2 DEF LineInv, Counts
<1>4. ASSUME ~stale'
      PROVE  LinesEnd' /\ Here'
  <2>1. LinesEnd /\ Here
    BY <1>4 DEF LineInv
  <2>2. LinesEnd'
    BY <1>1, <2>1 DEF LinesEnd
  <2> PICK s : s = Stmt(file[lineno])
    OBVIOUS
  <2>3. s.tok # "end" /\ token = s.token /\ rest = s.rest /\ pc = pcs[lineno]
    BY <1>2, <2>1 DEF Here, InStatement
  <2>4. Ends(target, file[lineno], pcs[lineno], pc')
    BY <1>4, <2>3 DEF Ends
  <2> QED
    BY <1>1, <2>2, <2>4 DEF Here
<1> QED
  BY <1>3, <1>4 DEF LineInv

LEMMA PcCap ==
  ASSUME TypeInv
  PROVE  pc \in Nat /\ pc <= MAXCODE /\ MAXCODE \in Nat /\ Cap(pc + 0) = pc
<1>1. code \in Seq(Byte) /\ Len(code) <= MAXCODE /\ MAXCODE \in Nat
  BY TypeParts, BoundsAssumption DEF BytesTyped
<1>2. pc \in Nat /\ pc <= MAXCODE
  BY <1>1 DEF pc
<1> QED
  BY <1>1, <1>2 DEF Cap

LEMMA DirectiveLines ==
  ASSUME TypeInv, LineInv, SetSection \/ DeclareSymbol \/ UnknownDirective \/ Ascii \/ Space
  PROVE  LineInv'
<1>0. Cap(pc + 0) = pc /\ rest \in Seq(LineTokens)
  BY PcCap, TypeParts DEF LexerType
<1>1. CASE SetSection \/ DeclareSymbol \/ UnknownDirective
  <2>1. /\ token \in {".text", ".data", ".globl", ".global", ".extern", ".other"}
        /\ phase = "statement" /\ EndLine /\ UNCHANGED <<code, pcs, stale>>
    BY <1>1 DEF SetSection, DeclareSymbol, UnknownDirective, Directive, Running
  <2>2. pc' = pc /\ token \notin DOMAIN Width
    BY <2>1 DEF pc, Width
  <2>3. Adds(target, token, rest) = 0
    BY <2>1 DEF Adds, Directives
  <2> QED
    BY <1>0, <2>1, <2>2, <2>3, StatementEnds
<1>2. CASE Ascii
  <2>1. /\ token \in {".ascii", ".asciz"}
        /\ phase = "statement" /\ EndLine /\ UNCHANGED <<pcs, stale>>
    BY <1>2 DEF Ascii, Directive, Running
  <2>2. token \notin DOMAIN Width
    BY <2>1 DEF Width
  <2>3. pc' = Cap(pc + Adds(target, token, rest))
    <3>1. CASE rest # <<>> /\ Head(rest).kind = "string"
      <4> PICK n : n = Head(rest).value + (IF token = ".asciz" THEN 1 ELSE 0)
        OBVIOUS
      <4>1. Head(rest) \in LineTokens /\ 1 \in DOMAIN rest /\ rest[1] = Head(rest)
        BY <1>0, <3>1
      <4>2. Head(rest).value \in Nat
        BY <3>1, <4>1, LinesAssumption
      <4>3. n \in Int
        BY <4>2
      <4>4. Bytes(n, "datum") \in Seq(Byte) /\ Len(Bytes(n, "datum")) = Count(n)
        BY <4>3, BytesType DEF Byte, Count
      <4>5. Emit(Bytes(n, "datum"))
        BY <1>2, <3>1 DEF Ascii
      <4>6. pc' = Cap(pc + Count(n))
        BY <4>4, <4>5, EmitCode
      <4>7. Adds(target, token, rest) = Count(n)
        BY <2>1, <3>1, <4>1 DEF Adds, Is
      <4> QED
        BY <4>6, <4>7
    <3>2. CASE ~(rest # <<>> /\ Head(rest).kind = "string")
      <4>1. UNCHANGED code
        BY <1>2, <3>2 DEF Ascii
      <4>2. ~Is(rest, 1, "string")
        <5>1. CASE rest = <<>>
          BY <5>1 DEF Is
        <5>2. CASE rest # <<>>
          BY <1>0, <3>2, <5>2 DEF Is
        <5> QED
          BY <5>1, <5>2
      <4>3. Adds(target, token, rest) = 0
        BY <2>1, <4>2 DEF Adds
      <4> QED
        BY <1>0, <4>1, <4>3 DEF pc
    <3> QED
      BY <3>1, <3>2
  <2> QED
    BY <2>1, <2>2, <2>3, StatementEnds
<1>3. CASE Space
  <2>1. /\ token \in {".space", ".zero"} /\ phase = "statement" /\ EndLine /\ UNCHANGED pcs
        /\ Emit(Bytes(Got.tokval, "datum")) /\ stale' = (stale \/ Got.tok # "N")
    BY <1>3 DEF Space, Directive, Running
  <2>2. token \notin DOMAIN Width
    BY <2>1 DEF Width
  <2>3. Got.tokval \in Int
    BY GotTypes
  <2>4. /\ Bytes(Got.tokval, "datum") \in Seq(Byte)
        /\ Len(Bytes(Got.tokval, "datum")) = Count(Got.tokval)
    BY <2>3, BytesType DEF Byte, Count
  <2>5. pc' = Cap(pc + Count(Got.tokval))
    BY <2>1, <2>4, EmitCode
  <2>6. Got.tok = "N" => Got.tokval = rest[1].value
    BY <1>0, TokenIs DEF Got
  <2>7. Adds(target, token, rest) = Count(rest[1].value)
    BY <2>1 DEF Adds
  <2>8. ~stale' => pc' = Cap(pc + Adds(target, token, rest))
    BY <2>1, <2>5, <2>6, <2>7
  <2>9. stale => stale'
    BY <2>1
  <2> QED
    BY <2>1, <2>2, <2>8, <2>9, StatementEnds
<1> QED
  BY <1>1, <1>2, <1>3

LEMMA InstructionLines ==
  ASSUME TypeInv, LineInv, Call \/ Return \/ PushPop \/ Unsupported
  PROVE  LineInv'
<1>0. Cap(pc + 0) = pc /\ rest \in Seq(LineTokens) /\ target \in {"x64", "arm64"}
  BY PcCap, TypeParts DEF LexerType, PlaceType
<1>1. ASSUME token \notin Directives
      PROVE  token \notin DOMAIN Width /\ token \notin {".ascii", ".asciz", ".space", ".zero"}
  BY <1>1 DEF Directives, Width
<1>2. CASE Call
  <2> PICK b : b = CallOpcode \o Placeholder
    OBVIOUS
  <2>1. /\ phase = "statement" /\ token \notin Directives
        /\ token \in Opcode({"call"}, {"bl"})[target]
        /\ EndLine /\ UNCHANGED <<pcs, stale>> /\ Emit(b)
    BY <1>2 DEF Call, Instruction, Running
  <2>2. b \in Seq(Byte) /\ Len(b) = (IF target = "x64" THEN 5 ELSE 4)
    BY BytesEmitted
  <2>3. pc' = Cap(pc + Len(b))
    BY <2>1, <2>2, EmitCode
  <2>4. Adds(target, token, rest) = (IF target = "x64" THEN 5 ELSE 4)
    BY <1>1, <2>1 DEF Adds
  <2>5. pc' = Cap(pc + Adds(target, token, rest))
    BY <2>2, <2>3, <2>4
  <2> QED
    BY <1>1, <2>1, <2>5, StatementEnds
<1>3. CASE Return
  <2>1. /\ phase = "statement" /\ token \notin Directives
        /\ token \in Opcode({"ret"}, {"ret"})[target]
        /\ EndLine /\ UNCHANGED <<pcs, stale>> /\ Emit(ReturnBytes)
    BY <1>3 DEF Return, Instruction, Running
  <2>2. ReturnBytes \in Seq(Byte) /\ Len(ReturnBytes) = (IF target = "x64" THEN 1 ELSE 4)
    BY BytesEmitted
  <2>3. pc' = Cap(pc + Len(ReturnBytes))
    BY <2>1, <2>2, EmitCode
  <2>4. token = "ret"
    BY <1>0, <2>1 DEF Opcode
  <2>5. token \notin Opcode({"call"}, {"bl"})[target]
    BY <1>0, <2>4 DEF Opcode
  <2>6. Adds(target, token, rest) = (IF target = "x64" THEN 1 ELSE 4)
    BY <1>1, <2>1, <2>5 DEF Adds
  <2>7. pc' = Cap(pc + Adds(target, token, rest))
    BY <2>2, <2>3, <2>6
  <2> QED
    BY <1>1, <2>1, <2>7, StatementEnds
<1>4. CASE PushPop
  <2> PICK g, h : g = Got /\ h = GetToken(rest, token, 0)
    OBVIOUS
  <2>1. /\ phase = "statement" /\ token \notin Directives
        /\ token \in Opcode({"pushq", "popq"}, {})[target]
        /\ EndLine /\ UNCHANGED <<pcs, stale>>
        /\ Emit(IF Operands.op1 \in {"%rax", "%rbp"} THEN <<"op">> ELSE <<>>)
    BY <1>4 DEF PushPop, Instruction, Running
  <2>2. g.tok = h.tok /\ g.token = h.token
    BY TokenSame DEF Got
  <2>3. Operands.op1 \in {"%rax", "%rbp"} <=> h.tok # "end" /\ h.token \in {"%rax", "%rbp"}
    <3>1. g.tok # "end" => Operands.op1 = g.token
      BY DEF Operands
    <3>2. g.tok = "end" => Operands.op1 \notin {"%rax", "%rbp"}
      BY Zenon DEF Operands
    <3> QED
      BY <2>2, <3>1, <3>2
  <2>4. token \in {"pushq", "popq"}
    BY <1>0, <2>1 DEF Opcode
  <2>5. token \notin Opcode({"call"}, {"bl"})[target] /\ token \notin Opcode({"ret"}, {"ret"})[target]
    BY <1>0, <2>4 DEF Opcode
  <2>6. Adds(target, token, rest) = IF h.tok # "end" /\ h.token \in {"%rax", "%rbp"} THEN 1 ELSE 0
    BY <1>1, <2>1, <2>5 DEF Adds
  <2>7. pc' = Cap(pc + Adds(target, token, rest))
    <3>1. CASE Operands.op1 \in {"%rax", "%rbp"}
      <4>1. Emit(<<"op">>)
        BY <2>1, <3>1
      <4>2. pc' = Cap(pc + Len(<<"op">>)) /\ Len(<<"op">>) = 1
        BY <4>1, BytesEmitted, EmitCode
      <4>3. Adds(target, token, rest) = 1
        BY <2>3, <2>6, <3>1
      <4> QED
        BY <4>2, <4>3
    <3>2. CASE Operands.op1 \notin {"%rax", "%rbp"}
      <4> PICK e : e = <<>>
        OBVIOUS
      <4>1. Emit(e)
        BY <2>1, <3>2
      <4>2. e \in Seq(Byte) /\ Len(e) = 0
        OBVIOUS
      <4>3. pc' = Cap(pc + 0)
        BY <4>1, <4>2, EmitCode
      <4>4. Adds(target, token, rest) = 0
        BY <2>3, <2>6, <3>2
      <4> QED
        BY <4>3, <4>4
    <3> QED
      BY <3>1, <3>2
  <2> QED
    BY <1>1, <2>1, <2>7, StatementEnds
<1>5. CASE Unsupported
  <2>1. /\ phase = "statement" /\ token \notin Directives
        /\ token \notin Opcode({"call", "ret", "pushq", "popq"}, {"bl", "ret"})[target]
        /\ EndLine /\ UNCHANGED <<code, pcs, stale>>
    BY <1>5 DEF Unsupported, Running
  <2>2. /\ token \notin Opcode({"call"}, {"bl"})[target] /\ token \notin Opcode({"ret"}, {"ret"})[target]
        /\ token \notin Opcode({"pushq", "popq"}, {})[target]
    BY <1>0, <2>1 DEF Opcode
  <2>3. Adds(target, token, rest) = 0
    BY <1>1, <2>1, <2>2 DEF Adds
  <2>4. pc' = pc
    BY <2>1 DEF pc
  <2> QED
    BY <1>0, <1>1, <2>1, <2>3, <2>4, StatementEnds
<1> QED
  BY <1>2, <1>3, <1>4, <1>5

LEMMA TimesWidth ==
  ASSUME NEW m \in Nat, NEW d \in DOMAIN Width
  PROVE  /\ Width[d] \in Nat /\ m * Width[d] \in Nat /\ 0 * Width[d] = 0
         /\ (m + 1) * Width[d] = m * Width[d] + Width[d]
<1> PICK w : w = Width[d]
  OBVIOUS
<1>1. w \in {1, 2, 4, 8}
  BY DEF Width
<1>2. CASE w = 1
  BY <1>2
<1>3. CASE w = 2
  BY <1>3
<1>4. CASE w = 4
  BY <1>4
<1>5. CASE w = 8
  BY <1>5
<1> QED
  BY <1>1, <1>2, <1>3, <1>4, <1>5

LEMMA BehindIs ==
  ASSUME NEW r, NEW ts, NEW m \in Nat, NEW d \in Nat, NEW n \in Nat, d = 2 * m, n = m + 1,
         Behind(r, ts, d)
  PROVE  (Is(r, 1, "N") <=> NumberAt(ts, n)) /\ (Is(r, 2, ",") <=> CommaAt(ts, n))
<1> PICK p, q \in Nat : p = 1 + d /\ q = 2 + d
  OBVIOUS
<1>1. p = 2 * n - 1 /\ q = 2 * n
  OBVIOUS
<1>2. 1 \in DOMAIN r <=> p \in DOMAIN ts
  BY DEF Behind
<1>3. 2 \in DOMAIN r <=> q \in DOMAIN ts
  BY DEF Behind
<1>4. 1 \in DOMAIN r => r[1] = ts[p]
  BY DEF Behind
<1>5. 2 \in DOMAIN r => r[2] = ts[q]
  BY DEF Behind
<1>6. NumberAt(ts, n) <=> p \in DOMAIN ts /\ ts[p].kind = "N"
  BY <1>1 DEF NumberAt
<1>7. CommaAt(ts, n) <=> q \in DOMAIN ts /\ ts[q].kind = ","
  BY <1>1 DEF CommaAt
<1> QED
  BY <1>2, <1>3, <1>4, <1>5, <1>6, <1>7 DEF Is

LEMMA BehindTail ==
  ASSUME NEW S, NEW r \in Seq(S), r # <<>>, NEW ts, NEW d \in Nat, NEW e \in Nat, e = d + 1,
         Behind(r, ts, d)
  PROVE  Tail(r) \in Seq(S) /\ Behind(Tail(r), ts, e)
<1> PICK u : u = Tail(r)
  OBVIOUS
<1>1. u \in Seq(S) /\ Len(u) = Len(r) - 1 /\ Len(r) \in Nat
  OBVIOUS
<1>2. \A i \in 1..Len(r) - 1 : u[i] = r[i + 1]
  BY <1>1
<1>3. ASSUME NEW i \in Nat \ {0}
      PROVE  /\ i \in DOMAIN u <=> i + e \in DOMAIN ts
             /\ i \in DOMAIN u => u[i] = ts[i + e]
  <2> PICK j \in Nat : j = i + 1
    OBVIOUS
  <2>1. j # 0 /\ j + d = i + e
    BY <1>3
  <2>2. (j \in DOMAIN r <=> j + d \in DOMAIN ts) /\ (j \in DOMAIN r => r[j] = ts[j + d])
    BY <2>1 DEF Behind
  <2>3. i \in DOMAIN u <=> j \in DOMAIN r
    BY <1>1, <1>3
  <2>4. i \in DOMAIN u => u[i] = r[j]
    BY <1>1, <1>2, <1>3
  <2> QED
    BY <2>1, <2>2, <2>3, <2>4
<1> QED
  BY <1>1, <1>3 DEF Behind

\* a list of values is read number by number, and a comma with each but the last
LEMMA ValueLines ==
  ASSUME TypeInv, LineInv, BeginValues \/ Value \/ EndValues
  PROVE  LineInv'
<1> PICK s : s = Stmt(file[lineno])
  OBVIOUS
<1>1. /\ UNCHANGED <<target, status, pass, file, lineno, pcs, stale>>
      /\ phase # "line" /\ phase' \in {"line", "values"}
  BY DEF BeginValues, Value, EndValues, Directive, Running, EndLine, Enter, place
<1>2. /\ lineno \in DOMAIN file /\ lineno > 0 /\ pass \in 1..2 /\ lineno \in Nat /\ pcs[lineno] \in Nat
      /\ rest \in Seq(LineTokens)
  <2>1. lineno \in Nat
    BY TypeParts DEF PlaceType
  <2> QED
    BY <1>1, <2>1, LinePlace
<1>3. Counts'
  BY <1>1, <1>2 DEF LineInv, Counts
<1>4. pc \in Nat /\ MAXCODE \in Nat /\ Cap(pc + 0) = pc
  BY PcCap
<1>5. ASSUME ~stale'
      PROVE  LinesEnd' /\ Here'
  <2>1. LinesEnd /\ Here
    BY <1>1, <1>5 DEF LineInv
  <2>2. LinesEnd'
    BY <1>1, <2>1 DEF LinesEnd
  <2>3. CASE BeginValues
    <3>1. /\ phase = "statement" /\ phase' = "values" /\ token \in DOMAIN Width
          /\ width' = Width[token] /\ UNCHANGED <<rest, code>>
      BY <2>3 DEF BeginValues, Directive, Running, Enter, lexer
    <3>2. s.tok # "end" /\ token = s.token /\ rest = s.rest /\ pc = pcs[lineno]
      BY <1>2, <2>1, <3>1 DEF Here, InStatement
    <3> PICK m, d \in Nat : m = 0 /\ d = 0
      OBVIOUS
    <3>3. pc' = Cap(pcs[lineno] + m * width')
      <4>1. m * width' = 0
        BY <3>1, TimesWidth
      <4>2. pc' = pc
        BY <3>1 DEF pc
      <4> QED
        BY <1>4, <3>2, <4>1, <4>2
    <3>4. (\A k \in 1..m : NumberAt(s.rest, k) /\ CommaAt(s.rest, k)) /\ d = 2 * m
      OBVIOUS
    <3>5. Behind(rest', s.rest, d)
      BY <3>1, <3>2 DEF Behind
    <3>6. InValues(s)'
      BY <1>1, <3>1, <3>2, <3>3, <3>4, <3>5 DEF InValues
    <3> QED
      BY <1>1, <2>2, <3>1, <3>6 DEF Here
  <2>4. CASE Value \/ EndValues
    <3>1. phase = "values" /\ UNCHANGED width
      BY <2>4 DEF Value, EndValues, Running
    <3>2. s.tok # "end" /\ s.token \in DOMAIN Width /\ width = Width[s.token]
      BY <1>2, <2>1, <3>1 DEF Here, InValues
    <3>3. PICK m, d \in Nat : /\ \A k \in 1..m : NumberAt(s.rest, k) /\ CommaAt(s.rest, k)
                             /\ d = 2 * m /\ Behind(rest, s.rest, d)
                             /\ pc = Cap(pcs[lineno] + m * width)
      BY <1>2, <2>1, <3>1 DEF Here, InValues
    <3> PICK n, e \in Nat : n = m + 1 /\ e = d + 1
      OBVIOUS
    <3>4. (Is(rest, 1, "N") <=> NumberAt(s.rest, n)) /\ (Is(rest, 2, ",") <=> CommaAt(s.rest, n))
      BY <3>3, BehindIs
    <3>5. CASE EndValues
      <4>1. phase' = "line" /\ Got.tok # "N" /\ UNCHANGED code
        BY <3>5 DEF EndValues, EndLine, Enter
      <4>2. ~NumberAt(s.rest, m + 1)
        <5>1. ~Is(rest, 1, "N")
          BY <1>2, <4>1, TokenIs DEF Got
        <5> QED
          BY <3>4, <5>1
      <4>3. Listed(s.rest, m)
        BY <3>3, <4>2 DEF Listed
      <4>4. pc' = Cap(pcs[lineno] + m * Width[s.token])
        BY <3>2, <3>3, <4>1 DEF pc
      <4>5. Ends(target, file[lineno], pcs[lineno], pc')
        BY <3>2, <4>3, <4>4 DEF Ends
      <4> QED
        BY <1>1, <2>2, <4>1, <4>5 DEF Here
    <3>6. CASE Value
      <4> PICK g, h : g = Got /\ h = After(g)
        OBVIOUS
      <4>1. /\ g.tok = "N" /\ Emit(Bytes(width, "datum")) /\ rest' = h.rest
            /\ IF h.tok = "," THEN UNCHANGED place ELSE EndLine
        BY <3>6 DEF Value, Reads
      <4>2. Is(rest, 1, "N") /\ g.rest = Tail(rest)
        BY <1>2, <4>1, TokenIs DEF Got
      <4>3. NumberAt(s.rest, n)
        BY <3>4, <4>2
      <4> PICK r : r = Tail(rest)
        OBVIOUS
      <4>4. r \in Seq(LineTokens) /\ Behind(r, s.rest, e) /\ Behind(r, rest, 1)
        <5>1. rest # <<>>
          BY <4>2 DEF Is
        <5>2. Behind(rest, rest, 0)
          BY DEF Behind
        <5> QED
          BY <1>2, <3>3, <5>1, <5>2, BehindTail
      <4>5. (h.tok = "," <=> Is(r, 1, ",")) /\ (h.tok = "," => h.rest = Tail(r))
        <5> PICK a, v : a = g.token /\ v = g.tokval
          OBVIOUS
        <5>1. h = GetToken(r, a, v) /\ r \in Seq(LineTokens)
          BY <4>2, <4>4 DEF After
        <5>2. r \in Seq(LineTokens)
          BY <5>1
        <5>3. LET k == GetToken(r, a, v)
              IN (k.tok = "," <=> Is(r, 1, ",")) /\ (k.tok = "," => k.rest = Tail(r))
          BY ONLY <5>2, TokenIs
        <5> QED
          BY <5>1, <5>3
      <4>6. Is(r, 1, ",") <=> CommaAt(s.rest, n)
        <5>1. 1 \in DOMAIN r <=> 2 \in DOMAIN rest
          BY <4>4 DEF Behind
        <5>2. 1 \in DOMAIN r => r[1] = rest[2]
          BY <4>4 DEF Behind
        <5> QED
          BY <3>4, <5>1, <5>2 DEF Is
      <4>7. pc' = Cap(pcs[lineno] + n * width)
        <5> PICK x \in Nat : x = m * width
          BY <3>2, TimesWidth
        <5>1. n * width = x + width /\ width \in Nat
          BY <3>2, TimesWidth
        <5>2. Bytes(width, "datum") \in Seq(Byte) /\ Len(Bytes(width, "datum")) = width
          <6>1. Len(Bytes(width, "datum")) = IF width > 0 THEN width ELSE 0
            BY <5>1, BytesType DEF Byte
          <6>2. Bytes(width, "datum") \in Seq(Byte)
            BY <5>1, BytesType DEF Byte
          <6> QED
            BY <5>1, <6>1, <6>2
        <5>3. pc' = Cap(pc + width)
          BY <4>1, <5>2, EmitCode
        <5>4. pc' = Cap(Cap(pcs[lineno] + x) + width)
          BY <3>3, <5>3
        <5> PICK a \in Nat : a = pcs[lineno] + x
          BY <1>2
        <5>5. Cap(Cap(a) + width) = Cap(a + width)
          BY <5>1, CapAdds
        <5>6. a + width = pcs[lineno] + n * width
          BY <1>2, <5>1
        <5> QED
          BY <5>4, <5>5, <5>6
      <4>8. CASE h.tok = ","
        <5>1. UNCHANGED phase
          BY <4>1, <4>8 DEF place
        <5>2. \A k \in 1..n : NumberAt(s.rest, k) /\ CommaAt(s.rest, k)
          <6> TAKE k \in 1..n
          <6>1. CASE k = n
            BY <4>3, <4>5, <4>6, <4>8, <6>1
          <6>2. CASE k # n
            <7>1. k \in 1..m
              BY <6>2
            <7> QED
              BY <3>3, <7>1
          <6> QED
            BY <6>1, <6>2
        <5>3. rest' = Tail(r)
          BY <4>1, <4>5, <4>8
        <5>4. r # <<>>
          <6>1. Is(r, 1, ",")
            BY <4>5, <4>8
          <6>2. 1 \in DOMAIN r
            BY <6>1 DEF Is
          <6> QED
            BY <6>2
        <5> PICK f \in Nat : f = e + 1
          OBVIOUS
        <5>5. Behind(rest', s.rest, f)
          BY <4>4, <5>3, <5>4, BehindTail
        <5>6. f = 2 * n
          BY <3>3
        <5>7. pc' = Cap(pcs[lineno] + n * width')
          BY <3>1, <4>7
        <5>8. InValues(s)'
          BY <1>1, <3>1, <3>2, <5>2, <5>5, <5>6, <5>7 DEF InValues
        <5> QED
          BY <1>1, <2>2, <3>1, <5>1, <5>8 DEF Here
      <4>9. CASE h.tok # ","
        <5>1. phase' = "line"
          BY <4>1, <4>9 DEF EndLine, Enter
        <5>2. \A k \in 1..n : NumberAt(s.rest, k) /\ (k < n => CommaAt(s.rest, k))
          <6> TAKE k \in 1..n
          <6>1. CASE k = n
            BY <4>3, <6>1
          <6>2. CASE k # n
            <7>1. k \in 1..m
              BY <6>2
            <7> QED
              BY <3>3, <7>1
          <6> QED
            BY <6>1, <6>2
        <5>3. n >= 1 /\ ~CommaAt(s.rest, n)
          <6>1. ~CommaAt(s.rest, n)
            BY <4>5, <4>6, <4>9
          <6> QED
            BY <6>1
        <5>4. Listed(s.rest, n)
          BY <5>2, <5>3 DEF Listed
        <5>5. pc' = Cap(pcs[lineno] + n * Width[s.token])
          BY <3>2, <4>7
        <5>6. Ends(target, file[lineno], pcs[lineno], pc')
          BY <3>2, <5>4, <5>5 DEF Ends
        <5> QED
          BY <1>1, <2>2, <5>1, <5>6 DEF Here
      <4> QED
        BY <4>8, <4>9
    <3> QED
      BY <2>4, <3>5, <3>6
  <2> QED
    BY <2>3, <2>4
<1> QED
  BY <1>3, <1>5 DEF LineInv

LEMMA FileLines ==
  ASSUME TypeInv, LineInv, OpenFile \/ EndFile
  PROVE  LineInv'
<1>0. /\ file \in Seq(Lines) /\ lineno \in Nat /\ lineno <= Len(file) /\ Len(file) \in Nat
      /\ DOMAIN file = 1..Len(file) /\ pass \in 0..2
  BY TypeParts DEF PlaceType
<1>1. pcs \in Seq(0..MAXCODE) /\ Len(pcs) \in Nat /\ DOMAIN pcs = 1..Len(pcs)
  <2>1. pcs \in Seq(0..MAXCODE)
    BY TypeParts, Zenon DEF HistoryType
  <2> QED
    BY <2>1
<1>2. Counts
  BY DEF LineInv
<1>3. CASE OpenFile
  <2>1. /\ status = "start" /\ (pass' = 1 \/ UNCHANGED pass)
        /\ UNCHANGED <<target, phase, file, lineno, code, pcs, stale>>
    BY <1>3 DEF OpenFile
  <2>2. pass = 0
    BY <2>1, TypeParts DEF PlaceType
  <2>3. lineno = 0 /\ pc = 0 /\ Len(file) = 0 /\ Len(pcs) = 0 /\ pc' = pc
    BY <1>2, <2>1, <2>2 DEF Counts, pc
  <2>4. Counts'
    BY <1>2, <2>1, <2>2, <2>3 DEF Counts
  <2>5. LinesEnd' /\ Here'
    BY <1>0, <2>1, <2>3 DEF LinesEnd, Here
  <2> QED
    BY <2>4, <2>5 DEF LineInv
<1>4. CASE EndFile
  <2>1. phase = "line" /\ UNCHANGED <<target, phase, file, stale>>
    BY <1>4 DEF EndFile, Running
  <2>2. CASE pass = 1
    <3>1. pass' = 2 /\ lineno' = 0 /\ code' = <<>> /\ pcs' = Append(pcs, pc)
      BY <1>4, <2>2 DEF EndFile
    <3>2. lineno = Len(file) /\ Len(pcs) = Len(file)
      BY <1>2, <2>2 DEF Counts
    <3>3. /\ Len(pcs') = Len(file) + 1 /\ DOMAIN pcs' = 1..Len(file) + 1
          /\ pcs'[Len(file) + 1] = pc /\ \A k \in DOMAIN pcs : pcs'[k] = pcs[k]
      <4>1. pc \in 0..MAXCODE
        BY PcCap
      <4> QED
        BY <1>1, <3>1, <3>2, <4>1
    <3>4. Counts'
      <4>1. \A k \in DOMAIN pcs' : k = 1 => pcs'[k] = 0
        <5>1. CASE lineno = 0
          BY <1>2, <3>2, <3>3, <5>1 DEF Counts
        <5>2. CASE lineno # 0
          <6>1. 1 \in DOMAIN pcs
            BY <1>0, <1>1, <3>2, <5>2
          <6> QED
            BY <1>2, <3>3, <6>1 DEF Counts
        <5> QED
          BY <5>1, <5>2
      <4>2. pc' = 0
        BY <3>1 DEF pc
      <4> QED
        BY <2>1, <3>1, <3>3, <4>1, <4>2 DEF Counts
    <3>5. ASSUME ~stale'
          PROVE  LinesEnd' /\ Here'
      <4>1. LinesEnd /\ Here
        BY <2>1, <3>5 DEF LineInv
      <4>2. ASSUME NEW k \in DOMAIN file
            PROVE  Ends(target, file[k], pcs'[k], pcs'[k + 1])
        <5>1. k \in DOMAIN pcs /\ pcs'[k] = pcs[k] /\ k \in Nat /\ k > 0
          BY <1>0, <1>1, <3>2, <3>3
        <5>2. CASE k = Len(file)
          <6>1. Ends(target, file[lineno], pcs[lineno], pc)
            BY <1>0, <2>1, <3>2, <4>1, <5>1, <5>2 DEF Here
          <6> QED
            BY <3>2, <3>3, <5>1, <5>2, <6>1
        <5>3. CASE k # Len(file)
          <6>1. k + 1 \in DOMAIN pcs
            BY <1>0, <1>1, <3>2, <5>1, <5>3
          <6>2. Ends(target, file[k], pcs[k], pcs[k + 1])
            BY <4>1, <6>1 DEF LinesEnd
          <6> QED
            BY <3>3, <5>1, <6>1, <6>2
        <5> QED
          BY <5>2, <5>3
      <4>3. LinesEnd'
        BY <2>1, <4>2 DEF LinesEnd
      <4>4. Here'
        BY <3>1 DEF Here
      <4> QED
        BY <4>3, <4>4
    <3> QED
      BY <3>4, <3>5 DEF LineInv
  <2>3. CASE pass # 1
    <3>1. UNCHANGED <<pass, lineno, code, pcs>>
      BY <1>4, <2>3 DEF EndFile
    <3>2. Counts'
      BY <1>2, <2>1, <3>1 DEF Counts, pc
    <3>3. ~stale' => LinesEnd' /\ Here'
      <4>1. ~stale' => LinesEnd /\ Here
        BY <2>1 DEF LineInv
      <4>2. LinesEnd => LinesEnd'
        BY <2>1, <3>1 DEF LinesEnd
      <4>3. Here => Here'
        BY <2>1, <3>1 DEF Here, pc
      <4> QED
        BY <4>1, <4>2, <4>3
    <3> QED
      BY <3>2, <3>3 DEF LineInv
  <2> QED
    BY <2>2, <2>3
<1> QED
  BY <1>3, <1>4

LEMMA LineNext ==
  ASSUME TypeInv, LineInv, [Next]_vars
  PROVE  LineInv'
<1>1. CASE Stopped \/ UNCHANGED vars
  <2>1. /\ UNCHANGED <<target, pass, phase, file, lineno, rest, token, width, code, pcs, stale>>
        /\ pc' = pc
    BY <1>1 DEF Stopped, vars, place, lexer, pc
  <2>2. Counts => Counts'
    BY <2>1 DEF Counts
  <2>3. LinesEnd => LinesEnd'
    BY <2>1 DEF LinesEnd
  <2>4. Here => Here'
    BY <2>1 DEF Here, InStatement, InValues
  <2> QED
    BY <2>1, <2>2, <2>3, <2>4 DEF LineInv
<1> QED
  BY <1>1, LinesRead, DirectiveLines, InstructionLines, ValueLines, FileLines
  DEF Next, Passes, Statements

LEMMA LineInit == Init => LineInv
<1> SUFFICES ASSUME Init PROVE LineInv
  OBVIOUS
<1>1. /\ pass = 0 /\ lineno = 0 /\ phase = "line" /\ code = <<>> /\ pcs = <<>> /\ file = <<>>
  BY Zenon DEF Init
<1>2. pc = 0 /\ Len(file) = 0 /\ Len(pcs) = 0 /\ DOMAIN pcs = {} /\ DOMAIN file = {}
  BY <1>1 DEF pc
<1>3. Counts
  BY <1>1, <1>2 DEF Counts
<1>4. LinesEnd /\ Here
  BY <1>1, <1>2 DEF LinesEnd, Here
<1> QED
  BY <1>3, <1>4 DEF LineInv

\* what the first half of PassesAgree says: pass 2 begins each line where pass 1 did
LEMMA PassesMeet ==
  ASSUME TypeInv, LineInv, pass = 2, phase = "line", ~stale
  PROVE  pc = pcs[lineno + 1]
<1>0. /\ file \in Seq(Lines) /\ lineno \in Nat /\ lineno <= Len(file) /\ Len(file) \in Nat
      /\ DOMAIN file = 1..Len(file)
  BY TypeParts DEF PlaceType
<1>1. DOMAIN pcs = 1..Len(file) + 1
  <2>1. pcs \in Seq(0..MAXCODE)
    BY TypeParts, Zenon DEF HistoryType
  <2>2. Len(pcs) = Len(file) + 1
    BY DEF LineInv, Counts
  <2> QED
    BY <1>0, <2>1, <2>2
<1>2. LinesEnd /\ Here /\ Counts
  BY DEF LineInv
<1>3. CASE lineno = 0
  <2>1. 1 \in DOMAIN pcs
    BY <1>0, <1>1
  <2>2. pcs[1] = 0 /\ pc = 0
    BY <1>2, <1>3, <2>1 DEF Counts
  <2> QED
    BY <1>3, <2>2
<1>4. CASE lineno # 0
  <2>1. lineno \in DOMAIN file /\ lineno + 1 \in DOMAIN pcs /\ lineno > 0
    BY <1>0, <1>1, <1>4
  <2>2. Ends(target, file[lineno], pcs[lineno], pcs[lineno + 1])
    BY <1>2, <2>1 DEF LinesEnd
  <2>3. Ends(target, file[lineno], pcs[lineno], pc)
    BY <1>2, <2>1 DEF Here
  <2> QED
    BY <2>2, <2>3, EndsOnce
<1> QED
  BY <1>3, <1>4

-----------------------------------------------------------------------------
(* Names *)

\* the names that a line mentions: its label, what it declares, and what it calls
LabelOf(l, n) == First(l).tok = ":" /\ First(l).token = n
Operand(w, ts) == IF GetToken(ts, w, 0).tok = "end" THEN "" ELSE GetToken(ts, w, 0).token
DeclOf(l, n) ==
  LET s == Stmt(l)
  IN s.tok # "end" /\ s.token \in {".globl", ".global", ".extern"} /\ GetToken(s.rest, s.token, 0).token = n
CallOf(t, l, n) ==
  LET s == Stmt(l)
  IN s.tok # "end" /\ s.token \notin Directives /\ s.token \in Opcode({"call"}, {"bl"})[t] /\ Operand(s.token, s.rest) = n

PassOne(n) == \E k \in DOMAIN mentions : mentions[k].pass = 1 /\ mentions[k].name = n
InTable(n) == \E i \in DOMAIN syms : syms[i].name = n

\* Two entries have two names.  A name that pass 1 mentions is entered, if there is room;
\* and it mentions every name that its lines have.
Unique == \A i, j \in DOMAIN syms : syms[i].name = syms[j].name => i = j
Once ==
  /\ pass \in 0..1 => changed = {} /\ \A k \in DOMAIN mentions : mentions[k].pass = 1
  /\ \A n : PassOne(n) => InTable(n) \/ Len(syms) >= MAXSYMS
  /\ pass \in 0..1 \/ ~stale => \A i \in DOMAIN syms : PassOne(syms[i].name)
Mentioned ==
  \A k \in DOMAIN file : \A n :
    /\ LabelOf(file[k], n) => PassOne(n)
    /\ (pass = 2 \/ k < lineno \/ phase = "line") /\ (DeclOf(file[k], n) \/ CallOf(target, file[k], n))
         => PassOne(n)

\* What gives a name n the value v: at 2 * k - 1 the label of line k of the file f, which
\* begins at c[k]; at 2 * k its declaration.
Event(f, c, e, n, v) ==
  \E k \in DOMAIN f : \/ e = 2 * k - 1 /\ LabelOf(f[k], n) /\ v = c[k]
                      \/ e = 2 * k /\ DeclOf(f[k], n) /\ v = 0
\* none or the last of them, up to p
None(f, c, p, n) == \A e \in Nat : \A v : Event(f, c, e, n, v) => e > p
Standing(f, c, p, n, v) ==
  \E e \in Nat : /\ e <= p /\ Event(f, c, e, n, v)
                 /\ \A d \in Nat : \A w : d <= p /\ Event(f, c, d, n, w) => d <= e

Progress == IF phase = "line" THEN 2 * lineno ELSE 2 * lineno - 1
Whole == 2 * Len(file)

\* in pass 1 a symbol has the value of the last event that names it, if there was one
FirstPass(n, v) == None(file, pcs, Progress, n) \/ Standing(file, pcs, Progress, n, v)

\* Pass 2 begins with the last value of pass 1.  The values of the mentions of a symbol are
\* those of its events, and it is reported when two of them, or one of them and the value
\* that pass 1 left, are different.
Final(n, v) == Standing(file, pcs, Whole, n, v)
Seen(n, v) == v \in Values(n) \/ Final(n, v)
LastSays(n, v) == \A k \in Of(n) : (\A j \in Of(n) : j <= k) => v = mentions[k].val
SecondPass(n, v) ==
  /\ \A w : w \in Values(n) <=> \E e \in Nat : e <= Progress /\ Event(file, pcs, e, n, w)
  /\ \/ None(file, pcs, Progress, n) /\ (None(file, pcs, Whole, n) \/ Final(n, v))
     \/ Standing(file, pcs, Progress, n, v)
  /\ n \in changed <=> \E u, w : Seen(n, u) /\ Seen(n, w) /\ u # w
  /\ LastSays(n, v)

NameInv ==
  /\ Unique /\ Once
  /\ ~stale => /\ Mentioned
               /\ pass \in 0..1 => \A i \in DOMAIN syms : FirstPass(syms[i].name, syms[i].val)
               /\ pass = 2 => \A i \in DOMAIN syms : SecondPass(syms[i].name, syms[i].val)

LEMMA EventAt ==
  ASSUME NEW f \in Seq(Lines), NEW c, NEW k \in DOMAIN f, NEW e, NEW n, NEW v
  PROVE  /\ e = 2 * k - 1 => (Event(f, c, e, n, v) <=> LabelOf(f[k], n) /\ v = c[k])
         /\ e = 2 * k => (Event(f, c, e, n, v) <=> DeclOf(f[k], n) /\ v = 0)
<1>0. k \in Nat /\ \A j \in DOMAIN f : j \in Nat
  OBVIOUS
<1>1. ASSUME e = 2 * k - 1
      PROVE  Event(f, c, e, n, v) <=> LabelOf(f[k], n) /\ v = c[k]
  <2>1. \A j \in DOMAIN f : (e = 2 * j - 1 => j = k) /\ e # 2 * j
    BY <1>0, <1>1
  <2> QED
    BY <1>1, <2>1 DEF Event
<1>2. ASSUME e = 2 * k
      PROVE  Event(f, c, e, n, v) <=> DeclOf(f[k], n) /\ v = 0
  <2>1. \A j \in DOMAIN f : (e = 2 * j => j = k) /\ e # 2 * j - 1
    BY <1>0, <1>2
  <2> QED
    BY <1>2, <2>1 DEF Event
<1> QED
  BY <1>1, <1>2

LEMMA EventBounds ==
  ASSUME NEW f \in Seq(Lines), NEW c, NEW e, NEW n, NEW v, Event(f, c, e, n, v)
  PROVE  e \in Nat /\ e <= 2 * Len(f) /\ e >= 1
<1>1. PICK k \in DOMAIN f : e = 2 * k - 1 \/ e = 2 * k
  BY DEF Event
<1>2. k \in Nat /\ k >= 1 /\ k <= Len(f) /\ Len(f) \in Nat
  OBVIOUS
<1> QED
  BY <1>1, <1>2

LEMMA EventOnce ==
  ASSUME NEW f \in Seq(Lines), NEW c, NEW e, NEW n, NEW v, NEW w,
         Event(f, c, e, n, v), Event(f, c, e, n, w)
  PROVE  v = w
<1>1. PICK k \in DOMAIN f : e = 2 * k - 1 \/ e = 2 * k
  BY DEF Event
<1>2. CASE e = 2 * k - 1
  <2>1. v = c[k]
    BY <1>2, EventAt
  <2>2. w = c[k]
    BY <1>2, EventAt
  <2> QED
    BY <2>1, <2>2
<1>3. CASE e = 2 * k
  <2>1. v = 0
    BY <1>3, EventAt
  <2>2. w = 0
    BY <1>3, EventAt
  <2> QED
    BY <2>1, <2>2
<1> QED
  BY <1>1, <1>2, <1>3

LEMMA StandingOnce ==
  ASSUME NEW f \in Seq(Lines), NEW c, NEW p, NEW n, NEW v, NEW w,
         Standing(f, c, p, n, v), Standing(f, c, p, n, w)
  PROVE  v = w
<1>1. PICK e \in Nat : /\ e <= p /\ Event(f, c, e, n, v)
                       /\ \A d \in Nat : \A u : d <= p /\ Event(f, c, d, n, u) => d <= e
  BY DEF Standing
<1>2. PICK b \in Nat : /\ b <= p /\ Event(f, c, b, n, w)
                       /\ \A d \in Nat : \A u : d <= p /\ Event(f, c, d, n, u) => d <= b
  BY DEF Standing
<1>3. e <= b /\ b <= e
  BY <1>1, <1>2
<1>4. e = b
  BY <1>3
<1> QED
  BY <1>1, <1>2, <1>4, EventOnce

\* the events of a name up to q are those up to p
SameEvents(f, c, p, g, d, q, n) ==
  \A e \in Nat : \A v : e <= q => (Event(g, d, e, n, v) <=> e <= p /\ Event(f, c, e, n, v))

LEMMA SameStands ==
  ASSUME NEW f, NEW c, NEW p \in Int, NEW g, NEW d, NEW q \in Int, NEW n, p <= q,
         SameEvents(f, c, p, g, d, q, n)
  PROVE  /\ None(f, c, p, n) <=> None(g, d, q, n)
         /\ \A v : Standing(f, c, p, n, v) <=> Standing(g, d, q, n, v)
         /\ \A v : (\E e \in Nat : e <= p /\ Event(f, c, e, n, v))
                   <=> (\E e \in Nat : e <= q /\ Event(g, d, e, n, v))
<1>1. \A e \in Nat : e <= p => e <= q
  OBVIOUS
<1>2. \A e \in Nat : \A v : e <= p /\ Event(f, c, e, n, v) <=> e <= q /\ Event(g, d, e, n, v)
  BY <1>1 DEF SameEvents
<1>3. None(f, c, p, n) <=> \A e \in Nat : \A v : ~(e <= p /\ Event(f, c, e, n, v))
  BY DEF None
<1>4. None(g, d, q, n) <=> \A e \in Nat : \A v : ~(e <= q /\ Event(g, d, e, n, v))
  BY DEF None
<1>5. \A v : Standing(f, c, p, n, v) <=> Standing(g, d, q, n, v)
  <2> TAKE v
  <2>1. Standing(f, c, p, n, v)
        <=> \E e \in Nat : /\ e <= p /\ Event(f, c, e, n, v)
                           /\ \A b \in Nat : \A w : b <= p /\ Event(f, c, b, n, w) => b <= e
    BY DEF Standing
  <2>2. Standing(g, d, q, n, v)
        <=> \E e \in Nat : /\ e <= q /\ Event(g, d, e, n, v)
                           /\ \A b \in Nat : \A w : b <= q /\ Event(g, d, b, n, w) => b <= e
    BY DEF Standing
  <2> QED
    BY <1>2, <2>1, <2>2
<1> QED
  BY <1>2, <1>3, <1>4, <1>5

\* what one more mention says
LEMMA MentionAdds ==
  ASSUME mentions \in Seq(Mention), NEW n, NEW u, NEW m \in Mention, m.name = n, m.val = u,
         m.pass = pass, mentions' = Append(mentions, m)
  PROVE  /\ \A b : PassOne(b)' <=> PassOne(b) \/ (pass = 1 /\ b = n)
         /\ \A b, w : (w \in Values(b))' <=> w \in Values(b) \/ (pass = 2 /\ b = n /\ w = u)
         /\ pass = 2 => LastSays(n, u)'
         /\ \A b, w : (pass = 1 \/ b # n) /\ LastSays(b, w) => LastSays(b, w)'
<1> PICK k \in Nat : k = Len(mentions)
  OBVIOUS
<1>1. /\ DOMAIN mentions = 1..k /\ DOMAIN mentions' = 1..k + 1 /\ mentions'[k + 1] = m
      /\ \A i \in 1..k : mentions'[i] = mentions[i]
  OBVIOUS
<1>2. \A i \in DOMAIN mentions' : (i \in DOMAIN mentions /\ mentions'[i] = mentions[i])
                                  \/ (i = k + 1 /\ mentions'[i] = m)
  BY <1>1
<1>3. \A i \in DOMAIN mentions : i \in DOMAIN mentions' /\ mentions'[i] = mentions[i]
  BY <1>1
<1>4. k + 1 \in DOMAIN mentions' /\ mentions'[k + 1] = m /\ \A i \in DOMAIN mentions' : i <= k + 1
  BY <1>1
<1>5. \A b : PassOne(b)' <=> PassOne(b) \/ (pass = 1 /\ b = n)
  BY <1>2, <1>3, <1>4 DEF PassOne
<1>6. \A b, i : i \in Of(b)' <=> i \in Of(b) \/ (pass = 2 /\ b = n /\ i = k + 1)
  BY <1>2, <1>3, <1>4 DEF Of
<1>7. \A b : \A i \in Of(b) : mentions'[i] = mentions[i] /\ i \in DOMAIN mentions
  BY <1>3 DEF Of
<1>8. \A b, w : w \in Values(b) <=> \E i \in Of(b) : mentions[i].val = w
  BY DEF Values
<1>9. \A b, w : (w \in Values(b))' <=> \E i \in Of(b)' : mentions'[i].val = w
  BY DEF Values
<1>10. \A b, w : (w \in Values(b))' <=> w \in Values(b) \/ (pass = 2 /\ b = n /\ w = u)
  <2> TAKE b, w
  <2>1. (\E i \in Of(b)' : mentions'[i].val = w)
        <=> (\E i \in Of(b) : mentions[i].val = w) \/ (pass = 2 /\ b = n /\ w = u)
    BY <1>4, <1>6, <1>7
  <2> QED
    BY ONLY <1>8, <1>9, <2>1
<1>11. pass = 2 => LastSays(n, u)'
  <2> SUFFICES ASSUME pass = 2, NEW i \in Of(n)', \A j \in Of(n)' : j <= i
               PROVE  u = mentions'[i].val
    BY DEF LastSays
  <2>1. k + 1 \in Of(n)' /\ i \in DOMAIN mentions'
    BY <1>6 DEF Of
  <2>2. i = k + 1
    BY <1>1, <1>4, <2>1
  <2> QED
    BY <1>4, <2>2
<1>12. ASSUME NEW b, NEW w, pass = 1 \/ b # n, LastSays(b, w)
       PROVE  LastSays(b, w)'
  <2>1. \A i : i \in Of(b)' <=> i \in Of(b)
    BY <1>6, <1>12
  <2> SUFFICES ASSUME NEW i \in Of(b)', \A j \in Of(b)' : j <= i
               PROVE  w = mentions'[i].val
    BY DEF LastSays
  <2>2. i \in Of(b) /\ \A j \in Of(b) : j <= i
    BY <2>1
  <2>3. w = mentions[i].val
    BY <1>12, <2>2 DEF LastSays
  <2> QED
    BY <1>7, <2>2, <2>3
<1> QED
  BY <1>5, <1>10, <1>11, <1>12

\* lines further on do not change the events before them
LEMMA EventSame ==
  ASSUME NEW f \in Seq(Lines), NEW g \in Seq(Lines), NEW c, NEW d, NEW e \in Nat, NEW n, NEW v,
         e <= 2 * Len(f), Len(f) <= Len(g), \A k \in DOMAIN f : g[k] = f[k] /\ d[k] = c[k]
  PROVE  Event(g, d, e, n, v) <=> Event(f, c, e, n, v)
<1>1. /\ Len(f) \in Nat /\ Len(g) \in Nat /\ DOMAIN f = 1..Len(f) /\ DOMAIN g = 1..Len(g)
  OBVIOUS
<1>2. \A k \in DOMAIN f : k \in DOMAIN g
  BY <1>1
<1>3. \A k \in DOMAIN g : (e = 2 * k - 1 \/ e = 2 * k) => k \in DOMAIN f
  BY <1>1
<1>4. ASSUME Event(f, c, e, n, v)
      PROVE  Event(g, d, e, n, v)
  <2>1. PICK k \in DOMAIN f : \/ e = 2 * k - 1 /\ LabelOf(f[k], n) /\ v = c[k]
                              \/ e = 2 * k /\ DeclOf(f[k], n) /\ v = 0
    BY <1>4 DEF Event
  <2>2. k \in DOMAIN g /\ g[k] = f[k] /\ d[k] = c[k]
    BY <1>2
  <2> QED
    BY <2>1, <2>2 DEF Event
<1>5. ASSUME Event(g, d, e, n, v)
      PROVE  Event(f, c, e, n, v)
  <2>1. PICK k \in DOMAIN g : \/ e = 2 * k - 1 /\ LabelOf(g[k], n) /\ v = d[k]
                              \/ e = 2 * k /\ DeclOf(g[k], n) /\ v = 0
    BY <1>5 DEF Event
  <2>2. k \in DOMAIN f /\ g[k] = f[k] /\ d[k] = c[k]
    BY <1>3, <2>1
  <2> QED
    BY <2>1, <2>2 DEF Event
<1> QED
  BY <1>4, <1>5

\* A step names nothing that gives n a value, or one thing, which gives it the value u.
Quiet(n) == SameEvents(file, pcs, Progress, file', pcs', Progress', n)
Happens(n, u) ==
  \E d \in Nat : /\ Progress < d /\ d <= Progress'
                 /\ \A e \in Nat : \A v : e <= Progress' =>
                      (Event(file', pcs', e, n, v)
                       <=> (e <= Progress /\ Event(file, pcs, e, n, v)) \/ (e = d /\ v = u))

LEMMA ReadEvents ==
  ASSUME TypeInv, TypeInv', LineInv, NEW l \in Lines, Reading(l), UNCHANGED code, ~stale,
         phase' = "statement" \/ (phase' = "line" /\ Stmt(l).tok = "end")
  PROVE  /\ Progress \in Nat /\ Progress' \in Nat /\ Progress <= Progress'
         /\ \A n : /\ LabelOf(l, n) => Happens(n, pc)
                   /\ ~LabelOf(l, n) => Quiet(n)
<1> PICK k : k = lineno'
  OBVIOUS
<1>1. /\ file \in Seq(Lines) /\ lineno \in Nat /\ Len(file) \in Nat /\ lineno <= Len(file)
      /\ file' \in Seq(Lines) /\ phase = "line"
  <2>1. PlaceType /\ PlaceType' /\ phase = "line"
    BY TypeParts, PTL DEF Reading, Running
  <2> QED
    BY <2>1 DEF PlaceType
<1>2. /\ k = lineno + 1 /\ k \in DOMAIN file' /\ file'[k] = l /\ pcs'[k] = pc
  BY ReadingLine
<1>3. \A i \in DOMAIN file : i <= lineno => file'[i] = file[i] /\ pcs'[i] = pcs[i]
  <2>1. CASE pass = 1
    <3>1. /\ file' = Append(file, l) /\ pcs' = Append(pcs, pc) /\ Len(pcs) = Len(file)
      BY <2>1 DEF Reading, LineInv, Counts
    <3>2. pcs \in Seq(0..MAXCODE)
      BY TypeParts, Zenon DEF HistoryType
    <3>3. pc \in 0..MAXCODE
      BY PcCap
    <3>4. \A i \in DOMAIN file : file'[i] = file[i]
      BY <1>1, <3>1
    <3>5. \A i \in DOMAIN pcs : pcs'[i] = pcs[i]
      BY <3>1, <3>2, <3>3
    <3>6. DOMAIN file = DOMAIN pcs
      BY <1>1, <3>1, <3>2
    <3> QED
      BY <3>4, <3>5, <3>6
  <2>2. CASE pass # 1
    BY <2>2 DEF Reading
  <2> QED
    BY <2>1, <2>2
<1> PICK p, q \in Nat : p = 2 * lineno /\ q = Progress'
  <2> PICK a, b : a = 2 * lineno /\ b = Progress'
    OBVIOUS
  <2>1. b = 2 * k \/ b = 2 * k - 1
    BY DEF Progress
  <2>2. k \in Nat /\ k >= 1
    BY <1>1, <1>2
  <2>3. a \in Nat /\ b \in Nat
    BY <1>1, <2>1, <2>2
  <2> QED
    BY <2>3
<1> PICK x, y \in Nat : x = p + 1 /\ y = p + 2
  OBVIOUS
<1>4. Progress = p /\ x = 2 * k - 1 /\ y = 2 * k
  BY <1>1, <1>2 DEF Progress
<1>5. q \in {x, y} /\ (q = y => Stmt(l).tok = "end")
  <2>1. q = IF phase' = "line" THEN 2 * k ELSE 2 * k - 1
    BY DEF Progress
  <2> QED
    BY <1>4, <2>1
<1>6. ASSUME NEW e \in Nat, NEW n, NEW v, e <= p
      PROVE  Event(file', pcs', e, n, v) <=> Event(file, pcs, e, n, v)
  <2> PICK f : f = SubSeq(file, 1, lineno)
    OBVIOUS
  <2>1. /\ f \in Seq(Lines) /\ Len(f) = lineno /\ \A i \in DOMAIN f : f[i] = file[i]
        /\ DOMAIN f = 1..lineno
    <3>1. \A i \in 1..lineno : file[i] \in Lines
      BY <1>1
    <3>2. f = [i \in 1..lineno |-> file[i]]
      BY <1>1
    <3>3. f \in Seq(Lines)
      BY <1>1, <3>1, <3>2
    <3>4. DOMAIN f = 1..lineno /\ \A i \in DOMAIN f : f[i] = file[i]
      BY <3>2
    <3>5. Len(f) = lineno
      BY ONLY <1>1, <3>3, <3>4
    <3> QED
      BY ONLY <3>3, <3>4, <3>5
  <2>2. \A i \in DOMAIN f : i \in DOMAIN file /\ i <= lineno
    BY ONLY <1>1, <2>1
  <2>3. \A i \in DOMAIN f : file'[i] = f[i] /\ pcs'[i] = pcs[i]
    BY <1>3, <2>1, <2>2
  <2>4. Len(f) <= Len(file') /\ Len(f) <= Len(file) /\ e <= 2 * Len(f)
    <3>1. Len(file') >= k
      BY <1>1, <1>2
    <3> QED
      BY <1>1, <1>2, <1>6, <2>1, <3>1
  <2>5. Event(file', pcs', e, n, v) <=> Event(f, pcs, e, n, v)
    BY <1>1, <2>1, <2>3, <2>4, EventSame
  <2>6. Event(file, pcs, e, n, v) <=> Event(f, pcs, e, n, v)
    BY <1>1, <2>1, <2>4, EventSame
  <2> QED
    BY <2>5, <2>6
<1>7. \A n, v : Event(file', pcs', x, n, v) <=> LabelOf(l, n) /\ v = pc
  <2> PICK g, d : g = file' /\ d = pcs'
    OBVIOUS
  <2>1. g \in Seq(Lines) /\ k \in DOMAIN g
    BY <1>1, <1>2
  <2>2. ASSUME NEW n, NEW v
        PROVE  x = 2 * k - 1 => (Event(g, d, x, n, v) <=> LabelOf(g[k], n) /\ v = d[k])
    BY ONLY <2>1, EventAt
  <2>3. \A n, v : Event(g, d, x, n, v) <=> LabelOf(g[k], n) /\ v = d[k]
    BY ONLY <1>4, <2>2
  <2> QED
    BY <1>2, <2>3
<1>8. q = y => \A n, v : ~Event(file', pcs', y, n, v)
  <2>1. Stmt(l).tok = "end" => \A n : ~DeclOf(l, n)
    BY DEF DeclOf
  <2> PICK g, d : g = file' /\ d = pcs'
    OBVIOUS
  <2>2. \A n, v : Event(g, d, y, n, v) <=> DeclOf(l, n) /\ v = 0
    <3>1. g \in Seq(Lines) /\ k \in DOMAIN g
      BY <1>1, <1>2
    <3>2. ASSUME NEW n, NEW v
          PROVE  y = 2 * k => (Event(g, d, y, n, v) <=> DeclOf(g[k], n) /\ v = 0)
      BY ONLY <3>1, EventAt
    <3>3. \A n, v : Event(g, d, y, n, v) <=> DeclOf(g[k], n) /\ v = 0
      BY ONLY <1>4, <3>2
    <3> QED
      BY <1>2, <3>3
  <2> QED
    BY <1>5, <2>1, <2>2
<1>9. \A e \in Nat : e <= q => e <= p \/ e = x \/ (e = y /\ q = y)
  BY <1>5
<1>10. \A n, v : \A e \in Nat : e <= q =>
         (Event(file', pcs', e, n, v)
          <=> (e <= p /\ Event(file, pcs, e, n, v)) \/ (e = x /\ LabelOf(l, n) /\ v = pc))
  <2> TAKE n, v
  <2> TAKE e \in Nat
  <2> HAVE e <= q
  <2>1. CASE e <= p
    <3>1. e # x
      BY <2>1
    <3> QED
      BY <1>6, <2>1, <3>1
  <2>2. CASE e = x
    <3>1. ~(e <= p)
      BY <2>2
    <3> QED
      BY <1>7, <2>2, <3>1
  <2>3. CASE e = y /\ q = y
    <3>1. ~(e <= p) /\ e # x
      BY <2>3
    <3> QED
      BY <1>8, <2>3, <3>1
  <2> QED
    BY <1>9, <2>1, <2>2, <2>3
<1>11. Progress = p /\ Progress' = q /\ p <= q /\ p < x /\ x <= q
  BY <1>4, <1>5
<1>12. ASSUME NEW n, LabelOf(l, n)
       PROVE  Happens(n, pc)
  BY <1>10, <1>11, <1>12 DEF Happens
<1>13. ASSUME NEW n, ~LabelOf(l, n)
       PROVE  Quiet(n)
  BY <1>10, <1>11, <1>13 DEF Quiet, SameEvents
<1> QED
  BY <1>11, <1>12, <1>13

LEMMA StatementEvents ==
  ASSUME TypeInv, LineInv, phase # "line", UNCHANGED <<file, pcs, lineno>>,
         phase' \in {"line", "statement", "values"}
  PROVE  /\ Progress \in Nat /\ Progress' \in Nat /\ Progress <= Progress'
         /\ \A n : /\ phase' = "line" /\ DeclOf(file[lineno], n) => Happens(n, 0)
                   /\ phase' # "line" \/ ~DeclOf(file[lineno], n) => Quiet(n)
<1>1. file \in Seq(Lines) /\ lineno \in Nat /\ lineno > 0 /\ lineno \in DOMAIN file
  BY TypeParts, LinePlace DEF PlaceType
<1> PICK p, y \in Nat : p = 2 * lineno - 1 /\ y = 2 * lineno
  BY <1>1
<1>2. /\ Progress = p /\ (phase' = "line" => Progress' = y) /\ (phase' # "line" => Progress' = p)
      /\ p < y /\ \A e \in Nat : e <= y => e <= p \/ e = y
  BY DEF Progress
<1>3. \A n, v : Event(file, pcs, y, n, v) <=> DeclOf(file[lineno], n) /\ v = 0
  BY <1>1, EventAt
<1>4. ASSUME NEW n, phase' = "line", DeclOf(file[lineno], n)
      PROVE  Happens(n, 0)
  <2>1. Progress < y /\ y <= Progress' /\ Progress' = y /\ Progress = p
    BY <1>2, <1>4
  <2>2. ASSUME NEW e \in Nat, NEW v, e <= y
        PROVE  Event(file', pcs', e, n, v)
               <=> (e <= p /\ Event(file, pcs, e, n, v)) \/ (e = y /\ v = 0)
    <3>1. CASE e <= p
      <4>1. e # y
        BY <3>1
      <4> QED
        BY <3>1, <4>1
    <3>2. CASE e = y
      <4>1. ~(e <= p)
        BY <3>2
      <4> QED
        BY <1>3, <1>4, <3>2, <4>1
    <3> QED
      BY <1>2, <2>2, <3>1, <3>2
  <2> QED
    BY <2>1, <2>2 DEF Happens
<1>5. ASSUME NEW n, phase' # "line" \/ ~DeclOf(file[lineno], n)
      PROVE  Quiet(n)
  <2>1. CASE phase' # "line"
    BY <1>2, <2>1 DEF Quiet, SameEvents
  <2>2. CASE phase' = "line" /\ ~DeclOf(file[lineno], n)
    <3>1. Progress' = y /\ Progress = p
      BY <1>2, <2>2
    <3>2. \A v : ~Event(file, pcs, y, n, v)
      BY <1>3, <2>2
    <3>3. ASSUME NEW e \in Nat, NEW v, e <= y
          PROVE  Event(file', pcs', e, n, v) <=> e <= p /\ Event(file, pcs, e, n, v)
      BY <1>2, <3>2, <3>3
    <3> QED
      BY <3>1, <3>3 DEF Quiet, SameEvents
  <2> QED
    BY <1>5, <2>1, <2>2
<1> QED
  BY <1>2, <1>4, <1>5

-----------------------------------------------------------------------------
(* Mentions: what the steps name *)

\* what a step says a name is: the label of the line it reads, or what the statement that
\* it ends declares or calls
Covers(b) ==
  \/ phase = "line" /\ LabelOf(file'[lineno'], b)
  \/ phase' = "line" /\ (DeclOf(file'[lineno'], b) \/ CallOf(target', file'[lineno'], b))

Kept == UNCHANGED table /\ \A b : Quiet(b) /\ (Covers(b) => InTable(b))
Named ==
  \E n \in Texts, u \in 0..MAXCODE, type \in Kinds, sec \in {".text", ".data"} :
    /\ AddSym(n, u, type, sec)
    /\ \A b : (Covers(b) <=> b = n) /\ (b # n => Quiet(b))
    /\ Happens(n, u) \/ (u = 0 /\ Unknown(n) /\ Quiet(n))
NameStep == Progress \in Nat /\ Progress' \in Nat /\ Progress <= Progress' /\ (Kept \/ Named)

LEMMA LineNames ==
  ASSUME TypeInv, TypeInv', LineInv, EmptyLine \/ Unlabelled \/ Labelled, ~stale'
  PROVE  NameStep
<1>1. CASE EmptyLine
  <2>1. PICK l \in Lines : LET g == GetToken(l, token, tokval)
                           IN Reading(l) /\ g.tok = "end" /\ Reads(g)
    BY <1>1 DEF EmptyLine
  <2>2. UNCHANGED <<phase, code, stale, table>> /\ phase = "line"
    BY <1>1, <2>1 DEF EmptyLine, Reading, Running
  <2>3. Stmt(l).tok = "end" /\ First(l).tok # ":"
    <3> PICK g : g = GetToken(l, token, tokval)
      OBVIOUS
    <3>1. g.tok = "end"
      BY <2>1
    <3>2. g.tok = First(l).tok /\ (g.tok # ":" => Stmt(l) = First(l))
      BY FirstRead
    <3> QED
      BY <3>1, <3>2
  <2>4. \A n : ~LabelOf(l, n) /\ ~DeclOf(l, n) /\ ~CallOf(target', l, n)
    BY <2>3 DEF LabelOf, DeclOf, CallOf
  <2>5. ~stale /\ phase' = "line" /\ UNCHANGED code
    BY <2>2
  <2>6. file'[lineno'] = l
    BY <2>1, <2>5, ReadingLine
  <2>7. Progress \in Nat /\ Progress' \in Nat /\ Progress <= Progress' /\ \A n : Quiet(n)
    BY <2>1, <2>3, <2>4, <2>5, ReadEvents
  <2>8. \A b : ~Covers(b)
    BY <2>4, <2>6 DEF Covers
  <2> QED
    BY <2>2, <2>7, <2>8 DEF NameStep, Kept
<1>2. CASE Unlabelled
  <2>1. PICK l \in Lines : LET g == GetToken(l, token, tokval)
                           IN /\ Reading(l) /\ g.tok \notin {"end", ":"} /\ Reads(g)
                              /\ stale' = (stale \/ g.tok = "N")
    BY <1>2 DEF Unlabelled
  <2>2. UNCHANGED <<code, table>> /\ phase' = "statement" /\ phase = "line"
    BY <1>2, <2>1 DEF Unlabelled, Reading, Running
  <2>3. First(l).tok # ":"
    <3> PICK g : g = GetToken(l, token, tokval)
      OBVIOUS
    <3>1. g.tok # ":"
      BY <2>1
    <3>2. g.tok = First(l).tok
      BY FirstRead
    <3> QED
      BY <3>1, <3>2
  <2>4. \A n : ~LabelOf(l, n)
    BY <2>3 DEF LabelOf
  <2>5. ~stale
    BY <2>1
  <2>6. file'[lineno'] = l
    BY <2>1, <2>2, ReadingLine
  <2>7. Progress \in Nat /\ Progress' \in Nat /\ Progress <= Progress' /\ \A n : Quiet(n)
    BY <2>1, <2>2, <2>4, <2>5, ReadEvents
  <2>8. \A b : ~Covers(b)
    BY <2>2, <2>4, <2>6 DEF Covers
  <2> QED
    BY <2>2, <2>7, <2>8 DEF NameStep, Kept
<1>3. CASE Labelled
  <2>1. PICK l \in Lines : LET g == GetToken(l, token, tokval)  h == After(g)
                           IN /\ Reading(l) /\ g.tok = ":" /\ Reads(h)
                              /\ AddSym(g.token, pc, "local", section)
                              /\ phase' = IF h.tok = "end" THEN "line" ELSE "statement"
    BY <1>3 DEF Labelled
  <2>2. UNCHANGED <<code, stale>> /\ phase = "line"
    BY <1>3, <2>1 DEF Labelled, Reading, Running
  <2> PICK g, h : g = GetToken(l, token, tokval) /\ h = After(g)
    OBVIOUS
  <2>3. /\ g.tok = First(l).tok /\ g.tok = ":" /\ g.token = First(l).token
        /\ h.tok = Stmt(l).tok
    <3>1. g.tok = ":"
      BY <2>1
    <3> QED
      BY <3>1, FirstRead
  <2>4. \A n : LabelOf(l, n) <=> n = g.token
    BY <2>3 DEF LabelOf
  <2>5. phase' = IF Stmt(l).tok = "end" THEN "line" ELSE "statement"
    BY <2>1, <2>3
  <2>6. phase' = "line" => \A n : ~DeclOf(l, n) /\ ~CallOf(target', l, n)
    BY <2>5 DEF DeclOf, CallOf
  <2>7. ~stale
    BY <2>2
  <2>8. file'[lineno'] = l
    BY <2>1, <2>2, ReadingLine
  <2>9. /\ Progress \in Nat /\ Progress' \in Nat /\ Progress <= Progress'
        /\ \A n : /\ LabelOf(l, n) => Happens(n, pc)
                  /\ ~LabelOf(l, n) => Quiet(n)
    <3>1. phase' = "statement" \/ (phase' = "line" /\ Stmt(l).tok = "end")
      BY <2>5
    <3> QED
      BY <2>1, <2>2, <2>7, <3>1, ReadEvents
  <2>10. \A b : Covers(b) <=> b = g.token
    BY <2>2, <2>4, <2>6, <2>8 DEF Covers
  <2>11. g.token \in Texts
    <3>1. token \in Texts /\ tokval \in Int
      BY TypeParts DEF LexerType
    <3> QED
      BY <3>1, LineTypes
  <2>12. pc \in 0..MAXCODE /\ section \in {".text", ".data"} /\ "local" \in Kinds
    BY PcCap, TypeParts DEF DataType, Kinds
  <2> PICK n, u, type, sec : n = g.token /\ u = pc /\ type = "local" /\ sec = section
    OBVIOUS
  <2>13. n \in Texts /\ u \in 0..MAXCODE /\ type \in Kinds /\ sec \in {".text", ".data"}
    BY <2>11, <2>12
  <2>14. AddSym(n, u, type, sec)
    BY <2>1
  <2>15. (\A b : (Covers(b) <=> b = n) /\ (b # n => Quiet(b))) /\ Happens(n, u)
    BY <2>4, <2>9, <2>10
  <2>16. Named
    BY <2>13, <2>14, <2>15 DEF Named
  <2> QED
    BY <2>9, <2>16 DEF NameStep
<1> QED
  BY <1>1, <1>2, <1>3

\* the statement at hand is the one of the line
LEMMA StatementSays ==
  ASSUME TypeInv, LineInv, ~stale, phase # "line"
  PROVE  /\ phase = "statement" => \A b :
              /\ DeclOf(file[lineno], b) <=> /\ token \in {".globl", ".global", ".extern"}
                                             /\ Got.token = b
              /\ CallOf(target, file[lineno], b)
                 <=> /\ token \notin Directives /\ token \in Opcode({"call"}, {"bl"})[target]
                     /\ Operands.op1 = b
         /\ phase = "values" => \A b : ~DeclOf(file[lineno], b) /\ ~CallOf(target, file[lineno], b)
<1> PICK s : s = Stmt(file[lineno])
  OBVIOUS
<1>1. lineno > 0
  BY LinePlace
<1>2. ASSUME phase = "statement", NEW b
      PROVE  /\ DeclOf(file[lineno], b) <=> /\ token \in {".globl", ".global", ".extern"}
                                            /\ Got.token = b
             /\ CallOf(target, file[lineno], b)
                <=> /\ token \notin Directives /\ token \in Opcode({"call"}, {"bl"})[target]
                    /\ Operands.op1 = b
  <2>1. s.tok # "end" /\ token = s.token /\ rest = s.rest
    BY <1>1, <1>2 DEF LineInv, Here, InStatement
  <2> PICK g, h : g = Got /\ h = GetToken(rest, token, 0)
    OBVIOUS
  <2>2. g.token = h.token /\ g.tok = h.tok
    BY TokenSame DEF Got
  <2>3. Operands.op1 = Operand(token, rest)
    <3>1. Operands.op1 = IF g.tok = "end" THEN "" ELSE g.token
      BY Zenon DEF Operands
    <3>2. Operand(token, rest) = IF h.tok = "end" THEN "" ELSE h.token
      BY DEF Operand
    <3> QED
      BY <2>2, <3>1, <3>2
  <2>4. DeclOf(file[lineno], b) <=> token \in {".globl", ".global", ".extern"} /\ h.token = b
    BY <2>1 DEF DeclOf
  <2>5. CallOf(target, file[lineno], b)
        <=> /\ token \notin Directives /\ token \in Opcode({"call"}, {"bl"})[target]
            /\ Operand(token, rest) = b
    BY <2>1 DEF CallOf
  <2> QED
    BY <2>2, <2>3, <2>4, <2>5
<1>3. ASSUME phase = "values", NEW b
      PROVE  ~DeclOf(file[lineno], b) /\ ~CallOf(target, file[lineno], b)
  <2>1. s.token \in DOMAIN Width
    BY <1>1, <1>3 DEF LineInv, Here, InValues
  <2>2. s.token \in Directives /\ s.token \notin {".globl", ".global", ".extern"}
    BY <2>1 DEF Width, Directives
  <2> QED
    BY <2>2 DEF DeclOf, CallOf
<1> QED
  BY <1>2, <1>3

\* a statement that neither declares nor calls
LEMMA SilentStep ==
  ASSUME TypeInv, LineInv, phase # "line", UNCHANGED <<file, pcs, lineno, target, table>>,
         phase' \in {"line", "statement", "values"},
         \A b : phase' = "line" => ~DeclOf(file[lineno], b) /\ ~CallOf(target, file[lineno], b)
  PROVE  NameStep
<1>1. /\ Progress \in Nat /\ Progress' \in Nat /\ Progress <= Progress'
      /\ \A n : phase' # "line" \/ ~DeclOf(file[lineno], n) => Quiet(n)
  BY StatementEvents
<1>2. \A n : Quiet(n)
  BY <1>1
<1>3. \A b : ~Covers(b)
  BY DEF Covers
<1> QED
  BY <1>1, <1>2, <1>3 DEF NameStep, Kept

LEMMA StatementNames ==
  ASSUME TypeInv, LineInv, Statements, ~stale'
  PROVE  NameStep
<1>0. target \in {"x64", "arm64"} /\ LexerType /\ DataType
  BY TypeParts DEF PlaceType
<1>1. CASE SetSection \/ UnknownDirective \/ Ascii \/ Space
  <2>1. /\ phase = "statement" /\ phase' = "line"
        /\ token \in {".text", ".data", ".other", ".ascii", ".asciz", ".space", ".zero"}
        /\ UNCHANGED <<file, pcs, lineno, target, table>>
    BY <1>1 DEF SetSection, UnknownDirective, Ascii, Space, Directive, Running, EndLine, Enter
  <2>2. stale' = stale \/ stale' = (stale \/ Got.tok # "N")
    BY <1>1 DEF SetSection, UnknownDirective, Ascii, Space
  <2>3. token \in Directives /\ token \notin {".globl", ".global", ".extern"}
    BY <2>1 DEF Directives
  <2>4. ~stale
    BY <2>2, Zenon
  <2>5. \A b : ~DeclOf(file[lineno], b) /\ ~CallOf(target, file[lineno], b)
    BY <2>1, <2>3, <2>4, StatementSays
  <2> QED
    BY <2>1, <2>5, SilentStep
<1>2. CASE BeginValues
  <2>1. phase = "statement" /\ phase' = "values" /\ UNCHANGED <<file, pcs, lineno, target, table>>
    BY <1>2 DEF BeginValues, Directive, Running, Enter
  <2> QED
    BY <2>1, SilentStep
<1>3. CASE Value \/ EndValues
  <2>1. /\ phase = "values" /\ phase' \in {"line", "values"} /\ UNCHANGED stale
        /\ UNCHANGED <<file, pcs, lineno, target, table>>
    BY <1>3 DEF Value, EndValues, Running, EndLine, Enter, place
  <2>2. \A b : ~DeclOf(file[lineno], b) /\ ~CallOf(target, file[lineno], b)
    BY <2>1, StatementSays
  <2> QED
    BY <2>1, <2>2, SilentStep
<1>4. CASE Return \/ PushPop \/ Unsupported
  <2>1. /\ phase = "statement" /\ phase' = "line" /\ UNCHANGED stale /\ token \notin Directives
        /\ UNCHANGED <<file, pcs, lineno, target, table>>
        /\ \/ token \in Opcode({"ret"}, {"ret"})[target]
           \/ token \in Opcode({"pushq", "popq"}, {})[target]
           \/ token \notin (Opcode({"call", "ret", "pushq", "popq"}, {"bl", "ret"})[target])
    BY <1>4 DEF Return, PushPop, Unsupported, Instruction, Running, EndLine, Enter
  <2>2. token \notin Opcode({"call"}, {"bl"})[target]
    BY <1>0, <2>1 DEF Opcode
  <2>3. token \notin {".globl", ".global", ".extern"}
    BY <2>1 DEF Directives
  <2>4. \A b : ~DeclOf(file[lineno], b) /\ ~CallOf(target, file[lineno], b)
    BY <2>1, <2>2, <2>3, StatementSays
  <2> QED
    BY <2>1, <2>4, SilentStep
<1>5. CASE DeclareSymbol
  <2> PICK type : type = IF token = ".extern" THEN "extern" ELSE "global"
    OBVIOUS
  <2> PICK n, u, sec : n = Got.token /\ u = 0 /\ sec = section
    OBVIOUS
  <2>1. /\ phase = "statement" /\ phase' = "line" /\ UNCHANGED stale
        /\ token \in {".globl", ".global", ".extern"}
        /\ UNCHANGED <<file, pcs, lineno, target>> /\ AddSym(n, u, type, sec)
    BY <1>5 DEF DeclareSymbol, Directive, Running, EndLine, Enter
  <2>2. token \in Directives
    BY <2>1 DEF Directives
  <2>3. \A b : (DeclOf(file[lineno], b) <=> b = n) /\ ~CallOf(target, file[lineno], b)
    BY <2>1, <2>2, StatementSays
  <2>4. /\ Progress \in Nat /\ Progress' \in Nat /\ Progress <= Progress'
        /\ \A b : /\ phase' = "line" /\ DeclOf(file[lineno], b) => Happens(b, 0)
                  /\ phase' # "line" \/ ~DeclOf(file[lineno], b) => Quiet(b)
    <3>1. phase # "line" /\ phase' \in {"line", "statement", "values"}
      BY <2>1
    <3> QED
      BY <2>1, <3>1, StatementEvents
  <2>5. \A b : Covers(b) <=> b = n
    BY <2>1, <2>3 DEF Covers
  <2>6. n \in Texts /\ type \in Kinds /\ sec \in {".text", ".data"} /\ u \in 0..MAXCODE
    <3>1. MAXCODE \in Nat
      BY BoundsAssumption
    <3>2. n \in Texts /\ sec \in {".text", ".data"}
      BY <1>0, GotTypes DEF DataType
    <3>3. type \in Kinds
      BY DEF Kinds
    <3> QED
      BY <3>1, <3>2, <3>3
  <2>7. Happens(n, u) /\ \A b : b # n => Quiet(b)
    BY <2>1, <2>3, <2>4
  <2>8. Named
    BY <2>1, <2>5, <2>6, <2>7 DEF Named
  <2> QED
    BY <2>4, <2>8 DEF NameStep
<1>6. CASE Call
  <2> PICK n, u, type, sec : n = Operands.op1 /\ u = 0 /\ type = "extern" /\ sec = ".text"
    OBVIOUS
  <2>1. /\ phase = "statement" /\ phase' = "line" /\ UNCHANGED stale
        /\ token \notin Directives /\ token \in Opcode({"call"}, {"bl"})[target]
        /\ UNCHANGED <<file, pcs, lineno, target>>
        /\ IF Lookup(n) # 0 THEN UNCHANGED table ELSE AddSym(n, u, type, sec)
    BY <1>6 DEF Call, Instruction, Running, EndLine, Enter
  <2>2. token \notin {".globl", ".global", ".extern"}
    BY <2>1 DEF Directives
  <2>3. \A b : ~DeclOf(file[lineno], b) /\ (CallOf(target, file[lineno], b) <=> b = n)
    BY <2>1, <2>2, StatementSays
  <2>4. /\ Progress \in Nat /\ Progress' \in Nat /\ Progress <= Progress'
        /\ \A b : Quiet(b)
    <3>1. phase # "line" /\ phase' \in {"line", "statement", "values"}
      BY <2>1
    <3>2. /\ Progress \in Nat /\ Progress' \in Nat /\ Progress <= Progress'
          /\ \A b : phase' # "line" \/ ~DeclOf(file[lineno], b) => Quiet(b)
      BY <2>1, <3>1, StatementEvents
    <3> QED
      BY <2>3, <3>2
  <2>5. \A b : Covers(b) <=> b = n
    BY <2>1, <2>3 DEF Covers
  <2>6. n \in Texts /\ type \in Kinds /\ sec \in {".text", ".data"} /\ u \in 0..MAXCODE
    <3>1. MAXCODE \in Nat
      BY BoundsAssumption
    <3>2. n \in Texts
      BY GotTypes
    <3>3. type \in Kinds
      BY DEF Kinds
    <3> QED
      BY <3>1, <3>2, <3>3
  <2>7. syms \in Seq(Symbol)
    BY TypeParts DEF SymbolType
  <2>8. CASE Lookup(n) # 0
    <3>1. InTable(n)
      BY <2>7, <2>8, LookupFinds DEF InTable
    <3>2. Kept
      BY <2>1, <2>4, <2>5, <2>8, <3>1 DEF Kept
    <3> QED
      BY <2>4, <3>2 DEF NameStep
  <2>9. CASE Lookup(n) = 0
    <3>1. Unknown(n)
      BY <2>7, <2>9, LookupFinds DEF Unknown
    <3>2. AddSym(n, u, type, sec)
      BY <2>1, <2>9
    <3>3. Named
      BY <2>4, <2>5, <2>6, <3>1, <3>2 DEF Named
    <3> QED
      BY <2>4, <3>3 DEF NameStep
  <2> QED
    BY <2>8, <2>9
<1> QED
  BY <1>1, <1>2, <1>3, <1>4, <1>5, <1>6 DEF Statements

LEMMA StepNames ==
  ASSUME TypeInv, TypeInv', LineInv, [Next]_vars, ~OpenFile, ~EndFile, ~stale'
  PROVE  NameStep \/ UNCHANGED vars
<1>1. CASE EmptyLine \/ Unlabelled \/ Labelled
  BY <1>1, LineNames
<1>2. CASE Statements
  BY <1>2, StatementNames
<1>3. CASE Stopped \/ UNCHANGED vars
  BY <1>3 DEF Stopped
<1> QED
  BY <1>1, <1>2, <1>3 DEF Next, Passes

\* what the statement says, whatever it took from the lines before: the table is left alone
\* or one more name is mentioned
LEMMA StepMentions ==
  ASSUME TypeInv, [Next]_vars, ~OpenFile, ~EndFile
  PROVE  /\ UNCHANGED pass /\ (stale => stale')
         /\ \/ UNCHANGED table
            \/ /\ pass \in 1..2
               /\ \E n \in Texts, u \in 0..MAXCODE, type \in Kinds, sec \in {".text", ".data"} :
                    AddSym(n, u, type, sec)
<1>0. LexerType /\ DataType /\ MAXCODE \in Nat
  BY TypeParts, BoundsAssumption
<1>1. CASE EmptyLine \/ Unlabelled
  <2>1. UNCHANGED pass /\ UNCHANGED table
    BY <1>1 DEF EmptyLine, Unlabelled, Reading
  <2>2. stale => stale'
    <3>1. CASE EmptyLine
      BY <3>1 DEF EmptyLine
    <3>2. CASE Unlabelled
      <4>1. PICK l \in Lines : stale' = (stale \/ GetToken(l, token, tokval).tok = "N")
        BY <3>2, Zenon DEF Unlabelled
      <4> QED
        BY <4>1, Zenon
    <3> QED
      BY <1>1, <3>1, <3>2
  <2> QED
    BY <2>1, <2>2
<1>2. CASE Labelled
  <2>1. PICK l \in Lines : LET g == GetToken(l, token, tokval)
                           IN Reading(l) /\ AddSym(g.token, pc, "local", section)
    BY <1>2 DEF Labelled
  <2> PICK n, u, type, sec : n = GetToken(l, token, tokval).token /\ u = pc /\ type = "local" /\ sec = section
    OBVIOUS
  <2>2. n \in Texts
    BY <1>0, LineTypes DEF LexerType
  <2>3. u \in 0..MAXCODE /\ type \in Kinds /\ sec \in {".text", ".data"}
    BY <1>0, PcCap DEF DataType, Kinds
  <2>4. UNCHANGED <<pass, stale>> /\ pass \in 1..2
    <3>1. phase = "line" /\ status = "run" /\ UNCHANGED <<pass, stale>>
      BY <1>2, <2>1 DEF Labelled, Reading, Running
    <3> QED
      BY <3>1, PlaceMoves
  <2> QED
    BY <2>1, <2>2, <2>3, <2>4
<1>3. CASE SetSection \/ UnknownDirective \/ Ascii \/ Space \/ BeginValues
  <2>1. UNCHANGED pass /\ UNCHANGED table
    BY <1>3 DEF SetSection, UnknownDirective, Ascii, Space, BeginValues, EndLine, Enter
  <2>2. UNCHANGED stale \/ stale' = (stale \/ Got.tok # "N")
    BY <1>3 DEF SetSection, UnknownDirective, Ascii, Space, BeginValues
  <2>3. stale => stale'
    BY <2>2, Zenon
  <2> QED
    BY <2>1, <2>3
<1>4. CASE Value \/ EndValues \/ Return \/ PushPop \/ Unsupported
  <2>1. UNCHANGED table /\ UNCHANGED stale
    BY <1>4 DEF Value, EndValues, Return, PushPop, Unsupported
  <2>2. EndLine \/ UNCHANGED place
    BY <1>4 DEF Value, EndValues, Return, PushPop, Unsupported
  <2>3. UNCHANGED pass
    BY <2>2 DEF EndLine, Enter, place
  <2> QED
    BY <2>1, <2>3
<1>5. CASE DeclareSymbol
  <2> PICK type : type = IF token = ".extern" THEN "extern" ELSE "global"
    OBVIOUS
  <2> PICK n, u, sec : n = Got.token /\ u = 0 /\ sec = section
    OBVIOUS
  <2>1. status = "run" /\ UNCHANGED <<pass, stale>> /\ AddSym(n, u, type, sec)
    BY <1>5 DEF DeclareSymbol, Directive, Running, EndLine, Enter
  <2>2. pass \in 1..2
    BY <2>1, PlaceMoves
  <2>3. n \in Texts /\ sec \in {".text", ".data"}
    BY <1>0, GotTypes DEF DataType
  <2>4. type \in Kinds /\ u \in 0..MAXCODE
    BY <1>0 DEF Kinds
  <2> QED
    BY <2>1, <2>2, <2>3, <2>4
<1>6. CASE Call
  <2> PICK n, u, type, sec : n = Operands.op1 /\ u = 0 /\ type = "extern" /\ sec = ".text"
    OBVIOUS
  <2>1. /\ status = "run" /\ UNCHANGED <<pass, stale>>
        /\ UNCHANGED table \/ AddSym(n, u, type, sec)
    BY <1>6 DEF Call, Instruction, Running, EndLine, Enter
  <2>2. pass \in 1..2
    BY <2>1, PlaceMoves
  <2>3. n \in Texts
    BY GotTypes
  <2>4. type \in Kinds /\ sec \in {".text", ".data"} /\ u \in 0..MAXCODE
    BY <1>0 DEF Kinds
  <2> QED
    BY <2>1, <2>2, <2>3, <2>4
<1>7. CASE Stopped \/ UNCHANGED vars
  BY <1>7 DEF Stopped, vars, place
<1> QED
  BY <1>1, <1>2, <1>3, <1>4, <1>5, <1>6, <1>7 DEF Next, Passes, Statements

-----------------------------------------------------------------------------
(* Mentions: the table and the history after them *)

\* add_sym() as the history sees it
LEMMA AddSays ==
  ASSUME TypeInv, pass \in 1..2, UNCHANGED pass, NEW n \in Texts, NEW u \in 0..MAXCODE,
         NEW type \in Kinds, NEW sec \in {".text", ".data"}, AddSym(n, u, type, sec)
  PROVE  /\ (\E i \in DOMAIN syms : Known(i, n, u)) \/ Entered(n, u) \/ Full(n)
         /\ \A b : PassOne(b)' <=> PassOne(b) \/ (pass = 1 /\ b = n)
         /\ \A b, w : (w \in Values(b))' <=> w \in Values(b) \/ (pass = 2 /\ b = n /\ w = u)
         /\ pass = 2 => LastSays(n, u)'
         /\ \A b, w : (pass = 1 \/ b # n) /\ LastSays(b, w) => LastSays(b, w)'
         /\ pass = 1 => \A k \in DOMAIN mentions' :
              (k \in DOMAIN mentions /\ mentions'[k] = mentions[k]) \/ mentions'[k].pass = 1
         /\ syms \in Seq(Symbol) /\ syms' \in Seq(Symbol) /\ Len(syms) \in Nat /\ MAXSYMS \in Nat
<1> PICK m : m = [pass |-> pass, name |-> n, val |-> u, type |-> type]
  OBVIOUS
<1>1. m \in Mention /\ m.name = n /\ m.val = u /\ m.pass = pass
  BY DEF Mention
<1>2. mentions \in Seq(Mention) /\ syms \in Seq(Symbol) /\ MAXSYMS \in Nat
  BY TypeParts, BoundsAssumption DEF SymbolType
<1>3. /\ mentions' = Append(mentions, m) /\ syms' \in Seq(Symbol)
      /\ (\E i \in DOMAIN syms : Known(i, n, u)) \/ Entered(n, u) \/ Full(n)
  BY AddSymEffect
<1>4. /\ \A b : PassOne(b)' <=> PassOne(b) \/ (pass = 1 /\ b = n)
      /\ \A b, w : (w \in Values(b))' <=> w \in Values(b) \/ (pass = 2 /\ b = n /\ w = u)
      /\ pass = 2 => LastSays(n, u)'
      /\ \A b, w : (pass = 1 \/ b # n) /\ LastSays(b, w) => LastSays(b, w)'
  BY <1>1, <1>2, <1>3, MentionAdds
<1>5. \A k \in DOMAIN mentions' :
        (k \in DOMAIN mentions /\ mentions'[k] = mentions[k]) \/ mentions'[k] = m
  BY <1>1, <1>2, <1>3
<1> QED
  BY <1>1, <1>2, <1>3, <1>4, <1>5

\* the names of the entries after add_sym()
LEMMA EntriesAfter ==
  ASSUME syms \in Seq(Symbol), syms' \in Seq(Symbol), NEW n, NEW u,
         (\E i \in DOMAIN syms : Known(i, n, u)) \/ Entered(n, u) \/ Full(n)
  PROVE  /\ \A j \in DOMAIN syms : j \in DOMAIN syms' /\ syms'[j].name = syms[j].name
         /\ \A j \in DOMAIN syms' :
              \/ /\ j \in DOMAIN syms /\ syms'[j].name = syms[j].name
                 /\ syms'[j].val = syms[j].val \/ (syms[j].name = n /\ syms'[j].val = u)
              \/ Entered(n, u) /\ j \notin DOMAIN syms /\ syms'[j].name = n /\ syms'[j].val = u
         /\ Len(syms) <= Len(syms')
<1> PICK a, b \in Nat : a = Len(syms) /\ b = Len(syms')
  OBVIOUS
<1>0. DOMAIN syms = 1..a /\ DOMAIN syms' = 1..b
  OBVIOUS
<1>1. ASSUME NEW i \in DOMAIN syms, Known(i, n, u)
      PROVE  /\ b = a /\ \A j \in DOMAIN syms : syms'[j].name = syms[j].name
             /\ \A j \in DOMAIN syms : j # i => syms'[j].val = syms[j].val
             /\ syms[i].name = n /\ syms'[i].val = u
  BY <1>1 DEF Known
<1>2. ASSUME Entered(n, u)
      PROVE  /\ b = a + 1 /\ \A j \in DOMAIN syms : syms'[j] = syms[j]
             /\ syms'[a + 1].name = n /\ syms'[a + 1].val = u
  BY <1>2 DEF Entered
<1>3. CASE \E i \in DOMAIN syms : Known(i, n, u)
  BY <1>0, <1>1, <1>3
<1>4. CASE Entered(n, u)
  <2>1. \A j \in 1..b : j \in 1..a \/ j = a + 1
    BY <1>2, <1>4
  <2>2. \A j \in 1..a : j \in 1..b
    BY <1>2, <1>4
  <2>3. a + 1 \notin 1..a
    OBVIOUS
  <2>4. a <= b
    BY <1>2, <1>4
  <2> QED
    BY <1>0, <1>2, <1>4, <2>1, <2>2, <2>3, <2>4
<1>5. CASE Full(n)
  BY <1>5 DEF Full
<1> QED
  BY <1>3, <1>4, <1>5

LEMMA TableKept ==
  ASSUME TypeInv, TypeInv', Unique, Once, UNCHANGED pass, pass \in 1..2, stale => stale',
         NEW n \in Texts, NEW u \in 0..MAXCODE,
         NEW type \in Kinds, NEW sec \in {".text", ".data"}, AddSym(n, u, type, sec),
         pass = 2 /\ ~stale' => PassOne(n)
  PROVE  /\ Unique' /\ Once'
         /\ pass = 2 /\ ~stale' => ~Entered(n, u)
<1>1. /\ (\E i \in DOMAIN syms : Known(i, n, u)) \/ Entered(n, u) \/ Full(n)
      /\ \A b : PassOne(b)' <=> PassOne(b) \/ (pass = 1 /\ b = n)
      /\ pass = 1 => \A k \in DOMAIN mentions' :
              (k \in DOMAIN mentions /\ mentions'[k] = mentions[k]) \/ mentions'[k].pass = 1
      /\ syms \in Seq(Symbol) /\ syms' \in Seq(Symbol) /\ Len(syms) \in Nat /\ MAXSYMS \in Nat
  BY AddSays
<1>2. /\ \A j \in DOMAIN syms : j \in DOMAIN syms' /\ syms'[j].name = syms[j].name
      /\ \A j \in DOMAIN syms' :
           \/ j \in DOMAIN syms /\ syms'[j].name = syms[j].name
           \/ Entered(n, u) /\ j \notin DOMAIN syms /\ syms'[j].name = n
      /\ Len(syms) <= Len(syms')
  BY <1>1, EntriesAfter
<1>3. Entered(n, u) => \A j \in DOMAIN syms : syms[j].name # n
  BY DEF Entered, Unknown
<1>4. \A b : InTable(b) => InTable(b)'
  BY <1>2 DEF InTable
<1>5. InTable(n)' \/ Len(syms') >= MAXSYMS
  <2>1. CASE \E i \in DOMAIN syms : Known(i, n, u)
    <3>1. InTable(n)
      BY <2>1 DEF Known, InTable
    <3> QED
      BY <1>4, <3>1
  <2>2. CASE Entered(n, u)
    <3>1. Len(syms') = Len(syms) + 1 /\ syms'[Len(syms) + 1].name = n
      BY <2>2 DEF Entered
    <3>2. Len(syms) + 1 \in DOMAIN syms'
      BY <1>1, <3>1
    <3> QED
      BY <3>1, <3>2 DEF InTable
  <2>3. CASE Full(n)
    BY <1>1, <2>3 DEF Full
  <2> QED
    BY <1>1, <2>1, <2>2, <2>3
<1>6. Unique'
  <2> SUFFICES ASSUME NEW i \in DOMAIN syms', NEW j \in DOMAIN syms', syms'[i].name = syms'[j].name
               PROVE  i = j
    BY DEF Unique
  <2>1. CASE i \in DOMAIN syms /\ j \in DOMAIN syms
    BY <1>2, <2>1 DEF Unique
  <2>2. CASE i \in DOMAIN syms /\ j \notin DOMAIN syms
    BY <1>2, <1>3, <2>2
  <2>3. CASE i \notin DOMAIN syms /\ j \in DOMAIN syms
    BY <1>2, <1>3, <2>3
  <2>4. CASE i \notin DOMAIN syms /\ j \notin DOMAIN syms
    <3>1. Entered(n, u)
      BY <1>2, <2>4
    <3>2. Len(syms') = Len(syms) + 1
      BY <3>1 DEF Entered
    <3>3. \A k \in DOMAIN syms' : k \notin DOMAIN syms => k = Len(syms) + 1
      BY <1>1, <3>2
    <3> QED
      BY <2>4, <3>3
  <2> QED
    BY <2>1, <2>2, <2>3, <2>4
<1>7. pass = 2 /\ ~stale' => ~Entered(n, u)
  <2> SUFFICES ASSUME pass = 2, ~stale', Entered(n, u)
               PROVE  FALSE
    OBVIOUS
  <2>1. InTable(n) \/ Len(syms) >= MAXSYMS
    BY DEF Once
  <2>2. Len(syms) < MAXSYMS /\ ~InTable(n)
    BY DEF Entered, Unknown, InTable
  <2> QED
    BY <1>1, <2>1, <2>2
<1>8. Once'
  <2>1. pass' \in 0..1 => changed' = {} /\ \A k \in DOMAIN mentions' : mentions'[k].pass = 1
    <3> SUFFICES ASSUME pass = 1
                 PROVE  changed' = {} /\ \A k \in DOMAIN mentions' : mentions'[k].pass = 1
      OBVIOUS
    <3>1. changed = {} /\ \A k \in DOMAIN mentions : mentions[k].pass = 1
      BY DEF Once
    <3>2. changed' = changed
      BY <1>1 DEF Known, Entered, Full
    <3> QED
      BY <1>1, <3>1, <3>2
  <2>2. \A b : PassOne(b)' => InTable(b)' \/ Len(syms') >= MAXSYMS
    <3> SUFFICES ASSUME NEW b, PassOne(b)'
                 PROVE  InTable(b)' \/ Len(syms') >= MAXSYMS
      OBVIOUS
    <3>1. CASE b = n
      BY <1>5, <3>1
    <3>2. CASE b # n
      <4>1. PassOne(b)
        BY <1>1, <3>2
      <4>2. InTable(b) \/ Len(syms) >= MAXSYMS
        BY <4>1 DEF Once
      <4>3. Len(syms') \in Nat
        BY <1>1
      <4> QED
        BY <1>1, <1>2, <1>4, <4>2, <4>3
    <3> QED
      BY <3>1, <3>2
  <2>3. ASSUME pass' \in 0..1 \/ ~stale', NEW i \in DOMAIN syms', NEW b, b = syms'[i].name
        PROVE  PassOne(b)'
    <3>1. CASE i \in DOMAIN syms /\ syms'[i].name = syms[i].name
      <4>1. pass \in 0..1 \/ ~stale
        BY <2>3
      <4>2. PassOne(syms[i].name)
        BY <3>1, <4>1 DEF Once
      <4>3. PassOne(b)
        BY <2>3, <3>1, <4>2
      <4> QED
        BY <1>1, <4>3
    <3>2. CASE Entered(n, u) /\ syms'[i].name = n
      <4>1. pass = 1
        BY <1>7, <2>3, <3>2
      <4> QED
        BY <1>1, <2>3, <3>2, <4>1
    <3> QED
      BY <1>2, <3>1, <3>2
  <2>4. ASSUME pass' \in 0..1 \/ ~stale'
        PROVE  \A i \in DOMAIN syms' : \E k \in DOMAIN mentions' :
                 mentions'[k].pass = 1 /\ mentions'[k].name = syms'[i].name
    BY <2>3, <2>4 DEF PassOne
  <2> QED
    BY <2>1, <2>2, <2>4 DEF Once, PassOne
<1> QED
  BY <1>6, <1>7, <1>8

\* where a step that reads or ends a line, or goes on in one, leaves the place
StepPlace ==
  /\ UNCHANGED <<target, pass>> /\ pass \in 1..2 /\ lineno' \in DOMAIN file'
  /\ phase = "line" => lineno' = lineno + 1
  /\ phase # "line" => UNCHANGED <<file, lineno>>
  /\ pass = 2 => UNCHANGED <<file, pcs>>
  /\ pass = 1 => lineno = Len(file) /\ lineno' = Len(file')
  /\ \A k \in DOMAIN file' : k # lineno' /\ phase = "line" /\ pass = 1
                             => k \in DOMAIN file /\ file'[k] = file[k]

LEMMA StepPlaces ==
  ASSUME TypeInv, TypeInv', LineInv, LineInv', [Next]_vars, ~OpenFile, ~EndFile
  PROVE  StepPlace \/ UNCHANGED vars
<1>0. /\ file \in Seq(Lines) /\ lineno \in Nat /\ Len(file) \in Nat /\ lineno <= Len(file)
      /\ DOMAIN file = 1..Len(file) /\ pass \in 0..2
  BY TypeParts DEF PlaceType
<1>1. /\ file' \in Seq(Lines) /\ lineno' \in Nat /\ Len(file') \in Nat /\ lineno' <= Len(file')
      /\ DOMAIN file' = 1..Len(file')
  <2>1. PlaceType'
    BY TypeParts, PTL
  <2> QED
    BY <2>1 DEF PlaceType
<1>2. /\ pass = 1 => lineno = Len(file)
      /\ pass' = 1 => lineno' = Len(file')
  BY DEF LineInv, Counts
<1>3. CASE EmptyLine \/ Unlabelled \/ Labelled
  <2>1. PICK l \in Lines : Reading(l)
    BY <1>3 DEF EmptyLine, Unlabelled, Labelled
  <2>2. phase = "line" /\ status = "run" /\ UNCHANGED <<target, pass>> /\ lineno' = lineno + 1
    BY <2>1 DEF Reading, Running
  <2>3. pass \in 1..2
    BY <2>2, PlaceMoves
  <2>4. pass = 2 => UNCHANGED <<file, pcs>>
    BY <2>1 DEF Reading
  <2>5. ASSUME pass = 1
        PROVE  \A k \in DOMAIN file' : k # lineno' => k \in DOMAIN file /\ file'[k] = file[k]
    <3>1. file' = Append(file, l)
      BY <2>1, <2>5 DEF Reading
    <3> QED
      BY <1>0, <1>2, <2>2, <2>5, <3>1
  <2>6. lineno' \in DOMAIN file'
    BY <1>0, <1>1, <2>2
  <2> QED
    BY <1>2, <2>2, <2>3, <2>4, <2>5, <2>6 DEF StepPlace
<1>4. CASE Statements
  <2>1. status = "run" /\ phase # "line"
    BY <1>4 DEF Statements, SetSection, DeclareSymbol, BeginValues, Value, EndValues, Ascii, Space,
      UnknownDirective, Call, Return, PushPop, Unsupported, Directive, Instruction, Running
  <2>2. EndLine \/ Enter("values") \/ UNCHANGED place
    BY <1>4 DEF Statements, SetSection, DeclareSymbol, BeginValues, Value, EndValues, Ascii, Space,
      UnknownDirective, Call, Return, PushPop, Unsupported
  <2>3. UNCHANGED <<target, pass, file, lineno>>
    BY <2>2 DEF EndLine, Enter, place
  <2>4. UNCHANGED pcs
    BY <1>4 DEF Statements, SetSection, DeclareSymbol, BeginValues, Value, EndValues, Ascii, Space,
      UnknownDirective, Call, Return, PushPop, Unsupported
  <2>5. lineno \in DOMAIN file /\ pass \in 1..2
    BY <2>1, LinePlace
  <2> QED
    BY <1>2, <2>1, <2>3, <2>4, <2>5 DEF StepPlace
<1>5. CASE Stopped \/ UNCHANGED vars
  BY <1>5 DEF Stopped
<1> QED
  BY <1>3, <1>4, <1>5 DEF Next, Passes

LEMMA MentionedKept ==
  ASSUME TypeInv, TypeInv', StepPlace, Mentioned, \A b : PassOne(b) => PassOne(b)',
         pass = 1 => \A b : Covers(b) => PassOne(b)'
  PROVE  Mentioned'
<1>1. lineno \in Nat /\ lineno' \in Nat /\ file \in Seq(Lines) /\ Len(file) \in Nat
  <2>1. PlaceType /\ PlaceType'
    BY TypeParts, PTL
  <2> QED
    BY <2>1 DEF PlaceType
<1> SUFFICES ASSUME NEW k \in DOMAIN file', NEW n
             PROVE  /\ LabelOf(file'[k], n) => PassOne(n)'
                    /\ (pass' = 2 \/ k < lineno' \/ phase' = "line")
                       /\ (DeclOf(file'[k], n) \/ CallOf(target', file'[k], n)) => PassOne(n)'
  BY DEF Mentioned
<1>2. UNCHANGED <<target, pass>> /\ pass \in 1..2
  BY DEF StepPlace
<1>3. CASE pass = 2
  <2>1. file' = file
    BY <1>3 DEF StepPlace
  <2>2. LabelOf(file[k], n) \/ DeclOf(file[k], n) \/ CallOf(target, file[k], n) => PassOne(n)
    BY <1>3, <2>1 DEF Mentioned
  <2> QED
    BY <1>2, <2>1, <2>2
<1>4. CASE pass = 1 /\ phase = "line"
  <2>1. CASE k # lineno'
    <3>1. k \in DOMAIN file /\ file'[k] = file[k]
      BY <1>4, <2>1 DEF StepPlace
    <3>2. LabelOf(file[k], n) \/ DeclOf(file[k], n) \/ CallOf(target, file[k], n) => PassOne(n)
      BY <1>4, <3>1 DEF Mentioned
    <3> QED
      BY <1>2, <3>1, <3>2
  <2>2. CASE k = lineno'
    <3>1. LabelOf(file'[k], n) => Covers(n)
      BY <1>4, <2>2 DEF Covers
    <3>2. phase' = "line" /\ (DeclOf(file'[k], n) \/ CallOf(target', file'[k], n)) => Covers(n)
      BY <2>2 DEF Covers
    <3>3. ~(k < lineno') /\ pass' # 2
      BY <1>1, <1>2, <1>4, <2>2
    <3> QED
      BY <1>4, <3>1, <3>2, <3>3
  <2> QED
    BY <2>1, <2>2
<1>5. CASE pass = 1 /\ phase # "line"
  <2>1. UNCHANGED <<file, lineno>> /\ lineno = Len(file)
    BY <1>5 DEF StepPlace
  <2>2. LabelOf(file[k], n) => PassOne(n)
    BY <2>1 DEF Mentioned
  <2>3. k < lineno /\ (DeclOf(file[k], n) \/ CallOf(target, file[k], n)) => PassOne(n)
    BY <2>1 DEF Mentioned
  <2>4. k < lineno \/ k = lineno
    BY <1>1, <2>1
  <2>5. k = lineno /\ phase' = "line" /\ (DeclOf(file'[k], n) \/ CallOf(target', file'[k], n))
        => Covers(n)
    BY <2>1 DEF Covers
  <2>6. pass' # 2
    BY <1>2, <1>5
  <2>7. LabelOf(file'[k], n) => PassOne(n)'
    BY <2>1, <2>2
  <2>8. k < lineno /\ (DeclOf(file'[k], n) \/ CallOf(target', file'[k], n)) => PassOne(n)'
    BY <1>2, <2>1, <2>3
  <2>9. k = lineno /\ phase' = "line" /\ (DeclOf(file'[k], n) \/ CallOf(target', file'[k], n))
        => PassOne(n)'
    BY <1>5, <2>5
  <2>10. k < lineno' => k < lineno
    BY <2>1
  <2> QED
    BY <2>4, <2>6, <2>7, <2>8, <2>9, <2>10
<1> QED
  BY <1>2, <1>3, <1>4, <1>5

\* in the second pass a line names what pass 1 mentioned
LEMMA CoversMentioned ==
  ASSUME StepPlace, Mentioned, pass = 2, NEW b, Covers(b)
  PROVE  PassOne(b)
<1>1. UNCHANGED <<target, file>> /\ lineno' \in DOMAIN file
  BY DEF StepPlace
<1>2. \/ LabelOf(file[lineno'], b) \/ DeclOf(file[lineno'], b) \/ CallOf(target, file[lineno'], b)
  BY <1>1 DEF Covers
<1> QED
  BY <1>1, <1>2 DEF Mentioned

\* an event that has come to pass was mentioned in pass 1
LEMMA EventMentioned ==
  ASSUME TypeInv, Mentioned, NEW e \in Nat, e <= Progress, NEW n, NEW v, Event(file, pcs, e, n, v)
  PROVE  PassOne(n)
<1>1. lineno \in Nat /\ file \in Seq(Lines)
  BY TypeParts DEF PlaceType
<1>2. PICK k \in DOMAIN file : \/ e = 2 * k - 1 /\ LabelOf(file[k], n)
                               \/ e = 2 * k /\ DeclOf(file[k], n)
  BY DEF Event
<1>3. CASE LabelOf(file[k], n)
  BY <1>3 DEF Mentioned
<1>4. CASE e = 2 * k /\ DeclOf(file[k], n)
  <2>1. k \in Nat
    BY <1>1
  <2>2. phase = "line" \/ Progress = 2 * lineno - 1
    BY DEF Progress
  <2>3. phase = "line" \/ k < lineno
    BY <1>1, <1>4, <2>1, <2>2
  <2> QED
    BY <1>4, <2>3 DEF Mentioned
<1> QED
  BY <1>2, <1>3, <1>4

LEMMA HappensStands ==
  ASSUME Progress \in Nat, Progress' \in Nat, Progress <= Progress', NEW n, NEW u, Happens(n, u)
  PROVE  /\ Standing(file', pcs', Progress', n, u)
         /\ \A w : (\E e \in Nat : e <= Progress' /\ Event(file', pcs', e, n, w))
                   <=> (\E e \in Nat : e <= Progress /\ Event(file, pcs, e, n, w)) \/ w = u
<1> PICK p, q \in Nat : p = Progress /\ q = Progress'
  OBVIOUS
<1>1. PICK d \in Nat : /\ p < d /\ d <= q
                       /\ \A e \in Nat : \A v : e <= q =>
                            (Event(file', pcs', e, n, v)
                             <=> (e <= p /\ Event(file, pcs, e, n, v)) \/ (e = d /\ v = u))
  BY DEF Happens
<1>2. Event(file', pcs', d, n, u)
  BY <1>1
<1>3. ASSUME NEW e \in Nat, NEW w, e <= q, Event(file', pcs', e, n, w)
      PROVE  e <= d
  <2>1. e <= p \/ e = d
    BY <1>1, <1>3
  <2> QED
    BY <1>1, <2>1
<1>4. Standing(file', pcs', q, n, u)
  BY <1>1, <1>2, <1>3 DEF Standing
<1>5. ASSUME NEW w
      PROVE  (\E e \in Nat : e <= q /\ Event(file', pcs', e, n, w))
             <=> (\E e \in Nat : e <= p /\ Event(file, pcs, e, n, w)) \/ w = u
  <2>1. ASSUME NEW e \in Nat, e <= q, Event(file', pcs', e, n, w)
        PROVE  (\E b \in Nat : b <= p /\ Event(file, pcs, b, n, w)) \/ w = u
    BY <1>1, <2>1
  <2>2. ASSUME NEW e \in Nat, e <= p, Event(file, pcs, e, n, w)
        PROVE  \E b \in Nat : b <= q /\ Event(file', pcs', b, n, w)
    <3>1. e <= q
      BY <2>2
    <3> QED
      BY <1>1, <2>2, <3>1
  <2>3. w = u => \E b \in Nat : b <= q /\ Event(file', pcs', b, n, w)
    BY <1>1, <1>2
  <2> QED
    BY <2>1, <2>2, <2>3
<1> QED
  BY <1>4, <1>5

LEMMA QuietStands ==
  ASSUME Progress \in Nat, Progress' \in Nat, Progress <= Progress', NEW n, Quiet(n)
  PROVE  /\ None(file, pcs, Progress, n) <=> None(file', pcs', Progress', n)
         /\ \A v : Standing(file, pcs, Progress, n, v) <=> Standing(file', pcs', Progress', n, v)
         /\ \A v : (\E e \in Nat : e <= Progress /\ Event(file, pcs, e, n, v))
                   <=> (\E e \in Nat : e <= Progress' /\ Event(file', pcs', e, n, v))
<1> PICK p, q \in Int : p = Progress /\ q = Progress'
  OBVIOUS
<1> PICK f, g, c, d : f = file /\ g = file' /\ c = pcs /\ d = pcs'
  OBVIOUS
<1>1. SameEvents(f, c, p, g, d, q, n) /\ p <= q
  BY DEF Quiet
<1>2. /\ None(f, c, p, n) <=> None(g, d, q, n)
      /\ \A v : Standing(f, c, p, n, v) <=> Standing(g, d, q, n, v)
      /\ \A v : (\E e \in Nat : e <= p /\ Event(f, c, e, n, v))
                <=> (\E e \in Nat : e <= q /\ Event(g, d, e, n, v))
  BY <1>1, SameStands
<1> QED
  BY <1>2

\* a name that is not in the table has had no event, if there was room for it
LEMMA UnknownNone ==
  ASSUME TypeInv, Once, Mentioned, NEW n, Unknown(n), Len(syms) < MAXSYMS
  PROVE  None(file, pcs, Progress, n)
<1>1. Len(syms) \in Nat /\ MAXSYMS \in Nat
  BY TypeParts, BoundsAssumption DEF SymbolType
<1>2. ~InTable(n)
  BY DEF Unknown, InTable
<1>3. ~PassOne(n)
  BY <1>1, <1>2 DEF Once
<1>4. Progress \in Int
  <2>1. lineno \in Nat
    BY TypeParts DEF PlaceType
  <2> QED
    BY <2>1 DEF Progress
<1>5. \A e \in Nat : \A v : Event(file, pcs, e, n, v) => ~(e <= Progress)
  BY <1>3, EventMentioned
<1> QED
  BY <1>4, <1>5 DEF None

LEMMA FirstKept ==
  ASSUME TypeInv, TypeInv', Unique, Once, Mentioned, pass = 1, UNCHANGED pass, NameStep,
         \A i \in DOMAIN syms : FirstPass(syms[i].name, syms[i].val),
         NEW i \in DOMAIN syms', NEW b, NEW w, b = syms'[i].name, w = syms'[i].val
  PROVE  FirstPass(b, w)'
<1>1. Progress \in Nat /\ Progress' \in Nat /\ Progress <= Progress'
  BY DEF NameStep
<1>2. ASSUME Quiet(b), FirstPass(b, w)
      PROVE  FirstPass(b, w)'
  BY <1>1, <1>2, QuietStands DEF FirstPass
<1>3. CASE Kept
  <2>1. syms' = syms
    BY <1>3 DEF Kept, table
  <2>2. FirstPass(b, w) /\ Quiet(b)
    BY <1>3, <2>1 DEF Kept
  <2> QED
    BY <1>2, <2>2
<1>4. CASE Named
  <2>1. PICK n \in Texts, u \in 0..MAXCODE, type \in Kinds, sec \in {".text", ".data"} :
          /\ AddSym(n, u, type, sec)
          /\ \A a : (Covers(a) <=> a = n) /\ (a # n => Quiet(a))
          /\ Happens(n, u) \/ (u = 0 /\ Unknown(n) /\ Quiet(n))
    BY <1>4 DEF Named
  <2>2. /\ (\E j \in DOMAIN syms : Known(j, n, u)) \/ Entered(n, u) \/ Full(n)
        /\ syms \in Seq(Symbol) /\ syms' \in Seq(Symbol)
    <3>1. pass \in 1..2
      OBVIOUS
    <3> QED
      BY <2>1, <3>1, AddSays
  <2>3. \/ i \in DOMAIN syms /\ b = syms[i].name
           /\ (w = syms[i].val \/ (syms[i].name = n /\ w = u))
        \/ Entered(n, u) /\ b = n /\ w = u
    <3>1. \A j \in DOMAIN syms' :
            \/ /\ j \in DOMAIN syms /\ syms'[j].name = syms[j].name
               /\ syms'[j].val = syms[j].val \/ (syms[j].name = n /\ syms'[j].val = u)
            \/ Entered(n, u) /\ j \notin DOMAIN syms /\ syms'[j].name = n /\ syms'[j].val = u
      BY <2>2, EntriesAfter
    <3> QED
      BY <3>1
  <2>4. CASE b # n
    <3>1. i \in DOMAIN syms /\ b = syms[i].name /\ w = syms[i].val
      BY <2>3, <2>4
    <3>2. FirstPass(b, w) /\ Quiet(b)
      BY <2>1, <2>4, <3>1
    <3> QED
      BY <1>2, <3>2
  <2>5. CASE b = n /\ Happens(n, u)
    <3>1. w = u
      <4>1. CASE Entered(n, u) /\ i \notin DOMAIN syms
        BY <2>3, <4>1
      <4>2. CASE i \in DOMAIN syms
        <5>1. syms[i].name = n
          <6>1. CASE b = syms[i].name
            BY <2>5, <6>1
          <6>2. CASE Entered(n, u)
            BY <2>2, <2>5, <4>2, <6>2, EntriesAfter
          <6> QED
            BY <2>3, <6>1, <6>2
        <5>2. ~Entered(n, u) /\ ~Full(n)
          BY <4>2, <5>1 DEF Entered, Full, Unknown
        <5>3. PICK j \in DOMAIN syms : Known(j, n, u)
          BY <2>2, <5>2
        <5>4. i = j
          BY <4>2, <5>1, <5>3 DEF Known, Unique
        <5> QED
          BY <5>3, <5>4 DEF Known
      <4> QED
        BY <2>3, <4>1, <4>2
    <3>2. Standing(file', pcs', Progress', n, u)
      BY <1>1, <2>5, HappensStands
    <3> QED
      BY <2>5, <3>1, <3>2 DEF FirstPass
  <2>6. CASE b = n /\ Unknown(n) /\ Quiet(n)
    <3>1. Entered(n, u)
      <4>1. ~(i \in DOMAIN syms /\ b = syms[i].name)
        BY <2>6 DEF Unknown
      <4> QED
        BY <2>3, <4>1
    <3>2. None(file, pcs, Progress, n)
      BY <2>6, <3>1, UnknownNone DEF Entered
    <3>3. None(file', pcs', Progress', n)
      BY <1>1, <2>6, <3>2, QuietStands
    <3> QED
      BY <2>6, <3>3 DEF FirstPass
  <2> QED
    BY <2>1, <2>4, <2>5, <2>6
<1> QED
  BY <1>3, <1>4 DEF NameStep

\* an entry whose name the step does not mention
LEMMA SecondQuiet ==
  ASSUME Progress \in Nat, Progress' \in Nat, Progress <= Progress', UNCHANGED <<file, pcs>>,
         NEW b, NEW w, Quiet(b), SecondPass(b, w), b \in changed' <=> b \in changed,
         \A x : (x \in Values(b))' <=> x \in Values(b), LastSays(b, w)'
  PROVE  SecondPass(b, w)'
<1>1. \A v : Final(b, v)' <=> Final(b, v)
  BY DEF Final, Whole
<1>2. \A v : Seen(b, v)' <=> Seen(b, v)
  BY <1>1 DEF Seen
<1>3. /\ None(file, pcs, Progress, b) <=> None(file', pcs', Progress', b)
      /\ \A v : Standing(file, pcs, Progress, b, v) <=> Standing(file', pcs', Progress', b, v)
      /\ \A v : (\E e \in Nat : e <= Progress /\ Event(file, pcs, e, b, v))
                <=> (\E e \in Nat : e <= Progress' /\ Event(file', pcs', e, b, v))
  BY QuietStands
<1>4. /\ \A x : x \in Values(b) <=> \E e \in Nat : e <= Progress /\ Event(file, pcs, e, b, x)
      /\ \/ None(file, pcs, Progress, b) /\ (None(file, pcs, Whole, b) \/ Final(b, w))
         \/ Standing(file, pcs, Progress, b, w)
      /\ b \in changed <=> \E u, x : Seen(b, u) /\ Seen(b, x) /\ u # x
  BY DEF SecondPass
<1>5. \A x : (x \in Values(b))' <=> \E e \in Nat : e <= Progress' /\ Event(file', pcs', e, b, x)
  BY <1>3, <1>4
<1>6. None(file, pcs, Whole, b) <=> None(file', pcs', Whole', b)
  BY DEF Whole
<1>7. \/ None(file', pcs', Progress', b) /\ (None(file', pcs', Whole', b) \/ Final(b, w)')
      \/ Standing(file', pcs', Progress', b, w)
  BY <1>1, <1>3, <1>4, <1>6
<1>8. b \in changed' <=> \E u, x : Seen(b, u)' /\ Seen(b, x)' /\ u # x
  BY <1>2, <1>4
<1> QED
  BY <1>5, <1>7, <1>8 DEF SecondPass

\* an entry whose name the step mentions
LEMMA SecondHappens ==
  ASSUME Progress \in Nat, Progress' \in Nat, Progress <= Progress', UNCHANGED <<file, pcs>>,
         file \in Seq(Lines),
         NEW b, NEW w, NEW u, Happens(b, u), SecondPass(b, w),
         b \in changed' <=> b \in changed \/ w # u,
         \A x : (x \in Values(b))' <=> x \in Values(b) \/ x = u, LastSays(b, u)'
  PROVE  SecondPass(b, u)'
<1>1. \A v : Final(b, v)' <=> Final(b, v)
  BY DEF Final, Whole
<1>2. \A v : Seen(b, v)' <=> Seen(b, v) \/ v = u
  BY <1>1 DEF Seen
<1>3. /\ Standing(file', pcs', Progress', b, u)
      /\ \A v : (\E e \in Nat : e <= Progress' /\ Event(file', pcs', e, b, v))
                <=> (\E e \in Nat : e <= Progress /\ Event(file, pcs, e, b, v)) \/ v = u
  BY HappensStands
<1>4. /\ \A x : x \in Values(b) <=> \E e \in Nat : e <= Progress /\ Event(file, pcs, e, b, x)
      /\ \/ None(file, pcs, Progress, b) /\ (None(file, pcs, Whole, b) \/ Final(b, w))
         \/ Standing(file, pcs, Progress, b, w)
      /\ b \in changed <=> \E v, x : Seen(b, v) /\ Seen(b, x) /\ v # x
  BY DEF SecondPass
<1>5. \A x : (x \in Values(b))' <=> \E e \in Nat : e <= Progress' /\ Event(file', pcs', e, b, x)
  BY <1>3, <1>4
<1>6. ~None(file, pcs, Whole, b)
  <2>1. PICK e \in Nat : e <= Progress' /\ Event(file, pcs, e, b, u)
    BY <1>3
  <2>2. e <= Whole
    BY <2>1, EventBounds DEF Whole
  <2> QED
    <3>1. Whole \in Int
      BY DEF Whole
    <3> QED
      BY <2>1, <2>2, <3>1 DEF None
<1>7. Seen(b, w)
  <2>1. CASE Final(b, w)
    BY <2>1 DEF Seen
  <2>2. CASE Standing(file, pcs, Progress, b, w)
    <3>1. \E e \in Nat : e <= Progress /\ Event(file, pcs, e, b, w)
      BY <2>2 DEF Standing
    <3> QED
      BY <1>4, <3>1 DEF Seen
  <2> QED
    BY <1>4, <1>6, <2>1, <2>2
<1>8. b \in changed' <=> \E v, x : Seen(b, v)' /\ Seen(b, x)' /\ v # x
  <2>1. ASSUME b \in changed'
        PROVE  \E v, x : Seen(b, v)' /\ Seen(b, x)' /\ v # x
    BY <1>2, <1>4, <1>7, <2>1
  <2>2. ASSUME NEW v, NEW x, Seen(b, v)', Seen(b, x)', v # x
        PROVE  b \in changed'
    <3>1. (Seen(b, v) \/ v = u) /\ (Seen(b, x) \/ x = u)
      BY <1>2, <2>2
    <3>2. CASE Seen(b, v) /\ Seen(b, x)
      BY <1>4, <2>2, <3>2
    <3>3. CASE w = u
      <4>1. Seen(b, v) /\ Seen(b, x)
        BY <1>7, <3>1, <3>3
      <4> QED
        BY <1>4, <2>2, <4>1
    <3>4. CASE w # u
      BY <3>4
    <3> QED
      BY <3>3, <3>4
  <2> QED
    BY <2>1, <2>2
<1> QED
  BY <1>3, <1>5, <1>8 DEF SecondPass

LEMMA SecondKept ==
  ASSUME TypeInv, TypeInv', Unique, Once, Mentioned, pass = 2, UNCHANGED pass, ~stale, ~stale',
         StepPlace, NameStep, \A i \in DOMAIN syms : SecondPass(syms[i].name, syms[i].val),
         NEW i \in DOMAIN syms', NEW b, NEW w, b = syms'[i].name, w = syms'[i].val
  PROVE  SecondPass(b, w)'
<1>1. Progress \in Nat /\ Progress' \in Nat /\ Progress <= Progress' /\ UNCHANGED <<file, pcs>>
  BY DEF NameStep, StepPlace
<1>2. CASE Kept
  <2>1. syms' = syms /\ changed' = changed /\ mentions' = mentions
    BY <1>2 DEF Kept, table
  <2>2. SecondPass(b, w) /\ Quiet(b)
    BY <1>2, <2>1 DEF Kept
  <2>3. /\ \A x : (x \in Values(b))' <=> x \in Values(b)
        /\ LastSays(b, w)' <=> LastSays(b, w)
    BY <2>1 DEF Values, LastSays, Of
  <2>4. LastSays(b, w)'
    BY <2>2, <2>3 DEF SecondPass
  <2> QED
    BY <1>1, <2>1, <2>2, <2>3, <2>4, SecondQuiet
<1>3. CASE Named
  <2>1. PICK n \in Texts, u \in 0..MAXCODE, type \in Kinds, sec \in {".text", ".data"} :
          /\ AddSym(n, u, type, sec)
          /\ \A a : (Covers(a) <=> a = n) /\ (a # n => Quiet(a))
          /\ Happens(n, u) \/ (u = 0 /\ Unknown(n) /\ Quiet(n))
    BY <1>3 DEF Named
  <2>2. /\ (\E j \in DOMAIN syms : Known(j, n, u)) \/ Entered(n, u) \/ Full(n)
        /\ \A a, x : (x \in Values(a))' <=> x \in Values(a) \/ (a = n /\ x = u)
        /\ LastSays(n, u)'
        /\ \A a, x : a # n /\ LastSays(a, x) => LastSays(a, x)'
        /\ syms \in Seq(Symbol) /\ syms' \in Seq(Symbol)
    <3>1. pass \in 1..2
      OBVIOUS
    <3> QED
      BY <2>1, <3>1, AddSays
  <2>3. ~Entered(n, u)
    <3>1. PassOne(n)
      BY <2>1, CoversMentioned
    <3>2. pass \in 1..2
      OBVIOUS
    <3> QED
      BY <2>1, <3>1, <3>2, TableKept
  <2>4. /\ i \in DOMAIN syms /\ b = syms[i].name
        /\ w = syms[i].val \/ (b = n /\ w = u)
    <3>1. \A j \in DOMAIN syms' :
            \/ /\ j \in DOMAIN syms /\ syms'[j].name = syms[j].name
               /\ syms'[j].val = syms[j].val \/ (syms[j].name = n /\ syms'[j].val = u)
            \/ Entered(n, u) /\ j \notin DOMAIN syms /\ syms'[j].name = n /\ syms'[j].val = u
      BY <2>2, EntriesAfter
    <3> QED
      BY <2>3, <3>1
  <2>5. CASE b # n
    <3>1. SecondPass(b, w) /\ Quiet(b)
      BY <2>1, <2>4, <2>5
    <3>2. b \in changed' <=> b \in changed
      BY <2>2, <2>5 DEF Known, Entered, Full
    <3>3. \A x : (x \in Values(b))' <=> x \in Values(b)
      BY <2>2, <2>5
    <3>4. LastSays(b, w)'
      BY <2>2, <2>5, <3>1 DEF SecondPass
    <3> QED
      BY <1>1, <3>1, <3>2, <3>3, <3>4, SecondQuiet
  <2>6. CASE b = n
    <3>1. ~Unknown(n) /\ ~Full(n)
      BY <2>4, <2>6 DEF Unknown, Full
    <3>2. PICK j \in DOMAIN syms : Known(j, n, u)
      BY <2>2, <2>3, <3>1
    <3>3. i = j
      BY <2>4, <2>6, <3>2 DEF Known, Unique
    <3>4. Happens(b, u) /\ w = u
      BY <2>1, <2>6, <3>1, <3>2, <3>3 DEF Known
    <3> PICK x : x = syms[i].val
      OBVIOUS
    <3>5. SecondPass(b, x)
      BY <2>4
    <3>6. b \in changed' <=> b \in changed \/ x # u
      BY <2>6, <3>2, <3>3 DEF Known
    <3>7. (\A y : (y \in Values(b))' <=> y \in Values(b) \/ y = u) /\ LastSays(b, u)'
      BY <2>2, <2>6
    <3>8. file \in Seq(Lines)
      BY TypeParts DEF PlaceType
    <3>9. SecondPass(b, u)'
      BY <1>1, <3>4, <3>5, <3>6, <3>7, <3>8, SecondHappens
    <3> QED
      BY <3>4, <3>9
  <2> QED
    BY <2>5, <2>6
<1> QED
  BY <1>2, <1>3 DEF NameStep

\* what does not change what the names stand on
LEMMA NamesStay ==
  ASSUME NameInv, pass' = pass \/ (pass = 0 /\ pass' = 1),
         UNCHANGED <<target, file, pcs, lineno, phase, syms, changed, mentions, stale>>
  PROVE  NameInv'
<1>1. Progress' = Progress /\ Whole' = Whole
  BY DEF Progress, Whole
<1>2. Unique'
  BY DEF NameInv, Unique
<1>3. (pass' \in 0..1 <=> pass \in 0..1) /\ (pass' = 2 <=> pass = 2)
  OBVIOUS
<1>4. \A n : (PassOne(n)' <=> PassOne(n)) /\ (InTable(n)' <=> InTable(n))
  BY DEF PassOne, InTable
<1>5. Once'
  <2>1. pass' \in 0..1 => changed' = {} /\ \A k \in DOMAIN mentions' : mentions'[k].pass = 1
    BY <1>3 DEF NameInv, Once
  <2>2. \A n : PassOne(n)' => InTable(n)' \/ Len(syms') >= MAXSYMS
    BY <1>4 DEF NameInv, Once
  <2>3. pass' \in 0..1 \/ ~stale' => \A i \in DOMAIN syms' : PassOne(syms[i].name)'
    <3>1. pass' \in 0..1 \/ ~stale' => pass \in 0..1 \/ ~stale
      BY <1>3
    <3>2. pass \in 0..1 \/ ~stale => \A i \in DOMAIN syms : PassOne(syms[i].name)
      BY DEF NameInv, Once
    <3> QED
      BY <3>1, <3>2 DEF PassOne
  <2> QED
    BY <2>1, <2>2, <2>3 DEF Once
<1>6. ASSUME ~stale'
      PROVE  Mentioned'
  <2>1. Mentioned
    BY <1>6 DEF NameInv
  <2> QED
    BY <1>3, <1>4, <2>1 DEF Mentioned
<1>7. ASSUME ~stale', pass' \in 0..1, NEW i \in DOMAIN syms'
      PROVE  FirstPass(syms[i].name, syms[i].val)'
  <2>1. FirstPass(syms[i].name, syms[i].val)
    BY <1>3, <1>7 DEF NameInv
  <2> QED
    BY <1>1, <2>1 DEF FirstPass
<1>8. ASSUME ~stale', pass' = 2, NEW i \in DOMAIN syms'
      PROVE  SecondPass(syms[i].name, syms[i].val)'
  <2> PICK b, w : b = syms[i].name /\ w = syms[i].val
    OBVIOUS
  <2>1. SecondPass(b, w)
    BY <1>3, <1>8 DEF NameInv
  <2>2. /\ \A x : (x \in Values(b))' <=> x \in Values(b)
        /\ LastSays(b, w)' <=> LastSays(b, w)
    BY DEF Values, LastSays, Of
  <2>3. \A v : Seen(b, v)' <=> Seen(b, v)
    BY <1>1, <2>2 DEF Seen, Final
  <2>4. Final(b, w)' <=> Final(b, w)
    BY <1>1 DEF Final
  <2>5. SecondPass(b, w)'
    BY <1>1, <2>1, <2>2, <2>3, <2>4 DEF SecondPass
  <2>6. b = syms'[i].name /\ w = syms'[i].val
    OBVIOUS
  <2> QED
    BY <2>5, <2>6
<1> QED
  BY <1>2, <1>5, <1>6, <1>7, <1>8 DEF NameInv

\* between the passes
LEMMA NamesTurn ==
  ASSUME TypeInv, LineInv, NameInv, EndFile, pass = 1
  PROVE  NameInv'
<1>1. /\ pass' = 2 /\ lineno' = 0 /\ pcs' = Append(pcs, pc)
      /\ phase = "line" /\ phase' = "line" /\ UNCHANGED <<target, file, syms, changed, mentions, stale>>
  BY DEF EndFile, Running, table
<1>2. file \in Seq(Lines) /\ Len(file) \in Nat
  BY TypeParts DEF PlaceType
<1>3. lineno = Len(file) /\ Len(pcs) = Len(file)
  BY DEF LineInv, Counts
<1>4. \A k \in DOMAIN file : pcs'[k] = pcs[k]
  <2>1. pcs \in Seq(0..MAXCODE)
    BY TypeParts, Zenon DEF HistoryType
  <2>2. pc \in 0..MAXCODE
    BY PcCap
  <2>3. DOMAIN file = DOMAIN pcs
    BY <1>2, <1>3, <2>1
  <2> QED
    BY <1>1, <2>1, <2>2, <2>3
<1> PICK p \in Nat : p = 2 * Len(file)
  BY <1>2
<1>5. Progress = p /\ Whole = p /\ Whole' = p /\ Progress' = 0
  BY <1>1, <1>3 DEF Progress, Whole
<1>6. \A e \in Nat : e <= p => \A n, v : Event(file, pcs', e, n, v) <=> Event(file, pcs, e, n, v)
  <2> TAKE e \in Nat
  <2> HAVE e <= p
  <2> TAKE n, v
  <2> PICK f, c, d : f = file /\ c = pcs /\ d = pcs'
    OBVIOUS
  <2>1. /\ f \in Seq(Lines) /\ e <= 2 * Len(f) /\ Len(f) <= Len(f)
        /\ \A k \in DOMAIN f : f[k] = f[k] /\ d[k] = c[k]
    BY <1>2, <1>4
  <2>2. Event(f, d, e, n, v) <=> Event(f, c, e, n, v)
    BY ONLY <2>1, EventSame
  <2> QED
    BY <2>2
<1>7. \A n : /\ None(file, pcs, p, n) => None(file, pcs', p, n)
             /\ \A v : Standing(file, pcs, p, n, v) => Standing(file, pcs', p, n, v)
  <2> TAKE n
  <2> PICK f, c, d : f = file /\ c = pcs /\ d = pcs'
    OBVIOUS
  <2>1. SameEvents(f, c, p, f, d, p, n)
    BY <1>6 DEF SameEvents
  <2>2. p \in Int /\ p <= p
    OBVIOUS
  <2>3. /\ None(f, c, p, n) <=> None(f, d, p, n)
        /\ \A v : Standing(f, c, p, n, v) <=> Standing(f, d, p, n, v)
    BY ONLY <2>1, <2>2, SameStands
  <2> QED
    BY <2>3
<1>8. \A n : (PassOne(n)' <=> PassOne(n)) /\ (InTable(n)' <=> InTable(n))
  BY <1>1 DEF PassOne, InTable
<1>9. Unique' /\ Once'
  <2>1. Unique /\ Once
    BY DEF NameInv
  <2>2. Unique'
    BY <1>1, <2>1 DEF Unique
  <2>3. \A n : PassOne(n)' => InTable(n)' \/ Len(syms') >= MAXSYMS
    BY <1>1, <1>8, <2>1 DEF Once
  <2>4. \A i \in DOMAIN syms' : PassOne(syms[i].name)'
    <3>1. \A i \in DOMAIN syms : PassOne(syms[i].name)
      BY <2>1 DEF Once
    <3> QED
      BY <1>1, <3>1 DEF PassOne
  <2>5. pass' \notin 0..1
    BY <1>1
  <2> QED
    BY <2>2, <2>3, <2>4, <2>5 DEF Once
<1>10. ASSUME ~stale'
       PROVE  Mentioned'
  <2>1. Mentioned
    BY <1>1, <1>10 DEF NameInv
  <2> QED
    BY <1>1, <1>8, <2>1 DEF Mentioned
<1>11. ASSUME ~stale', NEW i \in DOMAIN syms'
       PROVE  SecondPass(syms[i].name, syms[i].val)'
  <2> PICK b, w : b = syms[i].name /\ w = syms[i].val
    OBVIOUS
  <2>1. FirstPass(b, w)
    BY <1>1, <1>11 DEF NameInv
  <2>2. changed' = {} /\ \A k \in DOMAIN mentions' : mentions'[k].pass = 1
    BY <1>1 DEF NameInv, Once
  <2>3. \A j : ~(j \in Of(b))'
    BY <2>2 DEF Of
  <2>4. (\A x : ~(x \in Values(b))') /\ LastSays(b, w)'
    BY <2>3 DEF Values, LastSays
  <2>5. \A e \in Nat : \A n, v : e <= 0 => ~Event(file', pcs', e, n, v)
    <3> TAKE e \in Nat
    <3> TAKE n, v
    <3> HAVE e <= 0
    <3> PICK f, d : f = file' /\ d = pcs'
      OBVIOUS
    <3>1. f \in Seq(Lines)
      BY <1>1, <1>2
    <3>2. Event(f, d, e, n, v) => e >= 1
      BY ONLY <3>1, EventBounds
    <3> QED
      BY <3>2
  <2>6. None(file', pcs', 0, b)
    BY <2>5 DEF None
  <2>7. None(file', pcs', p, b) \/ Standing(file', pcs', p, b, w)
    BY <1>1, <1>5, <1>7, <2>1 DEF FirstPass
  <2>8. Final(b, w)' <=> Standing(file', pcs', p, b, w)
    BY <1>5 DEF Final
  <2>9. ASSUME NEW u, NEW x, Seen(b, u)', Seen(b, x)'
        PROVE  u = x
    <3>1. Standing(file', pcs', p, b, u) /\ Standing(file', pcs', p, b, x)
      BY <1>5, <2>4, <2>9 DEF Seen, Final
    <3> PICK f, d : f = file' /\ d = pcs'
      OBVIOUS
    <3>2. f \in Seq(Lines) /\ Standing(f, d, p, b, u) /\ Standing(f, d, p, b, x)
      BY <1>1, <1>2, <3>1
    <3> QED
      BY ONLY <3>2, StandingOnce
  <2>10. SecondPass(b, w)'
    <3>1. \A x : (x \in Values(b))' <=> \E e \in Nat : e <= Progress' /\ Event(file', pcs', e, b, x)
      BY <1>5, <2>4, <2>5
    <3>2. None(file', pcs', Progress', b) /\ (None(file', pcs', Whole', b) \/ Final(b, w)')
      BY <1>5, <2>6, <2>7, <2>8
    <3>3. b \in changed' <=> \E u, x : Seen(b, u)' /\ Seen(b, x)' /\ u # x
      BY <2>2, <2>9
    <3> QED
      BY <2>4, <3>1, <3>2, <3>3 DEF SecondPass
  <2>11. b = syms'[i].name /\ w = syms'[i].val
    BY <1>1
  <2> QED
    BY <2>10, <2>11
<1>12. pass' = 2 /\ pass' \notin 0..1
  BY <1>1
<1> QED
  BY <1>9, <1>10, <1>11, <1>12 DEF NameInv

LEMMA NamesStep ==
  ASSUME TypeInv, TypeInv', LineInv, NameInv, StepPlace, [Next]_vars, ~OpenFile, ~EndFile
  PROVE  NameInv'
<1>1. UNCHANGED pass /\ pass \in 1..2
  BY DEF StepPlace
<1>2. /\ stale => stale'
      /\ \/ UNCHANGED table
         \/ \E n \in Texts, u \in 0..MAXCODE, type \in Kinds, sec \in {".text", ".data"} :
              AddSym(n, u, type, sec)
  BY StepMentions
<1>3. ~stale' => ~stale
  BY <1>2
<1>4. Unique /\ Once
  BY DEF NameInv
<1>5. ~stale' => NameStep \/ UNCHANGED vars
  BY StepNames
<1>6. CASE UNCHANGED vars
  BY <1>6, NamesStay DEF vars, place, table
<1>7. CASE ~UNCHANGED vars
  <2>1. ~stale' => Mentioned /\ NameStep
    BY <1>3, <1>5, <1>7 DEF NameInv
  <2>2. Unique' /\ Once'
    <3>1. CASE UNCHANGED table
      <4>1. Unique' /\ (changed' = changed /\ mentions' = mentions /\ syms' = syms)
        BY <1>4, <3>1 DEF Unique, table
      <4>2. \A b : (PassOne(b)' <=> PassOne(b)) /\ (InTable(b)' <=> InTable(b))
        BY <4>1 DEF PassOne, InTable
      <4>3. pass' \in 0..1 => changed' = {} /\ \A k \in DOMAIN mentions' : mentions'[k].pass = 1
        BY <1>1, <1>4, <4>1 DEF Once
      <4>4. \A b : PassOne(b)' => InTable(b)' \/ Len(syms') >= MAXSYMS
        BY <1>4, <4>1, <4>2 DEF Once
      <4>5. ASSUME pass' \in 0..1 \/ ~stale'
            PROVE  \A i \in DOMAIN syms' : PassOne(syms[i].name)'
        <5>1. pass \in 0..1 \/ ~stale
          BY <1>1, <1>3, <4>5
        <5>2. \A i \in DOMAIN syms : PassOne(syms[i].name)
          BY <1>4, <5>1 DEF Once
        <5> QED
          BY <4>1, <5>2 DEF PassOne
      <4>6. Once'
        BY <4>3, <4>4, <4>5 DEF Once
      <4> QED
        BY <4>1, <4>6
    <3>2. CASE ~stale' /\ Named
      <4>1. PICK n \in Texts, u \in 0..MAXCODE, type \in Kinds, sec \in {".text", ".data"} :
              AddSym(n, u, type, sec) /\ \A a : (Covers(a) <=> a = n)
        BY <3>2 DEF Named
      <4>2. pass = 2 /\ ~stale' => PassOne(n)
        BY <2>1, <4>1, CoversMentioned
      <4> QED
        BY <1>1, <1>2, <1>4, <4>1, <4>2, TableKept
    <3>3. CASE stale' /\ ~UNCHANGED table
      <4>1. PICK n \in Texts, u \in 0..MAXCODE, type \in Kinds, sec \in {".text", ".data"} :
              AddSym(n, u, type, sec)
        BY <1>2, <3>3
      <4>2. pass = 2 /\ ~stale' => PassOne(n)
        BY <3>3
      <4> QED
        BY <1>1, <1>2, <1>4, <4>1, <4>2, TableKept
    <3>4. ~stale' => UNCHANGED table \/ Named
      BY <2>1 DEF NameStep, Kept
    <3> QED
      BY <3>1, <3>2, <3>3, <3>4
  <2>3. ASSUME ~stale'
        PROVE  Mentioned'
    <3>1. CASE Kept
      <4>1. \A b : PassOne(b)' <=> PassOne(b)
        BY <3>1 DEF Kept, table, PassOne
      <4>2. pass = 1 => \A b : Covers(b) => PassOne(b)'
        <5>1. pass = 1 => \A b : InTable(b) => PassOne(b)
          <6>1. pass = 1 => \A i \in DOMAIN syms : PassOne(syms[i].name)
            BY <1>4 DEF Once
          <6> QED
            BY <6>1 DEF InTable
        <5> QED
          BY <3>1, <4>1, <5>1 DEF Kept
      <4> QED
        BY <2>1, <2>3, <4>1, <4>2, MentionedKept
    <3>2. CASE Named
      <4>1. PICK n \in Texts, u \in 0..MAXCODE, type \in Kinds, sec \in {".text", ".data"} :
              AddSym(n, u, type, sec) /\ \A a : (Covers(a) <=> a = n)
        BY <3>2 DEF Named
      <4>2. \A b : PassOne(b)' <=> PassOne(b) \/ (pass = 1 /\ b = n)
        BY <1>1, <4>1, AddSays
      <4>3. /\ \A b : PassOne(b) => PassOne(b)'
            /\ pass = 1 => \A b : Covers(b) => PassOne(b)'
        BY <4>1, <4>2
      <4> QED
        BY <2>1, <2>3, <4>3, MentionedKept
    <3> QED
      BY <2>1, <2>3, <3>1, <3>2 DEF NameStep
  <2>4. ASSUME ~stale', pass' \in 0..1, NEW i \in DOMAIN syms'
        PROVE  FirstPass(syms[i].name, syms[i].val)'
    <3> PICK b, w : b = syms'[i].name /\ w = syms'[i].val
      OBVIOUS
    <3>1. pass = 1
      BY <1>1, <2>4
    <3>2. \A j \in DOMAIN syms : FirstPass(syms[j].name, syms[j].val)
      BY <1>3, <2>4, <3>1 DEF NameInv
    <3>3. FirstPass(b, w)'
      BY <1>1, <1>4, <2>1, <2>4, <3>1, <3>2, FirstKept
    <3> QED
      BY <3>3
  <2>5. ASSUME ~stale', pass' = 2, NEW i \in DOMAIN syms'
        PROVE  SecondPass(syms[i].name, syms[i].val)'
    <3> PICK b, w : b = syms'[i].name /\ w = syms'[i].val
      OBVIOUS
    <3>1. pass = 2
      BY <1>1, <2>5
    <3>2. \A j \in DOMAIN syms : SecondPass(syms[j].name, syms[j].val)
      BY <1>3, <2>5, <3>1 DEF NameInv
    <3>3. SecondPass(b, w)'
      BY <1>1, <1>3, <1>4, <2>1, <2>5, <3>1, <3>2, SecondKept
    <3> QED
      BY <3>3
  <2> QED
    BY <2>2, <2>3, <2>4, <2>5 DEF NameInv
<1> QED
  BY <1>6, <1>7

LEMMA NameNext ==
  ASSUME TypeInv, TypeInv', LineInv, LineInv', NameInv, [Next]_vars
  PROVE  NameInv'
<1>1. CASE OpenFile
  <2>1. pass' = 1 \/ pass' = pass
    BY <1>1 DEF OpenFile
  <2>2. /\ pass = 0
        /\ UNCHANGED <<target, file, pcs, lineno, phase, syms, changed, mentions, stale>>
    BY <1>1, TypeParts DEF OpenFile, PlaceType, table
  <2> QED
    BY <2>1, <2>2, NamesStay
<1>2. CASE EndFile /\ pass = 1
  BY <1>2, NamesTurn
<1>3. CASE EndFile /\ pass # 1
  <2>1. UNCHANGED <<target, pass, file, pcs, lineno, phase, syms, changed, mentions, stale>>
    BY <1>3 DEF EndFile, table
  <2> QED
    BY <2>1, NamesStay
<1>4. CASE ~OpenFile /\ ~EndFile
  <2>1. StepPlace \/ UNCHANGED vars
    BY <1>4, StepPlaces
  <2>2. CASE UNCHANGED vars
    BY <2>2, NamesStay DEF vars, place, table
  <2>3. CASE StepPlace
    BY <1>4, <2>3, NamesStep
  <2> QED
    BY <2>1, <2>2, <2>3
<1> QED
  BY <1>1, <1>2, <1>3, <1>4

LEMMA NameInit == Init => NameInv
<1> SUFFICES ASSUME Init PROVE NameInv
  OBVIOUS
<1>1. pass = 0 /\ syms = <<>> /\ changed = {} /\ mentions = <<>> /\ file = <<>>
  BY Zenon DEF Init
<1>2. DOMAIN syms = {} /\ DOMAIN mentions = {} /\ DOMAIN file = {}
  BY <1>1
<1>3. Unique
  BY <1>2 DEF Unique
<1>4. \A n : ~PassOne(n)
  BY <1>2 DEF PassOne
<1>5. Once
  BY <1>1, <1>2, <1>4 DEF Once
<1>6. Mentioned
  BY <1>2 DEF Mentioned
<1> QED
  BY <1>1, <1>2, <1>3, <1>5, <1>6 DEF NameInv

\* the passes are over when the second one has read the whole file, or could not open it
Done == status = "done" => pass = 2 /\ phase = "line" /\ lineno \in {0, Len(file)}

LEMMA DoneNext ==
  ASSUME TypeInv, Done, [Next]_vars
  PROVE  Done'
<1>1. CASE OpenFile
  BY <1>1 DEF OpenFile, Done
<1>2. CASE EndFile
  <2>1. pass = 1 => status' = "run"
    BY <1>2 DEF EndFile, Running
  <2>2. pass # 1 => pass \in {0, 2} /\ status = "run"
    BY <1>2, TypeParts DEF EndFile, Running, PlaceType
  <2>3. status = "run" => pass # 0
    BY TypeParts DEF PlaceType
  <2>4. pass = 2 => pass' = 2 /\ phase' = "line" /\ lineno' \in {0, Len(file')}
    BY <1>2 DEF EndFile, Running
  <2> QED
    BY <2>1, <2>2, <2>3, <2>4 DEF Done
<1>3. CASE EmptyLine \/ Unlabelled \/ Labelled
  BY <1>3 DEF EmptyLine, Unlabelled, Labelled, Reading, Running, Done
<1>4. CASE Statements
  <2>1. status = "run"
    BY <1>4 DEF Statements, SetSection, DeclareSymbol, BeginValues, Value, EndValues, Ascii, Space,
      UnknownDirective, Call, Return, PushPop, Unsupported, Directive, Instruction, Running
  <2>2. EndLine \/ Enter("values") \/ UNCHANGED place
    BY <1>4 DEF Statements, SetSection, DeclareSymbol, BeginValues, Value, EndValues, Ascii, Space,
      UnknownDirective, Call, Return, PushPop, Unsupported
  <2> QED
    BY <2>1, <2>2 DEF EndLine, Enter, place, Done
<1>5. CASE Stopped \/ UNCHANGED vars
  BY <1>5 DEF Stopped, vars, place, Done
<1> QED
  BY <1>1, <1>2, <1>3, <1>4, <1>5 DEF Next, Passes

Inv == TypeInv /\ LineInv /\ NameInv /\ Done

LEMMA InvHolds == Spec => []Inv
<1>1. Init => Inv
  <2> SUFFICES ASSUME Init PROVE Inv
    OBVIOUS
  <2>1. status = "start"
    BY Zenon DEF Init
  <2> QED
    BY <2>1, TypeInit, LineInit, NameInit DEF Inv, Done
<1>2. Inv /\ [Next]_vars => Inv'
  <2> SUFFICES ASSUME Inv, [Next]_vars PROVE Inv'
    OBVIOUS
  <2>1. TypeInv'
    BY TypeNext DEF Inv
  <2>2. LineInv'
    BY LineNext DEF Inv
  <2>3. NameInv'
    BY <2>1, <2>2, NameNext DEF Inv
  <2>4. Done'
    BY DoneNext DEF Inv
  <2> QED
    BY <2>1, <2>2, <2>3, <2>4 DEF Inv
<1> QED
  BY <1>1, <1>2, PTL DEF Spec

\* PassesAgree: the two passes of assemble_file() find every line at the same pc, and the
\* second enters no symbol, as long as no statement took something from an earlier line.
THEOREM PassesCorrect == Spec => []PassesAgree
<1>1. Inv => PassesAgree
  <2> SUFFICES ASSUME Inv, pass = 2, phase = "line", ~stale
               PROVE  /\ pc = pcs[lineno + 1]
                      /\ \A i \in DOMAIN syms : \E k \in DOMAIN mentions :
                           mentions[k].pass = 1 /\ mentions[k].name = syms[i].name
    BY DEF PassesAgree
  <2>1. pc = pcs[lineno + 1]
    BY PassesMeet DEF Inv
  <2>2. \A i \in DOMAIN syms : PassOne(syms[i].name)
    BY DEF Inv, NameInv, Once
  <2> QED
    BY <2>1, <2>2 DEF PassOne
<1> QED
  BY <1>1, InvHolds, PTL

\* ChangedNames: add_sym() reports a name in the second pass when its label and its
\* declarations disagree, in whatever order, and the last mention decides its value.
THEOREM NamesCorrect == Spec => []ChangedNames
<1>1. Inv => ChangedNames
  <2> SUFFICES ASSUME Inv, status = "done", ~stale, NEW i \in DOMAIN syms, NEW n, NEW w,
                      n = syms[i].name, w = syms[i].val
               PROVE  /\ n \in changed <=> \E u, v \in Values(n) : u # v
                      /\ \A k \in Of(n) : (\A j \in Of(n) : j <= k) => w = mentions[k].val
    BY DEF ChangedNames
  <2>1. pass = 2 /\ phase = "line" /\ lineno \in {0, Len(file)}
    BY DEF Inv, Done
  <2>2. SecondPass(n, w)
    BY <2>1 DEF Inv, NameInv
  <2>3. ASSUME lineno = Len(file)
        PROVE  n \in changed <=> \E u, v \in Values(n) : u # v
    <3>1. Progress = Whole
      BY <2>1, <2>3 DEF Progress, Whole
    <3>2. \A x : Final(n, x) => x \in Values(n)
      <4> TAKE x
      <4> HAVE Final(n, x)
      <4>1. \E e \in Nat : e <= Progress /\ Event(file, pcs, e, n, x)
        BY <3>1 DEF Final, Standing
      <4> QED
        BY <2>2, <4>1 DEF SecondPass
    <3>3. \A x : Seen(n, x) <=> x \in Values(n)
      BY <3>2 DEF Seen
    <3> QED
      BY <2>2, <3>3 DEF SecondPass
  <2>4. ASSUME lineno = 0
        PROVE  n \in changed <=> \E u, v \in Values(n) : u # v
    <3>0. file \in Seq(Lines)
      BY TypeParts DEF Inv, PlaceType
    <3>1. Progress = 0
      BY <2>1, <2>4 DEF Progress
    <3>2. \A x : x \notin Values(n)
      <4> TAKE x
      <4>1. ASSUME NEW e \in Nat, e <= Progress, Event(file, pcs, e, n, x)
            PROVE  FALSE
        <5>1. e >= 1
          BY <3>0, <4>1, EventBounds
        <5> QED
          BY <3>1, <4>1, <5>1
      <4> QED
        BY <2>2, <4>1 DEF SecondPass
    <3>3. \A u, v : Seen(n, u) /\ Seen(n, v) => u = v
      BY <3>0, <3>2, StandingOnce DEF Seen, Final
    <3> QED
      BY <2>2, <3>2, <3>3 DEF SecondPass
  <2>5. LastSays(n, w)
    BY <2>2 DEF SecondPass
  <2> QED
    BY <2>1, <2>3, <2>4, <2>5 DEF LastSays
<1> QED
  BY <1>1, InvHolds, PTL
=============================================================================
