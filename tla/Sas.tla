-------------------------------- MODULE Sas --------------------------------
(***************************************************************************)
(* The simple assembler sas.c: it reads its file twice.  In both passes it *)
(* emits code and enters symbols; a symbol has its value from pass 1, pass *)
(* 2 checks that it has not changed and notes the relocations.  Errors are *)
(* printed and assembling goes on.                                         *)
(*                                                                         *)
(* A line is a sequence of tokens, chosen in pass 1 and read again in pass *)
(* 2.  pc and codesize are reset and incremented together: pc stands for   *)
(* both.  An action is one line's start, one statement or one datum.       *)
(***************************************************************************)
EXTENDS Integers, Sequences

CONSTANTS
  Lines, MaxLines,          \* lines a file may have, and how many
  MAXSYMS, MAXRELS, MAXCODE

ASSUME BoundsAssumption ==
  MaxLines \in Nat /\ MAXSYMS \in Nat /\ MAXRELS \in Nat /\ MAXCODE \in Nat

VARIABLES
  target, status, pass,
  phase,                    \* "line": between lines; "statement"; "values": a list of data
  file, lineno, rest,       \* the file's lines, those read in this pass, tokens left of one
  token, tokval,            \* last token and number, kept from line to line and pass to pass
  section, width,
  code,                     \* bytes: "op", "hole" (to be relocated) or "datum"
  syms,                     \* [name, val, type, sec]
  rels,                     \* [off, sym]; sym is one more than the code's, 0 for its -1
  changed,                  \* names reported as "Symbol value changed between passes"
  pcs, mentions, stale      \* history: pc at each line in pass 1; calls of add_sym();
                            \* a statement used a token or number of an earlier line

place == <<target, status, pass, phase, file, lineno>>
lexer == <<rest, token, tokval>>
table == <<syms, changed, mentions>>
vars == <<place, lexer, section, width, code, table, rels, pcs, stale>>

pc == Len(code)

\* the tokens of a line
Word(w) == [kind |-> "I", text |-> w]
Colon(w) == [kind |-> ":", text |-> w]
Comma == [kind |-> ",", text |-> ","]
Num(n) == [kind |-> "N", value |-> n]
String(n) == [kind |-> "string", value |-> n]
BadChar == [kind |-> "bad"]

\* the tokens of the lines, and what get_token() can leave in token
LineTokens == UNION {{l[i] : i \in DOMAIN l} : l \in Lines}
Texts == {""} \cup {t.text : t \in {u \in LineTokens : u.kind \in {"I", ":", ","}}}

ASSUME LinesAssumption ==
  /\ Lines \subseteq Seq(LineTokens)
  /\ \A t \in LineTokens : /\ t.kind \in {"I", ":", ",", "N", "string", "bad"}
                           /\ t.kind = "N" => t.value \in Int
                           /\ t.kind = "string" => t.value \in Nat

Directives == {".text", ".data", ".globl", ".global", ".extern", ".byte", ".word", ".long", ".int",
               ".quad", ".ascii", ".asciz", ".space", ".zero", ".other"}
Width == [d \in {".byte", ".word", ".long", ".int", ".quad"} |->
            CASE d = ".byte" -> 1 [] d = ".word" -> 2 [] d = ".quad" -> 8 [] OTHER -> 4]

\* get_token() on the tokens ts, with the last token and number: a number leaves token
\* as it was, and so does a character it does not know, which it does not pass over
GetToken(ts, last, val) ==
  IF ts = <<>> THEN [tok |-> "end", token |-> "", tokval |-> val, rest |-> ts]
  ELSE LET t == Head(ts) IN
    CASE t.kind = "N" -> [tok |-> "N", token |-> last, tokval |-> t.value, rest |-> Tail(ts)]
      [] t.kind \in {"bad", "string"} -> [tok |-> "end", token |-> last, tokval |-> val, rest |-> ts]
      [] OTHER -> [tok |-> t.kind, token |-> t.text, tokval |-> val, rest |-> Tail(ts)]
Got == GetToken(rest, token, tokval)
After(g) == GetToken(g.rest, g.token, g.tokval)
Reads(g) == rest' = g.rest /\ token' = g.token /\ tokval' = g.tokval

Running(p) == status = "run" /\ phase = p
Enter(p) == phase' = p /\ UNCHANGED <<target, status, pass, file, lineno>>
EndLine == Enter("line")
-----------------------------------------------------------------------------
(* emit_byte(): a byte beyond the buffer is dropped and reported *)
Bytes(n, b) == [k \in 1..n |-> b]
\* Mutant: no limit.
WithAllBytes(c, s) == c \o s

WithBytes(c, s) == SubSeq(c \o s, 1, IF Len(c \o s) < MAXCODE THEN Len(c \o s) ELSE MAXCODE)
Emit(s) == code' = WithBytes(code, s)

SymbolsNamed(name) == {i \in DOMAIN syms : syms[i].name = name}
Lookup(name) == IF SymbolsNamed(name) = {} THEN 0 ELSE CHOOSE i \in SymbolsNamed(name) : TRUE

\* Mutant: the value is compared in both passes.
AddSymComparesAlways(name, val, type, sec) ==
  LET i == Lookup(name)
  IN /\ mentions' = Append(mentions, [pass |-> pass, name |-> name, val |-> val, type |-> type])
     /\ changed' = IF i # 0 /\ syms[i].val # val THEN changed \cup {name} ELSE changed
     /\ syms' = IF i # 0 THEN [syms EXCEPT ![i].val = val, ![i].type = IF type = "global" THEN type ELSE @]
                ELSE IF Len(syms) < MAXSYMS
                     THEN Append(syms, [name |-> name, val |-> val, type |-> type, sec |-> sec])
                     ELSE syms

\* a known symbol gets the new value, whoever mentions it; an entry beyond the table is
\* reported
AddSym(name, val, type, sec) ==
  LET i == Lookup(name)
  IN /\ mentions' = Append(mentions, [pass |-> pass, name |-> name, val |-> val, type |-> type])
     /\ changed' = IF pass = 2 /\ i # 0 /\ syms[i].val # val THEN changed \cup {name} ELSE changed
     /\ syms' = IF i # 0 THEN [syms EXCEPT ![i].val = val, ![i].type = IF type = "global" THEN type ELSE @]
                ELSE IF Len(syms) < MAXSYMS
                     THEN Append(syms, [name |-> name, val |-> val, type |-> type, sec |-> sec])
                     ELSE syms
-----------------------------------------------------------------------------
(* assemble_file(), process_line() *)

OpenFile ==
  /\ status = "start"
  /\ \/ status' = "run" /\ pass' = 1
     \/ status' = "failed" /\ UNCHANGED pass
  /\ UNCHANGED <<target, phase, file, lineno, lexer, section, width, code, table, rels, pcs, stale>>

\* the next line of the file is l
Reading(l) ==
  /\ Running("line")
  /\ lineno' = lineno + 1
  /\ IF pass = 1 THEN /\ Len(file) < MaxLines /\ file' = Append(file, l)
                      /\ pcs' = Append(pcs, pc)
     ELSE lineno < Len(file) /\ l = file[lineno + 1] /\ UNCHANGED <<file, pcs>>
  /\ UNCHANGED <<target, status, pass>>

EmptyLine ==
  /\ \E l \in Lines : LET g == GetToken(l, token, tokval)
                      IN Reading(l) /\ g.tok = "end" /\ Reads(g)
  /\ UNCHANGED <<phase, section, width, code, table, rels, stale>>

\* a line that begins with a number is a statement named by the token of the line before
Unlabelled ==
  /\ \E l \in Lines : LET g == GetToken(l, token, tokval)
                      IN /\ Reading(l) /\ g.tok \notin {"end", ":"} /\ Reads(g)
                         /\ stale' = (stale \/ g.tok = "N")
  /\ phase' = "statement"
  /\ UNCHANGED <<section, width, code, table, rels>>

\* only the first label of a line is one; a number behind it is named by the label
Labelled ==
  /\ \E l \in Lines : LET g == GetToken(l, token, tokval)
                          h == After(g)
                      IN /\ Reading(l) /\ g.tok = ":" /\ Reads(h)
                         /\ AddSym(g.token, pc, "local", section)
                         /\ phase' = IF h.tok = "end" THEN "line" ELSE "statement"
  /\ UNCHANGED <<section, width, code, rels, stale>>

\* Mutant: the code of pass 1 is kept.
EndFileKeeps ==
  /\ Running("line")
  /\ IF pass = 1
     THEN /\ pass' = 2 /\ lineno' = 0 /\ UNCHANGED code /\ pcs' = Append(pcs, pc)
          /\ UNCHANGED status
     ELSE /\ lineno \in {0, Len(file)} /\ status' \in {"done", "failed"}
          /\ UNCHANGED <<pass, lineno, code, pcs>>
  /\ UNCHANGED <<target, phase, file, lexer, section, width, table, rels, stale>>

\* between the passes pc and codesize are reset, and nothing else; pass 2 reads no line
\* when the file cannot be opened again, which is not checked; after it the output file
\* is written, if it can be created
EndFile ==
  /\ Running("line")
  /\ IF pass = 1
     THEN /\ pass' = 2 /\ lineno' = 0 /\ code' = <<>> /\ pcs' = Append(pcs, pc)
          /\ UNCHANGED status
     ELSE /\ lineno \in {0, Len(file)} /\ status' \in {"done", "failed"}
          /\ UNCHANGED <<pass, lineno, code, pcs>>
  /\ UNCHANGED <<target, phase, file, lexer, section, width, table, rels, stale>>
-----------------------------------------------------------------------------
(* parse_directive() *)
Directive(names) == Running("statement") /\ token \in names

SetSection ==
  /\ Directive({".text", ".data"})
  /\ section' = token
  /\ EndLine
  /\ UNCHANGED <<lexer, width, code, table, rels, pcs, stale>>

\* .globl and .extern set the value of their symbol to 0; the symbol is the directive
\* itself when a number or an unknown character follows
DeclareSymbol ==
  /\ Directive({".globl", ".global", ".extern"})
  /\ Reads(Got)
  /\ AddSym(Got.token, 0, IF token = ".extern" THEN "extern" ELSE "global", section)
  /\ EndLine
  /\ UNCHANGED <<section, width, code, rels, pcs, stale>>

BeginValues ==
  /\ Directive(DOMAIN Width)
  /\ width' = Width[token]
  /\ Enter("values")
  /\ UNCHANGED <<lexer, section, code, table, rels, pcs, stale>>

\* one number, and the comma that announces another
Value ==
  /\ Running("values") /\ Got.tok = "N"
  /\ Emit(Bytes(width, "datum"))
  /\ Reads(After(Got))
  /\ IF After(Got).tok = "," THEN UNCHANGED place ELSE EndLine
  /\ UNCHANGED <<section, width, table, rels, pcs, stale>>

EndValues ==
  /\ Running("values") /\ Got.tok # "N"
  /\ Reads(Got)
  /\ EndLine
  /\ UNCHANGED <<section, width, code, table, rels, pcs, stale>>

Ascii ==
  /\ Directive({".ascii", ".asciz"})
  /\ IF rest # <<>> /\ Head(rest).kind = "string"
     THEN Emit(Bytes(Head(rest).value + (IF token = ".asciz" THEN 1 ELSE 0), "datum"))
     ELSE UNCHANGED code
  /\ EndLine
  /\ UNCHANGED <<lexer, section, width, table, rels, pcs, stale>>

\* without a number the count is the last number read anywhere
Space ==
  /\ Directive({".space", ".zero"})
  /\ Reads(Got)
  /\ Emit(Bytes(Got.tokval, "datum"))
  /\ stale' = (stale \/ Got.tok # "N")
  /\ EndLine
  /\ UNCHANGED <<section, width, table, rels, pcs>>

UnknownDirective ==
  /\ Directive({".other"})
  /\ EndLine
  /\ UNCHANGED <<lexer, section, width, code, table, rels, pcs, stale>>
-----------------------------------------------------------------------------
(* parse_instruction(): the operands are read before the opcode is looked at *)
Operands ==
  LET first == Got
      comma == After(first)
      second == After(comma)
  IN IF first.tok = "end" THEN [op1 |-> "", last |-> first]
     ELSE [op1 |-> first.token,
           last |-> IF comma.tok = "," THEN second ELSE comma]

Instruction(opcodes) == Running("statement") /\ token \notin Directives /\ token \in opcodes[target]
Opcode(x64, arm64) == [t \in {"x64", "arm64"} |-> IF t = "x64" THEN x64 ELSE arm64]

\* add_reloc(): relocations are noted in pass 2 only; one beyond the table is reported
AddReloc(off, sym) ==
  rels' = IF pass = 2 /\ Len(rels) < MAXRELS THEN Append(rels, [off |-> off, sym |-> sym]) ELSE rels

\* bl has its opcode in the placeholder
CallOpcode == IF target = "x64" THEN <<"op">> ELSE <<>>
Placeholder == Bytes(4, "hole")
NextEntry == IF Len(syms) < MAXSYMS THEN Len(syms) + 1 ELSE 0

\* Mutant: the relocation is noted behind the placeholder.
CallBehind ==
  /\ Instruction(Opcode({"call"}, {"bl"}))
  /\ LET i == Lookup(Operands.op1)
     IN /\ IF i # 0 THEN UNCHANGED table ELSE AddSym(Operands.op1, 0, "extern", ".text")
        /\ AddReloc(Len(WithBytes(code, CallOpcode \o Placeholder)), IF i # 0 THEN i ELSE NextEntry)
  /\ Emit(CallOpcode \o Placeholder)
  /\ Reads(Operands.last) /\ EndLine
  /\ UNCHANGED <<section, width, pcs, stale>>

\* an unknown symbol is entered as external with value 0; pass 2 notes a relocation
\* for the four bytes that follow the opcode
Call ==
  /\ Instruction(Opcode({"call"}, {"bl"}))
  /\ LET i == Lookup(Operands.op1)
     IN /\ IF i # 0 THEN UNCHANGED table ELSE AddSym(Operands.op1, 0, "extern", ".text")
        /\ AddReloc(Len(WithBytes(code, CallOpcode)), IF i # 0 THEN i ELSE NextEntry)
  /\ Emit(CallOpcode \o Placeholder)
  /\ Reads(Operands.last) /\ EndLine
  /\ UNCHANGED <<section, width, pcs, stale>>

\* one byte on x64, a word on ARM64
ReturnBytes == Bytes(IF target = "x64" THEN 1 ELSE 4, "op")
Return ==
  /\ Instruction(Opcode({"ret"}, {"ret"}))
  /\ Emit(ReturnBytes)
  /\ Reads(Operands.last) /\ EndLine
  /\ UNCHANGED <<section, width, table, rels, pcs, stale>>

PushPop ==
  /\ Instruction(Opcode({"pushq", "popq"}, {}))
  /\ Emit(IF Operands.op1 \in {"%rax", "%rbp"} THEN <<"op">> ELSE <<>>)
  /\ Reads(Operands.last) /\ EndLine
  /\ UNCHANGED <<section, width, table, rels, pcs, stale>>

\* reported: an opcode it does not know, and every mov, since it looks for a '$' or '#' at the
\* start of a token, but '$' begins a number, which is not kept, and '#' a comment
Unsupported ==
  /\ Running("statement") /\ token \notin Directives
  /\ token \notin (Opcode({"call", "ret", "pushq", "popq"}, {"bl", "ret"})[target])
  /\ Reads(Operands.last) /\ EndLine
  /\ UNCHANGED <<section, width, code, table, rels, pcs, stale>>
-----------------------------------------------------------------------------
Init ==
  /\ target \in {"x64", "arm64"} /\ status = "start" /\ pass = 0 /\ phase = "line"
  /\ file = <<>> /\ lineno = 0
  /\ rest = <<>> /\ token = "" /\ tokval = 0
  /\ section = ".text" /\ width = 0
  /\ code = <<>> /\ syms = <<>> /\ rels = <<>> /\ changed = {}
  /\ pcs = <<>> /\ mentions = <<>> /\ stale = FALSE

Stopped == status \in {"done", "failed"} /\ UNCHANGED vars

Passes == OpenFile \/ EmptyLine \/ Unlabelled \/ Labelled \/ EndFile
Statements == SetSection \/ DeclareSymbol \/ BeginValues \/ Value \/ EndValues \/ Ascii \/ Space
              \/ UnknownDirective \/ Call \/ Return \/ PushPop \/ Unsupported

Next == Passes \/ Statements \/ Stopped

Spec == Init /\ [][Next]_vars
-----------------------------------------------------------------------------
(* Properties *)

\* Types; no table passes its limit, and a relocation's symbol is an entry, or none.
TypeOK ==
  /\ target \in {"x64", "arm64"} /\ status \in {"start", "run", "done", "failed"}
  /\ pass \in 0..2 /\ phase \in {"line", "statement", "values"}
  /\ Len(file) <= MaxLines /\ lineno \in 0..Len(file)
  /\ token \in Texts /\ tokval \in Int /\ width \in {0} \cup {Width[d] : d \in DOMAIN Width}
  /\ section \in {".text", ".data"}
  /\ code \in Seq({"op", "hole", "datum"}) /\ Len(code) <= MAXCODE
  /\ syms \in Seq([name : Texts, val : 0..MAXCODE, type : {"local", "global", "extern"},
                   sec : {".text", ".data"}])
  /\ Len(syms) <= MAXSYMS /\ Len(rels) <= MAXRELS
  /\ \A i \in DOMAIN rels : rels[i].off \in 0..MAXCODE /\ rels[i].sym \in 0..Len(syms)
  /\ pcs \in Seq(0..MAXCODE) /\ stale \in BOOLEAN

\* What two passes are for: every line is at the same pc in both, and pass 2 enters no
\* symbol that pass 1 did not, unless a statement took its name or its count from a line
\* before it (then the second pass begins with what the first one left).
PassesAgree ==
  pass = 2 /\ phase = "line" /\ ~stale =>
    /\ pc = pcs[lineno + 1]
    /\ \A i \in DOMAIN syms : \E k \in DOMAIN mentions :
         mentions[k].pass = 1 /\ mentions[k].name = syms[i].name

\* the mentions of a name in pass 2
Of(name) == {k \in DOMAIN mentions : mentions[k].pass = 2 /\ mentions[k].name = name}
Values(name) == {mentions[k].val : k \in Of(name)}

\* "Symbol value changed between passes" is reported of a name not because its label has
\* moved but when a .globl or .extern, which set the value to 0, or a second label disagree
\* with it, in whatever order; and the value at the end is that of its last mention.
ChangedNames ==
  status = "done" /\ ~stale => \A i \in DOMAIN syms :
    LET name == syms[i].name
    IN /\ name \in changed <=> \E v, w \in Values(name) : v # w
       /\ \A k \in Of(name) : (\A j \in Of(name) : j <= k) => syms[i].val = mentions[k].val

Site(r) == r.off + 1 .. r.off + 4
Holes == {k \in DOMAIN code : code[k] = "hole"}

\* add_reloc() is called before the placeholder is emitted: the relocations' sites are
\* the placeholders, each one once, as long as neither table nor buffer is full.
RelocSites ==
  pass = 2 /\ pc < MAXCODE /\ Len(rels) < MAXRELS =>
    /\ Holes = UNION {Site(rels[i]) : i \in DOMAIN rels}
    /\ \A i, j \in DOMAIN rels : i < j => rels[i].off + 4 <= rels[j].off
=============================================================================
