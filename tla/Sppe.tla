-------------------------------- MODULE Sppe --------------------------------
(***************************************************************************)
(* The enhanced preprocessor sppe.c: lines are read, spliced at            *)
(* backslashes, and obeyed or written out.                                 *)
(*                                                                         *)
(* A line is its kind and the name in it; files may hold any lines and end *)
(* anywhere, so each line is chosen as it is read.  Definitions are kept   *)
(* by name: what a macro expands to is not modelled, only whether a name   *)
(* in the text is replaced.                                                *)
(***************************************************************************)
EXTENDS Naturals, Sequences

CONSTANTS
  Names, Predefined,      \* macro names; __SMALLC__
  Lines,                  \* physical lines that may be read
  MaxLines,               \* bound: lines read in a run
  MaxDefines, MaxIncludes, MaxIfStack

Kinds == {"text", "blank", "include", "missing", "define", "undef", "ifdef",
          "ifndef", "else", "endif", "error", "other"}

\* kind "missing": an #include whose file does not open; "other": a directive
\* that matches none; cont: the line ends in a backslash
ASSUME LinesAssumption ==
  Lines \subseteq [kind : Kinds, name : Names \cup {""}, cont : BOOLEAN]
ASSUME NamesAssumption ==
  /\ Predefined \in Names /\ "" \notin Names
  /\ \A l \in Lines : l.kind \in {"define", "undef", "ifdef", "ifndef"} => l.name \in Names
ASSUME BoundsAssumption ==
  /\ MaxLines \in Nat /\ MaxDefines \in Nat \ {0}
  /\ MaxIncludes \in Nat \ {0} /\ MaxIfStack \in Nat \ {0}

VARIABLES
  files,                  \* includefd[0..includelevel], each open numbered anew
  opens, nlines,          \* files opened, lines read so far
  linebuf, continuation,  \* the spliced line and whether it goes on
  defs,                   \* defnames[0..defcount-1]
  ifstack, skipping,
  out,                    \* text lines written
  status,                 \* "run", "done", "unterminated", "error" (exit(1))
  groups, seen            \* history: the open groups, the text lines read

source == <<files, opens, nlines>>
buffer == <<linebuf, continuation>>
conds == <<ifstack, skipping, groups>>
text == <<seen, out>>
vars == <<source, buffer, defs, conds, text, status>>

Defined == {defs[i] : i \in DOMAIN defs}

C == INSTANCE CondSpec WITH defined <- Defined

-----------------------------------------------------------------------------
(* processfile() *)

\* Between two lines linebuf is overwritten before it is read: Empty.
Empty == [kind |-> "none", name |-> "", from |-> {}]

\* strcat(): leading blanks do not hide a directive, all else stays what it
\* was.  The name of a directive stands on its first line, and of a spliced
\* text the first part's name is followed.
\* from, the files the parts came from, is there for the properties only.
Spliced(l) ==
  LET here == files[Len(files)] IN
  IF ~continuation THEN [kind |-> l.kind, name |-> l.name, from |-> {here}]
  ELSE [kind |-> IF linebuf.kind = "blank" THEN l.kind ELSE linebuf.kind,
        name |-> IF linebuf.kind = "blank" THEN l.name ELSE linebuf.name,
        from |-> linebuf.from \cup {here}]

Reading == status = "run" /\ (continuation \/ linebuf = Empty)
Processing == status = "run" /\ ~continuation /\ linebuf # Empty

ReadLine ==
  /\ Reading /\ nlines < MaxLines
  /\ \E l \in Lines : linebuf' = Spliced(l) /\ continuation' = l.cont
  /\ nlines' = nlines + 1
  /\ UNCHANGED <<files, opens, defs, conds, text, status>>

\* Back in the includer's loop; linebuf and continuation stay as they are.
EndOfInclude ==
  /\ Reading /\ Len(files) > 1
  /\ files' = SubSeq(files, 1, Len(files) - 1)
  /\ UNCHANGED <<opens, nlines, buffer, defs, conds, text, status>>

EndOfInput ==
  /\ Reading /\ Len(files) = 1
  /\ status' = IF ifstack # <<>> THEN "unterminated" ELSE "done"
  /\ UNCHANGED <<source, buffer, defs, conds, text>>

-----------------------------------------------------------------------------
(* processline(), one action per directive *)

Line(kind) == Processing /\ linebuf.kind = kind
\* Mutant: the line is not done with once it is obeyed.
ProcessedKept == linebuf' = linebuf /\ UNCHANGED <<continuation, nlines>>
Processed == linebuf' = Empty /\ UNCHANGED <<continuation, nlines>>
Exit == status' = "error" /\ UNCHANGED <<source, buffer, defs, conds, text>>

\* Mutant: the include limit is off by one.
IncludeOneMore ==
  /\ Line("include") /\ ~skipping
  /\ Len(files) - 1 < MaxIncludes
  /\ files' = Append(files, opens + 1)
  /\ opens' = opens + 1
  /\ Processed
  /\ UNCHANGED <<defs, conds, text, status>>

Include ==
  /\ Line("include") /\ ~skipping
  /\ Len(files) - 1 < MaxIncludes - 1
  /\ files' = Append(files, opens + 1)
  /\ opens' = opens + 1
  /\ Processed
  /\ UNCHANGED <<defs, conds, text, status>>

IncludeFails ==
  /\ \/ Line("include") /\ Len(files) - 1 >= MaxIncludes - 1
     \/ Line("missing")
  /\ ~skipping
  /\ Exit

\* a definition that does not fit is dropped
Define ==
  /\ Line("define") /\ ~skipping
  /\ defs' = IF Len(defs) < MaxDefines THEN Append(defs, linebuf.name) ELSE defs
  /\ Processed
  /\ UNCHANGED <<files, opens, conds, text, status>>

\* undefine(): the entries behind entry i move up
Without(i) == SubSeq(defs, 1, i - 1) \o SubSeq(defs, i + 1, Len(defs))

\* the entry taken out is the one finddefine() finds, the first
Undef ==
  /\ Line("undef") /\ ~skipping
  /\ \/ /\ linebuf.name \notin Defined
        /\ UNCHANGED defs
     \/ \E i \in DOMAIN defs :
          /\ defs[i] = linebuf.name
          /\ \A j \in 1..(i - 1) : defs[j] # linebuf.name
          /\ defs' = Without(i)
  /\ Processed
  /\ UNCHANGED <<files, opens, conds, text, status>>

\* Mutant: the outer value of skipping is not put back by #endif.
EndifClears ==
  /\ Line("endif") /\ ifstack # <<>>
  /\ skipping' = FALSE
  /\ ifstack' = SubSeq(ifstack, 1, Len(ifstack) - 1)
  /\ groups' = SubSeq(groups, 1, Len(groups) - 1)
  /\ Processed
  /\ UNCHANGED <<files, opens, defs, text, status>>

\* Mutant: #else does not look at the outer group.
ElseToggles ==
  /\ Line("else") /\ ifstack # <<>>
  /\ skipping' = ~skipping
  /\ groups' = [groups EXCEPT ![Len(groups)].turned = ~@]
  /\ Processed
  /\ UNCHANGED <<files, opens, defs, ifstack, text, status>>

Ifdef ==
  LET met == (linebuf.name \in Defined) = (linebuf.kind = "ifdef") IN
  /\ Line("ifdef") \/ Line("ifndef")
  /\ Len(ifstack) < MaxIfStack - 1
  /\ ifstack' = Append(ifstack, skipping)
  /\ skipping' = (skipping \/ ~met)
  /\ groups' = Append(groups, [cond |-> met, turned |-> FALSE])
  /\ Processed
  /\ UNCHANGED <<files, opens, defs, text, status>>

IfdefFails ==
  /\ Line("ifdef") \/ Line("ifndef")
  /\ Len(ifstack) >= MaxIfStack - 1
  /\ Exit

Else ==
  /\ Line("else") /\ ifstack # <<>>
  /\ skipping' = IF ifstack[Len(ifstack)] THEN skipping ELSE ~skipping
  /\ groups' = [groups EXCEPT ![Len(groups)].turned = ~@]
  /\ Processed
  /\ UNCHANGED <<files, opens, defs, ifstack, text, status>>

Endif ==
  /\ Line("endif") /\ ifstack # <<>>
  /\ skipping' = ifstack[Len(ifstack)]
  /\ ifstack' = SubSeq(ifstack, 1, Len(ifstack) - 1)
  /\ groups' = SubSeq(groups, 1, Len(groups) - 1)
  /\ Processed
  /\ UNCHANGED <<files, opens, defs, text, status>>

\* #else and #endif without a group, and #error
Stops ==
  /\ \/ (Line("else") \/ Line("endif")) /\ ifstack = <<>>
     \/ Line("error") /\ ~skipping
  /\ Exit

\* substitute(): a name with a definition is replaced
Substituted == [no |-> seen + 1, expanded |-> linebuf.name \in Defined]

\* a line that is no directive
Text ==
  /\ Line("text") \/ Line("blank")
  /\ seen' = seen + 1
  /\ out' = IF skipping THEN out ELSE Append(out, Substituted)
  /\ Processed
  /\ UNCHANGED <<files, opens, defs, conds, status>>

Ignored ==
  /\ \/ Line("other")
     \/ /\ skipping
        /\ Processing
        /\ linebuf.kind \in {"include", "missing", "define", "undef", "error"}
  /\ Processed
  /\ UNCHANGED <<files, opens, defs, conds, text, status>>

-----------------------------------------------------------------------------
Init ==
  /\ files = <<1>> /\ opens = 1 /\ nlines = 0
  /\ linebuf = Empty /\ continuation = FALSE
  /\ defs = <<Predefined>>
  /\ ifstack = <<>> /\ skipping = FALSE
  /\ out = <<>> /\ status = "run"
  /\ groups = <<>> /\ seen = 0

Reads == ReadLine \/ EndOfInclude \/ EndOfInput
Directives == Include \/ IncludeFails \/ Define \/ Undef \/ Ifdef \/ IfdefFails
              \/ Else \/ Endif \/ Stops
Stopped == status # "run" /\ UNCHANGED vars

Next == Reads \/ Directives \/ Text \/ Ignored \/ Stopped

Spec == Init /\ [][Next]_vars

-----------------------------------------------------------------------------
(* Properties *)

\* Types of the preprocessor's tables; the include and conditional stacks stay
\* within the arrays of sppe.c.
TypeOK ==
  /\ files \in Seq(Nat) /\ Len(files) \in 1..MaxIncludes
  /\ opens \in Nat /\ nlines \in 0..MaxLines
  /\ linebuf \in [kind : Kinds \cup {"none"}, name : Names \cup {""}, from : SUBSET Nat]
  /\ continuation \in BOOLEAN
  /\ defs \in Seq(Names) /\ Len(defs) <= MaxDefines
  /\ ifstack \in Seq(BOOLEAN) /\ Len(ifstack) < MaxIfStack
  /\ skipping \in BOOLEAN
  /\ out \in Seq([no : Nat, expanded : BOOLEAN])
  /\ status \in {"run", "done", "unterminated", "error"}
  /\ groups \in Seq([cond : BOOLEAN, turned : BOOLEAN]) /\ seen \in Nat

Fails(i) == groups[i].cond = groups[i].turned

\* skipping and ifstack are all sppe.c keeps of the groups it is in.  skipping
\* says whether one of them fails; ifstack[i] whether one outside group i does,
\* whatever #else did in between and however the groups nest.
SkippingIsExact ==
  /\ Len(ifstack) = Len(groups)
  /\ skipping <=> \E j \in DOMAIN groups : Fails(j)
  /\ \A i \in DOMAIN groups : ifstack[i] <=> \E j \in 1..(i - 1) : Fails(j)

\* The preprocessor implements CondSpec: a text line is written, a definition
\* changes and a file is included only where every group around it holds, every
\* text line there is written, and a name in it is replaced if it is defined.
Conditional == C!Spec

\* continuation outlives the file that set it, in one direction only: a line is joined
\* with lines of its own file or with the last line of files that ended inside it,
\* never with a line of a file whose #include is still being obeyed.
SplicedOutwards ==
  \A i \in 1..(Len(files) - 1) : files[i] \notin linebuf.from
=============================================================================
