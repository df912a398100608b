----------------------------- MODULE SppeProofs -----------------------------
(***************************************************************************)
(* Theorems about Sppe, for every set of lines and every limit: the types  *)
(* of its tables, that skipping and ifstack say exactly which groups fail, *)
(* and that the preprocessor implements CondSpec.                          *)
(***************************************************************************)
EXTENDS Sppe, TLAPS

Group == [cond : BOOLEAN, turned : BOOLEAN]

\* SkippingIsExact of any stack, flag and groups
Exact(is, sk, gs) ==
  /\ Len(is) = Len(gs)
  /\ sk <=> \E j \in 1..Len(gs) : gs[j].cond = gs[j].turned
  /\ \A i \in 1..Len(gs) : is[i] <=> \E j \in 1..(i - 1) : gs[j].cond = gs[j].turned

\* #ifdef, #ifndef
LEMMA ExactPush ==
  ASSUME NEW is \in Seq(BOOLEAN), NEW sk \in BOOLEAN, NEW gs \in Seq(Group),
         NEW met \in BOOLEAN, Exact(is, sk, gs)
  PROVE  LET g == [cond |-> met, turned |-> FALSE]
         IN /\ Append(is, sk) \in Seq(BOOLEAN) /\ Append(gs, g) \in Seq(Group)
            /\ Len(Append(is, sk)) = Len(is) + 1
            /\ Exact(Append(is, sk), sk \/ ~met, Append(gs, g))
<1> DEFINE g == [cond |-> met, turned |-> FALSE]
           gg == Append(gs, g)
           ii == Append(is, sk)
           n == Len(gs)
<1>1. /\ g \in Group /\ gg \in Seq(Group) /\ ii \in Seq(BOOLEAN) /\ n \in Nat
      /\ Len(gg) = n + 1 /\ Len(ii) = n + 1 /\ Len(ii) = Len(is) + 1
      /\ gg[n + 1] = g /\ ii[n + 1] = sk
  BY DEF Group, Exact
<1>2. \A j \in 1..n : gg[j] = gs[j] /\ ii[j] = is[j]
  BY DEF Exact
<1>3. (g.cond = g.turned) <=> ~met
  OBVIOUS
<1>4. (\E j \in 1..n : gg[j].cond = gg[j].turned) <=> sk
  BY <1>2 DEF Exact
<1>5. (\E j \in 1..(n + 1) : gg[j].cond = gg[j].turned) <=> (sk \/ ~met)
  <2>1. 1..(n + 1) = (1..n) \cup {n + 1}
    BY <1>1
  <2>2. (gg[n + 1].cond = gg[n + 1].turned) <=> ~met
    BY <1>1, <1>3
  <2> QED
    BY <2>1, <2>2, <1>4
<1>6. \A i \in 1..(n + 1) : ii[i] <=> \E j \in 1..(i - 1) : gg[j].cond = gg[j].turned
  <2> SUFFICES ASSUME NEW i \in 1..(n + 1)
               PROVE  ii[i] <=> \E j \in 1..(i - 1) : gg[j].cond = gg[j].turned
    OBVIOUS
  <2>1. CASE i = n + 1
    <3>1. i - 1 = n
      BY <2>1, <1>1
    <3> QED
      BY <2>1, <3>1, <1>1, <1>4
  <2>2. CASE i \in 1..n
    <3>1. \A j \in 1..(i - 1) : gg[j] = gs[j]
      BY <2>2, <1>2, <1>1
    <3>2. is[i] <=> \E j \in 1..(i - 1) : gs[j].cond = gs[j].turned
      BY <2>2 DEF Exact
    <3> QED
      BY <2>2, <3>1, <3>2, <1>2
  <2>3. i = n + 1 \/ i \in 1..n
    BY <1>1
  <2> QED
    BY <2>1, <2>2, <2>3
<1> HIDE DEF g, gg, ii, n
<1>7. QED
  BY <1>1, <1>5, <1>6 DEF Exact, g, gg, ii

\* #endif
LEMMA ExactPop ==
  ASSUME NEW is \in Seq(BOOLEAN), NEW sk \in BOOLEAN, NEW gs \in Seq(Group),
         Exact(is, sk, gs), is # <<>>
  PROVE  LET n == Len(is)
         IN /\ gs # <<>>
            /\ SubSeq(is, 1, n - 1) \in Seq(BOOLEAN)
            /\ SubSeq(gs, 1, n - 1) \in Seq(Group)
            /\ Len(SubSeq(is, 1, n - 1)) = n - 1
            /\ is[n] \in BOOLEAN
            /\ Exact(SubSeq(is, 1, n - 1), is[n], SubSeq(gs, 1, n - 1))
<1> DEFINE n == Len(is)
           ii == SubSeq(is, 1, n - 1)
           gg == SubSeq(gs, 1, n - 1)
<1>1. n \in Nat /\ n > 0 /\ Len(gs) = n /\ is[n] \in BOOLEAN /\ gs # <<>>
  BY DEF Exact
<1>2. ii \in Seq(BOOLEAN) /\ gg \in Seq(Group) /\ Len(ii) = n - 1 /\ Len(gg) = n - 1
  BY <1>1
<1>3. \A j \in 1..(n - 1) : gg[j] = gs[j] /\ ii[j] = is[j]
  BY <1>1
<1>4. is[n] <=> \E j \in 1..(n - 1) : gg[j].cond = gg[j].turned
  <2>1. is[n] <=> \E j \in 1..(n - 1) : gs[j].cond = gs[j].turned
    BY <1>1 DEF Exact
  <2> QED
    BY <2>1, <1>3
<1>5. \A i \in 1..(n - 1) : ii[i] <=> \E j \in 1..(i - 1) : gg[j].cond = gg[j].turned
  <2> SUFFICES ASSUME NEW i \in 1..(n - 1)
               PROVE  ii[i] <=> \E j \in 1..(i - 1) : gg[j].cond = gg[j].turned
    OBVIOUS
  <2>1. \A j \in 1..(i - 1) : gg[j] = gs[j]
    BY <1>1, <1>3
  <2>2. is[i] <=> \E j \in 1..(i - 1) : gs[j].cond = gs[j].turned
    BY <1>1 DEF Exact
  <2> QED
    BY <2>1, <2>2, <1>3
<1> HIDE DEF n, ii, gg
<1>6. QED
  BY <1>1, <1>2, <1>4, <1>5 DEF Exact, n, ii, gg

\* #else
LEMMA ExactTurn ==
  ASSUME NEW is \in Seq(BOOLEAN), NEW sk \in BOOLEAN, NEW gs \in Seq(Group),
         Exact(is, sk, gs), is # <<>>
  PROVE  LET n == Len(is)
             gg == [gs EXCEPT ![Len(gs)].turned = ~@]
             flipped == IF is[n] THEN sk ELSE ~sk
         IN /\ gs # <<>> /\ gg \in Seq(Group) /\ flipped \in BOOLEAN
            /\ Exact(is, flipped, gg)
<1> DEFINE n == Len(is)
           gg == [gs EXCEPT ![Len(gs)].turned = ~@]
           flipped == IF is[n] THEN sk ELSE ~sk
<1>1. n \in Nat /\ n > 0 /\ Len(gs) = n /\ is[n] \in BOOLEAN /\ gs # <<>>
  BY DEF Exact
<1>2. /\ gg \in Seq(Group) /\ Len(gg) = n
      /\ \A j \in 1..(n - 1) : gg[j] = gs[j]
      /\ gg[n] = [gs[n] EXCEPT !.turned = ~@]
      /\ gs[n] \in Group
  <2>1. gs[n] \in Group
    BY <1>1
  <2>2. [gs[n] EXCEPT !.turned = ~@] \in Group
    BY <2>1 DEF Group
  <2>3. gg = [gs EXCEPT ![n] = [gs[n] EXCEPT !.turned = ~@]]
    BY <1>1
  <2> QED
    BY <1>1, <2>1, <2>2, <2>3
<1>3. (gg[n].cond = gg[n].turned) <=> ~(gs[n].cond = gs[n].turned)
  BY <1>2 DEF Group
<1>4. is[n] <=> \E j \in 1..(n - 1) : gs[j].cond = gs[j].turned
  BY <1>1 DEF Exact
<1>5. 1..n = (1..(n - 1)) \cup {n}
  BY <1>1
<1>6. sk <=> is[n] \/ gs[n].cond = gs[n].turned
  BY <1>1, <1>4, <1>5 DEF Exact
<1>7. (\E j \in 1..n : gg[j].cond = gg[j].turned)
        <=> is[n] \/ ~(gs[n].cond = gs[n].turned)
  <2>1. (\E j \in 1..(n - 1) : gg[j].cond = gg[j].turned) <=> is[n]
    BY <1>2, <1>4
  <2> QED
    BY <2>1, <1>3, <1>5
<1>8. flipped <=> \E j \in 1..n : gg[j].cond = gg[j].turned
  BY <1>1, <1>6, <1>7
<1>9. \A i \in 1..n : is[i] <=> \E j \in 1..(i - 1) : gg[j].cond = gg[j].turned
  <2> SUFFICES ASSUME NEW i \in 1..n
               PROVE  is[i] <=> \E j \in 1..(i - 1) : gg[j].cond = gg[j].turned
    OBVIOUS
  <2>1. \A j \in 1..(i - 1) : gg[j] = gs[j]
    BY <1>1, <1>2
  <2>2. is[i] <=> \E j \in 1..(i - 1) : gs[j].cond = gs[j].turned
    BY <1>1 DEF Exact
  <2> QED
    BY <2>1, <2>2
<1>10. flipped \in BOOLEAN
  BY <1>1
<1> HIDE DEF n, gg, flipped
<1>11. QED
  BY <1>1, <1>2, <1>8, <1>9, <1>10 DEF Exact, n, gg, flipped

-----------------------------------------------------------------------------
(* The invariant *)

\* a directive about a name has one
Named == linebuf.kind \in {"define", "undef", "ifdef", "ifndef"} => linebuf.name \in Names

Inv == TypeOK /\ SkippingIsExact /\ Named

\* the numbers in the state
LEMMA Numbers ==
  ASSUME TypeOK
  PROVE  /\ files \in Seq(Nat) /\ Len(files) \in Nat
         /\ Len(files) >= 1 /\ Len(files) <= MaxIncludes
         /\ defs \in Seq(Names) /\ Len(defs) \in Nat /\ Len(defs) <= MaxDefines
         /\ ifstack \in Seq(BOOLEAN) /\ Len(ifstack) \in Nat /\ Len(ifstack) < MaxIfStack
         /\ groups \in Seq(Group) /\ DOMAIN groups = 1..Len(groups)
         /\ opens \in Nat /\ opens + 1 \in Nat /\ seen \in Nat /\ seen + 1 \in Nat
<1>1. /\ files \in Seq(Nat) /\ defs \in Seq(Names) /\ ifstack \in Seq(BOOLEAN)
      /\ groups \in Seq(Group) /\ opens \in Nat /\ seen \in Nat
      /\ Len(files) \in 1..MaxIncludes
      /\ Len(defs) <= MaxDefines /\ Len(ifstack) < MaxIfStack
  BY DEF TypeOK, Group
<1>2. MaxIncludes \in Nat
  BY BoundsAssumption
<1>3. /\ Len(files) \in Nat /\ Len(defs) \in Nat /\ Len(ifstack) \in Nat
      /\ DOMAIN groups = 1..Len(groups)
  BY <1>1
<1>4. Len(files) >= 1 /\ Len(files) <= MaxIncludes
  BY <1>1, <1>2
<1>5. opens + 1 \in Nat /\ seen + 1 \in Nat
  BY <1>1
<1>6. QED
  BY <1>1, <1>3, <1>4, <1>5

LEMMA ExactIsExact ==
  ASSUME TypeOK
  PROVE  SkippingIsExact <=> Exact(ifstack, skipping, groups)
<1>1. DOMAIN groups = 1..Len(groups)
  BY Numbers
<1>2. QED
  BY <1>1 DEF SkippingIsExact, Fails, Exact

LEMMA ExactPrimed ==
  ASSUME TypeOK', Exact(ifstack', skipping', groups')
  PROVE  SkippingIsExact'
<1>1. groups' \in Seq(Group)
  BY DEF TypeOK, Group
<1>2. DOMAIN groups' = 1..Len(groups')
  BY <1>1
<1>3. QED
  BY <1>2 DEF SkippingIsExact, Fails, Exact

LEMMA EmptyType == Empty \in [kind : Kinds \cup {"none"}, name : Names \cup {""}, from : SUBSET Nat]
BY DEF Empty

LEMMA Unnamed ==
  ASSUME linebuf' = Empty
  PROVE  Named'
<1>1. Empty.kind = "none"
  BY DEF Empty
<1>2. QED
  BY <1>1 DEF Named

LEMMA InitInv == Init => Inv
<1> SUFFICES ASSUME Init PROVE Inv
  OBVIOUS
<1>1. TypeOK
  <2>1. files \in Seq(Nat) /\ Len(files) \in 1..MaxIncludes
    <3>1. files = <<1>> /\ files \in Seq(Nat) /\ Len(files) = 1
      BY DEF Init
    <3>2. MaxIncludes \in Nat /\ MaxIncludes >= 1
      BY BoundsAssumption
    <3> QED
      BY <3>1, <3>2
  <2>2. defs \in Seq(Names) /\ Len(defs) <= MaxDefines
    <3>1. Predefined \in Names
      BY NamesAssumption
    <3>2. defs \in Seq(Names) /\ Len(defs) = 1
      BY <3>1 DEF Init
    <3>3. MaxDefines \in Nat /\ MaxDefines >= 1
      BY BoundsAssumption
    <3> QED
      BY <3>2, <3>3
  <2>3. ifstack \in Seq(BOOLEAN) /\ Len(ifstack) < MaxIfStack
    <3>1. ifstack \in Seq(BOOLEAN) /\ Len(ifstack) = 0
      BY DEF Init
    <3>2. MaxIfStack \in Nat /\ MaxIfStack > 0
      BY BoundsAssumption
    <3> QED
      BY <3>1, <3>2
  <2>4. nlines \in 0..MaxLines /\ opens \in Nat /\ seen \in Nat
    BY BoundsAssumption DEF Init
  <2>5. linebuf \in [kind : Kinds \cup {"none"}, name : Names \cup {""}, from : SUBSET Nat]
    BY EmptyType DEF Init
  <2>6. /\ out \in Seq([no : Nat, expanded : BOOLEAN])
        /\ groups \in Seq([cond : BOOLEAN, turned : BOOLEAN])
    BY DEF Init
  <2>7. /\ continuation \in BOOLEAN /\ skipping \in BOOLEAN
        /\ status \in {"run", "done", "unterminated", "error"}
    BY DEF Init
  <2> QED
    BY <2>1, <2>2, <2>3, <2>4, <2>5, <2>6, <2>7 DEF TypeOK
<1>2. SkippingIsExact
  BY DEF Init, SkippingIsExact, Fails
<1>3. Named
  BY DEF Init, Empty, Named
<1>4. QED
  BY <1>1, <1>2, <1>3 DEF Inv

\* Steps that leave the conditional stack alone keep SkippingIsExact.
LEMMA CondsKept ==
  ASSUME SkippingIsExact, UNCHANGED conds
  PROVE  SkippingIsExact'
BY DEF SkippingIsExact, Fails, conds

LEMMA ReadsInv ==
  ASSUME Inv, Reads
  PROVE  Inv'
<1> USE DEF Inv
<1>1. CASE ReadLine
  <2> USE <1>1
  <2>1. PICK l \in Lines : linebuf' = Spliced(l) /\ continuation' = l.cont
    BY DEF ReadLine
  <2>2. l \in [kind : Kinds, name : Names \cup {""}, cont : BOOLEAN]
    BY LinesAssumption
  <2>3. files[Len(files)] \in Nat
    BY Numbers
  <2>4. linebuf' \in [kind : Kinds \cup {"none"}, name : Names \cup {""}, from : SUBSET Nat]
    BY <2>1, <2>2, <2>3 DEF Spliced, TypeOK
  <2>5. continuation' \in BOOLEAN
    BY <2>1, <2>2
  <2>6. nlines' \in 0..MaxLines
    <3>1. nlines \in 0..MaxLines /\ nlines < MaxLines /\ nlines' = nlines + 1
      BY DEF ReadLine, TypeOK
    <3>2. MaxLines \in Nat
      BY BoundsAssumption
    <3> QED
      BY <3>1, <3>2
  <2>7. TypeOK'
    BY <2>4, <2>5, <2>6 DEF ReadLine, TypeOK, conds, text
  <2>8. Named'
    BY <2>1, NamesAssumption DEF Named, Spliced
  <2> QED
    BY <2>7, <2>8, CondsKept DEF ReadLine
<1>2. CASE EndOfInclude
  <2> USE <1>2
  <2>1. files' \in Seq(Nat) /\ Len(files') = Len(files) - 1 /\ Len(files) > 1
    BY Numbers, SMTT(30) DEF EndOfInclude
  <2>2. Len(files') \in 1..MaxIncludes
    <3>1. Len(files) <= MaxIncludes /\ MaxIncludes \in Nat /\ Len(files) \in Nat
      BY Numbers, BoundsAssumption
    <3> QED
      BY <2>1, <3>1
  <2>3. TypeOK'
    BY <2>1, <2>2 DEF EndOfInclude, TypeOK, conds, text, buffer
  <2> QED
    BY <2>3, CondsKept DEF EndOfInclude, Named, buffer
<1>3. CASE EndOfInput
  <2> USE <1>3
  <2>1. status' \in {"run", "done", "unterminated", "error"}
    BY DEF EndOfInput
  <2>2. TypeOK'
    BY <2>1 DEF EndOfInput, TypeOK, conds, text, buffer, source
  <2> QED
    BY <2>2, CondsKept DEF EndOfInput, Named, buffer
<1>4. QED
  BY <1>1, <1>2, <1>3 DEF Reads

LEMMA DirectivesInv ==
  ASSUME Inv, Directives
  PROVE  Inv'
<1> USE DEF Inv
<1>1. CASE Include
  <2> USE <1>1
  <2>1. /\ files' \in Seq(Nat) /\ Len(files') = Len(files) + 1 /\ opens' \in Nat
        /\ Len(files) - 1 < MaxIncludes - 1
    BY Numbers DEF Include
  <2>2. Len(files') \in 1..MaxIncludes
    <3>1. Len(files) \in Nat /\ MaxIncludes \in Nat
      BY Numbers, BoundsAssumption
    <3> QED
      BY <2>1, <3>1
  <2>3. TypeOK'
    BY <2>1, <2>2, EmptyType DEF Include, Processed, TypeOK, conds, text
  <2> QED
    BY <2>3, CondsKept, Unnamed DEF Include, Processed
<1>2. CASE IncludeFails \/ IfdefFails \/ Stops
  <2>1. Exit
    BY <1>2 DEF IncludeFails, IfdefFails, Stops
  <2>2. TypeOK'
    BY <2>1 DEF Exit, TypeOK, conds, text, buffer, source
  <2> QED
    BY <2>1, <2>2, CondsKept DEF Exit, Named, buffer
<1>3. CASE Define
  <2> USE <1>3
  <2>1. linebuf.name \in Names
    BY DEF Define, Line, Named
  <2>2. defs' \in Seq(Names) /\ Len(defs') <= MaxDefines
    <3>1. CASE Len(defs) < MaxDefines
      <4>1. defs' = Append(defs, linebuf.name)
        BY <3>1 DEF Define
      <4>2. defs' \in Seq(Names) /\ Len(defs') = Len(defs) + 1
        BY <2>1, <4>1, Numbers
      <4>3. MaxDefines \in Nat /\ Len(defs) \in Nat
        BY BoundsAssumption, Numbers
      <4> QED
        BY <3>1, <4>2, <4>3
    <3>2. CASE ~(Len(defs) < MaxDefines)
      BY <3>2, Numbers DEF Define
    <3> QED
      BY <3>1, <3>2
  <2>3. TypeOK'
    BY <2>2, EmptyType DEF Define, Processed, TypeOK, conds, text
  <2> QED
    BY <2>3, CondsKept, Unnamed DEF Define, Processed
<1>4. CASE Undef
  <2> USE <1>4
  <2>1. defs' \in Seq(Names) /\ Len(defs') <= MaxDefines
    <3>1. CASE UNCHANGED defs
      BY <3>1, Numbers
    <3>2. CASE \E i \in DOMAIN defs :
                 defs' = SubSeq(defs, 1, i - 1) \o SubSeq(defs, i + 1, Len(defs))
      <4>1. PICK i \in 1..Len(defs) :
                 defs' = SubSeq(defs, 1, i - 1) \o SubSeq(defs, i + 1, Len(defs))
        <5>1. DOMAIN defs = 1..Len(defs)
          BY Numbers
        <5> QED
          BY <3>2, <5>1
      <4>2. i \in Nat /\ i >= 1 /\ i <= Len(defs) /\ Len(defs) \in Nat
        BY Numbers
      <4>3. /\ SubSeq(defs, 1, i - 1) \in Seq(Names)
            /\ Len(SubSeq(defs, 1, i - 1)) = i - 1
        BY <4>2, Numbers
      <4>4. /\ SubSeq(defs, i + 1, Len(defs)) \in Seq(Names)
            /\ Len(SubSeq(defs, i + 1, Len(defs))) = Len(defs) - i
        BY <4>2, Numbers, SMTT(30)
      <4>5. defs' \in Seq(Names) /\ Len(defs') = Len(defs) - 1
        <5>1. \A a, b \in Seq(Names) : a \o b \in Seq(Names) /\ Len(a \o b) = Len(a) + Len(b)
          OBVIOUS
        <5>2. defs' \in Seq(Names) /\ Len(defs') = (i - 1) + (Len(defs) - i)
          BY <4>1, <4>3, <4>4, <5>1
        <5> QED
          BY <4>2, <5>2
      <4>6. Len(defs) <= MaxDefines /\ MaxDefines \in Nat
        BY Numbers, BoundsAssumption
      <4> QED
        BY <4>2, <4>5, <4>6
    <3> QED
      BY <3>1, <3>2 DEF Undef, Without
  <2>2. TypeOK'
    BY <2>1, EmptyType DEF Undef, Processed, TypeOK, conds, text
  <2> QED
    BY <2>2, CondsKept, Unnamed DEF Undef, Processed
<1>5. CASE Ifdef
  <2> USE <1>5
  <2> DEFINE met == (linebuf.name \in Defined) = (linebuf.kind = "ifdef")
  <2>1. /\ ifstack' = Append(ifstack, skipping)
        /\ skipping' = (skipping \/ ~met)
        /\ groups' = Append(groups, [cond |-> met, turned |-> FALSE])
        /\ Len(ifstack) < MaxIfStack - 1
        /\ met \in BOOLEAN
    BY DEF Ifdef
  <2> HIDE DEF met
  <2>2. skipping \in BOOLEAN /\ Exact(ifstack, skipping, groups)
    BY ExactIsExact DEF TypeOK
  <2>3. /\ ifstack' \in Seq(BOOLEAN) /\ groups' \in Seq(Group)
        /\ Len(ifstack') = Len(ifstack) + 1
        /\ Exact(ifstack', skipping', groups')
    BY <2>1, <2>2, Numbers, ExactPush, SMTT(30)
  <2>4. Len(ifstack') < MaxIfStack
    <3>1. Len(ifstack) \in Nat /\ MaxIfStack \in Nat
      BY Numbers, BoundsAssumption
    <3> QED
      BY <2>1, <2>3, <3>1
  <2>5. skipping' \in BOOLEAN
    BY <2>1
  <2>6. TypeOK'
    BY <2>3, <2>4, <2>5, EmptyType DEF Ifdef, Processed, TypeOK, text, Group
  <2> QED
    BY <2>3, <2>6, ExactPrimed, Unnamed DEF Ifdef, Processed
<1>6. CASE Else
  <2> USE <1>6
  <2>1. /\ ifstack' = ifstack /\ ifstack # <<>>
        /\ skipping' = IF ifstack[Len(ifstack)] THEN skipping ELSE ~skipping
        /\ groups' = [groups EXCEPT ![Len(groups)].turned = ~@]
    BY DEF Else
  <2>2. skipping \in BOOLEAN /\ Exact(ifstack, skipping, groups)
    BY ExactIsExact DEF TypeOK
  <2>3. /\ groups' \in Seq(Group) /\ skipping' \in BOOLEAN
        /\ Exact(ifstack', skipping', groups')
    BY <2>1, <2>2, Numbers, ExactTurn
  <2>4. TypeOK'
    BY <2>1, <2>3, EmptyType DEF Else, Processed, TypeOK, text, Group
  <2> QED
    BY <2>3, <2>4, ExactPrimed, Unnamed DEF Else, Processed
<1>7. CASE Endif
  <2> USE <1>7
  <2>1. skipping \in BOOLEAN /\ Exact(ifstack, skipping, groups)
    BY ExactIsExact DEF TypeOK
  <2>2. /\ ifstack # <<>>
        /\ skipping' = ifstack[Len(ifstack)]
        /\ ifstack' = SubSeq(ifstack, 1, Len(ifstack) - 1)
        /\ groups' = SubSeq(groups, 1, Len(ifstack) - 1)
    BY <2>1 DEF Endif, Exact
  <2>3. /\ ifstack' \in Seq(BOOLEAN) /\ groups' \in Seq(Group)
        /\ skipping' \in BOOLEAN /\ Len(ifstack') = Len(ifstack) - 1
        /\ Exact(ifstack', skipping', groups')
    BY <2>1, <2>2, Numbers, ExactPop
  <2>4. Len(ifstack') < MaxIfStack
    <3>1. Len(ifstack) \in Nat /\ MaxIfStack \in Nat /\ Len(ifstack) < MaxIfStack
      BY Numbers, BoundsAssumption
    <3> QED
      BY <2>3, <3>1
  <2>5. TypeOK'
    BY <2>3, <2>4, EmptyType DEF Endif, Processed, TypeOK, text, Group
  <2> QED
    BY <2>3, <2>5, ExactPrimed, Unnamed DEF Endif, Processed
<1>8. QED
  BY <1>1, <1>2, <1>3, <1>4, <1>5, <1>6, <1>7 DEF Directives

LEMMA InvNext == Inv /\ [Next]_vars => Inv'
<1> SUFFICES ASSUME Inv, [Next]_vars PROVE Inv'
  OBVIOUS
<1> USE DEF Inv
<1>1. CASE Reads
  BY <1>1, ReadsInv
<1>2. CASE Directives
  BY <1>2, DirectivesInv
<1>3. CASE Text
  <2> USE <1>3
  <2>1. seen' \in Nat
    BY Numbers DEF Text
  <2>2. out' \in Seq([no : Nat, expanded : BOOLEAN])
    <3>1. out \in Seq([no : Nat, expanded : BOOLEAN])
      BY DEF TypeOK
    <3>2. [no |-> seen + 1, expanded |-> linebuf.name \in Defined]
            \in [no : Nat, expanded : BOOLEAN]
      BY Numbers
    <3>3. Append(out, [no |-> seen + 1, expanded |-> linebuf.name \in Defined])
            \in Seq([no : Nat, expanded : BOOLEAN])
      BY <3>1, <3>2
    <3> QED
      BY <3>1, <3>3 DEF Text, Substituted
  <2>3. TypeOK'
    BY <2>1, <2>2, EmptyType DEF Text, Processed, TypeOK, conds
  <2> QED
    BY <2>3, CondsKept, Unnamed DEF Text, Processed
<1>4. CASE Ignored
  <2> USE <1>4
  <2>1. TypeOK'
    BY EmptyType DEF Ignored, Processed, TypeOK, conds, text
  <2> QED
    BY <2>1, CondsKept, Unnamed DEF Ignored, Processed
<1>5. CASE UNCHANGED vars
  <2>1. TypeOK'
    BY <1>5 DEF vars, TypeOK, source, buffer, conds, text
  <2> QED
    BY <1>5, <2>1, CondsKept DEF vars, buffer, Named
<1>6. QED
  BY <1>1, <1>2, <1>3, <1>4, <1>5 DEF Next, Stopped

\* The tables of sppe.c keep their types, and the include and conditional
\* stacks their bounds.
THEOREM TypeCorrect == Spec => []TypeOK
<1>1. Inv => TypeOK
  BY DEF Inv
<1>2. QED
  BY InitInv, InvNext, <1>1, PTL DEF Spec

\* skipping and ifstack (processline()) say exactly which open groups fail.
THEOREM SkippingCorrect == Spec => []SkippingIsExact
<1>1. Inv => SkippingIsExact
  BY DEF Inv
<1>2. QED
  BY InitInv, InvNext, <1>1, PTL DEF Spec

-----------------------------------------------------------------------------
(* The spliced line and the open files *)

\* Files are numbered as they are opened, so that an includer's number is below
\* that of the file read from.
Opened ==
  /\ \A i \in 1..Len(files) : files[i] <= opens
  /\ \A j \in 1..Len(files) : \A i \in 1..(j - 1) : files[i] < files[j]

\* A step that leaves the files alone and ends the line or leaves it alone
LEMMA SpliceKept ==
  ASSUME Opened, SplicedOutwards, UNCHANGED <<files, opens>>,
         linebuf' = Empty \/ linebuf' = linebuf
  PROVE  Opened' /\ SplicedOutwards'
<1>1. Opened'
  BY DEF Opened
<1>2. CASE linebuf' = Empty
  <2>1. Empty.from = {}
    BY DEF Empty
  <2> QED
    BY <1>1, <1>2, <2>1 DEF SplicedOutwards
<1>3. CASE linebuf' = linebuf
  BY <1>1, <1>3 DEF SplicedOutwards
<1>4. QED
  BY <1>2, <1>3

\* Only a file that is read from adds itself to the line: its includers are
\* other files.
LEMMA SpliceRead ==
  ASSUME TypeOK, Opened, SplicedOutwards, ReadLine
  PROVE  Opened' /\ SplicedOutwards'
<1> DEFINE n == Len(files)
<1>1. Opened'
  BY DEF ReadLine, Opened
<1>2. n \in Nat /\ n >= 1 /\ files \in Seq(Nat)
  BY Numbers
<1>3. linebuf'.from \subseteq linebuf.from \cup {files[n]}
  BY DEF ReadLine, Spliced
<1>4. \A i \in 1..(n - 1) : files[i] < files[n]
  BY <1>2 DEF Opened
<1>5. \A i \in 1..(n - 1) : files[i] # files[n]
  <2> SUFFICES ASSUME NEW i \in 1..(n - 1) PROVE files[i] # files[n]
    OBVIOUS
  <2>1. files[i] \in Nat /\ files[n] \in Nat
    BY <1>2
  <2> QED
    BY <1>4, <2>1
<1>6. files' = files
  BY DEF ReadLine
<1>7. QED
  BY <1>1, <1>3, <1>5, <1>6 DEF SplicedOutwards

\* An #include opens a file under a new number and ends the line.
LEMMA SpliceInclude ==
  ASSUME TypeOK, Opened, Include
  PROVE  Opened' /\ SplicedOutwards'
<1> DEFINE n == Len(files)
<1>1. n \in Nat /\ n >= 1 /\ files \in Seq(Nat) /\ opens \in Nat
  BY Numbers
<1>2. files' = Append(files, opens + 1) /\ opens' = opens + 1 /\ linebuf' = Empty
  BY DEF Include, Processed
<1>3. /\ Len(files') = n + 1 /\ files'[n + 1] = opens + 1
      /\ \A i \in 1..n : files'[i] = files[i] /\ files[i] \in Nat /\ files[i] <= opens
  BY <1>1, <1>2 DEF Opened
<1>4. \A i \in 1..(n + 1) : i \in 1..n \/ i = n + 1
  BY <1>1
<1>5. \A i \in 1..(n + 1) : files'[i] <= opens + 1
  BY <1>1, <1>3, <1>4
<1>6. ASSUME NEW j \in 1..(n + 1), NEW i \in 1..(j - 1)
      PROVE  files'[i] < files'[j]
  <2>1. i \in 1..n /\ n \in Nat
    BY <1>1
  <2>2. CASE j = n + 1
    BY <2>1, <2>2, <1>1, <1>3
  <2>3. CASE j \in 1..n
    BY <2>1, <2>3, <1>3 DEF Opened
  <2> QED
    BY <2>2, <2>3, <1>4
<1>7. Opened'
  BY <1>2, <1>3, <1>5, <1>6 DEF Opened
<1>8. linebuf'.from = {}
  BY <1>2 DEF Empty
<1>9. QED
  BY <1>7, <1>8 DEF SplicedOutwards

\* Back in an includer, fewer files are still being included from.
LEMMA SpliceReturn ==
  ASSUME TypeOK, Opened, SplicedOutwards, EndOfInclude
  PROVE  Opened' /\ SplicedOutwards'
<1> DEFINE n == Len(files)
<1>1. n \in Nat /\ n > 1 /\ files \in Seq(Nat)
  BY Numbers DEF EndOfInclude
<1>2. files' = SubSeq(files, 1, n - 1) /\ UNCHANGED <<opens, linebuf>>
  BY DEF EndOfInclude, buffer
<1>3. Len(files') = n - 1 /\ \A i \in 1..(n - 1) : files'[i] = files[i]
  BY <1>1, <1>2
<1>4. Opened'
  <2>1. \A i \in 1..(n - 1) : files'[i] <= opens
    BY <1>1, <1>3 DEF Opened
  <2>2. ASSUME NEW j \in 1..(n - 1), NEW i \in 1..(j - 1)
        PROVE  files'[i] < files'[j]
    <3>1. /\ i \in 1..(n - 1) /\ j \in 1..n
      BY <1>1
    <3>2. files[i] < files[j]
      BY <3>1 DEF Opened
    <3> QED
      BY <1>3, <3>1, <3>2
  <2> QED
    BY <1>2, <1>3, <2>1, <2>2 DEF Opened
<1>5. \A i \in 1..(n - 2) : files'[i] \notin linebuf.from
  BY <1>1, <1>3, SMTT(30) DEF SplicedOutwards
<1>6. Len(files') - 1 = n - 2
  BY <1>1, <1>3
<1>7. QED
  BY <1>2, <1>4, <1>5, <1>6 DEF SplicedOutwards

SpliceInv == Inv /\ Opened /\ SplicedOutwards

LEMMA SpliceInvNext == SpliceInv /\ [Next]_vars => SpliceInv'
<1> SUFFICES ASSUME SpliceInv, [Next]_vars PROVE SpliceInv'
  OBVIOUS
<1>1. Inv' /\ TypeOK
  BY InvNext DEF SpliceInv, Inv
<1>2. Opened' /\ SplicedOutwards'
  <2>1. CASE ReadLine
    BY <1>1, <2>1, SpliceRead DEF SpliceInv
  <2>2. CASE EndOfInclude
    BY <1>1, <2>2, SpliceReturn DEF SpliceInv
  <2>3. CASE Include
    BY <1>1, <2>3, SpliceInclude DEF SpliceInv
  <2>4. CASE EndOfInput \/ IncludeFails \/ IfdefFails \/ Stops \/ UNCHANGED vars
    <3>1. UNCHANGED <<files, opens, linebuf>>
      BY <2>4 DEF EndOfInput, IncludeFails, IfdefFails, Stops, Exit, vars, source, buffer
    <3> QED
      BY <3>1, SpliceKept DEF SpliceInv
  <2>5. CASE Define \/ Undef \/ Ifdef \/ Else \/ Endif \/ Text \/ Ignored
    <3>1. UNCHANGED <<files, opens>> /\ linebuf' = Empty
      BY <2>5 DEF Define, Undef, Ifdef, Else, Endif, Text, Ignored, Processed
    <3> QED
      BY <3>1, SpliceKept DEF SpliceInv
  <2> QED
    BY <2>1, <2>2, <2>3, <2>4, <2>5 DEF Next, Reads, Directives, Stopped
<1>3. QED
  BY <1>1, <1>2 DEF SpliceInv

\* A spliced line (processfile(): linebuf and continuation) has parts of the file
\* that is read and of files that ended inside it, never of an includer.
THEOREM SplicedCorrect == Spec => []SplicedOutwards
<1>1. Init => SpliceInv
  <2> SUFFICES ASSUME Init PROVE SpliceInv
    OBVIOUS
  <2>1. files = <<1>> /\ Len(files) = 1 /\ files[1] = 1 /\ opens = 1
    BY DEF Init
  <2>2. linebuf.from = {}
    BY DEF Init, Empty
  <2>3. Opened /\ SplicedOutwards
    BY <2>1, <2>2 DEF Opened, SplicedOutwards
  <2> QED
    BY <2>3, InitInv DEF SpliceInv
<1>2. SpliceInv => SplicedOutwards
  BY DEF SpliceInv
<1>3. QED
  BY <1>1, <1>2, SpliceInvNext, PTL DEF Spec

-----------------------------------------------------------------------------
(* Refinement *)

LEMMA InitMaps == Init => C!Init
<1> SUFFICES ASSUME Init PROVE C!Init
  OBVIOUS
<1>1. Defined \in SUBSET Names
  <2>1. Predefined \in Names
    BY NamesAssumption
  <2>2. DOMAIN defs = {1} /\ defs[1] = Predefined
    BY DEF Init
  <2> QED
    BY <2>1, <2>2 DEF Defined
<1>2. QED
  BY <1>1 DEF Init, C!Init

\* between the groups' conditions and the flag
LEMMA ActiveIsNotSkipping ==
  ASSUME Inv
  PROVE  /\ C!Active <=> ~skipping
         /\ Defined \in SUBSET Names
         /\ ifstack = <<>> <=> groups = <<>>
<1>1. C!Active <=> ~skipping
  BY DEF Inv, TypeOK, SkippingIsExact, Fails, C!Active, C!Holds
<1>2. Defined \in SUBSET Names
  <2>1. DOMAIN defs = 1..Len(defs) /\ defs \in Seq(Names)
    BY Numbers DEF Inv
  <2> QED
    BY <2>1 DEF Defined
<1>3. ifstack = <<>> <=> groups = <<>>
  <2>1. Len(ifstack) = Len(groups) /\ ifstack \in Seq(BOOLEAN) /\ groups \in Seq(Group)
    BY Numbers DEF Inv, SkippingIsExact
  <2> QED
    BY <2>1
<1>4. QED
  BY <1>1, <1>2, <1>3

LEMMA StepMaps == Inv /\ Inv' /\ [Next]_vars => [C!Next]_C!vars
<1> SUFFICES ASSUME Inv, Inv', [Next]_vars PROVE [C!Next]_C!vars
  OBVIOUS
<1> USE ActiveIsNotSkipping
<1>1. CASE Reads \/ Ignored \/ UNCHANGED vars \/ IncludeFails \/ IfdefFails \/ Stops
  <2>1. UNCHANGED <<groups, defs, opens, seen, out>>
    BY <1>1 DEF Reads, ReadLine, EndOfInclude, EndOfInput, Ignored, vars, source, conds,
                text, IncludeFails, IfdefFails, Stops, Exit
  <2> QED
    BY <2>1 DEF C!vars, Defined
<1>2. CASE Include \/ Define \/ Undef
  <2>1. ~skipping /\ UNCHANGED <<groups, seen, out>> /\ opens' \in {opens, opens + 1}
    BY <1>2 DEF Include, Define, Undef, conds, text
  <2>2. Defined' \in SUBSET Names
    <3>1. TypeOK'
      BY DEF Inv
    <3>2. defs' \in Seq(Names)
      BY <3>1 DEF TypeOK
    <3>3. DOMAIN defs' = 1..Len(defs')
      BY <3>2
    <3> QED
      BY <3>2, <3>3 DEF Defined
  <2>3. C!Effect
    BY <2>1, <2>2 DEF C!Effect
  <2> QED
    BY <2>3 DEF C!Next
<1>3. CASE Ifdef
  <2>1. linebuf.name \in Names
    BY <1>3 DEF Inv, Named, Ifdef, Line
  <2>2. C!Open(linebuf.name, linebuf.kind = "ifdef")
    BY <1>3 DEF Ifdef, C!Open, Defined, text
  <2>3. (linebuf.kind = "ifdef") \in BOOLEAN
    OBVIOUS
  <2> QED
    BY <2>1, <2>2, <2>3 DEF C!Next
<1>4. CASE Else
  <2>1. C!Turn
    BY <1>4 DEF Else, C!Turn, Defined, text
  <2> QED
    BY <2>1 DEF C!Next
<1>5. CASE Endif
  <2>1. C!Close
    BY <1>5 DEF Endif, C!Close, Defined, text
  <2> QED
    BY <2>1 DEF C!Next
<1>6. CASE Text
  <2>1. linebuf.name \in Names \cup {""}
    BY DEF Inv, TypeOK
  <2>2. C!Text(linebuf.name)
    BY <1>6 DEF Text, Substituted, C!Text, Defined, conds
  <2> QED
    BY <2>1, <2>2 DEF C!Next
<1>7. QED
  BY <1>1, <1>2, <1>3, <1>4, <1>5, <1>6 DEF Next, Directives, Stopped

\* sppe.c implements CondSpec: lines have an effect exactly where every
\* conditional group around them holds.
THEOREM Implements == Spec => Conditional
<1>1. Spec => []Inv
  BY InitInv, InvNext, PTL DEF Spec
<1>2. QED
  BY <1>1, InitMaps, StepMaps, PTL DEF Spec, Conditional, C!Spec
=============================================================================
