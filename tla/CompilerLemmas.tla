--------------------------- MODULE CompilerLemmas ---------------------------
(***************************************************************************)
(* Lemmas the proofs about both compilers rest on: the C call stack as a   *)
(* sequence whose head is replaced, and the labels and jumps of the        *)
(* emitted code.                                                           *)
(***************************************************************************)
EXTENDS Integers, Sequences, TLAPS

-----------------------------------------------------------------------------
(* Sequences *)

\* Facts about <<f>> \o s for the call stack: the pieces pushed come first.
LEMMA GotoIndex ==
  ASSUME NEW S, NEW p \in Seq(S), NEW c \in Seq(S), c # <<>>
  PROVE  LET d == p \o Tail(c)
         IN /\ d \in Seq(S)
            /\ Len(d) = Len(p) + Len(c) - 1
            /\ \A i \in 1..Len(p) : d[i] = p[i]
            /\ \A i \in 2..Len(c) : d[Len(p) + i - 1] = c[i]
            /\ \A i \in DOMAIN d : i <= Len(p) \/ (i - Len(p) + 1 \in 2..Len(c)
                                                   /\ d[i] = c[i - Len(p) + 1])
<1>1. Tail(c) \in Seq(S) /\ Len(Tail(c)) = Len(c) - 1 /\ Len(c) \in Nat /\ Len(c) > 0
  OBVIOUS
<1>2. \A i \in 1..(Len(c) - 1) : Tail(c)[i] = c[i + 1]
  BY <1>1
<1>3. /\ p \o Tail(c) \in Seq(S)
      /\ Len(p \o Tail(c)) = Len(p) + Len(c) - 1
      /\ Len(p) \in Nat
  BY <1>1
<1>4. \A i \in 1..Len(p) : (p \o Tail(c))[i] = p[i]
  BY <1>1
<1>5. \A i \in 2..Len(c) : (p \o Tail(c))[Len(p) + i - 1] = c[i]
  <2> SUFFICES ASSUME NEW i \in 2..Len(c)
               PROVE  (p \o Tail(c))[Len(p) + i - 1] = c[i]
    OBVIOUS
  <2>1. (p \o Tail(c))[Len(p) + i - 1] = Tail(c)[i - 1]
    BY <1>1, <1>3
  <2>2. QED
    BY <2>1, <1>1, <1>2
<1>6. \A i \in DOMAIN (p \o Tail(c)) :
        i <= Len(p) \/ (i - Len(p) + 1 \in 2..Len(c)
                        /\ (p \o Tail(c))[i] = c[i - Len(p) + 1])
  <2> SUFFICES ASSUME NEW i \in DOMAIN (p \o Tail(c)), ~(i <= Len(p))
               PROVE  /\ i - Len(p) + 1 \in 2..Len(c)
                      /\ (p \o Tail(c))[i] = c[i - Len(p) + 1]
    OBVIOUS
  <2>1. i \in 1..(Len(p) + Len(c) - 1)
    BY <1>3
  <2>2. i - Len(p) + 1 \in 2..Len(c)
    BY <2>1, <1>1, <1>3
  <2>3. Len(p) + (i - Len(p) + 1) - 1 = i
    BY <2>1, <1>3
  <2>4. QED
    BY <2>2, <2>3, <1>5
<1>7. QED
  BY <1>3, <1>4, <1>5, <1>6

\* a sequence with an item is not the empty one
LEMMA NonEmpty ==
  ASSUME NEW s, Len(s) > 0
  PROVE  s # <<>>
OBVIOUS

\* p put in front of c
LEMMA Concatenated ==
  ASSUME NEW S, NEW p \in Seq(S), NEW c \in Seq(S)
  PROVE  /\ p \o c \in Seq(S)
         /\ Len(p \o c) = Len(p) + Len(c)
         /\ \A i \in DOMAIN p : i \in DOMAIN (p \o c) /\ (p \o c)[i] = p[i]
         /\ \A i \in DOMAIN c : /\ Len(p) + i \in DOMAIN (p \o c)
                                /\ (p \o c)[Len(p) + i] = c[i]
         /\ \A i \in DOMAIN (p \o c) :
              \/ i \in DOMAIN p
              \/ i > Len(p) /\ i - Len(p) \in DOMAIN c /\ (p \o c)[i] = c[i - Len(p)]
<1>1. /\ p \o c \in Seq(S) /\ Len(p \o c) = Len(p) + Len(c)
      /\ DOMAIN p = 1..Len(p) /\ DOMAIN c = 1..Len(c) /\ Len(p) \in Nat /\ Len(c) \in Nat
      /\ DOMAIN (p \o c) = 1..Len(p \o c)
  OBVIOUS
<1>2. \A i \in 1..Len(p) : (p \o c)[i] = p[i]
  BY <1>1
<1>3. \A i \in 1..Len(c) : (p \o c)[Len(p) + i] = c[i]
  BY <1>1
<1>4. \A i \in DOMAIN (p \o c) : i \in DOMAIN p \/ (i > Len(p) /\ i - Len(p) \in DOMAIN c)
  BY <1>1
<1>5. \A i \in DOMAIN (p \o c) : i - Len(p) \in DOMAIN c => (p \o c)[i] = c[i - Len(p)]
  <2> SUFFICES ASSUME NEW i \in DOMAIN (p \o c), i - Len(p) \in DOMAIN c
               PROVE  (p \o c)[i] = c[i - Len(p)]
    OBVIOUS
  <2>1. PICK k : k = i - Len(p)
    OBVIOUS
  <2>2. k \in 1..Len(c) /\ i = Len(p) + k
    BY <1>1, <2>1
  <2> QED
    BY <1>3, <2>1, <2>2
<1> QED
  BY <1>1, <1>2, <1>3, <1>4, <1>5

LEMMA Associated ==
  ASSUME NEW S, NEW p \in Seq(S), NEW q \in Seq(S), NEW c \in Seq(S)
  PROVE  (p \o q) \o c = p \o (q \o c)
OBVIOUS

\* sequences of the same items
LEMMA SameItems ==
  ASSUME NEW S, NEW p \in Seq(S), NEW q \in Seq(S), Len(p) = Len(q),
         \A i \in 1..Len(p) : p[i] = q[i]
  PROVE  p = q
OBVIOUS

LEMMA ItemsTyped ==
  ASSUME NEW S, NEW p \in Seq(S)
  PROVE  \A i \in 1..Len(p) : p[i] \in S
OBVIOUS

\* a short sequence in front of s is its items, one in front of the other
Before(x, s) == <<x>> \o s

LEMMA TwoItems ==
  ASSUME NEW S, NEW p \in Seq(S), Len(p) = 2, NEW s \in Seq(S)
  PROVE  p \o s = Before(p[1], Before(p[2], s))
<1>0. \A i \in 1..Len(p) : p[i] \in S
  BY ItemsTyped
<1>1. p[1] \in S /\ p[2] \in S
  BY <1>0
<1> PICK a \in S, b \in S : a = p[1] /\ b = p[2]
  BY <1>1
<1> PICK q, one, two : q = one \o two /\ one = <<a>> /\ two = <<b>>
  OBVIOUS
<1>2. /\ q \in Seq(S) /\ Len(q) = 2
      /\ q[1] = a /\ q[2] = b
  OBVIOUS
<1>3. \A i \in 1..2 : i = 1 \/ i = 2
  OBVIOUS
<1>4. \A i \in 1..2 : p[i] = q[i]
  BY <1>2, <1>3
<1>5. p = q
  BY <1>2, <1>4, SameItems
<1>6. one \in Seq(S) /\ two \in Seq(S)
  OBVIOUS
<1>7. (one \o two) \o s = one \o (two \o s)
  BY <1>6, Associated
<1> QED
  BY <1>5, <1>7 DEF Before

LEMMA ThreeItems ==
  ASSUME NEW S, NEW p \in Seq(S), Len(p) = 3, NEW s \in Seq(S)
  PROVE  p \o s = Before(p[1], Before(p[2], Before(p[3], s)))
<1>0. \A i \in 1..Len(p) : p[i] \in S
  BY ItemsTyped
<1>1. p[1] \in S /\ p[2] \in S /\ p[3] \in S
  BY <1>0
<1> PICK a \in S, b \in S, c \in S : a = p[1] /\ b = p[2] /\ c = p[3]
  BY <1>1
<1> PICK q, one, two : q = one \o two /\ one = <<a>> /\ two = <<b, c>>
  OBVIOUS
<1>2. /\ q \in Seq(S) /\ Len(q) = 3
      /\ q[1] = a /\ q[2] = b /\ q[3] = c
  OBVIOUS
<1>3. \A i \in 1..3 : i = 1 \/ i = 2 \/ i = 3
  OBVIOUS
<1>4. \A i \in 1..3 : p[i] = q[i]
  BY <1>2, <1>3
<1>5. p = q
  BY <1>2, <1>4, SameItems
<1>6. /\ one \in Seq(S) /\ two \in Seq(S) /\ Len(two) = 2
      /\ two[1] = b /\ two[2] = c
  OBVIOUS
<1>7. (one \o two) \o s = one \o (two \o s)
  BY <1>6, Associated
<1>8. two \o s = Before(two[1], Before(two[2], s))
  BY <1>6, TwoItems
<1> QED
  BY <1>5, <1>6, <1>7, <1>8 DEF Before

LEMMA FourItems ==
  ASSUME NEW S, NEW p \in Seq(S), Len(p) = 4, NEW s \in Seq(S)
  PROVE  p \o s = Before(p[1], Before(p[2], Before(p[3], Before(p[4], s))))
<1>0. \A i \in 1..Len(p) : p[i] \in S
  BY ItemsTyped
<1>1. p[1] \in S /\ p[2] \in S /\ p[3] \in S /\ p[4] \in S
  BY <1>0
<1> PICK a \in S, b \in S, c \in S, d \in S : a = p[1] /\ b = p[2] /\ c = p[3] /\ d = p[4]
  BY <1>1
<1> PICK q, one, two : q = one \o two /\ one = <<a>> /\ two = <<b, c, d>>
  OBVIOUS
<1>2. /\ q \in Seq(S) /\ Len(q) = 4
      /\ q[1] = a /\ q[2] = b /\ q[3] = c /\ q[4] = d
  OBVIOUS
<1>3. \A i \in 1..4 : i = 1 \/ i = 2 \/ i = 3 \/ i = 4
  OBVIOUS
<1>4. \A i \in 1..4 : p[i] = q[i]
  BY <1>2, <1>3
<1>5. p = q
  BY <1>2, <1>4, SameItems
<1>6. /\ one \in Seq(S) /\ two \in Seq(S) /\ Len(two) = 3
      /\ two[1] = b /\ two[2] = c /\ two[3] = d
  OBVIOUS
<1>7. (one \o two) \o s = one \o (two \o s)
  BY <1>6, Associated
<1>8. two \o s = Before(two[1], Before(two[2], Before(two[3], s)))
  BY <1>6, ThreeItems
<1> QED
  BY <1>5, <1>6, <1>7, <1>8 DEF Before

Pair(a, b) == <<a, b>>
Quad(a, b, c, d) == <<a, b, c, d>>

\* the sequences over S, kept closed so that the lemmas below can be instantiated
ListOf(S) == Seq(S)
Joined(p, s) == p \o s

LEMMA JoinedPair ==
  ASSUME NEW S, NEW a \in S, NEW b \in S, NEW s, s \in ListOf(S)
  PROVE  Joined(Pair(a, b), s) = Before(a, Before(b, s))
<1> PICK p : p = Pair(a, b)
  OBVIOUS
<1>1. s \in Seq(S) /\ p \in Seq(S) /\ Len(p) = 2 /\ p[1] = a /\ p[2] = b
  BY DEF Pair, ListOf
<1>2. p \o s = Before(p[1], Before(p[2], s))
  BY <1>1, TwoItems
<1> QED
  BY <1>1, <1>2 DEF Joined

LEMMA JoinedQuad ==
  ASSUME NEW S, NEW a \in S, NEW b \in S, NEW c \in S, NEW d \in S, NEW s, s \in ListOf(S)
  PROVE  Joined(Quad(a, b, c, d), s) = Before(a, Before(b, Before(c, Before(d, s))))
<1> PICK p : p = Quad(a, b, c, d)
  OBVIOUS
<1>1. /\ s \in Seq(S) /\ p \in Seq(S) /\ Len(p) = 4
      /\ p[1] = a /\ p[2] = b /\ p[3] = c /\ p[4] = d
  BY DEF Quad, ListOf
<1>2. p \o s = Before(p[1], Before(p[2], Before(p[3], Before(p[4], s))))
  BY <1>1, FourItems
<1> QED
  BY <1>1, <1>2 DEF Joined

LEMMA JoinedPairs ==
  ASSUME NEW S, NEW a \in S, NEW b \in S, NEW c \in S, NEW d \in S, NEW s, s \in ListOf(S)
  PROVE  Joined(Joined(Pair(a, b), Pair(c, d)), s)
         = Before(a, Before(b, Before(c, Before(d, s))))
<1> PICK p, q, t : p = Pair(a, b) /\ q = Pair(c, d) /\ t = Joined(q, s)
  OBVIOUS
<1>1. s \in Seq(S) /\ p \in Seq(S) /\ q \in Seq(S)
  BY DEF Pair, ListOf
<1>2. q \o s \in Seq(S)
  BY <1>1, Concatenated
<1>3. t \in ListOf(S)
  BY <1>2 DEF ListOf, Joined
<1>4. t = Before(c, Before(d, s))
  BY JoinedPair
<1>5. Joined(p, t) = Before(a, Before(b, t))
  BY <1>3, JoinedPair
<1>6. (p \o q) \o s = p \o (q \o s)
  BY ONLY <1>1, Associated, SMTT(30)
<1>7. Joined(Joined(p, q), s) = Joined(p, t)
  BY <1>6 DEF Joined
<1> QED
  BY <1>4, <1>5, <1>7

-----------------------------------------------------------------------------
(* The labels in a piece of code *)

JumpOps == {"jump", "jz", "jnz"}
LabelsIn(code, l) == {i \in DOMAIN code : code[i].op = "label" /\ code[i].l = l}
AllLabels(code) == {i \in DOMAIN code : code[i].op = "label"}
JumpsIn(code) == {i \in DOMAIN code : code[i].op \in JumpOps}
EntriesIn(code) == {i \in DOMAIN code : code[i].op = "entry"}

(* A code with the number of the next label, the labels owed (a jump may go *)
(* to them, and they are emitted later), the heads of the open loops and    *)
(* the numbers taken by symbols.                                            *)

\* every number was drawn from the counter
Drawn(code, next, owed, heads, taken) ==
  /\ \A l \in owed \cup heads \cup taken : l \in Nat /\ l < next
  /\ \A i \in AllLabels(code) \cup JumpsIn(code) : code[i].l \in Nat /\ code[i].l < next

\* what is owed or taken is no label yet, and nothing is both
Unused(code, owed, taken) ==
  /\ \A l \in owed \cup taken : LabelsIn(code, l) = {}
  /\ \A l \in owed : l \notin taken

\* no label is emitted twice
EmittedOnce(code) == \A i, j \in AllLabels(code) : code[i].l = code[j].l => i = j

\* The head of an open loop is in the last function.  Jumps before it go to older
\* labels, and labels behind it are younger.
HeadsStand(code, heads) ==
  \A n \in heads : \E h \in LabelsIn(code, n) :
    /\ \A e \in EntriesIn(code) : e < h
    /\ \A k \in JumpsIn(code) : k < h => code[k].l < n
    /\ \A p \in AllLabels(code) : p > h => code[p].l > n

\* between a jump back and its label there is no head of an open loop
HeadsOutside(code, heads) ==
  \A j \in JumpsIn(code) : \A h \in LabelsIn(code, code[j].l) :
    h < j => \A n \in heads : \A g \in LabelsIn(code, n) : ~(h < g /\ g < j)

\* a jump's label is in its function, or owed in the last one
JumpsSettled(code, owed) ==
  \A j \in JumpsIn(code) :
    \/ \E i \in LabelsIn(code, code[j].l) : \A e \in EntriesIn(code) : (e < i) <=> (e < j)
    \/ code[j].l \in owed /\ \A e \in EntriesIn(code) : e < j

\* no jump enters the code between a jump back and its label
LoopsClosed(code) ==
  \A j \in JumpsIn(code) : \A h \in LabelsIn(code, code[j].l) :
    h < j => /\ code[j].op = "jump"
             /\ \A k \in JumpsIn(code) : \A p \in LabelsIn(code, code[k].l) :
                  (k < h \/ j < k) => ~(h < p /\ p < j)

Labelling(code, next, owed, heads, taken) ==
  /\ Drawn(code, next, owed, heads, taken)
  /\ Unused(code, owed, taken)
  /\ EmittedOnce(code)
  /\ HeadsStand(code, heads)
  /\ HeadsOutside(code, heads)
  /\ JumpsSettled(code, owed)
  /\ LoopsClosed(code)

-----------------------------------------------------------------------------
(* One more instruction *)

LEMMA Appended ==
  ASSUME NEW S, NEW c \in Seq(S), NEW x \in S
  PROVE  LET d == Append(c, x)  m == Len(c) + 1
         IN /\ m \in Nat /\ d \in Seq(S)
            /\ DOMAIN d = DOMAIN c \cup {m}
            /\ d[m] = x
            /\ \A i \in DOMAIN c : d[i] = c[i] /\ i \in Nat /\ i < m
OBVIOUS

\* the new instruction's place in the sets of labels, jumps and entries
LEMMA SetsGrow ==
  ASSUME NEW S, NEW c \in Seq(S), NEW x \in S
  PROVE  LET d == Append(c, x)  m == Len(c) + 1
         IN /\ \A l : LabelsIn(d, l) = LabelsIn(c, l) \cup
                        (IF x.op = "label" /\ x.l = l THEN {m} ELSE {})
            /\ AllLabels(d) = AllLabels(c) \cup (IF x.op = "label" THEN {m} ELSE {})
            /\ JumpsIn(d) = JumpsIn(c) \cup (IF x.op \in JumpOps THEN {m} ELSE {})
            /\ EntriesIn(d) = EntriesIn(c) \cup (IF x.op = "entry" THEN {m} ELSE {})
<1> DEFINE d == Append(c, x)
           m == Len(c) + 1
<1>1. /\ DOMAIN d = DOMAIN c \cup {m}
      /\ d[m] = x /\ m \notin DOMAIN c
      /\ \A i \in DOMAIN c : d[i] = c[i]
  BY Appended
<1> HIDE DEF d, m
<1>2. \A l : LabelsIn(d, l) = LabelsIn(c, l) \cup
                        (IF x.op = "label" /\ x.l = l THEN {m} ELSE {})
  BY <1>1 DEF LabelsIn
<1>3. AllLabels(d) = AllLabels(c) \cup (IF x.op = "label" THEN {m} ELSE {})
  BY <1>1 DEF AllLabels
<1>4. JumpsIn(d) = JumpsIn(c) \cup (IF x.op \in JumpOps THEN {m} ELSE {})
  BY <1>1 DEF JumpsIn
<1>5. EntriesIn(d) = EntriesIn(c) \cup (IF x.op = "entry" THEN {m} ELSE {})
  BY <1>1 DEF EntriesIn
<1> QED
  BY <1>2, <1>3, <1>4, <1>5 DEF d, m

LEMMA SetsWithin ==
  ASSUME NEW c
  PROVE  /\ \A l : LabelsIn(c, l) \subseteq AllLabels(c)
         /\ \A l : \A i \in LabelsIn(c, l) : c[i].l = l /\ c[i].op = "label"
         /\ \A i \in AllLabels(c) : i \in LabelsIn(c, c[i].l)
         /\ AllLabels(c) \subseteq DOMAIN c
         /\ JumpsIn(c) \subseteq DOMAIN c
         /\ EntriesIn(c) \subseteq DOMAIN c
BY DEF LabelsIn, AllLabels, JumpsIn, EntriesIn

\* d is c with x behind it, at place m
Extended(c, x, d, m) ==
  /\ m \in Nat /\ m \notin DOMAIN c /\ d[m] = x
  /\ \A i \in DOMAIN c : d[i] = c[i] /\ i \in Nat /\ i < m
  /\ \A l : LabelsIn(d, l) = IF x.op = "label" /\ x.l = l THEN LabelsIn(c, l) \cup {m}
                                                       ELSE LabelsIn(c, l)
  /\ AllLabels(d) = IF x.op = "label" THEN AllLabels(c) \cup {m} ELSE AllLabels(c)
  /\ JumpsIn(d) = IF x.op \in JumpOps THEN JumpsIn(c) \cup {m} ELSE JumpsIn(c)
  /\ EntriesIn(d) = IF x.op = "entry" THEN EntriesIn(c) \cup {m} ELSE EntriesIn(c)

\* What an appended instruction leaves as it was, in one place.
LEMMA Step ==
  ASSUME NEW S, NEW c \in Seq(S), NEW x \in S
  PROVE  Extended(c, x, Append(c, x), Len(c) + 1)
<1> PICK d, m : d = Append(c, x) /\ m = Len(c) + 1
  OBVIOUS
<1>1. /\ m \in Nat /\ m \notin DOMAIN c /\ d[m] = x
      /\ \A i \in DOMAIN c : d[i] = c[i] /\ i \in Nat /\ i < m
  BY Appended
<1>2. \A l : LabelsIn(d, l) = LabelsIn(c, l) \cup
               (IF x.op = "label" /\ x.l = l THEN {m} ELSE {})
  BY SetsGrow
<1>3. AllLabels(d) = AllLabels(c) \cup (IF x.op = "label" THEN {m} ELSE {})
  BY SetsGrow
<1>4. JumpsIn(d) = JumpsIn(c) \cup (IF x.op \in JumpOps THEN {m} ELSE {})
  BY SetsGrow
<1>5. EntriesIn(d) = EntriesIn(c) \cup (IF x.op = "entry" THEN {m} ELSE {})
  BY SetsGrow
<1>6. \A l : LabelsIn(d, l) = IF x.op = "label" /\ x.l = l THEN LabelsIn(c, l) \cup {m}
                                                          ELSE LabelsIn(c, l)
  <2> SUFFICES ASSUME NEW l
               PROVE  LabelsIn(d, l) = IF x.op = "label" /\ x.l = l
                                       THEN LabelsIn(c, l) \cup {m} ELSE LabelsIn(c, l)
    OBVIOUS
  <2>1. LabelsIn(d, l) = LabelsIn(c, l) \cup (IF x.op = "label" /\ x.l = l THEN {m} ELSE {})
    BY <1>2
  <2> QED
    BY <2>1
<1>7. AllLabels(d) = IF x.op = "label" THEN AllLabels(c) \cup {m} ELSE AllLabels(c)
  BY <1>3
<1>8. JumpsIn(d) = IF x.op \in JumpOps THEN JumpsIn(c) \cup {m} ELSE JumpsIn(c)
  BY <1>4
<1>9. EntriesIn(d) = IF x.op = "entry" THEN EntriesIn(c) \cup {m} ELSE EntriesIn(c)
  BY <1>5
<1> QED
  BY <1>1, <1>6, <1>7, <1>8, <1>9 DEF Extended

-----------------------------------------------------------------------------
(* The operations of the compilers *)

\* a label number is drawn, for a label owed, for a symbol or for nothing
LEMMA Draw ==
  ASSUME NEW c, NEW next \in Nat, NEW owed, NEW heads, NEW taken,
         Labelling(c, next, owed, heads, taken)
  PROVE  /\ Labelling(c, next + 1, owed, heads, taken)
         /\ Labelling(c, next + 1, owed \cup {next}, heads, taken)
         /\ Labelling(c, next + 1, owed, heads, taken \cup {next})
<1>1. /\ \A l \in owed \cup heads \cup taken : l \in Nat /\ l < next + 1 /\ l # next
      /\ \A i \in AllLabels(c) \cup JumpsIn(c) : /\ c[i].l \in Nat /\ c[i].l < next + 1
                                                 /\ c[i].l # next
      /\ next < next + 1 /\ next + 1 \in Nat
  BY DEF Labelling, Drawn
<1>2. LabelsIn(c, next) = {}
  BY <1>1, SetsWithin
<1>3. JumpsSettled(c, owed \cup {next})
  BY DEF Labelling, JumpsSettled
<1>4. /\ Drawn(c, next + 1, owed, heads, taken)
      /\ Drawn(c, next + 1, owed \cup {next}, heads, taken)
      /\ Drawn(c, next + 1, owed, heads, taken \cup {next})
  BY <1>1 DEF Drawn
<1>5. /\ Unused(c, owed \cup {next}, taken)
      /\ Unused(c, owed, taken \cup {next})
  BY <1>1, <1>2 DEF Labelling, Unused
<1> QED
  BY <1>3, <1>4, <1>5 DEF Labelling

\* a loop is closed
LEMMA CloseLoop ==
  ASSUME NEW c, NEW next, NEW owed, NEW heads, NEW taken, NEW fewer \in SUBSET heads,
         Labelling(c, next, owed, heads, taken)
  PROVE  Labelling(c, next, owed, fewer, taken)
BY DEF Labelling, Drawn, HeadsStand, HeadsOutside

\* a jump to a label owed
LEMMA JumpForward ==
  ASSUME NEW S, NEW c \in Seq(S), NEW next, NEW owed, NEW heads, NEW taken,
         Labelling(c, next, owed, heads, taken),
         NEW x \in S, x.op \in JumpOps, x.l \in owed
  PROVE  Labelling(Append(c, x), next, owed, heads, taken)
<1> DEFINE D == Append(c, x)
<1> PICK d, m : d = D /\ m = Len(c) + 1
  OBVIOUS
<1>1. /\ m \in Nat /\ m \notin DOMAIN c /\ d[m] = x
      /\ \A i \in DOMAIN c : d[i] = c[i] /\ i \in Nat /\ i < m
      /\ \A l : LabelsIn(d, l) = LabelsIn(c, l)
      /\ AllLabels(d) = AllLabels(c)
      /\ JumpsIn(d) = JumpsIn(c) \cup {m}
      /\ EntriesIn(d) = EntriesIn(c)
  <2>1. x.op \in JumpOps /\ x.op # "label" /\ x.op # "entry"
    BY DEF JumpOps
  <2>2. Extended(c, x, d, m)
    BY Step
  <2> QED
    BY <2>1, <2>2 DEF Extended
<1> HIDE DEF D
<1>2. /\ \A i \in AllLabels(c) \cup JumpsIn(c) \cup EntriesIn(c) :
            d[i] = c[i] /\ i \in Nat /\ i < m /\ ~(m < i)
      /\ \A l : \A i \in LabelsIn(c, l) : i \in AllLabels(c) /\ i \in Nat /\ i < m /\ ~(m < i)
      /\ LabelsIn(c, x.l) = {}
  BY <1>1, SetsWithin DEF Labelling, Unused
<1>3. Drawn(d, next, owed, heads, taken)
  BY <1>1, <1>2 DEF Labelling, Drawn
<1>4. Unused(d, owed, taken) /\ EmittedOnce(d)
  BY <1>1, <1>2 DEF Labelling, Unused, EmittedOnce
<1>5. HeadsStand(d, heads)
  <2> SUFFICES ASSUME NEW n \in heads
               PROVE  \E h \in LabelsIn(d, n) :
                         /\ \A e \in EntriesIn(d) : e < h
                         /\ \A k \in JumpsIn(d) : k < h => d[k].l < n
                         /\ \A p \in AllLabels(d) : p > h => d[p].l > n
    BY DEF HeadsStand
  <2>1. PICK h \in LabelsIn(c, n) :
           /\ \A e \in EntriesIn(c) : e < h
           /\ \A k \in JumpsIn(c) : k < h => c[k].l < n
           /\ \A p \in AllLabels(c) : p > h => c[p].l > n
    BY DEF Labelling, HeadsStand
  <2> QED
    BY <1>1, <1>2, <2>1
<1>6. HeadsOutside(d, heads)
  BY <1>1, <1>2, SMTT(30) DEF Labelling, HeadsOutside
<1>7. JumpsSettled(d, owed)
  <2> SUFFICES ASSUME NEW j \in JumpsIn(d)
               PROVE  \/ \E i \in LabelsIn(d, d[j].l) :
                            \A e \in EntriesIn(d) : (e < i) <=> (e < j)
                      \/ d[j].l \in owed /\ \A e \in EntriesIn(d) : e < j
    BY DEF JumpsSettled
  <2>1. CASE j = m
    BY <1>1, <1>2, <2>1
  <2>2. CASE j \in JumpsIn(c)
    BY <1>1, <1>2, <2>2 DEF Labelling, JumpsSettled
  <2> QED
    BY <1>1, <2>1, <2>2
<1>8. LoopsClosed(d)
  <2> SUFFICES ASSUME NEW j \in JumpsIn(d), NEW h \in LabelsIn(d, d[j].l), h < j
               PROVE  /\ d[j].op = "jump"
                      /\ \A k \in JumpsIn(d) : \A p \in LabelsIn(d, d[k].l) :
                            (k < h \/ j < k) => ~(h < p /\ p < j)
    BY DEF LoopsClosed
  <2>1. j \in JumpsIn(c) /\ h \in LabelsIn(c, c[j].l) /\ d[j] = c[j]
    BY <1>1, <1>2
  <2>2. /\ c[j].op = "jump"
        /\ \A k \in JumpsIn(c) : \A p \in LabelsIn(c, c[k].l) :
              (k < h \/ j < k) => ~(h < p /\ p < j)
    BY <2>1 DEF Labelling, LoopsClosed
  <2> QED
    BY <1>1, <1>2, <2>1, <2>2
<1> QED
  BY <1>3, <1>4, <1>5, <1>6, <1>7, <1>8 DEF Labelling, D

\* a jump back to the head of the innermost loop
LEMMA JumpBack ==
  ASSUME NEW S, NEW c \in Seq(S), NEW next, NEW owed, NEW heads, NEW taken,
         Labelling(c, next, owed, heads, taken),
         NEW x \in S, x.op = "jump", x.l \in heads, \A n \in heads : n <= x.l
  PROVE  Labelling(Append(c, x), next, owed, heads, taken)
<1> DEFINE D == Append(c, x)
<1> PICK d, m : d = D /\ m = Len(c) + 1
  OBVIOUS
<1>1. /\ m \in Nat /\ m \notin DOMAIN c /\ d[m] = x
      /\ \A i \in DOMAIN c : d[i] = c[i] /\ i \in Nat /\ i < m
      /\ \A l : LabelsIn(d, l) = LabelsIn(c, l)
      /\ AllLabels(d) = AllLabels(c)
      /\ JumpsIn(d) = JumpsIn(c) \cup {m}
      /\ EntriesIn(d) = EntriesIn(c)
  <2>1. x.op \in JumpOps /\ x.op # "label" /\ x.op # "entry"
    BY DEF JumpOps
  <2>2. Extended(c, x, d, m)
    BY Step
  <2> QED
    BY <2>1, <2>2 DEF Extended
<1> HIDE DEF D
<1>2. /\ \A i \in AllLabels(c) \cup JumpsIn(c) \cup EntriesIn(c) :
            d[i] = c[i] /\ i \in Nat /\ i < m /\ ~(m < i)
      /\ \A l : \A i \in LabelsIn(c, l) : /\ i \in AllLabels(c) /\ i \in Nat /\ i < m /\ ~(m < i)
                                          /\ c[i].l = l
  BY <1>1, SetsWithin
<1>a. /\ \A n \in heads : n \in Nat
      /\ \A i \in AllLabels(c) \cup JumpsIn(c) : c[i].l \in Nat
      /\ EmittedOnce(c)
  BY DEF Labelling, Drawn
<1>b. PICK h0 \in LabelsIn(c, x.l) :
           /\ \A e \in EntriesIn(c) : e < h0
           /\ \A k \in JumpsIn(c) : k < h0 => c[k].l < x.l
           /\ \A p \in AllLabels(c) : p > h0 => c[p].l > x.l
  BY DEF Labelling, HeadsStand
<1>c. \A h \in LabelsIn(c, x.l) : h = h0
  BY <1>2, <1>a DEF EmittedOnce
<1>3. Drawn(d, next, owed, heads, taken)
  BY <1>1, <1>2 DEF Labelling, Drawn
<1>4. Unused(d, owed, taken) /\ EmittedOnce(d)
  BY <1>1, <1>2 DEF Labelling, Unused, EmittedOnce
<1>5. HeadsStand(d, heads)
  <2> SUFFICES ASSUME NEW n \in heads
               PROVE  \E h \in LabelsIn(d, n) :
                         /\ \A e \in EntriesIn(d) : e < h
                         /\ \A k \in JumpsIn(d) : k < h => d[k].l < n
                         /\ \A p \in AllLabels(d) : p > h => d[p].l > n
    BY DEF HeadsStand
  <2>1. PICK h \in LabelsIn(c, n) :
           /\ \A e \in EntriesIn(c) : e < h
           /\ \A k \in JumpsIn(c) : k < h => c[k].l < n
           /\ \A p \in AllLabels(c) : p > h => c[p].l > n
    BY DEF Labelling, HeadsStand
  <2> QED
    BY <1>1, <1>2, <2>1
<1>6. HeadsOutside(d, heads)
  <2> SUFFICES ASSUME NEW j \in JumpsIn(d), NEW h \in LabelsIn(d, d[j].l), h < j,
                      NEW n \in heads, NEW g \in LabelsIn(d, n), h < g, g < j
               PROVE  FALSE
    BY DEF HeadsOutside
  <2>1. CASE j = m
    <3>1. h = h0 /\ g \in AllLabels(c) /\ c[g].l = n
      BY <1>1, <1>2, <1>c, <2>1
    <3>2. n > x.l
      BY <1>b, <1>2, <3>1
    <3> QED
      BY <1>a, <3>2
  <2>2. CASE j \in JumpsIn(c)
    BY <1>1, <1>2, <2>2 DEF Labelling, HeadsOutside
  <2> QED
    BY <1>1, <2>1, <2>2
<1>7. JumpsSettled(d, owed)
  <2> SUFFICES ASSUME NEW j \in JumpsIn(d)
               PROVE  \/ \E i \in LabelsIn(d, d[j].l) :
                            \A e \in EntriesIn(d) : (e < i) <=> (e < j)
                      \/ d[j].l \in owed /\ \A e \in EntriesIn(d) : e < j
    BY DEF JumpsSettled
  <2>1. CASE j = m
    <3>1. h0 \in LabelsIn(d, d[j].l)
      BY <1>1, <2>1
    <3>2. \A e \in EntriesIn(d) : e < h0 /\ e < j
      BY <1>1, <1>2, <1>b, <2>1
    <3> QED
      BY <3>1, <3>2
  <2>2. CASE j \in JumpsIn(c)
    BY <1>1, <1>2, <2>2, ZenonT(40) DEF Labelling, JumpsSettled
  <2> QED
    BY <1>1, <2>1, <2>2
<1>8. LoopsClosed(d)
  <2> SUFFICES ASSUME NEW j \in JumpsIn(d), NEW h \in LabelsIn(d, d[j].l), h < j
               PROVE  /\ d[j].op = "jump"
                      /\ \A k \in JumpsIn(d) : \A p \in LabelsIn(d, d[k].l) :
                            (k < h \/ j < k) => ~(h < p /\ p < j)
    BY DEF LoopsClosed
  <2>1. CASE j = m
    <3>1. h = h0 /\ d[j].op = "jump"
      BY <1>1, <1>c, <2>1
    <3> SUFFICES ASSUME NEW k \in JumpsIn(d), NEW p \in LabelsIn(d, d[k].l),
                        k < h \/ j < k, h < p, p < j
                 PROVE  FALSE
      BY <3>1
    <3>2. k \in JumpsIn(c) /\ k < h0
      BY <1>1, <1>2, <2>1, <3>1
    <3>3. c[k].l < x.l /\ p \in AllLabels(c) /\ c[p].l = c[k].l
      BY <1>1, <1>2, <1>b, <3>2
    <3>4. c[p].l > x.l
      BY <1>b, <3>1, <3>3
    <3> QED
      BY <1>a, <3>2, <3>3, <3>4
  <2>2. CASE j \in JumpsIn(c)
    <3>1. h \in LabelsIn(c, c[j].l) /\ d[j] = c[j]
      BY <1>1, <1>2, <2>2
    <3>2. /\ c[j].op = "jump"
          /\ \A k \in JumpsIn(c) : \A p \in LabelsIn(c, c[k].l) :
                (k < h \/ j < k) => ~(h < p /\ p < j)
      BY <2>2, <3>1 DEF Labelling, LoopsClosed
    <3>3. \A p \in LabelsIn(c, x.l) : ~(h < p /\ p < j)
      BY <2>2, <3>1 DEF Labelling, HeadsOutside
    <3> QED
      BY <1>1, <1>2, <3>1, <3>2, <3>3
  <2> QED
    BY <1>1, <2>1, <2>2
<1> QED
  BY <1>3, <1>4, <1>5, <1>6, <1>7, <1>8 DEF Labelling, D

\* a label owed is emitted, younger than the loops still open
LEMMA LabelOwed ==
  ASSUME NEW S, NEW c \in Seq(S), NEW next, NEW owed, NEW heads, NEW taken,
         Labelling(c, next, owed, heads, taken),
         NEW x \in S, x.op = "label", x.l \in owed, \A n \in heads : n < x.l
  PROVE  Labelling(Append(c, x), next, owed \ {x.l}, heads, taken)
<1> DEFINE D == Append(c, x)
<1> PICK d, m : d = D /\ m = Len(c) + 1
  OBVIOUS
<1>1. /\ m \in Nat /\ m \notin DOMAIN c /\ d[m] = x
      /\ \A i \in DOMAIN c : d[i] = c[i] /\ i \in Nat /\ i < m
      /\ \A l : l # x.l => LabelsIn(d, l) = LabelsIn(c, l)
      /\ LabelsIn(d, x.l) = LabelsIn(c, x.l) \cup {m}
      /\ AllLabels(d) = AllLabels(c) \cup {m}
      /\ JumpsIn(d) = JumpsIn(c)
      /\ EntriesIn(d) = EntriesIn(c)
  <2>1. x.op \notin JumpOps /\ x.op # "entry"
    BY DEF JumpOps
  <2>2. Extended(c, x, d, m)
    BY Step
  <2> QED
    BY <2>1, <2>2 DEF Extended
<1> HIDE DEF D
<1>2. /\ \A i \in AllLabels(c) \cup JumpsIn(c) \cup EntriesIn(c) :
            d[i] = c[i] /\ i \in Nat /\ i < m /\ ~(m < i)
      /\ \A l : \A i \in LabelsIn(c, l) : /\ i \in AllLabels(c) /\ i \in Nat /\ i < m /\ ~(m < i)
                                          /\ c[i].l = l
      /\ \A i \in AllLabels(c) : i \in LabelsIn(c, c[i].l)
      /\ LabelsIn(c, x.l) = {}
  BY <1>1, SetsWithin DEF Labelling, Unused
<1>a. LabelsIn(d, x.l) = {m} /\ \A i \in AllLabels(c) : c[i].l # x.l
  BY <1>1, <1>2
<1>3. Drawn(d, next, owed \ {x.l}, heads, taken)
  BY <1>1, <1>2 DEF Labelling, Drawn
<1>4. Unused(d, owed \ {x.l}, taken)
  BY <1>1, <1>2 DEF Labelling, Unused
<1>b. EmittedOnce(d)
  BY <1>1, <1>2, <1>a DEF Labelling, EmittedOnce
<1>5. HeadsStand(d, heads)
  <2> SUFFICES ASSUME NEW n \in heads
               PROVE  \E h \in LabelsIn(d, n) :
                         /\ \A e \in EntriesIn(d) : e < h
                         /\ \A k \in JumpsIn(d) : k < h => d[k].l < n
                         /\ \A p \in AllLabels(d) : p > h => d[p].l > n
    BY DEF HeadsStand
  <2>1. PICK h \in LabelsIn(c, n) :
           /\ \A e \in EntriesIn(c) : e < h
           /\ \A k \in JumpsIn(c) : k < h => c[k].l < n
           /\ \A p \in AllLabels(c) : p > h => c[p].l > n
    BY DEF Labelling, HeadsStand
  <2>2. h \in LabelsIn(d, n) /\ d[m].l > n
    <3>1. n < x.l /\ n \in Nat /\ x.l \in Nat
      BY DEF Labelling, Drawn
    <3> QED
      BY <1>1, <1>2, <2>1, <3>1
  <2> QED
    BY <1>1, <1>2, <2>1, <2>2
<1>6. HeadsOutside(d, heads)
  <2> SUFFICES ASSUME NEW j \in JumpsIn(d), NEW h \in LabelsIn(d, d[j].l), h < j,
                      NEW n \in heads, NEW g \in LabelsIn(d, n), h < g, g < j
               PROVE  FALSE
    BY DEF HeadsOutside
  <2>1. j \in JumpsIn(c) /\ d[j] = c[j] /\ j < m /\ h # m /\ g # m
    BY <1>1, <1>2
  <2>2. h \in LabelsIn(c, c[j].l) /\ g \in LabelsIn(c, n)
    BY <1>1, <1>2, <2>1
  <2> QED
    BY <2>1, <2>2 DEF Labelling, HeadsOutside
<1>7. JumpsSettled(d, owed \ {x.l})
  <2> SUFFICES ASSUME NEW j \in JumpsIn(d)
               PROVE  \/ \E i \in LabelsIn(d, d[j].l) :
                            \A e \in EntriesIn(d) : (e < i) <=> (e < j)
                      \/ d[j].l \in owed \ {x.l} /\ \A e \in EntriesIn(d) : e < j
    BY DEF JumpsSettled
  <2>1. j \in JumpsIn(c) /\ d[j] = c[j]
    BY <1>1, <1>2
  <2>2. CASE \E i \in LabelsIn(c, c[j].l) : \A e \in EntriesIn(c) : (e < i) <=> (e < j)
    BY <1>1, <1>2, <2>1, <2>2
  <2>3. CASE c[j].l \in owed /\ (\A e \in EntriesIn(c) : e < j) /\ c[j].l # x.l
    BY <1>1, <1>2, <2>1, <2>3
  <2>4. CASE (\A e \in EntriesIn(c) : e < j) /\ c[j].l = x.l
    <3>1. m \in LabelsIn(d, d[j].l) /\ \A e \in EntriesIn(d) : e < m /\ e < j
      BY <1>1, <1>2, <1>a, <2>1, <2>4
    <3> QED
      BY <3>1
  <2> QED
    BY <2>1, <2>2, <2>3, <2>4 DEF Labelling, JumpsSettled
<1>8. LoopsClosed(d)
  <2> SUFFICES ASSUME NEW j \in JumpsIn(d), NEW h \in LabelsIn(d, d[j].l), h < j
               PROVE  /\ d[j].op = "jump"
                      /\ \A k \in JumpsIn(d) : \A p \in LabelsIn(d, d[k].l) :
                            (k < h \/ j < k) => ~(h < p /\ p < j)
    BY DEF LoopsClosed
  <2>1. j \in JumpsIn(c) /\ d[j] = c[j] /\ j < m /\ h # m
    BY <1>1, <1>2
  <2>2. h \in LabelsIn(c, c[j].l)
    BY <1>1, <1>2, <2>1
  <2>3. /\ c[j].op = "jump"
        /\ \A k \in JumpsIn(c) : \A p \in LabelsIn(c, c[k].l) :
              (k < h \/ j < k) => ~(h < p /\ p < j)
    BY <2>1, <2>2 DEF Labelling, LoopsClosed
  <2> SUFFICES ASSUME NEW k \in JumpsIn(d), NEW p \in LabelsIn(d, d[k].l),
                      k < h \/ j < k, h < p, p < j
               PROVE  FALSE
    BY <2>1, <2>3
  <2>4. k \in JumpsIn(c) /\ d[k] = c[k] /\ p # m
    BY <1>1, <1>2, <2>1
  <2>5. p \in LabelsIn(c, c[k].l)
    BY <1>1, <1>2, <2>4
  <2> QED
    BY <2>3, <2>4, <2>5
<1> QED
  BY <1>3, <1>4, <1>b, <1>5, <1>6, <1>7, <1>8 DEF Labelling, D

\* the label drawn last is emitted: a new head, or a label nothing waits for
LEMMA LabelHead ==
  ASSUME NEW S, NEW c \in Seq(S), NEW next \in Nat, NEW owed, NEW heads, NEW taken,
         Labelling(c, next, owed, heads, taken),
         NEW x \in S, x.op = "label", x.l = next
  PROVE  Labelling(Append(c, x), next + 1, owed, heads \cup {next}, taken)
<1> DEFINE D == Append(c, x)
<1> PICK d, m : d = D /\ m = Len(c) + 1
  OBVIOUS
<1>1. /\ m \in Nat /\ m \notin DOMAIN c /\ d[m] = x
      /\ \A i \in DOMAIN c : d[i] = c[i] /\ i \in Nat /\ i < m
      /\ \A l : l # next => LabelsIn(d, l) = LabelsIn(c, l)
      /\ LabelsIn(d, next) = LabelsIn(c, next) \cup {m}
      /\ AllLabels(d) = AllLabels(c) \cup {m}
      /\ JumpsIn(d) = JumpsIn(c)
      /\ EntriesIn(d) = EntriesIn(c)
  <2>1. x.op \notin JumpOps /\ x.op # "entry"
    BY DEF JumpOps
  <2>2. Extended(c, x, d, m)
    BY Step
  <2> QED
    BY <2>1, <2>2 DEF Extended
<1> HIDE DEF D
<1>2. /\ \A i \in AllLabels(c) \cup JumpsIn(c) \cup EntriesIn(c) :
            d[i] = c[i] /\ i \in Nat /\ i < m /\ ~(m < i)
      /\ \A l : \A i \in LabelsIn(c, l) : /\ i \in AllLabels(c) /\ i \in Nat /\ i < m /\ ~(m < i)
                                          /\ c[i].l = l
      /\ \A i \in AllLabels(c) : i \in LabelsIn(c, c[i].l)
  BY <1>1, SetsWithin
<1>c. /\ \A l \in owed \cup heads \cup taken : l \in Nat /\ l < next /\ l # next /\ l < next + 1
      /\ \A i \in AllLabels(c) \cup JumpsIn(c) : /\ c[i].l \in Nat /\ c[i].l < next
                                                 /\ c[i].l < next + 1 /\ c[i].l # next
      /\ next < next + 1
  BY DEF Labelling, Drawn
<1>a. LabelsIn(d, next) = {m}
  BY <1>1, <1>2, <1>c
<1>3. Drawn(d, next + 1, owed, heads \cup {next}, taken)
  BY <1>1, <1>2, <1>c DEF Drawn
<1>4. Unused(d, owed, taken)
  BY <1>1, <1>c DEF Labelling, Unused
<1>b. EmittedOnce(d)
  BY <1>1, <1>2, <1>c, SMTT(30) DEF Labelling, EmittedOnce
<1>5. HeadsStand(d, heads \cup {next})
  <2> SUFFICES ASSUME NEW n \in heads \cup {next}
               PROVE  \E h \in LabelsIn(d, n) :
                         /\ \A e \in EntriesIn(d) : e < h
                         /\ \A k \in JumpsIn(d) : k < h => d[k].l < n
                         /\ \A p \in AllLabels(d) : p > h => d[p].l > n
    BY DEF HeadsStand
  <2>1. CASE n = next
    <3>1. /\ m \in LabelsIn(d, n)
          /\ \A e \in EntriesIn(d) : e < m
          /\ \A k \in JumpsIn(d) : d[k].l < n
          /\ \A p \in AllLabels(d) : ~(p > m)
      BY <1>1, <1>2, <1>a, <1>c, <2>1
    <3> QED
      BY <3>1
  <2>2. CASE n \in heads
    <3>1. PICK h \in LabelsIn(c, n) :
             /\ \A e \in EntriesIn(c) : e < h
             /\ \A k \in JumpsIn(c) : k < h => c[k].l < n
             /\ \A p \in AllLabels(c) : p > h => c[p].l > n
      BY <2>2 DEF Labelling, HeadsStand
    <3>2. h \in LabelsIn(d, n) /\ d[m].l > n
      BY <1>1, <1>c, <2>2, <3>1
    <3> QED
      BY <1>1, <1>2, <3>1, <3>2
  <2> QED
    BY <2>1, <2>2
<1>6. HeadsOutside(d, heads \cup {next})
  <2> SUFFICES ASSUME NEW j \in JumpsIn(d), NEW h \in LabelsIn(d, d[j].l), h < j,
                      NEW n \in heads \cup {next}, NEW g \in LabelsIn(d, n), h < g, g < j
               PROVE  FALSE
    BY DEF HeadsOutside
  <2>1. j \in JumpsIn(c) /\ d[j] = c[j] /\ j < m /\ h # m /\ g # m
    BY <1>1, <1>2
  <2>2. h \in LabelsIn(c, c[j].l) /\ g \in LabelsIn(c, n) /\ n # next
    BY <1>1, <1>2, <1>a, <2>1
  <2> QED
    BY <2>1, <2>2 DEF Labelling, HeadsOutside
<1>7. JumpsSettled(d, owed)
  <2> SUFFICES ASSUME NEW j \in JumpsIn(d)
               PROVE  \/ \E i \in LabelsIn(d, d[j].l) :
                            \A e \in EntriesIn(d) : (e < i) <=> (e < j)
                      \/ d[j].l \in owed /\ \A e \in EntriesIn(d) : e < j
    BY DEF JumpsSettled
  <2>1. j \in JumpsIn(c) /\ d[j] = c[j] /\ LabelsIn(d, c[j].l) = LabelsIn(c, c[j].l)
    BY <1>1, <1>2, <1>c
  <2> QED
    BY <1>1, <2>1 DEF Labelling, JumpsSettled
<1>8. LoopsClosed(d)
  <2> SUFFICES ASSUME NEW j \in JumpsIn(d), NEW h \in LabelsIn(d, d[j].l), h < j
               PROVE  /\ d[j].op = "jump"
                      /\ \A k \in JumpsIn(d) : \A p \in LabelsIn(d, d[k].l) :
                            (k < h \/ j < k) => ~(h < p /\ p < j)
    BY DEF LoopsClosed
  <2>1. \A k \in JumpsIn(d) : /\ k \in JumpsIn(c) /\ d[k] = c[k]
                              /\ LabelsIn(d, c[k].l) = LabelsIn(c, c[k].l)
    BY <1>1, <1>2, <1>c
  <2>2. j \in JumpsIn(c) /\ h \in LabelsIn(c, c[j].l)
    BY <2>1
  <2>3. /\ c[j].op = "jump"
        /\ \A k \in JumpsIn(c) : \A p \in LabelsIn(c, c[k].l) :
              (k < h \/ j < k) => ~(h < p /\ p < j)
    BY <2>2 DEF Labelling, LoopsClosed
  <2> QED
    BY <2>1, <2>3
<1> QED
  BY <1>3, <1>4, <1>b, <1>5, <1>6, <1>7, <1>8 DEF Labelling, D

\* an instruction that is no label and no jump; a function's entry only when
\* nothing is owed and no loop is open
LEMMA OtherInstruction ==
  ASSUME NEW S, NEW c \in Seq(S), NEW next, NEW owed, NEW heads, NEW taken,
         Labelling(c, next, owed, heads, taken),
         NEW x \in S, x.op # "label", x.op \notin JumpOps,
         x.op = "entry" => owed = {} /\ heads = {}
  PROVE  Labelling(Append(c, x), next, owed, heads, taken)
<1> DEFINE D == Append(c, x)
<1> PICK d, m : d = D /\ m = Len(c) + 1
  OBVIOUS
<1>1. /\ m \in Nat /\ m \notin DOMAIN c /\ d[m] = x
      /\ \A i \in DOMAIN c : d[i] = c[i] /\ i \in Nat /\ i < m
      /\ \A l : LabelsIn(d, l) = LabelsIn(c, l)
      /\ AllLabels(d) = AllLabels(c)
      /\ JumpsIn(d) = JumpsIn(c)
      /\ EntriesIn(d) = IF x.op = "entry" THEN EntriesIn(c) \cup {m} ELSE EntriesIn(c)
  <2>2. Extended(c, x, d, m)
    BY Step
  <2> QED
    BY <2>2 DEF Extended
<1> HIDE DEF D
<1>2. /\ \A i \in AllLabels(c) \cup JumpsIn(c) \cup EntriesIn(c) :
            d[i] = c[i] /\ i \in Nat /\ i < m /\ ~(m < i)
      /\ \A l : \A i \in LabelsIn(c, l) : i \in AllLabels(c) /\ i \in Nat /\ i < m /\ ~(m < i)
  BY <1>1, SetsWithin
<1>3. Drawn(d, next, owed, heads, taken) /\ Unused(d, owed, taken) /\ EmittedOnce(d)
  BY <1>1, <1>2 DEF Labelling, Drawn, Unused, EmittedOnce
<1>4. HeadsStand(d, heads)
  <2>1. CASE x.op = "entry"
    BY <2>1 DEF HeadsStand
  <2>2. CASE x.op # "entry"
    BY <1>1, <1>2, <2>2 DEF Labelling, HeadsStand
  <2> QED
    BY <2>1, <2>2
<1>5. HeadsOutside(d, heads) /\ LoopsClosed(d)
  BY <1>1, <1>2 DEF Labelling, HeadsOutside, LoopsClosed
<1>6. JumpsSettled(d, owed)
  <2> SUFFICES ASSUME NEW j \in JumpsIn(d)
               PROVE  \/ \E i \in LabelsIn(d, d[j].l) :
                            \A e \in EntriesIn(d) : (e < i) <=> (e < j)
                      \/ d[j].l \in owed /\ \A e \in EntriesIn(d) : e < j
    BY DEF JumpsSettled
  <2>1. j \in JumpsIn(c) /\ d[j] = c[j]
    BY <1>1, <1>2
  <2>2. CASE \E i \in LabelsIn(c, c[j].l) : \A e \in EntriesIn(c) : (e < i) <=> (e < j)
    <3>1. PICK i \in LabelsIn(c, c[j].l) : \A e \in EntriesIn(c) : (e < i) <=> (e < j)
      BY <2>2
    <3>2. ~(m < i) /\ ~(m < j)
      BY <1>2, <2>1
    <3>3. \A e \in EntriesIn(d) : (e < i) <=> (e < j)
      BY <1>1, <3>1, <3>2
    <3> QED
      BY <1>1, <2>1, <3>1, <3>3
  <2>3. CASE c[j].l \in owed /\ \A e \in EntriesIn(c) : e < j
    BY <1>1, <2>1, <2>3
  <2> QED
    BY <2>1, <2>2, <2>3 DEF Labelling, JumpsSettled
<1> QED
  BY <1>3, <1>4, <1>5, <1>6 DEF Labelling, D

\* nothing emitted
LEMMA NoCode ==
  ASSUME NEW next \in Nat
  PROVE  Labelling(<<>>, next, {}, {}, {})
<1>1. DOMAIN <<>> = {}
  OBVIOUS
<1>2. AllLabels(<<>>) = {} /\ JumpsIn(<<>>) = {}
  BY <1>1 DEF AllLabels, JumpsIn
<1> QED
  BY <1>2 DEF Labelling, Drawn, Unused, EmittedOnce, HeadsStand, HeadsOutside, JumpsSettled,
             LoopsClosed
=============================================================================
