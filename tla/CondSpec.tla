------------------------------ MODULE CondSpec ------------------------------
(***************************************************************************)
(* What conditional preprocessing promises, without saying how: the        *)
(* #ifdef and #ifndef groups around a line are remembered in full, and the *)
(* line has an effect exactly when every one of them holds.                *)
(***************************************************************************)
EXTENDS Naturals, Sequences

CONSTANT Names

VARIABLES
  groups,    \* open groups, outermost first: the condition, and whether #else turned it
  defined,   \* the set of names with a definition
  opens,     \* files opened so far
  seen,      \* lines of program text read so far
  out        \* lines of program text written, with what became of the name in them

vars == <<groups, defined, opens, seen, out>>

Holds(gs) == \A i \in DOMAIN gs : gs[i].cond # gs[i].turned
Active == Holds(groups)

Open(n, wanted) ==
  /\ groups' = Append(groups, [cond |-> (n \in defined) = wanted, turned |-> FALSE])
  /\ UNCHANGED <<defined, opens, seen, out>>

Turn ==
  /\ groups # <<>>
  /\ groups' = [groups EXCEPT ![Len(groups)].turned = ~@]
  /\ UNCHANGED <<defined, opens, seen, out>>

Close ==
  /\ groups # <<>>
  /\ groups' = SubSeq(groups, 1, Len(groups) - 1)
  /\ UNCHANGED <<defined, opens, seen, out>>

Text(n) ==
  /\ seen' = seen + 1
  /\ out' = IF Active THEN Append(out, [no |-> seen + 1, expanded |-> n \in defined])
                      ELSE out
  /\ UNCHANGED <<groups, defined, opens>>

\* definitions change, or a file is included
Effect ==
  /\ Active
  /\ defined' \in SUBSET Names
  /\ opens' \in {opens, opens + 1}
  /\ UNCHANGED <<groups, seen, out>>

Init ==
  /\ groups = <<>> /\ defined \in SUBSET Names
  /\ opens = 1 /\ seen = 0 /\ out = <<>>

Next ==
  \/ \E n \in Names, wanted \in BOOLEAN : Open(n, wanted)
  \/ Turn
  \/ Close
  \/ \E n \in Names \cup {""} : Text(n)
  \/ Effect

Spec == Init /\ [][Next]_vars
=============================================================================
