------------------------------- MODULE MCSld -------------------------------
(***************************************************************************)
(* Small objects for checking SldEnhanced.                                 *)
(***************************************************************************)
EXTENDS SldEnhanced

FourSections == {".text", ".data", ".bss", ".rodata"}
Header(name, kind, size) == [name |-> name, kind |-> kind, size |-> size]

\* code and data of one and of several units, empty sections, and .data that is only
\* reserved in one object
SmallHeaders ==
  {Header(".text", "code", 3), Header(".text", "code", 1), Header(".data", "data", 1),
   Header(".data", "data", 0), Header(".data", "bss", 1),
   Header(".bss", "bss", 3), Header(".bss", "bss", 0)}

\* more sizes, bytes for a section that began as BSS, and data in a section that began
\* as code
MoreHeaders ==
  SmallHeaders \cup {Header(".data", "data", 3), Header(".bss", "bss", 1),
                    Header(".bss", "data", 1), Header(".text", "data", 2)}

\* a section more than there is room for
AllHeaders == MoreHeaders \cup {Header(".rodata", "data", 1)}

\* two objects of one section each, which the second continues
TextHeader == {Header(".text", "code", 1)}

TwoGlobals == {"_start", "main"}

\* Symbols and relocations come with fewer parts and with sections of fewer sizes.
FewParts ==
  (\E f \in DOMAIN own : Len(own[f]) > 1) \/ relocs # <<>> =>
    /\ Len(parts) <= 3
    /\ \A n \in DOMAIN parts : Header(parts[n].name, parts[n].kind, parts[n].size) \in SmallHeaders
MCSpec == Init /\ [][Next /\ FewParts']_vars
=============================================================================
