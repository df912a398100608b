------------------------------- MODULE MCSas -------------------------------
(***************************************************************************)
(* A small assembler for checking SasEnhanced.                             *)
(***************************************************************************)
EXTENDS SasEnhanced

OneName == {"f"}
TwoNames == {"f", "g"}
TwoSections == {".text", ".data"}
FourSections == {".text", ".data", ".rodata", ".init"}
OneLength == {1}
Aligns == {0, 4}
=============================================================================
