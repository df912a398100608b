----------------------------- MODULE MCSldLinux -----------------------------
(***************************************************************************)
(* Small objects for checking SldLinux.                                    *)
(***************************************************************************)
EXTENDS SldLinux

TwoNames == {"_start", "main"}
OneSize == {3}
OneOffset == {1}

\* A third symbol, for which there is no room, comes with one header.
FewHeaders == Held(entries) - Cardinality(Tables) <= 2 \/ Held(headers) <= 1
MCSpec == Init /\ [][Next /\ FewHeaders']_vars
=============================================================================
