------------------------------- MODULE MCSppe -------------------------------
(***************************************************************************)
(* Line sets for checking Sppe.                                            *)
(***************************************************************************)
EXTENDS Sppe

ANames == {"S", "N"}

L(k, n, c) == [kind |-> k, name |-> n, cont |-> c]
Plain(ks, n) == {L(k, n, FALSE) : k \in ks}

\* conditionals over a name that comes and goes
ConditionLines == Plain({"text", "define", "undef", "ifdef", "ifndef"}, "N")
                  \cup Plain({"else", "endif"}, "") \cup Plain({"ifdef"}, "S")

\* everything a line can be, some of it spliced
FileLines == Plain({"include", "missing", "error", "other", "else", "endif"}, "")
             \cup Plain({"define", "ifdef", "undef"}, "N")
             \cup {L("blank", "", TRUE), L("blank", "", FALSE), L("text", "N", TRUE),
                   L("text", "S", FALSE), L("ifndef", "N", TRUE)}

AllLines == ConditionLines \cup FileLines
=============================================================================
