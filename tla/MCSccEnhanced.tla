--------------------------- MODULE MCSccEnhanced ---------------------------
(***************************************************************************)
(* Small instances of SccEnhanced.  Each question has a list of tokens and a  *)
(* length of its own, since shorter lists afford longer files; a run draws  *)
(* every file from one of the lists in Questions.                           *)
(***************************************************************************)
EXTENDS SccEnhanced

CONSTANT Questions
VARIABLE question    \* the list this file is drawn from

TwoNames == {"main", "v"}

\* every statement with labels, and the operators with labels
ControlTokens == {"main", "(", ")", "{", "}", ";", "if", "else", "while", "for",
                  "break", "continue", "&&", "||"}

\* declarations with sizes and initialisers, parameters, one statement; without
\* a type a name is an int
FileTokens == {"main", "v", "char", "(", ")", "{", "}", "[", "]", ",", ";",
               "=", "string", "return", "2", "65537", "?"}

\* every kind of push and pop, and calls
ExpressionTokens == {"main", "(", ")", "{", "}", ";", "[", "]", ",", "=", "+=",
                     "+", "&", "++", "string"}

\* a parameter, a call and a for statement, as in test_enhanced.c
TestTokens == {"main", "(", ")", "{", ";", "for"}

List == [control     |-> [tokens |-> ControlTokens, length |-> 12],
         files       |-> [tokens |-> FileTokens, length |-> 9],
         expressions |-> [tokens |-> ExpressionTokens, length |-> 10],
         test        |-> [tokens |-> TestTokens, length |-> 14]]
AllTokens == UNION {List[q].tokens : q \in DOMAIN List}

FromList == ntok' > ntok =>
              token' \in List[question].tokens /\ ntok' <= List[question].length
MCInit == question \in Questions /\ Init
MCNext == Next /\ FromList /\ UNCHANGED question
MCSpec == MCInit /\ [][MCNext]_<<vars, question>> /\ WF_<<vars, question>>(MCNext)
=============================================================================
