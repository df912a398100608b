------------------------------- MODULE MCScc -------------------------------
(***************************************************************************)
(* Small instances of SccParser.  Each question has a list of tokens and a  *)
(* length of its own, since shorter lists afford longer files; a run draws  *)
(* every file from one of the lists in Questions.                           *)
(***************************************************************************)
EXTENDS SccParser

CONSTANT Questions
VARIABLE question    \* the list this file is drawn from

TwoNames == {"f", "v"}

\* loops, branches, break and continue, for the shape of the emitted jumps
ControlTokens == {"f", "(", ")", "{", "}", ";", "if", "else", "while", "break",
                  "continue", "0"}

\* every kind of push and pop, over a global array v, and a branch around them
ExpressionTokens == {"f", "v", "(", ")", "{", "}", ";", "[", "]", ",", "=", "+",
                     "&", "++", "if", "0"}

\* declarations, everything function() skips, and one token of each statement
FileTokens == {"f", "v", "int", "char", "(", ")", "{", "}", "[", "]", ",", ";",
               "if", "else", "while", "continue", "return", "<", "string", "0", "2",
               "?"}

\* a local variable and a call, as in test.c
TestTokens == {"f", "v", "int", "(", ")", "{", "}", ";", ","}

List == [control     |-> [tokens |-> ControlTokens, length |-> 15],
         expressions |-> [tokens |-> ExpressionTokens, length |-> 11],
         files       |-> [tokens |-> FileTokens, length |-> 10],
         test        |-> [tokens |-> TestTokens, length |-> 12]]
AllTokens == UNION {List[q].tokens : q \in DOMAIN List}

FromList == ntok' > ntok =>
              token' \in List[question].tokens /\ ntok' <= List[question].length
MCInit == question \in Questions /\ Init
MCNext == Next /\ FromList /\ UNCHANGED question
MCSpec == MCInit /\ [][MCNext]_<<vars, question>> /\ WF_<<vars, question>>(MCNext)
=============================================================================
