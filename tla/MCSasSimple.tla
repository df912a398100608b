---------------------------- MODULE MCSasSimple ----------------------------
(***************************************************************************)
(* Lines for checking Sas: labels, declarations, data, calls and the       *)
(* statements that use what an earlier line left.                          *)
(***************************************************************************)
EXTENDS Sas

SomeLines ==
  { <<Colon("f")>>, <<Colon("f"), Word("ret")>>, <<Colon("g"), Word(".byte"), Num(1), Comma, Num(2), Comma, Word("f")>>,
    <<Word(".globl"), Word("f")>>, <<Word(".extern"), Word("g")>>, <<Word(".globl")>>,
    <<Word(".data")>>, <<Word(".space"), Num(2)>>, <<Word(".space")>>, <<Num(3), Word("f")>>,
    <<Word("call"), Word("f")>>, <<Word("bl"), Word("g"), Comma, Num(1)>>,
    <<Word("pushq"), Word("%rax")>>, <<Word(".ascii"), String(1)>>, <<Word(".other")>>, <<BadChar>> }
=============================================================================
