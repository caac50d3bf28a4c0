------------------------------ MODULE MCShell ------------------------------
(* Shell with a table of two users, as shipped, the first without a name and    *)
(* password, and two commands of one letter.                                      *)
EXTENDS Shell

MCAccounts == {<<<<>>, <<>>>>, <<<<"s">>, <<"s">>>>}
MCQuit == <<"q">>
MCAsk == <<"a">>
=============================================================================
