------------------------------- MODULE MCAccredit ------------------------------
(* One document is encrypted and rights to it are granted by two calls, by     *)
(* either of two users.  The lists give a right that may be missing (3), one  *)
(* every answer has (1), or nothing.                                          *)
EXTENDS Accredit

CONSTANTS c1, j1, alice, bob

MCParams == {<<1, "1">>, <<3, "2">>}
MCWanted == {{}, {EDIT}, {READ, DECRYPT}}
MCAnswer == {{EDIT, DISTRIBUTE}, {READ, DECRYPT}, {READ}}
=============================================================================
