------------------------------- MODULE MCOpenFile ------------------------------
(* One request, or two at once, for secure documents or a plain file, by two  *)
(* users or one; an answer gives the right to read or the right to decrypt.    *)
EXTENDS OpenFile, TLC

CONSTANTS r1, r2, alice, bob, secret, plain

MCRequest == {r1, r2}
MCAnswer == {{READ}, {DECRYPT}}
Symmetry == Permutations(MCRequest) \cup Permutations(User)
=============================================================================
