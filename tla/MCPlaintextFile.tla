----------------------------- MODULE MCPlaintextFile ---------------------------
(* Two requests or viewers, for two documents or a plain file, and four       *)
(* names besides those of the documents: one that is shown as another, that   *)
(* other one, one whose viewer deletes nothing, and one without a type.  An   *)
(* answer gives the right to read or that to decrypt.                         *)
EXTENDS PlaintextFile, TLC

CONSTANTS r1, r2, alice, bob, plain, secret, other, wps, docx, txt, nodot

MCRenamed == [p \in Plain |-> IF p = wps THEN docx ELSE p]
MCAnswer == {{READ}, {DECRYPT}}
Symmetry == Permutations(Request) \cup Permutations(User) \cup Permutations(Ciphertext)
=============================================================================
