--------------------------- MODULE MCCipherContainer ---------------------------
(* One document of any size around the boundaries of block, group and tail,   *)
(* and around the largest long, encrypted and decrypted to other files and in *)
(* place.  The largest long is 10239, the range of an unsigned int 8.         *)
EXTENDS CipherContainer

MCPath == {"doc", "doc.enc", "doc.dec", "cipher", "plain"}
MCEncName == [p \in MCPath |-> IF p = "doc.enc" THEN "plain" ELSE "doc.enc"]
MCDecName == [p \in MCPath |-> IF p = "doc.dec" THEN "plain" ELSE "doc.dec"]
MCCall ==
  {[op |-> "encrypt", in |-> "doc", out |-> "cipher"],
   [op |-> "decrypt", in |-> "cipher", out |-> "plain"],
   [op |-> "encrypt", in |-> "doc", out |-> None],
   [op |-> "decrypt", in |-> "doc", out |-> None]}
MCDocument == {[uid1 |-> 3, uid2 |-> 5, app |-> 7], [uid1 |-> 11, uid2 |-> 5, app |-> 7]}
MCSizes == {0, 1, 15, 16, 17, 511, 512, 513, 3583, 3584, 3585, 4095, 4096, 4097, 4608, 4609,
            7680, 8191, 8192, 9215, 9216, 9217, 10239, 10240}
=============================================================================
