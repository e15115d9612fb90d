------------------------- MODULE CipherContainerProofs -------------------------
(***************************************************************************)
(* Proofs about CipherContainer, for documents of every size, any paths,   *)
(* any calls on them (also with one path for both files), and any of the   *)
(* lengths a failing write or a death of the process may leave behind.     *)
(*                                                                         *)
(* The properties speak of a call that is over; the invariant says of each *)
(* turn of the two loops how far input and output are.                     *)
(***************************************************************************)
EXTENDS CipherContainer, TLAPS

(* The length SD_EncryptFile saw of the document f was made from.           *)
SizeSaid(f) == IF f.of > LONG_MAX THEN -1 ELSE f.of

BodyLength(n) == Aligned(n, DATA_GROUP_LENGTH)

(* A file with a tail.                                                      *)
Sound(f) ==
  f.tail # None =>
    /\ f.tail.fileSize = SizeSaid(f)
    /\ f.of > LONG_MAX => f.len = FULL_TAIL_LENGTH
    /\ cuts = 0 /\ f.of <= LONG_MAX =>
         f.good = EncryptedLength(f.of) /\ f.len = BodyLength(f.of) + FULL_TAIL_LENGTH
FilesSound == \A p \in Path : file[p] # None => Sound(file[p])

(* While a loop runs.                                                       *)
Writing ==
  pc \in {"encrypting", "decrypting"} =>
    /\ file[call.in] # None /\ file[Target] # None
    /\ file[Target].tail = None
    /\ file[Target].len = wfilelen /\ file[Target].good <= wfilelen
    /\ Target = call.in => rfilelen = 0
    /\ rfilelen = 0 => wfilelen = 0

Encrypting ==
  pc = "encrypting" =>
    /\ call.op = "encrypt"
    /\ filesize = SizeSaid(file[Target])
    /\ Target # call.in => file[call.in].len = file[Target].of
    /\ rfilelen = 0 \/ rfilelen <= filesize
    /\ rfilelen % CRYPT_GROUP_SIZE = 0 \/ rfilelen = filesize
    /\ cuts = 0 => wfilelen = EncryptedLength(rfilelen) /\ file[Target].good = wfilelen

Decrypting ==
  pc = "decrypting" =>
    /\ call.op = "decrypt"
    /\ filesize >= FULL_TAIL_LENGTH /\ rfilelen <= filesize
    /\ realfilelen = SizeSaid(file[Target])
    /\ file[Target].of > LONG_MAX => filesize = FULL_TAIL_LENGTH
    /\ wfilelen <= realfilelen \/ rfilelen = 0
    /\ Target # call.in => file[call.in].len = filesize
    /\ cuts = 0 /\ file[Target].of <= LONG_MAX =>
         /\ filesize = BodyLength(file[Target].of) + FULL_TAIL_LENGTH
         /\ Target # call.in => file[call.in].good = EncryptedLength(file[Target].of)
         /\ rfilelen <= filesize - FULL_TAIL_LENGTH
         /\ rfilelen % CRYPT_GROUP_SIZE = 0 \/ rfilelen = filesize - FULL_TAIL_LENGTH
         /\ wfilelen = Smaller(rfilelen, file[Target].of)
         /\ file[Target].good = wfilelen

(* The file a call has made, if no write failed.                            *)
Product(f) ==
  cuts = 0 =>
    /\ call.op = "encrypt" => f.tail = [fileSize |-> SizeSaid(f), ids |-> Narrowed(given)]
    /\ call.op = "decrypt" /\ f.of <= LONG_MAX => f = Whole(f.of)

Finishing ==
  /\ pc \in {"removing", "renaming"} =>
       call.out = None /\ file[Target] # None /\ Product(file[Target])
  /\ pc # "idle" => ret = 0
  /\ pc = "idle" /\ ret = 1 => file[Made] # None /\ Product(file[Made])

CInv == TypeOK /\ FilesSound /\ Writing /\ Encrypting /\ Decrypting /\ Finishing

-----------------------------------------------------------------------------
(* Arithmetic of blocks and groups.                                         *)

(* A group of 4096 bytes is encrypted to one of the same length, and what   *)
(* follows it is filled up by itself.                                       *)
LEMMA EncryptedGroups ==
  ASSUME NEW r \in Nat, NEW n \in Nat, r % CRYPT_GROUP_SIZE = 0
  PROVE  /\ EncryptedLength(r) = r
         /\ EncryptedLength(r + n) = r + EncryptedLength(n)
         /\ EncryptedLength(n) \in Nat /\ EncryptedLength(n) >= n
         /\ n = 0 => EncryptedLength(n) = 0
BY DEF EncryptedLength, Aligned, BLOCK, CRYPT_GROUP_SIZE

(* Encrypted bytes and their padding are the document's length rounded up   *)
(* to groups of 512 bytes.                                                  *)
LEMMA PaddedBody ==
  ASSUME NEW n \in Nat
  PROVE  /\ EncryptedLength(n) + Padding(EncryptedLength(n)) = BodyLength(n)
         /\ Padding(n) \in Nat /\ Padding(0) = 0
         /\ BodyLength(n) \in Nat /\ BodyLength(n) % DATA_GROUP_LENGTH = 0
         /\ n <= BodyLength(n) /\ BodyLength(n) < n + DATA_GROUP_LENGTH
BY DEF EncryptedLength, Aligned, Padding, BodyLength, BLOCK, DATA_GROUP_LENGTH

(* Where a group of decryption starts, the document is not over yet.        *)
LEMMA GroupsInDocument ==
  ASSUME NEW n \in Nat, NEW r \in Nat, r % CRYPT_GROUP_SIZE = 0, r < BodyLength(n)
  PROVE  /\ r < n
         /\ r + CRYPT_GROUP_SIZE <= BodyLength(n) \/ BodyLength(n) <= r + CRYPT_GROUP_SIZE
         /\ r + CRYPT_GROUP_SIZE < BodyLength(n) + FULL_TAIL_LENGTH
              => r + CRYPT_GROUP_SIZE <= BodyLength(n)
         /\ (r + CRYPT_GROUP_SIZE) % CRYPT_GROUP_SIZE = 0
         /\ (EncryptedLength(n) \div BLOCK) * BLOCK = EncryptedLength(n)
         /\ EncryptedLength(n) >= n
BY DEF EncryptedLength, Aligned, BodyLength, BLOCK, DATA_GROUP_LENGTH, CRYPT_GROUP_SIZE,
       FULL_TAIL_LENGTH

(* An id that fits its field is not changed.                                *)
LEMMA NarrowedIds ==
  ASSUME NEW g \in Given
  PROVE  Narrowed(g) \in Ids /\ (g \in Ids => Narrowed(g) = g)
<1>1. ASSUME NEW x \in Nat, NEW n \in Nat \ {0}
      PROVE  x % n \in 0..(n - 1) /\ (x < n => x % n = x)
  OBVIOUS
<1>2. /\ g.uid1 % UINT \in 0..(UINT - 1) /\ g.uid2 % UINT \in 0..(UINT - 1)
      /\ g.app % USHORT \in 0..(USHORT - 1)
  BY <1>1, ContainerAssumption DEF Given
<1>3. ASSUME g \in Ids
      PROVE  g.uid1 % UINT = g.uid1 /\ g.uid2 % UINT = g.uid2 /\ g.app % USHORT = g.app
  <2>1. /\ g.uid1 \in 0..(UINT - 1) /\ g.uid2 \in 0..(UINT - 1)
        /\ g.app \in 0..(USHORT - 1)
    BY <1>3 DEF Ids
  <2>2. /\ g.uid1 \in Nat /\ g.uid2 \in Nat /\ g.app \in Nat
        /\ g.uid1 < UINT /\ g.uid2 < UINT /\ g.app < USHORT
        /\ UINT \in Nat \ {0} /\ USHORT \in Nat \ {0}
    BY <2>1, ContainerAssumption DEF Given
  <2> QED
    BY <1>1, <2>2
<1> QED
  BY <1>2, <1>3 DEF Narrowed, Ids, Given

-----------------------------------------------------------------------------
LEMMA TargetIsPath ==
  ASSUME NEW c \in Request
  PROVE  TargetOf(c) \in Path /\ c.in \in Path /\ (c.out = None => TargetOf(c) # c.in)
BY ContainerAssumption DEF Request, Operation, TargetOf

(* What a write that may fail has written.                                  *)
LEMMA WrittenBounds ==
  ASSUME TypeOK, NEW n \in Nat, NEW w \in Written(n)
  PROVE  w \in 0..n /\ (w < n => cuts < MaxCuts)
BY ContainerAssumption DEF TypeOK, Written

LEMMA RecordsOfFiles ==
  /\ \A n \in Nat : Whole(n) \in File /\ Empty(n) \in File
  /\ None \notin File
  /\ \A f \in File, w \in Nat, g \in Nat : Extended(f, w, g) \in File
<1>1. ASSUME NEW n \in Nat PROVE Whole(n) \in File /\ Empty(n) \in File
  BY DEF Whole, Empty, File
<1>2. None \notin File
  BY ContainerAssumption
<1>3. ASSUME NEW f \in File, NEW w \in Nat, NEW g \in Nat
      PROVE  Extended(f, w, g) \in File
  <2>1. f.len + w \in Nat /\ (IF f.good = f.len THEN f.good + g ELSE f.good) \in Nat
    BY DEF File
  <2> QED
    BY Zenon, <2>1 DEF Extended, File
<1> QED
  BY <1>1, <1>2, <1>3

LEMMA InitCInv == Init => CInv
<1> SUFFICES ASSUME Init PROVE CInv
  OBVIOUS
<1> USE ContainerAssumption DEF Init
<1>1. TypeOK
  BY RecordsOfFiles DEF TypeOK, Place, Request, Operation, Given
<1>2. FilesSound /\ Writing /\ Encrypting /\ Decrypting /\ Finishing
  BY DEF FilesSound, Sound, Whole, Writing, Encrypting, Decrypting, Finishing
<1> QED
  BY <1>1, <1>2 DEF CInv

LEMMA RefuseCInv ==
  ASSUME CInv, NEW c \in Call, Refuse(c)
  PROVE  CInv'
<1> USE ContainerAssumption DEF CInv, Refuse, Return, locals
<1>1. TypeOK'
  BY DEF TypeOK, Place
<1>2. (FilesSound /\ Writing /\ Encrypting /\ Decrypting /\ Finishing)'
  BY DEF FilesSound, Sound, SizeSaid, Writing, Encrypting, Decrypting, Finishing
<1> QED
  BY <1>1, <1>2

(* The output of a call that starts is empty; the input is as it was, unless *)
(* it is the same file.                                                      *)
LEMMA StartEncryptCInv ==
  ASSUME CInv, NEW c \in Call, StartEncrypt(c)
  PROVE  CInv'
<1> USE ContainerAssumption DEF CInv, StartEncrypt, Open
<1> DEFINE t == TargetOf(c)
<1>1. /\ c \in Request /\ t \in Path /\ c.in \in Path /\ c.out \in Path \cup {None}
      /\ file[c.in] \in File /\ Target' = t /\ file[c.in].len \in Nat
  BY TargetIsPath DEF TypeOK, Target, Request, File
<1>2. /\ file' \in [Path -> File \cup {None}]
      /\ file'[t] = Empty(file[c.in].len)
      /\ \A p \in Path : p # t => file'[p] = file[p]
  BY <1>1, RecordsOfFiles DEF TypeOK
<1>3. TypeOK'
  BY <1>1, <1>2 DEF TypeOK, Place, SizeOf
<1>4. FilesSound'
  <2> SUFFICES ASSUME NEW p \in Path, file'[p] # None PROVE Sound(file[p])'
    BY DEF FilesSound
  <2>1. CASE p = t
    BY <2>1, <1>2 DEF Sound, Empty
  <2>2. CASE p # t
    BY <2>2, <1>2 DEF Sound, SizeSaid, FilesSound
  <2> QED
    BY <2>1, <2>2
<1>5. file'[t] # None /\ file'[c.in] # None
  BY <1>1, <1>2, RecordsOfFiles
<1>9. /\ file'[t].len = 0 /\ file'[t].good = 0 /\ file'[t].tail = None
      /\ file'[t].of = file[c.in].len
      /\ t # c.in => file'[c.in].len = file[c.in].len
  BY <1>1, <1>2 DEF Empty
<1>6. Writing'
  BY <1>1, <1>5, <1>9 DEF Writing
<1>7. Encrypting'
  BY <1>1, <1>5, <1>9, EncryptedGroups DEF Encrypting, SizeSaid, SizeOf, CRYPT_GROUP_SIZE
<1>8. Decrypting' /\ Finishing'
  BY DEF Decrypting, Finishing
<1> QED
  BY <1>3, <1>4, <1>6, <1>7, <1>8

LEMMA StartDecryptCInv ==
  ASSUME CInv, NEW c \in Call, StartDecrypt(c)
  PROVE  CInv'
<1> USE ContainerAssumption DEF CInv, StartDecrypt, Open
<1> DEFINE t == TargetOf(c)
           f == file[c.in]
<1>1. /\ c \in Request /\ t \in Path /\ c.in \in Path /\ c.out \in Path \cup {None}
      /\ f \in File /\ Target' = t
  BY TargetIsPath DEF TypeOK, Target, Request
<1>2. f.of \in Nat /\ f.len \in Nat /\ f.good \in Nat /\ f.tail \in Tail /\ f.tail # None
  BY <1>1 DEF File, IsCipherFile
<1>3. /\ file' \in [Path -> File \cup {None}]
      /\ file'[t] = Empty(f.of)
      /\ \A p \in Path : p # t => file'[p] = file[p]
  BY <1>1, <1>2, RecordsOfFiles DEF TypeOK
<1>4. /\ filesize' = f.len /\ f.len >= FULL_TAIL_LENGTH /\ f.len <= LONG_MAX
      /\ realfilelen' = SizeSaid(f) /\ f.tail.fileSize \in -1..LONG_MAX
      /\ f.of > LONG_MAX => f.len = FULL_TAIL_LENGTH
      /\ cuts = 0 /\ f.of <= LONG_MAX =>
           f.good = EncryptedLength(f.of) /\ f.len = BodyLength(f.of) + FULL_TAIL_LENGTH
  BY <1>1, <1>2 DEF IsCipherFile, SizeOf, FilesSound, Sound, FULL_TAIL_LENGTH, Tail
<1>5. TypeOK'
  BY <1>1, <1>2, <1>3, <1>4 DEF TypeOK, Place, FULL_TAIL_LENGTH
<1>6. FilesSound'
  <2> SUFFICES ASSUME NEW p \in Path, file'[p] # None PROVE Sound(file[p])'
    BY DEF FilesSound
  <2>1. CASE p = t
    BY <2>1, <1>3 DEF Sound, Empty
  <2>2. CASE p # t
    BY <2>2, <1>3 DEF Sound, SizeSaid, FilesSound
  <2> QED
    BY <2>1, <2>2
<1>7. file'[t] # None /\ file'[c.in] # None
  <2>1. Empty(f.of) # None
    BY <1>2, RecordsOfFiles
  <2> QED
    BY <2>1, <1>1, <1>2, <1>3
<1>11. /\ file'[t].len = 0 /\ file'[t].good = 0 /\ file'[t].tail = None
       /\ file'[t].of = f.of
       /\ t # c.in => file'[c.in] = f
  BY <1>1, <1>2, <1>3 DEF Empty
<1>8. Writing'
  BY <1>1, <1>7, <1>11 DEF Writing
<1>9. Decrypting'
  BY <1>1, <1>2, <1>4, <1>7, <1>11, PaddedBody
  DEF Decrypting, SizeSaid, CRYPT_GROUP_SIZE, FULL_TAIL_LENGTH, Smaller
<1>10. Encrypting' /\ Finishing'
  BY DEF Encrypting, Finishing
<1> QED
  BY <1>5, <1>6, <1>8, <1>9, <1>10

-----------------------------------------------------------------------------
(* A step that changes the output to f, and no other file, while a call     *)
(* runs on.                                                                 *)
LEMMA OutputExtended ==
  ASSUME CInv, pc \in {"encrypting", "decrypting"},
         NEW w \in Nat, NEW g \in 0..w,
         file' = [file EXCEPT ![Target] = Extended(@, w, g)]
  PROVE  /\ Target \in Path /\ call.in \in Path
         /\ file[Target] \in File /\ file[call.in] \in File
         /\ file' \in [Path -> File \cup {None}]
         /\ \A p \in Path \ {Target} : file'[p] = file[p]
         /\ file'[Target] \in File
         /\ file'[Target].tail = None /\ file'[Target].of = file[Target].of
         /\ file'[Target].len = wfilelen + w
         /\ file'[Target].good <= file'[Target].len
         /\ file[Target].good = wfilelen => file'[Target].good = wfilelen + g
<1> USE DEF CInv
<1>1. Target \in Path /\ call.in \in Path /\ file[Target] # None /\ file[call.in] # None
  BY TargetIsPath DEF TypeOK, Target, Writing
<1>2. file[Target] \in File /\ file[call.in] \in File
  BY <1>1 DEF TypeOK
<1>3. /\ file[Target].len = wfilelen /\ file[Target].good <= wfilelen
      /\ file[Target].tail = None /\ file[Target].good \in Nat /\ wfilelen \in Nat
  BY <1>2 DEF Writing, TypeOK, File
<1>4. Extended(file[Target], w, g) \in File
  BY <1>2, RecordsOfFiles
<1>5. /\ file' \in [Path -> File \cup {None}]
      /\ \A p \in Path \ {Target} : file'[p] = file[p]
      /\ file'[Target] = Extended(file[Target], w, g)
  BY Zenon, <1>1, <1>4 DEF TypeOK
<1>6. /\ file'[Target].tail = file[Target].tail /\ file'[Target].of = file[Target].of
      /\ file'[Target].len = file[Target].len + w
      /\ file'[Target].good = IF file[Target].good = file[Target].len
                              THEN file[Target].good + g ELSE file[Target].good
  BY <1>2, <1>5 DEF Extended, File
<1> QED
  BY <1>1, <1>2, <1>3, <1>4, <1>5, <1>6

LEMMA EncryptGroupCInv ==
  ASSUME CInv, EncryptGroup
  PROVE  CInv'
<1> DEFINE rlen == Smaller(CRYPT_GROUP_SIZE, file[call.in].len - rfilelen)
           datalen == EncryptedLength(rlen)
           t == file[Target]
<1> USE DEF CInv
<1>1. PICK w \in Written(datalen) :
        /\ file' = [file EXCEPT ![Target] =
                      Extended(@, w, IF wfilelen = rfilelen THEN w ELSE 0)]
        /\ wfilelen' = wfilelen + w
        /\ cuts' = IF w < datalen THEN cuts + 1 ELSE cuts
  BY DEF EncryptGroup
<1>2. /\ pc = "encrypting" /\ rfilelen < filesize /\ rfilelen' = rfilelen + rlen
      /\ UNCHANGED <<pc, call, given, filesize, realfilelen, ret, calls, deaths>>
  BY DEF EncryptGroup
<1>3. /\ Target \in Path /\ call.in \in Path /\ t \in File /\ file[call.in] \in File
      /\ t.of \in Nat /\ t.len \in Nat /\ file[call.in].len \in Nat
      /\ rfilelen \in Nat /\ wfilelen \in Nat /\ filesize \in -1..LONG_MAX /\ cuts \in Nat
  BY <1>2, TargetIsPath, ContainerAssumption DEF TypeOK, Writing, Target, File
<1>4. filesize = t.of /\ rfilelen % CRYPT_GROUP_SIZE = 0
  BY <1>2, <1>3 DEF Encrypting, SizeSaid
<1>5. /\ rlen \in Nat
      /\ (rfilelen + rlen) % CRYPT_GROUP_SIZE = 0 \/ rfilelen + rlen = filesize
      /\ rfilelen + rlen <= filesize
      /\ Target = call.in => rlen = 0
      /\ Target # call.in => rlen > 0
  <2>1. CASE Target = call.in
    <3>1. file[call.in].len = 0 /\ rfilelen = 0
      BY <2>1, <1>2 DEF Writing
    <3> QED
      BY <2>1, <3>1, <1>2, <1>3, <1>4 DEF Smaller, CRYPT_GROUP_SIZE
  <2>2. CASE Target # call.in
    <3>1. file[call.in].len = filesize
      BY <2>2, <1>2, <1>4 DEF Encrypting
    <3> QED
      BY <2>2, <3>1, <1>2, <1>3, <1>4 DEF Smaller, CRYPT_GROUP_SIZE
  <2> QED
    BY <2>1, <2>2
<1>6. /\ datalen \in Nat /\ (rlen = 0 => datalen = 0)
      /\ EncryptedLength(rfilelen) = rfilelen
      /\ EncryptedLength(rfilelen + rlen) = rfilelen + datalen
  BY <1>3, <1>4, <1>5, EncryptedGroups
<1>7. w \in 0..datalen /\ (w < datalen => cuts < MaxCuts)
  BY <1>6, WrittenBounds
<1> DEFINE g == IF wfilelen = rfilelen THEN w ELSE 0
<1>8. g \in 0..w /\ file' = [file EXCEPT ![Target] = Extended(@, w, g)]
  BY <1>1, <1>6, <1>7
<1> HIDE DEF rlen, datalen, g
<1>9. /\ file' \in [Path -> File \cup {None}]
      /\ \A p \in Path \ {Target} : file'[p] = file[p]
      /\ file'[Target] \in File
      /\ file'[Target].tail = None /\ file'[Target].of = t.of
      /\ file'[Target].len = wfilelen + w
      /\ file'[Target].good <= file'[Target].len
      /\ t.good = wfilelen => file'[Target].good = wfilelen + g
  <2> HIDE DEF CInv
  <2>1. w \in Nat /\ pc \in {"encrypting", "decrypting"}
    BY <1>2, <1>6, <1>7
  <2> QED
    BY <2>1, <1>8, OutputExtended
<1>10. Target' = Target
  BY <1>2 DEF Target
<1>11. TypeOK'
  <2>1. rfilelen' \in Nat /\ wfilelen' \in Nat
    BY <1>1, <1>2, <1>3, <1>5, <1>6, <1>7
  <2>2. cuts' \in 0..MaxCuts
    BY <1>1, <1>6, <1>7, ContainerAssumption DEF TypeOK
  <2> QED
    BY <2>1, <2>2, <1>2, <1>9 DEF TypeOK
<1>12. FilesSound'
  <2> SUFFICES ASSUME NEW p \in Path, file'[p] # None PROVE Sound(file[p])'
    BY DEF FilesSound
  <2>1. CASE p = Target
    BY <2>1, <1>9 DEF Sound
  <2>2. CASE p # Target
    <3>1. file'[p] = file[p] /\ Sound(file[p])
      BY <2>2, <1>9 DEF FilesSound
    <3>2. cuts' = 0 => cuts = 0
      BY <1>1, <1>3
    <3> QED
      BY <3>1, <3>2 DEF Sound, SizeSaid
  <2> QED
    BY <2>1, <2>2
<1>13. Writing'
  <2>1. file'[Target] # None /\ file'[call.in] # None
    BY <1>3, <1>9, RecordsOfFiles
  <2>2. rfilelen + rlen = 0 => wfilelen + w = 0
    BY <1>2, <1>3, <1>5, <1>6, <1>7 DEF Writing
  <2>3. Target = call.in => rfilelen + rlen = 0
    BY <1>2, <1>3, <1>5 DEF Writing
  <2> QED
    BY <2>1, <2>2, <2>3, <1>1, <1>2, <1>9, <1>10 DEF Writing
<1>14. Encrypting'
  <2>1. call.op = "encrypt" /\ filesize = SizeSaid(file[Target])'
    BY <1>2, <1>9, <1>10 DEF Encrypting, SizeSaid
  <2>2. Target # call.in => file'[call.in].len = file'[Target].of
    BY <1>2, <1>3, <1>9 DEF Encrypting
  <2>3. cuts' = 0 => /\ wfilelen' = EncryptedLength(rfilelen')
                     /\ file'[Target].good = wfilelen'
    <3> SUFFICES ASSUME cuts' = 0
                 PROVE  wfilelen' = EncryptedLength(rfilelen') /\ file'[Target].good = wfilelen'
      OBVIOUS
    <3>1. cuts = 0 /\ w = datalen
      BY <1>1, <1>3, <1>6, <1>7
    <3>2. wfilelen = rfilelen /\ t.good = wfilelen
      BY <3>1, <1>2, <1>6 DEF Encrypting
    <3> QED
      BY <3>1, <3>2, <1>1, <1>2, <1>6, <1>9 DEF g
  <2> QED
    BY <2>1, <2>2, <2>3, <1>2, <1>5, <1>10 DEF Encrypting
<1>15. Decrypting' /\ Finishing'
  BY <1>2 DEF Decrypting, Finishing
<1> QED
  BY <1>11, <1>12, <1>13, <1>14, <1>15

LEMMA SealCInv ==
  ASSUME CInv, Seal
  PROVE  CInv'
<1> DEFINE t == file[Target]
           pad == Padding(wfilelen)
<1> USE DEF CInv
<1>1. PICK p \in Written(pad), tl \in Written(FULL_TAIL_LENGTH) :
        /\ file' = [file EXCEPT ![Target] = Sealed(@, p, tl)]
        /\ cuts' = IF p < pad \/ tl < FULL_TAIL_LENGTH THEN cuts + 1 ELSE cuts
  BY DEF Seal
<1>2. /\ pc = "encrypting" /\ rfilelen >= filesize /\ Close
      /\ UNCHANGED <<call, given, calls, deaths>>
  BY DEF Seal
<1>3. /\ Target \in Path /\ call.in \in Path /\ call \in Request /\ t \in File
      /\ t.of \in Nat /\ t.len = wfilelen /\ t.good \in Nat
      /\ rfilelen \in Nat /\ wfilelen \in Nat /\ filesize \in -1..LONG_MAX /\ cuts \in Nat
      /\ given \in Given
  BY <1>2, TargetIsPath, ContainerAssumption DEF TypeOK, Writing, Target, File
<1>4. pad \in Nat /\ (wfilelen = 0 => pad = 0)
  BY <1>3, PaddedBody
<1>5. /\ p \in 0..pad /\ tl \in 0..FULL_TAIL_LENGTH
      /\ p < pad \/ tl < FULL_TAIL_LENGTH => cuts < MaxCuts
  <2>1. FULL_TAIL_LENGTH \in Nat
    BY DEF FULL_TAIL_LENGTH
  <2>2. p \in 0..pad /\ (p < pad => cuts < MaxCuts)
    BY <1>4, WrittenBounds
  <2>3. tl \in 0..FULL_TAIL_LENGTH /\ (tl < FULL_TAIL_LENGTH => cuts < MaxCuts)
    BY <2>1, WrittenBounds
  <2> QED
    BY <2>2, <2>3
<1> HIDE DEF pad
<1> DEFINE sealed == Sealed(t, p, tl)
<1>6. GenerateFileTail \in Tail
  BY <1>3, NarrowedIds DEF GenerateFileTail, Tail
<1>7. /\ sealed \in File /\ sealed.of = t.of /\ sealed.good = t.good
      /\ sealed.len = wfilelen + p + tl
      /\ sealed.tail = IF tl = FULL_TAIL_LENGTH THEN GenerateFileTail ELSE None
  <2>1. t.len + p + tl \in Nat
    BY <1>3, <1>4, <1>5 DEF FULL_TAIL_LENGTH
  <2> QED
    BY Zenon, <2>1, <1>3, <1>6 DEF File, Sealed
<1>18. file' = [file EXCEPT ![Target] = sealed]
  BY <1>1
<1> HIDE DEF sealed
<1>8. /\ file' \in [Path -> File \cup {None}]
      /\ file'[Target] = sealed
      /\ \A q \in Path \ {Target} : file'[q] = file[q]
  <2>1. file \in [Path -> File \cup {None}] /\ Target \in Path /\ sealed \in File
    BY <1>3, <1>7 DEF TypeOK
  <2> HIDE DEF CInv
  <2> QED
    BY <2>1, <1>18
<1> DEFINE f == file'[Target]
<1>16. /\ f \in File /\ f.of = t.of /\ f.good = t.good /\ f.len = wfilelen + p + tl
       /\ f.tail = IF tl = FULL_TAIL_LENGTH THEN GenerateFileTail ELSE None
  BY Zenon, <1>7, <1>8
<1> HIDE DEF f
<1>17. Target' = Target /\ f = file'[Target'] /\ f # None
  BY <1>2, <1>16, RecordsOfFiles DEF Target, f
<1>9. TypeOK'
  <2>1. cuts' \in 0..MaxCuts
    BY <1>1, <1>5, <1>4, ContainerAssumption DEF TypeOK
  <2>2. pc' \in Place /\ ret' \in {0, 1}
    BY <1>2 DEF Close, Return, Place, TypeOK
  <2>3. /\ filesize' \in -1..LONG_MAX /\ realfilelen' \in -1..LONG_MAX
        /\ rfilelen' \in Nat /\ wfilelen' \in Nat
    BY <1>2, ContainerAssumption DEF Close, Forget
  <2> QED
    BY <2>1, <2>2, <2>3, <1>2, <1>8 DEF TypeOK
<1>10. cuts' = 0 => cuts = 0 /\ p = pad /\ tl = FULL_TAIL_LENGTH
  BY <1>1, <1>3, <1>4, <1>5 DEF FULL_TAIL_LENGTH
<1>11. /\ t.of > LONG_MAX => filesize = -1 /\ wfilelen = 0
       /\ t.of <= LONG_MAX => filesize = t.of /\ rfilelen = t.of
       /\ cuts = 0 => wfilelen = EncryptedLength(rfilelen) /\ t.good = wfilelen
  <2>1. filesize = SizeSaid(t) /\ (rfilelen = 0 \/ rfilelen <= filesize)
    BY <1>2 DEF Encrypting
  <2>2. rfilelen = 0 => wfilelen = 0
    BY <1>2 DEF Writing
  <2>3. cuts = 0 => wfilelen = EncryptedLength(rfilelen) /\ t.good = wfilelen
    BY <1>2 DEF Encrypting
  <2> QED
    BY <2>1, <2>2, <2>3, <1>2, <1>3, ContainerAssumption DEF SizeSaid
<1>12. ASSUME f.tail # None
       PROVE  /\ f.tail.fileSize = IF f.of > LONG_MAX THEN -1 ELSE f.of
              /\ f.of > LONG_MAX => f.len = FULL_TAIL_LENGTH
              /\ cuts' = 0 /\ f.of <= LONG_MAX =>
                   /\ f.good = EncryptedLength(f.of)
                   /\ f.len = BodyLength(f.of) + FULL_TAIL_LENGTH
  <2>1. tl = FULL_TAIL_LENGTH /\ f.tail.fileSize = filesize
    BY <1>12, <1>16 DEF GenerateFileTail
  <2>2. f.tail.fileSize = IF f.of > LONG_MAX THEN -1 ELSE f.of
    BY <2>1, <1>2, <1>16 DEF Encrypting, SizeSaid
  <2>3. f.of > LONG_MAX => f.len = FULL_TAIL_LENGTH
    BY <2>1, <1>4, <1>5, <1>16, <1>11 DEF FULL_TAIL_LENGTH
  <2>4. ASSUME cuts' = 0, f.of <= LONG_MAX
        PROVE  /\ f.good = EncryptedLength(f.of)
               /\ f.len = BodyLength(f.of) + FULL_TAIL_LENGTH
    <3>1. /\ rfilelen = t.of /\ wfilelen = EncryptedLength(t.of) /\ t.good = wfilelen
          /\ p = pad /\ tl = FULL_TAIL_LENGTH
      BY <2>4, <1>16, <1>10, <1>11
    <3>2. EncryptedLength(t.of) + Padding(EncryptedLength(t.of)) = BodyLength(t.of)
      BY <1>3, PaddedBody
    <3> QED
      BY <3>1, <3>2, <1>16 DEF pad
  <2> QED
    BY <2>2, <2>3, <2>4
<1>13. FilesSound'
  <2> SUFFICES ASSUME NEW q \in Path, file'[q] # None PROVE Sound(file[q])'
    BY DEF FilesSound
  <2>1. CASE q = Target
    <3>1. file'[q] = f
      BY <2>1 DEF f
    <3> QED
      BY <3>1, <1>12 DEF Sound, SizeSaid
  <2>2. CASE q # Target
    <3>1. file'[q] = file[q] /\ Sound(file[q])
      BY <2>2, <1>8 DEF FilesSound
    <3> QED
      BY <3>1, <1>10 DEF Sound, SizeSaid
  <2> QED
    BY <2>1, <2>2
<1>14. Writing' /\ Encrypting' /\ Decrypting'
  BY <1>2 DEF Close, Return, Writing, Encrypting, Decrypting
<1>15. Finishing'
  <2>1. ASSUME cuts' = 0
        PROVE  /\ f.tail = [fileSize |-> IF f.of > LONG_MAX THEN -1 ELSE f.of,
                            ids |-> Narrowed(given)]
               /\ call.op = "encrypt"
    <3>1. f.tail = GenerateFileTail /\ filesize = IF f.of > LONG_MAX THEN -1 ELSE f.of
      BY <2>1, <1>2, <1>16, <1>10 DEF Encrypting, SizeSaid
    <3> QED
      BY <3>1, <1>2 DEF GenerateFileTail, Encrypting
  <2>2. Product(file[Target])'
    BY <2>1, <1>2, <1>17 DEF Product, SizeSaid, Narrowed
  <2>3. CASE call.out = None
    BY <2>2, <2>3, <1>2, <1>17 DEF Finishing, Close
  <2>4. CASE call.out # None
    <3>1. Made' = Target'
      BY <2>4, <1>2 DEF Made, Target, TargetOf
    <3> QED
      BY <2>2, <2>4, <3>1, <1>2, <1>17 DEF Finishing, Close, Return
  <2> QED
    BY <2>3, <2>4
<1> QED
  BY <1>9, <1>13, <1>14, <1>15

-----------------------------------------------------------------------------
(* What a turn of the decryption loop reads and may write, in any case, and *)
(* when the input is complete.                                              *)
LEMMA DecryptReads ==
  ASSUME CInv, pc = "decrypting", MoreToDecrypt
  PROVE  /\ ReadLength \in Nat /\ rfilelen + ReadLength <= filesize
         /\ ReadLength > 0 => Target # call.in /\ Trimmed(ReadLength) \in 0..ReadLength
         /\ ReadLength > 0 => wfilelen + Trimmed(ReadLength) <= realfilelen
         /\ Target = call.in => ReadLength = 0
         /\ realfilelen = file[Target].of /\ realfilelen \in Nat
         /\ wfilelen <= realfilelen
<1> USE DEF CInv
<1>1. /\ rfilelen \in Nat /\ wfilelen \in Nat /\ filesize \in -1..LONG_MAX
      /\ realfilelen \in -1..LONG_MAX /\ file[Target].of \in Nat
      /\ file[call.in] \in File /\ file[call.in].len \in Nat
  BY TargetIsPath DEF TypeOK, Writing, Target, File
<1>2. realfilelen = file[Target].of /\ realfilelen \in Nat
  BY <1>1 DEF Decrypting, SizeSaid, MoreToDecrypt
<1>3. wfilelen <= realfilelen
  BY <1>1, <1>2 DEF Decrypting, Writing
<1>4. CASE Target = call.in
  <2>1. file[call.in].len = 0 /\ rfilelen = 0
    BY <1>4 DEF Writing
  <2>2. ReadLength = 0
    BY <2>1, <1>1
    DEF ReadLength, Wanted, Smaller, MoreToDecrypt, CRYPT_GROUP_SIZE, FULL_TAIL_LENGTH
  <2> QED
    BY <2>1, <2>2, <1>1, <1>2, <1>3, <1>4 DEF Decrypting
<1>5. CASE Target # call.in
  <2>1. file[call.in].len = filesize /\ rfilelen <= filesize
    BY <1>5 DEF Decrypting
  <2>2. ReadLength \in Nat /\ rfilelen + ReadLength <= filesize
    BY <2>1, <1>1
    DEF ReadLength, Wanted, Smaller, MoreToDecrypt, CRYPT_GROUP_SIZE, FULL_TAIL_LENGTH
  <2>3. /\ Trimmed(ReadLength) \in 0..ReadLength
        /\ wfilelen + Trimmed(ReadLength) <= realfilelen
    BY <2>2, <1>1, <1>2, <1>3 DEF Trimmed
  <2> QED
    BY <2>2, <2>3, <1>2, <1>3, <1>5
<1> QED
  BY <1>4, <1>5

LEMMA DecryptReadsComplete ==
  ASSUME CInv, pc = "decrypting", MoreToDecrypt, Target # call.in,
         cuts = 0, file[Target].of <= LONG_MAX
  PROVE  LET n == file[Target].of
             r == rfilelen + ReadLength
         IN /\ rfilelen < n /\ wfilelen = rfilelen /\ ReadLength > 0
            /\ r <= filesize - FULL_TAIL_LENGTH
            /\ r % CRYPT_GROUP_SIZE = 0 \/ r = filesize - FULL_TAIL_LENGTH
            /\ wfilelen + Trimmed(ReadLength) = Smaller(r, n)
            /\ Trimmed(ReadLength) <= (file[call.in].good \div BLOCK) * BLOCK - rfilelen
<1> USE DEF CInv
<1> DEFINE n == file[Target].of
<1>1. /\ rfilelen \in Nat /\ wfilelen \in Nat /\ filesize \in -1..LONG_MAX /\ n \in Nat
  BY TargetIsPath DEF TypeOK, Writing, Target, File
<1>2. /\ filesize = BodyLength(n) + FULL_TAIL_LENGTH
      /\ file[call.in].good = EncryptedLength(n) /\ file[call.in].len = filesize
      /\ rfilelen % CRYPT_GROUP_SIZE = 0 \/ rfilelen = filesize - FULL_TAIL_LENGTH
      /\ wfilelen = Smaller(rfilelen, n) /\ realfilelen = n
  BY DecryptReads DEF Decrypting
<1>3. BodyLength(n) \in Nat /\ n <= BodyLength(n)
  BY <1>1, PaddedBody
<1>4. rfilelen < BodyLength(n) /\ rfilelen % CRYPT_GROUP_SIZE = 0
  BY <1>1, <1>2, <1>3 DEF MoreToDecrypt, FULL_TAIL_LENGTH
<1>5. /\ rfilelen < n
      /\ rfilelen + CRYPT_GROUP_SIZE < BodyLength(n) + FULL_TAIL_LENGTH
           => rfilelen + CRYPT_GROUP_SIZE <= BodyLength(n)
      /\ (rfilelen + CRYPT_GROUP_SIZE) % CRYPT_GROUP_SIZE = 0
      /\ (EncryptedLength(n) \div BLOCK) * BLOCK = EncryptedLength(n)
      /\ EncryptedLength(n) >= n
  BY <1>1, <1>4, GroupsInDocument
<1>6. wfilelen = rfilelen
  BY <1>1, <1>2, <1>5 DEF Smaller
<1>7. EncryptedLength(n) \in Nat
  BY <1>1 DEF EncryptedLength, Aligned, BLOCK
<1> HIDE DEF n
<1>8. \/ /\ rfilelen + CRYPT_GROUP_SIZE >= filesize
         /\ ReadLength = BodyLength(n) - rfilelen
      \/ /\ rfilelen + CRYPT_GROUP_SIZE < filesize
         /\ ReadLength = CRYPT_GROUP_SIZE
  BY <1>1, <1>2, <1>3, <1>4 DEF ReadLength, Wanted, Smaller, CRYPT_GROUP_SIZE, FULL_TAIL_LENGTH
<1>9. /\ ReadLength \in Nat /\ ReadLength > 0 /\ rfilelen + ReadLength <= BodyLength(n)
      /\ \/ (rfilelen + ReadLength) % CRYPT_GROUP_SIZE = 0
         \/ rfilelen + ReadLength = BodyLength(n)
  <2>1. CASE ReadLength = BodyLength(n) - rfilelen
    BY <2>1, <1>1, <1>3, <1>4
  <2>2. CASE /\ rfilelen + CRYPT_GROUP_SIZE < filesize
             /\ ReadLength = CRYPT_GROUP_SIZE
    BY <2>2, <1>1, <1>2, <1>3, <1>5 DEF CRYPT_GROUP_SIZE
  <2> QED
    BY <2>1, <2>2, <1>8
<1>10. /\ wfilelen + Trimmed(ReadLength) = Smaller(rfilelen + ReadLength, n)
       /\ Trimmed(ReadLength) <= EncryptedLength(n) - rfilelen
  BY <1>1, <1>2, <1>5, <1>6, <1>7, <1>9, DecryptReads DEF Trimmed, Smaller, n
<1>11. filesize - FULL_TAIL_LENGTH = BodyLength(n)
  BY <1>1, <1>2, <1>3 DEF FULL_TAIL_LENGTH
<1> QED
  BY <1>2, <1>5, <1>6, <1>9, <1>10, <1>11 DEF n

LEMMA DecryptGroupCInv ==
  ASSUME CInv, DecryptGroup
  PROVE  CInv'
<1> DEFINE rlen == ReadLength
           datalen == IF rlen = 0 THEN 0 ELSE Trimmed(rlen)
           right == (file[call.in].good \div BLOCK) * BLOCK - rfilelen
           t == file[Target]
<1>1. PICK w \in Written(datalen) :
        /\ file' = [file EXCEPT ![Target] =
                      Extended(@, w, IF wfilelen = rfilelen /\ right > 0
                                     THEN Smaller(w, right) ELSE 0)]
        /\ wfilelen' = wfilelen + w
        /\ cuts' = IF w < datalen THEN cuts + 1 ELSE cuts
  BY DEF DecryptGroup
<1>2. /\ pc = "decrypting" /\ MoreToDecrypt /\ rfilelen' = rfilelen + rlen
      /\ UNCHANGED <<pc, call, given, filesize, realfilelen, ret, calls, deaths>>
  BY DEF DecryptGroup
<1>3. /\ Target \in Path /\ call.in \in Path /\ t \in File /\ file[call.in] \in File
      /\ t.of \in Nat /\ file[call.in].good \in Nat
      /\ rfilelen \in Nat /\ wfilelen \in Nat /\ filesize \in -1..LONG_MAX /\ cuts \in Nat
  BY <1>2, TargetIsPath, ContainerAssumption DEF CInv, TypeOK, Writing, Target, File
<1>4. /\ rlen \in Nat /\ rfilelen + rlen <= filesize
      /\ datalen \in 0..rlen /\ wfilelen + datalen <= realfilelen
      /\ Target = call.in => rlen = 0
      /\ realfilelen = t.of
  BY <1>2, <1>3, DecryptReads
<1>5. right \in Int
  BY <1>3 DEF BLOCK
<1>6. w \in 0..datalen /\ (w < datalen => cuts < MaxCuts)
  BY <1>4, WrittenBounds DEF CInv
<1> DEFINE g == IF wfilelen = rfilelen /\ right > 0 THEN Smaller(w, right) ELSE 0
<1>7. g \in 0..w
  BY <1>4, <1>5, <1>6 DEF Smaller
<1>8. file' = [file EXCEPT ![Target] = Extended(@, w, g)]
  BY <1>1
<1> HIDE DEF rlen, datalen, right, g
<1>9. /\ file' \in [Path -> File \cup {None}]
      /\ \A p \in Path \ {Target} : file'[p] = file[p]
      /\ file'[Target] \in File
      /\ file'[Target].tail = None /\ file'[Target].of = t.of
      /\ file'[Target].len = wfilelen + w
      /\ file'[Target].good <= file'[Target].len
      /\ t.good = wfilelen => file'[Target].good = wfilelen + g
  <2>1. w \in Nat /\ pc \in {"encrypting", "decrypting"}
    BY <1>2, <1>4, <1>6
  <2> QED
    BY <2>1, <1>7, <1>8, OutputExtended
<1>10. Target' = Target
  BY <1>2 DEF Target
<1> USE DEF CInv
<1>11. TypeOK'
  <2>1. rfilelen' \in Nat /\ wfilelen' \in Nat
    BY <1>1, <1>2, <1>3, <1>4, <1>6
  <2>2. cuts' \in 0..MaxCuts
    BY <1>1, <1>4, <1>6, ContainerAssumption DEF TypeOK
  <2> QED
    BY <2>1, <2>2, <1>2, <1>9 DEF TypeOK
<1>12. FilesSound'
  <2> SUFFICES ASSUME NEW p \in Path, file'[p] # None PROVE Sound(file[p])'
    BY DEF FilesSound
  <2>1. CASE p = Target
    BY <2>1, <1>9 DEF Sound
  <2>2. CASE p # Target
    <3>1. file'[p] = file[p] /\ Sound(file[p])
      BY <2>2, <1>9 DEF FilesSound
    <3>2. cuts' = 0 => cuts = 0
      BY <1>1, <1>3
    <3> QED
      BY <3>1, <3>2 DEF Sound, SizeSaid
  <2> QED
    BY <2>1, <2>2
<1>13. Writing'
  <2>1. file'[Target] # None /\ file'[call.in] # None
    BY <1>3, <1>9, RecordsOfFiles
  <2>2. rfilelen + rlen = 0 => wfilelen + w = 0
    BY <1>2, <1>3, <1>4, <1>6 DEF Writing
  <2>3. Target = call.in => rfilelen + rlen = 0
    BY <1>2, <1>3, <1>4 DEF Writing
  <2> QED
    BY <2>1, <2>2, <2>3, <1>1, <1>2, <1>9, <1>10 DEF Writing
<1>14. Decrypting'
  <2>1. /\ call.op = "decrypt"
        /\ filesize >= FULL_TAIL_LENGTH /\ rfilelen' <= filesize
        /\ realfilelen = SizeSaid(file[Target])'
        /\ file'[Target].of > LONG_MAX => filesize = FULL_TAIL_LENGTH
        /\ wfilelen' <= realfilelen
    BY <1>1, <1>2, <1>3, <1>4, <1>6, <1>9, <1>10 DEF Decrypting, SizeSaid
  <2>2. Target # call.in => file'[call.in] = file[call.in]
    BY <1>3, <1>9
  <2>3. ASSUME cuts' = 0, t.of <= LONG_MAX
        PROVE  /\ filesize = BodyLength(t.of) + FULL_TAIL_LENGTH
               /\ Target # call.in => file[call.in].good = EncryptedLength(t.of)
               /\ rfilelen' <= filesize - FULL_TAIL_LENGTH
               /\ \/ rfilelen' % CRYPT_GROUP_SIZE = 0
                  \/ rfilelen' = filesize - FULL_TAIL_LENGTH
               /\ wfilelen' = Smaller(rfilelen', t.of)
               /\ file'[Target].good = wfilelen'
    <3>1. cuts = 0 /\ w = datalen
      BY <2>3, <1>1, <1>3, <1>4, <1>6
    <3>2. /\ filesize = BodyLength(t.of) + FULL_TAIL_LENGTH
          /\ Target # call.in => file[call.in].good = EncryptedLength(t.of)
          /\ t.good = wfilelen
      BY <2>3, <3>1, <1>2 DEF Decrypting
    <3>3. CASE Target = call.in
      <4>1. rlen = 0 /\ rfilelen' = rfilelen /\ w = 0 /\ wfilelen' = wfilelen /\ g = 0
        BY <3>3, <1>1, <1>2, <1>3, <1>4, <1>6, <1>7
      <4> QED
        BY <2>3, <3>1, <3>2, <4>1, <1>2, <1>3, <1>9 DEF Decrypting
    <3>4. CASE Target # call.in
      <4>1. /\ wfilelen = rfilelen /\ rlen > 0
            /\ rfilelen + rlen <= filesize - FULL_TAIL_LENGTH
            /\ \/ (rfilelen + rlen) % CRYPT_GROUP_SIZE = 0
               \/ rfilelen + rlen = filesize - FULL_TAIL_LENGTH
            /\ wfilelen + Trimmed(rlen) = Smaller(rfilelen + rlen, t.of)
            /\ Trimmed(rlen) <= right /\ rfilelen < t.of
        BY <2>3, <3>1, <3>4, <1>2, DecryptReadsComplete DEF rlen, right
      <4>2. w = Trimmed(rlen)
        BY <3>1, <4>1 DEF datalen
      <4>3. g = w
        BY <4>1, <4>2, <1>5, <1>3, <1>4, <1>6 DEF g, Smaller
      <4> QED
        BY <3>2, <4>1, <4>2, <4>3, <1>1, <1>2, <1>9
    <3> QED
      BY <3>3, <3>4
  <2> QED
    BY <2>1, <2>2, <2>3, <1>2, <1>9, <1>10 DEF Decrypting
<1>15. Encrypting' /\ Finishing'
  BY <1>2 DEF Encrypting, Finishing
<1> QED
  BY <1>11, <1>12, <1>13, <1>14, <1>15

LEMMA DecryptFailsCInv ==
  ASSUME CInv, DecryptFails
  PROVE  CInv'
<1> USE ContainerAssumption DEF CInv, DecryptFails, Return, Forget
<1>1. TypeOK'
  <2>1. file' \in [Path -> File \cup {None}]
    BY DEF TypeOK
  <2>2. /\ filesize' \in -1..LONG_MAX /\ realfilelen' \in -1..LONG_MAX
        /\ rfilelen' \in Nat /\ wfilelen' \in Nat
    OBVIOUS
  <2> QED
    BY <2>1, <2>2 DEF TypeOK, Place
<1>2. FilesSound'
  BY DEF FilesSound, Sound, SizeSaid, TypeOK
<1>3. (Writing /\ Encrypting /\ Decrypting /\ Finishing)'
  BY DEF Writing, Encrypting, Decrypting, Finishing
<1> QED
  BY <1>1, <1>2, <1>3

(* The loop of decryption is left with the whole document written.          *)
LEMMA DecryptDoneCInv ==
  ASSUME CInv, DecryptDone
  PROVE  CInv'
<1> DEFINE t == file[Target]
<1> USE DEF CInv
<1>1. /\ pc = "decrypting" /\ ~ MoreToDecrypt /\ Close
      /\ UNCHANGED <<file, call, given, cuts, calls, deaths>>
  BY DEF DecryptDone
<1>2. /\ t \in File /\ t # None /\ t.of \in Nat /\ t.tail = None /\ t.len = wfilelen
      /\ rfilelen \in Nat /\ wfilelen \in Nat /\ filesize \in -1..LONG_MAX
      /\ call.op = "decrypt" /\ Target' = Target
  BY <1>1, TargetIsPath DEF TypeOK, Writing, Target, File, Decrypting
<1>3. TypeOK'
  <2>1. pc' \in Place /\ ret' \in {0, 1}
    BY <1>1 DEF Close, Return, Place, TypeOK
  <2>2. /\ filesize' \in -1..LONG_MAX /\ realfilelen' \in -1..LONG_MAX
        /\ rfilelen' \in Nat /\ wfilelen' \in Nat
    BY <1>1, ContainerAssumption DEF Close, Forget
  <2> QED
    BY <2>1, <2>2, <1>1 DEF TypeOK
<1>4. FilesSound'
  BY <1>1 DEF FilesSound, Sound, SizeSaid
<1>5. Writing' /\ Encrypting' /\ Decrypting'
  BY <1>1 DEF Close, Return, Writing, Encrypting, Decrypting
<1>6. ASSUME cuts = 0, t.of <= LONG_MAX
      PROVE  t = Whole(t.of)
  <2>1. /\ filesize = BodyLength(t.of) + FULL_TAIL_LENGTH
        /\ rfilelen <= filesize - FULL_TAIL_LENGTH
        /\ wfilelen = Smaller(rfilelen, t.of) /\ t.good = wfilelen
    BY <1>1, <1>6 DEF Decrypting
  <2>2. BodyLength(t.of) \in Nat /\ t.of <= BodyLength(t.of)
    BY <1>2, PaddedBody
  <2>3. wfilelen = t.of
    BY <2>1, <2>2, <1>1, <1>2 DEF MoreToDecrypt, Smaller, FULL_TAIL_LENGTH
  <2> QED
    BY <2>1, <2>3, <1>2 DEF Whole, File
<1>7. Product(file[Target])'
  BY <1>1, <1>2, <1>6 DEF Product
<1>8. Finishing'
  <2>1. CASE call.out = None
    BY <2>1, <1>1, <1>2, <1>7 DEF Finishing, Close
  <2>2. CASE call.out # None
    <3>1. Made' = Target'
      BY <2>2, <1>1 DEF Made, Target, TargetOf
    <3> QED
      BY <2>2, <3>1, <1>1, <1>2, <1>7 DEF Finishing, Close, Return
  <2> QED
    BY <2>1, <2>2
<1> QED
  BY <1>3, <1>4, <1>5, <1>8

LEMMA RemoveInputCInv ==
  ASSUME CInv, RemoveInput
  PROVE  CInv'
<1> USE DEF CInv
<1>1. /\ pc = "removing" /\ call \in Request /\ call.out = None
      /\ UNCHANGED <<call, given, locals, cuts, calls, deaths>>
  BY DEF RemoveInput, TypeOK, Finishing
<1>2. Target \in Path /\ call.in \in Path /\ Target # call.in /\ Target' = Target
  BY <1>1, TargetIsPath DEF Target
<1>3. \/ file' = [file EXCEPT ![call.in] = None] /\ pc' = "renaming" /\ UNCHANGED ret
      \/ file' = [file EXCEPT ![Target] = None] /\ Return(0)
  BY DEF RemoveInput
<1>4. TypeOK'
  BY <1>1, <1>2, <1>3, ContainerAssumption DEF TypeOK, Place, Return, locals
<1>5. FilesSound'
  BY <1>1, <1>2, <1>3 DEF FilesSound, Sound, SizeSaid, TypeOK
<1>6. Writing' /\ Encrypting' /\ Decrypting'
  BY <1>3 DEF Writing, Encrypting, Decrypting, Return
<1>7. Finishing'
  <2>1. CASE file' = [file EXCEPT ![call.in] = None] /\ pc' = "renaming" /\ UNCHANGED ret
    <3>1. file'[Target] = file[Target]
      BY <2>1, <1>2 DEF TypeOK
    <3> QED
      BY <2>1, <3>1, <1>1, <1>2 DEF Finishing, Product
  <2>2. CASE Return(0)
    BY <2>2 DEF Finishing, Return
  <2> QED
    BY <2>1, <2>2, <1>3
<1> QED
  BY <1>4, <1>5, <1>6, <1>7

LEMMA RenameOutputCInv ==
  ASSUME CInv, RenameOutput
  PROVE  CInv'
<1> USE DEF CInv
<1>1. /\ pc = "renaming" /\ call \in Request /\ call.out = None
      /\ UNCHANGED <<call, given, locals, cuts, calls, deaths>>
  BY DEF RenameOutput, TypeOK, Finishing
<1>2. /\ Target \in Path /\ call.in \in Path /\ Target # call.in
      /\ file[Target] # None /\ Product(file[Target])
  BY <1>1, TargetIsPath DEF Target, Finishing
<1>3. \/ /\ file' = [file EXCEPT ![call.in] = file[Target], ![Target] = None]
         /\ Return(1)
      \/ UNCHANGED file /\ Return(0)
  BY DEF RenameOutput
<1>4. TypeOK'
  BY <1>1, <1>2, <1>3, ContainerAssumption DEF TypeOK, Place, Return, locals
<1>5. FilesSound'
  <2> SUFFICES ASSUME NEW p \in Path, file'[p] # None PROVE Sound(file[p])'
    BY DEF FilesSound
  <2>1. \E q \in Path : file'[p] = file[q] /\ file[q] # None
    BY <1>2, <1>3 DEF TypeOK
  <2> QED
    BY <2>1, <1>1 DEF FilesSound, Sound, SizeSaid
<1>6. Writing' /\ Encrypting' /\ Decrypting'
  BY <1>3 DEF Writing, Encrypting, Decrypting, Return
<1>7. Finishing'
  <2>1. CASE /\ file' = [file EXCEPT ![call.in] = file[Target], ![Target] = None]
             /\ Return(1)
    <3>1. file'[call.in] = file[Target]
      BY <2>1, <1>2 DEF TypeOK
    <3>2. Made' = call.in
      BY <1>1 DEF Made
    <3> QED
      BY <2>1, <3>1, <3>2, <1>1, <1>2 DEF Finishing, Product, Return
  <2>2. CASE Return(0)
    BY <2>2 DEF Finishing, Return
  <2> QED
    BY <2>1, <2>2, <1>3
<1> QED
  BY <1>4, <1>5, <1>6, <1>7

(* A death leaves a ciphertext that was being written without a tail.       *)
LEMMA ProcessDeathCInv ==
  ASSUME CInv, ProcessDeath
  PROVE  CInv'
<1> USE DEF CInv
<1>1. /\ pc # "idle" /\ deaths < MaxDeaths /\ deaths' = deaths + 1
      /\ pc' = "idle" /\ ret' = 0 /\ Forget
      /\ UNCHANGED <<call, given, cuts, calls>>
  BY DEF ProcessDeath, Return
<1>2. /\ file' \in [Path -> File \cup {None}]
      /\ \A p \in Path : file'[p] # None => Sound(file'[p])
  <2>1. CASE pc \in {"encrypting", "decrypting"}
    <3> DEFINE t == file[Target]
    <3>1. /\ Target \in Path /\ t \in File /\ t.tail = None /\ t.len \in Nat /\ t.good \in Nat
      BY <2>1, TargetIsPath DEF TypeOK, Writing, Target, File
    <3>2. PICK n \in {t.len} \cup {k \in Cuts : k < t.len} :
            file' = [file EXCEPT ![Target] = Flushed(@, n)]
      BY <2>1 DEF ProcessDeath
    <3>3. n \in Nat
      BY <3>1, <3>2, ContainerAssumption
    <3>4. Smaller(n, t.good) \in Nat
      BY <3>1, <3>3 DEF Smaller
    <3>5. Flushed(t, n) \in File /\ Flushed(t, n).tail = None
      BY Zenon, <3>1, <3>3, <3>4 DEF Flushed, File
    <3>6. /\ file' \in [Path -> File \cup {None}]
          /\ file'[Target] = Flushed(t, n)
          /\ \A p \in Path \ {Target} : file'[p] = file[p]
      BY Zenon, <3>1, <3>2, <3>5 DEF TypeOK
    <3> QED
      BY <3>5, <3>6 DEF FilesSound, Sound
  <2>2. CASE pc \notin {"encrypting", "decrypting"}
    BY <2>2 DEF ProcessDeath, FilesSound, TypeOK
  <2> QED
    BY <2>1, <2>2
<1>3. TypeOK'
  BY <1>1, <1>2, ContainerAssumption DEF TypeOK, Place, Forget
<1>4. FilesSound'
  BY <1>1, <1>2 DEF FilesSound, Sound, SizeSaid
<1>5. (Writing /\ Encrypting /\ Decrypting /\ Finishing)'
  BY <1>1 DEF Writing, Encrypting, Decrypting, Finishing
<1> QED
  BY <1>3, <1>4, <1>5

LEMMA NextCInv == CInv /\ [Next]_vars => CInv'
<1> SUFFICES ASSUME CInv, [Next]_vars PROVE CInv'
  OBVIOUS
<1>1. CASE \E c \in Call : Refuse(c) \/ StartEncrypt(c) \/ StartDecrypt(c)
  BY <1>1, RefuseCInv, StartEncryptCInv, StartDecryptCInv
<1>2. CASE Work
  BY <1>2, EncryptGroupCInv, SealCInv, DecryptGroupCInv, DecryptFailsCInv, DecryptDoneCInv,
     RemoveInputCInv, RenameOutputCInv DEF Work
<1>3. CASE ProcessDeath
  BY <1>3, ProcessDeathCInv
<1>4. CASE UNCHANGED vars
  <2> USE <1>4 DEF vars, locals, CInv
  <2>1. TypeOK'
    BY DEF TypeOK
  <2>2. Target' = Target /\ Made' = Made
    BY DEF Target, Made
  <2>3. (FilesSound /\ Writing /\ Encrypting /\ Decrypting /\ Finishing)'
    BY <2>2 DEF FilesSound, Sound, SizeSaid, Writing, Encrypting, Decrypting, Finishing, Product
  <2> QED
    BY <2>1, <2>3
<1> QED
  BY <1>1, <1>2, <1>3, <1>4 DEF Next

-----------------------------------------------------------------------------
LEMMA SpecCInv == Spec => []CInv
<1>1. Init => CInv
  BY InitCInv
<1>2. CInv /\ [Next]_vars => CInv'
  BY NextCInv
<1> QED
  BY <1>1, <1>2, PTL DEF Spec

(* Types: counts of bytes never fall below zero, whatever a write that      *)
(* fails or a truncated input leaves to the loops of SDCrypto.cpp.          *)
THEOREM ContainerTypes == Spec => []TypeOK
<1>1. CInv => TypeOK
  BY DEF CInv
<1> QED
  BY <1>1, SpecCInv, PTL

(* A tail is only ever behind all of its document, padded to 512 bytes.     *)
THEOREM TailsAreComplete == Spec => []CiphertextComplete
<1>1. CInv => CiphertextComplete
  <2> SUFFICES ASSUME CInv, NEW p \in Path,
                      cuts = 0, file[p] # None, file[p].tail # None, file[p].of <= LONG_MAX
               PROVE  /\ file[p].good >= file[p].of
                      /\ file[p].len = Aligned(file[p].of, DATA_GROUP_LENGTH) + FULL_TAIL_LENGTH
                      /\ file[p].tail.fileSize = file[p].of
    BY DEF CiphertextComplete
  <2>1. file[p].of \in Nat /\ Sound(file[p])
    BY DEF CInv, TypeOK, FilesSound, File
  <2>2. EncryptedLength(file[p].of) >= file[p].of
    <3>1. 0 \in Nat /\ 0 % CRYPT_GROUP_SIZE = 0
      BY DEF CRYPT_GROUP_SIZE
    <3> QED
      BY <2>1, <3>1, EncryptedGroups
  <2>3. /\ file[p].tail.fileSize = file[p].of /\ file[p].good = EncryptedLength(file[p].of)
        /\ file[p].len = Aligned(file[p].of, DATA_GROUP_LENGTH) + FULL_TAIL_LENGTH
    BY <2>1, ContainerAssumption DEF Sound, SizeSaid, BodyLength
  <2> QED
    BY <2>2, <2>3
<1> QED
  BY <1>1, SpecCInv, PTL

(* Decryption of what encryption wrote gives the document, for every size   *)
(* that a long can say.                                                     *)
THEOREM DecryptionRestores == Spec => []RoundTrip
<1>1. CInv => RoundTrip
  BY DEF CInv, Finishing, Product, RoundTrip, Succeeded
<1> QED
  BY <1>1, SpecCInv, PTL

(* What encryption wrote is recognised with its ids if they fit the tail.   *)
THEOREM CiphertextsAreRecognised == Spec => []Recognised
<1>1. CInv => Recognised
  <2> SUFFICES ASSUME CInv, Succeeded("encrypt"), cuts = 0,
                      file[Made].of <= LONG_MAX - 2 * FULL_TAIL_LENGTH
               PROVE  /\ IsCipherFile(file[Made])
                      /\ given \in Ids => file[Made].tail.ids = given
    BY DEF Recognised
  <2> DEFINE f == file[Made]
  <2>1. f # None /\ f.tail = [fileSize |-> SizeSaid(f), ids |-> Narrowed(given)]
    BY DEF CInv, Finishing, Product, Succeeded
  <2>2. Made \in Path /\ f \in File /\ f.of \in Nat /\ f.len \in Nat /\ given \in Given
    BY <2>1 DEF CInv, TypeOK, Made, Request, File
  <2>3. f.tail # None
    <3>1. Narrowed(given) \in Ids
      BY <2>2, NarrowedIds
    <3>2. f.tail \in Tail
      BY <2>1, <2>2, <3>1, ContainerAssumption DEF SizeSaid, Tail, FULL_TAIL_LENGTH
    <3> QED
      BY <3>2, ContainerAssumption
  <2>4. f.len = BodyLength(f.of) + FULL_TAIL_LENGTH
    BY <2>1, <2>2, <2>3, ContainerAssumption DEF CInv, FilesSound, Sound, FULL_TAIL_LENGTH
  <2>5. BodyLength(f.of) \in Nat /\ BodyLength(f.of) < f.of + DATA_GROUP_LENGTH
    BY <2>2, PaddedBody
  <2>6. IsCipherFile(f)
    BY <2>2, <2>3, <2>4, <2>5, ContainerAssumption
    DEF IsCipherFile, SizeOf, FULL_TAIL_LENGTH, DATA_GROUP_LENGTH
  <2>7. given \in Ids => f.tail.ids = given
    BY <2>1, <2>2, NarrowedIds
  <2> QED
    BY <2>6, <2>7
<1> QED
  BY <1>1, SpecCInv, PTL
-----------------------------------------------------------------------------
(* The last copy of a document.  Where nothing is written over what is      *)
(* encrypted, the input of a call is a good copy until the output is one.   *)

(* f is a copy to rely on, or of a document too long for a ciphertext.      *)
Fine(f) == Holds(f) \/ f.of > LONG_MAX - 2 * FULL_TAIL_LENGTH
FineAt(p) == file[p] # None /\ Fine(file[p])
IsSource(p) == \E d \in Call : d.op = "encrypt" /\ d.in = p

SourcesFine == \A p \in Path : IsSource(p) /\ file[p] # None => FineAt(p)
CallKnown == pc # "idle" => call \in Call
InputFine == pc \in {"encrypting", "decrypting", "removing"} => FineAt(call.in)
CopyKept == pc = "idle" => \E p \in Path : FineAt(p)
KeptInv == cuts = 0 => SourcesFine /\ CallKnown /\ InputFine /\ CopyKept

(* What is recognised as a ciphertext is a copy to rely on.                 *)
LEMMA CiphertextFine ==
  ASSUME CInv, cuts = 0, NEW p \in Path, file[p] # None, IsCipherFile(file[p])
  PROVE  FineAt(p)
<1> DEFINE f == file[p]
<1>1. f \in File /\ f.of \in Nat /\ f.tail # None /\ Sound(f)
  BY DEF CInv, TypeOK, FilesSound, File, IsCipherFile
<1>2. ASSUME f.of <= LONG_MAX - 2 * FULL_TAIL_LENGTH PROVE Holds(f)
  <2>1. f.of <= LONG_MAX
    BY <1>1, <1>2, ContainerAssumption DEF FULL_TAIL_LENGTH
  <2>2. f.tail.fileSize = f.of /\ f.good = EncryptedLength(f.of)
    BY <1>1, <2>1, ContainerAssumption DEF Sound, SizeSaid
  <2>3. EncryptedLength(f.of) >= f.of
    <3>1. 0 \in Nat /\ 0 % CRYPT_GROUP_SIZE = 0
      BY DEF CRYPT_GROUP_SIZE
    <3> QED
      BY <1>1, <3>1, EncryptedGroups
  <2> QED
    BY <2>2, <2>3 DEF Holds
<1> QED
  BY <1>1, <1>2, ContainerAssumption DEF FineAt, Fine, FULL_TAIL_LENGTH

(* So is what a call has made.                                              *)
LEMMA ProductFine ==
  ASSUME CInv, cuts = 0, NEW p \in Path, file[p] # None, Product(file[p])
  PROVE  FineAt(p)
<1> DEFINE f == file[p]
<1>1. f \in File /\ f.of \in Nat /\ f.len \in Nat /\ Sound(f) /\ given \in Given
  BY DEF CInv, TypeOK, FilesSound, File
<1>2. call.op \in Operation
  BY DEF CInv, TypeOK, Request
<1>3. CASE call.op = "decrypt"
  BY <1>1, <1>3, ContainerAssumption DEF FineAt, Fine, Holds, Product, FULL_TAIL_LENGTH
<1>4. CASE call.op = "encrypt"
  <2>1. f.tail = [fileSize |-> SizeSaid(f), ids |-> Narrowed(given)]
    BY <1>4 DEF Product
  <2>2. ASSUME f.of <= LONG_MAX - 2 * FULL_TAIL_LENGTH PROVE IsCipherFile(f)
    <3>1. f.tail # None
      <4>1. Narrowed(given) \in Ids
        BY <1>1, NarrowedIds
      <4>2. f.tail \in Tail
        BY <2>1, <2>2, <1>1, <4>1, ContainerAssumption DEF SizeSaid, Tail, FULL_TAIL_LENGTH
      <4> QED
        BY <4>2, ContainerAssumption
    <3>2. f.len = BodyLength(f.of) + FULL_TAIL_LENGTH
      BY <1>1, <2>2, <3>1, ContainerAssumption DEF Sound, FULL_TAIL_LENGTH
    <3>3. BodyLength(f.of) \in Nat /\ BodyLength(f.of) < f.of + DATA_GROUP_LENGTH
      BY <1>1, PaddedBody
    <3> QED
      BY <1>1, <2>2, <3>1, <3>2, <3>3, ContainerAssumption
      DEF IsCipherFile, SizeOf, FULL_TAIL_LENGTH, DATA_GROUP_LENGTH
  <2>3. CASE f.of <= LONG_MAX - 2 * FULL_TAIL_LENGTH
    BY <2>2, <2>3, CiphertextFine
  <2>4. CASE ~(f.of <= LONG_MAX - 2 * FULL_TAIL_LENGTH)
    BY <1>1, <2>4, ContainerAssumption DEF FineAt, Fine, FULL_TAIL_LENGTH
  <2> QED
    BY <2>3, <2>4
<1> QED
  BY <1>2, <1>3, <1>4 DEF Operation

(* An output is neither the input of its call nor a file that is encrypted. *)
LEMMA OutputApart ==
  ASSUME SourcesApart, NEW c \in Call
  PROVE  /\ c \in Request /\ c.in \in Path /\ TargetOf(c) \in Path
         /\ TargetOf(c) # c.in /\ ~IsSource(TargetOf(c))
<1>1. c \in Request /\ c.in \in Path /\ TargetOf(c) \in Path
  BY TargetIsPath, ContainerAssumption
<1>2. TargetOf(c) # c.in
  BY <1>1, TargetIsPath DEF SourcesApart, TargetOf
<1>3. ~IsSource(TargetOf(c))
  BY DEF SourcesApart, TargetOf, IsSource
<1> QED
  BY <1>1, <1>2, <1>3

(* A call starts from a good copy and writes elsewhere.                     *)
LEMMA StartKept ==
  ASSUME SourcesApart, CInv, KeptInv, NEW c \in Call, StartEncrypt(c) \/ StartDecrypt(c)
  PROVE  KeptInv'
<1> SUFFICES ASSUME cuts' = 0
             PROVE  (SourcesFine /\ CallKnown /\ InputFine /\ CopyKept)'
  BY DEF KeptInv
<1>1. /\ cuts = 0 /\ call' = c /\ file[c.in] # None
      /\ pc' \in {"encrypting", "decrypting"}
  BY DEF StartEncrypt, StartDecrypt, Open
<1>2. /\ c.in \in Path /\ TargetOf(c) \in Path /\ TargetOf(c) # c.in
      /\ ~IsSource(TargetOf(c))
  BY OutputApart
<1>3. \A p \in Path \ {TargetOf(c)} : file'[p] = file[p]
  BY DEF StartEncrypt, StartDecrypt, CInv, TypeOK
<1>4. FineAt(c.in)
  <2>1. CASE StartEncrypt(c)
    BY <2>1, <1>1, <1>2 DEF StartEncrypt, IsSource, KeptInv, SourcesFine
  <2>2. CASE StartDecrypt(c)
    BY <2>2, <1>1, <1>2, CiphertextFine DEF StartDecrypt
  <2> QED
    BY <2>1, <2>2
<1>5. SourcesFine'
  BY <1>1, <1>2, <1>3 DEF KeptInv, SourcesFine, FineAt, IsSource
<1> QED
  BY <1>1, <1>2, <1>3, <1>4, <1>5 DEF CallKnown, InputFine, CopyKept, FineAt

(* A step that changes no file but the output, which runs on, replaces its  *)
(* input next, or ends.                                                     *)
LEMMA OutputOnlyKept ==
  ASSUME SourcesApart, CInv, KeptInv,
         pc \in {"encrypting", "decrypting", "removing"}, cuts' = 0 => cuts = 0,
         UNCHANGED call, pc' # "renaming",
         \A p \in Path \ {Target} : file'[p] = file[p]
  PROVE  KeptInv'
<1> SUFFICES ASSUME cuts' = 0
             PROVE  (SourcesFine /\ CallKnown /\ InputFine /\ CopyKept)'
  BY DEF KeptInv
<1>1. cuts = 0 /\ call \in Call /\ FineAt(call.in)
  BY DEF KeptInv, CallKnown, InputFine
<1>2. call.in \in Path /\ Target \in Path /\ Target # call.in /\ ~IsSource(Target)
  BY <1>1, OutputApart DEF Target
<1>3. FineAt(call.in)'
  BY <1>1, <1>2 DEF FineAt
<1>4. SourcesFine'
  BY <1>1, <1>2 DEF KeptInv, SourcesFine, FineAt, IsSource
<1> QED
  BY <1>1, <1>2, <1>3, <1>4 DEF CallKnown, InputFine, CopyKept

LEMMA WorkKept ==
  ASSUME SourcesApart, CInv, KeptInv, Work
  PROVE  KeptInv'
<1>1. file \in [Path -> File \cup {None}] /\ cuts \in Nat
  BY ContainerAssumption DEF CInv, TypeOK
<1>2. CASE EncryptGroup \/ Seal \/ DecryptGroup \/ DecryptFails \/ DecryptDone
  <2>1. /\ pc \in {"encrypting", "decrypting"} /\ UNCHANGED call
        /\ pc' \in {"encrypting", "decrypting", "removing", "idle"}
        /\ cuts' \in {cuts, cuts + 1}
    BY <1>2 DEF EncryptGroup, Seal, DecryptGroup, DecryptFails, DecryptDone, Close, Return
  <2>2. \A p \in Path \ {Target} : file'[p] = file[p]
    BY <1>1, <1>2 DEF EncryptGroup, Seal, DecryptGroup, DecryptFails, DecryptDone
  <2> QED
    BY <1>1, <2>1, <2>2, OutputOnlyKept
<1>3. CASE RemoveInput
  <2>1. CASE Return(0)
    BY <1>1, <1>3, <2>1, OutputOnlyKept DEF RemoveInput, Return
  <2>2. CASE ~Return(0)
    <3>1. /\ file' = [file EXCEPT ![call.in] = None] /\ pc' = "renaming"
          /\ pc = "removing" /\ UNCHANGED <<call, cuts>>
      BY <1>3, <2>2 DEF RemoveInput
    <3> QED
      BY <1>1, <3>1 DEF KeptInv, SourcesFine, CallKnown, InputFine, CopyKept, FineAt, IsSource
  <2> QED
    BY <2>1, <2>2
<1>4. CASE RenameOutput
  <2> SUFFICES ASSUME cuts' = 0
               PROVE  (SourcesFine /\ CallKnown /\ InputFine /\ CopyKept)'
    BY DEF KeptInv
  <2>1. pc = "renaming" /\ pc' = "idle" /\ cuts = 0 /\ UNCHANGED call /\ call \in Call
    BY <1>4 DEF RenameOutput, Return, KeptInv, CallKnown
  <2>2. call.in \in Path /\ Target \in Path /\ Target # call.in /\ ~IsSource(Target)
    BY <2>1, OutputApart DEF Target
  <2>3. FineAt(Target)
    BY <2>1, <2>2, ProductFine DEF CInv, Finishing
  <2>4. CASE file' = [file EXCEPT ![call.in] = file[Target], ![Target] = None]
    <3>1. FineAt(call.in)' /\ \A p \in Path \ {call.in, Target} : file'[p] = file[p]
      BY <1>1, <2>1, <2>2, <2>3, <2>4 DEF FineAt
    <3>2. SourcesFine'
      BY <2>1, <2>2, <3>1 DEF KeptInv, SourcesFine, FineAt, IsSource
    <3> QED
      BY <2>1, <2>2, <3>1, <3>2 DEF CallKnown, InputFine, CopyKept
  <2>5. CASE UNCHANGED file
    <3>1. Target' = Target /\ FineAt(Target)'
      BY <2>1, <2>3, <2>5 DEF FineAt, Target
    <3> QED
      BY <2>1, <2>2, <2>5, <3>1
      DEF KeptInv, SourcesFine, CallKnown, InputFine, CopyKept, FineAt, IsSource
  <2> QED
    BY <1>4, <2>4, <2>5 DEF RenameOutput
<1> QED
  BY <1>2, <1>3, <1>4 DEF Work

(* A death leaves the input, or the finished output.                        *)
LEMMA DeathKept ==
  ASSUME SourcesApart, CInv, KeptInv, ProcessDeath
  PROVE  KeptInv'
<1>1. pc # "idle" /\ pc' = "idle" /\ UNCHANGED <<call, cuts>>
  BY DEF ProcessDeath, Return
<1>2. CASE pc \in {"encrypting", "decrypting"}
  <2>1. \A p \in Path \ {Target} : file'[p] = file[p]
    BY <1>2 DEF ProcessDeath, CInv, TypeOK
  <2> QED
    BY <1>1, <1>2, <2>1, OutputOnlyKept
<1>3. CASE pc = "removing"
  BY <1>1, <1>3, OutputOnlyKept DEF ProcessDeath
<1>4. CASE pc = "renaming"
  <2> SUFFICES ASSUME cuts' = 0
               PROVE  (SourcesFine /\ CallKnown /\ InputFine /\ CopyKept)'
    BY DEF KeptInv
  <2>1. UNCHANGED file /\ cuts = 0 /\ call \in Call
    BY <1>1, <1>4 DEF ProcessDeath, KeptInv, CallKnown
  <2>2. Target \in Path
    BY <2>1, OutputApart DEF Target
  <2>3. FineAt(Target)
    BY <1>4, <2>1, <2>2, ProductFine DEF CInv, Finishing
  <2> QED
    BY <1>1, <2>1, <2>2, <2>3
    DEF KeptInv, SourcesFine, CallKnown, InputFine, CopyKept, FineAt, IsSource
<1> QED
  BY <1>1, <1>2, <1>3, <1>4 DEF CInv, TypeOK, Place

LEMMA InitKept == Init => KeptInv
<1> SUFFICES ASSUME Init PROVE SourcesFine /\ CallKnown /\ InputFine /\ CopyKept
  BY DEF KeptInv
<1>1. Origin \in Path /\ pc = "idle"
  BY ContainerAssumption DEF Init
<1>2. PICK n \in Sizes : file = [p \in Path |-> IF p = Origin THEN Whole(n) ELSE None]
  BY DEF Init
<1>3. n \in Nat /\ Whole(n) # None /\ Whole(n) = Whole(Whole(n).of)
  BY ContainerAssumption, RecordsOfFiles DEF Whole
<1>4. FineAt(Origin)
  BY <1>1, <1>2, <1>3 DEF FineAt, Fine, Holds
<1> QED
  BY <1>1, <1>2, <1>4 DEF SourcesFine, CallKnown, InputFine, CopyKept

LEMMA NextKept == SourcesApart /\ CInv /\ KeptInv /\ [Next]_vars => KeptInv'
<1> SUFFICES ASSUME SourcesApart, CInv, KeptInv, [Next]_vars PROVE KeptInv'
  OBVIOUS
<1>1. ASSUME NEW c \in Call, Refuse(c) PROVE KeptInv'
  BY <1>1 DEF Refuse, Return, KeptInv, SourcesFine, CallKnown, InputFine, CopyKept, FineAt,
              IsSource
<1>2. CASE UNCHANGED vars
  BY <1>2 DEF vars, KeptInv, SourcesFine, CallKnown, InputFine, CopyKept, FineAt, IsSource
<1> QED
  BY <1>1, <1>2, StartKept, WorkKept, DeathKept DEF Next

(* The document is never lost, by whatever sequence of calls, failures of   *)
(* removing and renaming, and deaths, as long as writes succeed and outputs *)
(* are not written over what is encrypted.                                  *)
THEOREM DocumentIsKept == Spec => []DocumentSurvives
<1>1. CInv /\ KeptInv => DocumentSurvives
  <2> SUFFICES ASSUME CInv, KeptInv, SourcesApart, cuts = 0,
                      \A p \in Path : file[p] # None =>
                        file[p].of <= LONG_MAX - 2 * FULL_TAIL_LENGTH
               PROVE  \E p \in Path : file[p] # None /\ Holds(file[p])
    BY DEF DocumentSurvives
  <2>1. \E p \in Path : FineAt(p)
    <3>1. CASE pc = "idle"
      BY <3>1 DEF KeptInv, CopyKept
    <3>2. CASE pc # "idle"
      <4>1. call \in Call /\ call.in \in Path /\ Target \in Path
        BY <3>2, OutputApart DEF KeptInv, CallKnown, Target
      <4>2. CASE pc = "renaming"
        BY <4>1, <4>2, ProductFine DEF CInv, Finishing
      <4>3. CASE pc # "renaming"
        BY <3>2, <4>1, <4>3 DEF KeptInv, InputFine, CInv, TypeOK, Place
      <4> QED
        BY <4>2, <4>3
    <3> QED
      BY <3>1, <3>2
  <2>2. PICK p \in Path : FineAt(p)
    BY <2>1
  <2>3. file[p].of \in Nat
    BY <2>2 DEF CInv, TypeOK, File, FineAt
  <2> QED
    BY <2>2, <2>3, ContainerAssumption DEF FineAt, Fine, FULL_TAIL_LENGTH
<1>2. CASE SourcesApart
  BY <1>1, <1>2, InitKept, NextKept, SpecCInv, PTL DEF Spec
<1>3. CASE ~SourcesApart
  <2>1. DocumentSurvives
    BY <1>3 DEF DocumentSurvives
  <2> QED
    BY <2>1, PTL
<1> QED
  BY <1>2, <1>3
=============================================================================
