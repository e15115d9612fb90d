---------------------------- MODULE CipherContainer ----------------------------
(***************************************************************************)
(* The native cipher container: SD_EncryptFile writes AES blocks, padding  *)
(* and a tail of 512 bytes behind them; SD_DecryptFile reads the tail and  *)
(* restores the document; isSecureDoc reads the ids of the tail.  Files    *)
(* are read and written in groups of 4096 bytes, and a death of the        *)
(* process may come between any two of them.                               *)
(*                                                                         *)
(* A file is abstracted to its length, the length of its correct prefix    *)
(* (what the call that wrote it meant to write there), the length of the   *)
(* document it was made from, and its tail.  Offsets and lengths are exact.*)
(* A long has 32 bits, as in the only ABI that is built; LONG_MAX, UINT    *)
(* and USHORT are constants so that small instances reach them.  One call  *)
(* runs at a time.  The key is well formed, with 32 digits, or malformed.  *)
(***************************************************************************)
EXTENDS Integers

CONSTANTS
  Path,             \* file names
  EncName, DecName, \* the name with ".enc", with ".dec" behind it
  Call,             \* the calls that are made: operation, input, output (or NULL)
  Document,         \* archive id, document id (jlong) and app id (jint) of a document
  None,             \* no file, no tail, no output name
  LONG_MAX,         \* 2^31 - 1
  UINT,             \* 2^32, the range of an unsigned int
  USHORT,           \* 2^16, the range of an unsigned short
  Cuts,             \* what a write that fails may have written of a longer buffer
  Sizes, Origin,    \* sizes of the document at the start, and its path
  MaxCuts,          \* bound on the writes that fail
  MaxCalls,         \* bound on the calls
  MaxDeaths         \* bound on the deaths of the process

BLOCK == 16
FULL_TAIL_LENGTH == 512
DATA_GROUP_LENGTH == 512
CRYPT_GROUP_SIZE == 4096

Operation == {"encrypt", "decrypt"}
Request == [op : Operation, in : Path, out : Path \cup {None}]
Given == [uid1 : Nat, uid2 : Nat, app : Nat]
Ids == [uid1 : 0..(UINT - 1), uid2 : 0..(UINT - 1), app : 0..(USHORT - 1)]
Tail == [fileSize : -1..LONG_MAX, ids : Ids]
File == [len : Nat, good : Nat, of : Nat, tail : Tail \cup {None}]

ASSUME ContainerAssumption ==
  /\ Origin \in Path /\ None \notin Path \cup Tail \cup File
  /\ EncName \in [Path -> Path] /\ DecName \in [Path -> Path]
  /\ \A p \in Path : EncName[p] # p /\ DecName[p] # p
  /\ Call \subseteq Request /\ Document \subseteq Given
  /\ LONG_MAX \in Nat /\ UINT \in Nat \ {0} /\ USHORT \in Nat \ {0}
  /\ Cuts \subseteq Nat /\ Sizes \subseteq Nat
  /\ MaxCuts \in Nat /\ MaxCalls \in Nat /\ MaxDeaths \in Nat

VARIABLES
  file,               \* the files of the device
  pc, call, given,    \* where the call is, what it was given, and the ids of it
  filesize,           \* what ftell said of the input
  realfilelen,        \* the length in the tail of the input
  rfilelen, wfilelen, \* the counts of bytes read and written
  ret,                \* what the last call returned, 0 or 1
  cuts, calls, deaths \* how many writes failed, calls were made, processes died

locals == <<filesize, realfilelen, rfilelen, wfilelen>>
vars == <<file, pc, call, given, locals, ret, cuts, calls, deaths>>

Place == {"idle", "encrypting", "decrypting", "removing", "renaming"}

Whole(n) == [len |-> n, good |-> n, of |-> n, tail |-> None]
Empty(n) == [len |-> 0, good |-> 0, of |-> n, tail |-> None]

Init ==
  /\ \E n \in Sizes : file = [p \in Path |-> IF p = Origin THEN Whole(n) ELSE None]
  /\ pc = "idle"
  /\ call = [op |-> "encrypt", in |-> Origin, out |-> None]
  /\ given = [uid1 |-> 0, uid2 |-> 0, app |-> 0]
  /\ filesize = 0 /\ realfilelen = 0 /\ rfilelen = 0 /\ wfilelen = 0
  /\ ret = 0 /\ cuts = 0 /\ calls = 0 /\ deaths = 0

-----------------------------------------------------------------------------
Smaller(a, b) == IF a < b THEN a ELSE b

(* n rounded up to a multiple of k.                                         *)
Aligned(n, k) == ((n + k - 1) \div k) * k

(* AES_ECB_Encrypt fills the last block up with zeros.                      *)
EncryptedLength(n) == Aligned(n, BLOCK)

PaddingAlways(n) == DATA_GROUP_LENGTH - (n % DATA_GROUP_LENGTH)   \* slip: a full group of padding

(* The padding behind n encrypted bytes.  (wfilelen may pass LONG_MAX, by   *)
(* one, and wrap: that changes nothing here.)                               *)
Padding(n) == (DATA_GROUP_LENGTH - (n % DATA_GROUP_LENGTH)) % DATA_GROUP_LENGTH

SizeOfWide(f) == f.len   \* slip: the size is taken to fit

(* fseek and ftell: a file beyond the range of a long has no size.          *)
SizeOf(f) == IF f.len > LONG_MAX THEN -1 ELSE f.len

(* IsCipherFile: the last 512 bytes are there and begin with the mark.      *)
IsCipherFile(f) == SizeOf(f) >= FULL_TAIL_LENGTH /\ f.tail # None

NarrowedSwapped(g) ==   \* slip: the two ids change places
  [uid1 |-> g.uid2 % UINT, uid2 |-> g.uid1 % UINT, app |-> g.app % USHORT]

(* The JNI function narrows jlong to unsigned int, jint to unsigned short.  *)
Narrowed(g) == [uid1 |-> g.uid1 % UINT, uid2 |-> g.uid2 % UINT, app |-> g.app % USHORT]

GenerateFileTail == [fileSize |-> filesize, ids |-> Narrowed(given)]

TargetInPlace(c) == IF c.out # None THEN c.out ELSE c.in   \* slip: no file of its own

(* The file that is written: outfilename, or a name made from infilename.   *)
TargetOf(c) ==
  IF c.out # None THEN c.out
  ELSE IF c.op = "encrypt" THEN EncName[c.in] ELSE DecName[c.in]

Target == TargetOf(call)

(* How much of a buffer of n bytes fwrite writes.                           *)
Written(n) == {n} \cup {k \in Cuts : k < n /\ cuts < MaxCuts}

(* w bytes appended to f, the first g of which are right where they stand.  *)
Extended(f, w, g) ==
  [f EXCEPT !.len = @ + w, !.good = IF f.good = f.len THEN @ + g ELSE @]

(* The local variables go out of use.                                       *)
Forget == filesize' = 0 /\ realfilelen' = 0 /\ rfilelen' = 0 /\ wfilelen' = 0

Return(r) == pc' = "idle" /\ ret' = r

(* The files are closed; without an output name the input is to be replaced.*)
Close ==
  /\ IF call.out = None THEN pc' = "removing" /\ UNCHANGED ret ELSE Return(1)
  /\ Forget

-----------------------------------------------------------------------------
(* The call is refused before anything is written: a malformed key, no      *)
(* input, an input that is a ciphertext already, or is none, no output.     *)
Refuse(c) ==
  /\ pc = "idle" /\ calls < MaxCalls
  /\ calls' = calls + 1
  /\ call' = c
  /\ Return(0)
  /\ UNCHANGED <<file, given, locals, cuts, deaths>>

(* The input is measured, and the output made or truncated.                 *)
Open(c) ==
  /\ pc = "idle" /\ calls < MaxCalls
  /\ calls' = calls + 1
  /\ call' = c
  /\ file[c.in] # None
  /\ filesize' = SizeOf(file[c.in])
  /\ rfilelen' = 0 /\ wfilelen' = 0
  /\ ret' = 0
  /\ UNCHANGED <<cuts, deaths>>

StartEncrypt(c) ==
  /\ c.op = "encrypt"
  /\ Open(c)
  /\ ~ IsCipherFile(file[c.in])
  /\ file' = [file EXCEPT ![TargetOf(c)] = Empty(file[c.in].len)]
  /\ given' \in Document
  /\ pc' = "encrypting"
  /\ UNCHANGED realfilelen

StartDecrypt(c) ==
  /\ c.op = "decrypt"
  /\ Open(c)
  /\ IsCipherFile(file[c.in])
  /\ file' = [file EXCEPT ![TargetOf(c)] = Empty(file[c.in].of)]
  /\ realfilelen' = file[c.in].tail.fileSize
  /\ pc' = "decrypting"
  /\ UNCHANGED given

(* One turn of the loop of SD_EncryptFile.  Nothing is read where the input *)
(* is the file that was truncated: the loop then turns for ever.            *)
EncryptGroup ==
  /\ pc = "encrypting" /\ rfilelen < filesize
  /\ LET rlen == Smaller(CRYPT_GROUP_SIZE, file[call.in].len - rfilelen)
         datalen == EncryptedLength(rlen)
     IN /\ \E w \in Written(datalen) :
             /\ file' = [file EXCEPT ![Target] =
                           Extended(@, w, IF wfilelen = rfilelen THEN w ELSE 0)]
             /\ wfilelen' = wfilelen + w
             /\ cuts' = IF w < datalen THEN cuts + 1 ELSE cuts
        /\ rfilelen' = rfilelen + rlen
  /\ UNCHANGED <<pc, call, given, filesize, realfilelen, ret, calls, deaths>>

(* p bytes of padding and t of the tail behind f: a tail that is cut is none.*)
Sealed(f, p, t) ==
  [f EXCEPT !.len = @ + p + t,
            !.tail = IF t = FULL_TAIL_LENGTH THEN GenerateFileTail ELSE None]

(* Padding and tail are written, and the file is closed.                    *)
Seal ==
  /\ pc = "encrypting" /\ rfilelen >= filesize
  /\ \E p \in Written(Padding(wfilelen)), t \in Written(FULL_TAIL_LENGTH) :
       /\ file' = [file EXCEPT ![Target] = Sealed(@, p, t)]
       /\ cuts' = IF p < Padding(wfilelen) \/ t < FULL_TAIL_LENGTH THEN cuts + 1 ELSE cuts
  /\ Close
  /\ UNCHANGED <<call, given, calls, deaths>>

-----------------------------------------------------------------------------
(* What the loop of SD_DecryptFile asks fread for: a group, or what is left *)
(* before the tail.                                                         *)
Wanted ==
  IF rfilelen + CRYPT_GROUP_SIZE >= filesize
  THEN filesize - rfilelen - FULL_TAIL_LENGTH
  ELSE CRYPT_GROUP_SIZE

ReadLength == Smaller(Wanted, file[call.in].len - rfilelen)

MoreUntilTail == rfilelen <= filesize - FULL_TAIL_LENGTH   \* slip: < is <=

(* The condition of the loop of SD_DecryptFile.                             *)
MoreToDecrypt == rfilelen < filesize - FULL_TAIL_LENGTH

WholeGroup(n) == n   \* slip: the last group is written with the zeros that fill it up

(* What is written of n decrypted bytes: no more than the document has.     *)
Trimmed(n) == IF wfilelen + n >= realfilelen THEN realfilelen - wfilelen ELSE n

(* One turn of the loop.  The bytes that come out right are those of whole  *)
(* blocks that were right, at the offset they belong to.                    *)
DecryptGroup ==
  /\ pc = "decrypting" /\ MoreToDecrypt
  /\ ReadLength % BLOCK = 0
  /\ LET rlen == ReadLength
         datalen == IF rlen = 0 THEN 0 ELSE Trimmed(rlen)
         right == (file[call.in].good \div BLOCK) * BLOCK - rfilelen
     IN /\ \E w \in Written(datalen) :
             /\ file' = [file EXCEPT ![Target] =
                           Extended(@, w, IF wfilelen = rfilelen /\ right > 0
                                          THEN Smaller(w, right) ELSE 0)]
             /\ wfilelen' = wfilelen + w
             /\ cuts' = IF w < datalen THEN cuts + 1 ELSE cuts
        /\ rfilelen' = rfilelen + rlen
  /\ UNCHANGED <<pc, call, given, filesize, realfilelen, ret, calls, deaths>>

(* AES_ECB_Decrypt refuses what is not made of blocks: the output goes.     *)
DecryptFails ==
  /\ pc = "decrypting" /\ MoreToDecrypt
  /\ ReadLength % BLOCK # 0
  /\ file' = [file EXCEPT ![Target] = None]
  /\ Return(0)
  /\ Forget
  /\ UNCHANGED <<call, given, cuts, calls, deaths>>

DecryptDone ==
  /\ pc = "decrypting" /\ ~ MoreToDecrypt
  /\ Close
  /\ UNCHANGED <<file, call, given, cuts, calls, deaths>>

-----------------------------------------------------------------------------
(* Without an output name the input is removed, or else the output ...      *)
RemoveInput ==
  /\ pc = "removing"
  /\ \/ /\ file' = [file EXCEPT ![call.in] = None]
        /\ pc' = "renaming"
        /\ UNCHANGED ret
     \/ /\ file' = [file EXCEPT ![Target] = None]
        /\ Return(0)
  /\ UNCHANGED <<call, given, locals, cuts, calls, deaths>>

(* ... and the output takes its name, or keeps its own.                     *)
RenameOutput ==
  /\ pc = "renaming"
  /\ \/ /\ file' = [file EXCEPT ![call.in] = file[Target], ![Target] = None]
        /\ Return(1)
     \/ /\ UNCHANGED file
        /\ Return(0)
  /\ UNCHANGED <<call, given, locals, cuts, calls, deaths>>

(* Of the file that is open for writing, what was flushed is left.          *)
Flushed(f, n) ==
  IF n = f.len THEN f
  ELSE [f EXCEPT !.len = n, !.good = Smaller(n, f.good), !.tail = None]

ProcessDeath ==
  /\ pc # "idle" /\ deaths < MaxDeaths
  /\ deaths' = deaths + 1
  /\ \/ /\ pc \in {"encrypting", "decrypting"}
        /\ \E n \in {file[Target].len} \cup {k \in Cuts : k < file[Target].len} :
             file' = [file EXCEPT ![Target] = Flushed(@, n)]
     \/ /\ pc \in {"removing", "renaming"}
        /\ UNCHANGED file
  /\ Return(0)
  /\ Forget
  /\ UNCHANGED <<call, given, cuts, calls>>

Work ==
  \/ EncryptGroup \/ Seal \/ DecryptGroup \/ DecryptFails \/ DecryptDone
  \/ RemoveInput \/ RenameOutput

Next ==
  \/ \E c \in Call : Refuse(c) \/ StartEncrypt(c) \/ StartDecrypt(c)
  \/ Work
  \/ ProcessDeath

(* The thread of a call runs.                                               *)
Spec == Init /\ [][Next]_vars /\ WF_vars(Work)

-----------------------------------------------------------------------------
TypeOK ==
  /\ file \in [Path -> File \cup {None}]
  /\ pc \in Place /\ call \in Request /\ given \in Given
  /\ filesize \in -1..LONG_MAX /\ realfilelen \in -1..LONG_MAX
  /\ rfilelen \in Nat /\ wfilelen \in Nat
  /\ ret \in {0, 1} /\ cuts \in 0..MaxCuts
  /\ calls \in 0..MaxCalls /\ deaths \in 0..MaxDeaths

(* What is taken for a ciphertext holds all of a document that has a size:  *)
(* whatever was interrupted, the mark is only ever behind the last block,   *)
(* after padding to 512 bytes, and names the document's length -- unless a  *)
(* write failed, which nobody looks at.                                     *)
CiphertextComplete ==
  \A p \in Path :
    cuts = 0 /\ file[p] # None /\ file[p].tail # None /\ file[p].of <= LONG_MAX =>
      /\ file[p].good >= file[p].of
      /\ file[p].len = Aligned(file[p].of, DATA_GROUP_LENGTH) + FULL_TAIL_LENGTH
      /\ file[p].tail.fileSize = file[p].of

(* The file a call that succeeded has made.                                 *)
Made == IF call.out = None THEN call.in ELSE call.out
Succeeded(o) == pc = "idle" /\ ret = 1 /\ call.op = o

(* Decryption restores the document byte for byte: the group boundary, the  *)
(* filled last block, the padding and the trimming cancel out for every     *)
(* size -- unless a write failed.                                           *)
RoundTrip ==
  Succeeded("decrypt") /\ cuts = 0 /\ file[Made].of <= LONG_MAX =>
    file[Made] = Whole(file[Made].of)

(* What was encrypted is recognised, with the ids it was given if they fit  *)
(* the tail, and if its size leaves the ciphertext one that a long can say  *)
(* -- unless a write failed.                                                *)
Recognised ==
  Succeeded("encrypt") /\ cuts = 0 /\ file[Made].of <= LONG_MAX - 2 * FULL_TAIL_LENGTH =>
    /\ IsCipherFile(file[Made])
    /\ given \in Ids => file[Made].tail.ids = given

(* f holds, in plain or encrypted, a document that can be read again.       *)
Holds(f) ==
  \/ f = Whole(f.of)
  \/ IsCipherFile(f) /\ f.good >= f.of /\ f.tail.fileSize = f.of

(* No call has the file it reads for its output, and no file that is         *)
(* encrypted has the name of an output.                                     *)
SourcesApart ==
  \A c, d \in Call : /\ c.out # c.in
                     /\ d.op = "encrypt" => d.in \notin {c.out, EncName[c.in], DecName[c.in]}

(* Neither a death of the process nor a call that fails, not even one that  *)
(* replaces its input, loses the last copy of a document of such a size --  *)
(* unless a write failed, or the host writes outputs over what it encrypts. *)
DocumentSurvives ==
  /\ SourcesApart /\ cuts = 0
  /\ \A p \in Path : file[p] # None => file[p].of <= LONG_MAX - 2 * FULL_TAIL_LENGTH
  => \E p \in Path : file[p] # None /\ Holds(file[p])

(* Every call returns.                                                      *)
CallsEnd == pc # "idle" ~> pc = "idle"
=============================================================================
