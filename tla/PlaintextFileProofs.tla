--------------------------- MODULE PlaintextFileProofs --------------------------
(***************************************************************************)
(* Proofs about PlaintextFile, for any number of requests, documents and   *)
(* names, and any assignment of viewers to them.                           *)
(*                                                                         *)
(* PlaintextRemoved follows from an invariant that names who will delete   *)
(* each file: a request that has yet to start its viewer or that goes on    *)
(* for ever, or a viewer of a type that deletes.  ShowsItsDocument needs what undisturbed slots find  *)
(* in their file, and that two slots that share a name are disturbed.      *)
(***************************************************************************)
EXTENDS PlaintextFile, OpenFileProofs

(* Who is to delete a file, or to hand it over.                             *)
Owns(r, p) ==
  \/ file[r] = p /\ p \in Deleting
  \/ pc[r] = "told" /\ result[r] = "E_OK" /\ path[r] = p
  \/ pc[r] = "looping" /\ path[r] = p
Owned ==
  \A p \in Plain : content[p] # None => p \in left \/ \E r \in Request : Owns(r, p)

(* A viewer has the name its path is shown under.                           *)
Slots == \A r \in Request : file[r] # None => file[r] = Renamed[path[r]]
VInv == PlaintextTypeOK /\ Slots

(* What undisturbed slots find.                                             *)
SharingIsDisturbed ==
  \A r \in Request : path[r] # None /\ r \notin disturbed => Sharing(r, path[r]) = {}
FindsItsDocument ==
  \A r \in Request : r \notin disturbed =>
    /\ pc[r] = "told" /\ result[r] = "E_OK" => content[path[r]] = doc[r]
    /\ file[r] # None =>
         \/ content[file[r]] = source[r]
         \/ content[file[r]] = None /\ r \in recreated
SInv == ShowsItsDocument /\ SharingIsDisturbed /\ FindsItsDocument

-----------------------------------------------------------------------------
(* The composition moves requests as OpenFile does.                         *)
LEMMA StepsOfOpenFile ==
  ASSUME [PlaintextNext]_<<vars, pvars>>
  PROVE  [Next]_vars
<1>1. ASSUME NEW r \in Request, RequestWork(r)
      PROVE  Work(r)
  <2>1. CASE Quiet(r)
    <3>1. DecryptInPlace(r) => pc[r] = "noPath"
      BY DEF DecryptInPlace, Goes, Tell
    <3> QED
      BY <2>1, <3>1 DEF Quiet, Work, DecryptNoPath
  <2>2. CASE DecideAndWrite(r) \/ LoopAndWrite(r)
    BY <2>2 DEF DecideAndWrite, LoopAndWrite, Work
  <2>3. CASE CallBack(r)
    BY <2>3 DEF CallBack, Work, Handle
  <2>4. CASE OpenAttachment(r)
    BY <2>4 DEF OpenAttachment, Work, Handle
  <2>5. CASE Throws(r)
    BY <2>5 DEF Throws, Work, Handle, DecryptNoPath
  <2> QED
    BY <1>1, <2>1, <2>2, <2>3, <2>4, <2>5 DEF RequestWork
<1>2. \A r \in Request, d \in Doc, open \in BOOLEAN, p \in Plain :
        SubmitTo(r, d, open, p) => \E same \in BOOLEAN : Submit(r, d, open, same)
  BY DEF SubmitTo
<1> QED
  BY <1>1, <1>2 DEF PlaintextNext, Next

-----------------------------------------------------------------------------
LEMMA InitVInv == PlaintextInit => VInv
BY PlaintextAssumption, OpenFileAssumption
   DEF PlaintextInit, Init, VInv, PlaintextTypeOK, Slots

(* A finished request has its slot to itself, and the others theirs.        *)
LEMMA FinishPlaces ==
  ASSUME TInv, NEW r \in Request, NEW from \in Place, Finish(r, from)
  PROVE  pc' = [pc EXCEPT ![r] = "idle"] /\ pc[r] = from
BY DEF Finish, Goes

LEMMA RequestVInv ==
  ASSUME TInv, VInv, NEW r \in Request,
         \/ \E d \in Doc, open \in BOOLEAN, p \in Plain : SubmitTo(r, d, open, p)
         \/ Quiet(r) \/ DecideAndWrite(r) \/ LoopAndWrite(r) \/ CallBack(r)
         \/ OpenAttachment(r)
  PROVE  VInv'
<1> USE PlaintextAssumption, OpenFileAssumption DEF VInv, PlaintextTypeOK, Slots, viewers
<1>0. /\ pc \in [Request -> Place] /\ doc \in [Request -> Doc \cup {None}]
      /\ \A s \in Request : pc[s] # "idle" => doc[s] \in Doc /\ path[s] \in Plain
  BY DEF TInv, TypeOK
<1>1. CASE \E d \in Doc, open \in BOOLEAN, p \in Plain : SubmitTo(r, d, open, p)
  <2>1. PICK d \in Doc, open \in BOOLEAN, p \in Plain : SubmitTo(r, d, open, p)
    BY <1>1
  <2>2. pc' = [pc EXCEPT ![r] = "submitted"] /\ pc[r] = "idle" /\ file[r] = None
    BY <2>1 DEF SubmitTo, Submit, Goes
  <2>3. /\ path' = [path EXCEPT ![r] = p] /\ UNCHANGED <<content, file, source, shows, left>>
        /\ disturbed' \subseteq Request /\ recreated' \subseteq Request
        /\ submits' \in 0..MaxSubmits
    BY <2>1 DEF SubmitTo, Sharing
  <2> QED
    BY <1>0, <2>2, <2>3
<1>2. CASE Quiet(r)
  <2>1. UNCHANGED pvars
    BY <1>2 DEF Quiet
  <2>2. \A s \in Request : pc'[s] = "idle" <=> pc[s] = "idle"
    BY <1>0, <1>2
       DEF Quiet, Inspect, Granted, NotGranted, SelectRow, WriteRow, UseCache, GetKeyByDB,
           Truncate, DecryptInPlace, Goes, Tell
  <2> QED
    BY <2>1, <2>2 DEF pvars
<1>3. CASE DecideAndWrite(r)
  <2>1. pc[r] \in {"deciding", "noPath"} /\ pc' = [pc EXCEPT ![r] = "told"]
    BY <1>3 DEF DecideAndWrite, Decide, Choosing, Tell, Goes
  <2>2. content' \in [Plain -> Doc \cup {None}] /\ left' \subseteq Plain
    BY <1>0, <1>3, <2>1 DEF DecideAndWrite
  <2>3. UNCHANGED <<path, file, source, shows, disturbed, recreated, submits>>
    BY <1>3 DEF DecideAndWrite
  <2> QED
    BY <1>0, <2>1, <2>2, <2>3
<1>4. CASE CallBack(r)
  <2>1. pc' = [pc EXCEPT ![r] = "idle"] /\ pc[r] # "idle"
    BY <1>4 DEF CallBack, Finish, Goes
  <2> QED
    BY <1>0, <1>4, <2>1 DEF CallBack
<1>5. CASE OpenAttachment(r)
  <2>1. pc' = [pc EXCEPT ![r] = "idle"] /\ pc[r] = "told"
    BY <1>5 DEF OpenAttachment, Finish, Goes
  <2>2. ShownAs(path[r]) = Renamed[path[r]] /\ ShownAs(path[r]) \in Plain
    BY <1>0, <2>1 DEF ShownAs
  <2>3. /\ content' \in [Plain -> Doc \cup {None}] /\ left' \subseteq Plain
        /\ disturbed' \subseteq Request
    BY <1>0, <1>5, <2>1 DEF OpenAttachment, Names
  <2>4. /\ file' = [file EXCEPT ![r] = ShownAs(path[r])]
        /\ source' = [source EXCEPT ![r] = doc[r]] /\ shows' = [shows EXCEPT ![r] = LOADING]
        /\ UNCHANGED <<path, recreated, submits>>
    BY <1>5 DEF OpenAttachment
  <2> QED
    BY <1>0, <2>1, <2>2, <2>3, <2>4
<1>6. CASE LoopAndWrite(r)
  <2>1. pc[r] \in Choosing /\ pc' = [pc EXCEPT ![r] = "looping"]
    BY <1>6 DEF LoopAndWrite, LoopForEver, Goes
  <2>2. content' \in [Plain -> Doc \cup {None}] /\ left' \subseteq Plain
    BY <1>0, <1>6, <2>1 DEF LoopAndWrite, Choosing
  <2>3. UNCHANGED <<path, file, source, shows, disturbed, recreated, submits>>
    BY <1>6 DEF LoopAndWrite
  <2> QED
    BY <1>0, <2>1, <2>2, <2>3 DEF Choosing
<1> QED
  BY <1>1, <1>2, <1>3, <1>4, <1>5, <1>6

LEMMA ViewerVInv ==
  ASSUME VInv, NEW r \in Request, Leave(r) \/ Load(r) \/ Recreate(r), UNCHANGED vars
  PROVE  VInv'
<1> USE PlaintextAssumption DEF VInv, PlaintextTypeOK, Slots, vars
<1>1. CASE Leave(r)
  BY <1>1 DEF Leave, Deleted, LeftBy, NoViewer
<1>2. CASE Load(r)
  BY <1>2 DEF Load
<1>3. CASE Recreate(r)
  BY <1>3 DEF Recreate, Deleted, LeftBy
<1> QED
  BY <1>1, <1>2, <1>3

(* What a decryption that is cut off leaves is a document's.                *)
LEMMA LostVInv ==
  ASSUME TInv, VInv, Restart, ViewersLost
  PROVE  VInv'
<1>1. PICK cut \in SUBSET {r \in Request : Writing(r)} :
        content' = [p \in Plain |->
          IF \E r \in cut : path[r] = p
          THEN doc[CHOOSE r \in cut : path[r] = p] ELSE content[p]]
  BY DEF ViewersLost
<1>2. \A r \in cut : doc[r] \in Doc
  BY DEF Writing, TInv, TypeOK
<1>3. content' \in [Plain -> Doc \cup {None}]
  BY <1>1, <1>2 DEF VInv, PlaintextTypeOK
<1> QED
  BY <1>3 DEF ViewersLost, Restart, VInv, PlaintextTypeOK, Slots

LEMMA StepVInv == TInv /\ VInv /\ [PlaintextNext]_<<vars, pvars>> => VInv'
<1> SUFFICES ASSUME TInv, VInv, [PlaintextNext]_<<vars, pvars>>
             PROVE  VInv'
  OBVIOUS
<1>1. CASE Restart /\ ViewersLost
  BY <1>1, LostVInv
<1>2. CASE \E u \in User : Config(u) /\ UNCHANGED pvars
  BY <1>2 DEF Config, VInv, PlaintextTypeOK, Slots, pvars, viewers
<1>3. CASE UNCHANGED <<vars, pvars>>
  BY <1>3 DEF VInv, PlaintextTypeOK, Slots, vars, pvars, viewers
<1> QED
  BY <1>1, <1>2, <1>3, RequestVInv, ViewerVInv
     DEF PlaintextNext, RequestWork, Throws, ProcessDeath

(* The files and the viewers are well typed, and so is what has a slot.     *)
THEOREM PlaintextTypes == PlaintextSpec => []PlaintextTypeOK
<1>1. VInv => PlaintextTypeOK
  BY DEF VInv
<1>2. PlaintextInit => TInv
  BY InitTInv DEF PlaintextInit
<1>3. TInv /\ [PlaintextNext]_<<vars, pvars>> => TInv'
  BY StepsOfOpenFile, StepTInv
<1> QED
  BY InitVInv, StepVInv, <1>1, <1>2, <1>3, PTL DEF PlaintextSpec

-----------------------------------------------------------------------------
(* Somebody is to delete each file.                                         *)

LEMMA InitOwned == PlaintextInit => Owned
BY DEF PlaintextInit, Owned

(* What does not touch the files nor an owner leaves them owned.            *)
LEMMA OwnersStay ==
  ASSUME Owned, UNCHANGED content, left \subseteq left',
         \A r \in Request, p \in Plain : Owns(r, p) => Owns(r, p)' \/ p \in left'
  PROVE  Owned'
BY DEF Owned

LEMMA RequestOwned ==
  ASSUME TInv, VInv, Owned, NEW r \in Request,
         \/ \E d \in Doc, open \in BOOLEAN, p \in Plain : SubmitTo(r, d, open, p)
         \/ Quiet(r) \/ DecideAndWrite(r) \/ LoopAndWrite(r) \/ CallBack(r)
         \/ OpenAttachment(r)
  PROVE  Owned'
<1> USE PlaintextAssumption, OpenFileAssumption DEF viewers
<1>0. /\ pc \in [Request -> Place] /\ result \in [Request -> Code \cup {None}]
      /\ path \in [Request -> Plain \cup {None}] /\ file \in [Request -> Plain \cup {None}]
      /\ content \in [Plain -> Doc \cup {None}]
      /\ \A s \in Request : pc[s] # "idle" => path[s] \in Plain /\ file[s] = None
  BY DEF TInv, TypeOK, VInv, PlaintextTypeOK
<1>1. CASE \E d \in Doc, open \in BOOLEAN, p \in Plain : SubmitTo(r, d, open, p)
  <2>1. /\ UNCHANGED <<content, left, file, result>> /\ pc' = [pc EXCEPT ![r] = "submitted"]
        /\ pc[r] = "idle" /\ \A s \in Request \ {r} : path'[s] = path[s]
    BY <1>0, <1>1 DEF SubmitTo, Submit, Goes
  <2> QED
    BY <1>0, <2>1, OwnersStay DEF Owns
<1>2. CASE Quiet(r)
  <2>1. UNCHANGED pvars
    BY <1>2 DEF Quiet
  <2>2. \A s \in Request : pc[s] \in {"told", "looping"} => pc'[s] = pc[s] /\ result'[s] = result[s]
    BY <1>0, <1>2
       DEF Quiet, Inspect, Granted, NotGranted, SelectRow, WriteRow, UseCache, GetKeyByDB,
           Truncate, DecryptInPlace, Goes, Tell
  <2> QED
    BY <2>1, <2>2, OwnersStay DEF pvars, Owns
<1>3. CASE DecideAndWrite(r)
  <2>1. /\ pc[r] \in {"deciding", "noPath"} /\ pc' = [pc EXCEPT ![r] = "told"]
        /\ \A s \in Request \ {r} : result'[s] = result[s]
        /\ UNCHANGED <<path, file>>
    BY <1>0, <1>3 DEF DecideAndWrite, Decide, Choosing, Tell, Goes
  <2>2. \A s \in Request, p \in Plain : Owns(s, p) => Owns(s, p)'
    BY <1>0, <2>1 DEF Owns
  <2>3. CASE result'[r] = "E_OK"
    <3>1. /\ content' \in {content, [content EXCEPT ![path[r]] = doc[r]]}
          /\ left' \in {left, left \ {path[r]}}
      BY <1>3, <2>3 DEF DecideAndWrite, Code
    <3>2. Owns(r, path[r])'
      BY <1>0, <2>1, <2>3 DEF Owns
    <3> QED
      BY <1>0, <2>1, <2>2, <3>1, <3>2 DEF Owned
  <2>4. CASE result'[r] # "E_OK"
    <3>1. \/ UNCHANGED <<content, left>>
          \/ content' = [content EXCEPT ![path[r]] = None] /\ left' = left \ {path[r]}
      BY <1>3, <2>4 DEF DecideAndWrite
    <3> QED
      BY <1>0, <2>1, <2>2, <3>1 DEF Owned
  <2> QED
    BY <2>3, <2>4
<1>4. CASE CallBack(r)
  <2>1. /\ UNCHANGED <<content, file>>
        /\ \A s \in Request \ {r} : pc'[s] = pc[s] /\ result'[s] = result[s] /\ path'[s] = path[s]
        /\ pc[r] = "told" /\ result[r] = "E_OK" => path[r] \in left'
        /\ left \subseteq left'
    BY <1>0, <1>4 DEF CallBack, Finish, Goes
  <2> QED
    BY <1>0, <1>4, <2>1, OwnersStay DEF Owns, CallBack, Finish, Goes
<1>5. CASE OpenAttachment(r)
  <2> DEFINE p == path[r]
  <2>1. /\ pc[r] = "told" /\ p \in Plain /\ file[r] = None /\ UNCHANGED path
        /\ file' = [file EXCEPT ![r] = Renamed[p]]
        /\ \A s \in Request \ {r} : pc'[s] = pc[s] /\ result'[s] = result[s]
    BY <1>0, <1>5 DEF OpenAttachment, Finish, Goes, ShownAs
  <2>2. \A s \in Request, q \in Plain : Owns(s, q) => Owns(s, q)' \/ (s = r /\ q = p)
    BY <1>0, <2>1 DEF Owns
  <2>3. Renamed[p] \in Deleting => Owns(r, Renamed[p])'
    BY <1>0, <2>1 DEF Owns
  <2>4. CASE p = Renamed[p]
    <3>1. UNCHANGED content /\ left' = IF p \in Deleting THEN left ELSE left \cup {p}
      BY <1>5, <2>4 DEF OpenAttachment
    <3>2. left \subseteq left' /\ (p \notin Deleting => p \in left')
      BY <3>1
    <3>3. ASSUME NEW s \in Request, NEW q \in Plain, Owns(s, q)
          PROVE  Owns(s, q)' \/ q \in left'
      <4>1. CASE s = r /\ q = p
        BY <1>0, <2>1, <2>4, <3>2, <4>1 DEF Owns
      <4>2. CASE ~ (s = r /\ q = p)
        BY <2>2, <3>3, <4>2
      <4> QED
        BY <4>1, <4>2
    <3> HIDE DEF p
    <3> QED
      BY <3>1, <3>2, <3>3, OwnersStay
  <2>5. CASE p # Renamed[p]
    <3>1. Renamed[p] \in Deleting /\ Renamed[p] \in Plain
      BY <2>1, <2>5
    <3>2. CASE /\ content' = [content EXCEPT ![Renamed[p]] = content[p], ![p] = None]
               /\ left' = left \ Names(p)
      <4>1. \A q \in Plain \ Names(p) : content'[q] = content[q] /\ (q \in left => q \in left')
        BY <1>0, <3>2 DEF Names
      <4>2. content'[p] = None
        BY <1>0, <2>1, <2>5, <3>1, <3>2
      <4> QED
        BY <1>0, <2>1, <2>2, <2>3, <3>1, <4>1, <4>2 DEF Owned, Names
    <3>3. CASE /\ UNCHANGED content
               /\ left' = IF content[p] = None THEN left ELSE left \cup {p}
      BY <1>0, <2>2, <3>3 DEF Owned
    <3> QED
      BY <1>5, <2>5, <3>2, <3>3 DEF OpenAttachment
  <2> QED
    BY <2>4, <2>5
<1>6. CASE LoopAndWrite(r)
  <2>1. /\ pc[r] \in Choosing /\ pc' = [pc EXCEPT ![r] = "looping"]
        /\ UNCHANGED <<path, file, result>>
    BY <1>6 DEF LoopAndWrite, LoopForEver, Goes, viewers
  <2>2. \A s \in Request, p \in Plain : Owns(s, p) => Owns(s, p)'
    BY <1>0, <2>1 DEF Owns, Choosing
  <2>3. Owns(r, path[r])'
    BY <1>0, <2>1 DEF Owns
  <2>4. \A p \in Plain \ {path[r]} : content'[p] = content[p] /\ (p \in left => p \in left')
    BY <1>0, <1>6, <2>1 DEF LoopAndWrite, Choosing
  <2> QED
    BY <2>1, <2>2, <2>3, <2>4 DEF Owned
<1> QED
  BY <1>1, <1>2, <1>3, <1>4, <1>5, <1>6

LEMMA ViewerOwned ==
  ASSUME VInv, Owned, NEW r \in Request, Leave(r) \/ Load(r) \/ Recreate(r), UNCHANGED vars
  PROVE  Owned'
<1>0. /\ path \in [Request -> Plain \cup {None}] /\ file \in [Request -> Plain \cup {None}]
      /\ content \in [Plain -> Doc \cup {None}]
  BY DEF VInv, PlaintextTypeOK
<1>1. CASE Load(r)
  BY <1>1, OwnersStay DEF Load, Owns, vars
<1>2. CASE Leave(r) \/ Recreate(r)
  <2>1. file[r] # None /\ content' = Deleted(r) /\ left' = LeftBy(r)
    BY <1>2 DEF Leave, Recreate
  <2>2. /\ pc' = pc /\ result' = result
        /\ \A s \in Request \ {r} : path'[s] = path[s] /\ file'[s] = file[s]
    BY <1>0, <1>2 DEF Leave, Recreate, NoViewer, vars
  <2>3. pc[r] = "idle"
    BY <2>1 DEF VInv, PlaintextTypeOK
  <2>4. \A s \in Request, p \in Plain : Owns(s, p) => Owns(s, p)' \/ content'[p] = None
    BY <1>0, <2>1, <2>2, <2>3 DEF Owns, Deleted
  <2>5. \A p \in Plain : content'[p] # None =>
          content'[p] = content[p] /\ (p \in left => p \in left')
    BY <1>0, <2>1 DEF Deleted, LeftBy
  <2> QED
    BY <2>4, <2>5 DEF Owned
<1> QED
  BY <1>1, <1>2

LEMMA StepOwned == TInv /\ VInv /\ Owned /\ [PlaintextNext]_<<vars, pvars>> => Owned'
<1> SUFFICES ASSUME TInv, VInv, Owned, [PlaintextNext]_<<vars, pvars>>
             PROVE  Owned'
  OBVIOUS
<1>1. CASE Restart /\ ViewersLost
  BY <1>1 DEF ViewersLost, Owned
<1>2. CASE (\E u \in User : Config(u) /\ UNCHANGED pvars) \/ UNCHANGED <<vars, pvars>>
  <2>1. UNCHANGED <<content, left, file, path, pc, result>>
    BY <1>2 DEF Config, vars, pvars, viewers
  <2> QED
    BY <2>1, OwnersStay DEF Owns
<1> QED
  BY <1>1, <1>2, RequestOwned, ViewerOwned
     DEF PlaintextNext, RequestWork, Throws, ProcessDeath

(* No plaintext outlives the request and the viewer that it was made for,   *)
(* short of the ways "left" records.                                        *)
THEOREM PlaintextIsRemoved == PlaintextSpec => []PlaintextRemoved
<1>1. Owned => PlaintextRemoved
  BY DEF Owned, Owns, PlaintextRemoved
<1>2. PlaintextInit => TInv
  BY InitTInv DEF PlaintextInit
<1>3. TInv /\ [PlaintextNext]_<<vars, pvars>> => TInv'
  BY StepsOfOpenFile, StepTInv
<1> QED
  BY InitVInv, StepVInv, InitOwned, StepOwned, <1>1, <1>2, <1>3, PTL DEF PlaintextSpec
-----------------------------------------------------------------------------
(* Viewers find their document.                                             *)

LEMMA InitSInv == PlaintextInit => SInv
BY DEF PlaintextInit, Init, SInv, ShowsItsDocument, SharingIsDisturbed, FindsItsDocument

(* A slot's own names, and those of others if it is undisturbed.            *)
LEMMA NamesApart ==
  ASSUME VInv, SharingIsDisturbed, NEW r \in Request, NEW s \in Request \ {r},
         s \notin disturbed, path[r] # None, path[s] # None
  PROVE  Names(path[r]) \cap Names(path[s]) = {}
BY DEF SharingIsDisturbed, Sharing

LEMMA NamesOfSlot ==
  ASSUME VInv, NEW s \in Request
  PROVE  /\ pc[s] = "told" => path[s] # None /\ path[s] \in Names(path[s]) /\ path[s] \in Plain
         /\ file[s] # None => path[s] # None /\ file[s] \in Names(path[s]) /\ file[s] \in Plain
BY DEF VInv, Slots, PlaintextTypeOK, Names

(* What changes the names of one slot only does not disturb the others.     *)
LEMMA OthersFind ==
  ASSUME VInv, SharingIsDisturbed, FindsItsDocument, NEW r \in Request, path[r] # None,
         \A p \in Plain \ Names(path[r]) : content'[p] = content[p],
         NEW s \in Request \ {r}, s \notin disturbed,
         UNCHANGED <<path[s], file[s], source[s], doc[s]>>,
         pc'[s] = "told" /\ result'[s] = "E_OK" => pc[s] = "told" /\ result[s] = "E_OK",
         s \in recreated => s \in recreated'
  PROVE  /\ pc'[s] = "told" /\ result'[s] = "E_OK" => content'[path'[s]] = doc'[s]
         /\ file'[s] # None =>
              \/ content'[file'[s]] = source'[s]
              \/ content'[file'[s]] = None /\ s \in recreated'
<1>1. CASE pc'[s] = "told" /\ result'[s] = "E_OK"
  <2>1. content[path[s]] = doc[s] /\ path[s] # None /\ path[s] \in Plain \ Names(path[r])
    BY <1>1, NamesApart, NamesOfSlot DEF FindsItsDocument
  <2>2. content'[path[s]] = content[path[s]]
    BY <2>1
  <2>3. file[s] = None
    BY <1>1 DEF VInv, PlaintextTypeOK
  <2> QED
    BY <2>1, <2>2, <2>3
<1>2. CASE file'[s] # None
  <2>1. path[s] # None /\ file[s] \in Plain \ Names(path[r])
    BY <1>2, NamesApart, NamesOfSlot
  <2>2. content'[file[s]] = content[file[s]]
    BY <2>1
  <2>3. pc[s] # "told"
    BY <1>2 DEF VInv, PlaintextTypeOK
  <2> QED
    BY <1>2, <2>2, <2>3 DEF FindsItsDocument
<1> QED
  BY <1>1, <1>2

(* Slots that are given free, or disturbed, leave the sharing disturbed.    *)
LEMMA SharingStays ==
  ASSUME SharingIsDisturbed, disturbed \subseteq disturbed',
         \A s \in Request : path'[s] # None => path'[s] = path[s]
  PROVE  SharingIsDisturbed'
BY DEF SharingIsDisturbed, Sharing

LEMMA SubmitSInv ==
  ASSUME TInv, VInv, SInv, NEW r \in Request, NEW d \in Doc, NEW open \in BOOLEAN,
         NEW p \in Plain, SubmitTo(r, d, open, p)
  PROVE  SInv'
<1>0. /\ pc \in [Request -> Place] /\ path \in [Request -> Plain \cup {None}]
      /\ doc \in [Request -> Doc \cup {None}]
  BY DEF TInv, TypeOK, VInv, PlaintextTypeOK
<1>1. /\ pc' = [pc EXCEPT ![r] = "submitted"] /\ doc' = [doc EXCEPT ![r] = d]
      /\ path' = [path EXCEPT ![r] = p] /\ file[r] = None
      /\ recreated' = recreated \ {r}
      /\ UNCHANGED <<content, file, source, shows, result>>
  BY DEF SubmitTo, Submit, Goes, viewers
<1>2. \A s \in Request : s \notin disturbed' =>
        /\ Sharing(r, p) # {} => s # r
        /\ s # r => s \notin disturbed /\ s \notin Sharing(r, p)
  BY DEF SubmitTo
<1>3. SharingIsDisturbed'
  <2>1. SUFFICES ASSUME NEW s \in Request, path'[s] # None, s \notin disturbed',
                        NEW q \in Request \ {s}, path'[q] # None,
                        Names(path'[q]) \cap Names(path'[s]) # {}
                 PROVE  FALSE
    BY DEF SharingIsDisturbed, Sharing, Names
  <2>2. CASE s = r
    <3>1. q \in Sharing(r, p)
      BY <1>0, <1>1, <2>1, <2>2 DEF Sharing
    <3> QED
      BY <1>2, <2>1, <2>2, <3>1
  <2>3. CASE s # r /\ q = r
    <3>1. s \in Sharing(r, p)
      BY <1>0, <1>1, <2>1, <2>3 DEF Sharing
    <3> QED
      BY <1>2, <2>1, <2>3, <3>1
  <2>4. CASE s # r /\ q # r
    BY <1>0, <1>1, <1>2, <2>1, <2>4 DEF SInv, SharingIsDisturbed, Sharing
  <2> QED
    BY <2>2, <2>3, <2>4
<1>4. FindsItsDocument'
  BY <1>0, <1>1, <1>2 DEF SInv, FindsItsDocument
<1>5. ShowsItsDocument'
  BY <1>0, <1>1, <1>2 DEF SInv, ShowsItsDocument
<1> QED
  BY <1>3, <1>4, <1>5 DEF SInv

LEMMA RequestSInv ==
  ASSUME TInv, VInv, SInv, NEW r \in Request,
         \/ Quiet(r) \/ DecideAndWrite(r) \/ LoopAndWrite(r) \/ CallBack(r)
         \/ OpenAttachment(r)
  PROVE  SInv'
<1> USE DEF viewers
<1>0. /\ pc \in [Request -> Place] /\ result \in [Request -> Code \cup {None}]
      /\ doc \in [Request -> Doc \cup {None}]
      /\ path \in [Request -> Plain \cup {None}] /\ file \in [Request -> Plain \cup {None}]
      /\ source \in [Request -> Doc \cup {None}]
      /\ shows \in [Request -> Doc \cup {None, LOADING}]
      /\ content \in [Plain -> Doc \cup {None}]
      /\ \A s \in Request : pc[s] # "idle" => path[s] \in Plain /\ file[s] = None
  BY PlaintextAssumption DEF TInv, TypeOK, VInv, PlaintextTypeOK
<1>1. CASE Quiet(r)
  <2>1. UNCHANGED pvars
    BY <1>1 DEF Quiet
  <2>2. /\ UNCHANGED doc
        /\ \A s \in Request : pc'[s] = "told" /\ result'[s] = "E_OK" =>
                                pc[s] = "told" /\ result[s] = "E_OK"
    BY <1>0, <1>1
       DEF Quiet, Inspect, Granted, NotGranted, SelectRow, WriteRow, UseCache, GetKeyByDB,
           Truncate, DecryptInPlace, Goes, Tell
  <2> QED
    BY <2>1, <2>2
       DEF pvars, SInv, ShowsItsDocument, SharingIsDisturbed, Sharing, FindsItsDocument
<1>2. CASE DecideAndWrite(r)
  <2>1. /\ pc[r] # "idle" /\ pc' = [pc EXCEPT ![r] = "told"] /\ UNCHANGED doc
        /\ \A s \in Request \ {r} : result'[s] = result[s]
        /\ UNCHANGED <<path, file, source, shows, disturbed, recreated>>
    BY <1>0, <1>2 DEF DecideAndWrite, Decide, Choosing, Tell, Goes
  <2>2. /\ \A p \in Plain \ Names(path[r]) : content'[p] = content[p]
        /\ result'[r] = "E_OK" => content'[path[r]] = doc[r]
    BY <1>0, <1>2, <2>1 DEF DecideAndWrite, Names, Code
  <2>3. FindsItsDocument'
    <3>1. ASSUME NEW s \in Request \ {r}, s \notin disturbed
          PROVE  /\ pc'[s] = "told" /\ result'[s] = "E_OK" => content'[path'[s]] = doc'[s]
                 /\ file'[s] # None =>
                      \/ content'[file'[s]] = source'[s]
                      \/ content'[file'[s]] = None /\ s \in recreated'
      <4>1. path[r] # None
        BY <1>0, <2>1, PlaintextAssumption
      <4> QED
        BY <1>0, <2>1, <2>2, <3>1, <4>1, OthersFind DEF SInv
    <3> QED
      BY <1>0, <2>1, <2>2, <3>1 DEF FindsItsDocument
  <2> QED
    BY <2>1, <2>3, SharingStays DEF SInv, ShowsItsDocument
<1>3. CASE CallBack(r)
  <2>1. /\ pc' = [pc EXCEPT ![r] = "idle"] /\ path' = [path EXCEPT ![r] = None]
        /\ \A s \in Request \ {r} : result'[s] = result[s] /\ doc'[s] = doc[s]
        /\ file[r] = None
        /\ UNCHANGED <<content, file, source, shows, disturbed, recreated>>
    BY <1>0, <1>3 DEF CallBack, Finish, Goes
  <2>2. FindsItsDocument'
    BY <1>0, <2>1 DEF SInv, FindsItsDocument
  <2>3. SharingIsDisturbed'
    BY <1>0, <2>1, SharingStays DEF SInv
  <2> QED
    BY <2>1, <2>2, <2>3 DEF SInv, ShowsItsDocument
<1>4. CASE OpenAttachment(r)
  <2> DEFINE p == path[r]
  <2>1. /\ pc[r] = "told" /\ result[r] = "E_OK" /\ p \in Plain /\ p # None
        /\ pc' = [pc EXCEPT ![r] = "idle"]
        /\ \A s \in Request \ {r} : result'[s] = result[s] /\ doc'[s] = doc[s]
        /\ file' = [file EXCEPT ![r] = Renamed[p]]
        /\ source' = [source EXCEPT ![r] = doc[r]]
        /\ shows' = [shows EXCEPT ![r] = LOADING]
        /\ UNCHANGED <<path, recreated>> /\ disturbed \subseteq disturbed'
    BY <1>0, <1>4, PlaintextAssumption DEF OpenAttachment, Finish, Goes, ShownAs
  <2>2. /\ \A q \in Plain \ Names(p) : content'[q] = content[q]
        /\ r \notin disturbed' => content'[Renamed[p]] = content[p]
    BY <1>0, <1>4, <2>1, PlaintextAssumption DEF OpenAttachment, Names
  <2>3. FindsItsDocument'
    <3>1. ASSUME NEW s \in Request \ {r}, s \notin disturbed'
          PROVE  /\ pc'[s] = "told" /\ result'[s] = "E_OK" => content'[path'[s]] = doc'[s]
                 /\ file'[s] # None =>
                      \/ content'[file'[s]] = source'[s]
                      \/ content'[file'[s]] = None /\ s \in recreated'
      <4>1. s \notin disturbed /\ UNCHANGED <<path[s], file[s], source[s], doc[s]>>
            /\ pc'[s] = pc[s] /\ result'[s] = result[s]
        BY <1>0, <2>1, <3>1
      <4> QED
        BY <2>1, <2>2, <4>1, OthersFind DEF SInv
    <3>2. r \notin disturbed' => content[p] = doc[r]
      BY <2>1 DEF SInv, FindsItsDocument
    <3> QED
      BY <1>0, <2>1, <2>2, <3>1, <3>2 DEF FindsItsDocument
  <2>4. SharingIsDisturbed'
    BY <2>1, SharingStays DEF SInv
  <2>5. ShowsItsDocument'
    BY <1>0, <2>1 DEF SInv, ShowsItsDocument
  <2> QED
    BY <2>3, <2>4, <2>5 DEF SInv
<1>5. CASE LoopAndWrite(r)
  <2>1. /\ pc[r] \in Choosing /\ pc' = [pc EXCEPT ![r] = "looping"]
        /\ UNCHANGED <<result, doc, path, file, source, shows, disturbed, recreated>>
    BY <1>5 DEF LoopAndWrite, LoopForEver, Goes
  <2>2. \A p \in Plain \ Names(path[r]) : content'[p] = content[p]
    BY <1>0, <1>5, <2>1 DEF LoopAndWrite, Names, Choosing
  <2>3. path[r] # None /\ path[r] \in Plain
    BY <1>0, <2>1, PlaintextAssumption DEF Choosing
  <2>4. ASSUME NEW s \in Request \ {r}, s \notin disturbed
        PROVE  /\ pc'[s] = "told" /\ result'[s] = "E_OK" => content'[path'[s]] = doc'[s]
               /\ file'[s] # None =>
                    \/ content'[file'[s]] = source'[s]
                    \/ content'[file'[s]] = None /\ s \in recreated'
    BY <1>0, <2>1, <2>2, <2>3, <2>4, OthersFind DEF SInv
  <2>5. file'[r] = None /\ pc'[r] # "told"
    BY <1>0, <2>1 DEF Choosing
  <2>6. FindsItsDocument'
    BY <2>1, <2>4, <2>5 DEF FindsItsDocument
  <2> QED
    BY <2>1, <2>6, SharingStays DEF SInv, ShowsItsDocument
<1> QED
  BY <1>1, <1>2, <1>3, <1>4, <1>5

LEMMA ViewerSInv ==
  ASSUME VInv, SInv, NEW r \in Request, Leave(r) \/ Load(r) \/ Recreate(r), UNCHANGED vars
  PROVE  SInv'
<1>0. /\ path \in [Request -> Plain \cup {None}] /\ file \in [Request -> Plain \cup {None}]
      /\ source \in [Request -> Doc \cup {None}]
      /\ shows \in [Request -> Doc \cup {None, LOADING}]
      /\ content \in [Plain -> Doc \cup {None}]
      /\ \A s \in Request : file[s] # None => pc[s] = "idle"
  BY DEF VInv, PlaintextTypeOK
<1>1. CASE Load(r)
  <2>1. FindsItsDocument' /\ SharingIsDisturbed'
    BY <1>1 DEF Load, SInv, FindsItsDocument, SharingIsDisturbed, Sharing, vars
  <2>2. ShowsItsDocument'
    BY <1>0, <1>1 DEF Load, SInv, FindsItsDocument, ShowsItsDocument
  <2> QED
    BY <2>1, <2>2 DEF SInv
<1>2. CASE Leave(r) \/ Recreate(r)
  <2>1. /\ file[r] # None /\ content' = Deleted(r) /\ UNCHANGED disturbed
        /\ UNCHANGED <<pc, result, doc>>
        /\ \A s \in Request : path'[s] # None => path'[s] = path[s]
        /\ \A s \in Request \ {r} : path'[s] = path[s] /\ file'[s] = file[s]
                                    /\ source'[s] = source[s] /\ shows'[s] = shows[s]
        /\ recreated \subseteq recreated'
    BY <1>0, <1>2 DEF Leave, Recreate, NoViewer, vars
  <2>2. /\ path[r] # None /\ pc[r] = "idle"
        /\ \A q \in Plain \ Names(path[r]) : content'[q] = content[q]
    BY <1>0, <2>1, NamesOfSlot DEF Deleted
  <2>3. ASSUME NEW s \in Request \ {r}, s \notin disturbed'
        PROVE  /\ pc'[s] = "told" /\ result'[s] = "E_OK" => content'[path'[s]] = doc'[s]
               /\ file'[s] # None =>
                    \/ content'[file'[s]] = source'[s]
                    \/ content'[file'[s]] = None /\ s \in recreated'
    BY <2>1, <2>2, <2>3, OthersFind DEF SInv
  <2>4. r \notin disturbed /\ file'[r] # None =>
          \/ content'[file'[r]] = source'[r]
          \/ content'[file'[r]] = None /\ r \in recreated'
    BY <1>0, <1>2, <2>1 DEF Leave, Recreate, NoViewer, Deleted, SInv, FindsItsDocument
  <2>5. FindsItsDocument'
    BY <2>1, <2>2, <2>3, <2>4 DEF FindsItsDocument
  <2>6. SharingIsDisturbed'
    BY <2>1, SharingStays DEF SInv
  <2>7. file'[r] # None => shows'[r] = LOADING
    BY <1>0, <1>2 DEF Leave, Recreate, NoViewer
  <2>8. ShowsItsDocument'
    BY <2>1, <2>7 DEF SInv, ShowsItsDocument
  <2> QED
    BY <2>5, <2>6, <2>8 DEF SInv
<1> QED
  BY <1>1, <1>2

LEMMA StepSInv == TInv /\ VInv /\ SInv /\ [PlaintextNext]_<<vars, pvars>> => SInv'
<1> SUFFICES ASSUME TInv, VInv, SInv, [PlaintextNext]_<<vars, pvars>>
             PROVE  SInv'
  OBVIOUS
<1>1. CASE Restart /\ ViewersLost
  BY <1>1
     DEF Restart, ViewersLost, SInv, ShowsItsDocument, SharingIsDisturbed, FindsItsDocument
<1>2. CASE (\E u \in User : Config(u) /\ UNCHANGED pvars) \/ UNCHANGED <<vars, pvars>>
  <2>1. UNCHANGED <<pc, doc, result, pvars>>
    BY <1>2 DEF Config, vars
  <2> QED
    BY <2>1
       DEF pvars, viewers, SInv, ShowsItsDocument, SharingIsDisturbed, Sharing, FindsItsDocument
<1> QED
  BY <1>1, <1>2, SubmitSInv, RequestSInv, ViewerSInv
     DEF PlaintextNext, RequestWork, Throws, ProcessDeath

(* A viewer shows the document it was started for, however requests,        *)
(* rotations and deletions interleave, unless its file name was shared.     *)
THEOREM ViewersShowTheirDocument == PlaintextSpec => []ShowsItsDocument
<1>1. SInv => ShowsItsDocument
  BY DEF SInv
<1>2. PlaintextInit => TInv
  BY InitTInv DEF PlaintextInit
<1>3. TInv /\ [PlaintextNext]_<<vars, pvars>> => TInv'
  BY StepsOfOpenFile, StepTInv
<1> QED
  BY InitVInv, StepVInv, InitSInv, StepSInv, <1>1, <1>2, <1>3, PTL DEF PlaintextSpec

-----------------------------------------------------------------------------
(* Viewers and files added, a request still does what OpenFile says, so what *)
(* is proved of its steps holds in the composition, whose specification is   *)
(* another one: its fairness is that of the composed steps.                  *)
Opening == Init /\ [][Next]_vars

(* The composition implements OpenFile (its safety part).                    *)
THEOREM CompositionOpens == PlaintextSpec => Opening
<1>1. PlaintextInit => Init
  BY DEF PlaintextInit
<1>2. [PlaintextNext]_<<vars, pvars>> => [Next]_vars
  BY StepsOfOpenFile
<1> QED
  BY <1>1, <1>2, PTL DEF PlaintextSpec, Opening

(* So with viewers that show, delete and come back, too: documents are only  *)
(* decrypted by right, the cache is exact where saves do not overlap, and    *)
(* its rows are true until sds_config changes the user (run open_view).      *)
THEOREM OpenedByRightWithViewers ==
  PlaintextSpec => []TypeOK /\ []OpenedByRight /\ []CacheExact /\ []RowsTrueUntilSwitch
<1>1. Opening => []TInv /\ []RInv /\ []CInv /\ []SameUserThroughout
  BY InitTInv, StepTInv, InitRInv, StepRInv, InitCInv, StepCInv, InitSameUser, StepSameUser,
     PTL DEF Opening
<1>2. TInv => TypeOK
  BY DEF TInv
<1>3. RInv => OpenedByRight
  BY DEF RInv, OpenedBacked, Backed, OpenedByRight
<1>4. CInv => CacheExact
  BY DEF CInv
<1>5. RInv /\ SameUserThroughout => RowsTrueUntilSwitch
  BY DEF RInv, RowsBacked, Backed, SameUserThroughout, RowsTrueUntilSwitch, RowsOfTheirUser
<1> QED
  BY <1>1, <1>2, <1>3, <1>4, <1>5, CompositionOpens, PTL
=============================================================================
