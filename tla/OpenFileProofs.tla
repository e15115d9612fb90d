---------------------------- MODULE OpenFileProofs -----------------------------
(***************************************************************************)
(* Proofs about OpenFile, for any number of requests, users, documents and *)
(* answers and any bounds on the switches of the user and the deaths.      *)
(*                                                                         *)
(* Three invariants, each resting on the ones before it:                   *)
(*   TInv  types, and which requests have a user and rights to work with;  *)
(*   RInv  every row, and the rights every request decides with, were      *)
(*         issued to the user they are filed under (or are misfiled);      *)
(*   CInv  per key without overlapping saves: one row, with the rights     *)
(*         saved last, and a save in progress knows whether it exists.     *)
(* At the end, what the two findings about the cache need: without a       *)
(* change of user no row is misfiled, without overlapping saves no key has *)
(* two rows, and as long as neither happens the table is a RightsCache.    *)
(***************************************************************************)
EXTENDS OpenFile, TLAPS

Asked == {"asking", "answered", "writing", "deciding", "noPath"}
Holding == {"answered", "writing", "deciding", "noPath"}

WorkingWithUser == \A r \in Request : pc[r] \in Asked => user[r] \in User
WorkingWithRights == \A r \in Request : pc[r] \in Holding => rights[r] \in Answer
TInv == TypeOK /\ WorkingWithUser /\ WorkingWithRights

Backed(u, d, R) == <<u, d>> \in misfiled \/ <<u, d, R>> \in issued

RowsBacked ==
  \A i \in DOMAIN table : Backed(table[i].loginName, table[i].doc, table[i].rights)
RightsBacked ==
  \A r \in Request : pc[r] \in Holding => Backed(user[r], doc[r], rights[r])
OpenedBacked ==
  \A r \in Request : result[r] = "E_OK" =>
    /\ pc[r] \in {"told", "toldNoFile"}
    /\ rights[r] \in Answer
    /\ Backed(user[r], doc[r], rights[r])
    /\ Needed(r) \in rights[r]
RInv == RowsBacked /\ RightsBacked /\ OpenedBacked

SaveKnowsRow ==
  \A r \in Request : pc[r] = "writing" /\ <<user[r], doc[r]>> \notin raced =>
    (exists[r] <=> Matches(user[r], doc[r]) # {})
OverlapIsRaced ==
  \A r, q \in Request :
    /\ r # q /\ pc[r] = "writing" /\ pc[q] = "writing"
    /\ user[r] = user[q] /\ doc[r] = doc[q]
    => <<user[r], doc[r]>> \in raced
CInv == CacheExact /\ SaveKnowsRow /\ OverlapIsRaced

-----------------------------------------------------------------------------
(* Types.                                                                    *)

LEMMA InitTInv == Init => TInv
BY OpenFileAssumption
   DEF Init, TInv, TypeOK, WorkingWithUser, WorkingWithRights, Asked, Holding, Place, Code,
       Choosing

(* A step that moves one request and at most sets its own variables.         *)
LEMMA QueryTInv ==
  ASSUME TInv, NEW r \in Request,
         \/ \E d \in Doc, open \in BOOLEAN, same \in BOOLEAN : Submit(r, d, open, same)
         \/ Inspect(r) \/ Granted(r) \/ NotGranted(r)
  PROVE  TInv'
<1> USE DEF TInv, TypeOK, WorkingWithUser, WorkingWithRights, Asked, Holding, Place, Code,
            Choosing, Goes, Tell, CacheUnchanged
<1>1. CASE \E d \in Doc, open \in BOOLEAN, same \in BOOLEAN : Submit(r, d, open, same)
  BY <1>1 DEF Submit
<1>2. CASE Inspect(r)
  <2>1. CASE Goes(r, "submitted", "asking")
    BY <1>2, <2>1 DEF Inspect
  <2>2. CASE Tell(r, "submitted", "E_NotCiphertext")
    BY <1>2, <2>2 DEF Inspect
  <2> QED
    BY <1>2, <2>1, <2>2 DEF Inspect
<1>3. CASE Granted(r)
  BY <1>3, OpenFileAssumption DEF Granted, Right
<1>4. CASE NotGranted(r)
  BY <1>4 DEF NotGranted
<1> QED
  BY <1>1, <1>2, <1>3, <1>4

LEMMA SelectRowTInv ==
  ASSUME TInv, NEW r \in Request, SelectRow(r)
  PROVE  TInv'
<1> USE DEF TInv, TypeOK, WorkingWithUser, WorkingWithRights, Asked, Holding, Place, Code,
            Choosing, Goes, SelectRow
<1>1. <<loginName, doc[r]>> \in Key
  BY DEF Key
<1> QED
  BY <1>1

LEMMA RowUpdate ==
  ASSUME NEW row \in Row, NEW R \in Answer
  PROVE  [row EXCEPT !.rights = R] \in Row
BY Zenon DEF Row

(* A write keeps the rows well formed.                                       *)
LEMMA WriteRowTInv ==
  ASSUME TInv, NEW r \in Request, WriteRow(r)
  PROVE  TInv'
<1> USE DEF TInv, TypeOK, WorkingWithUser, WorkingWithRights, Asked, Holding, Place, Code,
            Choosing, Goes, WriteRow
<1>1. user[r] \in User /\ doc[r] \in Doc /\ rights[r] \in Answer
  OBVIOUS
<1>2. NewRow(r) \in Row /\ <<user[r], doc[r]>> \in Key
  BY <1>1 DEF NewRow, Row, Key
<1>3. table' \in Seq(Row)
  <2>1. CASE exists[r]
    <3>1. \A i \in DOMAIN table :
            table[i] \in Row /\ [table[i] EXCEPT !.rights = rights[r]] \in Row
      BY <1>1, RowUpdate
    <3>2. DOMAIN table = 1..Len(table) /\ Len(table) \in Nat
      OBVIOUS
    <3> QED
      BY <2>1, <3>1, <3>2
  <2>2. CASE ~exists[r]
    BY <1>2, <2>2
  <2> QED
    BY <2>1, <2>2
<1>4. lastSaved' \in [Key -> Answer \cup {None}]
  BY <1>1, <1>2
<1> QED
  BY <1>3, <1>4

LEMMA RowRights ==
  ASSUME table \in Seq(Row), NEW i \in DOMAIN table
  PROVE  table[i].rights \in Answer
<1>1. table[i] \in Row
  OBVIOUS
<1> QED
  BY <1>1 DEF Row

(* The fallback either works with the rights of a row or fails.              *)
LEMMA GetKeyByDBTInv ==
  ASSUME TInv, NEW r \in Request,
         NEW from \in {"failed", "abnormal"}, NEW to \in {"deciding", "noPath"},
         GetKeyByDB(r, from, to)
  PROVE  TInv'
<1>1. UNCHANGED <<loginName, table, doc, isOpenFile, samePath, exists, replaced, truncated,
                  issued, lastSaved, misfiled, raced, switches, deaths>>
  BY DEF GetKeyByDB, CacheUnchanged
<1>2. ASSUME Tell(r, from, "E_NetReqFail"), UNCHANGED <<rights, user>>
      PROVE  TInv'
  BY <1>1, <1>2
     DEF TInv, TypeOK, WorkingWithUser, WorkingWithRights, Asked, Holding, Place, Code,
         Choosing, Goes, Tell
<1>3. ASSUME Goes(r, from, to), user' = [user EXCEPT ![r] = loginName], UNCHANGED result,
             NEW R \in Answer, rights' = [rights EXCEPT ![r] = R]
      PROVE  TInv'
  BY <1>1, <1>3, OpenFileAssumption
     DEF TInv, TypeOK, WorkingWithUser, WorkingWithRights, Asked, Holding, Place, Right,
         Choosing, Goes
<1>4. CASE Tell(r, from, "E_NetReqFail") /\ UNCHANGED <<rights, user>>
  BY <1>2, <1>4
<1>5. CASE ~(Tell(r, from, "E_NetReqFail") /\ UNCHANGED <<rights, user>>)
  <2>1. PICK i \in DOMAIN table : rights' = [rights EXCEPT ![r] = table[i].rights]
    BY <1>5 DEF GetKeyByDB
  <2>2. table[i].rights \in Answer
    BY RowRights DEF TInv, TypeOK
  <2>3. Goes(r, from, to) /\ user' = [user EXCEPT ![r] = loginName] /\ UNCHANGED result
    BY <1>5 DEF GetKeyByDB
  <2> QED
    BY <1>3, <2>1, <2>2, <2>3
<1> QED
  BY <1>4, <1>5

LEMMA RestartTInv ==
  ASSUME TInv, Restart, replaced' \subseteq Ciphertext, deaths' \in 0..MaxDeaths
  PROVE  TInv'
BY DEF TInv, TypeOK, WorkingWithUser, WorkingWithRights, Asked, Holding, Place, Restart,
       CacheUnchanged

LEMMA EndTInv ==
  ASSUME TInv, NEW r \in Request,
         \/ Truncate(r) \/ LoopForEver(r) \/ Decide(r) \/ DecryptNoPath(r) \/ Handle(r)
  PROVE  TInv'
<1> USE DEF TInv, TypeOK, WorkingWithUser, WorkingWithRights, Asked, Holding, Place, Code,
            Choosing, Goes, Tell, CacheUnchanged
<1>1. CASE Decide(r)
  BY <1>1 DEF Decide
<1>2. CASE DecryptNoPath(r)
  <2>1. CASE Restart /\ UNCHANGED <<replaced, deaths>>
    BY <2>1, RestartTInv
  <2>2. CASE DecryptInPlace(r)
    BY <2>2 DEF DecryptInPlace, IsSecureDoc
  <2> QED
    BY <1>2, <2>1, <2>2 DEF DecryptNoPath
<1>3. CASE Handle(r)
  <2>1. CASE Restart /\ UNCHANGED <<replaced, deaths>>
    BY <2>1, RestartTInv
  <2>2. CASE Finish(r, "told") \/ Finish(r, "toldNoFile")
    <3>1. pc' = [pc EXCEPT ![r] = "idle"] /\ truncated' = truncated \ {r}
      BY <2>2 DEF Finish
    <3>2. truncated' \subseteq {q \in Request : pc'[q] \in Choosing /\ doc'[q] \in replaced'}
      BY <2>2, <3>1 DEF Finish
    <3>3. /\ result' \in [Request -> Code \cup {None}] /\ rights' \in [Request -> SUBSET Right]
          /\ user' \in [Request -> User \cup {None}] /\ doc' \in [Request -> Doc \cup {None}]
          /\ pc' \in [Request -> Place]
          /\ isOpenFile' \in [Request -> BOOLEAN] /\ samePath' \in [Request -> BOOLEAN]
          /\ exists' \in [Request -> BOOLEAN]
      BY <2>2 DEF Finish
    <3>4. \A q \in Request : pc'[q] # "idle" =>
            /\ pc'[q] = pc[q] /\ doc'[q] = doc[q] /\ user'[q] = user[q]
            /\ rights'[q] = rights[q]
      BY <2>2 DEF Finish
    <3>5. UNCHANGED <<loginName, table, replaced, issued, lastSaved, misfiled, raced, switches,
                      deaths>>
      BY <2>2 DEF Finish
    <3> QED
      BY <3>2, <3>3, <3>4, <3>5
  <2> QED
    BY <1>3, <2>1, <2>2 DEF Handle
<1>4. CASE Truncate(r)
  BY <1>4 DEF Truncate, IsSecureDoc
<1>5. CASE LoopForEver(r)
  BY <1>5 DEF LoopForEver
<1> QED
  BY <1>1, <1>2, <1>3, <1>4, <1>5

LEMMA HostTInv ==
  ASSUME TInv, ProcessDeath \/ (\E u \in User : Config(u)) \/ UNCHANGED vars
  PROVE  TInv'
<1>1. CASE ProcessDeath
  BY <1>1, RestartTInv, OpenFileAssumption DEF ProcessDeath, TInv, TypeOK
<1>2. CASE (\E u \in User : Config(u)) \/ UNCHANGED vars
  BY <1>2, OpenFileAssumption
     DEF Config, vars, TInv, TypeOK, WorkingWithUser, WorkingWithRights, CacheUnchanged
<1> QED
  BY <1>1, <1>2

LEMMA StepTInv == TInv /\ [Next]_vars => TInv'
BY QueryTInv, SelectRowTInv, WriteRowTInv, GetKeyByDBTInv, EndTInv, HostTInv
   DEF Next, Work, UseCache

(* Every state is well typed, whatever the schedule, switches and deaths.    *)
THEOREM TypeCorrect == Spec => []TypeOK
<1>1. TInv => TypeOK
  BY DEF TInv
<1> QED
  BY InitTInv, StepTInv, <1>1, PTL DEF Spec

-----------------------------------------------------------------------------
(* Rights: what decides was issued to the user it is filed under.            *)

LEMMA InitRInv == Init => RInv
BY OpenFileAssumption
   DEF Init, RInv, RowsBacked, RightsBacked, OpenedBacked, Holding, Code

(* The answers and the misfiled keys only grow, so what is backed stays so.  *)
LEMMA BackedStays ==
  ASSUME issued \subseteq issued', misfiled \subseteq misfiled', NEW u, NEW d, NEW R,
         Backed(u, d, R)
  PROVE  Backed(u, d, R)'
BY DEF Backed

LEMMA QueryRInv ==
  ASSUME TInv, RInv, NEW r \in Request,
         \/ \E d \in Doc, open \in BOOLEAN, same \in BOOLEAN : Submit(r, d, open, same)
         \/ Inspect(r) \/ Granted(r) \/ NotGranted(r)
  PROVE  RInv'
<1> USE DEF TInv, TypeOK, RInv, RowsBacked, RightsBacked, OpenedBacked, Holding, Backed,
            Needed, Goes, Tell, CacheUnchanged
<1>1. CASE \E d \in Doc, open \in BOOLEAN, same \in BOOLEAN : Submit(r, d, open, same)
  <2>1. /\ UNCHANGED <<table, rights, result, user, issued, misfiled>>
        /\ pc[r] = "idle" /\ pc' = [pc EXCEPT ![r] = "submitted"]
        /\ \A q \in Request \ {r} : doc'[q] = doc[q] /\ isOpenFile'[q] = isOpenFile[q]
    BY <1>1 DEF Submit
  <2> QED
    BY <2>1
<1>2. CASE Inspect(r)
  BY <1>2 DEF Inspect
<1>3. CASE Granted(r)
  BY <1>3 DEF Granted
<1>4. CASE NotGranted(r)
  BY <1>4 DEF NotGranted
<1> QED
  BY <1>1, <1>2, <1>3, <1>4

(* If the user changed meanwhile, the key counts as misfiled from here on.   *)
LEMMA SelectRowRInv ==
  ASSUME TInv, RInv, NEW r \in Request, SelectRow(r)
  PROVE  RInv'
<1> USE DEF TInv, TypeOK, RInv, SelectRow
<1>1. issued' = issued /\ misfiled \subseteq misfiled' /\ UNCHANGED <<table, doc, rights>>
  OBVIOUS
<1>2. Backed(user[r], doc[r], rights[r])'
  BY DEF RightsBacked, Holding, Goes, Backed
<1>3. RowsBacked'
  BY <1>1, BackedStays DEF RowsBacked
<1>4. RightsBacked'
  BY <1>1, <1>2 DEF RightsBacked, Holding, Goes, Backed
<1>5. OpenedBacked'
  BY <1>1 DEF OpenedBacked, Backed, Needed, Goes
<1> QED
  BY <1>3, <1>4, <1>5

LEMMA WriteRowRInv ==
  ASSUME TInv, RInv, NEW r \in Request, WriteRow(r)
  PROVE  RInv'
<1> USE DEF TInv, TypeOK, RInv, WriteRow
<1>1. Backed(user[r], doc[r], rights[r])
  BY DEF RightsBacked, Holding, Goes
<1>2. RowsBacked'
  <2> SUFFICES ASSUME NEW i \in DOMAIN table'
               PROVE  Backed(table'[i].loginName, table'[i].doc, table'[i].rights)
    BY DEF RowsBacked, Backed
  <2>1. CASE exists[r]
    <3>1. i \in DOMAIN table /\ table[i] \in Row
      BY <2>1
    <3>2. CASE i \in Matches(user[r], doc[r])
      <4>1. table'[i] = [table[i] EXCEPT !.rights = rights[r]]
        BY <2>1, <3>1, <3>2
      <4>2. /\ table'[i].loginName = user[r] /\ table'[i].doc = doc[r]
            /\ table'[i].rights = rights[r]
        BY <3>1, <3>2, <4>1 DEF Matches, Row
      <4> QED
        BY <1>1, <4>2
    <3>3. CASE i \notin Matches(user[r], doc[r])
      BY <2>1, <3>1, <3>3 DEF RowsBacked
    <3> QED
      BY <3>2, <3>3
  <2>2. CASE ~exists[r]
    <3>1. table' = Append(table, NewRow(r)) /\ table \in Seq(Row)
      BY <2>2
    <3>2. CASE i \in DOMAIN table
      BY <3>1, <3>2 DEF RowsBacked
    <3>3. CASE i \notin DOMAIN table
      <4>1. table'[i] = NewRow(r)
        BY <3>1, <3>3
      <4>2. /\ NewRow(r).loginName = user[r] /\ NewRow(r).doc = doc[r]
            /\ NewRow(r).rights = rights[r]
        BY DEF NewRow
      <4> QED
        BY <1>1, <4>1, <4>2
    <3> QED
      BY <3>2, <3>3
  <2> QED
    BY <2>1, <2>2
<1>3. RightsBacked' /\ OpenedBacked'
  BY DEF RightsBacked, OpenedBacked, Holding, Goes, Backed, Needed
<1> QED
  BY <1>2, <1>3

LEMMA GetKeyByDBRInv ==
  ASSUME TInv, RInv, NEW r \in Request,
         NEW from \in {"failed", "abnormal"}, NEW to \in {"deciding", "noPath"},
         GetKeyByDB(r, from, to)
  PROVE  RInv'
<1>1. UNCHANGED <<table, doc, isOpenFile, issued, misfiled>>
  BY DEF GetKeyByDB, CacheUnchanged
<1>2. RowsBacked'
  BY <1>1 DEF RInv, RowsBacked, Backed
<1>3. CASE Tell(r, from, "E_NetReqFail") /\ UNCHANGED <<rights, user>>
  BY <1>1, <1>2, <1>3
     DEF TInv, TypeOK, RInv, RightsBacked, OpenedBacked, Holding, Backed, Needed, Goes, Tell
<1>4. CASE ~(Tell(r, from, "E_NetReqFail") /\ UNCHANGED <<rights, user>>)
  <2>1. PICK i \in DOMAIN table : /\ IsOldest(i, loginName, doc[r])
                                  /\ rights' = [rights EXCEPT ![r] = table[i].rights]
    BY <1>4 DEF GetKeyByDB
  <2>2. Goes(r, from, to) /\ user' = [user EXCEPT ![r] = loginName] /\ UNCHANGED result
    BY <1>4 DEF GetKeyByDB
  <2>3. Backed(loginName, doc[r], table[i].rights)
    BY <2>1 DEF RInv, RowsBacked, IsOldest, Matches
  <2>4. RightsBacked' /\ OpenedBacked'
    BY <1>1, <2>1, <2>2, <2>3
       DEF TInv, TypeOK, RInv, RightsBacked, OpenedBacked, Holding, Backed, Needed, Goes
  <2> QED
    BY <1>2, <2>4 DEF RInv
<1> QED
  BY <1>3, <1>4

LEMMA RestartRInv ==
  ASSUME RInv, Restart
  PROVE  RInv'
BY OpenFileAssumption
   DEF RInv, RowsBacked, RightsBacked, OpenedBacked, Holding, Backed, Restart,
       CacheUnchanged, Code

LEMMA EndRInv ==
  ASSUME TInv, RInv, NEW r \in Request,
         \/ Truncate(r) \/ LoopForEver(r) \/ Decide(r) \/ DecryptNoPath(r) \/ Handle(r)
  PROVE  RInv'
<1> USE DEF TInv, TypeOK, WorkingWithRights, RInv, RowsBacked, RightsBacked, OpenedBacked,
            Holding, Backed, Needed, Goes, Tell, CacheUnchanged
<1>1. CASE Decide(r)
  BY <1>1 DEF Decide, HasRight
<1>2. CASE DecryptNoPath(r)
  <2>1. CASE Restart
    BY <2>1, RestartRInv
  <2>2. CASE DecryptInPlace(r) /\ HasRight(r)
    BY <2>2 DEF DecryptInPlace, HasRight
  <2> QED
    BY <1>2, <2>1, <2>2 DEF DecryptNoPath
<1>3. CASE Handle(r)
  <2>1. CASE Restart
    BY <2>1, RestartRInv
  <2>2. CASE Finish(r, "told") \/ Finish(r, "toldNoFile")
    <3>1. \A q \in Request : result'[q] = "E_OK" => q # r /\ result[q] = "E_OK"
      BY <2>2, OpenFileAssumption DEF Finish, Code
    <3>2. \A q \in Request : q # r => /\ pc'[q] = pc[q] /\ user'[q] = user[q]
                                     /\ doc'[q] = doc[q] /\ rights'[q] = rights[q]
                                     /\ isOpenFile'[q] = isOpenFile[q]
      BY <2>2 DEF Finish
    <3>3. pc'[r] = "idle" /\ UNCHANGED <<table, issued, misfiled>>
      BY <2>2 DEF Finish
    <3> QED
      BY <3>1, <3>2, <3>3
  <2> QED
    BY <1>3, <2>1, <2>2 DEF Handle
<1>4. CASE Truncate(r) \/ LoopForEver(r)
  BY <1>4 DEF Truncate, LoopForEver, Choosing
<1> QED
  BY <1>1, <1>2, <1>3, <1>4

LEMMA HostRInv ==
  ASSUME RInv, ProcessDeath \/ (\E u \in User : Config(u)) \/ UNCHANGED vars
  PROVE  RInv'
<1>1. CASE ProcessDeath
  BY <1>1, RestartRInv DEF ProcessDeath
<1>2. CASE (\E u \in User : Config(u)) \/ UNCHANGED vars
  BY <1>2 DEF Config, vars, RInv, RowsBacked, RightsBacked, OpenedBacked, Backed, Needed,
              CacheUnchanged
<1> QED
  BY <1>1, <1>2

LEMMA StepRInv == TInv /\ RInv /\ [Next]_vars => RInv'
BY QueryRInv, SelectRowRInv, WriteRowRInv, GetKeyByDBRInv, EndRInv, HostRInv
   DEF Next, Work, UseCache

(* A document is only decrypted on rights the server issued for it to the    *)
(* user they are filed under, cached or fresh (see OpenFile).                *)
THEOREM NoOpenWithoutRight == Spec => []OpenedByRight
<1>1. RInv => OpenedByRight
  BY DEF RInv, OpenedBacked, Backed, OpenedByRight
<1> QED
  BY InitTInv, StepTInv, InitRInv, StepRInv, <1>1, PTL DEF Spec

-----------------------------------------------------------------------------
(* The cache: one row per key, with the rights saved last.                   *)

LEMMA InitCInv == Init => CInv
BY DEF Init, CInv, CacheExact, SaveKnowsRow, OverlapIsRaced, Matches, Key

(* A step that leaves the cache alone and starts no save keeps CInv.         *)
LEMMA CacheFrame ==
  ASSUME CInv, CacheUnchanged,
         \A q \in Request : pc'[q] = "writing" =>
           /\ pc[q] = "writing" /\ user'[q] = user[q] /\ doc'[q] = doc[q]
           /\ exists'[q] = exists[q]
  PROVE  CInv'
<1> USE DEF CInv, CacheUnchanged
<1>1. \A u, d : Matches(u, d)' = Matches(u, d)
  BY DEF Matches
<1>2. CacheExact'
  BY <1>1 DEF CacheExact
<1>3. SaveKnowsRow'
  <2> SUFFICES ASSUME NEW q \in Request, pc'[q] = "writing",
                      <<user'[q], doc'[q]>> \notin raced'
               PROVE  exists'[q] <=> Matches(user[q], doc[q])' # {}
    BY DEF SaveKnowsRow, Matches
  <2> QED
    BY <1>1 DEF SaveKnowsRow
<1>4. OverlapIsRaced'
  BY DEF OverlapIsRaced
<1> QED
  BY <1>2, <1>3, <1>4

LEMMA SelectRowCInv ==
  ASSUME TInv, CInv, NEW r \in Request, SelectRow(r)
  PROVE  CInv'
<1> USE DEF TInv, TypeOK, CInv, SelectRow, Goes
<1> DEFINE key == <<loginName, doc[r]>>
<1>1. \A u, d : Matches(u, d)' = Matches(u, d)
  BY DEF Matches
<1>2. raced \subseteq raced'
  OBVIOUS
<1>3. CacheExact'
  BY <1>1, <1>2 DEF CacheExact
<1>4. /\ pc'[r] = "writing" /\ user'[r] = loginName /\ doc' = doc
      /\ exists'[r] = (Matches(loginName, doc[r]) # {})
      /\ \A q \in Request \ {r} : /\ pc'[q] = pc[q] /\ user'[q] = user[q]
                                  /\ exists'[q] = exists[q]
  OBVIOUS
<1>5. SaveKnowsRow'
  <2> SUFFICES ASSUME NEW q \in Request, pc'[q] = "writing",
                      <<user'[q], doc'[q]>> \notin raced'
               PROVE  exists'[q] <=> Matches(user'[q], doc'[q]) # {}
    BY <1>1 DEF SaveKnowsRow, Matches
  <2> QED
    BY <1>2, <1>4 DEF SaveKnowsRow
<1>6. \A q \in Request \ {r} :
        pc[q] = "writing" /\ user[q] = loginName /\ doc[q] = doc[r] => key \in raced'
  BY DEF SavingToo
<1>7. OverlapIsRaced'
  <2> SUFFICES ASSUME NEW p \in Request, NEW q \in Request, p # q,
                      pc'[p] = "writing", pc'[q] = "writing",
                      user'[p] = user'[q], doc[p] = doc[q]
               PROVE  <<user'[p], doc[p]>> \in raced'
    BY <1>4 DEF OverlapIsRaced
  <2>1. CASE p # r /\ q # r
    BY <1>2, <1>4, <2>1 DEF OverlapIsRaced
  <2>2. CASE p = r
    BY <1>4, <1>6, <2>2
  <2>3. CASE q = r
    BY <1>4, <1>6, <2>3
  <2> QED
    BY <2>1, <2>2, <2>3
<1> QED
  BY <1>3, <1>5, <1>7

(* A write touches only the rows of its own key, and leaves exactly one      *)
(* when it knew whether there was one.                                       *)
LEMMA WriteRowMatches ==
  ASSUME TInv, CInv, NEW r \in Request, WriteRow(r), NEW u \in User, NEW d \in Doc
  PROVE  /\ u # user[r] \/ d # doc[r] =>
              /\ Matches(u, d)' = Matches(u, d)
              /\ \A i \in Matches(u, d) : table'[i].rights = table[i].rights
         /\ u = user[r] /\ d = doc[r] /\ <<u, d>> \notin raced =>
              /\ Matches(u, d)' # {}
              /\ \A i, j \in Matches(u, d)' : i = j
              /\ \A i \in Matches(u, d)' : table'[i].rights = rights[r]
<1> USE DEF TInv, TypeOK, WriteRow, Goes
<1>1. <<u, d>> \notin raced =>
        /\ u = user[r] /\ d = doc[r] => (exists[r] <=> Matches(u, d) # {})
        /\ \A i, j \in Matches(u, d) : i = j
  BY DEF CInv, SaveKnowsRow, CacheExact
<1>2. \A i \in Matches(u, d) : i \in DOMAIN table
  BY DEF Matches
<1>3. CASE exists[r]
  <2>1. DOMAIN table' = DOMAIN table
    BY <1>3
  <2>2. \A i \in DOMAIN table :
          /\ table'[i].loginName = table[i].loginName /\ table'[i].doc = table[i].doc
          /\ table'[i].rights = IF i \in Matches(user[r], doc[r]) THEN rights[r]
                                                                  ELSE table[i].rights
    <3> SUFFICES ASSUME NEW i \in DOMAIN table
                 PROVE  /\ table'[i].loginName = table[i].loginName
                        /\ table'[i].doc = table[i].doc
                        /\ table'[i].rights = IF i \in Matches(user[r], doc[r])
                                              THEN rights[r] ELSE table[i].rights
      OBVIOUS
    <3>1. table[i] \in Row
      OBVIOUS
    <3>2. table'[i] = IF i \in Matches(user[r], doc[r])
                      THEN [table[i] EXCEPT !.rights = rights[r]] ELSE table[i]
      BY <1>3
    <3> QED
      BY <3>1, <3>2 DEF Row
  <2>3. Matches(u, d)' = Matches(u, d)
    BY <2>1, <2>2 DEF Matches
  <2>4. u # user[r] \/ d # doc[r] => \A i \in Matches(u, d) : i \notin Matches(user[r], doc[r])
    BY DEF Matches
  <2> QED
    BY <1>1, <1>2, <1>3, <2>2, <2>3, <2>4
<1>4. CASE ~exists[r]
  <2> DEFINE n == Len(table) + 1
  <2>1. /\ DOMAIN table' = DOMAIN table \cup {n} /\ n \notin DOMAIN table
        /\ table'[n] = NewRow(r)
        /\ \A i \in DOMAIN table : table'[i] = table[i]
    BY <1>4
  <2>2. /\ table'[n].loginName = user[r] /\ table'[n].doc = doc[r]
        /\ table'[n].rights = rights[r]
    BY <2>1 DEF NewRow
  <2> HIDE DEF n
  <2>3. Matches(u, d)' = IF u = user[r] /\ d = doc[r] THEN Matches(u, d) \cup {n}
                                                      ELSE Matches(u, d)
    BY <2>1, <2>2 DEF Matches
  <2> QED
    BY <1>1, <1>2, <1>4, <2>1, <2>2, <2>3
<1> QED
  BY <1>3, <1>4

LEMMA WriteRowCInv ==
  ASSUME TInv, CInv, NEW r \in Request, WriteRow(r)
  PROVE  CInv'
<1> USE DEF CInv
<1>1. user[r] \in User /\ doc[r] \in Doc /\ <<user[r], doc[r]>> \in Key
  BY DEF TInv, TypeOK, WorkingWithUser, Asked, WriteRow, Goes, Key
<1>2. /\ raced' = raced /\ user' = user /\ doc' = doc
      /\ pc[r] = "writing" /\ pc'[r] = "deciding"
      /\ \A q \in Request \ {r} : pc'[q] = pc[q] /\ exists'[q] = exists[q]
  BY DEF TInv, TypeOK, WriteRow, Goes
<1>3. \A k \in Key : lastSaved'[k] = IF k = <<user[r], doc[r]>> THEN rights[r]
                                                               ELSE lastSaved[k]
  BY DEF TInv, TypeOK, WriteRow
<1>4. CacheExact'
  <2> SUFFICES ASSUME NEW u \in User, NEW d \in Doc, <<u, d>> \notin raced
               PROVE  /\ \A i, j \in Matches(u, d)' : i = j
                      /\ \A i \in Matches(u, d)' : table'[i].rights = lastSaved'[<<u, d>>]
                      /\ lastSaved'[<<u, d>>] # None => Matches(u, d)' # {}
    BY <1>2 DEF CacheExact
  <2>1. <<u, d>> \in Key
    BY DEF Key
  <2>2. CASE u = user[r] /\ d = doc[r]
    BY <1>3, <2>1, <2>2, WriteRowMatches
  <2>3. CASE ~(u = user[r] /\ d = doc[r])
    <3>1. lastSaved'[<<u, d>>] = lastSaved[<<u, d>>]
      BY <1>3, <2>1, <2>3
    <3> QED
      BY <2>3, <3>1, WriteRowMatches DEF CacheExact
  <2> QED
    BY <2>2, <2>3
<1>5. SaveKnowsRow'
  <2> SUFFICES ASSUME NEW q \in Request, pc'[q] = "writing",
                      <<user[q], doc[q]>> \notin raced
               PROVE  exists'[q] <=> Matches(user[q], doc[q])' # {}
    BY <1>2 DEF SaveKnowsRow, Matches
  <2>1. q # r /\ pc[q] = "writing" /\ exists'[q] = exists[q]
    BY <1>2
  <2>2. user[q] # user[r] \/ doc[q] # doc[r]
    BY <1>2, <2>1 DEF OverlapIsRaced
  <2>3. user[q] \in User /\ doc[q] \in Doc
    BY <2>1 DEF TInv, TypeOK, WorkingWithUser, Asked
  <2>4. ASSUME NEW u \in User, NEW d \in Doc, u # user[r] \/ d # doc[r]
        PROVE  Matches(u, d)' = Matches(u, d)
    BY <1>2, <2>4, WriteRowMatches
  <2>5. exists[q] <=> Matches(user[q], doc[q]) # {}
    BY <2>1 DEF SaveKnowsRow
  <2> QED
    BY <1>2, <2>1, <2>2, <2>3, <2>4, <2>5 DEF Matches
<1>6. OverlapIsRaced'
  BY <1>2 DEF OverlapIsRaced
<1> QED
  BY <1>4, <1>5, <1>6

LEMMA OtherCInv ==
  ASSUME TInv, CInv, NEW r \in Request,
         \/ \E d \in Doc, open \in BOOLEAN, same \in BOOLEAN : Submit(r, d, open, same)
         \/ Inspect(r) \/ Granted(r) \/ NotGranted(r) \/ UseCache(r)
         \/ Truncate(r) \/ LoopForEver(r) \/ Decide(r) \/ DecryptNoPath(r) \/ Handle(r)
  PROVE  CInv'
<1> USE DEF TInv, TypeOK, Goes, Tell
<1>1. CASE \E d \in Doc, open \in BOOLEAN, same \in BOOLEAN : Submit(r, d, open, same)
  BY <1>1, CacheFrame DEF Submit
<1>2. CASE Inspect(r)
  BY <1>2, CacheFrame DEF Inspect
<1>3. CASE Granted(r)
  BY <1>3, CacheFrame DEF Granted
<1>4. CASE NotGranted(r)
  BY <1>4, CacheFrame DEF NotGranted
<1>5. CASE UseCache(r)
  BY <1>5, CacheFrame DEF UseCache, GetKeyByDB
<1>6. CASE Decide(r)
  BY <1>6, CacheFrame DEF Decide
<1>7. CASE DecryptNoPath(r)
  BY <1>7, CacheFrame DEF DecryptNoPath, DecryptInPlace, Restart
<1>8. CASE Handle(r)
  BY <1>8, CacheFrame DEF Handle, Finish, Restart
<1>9. CASE Truncate(r) \/ LoopForEver(r)
  BY <1>9, CacheFrame DEF Truncate, LoopForEver, Choosing
<1> QED
  BY <1>1, <1>2, <1>3, <1>4, <1>5, <1>6, <1>7, <1>8, <1>9

LEMMA HostCInv ==
  ASSUME CInv, ProcessDeath \/ (\E u \in User : Config(u)) \/ UNCHANGED vars
  PROVE  CInv'
BY CacheFrame DEF ProcessDeath, Restart, Config, vars, CacheUnchanged

LEMMA StepCInv == TInv /\ CInv /\ [Next]_vars => CInv'
BY SelectRowCInv, WriteRowCInv, OtherCInv, HostCInv DEF Next, Work

(* Unless two saves for a key overlapped, the cache holds one row for it,    *)
(* with the rights saved last (insertOrUpdateRightAndkeyTable).              *)
THEOREM CacheIsExact == Spec => []CacheExact
<1>1. CInv => CacheExact
  BY DEF CInv
<1> QED
  BY InitTInv, StepTInv, InitCInv, StepCInv, <1>1, PTL DEF Spec

-----------------------------------------------------------------------------
(* What the two findings about the cache take to happen.                     *)

(* Until sds_config changes the user, a request saves under the name it      *)
(* asked with: Restart may change the user, but it ends every request.       *)
SameUserThroughout ==
  switches = 0 => /\ misfiled = {}
                  /\ \A r \in Request : pc[r] \in {"asking", "answered"} => user[r] = loginName

LEMMA InitSameUser == Init => SameUserThroughout
BY DEF Init, SameUserThroughout

LEMMA StepSameUser == TInv /\ SameUserThroughout /\ [Next]_vars => SameUserThroughout'
<1> SUFFICES ASSUME TInv, SameUserThroughout, [Next]_vars, switches' = 0
             PROVE  /\ misfiled' = {}
                    /\ \A q \in Request : pc'[q] \in {"asking", "answered"} =>
                                           user'[q] = loginName'
  BY DEF SameUserThroughout
<1> USE DEF Goes, Tell, CacheUnchanged
<1>a. /\ pc \in [Request -> Place] /\ user \in [Request -> User \cup {None}]
      /\ switches \in Nat
  BY DEF TInv, TypeOK
<1>b. switches = 0 => /\ misfiled = {}
                     /\ \A q \in Request : pc[q] \in {"asking", "answered"} =>
                                            user[q] = loginName
  BY DEF SameUserThroughout
<1>1. CASE Restart /\ switches' = switches
  BY <1>1, <1>b DEF Restart
<1>2. CASE \E u \in User : Config(u)
  BY <1>2, <1>a DEF Config
<1>3. CASE UNCHANGED vars
  BY <1>3, <1>b DEF vars
<1>4. ASSUME NEW r \in Request, NEW d \in Doc, NEW open \in BOOLEAN, NEW same \in BOOLEAN,
             Submit(r, d, open, same)
      PROVE  /\ misfiled' = {}
             /\ \A q \in Request : pc'[q] \in {"asking", "answered"} => user'[q] = loginName'
  BY <1>4, <1>a, <1>b DEF Submit
<1>5. ASSUME NEW r \in Request, Inspect(r) \/ Granted(r) \/ NotGranted(r)
      PROVE  /\ misfiled' = {}
             /\ \A q \in Request : pc'[q] \in {"asking", "answered"} => user'[q] = loginName'
  BY <1>5, <1>a, <1>b DEF Inspect, Granted, NotGranted
<1>6. ASSUME NEW r \in Request, SelectRow(r) \/ WriteRow(r)
      PROVE  /\ misfiled' = {}
             /\ \A q \in Request : pc'[q] \in {"asking", "answered"} => user'[q] = loginName'
  BY <1>6, <1>a, <1>b DEF SelectRow, WriteRow
<1>7. ASSUME NEW r \in Request,
             UseCache(r) \/ Truncate(r) \/ LoopForEver(r) \/ Decide(r)
      PROVE  /\ misfiled' = {}
             /\ \A q \in Request : pc'[q] \in {"asking", "answered"} => user'[q] = loginName'
  BY <1>7, <1>a, <1>b DEF UseCache, GetKeyByDB, Truncate, LoopForEver, Decide
<1>8. ASSUME NEW r \in Request, DecryptNoPath(r) \/ Handle(r)
      PROVE  \/ Restart /\ switches' = switches
             \/ /\ misfiled' = {}
                /\ \A q \in Request : pc'[q] \in {"asking", "answered"} => user'[q] = loginName'
  <2>1. Restart => switches' = switches
    BY DEF Restart
  <2> QED
    BY <1>8, <1>a, <1>b, <2>1 DEF DecryptNoPath, DecryptInPlace, Handle, Finish
<1>9. ProcessDeath => Restart /\ switches' = switches
  BY DEF ProcessDeath, Restart
<1> QED
  BY <1>1, <1>2, <1>3, <1>4, <1>5, <1>6, <1>7, <1>8, <1>9 DEF Next, Work

(* Until sds_config changes the user of a living process, every cached row   *)
(* holds rights the server issued to the user it is filed under, however     *)
(* many requests run at once and whatever user each restart configures:      *)
(* run open_user needs its switch between a query and its save.              *)
THEOREM RowsTrueWithoutSwitch == Spec => []RowsTrueUntilSwitch
<1>1. RInv /\ SameUserThroughout => RowsTrueUntilSwitch
  BY DEF RInv, RowsBacked, Backed, SameUserThroughout, RowsTrueUntilSwitch, RowsOfTheirUser
<1> QED
  BY InitTInv, StepTInv, InitRInv, StepRInv, InitSameUser, StepSameUser, <1>1, PTL DEF Spec

(* One call of sds_openFile at a time: no save meets another.                *)
OneRequest == \A q, r \in Request : q = r
NoRace == raced = {}

LEMMA StepNoRace ==
  ASSUME OneRequest
  PROVE  NoRace /\ [Next]_vars => NoRace'
<1> SUFFICES ASSUME raced = {}, [Next]_vars PROVE raced' = {}
  BY DEF NoRace
<1>1. ASSUME NEW r \in Request, SelectRow(r) PROVE raced' = {}
  <2>1. \A u, d : SavingToo(r, u, d) = {}
    BY DEF OneRequest, SavingToo
  <2> QED
    BY <1>1, <2>1 DEF SelectRow
<1>2. ASSUME NEW r \in Request, Work(r), ~SelectRow(r) PROVE raced' = raced
  BY <1>2 DEF Work, Inspect, Granted, NotGranted, WriteRow, UseCache, GetKeyByDB, Truncate,
     LoopForEver, Decide, DecryptNoPath, DecryptInPlace, Handle, Finish, Restart, CacheUnchanged
<1>3. ASSUME \/ \E r \in Request, d \in Doc, open \in BOOLEAN, same \in BOOLEAN :
                  Submit(r, d, open, same)
             \/ \E u \in User : Config(u)
             \/ ProcessDeath \/ UNCHANGED vars
      PROVE  raced' = raced
  BY <1>3 DEF Submit, Config, ProcessDeath, Restart, CacheUnchanged, vars
<1> QED
  BY <1>1, <1>2, <1>3 DEF Next

(* With one call of sds_openFile at a time a save replaces the row of its    *)
(* user and document, as DbService.java:41 says, through restarts and        *)
(* changes of the user: run open_duplicate needs its two calls.              *)
THEOREM OneRowWithOneRequest ==
  ASSUME OneRequest
  PROVE  Spec => []OneRowPerKey
<1>1. Init => NoRace
  BY DEF Init, NoRace
<1>2. NoRace /\ [Next]_vars => NoRace'
  BY StepNoRace
<1>3. CInv /\ NoRace => OneRowPerKey
  BY DEF CInv, CacheExact, NoRace, OneRowPerKey
<1> QED
  BY InitTInv, StepTInv, InitCInv, StepCInv, <1>1, <1>2, <1>3, PTL DEF Spec

-----------------------------------------------------------------------------
(* The refinement of RightsCache: with no save raced, what the oldest row   *)
(* holds is what was saved last.                                            *)
LEMMA RememberedIsSaved ==
  ASSUME TInv, CInv, raced = {}
  PROVE  Remembered = lastSaved
<1>1. ASSUME NEW k \in Key
      PROVE  Remembered[k] = lastSaved[k]
  <2>1. PICK u \in User, d \in Doc : k = <<u, d>>
    BY DEF Key
  <2>2. /\ \A i, j \in Matches(u, d) : i = j
        /\ \A i \in Matches(u, d) : table[i].rights = lastSaved[k]
        /\ lastSaved[k] # None => Matches(u, d) # {}
    BY <2>1 DEF CInv, CacheExact
  <2>3. CASE Matches(u, d) = {}
    BY <2>1, <2>2, <2>3 DEF Remembered
  <2>4. CASE Matches(u, d) # {}
    <3>1. PICK i \in Matches(u, d) : TRUE
      BY <2>4
    <3>2. i \in DOMAIN table /\ IsOldest(i, u, d)
      <4>1. i \in DOMAIN table /\ \A j \in Matches(u, d) : j = i
        BY <2>2, <3>1 DEF Matches
      <4>2. i \in Nat
        BY <4>1 DEF TInv, TypeOK
      <4> QED
        BY <3>1, <4>1, <4>2 DEF IsOldest
    <3>3. \A j \in DOMAIN table : IsOldest(j, u, d) => j \in Matches(u, d)
      BY DEF IsOldest
    <3>4. table[CHOOSE j \in DOMAIN table : IsOldest(j, u, d)].rights = lastSaved[k]
      BY <2>2, <3>2, <3>3
    <3> QED
      BY <2>1, <2>4, <3>4 DEF Remembered
  <2> QED
    BY <2>3, <2>4
<1>2. Remembered = [k \in Key |-> Remembered[k]]
  BY DEF Remembered
<1>3. lastSaved = [k \in Key |-> lastSaved[k]]
  BY DEF TInv, TypeOK
<1> QED
  BY <1>1, <1>2, <1>3

(* What the two cases of Decision say, request by request.                  *)
DecisionSays ==
  /\ Decision = [r \in Request |-> Decision[r]]
  /\ \A r \in Request :
       /\ pc[r] \in Choosing => Decision[r] = <<user[r], doc[r], rights[r]>>
       /\ pc[r] \notin Choosing => Decision[r] = None

LEMMA DecisionCases == DecisionSays
BY DEF DecisionSays, Decision

(* The places of a request with a decision, and a step of one request.      *)
OnlyMoves(r) ==
  \A q \in Request \ {r} : /\ pc'[q] = pc[q] /\ user'[q] = user[q]
                           /\ doc'[q] = doc[q] /\ rights'[q] = rights[q]

LEMMA OthersDecision ==
  ASSUME DecisionSays, DecisionSays', NEW r \in Request, OnlyMoves(r)
  PROVE  Decision' = [Decision EXCEPT ![r] = Decision'[r]]
<1>1. \A q \in Request \ {r} : Decision'[q] = Decision[q]
  BY DEF DecisionSays, OnlyMoves
<1> QED
  BY <1>1 DEF DecisionSays

(* A step that neither starts nor ends a decision leaves them all alone.    *)
LEMMA QuietCache ==
  ASSUME DecisionSays, DecisionSays', NEW r \in Request, OnlyMoves(r),
         pc[r] \notin Choosing, pc'[r] \notin Choosing
  PROVE  Decision' = Decision
<1>1. Decision' = [Decision EXCEPT ![r] = Decision'[r]]
  BY OthersDecision
<1>2. Decision'[r] = None /\ Decision[r] = None
  BY DEF DecisionSays, Choosing
<1> QED
  BY <1>1, <1>2 DEF DecisionSays

(* What has been undisturbed so far was so before the step.                 *)
LEMMA UndisturbedBefore ==
  ASSUME TInv, [Next]_vars, Undisturbed'
  PROVE  Undisturbed
<1> USE DEF Goes, Tell, CacheUnchanged, Undisturbed
<1>1. switches \in Nat
  BY DEF TInv, TypeOK
<1>2. ASSUME NEW r \in Request, NEW d \in Doc, NEW open \in BOOLEAN, NEW same \in BOOLEAN,
             Submit(r, d, open, same)
      PROVE  Undisturbed
  BY <1>2 DEF Submit
<1>3. ASSUME NEW r \in Request, \/ Inspect(r) \/ Granted(r) \/ NotGranted(r)
                                \/ WriteRow(r) \/ Truncate(r) \/ LoopForEver(r) \/ Decide(r)
      PROVE  Undisturbed
  BY <1>3 DEF Inspect, Granted, NotGranted, WriteRow, Truncate, LoopForEver, Decide
<1>4. ASSUME NEW r \in Request, SelectRow(r)
      PROVE  Undisturbed
  BY <1>4 DEF SelectRow
<1>5. ASSUME NEW r \in Request, UseCache(r) \/ DecryptNoPath(r) \/ Handle(r)
      PROVE  Undisturbed
  BY <1>5 DEF UseCache, GetKeyByDB, DecryptNoPath, DecryptInPlace, Handle, Finish, Restart
<1>6. ASSUME \/ \E u \in User : Config(u)
             \/ ProcessDeath \/ UNCHANGED vars
      PROVE  Undisturbed
  BY <1>1, <1>6 DEF Config, ProcessDeath, Restart, vars
<1> QED
  BY <1>2, <1>3, <1>4, <1>5, <1>6 DEF Next, Work

(* What a step on the map rests on.                                         *)
OldestIsSaved == raced = {} => Remembered = lastSaved
CacheInv == TInv /\ RInv /\ CInv /\ SameUserThroughout /\ OldestIsSaved /\ DecisionSays

LEMMA OldestSaved == TInv /\ CInv => OldestIsSaved
BY RememberedIsSaved DEF OldestIsSaved

LEMMA StepCache ==
  ASSUME CacheInv, CacheInv', [Next]_vars, Undisturbed'
  PROVE  [Cache!Next]_(Cache!vars)
<1> USE DEF Goes, Tell, CacheUnchanged
<1>0. /\ pc \in [Request -> Place] /\ user \in [Request -> User \cup {None}]
      /\ doc \in [Request -> Doc \cup {None}] /\ rights \in [Request -> SUBSET Right]
      /\ misfiled = {} /\ raced = {} /\ loginName \in User
      /\ \A r \in Request : pc[r] # "idle" => doc[r] \in Doc
      /\ Remembered = lastSaved /\ Remembered' = lastSaved'
      /\ DecisionSays /\ DecisionSays'
  <2>1. raced = {} /\ switches = 0 /\ raced' = {}
    BY UndisturbedBefore DEF Undisturbed, CacheInv
  <2> QED
    BY <2>1 DEF CacheInv, TInv, TypeOK, SameUserThroughout, OldestIsSaved
<1>1. ASSUME NEW r \in Request, OnlyMoves(r), pc[r] \notin Choosing, pc'[r] \notin Choosing,
             UNCHANGED <<issued, lastSaved>>
      PROVE  UNCHANGED Cache!vars
  BY <1>0, <1>1, QuietCache DEF Cache!vars
<1>2. ASSUME NEW r \in Request, NEW d \in Doc, NEW open \in BOOLEAN, NEW same \in BOOLEAN,
             Submit(r, d, open, same)
      PROVE  UNCHANGED Cache!vars
  <2>1. /\ OnlyMoves(r) /\ pc[r] \notin Choosing /\ pc'[r] \notin Choosing
        /\ UNCHANGED <<issued, lastSaved>>
    BY <1>0, <1>2 DEF Submit, OnlyMoves, Choosing
  <2> QED
    BY <1>1, <2>1
<1>3. ASSUME NEW r \in Request,
             \/ Inspect(r) \/ NotGranted(r) \/ SelectRow(r)
             \/ Finish(r, "told") \/ Finish(r, "toldNoFile")
      PROVE  UNCHANGED Cache!vars
  <2>1. /\ OnlyMoves(r) /\ pc[r] \notin Choosing /\ pc'[r] \notin Choosing
        /\ UNCHANGED <<issued, lastSaved>>
    BY <1>0, <1>3 DEF Inspect, NotGranted, SelectRow, Finish, OnlyMoves, Choosing
  <2> QED
    BY <1>1, <2>1
<1>4. ASSUME NEW r \in Request, Granted(r)
      PROVE  Cache!Next
  <2>1. PICK R \in Answer : /\ rights' = [rights EXCEPT ![r] = R]
                            /\ issued' = issued \cup {<<user[r], doc[r], R>>}
    BY <1>4 DEF Granted
  <2>2. user[r] \in User /\ doc[r] \in Doc
    BY <1>0, <1>4 DEF Granted, CacheInv, TInv, WorkingWithUser, Asked
  <2>3. /\ OnlyMoves(r) /\ pc[r] \notin Choosing /\ pc'[r] \notin Choosing
        /\ UNCHANGED lastSaved
    BY <1>0, <1>4, <2>1 DEF Granted, OnlyMoves, Choosing
  <2>4. UNCHANGED <<Remembered, Decision>>
    BY <1>0, <2>3, QuietCache
  <2> QED
    BY <2>1, <2>2, <2>4 DEF Cache!Next, Cache!Issue
<1>5. ASSUME NEW r \in Request, WriteRow(r)
      PROVE  Cache!Next
  <2>1. /\ pc[r] = "writing" /\ pc'[r] = "deciding" /\ OnlyMoves(r)
        /\ UNCHANGED <<user, doc, rights, issued>>
        /\ lastSaved' = [lastSaved EXCEPT ![<<user[r], doc[r]>>] = rights[r]]
    BY <1>0, <1>5 DEF WriteRow, OnlyMoves
  <2>2. user[r] \in User /\ doc[r] \in Doc /\ rights[r] \in Answer
    BY <1>0, <2>1
       DEF CacheInv, TInv, WorkingWithUser, WorkingWithRights, Asked, Holding
  <2>3. <<user[r], doc[r], rights[r]>> \in issued
    BY <1>0, <2>1 DEF CacheInv, RInv, RightsBacked, Holding, Backed
  <2>4. Decision[r] = None /\ Decision'[r] = <<user[r], doc[r], rights[r]>>
    BY <1>0, <2>1 DEF DecisionSays, Choosing
  <2>5. Decision' = [Decision EXCEPT ![r] = <<user[r], doc[r], rights[r]>>]
    BY <1>0, <2>1, <2>4, OthersDecision DEF OnlyMoves
  <2> QED
    BY <1>0, <2>1, <2>2, <2>3, <2>4, <2>5 DEF Cache!Next, Cache!DecideFresh
<1>6. ASSUME NEW r \in Request, NEW from \in {"failed", "abnormal"}, NEW to \in Choosing,
             GetKeyByDB(r, from, to)
      PROVE  Cache!Next \/ UNCHANGED Cache!vars
  <2>1. CASE Tell(r, from, "E_NetReqFail") /\ UNCHANGED <<rights, user>>
    <3>1. /\ OnlyMoves(r) /\ pc[r] \notin Choosing /\ pc'[r] \notin Choosing
          /\ UNCHANGED <<issued, lastSaved>>
      BY <1>0, <1>6, <2>1 DEF GetKeyByDB, OnlyMoves, Choosing
    <3> QED
      BY <1>1, <3>1
  <2>2. CASE ~ (Tell(r, from, "E_NetReqFail") /\ UNCHANGED <<rights, user>>)
    <3>1. PICK i \in DOMAIN table : /\ IsOldest(i, loginName, doc[r])
                                    /\ rights' = [rights EXCEPT ![r] = table[i].rights]
      BY <1>6, <2>2 DEF GetKeyByDB
    <3>2. /\ pc[r] = from /\ pc' = [pc EXCEPT ![r] = to]
          /\ user' = [user EXCEPT ![r] = loginName]
          /\ UNCHANGED <<doc, issued, lastSaved>>
      BY <1>6, <2>2 DEF GetKeyByDB
    <3>3. doc[r] \in Doc
      BY <1>0, <3>2
    <3>4. table[i].rights = lastSaved[<<loginName, doc[r]>>]
      BY <1>0, <3>1, <3>3 DEF CacheInv, CInv, CacheExact, IsOldest
    <3>5. table[i].rights # None
      BY RowRights, OpenFileAssumption DEF CacheInv, TInv, TypeOK
    <3>6. /\ OnlyMoves(r) /\ pc[r] \notin Choosing /\ pc'[r] \in Choosing
          /\ user'[r] = loginName /\ rights'[r] = table[i].rights
      BY <1>0, <3>1, <3>2 DEF OnlyMoves, Choosing
    <3>7. Decision[r] = None /\ Decision'[r] = <<loginName, doc[r], table[i].rights>>
      BY <1>0, <3>2, <3>6 DEF DecisionSays, Choosing
    <3>8. Decision' = [Decision EXCEPT ![r] = <<loginName, doc[r], table[i].rights>>]
      BY <1>0, <3>6, <3>7, OthersDecision DEF OnlyMoves
    <3> QED
      BY <1>0, <3>2, <3>3, <3>4, <3>5, <3>7, <3>8 DEF Cache!Next, Cache!DecideOffline
  <2> QED
    BY <2>1, <2>2
<1>7. ASSUME NEW r \in Request, LoopForEver(r) \/ Decide(r) \/ DecryptInPlace(r)
      PROVE  Cache!Next
  <2>1. /\ OnlyMoves(r) /\ pc[r] \in Choosing /\ pc'[r] \notin Choosing
        /\ UNCHANGED <<issued, lastSaved>>
    BY <1>0, <1>7 DEF LoopForEver, Decide, DecryptInPlace, OnlyMoves, Choosing
  <2>2. /\ Decision[r] = <<user[r], doc[r], rights[r]>> /\ Decision'[r] = None
        /\ <<user[r], doc[r], rights[r]>> \in User \X Doc \X Answer
    BY <1>0, <2>1 DEF DecisionSays, Choosing, CacheInv, TInv, WorkingWithUser,
       WorkingWithRights, Asked, Holding
  <2>3. Decision' = [Decision EXCEPT ![r] = None]
    BY <1>0, <2>1, <2>2, OthersDecision DEF OnlyMoves
  <2> QED
    BY <1>0, <2>1, <2>2, <2>3, OpenFileAssumption DEF Cache!Next, Cache!Decided
<1>8. ASSUME Restart
      PROVE  Cache!Next
  <2>1. \A r \in Request : Decision'[r] = None
    BY <1>0, <1>8 DEF Restart, DecisionSays, Choosing
  <2>2. Decision' = [r \in Request |-> None]
    BY <1>0, <2>1 DEF DecisionSays
  <2> QED
    BY <1>0, <1>8, <2>2 DEF Restart, Cache!Next, Cache!Die
<1>9. ASSUME \/ \E r \in Request : Truncate(r)
             \/ \E u \in User : Config(u)
             \/ UNCHANGED vars
      PROVE  UNCHANGED Cache!vars
  <2>1. UNCHANGED <<pc, user, doc, rights, issued, lastSaved>>
    BY <1>9 DEF Truncate, Config, vars
  <2>2. Decision' = Decision
    BY <2>1 DEF Decision
  <2> QED
    BY <1>0, <2>1, <2>2 DEF Cache!vars
<1>10. ASSUME NEW r \in Request, UseCache(r)
       PROVE  Cache!Next \/ UNCHANGED Cache!vars
  BY <1>6, <1>10 DEF UseCache, Choosing
<1>11. ASSUME NEW r \in Request, DecryptNoPath(r) \/ Handle(r)
       PROVE  Cache!Next \/ UNCHANGED Cache!vars
  BY <1>3, <1>7, <1>8, <1>11 DEF DecryptNoPath, Handle
<1>12. ProcessDeath => Cache!Next
  BY <1>8 DEF ProcessDeath
<1> QED
  BY <1>2, <1>3, <1>4, <1>5, <1>7, <1>9, <1>10, <1>11, <1>12 DEF Next, Work

LEMMA InitCache == Init => Cache!Init
<1> SUFFICES ASSUME Init PROVE Cache!Init
  OBVIOUS
<1>1. \A u, d : Matches(u, d) = {}
  BY DEF Init, Matches
<1>2. Remembered = [k \in User \X Doc |-> None]
  BY <1>1 DEF Remembered, Key
<1>3. Decision = [r \in Request |-> None]
  BY DEF Init, Decision, Choosing
<1> QED
  BY <1>2, <1>3 DEF Init, Cache!Init

(* As long as no saves overlap and the user changes with the process only,  *)
(* the table, written in two statements and read by its oldest row, is a map *)
(* of the rights the server gave last, and what decides a request comes from *)
(* the server or from that map, for its own user and document: DbService's   *)
(* save (DbService.java:40) and the fallbacks of openFileResultHandler.      *)
THEOREM TableIsRightsCache == Spec => CacheKept
<1>1. Init => CacheInv
  BY InitTInv, InitRInv, InitCInv, InitSameUser, OldestSaved, DecisionCases DEF CacheInv
<1>2. CacheInv /\ [Next]_vars => CacheInv'
  <2>1. DecisionSays'
    BY DecisionCases, PTL
  <2>2. TInv' /\ CInv' => OldestIsSaved'
    BY OldestSaved, PTL
  <2> QED
    BY <2>1, <2>2, StepTInv, StepRInv, StepCInv, StepSameUser DEF CacheInv
<1>3. CacheInv /\ CacheInv' /\ [Next]_vars => [Undisturbed' => Cache!Next]_(Cache!vars)
  BY StepCache
<1> QED
  BY <1>1, <1>2, <1>3, InitCache, PTL DEF Spec, CacheKept
=============================================================================
