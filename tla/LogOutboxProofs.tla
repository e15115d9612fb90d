---------------------------- MODULE LogOutboxProofs ----------------------------
(***************************************************************************)
(* Proofs about LogOutbox, for any number of records, users and calls in   *)
(* progress and any bound on the faults.                                   *)
(*                                                                         *)
(* NoSilentLoss is not inductive: a record leaves the table, or its call   *)
(* ends, on the word of the call.  The invariant therefore says what each  *)
(* call knows of its batch: after ReadField the body holds it (or it is    *)
(* misposted), after a success the server has it, and a batch taken from   *)
(* the table is still there unless another call delivered it.              *)
(***************************************************************************)
EXTENDS LogOutbox, TLAPS

Safe(l) == received[l] > 0 \/ l \in misposted

PostingCarriesBatch ==
  \A s \in Sender : pc[s] = "posting" => batch[s] \subseteq body[s] \cup misposted
AckedIsSafe ==
  \A s \in Sender : pc[s] = "acked" => \A l \in batch[s] : Safe(l)
TableBatchKept ==
  \A s \in Sender : fromTable[s] => \A l \in batch[s] : l \in table \/ Safe(l)

IInv == /\ TypeOK
        /\ PostingCarriesBatch
        /\ AckedIsSafe
        /\ TableBatchKept
        /\ NoSilentLoss

(* Storing a body keeps the counts in range, never lowers one, and leaves   *)
(* every record of the body received.                                       *)
LEMMA StoredRaises ==
  ASSUME received \in [Log -> 0..2], NEW logs \in SUBSET Log
  PROVE  /\ Stored(logs) \in [Log -> 0..2]
         /\ \A l \in Log : received[l] > 0 => Stored(logs)[l] > 0
         /\ \A l \in logs : Stored(logs)[l] > 0
BY DEF Stored

LEMMA InitIInv == Init => IInv
BY FaultAssumption
   DEF Init, IInv, TypeOK, Place, PostingCarriesBatch, AckedIsSafe, TableBatchKept,
       NoSilentLoss, Carried

(* A call of sendLog: the new batch is taken from the table or is the       *)
(* record of an operation that just ended, and now carried.                 *)
LEMMA CallIInv ==
  ASSUME IInv, NEW s \in Sender, Call(s)
  PROVE  IInv'
<1> USE DEF IInv
<1>1. ASSUME NEW logs \in SUBSET Log, NEW isStored \in BOOLEAN,
             SendLog(s, logs, isStored), done' = done \cup logs,
             isStored => logs \subseteq table
      PROVE  IInv'
  <2> USE <1>1 DEF SendLog
  <2>1. TypeOK'
    BY DEF TypeOK, Place
  <2>2. PostingCarriesBatch' /\ AckedIsSafe' /\ TableBatchKept'
    BY DEF PostingCarriesBatch, AckedIsSafe, TableBatchKept, Safe, TypeOK
  <2>3. batch[s] = {}
    BY DEF TypeOK
  <2>4. \A l \in Log : Carried(l) \/ l \in logs => Carried(l)'
    BY <2>3 DEF Carried, TypeOK
  <2>5. NoSilentLoss'
    BY <2>4 DEF NoSilentLoss, TypeOK
  <2> QED
    BY <2>1, <2>2, <2>5
<1>2. CASE \E l \in Log : SendRecord(s, l)
  BY <1>1, <1>2 DEF SendRecord
<1>3. CASE \E u \in User : SendOfflineLogs(s, u)
  <2>1. PICK u \in User : SendOfflineLogs(s, u)
    BY <1>3
  <2>2. SelectAllLog(u) \subseteq table /\ table \subseteq done /\ done \subseteq Log
    BY DEF SelectAllLog, TypeOK
  <2> QED
    BY <1>1, <2>1, <2>2 DEF SendOfflineLogs
<1> QED
  BY <1>2, <1>3 DEF Call

(* The thread reads the field: what the field lacks is misposted.           *)
LEMMA ReadFieldIInv ==
  ASSUME IInv, NEW s \in Sender, ReadField(s)
  PROVE  IInv'
<1> USE DEF IInv, ReadField
<1>1. TypeOK'
  BY DEF TypeOK, Place
<1>2. PostingCarriesBatch' /\ AckedIsSafe' /\ TableBatchKept'
  BY DEF PostingCarriesBatch, AckedIsSafe, TableBatchKept, Safe, TypeOK
<1>3. NoSilentLoss'
  BY DEF NoSilentLoss, Carried
<1> QED
  BY <1>1, <1>2, <1>3

(* The server stores the body; the answer arrives or is lost.               *)
LEMMA PostStoredIInv ==
  ASSUME IInv, NEW s \in Sender, PostAccepted(s) \/ PostReplyLost(s)
  PROVE  IInv'
<1> USE DEF IInv, PostAccepted, PostReplyLost
<1>1. /\ received' \in [Log -> 0..2]
      /\ \A l \in Log : received[l] > 0 => received'[l] > 0
      /\ \A l \in body[s] : received'[l] > 0
  <2>1. received \in [Log -> 0..2] /\ body[s] \in SUBSET Log
    BY DEF TypeOK
  <2>2. received' = Stored(body[s])
    OBVIOUS
  <2> QED
    BY <2>1, <2>2, StoredRaises
<1>2. TypeOK'
  BY <1>1, FaultAssumption DEF TypeOK, Place
<1>3. PostingCarriesBatch'
  BY DEF PostingCarriesBatch, TypeOK
<1>4. AckedIsSafe'
  BY <1>1 DEF AckedIsSafe, PostingCarriesBatch, Safe, TypeOK
<1>5. TableBatchKept'
  BY <1>1 DEF TableBatchKept, Safe, TypeOK
<1>6. NoSilentLoss'
  BY <1>1 DEF NoSilentLoss, Carried, TypeOK
<1> QED
  BY <1>2, <1>3, <1>4, <1>5, <1>6

LEMMA PostRefusedIInv ==
  ASSUME IInv, NEW s \in Sender, PostRefused(s)
  PROVE  IInv'
<1> USE DEF IInv, PostRefused
<1>1. TypeOK'
  BY DEF TypeOK, Place
<1>2. PostingCarriesBatch' /\ AckedIsSafe' /\ TableBatchKept'
  BY DEF PostingCarriesBatch, AckedIsSafe, TableBatchKept, Safe, TypeOK
<1>3. NoSilentLoss'
  BY DEF NoSilentLoss, Carried
<1> QED
  BY <1>1, <1>2, <1>3

(* Deleting takes a record out of the table and out of the batch; the       *)
(* success the call has seen makes that safe.                               *)
LEMMA DeleteLogIInv ==
  ASSUME IInv, NEW s \in Sender, DeleteLog(s)
  PROVE  IInv'
<1> USE DEF IInv, DeleteLog
<1>1. PICK d \in batch[s] : /\ table' = table \ {d}
                            /\ batch' = [batch EXCEPT ![s] = @ \ {d}]
  OBVIOUS
<1>2. Safe(d)
  BY DEF AckedIsSafe
<1>3. TypeOK'
  BY <1>1 DEF TypeOK, Place
<1>4. PostingCarriesBatch' /\ AckedIsSafe' /\ TableBatchKept'
  BY <1>1, <1>2 DEF PostingCarriesBatch, AckedIsSafe, TableBatchKept, Safe, TypeOK
<1>5. NoSilentLoss'
  <2> SUFFICES ASSUME NEW l \in done, l # d
               PROVE  \/ l \in table' \/ Carried(l)'
                      \/ received[l] > 0
                      \/ l \in lost \cup misposted
    BY <1>2 DEF NoSilentLoss, Safe
  <2>1. Carried(l) => Carried(l)'
    BY <1>1 DEF Carried, TypeOK
  <2> QED
    BY <1>1, <2>1 DEF NoSilentLoss
<1> QED
  BY <1>3, <1>4, <1>5

(* A call that ends lets go of records that are delivered, stored in the    *)
(* table, or inserted there now, or counted as lost if that fails.          *)
LEMMA ReturnIInv ==
  ASSUME IInv, NEW s \in Sender, FinishAcked(s) \/ StoreFailed(s)
  PROVE  IInv'
<1> USE DEF IInv, FinishAcked, StoreFailed, Return
<1>1. /\ table \subseteq table' /\ table' \subseteq table \cup batch[s]
      /\ \A l \in batch[s] : l \in table' \/ l \in lost' \/ Safe(l)
      /\ fromTable[s] \/ pc[s] = "acked" => \A l \in batch[s] : l \in table' \/ Safe(l)
      /\ lost \subseteq lost' /\ lost' \subseteq lost \cup batch[s]
  BY DEF AckedIsSafe, TableBatchKept
<1>2. TypeOK'
  BY <1>1 DEF TypeOK, Place
<1>3. PostingCarriesBatch' /\ AckedIsSafe' /\ TableBatchKept'
  BY <1>1 DEF PostingCarriesBatch, AckedIsSafe, TableBatchKept, Safe, TypeOK
<1>4. \A l \in Log : Carried(l) => l \in batch[s] \/ Carried(l)'
  BY DEF Carried, TypeOK
<1>5. NoSilentLoss'
  BY <1>1, <1>4 DEF NoSilentLoss, Safe, TypeOK
<1> QED
  BY <1>2, <1>3, <1>5

(* The process dies: what only the memory held is lost, and counted so.     *)
LEMMA ProcessDeathIInv ==
  ASSUME IInv, ProcessDeath
  PROVE  IInv'
<1> USE DEF IInv, ProcessDeath
<1>1. lost' \in SUBSET Log
  BY DEF TypeOK
<1>2. TypeOK'
  BY <1>1, FaultAssumption DEF TypeOK, Place
<1>3. PostingCarriesBatch' /\ AckedIsSafe' /\ TableBatchKept'
  BY DEF PostingCarriesBatch, AckedIsSafe, TableBatchKept
<1>4. ASSUME NEW l, Carried(l)
      PROVE  l \in lost' \/ l \in table \/ Safe(l)
  BY <1>4 DEF Carried, TableBatchKept
<1>5. NoSilentLoss'
  BY <1>4 DEF NoSilentLoss, Safe
<1> QED
  BY <1>2, <1>3, <1>5

LEMMA NextIInv == IInv /\ [Next]_vars => IInv'
<1> SUFFICES ASSUME IInv, [Next]_vars PROVE IInv'
  OBVIOUS
<1>1. ASSUME NEW s \in Sender, Call(s) PROVE IInv'
  BY <1>1, CallIInv
<1>2. ASSUME NEW s \in Sender, Work(s) PROVE IInv'
  BY <1>2, ReadFieldIInv, PostStoredIInv, PostRefusedIInv, DeleteLogIInv, ReturnIInv
     DEF Work
<1>3. CASE ProcessDeath
  BY <1>3, ProcessDeathIInv
<1>4. CASE UNCHANGED vars
  BY <1>4 DEF vars, IInv, TypeOK, PostingCarriesBatch, AckedIsSafe, TableBatchKept,
              NoSilentLoss, Carried, Safe
<1> QED
  BY <1>1, <1>2, <1>3, <1>4 DEF Next

LEMMA SpecIInv == Spec => []IInv
BY InitIInv, NextIInv, PTL DEF Spec

(* Type correctness of the outbox; an idle call holds no records.           *)
THEOREM TypeCorrect == Spec => []TypeOK
<1>1. IInv => TypeOK
  BY DEF IInv
<1> QED
  BY <1>1, SpecIInv, PTL

(* However many sendLog calls overlap and whatever the server and the       *)
(* network do, a record is only ever lost with the process, by a failing    *)
(* insert or through the shared field userLogsString.                       *)
THEOREM RecordsSurvive == Spec => []NoSilentLoss
<1>1. IInv => NoSilentLoss
  BY DEF IInv
<1> QED
  BY <1>1, SpecIInv, PTL
-----------------------------------------------------------------------------
(* One call of sendLog at a time, and an XML that can always be built: then *)
(* the body is the batch, and a new record is not in the table.             *)
Serial == ~BuildMayFail /\ \A s, t \in Sender : s = t

PostsItsBatch ==
  /\ misposted = {}
  /\ \A s \in Sender : /\ pc[s] = "started" => userLogsString = batch[s]
                       /\ pc[s] = "posting" => body[s] = batch[s]
                       /\ ~fromTable[s] => batch[s] \cap table = {}
  /\ \A l \in Log \ done : received[l] = 0

(* While nothing has failed: what is stored or on its way is not received,  *)
(* except for the rows that an acknowledged call is about to delete.        *)
Unheard(l) == received[l] = 0
AckedRow(l) == \E s \in Sender : pc[s] = "acked" /\ fromTable[s] /\ l \in batch[s]
NoFault == deaths = 0 /\ lostReplies = 0
Unreceived ==
  /\ NoDuplicate
  /\ NoFault => /\ \A s \in Sender : pc[s] # "acked" => \A l \in batch[s] : Unheard(l)
                /\ \A l \in table : Unheard(l) \/ AckedRow(l)

SerialInv == IInv /\ PostsItsBatch

LEMMA InitSerial == Init => PostsItsBatch /\ Unreceived
BY DEF Init, PostsItsBatch, Unreceived, NoDuplicate, Unheard

LEMMA SerialPosts ==
  ASSUME Serial, SerialInv, [Next]_vars
  PROVE  PostsItsBatch'
<1> USE DEF SerialInv, Serial, PostsItsBatch, IInv, TypeOK
<1>1. CASE \E s \in Sender : Call(s)
  <2>1. PICK s \in Sender : Call(s)
    BY <1>1
  <2>2. /\ pc' = [pc EXCEPT ![s] = "started"] /\ userLogsString' = batch'[s]
        /\ UNCHANGED <<table, received, misposted>> /\ done \subseteq done'
    BY <2>1 DEF Call, SendRecord, SendOfflineLogs, SendLog
  <2>3. ~fromTable'[s] => batch'[s] \cap table = {}
    BY <2>1 DEF Call, SendRecord, SendOfflineLogs, SendLog
  <2> QED
    BY <2>2, <2>3
<1>2. CASE \E s \in Sender : ReadField(s)
  BY <1>2 DEF ReadField
<1>3. CASE \E s \in Sender : PostAccepted(s) \/ PostReplyLost(s)
  BY <1>3 DEF PostAccepted, PostReplyLost, Stored
<1>4. CASE \E s \in Sender : PostRefused(s) \/ DeleteLog(s) \/ FinishAcked(s) \/ StoreFailed(s)
  BY <1>4 DEF PostRefused, DeleteLog, FinishAcked, StoreFailed, Return
<1>5. CASE ProcessDeath \/ UNCHANGED vars
  BY <1>5 DEF ProcessDeath, vars
<1> QED
  BY <1>1, <1>2, <1>3, <1>4, <1>5 DEF Next, Work

(* Faults do not go away, so the step starts without one if it ends so.     *)
LEMMA FaultsStay == TypeOK /\ [Next]_vars /\ NoFault' => NoFault
<1> SUFFICES ASSUME TypeOK, [Next]_vars, NoFault'
             PROVE  NoFault
  OBVIOUS
<1>1. CASE ProcessDeath
  BY <1>1, FaultAssumption DEF ProcessDeath, NoFault, TypeOK
<1>2. CASE \E s \in Sender : PostReplyLost(s)
  BY <1>2, FaultAssumption DEF PostReplyLost, NoFault, TypeOK
<1>3. CASE UNCHANGED <<deaths, lostReplies>>
  BY <1>3 DEF NoFault
<1>4. (\E s \in Sender : Call(s)) => UNCHANGED <<deaths, lostReplies>>
  BY DEF Call, SendRecord, SendOfflineLogs, SendLog
<1>5. ASSUME NEW s \in Sender, Work(s)
      PROVE  PostReplyLost(s) \/ UNCHANGED <<deaths, lostReplies>>
  BY <1>5 DEF Work, ReadField, PostAccepted, PostRefused, DeleteLog, FinishAcked,
              StoreFailed, Return
<1>6. UNCHANGED vars => UNCHANGED <<deaths, lostReplies>>
  BY DEF vars
<1> QED
  BY <1>1, <1>2, <1>3, <1>4, <1>5, <1>6 DEF Next

LEMMA SerialUnreceived ==
  ASSUME Serial, SerialInv, Unreceived, [Next]_vars
  PROVE  Unreceived'
<1> SUFFICES ASSUME NoFault'
             PROVE  /\ \A l \in Log : received'[l] <= 1
                    /\ \A s \in Sender : pc'[s] # "acked" => \A l \in batch'[s] : Unheard(l)'
                    /\ \A l \in table' : Unheard(l)' \/ AckedRow(l)'
  BY DEF Unreceived, NoDuplicate, NoFault
<1>0. NoFault
  BY FaultsStay DEF SerialInv, IInv
<1>a. /\ \A l \in Log : received[l] <= 1
      /\ \A s \in Sender : pc[s] # "acked" => \A l \in batch[s] : Unheard(l)
      /\ \A l \in table : Unheard(l) \/ AckedRow(l)
  BY <1>0 DEF Unreceived, NoDuplicate, NoFault
<1> USE DEF SerialInv, Serial, PostsItsBatch, IInv, TypeOK, Unheard, AckedRow
<1>1. CASE \E s \in Sender : Call(s)
  <2>1. PICK s \in Sender : Call(s)
    BY <1>1
  <2>2. UNCHANGED <<received, table>> /\ pc[s] = "idle" /\ pc'[s] = "started"
    BY <2>1 DEF Call, SendRecord, SendOfflineLogs, SendLog
  <2>3. \A l \in table : Unheard(l)
    BY <1>a, <2>2
  <2>4. \A l \in batch'[s] : Unheard(l)
    BY <2>1, <2>3 DEF Call, SendRecord, SendOfflineLogs, SendLog, SelectAllLog
  <2> QED
    BY <1>a, <2>2, <2>3, <2>4
<1>2. CASE \E s \in Sender : ReadField(s) \/ PostRefused(s)
  BY <1>2, <1>a DEF ReadField, PostRefused
<1>3. CASE \E s \in Sender : PostAccepted(s)
  <2>1. PICK s \in Sender : PostAccepted(s)
    BY <1>3
  <2>2. /\ pc[s] = "posting" /\ pc'[s] = "acked" /\ received' = Stored(batch[s])
        /\ UNCHANGED <<table, batch, fromTable>>
    BY <2>1 DEF PostAccepted
  <2>3. /\ \A l \in table : Unheard(l) /\ l \in Log
        /\ \A l \in batch[s] : Unheard(l)
    BY <1>a, <2>2
  <2>4. \A l \in Log : received'[l] <= 1 /\ (l \notin batch[s] => received'[l] = received[l])
    BY <1>a, <2>2, <2>3 DEF Stored
  <2> QED
    BY <2>2, <2>3, <2>4
<1>4. CASE \E s \in Sender : PostReplyLost(s)
  BY <1>4, <1>0 DEF PostReplyLost, NoFault
<1>5. CASE \E s \in Sender : DeleteLog(s)
  BY <1>5, <1>a DEF DeleteLog
<1>6. CASE \E s \in Sender : FinishAcked(s)
  BY <1>6, <1>a DEF FinishAcked, Return
<1>7. CASE \E s \in Sender : StoreFailed(s)
  BY <1>7, <1>a DEF StoreFailed, Return
<1>8. CASE ProcessDeath
  BY <1>8, <1>0 DEF ProcessDeath, NoFault
<1>9. CASE UNCHANGED vars
  BY <1>9, <1>a DEF vars
<1> QED
  BY <1>1, <1>2, <1>3, <1>4, <1>5, <1>6, <1>7, <1>8, <1>9 DEF Next, Work

(* With one call at a time, and while no reply is lost and the process      *)
(* lives, the server stores no record twice, whatever it refuses.           *)
THEOREM SerialSendsOnce ==
  ASSUME Serial
  PROVE  Spec => []NoDuplicate
<1>1. Init => IInv /\ PostsItsBatch /\ Unreceived
  BY InitIInv, InitSerial
<1>2. IInv /\ PostsItsBatch /\ Unreceived /\ [Next]_vars
        => (IInv /\ PostsItsBatch /\ Unreceived)'
  BY NextIInv, SerialPosts, SerialUnreceived DEF SerialInv
<1>3. Unreceived => NoDuplicate
  BY DEF Unreceived
<1> QED
  BY <1>1, <1>2, <1>3, PTL DEF Spec

(* With one call at a time the success of an upload is what it says: the    *)
(* rows that sendLogSuccess deletes, and the record it lets go, have been   *)
(* stored by the server, whatever was refused, lost or sent again before.   *)
(* Two overlapping calls are what it takes to break this (run log_overlap). *)
THEOREM UploadsAreTrue ==
  ASSUME Serial
  PROVE  Spec => []UploadSucceeded
<1>1. Init => IInv /\ PostsItsBatch
  BY InitIInv, InitSerial
<1>2. IInv /\ PostsItsBatch /\ [Next]_vars => (IInv /\ PostsItsBatch)'
  BY NextIInv, SerialPosts DEF SerialInv
<1>3. IInv /\ PostsItsBatch => UploadSucceeded
  BY DEF IInv, AckedIsSafe, Safe, PostsItsBatch, UploadSucceeded
<1> QED
  BY <1>1, <1>2, <1>3, PTL DEF Spec
-----------------------------------------------------------------------------
(* The refinement.  What the cases of Status say, record by record.         *)
StatusSays ==
  /\ Status = [l \in Log |-> Status[l]]
  /\ \A l \in Log :
       /\ l \notin done => Status[l] = "new"
       /\ l \in done /\ received[l] > 0 => Status[l] = "delivered"
       /\ l \in done /\ ~(received[l] > 0) /\ (l \in table \/ Carried(l)) => Status[l] = "kept"
       /\ l \in done /\ ~(received[l] > 0) /\ l \notin table /\ ~Carried(l) => Status[l] = "lost"

LEMMA StatusCases == StatusSays
BY DEF StatusSays, Status

(* Records that keep their place keep their status.                         *)
StaysPut(l) ==
  /\ l \in done' <=> l \in done
  /\ received'[l] > 0 <=> received[l] > 0
  /\ received[l] > 0 \/ (l \in table' \/ Carried(l)') <=> received[l] > 0 \/ (l \in table \/ Carried(l))

LEMMA StatusStays ==
  ASSUME NEW l \in Log, StaysPut(l), StatusSays, StatusSays'
  PROVE  Status'[l] = Status[l]
<1>1. CASE l \notin done
  BY <1>1 DEF StatusSays, StaysPut
<1>2. CASE l \in done /\ received[l] > 0
  BY <1>2 DEF StatusSays, StaysPut
<1>3. CASE l \in done /\ ~(received[l] > 0) /\ (l \in table \/ Carried(l))
  BY <1>3 DEF StatusSays, StaysPut
<1>4. CASE l \in done /\ ~(received[l] > 0) /\ l \notin table /\ ~Carried(l)
  BY <1>4 DEF StatusSays, StaysPut
<1> QED
  BY <1>1, <1>2, <1>3, <1>4

LEMMA InitDelivery == Init => Delivery!Init
<1> SUFFICES ASSUME Init PROVE Delivery!Init
  OBVIOUS
<1>1. \A l \in Log : Status[l] = "new"
  BY StatusCases DEF StatusSays, Init
<1>2. Status = [l \in Log |-> "new"]
  BY <1>1, StatusCases DEF StatusSays
<1> QED
  BY <1>2 DEF Init, Delivery!Init

LEMMA StepDelivery ==
  ASSUME Serial, SerialInv, [Next]_vars, StatusSays, StatusSays'
  PROVE  [Delivery!Next]_(Delivery!vars)
<1> DEFINE Same(S) == \A l \in Log \ S : StaysPut(l)
<1>0. /\ misposted = {} /\ done \subseteq Log /\ table \subseteq done
      /\ batch \in [Sender -> SUBSET done] /\ received \in [Log -> 0..2]
      /\ \A s, t \in Sender : s = t
      /\ \A l \in Log : l \in done \/ ~(received[l] > 0)
  BY DEF SerialInv, IInv, TypeOK, PostsItsBatch, Serial
<1>1. ASSUME NEW S \in SUBSET Log, NEW st, Same(S), \A l \in S : Status'[l] = st
      PROVE  Status' = [l \in Log |-> IF l \in S THEN st ELSE Status[l]]
  <2>1. \A l \in Log : Status'[l] = IF l \in S THEN st ELSE Status[l]
    BY <1>1, StatusStays
  <2> QED
    BY <2>1 DEF StatusSays
<1>2. ASSUME Same({}), UNCHANGED deaths
      PROVE  UNCHANGED (Delivery!vars)
  <2>1. Status' = Status
    <3>1. \A l \in Log : Status'[l] = Status[l]
      BY <1>2, StatusStays
    <3> QED
      BY <3>1 DEF StatusSays
  <2> QED
    BY <1>2, <2>1 DEF Delivery!vars
<1>3. CASE \E s \in Sender, l \in Log : SendRecord(s, l)
  <2>1. PICK s \in Sender, l \in Log : SendRecord(s, l)
    BY <1>3
  <2>2. /\ l \notin done /\ done' = done \cup {l} /\ UNCHANGED <<table, received, deaths>>
        /\ batch' = [batch EXCEPT ![s] = {l}] /\ batch[s] = {}
    BY <2>1 DEF SendRecord, SendLog, SerialInv, IInv, TypeOK
  <2>3. Same({l})
    BY <1>0, <2>2 DEF StaysPut, Carried
  <2>4. Status[l] = "new" /\ Status'[l] = "kept"
    <3>1. Carried(l)'
      BY <1>0, <2>2 DEF Carried
    <3> QED
      BY <1>0, <2>2, <3>1 DEF StatusSays
  <2>5. Status' = [k \in Log |-> IF k \in {l} THEN "kept" ELSE Status[k]]
    <3>1. {l} \in SUBSET Log /\ \A k \in {l} : Status'[k] = "kept"
      BY <2>4
    <3> HIDE DEF Same
    <3> QED
      BY <1>1, <2>3, <3>1
  <2>6. Delivery!Record(l)
    BY <2>2, <2>4, <2>5 DEF Delivery!Record, Delivery!Become
  <2> QED
    BY <2>6 DEF Delivery!Next
<1>4. CASE \E s \in Sender, u \in User : SendOfflineLogs(s, u)
  <2>1. PICK s \in Sender, u \in User : SendOfflineLogs(s, u)
    BY <1>4
  <2>2. /\ UNCHANGED <<done, table, received, deaths>> /\ batch[s] = {}
        /\ batch' = [batch EXCEPT ![s] = SelectAllLog(u)] /\ SelectAllLog(u) \subseteq table
    BY <2>1 DEF SendOfflineLogs, SendLog, SelectAllLog, SerialInv, IInv, TypeOK
  <2>3. Same({})
    BY <1>0, <2>2 DEF StaysPut, Carried
  <2> QED
    BY <1>2, <2>2, <2>3
<1>5. CASE \E s \in Sender : ReadField(s) \/ PostRefused(s)
  <2>1. UNCHANGED <<done, table, received, batch, deaths>>
    BY <1>5 DEF ReadField, PostRefused
  <2>2. Same({})
    BY <2>1 DEF StaysPut, Carried
  <2> QED
    BY <1>2, <2>1, <2>2
<1>6. CASE \E s \in Sender : PostAccepted(s) \/ PostReplyLost(s)
  <2>1. PICK s \in Sender : PostAccepted(s) \/ PostReplyLost(s)
    BY <1>6
  <2>2. /\ received' = Stored(batch[s]) /\ UNCHANGED <<done, table, batch, deaths>>
    BY <2>1 DEF PostAccepted, PostReplyLost, SerialInv, PostsItsBatch
  <2>3. Same(batch[s])
    BY <1>0, <2>2 DEF StaysPut, Carried, Stored
  <2>4. \A l \in batch[s] : l \in done /\ Carried(l) /\ received'[l] > 0
    BY <1>0, <2>2 DEF Carried, Stored
  <2>5. \A l \in batch[s] : Status[l] \in {"kept", "delivered"} /\ Status'[l] = "delivered"
    BY <1>0, <2>2, <2>4 DEF StatusSays
  <2>6. batch[s] \in SUBSET Log
    BY <1>0
  <2>7. Status' = [k \in Log |-> IF k \in batch[s] THEN "delivered" ELSE Status[k]]
    BY <1>1, <2>3, <2>5, <2>6
  <2>8. Delivery!Deliver(batch[s])
    BY <2>2, <2>5, <2>7 DEF Delivery!Deliver, Delivery!Become
  <2> QED
    BY <2>6, <2>8 DEF Delivery!Next
<1>7. ASSUME NEW s \in Sender,
             \/ DeleteLog(s) \/ FinishAcked(s)
             \/ StoreFailed(s) /\ (fromTable[s] \/ table' = table \cup batch[s])
      PROVE  [Delivery!Next]_(Delivery!vars)
  <2>2. UNCHANGED <<done, received, deaths>>
    BY <1>7 DEF DeleteLog, FinishAcked, StoreFailed, Return
  <2>3. \A l \in Log : received[l] > 0 \/ (l \in table' \/ Carried(l)' <=> l \in table \/ Carried(l))
    <3>1. CASE DeleteLog(s)
      BY <1>0, <3>1 DEF DeleteLog, Carried, SerialInv, IInv, AckedIsSafe, Safe
    <3>2. CASE FinishAcked(s)
      BY <1>0, <3>2 DEF FinishAcked, Return, Carried, SerialInv, IInv, AckedIsSafe, Safe
    <3>3. CASE StoreFailed(s) /\ (fromTable[s] \/ table' = table \cup batch[s])
      <4>1. /\ table \subseteq table' /\ table' \subseteq table \cup batch[s]
            /\ \A l \in batch[s] : l \in table' \/ received[l] > 0
        <5>1. CASE fromTable[s]
          BY <1>0, <3>3, <5>1 DEF StoreFailed, SerialInv, IInv, TableBatchKept, Safe
        <5>2. CASE ~fromTable[s] /\ table' = table \cup batch[s]
          BY <5>2
        <5> QED
          BY <3>3, <5>1, <5>2
      <4>2. \A l : Carried(l) => l \in batch[s]
        BY <1>0 DEF Carried
      <4>3. \A l : ~Carried(l)'
        BY <1>0, <3>3 DEF StoreFailed, Return, Carried
      <4> QED
        BY <4>1, <4>2, <4>3 DEF Carried
    <3> QED
      BY <1>7, <3>1, <3>2, <3>3
  <2>4. Same({})
    BY <2>2, <2>3 DEF StaysPut
  <2> QED
    BY <1>2, <2>2, <2>4
<1>a. ASSUME NEW s \in Sender, StoreFailed(s), ~fromTable[s], InsertMayFail,
             UNCHANGED table
      PROVE  [Delivery!Next]_(Delivery!vars)
  <2> DEFINE Gone == {l \in batch[s] : ~(received[l] > 0)}
  <2>2. /\ InsertMayFail /\ UNCHANGED <<done, table, received, deaths>>
        /\ \A l : ~Carried(l)'
    BY <1>0, <1>a DEF StoreFailed, Return, Carried
  <2>3. batch[s] \cap table = {} /\ \A l : Carried(l) <=> l \in batch[s]
    BY <1>0, <1>a DEF SerialInv, PostsItsBatch, Carried
  <2>4. Same(Gone)
    BY <2>2, <2>3 DEF StaysPut
  <2>5. Gone \in SUBSET Log /\ \A l \in Gone : l \in done /\ l \notin table /\ Carried(l)
    BY <1>0, <2>3
  <2>6. \A l \in Gone : Status[l] = "kept" /\ Status'[l] = "lost"
    BY <2>2, <2>5 DEF StatusSays
  <2> HIDE DEF Gone
  <2>7. Status' = [k \in Log |-> IF k \in Gone THEN "lost" ELSE Status[k]]
    BY <1>1, <2>4, <2>5, <2>6
  <2>8. Delivery!Drop(Gone)
    BY <2>2, <2>6, <2>7 DEF Delivery!Drop, Delivery!Become
  <2> QED
    BY <2>5, <2>8 DEF Delivery!Next
<1>8. CASE ProcessDeath
  <2> DEFINE Gone == {l \in done : ~(received[l] > 0) /\ l \notin table /\ Carried(l)}
  <2>1. /\ UNCHANGED <<done, table, received>> /\ deaths < MaxDeaths /\ deaths' = deaths + 1
        /\ \A l \in Log : ~Carried(l)'
    BY <1>8 DEF ProcessDeath, Carried
  <2>2. Same(Gone)
    BY <1>0, <2>1 DEF StaysPut, Carried
  <2>3. \A l \in Gone : Status[l] = "kept" /\ Status'[l] = "lost"
    BY <1>0, <2>1 DEF StatusSays
  <2>4. Gone \in SUBSET Log
    BY <1>0
  <2> HIDE DEF Gone
  <2>5. Status' = [k \in Log |-> IF k \in Gone THEN "lost" ELSE Status[k]]
    BY <1>1, <2>2, <2>3, <2>4
  <2>6. Delivery!Die(Gone)
    BY <2>1, <2>3, <2>5 DEF Delivery!Die, Delivery!Become
  <2> QED
    BY <2>4, <2>6 DEF Delivery!Next
<1>9. CASE UNCHANGED vars
  <2>1. UNCHANGED <<done, table, received, batch, deaths>>
    BY <1>9 DEF vars
  <2>2. Same({})
    BY <2>1 DEF StaysPut, Carried
  <2> QED
    BY <1>2, <2>1, <2>2
<1>b. ASSUME NEW s \in Sender, StoreFailed(s)
      PROVE  \/ fromTable[s] \/ table' = table \cup batch[s]
             \/ ~fromTable[s] /\ InsertMayFail /\ UNCHANGED table
  BY <1>b DEF StoreFailed
<1> QED
  BY <1>3, <1>4, <1>5, <1>6, <1>7, <1>8, <1>9, <1>a, <1>b DEF Next, Call, Work

(* With one call of sendLog at a time the outbox implements LogDelivery: no *)
(* fault but the death of the process and a failing insert takes a record.  *)
THEOREM OutboxDelivers ==
  ASSUME Serial
  PROVE  Spec => DeliveryKept
<1>1. Init => IInv /\ PostsItsBatch
  BY InitIInv, InitSerial
<1>2. IInv /\ PostsItsBatch /\ [Next]_vars => (IInv /\ PostsItsBatch)'
  BY NextIInv, SerialPosts DEF SerialInv
<1>3. IInv /\ PostsItsBatch /\ [Next]_vars /\ StatusSays /\ StatusSays'
        => [Delivery!Next]_(Delivery!vars)
  BY StepDelivery DEF SerialInv
<1> QED
  BY <1>1, <1>2, <1>3, InitDelivery, StatusCases, PTL DEF Spec, DeliveryKept, Delivery!Spec
=============================================================================
