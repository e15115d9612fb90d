------------------------------- MODULE LogOutbox -------------------------------
(***************************************************************************)
(* The audit log of MSD: every open or decryption that ends, well or not,  *)
(* leaves one record, which sendLog posts to the server from a thread of   *)
(* its own.  A record that does not get through is inserted into the       *)
(* LogTable, and is gone if the insert fails, which is only logged;        *)
(* sds_config and a successful sds_authenticate send the stored records of *)
(* the user again and delete those the server acknowledges.                *)
(*                                                                         *)
(* sendLog runs on the main thread, so two calls do not overlap.  It puts  *)
(* the XML of its batch into the field userLogsString of the singleton;    *)
(* the thread it starts reads the field when it runs.  Between the two,    *)
(* another call may have written the field.                                *)
(*                                                                         *)
(* A record with an id comes from the LogTable (fromTable), one without is *)
(* the record of an operation that just ended; a batch is all of one kind. *)
(* The XML of a batch is represented by the set of its records.            *)
(***************************************************************************)
EXTENDS Naturals, FiniteSets

CONSTANTS
  Log,            \* audit records, one per operation the user runs
  User,           \* login names
  LoginNameOf,    \* the login name each record was made under
  Sender,         \* sendLog calls in progress, at most this many at once
  BuildMayFail,   \* buildLogSendXMLString may throw
  InsertMayFail,  \* db.insert may return -1
  MaxDeaths,      \* bound on the deaths of the process
  MaxLostReplies  \* bound on replies that get lost after the server stored a batch

ASSUME LoginNameAssumption == LoginNameOf \in [Log -> User]
ASSUME FaultAssumption ==
  /\ BuildMayFail \in BOOLEAN /\ InsertMayFail \in BOOLEAN
  /\ MaxDeaths \in Nat /\ MaxLostReplies \in Nat

VARIABLES
  table,          \* the records in the LogTable
  userLogsString, \* the field: the records in the XML built last ({}: null)
  pc,             \* where each call is
  batch,          \* userLogs: the records the call was given
  fromTable,      \* does the batch come from the LogTable?
  body,           \* the XML the call's thread has put into its request
  received,       \* how often the server stored each record: none, once, more (2)
  done,           \* the records of the operations that have ended
  misposted,      \* records whose call posted an XML without them
  lost,           \* records only in memory as the process died or their insert failed
  deaths, lostReplies

vars == <<table, userLogsString, pc, batch, fromTable, body, received, done,
          misposted, lost, deaths, lostReplies>>

(* "idle", "started": sendLog has returned and its thread has not read the  *)
(* field yet, "posting": the request is out, "acked" and "failed": the      *)
(* answer is in and the callback runs.                                      *)
Place == {"idle", "started", "posting", "acked", "failed"}

Init ==
  /\ table = {}
  /\ userLogsString = {}
  /\ pc = [s \in Sender |-> "idle"]
  /\ batch = [s \in Sender |-> {}]
  /\ fromTable = [s \in Sender |-> FALSE]
  /\ body = [s \in Sender |-> {}]
  /\ received = [l \in Log |-> 0]
  /\ done = {}
  /\ misposted = {}
  /\ lost = {}
  /\ deaths = 0
  /\ lostReplies = 0

-----------------------------------------------------------------------------
(* sendLog: build the XML into the field and start the thread.  If building *)
(* throws, the exception is printed and the field keeps its old value.      *)
SendLog(s, logs, isStored) ==
  /\ pc[s] = "idle"
  /\ logs # {}
  /\ \/ userLogsString' = logs
     \/ BuildMayFail /\ UNCHANGED userLogsString
  /\ pc' = [pc EXCEPT ![s] = "started"]
  /\ batch' = [batch EXCEPT ![s] = logs]
  /\ fromTable' = [fromTable EXCEPT ![s] = isStored]
  /\ UNCHANGED <<table, body, received, misposted, lost, deaths, lostReplies>>

(* A handler reports the end of an operation and sends its record.          *)
SendRecord(s, l) ==
  /\ l \notin done
  /\ done' = done \cup {l}
  /\ SendLog(s, {l}, FALSE)

(* selectAllLog: the stored records of the user.                            *)
SelectAllLog(u) == {l \in table : LoginNameOf[l] = u}

(* sds_config, sds_authenticate: send the user's stored records again.      *)
SendOfflineLogs(s, u) ==
  /\ SendLog(s, SelectAllLog(u), TRUE)
  /\ UNCHANGED done

-----------------------------------------------------------------------------
(* The call's thread puts the field into the body of its request.           *)
ReadField(s) ==
  /\ pc[s] = "started"
  /\ pc' = [pc EXCEPT ![s] = "posting"]
  /\ body' = [body EXCEPT ![s] = userLogsString]
  /\ misposted' = misposted \cup (batch[s] \ userLogsString)
  /\ UNCHANGED <<table, userLogsString, batch, fromTable, received, done, lost,
                 deaths, lostReplies>>

(* The server stores every record of a body once more.                      *)
Stored(logs) ==
  [l \in Log |-> IF l \in logs /\ received[l] < 2 THEN received[l] + 1 ELSE received[l]]

(* The server stores the body and its answer, result 1, arrives.            *)
PostAccepted(s) ==
  /\ pc[s] = "posting"
  /\ received' = Stored(body[s])
  /\ pc' = [pc EXCEPT ![s] = "acked"]
  /\ UNCHANGED <<table, userLogsString, batch, fromTable, body, done, misposted,
                 lost, deaths, lostReplies>>

(* The server stores the body and its answer is lost: a read timeout, a     *)
(* broken connection or an answer that does not parse.                      *)
PostReplyLost(s) ==
  /\ pc[s] = "posting"
  /\ lostReplies < MaxLostReplies
  /\ lostReplies' = lostReplies + 1
  /\ received' = Stored(body[s])
  /\ pc' = [pc EXCEPT ![s] = "failed"]
  /\ UNCHANGED <<table, userLogsString, batch, fromTable, body, done, misposted,
                 lost, deaths>>

PostErrorTaken(s) ==              \* slip: any answer counts as success
  /\ pc[s] = "posting"
  /\ pc' = [pc EXCEPT ![s] = "acked"]
  /\ UNCHANGED <<table, userLogsString, batch, fromTable, body, received, done,
                 misposted, lost, deaths, lostReplies>>

(* No connection, an HTTP error, or a result other than 1.                  *)
PostRefused(s) ==
  /\ pc[s] = "posting"
  /\ pc' = [pc EXCEPT ![s] = "failed"]
  /\ UNCHANGED <<table, userLogsString, batch, fromTable, body, received, done,
                 misposted, lost, deaths, lostReplies>>

-----------------------------------------------------------------------------
DeleteNothing(s) ==               \* slip: the delete matches no row
  /\ pc[s] = "acked"
  /\ fromTable[s]
  /\ \E l \in batch[s] : batch' = [batch EXCEPT ![s] = @ \ {l}]
  /\ UNCHANGED <<table, userLogsString, pc, fromTable, body, received, done,
                 misposted, lost, deaths, lostReplies>>

(* sendLogSuccess, result 1: delete the records with an id, one by one.     *)
DeleteLog(s) ==
  /\ pc[s] = "acked"
  /\ fromTable[s]
  /\ \E l \in batch[s] :
       /\ table' = table \ {l}
       /\ batch' = [batch EXCEPT ![s] = @ \ {l}]
  /\ UNCHANGED <<userLogsString, pc, fromTable, body, received, done, misposted,
                 lost, deaths, lostReplies>>

ReturnKeepsBatch(s) ==            \* slip: the list of records is shared by the calls
  /\ pc' = [pc EXCEPT ![s] = "idle"]
  /\ body' = [body EXCEPT ![s] = {}]
  /\ fromTable' = [fromTable EXCEPT ![s] = FALSE]
  /\ UNCHANGED <<userLogsString, batch, received, done, misposted, deaths, lostReplies>>

(* The callback returns and with it the call's thread.                      *)
Return(s) ==
  /\ pc' = [pc EXCEPT ![s] = "idle"]
  /\ batch' = [batch EXCEPT ![s] = {}]
  /\ body' = [body EXCEPT ![s] = {}]
  /\ fromTable' = [fromTable EXCEPT ![s] = FALSE]
  /\ UNCHANGED <<userLogsString, received, done, misposted, deaths, lostReplies>>

FinishStored(s) ==                \* slip: only a batch from the table ends
  /\ pc[s] = "acked"
  /\ fromTable[s] /\ batch[s] = {}
  /\ UNCHANGED <<table, lost>>
  /\ Return(s)

(* All the records with an id are deleted; those without one need nothing.  *)
FinishAcked(s) ==
  /\ pc[s] = "acked"
  /\ fromTable[s] => batch[s] = {}
  /\ UNCHANGED <<table, lost>>
  /\ Return(s)

ForgetFailed(s) ==                \* slip: a refused record is not inserted
  /\ pc[s] = "failed"
  /\ UNCHANGED <<table, lost>>
  /\ Return(s)

(* CallBackError, or a result other than 1: insert the records without id;  *)
(* nothing looks at what db.insert returns.                                 *)
StoreFailed(s) ==
  /\ pc[s] = "failed"
  /\ \/ fromTable[s] /\ UNCHANGED <<table, lost>>
     \/ ~fromTable[s] /\ table' = table \cup batch[s] /\ UNCHANGED lost
     \/ /\ ~fromTable[s] /\ InsertMayFail
        /\ lost' = lost \cup batch[s] /\ UNCHANGED table
  /\ Return(s)

(* The process dies: memory is lost, the LogTable stays.                    *)
ProcessDeath ==
  /\ deaths < MaxDeaths
  /\ deaths' = deaths + 1
  /\ lost' = lost \cup UNION {IF fromTable[s] THEN {} ELSE batch[s] : s \in Sender}
  /\ userLogsString' = {}
  /\ pc' = [s \in Sender |-> "idle"]
  /\ batch' = [s \in Sender |-> {}]
  /\ fromTable' = [s \in Sender |-> FALSE]
  /\ body' = [s \in Sender |-> {}]
  /\ UNCHANGED <<table, received, done, misposted, lostReplies>>

Call(s) ==
  \/ \E l \in Log : SendRecord(s, l)
  \/ \E u \in User : SendOfflineLogs(s, u)

Work(s) ==
  \/ ReadField(s) \/ PostAccepted(s) \/ PostReplyLost(s) \/ PostRefused(s)
  \/ DeleteLog(s) \/ FinishAcked(s) \/ StoreFailed(s)

Next ==
  \/ \E s \in Sender : Call(s) \/ Work(s)
  \/ ProcessDeath

(* A started thread runs, and its request ends: by an answer, or by the     *)
(* timeouts of HttpURLConnection.  In interface mode the host answers.      *)
Fairness == \A s \in Sender : WF_vars(Work(s))

Spec == Init /\ [][Next]_vars /\ Fairness

-----------------------------------------------------------------------------
TypeOK ==
  /\ table \subseteq done
  /\ done \subseteq Log
  /\ userLogsString \subseteq Log
  /\ pc \in [Sender -> Place]
  /\ batch \in [Sender -> SUBSET done]
  /\ fromTable \in [Sender -> BOOLEAN]
  /\ body \in [Sender -> SUBSET Log]
  /\ received \in [Log -> 0..2]
  /\ misposted \subseteq Log
  /\ lost \subseteq Log
  /\ deaths \in 0..MaxDeaths
  /\ lostReplies \in 0..MaxLostReplies
  /\ \A s \in Sender : pc[s] = "idle" => batch[s] = {} /\ ~fromTable[s]

Carried(l) == \E s \in Sender : l \in batch[s]

(* A record of an operation that ended is stored, or on its way, or with    *)
(* the server; it went missing only with a dying process or a failing       *)
(* insert, or because its own call posted an XML it was not in.  Refusals,  *)
(* lost replies, deletes and the other user's records never make one        *)
(* disappear.                                                               *)
NoSilentLoss ==
  \A l \in done : \/ l \in table \/ Carried(l)
                  \/ received[l] > 0
                  \/ l \in lost \cup misposted

(* While neither a death of the process nor a lost reply intervenes, the    *)
(* server never stores a record twice, however often the stored records     *)
(* are sent again between refusals.                                         *)
NoDuplicate ==
  deaths = 0 /\ lostReplies = 0 => \A l \in Log : received[l] <= 1

(* "上传日志成功" (MSD.java:1188, 1207): where the answer is success, the     *)
(* records of the call, which sendLogSuccess now deletes or lets go, have    *)
(* been uploaded.  A second sendLog before the first one's thread reads the  *)
(* field breaks it: one record is posted twice, the other never.             *)
UploadSucceeded ==
  \A s \in Sender : pc[s] = "acked" => \A l \in batch[s] : received[l] > 0

(* Every call of sendLog ends: its thread gets through to a delete, an      *)
(* insert or nothing to do.                                                 *)
SendsEnd == \A s \in Sender : pc[s] # "idle" ~> pc[s] = "idle"

(* If the server refuses nothing from some time on and every user comes     *)
(* back to authenticate whenever records are waiting, the LogTable drains.  *)
ServerAnswers == <>[][\A s \in Sender : ~PostRefused(s)]_vars
UsersReturn == \A s \in Sender, u \in User : SF_vars(SendOfflineLogs(s, u))
TableDrains == ServerAnswers /\ UsersReturn => <>[](table = {})

(* The outbox implements LogDelivery: a record is kept from the end of its  *)
(* operation until delivery, and only the death of the process or an insert *)
(* that fails gives it up.                                                  *)
Status ==
  [l \in Log |-> IF l \notin done THEN "new"
                 ELSE IF received[l] > 0 THEN "delivered"
                 ELSE IF l \in table \/ Carried(l) THEN "kept"
                 ELSE "lost"]

Delivery == INSTANCE LogDelivery WITH status <- Status
DeliveryKept == Delivery!Spec
=============================================================================
