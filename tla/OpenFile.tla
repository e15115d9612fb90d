-------------------------------- MODULE OpenFile -------------------------------
(***************************************************************************)
(* MSD.sds_openFile: open or decrypt a secure document.  A worker thread   *)
(* asks the server for the rights and the key of the document; the answer  *)
(* is saved in the RightAndkeyTable, the device's cache of rights; when    *)
(* the server cannot be asked or refuses, the oldest cached row decides.   *)
(* The document is decrypted if the rights allow it, and a message to the  *)
(* main thread ends the request.                                           *)
(*                                                                         *)
(* The login name is a field of the singleton that sds_config overwrites   *)
(* at any time; a request reads it when it asks, again when it saves the   *)
(* answer, and again when it falls back to the cache.  Saving is a select  *)
(* followed by an insert or an update, each a statement of its own.        *)
(*                                                                         *)
(* The rights string is the set of the two rights this path looks for;     *)
(* a document's key comes and is stored with its rights and is left out,   *)
(* as is the name of the plaintext file, except that it may be null or     *)
(* that of the ciphertext itself, which nothing checks.                    *)
(***************************************************************************)
EXTENDS Naturals, Sequences

CONSTANTS
  Request,     \* sds_openFile calls in progress, at most this many at once
  User,        \* login names
  Doc,         \* files handed to sds_openFile
  Ciphertext,  \* those that carry the secure document tail
  Answer,      \* the sets of rights the server may answer with
  None,        \* no value (null)
  MaxSwitches, \* bound on the sds_config calls that change the user
  MaxDeaths    \* bound on the deaths of the process

READ == "read"        \* HttpFields.READ_RIGHT
DECRYPT == "decrypt"  \* HttpFields.DECRYPT_RIGHT
Right == {READ, DECRYPT}

(* SecureDocError: the codes this path sends.                                *)
Code == {"E_OK", "E_DecryptFail", "E_NotCiphertext", "E_NoRight", "E_NetReqFail"}

ASSUME OpenFileAssumption ==
  /\ None \notin Doc \cup User /\ None \notin Answer /\ None \notin Code
  /\ None \notin User \X Doc \X Answer
  /\ Ciphertext \subseteq Doc
  /\ Answer \subseteq SUBSET Right
  /\ MaxSwitches \in Nat /\ MaxDeaths \in Nat

VARIABLES
  loginName,  \* MSD.loginName
  table,      \* the RightAndkeyTable, rows in the order of their ids
  pc,         \* where each request is
  doc,        \* its cipherPath
  isOpenFile, \* open in a viewer (TRUE) or decrypt to a file (FALSE)
  samePath,   \* its plainPath is its cipherPath
  user,       \* the login name it asks, then saves under, or reads the cache of
  replaced,   \* ciphertext files gone, or overwritten by their plaintext
  truncated,  \* requests whose ciphertext was truncated while they decrypt it
  rights,     \* the rights it decides with
  exists,     \* did its select find a row of its key?
  result,     \* the code in its message
  issued,     \* history: the answers <<user, doc, rights>> of the server
  lastSaved,  \* history: the rights saved last, per user and document
  misfiled,   \* history: keys saved under another user than the server was asked about
  raced,      \* history: keys with two saves between select and write at once
  switches, deaths

vars == <<loginName, table, pc, doc, isOpenFile, samePath, user, rights, exists, result,
          replaced, truncated, issued, lastSaved, misfiled, raced, switches, deaths>>

Key == User \X Doc
Row == [loginName : User, doc : Doc, rights : Answer]

(* "submitted": the worker starts, "asking": the query is out, "answered":   *)
(* result 1, "writing": between the select and the write of a save,         *)
(* "failed": no rights obtained, "abnormal": the answer has no result        *)
(* element; "deciding", "noPath": rights at hand, the latter with a null    *)
(* plainPath; "looping": the decryption waits for bytes that are gone;      *)
(* "told", "toldNoFile": the message is queued.                             *)
Place == {"idle", "submitted", "asking", "answered", "writing", "failed",
          "abnormal", "deciding", "noPath", "looping", "told", "toldNoFile"}
Choosing == {"deciding", "noPath"}

Init ==
  /\ loginName \in User
  /\ table = <<>>
  /\ pc = [r \in Request |-> "idle"]
  /\ doc = [r \in Request |-> None]
  /\ isOpenFile = [r \in Request |-> FALSE]
  /\ samePath = [r \in Request |-> FALSE]
  /\ user = [r \in Request |-> None]
  /\ rights = [r \in Request |-> {}]
  /\ exists = [r \in Request |-> FALSE]
  /\ result = [r \in Request |-> None]
  /\ issued = {}
  /\ lastSaved = [k \in Key |-> None]
  /\ misfiled = {}
  /\ raced = {}
  /\ replaced = {} /\ truncated = {}
  /\ switches = 0
  /\ deaths = 0

-----------------------------------------------------------------------------
Goes(r, from, to) == pc[r] = from /\ pc' = [pc EXCEPT ![r] = to]

(* The history and the table are left alone by most steps.                  *)
CacheUnchanged == UNCHANGED <<table, lastSaved, misfiled, raced>>

(* sds_openFile passes its checks of the parameters and starts the worker.  *)
Submit(r, d, open, same) ==
  /\ Goes(r, "idle", "submitted")
  /\ doc' = [doc EXCEPT ![r] = d]
  /\ isOpenFile' = [isOpenFile EXCEPT ![r] = open]
  /\ samePath' = [samePath EXCEPT ![r] = same]
  /\ CacheUnchanged
  /\ UNCHANGED <<loginName, user, rights, exists, result, replaced, truncated, issued,
                 switches, deaths>>

(* sendHandlerMessage: the result of the request goes to the main thread.   *)
Tell(r, from, code) ==
  /\ Goes(r, from, "told")
  /\ result' = [result EXCEPT ![r] = code]

AnyDoc(d) == TRUE      \* slip: the tail is not checked

(* A file counts as secure if it carries the tail.                          *)
IsSecureDoc(d) == d \in Ciphertext \ replaced

(* The worker: isSecureDoc, then the query under the current login name.    *)
Inspect(r) ==
  /\ \/ /\ IsSecureDoc(doc[r])
        /\ Goes(r, "submitted", "asking")
        /\ user' = [user EXCEPT ![r] = loginName]
        /\ UNCHANGED result
     \/ /\ ~IsSecureDoc(doc[r])
        /\ Tell(r, "submitted", "E_NotCiphertext")
        /\ UNCHANGED user
  /\ CacheUnchanged
  /\ UNCHANGED <<loginName, doc, isOpenFile, samePath, rights, exists, replaced,
                 truncated, issued, switches, deaths>>

(* The server answers with result 1 and the rights of the user it was asked *)
(* about.                                                                   *)
Granted(r) ==
  /\ Goes(r, "asking", "answered")
  /\ \E R \in Answer :
       /\ rights' = [rights EXCEPT ![r] = R]
       /\ issued' = issued \cup {<<user[r], doc[r], R>>}
  /\ CacheUnchanged
  /\ UNCHANGED <<loginName, doc, isOpenFile, samePath, user, exists, result, replaced,
                 truncated, switches, deaths>>

(* No connection, a timeout, an HTTP error or a result other than 1; or an  *)
(* answer that has no result element.                                       *)
NotGranted(r) ==
  /\ Goes(r, "asking", "failed") \/ Goes(r, "asking", "abnormal")
  /\ CacheUnchanged
  /\ UNCHANGED <<loginName, doc, isOpenFile, samePath, user, rights, exists, result,
                 replaced, truncated, issued, switches, deaths>>

-----------------------------------------------------------------------------
MatchesDoc(u, d) == {i \in DOMAIN table : table[i].doc = d}  \* slip: any user's row

(* The rows of a key, by position; ids ascend with the position.            *)
Matches(u, d) == {i \in DOMAIN table : table[i].loginName = u /\ table[i].doc = d}

(* selectRightAndkeyTable, ASC: of the rows of the key, the oldest first.   *)
IsOldest(i, u, d) == i \in Matches(u, d) /\ \A j \in Matches(u, d) : i <= j

(* The other requests between select and write of a save for the key.       *)
SavingToo(r, u, d) ==
  {q \in Request \ {r} : pc[q] = "writing" /\ user[q] = u /\ doc[q] = d}

(* queryRightsSuccess: the row to save is made under the current login      *)
(* name; insertOrUpdateRightAndkeyTable selects the rows of its key.        *)
SelectRow(r) ==
  LET key == <<loginName, doc[r]>> IN
  /\ Goes(r, "answered", "writing")
  /\ user' = [user EXCEPT ![r] = loginName]
  /\ exists' = [exists EXCEPT ![r] = Matches(loginName, doc[r]) # {}]
  /\ misfiled' = IF user[r] = loginName THEN misfiled ELSE misfiled \cup {key}
  /\ raced' = IF SavingToo(r, loginName, doc[r]) = {} THEN raced ELSE raced \cup {key}
  /\ UNCHANGED <<loginName, table, doc, isOpenFile, samePath, rights, result, replaced,
                 truncated, issued, lastSaved, switches, deaths>>

NewRow(r) == [loginName |-> user[r], doc |-> doc[r], rights |-> rights[r]]

InsertRow(r) ==   \* slip: the select's result is ignored
  /\ Goes(r, "writing", "deciding")
  /\ table' = Append(table, NewRow(r))
  /\ lastSaved' = [lastSaved EXCEPT ![<<user[r], doc[r]>>] = rights[r]]
  /\ exists' = [exists EXCEPT ![r] = FALSE]
  /\ UNCHANGED <<loginName, doc, isOpenFile, samePath, user, rights, result, replaced,
                 truncated, issued, misfiled, raced, switches, deaths>>

(* insertOrUpdateRightAndkeyTable, second statement: insert a row, or       *)
(* update all rows of the key.                                              *)
WriteRow(r) ==
  /\ Goes(r, "writing", "deciding")
  /\ table' = IF exists[r]
               THEN [i \in DOMAIN table |-> IF i \in Matches(user[r], doc[r])
                                            THEN [table[i] EXCEPT !.rights = rights[r]]
                                            ELSE table[i]]
               ELSE Append(table, NewRow(r))
  /\ lastSaved' = [lastSaved EXCEPT ![<<user[r], doc[r]>>] = rights[r]]
  /\ exists' = [exists EXCEPT ![r] = FALSE]
  /\ UNCHANGED <<loginName, doc, isOpenFile, samePath, user, rights, result, replaced,
                 truncated, issued, misfiled, raced, switches, deaths>>

(* getKeyByDB: the oldest cached row of the current user decides; without   *)
(* one the request fails.                                                   *)
GetKeyByDB(r, from, to) ==
  /\ \/ /\ Goes(r, from, to)
        /\ \E i \in DOMAIN table : /\ IsOldest(i, loginName, doc[r])
                                  /\ rights' = [rights EXCEPT ![r] = table[i].rights]
        /\ user' = [user EXCEPT ![r] = loginName]
        /\ UNCHANGED result
     \/ /\ Matches(loginName, doc[r]) = {}
        /\ Tell(r, from, "E_NetReqFail")
        /\ UNCHANGED <<rights, user>>
  /\ CacheUnchanged
  /\ UNCHANGED <<loginName, doc, isOpenFile, samePath, exists, replaced, truncated,
                 issued, switches, deaths>>

UseCache(r) ==
  \/ GetKeyByDB(r, "failed", "deciding")
  \/ GetKeyByDB(r, "abnormal", "noPath")

-----------------------------------------------------------------------------
(* The right a request needs, and whether its rights hold it.               *)
Needed(r) == IF isOpenFile[r] THEN READ ELSE DECRYPT
HasRight(r) == Needed(r) \in rights[r]

DecideSilently(r) ==   \* slip: a missing right is not reported
  /\ HasRight(r)
  /\ \E code \in {"E_OK", "E_DecryptFail"}, from \in {"deciding", "noPath"} : Tell(r, from, code)
  /\ CacheUnchanged
  /\ UNCHANGED <<loginName, doc, isOpenFile, samePath, user, rights, exists, replaced,
                 truncated, issued, switches, deaths>>

(* SD_DecryptFile opens its output for writing, which truncates the input   *)
(* if both have one path, for whoever else is reading it, too.              *)
Truncate(r) ==
  /\ pc[r] = "deciding" /\ HasRight(r) /\ IsSecureDoc(doc[r]) /\ samePath[r]
  /\ replaced' = replaced \cup {doc[r]}
  /\ truncated' = truncated \cup
       {q \in Request : pc[q] \in Choosing /\ HasRight(q) /\ doc[q] = doc[r]}
  /\ CacheUnchanged
  /\ UNCHANGED <<loginName, pc, doc, isOpenFile, samePath, user, rights, exists, result,
                 issued, switches, deaths>>

(* Its loop counts the bytes it has read up to the size of before: at the   *)
(* end of a file that has become shorter it goes on for ever.               *)
LoopForEver(r) ==
  /\ r \in truncated
  /\ \E from \in Choosing : Goes(r, from, "looping")
  /\ truncated' = truncated \ {r}
  /\ CacheUnchanged
  /\ UNCHANGED <<loginName, doc, isOpenFile, samePath, user, rights, exists, result,
                 replaced, issued, switches, deaths>>

(* The decryption may come through: of a ciphertext that is another file, or *)
(* of one that was empty or read before it was truncated.                   *)
CanDecrypt(r) == r \in truncated \/ (IsSecureDoc(doc[r]) /\ ~samePath[r])

(* isHaveRightRead: decrypt if the rights allow it, which may fail on the   *)
(* file (DecryptFile returns 0) and does without the tail, and report.      *)
Decide(r) ==
  /\ \/ HasRight(r) /\ CanDecrypt(r) /\ Tell(r, "deciding", "E_OK")
     \/ HasRight(r) /\ \E from \in Choosing : Tell(r, from, "E_DecryptFail")
     \/ ~HasRight(r) /\ \E from \in Choosing : Tell(r, from, "E_NoRight")
  /\ truncated' = truncated \ {r}
  /\ CacheUnchanged
  /\ UNCHANGED <<loginName, doc, isOpenFile, samePath, user, rights, exists, replaced,
                 issued, switches, deaths>>

(* The process starts afresh with a user the host configures; the table and *)
(* the files stay.                                                          *)
Restart ==
  /\ loginName' \in User
  /\ pc' = [r \in Request |-> "idle"]
  /\ doc' = [r \in Request |-> None]
  /\ isOpenFile' = [r \in Request |-> FALSE]
  /\ samePath' = [r \in Request |-> FALSE]
  /\ user' = [r \in Request |-> None]
  /\ rights' = [r \in Request |-> {}]
  /\ exists' = [r \in Request |-> FALSE]
  /\ result' = [r \in Request |-> None]
  /\ truncated' = {}
  /\ CacheUnchanged
  /\ UNCHANGED <<issued, switches>>

(* SD_DecryptFile takes a NULL output name for "in place": the ciphertext    *)
(* file is removed, and the plaintext takes its name unless renaming fails. *)
DecryptInPlace(r) ==
  /\ IsSecureDoc(doc[r]) \/ r \in truncated
  /\ \/ Goes(r, "noPath", "toldNoFile") /\ result' = [result EXCEPT ![r] = "E_OK"]
     \/ Tell(r, "noPath", "E_DecryptFail")
  /\ replaced' = replaced \cup {doc[r]}
  /\ truncated' = truncated \ {r}
  /\ CacheUnchanged
  /\ UNCHANGED <<loginName, doc, isOpenFile, samePath, user, rights, exists, issued,
                 switches, deaths>>

(* isHaveRightRead with a null plainPath: GetStringUTFChars of a null string *)
(* aborts the process (ART) or yields NULL (Dalvik).                         *)
DecryptNoPath(r) ==
  /\ pc[r] = "noPath" /\ HasRight(r)
  /\ \/ Restart /\ UNCHANGED <<replaced, deaths>>
     \/ DecryptInPlace(r)

(* openFileResultHandler on the main thread: the viewer is started, or one  *)
(* of the callbacks is called; the request is over.                         *)
Finish(r, from) ==
  /\ Goes(r, from, "idle")
  /\ doc' = [doc EXCEPT ![r] = None]
  /\ isOpenFile' = [isOpenFile EXCEPT ![r] = FALSE]
  /\ samePath' = [samePath EXCEPT ![r] = FALSE]
  /\ user' = [user EXCEPT ![r] = None]
  /\ rights' = [rights EXCEPT ![r] = {}]
  /\ exists' = [exists EXCEPT ![r] = FALSE]
  /\ result' = [result EXCEPT ![r] = None]
  /\ truncated' = truncated \ {r}
  /\ CacheUnchanged
  /\ UNCHANGED <<loginName, replaced, issued, switches, deaths>>

(* A viewer cannot be started on a null file name, nor on one without a dot *)
(* (openAttachment throws).                                                 *)
Handle(r) ==
  \/ Finish(r, "told")
  \/ ~isOpenFile[r] /\ Finish(r, "toldNoFile")
  \/ /\ pc[r] \in {"told", "toldNoFile"} /\ isOpenFile[r] /\ result[r] = "E_OK"
     /\ Restart
     /\ UNCHANGED <<replaced, deaths>>

-----------------------------------------------------------------------------
(* sds_config: another user.                                                *)
Config(u) ==
  /\ switches < MaxSwitches
  /\ u # loginName
  /\ loginName' = u
  /\ switches' = switches + 1
  /\ CacheUnchanged
  /\ UNCHANGED <<pc, doc, isOpenFile, samePath, user, rights, exists, result, replaced,
                 truncated, issued, deaths>>

(* The process is killed at any moment.                                     *)
ProcessDeath ==
  /\ deaths < MaxDeaths
  /\ deaths' = deaths + 1
  /\ Restart
  /\ UNCHANGED replaced

Work(r) ==
  \/ Inspect(r) \/ Granted(r) \/ NotGranted(r) \/ SelectRow(r) \/ WriteRow(r)
  \/ UseCache(r) \/ Truncate(r) \/ LoopForEver(r) \/ Decide(r) \/ DecryptNoPath(r)
  \/ Handle(r)

Next ==
  \/ \E r \in Request :
       \/ \E d \in Doc, open \in BOOLEAN, same \in BOOLEAN : Submit(r, d, open, same)
       \/ Work(r)
  \/ \E u \in User : Config(u)
  \/ ProcessDeath

(* Workers run, a query ends (answer or timeout), the main looper turns.    *)
Fairness == \A r \in Request : WF_vars(Work(r))

Spec == Init /\ [][Next]_vars /\ Fairness

-----------------------------------------------------------------------------
TypeOK ==
  /\ loginName \in User
  /\ table \in Seq(Row)
  /\ pc \in [Request -> Place]
  /\ doc \in [Request -> Doc \cup {None}]
  /\ isOpenFile \in [Request -> BOOLEAN]
  /\ samePath \in [Request -> BOOLEAN]
  /\ user \in [Request -> User \cup {None}]
  /\ rights \in [Request -> SUBSET Right]
  /\ exists \in [Request -> BOOLEAN]
  /\ result \in [Request -> Code \cup {None}]
  /\ replaced \subseteq Ciphertext
  /\ truncated \subseteq {r \in Request : pc[r] \in Choosing /\ doc[r] \in replaced}
  /\ issued \subseteq User \X Doc \X Answer
  /\ lastSaved \in [Key -> Answer \cup {None}]
  /\ misfiled \subseteq Key /\ raced \subseteq Key
  /\ switches \in 0..MaxSwitches /\ deaths \in 0..MaxDeaths
  /\ \A r \in Request : pc[r] # "idle" => doc[r] \in Doc

(* A document is only decrypted for a user the server gave the needed right *)
(* to, also when the cache decides, after restarts and across users; unless *)
(* sds_config changed the user between the query and the save.              *)
OpenedByRight ==
  \A r \in Request : result[r] = "E_OK" =>
    \/ <<user[r], doc[r]>> \in misfiled
    \/ \E R \in Answer : <<user[r], doc[r], R>> \in issued /\ Needed(r) \in R

(* Unless two saves for the key overlapped, the cache has at most one row   *)
(* for it, which holds the rights saved last: an older answer, with more    *)
(* rights or fewer, never decides again, and a saved answer is not lost.    *)
CacheExact ==
  \A u \in User, d \in Doc : <<u, d>> \notin raced =>
    /\ \A i, j \in Matches(u, d) : i = j
    /\ \A i \in Matches(u, d) : table[i].rights = lastSaved[<<u, d>>]
    /\ lastSaved[<<u, d>>] # None => Matches(u, d) # {}

(* "查询用户名 文档组id 文档id 相同的记录，如果有相同的就替换掉"              *)
(* (DbService.java:41): a save replaces the row of its user and document.   *)
OneRowPerKey ==
  \A u \in User, d \in Doc : \A i, j \in Matches(u, d) : i = j

(* "根据loginName、archiveId、docId定位一条记录" (DbService.java:60): a row   *)
(* is found by login name, so its rights are those of that user.            *)
RowsOfTheirUser ==
  \A i \in DOMAIN table :
    <<table[i].loginName, table[i].doc, table[i].rights>> \in issued

(* What RowsOfTheirUser needs: as long as sds_config has never changed the  *)
(* user of a living process, it holds, with any number of requests at once  *)
(* and though the device may start the process with another user.           *)
RowsTrueUntilSwitch == switches = 0 => RowsOfTheirUser

(* As long as no two saves for a key overlapped and sds_config has changed  *)
(* no user of a living process, the table is the map that RightsCache       *)
(* describes, step by step: the rights of the oldest row are those saved    *)
(* last, a save is atomic, and every decision rests on an answer of the     *)
(* server to the very user it is taken for.                                 *)
Remembered ==
  [k \in Key |->
     IF Matches(k[1], k[2]) = {} THEN None
     ELSE table[CHOOSE i \in DOMAIN table : IsOldest(i, k[1], k[2])].rights]
Decision ==
  [r \in Request |-> IF pc[r] \in Choosing
                     THEN <<user[r], doc[r], rights[r]>> ELSE None]

Cache == INSTANCE RightsCache WITH remembered <- Remembered, decision <- Decision
Undisturbed == raced = {} /\ switches = 0
CacheKept == Cache!Init /\ [][Undisturbed' => Cache!Next]_(Cache!vars)

(* Every request ends, with the viewer, a callback, or the process, unless  *)
(* its ciphertext was truncated under it, by a request with one path for    *)
(* both files.                                                              *)
RequestsEnd ==
  \A r \in Request :
    pc[r] # "idle" ~> pc[r] = "idle" \/ (pc[r] = "looping" /\ doc[r] \in replaced)

(* "E_PathError = 0x0A;//密文和明文路径相同" (SecureDocError.java:19): a       *)
(* request with one path for both files is an error that is reported, so it *)
(* ends.                                                                    *)
SamePathReported == \A r \in Request : samePath[r] ~> pc[r] = "idle"
=============================================================================
