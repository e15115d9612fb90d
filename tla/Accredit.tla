--------------------------------- MODULE Accredit -------------------------------
(***************************************************************************)
(* MSD.sds_accredit beside sds_encrypt (module Publish): the user grants   *)
(* others rights to a document that was encrypted before.  A worker asks   *)
(* the server for the user's own rights and checks the host's list against *)
(* them; if the query fails, a row cached by an earlier sds_openFile       *)
(* decides instead.  Then the grant is posted, in the name of the user of  *)
(* that moment and under the static app id, which sds_encrypt calls share. *)
(*                                                                         *)
(* The server's answer and the cached row are any of the sets of Answer.   *)
(* The host's lists are one set of rights, the union of their entries, and *)
(* whether one of the two lists is null; the beans and the XML are left    *)
(* out, and so is the reuse of a list that addDefaultRights has changed.   *)
(***************************************************************************)
EXTENDS Publish

CONSTANTS
  Job,     \* sds_accredit calls
  Wanted,  \* the rights in the lists of the host
  Answer   \* what the server or a cached row may give as the user's rights

READ == "1"         \* HttpFields.READ_RIGHT
DECRYPT == "7"      \* HttpFields.DECRYPT_RIGHT
DISTRIBUTE == "10"  \* HttpFields.DISTRIBUTE_RIGHT
EDIT == "3"         \* HttpFields.EDIT_RIGHT, for those that nobody asks about
Right == {READ, EDIT, DECRYPT, DISTRIBUTE}

(* What the host asks for, what a job is decided on, what its grant XML     *)
(* says, and what it posts.                                                 *)
Wish == [rights : SUBSET Right, hasNull : BOOLEAN]
Basis == [user : User, rights : SUBSET Right, cached : BOOLEAN]
Draft == [grantor : User, rights : SUBSET Right]
Accreditation == [app : App, grantor : User, rights : SUBSET Right]

ASSUME AccreditAssumption ==
  /\ Wanted \subseteq SUBSET Right /\ Answer \subseteq SUBSET Right
  /\ None \notin Call \cup User \cup Wish \cup Basis \cup Draft \cup Accreditation

VARIABLES
  jpc,      \* where each job is
  of,       \* the encrypted file it is about
  wanted,   \* what the host's lists ask for
  asking,   \* the user whose rights it asks for
  basis,    \* the rights that decided
  request,  \* the grant it posts
  stored,   \* the server's grant
  finished, \* jobs whose host was told that the rights are granted
  changed,  \* encrypted files the host has replaced by others
  restarted,    \* history: has the process ended?
  switchedJobs  \* history: jobs during which the user changed

jvars == <<jpc, of, wanted, asking, basis, request, stored, finished, changed, restarted,
           switchedJobs>>

(* "plain", "submitted": the worker starts, on a file that is none or is a   *)
(* ciphertext; "querying", "granting": a request is out; "failed",          *)
(* "failedNull": no rights, the latter without an error text; "allowed":    *)
(* accerditDealer is next; "drafted": the grant XML is built; "ok",         *)
(* "error": the message is queued; "silent": the worker is through without  *)
(* one.                                                                     *)
JobPlace == {"idle", "plain", "submitted", "querying", "failed", "failedNull", "allowed",
             "drafted", "granting", "ok", "error", "silent", "over"}
JobWorking == JobPlace \ {"idle", "silent", "over"}

AccreditInit ==
  /\ Init
  /\ jpc = [j \in Job |-> "idle"]
  /\ of = [j \in Job |-> None]
  /\ wanted = [j \in Job |-> None]
  /\ asking = [j \in Job |-> None]
  /\ basis = [j \in Job |-> None]
  /\ request = [j \in Job |-> None]
  /\ stored = [j \in Job |-> None]
  /\ finished = {} /\ changed = {} /\ switchedJobs = {}
  /\ restarted = FALSE

-----------------------------------------------------------------------------
Moves(j, from, to) == jpc[j] = from /\ jpc' = [jpc EXCEPT ![j] = to]

(* sds_accredit passes its checks; queryRights reads the tail at once.      *)
Accredit(j, c, w) ==
  /\ Configured
  /\ tail[c] # None
  /\ Moves(j, "idle", IF c \in changed THEN "plain" ELSE "submitted")
  /\ of' = [of EXCEPT ![j] = c]
  /\ wanted' = [wanted EXCEPT ![j] = w]
  /\ UNCHANGED <<asking, basis, request, stored, finished, changed, restarted, switchedJobs>>

(* notNotCiphertext                                                         *)
NotCiphertext(j) ==
  /\ Moves(j, "plain", "error")
  /\ UNCHANGED <<of, wanted, asking, basis, request, stored, finished, changed, restarted,
                 switchedJobs>>

(* The worker asks for the rights of the user of this moment, whose name    *)
(* it takes from HttpUrl.                                                   *)
QueryRights(j) ==
  /\ Moves(j, "submitted", "querying")
  /\ asking' = [asking EXCEPT ![j] = urlLoginName]
  /\ UNCHANGED <<of, wanted, basis, request, stored, finished, changed, restarted,
                 switchedJobs>>

IsCanAccreditAny(w, R) == TRUE   \* slip: the list is not compared with the rights

(* isCanAccerdit: nobody is to get a right the user does not have.          *)
IsCanAccredit(w, R) == w \subseteq R

(* success: the list and the right to distribute are checked.  A null list  *)
(* makes the check throw (ListThrows); null rights are no rights.           *)
RightsAnswered(j) ==
  /\ \/ \E R \in Answer :
          /\ Moves(j, "querying", IF IsCanAccredit(wanted[j].rights, R) /\ DISTRIBUTE \in R
                                  THEN "allowed" ELSE "error")
          /\ ~wanted[j].hasNull
          /\ basis' = [basis EXCEPT ![j] = [user |-> asking[j], rights |-> R, cached |-> FALSE]]
     \/ Moves(j, "querying", "error") /\ UNCHANGED basis
  /\ UNCHANGED <<of, wanted, asking, request, stored, finished, changed, restarted,
                 switchedJobs>>

QueryFailsUnheard(j) ==   \* slip: an answer without a result is dropped
  /\ Moves(j, "querying", "unheard")
  /\ UNCHANGED <<of, wanted, asking, basis, request, stored, finished, changed, restarted,
                 switchedJobs>>

(* rightsNetDataDealer, requestFail: no connection, an HTTP error, another  *)
(* result than 1, which may come without a text.                            *)
QueryFails(j) ==
  /\ Moves(j, "querying", "failed") \/ Moves(j, "querying", "failedNull")
  /\ UNCHANGED <<of, wanted, asking, basis, request, stored, finished, changed, restarted,
                 switchedJobs>>

(* requestFail of sds_accredit: the oldest row of the user of this moment   *)
(* decides, by its right to decrypt; the list is not looked at.  The name   *)
(* is that of MSD.  A row without rights makes this throw (RowThrows).      *)
UseCachedRow(j) ==
  /\ \E from \in {"failed", "failedNull"} :
       \/ \E R \in Answer :
            /\ basis' = [basis EXCEPT ![j] = [user |-> loginName, rights |-> R, cached |-> TRUE]]
            /\ Moves(j, from, IF DECRYPT \in R THEN "allowed" ELSE "error")
       \/ from = "failed" /\ Moves(j, from, "error") /\ UNCHANGED basis
  /\ UNCHANGED <<of, wanted, asking, request, stored, finished, changed, restarted,
                 switchedJobs>>

(* addDefaultRights: every list that gives a right also gives that to read; *)
(* a null list gives nothing.                                               *)
WithRead(w) == IF w.rights = {} THEN {} ELSE w.rights \cup {READ}

(* accerditDealer: the tail is read again, and nothing is sent, nor told,   *)
(* if it is gone; else the grant is built, in the name that HttpUrl has.    *)
AccreditDealer(j) ==
  /\ \/ /\ of[j] \notin changed
        /\ Moves(j, "allowed", "drafted")
        /\ request' = [request EXCEPT ![j] =
                         [grantor |-> urlLoginName, rights |-> WithRead(wanted[j])]]
     \/ /\ of[j] \in changed
        /\ Moves(j, "allowed", "silent")
        /\ UNCHANGED request
  /\ UNCHANGED <<of, wanted, asking, basis, stored, finished, changed, restarted,
                 switchedJobs>>

PostAccreditDefault(j) ==   \* slip: the app id is the built-in one
  /\ Moves(j, "drafted", "granting")
  /\ request' = [request EXCEPT ![j] =
                   [app |-> DefaultApp, grantor |-> @.grantor, rights |-> @.rights]]
  /\ UNCHANGED <<of, wanted, asking, basis, stored, finished, changed, restarted,
                 switchedJobs>>

(* accreditNetRequest: the grant is posted under the static app id.         *)
PostAccredit(j) ==
  /\ Moves(j, "drafted", "granting")
  /\ request' = [request EXCEPT ![j] =
                   [app |-> SDS_APP_ID, grantor |-> @.grantor, rights |-> @.rights]]
  /\ UNCHANGED <<of, wanted, asking, basis, stored, finished, changed, restarted,
                 switchedJobs>>

(* The server stores the grant; the answer is good, or is lost, or bad.     *)
Stored(j) ==
  /\ Moves(j, "granting", "ok") \/ Moves(j, "granting", "error")
  /\ stored' = [stored EXCEPT ![j] = request[j]]
  /\ UNCHANGED <<of, wanted, asking, basis, request, finished, changed, restarted,
                 switchedJobs>>

NotStoredTaken(j) ==   \* slip: authorizeSuccess does not look at the result
  /\ Moves(j, "granting", "ok")
  /\ UNCHANGED <<of, wanted, asking, basis, request, stored, finished, changed, restarted,
                 switchedJobs>>

NotStoredSilently(j) ==   \* slip: an error of the grant is not reported
  /\ Moves(j, "granting", "silent")
  /\ UNCHANGED <<of, wanted, asking, basis, request, stored, finished, changed, restarted,
                 switchedJobs>>

(* authorizeErrorDeal, or authorizeSuccess with another result than 1.      *)
NotStored(j) ==
  /\ Moves(j, "granting", "error")
  /\ UNCHANGED <<of, wanted, asking, basis, request, stored, finished, changed, restarted,
                 switchedJobs>>

(* The handler on the main thread calls back.                               *)
JobCallBack(j) ==
  /\ Configured
  /\ \/ Moves(j, "ok", "over") /\ finished' = finished \cup {j}
     \/ Moves(j, "error", "over") /\ UNCHANGED finished
  /\ request' = [request EXCEPT ![j] = None]
  /\ asking' = [asking EXCEPT ![j] = None]
  /\ UNCHANGED <<of, wanted, basis, stored, changed, restarted, switchedJobs>>

-----------------------------------------------------------------------------
(* The process ends, and with it the jobs in progress.                      *)
JobsLost ==
  /\ jpc' = [j \in Job |-> IF jpc[j] \in {"idle", "silent"} THEN jpc[j] ELSE "over"]
  /\ request' = [j \in Job |-> None]
  /\ asking' = [j \in Job |-> None]
  /\ restarted' = TRUE
  /\ UNCHANGED <<of, wanted, basis, stored, finished, changed, switchedJobs>>

(* isCanAccerdit on a null list.                                            *)
ListThrows(j) == jpc[j] = "querying" /\ wanted[j].hasNull

(* requestFail on a cached row with null rights.                            *)
RowThrows(j) == jpc[j] \in {"failed", "failedNull"}

(* getErrorMessage on a null text, when no row is cached.                   *)
TextThrows(j) == jpc[j] = "failedNull"

(* An exception on the worker of sds_accredit ends the process.             *)
Throws(j) ==
  /\ ListThrows(j) \/ RowThrows(j) \/ TextThrows(j)
  /\ Restart
  /\ UNCHANGED deaths
  /\ JobsLost

(* The host replaces an encrypted file.                                     *)
Change(c) ==
  /\ tail[c] # None
  /\ changed' = changed \cup {c}
  /\ UNCHANGED <<jpc, of, wanted, asking, basis, request, stored, finished, restarted,
                 switchedJobs>>

JobStep(j) ==
  \/ NotCiphertext(j) \/ QueryRights(j) \/ RightsAnswered(j) \/ QueryFails(j)
  \/ UseCachedRow(j) \/ AccreditDealer(j) \/ PostAccredit(j) \/ Stored(j) \/ NotStored(j)
  \/ JobCallBack(j)

JobWork(j) == (JobStep(j) /\ UNCHANGED vars) \/ Throws(j)

PublishStep(c) ==
  \/ \E x \in Params, listsUser \in BOOLEAN : Encrypt(c, x[1], x[2], listsUser)
  \/ BuildIssue(c) \/ SetAppId(c) \/ PostIssue(c) \/ Issued(c) \/ NotIssued(c)
  \/ NeedDefaults(c) \/ AskDefaults(c) \/ CacheDefaults(c)
  \/ SearchList(c) \/ ReadGrantee(c) \/ AddGrantee(c) \/ PostGrant(c)
  \/ Granted(c) \/ NotGranted(c) \/ EncryptFile(c) \/ CallBack(c)

UserChanges ==
  /\ \E u \in User : Config(u)
  /\ switchedJobs' = switchedJobs \cup {j \in Job : jpc[j] \in JobWorking}
  /\ UNCHANGED <<jpc, of, wanted, asking, basis, request, stored, finished, changed,
                 restarted>>

AccreditNext ==
  \/ \E c \in Call : PublishStep(c) /\ UNCHANGED jvars
  \/ \E c \in Call : CallBackThrows(c) /\ JobsLost
  \/ UserChanges
  \/ ConfigGoesOn /\ UNCHANGED jvars
  \/ ProcessDeath /\ JobsLost
  \/ \E j \in Job, c \in Call, w \in [rights : Wanted, hasNull : BOOLEAN] :
       Accredit(j, c, w) /\ UNCHANGED vars
  \/ \E j \in Job : JobWork(j)
  \/ \E c \in Call : Change(c) /\ UNCHANGED vars

(* As in Publish: workers run, requests end, the main thread gets on.       *)
AccreditSpec ==
  /\ AccreditInit /\ [][AccreditNext]_<<vars, jvars>>
  /\ Fairness
  /\ \A j \in Job : WF_jvars(JobWork(j))

-----------------------------------------------------------------------------
AccreditTypeOK ==
  /\ jpc \in [Job -> JobPlace]
  /\ of \in [Job -> Call \cup {None}]
  /\ wanted \in [Job -> Wish \cup {None}]
  /\ asking \in [Job -> User \cup {None}]
  /\ basis \in [Job -> Basis \cup {None}]
  /\ request \in [Job -> Draft \cup Accreditation \cup {None}]
  /\ stored \in [Job -> Accreditation \cup {None}]
  /\ finished \subseteq Job /\ changed \subseteq Call /\ switchedJobs \subseteq Job
  /\ restarted \in BOOLEAN
  /\ \A j \in Job : jpc[j] # "idle" => of[j] \in Call

(* Through the server, nobody is given a right that the user lacked, save   *)
(* that to read, nor without the right to distribute; a cached row only     *)
(* vouches for the right to decrypt.  The grant is in the name of the user  *)
(* whose rights were checked, unless the user changed meanwhile.            *)
GrantChecked ==
  \A j \in Job : stored[j] # None =>
    /\ basis[j] # None
    /\ IF basis[j].cached
       THEN DECRYPT \in basis[j].rights
       ELSE DISTRIBUTE \in basis[j].rights /\ stored[j].rights \subseteq basis[j].rights \cup {READ}
    /\ stored[j].rights # {} => READ \in stored[j].rights
    /\ j \notin switchedJobs => stored[j].grantor = basis[j].user

(* A document's rights are granted under the app id in its tail, though it  *)
(* is read from a static, unless another sds_encrypt call with another app  *)
(* id was made, or the process has ended since.                             *)
GrantAppOfDocument ==
  \A j \in Job : stored[j] # None =>
    \/ stored[j].app = tail[of[j]]
    \/ restarted
    \/ \E c \in Call : app[c] # None /\ app[c] # tail[of[j]]

(* The host is told of success only if the server has stored the grant.     *)
FinishedMeansStored == \A j \in finished : stored[j] # None

(* Every job ends, with a callback or the process, or -- without a word --  *)
(* because its file was replaced under it.                                  *)
JobsEnd ==
  \A j \in Job : jpc[j] \in JobWorking ~>
    jpc[j] = "over" \/ (jpc[j] = "silent" /\ of[j] \in changed)
=============================================================================
