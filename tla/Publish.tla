-------------------------------- MODULE Publish --------------------------------
(***************************************************************************)
(* MSD.sds_encrypt where the SDK does the requests itself (IS_NET_REQUEST):*)
(* a worker thread registers the document with the server (issue), fetches *)
(* the default rights of the user when it does not know them, grants the   *)
(* rights, and only then encrypts the file, whose tail names the archive   *)
(* and the app id it was published under.                                  *)
(*                                                                         *)
(* What a call was given travels through statics that all calls share: the *)
(* confidentiality is written by the caller's thread, the app id by the    *)
(* worker, and each is read again later; the user is that of the last      *)
(* sds_config, which writes three statics one after the other.  The        *)
(* default rights of a user are cached in a static map.                    *)
(*                                                                         *)
(* Rights are abstracted to their origin: the user the server was asked    *)
(* about, the built-in full set, or the list the host passed.  The host's  *)
(* list is fresh for each call and names the user of the moment or nobody  *)
(* who matters here; departments are left out, as are error texts, except  *)
(* that a text may be missing.                                             *)
(***************************************************************************)
EXTENDS Naturals

CONSTANTS
  Call,         \* sds_encrypt calls, one document each
  App,          \* app ids
  Level,        \* values of "confidential"
  Params,       \* the pairs of the two that callers pass
  User,         \* login names, with their user ids
  DefaultApp,   \* HttpFields.SDS_APP_ID in a new process
  DefaultLevel, \* HttpFields.ARCHIVES_CONFIDENTIAL in a new process
  None,         \* no value (null)
  MaxSwitches,  \* bound on the sds_config calls that change the user
  MaxDeaths     \* bound on the deaths of the process

FULL == "full"  \* "1,2,3,4,5,6,7,8,9,10,", when the server gives no default rights
HOST == "host"  \* the rights in the host's list
Origin == User \cup {FULL, HOST}

(* What an issue XML says, an archive, what a grant XML says of the user,   *)
(* and a grant on the archive.                                              *)
Xml == [level : Level, creator : User]
Archive == [app : App, level : Level, creator : User]
Bean == [owner : User, rights : Origin]
Grant == [app : App, owner : User, rights : Origin]

ASSUME PublishAssumption ==
  /\ Params \subseteq App \X Level
  /\ DefaultApp \in App /\ DefaultLevel \in Level
  /\ None \notin App /\ None \notin Level /\ None \notin Origin
  /\ None \notin Xml \cup Archive \cup Bean \cup Grant
  /\ MaxSwitches \in Nat /\ MaxDeaths \in Nat

VARIABLES
  SDS_APP_ID, ARCHIVES_CONFIDENTIAL,  \* the statics of HttpFields
  loginName, urlLoginName, userId,    \* those of MSD, HttpUrl and HttpFields
  defaults, \* defultRights: whose rights are cached under each user
  pc,       \* where each call is
  app, level, listed, \* what it was given: app id, confidential, who the list names
  asked,    \* the user whose default rights it asks for
  grantee,  \* the user it is about to add to the list
  issue,    \* its issue request: the archive to be
  order,    \* its grant request
  archive,  \* the server's archive of each call
  grant,    \* the server's grant on it
  tail,     \* the app id in the tail of the encrypted file
  mixed,    \* history: calls whose app id another call overwrote
  crossed,  \* history: calls whose confidentiality another call overwrote
  switched, \* history: calls during which the user changed
  misfiled, \* history: users under whom another user's rights were cached
  torn,     \* history: calls that took the user for the grant and for its rights apart
  switches, deaths

names == <<loginName, urlLoginName, userId>>
statics == <<SDS_APP_ID, ARCHIVES_CONFIDENTIAL, names, defaults>>
given == <<app, level>>
read == <<listed, asked, grantee>>
server == <<archive, grant>>
history == <<mixed, crossed, switched, misfiled, torn>>
vars == <<statics, pc, given, read, issue, order, server, tail, history, switches, deaths>>

(* "submitted": the thread is started, "built": the issue XML is built,      *)
(* "tagged": the app id is written, "issuing", "asking", "granting": a       *)
(* request is out, "issued", "ready", "granted": its answer was good,        *)
(* "needing": no default rights are cached, "adding": the user is not in the *)
(* list, "valuing": his name is read, "ordered": the grant XML is built,     *)
(* "told", "toldNull": the message is queued, the latter without a text.     *)
Tagged == {"tagged", "issuing", "issued", "needing", "asking", "ready", "adding", "valuing",
           "ordered", "granting", "granted"}
Place == {"idle", "submitted", "built", "told", "toldNull", "over"} \cup Tagged
Working == Place \ {"idle", "over"}

Init ==
  /\ SDS_APP_ID = DefaultApp
  /\ ARCHIVES_CONFIDENTIAL = DefaultLevel
  /\ loginName \in User /\ urlLoginName = loginName /\ userId = loginName
  /\ defaults = [u \in User |-> None]
  /\ pc = [c \in Call |-> "idle"]
  /\ app = [c \in Call |-> None]
  /\ level = [c \in Call |-> None]
  /\ listed = [c \in Call |-> None]
  /\ asked = [c \in Call |-> None]
  /\ grantee = [c \in Call |-> None]
  /\ issue = [c \in Call |-> None]
  /\ order = [c \in Call |-> None]
  /\ archive = [c \in Call |-> None]
  /\ grant = [c \in Call |-> None]
  /\ tail = [c \in Call |-> None]
  /\ mixed = {} /\ crossed = {} /\ switched = {} /\ misfiled = {} /\ torn = {}
  /\ switches = 0
  /\ deaths = 0

-----------------------------------------------------------------------------
Goes(c, from, to) == pc[c] = from /\ pc' = [pc EXCEPT ![c] = to]

(* sendMsg: the result of the call goes to the main thread.                 *)
Tell(c, from) == Goes(c, from, "told")

(* The error text is that of the answer, which need not have one.           *)
TellFailure(c, from) == Tell(c, from) \/ Goes(c, from, "toldNull")

(* The main thread is not within an sds_config.                             *)
Configured == loginName = urlLoginName /\ urlLoginName = userId

(* sds_encrypt passes its checks of the parameters: the confidentiality is  *)
(* left in the static, and the worker starts.                               *)
Encrypt(c, a, l, listsUser) ==
  /\ Configured
  /\ Goes(c, "idle", "submitted")
  /\ app' = [app EXCEPT ![c] = a]
  /\ level' = [level EXCEPT ![c] = l]
  /\ listed' = [listed EXCEPT ![c] = IF listsUser THEN userId ELSE None]
  /\ ARCHIVES_CONFIDENTIAL' = l
  /\ crossed' = crossed \cup {d \in Call : pc[d] = "submitted" /\ level[d] # l}
  /\ UNCHANGED <<SDS_APP_ID, names, defaults, asked, grantee, issue, order, server, tail,
                 mixed, switched, misfiled, torn, switches, deaths>>

IssueXmlDefault ==   \* slip: the confidentiality is always the built-in one
  [level |-> DefaultLevel, creator |-> urlLoginName]

(* The issue XML carries the static confidentiality and the login name.     *)
IssueXml == [level |-> ARCHIVES_CONFIDENTIAL, creator |-> urlLoginName]

(* The worker: the file must not be a ciphertext.  Building may throw.      *)
BuildIssue(c) ==
  /\ \/ /\ Goes(c, "submitted", "built")
        /\ issue' = [issue EXCEPT ![c] = IssueXml]
     \/ /\ Tell(c, "submitted")
        /\ UNCHANGED issue
  /\ UNCHANGED <<statics, given, read, order, server, tail, history, switches, deaths>>

SetAppIdOnce(c) ==   \* slip: only a new process takes the app id over
  /\ Goes(c, "built", "tagged")
  /\ SDS_APP_ID' = IF SDS_APP_ID = DefaultApp THEN app[c] ELSE SDS_APP_ID
  /\ mixed' = mixed \cup {d \in Call \ {c} : pc[d] \in Tagged /\ app[d] # app[c]}
  /\ UNCHANGED <<ARCHIVES_CONFIDENTIAL, names, defaults, given, read, issue, order,
                 server, tail, crossed, switched, misfiled, torn, switches, deaths>>

(* The static app id becomes that of this call, for every other call too.   *)
SetAppId(c) ==
  /\ Goes(c, "built", "tagged")
  /\ SDS_APP_ID' = app[c]
  /\ mixed' = mixed \cup {d \in Call \ {c} : pc[d] \in Tagged /\ app[d] # app[c]}
  /\ UNCHANGED <<ARCHIVES_CONFIDENTIAL, names, defaults, given, read, issue, order,
                 server, tail, crossed, switched, misfiled, torn, switches, deaths>>

(* The issue request is posted under the static app id.                     *)
PostIssue(c) ==
  /\ Goes(c, "tagged", "issuing")
  /\ issue' = [issue EXCEPT ![c] =
                 [app |-> SDS_APP_ID, level |-> @.level, creator |-> @.creator]]
  /\ UNCHANGED <<statics, given, read, order, server, tail, history, switches, deaths>>

(* The server makes the archive; the answer is good, or is lost, or bad.    *)
Issued(c) ==
  /\ archive' = [archive EXCEPT ![c] = issue[c]]
  /\ issue' = [issue EXCEPT ![c] = None]
  /\ Goes(c, "issuing", "issued") \/ TellFailure(c, "issuing")
  /\ UNCHANGED <<statics, given, read, order, grant, tail, history, switches, deaths>>

(* No connection, an HTTP error, a timeout, or a result other than 1.       *)
NotIssued(c) ==
  /\ TellFailure(c, "issuing")
  /\ issue' = [issue EXCEPT ![c] = None]
  /\ UNCHANGED <<statics, given, read, order, server, tail, history, switches, deaths>>

-----------------------------------------------------------------------------
(* issueSuccess: unless the user's default rights are cached, get them.     *)
NeedDefaults(c) ==
  /\ Goes(c, "issued", IF defaults[userId] = None THEN "needing" ELSE "ready")
  /\ UNCHANGED <<statics, given, read, issue, order, server, tail, history, switches,
                 deaths>>

(* The request asks for those of the login name, which is another static.   *)
AskDefaults(c) ==
  /\ Goes(c, "needing", "asking")
  /\ asked' = [asked EXCEPT ![c] = loginName]
  /\ UNCHANGED <<statics, given, listed, grantee, issue, order, server, tail, history,
                 switches, deaths>>

(* The answer, or the full rights in place of a failure, is cached under    *)
(* the user of this moment.                                                 *)
CacheDefaults(c) ==
  /\ Goes(c, "asking", "ready")
  /\ \E o \in {asked[c], FULL} :
       /\ defaults' = [defaults EXCEPT ![userId] = o]
       /\ misfiled' = IF o \in {userId, FULL} THEN misfiled ELSE misfiled \cup {userId}
  /\ asked' = [asked EXCEPT ![c] = None]
  /\ UNCHANGED <<SDS_APP_ID, ARCHIVES_CONFIDENTIAL, names, given, listed, grantee, issue,
                 order, server, tail, mixed, crossed, switched, torn, switches, deaths>>

(* The list is searched for the user.  An answer without ids or a null list *)
(* makes this throw, which is caught and ends the call.                     *)
SearchList(c) ==
  /\ \/ /\ listed[c] = userId
        /\ Goes(c, "ready", "ordered")
        /\ order' = [order EXCEPT ![c] = [owner |-> userId, rights |-> HOST]]
     \/ /\ listed[c] # userId
        /\ Goes(c, "ready", "adding")
        /\ UNCHANGED order
     \/ Tell(c, "ready") /\ UNCHANGED order
  /\ listed' = [listed EXCEPT ![c] = None]
  /\ UNCHANGED <<statics, given, asked, grantee, issue, server, tail, history, switches,
                 deaths>>

(* new UserBean(HttpFields.userId, defultRights.get(HttpFields.userId)):    *)
(* the user is read once for himself ...                                    *)
ReadGrantee(c) ==
  /\ Goes(c, "adding", "valuing")
  /\ grantee' = [grantee EXCEPT ![c] = userId]
  /\ UNCHANGED <<statics, given, listed, asked, issue, order, server, tail, history,
                 switches, deaths>>

DefaultsOfAnyone(u) ==   \* slip: the cache is not keyed by the user
  IF \E v \in User : defaults[v] # None
  THEN defaults[CHOOSE v \in User : defaults[v] # None]
  ELSE None

(* defultRights.get(userId)                                                 *)
DefaultsOf(u) == defaults[u]

AddUnchecked(c) ==   \* slip: null rights go out
  /\ Goes(c, "valuing", "ordered")
  /\ order' = [order EXCEPT ![c] = [owner |-> grantee[c], rights |-> DefaultsOf(userId)]]
  /\ grantee' = [grantee EXCEPT ![c] = None]
  /\ torn' = IF grantee[c] = userId THEN torn ELSE torn \cup {c}
  /\ UNCHANGED <<statics, given, listed, asked, issue, server, tail, mixed, crossed,
                 switched, misfiled, switches, deaths>>

(* ... and once more for his rights.  The grant is built; null rights make  *)
(* the serializer throw, which is caught and ends the call.                 *)
AddGrantee(c) ==
  /\ grantee' = [grantee EXCEPT ![c] = None]
  /\ \/ /\ DefaultsOf(userId) # None
        /\ Goes(c, "valuing", "ordered")
        /\ order' = [order EXCEPT ![c] =
                       [owner |-> grantee[c], rights |-> DefaultsOf(userId)]]
        /\ torn' = IF grantee[c] = userId THEN torn ELSE torn \cup {c}
     \/ /\ DefaultsOf(userId) = None
        /\ Tell(c, "valuing")
        /\ UNCHANGED <<order, torn>>
  /\ UNCHANGED <<statics, given, listed, asked, issue, server, tail, mixed, crossed,
                 switched, misfiled, switches, deaths>>

(* The grant is posted under the static app id.                             *)
PostGrant(c) ==
  /\ Goes(c, "ordered", "granting")
  /\ order' = [order EXCEPT ![c] =
                 [app |-> SDS_APP_ID, owner |-> @.owner, rights |-> @.rights]]
  /\ UNCHANGED <<statics, given, read, issue, server, tail, history, switches, deaths>>

(* The server stores the grant; the answer is good, or is lost, or bad.     *)
Granted(c) ==
  /\ grant' = [grant EXCEPT ![c] = order[c]]
  /\ order' = [order EXCEPT ![c] = None]
  /\ Goes(c, "granting", "granted") \/ TellFailure(c, "granting")
  /\ UNCHANGED <<statics, given, read, issue, archive, tail, history, switches, deaths>>

NotGrantedSilently(c) ==   \* slip: an error of the grant is not reported
  /\ Goes(c, "granting", "unreported")
  /\ order' = [order EXCEPT ![c] = None]
  /\ UNCHANGED <<statics, given, read, issue, server, tail, history, switches, deaths>>

NotGrantedTaken(c) ==   \* slip: any answer to the grant counts as success
  /\ Goes(c, "granting", "granted")
  /\ order' = [order EXCEPT ![c] = None]
  /\ UNCHANGED <<statics, given, read, issue, server, tail, history, switches, deaths>>

(* The grant is refused, or the server is not reached.                      *)
NotGranted(c) ==
  /\ TellFailure(c, "granting")
  /\ order' = [order EXCEPT ![c] = None]
  /\ UNCHANGED <<statics, given, read, issue, server, tail, history, switches, deaths>>

(* accreditSuccess: encrypt under the static app id, and report.  On an     *)
(* error of the file the tail is not written.                               *)
EncryptFile(c) ==
  /\ Tell(c, "granted")
  /\ tail' = [tail EXCEPT ![c] = SDS_APP_ID] \/ UNCHANGED tail
  /\ UNCHANGED <<statics, given, read, issue, order, server, history, switches, deaths>>

-----------------------------------------------------------------------------
(* The process starts afresh: the statics are lost, and with them the calls *)
(* in progress; the files and the server's data stay.                       *)
Restart ==
  /\ SDS_APP_ID' = DefaultApp
  /\ ARCHIVES_CONFIDENTIAL' = DefaultLevel
  /\ loginName' \in User /\ urlLoginName' = loginName' /\ userId' = loginName'
  /\ defaults' = [u \in User |-> None]
  /\ pc' = [c \in Call |-> IF pc[c] = "idle" THEN "idle" ELSE "over"]
  /\ listed' = [c \in Call |-> None]
  /\ asked' = [c \in Call |-> None]
  /\ grantee' = [c \in Call |-> None]
  /\ issue' = [c \in Call |-> None]
  /\ order' = [c \in Call |-> None]
  /\ UNCHANGED <<given, server, tail, history, switches>>

(* The handler on the main thread calls back.                               *)
CallBack(c) ==
  /\ Configured
  /\ Goes(c, "told", "over")
  /\ UNCHANGED <<statics, given, read, issue, order, server, tail, history, switches,
                 deaths>>

(* Without an error text getErrorMessage throws there, which ends the       *)
(* process.                                                                 *)
CallBackThrows(c) ==
  /\ Configured
  /\ pc[c] = "toldNull"
  /\ Restart
  /\ UNCHANGED deaths

(* sds_config: another user.  It writes one static ...                      *)
Config(u) ==
  /\ Configured
  /\ switches < MaxSwitches
  /\ u # loginName
  /\ loginName' = u
  /\ switches' = switches + 1
  /\ switched' = switched \cup {c \in Call : pc[c] \in Working}
  /\ UNCHANGED <<SDS_APP_ID, ARCHIVES_CONFIDENTIAL, urlLoginName, userId, defaults, pc,
                 given, read, issue, order, server, tail, mixed, crossed, misfiled,
                 torn, deaths>>

(* ... after the other.                                                     *)
ConfigGoesOn ==
  /\ \/ urlLoginName # loginName /\ urlLoginName' = loginName /\ UNCHANGED userId
     \/ urlLoginName = loginName /\ userId # loginName /\ userId' = loginName
        /\ UNCHANGED urlLoginName
  /\ UNCHANGED <<SDS_APP_ID, ARCHIVES_CONFIDENTIAL, loginName, defaults, pc, given,
                 read, issue, order, server, tail, history, switches, deaths>>

ProcessDeath == deaths < MaxDeaths /\ deaths' = deaths + 1 /\ Restart

Work(c) ==
  \/ BuildIssue(c) \/ SetAppId(c) \/ PostIssue(c) \/ Issued(c) \/ NotIssued(c)
  \/ NeedDefaults(c) \/ AskDefaults(c) \/ CacheDefaults(c)
  \/ SearchList(c) \/ ReadGrantee(c) \/ AddGrantee(c) \/ PostGrant(c)
  \/ Granted(c) \/ NotGranted(c) \/ EncryptFile(c) \/ CallBack(c) \/ CallBackThrows(c)

Next ==
  \/ \E c \in Call :
       \/ \E x \in Params, listsUser \in BOOLEAN : Encrypt(c, x[1], x[2], listsUser)
       \/ Work(c)
  \/ \E u \in User : Config(u)
  \/ ConfigGoesOn
  \/ ProcessDeath

(* Workers run, a request ends (answer or timeout), the main thread gets on *)
(* with sds_config and its looper turns.                                    *)
Fairness == WF_vars(ConfigGoesOn) /\ \A c \in Call : WF_vars(Work(c))

Spec == Init /\ [][Next]_vars /\ Fairness

-----------------------------------------------------------------------------
TypeOK ==
  /\ SDS_APP_ID \in App /\ ARCHIVES_CONFIDENTIAL \in Level
  /\ loginName \in User /\ urlLoginName \in User /\ userId \in User
  /\ defaults \in [User -> User \cup {FULL, None}]
  /\ pc \in [Call -> Place]
  /\ app \in [Call -> App \cup {None}]
  /\ level \in [Call -> Level \cup {None}]
  /\ listed \in [Call -> User \cup {None}]
  /\ asked \in [Call -> User \cup {None}]
  /\ grantee \in [Call -> User \cup {None}]
  /\ issue \in [Call -> Xml \cup Archive \cup {None}]
  /\ order \in [Call -> Bean \cup Grant \cup {None}]
  /\ archive \in [Call -> Archive \cup {None}]
  /\ grant \in [Call -> Grant \cup {None}]
  /\ tail \in [Call -> App \cup {None}]
  /\ mixed \subseteq Call /\ crossed \subseteq Call /\ switched \subseteq Call
  /\ misfiled \subseteq User /\ torn \subseteq Call
  /\ switches \in 0..MaxSwitches /\ deaths \in 0..MaxDeaths

(* The app id a call was given reaches the server and the file, though it   *)
(* goes through a static that is read three times: the archive, the grant   *)
(* and the tail carry it unless a call with another one came in between.    *)
OwnApp ==
  \A c \in Call \ mixed :
    /\ archive[c] # None => archive[c].app = app[c]
    /\ grant[c] # None => grant[c].app = app[c]
    /\ tail[c] \in {app[c], None}

(* The archive has the confidentiality its call was given, which the        *)
(* caller's thread leaves in a static, unless a call with another one was   *)
(* made before the worker ran.                                              *)
OwnLevel == \A c \in Call \ crossed : archive[c] # None => archive[c].level = level[c]

(* No ciphertext without an archive and a grant, after any fault; and the   *)
(* user the document is registered for is the one who is granted rights,    *)
(* unless the user changed during the call.                                 *)
CreatorCanOpen ==
  \A c \in Call : tail[c] # None =>
    /\ archive[c] # None /\ grant[c] # None
    /\ c \notin switched => grant[c].owner = archive[c].creator

(* A user is granted the rights of the list, or default rights of his own,  *)
(* or the full set; those of another user only if such an answer was cached *)
(* under him, or if the user changed between the two reads of one line.     *)
RightsOfOwner ==
  \A c \in Call : grant[c] # None =>
    \/ grant[c].rights \in {grant[c].owner, FULL, HOST}
    \/ grant[c].owner \in misfiled
    \/ c \in torn

(* The calls implement Publication, and what they register, grant and write *)
(* is what some caller has passed: the values the statics have in a new     *)
(* process never reach the server or a file, nor do two calls mix them up   *)
(* so that a document is registered twice or encrypted before its grant.    *)
PassedApp == {x[1] : x \in Params}
PassedLevel == {x[2] : x \in Params}
Publication ==
  INSTANCE Publication WITH
    Document <- Call,
    Archive <- [app : PassedApp, level : PassedLevel, creator : User],
    Grant <- [app : PassedApp, owner : User, rights : Origin],
    Tail <- PassedApp
PublicationKept == Publication!Spec

(* Every call ends, with a callback or with the process, whichever of its   *)
(* steps fails.  (A call with one path for both files, for which            *)
(* SD_EncryptFile loops for ever, is outside of this module.)               *)
CallsEnd == \A c \in Call : pc[c] \notin {"idle", "over"} ~> pc[c] = "over"
=============================================================================
