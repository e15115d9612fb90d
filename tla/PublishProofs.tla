----------------------------- MODULE PublishProofs -----------------------------
(***************************************************************************)
(* Proofs about Publish, for any number of calls, app ids and users.       *)
(*                                                                         *)
(* None of the properties is inductive: each speaks of what has reached    *)
(* the server or the file, and depends on what the requests on their way   *)
(* carry and on what the statics hold while a call still has to read them. *)
(* The refinement of Publication needs that no call does a thing twice.    *)
(***************************************************************************)
EXTENDS Publish, TLAPS

(* What a call at each place has, and what it cannot have yet.              *)
Early == {"idle", "submitted", "built", "tagged", "issuing"}
Registered == {"issued", "needing", "asking", "ready", "adding", "valuing", "ordered",
               "granting", "granted"}
Shaped ==
  \A c \in Call :
    /\ pc[c] \notin {"idle", "over"} => app[c] \in App /\ level[c] \in Level
    /\ pc[c] \in {"built", "tagged"} => issue[c] \in Xml
    /\ pc[c] = "issuing" => issue[c] \in Archive
    /\ pc[c] = "asking" => asked[c] \in User
    /\ pc[c] = "valuing" => grantee[c] \in User
    /\ pc[c] = "ordered" => order[c] \in Bean
    /\ pc[c] = "granting" => order[c] \in Grant
    /\ pc[c] \in Early => archive[c] = None
    /\ pc[c] \in Early \cup Registered => tail[c] = None
    /\ pc[c] \in (Early \cup Registered) \ {"granted"} => grant[c] = None
    /\ pc[c] \in Registered => archive[c] # None
    /\ pc[c] = "granted" => grant[c] # None
TInv == TypeOK /\ Shaped

(* An undisturbed call finds its own parameters in the statics.             *)
StaticsAreOwn ==
  \A c \in Call :
    /\ c \notin mixed =>
         /\ pc[c] \in Tagged => SDS_APP_ID = app[c]
         /\ pc[c] = "issuing" => issue[c].app = app[c]
         /\ pc[c] = "granting" => order[c].app = app[c]
    /\ c \notin crossed =>
         /\ pc[c] = "submitted" => ARCHIVES_CONFIDENTIAL = level[c]
         /\ pc[c] \in {"built", "tagged", "issuing"} => issue[c].level = level[c]
PInv == OwnApp /\ OwnLevel /\ StaticsAreOwn

(* While the user stays the same, no sds_config is halfway, and everything  *)
(* a call does is in his name.                                              *)
UserIsCreator ==
  \A c \in Call : c \notin switched =>
    /\ pc[c] \in Working => Configured
    /\ pc[c] \in {"built", "tagged", "issuing"} => issue[c].creator = userId
    /\ pc[c] \in Registered => archive[c].creator = userId
    /\ pc[c] = "valuing" => grantee[c] = userId
    /\ pc[c] \in {"ordered", "granting"} => order[c].owner = userId
    /\ pc[c] = "granted" => grant[c].owner = userId
UInv == CreatorCanOpen /\ UserIsCreator

(* Cached rights, and those in a grant on its way, are the owner's, but for *)
(* a grant between whose two reads of the user he changed.                  *)
Rightful(u, o) == o \in {u, FULL, HOST} \/ u \in misfiled
CacheRightful == \A u \in User : defaults[u] # None => Rightful(u, defaults[u])
OrderRightful ==
  \A c \in Call : pc[c] \in {"ordered", "granting"} =>
    Rightful(order[c].owner, order[c].rights) \/ c \in torn
OInv == RightsOfOwner /\ CacheRightful /\ OrderRightful

-----------------------------------------------------------------------------
LEMMA InitTInv == Init => TInv
BY PublishAssumption DEF Init, TInv, TypeOK, Shaped, Early, Registered, Place, Tagged

(* The fresh process of a restart.                                          *)
LEMMA RestartTInv ==
  ASSUME TInv, Restart, deaths' \in 0..MaxDeaths
  PROVE  TInv'
<1> USE DEF Restart, TInv, given, server, history
<1>1. TypeOK'
  BY PublishAssumption DEF TypeOK, Place, Tagged
<1>2. Shaped'
  BY DEF TypeOK, Shaped, Early, Registered, Place, Tagged
<1> QED
  BY <1>1, <1>2

(* The steps up to the answer to the issue request.                         *)
LEMMA IssueTInv ==
  ASSUME TInv, NEW c \in Call,
         \/ \E x \in Params, b \in BOOLEAN : Encrypt(c, x[1], x[2], b)
         \/ BuildIssue(c) \/ SetAppId(c) \/ PostIssue(c) \/ Issued(c) \/ NotIssued(c)
  PROVE  TInv'
<1> USE PublishAssumption
    DEF TInv, TypeOK, Shaped, Early, Registered, Place, Tagged, Goes, Tell, TellFailure,
        names, statics, given, read, server, history
<1>1. CASE \E x \in Params, b \in BOOLEAN : Encrypt(c, x[1], x[2], b)
  BY <1>1 DEF Encrypt
<1>2. CASE BuildIssue(c)
  <2>1. [level |-> ARCHIVES_CONFIDENTIAL, creator |-> urlLoginName] \in Xml
    BY DEF Xml
  <2> QED
    BY <1>2, <2>1 DEF BuildIssue, IssueXml
<1>3. CASE SetAppId(c)
  BY <1>3 DEF SetAppId
<1>4. CASE PostIssue(c)
  <2>1. issue[c].level \in Level /\ issue[c].creator \in User
    BY <1>4 DEF PostIssue, Xml
  <2>2. [app |-> SDS_APP_ID, level |-> issue[c].level, creator |-> issue[c].creator] \in Archive
    BY <2>1 DEF Archive
  <2> QED
    BY <1>4, <2>2 DEF PostIssue
<1>5. CASE Issued(c)
  BY <1>5 DEF Issued
<1>6. CASE NotIssued(c)
  BY <1>6 DEF NotIssued
<1> QED
  BY <1>1, <1>2, <1>3, <1>4, <1>5, <1>6

(* The steps from there to the encryption, but for the restarts.            *)
LEMMA GrantTInv ==
  ASSUME TInv, NEW c \in Call,
         \/ NeedDefaults(c) \/ AskDefaults(c) \/ CacheDefaults(c)
         \/ SearchList(c) \/ ReadGrantee(c) \/ AddGrantee(c) \/ PostGrant(c)
         \/ Granted(c) \/ NotGranted(c) \/ EncryptFile(c)
  PROVE  TInv'
<1> USE PublishAssumption
    DEF TInv, TypeOK, Shaped, Early, Registered, Place, Tagged, Goes, Tell, TellFailure,
        names, statics, given, read, server, history
<1>1. CASE NeedDefaults(c)
  BY <1>1 DEF NeedDefaults
<1>2. CASE AskDefaults(c)
  BY <1>2 DEF AskDefaults
<1>3. CASE CacheDefaults(c)
  BY <1>3 DEF CacheDefaults
<1>4. CASE SearchList(c)
  <2>1. [owner |-> userId, rights |-> HOST] \in Bean
    BY DEF Bean, Origin
  <2> QED
    BY <1>4, <2>1 DEF SearchList
<1>5. CASE ReadGrantee(c)
  BY <1>5 DEF ReadGrantee
<1>6. CASE AddGrantee(c)
  <2>1. DefaultsOf(userId) # None =>
          [owner |-> grantee[c], rights |-> DefaultsOf(userId)] \in Bean
    BY <1>6 DEF AddGrantee, DefaultsOf, Bean, Origin
  <2> QED
    BY <1>6, <2>1 DEF AddGrantee
<1>7. CASE PostGrant(c)
  <2>1. order[c].owner \in User /\ order[c].rights \in Origin
    BY <1>7 DEF PostGrant, Bean
  <2>2. [app |-> SDS_APP_ID, owner |-> order[c].owner, rights |-> order[c].rights] \in Grant
    BY <2>1 DEF Grant
  <2> QED
    BY <1>7, <2>2 DEF PostGrant
<1>8. CASE Granted(c)
  BY <1>8 DEF Granted
<1>9. CASE NotGranted(c)
  BY <1>9 DEF NotGranted
<1>10. CASE EncryptFile(c)
  BY <1>10 DEF EncryptFile
<1> QED
  BY <1>1, <1>2, <1>3, <1>4, <1>5, <1>6, <1>7, <1>8, <1>9, <1>10

(* The end of a call, a change of user, and the deaths.                     *)
LEMMA EndTInv ==
  ASSUME TInv,
         \/ \E c \in Call : CallBack(c) \/ CallBackThrows(c)
         \/ (\E u \in User : Config(u)) \/ ConfigGoesOn
         \/ ProcessDeath
  PROVE  TInv'
<1>1. CASE \E c \in Call : CallBack(c)
  BY <1>1, PublishAssumption
     DEF CallBack, TInv, TypeOK, Shaped, Early, Registered, Place, Tagged, Goes, names,
         statics, given, read, server, history
<1>2. CASE \E c \in Call : CallBackThrows(c)
  BY <1>2, RestartTInv DEF CallBackThrows, TInv, TypeOK
<1>3. CASE (\E u \in User : Config(u)) \/ ConfigGoesOn
  BY <1>3, PublishAssumption
     DEF Config, ConfigGoesOn, TInv, TypeOK, Shaped, Early, Registered, given, read, server,
         history
<1>4. CASE ProcessDeath
  <2>1. deaths' \in 0..MaxDeaths
    BY <1>4, PublishAssumption DEF ProcessDeath, TInv, TypeOK
  <2> QED
    BY <1>4, <2>1, RestartTInv DEF ProcessDeath
<1> QED
  BY <1>1, <1>2, <1>3, <1>4

LEMMA StepTInv == TInv /\ [Next]_vars => TInv'
<1> SUFFICES ASSUME TInv, [Next]_vars
             PROVE  TInv'
  OBVIOUS
<1>1. CASE Next
  BY <1>1, IssueTInv, GrantTInv, EndTInv DEF Next, Work
<1>2. CASE UNCHANGED vars
  BY <1>2 DEF vars, names, statics, given, read, server, history, TInv, TypeOK, Shaped
<1> QED
  BY <1>1, <1>2

(* The calls, the server's data and the files are well typed.               *)
THEOREM TypeCorrect == Spec => []TypeOK
<1>1. TInv => TypeOK
  BY DEF TInv
<1> QED
  BY InitTInv, StepTInv, <1>1, PTL DEF Spec

-----------------------------------------------------------------------------
(* A call's own parameters.                                                 *)

LEMMA InitPInv == Init => PInv
BY DEF Init, PInv, OwnApp, OwnLevel, StaticsAreOwn, Tagged

(* A call that comes in marks those whose confidentiality it overwrites,    *)
(* and the one that writes the app id those it is written away from.        *)
LEMMA IssuePInv ==
  ASSUME TInv, PInv, NEW c \in Call,
         \/ \E x \in Params, b \in BOOLEAN : Encrypt(c, x[1], x[2], b)
         \/ BuildIssue(c) \/ SetAppId(c) \/ PostIssue(c) \/ Issued(c) \/ NotIssued(c)
  PROVE  PInv'
<1> USE PublishAssumption
    DEF TInv, TypeOK, Shaped, Early, Registered, Place, Tagged, Goes, Tell, TellFailure,
        names, statics, given, read, server, history, PInv, OwnApp, OwnLevel, StaticsAreOwn
<1>1. CASE \E x \in Params, b \in BOOLEAN : Encrypt(c, x[1], x[2], b)
  BY <1>1 DEF Encrypt
<1>2. CASE BuildIssue(c)
  BY <1>2 DEF BuildIssue, IssueXml
<1>3. CASE SetAppId(c)
  BY <1>3 DEF SetAppId
<1>4. CASE PostIssue(c)
  BY <1>4 DEF PostIssue
<1>5. CASE Issued(c)
  BY <1>5 DEF Issued
<1>6. CASE NotIssued(c)
  BY <1>6 DEF NotIssued
<1> QED
  BY <1>1, <1>2, <1>3, <1>4, <1>5, <1>6

LEMMA GrantPInv ==
  ASSUME TInv, PInv, NEW c \in Call,
         \/ NeedDefaults(c) \/ AskDefaults(c) \/ CacheDefaults(c)
         \/ SearchList(c) \/ ReadGrantee(c) \/ AddGrantee(c) \/ PostGrant(c)
         \/ Granted(c) \/ NotGranted(c) \/ EncryptFile(c)
  PROVE  PInv'
<1> USE PublishAssumption
    DEF TInv, TypeOK, Shaped, Early, Registered, Place, Tagged, Goes, Tell, TellFailure,
        names, statics, given, read, server, history, PInv, OwnApp, OwnLevel, StaticsAreOwn
<1>1. CASE NeedDefaults(c)
  BY <1>1 DEF NeedDefaults
<1>2. CASE AskDefaults(c)
  BY <1>2 DEF AskDefaults
<1>3. CASE CacheDefaults(c)
  BY <1>3 DEF CacheDefaults
<1>4. CASE SearchList(c)
  BY <1>4 DEF SearchList
<1>5. CASE ReadGrantee(c)
  BY <1>5 DEF ReadGrantee
<1>6. CASE AddGrantee(c)
  BY <1>6 DEF AddGrantee, DefaultsOf
<1>7. CASE PostGrant(c)
  BY <1>7 DEF PostGrant
<1>8. CASE Granted(c)
  BY <1>8 DEF Granted
<1>9. CASE NotGranted(c)
  BY <1>9 DEF NotGranted
<1>10. CASE EncryptFile(c)
  BY <1>10 DEF EncryptFile
<1> QED
  BY <1>1, <1>2, <1>3, <1>4, <1>5, <1>6, <1>7, <1>8, <1>9, <1>10

(* After a restart no call is left to read the statics.                     *)
LEMMA EndPInv ==
  ASSUME TInv, PInv,
         \/ \E c \in Call : CallBack(c) \/ CallBackThrows(c)
         \/ (\E u \in User : Config(u)) \/ ConfigGoesOn
         \/ ProcessDeath
  PROVE  PInv'
<1> USE DEF TInv, TypeOK, Tagged, Goes, names, statics, given, read, server, history, PInv, OwnApp, OwnLevel,
            StaticsAreOwn
<1>1. CASE \E c \in Call : CallBack(c)
  BY <1>1 DEF CallBack
<1>2. CASE Restart
  BY <1>2 DEF Restart
<1>3. CASE (\E u \in User : Config(u)) \/ ConfigGoesOn
  BY <1>3 DEF Config, ConfigGoesOn
<1> QED
  BY <1>1, <1>2, <1>3 DEF CallBackThrows, ProcessDeath

LEMMA StepPInv == TInv /\ PInv /\ [Next]_vars => PInv'
<1> SUFFICES ASSUME TInv, PInv, [Next]_vars
             PROVE  PInv'
  OBVIOUS
<1>1. CASE Next
  BY <1>1, IssuePInv, GrantPInv, EndPInv DEF Next, Work
<1>2. CASE UNCHANGED vars
  BY <1>2 DEF vars, names, statics, given, read, server, history, PInv, OwnApp, OwnLevel, StaticsAreOwn
<1> QED
  BY <1>1, <1>2

(* Through the shared static, the app id a call was given reaches the       *)
(* archive, the grant and the tail, unless a call with another one came in  *)
(* between.                                                                 *)
THEOREM AppIdReachesServer == Spec => []OwnApp
<1>1. PInv => OwnApp
  BY DEF PInv
<1> QED
  BY InitTInv, StepTInv, InitPInv, StepPInv, <1>1, PTL DEF Spec

(* The confidentiality a call was given reaches the archive, unless a call  *)
(* with another one was made before the worker ran.                         *)
THEOREM LevelReachesServer == Spec => []OwnLevel
<1>1. PInv => OwnLevel
  BY DEF PInv
<1> QED
  BY InitTInv, StepTInv, InitPInv, StepPInv, <1>1, PTL DEF Spec

-----------------------------------------------------------------------------
(* The creator of an archive and the user rights are granted to.             *)

LEMMA InitUInv == Init => UInv
BY DEF Init, UInv, CreatorCanOpen, UserIsCreator, Registered, Working, Place, Tagged

LEMMA IssueUInv ==
  ASSUME TInv, UInv, NEW c \in Call,
         \/ \E x \in Params, b \in BOOLEAN : Encrypt(c, x[1], x[2], b)
         \/ BuildIssue(c) \/ SetAppId(c) \/ PostIssue(c) \/ Issued(c) \/ NotIssued(c)
  PROVE  UInv'
<1> USE PublishAssumption
    DEF TInv, TypeOK, Shaped, Early, Registered, Place, Tagged, Goes, Tell, TellFailure,
        names, statics, given, read, server, history, UInv, CreatorCanOpen, UserIsCreator, Configured, Working
<1>1. CASE \E x \in Params, b \in BOOLEAN : Encrypt(c, x[1], x[2], b)
  BY <1>1 DEF Encrypt
<1>2. CASE BuildIssue(c)
  BY <1>2 DEF BuildIssue, IssueXml
<1>3. CASE SetAppId(c)
  BY <1>3 DEF SetAppId
<1>4. CASE PostIssue(c)
  BY <1>4 DEF PostIssue
<1>5. CASE Issued(c)
  BY <1>5 DEF Issued
<1>6. CASE NotIssued(c)
  BY <1>6 DEF NotIssued
<1> QED
  BY <1>1, <1>2, <1>3, <1>4, <1>5, <1>6

LEMMA GrantUInv ==
  ASSUME TInv, UInv, NEW c \in Call,
         \/ NeedDefaults(c) \/ AskDefaults(c) \/ CacheDefaults(c)
         \/ SearchList(c) \/ ReadGrantee(c) \/ AddGrantee(c) \/ PostGrant(c)
         \/ Granted(c) \/ NotGranted(c) \/ EncryptFile(c)
  PROVE  UInv'
<1> USE PublishAssumption
    DEF TInv, TypeOK, Shaped, Early, Registered, Place, Tagged, Goes, Tell, TellFailure,
        names, statics, given, read, server, history, UInv, CreatorCanOpen, UserIsCreator, Configured, Working
<1>1. CASE NeedDefaults(c)
  BY <1>1 DEF NeedDefaults
<1>2. CASE AskDefaults(c)
  BY <1>2 DEF AskDefaults
<1>3. CASE CacheDefaults(c)
  BY <1>3 DEF CacheDefaults
<1>4. CASE SearchList(c)
  BY <1>4 DEF SearchList
<1>5. CASE ReadGrantee(c)
  BY <1>5 DEF ReadGrantee
<1>6. CASE AddGrantee(c)
  BY <1>6 DEF AddGrantee, DefaultsOf
<1>7. CASE PostGrant(c)
  BY <1>7 DEF PostGrant
<1>8. CASE Granted(c)
  BY <1>8 DEF Granted
<1>9. CASE NotGranted(c)
  BY <1>9 DEF NotGranted
<1>10. CASE EncryptFile(c)
  BY <1>10 DEF EncryptFile
<1> QED
  BY <1>1, <1>2, <1>3, <1>4, <1>5, <1>6, <1>7, <1>8, <1>9, <1>10

LEMMA EndUInv ==
  ASSUME TInv, UInv,
         \/ \E c \in Call : CallBack(c) \/ CallBackThrows(c)
         \/ (\E u \in User : Config(u)) \/ ConfigGoesOn
         \/ ProcessDeath
  PROVE  UInv'
<1> USE DEF TInv, TypeOK, Shaped, Early, Registered, Tagged, Goes, names, statics, given, read, server, history,
            UInv, CreatorCanOpen, UserIsCreator, Configured, Working, Place
<1>1. CASE \E c \in Call : CallBack(c)
  BY <1>1 DEF CallBack
<1>2. CASE Restart
  BY <1>2 DEF Restart
<1>3. CASE (\E u \in User : Config(u)) \/ ConfigGoesOn
  BY <1>3 DEF Config, ConfigGoesOn
<1> QED
  BY <1>1, <1>2, <1>3 DEF CallBackThrows, ProcessDeath

LEMMA StepUInv == TInv /\ UInv /\ [Next]_vars => UInv'
<1> SUFFICES ASSUME TInv, UInv, [Next]_vars
             PROVE  UInv'
  OBVIOUS
<1>1. CASE Next
  BY <1>1, IssueUInv, GrantUInv, EndUInv DEF Next, Work
<1>2. CASE UNCHANGED vars
  BY <1>2 DEF vars, names, statics, given, read, server, history, UInv,
              CreatorCanOpen, UserIsCreator, Configured
<1> QED
  BY <1>1, <1>2

(* A file is only encrypted once its archive and its grant are with the     *)
(* server, and the grant names the creator unless the user changed.         *)
THEOREM CreatorIsGranted == Spec => []CreatorCanOpen
<1>1. UInv => CreatorCanOpen
  BY DEF UInv
<1> QED
  BY InitTInv, StepTInv, InitUInv, StepUInv, <1>1, PTL DEF Spec

-----------------------------------------------------------------------------
(* Whose rights are granted.                                                 *)

LEMMA InitOInv == Init => OInv
BY DEF Init, OInv, RightsOfOwner, CacheRightful, OrderRightful, Rightful, Origin

LEMMA IssueOInv ==
  ASSUME TInv, OInv, NEW c \in Call,
         \/ \E x \in Params, b \in BOOLEAN : Encrypt(c, x[1], x[2], b)
         \/ BuildIssue(c) \/ SetAppId(c) \/ PostIssue(c) \/ Issued(c) \/ NotIssued(c)
  PROVE  OInv'
<1> USE PublishAssumption
    DEF TInv, TypeOK, Shaped, Early, Registered, Place, Tagged, Goes, Tell, TellFailure,
        names, statics, given, read, server, history, OInv, RightsOfOwner, CacheRightful, OrderRightful, Rightful, Origin
<1>1. CASE \E x \in Params, b \in BOOLEAN : Encrypt(c, x[1], x[2], b)
  BY <1>1 DEF Encrypt
<1>2. CASE BuildIssue(c)
  BY <1>2 DEF BuildIssue, IssueXml
<1>3. CASE SetAppId(c)
  BY <1>3 DEF SetAppId
<1>4. CASE PostIssue(c)
  BY <1>4 DEF PostIssue
<1>5. CASE Issued(c)
  BY <1>5 DEF Issued
<1>6. CASE NotIssued(c)
  BY <1>6 DEF NotIssued
<1> QED
  BY <1>1, <1>2, <1>3, <1>4, <1>5, <1>6

LEMMA GrantOInv ==
  ASSUME TInv, OInv, NEW c \in Call,
         \/ NeedDefaults(c) \/ AskDefaults(c) \/ CacheDefaults(c)
         \/ SearchList(c) \/ ReadGrantee(c) \/ AddGrantee(c) \/ PostGrant(c)
         \/ Granted(c) \/ NotGranted(c) \/ EncryptFile(c)
  PROVE  OInv'
<1> USE PublishAssumption
    DEF TInv, TypeOK, Shaped, Early, Registered, Place, Tagged, Goes, Tell, TellFailure,
        names, statics, given, read, server, history, OInv, RightsOfOwner, CacheRightful, OrderRightful, Rightful, Origin
<1>1. CASE NeedDefaults(c)
  BY <1>1 DEF NeedDefaults
<1>2. CASE AskDefaults(c)
  BY <1>2 DEF AskDefaults
<1>3. CASE CacheDefaults(c)
  BY <1>3 DEF CacheDefaults
<1>4. CASE SearchList(c)
  BY <1>4 DEF SearchList
<1>5. CASE ReadGrantee(c)
  BY <1>5 DEF ReadGrantee
<1>6. CASE AddGrantee(c)
  BY <1>6 DEF AddGrantee, DefaultsOf
<1>7. CASE PostGrant(c)
  BY <1>7 DEF PostGrant
<1>8. CASE Granted(c)
  BY <1>8 DEF Granted
<1>9. CASE NotGranted(c)
  BY <1>9 DEF NotGranted
<1>10. CASE EncryptFile(c)
  BY <1>10 DEF EncryptFile
<1> QED
  BY <1>1, <1>2, <1>3, <1>4, <1>5, <1>6, <1>7, <1>8, <1>9, <1>10

LEMMA EndOInv ==
  ASSUME TInv, OInv,
         \/ \E c \in Call : CallBack(c) \/ CallBackThrows(c)
         \/ (\E u \in User : Config(u)) \/ ConfigGoesOn
         \/ ProcessDeath
  PROVE  OInv'
<1> USE DEF TInv, TypeOK, Shaped, Early, Registered, Tagged, Goes, names, statics, given, read, server, history,
            OInv, RightsOfOwner, CacheRightful, OrderRightful, Rightful, Origin
<1>1. CASE \E c \in Call : CallBack(c)
  BY <1>1 DEF CallBack
<1>2. CASE Restart
  BY <1>2 DEF Restart
<1>3. CASE (\E u \in User : Config(u)) \/ ConfigGoesOn
  BY <1>3 DEF Config, ConfigGoesOn
<1> QED
  BY <1>1, <1>2, <1>3 DEF CallBackThrows, ProcessDeath

LEMMA StepOInv == TInv /\ OInv /\ [Next]_vars => OInv'
<1> SUFFICES ASSUME TInv, OInv, [Next]_vars
             PROVE  OInv'
  OBVIOUS
<1>1. CASE Next
  BY <1>1, IssueOInv, GrantOInv, EndOInv DEF Next, Work
<1>2. CASE UNCHANGED vars
  BY <1>2 DEF vars, names, statics, given, read, server, history, OInv, RightsOfOwner, CacheRightful, OrderRightful, Rightful, Origin
<1> QED
  BY <1>1, <1>2

(* The rights granted to a user are from the list, the full set or the      *)
(* default rights of that user, unless others were cached under him.        *)
THEOREM RightsAreTheOwners == Spec => []RightsOfOwner
<1>1. OInv => RightsOfOwner
  BY DEF OInv
<1> QED
  BY InitTInv, StepTInv, InitOInv, StepOInv, <1>1, PTL DEF Spec

-----------------------------------------------------------------------------
(* Only what callers pass travels: a static is read by a call only after    *)
(* some call has written it, in the same process.                           *)
Reading == \E c \in Call : pc[c] \in Tagged
StaticsPassed ==
  /\ Reading => SDS_APP_ID \in PassedApp
  /\ (\E c \in Call : pc[c] = "submitted") => ARCHIVES_CONFIDENTIAL \in PassedLevel
CallsPassed ==
  \A c \in Call :
    /\ pc[c] # "idle" => app[c] \in PassedApp
    /\ pc[c] \in {"built", "tagged", "issuing"} =>
         issue[c].level \in PassedLevel /\ issue[c].creator \in User
    /\ pc[c] = "issuing" => issue[c] \in [app : PassedApp, level : PassedLevel, creator : User]
    /\ pc[c] = "granting" => order[c] \in [app : PassedApp, owner : User, rights : Origin]
AInvP == StaticsPassed /\ CallsPassed

LEMMA InitPassed == Init => AInvP
BY DEF Init, AInvP, StaticsPassed, CallsPassed, Reading, Tagged

LEMMA IssuePassed ==
  ASSUME TInv, AInvP, NEW c \in Call,
         \/ \E x \in Params, b \in BOOLEAN : Encrypt(c, x[1], x[2], b)
         \/ BuildIssue(c) \/ SetAppId(c) \/ PostIssue(c) \/ Issued(c) \/ NotIssued(c)
  PROVE  AInvP'
<1> USE DEF TInv, TypeOK, Tagged, Goes, Tell, TellFailure, names, statics, given, read, server, history, AInvP,
            StaticsPassed, CallsPassed, Reading
<1>1. CASE \E x \in Params, b \in BOOLEAN : Encrypt(c, x[1], x[2], b)
  <2>1. PICK x \in Params, b \in BOOLEAN : Encrypt(c, x[1], x[2], b)
    BY <1>1
  <2>2. x[1] \in PassedApp /\ x[2] \in PassedLevel
    BY DEF PassedApp, PassedLevel
  <2> QED
    BY <2>1, <2>2 DEF Encrypt
<1>2. CASE BuildIssue(c)
  BY <1>2 DEF BuildIssue, IssueXml
<1>3. CASE SetAppId(c)
  BY <1>3 DEF SetAppId
<1>4. CASE PostIssue(c)
  BY <1>4 DEF PostIssue
<1>5. CASE Issued(c)
  BY <1>5 DEF Issued
<1>6. CASE NotIssued(c)
  BY <1>6 DEF NotIssued
<1> QED
  BY <1>1, <1>2, <1>3, <1>4, <1>5, <1>6

LEMMA GrantPassed ==
  ASSUME TInv, AInvP, NEW c \in Call,
         \/ NeedDefaults(c) \/ AskDefaults(c) \/ CacheDefaults(c)
         \/ SearchList(c) \/ ReadGrantee(c) \/ AddGrantee(c) \/ PostGrant(c)
         \/ Granted(c) \/ NotGranted(c) \/ EncryptFile(c)
  PROVE  AInvP'
<1> USE DEF TInv, TypeOK, Tagged, Goes, Tell, TellFailure, names, statics, given, read, server, history, AInvP,
            StaticsPassed, CallsPassed, Reading
<1>1. CASE NeedDefaults(c)
  BY <1>1 DEF NeedDefaults
<1>2. CASE AskDefaults(c)
  BY <1>2 DEF AskDefaults
<1>3. CASE CacheDefaults(c)
  BY <1>3 DEF CacheDefaults
<1>4. CASE SearchList(c)
  BY <1>4 DEF SearchList
<1>5. CASE ReadGrantee(c)
  BY <1>5 DEF ReadGrantee
<1>6. CASE AddGrantee(c)
  BY <1>6 DEF AddGrantee
<1>7. CASE PostGrant(c)
  <2>1. order[c].owner \in User /\ order[c].rights \in Origin
    BY <1>7 DEF PostGrant, Shaped, Bean
  <2> QED
    BY <1>7, <2>1 DEF PostGrant
<1>8. CASE Granted(c)
  BY <1>8 DEF Granted
<1>9. CASE NotGranted(c)
  BY <1>9 DEF NotGranted
<1>10. CASE EncryptFile(c)
  BY <1>10 DEF EncryptFile
<1> QED
  BY <1>1, <1>2, <1>3, <1>4, <1>5, <1>6, <1>7, <1>8, <1>9, <1>10

(* A new process has the built-in values in its statics, and no call that   *)
(* would read them before it has written them.                              *)
LEMMA RestartPassed ==
  ASSUME AInvP, Restart
  PROVE  AInvP'
BY DEF Restart, given, AInvP, StaticsPassed, CallsPassed, Reading, Tagged

LEMMA EndPassed ==
  ASSUME TInv, AInvP,
         \/ \E c \in Call : CallBack(c)
         \/ (\E u \in User : Config(u)) \/ ConfigGoesOn
         \/ UNCHANGED vars
  PROVE  AInvP'
<1> USE DEF TInv, TypeOK, Tagged, Goes, names, statics, given, read, server, history, AInvP, StaticsPassed,
            CallsPassed, Reading
<1>1. CASE \E c \in Call : CallBack(c)
  BY <1>1 DEF CallBack
<1>2. CASE (\E u \in User : Config(u)) \/ ConfigGoesOn
  BY <1>2 DEF Config, ConfigGoesOn
<1>3. CASE UNCHANGED vars
  BY <1>3 DEF vars
<1> QED
  BY <1>1, <1>2, <1>3

LEMMA StepPassed == TInv /\ AInvP /\ [Next]_vars => AInvP'
BY IssuePassed, GrantPassed, RestartPassed, EndPassed
   DEF Next, Work, CallBackThrows, ProcessDeath

-----------------------------------------------------------------------------
(* The refinement: only three steps reach the server or the file, each once *)
(* per call, because of where the call is (Shaped).                         *)
LEMMA InitPublication == Init => Publication!Init
BY DEF Init, Publication!Init

LEMMA StepPublication ==
  ASSUME TInv, AInvP, [Next]_vars
  PROVE  [Publication!Next]_(Publication!vars)
<1> USE DEF Goes, Tell, TellFailure, names, statics, given, read, server, history
<1>0. /\ archive \in [Call -> Archive \cup {None}] /\ grant \in [Call -> Grant \cup {None}]
      /\ tail \in [Call -> App \cup {None}]
  BY DEF TInv, TypeOK
<1>1. ASSUME NEW c \in Call, Issued(c)
      PROVE  Publication!Next
  <2>1. issue[c] \in [app : PassedApp, level : PassedLevel, creator : User] /\ archive[c] = None
    BY <1>1 DEF Issued, AInvP, CallsPassed, TInv, Shaped, Early
  <2> QED
    BY <1>1, <2>1 DEF Issued, Publication!Next, Publication!Register
<1>2. ASSUME NEW c \in Call, Granted(c)
      PROVE  Publication!Next
  <2>1. /\ order[c] \in [app : PassedApp, owner : User, rights : Origin]
        /\ archive[c] # None /\ grant[c] = None
    BY <1>2 DEF Granted, AInvP, CallsPassed, TInv, Shaped, Registered
  <2> QED
    BY <1>2, <2>1 DEF Granted, Publication!Next, Publication!Authorise
<1>3. ASSUME NEW c \in Call, EncryptFile(c)
      PROVE  [Publication!Next]_(Publication!vars)
  <2>1. SDS_APP_ID \in PassedApp /\ grant[c] # None /\ tail[c] = None
    BY <1>3 DEF EncryptFile, AInvP, StaticsPassed, Reading, Tagged, TInv, Shaped, Registered
  <2>2. CASE UNCHANGED tail
    BY <1>3, <2>2 DEF EncryptFile, Publication!vars
  <2>3. CASE tail' = [tail EXCEPT ![c] = SDS_APP_ID]
    BY <1>3, <2>1, <2>3 DEF EncryptFile, Publication!Next, Publication!Encrypt
  <2> QED
    BY <1>3, <2>2, <2>3 DEF EncryptFile
<1>4. ASSUME NEW c \in Call,
             \/ \E x \in Params, b \in BOOLEAN : Encrypt(c, x[1], x[2], b)
             \/ BuildIssue(c) \/ SetAppId(c) \/ PostIssue(c) \/ NotIssued(c)
             \/ NeedDefaults(c) \/ AskDefaults(c) \/ CacheDefaults(c)
             \/ SearchList(c) \/ ReadGrantee(c) \/ AddGrantee(c) \/ PostGrant(c)
             \/ NotGranted(c) \/ CallBack(c) \/ CallBackThrows(c)
      PROVE  UNCHANGED <<archive, grant, tail>>
  BY <1>4 DEF Encrypt, BuildIssue, SetAppId, PostIssue, NotIssued, NeedDefaults,
              AskDefaults, CacheDefaults, SearchList, ReadGrantee, AddGrantee, PostGrant,
              NotGranted, CallBack, CallBackThrows, Restart
<1>5. ASSUME ProcessDeath \/ (\E u \in User : Config(u)) \/ ConfigGoesOn \/ UNCHANGED vars
      PROVE  UNCHANGED <<archive, grant, tail>>
  BY <1>5 DEF ProcessDeath, Restart, Config, ConfigGoesOn, vars
<1> QED
  BY <1>1, <1>2, <1>3, <1>4, <1>5 DEF Next, Work, Publication!vars

(* Whatever fails, comes in between or dies, a document is registered once, *)
(* granted once and only then encrypted, with an app id and confidentiality *)
(* that some caller passed, never those a new process starts with.          *)
THEOREM CallsPublish == Spec => PublicationKept
BY InitTInv, StepTInv, InitPassed, StepPassed, InitPublication, StepPublication, PTL
   DEF Spec, PublicationKept, Publication!Spec

-----------------------------------------------------------------------------
(* What it takes for a call to be mixed up with another: two app ids.       *)
OneAppSoFar == \A c, d \in Call : app[c] # None /\ app[d] # None => app[c] = app[d]
IdleHasNone == \A c \in Call : pc[c] = "idle" => app[c] = None
AppIdIsCallers ==
  \A c \in Call :
    /\ archive[c] # None => archive[c].app = app[c]
    /\ grant[c] # None => grant[c].app = app[c]
    /\ tail[c] \in {app[c], None}
MixedTakesTwo == IdleHasNone /\ (OneAppSoFar => mixed = {})

LEMMA StepMixed == TInv /\ MixedTakesTwo /\ [Next]_vars => MixedTakesTwo'
<1> SUFFICES ASSUME TInv, MixedTakesTwo, [Next]_vars
             PROVE  IdleHasNone' /\ (OneAppSoFar' => mixed' = {})
  BY DEF MixedTakesTwo
<1> USE DEF Goes, Tell, TellFailure, names, statics, given, read, server, history
<1>0. pc \in [Call -> Place]
  BY DEF TInv, TypeOK
<1>1. CASE \E c \in Call, x \in Params, b \in BOOLEAN : Encrypt(c, x[1], x[2], b)
  <2>1. PICK c \in Call, x \in Params, b \in BOOLEAN : Encrypt(c, x[1], x[2], b)
    BY <1>1
  <2>2. /\ app \in [Call -> App \cup {None}] /\ pc[c] = "idle" /\ mixed' = mixed
        /\ app' = [app EXCEPT ![c] = x[1]]
    BY <2>1 DEF Encrypt, TInv, TypeOK
  <2>3. app[c] = None
    BY <2>2 DEF MixedTakesTwo, IdleHasNone
  <2>4. IdleHasNone'
    BY <1>0, <2>1, <2>2 DEF Encrypt, MixedTakesTwo, IdleHasNone
  <2> QED
    BY <2>2, <2>3, <2>4 DEF OneAppSoFar, MixedTakesTwo
<1>2. CASE \E c \in Call : SetAppId(c)
  <2>1. PICK c \in Call : SetAppId(c)
    BY <1>2
  <2>2. app' = app /\ mixed' = mixed \cup {d \in Call \ {c} : pc[d] \in Tagged /\ app[d] # app[c]}
    BY <2>1 DEF SetAppId
  <2>3. \A d \in Call : pc[d] \in Tagged \cup {"built"} => app[d] # None
    BY PublishAssumption DEF TInv, Shaped, Tagged
  <2>4. IdleHasNone'
    BY <1>0, <2>1 DEF SetAppId, MixedTakesTwo, IdleHasNone
  <2> QED
    BY <2>1, <2>2, <2>3, <2>4 DEF SetAppId, OneAppSoFar, MixedTakesTwo
<1>3. ASSUME NEW c \in Call,
             \/ BuildIssue(c) \/ PostIssue(c) \/ Issued(c) \/ NotIssued(c)
             \/ NeedDefaults(c) \/ AskDefaults(c) \/ CacheDefaults(c)
             \/ SearchList(c) \/ ReadGrantee(c) \/ AddGrantee(c) \/ PostGrant(c)
             \/ Granted(c) \/ NotGranted(c) \/ EncryptFile(c)
             \/ CallBack(c) \/ CallBackThrows(c)
      PROVE  UNCHANGED <<app, mixed>> /\ \A d \in Call : pc'[d] = "idle" => pc[d] = "idle"
  BY <1>0, <1>3 DEF BuildIssue, PostIssue, Issued, NotIssued, NeedDefaults, AskDefaults,
              CacheDefaults, SearchList, ReadGrantee, AddGrantee, PostGrant, Granted, NotGranted, EncryptFile, CallBack, CallBackThrows, Restart
<1>4. ASSUME ProcessDeath \/ (\E u \in User : Config(u)) \/ ConfigGoesOn \/ UNCHANGED vars
      PROVE  UNCHANGED <<app, mixed>> /\ \A d \in Call : pc'[d] = "idle" => pc[d] = "idle"
  BY <1>0, <1>4 DEF ProcessDeath, Restart, Config, ConfigGoesOn, vars
<1>5. ASSUME UNCHANGED <<app, mixed>>, \A d \in Call : pc'[d] = "idle" => pc[d] = "idle"
      PROVE  IdleHasNone' /\ (OneAppSoFar' => mixed' = {})
  BY <1>5 DEF OneAppSoFar, IdleHasNone, MixedTakesTwo
<1> QED
  BY <1>1, <1>2, <1>3, <1>4, <1>5 DEF Next, Work

(* As long as all calls so far were given the same app id, archives, grants *)
(* and tails carry it (MSD.java:836 to 1019), through overlapping calls,    *)
(* failures, changes of user and restarts.                                  *)
THEOREM AppIdTrueForOneApp == Spec => [](OneAppSoFar => AppIdIsCallers)
<1>1. Init => MixedTakesTwo
  BY DEF Init, MixedTakesTwo, IdleHasNone
<1>2. PInv /\ MixedTakesTwo => (OneAppSoFar => AppIdIsCallers)
  BY DEF PInv, OwnApp, MixedTakesTwo, AppIdIsCallers
<1> QED
  BY InitTInv, StepTInv, InitPInv, StepPInv, StepMixed, <1>1, <1>2, PTL DEF Spec
=============================================================================
