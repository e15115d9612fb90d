----------------------------- MODULE AccreditProofs ----------------------------
(***************************************************************************)
(* Proofs about Accredit, for any number of sds_encrypt and sds_accredit   *)
(* calls, users, app ids, lists and answers.                               *)
(*                                                                         *)
(* What the server stores was checked some steps earlier, by another       *)
(* callback; the invariants carry the check along with the job, and relate *)
(* the statics the grant is built from to the document and to the user.    *)
(***************************************************************************)
EXTENDS Accredit, PublishProofs

(* What a job at each place has.                                            *)
JobsShaped ==
  \A j \in Job :
    /\ jpc[j] = "querying" => asking[j] \in User
    /\ jpc[j] \in {"allowed", "drafted", "granting"} => basis[j] \in Basis
    /\ jpc[j] = "drafted" => request[j] \in Draft
    /\ jpc[j] = "granting" => request[j] \in Accreditation
    /\ jpc[j] # "idle" => wanted[j] \in Wish /\ tail[of[j]] # None
AInv == AccreditTypeOK /\ JobsShaped

(* A job that is allowed to grant has the rights for it, and a request that *)
(* is built is covered by them and in the name of their owner, unless the   *)
(* user changed; if he did not, no sds_config is halfway.                   *)
Vouched(j) ==
  IF basis[j].cached
  THEN DECRYPT \in basis[j].rights
  ELSE DISTRIBUTE \in basis[j].rights
Covers(j, g) ==
  /\ basis[j] # None /\ Vouched(j)
  /\ ~ basis[j].cached => g.rights \subseteq basis[j].rights \cup {READ}
  /\ g.rights # {} => READ \in g.rights
  /\ j \notin switchedJobs => g.grantor = basis[j].user
Checked ==
  \A j \in Job :
    /\ jpc[j] \in JobWorking /\ j \notin switchedJobs => Configured
    /\ jpc[j] = "querying" /\ j \notin switchedJobs => asking[j] = urlLoginName
    /\ jpc[j] = "allowed" =>
         /\ Vouched(j)
         /\ ~ basis[j].cached => wanted[j].rights \subseteq basis[j].rights
         /\ j \notin switchedJobs => basis[j].user = urlLoginName
    /\ jpc[j] \in {"drafted", "granting"} => Covers(j, request[j])
    /\ stored[j] # None => Covers(j, stored[j])
    /\ jpc[j] = "ok" => stored[j] # None
    /\ jpc[j] \in {"idle", "plain", "submitted", "querying", "failed", "failedNull",
                   "allowed", "drafted", "granting"} => stored[j] = None
CInv == Checked /\ FinishedMeansStored

(* The static app id is that of every document, short of another one.       *)
Foreign(c) == restarted \/ \E d \in Call : app[d] # None /\ app[d] # tail[c]
StaticIsDocuments ==
  /\ \A c \in Call : pc[c] = "idle" => app[c] = None
  /\ \A c \in Call : tail[c] # None => SDS_APP_ID = tail[c] \/ Foreign(c)
  /\ \A j \in Job : jpc[j] = "granting" => request[j].app = tail[of[j]] \/ Foreign(of[j])
DInv == GrantAppOfDocument /\ StaticIsDocuments

-----------------------------------------------------------------------------
(* What the steps of sds_encrypt leave alone: a tail once written, and what *)
(* a call was given.                                                        *)
LEMMA TailsStay ==
  ASSUME TInv, NEW c \in Call, PublishStep(c), NEW d \in Call, tail[d] # None
  PROVE  tail'[d] = tail[d]
<1>1. CASE EncryptFile(c)
  <2>1. d # c
    BY <1>1 DEF EncryptFile, Tell, Goes, TInv, Shaped, Registered
  <2> QED
    BY <1>1, <2>1 DEF EncryptFile, TInv, TypeOK
<1>2. CASE ~ EncryptFile(c)
  <2>1. tail' = tail
    BY <1>2 DEF PublishStep, Encrypt, BuildIssue, SetAppId, PostIssue, Issued, NotIssued,
                NeedDefaults, AskDefaults, CacheDefaults, SearchList, ReadGrantee,
                AddGrantee, PostGrant, Granted, NotGranted, CallBack
  <2> QED
    BY <2>1
<1> QED
  BY <1>1, <1>2

(* Every step of the composition is one of Publish, leaves it alone, or is  *)
(* a restart, which a worker of sds_accredit may cause, too.                *)
LEMMA StepsOfPublish ==
  ASSUME [AccreditNext]_<<vars, jvars>>
  PROVE  [Next]_vars \/ (Restart /\ UNCHANGED deaths)
<1>1. CASE \E j \in Job : Throws(j)
  BY <1>1 DEF Throws
<1>2. CASE ~ \E j \in Job : Throws(j)
  <2>1. (\E c \in Call : PublishStep(c)) => Next
    BY DEF PublishStep, Next, Work
  <2>2. (\E c \in Call : CallBackThrows(c)) => Next
    BY DEF Next, Work
  <2>3. UserChanges => Next
    BY DEF UserChanges, Next
  <2>4. ProcessDeath \/ ConfigGoesOn => Next
    BY DEF Next
  <2> QED
    BY <1>2, <2>1, <2>2, <2>3, <2>4 DEF AccreditNext, JobWork
<1> QED
  BY <1>1, <1>2

LEMMA StepTInvA == TInv /\ [AccreditNext]_<<vars, jvars>> => TInv'
<1> SUFFICES ASSUME TInv, [AccreditNext]_<<vars, jvars>>
             PROVE  TInv'
  OBVIOUS
<1>1. CASE Restart /\ UNCHANGED deaths
  <2>1. deaths' \in 0..MaxDeaths
    BY <1>1 DEF TInv, TypeOK
  <2> QED
    BY <1>1, <2>1, RestartTInv
<1>2. CASE [Next]_vars
  BY <1>2, StepTInv
<1> QED
  BY <1>1, <1>2, StepsOfPublish

-----------------------------------------------------------------------------
LEMMA InitAInv == AccreditInit => AInv
BY AccreditAssumption DEF AccreditInit, AInv, AccreditTypeOK, JobsShaped, JobPlace

LEMMA StartAInv ==
  ASSUME TInv, AInv, NEW j \in Job, NEW c \in Call,
         NEW w \in [rights : Wanted, hasNull : BOOLEAN],
         Accredit(j, c, w), UNCHANGED vars
  PROVE  AInv'
<1>1. w \in Wish
  BY AccreditAssumption DEF Wish
<1> QED
  BY <1>1, AccreditAssumption
     DEF Accredit, Moves, vars, AInv, AccreditTypeOK, JobsShaped, JobPlace

LEMMA JobAInv ==
  ASSUME TInv, AInv, NEW j \in Job, JobStep(j), UNCHANGED vars
  PROVE  AInv'
<1> USE AccreditAssumption
    DEF AInv, AccreditTypeOK, JobsShaped, JobPlace, Moves, vars
<1>0. loginName \in User /\ urlLoginName \in User /\ SDS_APP_ID \in App
  BY DEF TInv, TypeOK
<1>w. \A i \in Job : wanted[i] \in Wish =>
        wanted[i].rights \subseteq Right /\ wanted[i].hasNull \in BOOLEAN
  BY DEF Wish
<1>1. CASE NotCiphertext(j)
  BY <1>1 DEF NotCiphertext
<1>2. CASE QueryRights(j)
  BY <1>0, <1>2 DEF QueryRights
<1>3. CASE RightsAnswered(j)
  <2>1. CASE Moves(j, "querying", "error") /\ UNCHANGED basis
    BY <1>3, <2>1 DEF RightsAnswered
  <2>2. CASE ~ (Moves(j, "querying", "error") /\ UNCHANGED basis)
    <3>1. PICK R \in Answer :
            basis' = [basis EXCEPT ![j] =
                        [user |-> asking[j], rights |-> R, cached |-> FALSE]]
      BY <1>3, <2>2 DEF RightsAnswered
    <3>2. asking[j] \in User
      BY <1>3 DEF RightsAnswered
    <3>3. [user |-> asking[j], rights |-> R, cached |-> FALSE] \in Basis
      BY <3>2 DEF Basis
    <3>4. basis'[j] \in Basis /\ basis' \in [Job -> Basis \cup {None}]
      BY <3>1, <3>3
    <3>5. jpc[j] = "querying" /\ jpc' \in {[jpc EXCEPT ![j] = "allowed"], [jpc EXCEPT ![j] = "error"]}
      BY <1>3 DEF RightsAnswered
    <3>6. \A i \in Job : i # j => basis'[i] = basis[i]
      BY <3>1
    <3> QED
      BY <1>3, <3>4, <3>5, <3>6 DEF RightsAnswered
  <2> QED
    BY <2>1, <2>2
<1>4. CASE QueryFails(j)
  BY <1>4 DEF QueryFails
<1>5. CASE UseCachedRow(j)
  <2>1. CASE Moves(j, "failed", "error") /\ UNCHANGED basis
    BY <1>5, <2>1 DEF UseCachedRow
  <2>2. CASE ~ (Moves(j, "failed", "error") /\ UNCHANGED basis)
    <3>1. PICK R \in Answer :
            basis' = [basis EXCEPT ![j] = [user |-> loginName, rights |-> R, cached |-> TRUE]]
      BY <1>5, <2>2 DEF UseCachedRow
    <3>2. [user |-> loginName, rights |-> R, cached |-> TRUE] \in Basis
      BY <1>0 DEF Basis
    <3>3. basis'[j] \in Basis /\ basis' \in [Job -> Basis \cup {None}]
      BY <3>1, <3>2
    <3>4. /\ jpc[j] \in {"failed", "failedNull"}
          /\ jpc' \in {[jpc EXCEPT ![j] = "allowed"], [jpc EXCEPT ![j] = "error"]}
      BY <1>5 DEF UseCachedRow
    <3>5. \A i \in Job : i # j => basis'[i] = basis[i]
      BY <3>1
    <3> QED
      BY <1>5, <3>3, <3>4, <3>5 DEF UseCachedRow
  <2> QED
    BY <2>1, <2>2
<1>6. CASE AccreditDealer(j)
  <2>1. [grantor |-> urlLoginName, rights |-> WithRead(wanted[j])] \in Draft
    BY <1>0, <1>6, <1>w DEF AccreditDealer, WithRead, Draft, Right
  <2>2. CASE /\ jpc[j] = "allowed" /\ jpc' = [jpc EXCEPT ![j] = "drafted"]
             /\ request' = [request EXCEPT ![j] =
                              [grantor |-> urlLoginName, rights |-> WithRead(wanted[j])]]
    BY <1>6, <2>1, <2>2 DEF AccreditDealer
  <2>3. CASE jpc' = [jpc EXCEPT ![j] = "silent"] /\ UNCHANGED request
    BY <1>6, <2>3 DEF AccreditDealer
  <2> QED
    BY <1>6, <2>2, <2>3 DEF AccreditDealer
<1>10. CASE PostAccredit(j)
  <2>1. request[j].grantor \in User /\ request[j].rights \subseteq Right
    BY <1>10 DEF PostAccredit, Draft
  <2>2. [app |-> SDS_APP_ID, grantor |-> request[j].grantor, rights |-> request[j].rights]
          \in Accreditation
    BY <1>0, <2>1 DEF Accreditation
  <2> QED
    BY <1>10, <2>2 DEF PostAccredit
<1>7. CASE Stored(j)
  BY <1>7 DEF Stored
<1>8. CASE NotStored(j)
  BY <1>8 DEF NotStored
<1>9. CASE JobCallBack(j)
  BY <1>9 DEF JobCallBack
<1> QED
  BY <1>1, <1>2, <1>3, <1>4, <1>5, <1>6, <1>7, <1>8, <1>9, <1>10 DEF JobStep

(* The jobs that are cut off, and what happens beside them.                 *)
LEMMA LostAInv ==
  ASSUME AInv, JobsLost, tail' = tail
  PROVE  AInv'
BY DEF JobsLost, AInv, AccreditTypeOK, JobsShaped, JobPlace

LEMMA BesideAInv ==
  ASSUME TInv, AInv,
         \/ \E c \in Call : PublishStep(c) /\ UNCHANGED jvars
         \/ UserChanges \/ (ConfigGoesOn /\ UNCHANGED jvars)
         \/ \E c \in Call : Change(c) /\ UNCHANGED vars
         \/ UNCHANGED <<vars, jvars>>
  PROVE  AInv'
<1> USE DEF AInv, AccreditTypeOK, JobsShaped
<1>1. ASSUME NEW c \in Call, PublishStep(c), UNCHANGED jvars
      PROVE  AInv'
  <2>1. \A d \in Call : tail[d] # None => tail'[d] # None
    BY <1>1, TailsStay
  <2> QED
    BY <1>1, <2>1 DEF jvars
<1>2. CASE UserChanges \/ (ConfigGoesOn /\ UNCHANGED jvars)
  BY <1>2 DEF UserChanges, Config, ConfigGoesOn, jvars
<1>3. CASE \E c \in Call : Change(c) /\ UNCHANGED vars
  BY <1>3 DEF Change, vars
<1>4. CASE UNCHANGED <<vars, jvars>>
  BY <1>4 DEF vars, jvars
<1> QED
  BY <1>1, <1>2, <1>3, <1>4

LEMMA StepAInv == TInv /\ AInv /\ [AccreditNext]_<<vars, jvars>> => AInv'
<1> SUFFICES ASSUME TInv, AInv, [AccreditNext]_<<vars, jvars>>
             PROVE  AInv'
  OBVIOUS
<1>1. CASE JobsLost /\ Restart
  BY <1>1, LostAInv DEF Restart
<1> QED
  BY <1>1, StartAInv, JobAInv, BesideAInv
     DEF AccreditNext, JobWork, Throws, CallBackThrows, ProcessDeath

(* The jobs are well typed, in the composition.                             *)
THEOREM JobsTypeCorrect == AccreditSpec => []AccreditTypeOK
<1>1. AInv => AccreditTypeOK
  BY DEF AInv
<1>2. AccreditInit => TInv
  BY InitTInv DEF AccreditInit
<1> QED
  BY InitAInv, StepTInvA, StepAInv, <1>1, <1>2, PTL DEF AccreditSpec

-----------------------------------------------------------------------------
(* What was checked before a grant.                                         *)

(* What the rights that came decide.                                        *)
LEMMA AnswerDecides ==
  ASSUME AInv, NEW j \in Job, RightsAnswered(j), jpc'[j] = "allowed"
  PROVE  /\ basis'[j].user = asking[j] /\ ~ basis'[j].cached
         /\ DISTRIBUTE \in basis'[j].rights
         /\ wanted[j].rights \subseteq basis'[j].rights
<1>1. PICK R \in Answer :
        /\ basis' = [basis EXCEPT ![j] = [user |-> asking[j], rights |-> R, cached |-> FALSE]]
        /\ Moves(j, "querying", IF IsCanAccredit(wanted[j].rights, R) /\ DISTRIBUTE \in R
                                THEN "allowed" ELSE "error")
  BY DEF RightsAnswered, Moves, AInv, AccreditTypeOK
<1>2. basis'[j] = [user |-> asking[j], rights |-> R, cached |-> FALSE]
  BY <1>1 DEF AInv, AccreditTypeOK
<1>3. IsCanAccredit(wanted[j].rights, R) /\ DISTRIBUTE \in R
  BY <1>1 DEF Moves, AInv, AccreditTypeOK
<1> QED
  BY <1>1, <1>2, <1>3 DEF IsCanAccredit

LEMMA RowDecides ==
  ASSUME AInv, NEW j \in Job, UseCachedRow(j), jpc'[j] = "allowed"
  PROVE  basis'[j].user = loginName /\ basis'[j].cached /\ DECRYPT \in basis'[j].rights
<1>1. PICK R \in Answer, from \in {"failed", "failedNull"} :
        /\ basis' = [basis EXCEPT ![j] = [user |-> loginName, rights |-> R, cached |-> TRUE]]
        /\ Moves(j, from, IF DECRYPT \in R THEN "allowed" ELSE "error")
  BY DEF UseCachedRow, Moves, AInv, AccreditTypeOK
<1>2. basis'[j] = [user |-> loginName, rights |-> R, cached |-> TRUE]
  BY <1>1 DEF AInv, AccreditTypeOK
<1>3. DECRYPT \in R
  BY <1>1 DEF Moves, AInv, AccreditTypeOK
<1> QED
  BY <1>2, <1>3

(* What is built: the list, with the right to read.                         *)
LEMMA DraftCovered ==
  ASSUME AInv, Checked, NEW j \in Job, jpc[j] = "allowed"
  PROVE  Covers(j, [grantor |-> urlLoginName, rights |-> WithRead(wanted[j])])
<1>1. basis[j] \in Basis /\ basis[j] # None
  BY AccreditAssumption DEF AInv, JobsShaped
<1>2. WithRead(wanted[j]) \subseteq wanted[j].rights \cup {READ}
  BY DEF WithRead
<1>3. WithRead(wanted[j]) # {} => READ \in WithRead(wanted[j])
  BY DEF WithRead
<1> QED
  BY <1>1, <1>2, <1>3 DEF Covers, Checked

LEMMA InitCInv == AccreditInit => CInv
BY DEF AccreditInit, CInv, Checked, FinishedMeansStored, JobWorking

(* A job moves; the others and what they rest on stay.                      *)
LEMMA JobCInv ==
  ASSUME TInv, AInv, CInv, NEW j \in Job, JobStep(j), UNCHANGED vars
  PROVE  CInv'
<1> USE DEF CInv, Checked, FinishedMeansStored, Covers, Vouched, Moves, JobWorking, JobPlace,
            Configured, vars, statics, names
<1>0. /\ jpc \in [Job -> JobPlace] /\ asking \in [Job -> User \cup {None}]
      /\ basis \in [Job -> Basis \cup {None}]
      /\ request \in [Job -> Draft \cup Accreditation \cup {None}]
      /\ stored \in [Job -> Accreditation \cup {None}] /\ finished \subseteq Job
  BY DEF AInv, AccreditTypeOK
<1>1. CASE NotCiphertext(j)
  BY <1>0, <1>1 DEF NotCiphertext
<1>2. CASE QueryRights(j)
  BY <1>0, <1>2 DEF QueryRights
<1>3. CASE RightsAnswered(j)
  <2>1. jpc[j] = "querying" /\ jpc' \in {[jpc EXCEPT ![j] = "allowed"], [jpc EXCEPT ![j] = "error"]}
    BY <1>3 DEF RightsAnswered
  <2>2. \A i \in Job : i # j => basis'[i] = basis[i]
    BY <1>0, <1>3 DEF RightsAnswered
  <2> QED
    BY <1>0, <1>3, <2>1, <2>2, AnswerDecides DEF RightsAnswered
<1>4. CASE QueryFails(j)
  BY <1>0, <1>4 DEF QueryFails
<1>5. CASE UseCachedRow(j)
  <2>1. /\ jpc[j] \in {"failed", "failedNull"}
        /\ jpc' \in {[jpc EXCEPT ![j] = "allowed"], [jpc EXCEPT ![j] = "error"]}
    BY <1>5 DEF UseCachedRow
  <2>2. \A i \in Job : i # j => basis'[i] = basis[i]
    BY <1>0, <1>5 DEF UseCachedRow
  <2> QED
    BY <1>0, <1>5, <2>1, <2>2, RowDecides DEF UseCachedRow
<1>6. CASE AccreditDealer(j)
  <2>1. Covers(j, [grantor |-> urlLoginName, rights |-> WithRead(wanted[j])])
    BY <1>6, DraftCovered DEF AccreditDealer
  <2>2. CASE /\ jpc[j] = "allowed" /\ jpc' = [jpc EXCEPT ![j] = "drafted"]
             /\ request' = [request EXCEPT ![j] =
                              [grantor |-> urlLoginName, rights |-> WithRead(wanted[j])]]
    <3>1. request'[j] = [grantor |-> urlLoginName, rights |-> WithRead(wanted[j])]
      BY <1>0, <2>2
    <3>2. \A i \in Job : i # j => request'[i] = request[i]
      BY <1>0, <2>2
    <3>3. /\ jpc'[j] = "drafted" /\ stored[j] = None
          /\ \A i \in Job : i # j => jpc'[i] = jpc[i]
          /\ UNCHANGED <<wanted, asking, basis, stored, finished, switchedJobs,
                         loginName, urlLoginName, userId>>
      BY <1>0, <1>6, <2>2 DEF AccreditDealer
    <3>4. Covers(j, request[j])'
      BY <2>1, <3>1, <3>3
    <3>5. ASSUME NEW i \in Job, i # j, jpc[i] \in {"drafted", "granting"}
          PROVE  Covers(i, request[i])'
      BY <3>2, <3>3, <3>5
    <3> HIDE DEF Covers
    <3>6. \A i \in Job : stored[i] # None => Covers(i, stored[i])'
      BY <3>3 DEF Covers
    <3>7. (\A i \in Job : jpc[i] \in {"drafted", "granting"} => Covers(i, request[i]))'
      BY <3>3, <3>4, <3>5
    <3> QED
      BY <2>2, <3>3, <3>6, <3>7
  <2>3. CASE /\ jpc[j] = "allowed" /\ jpc' = [jpc EXCEPT ![j] = "silent"]
             /\ UNCHANGED request
    BY <1>0, <1>6, <2>3 DEF AccreditDealer
  <2> QED
    BY <1>6, <2>2, <2>3 DEF AccreditDealer
<1>10. CASE PostAccredit(j)
  BY <1>0, <1>10 DEF PostAccredit
<1>7. CASE Stored(j)
  <2>1. request[j] # None
    BY <1>7, AccreditAssumption DEF Stored, AInv, JobsShaped
  <2> QED
    BY <1>0, <1>7, <2>1 DEF Stored
<1>8. CASE NotStored(j)
  BY <1>0, <1>8 DEF NotStored
<1>9. CASE JobCallBack(j)
  BY <1>0, <1>9 DEF JobCallBack
<1> QED
  BY <1>1, <1>2, <1>3, <1>4, <1>5, <1>6, <1>7, <1>8, <1>9, <1>10 DEF JobStep

(* A new job has nothing yet; a lost one keeps what the server has.  A      *)
(* change of user concerns the jobs at work, and marks them.                *)
LEMMA OtherCInv ==
  ASSUME AInv, CInv,
         \/ \E j \in Job, c \in Call, w \in [rights : Wanted, hasNull : BOOLEAN] :
              Accredit(j, c, w) /\ UNCHANGED vars
         \/ JobsLost
         \/ UserChanges
         \/ ConfigGoesOn /\ UNCHANGED jvars
         \/ UNCHANGED <<jvars, names>>
         \/ \E c \in Call : Change(c) /\ UNCHANGED vars
  PROVE  CInv'
<1> USE DEF CInv, Checked, FinishedMeansStored, Covers, Vouched, Moves, JobWorking, JobPlace,
            Configured, vars, statics, names
<1>0. /\ jpc \in [Job -> JobPlace] /\ wanted \in [Job -> Wish \cup {None}]
      /\ finished \subseteq Job
  BY DEF AInv, AccreditTypeOK
<1>1. CASE \E j \in Job, c \in Call, w \in [rights : Wanted, hasNull : BOOLEAN] :
             Accredit(j, c, w) /\ UNCHANGED vars
  BY <1>0, <1>1 DEF Accredit
<1>2. CASE JobsLost
  BY <1>0, <1>2 DEF JobsLost, JobPlace
<1>3. CASE UserChanges
  BY <1>0, <1>3 DEF UserChanges, Config
<1>4. CASE UNCHANGED <<jvars, names>>
  BY <1>4 DEF jvars
<1>6. CASE ConfigGoesOn /\ UNCHANGED jvars
  BY <1>6 DEF ConfigGoesOn, jvars
<1>5. CASE \E c \in Call : Change(c) /\ UNCHANGED vars
  BY <1>5 DEF Change
<1> QED
  BY <1>1, <1>2, <1>3, <1>4, <1>5, <1>6

LEMMA StepCInv == TInv /\ AInv /\ CInv /\ [AccreditNext]_<<vars, jvars>> => CInv'
<1> SUFFICES ASSUME TInv, AInv, CInv, [AccreditNext]_<<vars, jvars>>
             PROVE  CInv'
  OBVIOUS
<1>1. \A c \in Call : PublishStep(c) => UNCHANGED names
  BY DEF statics, PublishStep, Encrypt, BuildIssue, SetAppId, PostIssue, Issued, NotIssued,
         NeedDefaults, AskDefaults, CacheDefaults, SearchList, ReadGrantee, AddGrantee,
         PostGrant, Granted, NotGranted, EncryptFile, CallBack
<1>2. UNCHANGED vars => UNCHANGED names
  BY DEF vars, statics
<1> QED
  BY <1>1, <1>2, JobCInv, OtherCInv DEF AccreditNext, JobWork, Throws

(* Nobody is given a right through the server that the granting user lacked, *)
(* save that to read; and the grant is in the name of the user whose rights *)
(* were checked, unless the user changed meanwhile.                         *)
THEOREM GrantsAreChecked == AccreditSpec => []GrantChecked
<1>1. CInv => GrantChecked
  BY DEF CInv, Checked, Covers, Vouched, GrantChecked
<1>2. AccreditInit => TInv
  BY InitTInv DEF AccreditInit
<1> QED
  BY InitAInv, InitCInv, StepTInvA, StepAInv, StepCInv, <1>1, <1>2, PTL DEF AccreditSpec

(* A host is told that rights are granted only if the server stored them.   *)
THEOREM SuccessMeansStored == AccreditSpec => []FinishedMeansStored
<1>1. CInv => FinishedMeansStored
  BY DEF CInv
<1>2. AccreditInit => TInv
  BY InitTInv DEF AccreditInit
<1> QED
  BY InitAInv, InitCInv, StepTInvA, StepAInv, StepCInv, <1>1, <1>2, PTL DEF AccreditSpec

-----------------------------------------------------------------------------
(* The app id of a grant.                                                   *)

LEMMA InitDInv == AccreditInit => DInv
BY DEF AccreditInit, Init, DInv, GrantAppOfDocument, StaticIsDocuments

(* A tail is written from the static, and the static from an app id that is *)
(* either the document's or another one.                                    *)
LEMMA PublishDInv ==
  ASSUME TInv, AInv, CInv, DInv, NEW c \in Call, PublishStep(c), UNCHANGED jvars
  PROVE  DInv'
<1> USE DEF TInv, TypeOK, Goes, Tell, TellFailure, names, statics, given, read, server, history
<1>1. \A d \in Call : pc'[d] = "idle" => pc[d] = "idle" /\ app'[d] = app[d]
  BY DEF PublishStep, Encrypt, BuildIssue, SetAppId, PostIssue, Issued, NotIssued,
         NeedDefaults, AskDefaults, CacheDefaults, SearchList, ReadGrantee, AddGrantee,
         PostGrant, Granted, NotGranted, EncryptFile, CallBack
<1>2. \A d \in Call : pc[d] # "idle" => app'[d] = app[d]
  BY DEF PublishStep, Encrypt, BuildIssue, SetAppId, PostIssue, Issued, NotIssued,
         NeedDefaults, AskDefaults, CacheDefaults, SearchList, ReadGrantee, AddGrantee,
         PostGrant, Granted, NotGranted, EncryptFile, CallBack
<1>3. \A d \in Call : app[d] # None => app'[d] = app[d]
  BY <1>2 DEF DInv, StaticIsDocuments
<1>4. \A d \in Call : tail[d] # None => tail'[d] = tail[d]
  BY TailsStay
<1>5. \A d \in Call : tail[d] # None /\ Foreign(d) => Foreign(d)'
  BY <1>3, <1>4 DEF Foreign, jvars
<1>6. ASSUME NEW d \in Call, tail'[d] # None
      PROVE  SDS_APP_ID' = tail'[d] \/ Foreign(d)'
  <2>1. CASE SetAppId(c)
    <3>1. /\ tail'[d] = tail[d] /\ app'[c] = app[c] /\ app[c] # None
          /\ SDS_APP_ID' = app[c]
      BY <2>1, PublishAssumption DEF SetAppId, Shaped
    <3> QED
      BY <3>1 DEF Foreign
  <2>2. CASE EncryptFile(c) /\ tail[d] = None
    BY <1>6, <2>2 DEF EncryptFile
  <2>3. CASE ~ SetAppId(c) /\ tail[d] # None
    <3>1. SDS_APP_ID' = SDS_APP_ID
      BY <2>3 DEF PublishStep, Encrypt, BuildIssue, PostIssue, Issued, NotIssued,
                  NeedDefaults, AskDefaults, CacheDefaults, SearchList, ReadGrantee,
                  AddGrantee, PostGrant, Granted, NotGranted, EncryptFile, CallBack
    <3> QED
      BY <1>4, <1>5, <2>3, <3>1 DEF DInv, StaticIsDocuments
  <2>4. CASE ~ SetAppId(c) /\ ~ EncryptFile(c) /\ tail[d] = None
    <3>1. tail' = tail
      BY <2>4 DEF PublishStep, Encrypt, BuildIssue, PostIssue, Issued, NotIssued,
                  NeedDefaults, AskDefaults, CacheDefaults, SearchList, ReadGrantee,
                  AddGrantee, PostGrant, Granted, NotGranted, CallBack
    <3> QED
      BY <1>6, <2>4, <3>1
  <2>5. CASE SetAppId(c) /\ tail[d] = None
    BY <1>6, <2>5 DEF SetAppId
  <2> QED
    BY <2>1, <2>2, <2>3, <2>4, <2>5
<1>7. \A j \in Job : jpc[j] # "idle" => of[j] \in Call /\ tail[of[j]] # None
  BY DEF AInv, AccreditTypeOK, JobsShaped
<1>8. StaticIsDocuments'
  BY <1>1, <1>4, <1>5, <1>6, <1>7 DEF DInv, StaticIsDocuments, jvars
<1> HIDE DEF TInv, TypeOK, Goes, Tell, TellFailure, names, statics, given, read, server, history
<1>9. \A j \in Job : stored[j] # None => jpc[j] # "idle"
  BY DEF CInv, Checked
<1>10. GrantAppOfDocument'
  BY <1>4, <1>5, <1>7, <1>9 DEF DInv, GrantAppOfDocument, Foreign, jvars
<1> QED
  BY <1>8, <1>10 DEF DInv

(* Only the request and what is stored matter of a job.                     *)
LEMMA JobDInv ==
  ASSUME AInv, CInv, DInv, NEW j \in Job,
         \/ JobStep(j)
         \/ \E c \in Call, w \in [rights : Wanted, hasNull : BOOLEAN] : Accredit(j, c, w),
         UNCHANGED vars
  PROVE  DInv'
<1> USE DEF DInv, GrantAppOfDocument, StaticIsDocuments, Foreign, Moves, vars, names, statics, given, server
<1>0. /\ jpc \in [Job -> JobPlace] /\ of \in [Job -> Call \cup {None}]
      /\ request \in [Job -> Draft \cup Accreditation \cup {None}]
      /\ stored \in [Job -> Accreditation \cup {None}]
      /\ \A i \in Job : jpc[i] # "idle" => of[i] \in Call /\ tail[of[i]] # None
      /\ \A i \in Job : stored[i] # None => jpc[i] # "idle"
  BY DEF AInv, AccreditTypeOK, JobsShaped, CInv, Checked
<1>1. CASE \E c \in Call, w \in [rights : Wanted, hasNull : BOOLEAN] : Accredit(j, c, w)
  BY <1>0, <1>1 DEF Accredit
<1>2. CASE PostAccredit(j)
  BY <1>0, <1>2 DEF PostAccredit
<1>3. CASE Stored(j)
  BY <1>0, <1>3 DEF Stored
<1>4. CASE NotCiphertext(j) \/ QueryRights(j) \/ RightsAnswered(j) \/ QueryFails(j)
           \/ UseCachedRow(j) \/ AccreditDealer(j) \/ NotStored(j) \/ JobCallBack(j)
  <2>1. /\ stored' = stored /\ of' = of /\ restarted' = restarted
        /\ \A i \in Job : jpc'[i] = "granting" => jpc[i] = "granting" /\ request'[i] = request[i]
    BY <1>0, <1>4 DEF NotCiphertext, QueryRights, RightsAnswered, QueryFails, UseCachedRow,
                      AccreditDealer, NotStored, JobCallBack
  <2> QED
    BY <2>1
<1> QED
  BY <1>1, <1>2, <1>3, <1>4 DEF JobStep

LEMMA LostDInv ==
  ASSUME AInv, DInv, Restart, JobsLost
  PROVE  DInv'
<1>1. restarted' /\ \A j \in Job : jpc'[j] # "granting"
  BY DEF JobsLost
<1>2. \A c \in Call : pc'[c] = "idle" => app'[c] = None
  BY DEF Restart, given, DInv, StaticIsDocuments
<1> QED
  BY <1>1, <1>2 DEF DInv, GrantAppOfDocument, StaticIsDocuments, Foreign, JobsLost

LEMMA StepDInv ==
  TInv /\ AInv /\ CInv /\ DInv /\ [AccreditNext]_<<vars, jvars>> => DInv'
<1> SUFFICES ASSUME TInv, AInv, CInv, DInv, [AccreditNext]_<<vars, jvars>>
             PROVE  DInv'
  OBVIOUS
<1>1. CASE UserChanges \/ (\E c \in Call : Change(c) /\ UNCHANGED vars)
           \/ (ConfigGoesOn /\ UNCHANGED jvars) \/ UNCHANGED <<vars, jvars>>
  <2>1. UNCHANGED <<SDS_APP_ID, tail, app, pc, of, request, stored, jpc, restarted>>
    BY <1>1 DEF UserChanges, Config, ConfigGoesOn, Change, vars, jvars, statics, given
  <2> QED
    BY <2>1 DEF DInv, GrantAppOfDocument, StaticIsDocuments, Foreign
<1>2. CASE Restart /\ JobsLost
  BY <1>2, LostDInv
<1> QED
  BY <1>1, <1>2, PublishDInv, JobDInv
     DEF AccreditNext, JobWork, Throws, CallBackThrows, ProcessDeath

(* The rights to a document are granted under the app id in its tail,       *)
(* unless a sds_encrypt call with another one was made or the process ended.*)
THEOREM GrantedUnderAppOfDocument == AccreditSpec => []GrantAppOfDocument
<1>1. DInv => GrantAppOfDocument
  BY DEF DInv
<1>2. AccreditInit => TInv
  BY InitTInv DEF AccreditInit
<1> QED
  BY InitAInv, InitCInv, InitDInv, StepTInvA, StepAInv, StepCInv, StepDInv, <1>1, <1>2, PTL
     DEF AccreditSpec

-----------------------------------------------------------------------------
(* sds_encrypt beside sds_accredit: the invariants of Publish again, where  *)
(* the process may also end because a worker of sds_accredit throws.        *)
PubInv == PInv /\ UInv /\ OInv /\ AInvP

LEMMA RestartPubInv ==
  ASSUME TInv, PubInv, Restart
  PROVE  PubInv'
<1>1. UNCHANGED <<given, server, tail, history>>
      /\ \A c \in Call : pc'[c] \in {"idle", "over"}
  BY DEF Restart
<1>2. PInv'
  BY <1>1 DEF PubInv, PInv, OwnApp, OwnLevel, StaticsAreOwn, Tagged, given, server, history
<1>3. UInv'
  BY <1>1 DEF PubInv, UInv, CreatorCanOpen, UserIsCreator, Registered, Working, server, history
<1>4. OInv'
  <2>1. CacheRightful'
    BY DEF Restart, CacheRightful
  <2> QED
    BY <1>1, <2>1 DEF PubInv, OInv, RightsOfOwner, OrderRightful, Rightful, server, history
<1>5. AInvP'
  BY RestartPassed DEF PubInv
<1> QED
  BY <1>2, <1>3, <1>4, <1>5 DEF PubInv

LEMMA StepPubInv == TInv /\ PubInv /\ [AccreditNext]_<<vars, jvars>> => PubInv'
<1> SUFFICES ASSUME TInv, PubInv, [AccreditNext]_<<vars, jvars>>
             PROVE  PubInv'
  OBVIOUS
<1>1. CASE Restart
  BY <1>1, RestartPubInv
<1>2. CASE [Next]_vars
  BY <1>2, StepPInv, StepUInv, StepOInv, StepPassed DEF PubInv
<1> QED
  BY <1>1, <1>2, StepsOfPublish

(* With any number of sds_accredit calls beside them, what sds_encrypt      *)
(* calls register, grant and write is still their own, the creator's and    *)
(* within his rights, short of the disturbances the four properties name.   *)
THEOREM EncryptingBesideGranting ==
  AccreditSpec => []TypeOK /\ []OwnApp /\ []OwnLevel /\ []CreatorCanOpen /\ []RightsOfOwner
<1>1. AccreditInit => TInv /\ PubInv
  BY InitTInv, InitPInv, InitUInv, InitOInv, InitPassed DEF AccreditInit, PubInv
<1>2. TInv => TypeOK
  BY DEF TInv
<1>3. PubInv => OwnApp /\ OwnLevel /\ CreatorCanOpen /\ RightsOfOwner
  BY DEF PubInv, PInv, UInv, OInv
<1> QED
  BY StepTInvA, StepPubInv, <1>1, <1>2, <1>3, PTL DEF AccreditSpec

(* And the composition implements Publication: granting to others never     *)
(* registers, re-grants or re-encrypts a document.                          *)
THEOREM PublicationBesideGranting == AccreditSpec => PublicationKept
<1>1. AccreditInit => TInv /\ PubInv /\ Publication!Init
  BY InitTInv, InitPInv, InitUInv, InitOInv, InitPassed, InitPublication
     DEF AccreditInit, PubInv
<1>2. TInv /\ PubInv /\ [AccreditNext]_<<vars, jvars>>
        => [Publication!Next]_(Publication!vars)
  <2>1. Restart => UNCHANGED Publication!vars
    BY DEF Restart, Publication!vars, server
  <2> QED
    BY <2>1, StepsOfPublish, StepPublication DEF PubInv
<1> QED
  BY StepTInvA, StepPubInv, <1>1, <1>2, PTL
     DEF AccreditSpec, PublicationKept, Publication!Spec
=============================================================================
