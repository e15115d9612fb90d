------------------------------ MODULE PlaintextFile -----------------------------
(***************************************************************************)
(* The plaintext files that sds_openFile (module OpenFile) leaves behind,  *)
(* and the viewers that show them.  A document is decrypted to the path    *)
(* the host names, which may be that of the ciphertext itself, but is that *)
(* of no other one.  If it is to be opened, openAttachment starts a        *)
(* viewer, for some types under a new name; the office and PDF viewers     *)
(* delete the file when they are destroyed, which is all that removes it.  *)
(*                                                                         *)
(* A request and the viewer it starts share a slot, so that at most as     *)
(* many are alive as there are members of Request.  A viewer shows what    *)
(* the file holds when it loads it.  The text viewer and other apps delete *)
(* nothing.  No activity handles configuration changes itself: a rotation  *)
(* destroys it and creates it anew, as does the system for want of memory. *)
(***************************************************************************)
EXTENDS OpenFile

CONSTANTS
  Plain,     \* names of plaintext files, which may be in Doc
  Renamed,   \* the name each is shown under; mostly its own
  Dotless,   \* the names without a type
  Deleting,  \* the names of types whose viewer deletes the file
  LOADING,   \* what a viewer shows before it has loaded its file
  MaxSubmits \* bound on the sds_openFile calls

ASSUME PlaintextAssumption ==
  /\ Renamed \in [Plain -> Plain]
  /\ Dotless \subseteq Plain /\ Deleting \subseteq Plain \ Dotless
  /\ \A p \in Plain : Renamed[p] # p => /\ Renamed[p] \in Deleting
                                        /\ Renamed[Renamed[p]] = Renamed[p]
                                        /\ Renamed[p] \notin Doc
  /\ None \notin Plain /\ LOADING \notin Doc \cup {None} /\ MaxSubmits \in Nat

VARIABLES
  path,      \* the plainPath of each request
  content,   \* the document whose plaintext a file holds
  file,      \* the file each viewer was started on
  source,    \* the document it was started for
  shows,     \* the document it shows
  left,      \* history: files left to the host or to others, or by a failure
  disturbed, \* history: viewers and requests whose file another one may have changed
  recreated, \* history: viewers recreated after they had deleted their file
  submits

viewers == <<file, source, shows>>
pvars == <<path, content, viewers, left, disturbed, recreated, submits>>

PlaintextInit ==
  /\ Init
  /\ path = [r \in Request |-> None]
  /\ content = [p \in Plain |-> None]
  /\ file = [r \in Request |-> None]
  /\ source = [r \in Request |-> None]
  /\ shows = [r \in Request |-> None]
  /\ left = {} /\ disturbed = {} /\ recreated = {}
  /\ submits = 0

-----------------------------------------------------------------------------
ShownUnderOwnName(p) == p   \* slip: the viewer is started on the old name

(* openAttachment: the name the viewer is started on.                       *)
ShownAs(p) == Renamed[p]

(* The names a request or its viewer has to do with.                        *)
Names(p) == {p, Renamed[p]}
Sharing(r, p) == {s \in Request \ {r} : path[s] # None /\ Names(path[s]) \cap Names(p) # {}}

(* sds_openFile, in a slot that has no viewer.                              *)
SubmitTo(r, d, open, p) ==
  /\ submits < MaxSubmits /\ submits' = submits + 1
  /\ file[r] = None
  /\ p \in Doc => p = d
  /\ Submit(r, d, open, p = d)
  /\ path' = [path EXCEPT ![r] = p]
  /\ disturbed' = IF Sharing(r, p) = {} THEN disturbed \ {r}
                  ELSE disturbed \cup {r} \cup Sharing(r, p)
  /\ recreated' = recreated \ {r}
  /\ UNCHANGED <<content, viewers, left>>

(* What is written for a document that may be read; a failure leaves the    *)
(* file as it was, or removes it.                                           *)
DecideAndWrite(r) ==
  /\ Decide(r)
  /\ \/ /\ result'[r] = "E_OK"
        /\ content' = [content EXCEPT ![path[r]] = doc[r]]
        /\ left' = left \ {path[r]}
     \/ /\ result'[r] = "E_DecryptFail" /\ pc[r] = "deciding"
        /\ content' = [content EXCEPT ![path[r]] = None]
        /\ left' = left \ {path[r]}
     \/ result'[r] # "E_OK" /\ UNCHANGED <<content, left>>
  /\ UNCHANGED <<path, viewers, disturbed, recreated, submits>>

(* A decryption that never returns has opened its output, and may have      *)
(* written to it; that of a null plainPath has a temporary one.             *)
LoopAndWrite(r) ==
  /\ LoopForEver(r)
  /\ \/ /\ pc[r] = "deciding"
        /\ \E c \in {None, doc[r]} : content' = [content EXCEPT ![path[r]] = c]
        /\ left' = left \ {path[r]}
     \/ pc[r] = "noPath" /\ UNCHANGED <<content, left>>
  /\ UNCHANGED <<path, viewers, disturbed, recreated, submits>>

(* Of a type without a deleting viewer: for the text viewer or another app. *)
OpensElsewhere(p) == p = Renamed[p] /\ p \notin Deleting

(* The callback of a failed or a decrypting request, so the host has the    *)
(* file; or the toast of openAttachment that there is no app for its type.  *)
CallBack(r) ==
  /\ Finish(r, "told") \/ (~isOpenFile[r] /\ Finish(r, "toldNoFile"))
  /\ \/ ~isOpenFile[r] \/ result[r] # "E_OK"
     \/ OpensElsewhere(path[r]) /\ path[r] \notin Dotless
  /\ left' = IF pc[r] = "told" /\ result[r] = "E_OK" THEN left \cup {path[r]} ELSE left
  /\ path' = [path EXCEPT ![r] = None]
  /\ UNCHANGED <<content, viewers, disturbed, recreated, submits>>

(* openAttachment: the file is renamed, which may fail and is not noticed,  *)
(* and the viewer of its type is started.                                   *)
OpenAttachment(r) ==
  LET p == path[r] IN
  /\ isOpenFile[r] /\ result[r] = "E_OK" /\ p \notin Dotless
  /\ Finish(r, "told")
  /\ \/ /\ p = Renamed[p]
        /\ left' = IF p \in Deleting THEN left ELSE left \cup {p}
        /\ UNCHANGED <<content, disturbed>>
     \/ /\ p # Renamed[p] /\ content[p] # None
        /\ content' = [content EXCEPT ![Renamed[p]] = content[p], ![p] = None]
        /\ left' = left \ Names(p)
        /\ UNCHANGED disturbed
     \/ /\ p # Renamed[p]
        /\ left' = IF content[p] = None THEN left ELSE left \cup {p}
        /\ disturbed' = disturbed \cup {r}
        /\ UNCHANGED content
  /\ file' = [file EXCEPT ![r] = ShownAs(p)]
  /\ source' = [source EXCEPT ![r] = doc[r]]
  /\ shows' = [shows EXCEPT ![r] = LOADING]
  /\ UNCHANGED <<path, recreated, submits>>

-----------------------------------------------------------------------------
(* deleteFiel, if the viewer is of a type that calls it.                    *)
Deleted(r) == IF file[r] \in Deleting THEN [content EXCEPT ![file[r]] = None] ELSE content
LeftBy(r) == IF file[r] \in Deleting THEN left \ {file[r]} ELSE left

NoViewerKeepsPath(r) ==   \* slip: the slot is not given free
  /\ file' = [file EXCEPT ![r] = None]
  /\ source' = [source EXCEPT ![r] = None]
  /\ shows' = [shows EXCEPT ![r] = None]
  /\ UNCHANGED path

NoViewer(r) ==
  /\ file' = [file EXCEPT ![r] = None]
  /\ source' = [source EXCEPT ![r] = None]
  /\ shows' = [shows EXCEPT ![r] = None]
  /\ path' = [path EXCEPT ![r] = None]

LeaveKeeping(r) ==   \* slip: the viewer does not delete the file
  /\ file[r] # None
  /\ NoViewer(r)
  /\ UNCHANGED <<content, left, disturbed, recreated, submits>>

(* onDestroy: the user leaves the viewer, or an office viewer finishes as   *)
(* it has not found its file.                                               *)
Leave(r) ==
  /\ file[r] # None
  /\ content' = Deleted(r)
  /\ left' = LeftBy(r)
  /\ NoViewer(r)
  /\ UNCHANGED <<disturbed, recreated, submits>>

(* The load posted by onCreate; without the file the viewer is empty.       *)
Load(r) ==
  /\ file[r] # None /\ shows[r] = LOADING
  /\ shows' = [shows EXCEPT ![r] = content[file[r]]]
  /\ UNCHANGED <<path, content, file, source, left, disturbed, recreated, submits>>

(* onDestroy and onCreate, with the same intent.                            *)
Recreate(r) ==
  /\ file[r] # None
  /\ content' = Deleted(r)
  /\ left' = LeftBy(r)
  /\ shows' = [shows EXCEPT ![r] = LOADING]
  /\ recreated' = IF file[r] \in Deleting THEN recreated \cup {r} ELSE recreated
  /\ UNCHANGED <<path, file, source, disturbed, submits>>

(* A decryption in progress may have written part of its file; with one      *)
(* path for both it has truncated it first.                                 *)
Writing(r) == pc[r] = "deciding" /\ HasRight(r) /\ (samePath[r] => r \in truncated)

(* The process ends: viewers are gone without onDestroy, and decryptions in *)
(* progress may have written part of their file.                            *)
ViewersLost ==
  /\ \E cut \in SUBSET {r \in Request : Writing(r)} :
       content' = [p \in Plain |->
         IF \E r \in cut : path[r] = p
         THEN doc[CHOOSE r \in cut : path[r] = p] ELSE content[p]]
  /\ left' = {p \in Plain : content'[p] # None}
  /\ file' = [r \in Request |-> None]
  /\ source' = [r \in Request |-> None]
  /\ shows' = [r \in Request |-> None]
  /\ path' = [r \in Request |-> None]
  /\ disturbed' = {} /\ recreated' = {}
  /\ UNCHANGED submits

(* The steps of a request that touch no plaintext file.                     *)
Quiet(r) ==
  /\ \/ Inspect(r) \/ Granted(r) \/ NotGranted(r) \/ SelectRow(r) \/ WriteRow(r)
     \/ UseCache(r) \/ Truncate(r) \/ (HasRight(r) /\ DecryptInPlace(r))
  /\ UNCHANGED pvars

(* A null path aborts the process, and so do a name without a dot and what  *)
(* starting another app throws: of getUriForFile and startActivity only      *)
(* ActivityNotFoundException is caught.                                     *)
Throws(r) ==
  /\ \/ pc[r] = "noPath" /\ HasRight(r)
     \/ /\ isOpenFile[r] /\ result[r] = "E_OK"
        /\ \/ pc[r] = "toldNoFile"
           \/ pc[r] = "told" /\ (path[r] \in Dotless \/ OpensElsewhere(path[r]))
  /\ Restart /\ UNCHANGED <<replaced, deaths>>
  /\ ViewersLost

RequestWork(r) ==
  \/ Quiet(r) \/ DecideAndWrite(r) \/ LoopAndWrite(r) \/ CallBack(r) \/ OpenAttachment(r)
  \/ Throws(r)

PlaintextNext ==
  \/ \E r \in Request :
       \/ \E d \in Doc, open \in BOOLEAN, p \in Plain : SubmitTo(r, d, open, p)
       \/ RequestWork(r)
       \/ (Leave(r) \/ Load(r) \/ Recreate(r)) /\ UNCHANGED vars
  \/ \E u \in User : Config(u) /\ UNCHANGED pvars
  \/ ProcessDeath /\ ViewersLost

(* As in OpenFile: workers run, a query ends, the main looper turns.        *)
PlaintextSpec ==
  /\ PlaintextInit /\ [][PlaintextNext]_<<vars, pvars>>
  /\ \A r \in Request : WF_<<vars, pvars>>(RequestWork(r))

-----------------------------------------------------------------------------
PlaintextTypeOK ==
  /\ path \in [Request -> Plain \cup {None}]
  /\ content \in [Plain -> Doc \cup {None}]
  /\ file \in [Request -> Plain \cup {None}]
  /\ source \in [Request -> Doc \cup {None}]
  /\ shows \in [Request -> Doc \cup {None, LOADING}]
  /\ left \subseteq Plain /\ disturbed \subseteq Request /\ recreated \subseteq Request
  /\ submits \in 0..MaxSubmits
  /\ \A r \in Request : /\ file[r] = None <=> source[r] = None
                        /\ pc[r] # "idle" \/ file[r] # None <=> path[r] # None
                        /\ pc[r] # "idle" => file[r] = None

(* The plaintext of a document does not outlive the request and the viewer  *)
(* it was made for: whoever shared the file, and however viewers come and   *)
(* go, it is deleted, unless it was made for the host, is of a type that no *)
(* viewer deletes, could not be renamed, or the process ended: it is about  *)
(* renaming, sharing and rotation only.                                     *)
PlaintextRemoved ==
  \A p \in Plain : content[p] # None =>
    \/ p \in left
    \/ \E r \in Request : p \in {path[r], file[r]}

(* A viewer shows the document that it was started for, although it finds it *)
(* by name only, unless another request or viewer had to do with that name; *)
(* it is only empty if it was recreated.                                    *)
ShowsItsDocument ==
  \A r \in Request : file[r] # None /\ shows[r] # LOADING /\ r \notin disturbed =>
    shows[r] = source[r] \/ (shows[r] = None /\ r \in recreated)
=============================================================================
