# TLA+ verification of the secure-document SDK (MSsdk)

`src/MSsdk` is an Android library. A host application hands it files; the SDK
publishes and encrypts them, asks a server for the rights and the key of an
encrypted file, decrypts it, shows it in a viewer, and reports every such
operation to the server as an audit record. This directory holds TLA+ modules
that model the parts of the SDK where order, concurrency and failure matter, TLC
configurations that check them on small instances, and TLAPS proofs of their main
invariants for every value of the constants.

Below, `J/` is `src/MSsdk/src/main/java/com/eetrust/` and `C/` is
`src/MSsdk/src/main/jni/Crypto/`; `MSD` is `J/securedocsdk/MSD.java`.

## 1. Inventory

### How the SDK runs

`MSD` is a singleton; the host calls its `sds_*` methods on the main thread. A
method checks its parameters, starts a `Thread` and returns; the thread does the
network request (blocking `HttpURLConnection`, or, when
`HttpFields.IS_NET_REQUEST` is false, a `SecurityDocumentInterface` that the host
implements), touches the database and the native library, and sends one `Message`
to a `Handler` of the main looper, whose `handleMessage` calls the host's
callback. Threads share, without locks: the fields of `MSD` (`loginName`,
`userLogsString`, `viewCallBack`), the statics of `HttpFields` and `HttpUrl`
(app id, confidentiality, cookie, default rights), one pull parser, and the
SQLite database. The database handle alone is guarded, by the monitor of
`DatabaseManager`.

### Components

| component | state | operations | interacts with |
|---|---|---|---|
| Shared database handle (`DatabaseManager`) | `mOpenCounter`, `mDatabase`, the monitor | `getReadableDatabase`, `getWritableDatabase`, `closeDatabase` | every method of `DbService`, from any thread |
| Audit-log outbox (`MSD.sendLog`, `DbService` log methods, `LogTable`) | rows of `LogTable`, the field `userLogsString`, the batch of each call | `sendLog`, `sendLogSuccess`, `selectAllLog`, `insertLog`, `deleteLog` | open handler (new records), `sds_config` and `sds_authenticate` (stored ones), server |
| Opening and decrypting (`MSD.sds_openFile`, `openFileResultHandler`, `RightAndkeyTable`) | rows of `RightAndkeyTable`, `loginName`, request locals | tail check, query, save, cache fallback, right check, decryption, message | server, `DbService`, native library, viewers, outbox |
| Encryption and publishing (`MSD.sds_encrypt`) | `SDS_APP_ID`, `ARCHIVES_CONFIDENTIAL`, `defultRights`, request locals | issue, default rights, grant, encrypt, message | server, native library |
| Granting (`MSD.sds_accredit`, `NetRequestModel`) | none of its own; reads the rights cache | query rights, check, grant | server, `DbService` |
| Session (`sds_config`, `sds_authenticate`, `sds_logout`) | `loginName`, URLs, cookie, `userId` | as named | all others read this state |
| HTTP client and XML (`HttpUtils`, `XMLPullUtils`, `XMLBuildUtils`) | cookie, the shared parser | `urlConnectionPost`, `xml2Obj`, builders | all that post |
| Cipher container (`C/`) | the file: header of blocks, tail with ids | `SD_EncryptFile`, `SD_DecryptFile`, `SD_IsSecureDoc` | files; called from worker threads |
| Viewers and the plaintext (`utils/OpenFile`, `fileOpen/*Activity`) | the decrypted file on disk | start a viewer, delete the file when it closes | `openFileResultHandler` |
| `sds_isCiphertext` | none | tail check on a thread | native library |
| SQLite, network, server | external | | |
| OpenSSL, MuPDF, the WPS client and the sample app | vendored or demonstration code | | |

### What makes each correct, and what is hard about it

- **Database handle.** Any number of threads borrow and return one handle. Nobody
  may work on a closed handle, two connections must not be open, none may leak,
  and the field must not change under a borrower. Hard: the counter is an
  `AtomicInteger`, but counter and field are only consistent inside the monitor.
- **Outbox.** A record of an operation must stay somewhere until the server has it,
  and must not be posted twice for no reason. Hard: the thread reads a *field*
  that the next call overwrites; a reply can be lost after the server stored the
  batch; the process can die between acknowledgement and delete.
- **Opening.** A file is decrypted only for a user to whom the server gave the
  right; the cache must hold what was saved last; every request must end. Hard:
  the login name changes between query and save; a save is two statements; an
  answer without a result element continues with a null output path, which means
  "in place" to the native code or aborts the process; nobody compares the paths of
  ciphertext and plaintext.
- **Publishing.** One message per call; the tail's app id, the issue's and the
  grant's agree; no ciphertext without a grant. Hard: app id and confidentiality
  are statics written by every call; the user is in three statics that `sds_config` writes
  one after the other, and is read six times during a call, twice within one expression; an
  error need not have a text.
- **Granting.** No right is granted that the caller does not have, in whose name it
  is granted. Hard: online and cached decisions ask for different rights; rights are
  checked for one login name and granted under another moment's; the app id comes
  from a static that `sds_encrypt` writes; the file is read twice.
- **Session.** A request is made under one user. Hard: cookie and name change
  independently.
- **Container.** Decryption inverts encryption at every block boundary; the tail
  identifies the document; a call that fails does not lose it. Hard: three roundings
  that must cancel out, 64-bit ids in 32-bit fields, a size `ftell` cannot say,
  replacing a file in place, writes nobody checks.
- **Viewers.** A decrypted file disappears when its viewer does, and a viewer shows
  the document it was started for. Hard: files are found by name, names are changed
  on the way, a rotation destroys and recreates a viewer, only some viewers delete
  the file and none does when the process dies.

`PROJECT.json` lists each hazard with its line and the properties that cover it.

## 2. Modules

| module | models | abstract specification | proofs |
|---|---|---|---|
| `DatabaseManager` | `J/db_operation/DatabaseManager.java` | `Lease` | `DatabaseManagerProofs` |
| `LogOutbox` | `sendLog` with the `LogTable` | `LogDelivery` | `LogOutboxProofs` |
| `OpenFile` | `sds_openFile` with the rights cache | `RightsCache` | `OpenFileProofs` |
| `PlaintextFile`, extends `OpenFile` | the plaintext of `sds_openFile` and its viewers | | `PlaintextFileProofs` |
| `Publish` | `sds_encrypt` | `Publication` | `PublishProofs` |
| `Accredit`, extends `Publish` | `sds_accredit` beside `sds_encrypt` | | `AccreditProofs` |
| `CipherContainer` | `C/SDCrypto.cpp` and its JNI functions | | `CipherContainerProofs` |

`MCx` modules hold the model values of the runs and the symmetry sets. A module that
extends another composes the two: its actions conjoin an action of the component
below with what it does to the state added, so that the properties of the lower
component can be checked in the larger system.

### DatabaseManager

One `pc` per thread. `EnterGet`/`LeaveGet` and `EnterClose`/`LeaveClose` split each
synchronized method into "enter the monitor and change the counter" and "the rest",
so that dropping the monitor is visible as a bug. `held` is the handle the
borrower's method works with. `LeaveGet` takes a handle that nobody holds any
more: Java never hands out an object that is still referenced as a new one.
`ProcessDeath` is an uncaught exception or a kill: static state is gone.

`Lease` is what the methods of `DbService` rely on: a borrower is lent the one open
connection until it gives it back, and nothing stays open that is not lent. Borrowing and
giving back are single steps there; `LeaseOf` maps the set of open handles and `held` to it,
so the counter, the field and the monitor are what the refinement explains away.

### LogOutbox

A record is a member of `Log`, a batch or an XML a set of records: a batch never
mixes stored and new records, which `fromTable` says. `SendRecord` and `SendOfflineLogs` are what runs
in the caller's thread; `ReadField` is the first thing the call's thread does and the
only place where it sees `userLogsString`. The three outcomes of the post are
`PostAccepted`, `PostReplyLost` and `PostRefused`; the callback deletes one row per
step (`DeleteLog`) or inserts (`StoreFailed`; when `InsertMayFail`, an insert may also
fail, which the code does not look at). `received` saturates at 2, enough to
tell "once" from "more". `misposted` and `lost` are history: which records were in
a batch whose thread posted something else, and which were lost with the process or a
failed insert.
When `BuildMayFail`, building the XML throws and the field keeps its old value.

`LogDelivery` is what a user of the log is promised: new, kept, delivered, or lost
with the process or a failed insert (`Drop`). `LogOutbox` maps to it by `Status`.

### OpenFile

The `pc` of a request names the points between which others run: after the query
is out, after the answer, between the select and the write of a save, before the
decision, and with the message queued. Rights are the set of the two rights this
path looks for; the key is stored with the rights and left out. `user[r]` is the
login name the request read last, as the code reads the field three times.
`replaced` holds the ciphertext files that in-place decryption removed or
overwrote. `samePath` marks requests whose `plainPath` is their `cipherPath`: their
decryption truncates the file (`Truncate`) and ends up in `looping`, and so may another
request that is about to decrypt the same file (`truncated`; it may also have read the
file before, or find it empty and fail). `LoopForEver` is the loop that counts what it
has read up to a size the file no longer has. `issued`, `lastSaved`, `misfiled` and `raced` are history for the
properties. The fallback with a null output path has its own place, `noPath`.

`RightsCache` is the abstract specification: per user and document the device remembers the
rights given last, and a request decides on an answer of the server, remembered in the same
step, or on what is remembered. `Remembered` maps a table to it by its oldest row of each
key, the one `selectRightAndkeyTable` takes, and `Decision` a request by what it is about to
decide on. `CacheKept` holds the steps to it as long as no two saves for a key overlapped and
no user was changed in a living process; findings 2 and 3 are the behaviours outside of it.

Init and `Restart` start with a configured user. Inserts and updates of the rights cache
are taken to succeed.

### Publish

The worker of a call goes through `submitted`, `built` (the issue XML exists),
`tagged` (it has written the static app id), `issuing`, `issued`, `needing` (no default
rights are cached), `asking` (for them), `ready`, `adding` (the user is not in the list),
`valuing` (his name is read), `ordered` (the grant XML exists), `granting`, `granted`,
and ends with its message queued: `told`, or `toldNull` when the error text of the answer
is missing. `ARCHIVES_CONFIDENTIAL` is set by the caller and read by the worker
(`IssueXml`), `SDS_APP_ID` is written once and read for the issue, the grant and the tail.
The user is three statics, `MSD.loginName`, `HttpUrl.loginName` and `HttpFields.userId`,
which `sds_config` writes in this order (`Config`, then `ConfigGoesOn` twice) while the
workers run; callers and callbacks are on the same thread and so not in between
(`Configured`). The worker reads them for the issue (`IssueXml`), for the look into the
cache (`NeedDefaults`), for the question (`AskDefaults`), for the place of the answer
(`CacheDefaults`), for the search of the list (`SearchList`), and twice in
`new UserBean(HttpFields.userId, defultRights.get(HttpFields.userId))` (`ReadGrantee`,
`AddGrantee`): each is a step of its own. Two places remain one step each: the search of
the list, which compares the user with one element only, and the building of the issue
XML, which reads `HttpUrl.loginName` and `ARCHIVES_CONFIDENTIAL` but no property relates
the two.

`issue` and `order` are the requests a call has out, `archive` and `grant` what the
server made of them (also when its answer is lost), `tail` the app id in the
encrypted file. Rights are abstracted to their origin: whose default rights, the
full set, or the host's list. `NotIssued`, `NotGranted` and the second branches of
`Issued` and `Granted` are the error paths of a request; a runtime exception in a
worker is caught there and reported, so a null right (`AddGrantee`) ends the call
with a message. On the main thread, `getErrorMessage` throws on a missing text,
which ends the process (`CallBackThrows`). `mixed`, `crossed`, `switched`,
`misfiled` and `torn` (the user changed between the two reads of one expression) are history.

`Publication` is what one document comes to: registered once, then granted once, then
encrypted once, never out of order and never taken back. `Publish` maps to it by `archive`,
`grant` and `tail`; the app ids and levels that may appear there are those callers pass, so
that the refinement also says that the values of a new process reach neither server nor file.

Modelled is the configuration in which the SDK does the requests (`sds_config` with
a server address), with a list that the host makes anew for each call and with different
paths for plaintext and ciphertext.

### PlaintextFile

A request of `OpenFile` and the viewer it starts share a slot. `path` is the request's
`plainPath`, `content` the document whose plaintext a file holds, `file`, `source` and
`shows` the viewer's file, the document it was started for and what it has loaded.
A `path` may be the request's own ciphertext (`SubmitTo`, which makes `samePath` of it).
`DecideAndWrite`, `LoopAndWrite`, `CallBack` and `OpenAttachment` are steps of `OpenFile`
with their effect on the files: the decryption writes to `path`, one that never ends may
have written part of it, the callback leaves the file to
the host, `openAttachment` renames it (`Renamed`: `.wps` to `.docx` and so on; a rename
may fail, and nobody looks) and starts the viewer of its type. `Leave`, `Load` and
`Recreate` are the life of a viewer: all of the activities are destroyed and created
again on a rotation, `onDestroy` deletes the file (`Deleting`: the office and PDF
types), and `onCreate` posts the load. A name without a dot (`Dotless`) throws in
`openAttachment`. Of a type no viewer is for (`OpensElsewhere`) the file goes to another
app; that there is none is caught and shown as a toast (`CallBack`), whatever else
`getUriForFile` and `startActivity` throw ends the process (`Throws`). A plaintext that
replaced its ciphertext in place for a null path is not in `content`. `left`, `disturbed` and `recreated` are history: files nobody is to
delete any more, slots that share a name, viewers that have deleted their own file.

### Accredit

A job goes through `submitted`, `querying`, `failed` or `failedNull` (the query failed,
the latter without a text), `allowed`, `drafted` (the grant XML exists), `granting`, and ends with its
message queued (`ok`, `error`) or without one (`silent`). The tail of the file is read
twice: in the caller's thread (`Accredit`) and again before the grant
(`AccreditDealer`); `changed` are the files the host has replaced. `RightsAnswered`
compares the host's list with the rights of the answer, before `addDefaultRights` adds
the right to read (`WithRead`), and asks for the right to distribute (10); `UseCachedRow`
asks a row of the cache for the right to decrypt (7) and looks at no list. `AccreditDealer`
builds the grant with its grantor, the login name of that moment, and `PostAccredit` gives it
its app id, from the static `SDS_APP_ID` and not from the tail. What the host wants is the
rights of its two lists together and whether one of the lists is null (`Wish`): a null list
gives nothing, the other one still does. `basis` keeps what decided. `Throws` are the three
exceptions on the worker, each of which ends the process: a null list in `isCanAccerdit`
(`ListThrows`), a cached row with null rights (`RowThrows`) and a null text in
`getErrorMessage` (`TextThrows`).

### CipherContainer

The unit is a call of the native library, one at a time, on files of the device. Lengths
and offsets are those of the code, contents are abstracted: `good` is the length of the
prefix that holds what was meant to be there, `of` the length of the document a file was
made from, `tail` the tail with the ids as narrowed by the JNI function. `EncryptGroup` and
`DecryptGroup` are one turn of the loops; a death of the process may come between any
two, with any part of what was written flushed. `Seal` writes padding and tail;
`RemoveInput` and `RenameOutput` replace the input when no output name is given. `Written`
lets any write fall short, as on a full disk: the code never looks at what `fwrite`
returns, so `cuts` counts them and the properties say which of them need `cuts = 0`.
The bounds of `long` and of the ids are constants, for small instances to reach them.

## 3. Runs

| run | module, cfg | properties | what it shows | distinct states |
|---|---|---|---|---|
| `db_handle` | `MCDatabaseManager`, `MCDatabaseManager.cfg` | `TypeOK`, `UsedHandleIsOpen`, `OneConnection`, `IdleMeansClosed`, `FieldStableInUse`, `LeaseKept` | three threads and deaths: the handle in use is open, single and stable, none leaks, and `Lease` is implemented | 1 284 |
| `log_serial` | `MCLogOutbox`, `MCLogOutboxSerial.cfg` | `NoDuplicate`, `UploadSucceeded`, `DeliveryKept`, `SendsEnd`, `TableDrains` | with one call at a time the outbox implements `LogDelivery`, reports only what was uploaded, posts nothing twice without a lost reply or a death, every call ends and the table drains | 4 757 |
| `log_overlap` | `MCLogOutbox`, `MCLogOutboxOverlap.cfg` | `TypeOK`, `NoSilentLoss` | with two calls, faults, failing XML builds and failing inserts: a record only disappears with the process, with its insert, or because its own call posted something else | 3 328 401 |
| `log_race` | `MCLogOutbox`, `MCLogOutboxRace.cfg` | `UploadSucceeded` | violated, finding 1 | |
| `open_view` | `MCPlaintextFile`, `MCPlaintextFile.cfg` | `TypeOK`, `OpenedByRight`, `CacheExact`, `RowsTrueUntilSwitch`, `PlaintextTypeOK`, `PlaintextRemoved`, `ShowsItsDocument`, `CacheKept` | two requests and their viewers on six names, with a change of user, rotations and a death: decryption only on rights of the user or on misfiled ones, an exact cache unless saves overlapped, true rows until the user changes, a `RightsCache` as long as neither happens, plaintext goes with its viewer, a viewer shows its own document | 845 525 |
| `open_ends` | `MCPlaintextFile`, `MCPlaintextFileEnds.cfg` | `RequestsEnd` | the same with one user and one ciphertext: every request ends, unless one with one path for both files truncated its ciphertext | 138 545 |
| `open_user` | `MCOpenFile`, `MCOpenFileUser.cfg` | `RowsOfTheirUser` | violated, finding 2 | |
| `open_duplicate` | `MCOpenFile`, `MCOpenFileDuplicate.cfg` | `OneRowPerKey` | violated, finding 3 | |
| `publish` | `MCPublish`, `MCPublish.cfg` | `TypeOK`, `OwnApp`, `OwnLevel`, `CreatorCanOpen`, `RightsOfOwner`, `PublicationKept` | two calls, two users, a change of user in three writes or a death: app id and confidentiality arrive, no ciphertext without archive and grant, nobody gets another's rights unless they were misfiled or the user was read twice around the change, `Publication` is implemented | 2 008 947 |
| `accredit` | `MCAccredit`, `MCAccredit.cfg` | `AccreditTypeOK`, `GrantChecked`, `GrantAppOfDocument`, `FinishedMeansStored`, `JobsEnd`, `CallsEnd` | one document is published and rights to it granted: what is granted was checked, under the document's app id, success is true, every call ends, with a death of the process at any point | 415 428 |
| `open_same` | `MCOpenFile`, `MCOpenFileSamePath.cfg` | `SamePathReported` | violated, finding 4 | |
| `container` | `MCCipherContainer`, `MCCipherContainer.cfg` | `TypeOK`, `CiphertextComplete`, `RoundTrip`, `Recognised`, `DocumentSurvives`, `CallsEnd` | three calls in a row on a document of any size around the boundaries, a failed write and a death: ciphertexts are complete and come back, no call loses the last copy | 206 260 |

Each property of a passing run has a slip in its module, an operator of the form
"what the code would be with this mistake" (`DeleteNothing`, `MatchesDoc`,
`SetAppIdOnce`, ...), with which TLC finds the property violated; `PROJECT.json`
pairs them.

### Bounds and why they suffice

- `DatabaseManager`: three threads make every pattern of first, middle and last
  borrower; four handles, one more than can be held, so a fresh one always exists.
  Nothing else is bounded.
- `LogOutbox`: three records of two users let one user have a stored and a new
  record while the other's is untouched; two calls are the least that interleave.
  `MaxDeaths` and `MaxLostReplies` of 1 put the one fault at every point. `log_overlap` lets
  XML builds and inserts fail each time; `log_race` and `log_serial` need neither.
  The serial run has one call, because `sendLog` runs on the main thread and its
  thread usually ends before the next; it is the case in which the delivery promise
  holds.
- `OpenFile`: two requests on one document are what a race on a row needs; two
  answers, one right each, tell a stale row from a new one and make both outcomes
  of each decision occur. One switch of users puts the change between any two
  reads of the name. Its invariants are checked in the runs of `PlaintextFile`, which contain
  all of its steps.
- `PlaintextFile`: two slots are what it takes for one viewer to find another's file;
  two submissions let a slot be used again after its viewer has gone. The names are the
  fates: shown under another name, that other name (so the two collide),
  of a type that no viewer deletes, without a type, and the ciphertexts' own. Two secure documents and a plain
  file make the tail check and in-place decryption take both branches. One death at
  any point. `open_ends` has one user and one secure document, since liveness is dear, how a request ends does
  not depend on whose it is, and only requests on the same ciphertext disturb each other.
- `Publish`: two calls are what it takes for one to overwrite the statics of another;
  what callers pass is never what a new process starts with (`builtInApp`, `builtInLevel`),
  so that a static never written shows. Two users and one change put it between any two reads.
  A run has either that change or a kill of the process (the constraint `OneDisturbance`);
  what ends the process by itself (`CallBackThrows`) goes with both, and `accredit`, which
  contains the steps of `Publish` for one call, has both.
- `Accredit`: one `sds_encrypt` call makes the document, one job grants, by either of
  two users with one change and one death, so the change falls between any two of query,
  answer, cached row and grant. With a single `sds_encrypt` call no other app id can come
  in between: that clause of `GrantAppOfDocument` is empty here and the run checks the
  stronger statement; the theorem is about any number of calls. The lists give a right
  that may be missing, one that every answer has, or nothing.
- `CipherContainer`: block, group and tail have their true lengths; the largest `long`
  is 10239 and an unsigned int has 8 values, so that files of two and a half groups reach
  all bounds. The sizes are those at, one below and one above each boundary. Three
  calls make every pair of encryption and decryption with one of them interrupted. The calls
  meet `SourcesApart`, the condition of `DocumentSurvives`: the name that an in-place call
  derives for its output (`EncName`, `DecName`) is never that of the document. The
  theorems are about all sizes and all calls.
- Symmetry over requests, senders, calls, users, documents and the pairs that callers pass is
  used in safety runs only.

`CHECK_DEADLOCK FALSE` stands where the system really may stop: when every record
has been delivered and the table is empty, `sendLog` has nothing more to do; when
all bounded submissions, publications, jobs or native calls are over, so do the others.

### Fairness

Each started call is weakly fair in its own steps (`Work`, `RequestWork`, `JobWork`): the
scheduler runs a started thread, the main looper takes queued messages and gets on with
`sds_config` (`ConfigGoesOn`), SQLite statements and native calls return (but for the
loop of `LoopForEver`, which has no step out of `looping`). That a query *ends* is an assumption on the environment:
`HttpUtils` sets the timeouts only after it has written the request
(`J/http/HttpUtils.java:394`), so connecting and writing rely on the platform's own
limits; in interface mode the host must answer. No fairness is put on which answer
comes, on new calls, on changes of user, on what the user does with a viewer, or on deaths. `TableDrains` names its
further premises in the property: from some time on the server refuses nothing,
and users with waiting records keep coming back to authenticate.

## 4. Proofs

All proofs are for arbitrary sets of threads, records, requests, users, documents
and bounds, under the named `ASSUME`s of the modules (null is not a value, nor any triple
of values, bounds are naturals, answers are sets of rights, threads are finitely many). Where
a property only holds under a condition, the condition is the hypothesis of the theorem
(`Serial`, `OneRequest`) or part of the property (`SourcesApart`, `OneAppSoFar`,
`Undisturbed`, `switches = 0`). For `Serial`, `OneRequest`, `Undisturbed` and
`switches = 0` a run without the condition finds the violation (findings 1 to 3). Without
`OneAppSoFar` one call's app id replaces another's, which `mixed` in `OwnApp` counts; a call
that writes its output over the document another one encrypts plainly destroys it.

- `DatabaseManagerProofs`: the inductive invariant counts. The counter equals the
  number of threads between their increment and their decrement, the value a thread
  got back equals the counter while it is inside the monitor, at most one thread
  is inside, and the field is open whenever someone uses it. The finiteness of
  `Thread` is needed for cardinalities. From it follow `TypeOK`,
  `UsedHandleIsOpen`, `OneConnection`, `IdleMeansClosed` and the action property
  `FieldStableInUse`. `CounterImplementsLease` is the refinement of `Lease`: `LeaveGet` lends
  and `LeaveClose` takes back, which needs, beyond the counting, that a thread holds a handle
  exactly from the one to the other, at the end that of the field (`HeldWhileOut`).
- `LogOutboxProofs`: `NoSilentLoss` is not inductive: a delete must only hit
  received records. `AckedIsSafe` says that the records of an acknowledged batch
  are received or misposted, `PostingCarriesBatch` that a body out on the net
  contains its batch except for what is misposted, and `TableBatchKept` that an
  unacknowledged batch of stored records is still in the table or safe. Then
  `RecordsSurvive` follows.
- `OpenFileProofs`: three layers. `TInv` is typing with "a working request has a
  user and an answer's rights". `RInv`: every row, and the rights every request
  holds, come from an answer of the server or from a misfiled row; it gives
  `OpenedByRight`. `CInv`: `exists` agrees with the table, and two requests in the
  middle of saves for one key are marked; it gives `CacheExact`. On these rest the two
  theorems that say what findings 2 and 3 need: `RowsTrueWithoutSwitch` (while no user has
  been changed in a running process, every request works for the user who is configured,
  `SameUserThroughout`, and no row is misfiled) and `OneRowWithOneRequest` (no save ever
  meets another). While neither has happened, `TableIsRightsCache` is the refinement of
  `RightsCache`, for any number of requests: the write of a save is the step that remembers and decides at once, the
  cached branches decide on what is remembered, the select before the write is a stutter.
- `PublishProofs`: four layers. `TInv` adds to typing what a call at each place has
  and cannot have yet (`Shaped`), in particular that a call before `granted` has no
  tail. `PInv`: an undisturbed call finds its own parameters in the statics; it gives
  `OwnApp` and `OwnLevel`. `UInv`: while the user stays the same, the issue, the
  archive and the grant of a call are all in his name (`UserIsCreator`, for which all three
  statics have to agree); it gives `CreatorCanOpen`.
  `OInv`: cached rights and those in a grant on its way are the owner's, or misfiled, or of a
  call whose two reads of the user are `torn`; it gives `RightsOfOwner`. `CallsPublish` is the refinement of `Publication`: `Issued`,
  `Granted` and `EncryptFile`, or the lost answers of the first two, are its steps; it needs
  that no call registers, grants or encrypts twice (`Shaped`) and that statics, once a call
  has written them, hold what some caller passed. `AppIdTrueForOneApp`: while all
  calls were given one app id, nothing is ever `mixed`.
- `LogOutboxProofs`, second part: under `Serial` (one sender, and building the XML does
  not fail) a call posts its own batch (`PostsItsBatch`), and no record that waits in the
  table has been received unless a reply was lost or the process died (`Unreceived`).
  `SerialSendsOnce` is `NoDuplicate`; `UploadsAreTrue` is `UploadSucceeded`, since nothing is
  misposted; `OutboxDelivers` is the refinement of `LogDelivery`, with one step of the proof
  for each action and the step it maps to (a failing insert to `Drop`). `log_race` shows that `Serial` is needed.
- `PlaintextFileProofs` builds on `TInv`. For `PlaintextRemoved` the invariant names an
  *owner* of every file that was not left: a request that has yet to start its viewer or
  loops for ever, or a viewer of a type that deletes it. For `ShowsItsDocument` (`SInv`), undisturbed slots
  share their names with nobody, and find in their file what they put there.
  `CompositionOpens` says that the composition implements `OpenFile` (`Opening`): each of its
  steps is a step of `OpenFile` or none. With it, `OpenedByRightWithViewers` carries the
  invariants of `OpenFile` over to `PlaintextSpec`, which is what `open_view` checks.
- `AccreditProofs` builds on the `TInv` of `PublishProofs`. `CInv` carries the check along with
  the job: from `allowed` on its basis vouches for it, and a request on its way is covered
  and in the name of the basis' user while the user stays. `DInv`: the static app id is the
  document's unless another call or a new process has been there. `EncryptingBesideGranting`
  and `PublicationBesideGranting` carry the results about `Publish` over to `AccreditSpec`.
- `CipherContainerProofs`: one invariant, `CInv`, for both loops. Input and output are at
  offsets that differ only by what the last group is filled up or trimmed by, the output
  is right up to there, and a file with a tail is `Sound`. Under it lie lemmas on `Aligned`:
  rounding to blocks and then to groups of 512 is rounding to groups, which is why padding,
  tail and trimming cancel. It gives `TypeOK`, `CiphertextComplete`, `RoundTrip` and
  `Recognised`, for every size and every set of calls. `DocumentIsKept` (`DocumentSurvives`)
  adds `KeptInv`: as long as every write was complete, the original of a call that encrypts
  is never touched by another, the input of a running call is a whole copy, and between
  `RemoveInput` and `RenameOutput` the finished output is one.

Model-checked only: liveness (`SendsEnd`, `TableDrains`, `RequestsEnd`, `JobsEnd`, both
`CallsEnd`), which is out of the prover's reach. Every invariant, action property and
refinement that a passing run checks is stated by a theorem.

## 5. Findings

1. *A batch acknowledged that was never posted* (`MSD:1183`, run `log_race`). The
   thread of `sendLog` posts the field `userLogsString`, which the next call may have
   overwritten. In the trace two new records are sent without any fault: both threads post
   the XML of the second one, and the first call is told that its upload succeeded
   ("上传日志成功", `MSD:1188`) although its record never left the device. What does hold is
   `NoSilentLoss`: this, the death of the process and a failing insert are the only ways to
   lose a record. With one call at a time the report is true (`UploadsAreTrue`).
2. *An answer filed under another user* (`MSD:435`, run `open_user`). The query
   carries the login name at the time of the request, the row that of the answer.
   After an `sds_config` in between, the cache gives the second user the rights of
   the first, although "根据loginName、archiveId、docId定位一条记录"
   (`J/db_operation/DbService.java:60`). `OpenedByRight` shows that nothing else
   opens a document without a right, `RowsTrueWithoutSwitch` that it takes an `sds_config`
   in a running process: restarts under other users are safe.
3. *Two rows for one document* (`J/db_operation/DbService.java:42`, run
   `open_duplicate`). A save is a select and an insert without a transaction; two
   requests both insert, although "查询用户名 文档组id 文档id 相同的记录，如果有相同的就替换掉"
   (`J/db_operation/DbService.java:41`). The decision without the server then reads
   the older row, which need not be the one saved last, until a later save updates
   both. `CacheExact` shows that only overlapping saves for one key do this,
   `OneRowWithOneRequest` that one request at a time is safe whatever else happens.
4. *One path for ciphertext and plaintext* (`C/SDCrypto.cpp:238`, run `open_same`). The
   error code `E_PathError` stands for "密文和明文路径相同" (`J/securedocsdk/SecureDocError.java:19`),
   but nothing raises it: `sds_openFile` checks that the ciphertext exists and does not
   compare the paths (`MSD:312`). The decryption then opens its own input for writing, which
   empties it; `fread` returns 0 and the loop, which counts up to the size of before
   (`C/SDCrypto.cpp:245`), never ends. The document is gone and the host hears nothing.
   `RequestsEnd` shows that a request that does not end is one whose ciphertext
   was truncated in this way.

Noticed beside these, where the repository states nothing to hold the code to, and
visible in the models:

- `sds_accredit` decides on a cached right to decrypt and checks no list, where the online
  path asks for the right to distribute and checks it (`MSD:602`); `GrantChecked` states
  both branches as they are. It grants under the app id of the last `sds_encrypt` and
  not under that of the tail, which it has at hand (`J/model/NetRequestModel.java:135`, 147).
- It always reports errors with code 1, since `msg.what` is 1 (`MSD:576`), and ends without a
  callback if the file was replaced during the query (`MSD:634`).
- A rotation of the device deletes the plaintext under an office or PDF viewer, whose
  new instance finds nothing (`J/utils/fileOpen/BaseDocumentActivity.java:118`).
- Two concurrent `sds_encrypt` calls with different app ids overwrite each other's in the
  static `HttpFields.SDS_APP_ID` (`MSD:836`): the archive, the grant and the tail (`MSD:1019`)
  of a document may each carry the other's. `OwnApp` counts these calls (`mixed`), and
  `AppIdTrueForOneApp` says that one app id is safe.
- `new UserBean(HttpFields.userId, defultRights.get(HttpFields.userId))` (`MSD:964`) reads the
  user twice: an `sds_config` in between grants one user the default rights cached for the
  other. `RightsOfOwner` counts these calls (`torn`) and shows that, beside answers cached
  under another user, there is no other way.
- A failing insert of a log record is not noticed (`J/db_operation/DbService.java:186`).
- With one path for input and output, `SD_EncryptFile`, too, truncates its input and loops for
  ever (see finding 4); a document beyond the largest `long` becomes an empty ciphertext, reported as
  success; a write that fails is not noticed (`C/SDCrypto.cpp:117`, 135, 155).

## 6. Not modelled

- *Interface mode* (`IS_NET_REQUEST` false): the host answers from any thread, at any time,
  once, twice or never; what it does is not in the repository. With it go the default rights
  that are not waited for (`MSD:916`) and the shared pull parser without its lock
  (`J/http/XMLPullUtils.java:72`).
- *The host's objects*: a list of users passed to two calls (`MSD:964`), beans with null
  rights; an output path that is the ciphertext of another document.
- *The session*: the cookie, which only the server interprets, `sds_logout`, and calls
  before `sds_config`.
- *Time*: when a request times out (`J/http/HttpUtils.java:394`). That it ends is assumed.
- *The container*: read errors and keys of other than 32 digits; two native calls at once on
  one file; one path for input and output is in the model and the proofs but not in the run.
  `Publish` has no encryption with one path for both, which would not end; `OpenFile` and
  `PlaintextFile` have such a decryption.
- *Layout and wording* of XML, messages and log records; which of several error texts is
  reported; copies of the app's settings in `SharedPreferences`.
- *`DbService`'s deletes* that nothing calls; an exception between `get` and `close` that a
  host's handler survives.
- *Vendored and demonstration code*: OpenSSL, MuPDF (but for the end of `openPDFActivity`), the
  office viewer's rendering, the WPS client, the sample application. They make up nearly
  all lines of the repository and hold none of the SDK's state.
