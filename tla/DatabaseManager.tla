---------------------------- MODULE DatabaseManager ----------------------------
(***************************************************************************)
(* DatabaseManager.java: the reference-counted SQLite connection that      *)
(* every method of DbService borrows (getReadableDatabase), uses and gives *)
(* back (closeDatabase).  The first borrower opens the connection, the     *)
(* last one closes it; the methods are synchronized on the one instance.   *)
(*                                                                         *)
(* A synchronized method takes two steps here: entering the monitor with   *)
(* the atomic increment or decrement, and the rest of its body.  The       *)
(* counter being an AtomicInteger would not be enough without the monitor: *)
(* a second borrower could return the field before the first one set it.   *)
(* An exception in a worker thread is not caught anywhere in the SDK and   *)
(* ends the process, which loses the static state (ProcessDeath).          *)
(***************************************************************************)
EXTENDS Integers, FiniteSets

CONSTANTS
  Thread,   \* threads that call DbService (main thread, request workers)
  Handle,   \* SQLiteDatabase objects SQLiteOpenHelper can return
  None      \* no thread, no handle (null)

ASSUME ThreadAssumption == IsFiniteSet(Thread) /\ None \notin Thread
ASSUME HandleAssumption == None \notin Handle

VARIABLES
  mOpenCounter, \* the AtomicInteger
  mDatabase,    \* the field: the handle opened last, or None
  open,         \* the handles that are open
  monitor,      \* the thread inside a synchronized method, or None
  pc,           \* where each thread is
  count,        \* what incrementAndGet / decrementAndGet returned to the thread
  held          \* the handle the thread's DbService method works with

vars == <<mOpenCounter, mDatabase, open, monitor, pc, count, held>>

(* "get": inside getReadableDatabase, "using": between get and close,      *)
(* "close": inside closeDatabase.                                          *)
Place == {"outside", "get", "using", "close"}

Init ==
  /\ mOpenCounter = 0
  /\ mDatabase = None
  /\ open = {}
  /\ monitor = None
  /\ pc = [t \in Thread |-> "outside"]
  /\ count = [t \in Thread |-> 0]
  /\ held = [t \in Thread |-> None]

-----------------------------------------------------------------------------
(* Slips the properties must refute, each beside the definition it alters.  *)
MonitorIgnored == TRUE           \* the methods are not synchronized

(* Only one thread is inside a synchronized method of the instance.        *)
MonitorFree == monitor = None

OpensAlways(t) == TRUE           \* every borrower opens a connection of its own

(* Is the borrower the one that must open the connection?                  *)
OpensFirst(t) == count[t] = 1

ClosesAlways(t) == TRUE          \* closed by whoever finishes first
ClosesNever(t) == FALSE          \* the last borrower forgets to close

(* Is the thread giving the connection back the one that must close it?    *)
ClosesLast(t) == count[t] = 0

ReleasedTwice(n) == n - 2        \* a DbService method closes on two paths

(* What decrementAndGet leaves in the counter.                             *)
Released(n) == n - 1

-----------------------------------------------------------------------------
(* getReadableDatabase / getWritableDatabase: enter the monitor and add one. *)
EnterGet(t) ==
  /\ pc[t] = "outside"
  /\ MonitorFree
  /\ monitor' = t
  /\ mOpenCounter' = mOpenCounter + 1
  /\ count' = [count EXCEPT ![t] = mOpenCounter']
  /\ pc' = [pc EXCEPT ![t] = "get"]
  /\ UNCHANGED <<mDatabase, open, held>>

(* The rest of the getter: the first borrower has the helper open the       *)
(* database and sets the field; everyone returns the field.                 *)
LeaveGet(t) ==
  /\ pc[t] = "get"
  /\ IF OpensFirst(t)
       THEN \E h \in Handle \ (open \cup {held[u] : u \in Thread}) :
              /\ mDatabase' = h
              /\ open' = open \cup {h}
       ELSE UNCHANGED <<mDatabase, open>>
  /\ held' = [held EXCEPT ![t] = mDatabase']
  /\ pc' = [pc EXCEPT ![t] = "using"]
  /\ monitor' = None
  /\ UNCHANGED <<mOpenCounter, count>>

(* closeDatabase: the DbService method has run its statement; enter the     *)
(* monitor and subtract one.                                                *)
EnterClose(t) ==
  /\ pc[t] = "using"
  /\ MonitorFree
  /\ monitor' = t
  /\ mOpenCounter' = Released(mOpenCounter)
  /\ count' = [count EXCEPT ![t] = mOpenCounter']
  /\ pc' = [pc EXCEPT ![t] = "close"]
  /\ UNCHANGED <<mDatabase, open, held>>

(* The rest of closeDatabase: the last one closes what the field holds.     *)
LeaveClose(t) ==
  /\ pc[t] = "close"
  /\ open' = IF ClosesLast(t) THEN open \ {mDatabase} ELSE open
  /\ held' = [held EXCEPT ![t] = None]
  /\ pc' = [pc EXCEPT ![t] = "outside"]
  /\ monitor' = None
  /\ UNCHANGED <<mOpenCounter, mDatabase, count>>

(* The helper cannot open the file, or a statement throws between get and   *)
(* close (no finally there): the process ends, and starts again with fresh  *)
(* static state.  The system may also kill it at any other moment.          *)
ProcessDeath ==
  /\ mOpenCounter' = 0
  /\ mDatabase' = None
  /\ open' = {}
  /\ monitor' = None
  /\ pc' = [t \in Thread |-> "outside"]
  /\ count' = [t \in Thread |-> 0]
  /\ held' = [t \in Thread |-> None]

Next ==
  \/ \E t \in Thread : EnterGet(t) \/ LeaveGet(t) \/ EnterClose(t) \/ LeaveClose(t)
  \/ ProcessDeath

Spec == Init /\ [][Next]_vars

-----------------------------------------------------------------------------
TypeOK ==
  /\ mOpenCounter \in Nat
  /\ mDatabase \in Handle \cup {None}
  /\ open \subseteq Handle
  /\ monitor \in Thread \cup {None}
  /\ pc \in [Thread -> Place]
  /\ count \in [Thread -> Nat]
  /\ held \in [Thread -> Handle \cup {None}]

(* No use after close: the handle a DbService method got from               *)
(* getReadableDatabase stays open until that method gives it back, however  *)
(* the other threads' gets and closes interleave.                           *)
UsedHandleIsOpen ==
  \A t \in Thread : pc[t] = "using" => held[t] \in open

(* One connection: all borrowers share one open handle, so two writers      *)
(* never meet on separate connections to the same file.                     *)
OneConnection ==
  \A g, h \in open : g = h

(* No leak: when no thread is inside a DbService method the connection is   *)
(* closed, so the next getReadableDatabase opens a new one.                 *)
IdleMeansClosed ==
  (\A t \in Thread : pc[t] = "outside") => open = {} /\ mOpenCounter = 0

(* A borrower never sees its handle replaced: mDatabase only changes while  *)
(* no other thread works with the handle it holds, or the process ends.     *)
FieldStableInUse ==
  [][\A t \in Thread :
       pc[t] = "using" /\ pc'[t] = "using" => mDatabase' = mDatabase]_vars

(* The counter, the field and the monitor together implement Lease: seen    *)
(* from the methods of DbService, borrowing and giving back are atomic.     *)
LeaseOf == INSTANCE Lease WITH connections <- open, lent <- held
LeaseKept == LeaseOf!Spec
=============================================================================
