------------------------- MODULE DatabaseManagerProofs -------------------------
(***************************************************************************)
(* Proofs about DatabaseManager, for any number of threads.                *)
(*                                                                         *)
(* That a borrowed handle is open is not inductive: it depends on the      *)
(* counter being the number of borrowers, on what each thread inside the   *)
(* monitor read from it, and on the field naming the only open handle.     *)
(* With these, the counter and the field implement Lease.                  *)
(***************************************************************************)
EXTENDS DatabaseManager, FiniteSetTheorems, TLAPS

(* The threads the counter counts, and those that need the connection open. *)
Borrowers == {t \in Thread : pc[t] \in {"get", "using"}}
Live == \E t \in Thread : pc[t] \in {"using", "close"}

MonitorHeld == \A t \in Thread : pc[t] \in {"get", "close"} <=> monitor = t
CountIsFresh == \A t \in Thread : pc[t] \in {"get", "close"} => count[t] = mOpenCounter
CounterCounts == mOpenCounter = Cardinality(Borrowers)
FieldIsOpen == open = IF Live THEN {mDatabase} ELSE {}
BorrowedIsField == \A t \in Thread : pc[t] = "using" => held[t] = mDatabase

IInv == /\ TypeOK
        /\ MonitorHeld
        /\ CountIsFresh
        /\ CounterCounts
        /\ FieldIsOpen
        /\ BorrowedIsField
        /\ Live => mDatabase \in Handle

(* The borrowers are finitely many, so the counter that counts them is 0    *)
(* exactly when there is none and 1 exactly when there is a single one.     *)
LEMMA BorrowersCount ==
  /\ IsFiniteSet(Borrowers)
  /\ Cardinality(Borrowers) \in Nat
  /\ Cardinality(Borrowers) = 0 <=> Borrowers = {}
  /\ \A t \in Borrowers : Cardinality(Borrowers) = 1 <=> Borrowers = {t}
<1>1. Borrowers \in SUBSET Thread
  BY DEF Borrowers
<1>2. IsFiniteSet(Borrowers)
  BY <1>1, ThreadAssumption, FS_Subset
<1>3. Cardinality(Borrowers) \in Nat
  BY <1>2, FS_CardinalityType
<1>4. Cardinality(Borrowers) = 0 <=> Borrowers = {}
  BY <1>2, FS_EmptySet
<1>5. \A t \in Borrowers : Cardinality(Borrowers) = 1 <=> Borrowers = {t}
  BY <1>2, FS_Singleton
<1> QED
  BY <1>2, <1>3, <1>4, <1>5

(* Initially nothing is borrowed and nothing is open; a fresh process       *)
(* starts from the same state.                                              *)
LEMMA InitIInv == Init => IInv
<1> SUFFICES ASSUME Init PROVE IInv
  OBVIOUS
<1>1. TypeOK
  BY DEF Init, TypeOK, Place
<1>2. Borrowers = {} /\ ~Live
  BY DEF Init, Borrowers, Live
<1>3. CounterCounts
  BY <1>2, FS_EmptySet DEF Init, CounterCounts
<1>4. MonitorHeld /\ CountIsFresh /\ FieldIsOpen /\ BorrowedIsField
  BY <1>2, ThreadAssumption
     DEF Init, MonitorHeld, CountIsFresh, FieldIsOpen, BorrowedIsField
<1> QED
  BY <1>1, <1>2, <1>3, <1>4 DEF IInv

(* A thread that enters a getter becomes a borrower and counts itself.      *)
LEMMA EnterGetIInv ==
  ASSUME IInv, NEW t \in Thread, EnterGet(t)
  PROVE  IInv'
<1> USE DEF IInv, EnterGet, MonitorFree
<1>1. TypeOK'
  BY DEF TypeOK, Place
<1>2. MonitorHeld' /\ CountIsFresh'
  BY ThreadAssumption DEF TypeOK, MonitorHeld, CountIsFresh
<1>3. CounterCounts'
  <2>1. Borrowers' = Borrowers \cup {t} /\ t \notin Borrowers
    BY DEF Borrowers, TypeOK
  <2> QED
    BY <2>1, BorrowersCount, FS_AddElement DEF CounterCounts
<1>4. Live' = Live
  BY DEF Live, TypeOK
<1>5. BorrowedIsField'
  BY DEF BorrowedIsField, TypeOK
<1> QED
  BY <1>1, <1>2, <1>3, <1>4, <1>5 DEF FieldIsOpen

(* A thread that leaves a getter returns the open handle: it opened it      *)
(* because it was the only borrower, or another borrower keeps it open.     *)
LEMMA LeaveGetIInv ==
  ASSUME IInv, NEW t \in Thread, LeaveGet(t)
  PROVE  IInv'
<1> USE DEF IInv, LeaveGet
<1>1. TypeOK'
  BY DEF TypeOK, Place, OpensFirst
<1>2. /\ MonitorHeld' /\ CountIsFresh'
      /\ \A u \in Thread \ {t} : pc[u] \in {"outside", "using"}
  BY ThreadAssumption DEF TypeOK, Place, MonitorHeld, CountIsFresh
<1>3. Borrowers' = Borrowers
  BY DEF Borrowers, TypeOK
<1>4. CounterCounts'
  BY <1>3 DEF CounterCounts
<1>5. t \in Borrowers /\ count[t] = Cardinality(Borrowers)
  BY DEF Borrowers, CountIsFresh, CounterCounts
<1>6. Live'
  BY DEF Live, TypeOK
<1>7. CASE OpensFirst(t)
  <2>1. Borrowers = {t}
    BY <1>5, <1>7, BorrowersCount DEF OpensFirst
  <2>2. ~Live
    BY <1>2, <2>1 DEF Live, Borrowers
  <2>3. open' = {mDatabase'} /\ mDatabase' \in Handle
    BY <1>7, <2>2 DEF FieldIsOpen
  <2>4. BorrowedIsField'
    BY <1>2, <2>1 DEF BorrowedIsField, Borrowers, TypeOK
  <2> QED
    BY <1>1, <1>2, <1>4, <1>6, <2>3, <2>4 DEF FieldIsOpen
<1>8. CASE ~OpensFirst(t)
  <2>1. PICK u \in Borrowers : u # t
    BY <1>5, <1>8, BorrowersCount DEF OpensFirst
  <2>2. Live
    BY <1>2, <2>1 DEF Live, Borrowers
  <2>3. open' = {mDatabase'} /\ mDatabase' \in Handle
    BY <1>8, <2>2 DEF FieldIsOpen
  <2>4. BorrowedIsField'
    BY <1>8 DEF BorrowedIsField, TypeOK
  <2> QED
    BY <1>1, <1>2, <1>4, <1>6, <2>3, <2>4 DEF FieldIsOpen
<1> QED
  BY <1>7, <1>8

(* A thread that enters closeDatabase stops being a borrower; the           *)
(* connection stays open until it leaves.                                   *)
LEMMA EnterCloseIInv ==
  ASSUME IInv, NEW t \in Thread, EnterClose(t)
  PROVE  IInv'
<1> USE DEF IInv, EnterClose, MonitorFree, Released
<1>1. CounterCounts' /\ mOpenCounter' \in Nat
  <2>1. Borrowers' = Borrowers \ {t} /\ t \in Borrowers
    BY DEF Borrowers, TypeOK
  <2>2. IsFiniteSet(Borrowers) /\ mOpenCounter = Cardinality(Borrowers)
    BY BorrowersCount DEF CounterCounts
  <2>3. mOpenCounter' = Cardinality(Borrowers')
    BY <2>1, <2>2, FS_RemoveElement
  <2>4. IsFiniteSet(Borrowers')
    BY <2>1, <2>2, FS_RemoveElement
  <2> QED
    BY <2>3, <2>4, FS_CardinalityType DEF CounterCounts
<1>2. TypeOK'
  BY <1>1 DEF TypeOK, Place
<1>3. MonitorHeld' /\ CountIsFresh'
  BY ThreadAssumption DEF TypeOK, MonitorHeld, CountIsFresh
<1>4. Live /\ Live'
  BY DEF Live, TypeOK
<1>5. BorrowedIsField'
  BY DEF BorrowedIsField, TypeOK
<1> QED
  BY <1>1, <1>2, <1>3, <1>4, <1>5 DEF FieldIsOpen

(* A thread that leaves closeDatabase closes the connection exactly when    *)
(* no borrower is left.                                                     *)
LEMMA LeaveCloseIInv ==
  ASSUME IInv, NEW t \in Thread, LeaveClose(t)
  PROVE  IInv'
<1> USE DEF IInv, LeaveClose
<1>1. TypeOK'
  BY DEF TypeOK, Place, ClosesLast
<1>2. /\ MonitorHeld' /\ CountIsFresh'
      /\ \A u \in Thread \ {t} : pc[u] \in {"outside", "using"}
  BY ThreadAssumption DEF TypeOK, Place, MonitorHeld, CountIsFresh
<1>3. Borrowers' = Borrowers
  BY DEF Borrowers, TypeOK
<1>4. CounterCounts' /\ BorrowedIsField'
  BY <1>3 DEF CounterCounts, BorrowedIsField, TypeOK
<1>5. open = {mDatabase} /\ mDatabase \in Handle
  BY DEF FieldIsOpen, Live
<1>6. Live' <=> Borrowers # {}
  BY <1>2 DEF Live, Borrowers, TypeOK
<1>7. ClosesLast(t) <=> Borrowers = {}
  BY BorrowersCount DEF ClosesLast, CountIsFresh, CounterCounts
<1> QED
  BY <1>1, <1>2, <1>4, <1>5, <1>6, <1>7 DEF FieldIsOpen

(* Every step preserves the invariant.                                      *)
LEMMA NextIInv == IInv /\ [Next]_vars => IInv'
<1> SUFFICES ASSUME IInv, [Next]_vars PROVE IInv'
  OBVIOUS
<1>1. ASSUME NEW t \in Thread, EnterGet(t) PROVE IInv'
  BY <1>1, EnterGetIInv
<1>2. ASSUME NEW t \in Thread, LeaveGet(t) PROVE IInv'
  BY <1>2, LeaveGetIInv
<1>3. ASSUME NEW t \in Thread, EnterClose(t) PROVE IInv'
  BY <1>3, EnterCloseIInv
<1>4. ASSUME NEW t \in Thread, LeaveClose(t) PROVE IInv'
  BY <1>4, LeaveCloseIInv
<1>5. CASE ProcessDeath
  <2>1. Borrowers' = {} /\ ~Live'
    BY <1>5 DEF ProcessDeath, Borrowers, Live
  <2>2. TypeOK'
    BY <1>5 DEF ProcessDeath, TypeOK, Place
  <2>3. CounterCounts'
    BY <1>5, <2>1, FS_EmptySet DEF ProcessDeath, CounterCounts
  <2>4. MonitorHeld' /\ CountIsFresh' /\ FieldIsOpen' /\ BorrowedIsField'
    BY <1>5, <2>1, ThreadAssumption
       DEF ProcessDeath, MonitorHeld, CountIsFresh, FieldIsOpen, BorrowedIsField
  <2> QED
    BY <2>1, <2>2, <2>3, <2>4 DEF IInv
<1>6. CASE UNCHANGED vars
  BY <1>6 DEF vars, IInv, TypeOK, MonitorHeld, CountIsFresh, CounterCounts,
              FieldIsOpen, BorrowedIsField, Borrowers, Live
<1> QED
  BY <1>1, <1>2, <1>3, <1>4, <1>5, <1>6 DEF Next

(* The invariant holds throughout, for any set of threads.                  *)
LEMMA SpecIInv == Spec => []IInv
  BY InitIInv, NextIInv, PTL DEF Spec

(* Type correctness: in particular the counter never goes below zero.       *)
THEOREM TypeCorrect == Spec => []TypeOK
<1>1. IInv => TypeOK
  BY DEF IInv
<1> QED
  BY <1>1, SpecIInv, PTL

(* A DbService method never works with a closed connection, whatever the    *)
(* number of threads and the order of their gets and closes.                *)
THEOREM NoUseAfterClose == Spec => []UsedHandleIsOpen
<1>1. IInv => UsedHandleIsOpen
  BY DEF IInv, UsedHandleIsOpen, FieldIsOpen, BorrowedIsField, Live
<1> QED
  BY <1>1, SpecIInv, PTL

(* The process never has two connections to the database file open.         *)
THEOREM SingleConnection == Spec => []OneConnection
<1>1. IInv => OneConnection
  BY DEF IInv, OneConnection, FieldIsOpen
<1> QED
  BY <1>1, SpecIInv, PTL

(* The connection and the counter do not leak: with no method running the   *)
(* connection is closed and the counter is back at zero.                    *)
THEOREM NoLeak == Spec => []IdleMeansClosed
<1>1. ASSUME IInv PROVE IdleMeansClosed
  <2> SUFFICES ASSUME \A t \in Thread : pc[t] = "outside"
               PROVE  open = {} /\ mOpenCounter = 0
    BY DEF IdleMeansClosed
  <2>1. ~Live /\ Borrowers = {}
    BY DEF Live, Borrowers
  <2> QED
    BY <1>1, <2>1, BorrowersCount DEF IInv, FieldIsOpen, CounterCounts
<1> QED
  BY <1>1, SpecIInv, PTL

(* A method that is running never has its connection swapped: the field     *)
(* only moves when the one borrower is the one opening the connection.      *)
THEOREM FieldStable == Spec => FieldStableInUse
<1> DEFINE Stable == \A t \in Thread :
                       pc[t] = "using" /\ pc'[t] = "using" => mDatabase' = mDatabase
<1>1. ASSUME IInv, [Next]_vars PROVE Stable
  <2> SUFFICES ASSUME NEW u \in Thread, pc[u] = "using", pc'[u] = "using",
                      mDatabase' # mDatabase
               PROVE  FALSE
    OBVIOUS
  <2>1. PICK t \in Thread : LeaveGet(t) /\ OpensFirst(t)
    BY <1>1 DEF Next, EnterGet, LeaveGet, EnterClose, LeaveClose, ProcessDeath, vars
  <2>2. t \in Borrowers /\ Cardinality(Borrowers) = 1
    BY <1>1, <2>1 DEF IInv, CounterCounts, CountIsFresh, Borrowers, LeaveGet, OpensFirst
  <2>3. Borrowers = {t} /\ u \in Borrowers
    BY <2>2, BorrowersCount DEF Borrowers
  <2> QED
    BY <2>1, <2>3 DEF LeaveGet
<1>2. IInv /\ [Next]_vars => [Stable]_vars
  BY <1>1
<1> QED
  BY <1>2, SpecIInv, PTL DEF Spec, FieldStableInUse

-----------------------------------------------------------------------------
(* The refinement of Lease.  The counter and the monitor are gone there, so *)
(* entering a method is no step of it; leaving one borrows or gives back.   *)
HeldWhileOut ==
  \A t \in Thread : /\ held[t] # None <=> pc[t] \in {"using", "close"}
                    /\ pc[t] = "close" => held[t] = mDatabase
LInv == IInv /\ HeldWhileOut

LEMMA InitHeld == Init => HeldWhileOut
BY DEF Init, HeldWhileOut

(* Whoever leaves a getter takes a handle away with it.                     *)
LEMMA LeaveGetTakes ==
  ASSUME IInv, NEW t \in Thread, LeaveGet(t)
  PROVE  mDatabase' \in Handle
<1>1. IInv' /\ Live'
  BY LeaveGetIInv DEF LeaveGet, IInv, TypeOK, Live
<1> QED
  BY <1>1 DEF IInv

LEMMA NextHeld == LInv /\ [Next]_vars => HeldWhileOut'
<1> SUFFICES ASSUME LInv, [Next]_vars PROVE HeldWhileOut'
  OBVIOUS
<1> USE DEF LInv, IInv, TypeOK, HeldWhileOut
<1>1. CASE \E t \in Thread : LeaveGet(t)
  <2>1. PICK t \in Thread : LeaveGet(t)
    BY <1>1
  <2>2. \A u \in Thread : pc[u] # "close"
    BY <2>1, ThreadAssumption DEF LeaveGet, MonitorHeld
  <2> QED
    BY <2>1, <2>2, LeaveGetTakes, HandleAssumption DEF LeaveGet
<1>2. CASE \E t \in Thread : EnterGet(t) \/ EnterClose(t)
  BY <1>2 DEF EnterGet, EnterClose, BorrowedIsField
<1>3. CASE \E t \in Thread : LeaveClose(t)
  BY <1>3 DEF LeaveClose
<1>4. CASE ProcessDeath \/ UNCHANGED vars
  BY <1>4 DEF ProcessDeath, vars
<1> QED
  BY <1>1, <1>2, <1>3, <1>4 DEF Next

LEMMA InitLease == Init => LeaseOf!Init
BY DEF Init, LeaseOf!Init

(* While the thread is inside the monitor, the others that need the         *)
(* connection are those between a get and a close.                          *)
LEMMA BorrowingIs ==
  ASSUME LInv, NEW t \in Thread, pc[t] \in {"get", "close"}
  PROVE  /\ LeaseOf!Borrowing = {u \in Thread : pc[u] \in {"using", "close"}}
         /\ LeaseOf!Borrowing \ {t} = Borrowers \ {t}
         /\ t \in LeaseOf!Borrowing <=> pc[t] = "close"
<1>1. \A u \in Thread \ {t} : pc[u] \in {"outside", "using"}
  BY ThreadAssumption DEF LInv, IInv, TypeOK, Place, MonitorHeld
<1> QED
  BY <1>1 DEF LInv, HeldWhileOut, LeaseOf!Borrowing, Borrowers

LEMMA LeaveGetBorrows ==
  ASSUME LInv, NEW t \in Thread, LeaveGet(t)
  PROVE  LeaseOf!Borrow(t)
<1>1. /\ pc[t] = "get" /\ held[t] = None /\ t \in Borrowers
      /\ count[t] = Cardinality(Borrowers)
  BY DEF LeaveGet, LInv, IInv, TypeOK, HeldWhileOut, CountIsFresh, CounterCounts, Borrowers
<1>2. OpensFirst(t) <=> LeaseOf!Borrowing = {}
  <2>1. OpensFirst(t) <=> Borrowers = {t}
    BY <1>1, BorrowersCount DEF OpensFirst
  <2> QED
    BY <1>1, <2>1, BorrowingIs
<1>3. open' = {mDatabase'}
  <2>1. IInv' /\ Live'
    BY LeaveGetIInv DEF LeaveGet, LInv, IInv, TypeOK, Live
  <2> QED
    BY <2>1 DEF IInv, FieldIsOpen
<1>4. held' = [held EXCEPT ![t] = mDatabase'] /\ mDatabase' \in Handle
  BY LeaveGetTakes DEF LeaveGet, LInv
<1>5. ~OpensFirst(t) => open' = open
  BY DEF LeaveGet
<1> QED
  BY <1>1, <1>2, <1>3, <1>4, <1>5 DEF LeaseOf!Borrow

LEMMA LeaveCloseGivesBack ==
  ASSUME LInv, NEW t \in Thread, LeaveClose(t)
  PROVE  LeaseOf!GiveBack(t)
<1>1. pc[t] = "close" /\ held[t] = mDatabase /\ t \in LeaseOf!Borrowing
  BY BorrowingIs DEF LeaveClose, LInv, HeldWhileOut
<1>2. open = {mDatabase}
  BY <1>1 DEF LInv, IInv, FieldIsOpen, Live
<1>3. ClosesLast(t) <=> LeaseOf!Borrowing = {t}
  <2>1. t \notin Borrowers /\ (ClosesLast(t) <=> Borrowers = {})
    BY <1>1, BorrowersCount
       DEF ClosesLast, LInv, IInv, CountIsFresh, CounterCounts, Borrowers
  <2> QED
    BY <1>1, <2>1, BorrowingIs
<1> QED
  BY <1>1, <1>2, <1>3 DEF LeaveClose, LeaseOf!GiveBack

LEMMA StepLease ==
  ASSUME LInv, [Next]_vars
  PROVE  [LeaseOf!Next]_(LeaseOf!vars)
<1>1. ASSUME NEW t \in Thread, LeaveGet(t) \/ LeaveClose(t)
      PROVE  LeaseOf!Next
  BY <1>1, LeaveGetBorrows, LeaveCloseGivesBack DEF LeaseOf!Next
<1>2. ASSUME NEW t \in Thread, EnterGet(t) \/ EnterClose(t)
      PROVE  UNCHANGED LeaseOf!vars
  BY <1>2 DEF EnterGet, EnterClose, LeaseOf!vars
<1>3. ProcessDeath => LeaseOf!Next
  BY DEF ProcessDeath, LeaseOf!Next, LeaseOf!Die
<1>4. UNCHANGED vars => UNCHANGED LeaseOf!vars
  BY DEF vars, LeaseOf!vars
<1> QED
  BY <1>1, <1>2, <1>3, <1>4 DEF Next

(* The counter under the monitor implements Lease: to the methods of        *)
(* DbService borrowing and giving back are single steps, the first opens    *)
(* the connection, the last closes it, and what is lent is what is open.    *)
THEOREM CounterImplementsLease == Spec => LeaseKept
<1>1. Init => LInv
  BY InitIInv, InitHeld DEF LInv
<1>2. LInv /\ [Next]_vars => LInv'
  BY NextIInv, NextHeld DEF LInv
<1>3. LInv /\ [Next]_vars => [LeaseOf!Next]_(LeaseOf!vars)
  BY StepLease
<1> QED
  BY <1>1, <1>2, <1>3, InitLease, PTL DEF Spec, LeaseKept, LeaseOf!Spec
=============================================================================
