--------------------------------- MODULE Lease ---------------------------------
(***************************************************************************)
(* What DbService may rely on when it borrows the connection: the handle a *)
(* method is lent is the one open connection until the method has given it *)
(* back, and nothing stays open that is not lent.  There is no counter, no *)
(* field and no lock here: borrowing and giving back are single steps.     *)
(***************************************************************************)
EXTENDS FiniteSets

CONSTANTS
  Thread,  \* threads that borrow
  Handle,  \* connections there can be
  None     \* no handle

VARIABLES
  connections,  \* the open ones
  lent          \* the handle lent to each thread, or None

vars == <<connections, lent>>

Borrowing == {t \in Thread : lent[t] # None}

Init == connections = {} /\ lent = [t \in Thread |-> None]

(* The first borrower has a connection opened, the others share it.         *)
Borrow(t) ==
  /\ lent[t] = None
  /\ IF Borrowing = {} THEN \E h \in Handle : connections' = {h}
                       ELSE UNCHANGED connections
  /\ \E h \in connections' : lent' = [lent EXCEPT ![t] = h]

(* The last one to give it back has it closed.                              *)
GiveBack(t) ==
  /\ lent[t] \in connections
  /\ connections' = IF Borrowing = {t} THEN {} ELSE connections
  /\ lent' = [lent EXCEPT ![t] = None]

(* The process ends, with all that was open and lent.                       *)
Die == connections' = {} /\ lent' = [t \in Thread |-> None]

Next == (\E t \in Thread : Borrow(t) \/ GiveBack(t)) \/ Die

Spec == Init /\ [][Next]_vars
=============================================================================
