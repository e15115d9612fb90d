------------------------------ MODULE Publication ------------------------------
(***************************************************************************)
(* What publishing a document comes to, seen from the server and the file: *)
(* the document is registered once, then rights to it are granted once,    *)
(* and only then is it encrypted.  None of this is ever taken back or done *)
(* over, whichever request fails, whatever call comes in between and       *)
(* whenever the process dies.                                              *)
(***************************************************************************)
CONSTANTS
  Document,
  Archive, Grant, Tail,  \* what may be registered, granted and written
  None                   \* not yet

VARIABLES
  archive,  \* the server's archive of each document
  grant,    \* the server's grant of rights to it
  tail      \* the tail of the encrypted file

vars == <<archive, grant, tail>>

Init ==
  /\ archive = [d \in Document |-> None]
  /\ grant = [d \in Document |-> None]
  /\ tail = [d \in Document |-> None]

Register(d) ==
  /\ archive[d] = None
  /\ \E a \in Archive : archive' = [archive EXCEPT ![d] = a]
  /\ UNCHANGED <<grant, tail>>

Authorise(d) ==
  /\ archive[d] # None /\ grant[d] = None
  /\ \E g \in Grant : grant' = [grant EXCEPT ![d] = g]
  /\ UNCHANGED <<archive, tail>>

Encrypt(d) ==
  /\ grant[d] # None /\ tail[d] = None
  /\ \E a \in Tail : tail' = [tail EXCEPT ![d] = a]
  /\ UNCHANGED <<archive, grant>>

Next == \E d \in Document : Register(d) \/ Authorise(d) \/ Encrypt(d)

Spec == Init /\ [][Next]_vars
=============================================================================
