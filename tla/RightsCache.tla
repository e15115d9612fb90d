------------------------------ MODULE RightsCache ------------------------------
(***************************************************************************)
(* What opening a document offline rests on: per user and document the     *)
(* device remembers the rights that the server gave him last, through      *)
(* restarts.  A request decides either on an answer of the server, which   *)
(* is remembered in the same step, or on what is remembered for its user   *)
(* and document.  There is no table and there are no rows.                 *)
(***************************************************************************)
CONSTANTS
  Request, User, Doc,
  Answer,  \* the sets of rights the server may answer with
  None     \* nothing remembered, nothing to decide

VARIABLES
  issued,      \* the answers <<user, doc, rights>> of the server
  remembered,  \* the rights remembered per user and document, or None
  decision     \* the <<user, doc, rights>> each request decides on, or None

vars == <<issued, remembered, decision>>

Init ==
  /\ issued = {}
  /\ remembered = [k \in User \X Doc |-> None]
  /\ decision = [r \in Request |-> None]

(* The server answers.                                                      *)
Issue(u, d, R) ==
  /\ issued' = issued \cup {<<u, d, R>>}
  /\ UNCHANGED <<remembered, decision>>

DecideFresh(r, u, d, R) ==
  /\ decision[r] = None
  /\ <<u, d, R>> \in issued
  /\ remembered' = [remembered EXCEPT ![<<u, d>>] = R]
  /\ decision' = [decision EXCEPT ![r] = <<u, d, R>>]
  /\ UNCHANGED issued

DecideOffline(r, u, d) ==
  /\ decision[r] = None
  /\ remembered[<<u, d>>] # None
  /\ decision' = [decision EXCEPT ![r] = <<u, d, remembered[<<u, d>>]>>]
  /\ UNCHANGED <<issued, remembered>>

(* The document is decrypted, or not, and the request has been told.        *)
Decided(r) ==
  /\ decision[r] # None
  /\ decision' = [decision EXCEPT ![r] = None]
  /\ UNCHANGED <<issued, remembered>>

(* The process ends; what it remembers stays.                               *)
Die ==
  /\ decision' = [r \in Request |-> None]
  /\ UNCHANGED <<issued, remembered>>

Next ==
  \/ \E u \in User, d \in Doc :
       \/ \E R \in Answer : Issue(u, d, R) \/ \E r \in Request : DecideFresh(r, u, d, R)
       \/ \E r \in Request : DecideOffline(r, u, d)
  \/ \E r \in Request : Decided(r)
  \/ Die

Spec == Init /\ [][Next]_vars
=============================================================================
