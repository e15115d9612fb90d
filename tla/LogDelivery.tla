------------------------------ MODULE LogDelivery ------------------------------
(***************************************************************************)
(* What the SDK promises about its audit records ("发送离线日志"): a record of *)
(* an operation is kept until the server has it.  It may be given up only  *)
(* with the process that held it or if the device cannot store it, and a   *)
(* record the server has is never taken for a missing one again.           *)
(***************************************************************************)
EXTENDS Naturals

CONSTANTS
  Log,           \* audit records
  InsertMayFail, \* the device may be unable to store a record
  MaxDeaths      \* bound on the deaths of the process

VARIABLES
  status,    \* "new", "kept", "delivered" or "lost", per record
  deaths     \* how often the process has died

vars == <<status, deaths>>

Init == status = [l \in Log |-> "new"] /\ deaths = 0

Become(S, s) == status' = [l \in Log |-> IF l \in S THEN s ELSE status[l]]

(* An operation ends and its record is kept.                               *)
Record(l) == status[l] = "new" /\ Become({l}, "kept") /\ UNCHANGED deaths

(* The server stores a batch; some of it may have reached it before.        *)
Deliver(S) ==
  /\ \A l \in S : status[l] \in {"kept", "delivered"}
  /\ Become(S, "delivered")
  /\ UNCHANGED deaths

(* The process dies and takes some of the kept records with it.            *)
Die(S) ==
  /\ deaths < MaxDeaths
  /\ \A l \in S : status[l] = "kept"
  /\ Become(S, "lost")
  /\ deaths' = deaths + 1

(* Some of the kept records cannot be stored.                              *)
Drop(S) ==
  /\ InsertMayFail
  /\ \A l \in S : status[l] = "kept"
  /\ Become(S, "lost")
  /\ UNCHANGED deaths

Next ==
  \/ \E l \in Log : Record(l)
  \/ \E S \in SUBSET Log : Deliver(S) \/ Die(S) \/ Drop(S)

Spec == Init /\ [][Next]_vars
=============================================================================
