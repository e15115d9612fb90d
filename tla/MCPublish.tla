-------------------------------- MODULE MCPublish ------------------------------
(* Two calls, which share or differ in both app id and confidentiality, by    *)
(* two users; what callers pass is never what a new process starts with.      *)
EXTENDS Publish, TLC

CONSTANTS c1, c2, alice, bob, app1, app2, builtInApp, secret, internal, builtInLevel

MCCall == {c1, c2}
MCUser == {alice, bob}
MCApp == {app1, app2, builtInApp}
MCLevel == {secret, internal, builtInLevel}
MCParams == {<<app1, secret>>, <<app2, internal>>}

(* A change of the user or a kill of the process; what ends the process by    *)
(* itself (CallBackThrows) goes with both.                                    *)
OneDisturbance == switches + deaths <= 1

(* The two pairs that callers pass may be swapped, app id and confidentiality *)
(* together.                                                                  *)
SwapParams == (app1 :> app2) @@ (app2 :> app1) @@ (secret :> internal) @@ (internal :> secret)
Symmetry == Permutations(MCCall) \cup Permutations(MCUser) \cup {SwapParams}
=============================================================================
