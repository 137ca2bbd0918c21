---------------------------- MODULE MCIosClient ----------------------------
EXTENDS IosClient, TLC
Symmetry == Permutations(Tasks) \cup Permutations(Accounts)

(* Of a session nobody has a token of any more nothing can be told but that *)
(* it counts among those that expired: such states are one.                 *)
Known(s) == \E tk \in {tokens} \cup {task[t].token : t \in Tasks} : tk # NULL /\ tk.session = s
View ==
  <<sessionVars, state, idVars, task, calls, serverVars, historyVars,
    [s \in DOMAIN sessions |-> IF Known(s) THEN sessions[s] ELSE sessions[s].expired > 0]>>
=============================================================================
