---------------------------- MODULE MCWebClient ----------------------------
EXTENDS WebClient, TLC
Symmetry == Permutations(Tasks) \cup Permutations(Accounts)

(* A session nobody has a token of any more, and the revocation of one, can *)
(* not be told from any other: states that differ in nothing else are one.  *)
Known(s) == \E tk \in InUse : tk # NULL /\ tk.session = s
View ==
  <<tokens, deviceId, linkReady, taskVars, thread, cancelled, drawn, faults, serverVars,
    [s \in DOMAIN sessions |-> IF Known(s) THEN sessions[s] ELSE NULL],
    IF signingOut = NULL \/ Known(signingOut) THEN signingOut ELSE 0>>
=============================================================================
