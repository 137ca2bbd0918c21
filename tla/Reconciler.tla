----------------------------- MODULE Reconciler -----------------------------
(***************************************************************************)
(* What `datasync apply` promises, without how: something keyed is brought *)
(* to a goal by comparing it with the goal part by part, and then writing  *)
(* the keys that differed in one transaction.  Others may change it at any *)
(* time; a run that nobody disturbed ends with the goal.  A run that fails *)
(* has written all that it planned, if only the answer of its COMMIT was   *)
(* lost, or nothing.  Seeding implements this specification.               *)
(***************************************************************************)
CONSTANTS Keys, Goal

VARIABLES content,      \* key -> what is stored under it
          stage,        \* "idle", "comparing", "done" or "failed"
          seen,         \* keys compared so far
          planned,      \* keys found to differ
          undisturbed   \* nobody else has written since the run began

vars == <<content, stage, seen, planned, undisturbed>>

Init ==
  /\ DOMAIN content = Keys
  /\ stage = "idle" /\ seen = {} /\ planned = {} /\ undisturbed = FALSE

(* A run counts as disturbed from the start if what is stored then has no   *)
(* definite value to compare.                                               *)
Start ==
  /\ stage # "comparing"
  /\ stage' = "comparing" /\ seen' = {} /\ planned' = {} /\ undisturbed' \in BOOLEAN
  /\ UNCHANGED content

(* Of what is read while others write nothing is known.                     *)
Compare ==
  /\ stage = "comparing"
  /\ seen \subseteq seen' /\ seen' \subseteq Keys
  /\ planned' \subseteq seen'
  /\ undisturbed => planned' = planned \cup {k \in seen' \ seen : content[k] # Goal[k]}
  /\ UNCHANGED <<content, stage, undisturbed>>

(* The transaction, which writes what was planned and nothing else.         *)
Written ==
  /\ seen = Keys
  /\ DOMAIN content' = Keys
  /\ undisturbed => \A k \in Keys : content'[k] = IF k \in planned THEN Goal[k] ELSE content[k]

Write ==
  /\ stage = "comparing" /\ Written
  /\ stage' = "done"
  /\ UNCHANGED <<seen, planned, undisturbed>>

Fail ==
  /\ stage' = "failed"
  /\ seen' = {} /\ planned' = {} /\ undisturbed' = FALSE
  /\ UNCHANGED content \/ (stage = "comparing" /\ Written)

(* Someone else's write; also a run of another tool, which ends "done".     *)
Disturb ==
  /\ DOMAIN content' = Keys
  /\ undisturbed' = FALSE
  /\ stage' \in {stage, "idle"}
  /\ UNCHANGED <<seen, planned>> \/ (stage' = "idle" /\ seen' = {} /\ planned' = {})

Next == Start \/ Compare \/ Write \/ Fail \/ Disturb

Spec == Init /\ [][Next]_vars

-----------------------------------------------------------------------------
(* A run that nobody disturbed has reached the goal, and a second           *)
(* comparison would find nothing to do.                                     *)
Reached == (stage = "done" /\ undisturbed) => \A k \in Keys : content[k] = Goal[k]
=============================================================================
