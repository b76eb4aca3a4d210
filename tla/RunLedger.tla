----------------------------- MODULE RunLedger -----------------------------
(***************************************************************************)
(* What Core State and the provenance catalog promise together about ETL   *)
(* runs: one ledger in which a run's success, its public announcement and  *)
(* the cursor it earns appear in a single step.  RunCatalog implements it  *)
(* with a dirty payload, a remote PUT, a read-back and crashes in between. *)
(***************************************************************************)
EXTENDS Integers

CONSTANT RunId

VARIABLES
  outcome,    \* durable outcome of each run
  announced,  \* terminal outcome the verified public catalog gives, or "none"
  cursor      \* source time up to which updates are known to be covered

vars == <<outcome, announced, cursor>>

Announcement == {"none", "succeeded", "degraded", "failed"}

Init ==
  /\ outcome = [r \in RunId |-> "none"]
  /\ announced = [r \in RunId |-> "none"]
  /\ cursor = 0

\* A run begins; the runs found abandoned are given up in the same step.
Begin(r, abandoned) ==
  /\ outcome[r] = "none"
  /\ \A x \in abandoned : outcome[x] = "running"
  /\ outcome' = [x \in RunId |-> IF x = r THEN "running"
                                 ELSE IF x \in abandoned THEN "failed" ELSE outcome[x]]
  /\ UNCHANGED <<announced, cursor>>

Fail(r) ==
  /\ outcome[r] = "running"
  /\ outcome' = [outcome EXCEPT ![r] = "failed"]
  /\ UNCHANGED <<announced, cursor>>

\* The catalog may leave a failure out, but neither a success nor anything it
\* said before, and all it says is true.
Announce(claims) ==
  /\ \A r \in RunId : claims[r] # "none" => claims[r] = outcome'[r]
  /\ \A r \in RunId : outcome'[r] \in {"succeeded", "degraded"} => claims[r] = outcome'[r]
  /\ \A r \in RunId : announced[r] # "none" => claims[r] = announced[r]
  /\ announced' = claims

Republish(claims) ==
  /\ outcome' = outcome
  /\ Announce(claims)
  /\ UNCHANGED cursor

\* Only a success, announced in the same step, moves the cursor, and forward.
Commit(r, o, claims) ==
  /\ outcome[r] = "running"
  /\ outcome' = [outcome EXCEPT ![r] = o]
  /\ Announce(claims)
  /\ cursor' >= cursor
  /\ cursor' # cursor => o = "succeeded"

Next ==
  \/ \E r \in RunId, abandoned \in SUBSET RunId : Begin(r, abandoned)
  \/ \E r \in RunId : Fail(r)
  \/ \E claims \in [RunId -> Announcement] :
       \/ Republish(claims)
       \/ \E r \in RunId, o \in {"succeeded", "degraded"} : Commit(r, o, claims)

Spec == Init /\ [][Next]_vars
=============================================================================
