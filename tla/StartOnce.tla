------------------------------ MODULE StartOnce ------------------------------
(***************************************************************************)
(* What the start path promises its callers (router/start.py,              *)
(* nelix_store/ledger.py), with no threads, no network and no store: an    *)
(* idempotency key is claimed by at most one session id, for good; a claim *)
(* is decided at most once; a worker runs at most once per claim; and a    *)
(* claim that was decided "failed" has no worker and never gets one.       *)
(* StartPath is shown to implement this specification.                     *)
(***************************************************************************)

CONSTANTS Sids,      \* session ids
          AllKeys,   \* idempotency keys, already namespaced by owner
          NoKey      \* "not claimed"

VARIABLES keyOf,     \* keyOf[s]: the key session id s was reserved for
          outcome,   \* outcome[s]: "free", "pending", "started" or "failed"
          run        \* run[s]: the worker, "none", "running" or "over"

vars == <<keyOf, outcome, run>>

Init ==
  /\ keyOf = [s \in Sids |-> NoKey]
  /\ outcome = [s \in Sids |-> "free"]
  /\ run = [s \in Sids |-> "none"]

\* A key is claimed by a session id only while no other id holds it.
Claim(s, k) ==
  /\ outcome[s] = "free"
  /\ \A t \in Sids : keyOf[t] # k
  /\ keyOf' = [keyOf EXCEPT ![s] = k]
  /\ outcome' = [outcome EXCEPT ![s] = "pending"]
  /\ UNCHANGED run

\* The worker of a claim starts at most once, and only while it is undecided.
Run(s, r) ==
  /\ outcome[s] = "pending"
  /\ run[s] = "none"
  /\ run' = [run EXCEPT ![s] = r]
  /\ UNCHANGED <<keyOf, outcome>>

\* Workers end: by themselves, by being stopped, or with their daemon.
Over(S) ==
  /\ \A s \in S : run[s] = "running"
  /\ run' = [s \in Sids |-> IF s \in S THEN "over" ELSE run[s]]
  /\ UNCHANGED <<keyOf, outcome>>

\* "started" is told only of a worker that was really launched.
Succeed(s) ==
  /\ outcome[s] = "pending"
  /\ run[s] # "none"
  /\ outcome' = [outcome EXCEPT ![s] = "started"]
  /\ UNCHANGED <<keyOf, run>>

\* "failed" is told only when no worker is running; Run is then disabled.
Fail(s) ==
  /\ outcome[s] = "pending"
  /\ run[s] # "running"
  /\ outcome' = [outcome EXCEPT ![s] = "failed"]
  /\ UNCHANGED <<keyOf, run>>

Next ==
  \/ \E s \in Sids : \/ \E k \in AllKeys : Claim(s, k)
                     \/ \E r \in {"running", "over"} : Run(s, r)
                     \/ Succeed(s)
                     \/ Fail(s)
  \/ \E S \in SUBSET Sids : Over(S)

Spec == Init /\ [][Next]_vars
=============================================================================
