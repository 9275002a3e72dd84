----------------------------- MODULE SerialJobs -----------------------------
(***************************************************************************)
(* What the extraction queue promises its callers, with no queue in it     *)
(* (pkg/download/extract_queue.go: "only one extraction ... runs at a      *)
(* time"): a job is handed in once, runs at most once, never beside        *)
(* another, and is then either executed or discarded for good.             *)
(***************************************************************************)
CONSTANT Jobs

VARIABLE outcome

Outcomes == {"new", "queued", "executing", "executed", "discarded"}

SerialInit == outcome = [j \in Jobs |-> "new"]

Becomes(J, from, to) ==
    /\ \A j \in J : outcome[j] = from
    /\ outcome' = [j \in Jobs |-> IF j \in J THEN to ELSE outcome[j]]

Submit(j) == Becomes({j}, "new", "queued")

Refuse(j) == Becomes({j}, "new", "discarded")

\* The one place where order matters: a job begins only when none runs.
Begin(j) ==
    /\ \A k \in Jobs : outcome[k] # "executing"
    /\ Becomes({j}, "queued", "executing")

End(j) == Becomes({j}, "executing", "executed")

Discard == \E J \in SUBSET Jobs : Becomes(J, "queued", "discarded")

SerialNext ==
    \/ \E j \in Jobs : Submit(j) \/ Refuse(j) \/ Begin(j) \/ End(j)
    \/ Discard

SerialSpec == SerialInit /\ [][SerialNext]_outcome
=============================================================================
