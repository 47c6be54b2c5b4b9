---------------------------- MODULE BuildLifecycle ----------------------------
(***************************************************************************)
(* What the service promises the client about ONE build, whatever happens  *)
(* to workers, messages and leases behind the API: the public state        *)
(* machine, with the number of attempts that were spent on it.  The        *)
(* detailed modules implement it (Repository!Lifecycle).                   *)
(***************************************************************************)
EXTENDS Naturals

CONSTANT MaxAttempts    \* attempts a build may spend

VARIABLES
    status,      \* what GET /v1/builds/{id} reports
    cancel,      \* a cancellation was accepted
    spent,       \* attempts started so far
    visible      \* artifacts can be fetched

lifecycleVars == <<status, cancel, spent, visible>>

Init == status = "absent" /\ cancel = FALSE /\ spent = 0 /\ visible = FALSE

\* POST /v1/builds was accepted.
Accept ==
    /\ status = "absent"
    /\ status' = "queued"
    /\ UNCHANGED <<cancel, spent, visible>>

\* A cancellation ends a queued build and binds the ending of a running one.
Cancel ==
    /\ status \in {"queued", "running"}
    /\ ~cancel
    /\ cancel' = TRUE
    /\ status' = IF status = "queued" THEN "canceled" ELSE status
    /\ UNCHANGED <<spent, visible>>

\* A worker starts the next attempt.
Start ==
    /\ status = "queued"
    /\ spent < MaxAttempts
    /\ status' = "running"
    /\ spent' = spent + 1
    /\ UNCHANGED <<cancel, visible>>

\* An attempt ended without a result and another one is allowed.
Retry ==
    /\ status = "running"
    /\ ~cancel
    /\ spent < MaxAttempts
    /\ status' = "queued"
    /\ UNCHANGED <<cancel, spent, visible>>

\* The build ends.  Artifacts appear with success only, and only a canceled
\* build ends as canceled.
End(outcome) ==
    /\ status = "running"
    /\ cancel <=> outcome = "canceled"
    /\ status' = outcome
    /\ visible' = (outcome = "succeeded")
    /\ UNCHANGED <<cancel, spent>>

\* Retention forgets a build that has ended.
Forget ==
    /\ status \in {"succeeded", "failed", "needs_review", "canceled"}
    /\ status' = "deleted"
    /\ cancel' = FALSE /\ spent' = 0 /\ visible' = FALSE

Next ==
    \/ Accept \/ Cancel \/ Start \/ Retry \/ Forget
    \/ \E outcome \in {"succeeded", "failed", "needs_review", "canceled"} : End(outcome)

Spec == Init /\ [][Next]_lifecycleVars

===============================================================================
