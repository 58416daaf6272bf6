----------------------------- MODULE WorkLease -----------------------------
(***************************************************************************)
(* What a queue of analysis work promises the Surgeons: a job is offered,  *)
(* leased by at most one worker at a time, and given back by its owner     *)
(* only -- to be leased again after a failure, or for good.  There is no   *)
(* expiry: a job whose owner died is gone.  A waiting job may be withdrawn *)
(* by a later stage, which still works on an earlier attempt.              *)
(***************************************************************************)
CONSTANTS Job, Worker, NoOwner

VARIABLES phase,   \* "none", "waiting", "leased" or "gone", per job
          owner    \* the worker that leases the job, or NoOwner

vars == <<phase, owner>>

Init ==
    /\ phase = [j \in Job |-> "none"]
    /\ owner = [j \in Job |-> NoOwner]

\* A new job is put on the queue.
Offer(j) ==
    /\ phase[j] = "none"
    /\ phase' = [phase EXCEPT ![j] = "waiting"]
    /\ UNCHANGED owner

\* A worker without a lease takes a waiting job.
Acquire(w, j) ==
    /\ phase[j] = "waiting"
    /\ \A k \in Job : owner[k] # w
    /\ phase' = [phase EXCEPT ![j] = "leased"]
    /\ owner' = [owner EXCEPT ![j] = w]

\* Only the owner ends a lease: the job waits again, or is gone for good.
Return(w, j) ==
    /\ phase[j] = "leased" /\ owner[j] = w
    /\ phase' = [phase EXCEPT ![j] = "waiting"]
    /\ owner' = [owner EXCEPT ![j] = NoOwner]

Leave(w, j) ==
    /\ phase[j] = "leased" /\ owner[j] = w
    /\ phase' = [phase EXCEPT ![j] = "gone"]
    /\ owner' = [owner EXCEPT ![j] = NoOwner]

Withdraw(j) ==
    /\ phase[j] = "waiting"
    /\ phase' = [phase EXCEPT ![j] = "gone"]
    /\ UNCHANGED owner

Next ==
    \E j \in Job :
        \/ Offer(j) \/ Withdraw(j)
        \/ \E w \in Worker : Acquire(w, j) \/ Return(w, j) \/ Leave(w, j)

Spec == Init /\ [][Next]_vars

=============================================================================
