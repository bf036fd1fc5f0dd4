---------------------------- MODULE GuardedCall ----------------------------
(***************************************************************************)
(* What the file mailbox promises, with no file, lock or process in it.    *)
(* A request runs at most once, and only while it is the one request the   *)
(* guard protects.  The guard is lifted for a definite native outcome, or  *)
(* by an operator once nobody is attached.  The caller is told either the  *)
(* native outcome of its own request or that the outcome is unknown.       *)
(***************************************************************************)
CONSTANTS Requests, NoRequest

VARIABLES
    guarded,    \* the request whose outcome is still open, or NoRequest
    ran,        \* ran[r]: what running r did, "none" while it has not run
    told,       \* told[r]: what the caller of r was told, "none" until then
    attached    \* TRUE while some process owns one of the two locks

vars == <<guarded, ran, told, attached>>

Definite == {"ok", "error"}

Init ==
    /\ guarded = NoRequest
    /\ ran = [r \in Requests |-> "none"]
    /\ told = [r \in Requests |-> "none"]
    /\ attached = FALSE

Guard(r) ==
    /\ guarded = NoRequest
    /\ ran[r] = "none"
    /\ guarded' = r
    /\ UNCHANGED <<ran, told, attached>>

Run(r) ==
    /\ guarded = r
    /\ ran[r] = "none"
    /\ \E outcome \in Definite \cup {"unsure"} : ran' = [ran EXCEPT ![r] = outcome]
    /\ UNCHANGED <<guarded, told, attached>>

Lift(r) ==
    /\ guarded = r
    /\ ran[r] \in Definite
    /\ guarded' = NoRequest
    /\ UNCHANGED <<ran, told, attached>>

Answer(r) ==
    /\ guarded # r
    /\ ran[r] \in Definite
    /\ told[r] = "none"
    /\ told' = [told EXCEPT ![r] = ran[r]]
    /\ UNCHANGED <<guarded, ran, attached>>

\* A timeout, a refusal, an I/O error, a cancellation or the caller's death,
\* in the last case together with the lock that process held.
GiveUp(r) ==
    /\ told[r] = "none"
    /\ told' = [told EXCEPT ![r] = "unknown"]
    /\ attached' \in BOOLEAN
    /\ UNCHANGED <<guarded, ran>>

Attach ==
    /\ attached' \in BOOLEAN
    /\ UNCHANGED <<guarded, ran, told>>

Reconcile ==
    /\ ~attached
    /\ guarded' = NoRequest
    /\ UNCHANGED <<ran, told, attached>>

Next ==
    \/ \E r \in Requests : Guard(r) \/ Run(r) \/ Lift(r) \/ Answer(r) \/ GiveUp(r)
    \/ Attach
    \/ Reconcile

Spec == Init /\ [][Next]_vars
=============================================================================
