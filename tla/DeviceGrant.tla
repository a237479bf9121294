----------------------------- MODULE DeviceGrant -----------------------------
(***************************************************************************)
(* What a device authorization grant promises its caller, without the      *)
(* polling: the request is pending while the user decides and the device  *)
(* code ages; it ends granted only after the user approved, reported      *)
(* expired only once expires_in seconds have passed, or failed (refused,  *)
(* or ended by the provider), or with an error; and it always ends.        *)
(* DeviceFlow refines it (DeviceFlow!DeviceGrantSpec).                     *)
(***************************************************************************)
EXTENDS Naturals

CONSTANT ExpiresIn   \* lifetime of the device code the client must honour

VARIABLES
    status,     \* "pending", or how the grant ended
    elapsed,    \* seconds since the code was issued, up to ExpiresIn
    approval    \* the user's answer

vars == <<status, elapsed, approval>>

Ended == {"granted", "failed", "expired", "error"}

Init ==
    /\ status = "pending"
    /\ elapsed = 0
    /\ approval = "undecided"

Decide ==
    /\ status = "pending"
    /\ approval = "undecided"
    /\ approval' \in {"approved", "denied"}
    /\ UNCHANGED <<status, elapsed>>

Elapse ==
    /\ status = "pending"
    /\ elapsed < ExpiresIn
    /\ elapsed' = elapsed + 1
    /\ UNCHANGED <<status, approval>>

Grant ==
    /\ status = "pending"
    /\ approval = "approved"
    /\ status' = "granted"
    /\ UNCHANGED <<elapsed, approval>>

Expire ==
    /\ status = "pending"
    /\ elapsed >= ExpiresIn
    /\ status' = "expired"
    /\ UNCHANGED <<elapsed, approval>>

Fail ==
    /\ status = "pending"
    /\ status' \in {"failed", "error"}
    /\ UNCHANGED <<elapsed, approval>>

Next == Decide \/ Elapse \/ Grant \/ Expire \/ Fail

\* Time passes, and an expired code is reported: the grant always ends.
Spec == Init /\ [][Next]_vars /\ WF_vars(Elapse) /\ WF_vars(Expire)

=============================================================================
