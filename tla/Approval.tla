------------------------------ MODULE Approval ------------------------------
(***************************************************************************)
(* What the service promises for a blocking approval or input request,     *)
(* whatever races with it.  Once a request is open its verdict is fixed    *)
(* exactly once: either an answer a user gave it, or no answer.  The       *)
(* blocked hook then returns that verdict and nothing else, once.          *)
(*                                                                         *)
(* Elicitation implements this specification.                              *)
(***************************************************************************)
CONSTANTS
    Request,    \* the requests
    Answer,     \* what a user may answer
    NoAnswer    \* the empty answer: the agent decides for itself

VARIABLES
    status,     \* "idle", "open", "decided" or "returned"
    verdict     \* what was decided for a request

vars == <<status, verdict>>

Init ==
    /\ status = [r \in Request |-> "idle"]
    /\ verdict = [r \in Request |-> NoAnswer]

Open(r) ==
    /\ status[r] = "idle"
    /\ status' = [status EXCEPT ![r] = "open"]
    /\ UNCHANGED verdict

(* A user answers one open request. *)
Decide(r, a) ==
    /\ status[r] = "open"
    /\ status' = [status EXCEPT ![r] = "decided"]
    /\ verdict' = [verdict EXCEPT ![r] = a]

(* Open requests are withdrawn, several at once at a turn boundary. *)
Withdraw(R) ==
    /\ \A r \in R : status[r] = "open"
    /\ status' = [r \in Request |-> IF r \in R THEN "decided" ELSE status[r]]
    /\ UNCHANGED verdict

(* The hook returns what was decided. *)
Return(r) ==
    /\ status[r] = "decided"
    /\ status' = [status EXCEPT ![r] = "returned"]
    /\ UNCHANGED verdict

(* The service declines an open request on the spot. *)
Decline(r) ==
    /\ status[r] = "open"
    /\ status' = [status EXCEPT ![r] = "returned"]
    /\ UNCHANGED verdict

Next ==
    \/ \E r \in Request : Open(r) \/ Return(r) \/ Decline(r)
    \/ \E r \in Request, a \in Answer : Decide(r, a)
    \/ \E R \in SUBSET Request : Withdraw(R)

Spec == Init /\ [][Next]_vars
=============================================================================
