----------------------------- MODULE TaskService -----------------------------
(***************************************************************************)
(* What ModbusClient promises the application, without its queues, its     *)
(* threads and its flags.  A call has one task at a time.  A task is begun *)
(* once, its requests go out one after the other, each after a good answer *)
(* to the one before, and the task is decided once: a success when its     *)
(* last request is answered well, a failure at any time before.  A call    *)
(* returns only with a decision, and never turns a failure into a success. *)
(***************************************************************************)
EXTENDS Naturals

CONSTANT Codes  \* what a call can return; "no_error" is one of them

VARIABLES
  phase,     \* of the client: idle, waiting for a task, joining or gone
  code,      \* what the last call returned
  decision,  \* of the task of the waiting call
  requests   \* its requests: needed, sent, and answered well

vars == <<phase, code, decision, requests>>

NoRequests == [need |-> 0, sent |-> 0, acked |-> 0]

Init ==
  /\ phase = "idle" /\ code = "no_error"
  /\ decision = "none" /\ requests = NoRequests

(* A call queues its first task, or the next one after a success. *)
Submit ==
  /\ phase = "idle" \/ decision = "success"
  /\ phase' = "waiting" /\ code' = "no_error"
  /\ decision' = "queued" /\ requests' = NoRequests

Reject ==
  /\ phase = "idle"
  /\ code' \in Codes \ {"no_error"}
  /\ UNCHANGED <<phase, decision, requests>>

Begin ==
  /\ decision = "queued"
  /\ decision' = "running"
  /\ requests' \in [need : Nat, sent : {0}, acked : {0}]
  /\ UNCHANGED <<phase, code>>

Request ==
  /\ decision = "running"
  /\ requests.sent = requests.acked /\ requests.acked < requests.need
  /\ requests' = [requests EXCEPT !.sent = requests.sent + 1]
  /\ UNCHANGED <<phase, code, decision>>

Answer ==
  /\ decision = "running"
  /\ requests.sent = requests.acked + 1
  /\ requests' = [requests EXCEPT !.acked = requests.acked + 1]
  /\ decision' = IF requests.acked + 1 = requests.need THEN "success" ELSE "running"
  /\ UNCHANGED <<phase, code>>

Fail ==
  /\ decision = "running"
  /\ decision' = "failure"
  /\ UNCHANGED <<phase, code, requests>>

Return ==
  /\ decision \in {"success", "failure"}
  /\ code' \in IF decision = "success" THEN Codes ELSE Codes \ {"no_error"}
  /\ phase' = "idle" /\ decision' = "none" /\ requests' = NoRequests

Close ==
  /\ phase = "idle" /\ phase' = "joining"
  /\ UNCHANGED <<code, decision, requests>>

Gone ==
  /\ phase = "joining" /\ phase' = "gone"
  /\ UNCHANGED <<code, decision, requests>>

Next == Submit \/ Reject \/ Begin \/ Request \/ Answer \/ Fail \/ Return \/ Close \/ Gone

Spec == Init /\ [][Next]_vars
=============================================================================
