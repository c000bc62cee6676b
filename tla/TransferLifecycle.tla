--------------------------- MODULE TransferLifecycle ---------------------------
(***************************************************************************)
(* What the coordinator promises about the outcome of a transfer, without  *)
(* workers, epochs, plans or registrations: an attempt runs or is faulted  *)
(* by its backend; a running attempt is settled once, as COMPLETED or      *)
(* FAILED, and publishes that outcome in the same step; until it is        *)
(* settled it can be cancelled; nothing leaves a settled or cancelled      *)
(* attempt.  Success is published only by settling a running attempt.      *)
(***************************************************************************)
CONSTANT Attempts
VARIABLES
    status,     \* NONE, RUNNING, FAULTED (by the backend, not settled),
                \* COMPLETED, FAILED or CANCELLED
    published   \* the receipt: NONE, COMPLETED, FAILED or CANCELLED

lifecycleVars == <<status, published>>

Init ==
    /\ status = [t \in Attempts |-> "NONE"]
    /\ published = [t \in Attempts |-> "NONE"]

Start(t) ==
    /\ status[t] = "NONE"
    /\ \E s \in {"RUNNING", "FAULTED"} : status' = [status EXCEPT ![t] = s]
    /\ UNCHANGED published

ReportFault(t) ==
    /\ status[t] = "FAULTED"
    /\ published' = [published EXCEPT ![t] = "FAILED"]
    /\ UNCHANGED status

Settle(t) ==
    /\ status[t] = "RUNNING"
    /\ \E s \in {"COMPLETED", "FAILED"} :
          /\ status' = [status EXCEPT ![t] = s]
          /\ published' = [published EXCEPT ![t] = s]

Cancel(t) ==
    /\ status[t] \in {"RUNNING", "FAULTED"}
    /\ status' = [status EXCEPT ![t] = "CANCELLED"]
    /\ published' = [published EXCEPT ![t] = "CANCELLED"]

Next == \E t \in Attempts : Start(t) \/ ReportFault(t) \/ Settle(t) \/ Cancel(t)

Spec == Init /\ [][Next]_lifecycleVars
===============================================================================
