---------------------------- MODULE DealLifecycle ----------------------------
(***************************************************************************)
(* What a client is promised about a deal: the state diagram of the        *)
(* architecture document, with the terms fixed at approval.  A deal moves  *)
(* only forward, is decided once, its order and payment draft never change *)
(* afterwards, and an award goes to the supplier of the order only, once   *)
(* the payment draft is signed.                                            *)
(***************************************************************************)
CONSTANTS Deals, Orders, None

VARIABLES
  status,   \* per deal
  order,    \* per deal: the order and payment draft, or None
  awarded   \* per deal: the suppliers an award was addressed to

vars == <<status, order, awarded>>

Init ==
  /\ status = [d \in Deals |-> "absent"]
  /\ order = [d \in Deals |-> None]
  /\ awarded = [d \in Deals |-> {}]

Move(d, from, to) ==
  /\ status[d] = from
  /\ status' = [status EXCEPT ![d] = to]

Submit(d) == Move(d, "absent", "draft") /\ UNCHANGED <<order, awarded>>

Offer(d) == Move(d, "draft", "awaiting_approval") /\ UNCHANGED <<order, awarded>>

Fail(d) == Move(d, "draft", "failed") /\ UNCHANGED <<order, awarded>>

Decline(d) ==
  /\ \E to \in {"rejected", "changes_requested"} : Move(d, "awaiting_approval", to)
  /\ UNCHANGED <<order, awarded>>

Approve(d) ==
  /\ Move(d, "awaiting_approval", "payment_signature_required")
  /\ \E o \in Orders : order' = [order EXCEPT ![d] = o]
  /\ UNCHANGED awarded

Sign(d) == Move(d, "payment_signature_required", "completed") /\ UNCHANGED <<order, awarded>>

Award(d) ==
  /\ status[d] = "completed"
  /\ awarded' = [awarded EXCEPT ![d] = {order[d].quote.supplier}]
  /\ UNCHANGED <<status, order>>

Next ==
  \E d \in Deals :
    \/ Submit(d)
    \/ Offer(d)
    \/ Fail(d)
    \/ Decline(d)
    \/ Approve(d)
    \/ Sign(d)
    \/ Award(d)

Spec == Init /\ [][Next]_vars
==============================================================================
