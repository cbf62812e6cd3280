-------------------------- MODULE BookingLifecycle --------------------------
(***************************************************************************)
(* What a booking's status promises its two parties: the status machine of *)
(* BookingsService's header comment.                                       *)
(***************************************************************************)
CONSTANT BookingId
VARIABLE stage

Init == stage = [b \in BookingId |-> "ABSENT"]

Move(b, from, to) == stage[b] = from /\ stage' = [stage EXCEPT ![b] = to]

Inquire(b) == Move(b, "ABSENT", "PENDING")
Materialise(b) == Move(b, "ABSENT", "CONFIRMED")  \* from an accepted in-chat quote
Confirm(b) == Move(b, "PENDING", "CONFIRMED")
Cancel(b) == Move(b, "PENDING", "CANCELLED") \/ Move(b, "CONFIRMED", "CANCELLED")
Complete(b) == Move(b, "CONFIRMED", "COMPLETED")

Next == \E b \in BookingId :
    Inquire(b) \/ Materialise(b) \/ Confirm(b) \/ Cancel(b) \/ Complete(b)

Spec == Init /\ [][Next]_stage
=============================================================================
