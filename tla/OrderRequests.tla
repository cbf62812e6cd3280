--------------------------- MODULE OrderRequests ---------------------------
(***************************************************************************)
(* OrderRequestService: direct product and rental orders.  The client's    *)
(* request creates a PENDING booking; the vendor's answer confirms it and  *)
(* issues an invoice, or cancels it.  The answer is given to any PENDING   *)
(* booking of the vendor, whichever route created it.                      *)
(***************************************************************************)
EXTENDS OrderTables

\* getOrCreateDirect commits before the order does.
openConversation(r, amount) ==
    /\ Called(r, "createOrder")
    /\ dm' = TRUE
    /\ Wait(r, [Idle EXCEPT !.op = "createOrder", !.amount = amount])
    /\ UNCHANGED <<bookings, history, invoices, quotes, reviews, cards>>

\* Unlike bookings.create, the row comes without a history row.
createOrderRequest(r, b) ==
    /\ Resumes(r, "createOrder", "commit")
    /\ ~BookingExists(b)
    /\ bookings' = [bookings EXCEPT ![b] =
          [status |-> "PENDING", quoteAmount |-> req[r].amount,
           finalAmount |-> req[r].amount]]
    /\ post({<<"ORDER_REQUEST", b>>})
    /\ Return(r)
    /\ UNCHANGED <<history, invoices, quotes, reviews, dm>>

readOrder(r, op, b) ==
    /\ Called(r, op)
    /\ bookings[b].status = "PENDING"
    /\ Wait(r, [Idle EXCEPT !.op = op, !.at = "findConversation", !.b = b,
                            !.seen = "PENDING", !.amount = bookings[b].quoteAmount])
    /\ UNCHANGED tables

\* Only an acceptance needs the conversation (400 without one).
findConversation(r, op) ==
    /\ Resumes(r, op, "findConversation")
    /\ IF op = "acceptOrder" /\ ~dm
       THEN Return(r)
       ELSE Wait(r, [req[r] EXCEPT !.at = "commit", !.conv = dm])
    /\ UNCHANGED tables

\* Mutant: a declined request goes back to the vendor's inbox.
declineOrderReopens(r) ==
    /\ Resumes(r, "declineOrder", "commit")
    /\ transition(req[r].b, "PENDING", "PENDING")
    /\ post(IF req[r].conv THEN {<<"ORDER_DECLINED", req[r].b>>} ELSE {})
    /\ Return(r)
    /\ UNCHANGED <<invoices, quotes, reviews, dm>>

declineOrder(r) ==
    /\ Resumes(r, "declineOrder", "commit")
    /\ transition(req[r].b, "PENDING", "CANCELLED")
    /\ post(IF req[r].conv THEN {<<"ORDER_DECLINED", req[r].b>>} ELSE {})
    /\ Return(r)
    /\ UNCHANGED <<invoices, quotes, reviews, dm>>

\* Mutant: the "?? 0" is missing.
createDirectInvoiceNoDefault(b, quoteAmount) ==
    invoices' = [invoices EXCEPT ![b] =
        [total |-> quoteAmount, status |-> "SENT", quote |-> NULL]]

createDirectInvoice(b, quoteAmount) ==
    invoices' = [invoices EXCEPT ![b] =
        [total |-> IF quoteAmount = NULL THEN 0 ELSE quoteAmount,
         status |-> "SENT", quote |-> NULL]]

\* Mutant: booking_id is not unique, the second invoice replaces the first.
acceptOrderNotUnique(r) ==
    /\ Resumes(r, "acceptOrder", "commit")
    /\ transition(req[r].b, "PENDING", "CONFIRMED")
    /\ createDirectInvoice(req[r].b, req[r].amount)
    /\ post({<<"ORDER_ACCEPTED", req[r].b>>, <<"INVOICE", req[r].b>>})
    /\ Return(r)
    /\ UNCHANGED <<quotes, reviews, dm>>

acceptOrder(r) ==
    /\ Resumes(r, "acceptOrder", "commit")
    /\ ~Invoiced(req[r].b)
    /\ transition(req[r].b, "PENDING", "CONFIRMED")
    /\ createDirectInvoice(req[r].b, req[r].amount)
    /\ post({<<"ORDER_ACCEPTED", req[r].b>>, <<"INVOICE", req[r].b>>})
    /\ Return(r)
    /\ UNCHANGED <<quotes, reviews, dm>>

\* invoices.booking_id is unique: a second acceptance rolls back whole.
acceptOrderRollsBack(r) ==
    /\ Resumes(r, "acceptOrder", "commit")
    /\ Invoiced(req[r].b)
    /\ Return(r)
    /\ UNCHANGED tables

OrderRequestsNext ==
    \E r \in RequestId :
        \/ \E amount \in Amount : openConversation(r, amount)
        \/ \E b \in BookingId : createOrderRequest(r, b)
        \/ \E op \in {"acceptOrder", "declineOrder"} :
              \/ \E b \in BookingId : readOrder(r, op, b)
              \/ findConversation(r, op)
        \/ declineOrder(r)
        \/ acceptOrder(r)
        \/ acceptOrderRollsBack(r)
=============================================================================
