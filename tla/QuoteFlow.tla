----------------------------- MODULE QuoteFlow -----------------------------
(***************************************************************************)
(* QuoteFlowService: quotes negotiated in the DM.  A quote is sent,        *)
(* revised (a new version supersedes the one revised), and accepted, which *)
(* materialises an invoice and a CONFIRMED booking in the same             *)
(* transaction, or declined.                                               *)
(***************************************************************************)
EXTENDS OrderTables

InvoiceOf(q) == {b \in BookingId : Invoiced(b) /\ invoices[b].quote = q}

\* A new row of the chain: version 1, or the successor of parent.
insertVersion(rows, q, amount, version, parent, isLapsed) ==
    [rows EXCEPT ![q] =
        [status |-> "PENDING", amount |-> amount, booking |-> NULL,
         parent |-> parent, version |-> version, active |-> TRUE,
         locked |-> FALSE, lapsed |-> isLapsed]]

\* getOrCreateDirect commits before the quote does.
openDirect(r, amount) ==
    /\ Called(r, "sendQuote")
    /\ dm' = TRUE
    /\ Wait(r, [Idle EXCEPT !.op = "sendQuote", !.amount = amount])
    /\ UNCHANGED <<bookings, history, invoices, quotes, reviews, cards>>

sendQuote(r, q) ==
    /\ Resumes(r, "sendQuote", "commit")
    /\ ~QuoteExists(q)
    /\ quotes' = insertVersion(quotes, q, req[r].amount, 1, NULL, FALSE)
    /\ post({<<"QUOTE", q>>})
    /\ Return(r)
    /\ UNCHANGED <<bookings, history, invoices, reviews, dm>>

\* The vendor's handler tests isActive alone.
readActive(r, q, amount) ==
    /\ Called(r, "reviseQuote")
    /\ quotes[q].active
    /\ quotes[q].booking = NULL
    /\ Wait(r, [Idle EXCEPT !.op = "reviseQuote", !.q = q, !.amount = amount,
                            !.lapsed = quotes[q].lapsed])
    /\ UNCHANGED tables

\* Mutant: the superseded version stays active.
supersedeKeepsActive(rows, q) == [rows EXCEPT ![q].status = "SUPERSEDED"]

supersede(rows, q) ==
    [rows EXCEPT ![q].status = "SUPERSEDED", ![q].active = FALSE]

\* Without a new validUntil the revision keeps the one that was read.
reviseQuote(r, next, extends) ==
    LET current == req[r].q
    IN  /\ Resumes(r, "reviseQuote", "commit")
        /\ ~QuoteExists(next)
        /\ quotes' = insertVersion(supersede(quotes, current), next, req[r].amount,
                                   quotes[current].version + 1, current,
                                   req[r].lapsed /\ ~extends)
        /\ post({<<"QUOTE_REVISED", next>>})
        /\ Return(r)
        /\ UNCHANGED <<bookings, history, invoices, reviews, dm>>

\* The client's handlers test isActive and PENDING; acceptance also tests
\* the validity it read.
readOpen(r, op, q) ==
    /\ Called(r, op)
    /\ quotes[q].active
    /\ quotes[q].status = "PENDING"
    /\ quotes[q].booking = NULL
    /\ Wait(r, [Idle EXCEPT !.op = op, !.q = q, !.amount = quotes[q].amount,
          !.at = IF op = "acceptQuote" /\ quotes[q].lapsed THEN "expire" ELSE "commit"])
    /\ UNCHANGED tables

expireQuote(r) ==
    /\ Resumes(r, "acceptQuote", "expire")
    /\ quotes' = [quotes EXCEPT ![req[r].q].status = "EXPIRED",
                                ![req[r].q].active = FALSE]
    /\ Return(r)
    /\ UNCHANGED <<bookings, history, invoices, reviews, dm, cards>>

\* Mutant: the booking is born PENDING, as an inquiry is.
createFromQuotePending(q, b, amount) ==
    /\ bookings' = [bookings EXCEPT ![b] =
          [status |-> "PENDING", quoteAmount |-> amount, finalAmount |-> amount]]
    /\ invoices' = [invoices EXCEPT ![b] =
          [total |-> amount, status |-> "ACCEPTED", quote |-> q]]

\* InvoiceService.createFromQuoteTx: the booking is born CONFIRMED and
\* without a history row; the amounts are those the handler read.
createFromQuote(q, b, amount) ==
    /\ bookings' = [bookings EXCEPT ![b] =
          [status |-> "CONFIRMED", quoteAmount |-> amount, finalAmount |-> amount]]
    /\ invoices' = [invoices EXCEPT ![b] =
          [total |-> amount, status |-> "ACCEPTED", quote |-> q]]

\* Mutant: quote_id is not unique.
acceptQuoteNotUnique(r, b) ==
    LET q == req[r].q
    IN  /\ Resumes(r, "acceptQuote", "commit")
        /\ ~BookingExists(b)
        /\ quotes' = [quotes EXCEPT ![q].status = "ACCEPTED", ![q].active = FALSE,
                                    ![q].locked = TRUE]
        /\ createFromQuote(q, b, req[r].amount)
        /\ post({<<"QUOTE_ACCEPTED", q>>, <<"INVOICE", b>>})
        /\ Return(r)
        /\ UNCHANGED <<history, reviews, dm>>

acceptQuote(r, b) ==
    LET q == req[r].q
    IN  /\ Resumes(r, "acceptQuote", "commit")
        /\ InvoiceOf(q) = {}
        /\ ~BookingExists(b)
        /\ quotes' = [quotes EXCEPT ![q].status = "ACCEPTED", ![q].active = FALSE,
                                    ![q].locked = TRUE]
        /\ createFromQuote(q, b, req[r].amount)
        /\ post({<<"QUOTE_ACCEPTED", q>>, <<"INVOICE", b>>})
        /\ Return(r)
        /\ UNCHANGED <<history, reviews, dm>>

\* invoices.quote_id is unique: a second acceptance rolls back whole.
acceptQuoteRollsBack(r) ==
    /\ Resumes(r, "acceptQuote", "commit")
    /\ InvoiceOf(req[r].q) # {}
    /\ Return(r)
    /\ UNCHANGED tables

declineQuote(r) ==
    /\ Resumes(r, "declineQuote", "commit")
    /\ quotes' = [quotes EXCEPT ![req[r].q].status = "REJECTED",
                                ![req[r].q].active = FALSE]
    /\ post({<<"QUOTE_DECLINED", req[r].q>>})
    /\ Return(r)
    /\ UNCHANGED <<bookings, history, invoices, reviews, dm>>

QuoteFlowNext ==
    \E r \in RequestId :
        \/ \E amount \in Amount : openDirect(r, amount)
        \/ \E q \in QuoteId :
              \/ sendQuote(r, q)
              \/ \E amount \in Amount : readActive(r, q, amount)
              \/ \E extends \in BOOLEAN : reviseQuote(r, q, extends)
              \/ \E op \in {"acceptQuote", "declineQuote"} : readOpen(r, op, q)
        \/ expireQuote(r)
        \/ \E b \in BookingId : acceptQuote(r, b)
        \/ acceptQuoteRollsBack(r)
        \/ declineQuote(r)
=============================================================================
