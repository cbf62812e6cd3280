------------------------------- MODULE Orders -------------------------------
(***************************************************************************)
(* The order-taking services composed over the tables they share: any      *)
(* route may be served between the read and the commit of any other.       *)
(***************************************************************************)
EXTENDS Bookings, OrderRequests, Fulfilment, BookingQuotes, QuoteFlow

\* validUntil passes; only an open quote's validity is ever tested.
Lapse(q) ==
    /\ quotes[q].status = "PENDING"
    /\ ~quotes[q].lapsed
    /\ quotes' = [quotes EXCEPT ![q].lapsed = TRUE]
    /\ UNCHANGED <<bookings, history, invoices, reviews, dm, cards, req>>

Init == TablesInit

Next ==
    \/ BookingsNext
    \/ OrderRequestsNext
    \/ FulfilmentNext
    \/ BookingQuotesNext
    \/ QuoteFlowNext
    \/ \E q \in QuoteId : Lapse(q)
    \/ \E r \in RequestId : Fail(r)

Spec == Init /\ [][Next]_vars

-----------------------------------------------------------------------------
(* What holds however the requests overlap.                                *)

LegalEdges ==
    {<<NULL, "PENDING">>, <<"PENDING", "CONFIRMED">>, <<"PENDING", "CANCELLED">>,
     <<"CONFIRMED", "CANCELLED">>, <<"CONFIRMED", "COMPLETED">>}

HistoryStatuses(b) == {history[b][i].to : i \in DOMAIN history[b]}

\* A booking with an invoice is never PENDING, and neither is one whose
\* delivery or return is being confirmed.  markDelivered and confirmReturn
\* exclude only COMPLETED and CANCELLED; that they cannot complete an
\* unanswered request rests on this.
InvoicedNeverPending ==
    /\ \A b \in BookingId : Invoiced(b) =>
          bookings[b].status \in {"CONFIRMED", "COMPLETED", "CANCELLED"}
    /\ \A r \in RequestId :
          req[r].op \in {"markDelivered", "confirmReturn"} => req[r].seen = "CONFIRMED"

\* Every history row, whichever service wrote it and however stale its
\* read, records an edge of the documented status machine.
RecordedEdgesLegal ==
    \A b \in BookingId : \A i \in DOMAIN history[b] :
        <<history[b][i].from, history[b][i].to>> \in LegalEdges

\* The last recorded status is the booking's status; a booking without
\* history still has the status its creating route gave it.
HistoryEndsAtStatus ==
    \A b \in BookingId :
        IF history[b] # <<>>
        THEN history[b][Len(history[b])].to = bookings[b].status
        ELSE bookings[b].status \in {"ABSENT", "PENDING", "CONFIRMED"}

\* An in-chat quote is locked exactly when one invoice was made from it, and
\* a second acceptance in flight never makes another.
LockedIffInvoicedOnce ==
    \A q \in QuoteId : QuoteExists(q) /\ quotes[q].booking = NULL =>
        IF quotes[q].locked
        THEN \E b \in BookingId : InvoiceOf(q) = {b}
        ELSE InvoiceOf(q) = {}

\* A version that was revised never comes back on the table, and one marked
\* SUPERSEDED has the version that superseded it.
RevisedStaysOffTable ==
    \A q \in QuoteId :
        LET revisions == {v \in QuoteId : quotes[v].parent = q}
        IN  /\ revisions # {} => ~quotes[q].active
            /\ quotes[q].status = "SUPERSEDED" => revisions # {}

\* Invoice, card and answer are one transaction: the conversation shows one
\* INVOICE card for an invoiced booking and none for any other, so nothing
\* of an acceptance that lost a race remains.
InvoiceAnnouncedOnce ==
    \A b \in BookingId :
        cards[<<"INVOICE", b>>] = IF Invoiced(b) THEN 1 ELSE 0

\* A review's booking was completed at some time: the history says so even
\* when a late cancellation has moved the booking on.
ReviewAfterCompletion ==
    \A b \in reviews : "COMPLETED" \in HistoryStatuses(b)

\* The vendor's answer is final in one direction: whatever was in flight, a
\* booking that left PENDING does not return to it.
NeverPendingAgain ==
    [][\A b \in BookingId :
          BookingExists(b) /\ bookings[b].status # "PENDING"
             => bookings'[b].status \notin {"ABSENT", "PENDING"}]_vars

\* "PENDING -> CONFIRMED -> COMPLETED, with CANCELLED reachable from
\* PENDING/CONFIRMED": a booking leaves that machine only through a commit
\* whose read was overtaken: some request in flight had read another status.
OnlyStaleCommitsJump ==
    [][\A b \in BookingId :
          LET s == bookings[b].status
              t == bookings'[b].status
          IN  \/ s = t \/ s = "ABSENT"
              \/ <<s, t>> \in LegalEdges
              \/ \E r \in RequestId : /\ req[r].b = b
                                      /\ req[r].seen # s
                                      /\ req'[r] = Idle]_vars

-----------------------------------------------------------------------------
(* What holds when requests do not overlap (one slot), and what the        *)
(* repository's comments and docs say of the code without that proviso.    *)

InChat(q) == QuoteExists(q) /\ quotes[q].booking = NULL

Lifecycle == INSTANCE BookingLifecycle WITH
    stage <- [b \in BookingId |-> bookings[b].status]

\* Served one at a time, all routes together move a booking only along the
\* status machine of bookings.service.ts's header.
ImplementsLifecycle == Lifecycle!Spec

Talks == INSTANCE Negotiation WITH
    onTable <- {q \in QuoteId : InChat(q) /\ quotes[q].active},
    deals <- {q \in QuoteId : InvoiceOf(q) # {}},
    withdrawn <- {q \in QuoteId : /\ InChat(q)
                     /\ quotes[q].status \in {"SUPERSEDED", "REJECTED", "EXPIRED"}}

\* Served one at a time, send, revise, accept and decline keep one version
\* of a negotiation on the table and make deals only of that version.
ImplementsNegotiation == Talks!Spec

\* "Immutable audit trail of every status transition": each row starts
\* where the one before it ended.
AuditTrailConnected ==
    \A b \in BookingId : \A i \in DOMAIN history[b] :
        i > 1 => history[b][i].from = history[b][i - 1].to

\* "Locked once client accepts - prevents modification of agreed terms".
TermsSealed ==
    [][\A q \in QuoteId :
          quotes[q].locked => quotes'[q].amount = quotes[q].amount]_vars

\* "A finalized bill generated from an ACCEPTED quote": the quote an invoice
\* derives from is an accepted one.
InvoicedQuoteIsAccepted ==
    \A q \in QuoteId : InvoiceOf(q) # {} => quotes[q].status = "ACCEPTED"
=============================================================================
