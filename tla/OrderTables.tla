---------------------------- MODULE OrderTables ----------------------------
(***************************************************************************)
(* The database tables the order-taking services share, and the requests   *)
(* in flight against them.  One client and one vendor: the ownership tests *)
(* every handler starts with compare immutable columns and always pass for *)
(* the owner, so a request here is one its owner may make.                 *)
(*                                                                         *)
(* Every handler has the same shape: it READS a row, tests it in           *)
(* TypeScript, awaits, and then COMMITS one transaction whose updates are  *)
(* addressed by id alone ("where: { id }"), so nothing re-tests the row.   *)
(* A handler is therefore a request that sits in a slot of `req' between   *)
(* its read and its commit, carrying what it read.  One Prisma call is one *)
(* consistent read; one $transaction is one atomic step, which either      *)
(* commits or, when it meets a unique index, leaves no trace.              *)
(***************************************************************************)
EXTENDS Naturals, Sequences

CONSTANTS
    BookingId,   \* ids the bookings table may come to hold
    QuoteId,     \* ids the quotes table may come to hold
    RequestId,   \* how many requests may be in flight at once
    Amount,      \* sums of money, in whole units
    NULL,        \* SQL NULL
    Routes,      \* the operations the clients of this instance call
    MaxUpdates   \* bound on the TIMELINE_UPDATE cards of one booking

VARIABLES
    bookings,    \* table bookings
    history,     \* table booking_status_history, by booking, in order
    invoices,    \* table invoices, keyed by its unique booking_id
    quotes,      \* table quotes: booking quotes and in-chat quotes alike
    reviews,     \* bookings with a row in table reviews (booking_id unique)
    dm,          \* does the DIRECT conversation of the pair exist?
    cards,       \* how often each card was posted in it
    req          \* what each request slot holds

tables == <<bookings, history, invoices, quotes, reviews, dm, cards>>
vars == <<bookings, history, invoices, quotes, reviews, dm, cards, req>>

-----------------------------------------------------------------------------
(* Rows.  An id not yet inserted has status "ABSENT".  The two enum values *)
(* ACTIVE and DISPUTED of BookingStatus are written nowhere.               *)

Status == {"PENDING", "CONFIRMED", "COMPLETED", "CANCELLED"}
Sum == Amount \cup {NULL}

BookingRow == [status: Status \cup {"ABSENT"},
               quoteAmount: Sum, finalAmount: Sum]

\* lapsed stands for validUntil < now; chat quotes have no booking.
QuoteStatus == {"PENDING", "ACCEPTED", "REJECTED", "EXPIRED", "SUPERSEDED"}
QuoteRow == [status: QuoteStatus \cup {"ABSENT"}, amount: Sum,
             booking: BookingId \cup {NULL}, parent: QuoteId \cup {NULL},
             version: Nat, active: BOOLEAN, locked: BOOLEAN, lapsed: BOOLEAN]

InvoiceRow == [total: Amount \cup {0}, status: {"SENT", "ACCEPTED"},
               quote: QuoteId \cup {NULL}]
HistoryRow == [from: Status \cup {NULL}, to: Status]

QuoteCards == {"QUOTE", "QUOTE_REVISED", "QUOTE_ACCEPTED", "QUOTE_DECLINED"}
BookingCards == {"ORDER_REQUEST", "ORDER_ACCEPTED", "ORDER_DECLINED", "INVOICE",
                 "TIMELINE_UPDATE", "REVIEW_REQUESTED", "REVIEW_SUBMITTED"}
Card == (QuoteCards \X QuoteId) \cup (BookingCards \X BookingId)

-----------------------------------------------------------------------------
(* Requests in flight.  `op' is the route; `at' what the handler does when *)
(* it resumes after its last await; the other fields are the locals it     *)
(* carries across that await.                                              *)

BookingOps == {"confirm", "reject", "cancel", "complete"}
OrderOps   == {"createOrder", "acceptOrder", "declineOrder"}
FulfilOps  == {"postUpdate", "markDelivered", "confirmReturn"}
ReviewOps  == {"review", "submitReview"}
BookingQuoteOps == {"updateQuote", "acceptBookingQuote", "rejectBookingQuote"}
QuoteFlowOps == {"sendQuote", "reviseQuote", "acceptQuote", "declineQuote"}

\* Two routes insert without testing any mutable row: they never wait.
InsertOps == {"createBooking", "createBookingQuote"}
WaitingOps == BookingOps \cup OrderOps \cup FulfilOps \cup ReviewOps
                \cup BookingQuoteOps \cup QuoteFlowOps
Op == WaitingOps \cup InsertOps

Resumption == {"commit", "findConversation", "readBooking", "expire", "postCard"}

Slot == [op: WaitingOps \cup {"idle"}, at: Resumption,
         b: BookingId \cup {NULL}, q: QuoteId \cup {NULL},
         seen: Status \cup {NULL}, amount: Sum, lapsed: BOOLEAN, conv: BOOLEAN]

Idle == [op |-> "idle", at |-> "commit", b |-> NULL, q |-> NULL,
         seen |-> NULL, amount |-> NULL, lapsed |-> FALSE, conv |-> FALSE]

ASSUME ConstantsAssumption ==
    /\ Amount \subseteq Nat
    /\ Routes \subseteq Op
    /\ MaxUpdates \in Nat
    /\ NULL \notin BookingId
    /\ NULL \notin QuoteId
    /\ NULL \notin Amount
    /\ NULL \notin Status
    /\ NULL \notin InvoiceRow

-----------------------------------------------------------------------------
(* What the handlers are made of.                                          *)

\* A client of this instance calls route op, and a slot is free to serve it.
Called(r, op) == op \in Routes /\ req[r] = Idle

Wait(r, slot) == req' = [req EXCEPT ![r] = slot]
Return(r) == req' = [req EXCEPT ![r] = Idle]

Resumes(r, op, at) == req[r].op = op /\ req[r].at = at

BookingExists(b) == bookings[b].status # "ABSENT"
QuoteExists(q) == quotes[q].status # "ABSENT"
Invoiced(b) == invoices[b] # NULL

\* The two writes every recorded status change makes, in one transaction.
transition(b, fromStatus, toStatus) ==
    /\ bookings' = [bookings EXCEPT ![b].status = toStatus]
    /\ history' = [history EXCEPT
                     ![b] = Append(@, [from |-> fromStatus, to |-> toStatus])]

\* ChatCardService.post for each card of a transaction.
post(cs) ==
    cards' = [c \in Card |-> IF c \in cs THEN cards[c] + 1 ELSE cards[c]]

\* A request dies between two steps: the process stops, or the database
\* refuses the transaction.  What it committed before stays.
Fail(r) ==
    /\ req[r] # Idle
    /\ Return(r)
    /\ UNCHANGED tables

TablesInit ==
    /\ bookings = [b \in BookingId |->
          [status |-> "ABSENT", quoteAmount |-> NULL, finalAmount |-> NULL]]
    /\ history = [b \in BookingId |-> <<>>]
    /\ invoices = [b \in BookingId |-> NULL]
    /\ quotes = [q \in QuoteId |->
          [status |-> "ABSENT", amount |-> NULL, booking |-> NULL,
           parent |-> NULL, version |-> 0, active |-> FALSE,
           locked |-> FALSE, lapsed |-> FALSE]]
    /\ reviews = {}
    /\ dm = FALSE
    /\ cards = [c \in Card |-> 0]
    /\ req = [r \in RequestId |-> Idle]

TypeOK ==
    /\ bookings \in [BookingId -> BookingRow]
    /\ history \in [BookingId -> Seq(HistoryRow)]
    /\ invoices \in [BookingId -> InvoiceRow \cup {NULL}]
    /\ quotes \in [QuoteId -> QuoteRow]
    /\ reviews \subseteq BookingId
    /\ dm \in BOOLEAN
    /\ cards \in [Card -> Nat]
    /\ req \in [RequestId -> Slot]
=============================================================================
