---------------------------- MODULE OrdersSafety ----------------------------
(***************************************************************************)
(* The types and the safety of Orders, for any number of bookings, quotes  *)
(* and overlapping requests, in three parts: the types; the bookings and   *)
(* their history; the quotes and the invoices derived from them.           *)
(***************************************************************************)
EXTENDS Orders, SequenceTheorems, TLAPS

(***************************************************************************)
(* Type correctness of Orders, for any number of bookings, quotes and      *)
(* overlapping requests.  TypeOK alone is not inductive: a commit writes   *)
(* through the ids and sums its request carries, so the invariant adds     *)
(* that those ids are of rows that exist and those sums are sums.          *)
(***************************************************************************)

QuotesSound ==
    \A q \in QuoteId :
        /\ QuoteExists(q) => quotes[q].amount \in Amount
        /\ quotes[q].active => QuoteExists(q)
        /\ quotes[q].booking # NULL =>
              QuoteExists(q) /\ BookingExists(quotes[q].booking)

BookingCarriers == BookingOps \cup {"acceptOrder", "declineOrder"} \cup FulfilOps
    \cup ReviewOps \cup {"acceptBookingQuote", "rejectBookingQuote"}
QuoteCarriers == BookingQuoteOps \cup (QuoteFlowOps \ {"sendQuote"})
SumCarriers == {"sendQuote", "reviseQuote", "acceptQuote"}

\* What request slot s carries to its commit is there.
Carries(s) ==
    /\ s.op \in BookingCarriers => s.b \in BookingId /\ BookingExists(s.b)
    /\ s.op \in QuoteCarriers => s.q \in QuoteId /\ QuoteExists(s.q)
    /\ s.op \in SumCarriers => s.amount \in Amount

RequestsCarry == \A r \in RequestId : Carries(req[r])

TypeInv == TypeOK /\ QuotesSound /\ RequestsCarry

TablesTyped ==
    /\ bookings \in [BookingId -> BookingRow]
    /\ history \in [BookingId -> Seq(HistoryRow)]
    /\ invoices \in [BookingId -> InvoiceRow \cup {NULL}]
    /\ quotes \in [QuoteId -> QuoteRow]
    /\ reviews \subseteq BookingId
    /\ dm \in BOOLEAN
    /\ cards \in [Card -> Nat]

\* No step deletes a row.
Kept == /\ \A b \in BookingId : BookingExists(b) => BookingExists(b)'
        /\ \A q \in QuoteId : QuoteExists(q) => QuoteExists(q)'

-----------------------------------------------------------------------------
(* What the building blocks of the actions do to each table.               *)

\* ChatCardService.post counts cards: the card counts stay naturals.
LEMMA PostTyped ==
    ASSUME cards \in [Card -> Nat], NEW cs, post(cs)
    PROVE  cards' \in [Card -> Nat]
  BY DEF post

\* A history.create appends one row of the history's type.
LEMMA AppendTyped ==
    ASSUME history \in [BookingId -> Seq(HistoryRow)],
           NEW b, NEW row \in HistoryRow,
           history' = [history EXCEPT ![b] = Append(@, row)]
    PROVE  history' \in [BookingId -> Seq(HistoryRow)]
  BY AppendProperties

\* The two writes of a recorded status change keep both tables typed and
\* delete no booking.
LEMMA TransitionTyped ==
    ASSUME TypeOK, NEW b, NEW from \in Status \cup {NULL}, NEW to \in Status,
           transition(b, from, to)
    PROVE  /\ bookings' \in [BookingId -> BookingRow]
           /\ history' \in [BookingId -> Seq(HistoryRow)]
           /\ \A c \in BookingId : BookingExists(c) => BookingExists(c)'
  <1>1. [from |-> from, to |-> to] \in HistoryRow
    BY DEF HistoryRow
  <1>2. history' \in [BookingId -> Seq(HistoryRow)]
    BY <1>1, AppendTyped DEF transition, TypeOK
  <1>3. bookings' \in [BookingId -> BookingRow]
    BY DEF transition, BookingRow, TypeOK
  <1>4. \A c \in BookingId : BookingExists(c) => BookingExists(c)'
    BY DEF transition, BookingRow, TypeOK, BookingExists, Status
  <1> QED BY <1>2, <1>3, <1>4

\* A handler that returns leaves a slot of the slots' type.
LEMMA ReturnTyped ==
    ASSUME TypeOK, NEW r, Return(r)
    PROVE  req' \in [RequestId -> Slot]
  <1>1. Idle \in Slot
    BY DEF Idle, Slot, Resumption, Sum
  <1> QED BY <1>1 DEF Return, TypeOK

\* A handler that awaits leaves what it carries in its slot.
LEMMA WaitTyped ==
    ASSUME TypeOK, NEW r, NEW s \in Slot, Wait(r, s)
    PROVE  req' \in [RequestId -> Slot]
  BY DEF Wait, TypeOK

\* A request that ends, after writing the tables, keeps the invariant.
LEMMA EndStep ==
    ASSUME TypeInv, NEW r \in RequestId, Return(r),
           TablesTyped', Kept, QuotesSound'
    PROVE  TypeInv'
  <1>1. TypeOK'
    BY ReturnTyped DEF TypeInv, TypeOK, TablesTyped
  <1>2. Carries(Idle)'
    BY DEF Carries, Idle, BookingCarriers, QuoteCarriers, SumCarriers, BookingOps,
           FulfilOps, ReviewOps, BookingQuoteOps, QuoteFlowOps
  <1>3. ASSUME NEW t \in RequestId PROVE Carries(req[t])'
    <2>1. CASE t = r
      BY <1>2, <2>1 DEF Return, TypeInv, TypeOK, Carries
    <2>2. CASE t # r
      BY <2>2 DEF Return, TypeInv, TypeOK, RequestsCarry, Carries, Kept
    <2> QED BY <2>1, <2>2
  <1> QED BY <1>1, <1>3 DEF TypeInv, RequestsCarry

\* So does one that waits, carrying what is there.
LEMMA WaitStep ==
    ASSUME TypeInv, NEW r \in RequestId, NEW s \in Slot, Wait(r, s), Carries(s),
           TablesTyped', Kept, QuotesSound'
    PROVE  TypeInv'
  <1>1. TypeOK'
    BY WaitTyped DEF TypeInv, TypeOK, TablesTyped
  <1>2. ASSUME NEW t \in RequestId PROVE Carries(req[t])'
    <2>1. CASE t = r
      BY <2>1 DEF Wait, TypeInv, TypeOK, Carries, Kept
    <2>2. CASE t # r
      BY <2>2 DEF Wait, TypeInv, TypeOK, RequestsCarry, Carries, Kept
    <2> QED BY <2>1, <2>2
  <1> QED BY <1>1, <1>2 DEF TypeInv, RequestsCarry

\* A step that writes no table breaks nothing that is said of the tables.
LEMMA Unchanged ==
    ASSUME TypeInv, UNCHANGED tables
    PROVE  TablesTyped' /\ Kept /\ QuotesSound'
  BY DEF TypeInv, TypeOK, TablesTyped, tables, Kept, QuotesSound, QuoteExists,
         BookingExists

\* A step that writes no quote leaves the quotes sound, if it deletes no
\* booking they hang on.
LEMMA QuotesUnchanged ==
    ASSUME TypeInv, UNCHANGED quotes, 
           \A b \in BookingId : BookingExists(b) => BookingExists(b)'
    PROVE  Kept /\ QuotesSound'
  BY DEF TypeInv, TypeOK, TablesTyped, Kept, QuotesSound, QuoteExists, QuoteRow

-----------------------------------------------------------------------------
\* The steps of BookingsService keep the invariant.
LEMMA BookingsTypes ==
    ASSUME TypeInv, BookingsNext
    PROVE  TypeInv'
  <1> USE DEF TypeInv
  <1>1. ASSUME NEW b \in BookingId, NEW amount \in Sum, create(b, amount)
        PROVE  TypeInv'
    <2>1. [from |-> NULL, to |-> "PENDING"] \in HistoryRow
      BY DEF HistoryRow, Status
    <2>2. history' \in [BookingId -> Seq(HistoryRow)]
      BY <1>1, <2>1, AppendTyped DEF create, TypeOK
    <2>3. bookings' \in [BookingId -> BookingRow]
      BY <1>1 DEF create, TypeOK, BookingRow, Status, Sum
    <2>4. TypeOK'
      BY <1>1, <2>2, <2>3 DEF create, TypeOK
    <2>5. \A c \in BookingId : BookingExists(c) => BookingExists(c)'
      BY <1>1 DEF create, TypeOK, BookingExists
    <2>6. Kept /\ QuotesSound'
      BY <1>1, <2>5, QuotesUnchanged DEF create
    <2>7. RequestsCarry'
      BY <1>1, <2>6 DEF create, RequestsCarry, Carries, Kept
    <2> QED BY <2>4, <2>6, <2>7
  <1>2. ASSUME NEW r \in RequestId, NEW op \in BookingOps, NEW b \in BookingId,
               readStatus(r, op, b)
        PROVE  TypeInv'
    <2> DEFINE s == [Idle EXCEPT !.op = op, !.b = b, !.seen = bookings[b].status]
    <2>1. bookings[b].status \in Status
      BY <1>2 DEF readStatus, AcceptedFrom, Status, BookingOps
    <2>2. s \in Slot
      BY <2>1 DEF Idle, Slot, Resumption, Sum, WaitingOps
    <2>3. Carries(s)
      BY <2>1 DEF Idle, Carries, BookingExists, Status, QuoteCarriers, SumCarriers, BookingOps,
            BookingQuoteOps, QuoteFlowOps
    <2> HIDE DEF s
    <2>4. Wait(r, s) /\ UNCHANGED tables
      BY <1>2 DEF readStatus, s
    <2> QED BY <2>2, <2>3, <2>4, Unchanged, WaitStep
  <1>3. ASSUME NEW r \in RequestId, NEW op \in BookingOps, changeStatus(r, op)
        PROVE  TypeInv'
    <2>1. req[r].seen \in Status \cup {NULL} /\ Target(op) \in Status
      BY DEF TypeOK, Slot, Target, BookingOps, Status
    <2>2. TablesTyped' /\ \A c \in BookingId : BookingExists(c) => BookingExists(c)'
      BY <1>3, <2>1, TransitionTyped DEF changeStatus, TypeOK, TablesTyped
    <2> QED BY <1>3, <2>2, QuotesUnchanged, EndStep DEF changeStatus
  <1> QED BY <1>1, <1>2, <1>3 DEF BookingsNext

\* The steps of OrderRequestService keep the invariant.
LEMMA OrderRequestsTypes ==
    ASSUME TypeInv, OrderRequestsNext
    PROVE  TypeInv'
  <1> USE DEF TypeInv
  <1>1. ASSUME NEW r \in RequestId, NEW amount \in Amount, openConversation(r, amount)
        PROVE  TypeInv'
    <2> DEFINE s == [Idle EXCEPT !.op = "createOrder", !.amount = amount]
    <2>1. s \in Slot
      BY DEF Idle, Slot, Resumption, Sum, WaitingOps, OrderOps
    <2>2. Carries(s)
      BY DEF Idle, Carries, BookingCarriers, QuoteCarriers, SumCarriers, BookingOps,
             FulfilOps, ReviewOps, BookingQuoteOps, QuoteFlowOps
    <2> HIDE DEF s
    <2>3. Wait(r, s) /\ TablesTyped'
      BY <1>1 DEF openConversation, s, TablesTyped, TypeOK
    <2>4. Kept /\ QuotesSound'
      BY <1>1, QuotesUnchanged DEF openConversation, BookingExists
    <2> QED BY <2>1, <2>2, <2>3, <2>4, WaitStep
  <1>2. ASSUME NEW r \in RequestId, NEW b \in BookingId, createOrderRequest(r, b)
        PROVE  TypeInv'
    <2>1. bookings' \in [BookingId -> BookingRow]
      BY <1>2 DEF createOrderRequest, TypeOK, BookingRow, Status, Slot
    <2>2. TablesTyped'
      BY <1>2, <2>1, PostTyped DEF createOrderRequest, TypeOK, TablesTyped
    <2>3. \A c \in BookingId : BookingExists(c) => BookingExists(c)'
      BY <1>2 DEF createOrderRequest, TypeOK, BookingExists
    <2> QED BY <1>2, <2>2, <2>3, QuotesUnchanged, EndStep DEF createOrderRequest
  <1>3. ASSUME NEW r \in RequestId, NEW op \in {"acceptOrder", "declineOrder"},
               NEW b \in BookingId, readOrder(r, op, b)
        PROVE  TypeInv'
    <2> DEFINE s == [Idle EXCEPT !.op = op, !.at = "findConversation", !.b = b,
                         !.seen = "PENDING", !.amount = bookings[b].quoteAmount]
    <2>1. s \in Slot
      BY DEF TypeOK, BookingRow, Idle, Slot, Resumption, Sum, Status, WaitingOps, OrderOps
    <2>2. Carries(s)
      BY <1>3 DEF readOrder, BookingExists, Idle, Carries, QuoteCarriers, SumCarriers,
             BookingQuoteOps, QuoteFlowOps
    <2> HIDE DEF s
    <2>3. Wait(r, s) /\ UNCHANGED tables
      BY <1>3 DEF readOrder, s
    <2> QED BY <2>1, <2>2, <2>3, Unchanged, WaitStep
  <1>4. ASSUME NEW r \in RequestId, NEW op \in {"acceptOrder", "declineOrder"},
               findConversation(r, op)
        PROVE  TypeInv'
    <2>1. CASE op = "acceptOrder" /\ ~dm
      BY <1>4, <2>1, Unchanged, EndStep DEF findConversation
    <2>2. CASE ~(op = "acceptOrder" /\ ~dm)
      <3> DEFINE s == [req[r] EXCEPT !.at = "commit", !.conv = dm]
      <3>1. s \in Slot
        BY DEF TypeOK, Slot, Resumption
      <3>2. Carries(s)
        BY DEF TypeOK, Slot, RequestsCarry, Carries
      <3> HIDE DEF s
      <3>3. Wait(r, s) /\ UNCHANGED tables
        BY <1>4, <2>2 DEF findConversation, s
      <3> QED BY <3>1, <3>2, <3>3, Unchanged, WaitStep
    <2> QED BY <2>1, <2>2
  <1>5. ASSUME NEW r \in RequestId, declineOrder(r)
        PROVE  TypeInv'
    <2>1. TablesTyped' /\ \A c \in BookingId : BookingExists(c) => BookingExists(c)'
      BY <1>5, TransitionTyped, PostTyped DEF declineOrder, Status, TypeOK, TablesTyped
    <2> QED BY <1>5, <2>1, QuotesUnchanged, EndStep DEF declineOrder
  <1>6. ASSUME NEW r \in RequestId, acceptOrder(r)
        PROVE  TypeInv'
    <2>1. invoices' \in [BookingId -> InvoiceRow \cup {NULL}]
      BY <1>6 DEF acceptOrder, createDirectInvoice, InvoiceRow, TypeOK, Slot, Sum
    <2>2. TablesTyped' /\ \A c \in BookingId : BookingExists(c) => BookingExists(c)'
      BY <1>6, <2>1, TransitionTyped, PostTyped
      DEF acceptOrder, Status, TypeOK, TablesTyped
    <2> QED BY <1>6, <2>2, QuotesUnchanged, EndStep DEF acceptOrder
  <1>7. ASSUME NEW r \in RequestId, acceptOrderRollsBack(r)
        PROVE  TypeInv'
    BY <1>7, Unchanged, EndStep DEF acceptOrderRollsBack
  <1> QED BY <1>1, <1>2, <1>3, <1>4, <1>5, <1>6, <1>7 DEF OrderRequestsNext

\* The steps of FulfilmentService and ReviewsService.create keep it.
LEMMA FulfilmentTypes ==
    ASSUME TypeInv, FulfilmentNext
    PROVE  TypeInv'
  <1> USE DEF TypeInv
  <1>1. ASSUME NEW r \in RequestId, NEW op \in FulfilOps, NEW b \in BookingId,
               loadBooking(r, op, b)
        PROVE  TypeInv'
    <2> DEFINE s == [Idle EXCEPT !.op = op, !.b = b, !.seen = bookings[b].status]
    <2>1. s \in Slot
      BY <1>1 DEF loadBooking, BookingExists, TypeOK, BookingRow, Idle, Slot, Resumption,
             Sum, WaitingOps
    <2>2. Carries(s)
      BY <1>1 DEF loadBooking, Idle, Carries, BookingExists, QuoteCarriers, SumCarriers,
             FulfilOps, BookingQuoteOps, QuoteFlowOps
    <2> HIDE DEF s
    <2>3. Wait(r, s) /\ UNCHANGED tables
      BY <1>1 DEF loadBooking, s
    <2> QED BY <2>1, <2>2, <2>3, Unchanged, WaitStep
  <1>2. ASSUME NEW r \in RequestId, postUpdate(r)
        PROVE  TypeInv'
    <2>1. TablesTyped'
      BY <1>2, PostTyped DEF postUpdate, TypeOK, TablesTyped
    <2>2. Kept /\ QuotesSound'
      BY <1>2, QuotesUnchanged DEF postUpdate, BookingExists
    <2> QED BY <1>2, <2>1, <2>2, EndStep DEF postUpdate
  <1>3. ASSUME NEW r \in RequestId, NEW op \in {"markDelivered", "confirmReturn"},
               completeOrder(r, op)
        PROVE  TypeInv'
    <2>1. req[r].seen \in Status \cup {NULL} /\ "COMPLETED" \in Status
      BY DEF TypeOK, Slot, Status
    <2>2. TablesTyped' /\ \A c \in BookingId : BookingExists(c) => BookingExists(c)'
      BY <1>3, <2>1, TransitionTyped, PostTyped DEF completeOrder, TypeOK, TablesTyped
    <2> QED BY <1>3, <2>2, QuotesUnchanged, EndStep DEF completeOrder
  <1>4. ASSUME NEW r \in RequestId, NEW op \in ReviewOps, NEW b \in BookingId,
               readReviewable(r, op, b)
        PROVE  TypeInv'
    <2> DEFINE s == [Idle EXCEPT !.op = op, !.b = b, !.seen = "COMPLETED"]
    <2>1. s \in Slot
      BY DEF Status, Idle, Slot, Resumption, Sum, WaitingOps
    <2>2. Carries(s)
      BY <1>4 DEF readReviewable, Idle, Carries, BookingExists, QuoteCarriers,
             SumCarriers, ReviewOps, BookingQuoteOps, QuoteFlowOps
    <2> HIDE DEF s
    <2>3. Wait(r, s) /\ UNCHANGED tables
      BY <1>4 DEF readReviewable, s
    <2> QED BY <2>1, <2>2, <2>3, Unchanged, WaitStep
  <1>5. ASSUME NEW r \in RequestId, NEW op \in ReviewOps, createReview(r, op)
        PROVE  TypeInv'
    <2>1. req[r].b \in BookingId
      BY <1>5 DEF createReview, Resumes, RequestsCarry, Carries, BookingCarriers
    <2>2. TablesTyped'
      BY <1>5, <2>1 DEF createReview, TypeOK, TablesTyped
    <2>3. Kept /\ QuotesSound'
      BY <1>5, QuotesUnchanged DEF createReview, BookingExists
    <2>4. CASE op = "submitReview"
      <3> DEFINE s == [req[r] EXCEPT !.at = "postCard"]
      <3>1. s \in Slot
        BY DEF TypeOK, Slot, Resumption
      <3>2. Carries(s)
        BY DEF TypeOK, Slot, RequestsCarry, Carries
      <3> HIDE DEF s
      <3>3. Wait(r, s)
        BY <1>5, <2>4 DEF createReview, s
      <3> QED BY <3>1, <3>2, <3>3, <2>2, <2>3, WaitStep
    <2>5. CASE op # "submitReview"
      BY <1>5, <2>2, <2>3, <2>5, EndStep DEF createReview
    <2> QED BY <2>4, <2>5
  <1>6. ASSUME NEW r \in RequestId, NEW op \in ReviewOps, createReviewRollsBack(r, op)
        PROVE  TypeInv'
    BY <1>6, Unchanged, EndStep DEF createReviewRollsBack
  <1>7. ASSUME NEW r \in RequestId, postReviewCard(r)
        PROVE  TypeInv'
    <2>1. TablesTyped'
      BY <1>7, PostTyped DEF postReviewCard, TypeOK, TablesTyped
    <2>2. Kept /\ QuotesSound'
      BY <1>7, QuotesUnchanged DEF postReviewCard, BookingExists
    <2> QED BY <1>7, <2>1, <2>2, EndStep DEF postReviewCard
  <1> QED BY <1>1, <1>2, <1>3, <1>4, <1>5, <1>6, <1>7 DEF FulfilmentNext

\* An existing quote is rewritten.
LEMMA QuoteWritten ==
    ASSUME TypeInv, NEW q \in QuoteId, QuoteExists(q),
           NEW row \in QuoteRow, row.status # "ABSENT", row.amount \in Amount,
           row.booking = quotes[q].booking,
           quotes' = [quotes EXCEPT ![q] = row],
           \A b \in BookingId : BookingExists(b) => BookingExists(b)'
    PROVE  quotes' \in [QuoteId -> QuoteRow] /\ Kept /\ QuotesSound'
  <1>1. quotes' \in [QuoteId -> QuoteRow]
    BY DEF TypeInv, TypeOK
  <1>2. Kept
    BY DEF TypeInv, TypeOK, Kept, QuoteExists
  <1>3. \A p \in QuoteId : quotes'[p].booking \in BookingId \cup {NULL}
    BY <1>1 DEF QuoteRow
  <1>4. ASSUME NEW p \in QuoteId
        PROVE  /\ QuoteExists(p)' => quotes'[p].amount \in Amount
               /\ quotes'[p].active => QuoteExists(p)'
               /\ quotes'[p].booking # NULL =>
                     QuoteExists(p)' /\ BookingExists(quotes[p].booking)'
    <2>1. CASE p = q
      BY <1>3, <2>1 DEF TypeInv, TypeOK, QuotesSound, QuoteExists
    <2>2. CASE p # q
      BY <1>3, <2>2 DEF TypeInv, TypeOK, QuotesSound, QuoteExists
    <2> QED BY <2>1, <2>2
  <1> QED BY <1>1, <1>2, <1>3, <1>4 DEF TypeInv, TypeOK, QuotesSound

\* The status changes of the handlers, with the flags they set.
LEMMA QuoteAnswered ==
    ASSUME TypeInv, NEW q \in QuoteId, QuoteExists(q), NEW status \in QuoteStatus,
           \/ quotes' = [quotes EXCEPT ![q].status = status]
           \/ quotes' = [quotes EXCEPT ![q].status = status, ![q].active = FALSE]
           \/ quotes' = [quotes EXCEPT ![q].status = status, ![q].locked = TRUE]
           \/ quotes' = [quotes EXCEPT ![q].status = status, ![q].active = FALSE,
                                       ![q].locked = TRUE],
           \A b \in BookingId : BookingExists(b) => BookingExists(b)'
    PROVE  quotes' \in [QuoteId -> QuoteRow] /\ Kept /\ QuotesSound'
  <1>1. quotes[q] \in QuoteRow /\ quotes[q].amount \in Amount
    BY DEF TypeInv, TypeOK, QuotesSound
  <1>2. status # "ABSENT"
    BY DEF QuoteStatus
  <1>3. ASSUME NEW row,
               \/ row = [quotes[q] EXCEPT !.status = status]
               \/ row = [quotes[q] EXCEPT !.status = status, !.active = FALSE]
               \/ row = [quotes[q] EXCEPT !.status = status, !.locked = TRUE]
               \/ row = [quotes[q] EXCEPT !.status = status, !.active = FALSE,
                                          !.locked = TRUE]
        PROVE  /\ row \in QuoteRow /\ row.status # "ABSENT" /\ row.amount \in Amount
               /\ row.booking = quotes[q].booking
    <2>1. row \in QuoteRow
      BY ZenonT(30), <1>1, <1>3 DEF QuoteRow
    <2>2. row.status = status /\ row.amount = quotes[q].amount
      BY <1>1, <1>3 DEF QuoteRow
    <2>3. row.booking = quotes[q].booking
      BY <1>1, <1>3 DEF QuoteRow
    <2> QED BY <1>1, <1>2, <2>1, <2>2, <2>3
  <1>4. PICK row : /\ quotes' = [quotes EXCEPT ![q] = row]
                   /\ \/ row = [quotes[q] EXCEPT !.status = status]
                      \/ row = [quotes[q] EXCEPT !.status = status, !.active = FALSE]
                      \/ row = [quotes[q] EXCEPT !.status = status, !.locked = TRUE]
                      \/ row = [quotes[q] EXCEPT !.status = status, !.active = FALSE,
                                                 !.locked = TRUE]
    BY DEF TypeInv, TypeOK
  <1> QED BY <1>3, <1>4, QuoteWritten

\* A new row of the quotes table.
LEMMA QuoteInserted ==
    ASSUME TypeInv, NEW q \in QuoteId, ~QuoteExists(q),
           NEW row \in QuoteRow, row.status # "ABSENT", row.amount \in Amount,
           row.booking # NULL => BookingExists(row.booking),
           quotes' = [quotes EXCEPT ![q] = row],
           UNCHANGED bookings
    PROVE  quotes' \in [QuoteId -> QuoteRow] /\ Kept /\ QuotesSound'
  BY DEF TypeInv, TypeOK, Kept, QuotesSound, QuoteExists, BookingExists

\* The steps of QuotesService keep the invariant.
LEMMA BookingQuotesTypes ==
    ASSUME TypeInv, BookingQuotesNext
    PROVE  TypeInv'
  <1> USE DEF TypeInv
  <1>1. ASSUME NEW q \in QuoteId, NEW b \in BookingId, NEW amount \in Amount,
               createBookingQuote(q, b, amount)
        PROVE  TypeInv'
    <2> DEFINE row == [status |-> "PENDING", amount |-> amount, booking |-> b,
                       parent |-> NULL, version |-> 1, active |-> TRUE,
                       locked |-> FALSE, lapsed |-> FALSE]
    <2>1. row \in QuoteRow
      BY DEF QuoteRow, QuoteStatus, Sum
    <2>2. row.status # "ABSENT" /\ row.amount \in Amount /\ row.booking = b
      OBVIOUS
    <2> HIDE DEF row
    <2>3. quotes' = [quotes EXCEPT ![q] = row]
      BY <1>1 DEF createBookingQuote, row
    <2>4. quotes' \in [QuoteId -> QuoteRow] /\ Kept /\ QuotesSound'
      BY <1>1, <2>1, <2>2, <2>3, QuoteInserted DEF createBookingQuote
    <2>5. TypeOK' /\ RequestsCarry'
      BY <1>1, <2>4 DEF createBookingQuote, TypeOK, RequestsCarry, Carries, Kept
    <2> QED BY <2>4, <2>5
  <1>2. ASSUME NEW r \in RequestId, NEW q \in QuoteId, readUnlocked(r, q)
        PROVE  TypeInv'
    <2> DEFINE s == [Idle EXCEPT !.op = "updateQuote", !.q = q]
    <2>1. s \in Slot
      BY DEF Idle, Slot, Resumption, Sum, WaitingOps, BookingQuoteOps
    <2>2. Carries(s)
      BY <1>2 DEF readUnlocked, Idle, Carries, BookingCarriers, SumCarriers, BookingOps,
             FulfilOps, ReviewOps
    <2> HIDE DEF s
    <2>3. Wait(r, s) /\ UNCHANGED tables
      BY <1>2 DEF readUnlocked, s
    <2> QED BY <2>1, <2>2, <2>3, Unchanged, WaitStep
  <1>3. ASSUME NEW r \in RequestId, NEW newTotal \in Sum, NEW extends \in BOOLEAN,
               updateQuote(r, newTotal, extends)
        PROVE  TypeInv'
    <2> DEFINE q == req[r].q
               still == quotes[q].lapsed /\ ~extends
               row == [quotes[q] EXCEPT
                          !.amount = IF newTotal = NULL THEN @ ELSE newTotal,
                          !.lapsed = still]
    <2>1. q \in QuoteId /\ QuoteExists(q)
      BY <1>3 DEF updateQuote, Resumes, RequestsCarry, Carries, QuoteCarriers,
             BookingQuoteOps
    <2>2. still \in BOOLEAN
      OBVIOUS
    <2>3. quotes[q] \in QuoteRow /\ quotes[q].amount \in Amount
      BY <2>1 DEF TypeOK, QuotesSound
    <2> HIDE DEF still
    <2>4. /\ row \in QuoteRow /\ row.amount \in Amount
          /\ row.status = quotes[q].status /\ row.booking = quotes[q].booking
      BY <2>2, <2>3 DEF QuoteRow, Sum
    <2>5. quotes' = [quotes EXCEPT ![q] = row]
      BY <1>3, <2>1 DEF updateQuote, still, TypeOK
    <2> HIDE DEF row, q
    <2>6. quotes' \in [QuoteId -> QuoteRow] /\ Kept /\ QuotesSound'
      BY <1>3, <2>1, <2>4, <2>5, QuoteWritten DEF updateQuote, BookingExists, QuoteExists
    <2>7. TablesTyped'
      BY <1>3, <2>6 DEF updateQuote, TypeOK, TablesTyped
    <2> QED BY <1>3, <2>6, <2>7, EndStep DEF updateQuote
  <1>4. ASSUME NEW r \in RequestId, NEW q \in QuoteId,
               NEW op \in {"acceptBookingQuote", "rejectBookingQuote"},
               readPending(r, op, q)
        PROVE  TypeInv'
    <2> DEFINE at == IF op = "rejectBookingQuote" THEN "commit"
                     ELSE IF quotes[q].lapsed THEN "expire" ELSE "readBooking"
               s == [Idle EXCEPT !.op = op, !.q = q, !.b = quotes[q].booking,
                                 !.amount = quotes[q].amount, !.at = at]
    <2>1. at \in Resumption
      BY DEF Resumption
    <2>2. quotes[q].booking \in BookingId /\ quotes[q].amount \in Sum
      BY <1>4 DEF readPending, TypeOK, QuoteRow
    <2>3. QuoteExists(q) /\ BookingExists(quotes[q].booking)
      BY <1>4 DEF readPending, QuotesSound
    <2>4. Wait(r, s) /\ UNCHANGED tables
      BY <1>4 DEF readPending
    <2> HIDE DEF at
    <2>5. s \in Slot
      BY <2>1, <2>2 DEF Idle, Slot, WaitingOps, BookingQuoteOps
    <2>6. Carries(s)
      BY <2>2, <2>3 DEF Idle, Carries, SumCarriers
    <2> HIDE DEF s
    <2> QED BY <2>4, <2>5, <2>6, Unchanged, WaitStep
  <1>5. ASSUME NEW r \in RequestId, rejectBookingQuote(r)
        PROVE  TypeInv'
    <2>1. req[r].q \in QuoteId /\ QuoteExists(req[r].q) /\ "REJECTED" \in QuoteStatus
      BY <1>5 DEF rejectBookingQuote, Resumes, RequestsCarry, Carries, QuoteCarriers,
             BookingQuoteOps, QuoteStatus
    <2>2. quotes' \in [QuoteId -> QuoteRow] /\ Kept /\ QuotesSound'
      BY <1>5, <2>1, QuoteAnswered DEF rejectBookingQuote, BookingExists
    <2>3. TablesTyped'
      BY <1>5, <2>2 DEF rejectBookingQuote, TypeOK, TablesTyped
    <2> QED BY <1>5, <2>2, <2>3, EndStep DEF rejectBookingQuote
  <1>6. ASSUME NEW r \in RequestId, expireBookingQuote(r)
        PROVE  TypeInv'
    <2>1. req[r].q \in QuoteId /\ QuoteExists(req[r].q) /\ "EXPIRED" \in QuoteStatus
      BY <1>6 DEF expireBookingQuote, Resumes, RequestsCarry, Carries, QuoteCarriers,
             BookingQuoteOps, QuoteStatus
    <2>2. quotes' \in [QuoteId -> QuoteRow] /\ Kept /\ QuotesSound'
      BY <1>6, <2>1, QuoteAnswered DEF expireBookingQuote, BookingExists
    <2>3. TablesTyped'
      BY <1>6, <2>2 DEF expireBookingQuote, TypeOK, TablesTyped
    <2> QED BY <1>6, <2>2, <2>3, EndStep DEF expireBookingQuote
  <1>7. ASSUME NEW r \in RequestId, readConfirmsBooking(r)
        PROVE  TypeInv'
    <2> DEFINE s == [req[r] EXCEPT !.at = "commit", !.seen = bookings[req[r].b].status]
    <2>1. req[r].b \in BookingId /\ BookingExists(req[r].b)
      BY <1>7 DEF readConfirmsBooking, Resumes, RequestsCarry, Carries, BookingCarriers
    <2>2. bookings[req[r].b].status \in Status
      BY <2>1 DEF TypeOK, BookingRow, BookingExists
    <2>3. s \in Slot
      BY <2>2 DEF TypeOK, Slot, Resumption
    <2>4. Carries(s)
      BY DEF TypeOK, Slot, RequestsCarry, Carries
    <2> HIDE DEF s
    <2>5. Wait(r, s) /\ UNCHANGED tables
      BY <1>7 DEF readConfirmsBooking, s
    <2> QED BY <2>3, <2>4, <2>5, Unchanged, WaitStep
  <1>8. ASSUME NEW r \in RequestId, acceptBookingQuote(r)
        PROVE  TypeInv'
    <2>1. /\ req[r].q \in QuoteId /\ QuoteExists(req[r].q)
          /\ req[r].b \in BookingId /\ BookingExists(req[r].b)
          /\ "ACCEPTED" \in QuoteStatus
      BY <1>8 DEF acceptBookingQuote, Resumes, RequestsCarry, Carries, QuoteCarriers,
             BookingCarriers, BookingQuoteOps, QuoteStatus
    <2>2. /\ bookings' \in [BookingId -> BookingRow]
          /\ \A c \in BookingId : BookingExists(c) => BookingExists(c)'
      BY <1>8, <2>1 DEF acceptBookingQuote, TypeOK, BookingRow, BookingExists, Status, Slot
    <2>3. history' \in [BookingId -> Seq(HistoryRow)]
      <3>1. [from |-> "PENDING", to |-> "CONFIRMED"] \in HistoryRow
        BY DEF HistoryRow, Status
      <3>2. CASE req[r].seen = "PENDING"
        BY <1>8, <3>1, <3>2, AppendTyped DEF acceptBookingQuote, TypeOK
      <3>3. CASE req[r].seen # "PENDING"
        BY <1>8, <3>3 DEF acceptBookingQuote, TypeOK
      <3> QED BY <3>2, <3>3
    <2>4. quotes' \in [QuoteId -> QuoteRow] /\ Kept /\ QuotesSound'
      BY <1>8, <2>1, <2>2, QuoteAnswered DEF acceptBookingQuote
    <2>5. TablesTyped'
      BY <1>8, <2>2, <2>3, <2>4 DEF acceptBookingQuote, TypeOK, TablesTyped
    <2> QED BY <1>8, <2>4, <2>5, EndStep DEF acceptBookingQuote
  <1> QED BY <1>1, <1>2, <1>3, <1>4, <1>5, <1>6, <1>7, <1>8 DEF BookingQuotesNext

\* The steps of QuoteFlowService keep the invariant.
LEMMA QuoteFlowTypes ==
    ASSUME TypeInv, QuoteFlowNext
    PROVE  TypeInv'
  <1> USE DEF TypeInv
  <1>1. ASSUME NEW r \in RequestId, NEW amount \in Amount, openDirect(r, amount)
        PROVE  TypeInv'
    <2> DEFINE s == [Idle EXCEPT !.op = "sendQuote", !.amount = amount]
    <2>1. s \in Slot
      BY DEF Idle, Slot, Resumption, Sum, WaitingOps, QuoteFlowOps
    <2>2. Carries(s)
      BY DEF Idle, Carries, BookingCarriers, QuoteCarriers, BookingOps, FulfilOps,
             ReviewOps, BookingQuoteOps
    <2> HIDE DEF s
    <2>3. Wait(r, s) /\ TablesTyped'
      BY <1>1 DEF openDirect, s, TablesTyped, TypeOK
    <2>4. Kept /\ QuotesSound'
      BY <1>1, QuotesUnchanged DEF openDirect, BookingExists
    <2> QED BY <2>1, <2>2, <2>3, <2>4, WaitStep
  <1>2. ASSUME NEW r \in RequestId, NEW q \in QuoteId, sendQuote(r, q)
        PROVE  TypeInv'
    <2> DEFINE row == [status |-> "PENDING", amount |-> req[r].amount, booking |-> NULL,
                       parent |-> NULL, version |-> 1, active |-> TRUE,
                       locked |-> FALSE, lapsed |-> FALSE]
    <2>1. req[r].amount \in Amount
      BY <1>2 DEF sendQuote, Resumes, RequestsCarry, Carries, SumCarriers
    <2>2. row \in QuoteRow
      BY <2>1 DEF QuoteRow, QuoteStatus, Sum
    <2>3. row.status # "ABSENT" /\ row.amount \in Amount /\ row.booking = NULL
      BY <2>1
    <2>4. quotes' = [quotes EXCEPT ![q] = row]
      BY <1>2 DEF sendQuote, insertVersion
    <2> HIDE DEF row
    <2>5. quotes' \in [QuoteId -> QuoteRow] /\ Kept /\ QuotesSound'
      BY <1>2, <2>2, <2>3, <2>4, QuoteInserted DEF sendQuote
    <2>6. TablesTyped'
      BY <1>2, <2>5, PostTyped DEF sendQuote, TypeOK, TablesTyped
    <2> QED BY <1>2, <2>5, <2>6, EndStep DEF sendQuote
  <1>3. ASSUME NEW r \in RequestId, NEW q \in QuoteId, NEW amount \in Amount,
               readActive(r, q, amount)
        PROVE  TypeInv'
    <2> DEFINE s == [Idle EXCEPT !.op = "reviseQuote", !.q = q, !.amount = amount,
                                 !.lapsed = quotes[q].lapsed]
    <2>1. quotes[q].lapsed \in BOOLEAN /\ QuoteExists(q)
      BY <1>3 DEF readActive, QuotesSound, TypeOK, QuoteRow
    <2>2. s \in Slot
      BY <2>1 DEF Idle, Slot, Resumption, Sum, WaitingOps, QuoteFlowOps
    <2>3. Carries(s)
      BY <2>1 DEF Idle, Carries, BookingCarriers, BookingOps, FulfilOps, ReviewOps
    <2> HIDE DEF s
    <2>4. Wait(r, s) /\ UNCHANGED tables
      BY <1>3 DEF readActive, s
    <2> QED BY <2>2, <2>3, <2>4, Unchanged, WaitStep
  <1>4. ASSUME NEW r \in RequestId, NEW next \in QuoteId, NEW extends \in BOOLEAN,
               reviseQuote(r, next, extends)
        PROVE  TypeInv'
    <2> DEFINE q == req[r].q
               still == req[r].lapsed /\ ~extends
               old == [quotes[q] EXCEPT !.status = "SUPERSEDED", !.active = FALSE]
               row == [status |-> "PENDING", amount |-> req[r].amount, booking |-> NULL,
                       parent |-> q, version |-> quotes[q].version + 1, active |-> TRUE,
                       locked |-> FALSE, lapsed |-> still]
    <2>1. /\ q \in QuoteId /\ QuoteExists(q) /\ req[r].amount \in Amount
          /\ ~QuoteExists(next)
      BY <1>4 DEF reviseQuote, Resumes, RequestsCarry, Carries, QuoteCarriers,
             SumCarriers, QuoteFlowOps
    <2>2. still \in BOOLEAN
      OBVIOUS
    <2>3. quotes' = [[quotes EXCEPT ![q] = old] EXCEPT ![next] = row]
      BY <1>4, <2>1 DEF reviseQuote, insertVersion, supersede, TypeOK
    <2>4. quotes[q] \in QuoteRow /\ quotes[q].amount \in Amount
      BY <2>1 DEF TypeOK, QuotesSound
    <2> HIDE DEF still, q
    <2>5. /\ old \in QuoteRow /\ old.status # "ABSENT" /\ old.amount \in Amount
          /\ old.booking = quotes[q].booking
      BY <2>4 DEF QuoteRow, QuoteStatus
    <2>6. row \in QuoteRow
      BY <2>1, <2>2, <2>4 DEF QuoteRow, QuoteStatus, Sum
    <2>7. row.status # "ABSENT" /\ row.amount \in Amount /\ row.booking = NULL
      BY <2>1
    <2> HIDE DEF old, row
    <2>8. quotes' \in [QuoteId -> QuoteRow] /\ UNCHANGED bookings
      BY <1>4, <2>3, <2>5, <2>6 DEF reviseQuote, TypeOK
    <2>9. Kept /\ QuotesSound'
      BY <2>1, <2>3, <2>5, <2>7, <2>8
      DEF TypeOK, Kept, QuotesSound, QuoteExists, BookingExists
    <2>10. TablesTyped'
      BY <1>4, <2>8, PostTyped DEF reviseQuote, TypeOK, TablesTyped
    <2> QED BY <1>4, <2>9, <2>10, EndStep DEF reviseQuote
  <1>5. ASSUME NEW r \in RequestId, NEW q \in QuoteId,
               NEW op \in {"acceptQuote", "declineQuote"}, readOpen(r, op, q)
        PROVE  TypeInv'
    <2> DEFINE at == IF op = "acceptQuote" /\ quotes[q].lapsed THEN "expire" ELSE "commit"
               s == [Idle EXCEPT !.op = op, !.q = q, !.amount = quotes[q].amount,
                                 !.at = at]
    <2>1. at \in Resumption
      BY DEF Resumption
    <2>2. QuoteExists(q) /\ quotes[q].amount \in Amount
      BY <1>5 DEF readOpen, QuoteExists, QuotesSound
    <2>3. Wait(r, s) /\ UNCHANGED tables
      BY <1>5 DEF readOpen
    <2> HIDE DEF at
    <2>4. s \in Slot
      BY <2>1, <2>2 DEF Idle, Slot, Sum, WaitingOps, QuoteFlowOps
    <2>5. Carries(s)
      BY <2>2 DEF Idle, Carries, BookingCarriers, BookingOps, FulfilOps, ReviewOps
    <2> HIDE DEF s
    <2> QED BY <2>3, <2>4, <2>5, Unchanged, WaitStep
  <1>6. ASSUME NEW r \in RequestId, expireQuote(r)
        PROVE  TypeInv'
    <2>1. req[r].q \in QuoteId /\ QuoteExists(req[r].q) /\ "EXPIRED" \in QuoteStatus
      BY <1>6 DEF expireQuote, Resumes, RequestsCarry, Carries, QuoteCarriers,
             QuoteFlowOps, QuoteStatus
    <2>2. quotes' \in [QuoteId -> QuoteRow] /\ Kept /\ QuotesSound'
      BY <1>6, <2>1, QuoteAnswered DEF expireQuote, BookingExists
    <2>3. TablesTyped'
      BY <1>6, <2>2 DEF expireQuote, TypeOK, TablesTyped
    <2> QED BY <1>6, <2>2, <2>3, EndStep DEF expireQuote
  <1>7. ASSUME NEW r \in RequestId, NEW b \in BookingId, acceptQuote(r, b)
        PROVE  TypeInv'
    <2>1. /\ req[r].q \in QuoteId /\ QuoteExists(req[r].q) /\ req[r].amount \in Amount
          /\ "ACCEPTED" \in QuoteStatus
      BY <1>7 DEF acceptQuote, Resumes, RequestsCarry, Carries, QuoteCarriers,
             SumCarriers, QuoteFlowOps, QuoteStatus
    <2>2. /\ bookings' \in [BookingId -> BookingRow]
          /\ \A c \in BookingId : BookingExists(c) => BookingExists(c)'
      BY <1>7, <2>1
      DEF acceptQuote, createFromQuote, TypeOK, BookingRow, BookingExists, Status, Sum
    <2>3. invoices' \in [BookingId -> InvoiceRow \cup {NULL}]
      BY <1>7, <2>1 DEF acceptQuote, createFromQuote, TypeOK, InvoiceRow
    <2>4. quotes' \in [QuoteId -> QuoteRow] /\ Kept /\ QuotesSound'
      BY <1>7, <2>1, <2>2, QuoteAnswered DEF acceptQuote
    <2>5. TablesTyped'
      BY <1>7, <2>2, <2>3, <2>4, PostTyped DEF acceptQuote, TypeOK, TablesTyped
    <2> QED BY <1>7, <2>4, <2>5, EndStep DEF acceptQuote
  <1>8. ASSUME NEW r \in RequestId, acceptQuoteRollsBack(r)
        PROVE  TypeInv'
    BY <1>8, Unchanged, EndStep DEF acceptQuoteRollsBack
  <1>9. ASSUME NEW r \in RequestId, declineQuote(r)
        PROVE  TypeInv'
    <2>1. req[r].q \in QuoteId /\ QuoteExists(req[r].q) /\ "REJECTED" \in QuoteStatus
      BY <1>9 DEF declineQuote, Resumes, RequestsCarry, Carries, QuoteCarriers,
             QuoteFlowOps, QuoteStatus
    <2>2. quotes' \in [QuoteId -> QuoteRow] /\ Kept /\ QuotesSound'
      BY <1>9, <2>1, QuoteAnswered DEF declineQuote, BookingExists
    <2>3. TablesTyped'
      BY <1>9, <2>2, PostTyped DEF declineQuote, TypeOK, TablesTyped
    <2> QED BY <1>9, <2>2, <2>3, EndStep DEF declineQuote
  <1> QED BY <1>1, <1>2, <1>3, <1>4, <1>5, <1>6, <1>7, <1>8, <1>9 DEF QuoteFlowNext

\* The passing of a quote's validUntil keeps the invariant.
LEMMA LapseTypes ==
    ASSUME TypeInv, NEW q \in QuoteId, Lapse(q)
    PROVE  TypeInv'
  <1> USE DEF TypeInv
  <1>1. quotes' \in [QuoteId -> QuoteRow]
    <2>1. quotes[q] \in QuoteRow
      BY DEF TypeOK
    <2>2. [quotes[q] EXCEPT !.lapsed = TRUE] \in QuoteRow
      BY <2>1 DEF QuoteRow
    <2>3. quotes' = [quotes EXCEPT ![q] = [quotes[q] EXCEPT !.lapsed = TRUE]]
      BY DEF Lapse, TypeOK
    <2> QED BY <2>2, <2>3 DEF TypeOK
  <1>2. Kept /\ QuotesSound'
    BY DEF Lapse, TypeOK, Kept, QuotesSound, QuoteExists, BookingExists, QuoteRow
  <1>3. TypeOK' /\ RequestsCarry'
    BY <1>1, <1>2 DEF Lapse, TypeOK, RequestsCarry, Carries, Kept
  <1> QED BY <1>2, <1>3

-----------------------------------------------------------------------------
\* The empty database satisfies the invariant.
LEMMA InitTypes == Init => TypeInv
  <1> SUFFICES ASSUME Init PROVE TypeInv
    OBVIOUS
  <1> USE DEF Init, TablesInit
  <1>1. TablesTyped
    <2>1. bookings \in [BookingId -> BookingRow]
      BY DEF BookingRow, Sum
    <2>2. history \in [BookingId -> Seq(HistoryRow)]
      <3>1. <<>> \in Seq(HistoryRow)
        OBVIOUS
      <3> QED BY <3>1
    <2>3. quotes \in [QuoteId -> QuoteRow]
      BY DEF QuoteRow, Sum
    <2> QED BY <2>1, <2>2, <2>3 DEF TablesTyped
  <1>2. req \in [RequestId -> Slot]
    BY DEF Idle, Slot, Resumption, Sum
  <1>3. QuotesSound
    BY DEF QuotesSound, QuoteExists
  <1>4. RequestsCarry
    BY DEF RequestsCarry, Carries, Idle, BookingCarriers, QuoteCarriers, SumCarriers,
           BookingOps, FulfilOps, ReviewOps, BookingQuoteOps, QuoteFlowOps
  <1> QED BY <1>1, <1>2, <1>3, <1>4 DEF TypeInv, TypeOK, TablesTyped

\* Every step, of whichever service, keeps the invariant.
LEMMA NextTypes == TypeInv /\ [Next]_vars => TypeInv'
  <1> SUFFICES ASSUME TypeInv, [Next]_vars PROVE TypeInv'
    OBVIOUS
  <1>1. CASE BookingsNext
    BY <1>1, BookingsTypes
  <1>2. CASE OrderRequestsNext
    BY <1>2, OrderRequestsTypes
  <1>3. CASE FulfilmentNext
    BY <1>3, FulfilmentTypes
  <1>4. CASE BookingQuotesNext
    BY <1>4, BookingQuotesTypes
  <1>5. CASE QuoteFlowNext
    BY <1>5, QuoteFlowTypes
  <1>6. ASSUME NEW q \in QuoteId, Lapse(q) PROVE TypeInv'
    BY <1>6, LapseTypes
  <1>7. ASSUME NEW r \in RequestId, Fail(r) PROVE TypeInv'
    BY <1>7, Unchanged, EndStep DEF Fail
  <1>8. CASE UNCHANGED vars
    <2>1. UNCHANGED tables /\ UNCHANGED req
      BY <1>8 DEF vars, tables
    <2>2. TablesTyped' /\ Kept /\ QuotesSound'
      BY <2>1, Unchanged
    <2>3. TypeOK'
      BY <2>1, <2>2 DEF TypeInv, TypeOK, TablesTyped
    <2>4. ASSUME NEW t \in RequestId PROVE Carries(req[t])'
      BY <2>1, <2>2 DEF TypeInv, TypeOK, RequestsCarry, Carries, Kept
    <2> QED BY <2>2, <2>3, <2>4 DEF TypeInv, RequestsCarry
  <1> QED BY <1>1, <1>2, <1>3, <1>4, <1>5, <1>6, <1>7, <1>8 DEF Next

\* The inductive strengthening of TypeOK holds: what a commit writes
\* through its request's ids reaches rows that exist.
THEOREM TypeInvariance == Spec => []TypeInv
  BY InitTypes, NextTypes, PTL DEF Spec

\* Every table keeps its type, however many requests overlap.
THEOREM TypeCorrect == Spec => []TypeOK
  BY TypeInvariance, PTL DEF TypeInv

-----------------------------------------------------------------------------
(***************************************************************************)
(* The safety of Orders, for any number of overlapping requests.  Commits  *)
(* do not re-test the row they write, so the invariant says what a read    *)
(* leaves true in spite of the commits that overtake it: the status a      *)
(* request carries was one its route accepts, and what the history held    *)
(* then it still holds.  From it every step is shown to have one shape     *)
(* (StepShape), and each property follows from the shape alone.            *)
(***************************************************************************)

Completed(b) == "COMPLETED" \in HistoryStatuses(b)

\* What the read of request slot s established for its commit.
ReadSoundly(s) ==
    /\ s.op \in BookingOps => s.seen \in AcceptedFrom(s.op)
    /\ s.op \in {"acceptOrder", "declineOrder"} => s.seen = "PENDING"
    /\ s.op \in {"markDelivered", "confirmReturn"} => s.seen = "CONFIRMED"
    /\ s.op \in ReviewOps => Completed(s.b)

RequestsSound == \A r \in RequestId : ReadSoundly(req[r])

SafetyInv ==
    /\ RequestsSound
    /\ InvoicedNeverPending
    /\ RecordedEdgesLegal
    /\ HistoryEndsAtStatus
    /\ InvoiceAnnouncedOnce
    /\ ReviewAfterCompletion

-----------------------------------------------------------------------------
(* The shape of a step, one booking and one request at a time.             *)

Moves == {[from |-> "PENDING", to |-> "CONFIRMED"],
          [from |-> "PENDING", to |-> "CANCELLED"],
          [from |-> "CONFIRMED", to |-> "CANCELLED"],
          [from |-> "CONFIRMED", to |-> "COMPLETED"]}

Stays(b) == /\ bookings'[b].status = bookings[b].status
            /\ history'[b] = history[b]

Appears(b) ==
    /\ ~BookingExists(b)
    /\ \/ /\ bookings'[b].status \in {"PENDING", "CONFIRMED"}
          /\ history'[b] = history[b]
       \/ /\ bookings'[b].status = "PENDING"
          /\ history'[b] = Append(history[b], [from |-> NULL, to |-> "PENDING"])

\* A recorded move ends a request that had read its start.
Moved(b, move) ==
    /\ BookingExists(b)
    /\ bookings'[b].status = move.to
    /\ history'[b] = Append(history[b], move)
    /\ \E r \in RequestId : /\ req[r].b = b
                            /\ req[r].seen = move.from
                            /\ req'[r] = Idle

\* No step changes two bookings.
BookingShape ==
    /\ \A b \in BookingId :
          Stays(b) \/ Appears(b) \/ (\E move \in Moves : Moved(b, move))
    /\ \A b \in BookingId, c \in BookingId : b = c \/ Stays(b) \/ Stays(c)

InvoiceShape == \A b \in BookingId :
    \/ /\ invoices'[b] = invoices[b]
       /\ cards'[<<"INVOICE", b>>] = cards[<<"INVOICE", b>>]
    \/ /\ ~Invoiced(b)
       /\ Invoiced(b)'
       /\ bookings'[b].status = "CONFIRMED"
       /\ cards'[<<"INVOICE", b>>] = cards[<<"INVOICE", b>>] + 1

RequestShape == \A r \in RequestId : req'[r] = req[r] \/ ReadSoundly(req'[r])

ReviewShape == \A b \in reviews' : b \in reviews \/ Completed(b)

StepShape == BookingShape /\ InvoiceShape /\ RequestShape /\ ReviewShape

-----------------------------------------------------------------------------
\* Posting the cards cs adds one to a booking's INVOICE card exactly when
\* cs holds it.
LEMMA PostShape ==
    ASSUME TypeInv, NEW cs, post(cs), NEW b \in BookingId
    PROVE  cards'[<<"INVOICE", b>>] = IF <<"INVOICE", b>> \in cs
                                      THEN cards[<<"INVOICE", b>>] + 1
                                      ELSE cards[<<"INVOICE", b>>]
  <1>1. <<"INVOICE", b>> \in Card
    BY DEF Card, BookingCards
  <1> QED BY <1>1 DEF post

\* A returning handler carries nothing that could be unsound.
LEMMA ReturnShape ==
    ASSUME TypeInv, NEW r, Return(r)
    PROVE  RequestShape
  BY DEF TypeInv, TypeOK, Return, RequestShape, ReadSoundly, Idle, BookingOps, ReviewOps

\* A handler that awaits with a sound read leaves the other slots alone.
LEMMA WaitShape ==
    ASSUME TypeInv, NEW r, NEW s, Wait(r, s), ReadSoundly(s)
    PROVE  RequestShape
  <1> HIDE DEF ReadSoundly
  <1> QED BY DEF TypeInv, TypeOK, Wait, RequestShape

\* A recorded status change of the booking a request carries moves that
\* booking and no other.
LEMMA TransitionShape ==
    ASSUME TypeInv, NEW r \in RequestId, req[r].b \in BookingId, NEW move \in Moves,
           BookingExists(req[r].b), req[r].seen = move.from, Return(r),
           transition(req[r].b, move.from, move.to)
    PROVE  BookingShape
  <1> DEFINE b == req[r].b
  <1>1. Moved(b, move)
    BY DEF TypeInv, TypeOK, BookingRow, Moved, transition, Return, Moves
  <1>2. ASSUME NEW c \in BookingId, c # b PROVE Stays(c)
    BY <1>2 DEF TypeInv, TypeOK, BookingRow, Stays, transition
  <1> QED BY <1>1, <1>2 DEF BookingShape

\* A step that writes neither bookings nor invoices nor cards is quiet.
LEMMA QuietShape ==
    ASSUME TypeInv, UNCHANGED <<bookings, history, invoices, cards>>
    PROVE  BookingShape /\ InvoiceShape
  BY DEF BookingShape, Stays, InvoiceShape

\* A step that writes no table is quiet.
LEMMA TablesShape ==
    ASSUME TypeInv, UNCHANGED tables
    PROVE  BookingShape /\ InvoiceShape /\ ReviewShape
  BY DEF tables, BookingShape, Stays, InvoiceShape, ReviewShape

-----------------------------------------------------------------------------
\* The history is append-only: a recorded completion stays recorded.
LEMMA CompletedKept ==
    ASSUME TypeInv, BookingShape, NEW b \in BookingId, Completed(b)
    PROVE  Completed(b)'
  <1>1. CASE history'[b] = history[b]
    BY <1>1 DEF Completed, HistoryStatuses
  <1>2. ASSUME NEW row \in HistoryRow, history'[b] = Append(history[b], row)
        PROVE  Completed(b)'
    <2>1. history[b] \in Seq(HistoryRow)
      BY DEF TypeInv, TypeOK
    <2>2. PICK i \in DOMAIN history[b] : history[b][i].to = "COMPLETED"
      BY DEF Completed, HistoryStatuses
    <2>3. i \in DOMAIN history'[b] /\ history'[b][i] = history[b][i]
      BY <1>2, <2>1, <2>2, AppendProperties
    <2> QED BY <2>2, <2>3 DEF Completed, HistoryStatuses
  <1>3. [from |-> NULL, to |-> "PENDING"] \in HistoryRow /\ Moves \subseteq HistoryRow
    BY DEF HistoryRow, Status, Moves
  <1> QED BY <1>1, <1>2, <1>3 DEF BookingShape, Stays, Appears, Moved

\* The steps of BookingsService have the shape.
LEMMA BookingsShape ==
    ASSUME TypeInv, SafetyInv, BookingsNext
    PROVE  StepShape
  <1>1. ASSUME NEW b \in BookingId, NEW amount \in Sum, create(b, amount)
        PROVE  StepShape
    <2>1. Appears(b) /\ \A c \in BookingId \ {b} : Stays(c)
      BY <1>1 DEF TypeInv, TypeOK, create, Appears, Stays
    <2> QED BY <1>1, <2>1
            DEF create, StepShape, BookingShape, InvoiceShape, RequestShape, ReviewShape
  <1>2. ASSUME NEW r \in RequestId, NEW op \in BookingOps, NEW b \in BookingId,
               readStatus(r, op, b)
        PROVE  StepShape
    <2> DEFINE s == [Idle EXCEPT !.op = op, !.b = b, !.seen = bookings[b].status]
    <2>1. ReadSoundly(s)
      BY <1>2 DEF readStatus, Idle, ReadSoundly, BookingOps, ReviewOps
    <2> HIDE DEF s
    <2>2. Wait(r, s) /\ UNCHANGED tables
      BY <1>2 DEF readStatus, s
    <2> QED BY <2>1, <2>2, WaitShape, TablesShape DEF StepShape
  <1>3. ASSUME NEW r \in RequestId, NEW op \in BookingOps, changeStatus(r, op)
        PROVE  StepShape
    <2>1. req[r].b \in BookingId /\ BookingExists(req[r].b)
      BY <1>3 DEF changeStatus, Resumes, TypeInv, RequestsCarry, Carries, BookingCarriers
    <2>2. req[r].seen \in AcceptedFrom(op)
      BY <1>3 DEF changeStatus, Resumes, SafetyInv, RequestsSound, ReadSoundly
    <2>3. PICK move \in Moves : move.from = req[r].seen /\ move.to = Target(op)
      BY <2>2 DEF AcceptedFrom, Target, Moves, BookingOps
    <2>4. BookingShape /\ RequestShape
      BY <1>3, <2>1, <2>3, TransitionShape, ReturnShape DEF changeStatus
    <2> QED BY <1>3, <2>4 DEF changeStatus, StepShape, InvoiceShape, ReviewShape
  <1> QED BY <1>1, <1>2, <1>3 DEF BookingsNext

\* The steps of OrderRequestService have the shape.
LEMMA OrderRequestsShape ==
    ASSUME TypeInv, SafetyInv, OrderRequestsNext
    PROVE  StepShape
  <1>1. ASSUME NEW r \in RequestId, NEW amount \in Amount, openConversation(r, amount)
        PROVE  StepShape
    <2> DEFINE s == [Idle EXCEPT !.op = "createOrder", !.amount = amount]
    <2>1. ReadSoundly(s)
      BY DEF Idle, ReadSoundly, BookingOps, ReviewOps
    <2> HIDE DEF s
    <2>2. RequestShape
      BY <1>1, <2>1, WaitShape DEF openConversation, s
    <2> QED BY <1>1, <2>2, QuietShape DEF openConversation, StepShape, ReviewShape
  <1>2. ASSUME NEW r \in RequestId, NEW b \in BookingId, createOrderRequest(r, b)
        PROVE  StepShape
    <2>1. Appears(b) /\ \A c \in BookingId \ {b} : Stays(c)
      BY <1>2 DEF TypeInv, TypeOK, createOrderRequest, Appears, Stays
    <2>2. InvoiceShape
      BY <1>2, PostShape DEF createOrderRequest, InvoiceShape
    <2> QED BY <1>2, <2>1, <2>2, ReturnShape
            DEF createOrderRequest, StepShape, BookingShape, ReviewShape
  <1>3. ASSUME NEW r \in RequestId, NEW op \in {"acceptOrder", "declineOrder"},
               NEW b \in BookingId, readOrder(r, op, b)
        PROVE  StepShape
    <2> DEFINE s == [Idle EXCEPT !.op = op, !.at = "findConversation", !.b = b,
                         !.seen = "PENDING", !.amount = bookings[b].quoteAmount]
    <2>1. ReadSoundly(s)
      BY DEF Idle, ReadSoundly, BookingOps, ReviewOps
    <2> HIDE DEF s
    <2>2. Wait(r, s) /\ UNCHANGED tables
      BY <1>3 DEF readOrder, s
    <2> QED BY <2>1, <2>2, WaitShape, TablesShape DEF StepShape
  <1>4. ASSUME NEW r \in RequestId, NEW op \in {"acceptOrder", "declineOrder"},
               findConversation(r, op)
        PROVE  StepShape
    <2> DEFINE s == [req[r] EXCEPT !.at = "commit", !.conv = dm]
    <2>1. ReadSoundly(s)
      BY DEF TypeInv, TypeOK, Slot, SafetyInv, RequestsSound, ReadSoundly
    <2> HIDE DEF s
    <2>2. (Return(r) \/ Wait(r, s)) /\ UNCHANGED tables
      BY <1>4 DEF findConversation, s
    <2> QED BY <2>1, <2>2, WaitShape, ReturnShape, TablesShape DEF StepShape
  <1>5. ASSUME NEW r \in RequestId, declineOrder(r)
        PROVE  StepShape
    <2>1. /\ req[r].b \in BookingId /\ BookingExists(req[r].b)
          /\ req[r].seen = "PENDING"
      BY <1>5 DEF declineOrder, Resumes, TypeInv, RequestsCarry, Carries,
             BookingCarriers, SafetyInv, RequestsSound, ReadSoundly
    <2>2. PICK move \in Moves : move.from = "PENDING" /\ move.to = "CANCELLED"
      BY DEF Moves
    <2>3. BookingShape /\ RequestShape
      BY <1>5, <2>1, <2>2, TransitionShape, ReturnShape DEF declineOrder
    <2>4. InvoiceShape
      BY <1>5, PostShape DEF declineOrder, InvoiceShape
    <2> QED BY <1>5, <2>3, <2>4 DEF declineOrder, StepShape, ReviewShape
  <1>6. ASSUME NEW r \in RequestId, acceptOrder(r)
        PROVE  StepShape
    <2>1. /\ req[r].b \in BookingId /\ BookingExists(req[r].b)
          /\ req[r].seen = "PENDING"
      BY <1>6 DEF acceptOrder, Resumes, TypeInv, RequestsCarry, Carries,
             BookingCarriers, SafetyInv, RequestsSound, ReadSoundly
    <2>2. PICK move \in Moves : move.from = "PENDING" /\ move.to = "CONFIRMED"
      BY DEF Moves
    <2>3. BookingShape /\ RequestShape
      BY <1>6, <2>1, <2>2, TransitionShape, ReturnShape DEF acceptOrder
    <2>4. ASSUME NEW c \in BookingId
          PROVE  \/ /\ invoices'[c] = invoices[c]
                    /\ cards'[<<"INVOICE", c>>] = cards[<<"INVOICE", c>>]
                 \/ /\ ~Invoiced(c) /\ Invoiced(c)'
                    /\ bookings'[c].status = "CONFIRMED"
                    /\ cards'[<<"INVOICE", c>>] = cards[<<"INVOICE", c>>] + 1
      <3>1. CASE c = req[r].b
        <4>1. invoices'[c] # NULL
          BY <1>6, <3>1, ConstantsAssumption
          DEF acceptOrder, createDirectInvoice, TypeInv, TypeOK, InvoiceRow, Slot, Sum
        <4>2. bookings'[c].status = "CONFIRMED"
          BY <1>6, <3>1 DEF acceptOrder, transition, TypeInv, TypeOK, BookingRow
        <4> QED BY <1>6, <3>1, <4>1, <4>2, PostShape DEF acceptOrder, Invoiced
      <3>2. CASE c # req[r].b
        BY <1>6, <3>2, PostShape
        DEF acceptOrder, createDirectInvoice, TypeInv, TypeOK
      <3> QED BY <3>1, <3>2
    <2> QED BY <1>6, <2>3, <2>4 DEF acceptOrder, StepShape, ReviewShape, InvoiceShape
  <1>7. ASSUME NEW r \in RequestId, acceptOrderRollsBack(r)
        PROVE  StepShape
    BY <1>7, ReturnShape, TablesShape DEF acceptOrderRollsBack, StepShape
  <1> QED BY <1>1, <1>2, <1>3, <1>4, <1>5, <1>6, <1>7 DEF OrderRequestsNext

\* The steps of FulfilmentService and ReviewsService.create have the shape;
\* that completing starts at CONFIRMED rests on InvoicedNeverPending.
LEMMA FulfilmentShape ==
    ASSUME TypeInv, SafetyInv, FulfilmentNext
    PROVE  StepShape
  <1>1. ASSUME NEW r \in RequestId, NEW op \in FulfilOps, NEW b \in BookingId,
               loadBooking(r, op, b)
        PROVE  StepShape
    <2> DEFINE s == [Idle EXCEPT !.op = op, !.b = b, !.seen = bookings[b].status]
    <2>1. op # "postUpdate" => bookings[b].status = "CONFIRMED"
      BY <1>1 DEF loadBooking, SafetyInv, InvoicedNeverPending
    <2>2. ReadSoundly(s)
      BY <2>1 DEF Idle, ReadSoundly, BookingOps, FulfilOps, ReviewOps
    <2> HIDE DEF s
    <2>3. Wait(r, s) /\ UNCHANGED tables
      BY <1>1 DEF loadBooking, s
    <2> QED BY <2>2, <2>3, WaitShape, TablesShape DEF StepShape
  <1>2. ASSUME NEW r \in RequestId, postUpdate(r)
        PROVE  StepShape
    <2>1. BookingShape /\ InvoiceShape
      BY <1>2, PostShape DEF postUpdate, BookingShape, Stays, InvoiceShape
    <2> QED BY <1>2, <2>1, ReturnShape DEF postUpdate, StepShape, ReviewShape
  <1>3. ASSUME NEW r \in RequestId, NEW op \in {"markDelivered", "confirmReturn"},
               completeOrder(r, op)
        PROVE  StepShape
    <2>1. /\ req[r].b \in BookingId /\ BookingExists(req[r].b)
          /\ req[r].seen = "CONFIRMED"
      BY <1>3 DEF completeOrder, Resumes, TypeInv, RequestsCarry, Carries,
             BookingCarriers, FulfilOps, SafetyInv, RequestsSound, ReadSoundly
    <2>2. PICK move \in Moves : move.from = "CONFIRMED" /\ move.to = "COMPLETED"
      BY DEF Moves
    <2>3. BookingShape /\ RequestShape
      BY <1>3, <2>1, <2>2, TransitionShape, ReturnShape DEF completeOrder
    <2>4. InvoiceShape
      <3>1. ASSUME NEW c \in BookingId
            PROVE  cards'[<<"INVOICE", c>>] = cards[<<"INVOICE", c>>]
        <4> DEFINE cs == {<<"TIMELINE_UPDATE", req[r].b>>, <<"REVIEW_REQUESTED", req[r].b>>}
        <4>1. post(cs) /\ <<"INVOICE", c>> \notin cs
          BY <1>3 DEF completeOrder
        <4> QED BY <4>1, PostShape
      <3> QED BY <1>3, <3>1 DEF completeOrder, InvoiceShape
    <2> QED BY <1>3, <2>3, <2>4 DEF completeOrder, StepShape, ReviewShape
  <1>4. ASSUME NEW r \in RequestId, NEW op \in ReviewOps, NEW b \in BookingId,
               readReviewable(r, op, b)
        PROVE  StepShape
    <2> DEFINE s == [Idle EXCEPT !.op = op, !.b = b, !.seen = "COMPLETED"]
    <2>1. Completed(b)
      <3>1. history[b] # <<>> /\ history[b][Len(history[b])].to = "COMPLETED"
        BY <1>4 DEF readReviewable, SafetyInv, HistoryEndsAtStatus
      <3>2. Len(history[b]) \in DOMAIN history[b]
        BY <3>1 DEF TypeInv, TypeOK
      <3> QED BY <3>1, <3>2 DEF Completed, HistoryStatuses
    <2>2. ReadSoundly(s)
      BY <2>1 DEF Idle, ReadSoundly, BookingOps, ReviewOps
    <2> HIDE DEF s
    <2>3. Wait(r, s) /\ UNCHANGED tables
      BY <1>4 DEF readReviewable, s
    <2> QED BY <2>2, <2>3, WaitShape, TablesShape DEF StepShape
  <1>5. ASSUME NEW r \in RequestId, NEW op \in ReviewOps, createReview(r, op)
        PROVE  StepShape
    <2> DEFINE s == [req[r] EXCEPT !.at = "postCard"]
    <2>1. ReadSoundly(s)
      BY DEF TypeInv, TypeOK, Slot, SafetyInv, RequestsSound, ReadSoundly
    <2> HIDE DEF s
    <2>2. Return(r) \/ Wait(r, s)
      BY <1>5 DEF createReview, s
    <2>5. Completed(req[r].b)
      BY <1>5 DEF createReview, Resumes, SafetyInv, RequestsSound, ReadSoundly
    <2>3. RequestShape
      BY <2>1, <2>2, WaitShape, ReturnShape
    <2>4. BookingShape /\ InvoiceShape
      BY <1>5, QuietShape DEF createReview
    <2> QED BY <1>5, <2>3, <2>4, <2>5 DEF createReview, StepShape, ReviewShape
  <1>6. ASSUME NEW r \in RequestId, NEW op \in ReviewOps, createReviewRollsBack(r, op)
        PROVE  StepShape
    BY <1>6, ReturnShape, TablesShape DEF createReviewRollsBack, StepShape
  <1>7. ASSUME NEW r \in RequestId, postReviewCard(r)
        PROVE  StepShape
    <2>1. BookingShape /\ InvoiceShape
      BY <1>7, PostShape DEF postReviewCard, BookingShape, Stays, InvoiceShape
    <2> QED BY <1>7, <2>1, ReturnShape DEF postReviewCard, StepShape, ReviewShape
  <1> QED BY <1>1, <1>2, <1>3, <1>4, <1>5, <1>6, <1>7 DEF FulfilmentNext

\* The steps of QuotesService have the shape.
LEMMA BookingQuotesShape ==
    ASSUME TypeInv, SafetyInv, BookingQuotesNext
    PROVE  StepShape
  <1>1. ASSUME NEW q \in QuoteId, NEW b \in BookingId, NEW amount \in Amount,
               createBookingQuote(q, b, amount)
        PROVE  StepShape
    BY <1>1, QuietShape DEF createBookingQuote, StepShape, RequestShape, ReviewShape
  <1>2. ASSUME NEW r \in RequestId, NEW q \in QuoteId, readUnlocked(r, q)
        PROVE  StepShape
    <2> DEFINE s == [Idle EXCEPT !.op = "updateQuote", !.q = q]
    <2>1. ReadSoundly(s)
      BY DEF Idle, ReadSoundly, BookingOps, ReviewOps
    <2> HIDE DEF s
    <2>2. Wait(r, s) /\ UNCHANGED tables
      BY <1>2 DEF readUnlocked, s
    <2> QED BY <2>1, <2>2, WaitShape, TablesShape DEF StepShape
  <1>3. ASSUME NEW r \in RequestId, NEW newTotal \in Sum, NEW extends \in BOOLEAN,
               updateQuote(r, newTotal, extends)
        PROVE  StepShape
    BY <1>3, QuietShape, ReturnShape DEF updateQuote, StepShape, ReviewShape
  <1>4. ASSUME NEW r \in RequestId, NEW q \in QuoteId,
               NEW op \in {"acceptBookingQuote", "rejectBookingQuote"},
               readPending(r, op, q)
        PROVE  StepShape
    <2> DEFINE at == IF op = "rejectBookingQuote" THEN "commit"
                     ELSE IF quotes[q].lapsed THEN "expire" ELSE "readBooking"
               s == [Idle EXCEPT !.op = op, !.q = q, !.b = quotes[q].booking,
                                 !.amount = quotes[q].amount, !.at = at]
    <2>1. ReadSoundly(s)
      BY DEF Idle, ReadSoundly, BookingOps, ReviewOps
    <2> HIDE DEF s
    <2>2. Wait(r, s) /\ UNCHANGED tables
      BY <1>4 DEF readPending, s
    <2> QED BY <2>1, <2>2, WaitShape, TablesShape DEF StepShape
  <1>5. ASSUME NEW r \in RequestId, rejectBookingQuote(r)
        PROVE  StepShape
    BY <1>5, QuietShape, ReturnShape DEF rejectBookingQuote, StepShape, ReviewShape
  <1>6. ASSUME NEW r \in RequestId, expireBookingQuote(r)
        PROVE  StepShape
    BY <1>6, QuietShape, ReturnShape DEF expireBookingQuote, StepShape, ReviewShape
  <1>7. ASSUME NEW r \in RequestId, readConfirmsBooking(r)
        PROVE  StepShape
    <2> DEFINE s == [req[r] EXCEPT !.at = "commit", !.seen = bookings[req[r].b].status]
    <2>1. ReadSoundly(s)
      BY <1>7 DEF readConfirmsBooking, Resumes, TypeInv, TypeOK, Slot, ReadSoundly,
             BookingOps, ReviewOps
    <2> HIDE DEF s
    <2>2. Wait(r, s) /\ UNCHANGED tables
      BY <1>7 DEF readConfirmsBooking, s
    <2> QED BY <2>1, <2>2, WaitShape, TablesShape DEF StepShape
  <1>8. ASSUME NEW r \in RequestId, acceptBookingQuote(r)
        PROVE  StepShape
    <2> DEFINE b == req[r].b
               move == [from |-> "PENDING", to |-> "CONFIRMED"]
    <2>1. b \in BookingId /\ BookingExists(b)
      BY <1>8 DEF acceptBookingQuote, Resumes, TypeInv, RequestsCarry, Carries,
             BookingCarriers
    <2>2. ASSUME NEW c \in BookingId, c # b PROVE Stays(c)
      BY <1>8, <2>2 DEF acceptBookingQuote, TypeInv, TypeOK, Stays
    <2>3. /\ bookings'[b].status = IF req[r].seen = "PENDING" THEN "CONFIRMED"
                                   ELSE bookings[b].status
          /\ history'[b] = IF req[r].seen = "PENDING" THEN Append(history[b], move)
                           ELSE history[b]
          /\ req'[r] = Idle
      BY <1>8, <2>1 DEF acceptBookingQuote, Return, TypeInv, TypeOK
    <2>4. BookingShape
      <3>1. CASE req[r].seen = "PENDING"
        <4>1. move \in Moves /\ move.from = "PENDING" /\ move.to = "CONFIRMED"
          BY DEF Moves
        <4>2. Moved(b, move)
          BY <2>1, <2>3, <3>1, <4>1 DEF Moved
        <4> QED BY <2>2, <4>1, <4>2 DEF BookingShape
      <3>2. CASE req[r].seen # "PENDING"
        BY <2>2, <2>3, <3>2 DEF BookingShape, Stays
      <3> QED BY <3>1, <3>2
    <2>5. InvoiceShape /\ ReviewShape
      BY <1>8 DEF acceptBookingQuote, InvoiceShape, ReviewShape
    <2> QED BY <1>8, <2>4, <2>5, ReturnShape DEF acceptBookingQuote, StepShape
  <1> QED BY <1>1, <1>2, <1>3, <1>4, <1>5, <1>6, <1>7, <1>8 DEF BookingQuotesNext

\* The steps of QuoteFlowService have the shape.
LEMMA QuoteFlowShape ==
    ASSUME TypeInv, SafetyInv, QuoteFlowNext
    PROVE  StepShape
  <1>1. ASSUME NEW r \in RequestId, NEW amount \in Amount, openDirect(r, amount)
        PROVE  StepShape
    <2> DEFINE s == [Idle EXCEPT !.op = "sendQuote", !.amount = amount]
    <2>1. ReadSoundly(s)
      BY DEF Idle, ReadSoundly, BookingOps, ReviewOps
    <2> HIDE DEF s
    <2>2. RequestShape
      BY <1>1, <2>1, WaitShape DEF openDirect, s
    <2> QED BY <1>1, <2>2, QuietShape DEF openDirect, StepShape, ReviewShape
  <1>2. ASSUME NEW r \in RequestId, NEW q \in QuoteId, sendQuote(r, q)
        PROVE  StepShape
    <2>1. BookingShape /\ InvoiceShape
      BY <1>2, PostShape DEF sendQuote, BookingShape, Stays, InvoiceShape
    <2> QED BY <1>2, <2>1, ReturnShape DEF sendQuote, StepShape, ReviewShape
  <1>3. ASSUME NEW r \in RequestId, NEW q \in QuoteId, NEW amount \in Amount,
               readActive(r, q, amount)
        PROVE  StepShape
    <2> DEFINE s == [Idle EXCEPT !.op = "reviseQuote", !.q = q, !.amount = amount,
                                 !.lapsed = quotes[q].lapsed]
    <2>1. ReadSoundly(s)
      BY DEF Idle, ReadSoundly, BookingOps, ReviewOps
    <2> HIDE DEF s
    <2>2. Wait(r, s) /\ UNCHANGED tables
      BY <1>3 DEF readActive, s
    <2> QED BY <2>1, <2>2, WaitShape, TablesShape DEF StepShape
  <1>4. ASSUME NEW r \in RequestId, NEW next \in QuoteId, NEW extends \in BOOLEAN,
               reviseQuote(r, next, extends)
        PROVE  StepShape
    <2>1. BookingShape /\ InvoiceShape
      BY <1>4, PostShape DEF reviseQuote, BookingShape, Stays, InvoiceShape
    <2> QED BY <1>4, <2>1, ReturnShape DEF reviseQuote, StepShape, ReviewShape
  <1>5. ASSUME NEW r \in RequestId, NEW q \in QuoteId,
               NEW op \in {"acceptQuote", "declineQuote"}, readOpen(r, op, q)
        PROVE  StepShape
    <2> DEFINE at == IF op = "acceptQuote" /\ quotes[q].lapsed THEN "expire" ELSE "commit"
               s == [Idle EXCEPT !.op = op, !.q = q, !.amount = quotes[q].amount,
                                 !.at = at]
    <2>1. ReadSoundly(s)
      BY DEF Idle, ReadSoundly, BookingOps, ReviewOps
    <2> HIDE DEF s
    <2>2. Wait(r, s) /\ UNCHANGED tables
      BY <1>5 DEF readOpen, s
    <2> QED BY <2>1, <2>2, WaitShape, TablesShape DEF StepShape
  <1>6. ASSUME NEW r \in RequestId, expireQuote(r)
        PROVE  StepShape
    BY <1>6, QuietShape, ReturnShape DEF expireQuote, StepShape, ReviewShape
  <1>7. ASSUME NEW r \in RequestId, NEW b \in BookingId, acceptQuote(r, b)
        PROVE  StepShape
    <2>1. Appears(b) /\ \A c \in BookingId \ {b} : Stays(c)
      BY <1>7 DEF acceptQuote, createFromQuote, TypeInv, TypeOK, Appears, Stays
    <2>2. ~Invoiced(b)
      BY <1>7 DEF acceptQuote, SafetyInv, InvoicedNeverPending, BookingExists
    <2>3. Invoiced(b)' /\ bookings'[b].status = "CONFIRMED"
      <3>1. req[r].amount \in Amount
        BY <1>7 DEF acceptQuote, Resumes, TypeInv, RequestsCarry, Carries, SumCarriers
      <3> QED BY <1>7, <3>1, ConstantsAssumption
              DEF acceptQuote, createFromQuote, TypeInv, TypeOK, InvoiceRow, Invoiced, Slot
    <2>4. InvoiceShape
      <3>1. ASSUME NEW c \in BookingId, c # b
            PROVE  /\ invoices'[c] = invoices[c]
                   /\ cards'[<<"INVOICE", c>>] = cards[<<"INVOICE", c>>]
        BY <1>7, <3>1, PostShape DEF acceptQuote, createFromQuote, TypeInv, TypeOK
      <3>2. cards'[<<"INVOICE", b>>] = cards[<<"INVOICE", b>>] + 1
        BY <1>7, PostShape DEF acceptQuote
      <3> QED BY <2>2, <2>3, <3>1, <3>2 DEF InvoiceShape
    <2> QED BY <1>7, <2>1, <2>4, ReturnShape
            DEF acceptQuote, StepShape, BookingShape, ReviewShape
  <1>8. ASSUME NEW r \in RequestId, acceptQuoteRollsBack(r)
        PROVE  StepShape
    BY <1>8, ReturnShape, TablesShape DEF acceptQuoteRollsBack, StepShape
  <1>9. ASSUME NEW r \in RequestId, declineQuote(r)
        PROVE  StepShape
    <2>1. BookingShape /\ InvoiceShape
      BY <1>9, PostShape DEF declineQuote, BookingShape, Stays, InvoiceShape
    <2> QED BY <1>9, <2>1, ReturnShape DEF declineQuote, StepShape, ReviewShape
  <1> QED BY <1>1, <1>2, <1>3, <1>4, <1>5, <1>6, <1>7, <1>8, <1>9 DEF QuoteFlowNext

\* Every step, of whichever service, has the shape.
LEMMA NextShape ==
    ASSUME TypeInv, SafetyInv, [Next]_vars
    PROVE  StepShape
  <1>1. CASE BookingsNext
    BY <1>1, BookingsShape
  <1>2. CASE OrderRequestsNext
    BY <1>2, OrderRequestsShape
  <1>3. CASE FulfilmentNext
    BY <1>3, FulfilmentShape
  <1>4. CASE BookingQuotesNext
    BY <1>4, BookingQuotesShape
  <1>5. CASE QuoteFlowNext
    BY <1>5, QuoteFlowShape
  <1>6. ASSUME NEW q \in QuoteId, Lapse(q) PROVE StepShape
    BY <1>6, QuietShape DEF Lapse, StepShape, RequestShape, ReviewShape
  <1>7. ASSUME NEW r \in RequestId, Fail(r) PROVE StepShape
    BY <1>7, ReturnShape, TablesShape DEF Fail, StepShape
  <1>8. CASE UNCHANGED vars
    BY <1>8, QuietShape DEF vars, StepShape, RequestShape, ReviewShape
  <1> QED BY <1>1, <1>2, <1>3, <1>4, <1>5, <1>6, <1>7, <1>8 DEF Next

-----------------------------------------------------------------------------
(* From the shape of a step to the properties.                             *)

\* What an appended sequence holds: the old rows in their places and the
\* new row at its end.
LEMMA AppendKeeps ==
    ASSUME NEW S, NEW rows \in Seq(S), NEW row \in S
    PROVE  /\ Append(rows, row) # <<>>
           /\ Len(Append(rows, row)) = Len(rows) + 1
           /\ Append(rows, row)[Len(Append(rows, row))] = row
           /\ \A i \in DOMAIN Append(rows, row) :
                 \/ i \in DOMAIN rows /\ Append(rows, row)[i] = rows[i]
                 \/ Append(rows, row)[i] = row
  BY AppendProperties

\* A step of the shape keeps the history legal and current.
LEMMA ShapeKeepsHistory ==
    ASSUME TypeInv, SafetyInv, BookingShape
    PROVE  RecordedEdgesLegal' /\ HistoryEndsAtStatus'
  <1> DEFINE start == [from |-> NULL, to |-> "PENDING"]
  <1> SUFFICES ASSUME NEW b \in BookingId
               PROVE  /\ \A i \in DOMAIN history'[b] :
                            <<history'[b][i].from, history'[b][i].to>> \in LegalEdges
                      /\ IF history'[b] # <<>>
                         THEN history'[b][Len(history'[b])].to = bookings'[b].status
                         ELSE bookings'[b].status \in {"ABSENT", "PENDING", "CONFIRMED"}
    BY DEF RecordedEdgesLegal, HistoryEndsAtStatus
  <1>1. /\ history[b] \in Seq(HistoryRow) /\ Moves \cup {start} \subseteq HistoryRow
        /\ \A row \in Moves \cup {start} : <<row.from, row.to>> \in LegalEdges
    <2>1. history[b] \in Seq(HistoryRow)
      BY DEF TypeInv, TypeOK
    <2>2. start \in HistoryRow /\ <<start.from, start.to>> \in LegalEdges
      BY DEF HistoryRow, Status, LegalEdges
    <2>3. ASSUME NEW row \in Moves
          PROVE  row \in HistoryRow /\ <<row.from, row.to>> \in LegalEdges
      BY DEF HistoryRow, Status, LegalEdges, Moves
    <2> HIDE DEF start
    <2> QED BY <2>1, <2>2, <2>3
  <1>2. /\ \A i \in DOMAIN history[b] :
              <<history[b][i].from, history[b][i].to>> \in LegalEdges
        /\ IF history[b] # <<>>
           THEN history[b][Len(history[b])].to = bookings[b].status
           ELSE bookings[b].status \in {"ABSENT", "PENDING", "CONFIRMED"}
    BY DEF SafetyInv, RecordedEdgesLegal, HistoryEndsAtStatus
  <1>3. ASSUME NEW row \in Moves \cup {start}, history'[b] = Append(history[b], row)
        PROVE  /\ \A i \in DOMAIN history'[b] :
                     <<history'[b][i].from, history'[b][i].to>> \in LegalEdges
               /\ history'[b] # <<>> /\ history'[b][Len(history'[b])].to = row.to
    <2> DEFINE rows == history[b]
    <2>1. rows \in Seq(HistoryRow) /\ row \in HistoryRow
      BY <1>1
    <2>2. <<row.from, row.to>> \in LegalEdges
      BY <1>1
    <2>3. \A i \in DOMAIN rows : <<rows[i].from, rows[i].to>> \in LegalEdges
      BY <1>2
    <2>4. history'[b] = Append(rows, row)
      BY <1>3
    <2> HIDE DEF rows, start
    <2>5. ASSUME NEW i \in DOMAIN history'[b]
          PROVE  <<history'[b][i].from, history'[b][i].to>> \in LegalEdges
      BY <2>1, <2>2, <2>3, <2>4, AppendKeeps
    <2>6. history'[b] # <<>> /\ history'[b][Len(history'[b])].to = row.to
      BY <2>1, <2>4, AppendKeeps
    <2> QED BY <2>5, <2>6
  <1>4. CASE Stays(b)
    BY <1>2, <1>4 DEF Stays
  <1>5. CASE Appears(b)
    <2>1. CASE history'[b] = history[b]
      <3>1. history[b] = <<>>
        <4>1. ASSUME history[b] # <<>> PROVE bookings[b].status \in Status
          <5>1. history[b] \in Seq(HistoryRow)
            BY <1>1
          <5>2. history[b][Len(history[b])] \in HistoryRow
            BY <4>1, <5>1
          <5> QED BY <1>2, <4>1, <5>2 DEF HistoryRow
        <4> QED BY <1>5, <4>1 DEF Appears, BookingExists, Status
      <3> QED BY <1>2, <1>5, <2>1, <3>1 DEF Appears
    <2>2. CASE history'[b] = Append(history[b], start) /\ bookings'[b].status = "PENDING"
      BY <1>3, <2>2
    <2> QED BY <1>5, <2>1, <2>2 DEF Appears
  <1>6. ASSUME NEW move \in Moves, Moved(b, move)
        PROVE  /\ \A i \in DOMAIN history'[b] :
                     <<history'[b][i].from, history'[b][i].to>> \in LegalEdges
               /\ history'[b] # <<>>
               /\ history'[b][Len(history'[b])].to = bookings'[b].status
    BY <1>3, <1>6 DEF Moved
  <1> QED BY <1>4, <1>5, <1>6 DEF BookingShape

\* A step of the shape takes no answered booking back to PENDING.
LEMMA ShapeMovesForward ==
    ASSUME TypeInv, BookingShape, NEW b \in BookingId,
           BookingExists(b), bookings[b].status # "PENDING"
    PROVE  bookings'[b].status \notin {"ABSENT", "PENDING"}
  BY DEF BookingShape, Stays, Appears, Moved, Moves, BookingExists

\* A step of the shape keeps one INVOICE card per invoice, and invoices
\* away from PENDING bookings.
LEMMA ShapeKeepsInvoices ==
    ASSUME TypeInv, TypeInv', SafetyInv, StepShape
    PROVE  /\ \A b \in BookingId : Invoiced(b)' =>
                 bookings'[b].status \in {"CONFIRMED", "COMPLETED", "CANCELLED"}
           /\ InvoiceAnnouncedOnce'
  <1> SUFFICES ASSUME NEW b \in BookingId
               PROVE  /\ Invoiced(b)' =>
                            bookings'[b].status \in {"CONFIRMED", "COMPLETED", "CANCELLED"}
                      /\ cards'[<<"INVOICE", b>>] = IF Invoiced(b)' THEN 1 ELSE 0
    BY DEF InvoiceAnnouncedOnce
  <1>1. cards[<<"INVOICE", b>>] = IF Invoiced(b) THEN 1 ELSE 0
    BY DEF SafetyInv, InvoiceAnnouncedOnce
  <1>2. CASE /\ invoices'[b] = invoices[b]
             /\ cards'[<<"INVOICE", b>>] = cards[<<"INVOICE", b>>]
    <2>1. Invoiced(b) => /\ BookingExists(b)
                         /\ bookings[b].status # "PENDING"
      BY DEF SafetyInv, InvoicedNeverPending, BookingExists
    <2>2. bookings'[b].status \in Status \cup {"ABSENT"}
      BY DEF TypeInv, TypeOK, BookingRow
    <2> QED BY <1>1, <1>2, <2>1, <2>2, ShapeMovesForward
            DEF Invoiced, StepShape, Status
  <1>3. CASE /\ ~Invoiced(b) /\ Invoiced(b)'
             /\ bookings'[b].status = "CONFIRMED"
             /\ cards'[<<"INVOICE", b>>] = cards[<<"INVOICE", b>>] + 1
    BY <1>1, <1>3
  <1> QED BY <1>2, <1>3 DEF StepShape, InvoiceShape

\* What reads established survives the commits that overtake them.
LEMMA ShapeKeepsRequests ==
    ASSUME TypeInv, TypeInv', SafetyInv, StepShape
    PROVE  RequestsSound' /\ ReviewAfterCompletion'
  <1>1. \A b \in BookingId : Completed(b) => Completed(b)'
    BY CompletedKept DEF StepShape
  <1>2. ReviewAfterCompletion'
    <2>1. \A b \in reviews' : b \in BookingId /\ Completed(b)
      BY DEF TypeInv, TypeOK, StepShape, ReviewShape, SafetyInv, ReviewAfterCompletion,
             Completed
    <2> QED BY <1>1, <2>1 DEF ReviewAfterCompletion, Completed
  <1>3. ASSUME NEW r \in RequestId PROVE ReadSoundly(req[r])'
    <2>1. ReadSoundly(req'[r])
      BY DEF StepShape, RequestShape, SafetyInv, RequestsSound
    <2>2. req'[r].op \in ReviewOps => req'[r].b \in BookingId
      BY DEF TypeInv, RequestsCarry, Carries, BookingCarriers
    <2> QED BY <1>1, <2>1, <2>2 DEF ReadSoundly
  <1> QED BY <1>2, <1>3 DEF RequestsSound

\* A step of the shape keeps the whole safety invariant.
LEMMA StepKeepsSafety ==
    ASSUME TypeInv, TypeInv', SafetyInv, StepShape
    PROVE  SafetyInv'
  <1>1. RequestsSound' /\ ReviewAfterCompletion'
    BY ShapeKeepsRequests
  <1>2. InvoicedNeverPending'
    BY <1>1, ShapeKeepsInvoices DEF InvoicedNeverPending, RequestsSound, ReadSoundly
  <1>3. InvoiceAnnouncedOnce'
    BY ShapeKeepsInvoices
  <1>4. RecordedEdgesLegal' /\ HistoryEndsAtStatus'
    BY ShapeKeepsHistory DEF StepShape
  <1> QED BY <1>1, <1>2, <1>3, <1>4 DEF SafetyInv

\* The empty database satisfies the safety invariant.
LEMMA InitSafety == Init => SafetyInv
  <1> SUFFICES ASSUME Init PROVE SafetyInv
    OBVIOUS
  <1> USE DEF Init, TablesInit
  <1>1. RequestsSound
    BY DEF RequestsSound, ReadSoundly, Idle, BookingOps, ReviewOps
  <1>2. InvoicedNeverPending
    BY DEF InvoicedNeverPending, Invoiced, Idle
  <1>3. RecordedEdgesLegal /\ HistoryEndsAtStatus /\ ReviewAfterCompletion
    BY DEF RecordedEdgesLegal, HistoryEndsAtStatus, ReviewAfterCompletion
  <1>4. InvoiceAnnouncedOnce
    BY DEF InvoiceAnnouncedOnce, Invoiced, Card, BookingCards
  <1> QED BY <1>1, <1>2, <1>3, <1>4 DEF SafetyInv

\* The safety invariant holds of every behaviour of the composed services.
THEOREM SafetyInvariance == Spec => []SafetyInv
  <1>1. TypeInv /\ TypeInv' /\ SafetyInv /\ [Next]_vars => SafetyInv'
    BY NextShape, StepKeepsSafety
  <1> QED BY <1>1, InitSafety, TypeInvariance, PTL DEF Spec

-----------------------------------------------------------------------------
\* A booking with an invoice is never PENDING, so fulfilment never completes
\* an unanswered request, however requests overlap.
THEOREM InvoicesAnswered == Spec => []InvoicedNeverPending
  BY SafetyInvariance, PTL DEF SafetyInv

\* Every history row records an edge of the documented status machine.
THEOREM HistoryLegal == Spec => []RecordedEdgesLegal
  BY SafetyInvariance, PTL DEF SafetyInv

\* The last recorded status is the booking's status.
THEOREM HistoryCurrent == Spec => []HistoryEndsAtStatus
  BY SafetyInvariance, PTL DEF SafetyInv

\* One INVOICE card per invoiced booking, whatever acceptances raced.
THEOREM OneInvoiceCard == Spec => []InvoiceAnnouncedOnce
  BY SafetyInvariance, PTL DEF SafetyInv

\* A reviewed booking was completed at some time.
THEOREM ReviewsEarned == Spec => []ReviewAfterCompletion
  BY SafetyInvariance, PTL DEF SafetyInv

\* The vendor's answer is never undone: no step takes a booking back to
\* PENDING.
THEOREM AnswersStand == Spec => NeverPendingAgain
  <1>1. TypeInv /\ SafetyInv /\ [Next]_vars =>
          [\A b \in BookingId :
              BookingExists(b) /\ bookings[b].status # "PENDING"
                 => bookings'[b].status \notin {"ABSENT", "PENDING"}]_vars
    BY NextShape, ShapeMovesForward DEF StepShape
  <1> QED BY <1>1, TypeInvariance, SafetyInvariance, PTL DEF Spec, NeverPendingAgain

\* A booking leaves the documented machine only by a commit whose read was
\* overtaken.
THEOREM JumpsAreStale == Spec => OnlyStaleCommitsJump
  <1>1. ASSUME TypeInv, BookingShape, NEW b \in BookingId
        PROVE  LET s == bookings[b].status
                   t == bookings'[b].status
               IN  \/ s = t \/ s = "ABSENT"
                   \/ <<s, t>> \in LegalEdges
                   \/ \E r \in RequestId : /\ req[r].b = b
                                           /\ req[r].seen # s
                                           /\ req'[r] = Idle
    <2>1. CASE Stays(b) \/ Appears(b)
      BY <2>1 DEF Stays, Appears, BookingExists
    <2>2. ASSUME NEW move \in Moves, Moved(b, move), bookings[b].status = move.from
          PROVE  <<bookings[b].status, bookings'[b].status>> \in LegalEdges
      BY <2>2 DEF Moved, Moves, LegalEdges
    <2>3. ASSUME NEW move \in Moves, Moved(b, move), bookings[b].status # move.from
          PROVE  \E r \in RequestId : /\ req[r].b = b
                                      /\ req[r].seen # bookings[b].status
                                      /\ req'[r] = Idle
      BY <2>3 DEF Moved
    <2> QED BY <1>1, <2>1, <2>2, <2>3 DEF BookingShape
  <1>2. TypeInv /\ SafetyInv /\ [Next]_vars =>
          [\A b \in BookingId :
              LET s == bookings[b].status
                  t == bookings'[b].status
              IN  \/ s = t \/ s = "ABSENT"
                  \/ <<s, t>> \in LegalEdges
                  \/ \E r \in RequestId : /\ req[r].b = b
                                          /\ req[r].seen # s
                                          /\ req'[r] = Idle]_vars
    BY <1>1, NextShape DEF StepShape
  <1> QED BY <1>2, TypeInvariance, SafetyInvariance, PTL
          DEF Spec, OnlyStaleCommitsJump

-----------------------------------------------------------------------------
(***************************************************************************)
(* The safety of the quotes in Orders, for any number of overlapping       *)
(* requests.  Neither property is inductive alone: an id about to be       *)
(* inserted must be one that no invoice and no revision names already, and *)
(* a request must carry a quote of its own kind, in-chat or on a booking.  *)
(* Every step is shown to do one of five things to the quotes and to the   *)
(* invoices derived from them, and the invariant follows from those.       *)
(***************************************************************************)

\* The quote booking b's invoice was made from, if any.
QuoteOf(b) == IF Invoiced(b) THEN invoices[b].quote ELSE NULL

NamedQuotesExist ==
    /\ \A b \in BookingId : QuoteOf(b) # NULL => QuoteExists(QuoteOf(b))
    /\ \A v \in QuoteId : /\ quotes[v].parent # NULL => QuoteExists(quotes[v].parent)
                          /\ ~QuoteExists(v) => quotes[v].parent = NULL

\* The flow's handlers hold in-chat quotes, QuotesService's answers one that
\* hangs on a booking.
CarriesItsKind(s) ==
    /\ s.op \in {"reviseQuote", "acceptQuote", "declineQuote"} =>
          quotes[s.q].booking = NULL
    /\ s.op \in {"acceptBookingQuote", "rejectBookingQuote"} =>
          quotes[s.q].booking # NULL

RequestsCarryTheirKind == \A r \in RequestId : CarriesItsKind(req[r])

QuoteInv ==
    /\ NamedQuotesExist
    /\ RequestsCarryTheirKind
    /\ LockedIffInvoicedOnce
    /\ RevisedStaysOffTable

-----------------------------------------------------------------------------
(* What a step may do.                                                     *)

\* Quote q keeps its place: no step moves it to another booking or parent,
\* puts it back on the table or supersedes it.
Placed(q) ==
    /\ QuoteExists(q)' <=> QuoteExists(q)
    /\ quotes'[q].booking = quotes[q].booking
    /\ quotes'[q].parent = quotes[q].parent
    /\ quotes'[q].active => quotes[q].active
    /\ quotes'[q].status = "SUPERSEDED" => quotes[q].status = "SUPERSEDED"

LockKept(q) == quotes'[q].locked <=> quotes[q].locked

OthersKept(Q) == \A q \in QuoteId \ Q : Placed(q) /\ LockKept(q)
DerivedKept == \A b \in BookingId : QuoteOf(b)' = QuoteOf(b)

\* Row q is inserted, under the version it revises if there is one.
Fresh(q, parent) ==
    /\ ~QuoteExists(q)
    /\ quotes'[q].status = "PENDING"
    /\ ~quotes'[q].locked
    /\ quotes'[q].parent = parent

Answers == OthersKept({}) /\ DerivedKept

Inserts(q) == Fresh(q, NULL) /\ OthersKept({q}) /\ DerivedKept

Revises(q, next) ==
    /\ QuoteExists(q)
    /\ Fresh(next, q)
    /\ quotes'[q].status = "SUPERSEDED"
    /\ ~quotes'[q].active
    /\ quotes'[q].booking = quotes[q].booking
    /\ quotes'[q].parent = quotes[q].parent
    /\ LockKept(q)
    /\ OthersKept({q, next})
    /\ DerivedKept

LocksOnBooking(q) ==
    /\ quotes[q].booking # NULL
    /\ Placed(q)
    /\ OthersKept({q})
    /\ DerivedKept

Deals(q, b) ==
    /\ QuoteExists(q)
    /\ InvoiceOf(q) = {}
    /\ Placed(q)
    /\ quotes'[q].locked
    /\ OthersKept({q})
    /\ QuoteOf(b) = NULL
    /\ QuoteOf(b)' = q
    /\ \A c \in BookingId \ {b} : QuoteOf(c)' = QuoteOf(c)

QuotesShape ==
    \/ Answers
    \/ \E q \in QuoteId : Inserts(q) \/ LocksOnBooking(q)
    \/ \E q \in QuoteId, next \in QuoteId : Revises(q, next)
    \/ \E q \in QuoteId, b \in BookingId : Deals(q, b)

KindShape == \A r \in RequestId : req'[r] = req[r] \/ CarriesItsKind(req[r])'

-----------------------------------------------------------------------------
(* From what a step does to the invariant.                                 *)

\* InvoiceOf, read through QuoteOf, before and after a step.
LEMMA InvoiceOfIs ==
    ASSUME NEW q \in QuoteId
    PROVE  /\ InvoiceOf(q) = {b \in BookingId : QuoteOf(b) = q}
           /\ InvoiceOf(q)' = {b \in BookingId : QuoteOf(b)' = q}
  BY ConstantsAssumption DEF InvoiceOf, QuoteOf

\* A quote that does not exist is one that nothing names.
LEMMA AbsentUnnamed ==
    ASSUME QuoteInv, NEW q \in QuoteId, ~QuoteExists(q)
    PROVE  /\ InvoiceOf(q) = {}
           /\ \A v \in QuoteId : quotes[v].parent # q
  <1>1. q # NULL
    BY ConstantsAssumption
  <1> QED BY <1>1, InvoiceOfIs DEF QuoteInv, NamedQuotesExist

\* The lock of q says whether there is an invoice of q; what
\* LockedIffInvoicedOnce says, after a step, of one in-chat quote.
LockTells(q) == IF quotes[q].locked
                THEN \E b \in BookingId : InvoiceOf(q) = {b}
                ELSE InvoiceOf(q) = {}

\* It goes on telling if lock and invoices stay.
LEMMA LockGoesOnTelling ==
    ASSUME QuoteInv, NEW q \in QuoteId, QuoteExists(q), quotes[q].booking = NULL,
           LockKept(q), \A b \in BookingId : QuoteOf(b)' = q <=> QuoteOf(b) = q
    PROVE  LockTells(q)'
  <1>1. InvoiceOf(q)' = InvoiceOf(q)
    BY InvoiceOfIs
  <1> QED BY <1>1 DEF QuoteInv, LockedIffInvoicedOnce, LockKept, LockTells

\* An inserted quote is unlocked and without an invoice.
LEMMA FreshLockTells ==
    ASSUME QuoteInv, NEW q \in QuoteId, NEW parent, Fresh(q, parent), DerivedKept
    PROVE  LockTells(q)'
  <1>1. InvoiceOf(q)' = InvoiceOf(q)
    BY InvoiceOfIs DEF DerivedKept
  <1> QED BY <1>1, AbsentUnnamed DEF Fresh, LockTells

\* The lock and the invoice stay together.
LEMMA ShapeKeepsLocks ==
    ASSUME QuoteInv, QuotesShape
    PROVE  LockedIffInvoicedOnce'
  <1> SUFFICES ASSUME NEW q \in QuoteId, QuoteExists(q)', quotes'[q].booking = NULL
               PROVE  LockTells(q)'
    BY DEF LockedIffInvoicedOnce, LockTells
  <1>1. ASSUME DerivedKept, Placed(q), LockKept(q) PROVE LockTells(q)'
    BY <1>1, LockGoesOnTelling DEF DerivedKept, Placed
  <1>2. CASE Answers
    BY <1>1, <1>2 DEF Answers, OthersKept
  <1>3. ASSUME NEW p \in QuoteId, Inserts(p) PROVE LockTells(q)'
    BY <1>1, <1>3, FreshLockTells DEF Inserts, OthersKept
  <1>4. ASSUME NEW p \in QuoteId, LocksOnBooking(p) PROVE LockTells(q)'
    <2>1. q # p
      BY <1>4 DEF LocksOnBooking, Placed
    <2> QED BY <1>1, <1>4, <2>1 DEF LocksOnBooking, OthersKept
  <1>5. ASSUME NEW p \in QuoteId, NEW next \in QuoteId, Revises(p, next)
        PROVE  LockTells(q)'
    <2>1. CASE q = next
      BY <1>5, <2>1, FreshLockTells DEF Revises
    <2>2. CASE q = p
      BY <1>5, <2>2, LockGoesOnTelling DEF Revises, DerivedKept
    <2>3. CASE q \notin {p, next}
      BY <1>1, <1>5, <2>3 DEF Revises, OthersKept
    <2> QED BY <2>1, <2>2, <2>3
  <1>6. ASSUME NEW p \in QuoteId, NEW b \in BookingId, Deals(p, b)
        PROVE  LockTells(q)'
    <2>1. CASE q = p
      <3>1. InvoiceOf(q)' = {b}
        BY <1>6, <2>1, InvoiceOfIs DEF Deals
      <3> QED BY <1>6, <2>1, <3>1 DEF Deals, LockTells
    <2>2. CASE q # p
      <3>1. Placed(q) /\ LockKept(q)
        BY <1>6, <2>2 DEF Deals, OthersKept
      <3>2. \A c \in BookingId : QuoteOf(c)' = q <=> QuoteOf(c) = q
        BY <1>6, <2>2, ConstantsAssumption DEF Deals
      <3> QED BY <3>1, <3>2, LockGoesOnTelling DEF Placed
    <2> QED BY <2>1, <2>2
  <1> QED BY <1>2, <1>3, <1>4, <1>5, <1>6 DEF QuotesShape

\* No step removes a quote, and only a new row gets a parent.
LEMMA ShapeKeepsNames ==
    ASSUME TypeInv, QuoteInv, QuotesShape
    PROVE  NamedQuotesExist'
  <1>1. \A q \in QuoteId : QuoteExists(q) => QuoteExists(q)'
    BY DEF QuotesShape, Answers, Inserts, LocksOnBooking, Revises, Deals, OthersKept,
           Placed, Fresh, QuoteExists
  <1>2. \A b \in BookingId :
           QuoteOf(b)' = QuoteOf(b) \/ (QuoteOf(b)' \in QuoteId /\ QuoteExists(QuoteOf(b)'))
    BY DEF QuotesShape, Answers, Inserts, LocksOnBooking, Revises, Deals, DerivedKept
  <1>3. \A v \in QuoteId :
           \/ /\ quotes'[v].parent = quotes[v].parent
              /\ QuoteExists(v)' <=> QuoteExists(v)
           \/ /\ QuoteExists(v)'
              /\ quotes'[v].parent \in QuoteId \cup {NULL}
              /\ quotes'[v].parent # NULL => QuoteExists(quotes'[v].parent)
    BY DEF QuotesShape, Answers, Inserts, LocksOnBooking, Revises, Deals, OthersKept,
           Placed, Fresh, QuoteExists
  <1>4. /\ \A b \in BookingId : QuoteOf(b) \in QuoteId \cup {NULL}
        /\ \A v \in QuoteId : quotes[v].parent \in QuoteId \cup {NULL}
    BY DEF TypeInv, TypeOK, InvoiceRow, QuoteRow, QuoteOf, Invoiced
  <1>5. ASSUME NEW b \in BookingId, QuoteOf(b)' # NULL
        PROVE  QuoteExists(QuoteOf(b))'
    <2>1. QuoteOf(b)' \in QuoteId /\ QuoteExists(QuoteOf(b)')
      BY <1>2, <1>4, <1>5 DEF QuoteInv, NamedQuotesExist
    <2> QED BY <1>1, <2>1 DEF QuoteExists
  <1>6. ASSUME NEW v \in QuoteId
        PROVE  /\ quotes'[v].parent # NULL => QuoteExists(quotes[v].parent)'
               /\ ~QuoteExists(v)' => quotes'[v].parent = NULL
    BY <1>1, <1>3, <1>4 DEF QuoteInv, NamedQuotesExist, QuoteExists
  <1> QED BY <1>5, <1>6 DEF NamedQuotesExist

\* What RevisedStaysOffTable says of one quote.
StaysOff(q) == /\ \A v \in QuoteId : quotes[v].parent = q => ~quotes[q].active
               /\ quotes[q].status = "SUPERSEDED" =>
                     \E v \in QuoteId : quotes[v].parent = q

\* A revised version stays off the table: nothing sets active again, and a
\* new row has no revisions.
LEMMA ShapeKeepsRevisions ==
    ASSUME QuoteInv, QuotesShape
    PROVE  RevisedStaysOffTable'
  <1> SUFFICES ASSUME NEW q \in QuoteId PROVE StaysOff(q)'
    BY DEF RevisedStaysOffTable, StaysOff
  <1>1. StaysOff(q)
    BY DEF QuoteInv, RevisedStaysOffTable, StaysOff
  <1>2. /\ \A v \in QuoteId : ~QuoteExists(v) => quotes[v].parent # q
        /\ ~QuoteExists(q) => \A v \in QuoteId : quotes[v].parent # q
        /\ q # NULL
    BY AbsentUnnamed, ConstantsAssumption DEF QuoteInv, NamedQuotesExist
  <1>3. ASSUME NEW p \in QuoteId, NEW next \in QuoteId, Revises(p, next)
        PROVE  StaysOff(q)'
    <2>1. CASE q = p
      BY <1>3, <2>1 DEF Revises, Fresh, StaysOff
    <2>2. CASE q = next
      BY <1>2, <1>3, <2>2 DEF Revises, Fresh, OthersKept, Placed, StaysOff
    <2>3. CASE q \notin {p, next}
      BY <1>1, <1>2, <1>3, <2>3 DEF Revises, Fresh, OthersKept, Placed, StaysOff
    <2> QED BY <2>1, <2>2, <2>3
  <1>4. ASSUME NEW p \in QuoteId, Inserts(p) PROVE StaysOff(q)'
    BY <1>1, <1>2, <1>4 DEF Inserts, Fresh, OthersKept, Placed, StaysOff
  <1>5. ASSUME \A p \in QuoteId : Placed(p) PROVE StaysOff(q)'
    BY <1>1, <1>5 DEF Placed, StaysOff
  <1> QED BY <1>3, <1>4, <1>5
          DEF QuotesShape, Answers, LocksOnBooking, Deals, OthersKept

\* A request keeps a quote of its kind: no step moves a quote.
LEMMA ShapeKeepsKinds ==
    ASSUME TypeInv, QuoteInv, QuotesShape, KindShape
    PROVE  RequestsCarryTheirKind'
  <1>1. \A q \in QuoteId : QuoteExists(q) => quotes'[q].booking = quotes[q].booking
    BY DEF QuotesShape, Answers, Inserts, LocksOnBooking, Revises, Deals, OthersKept,
           Placed, Fresh
  <1>2. ASSUME NEW r \in RequestId, req'[r] = req[r]
        PROVE  CarriesItsKind(req[r])'
    BY <1>1, <1>2 DEF TypeInv, RequestsCarry, Carries, QuoteCarriers, BookingQuoteOps,
           QuoteFlowOps, QuoteInv, RequestsCarryTheirKind, CarriesItsKind
  <1> QED BY <1>2 DEF KindShape, RequestsCarryTheirKind

-----------------------------------------------------------------------------
(* What each step does.                                                    *)

\* A step that writes neither quotes nor invoices is an answer.
LEMMA QuietQuotes ==
    ASSUME UNCHANGED <<quotes, invoices>>
    PROVE  QuotesShape
  BY DEF QuotesShape, Answers, OthersKept, DerivedKept, Placed, LockKept, QuoteExists,
         QuoteOf, Invoiced

\* A returning handler carries no quote.
LEMMA ReturnKind ==
    ASSUME TypeInv, NEW r, Return(r)
    PROVE  KindShape
  BY DEF TypeInv, TypeOK, Return, KindShape, CarriesItsKind, Idle

\* A handler that awaits, having written no quote, with a quote of its kind.
LEMMA WaitKind ==
    ASSUME TypeInv, NEW r, NEW s, Wait(r, s), UNCHANGED quotes, CarriesItsKind(s)
    PROVE  KindShape
  BY DEF TypeInv, TypeOK, Wait, KindShape, CarriesItsKind

\* A request of BookingsService, OrderRequestService or FulfilmentService
\* carries no quote at all.
LEMMA OtherOpsCarryNone ==
    ASSUME NEW s, s.op \in BookingOps \cup OrderOps \cup FulfilOps \cup ReviewOps
    PROVE  CarriesItsKind(s)
  BY DEF CarriesItsKind, BookingOps, OrderOps, FulfilOps, ReviewOps

\* The steps of BookingsService.
LEMMA BookingsQuotes ==
    ASSUME TypeInv, BookingsNext
    PROVE  QuotesShape /\ KindShape
  <1>1. ASSUME NEW b \in BookingId, NEW amount \in Sum, create(b, amount)
        PROVE  QuotesShape /\ KindShape
    BY <1>1, QuietQuotes DEF create, KindShape
  <1>2. ASSUME NEW r \in RequestId, NEW op \in BookingOps, NEW b \in BookingId,
               readStatus(r, op, b)
        PROVE  QuotesShape /\ KindShape
    <2> DEFINE s == [Idle EXCEPT !.op = op, !.b = b, !.seen = bookings[b].status]
    <2>1. CarriesItsKind(s)
      BY OtherOpsCarryNone DEF Idle
    <2> HIDE DEF s
    <2>2. Wait(r, s) /\ UNCHANGED tables
      BY <1>2 DEF readStatus, s
    <2> QED BY <2>1, <2>2, WaitKind, QuietQuotes DEF tables
  <1>3. ASSUME NEW r \in RequestId, NEW op \in BookingOps, changeStatus(r, op)
        PROVE  QuotesShape /\ KindShape
    BY <1>3, ReturnKind, QuietQuotes DEF changeStatus
  <1> QED BY <1>1, <1>2, <1>3 DEF BookingsNext

\* The steps of OrderRequestService: its invoices derive from no quote.
LEMMA OrderRequestsQuotes ==
    ASSUME TypeInv, OrderRequestsNext
    PROVE  QuotesShape /\ KindShape
  <1>1. ASSUME NEW r \in RequestId, NEW amount \in Amount, openConversation(r, amount)
        PROVE  QuotesShape /\ KindShape
    <2> DEFINE s == [Idle EXCEPT !.op = "createOrder", !.amount = amount]
    <2>1. CarriesItsKind(s)
      BY OtherOpsCarryNone DEF Idle, OrderOps
    <2> HIDE DEF s
    <2>2. Wait(r, s) /\ UNCHANGED <<quotes, invoices>>
      BY <1>1 DEF openConversation, s
    <2> QED BY <2>1, <2>2, WaitKind, QuietQuotes
  <1>2. ASSUME NEW r \in RequestId, NEW b \in BookingId, createOrderRequest(r, b)
        PROVE  QuotesShape /\ KindShape
    BY <1>2, ReturnKind, QuietQuotes DEF createOrderRequest
  <1>3. ASSUME NEW r \in RequestId, NEW op \in {"acceptOrder", "declineOrder"},
               NEW b \in BookingId, readOrder(r, op, b)
        PROVE  QuotesShape /\ KindShape
    <2> DEFINE s == [Idle EXCEPT !.op = op, !.at = "findConversation", !.b = b,
                         !.seen = "PENDING", !.amount = bookings[b].quoteAmount]
    <2>1. CarriesItsKind(s)
      BY OtherOpsCarryNone DEF Idle, OrderOps
    <2> HIDE DEF s
    <2>2. Wait(r, s) /\ UNCHANGED tables
      BY <1>3 DEF readOrder, s
    <2> QED BY <2>1, <2>2, WaitKind, QuietQuotes DEF tables
  <1>4. ASSUME NEW r \in RequestId, NEW op \in {"acceptOrder", "declineOrder"},
               findConversation(r, op)
        PROVE  QuotesShape /\ KindShape
    <2> DEFINE s == [req[r] EXCEPT !.at = "commit", !.conv = dm]
    <2>1. CarriesItsKind(s)
      BY <1>4, OtherOpsCarryNone
      DEF findConversation, Resumes, TypeInv, TypeOK, Slot, OrderOps
    <2> HIDE DEF s
    <2>2. (Return(r) \/ Wait(r, s)) /\ UNCHANGED tables
      BY <1>4 DEF findConversation, s
    <2> QED BY <2>1, <2>2, WaitKind, ReturnKind, QuietQuotes DEF tables
  <1>5. ASSUME NEW r \in RequestId, declineOrder(r)
        PROVE  QuotesShape /\ KindShape
    BY <1>5, ReturnKind, QuietQuotes DEF declineOrder
  <1>6. ASSUME NEW r \in RequestId, acceptOrder(r)
        PROVE  QuotesShape /\ KindShape
    <2>1. DerivedKept
      BY <1>6 DEF acceptOrder, createDirectInvoice, TypeInv, TypeOK, DerivedKept,
             QuoteOf, Invoiced
    <2>2. QuotesShape
      BY <1>6, <2>1 DEF acceptOrder, QuotesShape, Answers, OthersKept, Placed, LockKept,
             QuoteExists
    <2> QED BY <1>6, <2>2, ReturnKind DEF acceptOrder
  <1>7. ASSUME NEW r \in RequestId, acceptOrderRollsBack(r)
        PROVE  QuotesShape /\ KindShape
    BY <1>7, ReturnKind, QuietQuotes DEF acceptOrderRollsBack, tables
  <1> QED BY <1>1, <1>2, <1>3, <1>4, <1>5, <1>6, <1>7 DEF OrderRequestsNext

\* The steps of FulfilmentService and ReviewsService.create.
LEMMA FulfilmentQuotes ==
    ASSUME TypeInv, FulfilmentNext
    PROVE  QuotesShape /\ KindShape
  <1>1. ASSUME NEW r \in RequestId, NEW op \in FulfilOps, NEW b \in BookingId,
               loadBooking(r, op, b)
        PROVE  QuotesShape /\ KindShape
    <2> DEFINE s == [Idle EXCEPT !.op = op, !.b = b, !.seen = bookings[b].status]
    <2>1. CarriesItsKind(s)
      BY OtherOpsCarryNone DEF Idle
    <2> HIDE DEF s
    <2>2. Wait(r, s) /\ UNCHANGED tables
      BY <1>1 DEF loadBooking, s
    <2> QED BY <2>1, <2>2, WaitKind, QuietQuotes DEF tables
  <1>2. ASSUME NEW r \in RequestId, postUpdate(r)
        PROVE  QuotesShape /\ KindShape
    BY <1>2, ReturnKind, QuietQuotes DEF postUpdate
  <1>3. ASSUME NEW r \in RequestId, NEW op \in {"markDelivered", "confirmReturn"},
               completeOrder(r, op)
        PROVE  QuotesShape /\ KindShape
    BY <1>3, ReturnKind, QuietQuotes DEF completeOrder
  <1>4. ASSUME NEW r \in RequestId, NEW op \in ReviewOps, NEW b \in BookingId,
               readReviewable(r, op, b)
        PROVE  QuotesShape /\ KindShape
    <2> DEFINE s == [Idle EXCEPT !.op = op, !.b = b, !.seen = "COMPLETED"]
    <2>1. CarriesItsKind(s)
      BY OtherOpsCarryNone DEF Idle
    <2> HIDE DEF s
    <2>2. Wait(r, s) /\ UNCHANGED tables
      BY <1>4 DEF readReviewable, s
    <2> QED BY <2>1, <2>2, WaitKind, QuietQuotes DEF tables
  <1>5. ASSUME NEW r \in RequestId, NEW op \in ReviewOps, createReview(r, op)
        PROVE  QuotesShape /\ KindShape
    <2> DEFINE s == [req[r] EXCEPT !.at = "postCard"]
    <2>1. CarriesItsKind(s)
      BY <1>5, OtherOpsCarryNone DEF createReview, Resumes, TypeInv, TypeOK, Slot
    <2> HIDE DEF s
    <2>2. (Return(r) \/ Wait(r, s)) /\ UNCHANGED <<quotes, invoices>>
      BY <1>5 DEF createReview, s
    <2> QED BY <2>1, <2>2, WaitKind, ReturnKind, QuietQuotes
  <1>6. ASSUME NEW r \in RequestId, NEW op \in ReviewOps, createReviewRollsBack(r, op)
        PROVE  QuotesShape /\ KindShape
    BY <1>6, ReturnKind, QuietQuotes DEF createReviewRollsBack, tables
  <1>7. ASSUME NEW r \in RequestId, postReviewCard(r)
        PROVE  QuotesShape /\ KindShape
    BY <1>7, ReturnKind, QuietQuotes DEF postReviewCard
  <1> QED BY <1>1, <1>2, <1>3, <1>4, <1>5, <1>6, <1>7 DEF FulfilmentNext

\* A step that writes no invoice derives none.
LEMMA NoInvoice ==
    ASSUME UNCHANGED invoices
    PROVE  DerivedKept
  BY DEF DerivedKept, QuoteOf, Invoiced

\* The answer a handler writes on a row leaves the quote in its place.
LEMMA AnswerPlaces ==
    ASSUME TypeInv, NEW q \in QuoteId, QuoteExists(q),
           NEW status \in QuoteStatus \ {"SUPERSEDED"}, NEW locks \in BOOLEAN,
           \/ quotes' = [quotes EXCEPT ![q].status = status]
           \/ quotes' = [quotes EXCEPT ![q].status = status, ![q].active = FALSE]
           \/ locks /\ quotes' = [quotes EXCEPT ![q].status = status, ![q].locked = TRUE]
           \/ locks /\ quotes' = [quotes EXCEPT ![q].status = status, ![q].active = FALSE,
                                                ![q].locked = TRUE]
    PROVE  /\ Placed(q) /\ OthersKept({q})
           /\ locks \/ OthersKept({})
  <1>1. /\ quotes'[q].booking = quotes[q].booking
        /\ quotes'[q].parent = quotes[q].parent
        /\ quotes'[q].active => quotes[q].active
        /\ quotes'[q].status = status
        /\ locks \/ quotes'[q].locked = quotes[q].locked
    <2>1. quotes[q] \in QuoteRow /\ q \in DOMAIN quotes
      BY DEF TypeInv, TypeOK
    <2> QED BY <2>1 DEF QuoteRow
  <1>2. \A p \in QuoteId \ {q} : quotes'[p] = quotes[p]
    BY DEF TypeInv, TypeOK
  <1>3. status # "ABSENT" /\ status # "SUPERSEDED"
    BY DEF QuoteStatus
  <1>4. Placed(q)
    BY <1>1, <1>3 DEF Placed, QuoteExists
  <1> QED BY <1>1, <1>2, <1>4 DEF OthersKept, Placed, LockKept, QuoteExists

\* The steps of QuotesService: a quote's answer leaves it in its place, and
\* only an acceptance touches the lock, of a quote that hangs on a booking.
LEMMA BookingQuotesQuotes ==
    ASSUME TypeInv, QuoteInv, BookingQuotesNext
    PROVE  QuotesShape /\ KindShape
  <1> USE DEF OthersKept, Placed, LockKept, QuoteExists
  <1>1. ASSUME NEW q \in QuoteId, NEW b \in BookingId, NEW amount \in Amount,
               createBookingQuote(q, b, amount)
        PROVE  QuotesShape /\ KindShape
    <2>1. DerivedKept /\ Fresh(q, NULL) /\ OthersKept({q})
      BY <1>1 DEF createBookingQuote, TypeInv, TypeOK, DerivedKept, QuoteOf, Invoiced, Fresh
    <2> QED BY <1>1, <2>1 DEF createBookingQuote, KindShape, QuotesShape, Inserts
  <1>2. ASSUME NEW r \in RequestId, NEW q \in QuoteId, readUnlocked(r, q)
        PROVE  QuotesShape /\ KindShape
    <2> DEFINE s == [Idle EXCEPT !.op = "updateQuote", !.q = q]
    <2>1. CarriesItsKind(s)
      BY DEF Idle, CarriesItsKind
    <2> HIDE DEF s
    <2>2. Wait(r, s) /\ UNCHANGED tables
      BY <1>2 DEF readUnlocked, s
    <2> QED BY <2>1, <2>2, WaitKind, QuietQuotes DEF tables
  <1>3. ASSUME NEW r \in RequestId, UNCHANGED invoices, Return(r),
               NEW row, quotes' = [quotes EXCEPT ![req[r].q] = row],
               req[r].q \in QuoteId, row.booking = quotes[req[r].q].booking,
               row.parent = quotes[req[r].q].parent,
               row.active = quotes[req[r].q].active,
               row.locked = quotes[req[r].q].locked,
               row.status # "ABSENT", QuoteExists(req[r].q),
               row.status # "SUPERSEDED" \/ row.status = quotes[req[r].q].status
        PROVE  QuotesShape /\ KindShape
    <2>1. DerivedKept /\ OthersKept({})
      BY <1>3 DEF TypeInv, TypeOK, DerivedKept, QuoteOf, Invoiced
    <2> QED BY <1>3, <2>1, ReturnKind DEF QuotesShape, Answers
  <1>4. ASSUME NEW r \in RequestId, req[r].op \in BookingQuoteOps
        PROVE  /\ req[r].q \in QuoteId /\ QuoteExists(req[r].q)
               /\ quotes[req[r].q] \in QuoteRow
    BY <1>4 DEF TypeInv, TypeOK, RequestsCarry, Carries, QuoteCarriers
  <1>5. ASSUME NEW r \in RequestId, NEW newTotal \in Sum, NEW extends \in BOOLEAN,
               updateQuote(r, newTotal, extends)
        PROVE  QuotesShape /\ KindShape
    <2> DEFINE q == req[r].q
               still == quotes[q].lapsed /\ ~extends
               row == [quotes[q] EXCEPT
                          !.amount = IF newTotal = NULL THEN @ ELSE newTotal,
                          !.lapsed = still]
    <2>1. q \in QuoteId /\ QuoteExists(q) /\ quotes[q] \in QuoteRow
      BY <1>4, <1>5 DEF updateQuote, Resumes, BookingQuoteOps
    <2>2. quotes' = [quotes EXCEPT ![q] = row]
      BY <1>5, <2>1 DEF updateQuote, TypeInv, TypeOK
    <2>3. /\ row.booking = quotes[q].booking /\ row.parent = quotes[q].parent
          /\ row.active = quotes[q].active /\ row.locked = quotes[q].locked
          /\ row.status = quotes[q].status
      BY <2>1 DEF QuoteRow
    <2> HIDE DEF row
    <2> QED BY <1>3, <1>5, <2>1, <2>2, <2>3 DEF updateQuote
  <1>6. ASSUME NEW r \in RequestId, NEW q \in QuoteId,
               NEW op \in {"acceptBookingQuote", "rejectBookingQuote"},
               readPending(r, op, q)
        PROVE  QuotesShape /\ KindShape
    <2> DEFINE at == IF op = "rejectBookingQuote" THEN "commit"
                     ELSE IF quotes[q].lapsed THEN "expire" ELSE "readBooking"
               s == [Idle EXCEPT !.op = op, !.q = q, !.b = quotes[q].booking,
                                 !.amount = quotes[q].amount, !.at = at]
    <2>1. CarriesItsKind(s)
      BY <1>6 DEF readPending, Idle, CarriesItsKind
    <2> HIDE DEF s
    <2>2. Wait(r, s) /\ UNCHANGED tables
      BY <1>6 DEF readPending, s
    <2> QED BY <2>1, <2>2, WaitKind, QuietQuotes DEF tables
  <1>7. ASSUME NEW r \in RequestId, rejectBookingQuote(r) \/ expireBookingQuote(r)
        PROVE  QuotesShape /\ KindShape
    <2>1. PICK status \in {"REJECTED", "EXPIRED"} :
             quotes' = [quotes EXCEPT ![req[r].q].status = status]
      BY <1>7 DEF rejectBookingQuote, expireBookingQuote
    <2>2. req[r].q \in QuoteId /\ QuoteExists(req[r].q)
      BY <1>4, <1>7 DEF rejectBookingQuote, expireBookingQuote, Resumes, BookingQuoteOps
    <2>3. status \in QuoteStatus \ {"SUPERSEDED"}
      BY DEF QuoteStatus
    <2>4. OthersKept({})
      BY <2>1, <2>2, <2>3, AnswerPlaces
    <2> QED BY <1>7, <2>4, NoInvoice, ReturnKind
            DEF rejectBookingQuote, expireBookingQuote, QuotesShape, Answers
  <1>8. ASSUME NEW r \in RequestId, readConfirmsBooking(r)
        PROVE  QuotesShape /\ KindShape
    <2> DEFINE s == [req[r] EXCEPT !.at = "commit", !.seen = bookings[req[r].b].status]
    <2>1. CarriesItsKind(s)
      BY DEF TypeInv, TypeOK, Slot, QuoteInv, RequestsCarryTheirKind, CarriesItsKind
    <2> HIDE DEF s
    <2>2. Wait(r, s) /\ UNCHANGED tables
      BY <1>8 DEF readConfirmsBooking, s
    <2> QED BY <2>1, <2>2, WaitKind, QuietQuotes DEF tables
  <1>9. ASSUME NEW r \in RequestId, acceptBookingQuote(r)
        PROVE  QuotesShape /\ KindShape
    <2>1. PICK q \in QuoteId : q = req[r].q /\ QuoteExists(q)
      BY <1>4, <1>9 DEF acceptBookingQuote, Resumes, BookingQuoteOps
    <2>2. quotes[q].booking # NULL
      BY <1>9, <2>1 DEF acceptBookingQuote, Resumes, QuoteInv, RequestsCarryTheirKind,
             CarriesItsKind
    <2>3. "ACCEPTED" \in QuoteStatus \ {"SUPERSEDED"}
      BY DEF QuoteStatus
    <2>4. quotes' = [quotes EXCEPT ![q].status = "ACCEPTED", ![q].locked = TRUE]
      BY <1>9, <2>1 DEF acceptBookingQuote
    <2>5. Placed(q) /\ OthersKept({q})
      BY <2>1, <2>3, <2>4, AnswerPlaces
    <2>6. DerivedKept
      BY <1>9, NoInvoice DEF acceptBookingQuote
    <2>7. LocksOnBooking(q)
      BY <2>2, <2>5, <2>6 DEF LocksOnBooking
    <2>8. QuotesShape
      BY <2>1, <2>7 DEF QuotesShape
    <2> QED BY <1>9, <2>8, ReturnKind DEF acceptBookingQuote
  <1> QED BY <1>1, <1>2, <1>5, <1>6, <1>7, <1>8, <1>9 DEF BookingQuotesNext

\* The acceptance of an in-chat quote derives one invoice, of that quote, for
\* a booking that had none.
LEMMA AcceptanceDerives ==
    ASSUME TypeInv, SafetyInv, NEW r \in RequestId, NEW b \in BookingId,
           acceptQuote(r, b), NEW q \in QuoteId, q = req[r].q
    PROVE  /\ QuoteOf(b) = NULL
           /\ QuoteOf(b)' = q
           /\ \A c \in BookingId \ {b} : QuoteOf(c)' = QuoteOf(c)
  <1>1. QuoteOf(b) = NULL
    BY DEF acceptQuote, SafetyInv, InvoicedNeverPending, BookingExists, QuoteOf
  <1>2. invoices'[b] = [total |-> req[r].amount, status |-> "ACCEPTED", quote |-> q]
    BY DEF acceptQuote, createFromQuote, TypeInv, TypeOK
  <1>3. invoices'[b] \in InvoiceRow
    BY <1>2 DEF acceptQuote, Resumes, TypeInv, RequestsCarry, Carries, SumCarriers,
           InvoiceRow
  <1>4. QuoteOf(b)' = q
    BY <1>2, <1>3, ConstantsAssumption DEF QuoteOf, Invoiced
  <1>5. \A c \in BookingId \ {b} : QuoteOf(c)' = QuoteOf(c)
    BY DEF acceptQuote, createFromQuote, TypeInv, TypeOK, QuoteOf, Invoiced
  <1> QED BY <1>1, <1>4, <1>5

\* The steps of QuoteFlowService.  An acceptance locks the quote in the
\* transaction that makes its invoice, or leaves no trace.
LEMMA QuoteFlowQuotes ==
    ASSUME TypeInv, SafetyInv, QuoteInv, QuoteFlowNext
    PROVE  QuotesShape /\ KindShape
  <1> USE DEF OthersKept, Placed, LockKept, QuoteExists
  <1>1. ASSUME NEW r \in RequestId, NEW amount \in Amount, openDirect(r, amount)
        PROVE  QuotesShape /\ KindShape
    <2> DEFINE s == [Idle EXCEPT !.op = "sendQuote", !.amount = amount]
    <2>1. CarriesItsKind(s)
      BY DEF Idle, CarriesItsKind
    <2> HIDE DEF s
    <2>2. Wait(r, s) /\ UNCHANGED <<quotes, invoices>>
      BY <1>1 DEF openDirect, s
    <2> QED BY <2>1, <2>2, WaitKind, QuietQuotes
  <1>2. ASSUME NEW r \in RequestId, req[r].op \in {"reviseQuote", "acceptQuote", "declineQuote"}
        PROVE  /\ req[r].q \in QuoteId /\ QuoteExists(req[r].q)
               /\ quotes[req[r].q] \in QuoteRow
    BY <1>2 DEF TypeInv, TypeOK, RequestsCarry, Carries, QuoteCarriers, QuoteFlowOps
  <1>3. ASSUME NEW r \in RequestId, NEW q \in QuoteId, sendQuote(r, q)
        PROVE  QuotesShape /\ KindShape
    <2>1. DerivedKept /\ Fresh(q, NULL) /\ OthersKept({q})
      BY <1>3 DEF sendQuote, insertVersion, TypeInv, TypeOK, DerivedKept, QuoteOf,
             Invoiced, Fresh
    <2> QED BY <1>3, <2>1, ReturnKind DEF sendQuote, QuotesShape, Inserts
  <1>4. ASSUME NEW r \in RequestId, NEW q \in QuoteId, NEW amount \in Amount,
               readActive(r, q, amount)
        PROVE  QuotesShape /\ KindShape
    <2> DEFINE s == [Idle EXCEPT !.op = "reviseQuote", !.q = q, !.amount = amount,
                                 !.lapsed = quotes[q].lapsed]
    <2>1. CarriesItsKind(s)
      BY <1>4 DEF readActive, Idle, CarriesItsKind
    <2> HIDE DEF s
    <2>2. Wait(r, s) /\ UNCHANGED tables
      BY <1>4 DEF readActive, s
    <2> QED BY <2>1, <2>2, WaitKind, QuietQuotes DEF tables
  <1>5. ASSUME NEW r \in RequestId, NEW next \in QuoteId, NEW extends \in BOOLEAN,
               reviseQuote(r, next, extends)
        PROVE  QuotesShape /\ KindShape
    <2>1. PICK q \in QuoteId : /\ q = req[r].q
                               /\ QuoteExists(q) /\ quotes[q] \in QuoteRow
      BY <1>2, <1>5 DEF reviseQuote, Resumes
    <2>2. q # next /\ quotes \in [QuoteId -> QuoteRow]
      BY <1>5, <2>1 DEF reviseQuote, TypeInv, TypeOK
    <2>3. /\ Fresh(next, q) /\ OthersKept({q, next})
          /\ quotes'[q].status = "SUPERSEDED"
          /\ ~quotes'[q].active
          /\ quotes'[q].booking = quotes[q].booking
          /\ quotes'[q].parent = quotes[q].parent
          /\ LockKept(q)
      BY <1>5, <2>1, <2>2 DEF reviseQuote, insertVersion, supersede, QuoteRow, Fresh
    <2>4. DerivedKept
      BY <1>5 DEF reviseQuote, DerivedKept, QuoteOf, Invoiced
    <2> QED BY <1>5, <2>1, <2>3, <2>4, ReturnKind DEF reviseQuote, QuotesShape, Revises
  <1>6. ASSUME NEW r \in RequestId, NEW q \in QuoteId,
               NEW op \in {"acceptQuote", "declineQuote"}, readOpen(r, op, q)
        PROVE  QuotesShape /\ KindShape
    <2> DEFINE at == IF op = "acceptQuote" /\ quotes[q].lapsed THEN "expire" ELSE "commit"
               s == [Idle EXCEPT !.op = op, !.q = q, !.amount = quotes[q].amount,
                                 !.at = at]
    <2>1. CarriesItsKind(s)
      BY <1>6 DEF readOpen, Idle, CarriesItsKind
    <2> HIDE DEF s
    <2>2. Wait(r, s) /\ UNCHANGED tables
      BY <1>6 DEF readOpen, s
    <2> QED BY <2>1, <2>2, WaitKind, QuietQuotes DEF tables
  <1>7. ASSUME NEW r \in RequestId, expireQuote(r) \/ declineQuote(r)
        PROVE  QuotesShape /\ KindShape
    <2>1. PICK status \in {"EXPIRED", "REJECTED"} :
             quotes' = [quotes EXCEPT ![req[r].q].status = status,
                                      ![req[r].q].active = FALSE]
      BY <1>7 DEF expireQuote, declineQuote
    <2>2. req[r].q \in QuoteId /\ QuoteExists(req[r].q)
      BY <1>2, <1>7 DEF expireQuote, declineQuote, Resumes
    <2>3. status \in QuoteStatus \ {"SUPERSEDED"}
      BY DEF QuoteStatus
    <2>4. OthersKept({})
      BY <2>1, <2>2, <2>3, AnswerPlaces
    <2> QED BY <1>7, <2>4, NoInvoice, ReturnKind
            DEF expireQuote, declineQuote, QuotesShape, Answers
  <1>8. ASSUME NEW r \in RequestId, NEW b \in BookingId, acceptQuote(r, b)
        PROVE  QuotesShape /\ KindShape
    <2>1. PICK q \in QuoteId : q = req[r].q /\ QuoteExists(q)
      BY <1>2, <1>8 DEF acceptQuote, Resumes
    <2>2. Placed(q) /\ quotes'[q].locked /\ OthersKept({q})
      <3>1. quotes' = [quotes EXCEPT ![q].status = "ACCEPTED", ![q].active = FALSE,
                                     ![q].locked = TRUE]
        BY <1>8, <2>1 DEF acceptQuote
      <3>2. "ACCEPTED" \in QuoteStatus \ {"SUPERSEDED"}
        BY DEF QuoteStatus
      <3>3. quotes'[q].locked
        BY <2>1, <3>1 DEF TypeInv, TypeOK, QuoteRow
      <3> QED BY <2>1, <3>1, <3>2, <3>3, AnswerPlaces
    <2>3. Deals(q, b)
      BY <1>8, <2>1, <2>2, AcceptanceDerives DEF acceptQuote, Deals
    <2>4. QuotesShape
      BY <2>1, <2>3 DEF QuotesShape
    <2> QED BY <1>8, <2>4, ReturnKind DEF acceptQuote
  <1>9. ASSUME NEW r \in RequestId, acceptQuoteRollsBack(r)
        PROVE  QuotesShape /\ KindShape
    BY <1>9, ReturnKind, QuietQuotes DEF acceptQuoteRollsBack, tables
  <1> QED BY <1>1, <1>3, <1>4, <1>5, <1>6, <1>7, <1>8, <1>9 DEF QuoteFlowNext

-----------------------------------------------------------------------------
\* In the empty database nothing is locked, revised or in flight.
LEMMA InitQuotes == Init => QuoteInv
  <1> SUFFICES ASSUME Init PROVE QuoteInv
    OBVIOUS
  <1>1. \A b \in BookingId : QuoteOf(b) = NULL
    BY DEF Init, TablesInit, QuoteOf, Invoiced
  <1>2. \A q \in QuoteId : ~QuoteExists(q) /\ ~quotes[q].active /\ quotes[q].parent = NULL
    BY DEF Init, TablesInit, QuoteExists
  <1>3. RequestsCarryTheirKind
    BY DEF Init, TablesInit, RequestsCarryTheirKind, CarriesItsKind, Idle
  <1> QED BY <1>1, <1>2, <1>3 DEF QuoteInv, NamedQuotesExist, LockedIffInvoicedOnce,
             RevisedStaysOffTable, QuoteExists

\* Every step, of whichever service, keeps the invariant of the quotes.
LEMMA NextQuotes ==
    ASSUME TypeInv, SafetyInv, QuoteInv, [Next]_vars
    PROVE  QuoteInv'
  <1> SUFFICES QuotesShape /\ KindShape
    BY ShapeKeepsNames, ShapeKeepsKinds, ShapeKeepsLocks, ShapeKeepsRevisions
    DEF QuoteInv
  <1>1. CASE BookingsNext
    BY <1>1, BookingsQuotes
  <1>2. CASE OrderRequestsNext
    BY <1>2, OrderRequestsQuotes
  <1>3. CASE FulfilmentNext
    BY <1>3, FulfilmentQuotes
  <1>4. CASE BookingQuotesNext
    BY <1>4, BookingQuotesQuotes
  <1>5. CASE QuoteFlowNext
    BY <1>5, QuoteFlowQuotes
  <1>6. ASSUME NEW q \in QuoteId, Lapse(q) PROVE QuotesShape /\ KindShape
    <2>1. DerivedKept /\ OthersKept({})
      BY <1>6 DEF Lapse, TypeInv, TypeOK, QuoteRow, DerivedKept, QuoteOf, Invoiced,
             OthersKept, Placed, LockKept, QuoteExists
    <2> QED BY <1>6, <2>1 DEF Lapse, QuotesShape, Answers, KindShape
  <1>7. ASSUME NEW r \in RequestId, Fail(r) PROVE QuotesShape /\ KindShape
    BY <1>7, ReturnKind, QuietQuotes DEF Fail, tables
  <1>8. CASE UNCHANGED vars
    BY <1>8, QuietQuotes DEF vars, KindShape
  <1> QED BY <1>1, <1>2, <1>3, <1>4, <1>5, <1>6, <1>7, <1>8 DEF Next

\* The inductive strengthening of the two properties holds.
THEOREM QuoteInvariance == Spec => []QuoteInv
  <1>1. TypeInv /\ SafetyInv /\ QuoteInv /\ [Next]_vars => QuoteInv'
    BY NextQuotes
  <1> QED BY <1>1, InitQuotes, TypeInvariance, SafetyInvariance, PTL DEF Spec

\* An in-chat quote is locked exactly when one invoice was made from it,
\* however many acceptances race.
THEOREM LocksCorrect == Spec => []LockedIffInvoicedOnce
  BY QuoteInvariance, PTL DEF QuoteInv

\* A revised version never comes back on the table, and a superseded one
\* has its successor.
THEOREM RevisionsCorrect == Spec => []RevisedStaysOffTable
  BY QuoteInvariance, PTL DEF QuoteInv

=============================================================================
