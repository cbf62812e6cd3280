-------------------------- MODULE OrdersSequential --------------------------
(***************************************************************************)
(* Orders when requests do not overlap, for any number of bookings and     *)
(* quotes: what a request read is then still true when it commits          *)
(* (ReadsCurrent), and from that the services implement the status machine *)
(* and the negotiation their documentation describes, keep the audit trail *)
(* connected and the agreed terms sealed.  Only ReadsCurrent needs the     *)
(* absence of overlap: an overlap that breaks the rest breaks it first.    *)
(***************************************************************************)
EXTENDS OrdersSafety

\* At most one request is served at a time.
OneAtATime == \A r \in RequestId, s \in RequestId : r = s

\* What the request in slot s read is still so.
Current(s) ==
    /\ s.seen # NULL => s.b \in BookingId /\ bookings[s.b].status = s.seen
    /\ s.op \in {"reviseQuote", "acceptQuote", "declineQuote"} => quotes[s.q].active
    /\ s.op = "updateQuote" => ~quotes[s.q].locked

ReadsCurrent == \A r \in RequestId : Current(req[r])

-----------------------------------------------------------------------------
(* A step ends the one request, reads on for it, or inserts for none.      *)

Ends == \A r \in RequestId : req'[r] = Idle
Reads == UNCHANGED <<bookings, quotes>> /\ \A r \in RequestId : Current(req'[r])
Unrequested ==
    /\ UNCHANGED req
    /\ \A b \in BookingId : BookingExists(b) => bookings'[b] = bookings[b]
    /\ \A q \in QuoteId : QuoteExists(q) => /\ quotes'[q].active = quotes[q].active
                                            /\ quotes'[q].locked = quotes[q].locked

ServeShape == Ends \/ Reads \/ Unrequested

\* From the shape of a step: the request's read stays current.
LEMMA ShapeKeepsCurrent ==
    ASSUME TypeInv, ReadsCurrent, ServeShape
    PROVE  ReadsCurrent'
  <1>1. CASE Ends
    BY <1>1 DEF Ends, ReadsCurrent, Current, Idle
  <1>2. CASE Reads
    BY <1>2 DEF Reads, ReadsCurrent, Current
  <1>3. CASE Unrequested
    <2> SUFFICES ASSUME NEW r \in RequestId PROVE Current(req[r])'
      BY DEF ReadsCurrent
    <2>1. req'[r] = req[r] /\ req[r] \in Slot
      BY <1>3 DEF Unrequested, TypeInv, TypeOK
    <2>2. req[r].seen # NULL => BookingExists(req[r].b)
      BY <2>1 DEF ReadsCurrent, Current, BookingExists, Slot, Status
    <2>3. req[r].op \in QuoteCarriers => req[r].q \in QuoteId /\ QuoteExists(req[r].q)
      BY DEF TypeInv, RequestsCarry, Carries
    <2> QED BY <1>3, <2>1, <2>2, <2>3 DEF Unrequested, ReadsCurrent, Current,
               QuoteCarriers, BookingQuoteOps, QuoteFlowOps
  <1> QED BY <1>1, <1>2, <1>3 DEF ServeShape

\* A handler that returns was the one being served.
LEMMA ReturnEnds ==
    ASSUME OneAtATime, TypeInv, NEW r \in RequestId, Return(r)
    PROVE  ServeShape
  BY DEF OneAtATime, TypeInv, TypeOK, Return, ServeShape, Ends

\* One that awaits has read what is there.
LEMMA WaitReads ==
    ASSUME TypeInv, ReadsCurrent, NEW r \in RequestId, NEW s, Wait(r, s), Current(s),
           UNCHANGED <<bookings, quotes>>
    PROVE  ServeShape
  BY DEF TypeInv, TypeOK, Wait, ServeShape, Reads, ReadsCurrent

\* The steps of BookingsService.
LEMMA BookingsServe ==
    ASSUME OneAtATime, TypeInv, ReadsCurrent, BookingsNext
    PROVE  ServeShape
  <1>1. ASSUME NEW b \in BookingId, NEW amount \in Sum, create(b, amount)
        PROVE  ServeShape
    BY <1>1 DEF create, TypeInv, TypeOK, ServeShape, Unrequested
  <1>2. ASSUME NEW r \in RequestId, NEW op \in BookingOps, NEW b \in BookingId,
               readStatus(r, op, b)
        PROVE  ServeShape
    <2> DEFINE s == [Idle EXCEPT !.op = op, !.b = b, !.seen = bookings[b].status]
    <2>1. Current(s)
      BY DEF Idle, Current, BookingOps
    <2> HIDE DEF s
    <2>2. Wait(r, s) /\ UNCHANGED tables
      BY <1>2 DEF readStatus, s
    <2> QED BY <2>1, <2>2, WaitReads DEF tables
  <1>3. ASSUME NEW r \in RequestId, NEW op \in BookingOps, changeStatus(r, op)
        PROVE  ServeShape
    BY <1>3, ReturnEnds DEF changeStatus
  <1> QED BY <1>1, <1>2, <1>3 DEF BookingsNext

\* The steps of OrderRequestService.
LEMMA OrderRequestsServe ==
    ASSUME OneAtATime, TypeInv, ReadsCurrent, OrderRequestsNext
    PROVE  ServeShape
  <1>1. ASSUME NEW r \in RequestId, NEW amount \in Amount, openConversation(r, amount)
        PROVE  ServeShape
    <2> DEFINE s == [Idle EXCEPT !.op = "createOrder", !.amount = amount]
    <2>1. Current(s)
      BY DEF Idle, Current
    <2> HIDE DEF s
    <2>2. Wait(r, s) /\ UNCHANGED <<bookings, quotes>>
      BY <1>1 DEF openConversation, s
    <2> QED BY <2>1, <2>2, WaitReads
  <1>2. ASSUME NEW r \in RequestId, NEW op \in {"acceptOrder", "declineOrder"},
               NEW b \in BookingId, readOrder(r, op, b)
        PROVE  ServeShape
    <2> DEFINE s == [Idle EXCEPT !.op = op, !.at = "findConversation", !.b = b,
                         !.seen = "PENDING", !.amount = bookings[b].quoteAmount]
    <2>1. Current(s)
      BY <1>2 DEF readOrder, Idle, Current
    <2> HIDE DEF s
    <2>2. Wait(r, s) /\ UNCHANGED tables
      BY <1>2 DEF readOrder, s
    <2> QED BY <2>1, <2>2, WaitReads DEF tables
  <1>3. ASSUME NEW r \in RequestId, NEW op \in {"acceptOrder", "declineOrder"},
               findConversation(r, op)
        PROVE  ServeShape
    <2> DEFINE s == [req[r] EXCEPT !.at = "commit", !.conv = dm]
    <2>1. Current(s)
      BY DEF TypeInv, TypeOK, Slot, ReadsCurrent, Current
    <2> HIDE DEF s
    <2>2. (Return(r) \/ Wait(r, s)) /\ UNCHANGED tables
      BY <1>3 DEF findConversation, s
    <2> QED BY <2>1, <2>2, WaitReads, ReturnEnds DEF tables
  <1>4. ASSUME NEW r \in RequestId,
               \/ \E b \in BookingId : createOrderRequest(r, b)
               \/ declineOrder(r) \/ acceptOrder(r) \/ acceptOrderRollsBack(r)
        PROVE  ServeShape
    BY <1>4, ReturnEnds
    DEF createOrderRequest, declineOrder, acceptOrder, acceptOrderRollsBack
  <1> QED BY <1>1, <1>2, <1>3, <1>4 DEF OrderRequestsNext

\* The steps of FulfilmentService and ReviewsService.create.
LEMMA FulfilmentServe ==
    ASSUME OneAtATime, TypeInv, ReadsCurrent, FulfilmentNext
    PROVE  ServeShape
  <1>1. ASSUME NEW r \in RequestId, NEW op \in FulfilOps, NEW b \in BookingId,
               loadBooking(r, op, b)
        PROVE  ServeShape
    <2> DEFINE s == [Idle EXCEPT !.op = op, !.b = b, !.seen = bookings[b].status]
    <2>1. Current(s)
      BY DEF Idle, Current, FulfilOps
    <2> HIDE DEF s
    <2>2. Wait(r, s) /\ UNCHANGED tables
      BY <1>1 DEF loadBooking, s
    <2> QED BY <2>1, <2>2, WaitReads DEF tables
  <1>2. ASSUME NEW r \in RequestId, NEW op \in ReviewOps, NEW b \in BookingId,
               readReviewable(r, op, b)
        PROVE  ServeShape
    <2> DEFINE s == [Idle EXCEPT !.op = op, !.b = b, !.seen = "COMPLETED"]
    <2>1. Current(s)
      BY <1>2 DEF readReviewable, Idle, Current, ReviewOps
    <2> HIDE DEF s
    <2>2. Wait(r, s) /\ UNCHANGED tables
      BY <1>2 DEF readReviewable, s
    <2> QED BY <2>1, <2>2, WaitReads DEF tables
  <1>3. ASSUME NEW r \in RequestId, NEW op \in ReviewOps, createReview(r, op)
        PROVE  ServeShape
    <2> DEFINE s == [req[r] EXCEPT !.at = "postCard"]
    <2>1. Current(s)
      BY DEF TypeInv, TypeOK, Slot, ReadsCurrent, Current
    <2> HIDE DEF s
    <2>2. (Return(r) \/ Wait(r, s)) /\ UNCHANGED <<bookings, quotes>>
      BY <1>3 DEF createReview, s
    <2> QED BY <2>1, <2>2, WaitReads, ReturnEnds
  <1>4. ASSUME NEW r \in RequestId,
               \/ postUpdate(r) \/ postReviewCard(r)
               \/ \E op \in {"markDelivered", "confirmReturn"} : completeOrder(r, op)
               \/ \E op \in ReviewOps : createReviewRollsBack(r, op)
        PROVE  ServeShape
    BY <1>4, ReturnEnds DEF postUpdate, postReviewCard, completeOrder, createReviewRollsBack
  <1> QED BY <1>1, <1>2, <1>3, <1>4 DEF FulfilmentNext

\* The steps of QuotesService.
LEMMA BookingQuotesServe ==
    ASSUME OneAtATime, TypeInv, ReadsCurrent, BookingQuotesNext
    PROVE  ServeShape
  <1>1. ASSUME NEW q \in QuoteId, NEW b \in BookingId, NEW amount \in Amount,
               createBookingQuote(q, b, amount)
        PROVE  ServeShape
    BY <1>1 DEF createBookingQuote, TypeInv, TypeOK, ServeShape, Unrequested
  <1>2. ASSUME NEW r \in RequestId, NEW q \in QuoteId, readUnlocked(r, q)
        PROVE  ServeShape
    <2> DEFINE s == [Idle EXCEPT !.op = "updateQuote", !.q = q]
    <2>1. Current(s)
      BY <1>2 DEF readUnlocked, Idle, Current
    <2> HIDE DEF s
    <2>2. Wait(r, s) /\ UNCHANGED tables
      BY <1>2 DEF readUnlocked, s
    <2> QED BY <2>1, <2>2, WaitReads DEF tables
  <1>3. ASSUME NEW r \in RequestId, NEW q \in QuoteId,
               NEW op \in {"acceptBookingQuote", "rejectBookingQuote"},
               readPending(r, op, q)
        PROVE  ServeShape
    <2> DEFINE at == IF op = "rejectBookingQuote" THEN "commit"
                     ELSE IF quotes[q].lapsed THEN "expire" ELSE "readBooking"
               s == [Idle EXCEPT !.op = op, !.q = q, !.b = quotes[q].booking,
                                 !.amount = quotes[q].amount, !.at = at]
    <2>1. Current(s)
      BY DEF Idle, Current
    <2> HIDE DEF s
    <2>2. Wait(r, s) /\ UNCHANGED tables
      BY <1>3 DEF readPending, s
    <2> QED BY <2>1, <2>2, WaitReads DEF tables
  <1>4. ASSUME NEW r \in RequestId, readConfirmsBooking(r)
        PROVE  ServeShape
    <2> DEFINE s == [req[r] EXCEPT !.at = "commit", !.seen = bookings[req[r].b].status]
    <2>1. req[r].b \in BookingId /\ req[r] \in Slot
      BY <1>4 DEF readConfirmsBooking, Resumes, TypeInv, TypeOK, RequestsCarry, Carries,
             BookingCarriers
    <2>2. Current(s)
      BY <1>4, <2>1 DEF readConfirmsBooking, Resumes, Slot, Current
    <2> HIDE DEF s
    <2>3. Wait(r, s) /\ UNCHANGED tables
      BY <1>4 DEF readConfirmsBooking, s
    <2> QED BY <2>2, <2>3, WaitReads DEF tables
  <1>5. ASSUME NEW r \in RequestId,
               \/ \E newTotal \in Sum, extends \in BOOLEAN : updateQuote(r, newTotal, extends)
               \/ rejectBookingQuote(r) \/ expireBookingQuote(r) \/ acceptBookingQuote(r)
        PROVE  ServeShape
    BY <1>5, ReturnEnds
    DEF updateQuote, rejectBookingQuote, expireBookingQuote, acceptBookingQuote
  <1> QED BY <1>1, <1>2, <1>3, <1>4, <1>5 DEF BookingQuotesNext

\* The steps of QuoteFlowService.
LEMMA QuoteFlowServe ==
    ASSUME OneAtATime, TypeInv, ReadsCurrent, QuoteFlowNext
    PROVE  ServeShape
  <1>1. ASSUME NEW r \in RequestId, NEW amount \in Amount, openDirect(r, amount)
        PROVE  ServeShape
    <2> DEFINE s == [Idle EXCEPT !.op = "sendQuote", !.amount = amount]
    <2>1. Current(s)
      BY DEF Idle, Current
    <2> HIDE DEF s
    <2>2. Wait(r, s) /\ UNCHANGED <<bookings, quotes>>
      BY <1>1 DEF openDirect, s
    <2> QED BY <2>1, <2>2, WaitReads
  <1>2. ASSUME NEW r \in RequestId, NEW q \in QuoteId, NEW amount \in Amount,
               readActive(r, q, amount)
        PROVE  ServeShape
    <2> DEFINE s == [Idle EXCEPT !.op = "reviseQuote", !.q = q, !.amount = amount,
                                 !.lapsed = quotes[q].lapsed]
    <2>1. Current(s)
      BY <1>2 DEF readActive, Idle, Current
    <2> HIDE DEF s
    <2>2. Wait(r, s) /\ UNCHANGED tables
      BY <1>2 DEF readActive, s
    <2> QED BY <2>1, <2>2, WaitReads DEF tables
  <1>3. ASSUME NEW r \in RequestId, NEW q \in QuoteId,
               NEW op \in {"acceptQuote", "declineQuote"}, readOpen(r, op, q)
        PROVE  ServeShape
    <2> DEFINE at == IF op = "acceptQuote" /\ quotes[q].lapsed THEN "expire" ELSE "commit"
               s == [Idle EXCEPT !.op = op, !.q = q, !.amount = quotes[q].amount,
                                 !.at = at]
    <2>1. Current(s)
      BY <1>3 DEF readOpen, Idle, Current
    <2> HIDE DEF s
    <2>2. Wait(r, s) /\ UNCHANGED tables
      BY <1>3 DEF readOpen, s
    <2> QED BY <2>1, <2>2, WaitReads DEF tables
  <1>4. ASSUME NEW r \in RequestId,
               \/ \E q \in QuoteId : sendQuote(r, q)
               \/ \E q \in QuoteId, extends \in BOOLEAN : reviseQuote(r, q, extends)
               \/ \E b \in BookingId : acceptQuote(r, b)
               \/ expireQuote(r) \/ acceptQuoteRollsBack(r) \/ declineQuote(r)
        PROVE  ServeShape
    BY <1>4, ReturnEnds
    DEF sendQuote, reviseQuote, acceptQuote, expireQuote, acceptQuoteRollsBack, declineQuote
  <1> QED BY <1>1, <1>2, <1>3, <1>4 DEF QuoteFlowNext

\* Every step, of whichever service.
LEMMA NextServe ==
    ASSUME OneAtATime, TypeInv, ReadsCurrent, Next
    PROVE  ServeShape
  <1>1. ASSUME NEW q \in QuoteId, Lapse(q) PROVE ServeShape
    BY <1>1 DEF Lapse, TypeInv, TypeOK, QuoteRow, ServeShape, Unrequested
  <1>2. ASSUME NEW r \in RequestId, Fail(r) PROVE ServeShape
    BY <1>2, ReturnEnds DEF Fail
  <1> QED BY <1>1, <1>2, BookingsServe, OrderRequestsServe, FulfilmentServe,
             BookingQuotesServe, QuoteFlowServe DEF Next

\* A request's read stays true until it commits, one request at a time.
LEMMA CurrentInvariance == ASSUME OneAtATime PROVE Spec => []ReadsCurrent
  <1>1. Init => ReadsCurrent
    BY DEF Init, TablesInit, ReadsCurrent, Current, Idle
  <1>2. TypeInv /\ ReadsCurrent /\ [Next]_vars => ReadsCurrent'
    <2>1. ASSUME TypeInv, ReadsCurrent, UNCHANGED vars PROVE ReadsCurrent'
      BY <2>1 DEF vars, ReadsCurrent, Current
    <2> QED BY <2>1, NextServe, ShapeKeepsCurrent
  <1> QED BY <1>1, <1>2, TypeInvariance, PTL DEF Spec

-----------------------------------------------------------------------------
(* The status machine and the audit trail.                                 *)

\* A booking that moves, moves from where it is.
LEMMA MovesFromHere ==
    ASSUME ReadsCurrent, NEW b \in BookingId, NEW move \in Moves, Moved(b, move)
    PROVE  bookings[b].status = move.from
  <1>1. move.from # NULL
    BY ConstantsAssumption DEF Moves, Status
  <1> QED BY <1>1 DEF Moved, ReadsCurrent, Current

\* One step of the services is at most one step of the status machine.
LEMMA LifecycleStep ==
    ASSUME TypeInv, TypeInv', ReadsCurrent, BookingShape
    PROVE  [Lifecycle!Next]_[b \in BookingId |-> bookings[b].status]
  <1> DEFINE stage == [b \in BookingId |-> bookings[b].status]
  <1>1. CASE \A b \in BookingId : Stays(b)
    BY <1>1 DEF Stays
  <1>2. ASSUME NEW b \in BookingId, ~Stays(b)
        PROVE  Lifecycle!Next
    <2>1. \A c \in BookingId : c # b => bookings'[c].status = bookings[c].status
      BY <1>2 DEF BookingShape, Stays
    <2>2. stage' = [stage EXCEPT ![b] = bookings'[b].status]
      BY <2>1
    <2>3. CASE Appears(b)
      BY <2>2, <2>3 DEF Appears, BookingExists, Lifecycle!Next, Lifecycle!Inquire,
         Lifecycle!Materialise, Lifecycle!Move
    <2>4. ASSUME NEW move \in Moves, Moved(b, move)
          PROVE  Lifecycle!Next
      <3>1. bookings[b].status = move.from /\ bookings'[b].status = move.to
        BY <2>4, MovesFromHere DEF Moved
      <3>2. Lifecycle!Move(b, move.from, move.to)
        BY <2>2, <3>1 DEF Lifecycle!Move
      <3> QED BY <3>2 DEF Moves, Lifecycle!Next, Lifecycle!Confirm, Lifecycle!Cancel,
                 Lifecycle!Complete
    <2> QED BY <1>2, <2>3, <2>4 DEF BookingShape
  <1> QED BY <1>1, <1>2

\* A row of the audit trail starts where the one before it ended: it is the
\* status that was read, and the read is current.
LEMMA AuditStep ==
    ASSUME TypeInv, SafetyInv, ReadsCurrent, AuditTrailConnected, BookingShape
    PROVE  AuditTrailConnected'
  <1> SUFFICES ASSUME NEW b \in BookingId, NEW i \in DOMAIN history'[b], i > 1
               PROVE  history'[b][i].from = history'[b][i - 1].to
    BY DEF AuditTrailConnected
  <1>1. history[b] \in Seq(HistoryRow)
    BY DEF TypeInv, TypeOK
  <1>2. ASSUME NEW row \in HistoryRow, history'[b] = Append(history[b], row),
               history[b] # <<>> => row.from = bookings[b].status
        PROVE  history'[b][i].from = history'[b][i - 1].to
    <2>1. i \in 1..(Len(history[b]) + 1)
      BY <1>1, <1>2
    <2>2. CASE i <= Len(history[b])
      <3>1. /\ history'[b][i] = history[b][i]
            /\ history'[b][i - 1] = history[b][i - 1]
        BY <1>1, <1>2, <2>1, <2>2
      <3> QED BY <1>1, <2>1, <2>2, <3>1 DEF AuditTrailConnected
    <2>3. CASE i = Len(history[b]) + 1
      <3>1. history[b] # <<>>
        BY <2>3
      <3>2. /\ history'[b][i] = row
            /\ history'[b][i - 1] = history[b][Len(history[b])]
        BY <1>1, <1>2, <2>3
      <3>3. history[b][Len(history[b])].to = bookings[b].status
        BY <3>1 DEF SafetyInv, HistoryEndsAtStatus
      <3> QED BY <1>2, <3>1, <3>2, <3>3
    <2> QED BY <1>1, <2>1, <2>2, <2>3
  <1>3. CASE history'[b] = history[b]
    BY <1>3 DEF AuditTrailConnected
  <1>4. ASSUME NEW move \in Moves, Moved(b, move)
        PROVE  history'[b][i].from = history'[b][i - 1].to
    <2>1. move \in HistoryRow
      BY DEF Moves, HistoryRow, Status
    <2> QED BY <1>2, <1>4, <2>1, MovesFromHere DEF Moved
  <1>5. CASE Appears(b)
    <2> DEFINE start == [from |-> NULL, to |-> "PENDING"]
    <2>1. history[b] = <<>>
      <3>1. ASSUME history[b] # <<>> PROVE FALSE
        <4>1. history[b][Len(history[b])] \in HistoryRow
          BY <1>1, <3>1
        <4>2. bookings[b].status \in Status
          BY <3>1, <4>1 DEF SafetyInv, HistoryEndsAtStatus, HistoryRow
        <4> QED BY <1>5, <4>2 DEF Appears, BookingExists, Status
      <3> QED BY <3>1
    <2>2. start \in HistoryRow
      BY DEF HistoryRow, Status
    <2> HIDE DEF start
    <2>3. history'[b] = history[b] \/ history'[b] = Append(history[b], start)
      BY <1>5 DEF Appears, start
    <2> QED BY <1>2, <1>3, <2>1, <2>2, <2>3
  <1> QED BY <1>3, <1>4, <1>5 DEF BookingShape, Stays

\* Served one at a time, the services follow the status machine of
\* bookings.service.ts's header.
THEOREM LifecycleImplemented == ASSUME OneAtATime PROVE Spec => ImplementsLifecycle
  <1>1. Init => Lifecycle!Init
    BY DEF Init, TablesInit, Lifecycle!Init
  <1>2. TypeInv /\ TypeInv' /\ SafetyInv /\ ReadsCurrent /\ [Next]_vars =>
          [Lifecycle!Next]_[b \in BookingId |-> bookings[b].status]
    BY NextShape, LifecycleStep DEF StepShape
  <1> QED BY <1>1, <1>2, TypeInvariance, SafetyInvariance, CurrentInvariance, PTL
          DEF Spec, ImplementsLifecycle, Lifecycle!Spec

\* Served one at a time, the audit trail is connected.
THEOREM AuditConnected == ASSUME OneAtATime PROVE Spec => []AuditTrailConnected
  <1>1. Init => AuditTrailConnected
    BY DEF Init, TablesInit, AuditTrailConnected
  <1>2. TypeInv /\ SafetyInv /\ ReadsCurrent /\ AuditTrailConnected /\ [Next]_vars
          => AuditTrailConnected'
    BY NextShape, AuditStep DEF StepShape
  <1> QED BY <1>1, <1>2, TypeInvariance, SafetyInvariance, CurrentInvariance, PTL DEF Spec

-----------------------------------------------------------------------------
(* The negotiation.                                                        *)

\* A version on the table is PENDING, and no row is locked before it is
\* inserted.
OpenSound ==
    /\ \A q \in QuoteId : InChat(q) /\ quotes[q].active => quotes[q].status = "PENDING"
    /\ \A q \in QuoteId : ~QuoteExists(q) => ~quotes[q].locked

\* What a step does to the negotiations, one quote at a time.
Untouched(q) ==
    /\ InChat(q)' <=> InChat(q)
    /\ InChat(q) => /\ quotes'[q].active = quotes[q].active
                    /\ quotes'[q].status = quotes[q].status

UntouchedBut(Q) == \A q \in QuoteId \ Q : Untouched(q)

Open(q) == InChat(q) /\ quotes[q].active

Opens(q) ==
    /\ ~QuoteExists(q)
    /\ Open(q)'
    /\ quotes'[q].status = "PENDING"

Closes(q, statuses) ==
    /\ Open(q)
    /\ InChat(q)'
    /\ ~quotes'[q].active
    /\ quotes'[q].status \in statuses

Invoices(q, b) ==
    /\ QuoteOf(b) = NULL
    /\ QuoteOf(b)' = q
    /\ \A c \in BookingId \ {b} : QuoteOf(c)' = QuoteOf(c)

Sends(q) == Opens(q) /\ UntouchedBut({q}) /\ DerivedKept
Supersedes(q, next) ==
    /\ Closes(q, {"SUPERSEDED"})
    /\ Opens(next)
    /\ UntouchedBut({q, next})
    /\ DerivedKept
Withdraws(q) == Closes(q, {"REJECTED", "EXPIRED"}) /\ UntouchedBut({q}) /\ DerivedKept
Agrees(q, b) == Closes(q, {"ACCEPTED"}) /\ UntouchedBut({q}) /\ Invoices(q, b)

TalksShape ==
    \/ UntouchedBut({}) /\ DerivedKept
    \/ \E q \in QuoteId : Sends(q) \/ Withdraws(q)
    \/ \E q \in QuoteId, next \in QuoteId : Supersedes(q, next)
    \/ \E q \in QuoteId, b \in BookingId : Agrees(q, b)

\* A written row exists, and keeps its sum if it was locked.
TermsShape == \A q \in QuoteId :
    \/ quotes'[q] = quotes[q]
    \/ /\ QuoteExists(q)'
       /\ quotes[q].locked => quotes'[q].amount = quotes[q].amount

NegotiationShape == TalksShape /\ TermsShape

\* A step that writes neither quotes nor invoices leaves them untouched.
LEMMA QuietTalks ==
    ASSUME UNCHANGED <<quotes, invoices>>
    PROVE  NegotiationShape
  BY NoInvoice DEF NegotiationShape, TalksShape, TermsShape, UntouchedBut, Untouched,
     InChat, QuoteExists

\* Only a new version and an answer to an open one touch the table.
LEMMA ShapeKeepsOpen ==
    ASSUME OpenSound, NegotiationShape
    PROVE  OpenSound'
  <1> USE DEF NegotiationShape
  <1>1. ASSUME NEW q \in QuoteId, Open(q)' PROVE quotes'[q].status = "PENDING"
    <2>1. Untouched(q) \/ Opens(q) \/ ~quotes'[q].active
      BY DEF TalksShape, UntouchedBut, Sends, Supersedes, Withdraws, Agrees, Closes
    <2> QED BY <1>1, <2>1 DEF Untouched, Opens, Open, OpenSound
  <1>2. \A q \in QuoteId : ~QuoteExists(q)' => ~quotes'[q].locked
    BY DEF TermsShape, OpenSound, QuoteExists
  <1> QED BY <1>1, <1>2 DEF OpenSound, Open

\* One step of the services is at most one step of the negotiation.
LEMMA TalksStep ==
    ASSUME TypeInv, QuoteInv, OpenSound, NegotiationShape
    PROVE  Talks!Next \/ UNCHANGED <<{q \in QuoteId : InChat(q) /\ quotes[q].active},
                                     {q \in QuoteId : InvoiceOf(q) # {}},
                                     {q \in QuoteId : /\ InChat(q)
                                         /\ quotes[q].status \in
                                              {"SUPERSEDED", "REJECTED", "EXPIRED"}}>>
  <1> DEFINE out == {"SUPERSEDED", "REJECTED", "EXPIRED"}
             onTable == {q \in QuoteId : InChat(q) /\ quotes[q].active}
             deals == {q \in QuoteId : InvoiceOf(q) # {}}
             withdrawn == {q \in QuoteId : InChat(q) /\ quotes[q].status \in out}
  <1>1. ASSUME DerivedKept PROVE deals' = deals
    <2>1. \A q \in QuoteId : InvoiceOf(q)' = InvoiceOf(q)
      BY <1>1, InvoiceOfIs DEF DerivedKept
    <2> QED BY <2>1
  <1>2. ASSUME NEW q \in QuoteId, Untouched(q)
        PROVE  /\ q \in onTable' <=> q \in onTable
               /\ q \in withdrawn' <=> q \in withdrawn
    BY <1>2 DEF Untouched
  <1>3. ASSUME NEW q \in QuoteId, Opens(q)
        PROVE  /\ q \in onTable' /\ q \notin withdrawn'
               /\ Talks!Fresh(q)
    <2>1. q \in onTable' /\ q \notin withdrawn'
      BY <1>3 DEF Opens, Open
    <2>2. q \notin onTable /\ q \notin deals /\ q \notin withdrawn
      BY <1>3, AbsentUnnamed DEF Opens, InChat
    <2> QED BY <2>1, <2>2 DEF Talks!Fresh
  <1>4. ASSUME NEW q \in QuoteId, NEW statuses, Closes(q, statuses)
        PROVE  /\ q \in onTable /\ q \notin onTable' /\ q \notin withdrawn
               /\ q \in withdrawn' <=> quotes'[q].status \in out
    BY <1>4 DEF Closes, Open, OpenSound
  <1>5. CASE UntouchedBut({}) /\ DerivedKept
    <2>1. onTable' = onTable /\ withdrawn' = withdrawn
      BY <1>2, <1>5 DEF UntouchedBut
    <2> QED BY <1>1, <1>5, <2>1
  <1>6. /\ onTable \subseteq QuoteId /\ onTable' \subseteq QuoteId
        /\ withdrawn \subseteq QuoteId /\ withdrawn' \subseteq QuoteId
    OBVIOUS
  <1>7. ASSUME NEW q \in QuoteId, Sends(q) PROVE Talks!Next
    <2> HIDE DEF onTable, withdrawn, deals
    <2>1. Talks!Fresh(q) /\ q \in onTable' /\ q \notin withdrawn' /\ q \notin withdrawn
      BY <1>3, <1>7 DEF Sends, Opens, InChat, withdrawn
    <2>2. \A p \in QuoteId \ {q} : /\ p \in onTable' <=> p \in onTable
                                   /\ p \in withdrawn' <=> p \in withdrawn
      BY <1>2, <1>7 DEF Sends, UntouchedBut
    <2>3. onTable' = onTable \cup {q} /\ withdrawn' = withdrawn
      BY <1>6, <2>1, <2>2
    <2>4. deals' = deals
      BY <1>1, <1>7 DEF Sends
    <2> QED BY <2>1, <2>3, <2>4 DEF Talks!Next, Talks!Send, onTable, deals, withdrawn
  <1>8. ASSUME NEW q \in QuoteId, Withdraws(q) PROVE Talks!Next
    <2> HIDE DEF onTable, withdrawn, deals
    <2>1. q \in onTable /\ q \notin onTable' /\ q \in withdrawn'
      BY <1>4, <1>8 DEF Withdraws, Closes
    <2>2. \A p \in QuoteId \ {q} : /\ p \in onTable' <=> p \in onTable
                                   /\ p \in withdrawn' <=> p \in withdrawn
      BY <1>2, <1>8 DEF Withdraws, UntouchedBut
    <2>3. onTable' = onTable \ {q} /\ withdrawn' = withdrawn \cup {q}
      BY <1>6, <2>1, <2>2
    <2>4. deals' = deals
      BY <1>1, <1>8 DEF Withdraws
    <2> QED BY <2>1, <2>3, <2>4 DEF Talks!Next, Talks!Withdraw, onTable, deals, withdrawn
  <1>9. ASSUME NEW q \in QuoteId, NEW next \in QuoteId, Supersedes(q, next)
        PROVE  Talks!Next
    <2> HIDE DEF onTable, withdrawn, deals
    <2>1. q \in onTable /\ q \notin onTable' /\ q \in withdrawn'
      BY <1>4, <1>9 DEF Supersedes, Closes
    <2>2. /\ Talks!Fresh(next) /\ next \in onTable'
          /\ next \notin withdrawn' /\ next \notin withdrawn
      BY <1>3, <1>9 DEF Supersedes, Opens, InChat, withdrawn
    <2>3. \A p \in QuoteId \ {q, next} : /\ p \in onTable' <=> p \in onTable
                                         /\ p \in withdrawn' <=> p \in withdrawn
      BY <1>2, <1>9 DEF Supersedes, UntouchedBut
    <2>4. onTable' = (onTable \ {q}) \cup {next} /\ withdrawn' = withdrawn \cup {q}
      BY <1>6, <2>1, <2>2, <2>3
    <2>5. deals' = deals
      BY <1>1, <1>9 DEF Supersedes
    <2>6. Talks!Revise(q, next)
      BY <2>1, <2>2, <2>4, <2>5 DEF Talks!Revise, onTable, deals, withdrawn
    <2> QED BY <2>6 DEF Talks!Next
  <1>10. ASSUME NEW q \in QuoteId, NEW b \in BookingId, Agrees(q, b) PROVE Talks!Next
    <2>1. deals' = deals \cup {q}
      <3>1. b \in InvoiceOf(q)'
        BY <1>10, InvoiceOfIs DEF Agrees, Invoices
      <3>2. \A p \in QuoteId \ {q} : InvoiceOf(p)' = InvoiceOf(p)
        BY <1>10, InvoiceOfIs, ConstantsAssumption DEF Agrees, Invoices
      <3> QED BY <3>1, <3>2
    <2> HIDE DEF onTable, withdrawn, deals
    <2>2. q \in onTable /\ q \notin onTable' /\ q \notin withdrawn /\ q \notin withdrawn'
      BY <1>4, <1>10 DEF Agrees, Closes
    <2>3. \A p \in QuoteId \ {q} : /\ p \in onTable' <=> p \in onTable
                                   /\ p \in withdrawn' <=> p \in withdrawn
      BY <1>2, <1>10 DEF Agrees, UntouchedBut
    <2>4. onTable' = onTable \ {q} /\ withdrawn' = withdrawn
      BY <1>6, <2>2, <2>3
    <2> QED BY <2>1, <2>2, <2>4 DEF Talks!Next, Talks!Agree, onTable, deals, withdrawn
  <1> QED BY <1>5, <1>7, <1>8, <1>9, <1>10 DEF NegotiationShape, TalksShape

\* What a request is about to answer is open, and what it is about to
\* rewrite is unlocked.
LEMMA AnswersOpen ==
    ASSUME TypeInv, QuoteInv, ReadsCurrent, NEW r \in RequestId
    PROVE  /\ req[r].op \in QuoteCarriers =>
                 req[r].q \in QuoteId /\ QuoteExists(req[r].q)
           /\ req[r].op \in {"reviseQuote", "acceptQuote", "declineQuote"} => Open(req[r].q)
           /\ req[r].op \in {"acceptBookingQuote", "rejectBookingQuote"} =>
                 ~InChat(req[r].q)
           /\ req[r].op = "updateQuote" => ~quotes[req[r].q].locked
  <1>1. /\ Carries(req[r]) /\ CarriesItsKind(req[r]) /\ Current(req[r])
    BY DEF TypeInv, RequestsCarry, QuoteInv, RequestsCarryTheirKind, ReadsCurrent
  <1> QED BY <1>1 DEF Carries, CarriesItsKind, Current, Open, InChat, QuoteCarriers,
             BookingQuoteOps, QuoteFlowOps

\* The steps of the services that write no quote.
LEMMA BookingsTalk ==
    ASSUME TypeInv, BookingsNext \/ OrderRequestsNext \/ FulfilmentNext
    PROVE  NegotiationShape
  <1>1. CASE BookingsNext
    BY <1>1, QuietTalks DEF BookingsNext, create, readStatus, changeStatus, tables
  <1>2. CASE FulfilmentNext
    BY <1>2, QuietTalks DEF FulfilmentNext, loadBooking, postUpdate, completeOrder,
       readReviewable, createReview, createReviewRollsBack, postReviewCard, tables
  <1>3. ASSUME NEW r \in RequestId, acceptOrder(r) PROVE NegotiationShape
    <2>1. DerivedKept
      BY <1>3 DEF acceptOrder, createDirectInvoice, TypeInv, TypeOK, DerivedKept,
             QuoteOf, Invoiced
    <2> QED BY <1>3, <2>1 DEF acceptOrder, NegotiationShape, TalksShape, TermsShape,
               UntouchedBut, Untouched, InChat, QuoteExists
  <1>4. CASE OrderRequestsNext
    BY <1>3, <1>4, QuietTalks DEF OrderRequestsNext, openConversation,
       createOrderRequest, readOrder, findConversation, declineOrder,
       acceptOrderRollsBack, tables
  <1> QED BY <1>1, <1>2, <1>4

\* An answer that a handler writes on an open in-chat quote closes it, and
\* touches no other.
LEMMA AnswerCloses ==
    ASSUME TypeInv, NEW q \in QuoteId, Open(q), NEW status \in QuoteStatus,
           \/ quotes' = [quotes EXCEPT ![q].status = status, ![q].active = FALSE]
           \/ quotes' = [quotes EXCEPT ![q].status = status, ![q].active = FALSE,
                                       ![q].locked = TRUE]
    PROVE  Closes(q, {status}) /\ UntouchedBut({q}) /\ TermsShape
  <1>1. quotes[q] \in QuoteRow /\ q \in DOMAIN quotes /\ status # "ABSENT"
    BY DEF TypeInv, TypeOK, QuoteStatus
  <1>2. /\ quotes'[q].status = status /\ ~quotes'[q].active
        /\ quotes'[q].booking = quotes[q].booking
        /\ quotes'[q].amount = quotes[q].amount
    <2>1. CASE quotes' = [quotes EXCEPT ![q].status = status, ![q].active = FALSE]
      BY <1>1, <2>1 DEF QuoteRow
    <2>2. CASE quotes' = [quotes EXCEPT ![q].status = status, ![q].active = FALSE,
                                        ![q].locked = TRUE]
      BY <1>1, <2>2 DEF QuoteRow
    <2> QED BY <2>1, <2>2
  <1>3. \A p \in QuoteId \ {q} : quotes'[p] = quotes[p]
    BY DEF TypeInv, TypeOK
  <1>4. Closes(q, {status})
    BY <1>1, <1>2 DEF Closes, Open, InChat, QuoteExists
  <1>5. UntouchedBut({q})
    BY <1>3 DEF UntouchedBut, Untouched, InChat, QuoteExists
  <1>6. TermsShape
    BY <1>1, <1>2, <1>3 DEF TermsShape, QuoteExists
  <1> QED BY <1>4, <1>5, <1>6

\* QuotesService writes no open in-chat quote but to change its terms,
\* while it is unlocked.
LEMMA BookingQuotesTalk ==
    ASSUME TypeInv, QuoteInv, OpenSound, ReadsCurrent, BookingQuotesNext
    PROVE  NegotiationShape
  <1> USE DEF NegotiationShape, TalksShape
  <1>1. ASSUME NEW q \in QuoteId, NEW b \in BookingId, NEW amount \in Amount,
               createBookingQuote(q, b, amount)
        PROVE  NegotiationShape
    <2>1. /\ ~QuoteExists(q) /\ QuoteExists(q)' /\ ~InChat(q)'
          /\ ~quotes[q].locked
          /\ \A p \in QuoteId \ {q} : quotes'[p] = quotes[p]
      BY <1>1, ConstantsAssumption
      DEF createBookingQuote, TypeInv, TypeOK, QuoteExists, InChat, OpenSound
    <2>2. UntouchedBut({}) /\ TermsShape
      BY <2>1 DEF UntouchedBut, Untouched, InChat, QuoteExists, TermsShape
    <2> QED BY <1>1, <2>2, NoInvoice DEF createBookingQuote
  <1>2. ASSUME NEW r \in RequestId,
               \/ \E q \in QuoteId : readUnlocked(r, q)
               \/ \E q \in QuoteId, op \in {"acceptBookingQuote", "rejectBookingQuote"} :
                     readPending(r, op, q)
               \/ readConfirmsBooking(r)
        PROVE  NegotiationShape
    BY <1>2, QuietTalks DEF readUnlocked, readPending, readConfirmsBooking, tables
  <1>3. ASSUME NEW r \in RequestId, NEW newTotal \in Sum, NEW extends \in BOOLEAN,
               updateQuote(r, newTotal, extends)
        PROVE  NegotiationShape
    <2>1. PICK q \in QuoteId : q = req[r].q /\ QuoteExists(q) /\ ~quotes[q].locked
      BY <1>3, AnswersOpen DEF updateQuote, Resumes, QuoteCarriers, BookingQuoteOps
    <2>2. quotes[q] \in QuoteRow /\ q \in DOMAIN quotes
      BY DEF TypeInv, TypeOK
    <2>3. /\ quotes'[q].status = quotes[q].status
          /\ quotes'[q].active = quotes[q].active
          /\ quotes'[q].booking = quotes[q].booking
          /\ \A p \in QuoteId \ {q} : quotes'[p] = quotes[p]
      BY <1>3, <2>1, <2>2 DEF updateQuote, TypeInv, TypeOK, QuoteRow
    <2>4. UntouchedBut({}) /\ TermsShape
      BY <2>1, <2>3 DEF UntouchedBut, Untouched, InChat, QuoteExists, TermsShape
    <2> QED BY <1>3, <2>4, NoInvoice DEF updateQuote
  <1>4. ASSUME NEW r \in RequestId,
               rejectBookingQuote(r) \/ expireBookingQuote(r) \/ acceptBookingQuote(r)
        PROVE  NegotiationShape
    <2>1. PICK q \in QuoteId : q = req[r].q /\ QuoteExists(q) /\ ~InChat(q)
      BY <1>4, AnswersOpen DEF rejectBookingQuote, expireBookingQuote,
         acceptBookingQuote, Resumes, QuoteCarriers, BookingQuoteOps
    <2>2. quotes[q] \in QuoteRow /\ q \in DOMAIN quotes
      BY DEF TypeInv, TypeOK
    <2>3. /\ quotes'[q].booking = quotes[q].booking
          /\ quotes'[q].amount = quotes[q].amount
          /\ quotes'[q].status # "ABSENT"
          /\ \A p \in QuoteId \ {q} : quotes'[p] = quotes[p]
      <3>1. PICK status \in {"REJECTED", "EXPIRED", "ACCEPTED"} :
               \/ quotes' = [quotes EXCEPT ![q].status = status]
               \/ quotes' = [quotes EXCEPT ![q].status = status, ![q].locked = TRUE]
        BY <1>4, <2>1 DEF rejectBookingQuote, expireBookingQuote, acceptBookingQuote
      <3>2. quotes \in [QuoteId -> QuoteRow]
        BY DEF TypeInv, TypeOK
      <3>3. CASE quotes' = [quotes EXCEPT ![q].status = status]
        BY <2>1, <3>2, <3>3 DEF QuoteRow
      <3>4. CASE quotes' = [quotes EXCEPT ![q].status = status, ![q].locked = TRUE]
        BY <2>1, <3>2, <3>4 DEF QuoteRow
      <3> QED BY <3>1, <3>3, <3>4
    <2>4. UntouchedBut({}) /\ TermsShape
      BY <2>1, <2>3 DEF UntouchedBut, Untouched, InChat, QuoteExists, TermsShape
    <2> QED BY <1>4, <2>4, NoInvoice
            DEF rejectBookingQuote, expireBookingQuote, acceptBookingQuote
  <1> QED BY <1>1, <1>2, <1>3, <1>4 DEF BookingQuotesNext

\* QuoteFlowService sends, supersedes, withdraws and agrees.
LEMMA QuoteFlowTalk ==
    ASSUME TypeInv, SafetyInv, QuoteInv, OpenSound, ReadsCurrent, QuoteFlowNext
    PROVE  NegotiationShape
  <1> USE DEF NegotiationShape
  <1>1. ASSUME NEW r \in RequestId,
               \/ \E amount \in Amount : openDirect(r, amount)
               \/ \E q \in QuoteId, amount \in Amount : readActive(r, q, amount)
               \/ \E q \in QuoteId, op \in {"acceptQuote", "declineQuote"} :
                     readOpen(r, op, q)
               \/ acceptQuoteRollsBack(r)
        PROVE  NegotiationShape
    BY <1>1, QuietTalks DEF openDirect, readActive, readOpen, acceptQuoteRollsBack, tables
  <1>2. ASSUME NEW r \in RequestId, NEW q \in QuoteId, sendQuote(r, q)
        PROVE  NegotiationShape
    <2>1. /\ Opens(q) /\ ~quotes[q].locked /\ QuoteExists(q)'
          /\ \A p \in QuoteId \ {q} : quotes'[p] = quotes[p]
      BY <1>2 DEF sendQuote, insertVersion, TypeInv, TypeOK, Opens, Open, InChat,
             QuoteExists, OpenSound
    <2>2. UntouchedBut({q}) /\ TermsShape
      BY <2>1 DEF UntouchedBut, Untouched, InChat, QuoteExists, TermsShape
    <2> QED BY <1>2, <2>1, <2>2, NoInvoice DEF sendQuote, TalksShape, Sends
  <1>3. ASSUME NEW r \in RequestId, NEW next \in QuoteId, NEW extends \in BOOLEAN,
               reviseQuote(r, next, extends)
        PROVE  NegotiationShape
    <2>1. PICK q \in QuoteId : q = req[r].q /\ QuoteExists(q) /\ Open(q)
      BY <1>3, AnswersOpen DEF reviseQuote, Resumes, QuoteCarriers, QuoteFlowOps
    <2>2. /\ q # next /\ quotes[q] \in QuoteRow
          /\ quotes \in [QuoteId -> QuoteRow]
      BY <1>3, <2>1 DEF reviseQuote, TypeInv, TypeOK
    <2>3. /\ quotes'[q].status = "SUPERSEDED" /\ ~quotes'[q].active
          /\ quotes'[q].booking = quotes[q].booking
          /\ quotes'[q].amount = quotes[q].amount
          /\ \A p \in QuoteId \ {q, next} : quotes'[p] = quotes[p]
      BY <1>3, <2>1, <2>2 DEF reviseQuote, insertVersion, supersede, QuoteRow
    <2>4. Opens(next) /\ QuoteExists(next)' /\ ~quotes[next].locked
      BY <1>3, <2>2 DEF reviseQuote, insertVersion, supersede, Opens, Open, InChat,
         QuoteExists, OpenSound
    <2>5. Closes(q, {"SUPERSEDED"})
      BY <2>1, <2>3 DEF Closes, Open, InChat, QuoteExists
    <2>6. UntouchedBut({q, next}) /\ TermsShape
      BY <2>3, <2>4 DEF UntouchedBut, Untouched, InChat, QuoteExists, TermsShape
    <2>7. Supersedes(q, next)
      BY <1>3, <2>4, <2>5, <2>6, NoInvoice DEF reviseQuote, Supersedes
    <2> QED BY <2>6, <2>7 DEF TalksShape
  <1>4. ASSUME NEW r \in RequestId, expireQuote(r) \/ declineQuote(r)
        PROVE  NegotiationShape
    <2>1. PICK q \in QuoteId : q = req[r].q /\ Open(q)
      BY <1>4, AnswersOpen DEF expireQuote, declineQuote, Resumes, QuoteCarriers,
         QuoteFlowOps
    <2>2. PICK status \in {"REJECTED", "EXPIRED"} :
             quotes' = [quotes EXCEPT ![q].status = status, ![q].active = FALSE]
      BY <1>4, <2>1 DEF expireQuote, declineQuote
    <2>3. Closes(q, {status}) /\ UntouchedBut({q}) /\ TermsShape
      BY <2>1, <2>2, AnswerCloses DEF QuoteStatus
    <2>4. Withdraws(q)
      BY <1>4, <2>3, NoInvoice DEF expireQuote, declineQuote, Withdraws, Closes
    <2> QED BY <2>3, <2>4 DEF TalksShape
  <1>5. ASSUME NEW r \in RequestId, NEW b \in BookingId, acceptQuote(r, b)
        PROVE  NegotiationShape
    <2>1. PICK q \in QuoteId : q = req[r].q /\ QuoteExists(q) /\ Open(q)
      BY <1>5, AnswersOpen DEF acceptQuote, Resumes, QuoteCarriers, QuoteFlowOps
    <2>2. quotes' = [quotes EXCEPT ![q].status = "ACCEPTED", ![q].active = FALSE,
                                   ![q].locked = TRUE]
      BY <1>5, <2>1 DEF acceptQuote
    <2>3. Closes(q, {"ACCEPTED"}) /\ UntouchedBut({q}) /\ TermsShape
      BY <2>1, <2>2, AnswerCloses DEF QuoteStatus
    <2>4. Invoices(q, b)
      BY <1>5, <2>1, AcceptanceDerives DEF Invoices
    <2> QED BY <2>1, <2>3, <2>4 DEF TalksShape, Agrees
  <1> QED BY <1>1, <1>2, <1>3, <1>4, <1>5 DEF QuoteFlowNext

\* Every step, of whichever service.
LEMMA NextTalks ==
    ASSUME TypeInv, SafetyInv, QuoteInv, OpenSound, ReadsCurrent, [Next]_vars
    PROVE  NegotiationShape
  <1>1. ASSUME NEW q \in QuoteId, Lapse(q) PROVE NegotiationShape
    <2>1. quotes[q] \in QuoteRow /\ q \in DOMAIN quotes
      BY DEF TypeInv, TypeOK
    <2>2. /\ quotes'[q].booking = quotes[q].booking
          /\ quotes'[q].amount = quotes[q].amount
          /\ quotes'[q].active = quotes[q].active
          /\ quotes'[q].status = quotes[q].status
          /\ quotes[q].status = "PENDING"
          /\ \A p \in QuoteId \ {q} : quotes'[p] = quotes[p]
      BY <1>1, <2>1 DEF Lapse, TypeInv, TypeOK, QuoteRow
    <2>3. UntouchedBut({}) /\ TermsShape
      BY <2>2 DEF UntouchedBut, Untouched, InChat, QuoteExists, TermsShape
    <2> QED BY <1>1, <2>3, NoInvoice DEF Lapse, NegotiationShape, TalksShape
  <1>2. ASSUME NEW r \in RequestId, Fail(r) PROVE NegotiationShape
    BY <1>2, QuietTalks DEF Fail, tables
  <1>3. CASE UNCHANGED vars
    BY <1>3, QuietTalks DEF vars
  <1> QED BY <1>1, <1>2, <1>3, BookingsTalk, BookingQuotesTalk, QuoteFlowTalk DEF Next

\* One request at a time, what is on the table is open.
LEMMA OpenInvariance == ASSUME OneAtATime PROVE Spec => []OpenSound
  <1>1. Init => OpenSound
    BY DEF Init, TablesInit, OpenSound, InChat, QuoteExists
  <1>2. TypeInv /\ SafetyInv /\ QuoteInv /\ ReadsCurrent /\ OpenSound /\ [Next]_vars
          => OpenSound'
    BY NextTalks, ShapeKeepsOpen
  <1> QED BY <1>1, <1>2, TypeInvariance, SafetyInvariance, QuoteInvariance,
             CurrentInvariance, PTL DEF Spec

\* Served one at a time, send, revise, accept and decline keep one version
\* of a negotiation on the table and make deals only of that version.
THEOREM NegotiationImplemented == ASSUME OneAtATime PROVE Spec => ImplementsNegotiation
  <1>1. Init => Talks!Init
    BY DEF Init, TablesInit, Talks!Init, InChat, QuoteExists, InvoiceOf, Invoiced
  <1>2. TypeInv /\ SafetyInv /\ QuoteInv /\ ReadsCurrent /\ OpenSound /\ [Next]_vars =>
          [Talks!Next]_<<{q \in QuoteId : InChat(q) /\ quotes[q].active},
                         {q \in QuoteId : InvoiceOf(q) # {}},
                         {q \in QuoteId : /\ InChat(q)
                             /\ quotes[q].status \in
                                  {"SUPERSEDED", "REJECTED", "EXPIRED"}}>>
    BY NextTalks, TalksStep
  <1> QED BY <1>1, <1>2, TypeInvariance, SafetyInvariance, QuoteInvariance,
             CurrentInvariance, OpenInvariance, PTL
          DEF Spec, ImplementsNegotiation, Talks!Spec

\* Served one at a time, no route rewrites the sum of a locked quote.
THEOREM LockSealsTerms == ASSUME OneAtATime PROVE Spec => TermsSealed
  <1>1. TypeInv /\ SafetyInv /\ QuoteInv /\ ReadsCurrent /\ OpenSound /\ [Next]_vars =>
          [\A q \in QuoteId : quotes[q].locked => quotes'[q].amount = quotes[q].amount]_vars
    BY NextTalks DEF NegotiationShape, TermsShape
  <1> QED BY <1>1, TypeInvariance, SafetyInvariance, QuoteInvariance,
             CurrentInvariance, OpenInvariance, PTL DEF Spec, TermsSealed
=============================================================================
