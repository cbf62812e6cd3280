# TLA+ verification of planovar-api

planovar-api is a NestJS service over Postgres (through Prisma), Redis and
Typesense, with a Socket.io gateway for chat: the back end of a marketplace where
clients book event vendors. This directory holds its TLA+ model, the TLC
configurations that check it on small instances, and theorems proved with TLAPS
for instances of any size. `PROJECT.json` maps every definition to source lines.

    tlc -workers 2 -config MCOrdersRaces.cfg MCOrders     # one run
    tlc -workers 2 -config MCEntitlementsWeb.cfg MCEntitlements
    tlc -workers 2 -config MCInbox.cfg MCInbox
    tlc -workers 2 -config MCCatalog.cfg MCCatalog
    tlapm OrdersSafety.tla ; tlapm OrdersSequential.tla   # proofs; likewise InboxTypes,
                                                          # InboxSafety, EntitlementsSafety,
                                                          # EntitlementsSequential, CatalogTypes,
                                                          # CatalogSafety

## 1. The system

Every handler is an HTTP route (or a cron job, webhook or socket event) run by a
Node process, of which several may serve the same database. All lasting state is
in Postgres rows; Redis and Typesense hold copies. There is no lock and no
isolation above READ COMMITTED: what a handler reads may be overtaken at each of
its awaits, and what protects the data is (a) the single `$transaction` that most
handlers end with, and (b) the unique indexes of `prisma/schema.prisma`.

| Component (`src/src/modules` unless said) | State | Operations | Interacts with | Hard behaviour | What makes it correct |
|---|---|---|---|---|---|
| bookings | `bookings`, `booking_status_history` | create, confirm, reject, cancel, complete | quotes, chat-orders and reviews write or read the same rows | status tested on a read, written by id later | status machine; complete audit trail; answers are final |
| chat-orders: order requests, invoices | `bookings`, `invoices`, cards in `messages` | createOrderRequest, respondToOrder | DM, invoices, history | two acceptances; cancel during an acceptance | one invoice per booking; all or nothing |
| chat-orders: quote flow | `quotes` (versions), `invoices`, `bookings` | sendQuote, reviseQuote, acceptQuote, declineQuote | invoices | accept against decline, revise, expiry, update | one version on the table; an accepted version is one invoice |
| quotes | `quotes` of a booking | create, update, accept, reject | bookings | second read decides the confirmation; update against accept | accepted terms sealed; status and history agree |
| chat-orders: fulfilment | `bookings`, cards | postUpdate, markDelivered, confirmReturn, submitReview | invoices, reviews | status excluded rather than required | only confirmed orders complete |
| reviews | `reviews`, rating on `vendor_profiles`, Redis key | create, respond | bookings, vendors | gate read then insert; aggregate under READ COMMITTED | only completed bookings reviewed, once; rating counts all |
| subscriptions, billing | `vendor_subscriptions`, `trial_claims`, tier on `vendor_profiles` | subscribe, verifyPayment, cancel, webhooks, nightly sweep | Paystack, Stripe, listings limit, calls | polls, retries and duplicate, reordered webhooks; the sweep races them | a paid plan is tried, paid for or exchanged; one live row; one trial; lapsed ones expire |
| subscriptions: in-app purchases | the same rows | verify, Apple and Google notifications | stores | replay, reorder | one store transaction, one subscription |
| messaging | `conversations`, participants, `messages`, `unread_count` | DM and group creation, sendMessage, markRead | cards, events, sockets | find-then-create; shared isRead; counters | one DM per pair; unread counts what was not read |
| chat-orders: todos | `todos`, `todo_assignments` | create, toggle, delete | groups | lost toggles | only members assigned |
| vendors | `vendor_profiles`, KYC documents, Redis keys | onboard, update, submitKyc, reviewKyc | search, cache, admin | resubmission during a review; cache filled after invalidation | a verdict replaces another only by a review that read the documents as submitted; pages differ only by named races and omissions |
| listings | `listings`, Redis keys, search index | create, update, remove, views | tier of the vendor, search | limit counted before insert; reactivation | limit holds; index follows rows |
| events | `events`, vendors and listings of an event | create, update, cancel, add and remove | group conversation | vendor added while the group is created | group has every vendor of the event |
| disputes | `disputes` | create, updateStatus, resolve | bookings | two admins; updateStatus tests nothing | a resolution is replaced only by a commit that read the dispute as undecided |
| users, admin, auth | `users`, sessions | deactivate, reactivate, delete, setUserActive, updatePlan | all | reactivation against deletion | a deleted account stays so |
| search, `common/typesense` | documents of Typesense | upsert, delete, bulk synchronisation, searches | vendors, listings | written after the answer, best effort, from an earlier read | what is browsed is found; what is deleted is not; only approved vendors are |
| messaging gateway, `common/realtime` | sockets and rooms | connect, join, leave, message | messaging | sockets and members come and go between store and push | a push reaches the members, and nobody else |
| categories, locations, notifications, calls, email, push, upload, audit | reference data, copies or logs | reads, best-effort writes | external services | failures are swallowed | none of their state is read back by the handlers above |

`PROJECT.json` lists each component with its status and each hazard with its line.

## 2. The models

### 2.1 Taking orders

Six services write the same five tables, which makes the order path the core of
the program and the part where handlers meet.

    OrderTables          the tables, the requests in flight, type invariant
      Bookings           bookings.service.ts
      OrderRequests      order-request.service.ts, invoice.service.ts (direct invoices)
      Fulfilment         fulfilment.service.ts, reviews.service.ts (create)
      BookingQuotes      quotes.service.ts
      QuoteFlow          quote-flow.service.ts, invoice.service.ts (from quotes)
        Orders           their composition, the properties, the refinements
          MCOrders       route sets and symmetry for TLC
          OrdersSafety   proofs: types, safety, locks and revisions of quotes
            OrdersSequential  proofs: the refinements, requests one at a time
    BookingLifecycle     abstract: the status machine of a booking
    Negotiation          abstract: versions on the table, deals, withdrawals

**State.** One variable per table (`bookings`, `history`, `invoices`, `quotes`,
`reviews`), `dm` for the conversation of the pair, `cards` counting the chat
cards per kind and subject, and `req`: what each request in flight carries.
A booking keeps its status and its two amounts; a quote keeps status, amount,
chain (`parent`, `version`), `active`, `locked` and `lapsed` (validUntil is past).

**Steps.** A handler is cut where the code awaits and could be overtaken. Its
*read* actions (`readStatus`, `readOrder`, `loadBooking`, `readOpen`, ...) take
a free slot, test the row as the code does and store the locals; a refused
request leaves no trace and takes no step. Its *commit* action is one
`$transaction`, with everything the transaction writes: rows, history, invoice
and cards. As in the code, a commit re-tests nothing. Where a unique index is in
the way, the `...RollsBack` action is taken: the request ends and no table
changes. `acceptBookingQuote` has two reads, `submitReview` two transactions,
`createOrder` and `sendQuote` commit the conversation before the order, and an
acceptance that read an expired quote commits the expiry; each is a step.
`Fail` ends a request anywhere (a crash, a lost connection, a refusal inside the
transaction): whatever it committed before stays. `Lapse` passes a quote's
validUntil.

**Choices and limits of the abstraction**
- One client and one vendor. Ownership tests compare columns that never change,
  so they select who may call and say nothing about interleavings.
- A Prisma call is one consistent read. A `$transaction` is atomic: inside one, the
  handlers write rows by id and read no row of these tables.
- E-mails, notifications and socket broadcasts are sent after the commit, not
  awaited or with errors swallowed, and leave nothing the handlers read.
- `ACTIVE` and `DISPUTED` of `BookingStatus` are written nowhere in the code and so
  are not in `Status`.
- `dm` is a Boolean: the duplicates two first contacts can create belong to
  messaging; an order needs to know only whether a conversation exists.
- `quotes.update` serves any quote of the vendor, in-chat ones too, and
  `respondToOrder` answers any PENDING booking, inquiries too. The model does both.
- The 400s of `createFromQuoteTx` (a quote without client, listing or conversation)
  roll back the transaction: they are `Fail`.
- The rating aggregate that `reviews.create` also writes is not in this model.

### 2.2 Vendor plans

Five sources change a vendor's plan: its own routes, the nightly sweep, Paystack's
webhooks, the app stores, and time. They meet in the rows of `vendor_subscriptions`
and in one column, the profile's tier, that listing limits and calls rely on.

    SubscriptionTables   the tables, the slots, the clock, type invariant
      Subscriptions      subscriptions.service.ts, vendor routes
      RenewalSweep       subscriptions.service.ts, expireLapsedSubscriptions
      BillingWebhooks    subscriptions.service.ts, Paystack webhook handlers
      StorePurchases     iap.service.ts
        Entitlements     their composition, fairness, properties, refinement
          MCEntitlements route sets and symmetry for TLC
          EntitlementsSafety      proofs: types, activations paid
            EntitlementsSequential  proofs: one at a time, trials and the plan of record
    PlanOfRecord         abstract: the plan a vendor is on, trials, the checkout each paid plan is of

**State.** `subs` is the table in order of `createdAt`, so "latest" is the greatest
index; `tier` the profile's column; `claims` the trial ledger; `checkout[s]` the
provider's charge for the checkout that made row `s` (external); `req` the slots.
A row keeps vendor, plan tier, status, `ending` (cancelAtPeriodEnd), the provider's
id (a checkout's reference, later the subscription's code) and the store's transaction.

**Time** is `clock` on a row: within its window, past its end, past it by the three
days of grace. The window is the trial of a TRIALING row and the period of any other;
the two never get mixed because every step that ends TRIALING also renews the period,
or (a store's renewal) finds the two dates equal. Ticks of rows are independent, which
allows any mix of monthly and yearly periods.

**Steps.** As above: a reading action, then a commit. `subscribe` has three: the live
row is read first, eligibility and credit later (`price`), and each outcome commits.
The sweep collects ids, then for each row looks for another live row and commits;
`todo` is what is left of its list. `payment_failed` and `not_renew` are single
statements and so single steps. `getMySubscription` is a step only when it inserts
the free row; the handlers that end by calling it (`verifyPayment` without a pending
row, `subscribe` to the current plan) end in the same steps.

**Environment.** A checkout is paid at any time after it opened, also after it was
reported as abandoned. Any webhook about a paid checkout may arrive at any time, in any
order, any number of times or never: the provider repeats, and the handler swallows its
errors. The same holds of store notifications. What a store answers and notifies ranges
over its statuses and notification types, and the model applies the code's reading of
them: an Apple purchase in its billing grace period is refused, because its transaction
has expired, while Google's is accepted; auto-renewal turned off sets `ending`, and
turned on again (Apple) is ignored, so `ending` stays until a renewal; a renewal whose
new expiry could not be decoded or fetched keeps the old one. Signatures, receipt formats
and tokens are not modelled: what they reject changes nothing.

**References.** `verifyPayment` takes any reference of the vendor's own and settles, or
expires, the vendor's *latest* PAST_DUE row, which need not be the row of that checkout
(the code's comment gives the webhook that rewrites the row's id as the reason). The model
does the same where the constant `AnyReference` is TRUE, as in every run but `plans_web`.
FALSE keeps the verifications whose reference is of the row they settle. `PlanOfRecord`
needs that: it promises that a paid plan is the one trial, the exchange of a paid plan, or a
checkout that was paid, for that vendor and that tier, and is taken once. A paid checkout
may be forfeited, because a verification that reads "failed" expires the row and a later
payment of it finds none. `plans_unpaid` shows what happens without the assumption.

**Choices and limits of the abstraction**
- Prices are left out: whether the credit covers the new price is free whenever there
  is unused value. Device ids and phone numbers are one set, `Key`.
- `openCheckout` joins the provider's call and the insert. A crash between them leaves a
  checkout whose row is missing; the model has no payment of such a checkout.
- The provider's own state after a cancellation is not kept: its events stay possible.
- Free rows do not tick: no query reads their period.
- `applyWebhookEvent` is not modelled. It is reached only through the Stripe adapter,
  which sets `providerSubscriptionId` on every event (the object's own id if nothing
  else), while a checkout's row stores no id. So `findFirst` by id returns nothing,
  the match by vendor is never tried, and each delivery leaves all state as it was.

### 2.3 Chat

Conversations are opened from three services, seated from two, and written by messages,
cards and reads; the group of an event must follow the event's vendors.

    ChatTables           the tables, sockets and slots, type invariant
      Conversations      messaging.service.ts, getOrCreateDirect of the order services
        EventPlanning    events.service.ts
      GroupTodos         todo.service.ts, with chat-card.service.ts
      ChatGateway        messaging.gateway.ts, chat-realtime.service.ts
        Inbox            their composition and properties
          MCInbox        kinds of traffic and symmetry for TLC
          InboxTypes     proofs: the type invariant
            InboxSafety  proofs: the safety properties

**State.** `convs` holds a conversation with its participants, `msgs` the messages in
order, `todos` the to-dos with their assignments, `events` an event's status and vendors;
`online` and `room` are the sockets in personal and conversation rooms; `shown` and
`emitted` record what was pushed to whom. Time is the order of messages: `joined` and
`read` of a participant count the messages before joinedAt and lastReadAt. A read and a
send that overlap are ordered by their commits.

**Steps.** As in 2.1: reads, then a commit that tests nothing again. `sendMessage` and
`markRead` test the participant, then run one transaction. `getOrCreateEventGroup` reads
the event's vendors, then looks for the group, then seats the missing or creates it; the
unique `eventId` and `bookingId` refuse a second one (`...Refused`). `addVendor` commits
the event's vendor, looks for the group, and seats the vendor in a third statement.
`handleMessage` stores, then reads the participants, then pushes.

**Choices and limits of the abstraction**
- A vendor profile is identified with its user, and a user has one socket. A socket in a
  conversation's room and in its user's personal room gets a message twice; `shown` is a
  set and does not tell that apart.
- Messages sent by REST are stored but not broadcast (the route never calls the gateway),
  so they are never in `emitted`.
- Text, attachments and cards other than to-dos are a plain message here. The paging of
  `getMessages` is a read: its cursor compares random ids while it sorts by time, and its
  first page is the oldest fifty messages where the route's summary says the last.
- `POST /conversations` with type GROUP seats its caller only, and so may leave out the
  event's vendors; that is `createGroupConversation`, and `GroupComplete` says so.

### 2.4 Catalog, disputes and accounts

What clients browse lives three times: in rows, in cached pages, in search documents.
Each write of a row has to bring the copies along, in steps of their own.

    CatalogTables        the tables, the copies, the slots, type invariant
      SearchIndex        redis.service.ts, typesense-sync.service.ts, search.service.ts
        VendorProfiles   vendors.service.ts
          Listings       listings.service.ts, updatePlan of admin.service.ts
          Ratings        reviews.service.ts
      Disputes           disputes.service.ts
      Accounts           users.service.ts, user routes of admin.service.ts, the guard
        Catalog          their composition and properties
          MCCatalog      kinds of traffic and symmetry for TLC
          CatalogTypes   proofs: the type invariant, what each step writes
            CatalogSafety  proofs: counts, verifications, decisions, copies

**State.** A profile keeps its slug, one text, the KYC status, the verified flag, the tier
and the review count; `approved` remembers that an administrator once approved it. A listing
keeps its vendor, its text, whether it has an image, and its status. `cache` maps the keys of
Redis to what a page shows, `index` the documents to the two flags searches filter on.
`drift` says that the listings collection still lacks the field `vendorVerified`, which
a start of the process adds. An account keeps role, flags and its session.

**Steps.** A write commits, then (a step each) deletes keys (`bust`), answers, and then
synchronises the index: read, upsert. The slot is kept until the last of these, because
they race with later requests. A page is a miss, a read, a fill. Under READ COMMITTED the
rating is computed in one statement (`postReview`) and written in the next
(`commitRating`): a review committed in between is not seen.

**Choices and limits of the abstraction**
- A cached page shows what its `select` shows, of every row it reads: a vendor's page its
  card (one text for name and description, slug, verified flag, rating), KYC status, tier
  and active listings; a listing's page its text, images and flag and its vendor's card.
  The code shows ten listings at most, and one image of each; the model shows all and says
  whether there is one. Left out are a listing's own rating, which no code writes,
  `viewCount`, which `recordView` increments without deleting a key, and `updatedAt`.
- `changePlan` stands for every write of the profile's tier (2.2).
- `limit` is the limit of the vendors' plan; to `create`, a vendor that changes plan and a
  plan whose limit is edited (`updatePlan`) are the same change, and the model has the second.
- A session's cookie outlives its revocation for five minutes (`cookieExpires`). Outside
  Accounts an authenticated caller is assumed.
- `complete` stands for the order path (2.1): a booking with a vendor may be reviewed.
- Ranking, facets, geography, pagination and texts are left out.

## 3. The runs

| Run | Instance | What it shows |
|---|---|---|
| orders_races | 1 booking, 1 quote, 2 requests, all routes but four twins | the invariants and action properties that hold however requests overlap |
| orders_quotes | 3 quotes, 2 bookings, 2 requests, in-chat routes and update | version chains and double acceptances with both bookings free |
| orders_sequential | 1 booking, 2 quotes, 1 request, two amounts, all 18 routes | refinement of both abstract modules, connected audit trail, sealed terms |
| orders_invoiced_quote | as orders_races | violated: `InvoicedQuoteIsAccepted` |
| orders_terms_sealed | as orders_races, two amounts | violated: `TermsSealed` |
| plans_web | 2 vendors, 2 paid tiers, 1 device, 3 rows, web routes and sweep, one-time charges, own references, no overlap | refinement of `PlanOfRecord`, one live row, one trial, no plan just dropped |
| plans_unpaid | 1 vendor, 2 paid tiers, 3 rows, web routes, no overlap | violated: `SettledIsPaid` |
| plans_races | 1 vendor, 1 paid tier, 2 rows, everything, recurring charges, a request overlapping the sweep, fairness | the sweep's liveness; no activation without a payment |
| plans_store | 1 vendor, 2 rows, subscribe and store purchase | violated: `OneLiveSubscription` |
| plans_sweep_tier | 1 vendor, 3 rows, webhooks and sweep, no overlap | violated: `SweepDropsTier` |
| inbox | 1 client, 2 vendors, 1 event, 2 conversations, 2 messages, 1 to-do, 2 requests, thirteen kinds of traffic | counters, receipts, duplicates, groups, to-dos, pushes |
| catalog | 2 vendors, 3 listings, 2 bookings, 2 slugs, 2 requests, seventeen kinds of traffic | copies, verification, limit, ratings, disputes, accounts |

Properties that hold under every overlap:
- `InvoicedNeverPending`: an invoice exists only for an answered booking. This is
  what keeps `markDelivered` and `confirmReturn`, which exclude COMPLETED and
  CANCELLED only, from completing an unanswered request.
- `RecordedEdgesLegal`, `HistoryEndsAtStatus`: each history row is an edge of the
  status machine, and the last one names the current status.
- `InvoiceAnnouncedOnce`: the loser of two acceptances leaves nothing behind.
- `ReviewAfterCompletion`: a reviewed booking was completed, even if a stale
  cancellation has moved it on.
- `NeverPendingAgain`: no commit, however late, reopens a request.
- `OnlyStaleCommitsJump`: when a booking does leave the status machine, the step is
  the commit of a request that had read another status; no route does so alone.
- `LockedIffInvoicedOnce`, `RevisedStaysOffTable`: an in-chat quote is locked exactly
  when it has its one invoice; a revised version never becomes active again.

Properties that hold one request at a time: `ImplementsLifecycle` (`Lifecycle!Spec`
under `stage <- status`), `ImplementsNegotiation` (`Talks!Spec`; the mapping reads
the active, invoiced and withdrawn versions off the tables), `AuditTrailConnected`
and `TermsSealed`.

What the repository's comments say of orders has no proviso of "one at a time". (1) The
status machine of `bookings.service.ts:17-18` is left when `complete` and `cancel` both
read CONFIRMED and one commits after the other; `OnlyStaleCommitsJump` allows just that.
Two properties are violated in runs of their own; shortest counterexamples: (2)
`acceptQuote` and `declineQuote` both read an open quote; the acceptance commits, the
invoice exists, and the decline marks the quote REJECTED. (3) `update` reads an unlocked
quote, the client accepts it, the update commits another amount. In each the remedy is a
conditional update (`where: { id, status }`, or a re-test inside the transaction).

Vendor plans, one request at a time, without renewals (the one-time charge is the
adapter's documented fallback) and each verification with the reference of the row it
settles: `ImplementsPlanOfRecord`, `OneLiveSubscription`, `OneTrialPerIdentity`, and
`ReplacedNotDropped` (a row stops being live only when another becomes live in the same
step, or its window has closed; a cancelled plan keeps its access). Overlap breaks
`OneTrialPerIdentity` and `OneLiveSubscription`: two subscribes both read no claim and the
same live row. Renewals break `OneLiveSubscription`: a webhook activates a row and retires
none. Other references break `ImplementsPlanOfRecord` alone: the theorems on the other
three (section 4) do not assume whose reference it is.

Vendor plans with everything at once: `LapsedSwept`, and `NoActivationUnpaid`, which
promises only that the vendor of an activated checkout paid *some* checkout. That the one
activated was paid is what `SettledIsPaid` says, and the code does not keep it.

The three violated properties need no overlap. (4) A vendor on a web trial buys in the
store; the web row, whose store transaction is NULL, is not selected by `<>` and stays
live. (5) A vendor on the free plan pays a checkout; `subscription.create` activates its
row and leaves the free row live; the period ends, and the sweep expires the paid row but
takes the free row for a newer subscription and keeps the paid tier, for good. (6) A vendor
opens two checkouts and pays the second; its verification activates that row, and the
same verification once more (a retry) finds the first row the latest PAST_DUE one, and
activates it. The remedy for (6) is to look for the pending row by the reference first.

Chat, however requests overlap and die (`inbox`):
- `UnreadCountsUnseen`: a counter that sends increment and reads reset equals the number
  of messages of others since the user joined and last read.
- `ReceiptsTruthful`: the one `isRead` flag says exactly that someone other than the
  sender has read since.
- `TodosBelong`: creator, assignees and the one card of a to-do are of its group.
- `LiveForMembers`, `PushReachesMembers`: a push is shown to members only, and to every
  member connected when it is made who joined before the message.
- `OneDirectPerPair`: a pair has no more chats outside bookings than first contacts can
  overlap, so exactly one when they do not.
- `LeftOutOnlyAtCreation`, `GroupComplete`: a vendor misses its event's group only if the
  group was created from a list read before it was added, or its request died between
  two statements; one request at a time, never.
- `FinalEventsStay`: a final event moves only by a commit that had read it open.

Catalog (`catalog`). Three properties classify: each names the ways in which a copy can
come to differ from its rows, and says that no step of the model is another.
- `StaleOnlyByRaceOrOmission` (pages). Races: read before a write and cached after it, so
  that it shows something else than the rows; the slug renamed after a writer read it; a
  failed deletion. Omissions, which need no race: the page of a listing when its vendor's
  card changes (name, slug, verdict, rating); both pages of a vendor when it onboards
  again, its account is deleted, documents are submitted, its plan changes, or a listing it
  shows is edited; its page by slug when a listing is created or removed. A page so left
  is wrong until it expires after five minutes. What the property excludes is the rest: a profile edit or a
  verdict never leaves the vendor's own pages wrong, nor an edit the listing's own page.
- `HiddenOnlyByRace`, `GhostOnlyByRace` (documents): what browsing shows is also found
  by searching, and what was deleted is not, but for a document read before a change and
  written after it, the added field, or a failed synchronisation. A deletion that has
  committed and is on its way to the document counts as done.
- `FoundWereApproved`: no search or recommendation returns a vendor, or a listing of one,
  that was never approved. While the field is missing, searches drop the filter, so the
  property starts when it is there.
- `LimitOverrunBounded`: creations pass the limit by at most the requests that overlap,
  less one. Reactivation and a lowered limit exceed it freely, and are excluded.
- `RatingCountsReviews`: a rating never counts a review that is not there; it may miss
  overlapping ones.
- `DecisionsStand`: a verdict on documents or a dispute is replaced only by a commit that
  had read it as open.
- `DeletedStaysDown`: only an administrator, or the user's request that read the account
  before, makes a deleted account active.

**Bounds.** `BookingId` and `QuoteId` bound inserts; `RequestId` bounds overlap;
`MaxUpdates` bounds TIMELINE_UPDATE cards, the one thing a client could repeat for
ever. History needs no bound: a booking never returns to PENDING, so only requests in
flight can add rows. Two slots give every pair of overlapping requests in every order,
and a third and fourth in turn as slots are reused; the proved properties hold for any
number. One booking is enough for properties of a single booking, since no handler
reads one booking to write another; two bookings are needed for the double
acceptance of one quote, three versions for revising a revision. `DistinctRoutes`
leaves out routes that write exactly what another route writes (reject,
confirmReturn, review) or only a card (postUpdate); `orders_sequential` serves them
too. Deadlock is not checked: a service may be idle, and the ids of an instance run
out. Ids are symmetric; no definition orders or names them.

`MaxSubs` bounds the rows of `vendor_subscriptions` (and so trials and checkouts): three
give trial, checkout and switch for one vendor, or a trial each and a third row; two
suffice for the sweep with a trial or free row beside a renewing one. Two vendors with
one device are needed for the trial ledger, two paid tiers for credit between paid
plans. plans_races has no symmetry, which would be unsound for its liveness property.

Inbox and Catalog are checked one *kind of traffic* at a time: a behaviour starts by
choosing a member of `Suites`, which names its routes, whether requests overlap and
whether they die. The kinds (in `MCInbox`, `MCCatalog`) group the routes that touch the
same rows or copies; routes of different kinds write disjoint state, or meet in a kind of
their own (sending while a group grows, reviewing while listings are created). A further
field, `rows`, says which vendors and listings a kind is about. Two conversations are a
pair's duplicates, or a group and a chat beside it; two messages give a read between two
sends; two vendors of an event one that is listed and one that is late; two slugs and two
vendors a contested slug; three listings one more than a limit of one and a second
request can reach. `MaxConvs`, `MaxMsgs`, `MaxTodos` and `MaxSlugs` bound the rows.

**Fairness.** The order path has none: nothing there is retried or scheduled by the
program, a request may always die, and its properties are safety properties. The same is
true of the chat and the catalog, where no failed synchronisation is tried again. In
`Entitlements` only the sweep is fair. Cron starts it every night, so starting it is
weakly fair; its steps on a given row are strongly fair, which says that the sweep does
not fail on the same row on every night for ever. Requests, payments, webhooks, store
notifications and failures get no fairness: clients and providers owe us nothing.

**Divergences met without a run of their own.** Each is in the model or noted above:
updateMe stores a phone number without the normalisation that sign-in applies; a rejection
after a resubmission leaves the vendor's verified document in the index; reactivating a
listing does not count against the limit; the page of a listing keeps its vendor's old
badge, name and rating until it expires, although `reviewKyc` says "Verified state changed
→ bust public caches" (`vendors.service.ts:424`) and deletes the vendor's own pages; getMe
undoes an administrator's suspension at the user's next visit; deleteMe says that any
token is invalidated at once, while the cookie lives on for five minutes; removing a
listing says that favourites cascade, but they have no foreign key; the route's summary
calls that removal soft (`listings.controller.ts:128`), and it deletes the row; the
summary of a dispute's status route names UNDER_REVIEW or CLOSED
(`disputes.controller.ts:57`), and the code takes any status from any other, so a resolved
dispute can be reopened.

**Mutants.** Each property is checked against a plausible bug: the definitions that
follow a "Mutant" comment (a dropped guard, a missing index, a missing default).

## 4. The proofs

The modules `Orders*` prove, for all sets of bookings, quotes, requests and
amounts and any `Routes` and `MaxUpdates` that satisfy `ConstantsAssumption`:

| Theorem | States |
|---|---|
| `TypeInvariance`, `TypeCorrect` | `Spec => []TypeInv`, `Spec => []TypeOK` |
| `SafetyInvariance` | `Spec => []SafetyInv` |
| `InvoicesAnswered`, `HistoryLegal`, `HistoryCurrent`, `OneInvoiceCard`, `ReviewsEarned` | `Spec => []` of InvoicedNeverPending, RecordedEdgesLegal, HistoryEndsAtStatus, InvoiceAnnouncedOnce, ReviewAfterCompletion |
| `AnswersStand`, `JumpsAreStale` | `Spec => NeverPendingAgain`, `Spec => OnlyStaleCommitsJump` |
| `QuoteInvariance` | `Spec => []QuoteInv` |
| `LocksCorrect`, `RevisionsCorrect` | `Spec => []` of LockedIffInvoicedOnce, RevisedStaysOffTable |
| `LifecycleImplemented`, `NegotiationImplemented`, `LockSealsTerms` | `OneAtATime` gives `Spec =>` ImplementsLifecycle, ImplementsNegotiation, TermsSealed |
| `AuditConnected` | `OneAtATime` gives `Spec => []AuditTrailConnected` |

*Type invariant.* `TypeOK` is not inductive: a commit writes to the booking or quote
that its request carries, and `Slot` allows NULL there. `TypeInv` adds `RequestsCarry`
(which operations carry a booking, a quote, an amount, and that these exist) and
`QuotesSound` (an existing quote has an amount; its booking, if any, exists).

*Safety invariant.* A commit relies on what its request read, which may have changed
since. What has *not* changed is monotone: a booking that left PENDING does not
return, an invoice is never removed, a completion stays in the history.
`SafetyInv` states what a stale read still guarantees (`ReadSoundly`): the status seen
is one the operation accepts, an operation that needs an invoice still has it, a
review in flight has a completion in the history. With it the conjuncts are
inductive together.

*Organisation.* One fact (`StepShape`) classifies the steps of all five services by
what they do to a single booking, invoice, request and review; the preservation
lemmas are then about shapes, not about twenty-eight actions.

*Quotes.* `QuoteInv` adds to its two properties `NamedQuotesExist` (an invoice or a
revision names a quote that exists, so an id being inserted is nobody's) and
`RequestsCarryTheirKind` (an in-chat request never holds a quote of a booking, nor the
reverse: the reads establish it, and no step moves a quote). Every step is one of five
(`QuotesShape`): it answers, inserts, revises, locks a quote of a booking or strikes a deal.

*One at a time.* The refinements fail when requests overlap (the violation runs show it).
They are proved under the hypothesis `OneAtATime`, two requests are the same one, for any
number of bookings and quotes. It is used for one fact only, `ReadsCurrent`: what the request read
is still true when it commits. All the rest follows from that fact and the invariants
above; the negotiation also needs `OpenSound`: a version on the table is pending, and an
unused id is not locked.

`InboxTypes` and `InboxSafety` prove, for all finite sets of clients, vendors and request
slots, all events and bookings, any kinds of traffic and any bounds that satisfy
`ChatAssumption`:

| Theorem | States |
|---|---|
| `TypeInvariance`, `TypeCorrect` | `Spec => []TypeInv`, `Spec => []TypeOK` |
| `UnreadCorrect`, `ReceiptsCorrect`, `TodosCorrect`, `LiveCorrect` | `Spec => []` of UnreadCountsUnseen, ReceiptsTruthful, TodosBelong, LiveForMembers |
| `DirectBounded`, `GroupCorrect` | `Spec => []` of OneDirectPerPair, GroupComplete |
| `PushCorrect`, `FinalCorrect`, `LeftOutCorrect` | `Spec =>` PushReachesMembers, FinalEventsStay, LeftOutOnlyAtCreation |

*Type invariant.* A request tests membership, then writes in a later step. `Carries`
says what the test established and nothing undoes: the conversation, message or to-do is
there, the user a member, the conversation a group, the vendor and event real. It is
inductive because no step takes a row or a participant away (`Kept`).

*Safety invariant.* `SafetyInv` adds to the invariants checked: `ClocksPast` (nobody
joined or read after the last message), `AudienceComplete` (the participants a push has
read include everyone who had joined before its message), `UpdatesOpen` (a waiting
status change read the event as open) and `UncreatedDraft`. A counter equals a
cardinality, so each kind of step is a lemma about the unseen set: a new message adds one
element to the others' sets, a read empties one, a newcomer starts with none.

*Organisation.* `StepEffect` sorts the steps by what they do to the chat (newcomers seated,
or one of five commits); `ClockSteps` says what each does to joined, read and unread;
`AllCalm` and `SlotSteps` say where a waiting request comes from, and `EventRowSteps` who
moves an event; `Turn` says which slot a step moves, and whether it begins or goes on to
create a conversation. `LeftOutOnlyAtCreation` rests on `AddedIsAwaited` (the request that adds
a vendor goes on to look for the group), `GroupAppears` and `AwaitedStays`.

*Duplicates and groups.* `OneDirectPerPair` is not inductive: two requests may be about to
create the second and the third chat. `ChatsBounded` counts the chats of a pair together
with the requests about to open one: a creation turns one of these into a chat, and no
request sets out to open one when it finds a chat, so the sum stays within the number of
slots (within one when requests do not overlap). `GroupComplete` rests on `ListsComplete`:
with one request at a time (`Alone`), the vendors that `createGroup` is about to seat include
all the vendors of the event, since whoever would add one has to wait.

`EntitlementsSafety` and `EntitlementsSequential` prove, for all vendors, tiers, devices,
transactions, request slots and numbers of rows that satisfy `SubscriptionsAssumption`:

| Theorem | States |
|---|---|
| `TypeInvariance`, `TypeCorrect` | `Spec => []TypeInv`, `Spec => []TypeOK` |
| `PaidInvariance`, `ActivationsPaid` | `Spec => []PaidInv`, `Spec => []NoActivationUnpaid` |
| `TrialsUnique` | `OneAtATime` gives `Spec => []OneTrialPerIdentity` |
| `OnePlanEach`, `ReplacementOnly` | `OneAtATime` and `WebOnly` give `Spec =>` []OneLiveSubscription, ReplacedNotDropped |
| `RecordImplemented` | `OneAtATime`, `WebOnly` and `OwnReference` give `Spec => ImplementsPlanOfRecord` |

*Types.* A handler writes through the row id, vendor and tier its slot holds. `TypeInv`
adds `SlotsCarry`: they are there, and the sweep's list holds rows that exist. It needs one
fact about data, that `Latest` of a non-empty set of rows is one of them (`Highest`, a
well-foundedness argument).

*Payments.* A commit may revive a row long after its request looked at it, so that the
checkout was paid is not something a read can promise for the row. What stays true is
that the row was *earned*: its vendor paid some checkout, or it was bought in a store.
`PaidInv` says so of every row that renews with the provider or is ACTIVE through it and of
every row a waiting commit will revive (`SlotsBacked`); it needs that a checkout's row is
never linked to a store purchase and that a reference is stored on its own row only.
`PlanShape` and `SlotShape` sort the steps of all four services by what they do to a row, a
checkout and a slot; what was earned stays earned (`EarnedStays`).

*Trials.* The races run shows two overlapping starts of one trial. Without overlap,
`TrialInv` is inductive whatever the routes: one slot waits at a time (`Alone`), and the
one about to start a trial holds identities nobody claimed (`TrialsFree`).

*The plan of record.* A webhook or a store's event makes a row ACTIVE without ending
the vendor's others (the store run shows it), so `WebOnly` excludes their routes. `WebInv`
adds to one plan per vendor that the profile shows its tier, and that what the request
being served read is still so (`SlotsCurrent`: the live row, the pending row, the trial,
the rows collected by the sweep). Every step has a shape (`WebShape`): it leaves
plans alone, puts one vendor on one row, ends one paid plan, or is a payment; the theorems
are about the shapes. The case that needs most is the sweep's `expire`: of a live row it
ends the plan, because no other row of the vendor can be live; of a PAST_DUE row it must
leave the tier as it is, because the tier shown is that of the live row, or BASIC already.
For the refinement `OrdersTurn` says what each shape does to the checkouts: a settled row
is a checkout that was paid and is now closed (`OwnReference` gives that the charge looked
at was this row's), any other step that takes a row out of PAST_DUE forfeits its checkout,
and payments and openings are steps of their own.
`Exchangeable` says that credit covers a switch only from a paid plan that is not a trial.

`CatalogTypes` and `CatalogSafety` prove, for all vendors, users, slugs and texts, all
finite sets of listings, bookings and request slots, any kinds of traffic and any bounds
that satisfy `CatalogAssumption`:

| Theorem | States |
|---|---|
| `TypeInvariance`, `TypeCorrect` | `Spec => []TypeInv`, `Spec => []TypeOK` |
| `DecisionsHold`, `DeletedDown` | `Spec =>` DecisionsStand, DeletedStaysDown |
| `ApprovedInvariance`, `FoundApproved` | `Spec => []ApprovedInv`, `Spec => []FoundWereApproved` |
| `RatingInvariance`, `RatingCounts` | `Spec => []RatingInv`, `Spec => []RatingCountsReviews` |
| `LimitInvariance`, `LimitBounded` | `Spec => []LimitInv`, `Spec => []LimitOverrunBounded` |
| `SlugsInvariance`, `StaleExplained` | `Spec => []SlugsUnique`, `Spec => StaleOnlyByRaceOrOmission` |
| `GhostsExplained` | `Spec => GhostOnlyByRace` |
| `DeletedFirstInvariance`, `HiddenExplained` | `Spec => []DeletedFirst`, `Spec => HiddenOnlyByRace` |

*Type invariant and footprints.* A slot travels through several steps and the copies are
brought along after the answer, so `Carries` says what a slot holds for the step it waits
for and for the one after it: whose keys, whose document, which slug was read. The same
module sorts the steps once: who writes each table (`ProfileWriters`, `ListingWriters` and
their like), and what becomes of the slot (`TurnTaken`). The proofs of the properties then
look at a few steps each.

*Verification.* A document outlives the row it was read from, in the index and in the
list of a synchronisation. `ApprovedInv` says of profiles, documents and lists alike that
only a vendor once approved is called verified; `approved` never goes back, so what was
true when a document was read is true when it is written.

*Counts.* A rating is a count taken in one step and written in the next. `RatingInv`
bounds what `commitRating` carries by the reviews there plus its own; no review is
removed, and no two slots write the review of one booking. `LimitInv` bounds the active
listings of a vendor together with the creations that have passed the test: the first of
them saw a listing fewer than the limit, and each of the others occupies a slot.

*Copies.* The three classifications share an argument. A copy that is wrong after a step
and was not wrong before it became so because the step wrote the row, or wrote the copy,
or ended the request that was to put it right. A step that writes the row goes on to the
keys and documents of that row: `SlugsUnique` says that those are the right keys, of no
other vendor's page, and `DeletedFirst` that the request that clears a document has
deleted the row first, so it never takes away what is still shown. A step that writes the
copy writes what it read, which is wrong only if the row changed since. A request that
ends early dies. The first case leaves nothing wrong but the pages
the writer does not know of, which are the omissions; the others are the races the
properties name. For the removal of a listing the argument needs `RemoversKnow`: the
request that removes it holds the keys of its page and of its vendor's page by id.

Model-checked only: the liveness property `LapsedSwept`. Liveness under fairness and
ENABLED are out of the prover's reach, and no theorem does induction over the length of a
table. The violated properties have counterexamples and so no theorems.

## 5. What is left

Worth adding: a second request slot for webhooks against verify in the vendor plans, and
with it properties for the races that `PROJECT.json` lists without one.

**Not modelled.** Notifications and push are sent after a commit, are not awaited, swallow
their errors and are read back only by the user they are for. Favourites and device tokens
are single upserts and deletes of rows nothing else relies on. Uploads, e-mail, audit,
categories, locations and call tokens keep no state that other code relies on.
Authentication is an external library's configuration, of which the session guard and
the cookie's life are modelled. Payment adapters translate HTTP calls and are the
environment of the vendor plans. Call and typing signals are relayed and leave no trace.
