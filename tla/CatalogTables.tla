--------------------------- MODULE CatalogTables ----------------------------
(***************************************************************************)
(* What clients browse: vendor profiles and listings in the database, the  *)
(* copies of them in Redis and in the search index, the reviews behind a   *)
(* rating, the plan that limits listings; the disputes and accounts that   *)
(* administrators decide about; and the requests in flight.                *)
(*                                                                         *)
(* A row is reduced to what is copied or decided on.  A request that       *)
(* updates the index does so after it has answered, and keeps its slot     *)
(* until it has.                                                           *)
(***************************************************************************)
EXTENDS Naturals, FiniteSets

CONSTANTS
    User,        \* accounts
    Vendor,      \* the accounts that may open a vendor profile
    Listing, Booking,
    NULL,        \* SQL NULL, a missing key or document
    RequestId,   \* slots for requests
    Suites,      \* the kinds of traffic of this instance (Traffic)
    MaxSlugs, MaxLimit   \* bounds on slugs and on a plan's limit

VARIABLES
    suite,       \* the traffic of this behaviour
    profile,     \* table vendor_profiles
    listing,     \* tables listings and listing_media
    limit,       \* subscription_plans.listing_limit of the vendors' plan
    reviews,     \* completed bookings, tables reviews and review_responses
    cache,       \* the keys of Redis
    index,       \* the documents of Typesense
    drift,       \* the listings collection lacks the field vendorVerified
    dispute,     \* table disputes
    account,     \* tables user, client_profiles and session
    req          \* what each slot holds

catalog == <<profile, listing, limit, reviews>>
copies == <<cache, index, drift>>
tables == <<suite, catalog, copies, dispute, account>>
vars == <<tables, req>>

-----------------------------------------------------------------------------
KycStatus == {"NOT_SUBMITTED", "SUBMITTED", "APPROVED", "REJECTED"}
Verdict == {"APPROVED", "REJECTED"}
DisputeStatus == {"OPEN", "UNDER_REVIEW", "RESOLVED", "CLOSED"}
Role == {"CLIENT", "VENDOR", "ADMIN"}
Tier == {"BASIC", "PAID"}

\* The variants of one business name: name, name-2, ...
Slug == 1 .. MaxSlugs
Limit == (0 .. MaxLimit) \cup {NULL}

\* What a profile says of the vendor, or a listing of itself, in words.
Words == {"first", "second"}
Text == Words \cup {"deleted"}

\* slug is NULL before the vendor has onboarded; approved remembers that an
\* administrator once approved it.
Profile == [slug: Slug \cup {NULL}, text: Text, kyc: KycStatus, verified: BOOLEAN,
            count: Nat, tier: Tier, approved: BOOLEAN]
\* vendor is NULL until the booking is completed.
Review == [vendor: Vendor \cup {NULL}, state: {"none", "posted", "answered"}]
ListingRow == [vendor: Vendor \cup {NULL}, text: Words, media: BOOLEAN,
               status: {"none", "active", "inactive", "deleted"}]
Dispute == [status: DisputeStatus \cup {NULL}, resolution: {NULL, "client", "vendor"}]
\* A revoked session is "cached" while the cookie's copy of it is accepted.
Account == [role: Role, onboarded: BOOLEAN, city: BOOLEAN, active: BOOLEAN,
            deleted: BOOLEAN, session: {"none", "live", "cached"}]

Key == ({"vendor"} \X Vendor) \cup ({"slug"} \X Slug) \cup ({"listing"} \X Listing)
CardRow == [text: Text, slug: Slug \cup {NULL}, verified: BOOLEAN, count: Nat]
ItemRow == [id: Listing, text: Words, media: BOOLEAN]
Snapshot == [vendor: CardRow, kyc: KycStatus, tier: Tier, listings: SUBSET ItemRow]
               \cup [vendor: CardRow, text: Words, media: BOOLEAN, active: BOOLEAN]
DocId == Listing \cup Vendor
Doc == [active: BOOLEAN, verified: BOOLEAN]
Entry == DocId \X Doc

\* The traffic of one behaviour: the routes called, the vendors that onboard
\* and the listings they create, whether a request may start while another
\* waits, whether requests may die, and whether the collection predates the
\* field vendorVerified.
Traffic == [routes: SUBSET STRING, rows: SUBSET DocId, overlap: BOOLEAN,
            dies: BOOLEAN, drift: BOOLEAN]

-----------------------------------------------------------------------------
\* `at' names what the handler does when it resumes, `after' what follows the
\* deletion of `keys'; `todo' the documents it will write.
CopySteps == {"bust", "readRow", "fill", "reindex", "readListing",
              "upsert", "import", "deleteDoc"}
VendorSteps == {"insertProfile", "updateProfile", "decide"}
ListingSteps == {"readLimit", "countActive", "insertListing", "updateListing",
                 "deleteListing", "insertMedia", "deleteMedia"}
OtherSteps == {"postReview", "commitRating", "insertResponse", "insertDispute",
               "setDispute", "resolveDispute", "readMe", "reactivate",
               "setOnboarded", "setRole", "setActive"}

Step == CopySteps \cup VendorSteps \cup ListingSteps \cup OtherSteps \cup {"idle"}
Follower == {"idle", "reindex", "readListing", "upsert", "deleteDoc"}

\* What was read and will be compared, or chosen and will be written.
Reading == KycStatus \cup DisputeStatus \cup Role
              \cup {NULL, "active", "inactive", "client", "vendor"}

Slot == [at: Step, after: Follower,
         v: Vendor \cup {NULL}, l: Listing \cup {NULL}, u: User \cup {NULL},
         b: Booking \cup {NULL}, slug: Slug \cup {NULL}, old: Slug \cup {NULL},
         seen: Reading, keys: SUBSET Key, value: Snapshot \cup {NULL},
         todo: SUBSET Entry, flag: BOOLEAN, n: Nat]

Idle == [at |-> "idle", after |-> "idle", v |-> NULL, l |-> NULL, u |-> NULL,
         b |-> NULL, slug |-> NULL, old |-> NULL, seen |-> NULL, keys |-> {},
         value |-> NULL, todo |-> {}, flag |-> FALSE, n |-> 0]

ASSUME CatalogAssumption ==
    /\ Vendor \subseteq User
    /\ Vendor \cap Listing = {}
    /\ NULL \notin User \cup Listing \cup Booking
    /\ NULL \notin Slug
    /\ NULL \notin Doc
    /\ Suites \subseteq Traffic
    /\ {MaxSlugs, MaxLimit} \subseteq Nat
    /\ IsFiniteSet(Listing) /\ IsFiniteSet(Booking)      \* tables are finite
    /\ IsFiniteSet(RequestId) /\ RequestId # {}

-----------------------------------------------------------------------------
Onboarded(v) == profile[v].slug # NULL
Exists(l) == listing[l].status \in {"active", "inactive"}
ActiveOf(v) == {l \in Listing : listing[l].vendor = v /\ listing[l].status = "active"}

\* The page of a vendor shows its active listings, the page of a listing the
\* vendor it is of.  (The code shows ten at most, and one image of each.)
Card(v) == [text |-> profile[v].text, slug |-> profile[v].slug,
            verified |-> profile[v].verified, count |-> profile[v].count]
Item(l) == [id |-> l, text |-> listing[l].text, media |-> listing[l].media]
ProfileView(v) == [vendor |-> Card(v), kyc |-> profile[v].kyc, tier |-> profile[v].tier,
                   listings |-> {Item(l) : l \in ActiveOf(v)}]
ListingView(l) == [vendor |-> Card(listing[l].vendor), text |-> listing[l].text,
                   media |-> listing[l].media, active |-> listing[l].status = "active"]

\* Their documents.
VendorDoc(v) == <<v, [active |-> TRUE, verified |-> profile[v].verified]>>
ListingDoc(l) == <<l, [active |-> listing[l].status = "active",
                       verified |-> profile[listing[l].vendor].verified]>>

\* A request on route op reaches slot r.
Called(r, op) ==
    /\ op \in suite.routes
    /\ req[r] = Idle
    /\ suite.overlap \/ \A s \in RequestId : req[s] = Idle

Wait(r, slot) == req' = [req EXCEPT ![r] = slot]
Return(r) == req' = [req EXCEPT ![r] = Idle]

\* A request dies between two steps, or Redis or Typesense fails it; what it
\* committed before stays.
Fail(r) ==
    /\ suite.dies
    /\ req[r] # Idle
    /\ Return(r)
    /\ UNCHANGED tables

TablesInit ==
    /\ suite \in Suites
    /\ profile = [v \in Vendor |-> [slug |-> NULL, text |-> "first",
                                    kyc |-> "NOT_SUBMITTED", verified |-> FALSE, count |-> 0, tier |-> "BASIC",
                                    approved |-> FALSE]]
    /\ listing = [l \in Listing |-> [vendor |-> NULL, text |-> "first", media |-> FALSE,
                                     status |-> "none"]]
    /\ limit \in Limit
    /\ reviews = [b \in Booking |-> [vendor |-> NULL, state |-> "none"]]
    /\ cache = [k \in Key |-> NULL]
    /\ index = [d \in DocId |-> NULL]
    /\ drift = suite.drift
    /\ dispute = [b \in Booking |-> [status |-> NULL, resolution |-> NULL]]
    /\ account = [u \in User |-> [role |-> "CLIENT", onboarded |-> FALSE, city |-> FALSE,
                                  active |-> TRUE, deleted |-> FALSE, session |-> "live"]]
    /\ req = [r \in RequestId |-> Idle]

TypeOK ==
    /\ suite \in Suites
    /\ profile \in [Vendor -> Profile]
    /\ listing \in [Listing -> ListingRow]
    /\ limit \in Limit
    /\ reviews \in [Booking -> Review]
    /\ cache \in [Key -> Snapshot \cup {NULL}]
    /\ index \in [DocId -> Doc \cup {NULL}]
    /\ drift \in BOOLEAN
    /\ dispute \in [Booking -> Dispute]
    /\ account \in [User -> Account]
    /\ req \in [RequestId -> Slot]
=============================================================================
