--------------------------- MODULE CatalogSafety ----------------------------
(***************************************************************************)
(* What the counts, the verifications and the decisions of the catalog     *)
(* come to, for any number of vendors, listings, bookings and requests,    *)
(* however these interleave; and how far the cache and the search index may *)
(* drift from the tables they copy.  For the copies the argument is the    *)
(* same three times: a document or a page that is wrong after a step was   *)
(* wrong before it, or a request was on its way to put it right and stopped, *)
(* or the step is one of the races that the property names.                *)
(***************************************************************************)
EXTENDS CatalogTypes

-----------------------------------------------------------------------------
\* A decision on a vendor is only ever replaced by another decision, or by a
\* new submission.
LEMMA VerdictStep ==
    ASSUME TypeInv, [Next]_vars, NEW v \in Vendor,
           profile'[v].kyc # profile[v].kyc, profile'[v].kyc # "SUBMITTED"
    PROVE  \E r \in RequestId : /\ req[r].at = "decide" /\ req[r].v = v
                                /\ req[r].seen = "SUBMITTED" /\ Steps(r)
  <1>0. profile \in [Vendor -> Profile]
    BY DEF TypeInv, TablesTyped
  <1>1. PICK r \in RequestId : decide(r) /\ profile'[v].kyc # profile[v].kyc
                               /\ (v # req[r].v => profile'[v] = profile[v])
    <2>1. ASSUME NEW r \in RequestId, insertProfile(r) PROVE profile'[v].kyc = profile[v].kyc
      BY <1>0, <2>1 DEF insertProfile, Profile
    <2>2. ASSUME NEW r \in RequestId, decide(r)
          PROVE  v # req[r].v => profile'[v] = profile[v]
      BY <1>0, <2>2 DEF decide
    <2>3. ASSUME NEW r \in RequestId, commitRating(r) PROVE profile'[v].kyc = profile[v].kyc
      BY <1>0, <2>3 DEF commitRating, Profile
    <2>4. ASSUME NEW r \in RequestId, NEW text, updateProfile(r, text)
          PROVE  profile'[v].kyc = profile[v].kyc
      BY <1>0, <2>4 DEF updateProfile, Profile
    <2>5. ASSUME NEW r \in RequestId, NEW w \in Vendor, submitKyc(r, w) \/ changePlan(r, w)
          PROVE  profile'[v].kyc \in {profile[v].kyc, "SUBMITTED"}
      BY <1>0, <2>5 DEF submitKyc, changePlan, Profile
    <2>6. ASSUME NEW r \in RequestId, NEW u \in User, deleteMe(r, u)
          PROVE  profile'[v].kyc = profile[v].kyc
      BY <1>0, <2>6 DEF deleteMe, Profile
    <2> QED BY <2>1, <2>2, <2>3, <2>4, <2>5, <2>6, ProfileWriters
  <1>2. req[r] \in Slot /\ req[r].at = "decide" /\ req[r].seen = "SUBMITTED"
    BY <1>1, SlotHolds DEF decide, Carries
  <1>3. req'[r].at = "bust"
    BY <1>1, <1>2 DEF decide, Wait, TypeInv, SlotsTyped, Slot
  <1> QED BY <1>1, <1>2, <1>3 DEF Steps

LEMMA ResolutionStep ==
    ASSUME TypeInv, [Next]_vars, NEW b \in Booking,
           dispute'[b].resolution # dispute[b].resolution
    PROVE  \E r \in RequestId : /\ req[r].at = "resolveDispute" /\ req[r].b = b /\ Steps(r)
                                /\ req[r].seen \in {"OPEN", "UNDER_REVIEW"}
  <1>0. dispute \in [Booking -> Dispute]
    BY DEF TypeInv, TablesTyped
  <1>1. PICK r \in RequestId, resolution \in {"client", "vendor"} :
           resolveDispute(r, resolution) /\ (b # req[r].b => dispute'[b] = dispute[b])
    <2>1. ASSUME NEW r \in RequestId, insertDispute(r) \/ setDispute(r)
          PROVE  dispute'[b].resolution = dispute[b].resolution
      BY <1>0, <2>1 DEF insertDispute, setDispute, Dispute
    <2>2. ASSUME NEW r \in RequestId, NEW resolution, resolveDispute(r, resolution)
          PROVE  b # req[r].b => dispute'[b] = dispute[b]
      BY <1>0, <2>2 DEF resolveDispute
    <2> QED BY <2>1, <2>2, DisputeWriters
  <1>2. req[r].at = "resolveDispute" /\ req[r].seen \in {"OPEN", "UNDER_REVIEW"}
    BY <1>1, SlotHolds DEF resolveDispute, Carries
  <1>3. req'[r].at = "idle"
    BY <1>1 DEF resolveDispute, Return, Idle, TypeInv, SlotsTyped
  <1> QED BY <1>1, <1>2, <1>3 DEF Steps

\* What one administrator decided about a vendor or a dispute, another
\* replaces only by a commit that had read it as undecided.
THEOREM DecisionsHold == Spec => DecisionsStand
  <1>1. ASSUME TypeInv, [Next]_vars
        PROVE  /\ \A v \in Vendor :
                     /\ profile[v].kyc \in Verdict
                     /\ profile'[v].kyc \in Verdict \ {profile[v].kyc}
                     => \E r \in RequestId :
                           req[r].at = "decide" /\ req[r].v = v /\ req[r].seen = "SUBMITTED" /\ Steps(r)
               /\ \A b \in Booking :
                     dispute'[b].resolution \notin {NULL, dispute[b].resolution}
                     => \E r \in RequestId :
                           /\ req[r].at = "resolveDispute" /\ req[r].b = b /\ Steps(r)
                           /\ req[r].seen \in {"OPEN", "UNDER_REVIEW"}
    BY <1>1, VerdictStep, ResolutionStep DEF Verdict
  <1> QED BY <1>1, TypeInvariance, PTL DEF Spec, DecisionsStand

LEMMA ReactivationStep ==
    ASSUME TypeInv, [Next]_vars, NEW u \in User, ~account[u].active, account'[u].active
    PROVE  \E r \in RequestId :
              /\ req[r].u = u /\ Steps(r)
              /\ req[r].at = "setActive" \/ (req[r].at = "reactivate" /\ ~req[r].flag)
  <1>0. account \in [User -> Account]
    BY DEF TypeInv, TablesTyped
  <1>1. PICK r \in RequestId :
           (reactivate(r) \/ setActive(r)) /\ (u # req[r].u => account'[u] = account[u])
    <2>1. ASSUME NEW r \in RequestId, insertProfile(r) \/ setOnboarded(r) \/ setRole(r)
          PROVE  account'[u].active = account[u].active
      BY <1>0, <2>1 DEF insertProfile, setOnboarded, setRole, Account
    <2>2. ASSUME NEW r \in RequestId, reactivate(r) \/ setActive(r)
          PROVE  u # req[r].u => account'[u] = account[u]
      BY <1>0, <2>2 DEF reactivate, setActive
    <2>3. ASSUME NEW w \in User, signIn(w) \/ cookieExpires(w)
          PROVE  account'[u].active = account[u].active
      BY <1>0, <2>3 DEF signIn, cookieExpires, Account
    <2>4. ASSUME NEW w \in User, NEW r \in RequestId, deactivateMe(r, w)
          PROVE  account'[u].active => account[u].active
      BY <1>0, <2>4 DEF deactivateMe, Account
    <2>5. ASSUME NEW w \in User, NEW r \in RequestId, deleteMe(r, w)
          PROVE  account'[u].active => account[u].active
      BY <1>0, <2>5 DEF deleteMe, Account
    <2>6. ASSUME NEW w \in User, NEW r \in RequestId, NEW city \in BOOLEAN, updateMe(r, w, city)
          PROVE  account'[u].active = account[u].active
      BY <1>0, <2>6 DEF updateMe, Account
    <2> QED BY <2>1, <2>2, <2>3, <2>4, <2>5, <2>6, AccountWriters
  <1>2. req[r].at = "setActive" \/ (req[r].at = "reactivate" /\ ~req[r].flag)
    BY <1>1, SlotHolds DEF reactivate, setActive, Carries
  <1>3. req'[r].at = "idle"
    BY <1>1 DEF reactivate, setActive, Return, Idle, TypeInv, SlotsTyped
  <1> QED BY <1>1, <1>2, <1>3 DEF Steps

\* A deleted account becomes active again only by an administrator, or by a
\* request of its user that read it before the deletion.
THEOREM DeletedDown == Spec => DeletedStaysDown
  <1>1. ASSUME TypeInv, [Next]_vars
        PROVE  \A u \in User :
                  account[u].deleted /\ ~account[u].active /\ account'[u].active =>
                     \E r \in RequestId :
                        /\ req[r].u = u /\ Steps(r)
                        /\ req[r].at = "setActive" \/ (req[r].at = "reactivate" /\ ~req[r].flag)
    BY <1>1, ReactivationStep
  <1> QED BY <1>1, TypeInvariance, PTL DEF Spec, DeletedStaysDown

-----------------------------------------------------------------------------
\* A document is of a listing that was once there, and verified only if its
\* vendor has been approved.
Belongs(d, doc) ==
    /\ d \in Vendor \/ listing[d].status # "none"
    /\ doc.verified => profile[Owner(d)].approved

ApprovedInv ==
    /\ \A v \in Vendor : profile[v].verified => profile[v].approved
    /\ \A d \in DocId : index[d] # NULL => Belongs(d, index[d])
    /\ \A r \in RequestId : \A entry \in req[r].todo : Belongs(entry[1], entry[2])

\* A vendor that was approved stays so, and is verified only by an approval.
LEMMA ApprovedStays ==
    ASSUME TypeInv, [Next]_vars, NEW v \in Vendor
    PROVE  /\ profile[v].approved => profile'[v].approved
           /\ (profile[v].verified => profile[v].approved)
                 => (profile'[v].verified => profile'[v].approved)
  <1> DEFINE Good == /\ profile[v].approved => profile'[v].approved
                     /\ (profile[v].verified => profile[v].approved)
                           => (profile'[v].verified => profile'[v].approved)
  <1>0. profile \in [Vendor -> Profile]
    BY DEF TypeInv, TablesTyped
  <1>1. ASSUME profile'[v].approved = profile[v].approved,
               profile'[v].verified = profile[v].verified
        PROVE  Good
    BY <1>1
  <1>2. ASSUME NEW r \in RequestId, insertProfile(r) PROVE Good
    BY <1>0, <1>1, <1>2 DEF insertProfile, Profile
  <1>3. ASSUME NEW r \in RequestId, decide(r) PROVE Good
    BY <1>0, <1>3 DEF decide, Profile
  <1>4. ASSUME NEW r \in RequestId, commitRating(r) PROVE Good
    BY <1>0, <1>1, <1>4 DEF commitRating, Profile
  <1>5. ASSUME NEW r \in RequestId, NEW text, updateProfile(r, text) PROVE Good
    BY <1>0, <1>1, <1>5 DEF updateProfile, Profile
  <1>6. ASSUME NEW r \in RequestId, NEW w \in Vendor, submitKyc(r, w) \/ changePlan(r, w) PROVE Good
    BY <1>0, <1>1, <1>6 DEF submitKyc, changePlan, Profile
  <1>7. ASSUME NEW r \in RequestId, NEW u \in User, deleteMe(r, u) PROVE Good
    BY <1>0, <1>1, <1>7 DEF deleteMe, Profile
  <1> HIDE DEF Good
  <1>8. ASSUME UNCHANGED profile PROVE Good
    BY <1>1, <1>8
  <1>9. Good
    BY <1>2, <1>3, <1>4, <1>5, <1>6, <1>7, <1>8, ProfileWriters, ZenonT(30)
  <1> QED BY <1>9 DEF Good

\* A listing that was once there stays its vendor's.
LEMMA OwnerStays ==
    ASSUME TypeInv, [Next]_vars, NEW l \in Listing, listing[l].status # "none"
    PROVE  listing'[l].status # "none" /\ listing'[l].vendor = listing[l].vendor
  <1>0. listing \in [Listing -> ListingRow]
    BY DEF TypeInv, TablesTyped
  <1>1. ASSUME NEW r \in RequestId, updateListing(r)
        PROVE  listing'[l].status # "none" /\ listing'[l].vendor = listing[l].vendor
    <2>1. req[r].seen \in {NULL, "active", "inactive"}
      BY <1>1, SlotHolds DEF updateListing, Carries
    <2> QED BY <1>0, <1>1, <2>1 DEF updateListing, ListingRow
  <1>2. ASSUME NEW r \in RequestId, deleteListing(r)
        PROVE  listing'[l].status # "none" /\ listing'[l].vendor = listing[l].vendor
    BY <1>0, <1>2 DEF deleteListing, ListingRow
  <1>3. ASSUME NEW r \in RequestId, writeMedia(r)
        PROVE  listing'[l].status # "none" /\ listing'[l].vendor = listing[l].vendor
    BY <1>0, <1>3 DEF writeMedia, ListingRow
  <1>4. ASSUME NEW r \in RequestId, NEW m \in Listing, NEW media, insertListing(r, m, media)
        PROVE  listing'[l].status # "none" /\ listing'[l].vendor = listing[l].vendor
    BY <1>0, <1>4 DEF insertListing
  <1> QED BY <1>1, <1>2, <1>3, <1>4, ListingWriters

LEMMA BelongsStays ==
    ASSUME TypeInv, [Next]_vars, NEW d \in DocId, NEW doc, Belongs(d, doc)
    PROVE  Belongs(d, doc)'
  <1>1. CASE d \in Vendor
    BY <1>1, ApprovedStays DEF Belongs, Owner
  <1>2. CASE d \notin Vendor
    <2>1. d \in Listing /\ listing[d].status # "none"
      BY <1>2 DEF Belongs, DocId
    <2>2. listing[d].vendor \in Vendor
      BY <2>1 DEF TypeInv, TablesTyped, RowsOwned
    <2>3. listing'[d].status # "none" /\ listing'[d].vendor = listing[d].vendor
      BY <2>1, OwnerStays
    <2> QED BY <1>2, <2>2, <2>3, ApprovedStays DEF Belongs, Owner
  <1> QED BY <1>1, <1>2

LEMMA FreshBelongs ==
    ASSUME TypeInv, ApprovedInv, NEW entry, Fresh(entry)
    PROVE  entry[1] \in DocId /\ Belongs(entry[1], entry[2])
  <1>1. ASSUME NEW v \in Vendor PROVE v \in DocId /\ Belongs(v, VendorDoc(v)[2])
    BY <1>1 DEF DocId, VendorDoc, Belongs, Owner, ApprovedInv
  <1>2. ASSUME NEW l \in Listing, listing[l].status # "none"
        PROVE  l \in DocId /\ Belongs(l, ListingDoc(l)[2])
    <2>1. listing[l].vendor \in Vendor /\ l \notin Vendor
      BY <1>2, CatalogAssumption DEF TypeInv, TablesTyped, RowsOwned
    <2> QED BY <1>2, <2>1 DEF DocId, ListingDoc, Belongs, Owner, ApprovedInv
  <1> QED BY <1>1, <1>2 DEF Fresh, VendorDoc, ListingDoc

LEMMA ApprovedStep == ASSUME TypeInv, ApprovedInv, [Next]_vars PROVE ApprovedInv'
  <1>1. \A v \in Vendor : profile'[v].verified => profile'[v].approved
    BY ApprovedStays DEF ApprovedInv
  <1>2. ASSUME NEW r \in RequestId, NEW entry \in req[r].todo
        PROVE  entry[1] \in DocId /\ Belongs(entry[1], entry[2])
    <2>1. entry \in Entry
      BY SlotHolds DEF Slot
    <2> QED BY <2>1 DEF Entry, ApprovedInv
  <1>3. ASSUME NEW d \in DocId, NEW doc, doc = index'[d], doc # NULL
        PROVE  Belongs(d, doc)'
    <2>1. CASE IndexKept(d)
      <3>1. index[d] \in Doc /\ Belongs(d, index[d])
        BY <2>1 DEF IndexKept, ApprovedInv, TypeInv, TablesTyped
      <3>2. Belongs(d, doc)
        BY <1>3, <2>1, <3>1 DEF IndexKept, Belongs, Doc
      <3> QED BY <3>2, BelongsStays
    <2>2. ASSUME NEW r \in RequestId, NEW e \in Doc, IndexWritten(r, d, e)
          PROVE  Belongs(d, doc)'
      <3>1. Belongs(d, doc)
        BY <1>2, <1>3, <2>2 DEF IndexWritten
      <3> QED BY <3>1, BelongsStays
    <2> QED BY <1>3, <2>1, <2>2, IndexStep
  <1>4. ASSUME NEW r \in RequestId, NEW entry \in req'[r].todo
        PROVE  Belongs(entry[1], entry[2])'
    <2>1. entry[1] \in DocId /\ Belongs(entry[1], entry[2])
      BY <1>2, TodoStep, FreshBelongs
    <2> QED BY <2>1, BelongsStays
  <1> QED BY <1>1, <1>3, <1>4 DEF ApprovedInv

\* Every document is of a vendor, or of a listing of one, that had been
\* approved if the document says so.
THEOREM ApprovedInvariance == Spec => []ApprovedInv
  <1>1. TablesInit => ApprovedInv
    BY DEF TablesInit, ApprovedInv, Idle
  <1>2. TypeInv /\ ApprovedInv /\ [Next]_vars => ApprovedInv'
    BY ApprovedStep
  <1> QED BY <1>1, <1>2, TypeInvariance, PTL DEF Spec

\* No search, once the collection has the field it filters by, and no
\* recommendation returns a vendor, or a listing of one, whom no administrator
\* has ever approved.
THEOREM FoundApproved == Spec => []FoundWereApproved
  <1>1. ApprovedInv => FoundWereApproved
    BY DEF ApprovedInv, Belongs, FoundWereApproved, Found, Recommended
  <1> QED BY <1>1, ApprovedInvariance, PTL

-----------------------------------------------------------------------------
\* One request at a time, where requests do not overlap.
Alone ==
    ~suite.overlap => \A r, s \in RequestId : r = s \/ req[r] = Idle \/ req[s] = Idle

LEMMA AloneStep == ASSUME TypeInv, Alone, [Next]_vars PROVE Alone'
  <1>1. CASE req' = req
    BY <1>1, SuiteStays DEF Alone
  <1>2. ASSUME NEW q \in RequestId, NEW t, Wait(q, t),
               req[q] # Idle \/ suite.overlap \/ \A s \in RequestId : req[s] = Idle
        PROVE  Alone'
    <2>1. \A s \in RequestId \ {q} : req'[s] = req[s]
      BY <1>2, ReqTyped DEF Wait
    <2>2. ASSUME ~suite.overlap PROVE \A s \in RequestId \ {q} : req[s] = Idle
      BY <1>2, <2>2 DEF Alone
    <2> QED BY <2>1, <2>2, SuiteStays DEF Alone
  <1> QED BY <1>1, <1>2, TurnTaken

LEMMA AloneInvariance == Spec => []Alone
  <1>1. TablesInit => Alone
    BY DEF TablesInit, Alone
  <1>2. TypeInv /\ Alone /\ [Next]_vars => Alone'
    BY AloneStep
  <1> QED BY <1>1, <1>2, TypeInvariance, PTL DEF Spec

-----------------------------------------------------------------------------
\* The number of reviews of v that are there.
Posted(v) == Cardinality(ReviewsOf(v))

\* A transaction that posts a review has counted those there and its own, and
\* no other posts one for the same booking.
RatingInv ==
    /\ \A b \in Booking : reviews[b].vendor = NULL => reviews[b].state = "none"
    /\ \A r \in RequestId :
          req[r].at \in {"postReview", "commitRating"} => reviews[req[r].b].vendor = req[r].v
    /\ \A r \in RequestId : req[r].at = "commitRating" =>
          /\ reviews[req[r].b].state = "none"
          /\ req[r].n <= Posted(req[r].v) + 1
          /\ ~suite.overlap => req[r].n = Posted(req[r].v) + 1
    /\ \A r, s \in RequestId :
          req[r].at = "commitRating" /\ req[s].at = "commitRating" /\ req[r].b = req[s].b
             => r = s
    /\ RatingCountsReviews

\* Steps other than a commit take no review away, and add none.
LEMMA ReviewsKept ==
    ASSUME TypeInv, RatingInv, [Next]_vars, \A r \in RequestId : ~commitRating(r)
    PROVE  /\ \A b \in Booking : /\ reviews'[b].vendor = NULL => reviews'[b].state = "none"
                                 /\ reviews[b].vendor # NULL => reviews'[b].vendor = reviews[b].vendor
                                 /\ reviews[b].state = "none" => reviews'[b].state = "none"
           /\ \A v \in Vendor : ReviewsOf(v)' = ReviewsOf(v) /\ profile'[v].count = profile[v].count
  <1>0. reviews \in [Booking -> Review] /\ profile \in [Vendor -> Profile]
    BY DEF TypeInv, TablesTyped
  <1>1. ASSUME NEW b \in Booking
        PROVE  \/ reviews'[b] = reviews[b]
               \/ reviews[b].vendor = NULL /\ reviews'[b].vendor \in Vendor
                     /\ reviews'[b].state = reviews[b].state
               \/ reviews[b].state = "posted" /\ reviews'[b].state = "answered"
                     /\ reviews'[b].vendor = reviews[b].vendor
    <2>1. ASSUME NEW c \in Booking, NEW v \in Vendor, complete(c, v)
          PROVE  \/ reviews'[b] = reviews[b]
                 \/ reviews[b].vendor = NULL /\ reviews'[b].vendor \in Vendor
                       /\ reviews'[b].state = reviews[b].state
      BY <1>0, <2>1 DEF complete, Review
    <2>2. ASSUME NEW r \in RequestId, insertResponse(r)
          PROVE  \/ reviews'[b] = reviews[b]
                 \/ reviews[b].state = "posted" /\ reviews'[b].state = "answered"
                       /\ reviews'[b].vendor = reviews[b].vendor
      BY <1>0, <2>2 DEF insertResponse, Review
    <2> QED BY <2>1, <2>2, ReviewWriters
  <1>2. NULL \notin Vendor /\ \A b \in Booking : reviews[b].vendor = NULL => reviews[b].state = "none"
    BY CatalogAssumption DEF RatingInv
  <1>3. ASSUME NEW v \in Vendor PROVE ReviewsOf(v)' = ReviewsOf(v)
    <2>1. ASSUME NEW b \in Booking PROVE b \in ReviewsOf(v)' <=> b \in ReviewsOf(v)
      BY <1>1, <1>2, <2>1 DEF ReviewsOf
    <2> QED BY <2>1 DEF ReviewsOf
  <1>4. ASSUME NEW v \in Vendor PROVE profile'[v].count = profile[v].count
    <2>1. ASSUME NEW r \in RequestId, insertProfile(r) PROVE profile'[v].count = profile[v].count
      BY <1>0, <2>1 DEF insertProfile, Profile
    <2>2. ASSUME NEW r \in RequestId, decide(r) PROVE profile'[v].count = profile[v].count
      BY <1>0, <2>2 DEF decide, Profile
    <2>3. ASSUME NEW r \in RequestId, NEW text, updateProfile(r, text)
          PROVE  profile'[v].count = profile[v].count
      BY <1>0, <2>3 DEF updateProfile, Profile
    <2>4. ASSUME NEW r \in RequestId, NEW w \in Vendor, submitKyc(r, w) \/ changePlan(r, w)
          PROVE  profile'[v].count = profile[v].count
      BY <1>0, <2>4 DEF submitKyc, changePlan, Profile
    <2>5. ASSUME NEW r \in RequestId, NEW u \in User, deleteMe(r, u)
          PROVE  profile'[v].count = profile[v].count
      BY <1>0, <2>5 DEF deleteMe, Profile
    <2> QED BY <2>1, <2>2, <2>3, <2>4, <2>5, ProfileWriters
  <1> QED BY <1>1, <1>2, <1>3, <1>4

\* A commit adds its review, and sets its vendor's count.
LEMMA ReviewAdded ==
    ASSUME TypeInv, RatingInv, NEW r \in RequestId, commitRating(r),
           NEW v, v = req[r].v, NEW b, b = req[r].b
    PROVE  /\ b \in Booking /\ v \in Vendor /\ req[r].at = "commitRating" /\ req[r].n \in Nat
           /\ req'[r].at = "bust" /\ \A q \in RequestId \ {r} : req'[q] = req[q]
           /\ \A c \in Booking : /\ reviews'[c].vendor = reviews[c].vendor
                                 /\ c # b => reviews'[c] = reviews[c]
           /\ reviews[b].vendor = v
           /\ Posted(v)' = Posted(v) + 1 /\ profile'[v].count = req[r].n
           /\ \A w \in Vendor \ {v} :
                 ReviewsOf(w)' = ReviewsOf(w) /\ profile'[w].count = profile[w].count
  <1>0. reviews \in [Booking -> Review] /\ profile \in [Vendor -> Profile]
    BY DEF TypeInv, TablesTyped
  <1>1. req[r].at = "commitRating" /\ b \in Booking /\ v \in Vendor /\ req[r] \in Slot
        /\ req[r].n \in Nat
    BY SlotHolds DEF commitRating, Carries, BookingCarriers, VendorCarriers, Slot
  <1>2. reviews[b].vendor = v /\ reviews[b].state = "none"
    BY <1>1 DEF RatingInv
  <1>3. req'[r].at = "bust" /\ \A q \in RequestId \ {r} : req'[q] = req[q]
    BY <1>1, ReqTyped DEF commitRating, Wait, Slot
  <1>4. /\ \A c \in Booking : /\ reviews'[c].vendor = reviews[c].vendor
                              /\ c # b => reviews'[c] = reviews[c]
        /\ reviews'[b].state = "posted"
    BY <1>0, <1>1 DEF commitRating, Review
  <1>5. /\ profile'[v].count = req[r].n
        /\ \A w \in Vendor \ {v} : profile'[w].count = profile[w].count
    BY <1>0, <1>1 DEF commitRating, Profile
  <1>6. ReviewsOf(v)' = ReviewsOf(v) \cup {b} /\ b \notin ReviewsOf(v)
    BY <1>1, <1>2, <1>4 DEF ReviewsOf
  <1>7. Posted(v)' = Posted(v) + 1
    BY <1>6, FinitelyMany, FS_AddElement DEF Posted
  <1>8. ASSUME NEW w \in Vendor \ {v} PROVE ReviewsOf(w)' = ReviewsOf(w)
    BY <1>2, <1>4, <1>8 DEF ReviewsOf
  <1> QED BY <1>1, <1>2, <1>3, <1>4, <1>5, <1>7, <1>8

\* A slot comes to post a review from having looked at the booking, or having
\* counted the reviews.
LEMMA RatingSlots ==
    ASSUME TypeInv, [Next]_vars, NEW q \in RequestId,
           req'[q].at \in {"postReview", "commitRating"}
    PROVE  \/ req'[q] = req[q]
           \/ /\ req'[q].at = "postReview" /\ UNCHANGED reviews
              /\ reviews[req'[q].b].vendor = req'[q].v
           \/ /\ postReview(q) /\ req'[q].at = "commitRating"
              /\ req'[q].b = req[q].b /\ req'[q].v = req[q].v
              /\ req'[q].n = Posted(req[q].v) + 1
              /\ \A s \in RequestId \ {q} : req'[s] = req[s]
  <1> DEFINE Done == \/ req'[q] = req[q]
                     \/ /\ req'[q].at = "postReview" /\ UNCHANGED reviews
                        /\ reviews[req'[q].b].vendor = req'[q].v
                     \/ /\ postReview(q) /\ req'[q].at = "commitRating"
                        /\ req'[q].b = req[q].b /\ req'[q].v = req[q].v
                        /\ req'[q].n = Posted(req[q].v) + 1
                        /\ \A s \in RequestId \ {q} : req'[s] = req[s]
  <1> SUFFICES Done
    OBVIOUS
  <1>1. ASSUME NEW steps, Reads(q, steps), "postReview" \notin steps, "commitRating" \notin steps
        PROVE  Done
    BY <1>1 DEF Reads
  <1>2. ASSUME NEW r \in RequestId, NEW b \in Booking, createReview(r, b) PROVE Done
    BY <1>2, ReqTyped DEF createReview, Wait, Idle, tables, catalog
  <1>3. ASSUME NEW r \in RequestId, postReview(r) PROVE Done
    <2>1. PICK n : n = Posted(req[r].v) + 1
                   /\ req' = [req EXCEPT ![r] = [req[r] EXCEPT !.at = "commitRating", !.n = n]]
      BY <1>3 DEF postReview, Posted, Wait
    <2>2. CASE r = q
      <3>1. req[q] \in Slot /\ req'[q] = [req[q] EXCEPT !.at = "commitRating", !.n = n]
            /\ \A s \in RequestId \ {q} : req'[s] = req[s]
        BY <2>1, <2>2, ReqTyped
      <3>2. req'[q].at = "commitRating" /\ req'[q].b = req[q].b /\ req'[q].v = req[q].v
            /\ req'[q].n = n
        BY <3>1 DEF Slot
      <3> QED BY <1>3, <2>1, <2>2, <3>1, <3>2
    <2>3. CASE r # q
      BY <2>1, <2>3, ReqTyped
    <2> QED BY <2>2, <2>3
  <1>4. ASSUME NEW r \in RequestId, commitRating(r) PROVE Done
    <2>1. req'[r].at = "bust" /\ \A s \in RequestId \ {r} : req'[s] = req[s]
      BY <1>4, SlotHolds, ReqTyped DEF commitRating, Wait, Slot
    <2> QED BY <2>1
  <1>5. ASSUME NEW r \in RequestId, NEW b \in Booking, respond(r, b) PROVE Done
    BY <1>5, ReqTyped DEF respond, Wait, Idle
  <1>6. ASSUME NEW r \in RequestId, Return(r) PROVE Done
    BY <1>6, ReqTyped DEF Return, Idle
  <1>7. CASE req' = req
    BY <1>7
  <1> HIDE DEF Done
  <1>8. CASE RatingsNext
    BY <1>2, <1>3, <1>4, <1>5, <1>6, <1>7, <1>8
       DEF RatingsNext, complete, postReviewRefused, insertResponse, insertResponseRefused
  <1>9. CASE SearchIndexNext
    BY <1>1, <1>9, SearchGo DEF CopySteps
  <1>10. CASE VendorProfilesNext
    BY <1>1, <1>10, VendorsGo DEF VendorSlots, VendorSteps
  <1>11. CASE ListingsNext
    BY <1>1, <1>11, ListingsGo, GoesReads DEF ListingSteps
  <1>12. CASE DisputesNext
    BY <1>1, <1>12, DisputesGo, GoesReads
  <1>13. CASE AccountsNext
    BY <1>1, <1>13, AccountsGo, GoesReads DEF UserCarriers
  <1>14. ASSUME NEW r \in RequestId, Fail(r) PROVE Done
    BY <1>6, <1>14 DEF Fail
  <1> QED BY <1>7, <1>8, <1>9, <1>10, <1>11, <1>12, <1>13, <1>14 DEF Next, vars

LEMMA RatingStep == ASSUME TypeInv, Alone, RatingInv, [Next]_vars PROVE RatingInv'
  <1> DEFINE Quiet == \A r \in RequestId : ~commitRating(r)
  <1>0. NULL \notin Vendor /\ \A v \in Vendor : Posted(v) \in Nat /\ profile[v].count \in Nat
    BY CatalogAssumption, FinitelyMany DEF Posted, TypeInv, TablesTyped, Profile
  <1>1. ASSUME NEW r \in RequestId, req[r].at \in {"postReview", "commitRating"}
        PROVE  /\ req[r].b \in Booking /\ req[r].v \in Vendor /\ req[r].n \in Nat
               /\ reviews[req[r].b].vendor = req[r].v
    BY <1>1, SlotHolds DEF Carries, BookingCarriers, VendorCarriers, RatingInv, Slot
  <1>2. ASSUME NEW r \in RequestId, commitRating(r)
        PROVE  /\ UNCHANGED suite
               /\ ~suite.overlap => \A q \in RequestId \ {r} : req[q].at = "idle"
               /\ \A q \in RequestId \ {r} : req[q].at = "commitRating" => req[q].b # req[r].b
    <2>1. req[r].at = "commitRating"
      BY <1>2 DEF commitRating
    <2> QED BY <1>2, <2>1 DEF commitRating, Alone, Idle, RatingInv
  <1>3. \A b \in Booking : reviews'[b].vendor = NULL => reviews'[b].state = "none"
    <2>1. ASSUME NEW r \in RequestId, commitRating(r), NEW c \in Booking, reviews'[c].vendor = NULL
          PROVE  reviews'[c].state = "none"
      <3> DEFINE v == req[r].v
                 b == req[r].b
      <3>1. reviews[b].vendor = v /\ v \in Vendor /\ reviews'[c].vendor = reviews[c].vendor
            /\ (c # b => reviews'[c] = reviews[c])
        BY <2>1, ReviewAdded
      <3> QED BY <1>0, <2>1, <3>1 DEF RatingInv
    <2> QED BY <2>1, ReviewsKept
  <1>4. ASSUME NEW b \in Booking, reviews[b].vendor # NULL
        PROVE  reviews'[b].vendor = reviews[b].vendor
    <2>1. ASSUME NEW r \in RequestId, commitRating(r) PROVE reviews'[b].vendor = reviews[b].vendor
      BY <2>1, ReviewAdded
    <2> QED BY <1>4, <2>1, ReviewsKept
  <1>5. ASSUME NEW q \in RequestId, NEW t, t = req'[q], t.at \in {"postReview", "commitRating"}
        PROVE  reviews'[t.b].vendor = t.v
    <2>1. CASE t = req[q]
      BY <1>0, <1>1, <1>4, <1>5, <2>1
    <2>2. CASE t.at = "postReview" /\ UNCHANGED reviews /\ reviews[t.b].vendor = t.v
      BY <2>2
    <2>3. CASE postReview(q) /\ t.b = req[q].b /\ t.v = req[q].v
      <3>1. req[q].at = "postReview"
        BY <2>3 DEF postReview
      <3> QED BY <1>0, <1>1, <1>4, <2>3, <3>1
    <2> QED BY <1>5, <2>1, <2>2, <2>3, RatingSlots
  <1>6. ASSUME NEW q \in RequestId, NEW t, t = req'[q], t.at = "commitRating",
               NEW v, v = t.v, NEW b, b = t.b
        PROVE  /\ reviews'[b].state = "none"
               /\ t.n <= Posted(v)' + 1
               /\ ~suite'.overlap => t.n = Posted(v)' + 1
    <2>1. CASE postReview(q) /\ b = req[q].b /\ v = req[q].v /\ t.n = Posted(v) + 1
      <3>1. reviews[b].state = "none" /\ UNCHANGED tables /\ req[q].at = "postReview"
        BY <2>1 DEF postReview
      <3>2. Posted(v)' = Posted(v) /\ v \in Vendor /\ UNCHANGED <<suite, reviews>>
        BY <1>1, <2>1, <3>1 DEF tables, catalog, Posted, ReviewsOf
      <3> QED BY <1>0, <2>1, <3>1, <3>2
    <2>2. CASE t = req[q] /\ Quiet
      <3>1. b \in Booking /\ v \in Vendor /\ t.n \in Nat
        BY <1>1, <1>6, <2>2
      <3>2. reviews[b].state = "none" /\ t.n <= Posted(v) + 1
            /\ (~suite.overlap => t.n = Posted(v) + 1)
        BY <1>6, <2>2 DEF RatingInv
      <3>3. reviews'[b].state = "none" /\ Posted(v)' = Posted(v)
        BY <2>2, <3>1, <3>2, ReviewsKept DEF Posted
      <3> QED BY <3>2, <3>3, SuiteStays
    <2>3. ASSUME t = req[q], NEW r \in RequestId, commitRating(r)
          PROVE  /\ reviews'[b].state = "none"
                 /\ t.n <= Posted(v)' + 1
                 /\ ~suite'.overlap => t.n = Posted(v)' + 1
      <3> DEFINE w == req[r].v
                 c == req[r].b
      <3>1. b \in Booking /\ v \in Vendor /\ t.n \in Nat /\ reviews[b].state = "none"
            /\ t.n <= Posted(v) + 1 /\ req[q].at = "commitRating"
        BY <1>1, <1>6, <2>3 DEF RatingInv
      <3>2. r # q
        BY <1>6, <2>3, ReviewAdded
      <3>3. reviews'[b] = reviews[b]
        BY <1>2, <2>3, <1>6, <3>1, <3>2, ReviewAdded
      <3>4. Posted(v)' = Posted(v) \/ Posted(v)' = Posted(v) + 1
        <4>1. w = v => Posted(v)' = Posted(v) + 1
          BY <2>3, ReviewAdded
        <4>2. w # v => ReviewsOf(v)' = ReviewsOf(v)
          BY <2>3, <3>1, ReviewAdded
        <4> QED BY <4>1, <4>2 DEF Posted
      <3>5. suite'.overlap
        BY <1>2, <2>3, <3>1, <3>2
      <3> QED BY <1>0, <3>1, <3>3, <3>4, <3>5
    <2> QED BY <1>6, <2>1, <2>2, <2>3, RatingSlots
  <1>7. ASSUME NEW q \in RequestId, NEW s \in RequestId,
               req'[q].at = "commitRating", req'[s].at = "commitRating", req'[q].b = req'[s].b
        PROVE  q = s
    <2>1. ASSUME NEW x \in RequestId, NEW y \in RequestId, x # y, postReview(x),
                 req'[x].b = req[x].b, \A z \in RequestId \ {x} : req'[z] = req[z],
                 req'[y].at = "commitRating"
          PROVE  req'[x].b # req'[y].b
      BY <2>1 DEF postReview
    <2> QED BY <1>7, <2>1, RatingSlots DEF RatingInv
  <1>8. RatingCountsReviews'
    <2>1. ASSUME NEW r \in RequestId, commitRating(r), NEW w \in Vendor
          PROVE  /\ profile'[w].count <= Posted(w)'
                 /\ ~suite'.overlap => profile'[w].count = Posted(w)'
      <3> DEFINE v == req[r].v
                 n == req[r].n
      <3>1. CASE w = v
        <4>1. n <= Posted(v) + 1 /\ (~suite.overlap => n = Posted(v) + 1)
          BY <2>1 DEF commitRating, RatingInv
        <4>2. Posted(w)' = Posted(w) + 1 /\ profile'[w].count = n
          BY <2>1, <3>1, ReviewAdded
        <4> QED BY <1>2, <2>1, <3>1, <4>1, <4>2
      <3>2. CASE w # v
        <4>1. ReviewsOf(w)' = ReviewsOf(w) /\ profile'[w].count = profile[w].count
          BY <2>1, <3>2, ReviewAdded
        <4> QED BY <1>2, <2>1, <4>1 DEF RatingInv, RatingCountsReviews, Posted
      <3> QED BY <3>1, <3>2
    <2>2. CASE Quiet
      <3>1. \A v \in Vendor : ReviewsOf(v)' = ReviewsOf(v) /\ profile'[v].count = profile[v].count
        BY <2>2, ReviewsKept
      <3> QED BY <3>1, SuiteStays DEF RatingInv, RatingCountsReviews
    <2> QED BY <2>1, <2>2 DEF RatingCountsReviews, Posted
  <1> QED BY <1>3, <1>5, <1>6, <1>7, <1>8 DEF RatingInv

\* A request about to write a rating has counted its own review and none that
\* is not there.
THEOREM RatingInvariance == Spec => []RatingInv
  <1>1. ASSUME TablesInit PROVE RatingInv
    <2>1. \A v : ReviewsOf(v) = {}
      BY <1>1 DEF TablesInit, ReviewsOf
    <2>2. \A v \in Vendor : profile[v].count = 0 /\ Cardinality(ReviewsOf(v)) = 0
      BY <1>1, <2>1, FS_EmptySet DEF TablesInit
    <2> QED BY <1>1, <2>2 DEF TablesInit, RatingInv, RatingCountsReviews, Idle
  <1>2. TypeInv /\ Alone /\ RatingInv /\ [Next]_vars => RatingInv'
    BY RatingStep
  <1> QED BY <1>1, <1>2, TypeInvariance, AloneInvariance, PTL DEF Spec

\* A profile counts no review that is not there, and where requests do not
\* overlap all that are.
THEOREM RatingCounts == Spec => []RatingCountsReviews
  <1>1. RatingInv => RatingCountsReviews
    BY DEF RatingInv
  <1> QED BY <1>1, RatingInvariance, PTL

-----------------------------------------------------------------------------
\* Where nothing but creating a listing makes one active, and the plan stays.
Limited == suite.routes \cap {"setActive", "updatePlan", "changePlan"} = {} /\ limit # NULL

\* The requests that have found room for another listing of v.
Creators(v) == {r \in RequestId : req[r].at = "insertListing" /\ req[r].v = v}

Slack == IF suite.overlap THEN Cardinality(RequestId) - 1 ELSE 0

\* With the listings that are about to be created, too, a vendor is past its
\* plan's limit by no more than the other slots.
LimitInv ==
    Limited =>
        /\ \A r \in RequestId : /\ req[r].at = "updateListing" => req[r].seen = NULL
                                /\ req[r].at = "countActive" => req[r].n = limit
        /\ \A v \in Vendor :
              Cardinality(ActiveOf(v)) + Cardinality(Creators(v)) <= limit + Slack

LEMMA CreatorsFinite ==
    ASSUME NEW v
    PROVE  /\ Cardinality(RequestId) \in Nat /\ Cardinality(RequestId) >= 1
           /\ IsFiniteSet(Creators(v)) /\ Cardinality(Creators(v)) \in Nat
           /\ Cardinality(Creators(v)) <= Cardinality(RequestId)
  <1>1. IsFiniteSet(RequestId) /\ Creators(v) \subseteq RequestId
    BY CatalogAssumption DEF Creators
  <1>2. Cardinality(RequestId) \in Nat /\ Cardinality(RequestId) # 0
    BY <1>1, CatalogAssumption, FS_CardinalityType, FS_EmptySet
  <1>3. IsFiniteSet(Creators(v)) /\ Cardinality(Creators(v)) <= Cardinality(RequestId)
    BY <1>1, FS_Subset
  <1> QED BY <1>2, <1>3, FS_CardinalityType

LEMMA LimitedTyped ==
    ASSUME TypeInv, Limited
    PROVE  limit \in Nat /\ Slack \in Nat
  <1>1. limit \in Nat
    BY CatalogAssumption DEF Limited, Limit, TypeInv, TablesTyped
  <1>2. Slack \in Nat
    BY CreatorsFinite DEF Slack
  <1> QED BY <1>1, <1>2

\* A slot comes to create or to update a listing from having counted, or from
\* having looked at the row.
LEMMA LimitSlots ==
    ASSUME TypeInv, [Next]_vars, NEW q \in RequestId,
           req'[q].at \in {"countActive", "insertListing", "updateListing"}
    PROVE  \/ req'[q] = req[q]
           \/ /\ req'[q].at = "updateListing"
              /\ req'[q].seen = NULL \/ "setActive" \in suite.routes
           \/ req'[q].at = "countActive" /\ req'[q].n = limit
           \/ /\ req'[q].at = "insertListing" /\ req'[q].v = req[q].v
              /\ limit = NULL \/ countActive(q)
  <1> DEFINE Done == \/ req'[q] = req[q]
                     \/ /\ req'[q].at = "updateListing"
                        /\ req'[q].seen = NULL \/ "setActive" \in suite.routes
                     \/ req'[q].at = "countActive" /\ req'[q].n = limit
                     \/ /\ req'[q].at = "insertListing" /\ req'[q].v = req[q].v
                        /\ limit = NULL \/ countActive(q)
  <1> SUFFICES Done
    OBVIOUS
  <1>1. ASSUME NEW steps, Reads(q, steps),
               steps \cap {"countActive", "insertListing", "updateListing"} = {}
        PROVE  Done
    BY <1>1 DEF Reads
  <1>2. ASSUME NEW r \in RequestId, NEW s, Wait(r, s),
               s.at \notin {"countActive", "insertListing", "updateListing"}
        PROVE  Done
    BY <1>2, ReqTyped DEF Wait
  <1>3. ASSUME NEW r \in RequestId, NEW v \in Vendor, create(r, v) PROVE Done
    BY <1>2, <1>3 DEF create, Idle
  <1>4. ASSUME NEW r \in RequestId, readLimit(r) PROVE Done
    <2>1. CASE limit = NULL /\ Wait(r, [req[r] EXCEPT !.at = "insertListing"])
      BY <2>1, ReqTyped DEF Wait, Slot
    <2>2. CASE Wait(r, [req[r] EXCEPT !.at = "countActive", !.n = limit])
      BY <2>2, ReqTyped DEF Wait, Slot
    <2>3. CASE Return(r)
      BY <2>3, ReqTyped DEF Return, Idle
    <2> HIDE DEF Done
    <2> QED BY <1>4, <2>1, <2>2, <2>3 DEF readLimit
  <1>5. ASSUME NEW r \in RequestId, countActive(r) PROVE Done
    <2>1. CASE Return(r)
      BY <2>1, ReqTyped DEF Return, Idle
    <2>2. CASE Wait(r, [req[r] EXCEPT !.at = "insertListing", !.n = 0])
      <3>1. r = q => req'[q].at = "insertListing" /\ req'[q].v = req[q].v
        BY <2>2, ReqTyped DEF Wait, Slot
      <3>2. r # q => req'[q] = req[q]
        BY <2>2, ReqTyped DEF Wait
      <3> QED BY <1>5, <3>1, <3>2
    <2> HIDE DEF Done
    <2> QED BY <1>5, <2>1, <2>2 DEF countActive
  <1>6. ASSUME NEW r \in RequestId, NEW l \in Listing, NEW media \in BOOLEAN,
               insertListing(r, l, media)
        PROVE  Done
    BY <1>2, <1>6 DEF insertListing, Idle
  <1>7. ASSUME NEW r \in RequestId, NEW l \in Listing,
               NEW to \in {"active", "inactive"}, update(r, l, to)
        PROVE  Done
    <2>1. PICK seen : /\ seen = NULL \/ "setActive" \in suite.routes
                      /\ Wait(r, [Idle EXCEPT !.at = "updateListing", !.l = l,
                                              !.keys = {<<"listing", l>>}, !.seen = seen])
      BY <1>7 DEF update, Called
    <2> QED BY <2>1, ReqTyped DEF Wait, Idle
  <1>8. ASSUME NEW r \in RequestId, NEW l \in Listing,
               remove(r, l) \/ changeMedia(r, l) \/ recordView(r, l)
        PROVE  Done
    BY <1>2, <1>8 DEF remove, changeMedia, recordView, Idle
  <1>9. ASSUME NEW r \in RequestId, updateListing(r) \/ deleteListing(r) \/ writeMedia(r)
        PROVE  Done
    <2>1. CASE Wait(r, [req[r] EXCEPT !.at = "bust", !.after = "readListing", !.seen = NULL])
      BY <1>2, <2>1, ReqTyped DEF Slot
    <2>2. CASE Wait(r, [req[r] EXCEPT !.at = "bust"])
      BY <1>2, <2>2, ReqTyped DEF Slot
    <2> HIDE DEF Done
    <2> QED BY <1>9, <2>1, <2>2 DEF updateListing, deleteListing, writeMedia
  <1>10. ASSUME NEW r \in RequestId, Return(r) PROVE Done
    BY <1>10, ReqTyped DEF Return, Idle
  <1>11. ASSUME req' = req PROVE Done
    BY <1>11
  <1> HIDE DEF Done
  <1>12. CASE ListingsNext
    BY <1>3, <1>4, <1>5, <1>6, <1>7, <1>8, <1>9, <1>10, <1>11, <1>12
       DEF ListingsNext, updatePlan, deleteListingBooked, writeRefused
  <1>13. CASE SearchIndexNext
    BY <1>1, <1>13, SearchGo DEF CopySteps
  <1>14. CASE VendorProfilesNext
    BY <1>1, <1>14, VendorsGo DEF VendorSlots, VendorSteps
  <1>15. CASE RatingsNext
    BY <1>1, <1>15, RatingsGo, GoesReads
  <1>16. CASE DisputesNext
    BY <1>1, <1>16, DisputesGo, GoesReads
  <1>17. CASE AccountsNext
    BY <1>1, <1>17, AccountsGo, GoesReads DEF UserCarriers
  <1>18. ASSUME NEW r \in RequestId, Fail(r) PROVE Done
    BY <1>10, <1>18 DEF Fail
  <1> QED BY <1>11, <1>12, <1>13, <1>14, <1>15, <1>16, <1>17, <1>18 DEF Next, vars

\* Nothing but an insert makes a listing active.
LEMMA ActiveKept ==
    ASSUME TypeInv, [Next]_vars, \A r \in RequestId : req[r].at = "updateListing" => req[r].seen = NULL,
           \A r \in RequestId, l \in Listing, media \in BOOLEAN : ~insertListing(r, l, media),
           NEW v
    PROVE  ActiveOf(v)' \subseteq ActiveOf(v)
  <1>0. listing \in [Listing -> ListingRow]
    BY DEF TypeInv, TablesTyped
  <1>1. ASSUME NEW l \in Listing
        PROVE  /\ listing'[l].vendor = listing[l].vendor
               /\ listing'[l].status \in {listing[l].status, "deleted"}
    <2>1. ASSUME NEW r \in RequestId, updateListing(r)
          PROVE  listing'[l].vendor = listing[l].vendor /\ listing'[l].status = listing[l].status
      <3>1. req[r].seen = NULL
        BY <2>1 DEF updateListing
      <3> QED BY <1>0, <2>1, <3>1 DEF updateListing, ListingRow
    <2>2. ASSUME NEW r \in RequestId, deleteListing(r)
          PROVE  /\ listing'[l].vendor = listing[l].vendor
                 /\ listing'[l].status \in {listing[l].status, "deleted"}
      BY <1>0, <2>2 DEF deleteListing, ListingRow
    <2>3. ASSUME NEW r \in RequestId, writeMedia(r)
          PROVE  listing'[l].vendor = listing[l].vendor /\ listing'[l].status = listing[l].status
      BY <1>0, <2>3 DEF writeMedia, ListingRow
    <2> QED BY <2>1, <2>2, <2>3, ListingWriters
  <1> QED BY <1>1 DEF ActiveOf

\* An insert makes one listing of one vendor active, and its slot is free to
\* bring the copies up to date.
LEMMA ListingAdded ==
    ASSUME TypeInv, NEW r \in RequestId, NEW l \in Listing, NEW media, insertListing(r, l, media),
           NEW v, v = req[r].v
    PROVE  /\ r \in Creators(v) /\ Creators(v)' = Creators(v) \ {r}
           /\ Cardinality(ActiveOf(v)') = Cardinality(ActiveOf(v)) + 1
           /\ \A w : w # v => ActiveOf(w)' = ActiveOf(w) /\ Creators(w)' = Creators(w)
           /\ UNCHANGED <<suite, limit>>
  <1>0. listing \in [Listing -> ListingRow]
    BY DEF TypeInv, TablesTyped
  <1>1. req[r].at = "insertListing" /\ listing[l].status = "none" /\ UNCHANGED <<suite, limit>>
    BY DEF insertListing
  <1>2. req'[r].at = "bust" /\ \A q \in RequestId \ {r} : req'[q] = req[q]
    BY ReqTyped DEF insertListing, Wait, Idle
  <1>3. /\ listing'[l].vendor = v /\ listing'[l].status = "active"
        /\ \A m \in Listing \ {l} : listing'[m] = listing[m]
    BY <1>0 DEF insertListing
  <1>4. r \in Creators(v) /\ Creators(v)' = Creators(v) \ {r}
    BY <1>1, <1>2 DEF Creators
  <1>5. ASSUME NEW w, w # v PROVE ActiveOf(w)' = ActiveOf(w) /\ Creators(w)' = Creators(w)
    BY <1>1, <1>2, <1>3, <1>5 DEF ActiveOf, Creators
  <1>6. ActiveOf(v)' = ActiveOf(v) \cup {l} /\ l \notin ActiveOf(v)
    BY <1>1, <1>3 DEF ActiveOf
  <1>7. Cardinality(ActiveOf(v)') = Cardinality(ActiveOf(v)) + 1
    BY <1>6, FinitelyMany, FS_AddElement
  <1> QED BY <1>1, <1>4, <1>5, <1>7

LEMMA LimitStep == ASSUME TypeInv, Alone, LimitInv, [Next]_vars PROVE LimitInv'
  <1> SUFFICES ASSUME Limited'
               PROVE  /\ \A r \in RequestId : /\ req'[r].at = "updateListing" => req'[r].seen = NULL
                                              /\ req'[r].at = "countActive" => req'[r].n = limit'
                      /\ \A v \in Vendor : Cardinality(ActiveOf(v))' + Cardinality(Creators(v))'
                                              <= limit' + Slack'
    BY DEF LimitInv
  <1>1. UNCHANGED <<suite, limit>> /\ Limited
    BY SuiteStays, LimitWriters DEF Limited
  <1>2. limit \in Nat /\ Slack \in Nat
    BY <1>1, LimitedTyped
  <1>3. /\ \A r \in RequestId : /\ req[r].at = "updateListing" => req[r].seen = NULL
                                /\ req[r].at = "countActive" => req[r].n = limit
        /\ \A v \in Vendor :
              Cardinality(ActiveOf(v)) + Cardinality(Creators(v)) <= limit + Slack
    BY <1>1 DEF LimitInv
  <1>4. ASSUME NEW r \in RequestId
        PROVE  /\ req'[r].at = "updateListing" => req'[r].seen = NULL
               /\ req'[r].at = "countActive" => req'[r].n = limit'
    BY <1>1, <1>3, LimitSlots DEF Limited
  <1>5. ASSUME NEW v \in Vendor
        PROVE  /\ Cardinality(ActiveOf(v)) \in Nat /\ Cardinality(ActiveOf(v))' \in Nat
               /\ Cardinality(Creators(v)) \in Nat /\ Cardinality(Creators(v))' \in Nat
               /\ Cardinality(Creators(v))' <= Cardinality(RequestId)
               /\ ActiveOf(v)' \subseteq ActiveOf(v)
                     => Cardinality(ActiveOf(v))' <= Cardinality(ActiveOf(v))
               /\ Creators(v)' \subseteq Creators(v)
                     => Cardinality(Creators(v))' <= Cardinality(Creators(v))
    <2>1. IsFiniteSet(ActiveOf(v)) /\ Cardinality(ActiveOf(v)) \in Nat
      BY FinitelyMany
    <2>2. Cardinality(ActiveOf(v))' \in Nat
      <3>1. ActiveOf(v)' \subseteq Listing
        BY DEF ActiveOf
      <3> QED BY <3>1, CatalogAssumption, FS_Subset, FS_CardinalityType
    <2>3. IsFiniteSet(Creators(v)) /\ Cardinality(Creators(v)) \in Nat
      BY CreatorsFinite
    <2>4. Cardinality(Creators(v))' \in Nat /\ Cardinality(Creators(v))' <= Cardinality(RequestId)
      <3>1. Creators(v)' \subseteq RequestId
        BY DEF Creators
      <3> QED BY <3>1, CatalogAssumption, FS_Subset, FS_CardinalityType
    <2> QED BY <2>1, <2>2, <2>3, <2>4, FS_Subset
  <1>6. ASSUME NEW v \in Vendor
        PROVE  Cardinality(ActiveOf(v))' + Cardinality(Creators(v))' <= limit + Slack
    <2>1. CASE \E r \in RequestId, l \in Listing, media \in BOOLEAN : insertListing(r, l, media)
      <3>1. PICK r \in RequestId, l \in Listing, media \in BOOLEAN : insertListing(r, l, media)
        BY <2>1
      <3>2. CASE v = req[r].v
        <4>1. /\ r \in Creators(v) /\ Creators(v)' = Creators(v) \ {r}
              /\ Cardinality(ActiveOf(v)') = Cardinality(ActiveOf(v)) + 1
          BY <3>1, <3>2, ListingAdded
        <4>2. Cardinality(Creators(v) \ {r}) = Cardinality(Creators(v)) - 1
          BY <4>1, CreatorsFinite, FS_RemoveElement
        <4> QED BY <1>2, <1>3, <1>5, <4>1, <4>2
      <3>3. CASE v # req[r].v
        <4>1. ActiveOf(v)' = ActiveOf(v) /\ Creators(v)' = Creators(v)
          BY <3>1, <3>3, ListingAdded
        <4> QED BY <1>3, <4>1
      <3> QED BY <3>2, <3>3
    <2>2. CASE ~\E r \in RequestId, l \in Listing, media \in BOOLEAN : insertListing(r, l, media)
      <3>1. Cardinality(ActiveOf(v))' <= Cardinality(ActiveOf(v))
        BY <1>3, <1>5, <2>2, ActiveKept
      <3>2. CASE Creators(v)' \subseteq Creators(v)
        BY <1>2, <1>3, <1>5, <3>1, <3>2
      <3>3. CASE ~(Creators(v)' \subseteq Creators(v))
        <4>1. PICK q \in RequestId : /\ req'[q].at = "insertListing" /\ req'[q].v = v
                                     /\ ~(req[q].at = "insertListing" /\ req[q].v = v)
          BY <3>3 DEF Creators
        <4>2. countActive(q) /\ req[q].v = v
          BY <1>1, <4>1, LimitSlots DEF Limited
        <4>3. req[q].at = "countActive" /\ req[q].n = limit
          BY <1>3, <4>2 DEF countActive
        <4>4. Cardinality(ActiveOf(v)) < limit
          <5>1. CASE Return(q)
            BY <4>1, <5>1, ReqTyped DEF Return, Idle
          <5>2. CASE ~(Cardinality(ActiveOf(v)) >= req[q].n)
            BY <1>2, <1>5, <4>3, <5>2
          <5> QED BY <4>2, <5>1, <5>2 DEF countActive
        <4>5. CASE suite.overlap
          <5>1. Slack = Cardinality(RequestId) - 1
            BY <4>5 DEF Slack
          <5>2. Cardinality(RequestId) \in Nat
            BY CreatorsFinite
          <5> QED BY <1>2, <1>5, <3>1, <4>4, <5>1, <5>2
        <4>6. CASE ~suite.overlap
          <5>1. \A s \in RequestId \ {q} : req'[s].at # "insertListing"
            <6>1. \A s \in RequestId \ {q} : req'[s] = req[s]
              BY <4>2, ReqTyped DEF countActive, Wait, Return
            <6>2. \A s \in RequestId \ {q} : req[s] = Idle
              <7>1. req[q] # Idle
                BY <4>3 DEF Idle
              <7> QED BY <4>6, <7>1 DEF Alone
            <6> QED BY <6>1, <6>2 DEF Idle
          <5>2. Creators(v)' \subseteq {q}
            BY <5>1 DEF Creators
          <5>3. Cardinality(Creators(v))' <= 1
            <6>1. IsFiniteSet({q}) /\ Cardinality({q}) = 1
              BY FS_Singleton
            <6> QED BY <5>2, <6>1, FS_Subset
          <5> QED BY <1>2, <1>5, <3>1, <4>4, <5>3
        <4> QED BY <4>5, <4>6
      <3> QED BY <3>2, <3>3
    <2> QED BY <2>1, <2>2
  <1>7. Slack' = Slack
    BY <1>1 DEF Slack
  <1> QED BY <1>1, <1>4, <1>6, <1>7

\* The active listings of a vendor and the creations that have passed the test
\* of the limit stay together within the limit and one creation per slot.
THEOREM LimitInvariance == Spec => []LimitInv
  <1>1. ASSUME TablesInit PROVE LimitInv
    <2>1. \A v \in Vendor : ActiveOf(v) = {} /\ Creators(v) = {}
      BY <1>1 DEF TablesInit, ActiveOf, Creators, Idle
    <2>2. \A v \in Vendor : Cardinality(ActiveOf(v)) = 0 /\ Cardinality(Creators(v)) = 0
      BY <2>1, FS_EmptySet
    <2>3. Limited => limit \in Nat /\ Slack \in Nat
      BY <1>1, InitTyped, LimitedTyped
    <2>4. \A r \in RequestId : req[r].at = "idle"
      BY <1>1 DEF TablesInit, Idle
    <2> QED BY <2>2, <2>3, <2>4 DEF LimitInv
  <1>2. TypeInv /\ Alone /\ LimitInv /\ [Next]_vars => LimitInv'
    BY LimitStep
  <1> QED BY <1>1, <1>2, TypeInvariance, AloneInvariance, PTL DEF Spec

\* Creating listings, n requests at a time take a vendor past the limit of its
\* plan by n - 1 at most, and one at a time not at all.
THEOREM LimitBounded == Spec => []LimitOverrunBounded
  <1>1. ASSUME TypeInv, LimitInv PROVE LimitOverrunBounded
    <2>1. Limited => limit \in Nat /\ Slack \in Nat
      BY <1>1, LimitedTyped
    <2>2. \A v : Cardinality(ActiveOf(v)) \in Nat /\ Cardinality(Creators(v)) \in Nat
      BY FinitelyMany, CreatorsFinite
    <2> QED BY <1>1, <2>1, <2>2 DEF LimitInv, LimitOverrunBounded, Limited, Slack
  <1> QED BY <1>1, TypeInvariance, LimitInvariance, PTL

-----------------------------------------------------------------------------
(* The copies.  First, how the slots move that bring them up to date.       *)

\* A slot moves only by the steps of the module it waits for.
LEMMA Unmoved ==
    ASSUME TypeInv, NEW steps, req' = req \/ Turn(steps), NEW q \in RequestId,
           req[q] # Idle, req[q].at \notin steps
    PROVE  req'[q] = req[q]
  BY ReqTyped DEF Turn, Serves, Wait

\* Slot q takes a step of SearchIndex.
Brought(q) ==
    \/ readRow(q) \/ fill(q) \/ bust(q)
    \/ reindex(q) \/ readListings(q) \/ readListing(q)
    \/ \E entry \in req[q].todo : upsert(q, entry)
    \/ deleteDoc(q) \/ import(q)

\* A slot that brings the copies up to date moves only by doing so, or fails.
LEMMA CopySlots ==
    ASSUME TypeInv, [Next]_vars, NEW q \in RequestId, req[q].at \in CopySteps
    PROVE  req'[q] = req[q] \/ Fail(q) \/ Brought(q)
  <1> DEFINE Done == req'[q] = req[q] \/ Fail(q) \/ Brought(q)
  <1> SUFFICES Done
    OBVIOUS
  <1>1. req[q] # Idle
    BY DEF Idle, CopySteps
  <1>2. ASSUME NEW r \in RequestId, NEW s, Wait(r, s), r # q PROVE Done
    BY <1>2, ReqTyped DEF Wait
  <1>3. ASSUME NEW r \in RequestId, Brought(r) PROVE Done
    <2>1. \E s : Wait(r, s)
      BY <1>3, Returns, ZenonT(60) DEF Brought, readRow, fill, bust, reindex, readListings,
         readListing, upsert, deleteDoc, import
    <2> QED BY <1>2, <1>3, <2>1
  <1>4. ASSUME NEW r \in RequestId, NEW op, Called(r, op), NEW s, Wait(r, s) PROVE Done
    BY <1>1, <1>2, <1>4 DEF Called
  <1>5. CASE SearchIndexNext
    BY <1>3, <1>4, <1>5, ZenonT(60) DEF SearchIndexNext, Brought, viewPage, bulkSyncListings,
       bulkSyncVendors, bulkSync, expire, reconcileSchema
  <1>6. ASSUME NEW steps, req' = req \/ Turn(steps), steps \cap CopySteps = {} PROVE Done
    BY <1>1, <1>6, Unmoved
  <1>7. /\ VendorSteps \cap CopySteps = {} /\ ListingSteps \cap CopySteps = {}
        /\ RatingSteps \cap CopySteps = {} /\ DisputeSteps \cap CopySteps = {}
        /\ UserCarriers \cap CopySteps = {}
    BY DEF CopySteps, VendorSteps, ListingSteps, RatingSteps, DisputeSteps, UserCarriers
  <1>8. ASSUME NEW r \in RequestId, Fail(r) PROVE Done
    BY <1>2, <1>8, Returns DEF Fail
  <1>9. CASE UNCHANGED vars
    BY <1>9 DEF vars
  <1> HIDE DEF Done
  <1> QED BY <1>5, <1>6, <1>7, <1>8, <1>9, VendorsTurn, ListingsTurn, RatingsTurn, DisputesTurn,
          AccountsTurn DEF Next

\* A failed slot was in use.
LEMMA Died ==
    ASSUME TypeInv, NEW q \in RequestId, Fail(q)
    PROVE  Dies(q)
  BY ReqTyped DEF Fail, Return, Dies, Steps

-----------------------------------------------------------------------------
(* Documents of deleted listings.                                           *)

\* Slot r is to delete the document of listing l.
Deleting(r, l) ==
    /\ req[r].l = l
    /\ req[r].at = "deleteDoc" \/ (req[r].at = "bust" /\ req[r].after = "deleteDoc")

\* It does so, unless it dies first.
LEMMA DeletingStays ==
    ASSUME TypeInv, [Next]_vars, NEW q \in RequestId, NEW l \in Listing, Deleting(q, l)
    PROVE  Deleting(q, l)' \/ index'[l] = NULL \/ Dies(q)
  <1>1. req[q] \in Slot /\ req[q].at \in {"bust", "deleteDoc"} /\ req[q].at \in CopySteps
    BY SlotHolds DEF Deleting, CopySteps
  <1>2. ASSUME req'[q] = req[q] PROVE Deleting(q, l)'
    BY <1>2 DEF Deleting
  <1>3. ASSUME bust(q) PROVE Deleting(q, l)'
    <2>1. Wait(q, [req[q] EXCEPT !.at = req[q].after, !.after = "idle", !.keys = {}])
          /\ req[q].after = "deleteDoc"
      BY <1>3 DEF bust, Deleting
    <2>2. req'[q].at = "deleteDoc" /\ req'[q].l = req[q].l
      BY <1>1, <2>1, ReqTyped DEF Wait, Slot
    <2> QED BY <2>2 DEF Deleting
  <1>4. ASSUME deleteDoc(q) PROVE index'[l] = NULL
    BY <1>4 DEF deleteDoc, Deleting, TypeInv, TablesTyped, DocId
  <1> QED BY <1>1, <1>2, <1>3, <1>4, CopySlots, Died DEF Brought, readRow, fill, reindex, readListings,
          readListing, upsert, import

\* A listing is deleted by a request that then deletes its document.
LEMMA DeletionFollows ==
    ASSUME TypeInv, [Next]_vars, NEW l \in Listing,
           listing[l].status # "deleted", listing'[l].status = "deleted"
    PROVE  \E q \in RequestId : Deleting(q, l)'
  <1>0. listing \in [Listing -> ListingRow]
    BY DEF TypeInv, TablesTyped
  <1>1. ASSUME NEW r \in RequestId, updateListing(r) PROVE FALSE
    <2>1. req[r].seen \in {NULL, "active", "inactive"}
      BY <1>1, SlotHolds DEF updateListing, Carries
    <2> QED BY <1>0, <1>1, <2>1 DEF updateListing, ListingRow
  <1>2. ASSUME NEW r \in RequestId, writeMedia(r) PROVE FALSE
    BY <1>0, <1>2 DEF writeMedia, ListingRow
  <1>3. ASSUME NEW r \in RequestId, NEW m \in Listing, NEW media, insertListing(r, m, media)
        PROVE  FALSE
    BY <1>0, <1>3 DEF insertListing
  <1>4. PICK r \in RequestId : deleteListing(r)
    BY <1>1, <1>2, <1>3, ListingWriters
  <1>5. req[r] \in Slot /\ req[r].at = "deleteListing" /\ req[r].after = "deleteDoc"
    BY <1>4, SlotHolds DEF deleteListing, Carries
  <1>6. req[r].l = l
    BY <1>0, <1>4 DEF deleteListing
  <1>7. req'[r].at = "bust" /\ req'[r].after = "deleteDoc" /\ req'[r].l = l
    BY <1>4, <1>5, <1>6, ReqTyped DEF deleteListing, Wait, Slot
  <1> QED BY <1>7 DEF Deleting

\* A deleted listing stays in the search only by a document that was read
\* before the deletion and written after it, or when the deletion fails.
THEOREM GhostsExplained == Spec => GhostOnlyByRace
  <1>1. ASSUME TypeInv, [Next]_vars, NEW l \in Listing, ~Ghost(l), Ghost(l)'
        PROVE  \E r \in RequestId :
                  \/ /\ req[r].at \in {"upsert", "import"} /\ Steps(r)
                     /\ \E doc \in Doc : <<l, doc>> \in req[r].todo
                  \/ Dies(r)
    <2>1. /\ listing'[l].status = "deleted" /\ index'[l] # NULL
          /\ \A r \in RequestId : ~Deleting(r, l)'
      BY <1>1 DEF Ghost, Deleting
    <2>2. listing[l].status = "deleted"
      BY <1>1, <2>1, DeletionFollows
    <2>3. CASE index[l] = NULL
      BY <1>1, <2>1, <2>3, IndexStep DEF IndexKept, IndexWritten, DocId
    <2>4. CASE index[l] # NULL
      <3>1. PICK q \in RequestId : Deleting(q, l)
        BY <1>1, <2>2, <2>4 DEF Ghost, Deleting
      <3> QED BY <1>1, <2>1, <3>1, DeletingStays
    <2> QED BY <2>3, <2>4
  <1>2. ASSUME TypeInv, [Next]_vars
        PROVE  \A l \in Listing : ~Ghost(l) /\ Ghost(l)' =>
                  \E r \in RequestId :
                     \/ /\ req[r].at \in {"upsert", "import"} /\ Steps(r)
                        /\ \E doc \in Doc : <<l, doc>> \in req[r].todo
                     \/ Dies(r)
    BY <1>1, <1>2
  <1> QED BY <1>2, TypeInvariance, PTL DEF Spec, GhostOnlyByRace

-----------------------------------------------------------------------------
(* Pages in the cache.  Which vendor a page is of depends on the slugs.     *)

\* Two vendors do not share a slug.
SlugsUnique ==
    \A v, w \in Vendor : v # w /\ profile[v].slug = profile[w].slug => profile[v].slug = NULL

LEMMA SlugsStep == ASSUME TypeInv, SlugsUnique, [Next]_vars PROVE SlugsUnique'
  <1>0. profile \in [Vendor -> Profile]
    BY DEF TypeInv, TablesTyped
  <1>1. ASSUME \A v \in Vendor : profile'[v].slug = profile[v].slug PROVE SlugsUnique'
    BY <1>1 DEF SlugsUnique
  <1>2. ASSUME NEW r \in RequestId, insertProfile(r) PROVE SlugsUnique'
    <2> DEFINE v == req[r].v
               s == req[r].slug
    <2>1. v \in Vendor /\ \A w \in Vendor : profile[w].slug # s
      BY <1>2, SlotHolds DEF insertProfile, Carries, VendorCarriers, SlugTaken
    <2>2. \A w \in Vendor : profile'[w].slug = IF w = v THEN s ELSE profile[w].slug
      BY <1>0, <1>2 DEF insertProfile, Profile
    <2> HIDE DEF v, s
    <2> QED BY <2>1, <2>2 DEF SlugsUnique
  <1>3. ASSUME NEW r \in RequestId, NEW text, updateProfile(r, text) PROVE SlugsUnique'
    <2> DEFINE v == req[r].v
               s == req[r].slug
    <2>1. v \in Vendor /\ (s # NULL => \A w \in Vendor \ {v} : profile[w].slug # s)
      BY <1>3, SlotHolds DEF updateProfile, Carries, VendorCarriers
    <2>2. \A w \in Vendor :
             profile'[w].slug = IF w = v /\ s # NULL THEN s ELSE profile[w].slug
      BY <1>0, <1>3 DEF updateProfile, Profile
    <2> HIDE DEF v, s
    <2> QED BY <2>1, <2>2 DEF SlugsUnique
  <1>4. ASSUME NEW r \in RequestId, decide(r) PROVE SlugsUnique'
    BY <1>0, <1>1, <1>4 DEF decide, Profile
  <1>5. ASSUME NEW r \in RequestId, commitRating(r) PROVE SlugsUnique'
    BY <1>0, <1>1, <1>5 DEF commitRating, Profile
  <1>6. ASSUME NEW r \in RequestId, NEW v \in Vendor,
               submitKyc(r, v) \/ changePlan(r, v)
        PROVE  SlugsUnique'
    BY <1>0, <1>1, <1>6 DEF submitKyc, changePlan, Profile
  <1>7. ASSUME NEW r \in RequestId, NEW u \in User, deleteMe(r, u) PROVE SlugsUnique'
    BY <1>0, <1>1, <1>7 DEF deleteMe, Profile
  <1>8. ASSUME UNCHANGED profile PROVE SlugsUnique'
    BY <1>1, <1>8
  <1> QED BY <1>2, <1>3, <1>4, <1>5, <1>6, <1>7, <1>8, ProfileWriters, ZenonT(30)

\* The unique index on slug, and the checks before it, hold over every rename.
THEOREM SlugsInvariance == Spec => []SlugsUnique
  <1>1. TablesInit => SlugsUnique
    BY DEF TablesInit, SlugsUnique
  <1>2. TypeInv /\ SlugsUnique /\ [Next]_vars => SlugsUnique'
    BY SlugsStep
  <1> QED BY <1>1, <1>2, TypeInvariance, PTL DEF Spec

\* The pages of an onboarded vendor show it, and no others do.
LEMMA PageOf ==
    ASSUME TypeInv, SlugsUnique, NEW k \in Key, k[1] # "listing"
    PROVE  /\ \A v \in Vendor : Onboarded(v) /\ k \in KeysOf(v, profile[v].slug) => Current(k) = ProfileView(v)
           /\ Current(k) # NULL =>
                 \E v \in Vendor : Onboarded(v) /\ k \in KeysOf(v, profile[v].slug)
  <1>1. \/ k[1] = "vendor" /\ k[2] \in Vendor /\ k = <<"vendor", k[2]>>
        \/ k[1] = "slug" /\ k[2] \in Slug /\ k = <<"slug", k[2]>>
    BY DEF Key
  <1>2. \A v \in Vendor : v \in Subject(k) /\ Onboarded(v)
                             <=> Onboarded(v) /\ k \in KeysOf(v, profile[v].slug)
    BY <1>1 DEF Subject, KeysOf
  <1>3. Subject(k) \subseteq Vendor
    BY <1>1 DEF Subject
  <1>4. ASSUME NEW v \in Subject(k), NEW w \in Subject(k), Onboarded(v), Onboarded(w)
        PROVE  v = w
    BY <1>1, <1>3, <1>4 DEF Subject, SlugsUnique, Onboarded
  <1>5. ASSUME NEW v \in Subject(k), Onboarded(v) PROVE Current(k) = ProfileView(v)
    <2>1. (CHOOSE w \in Subject(k) : Onboarded(w)) = v
      BY <1>4, <1>5
    <2> QED BY <1>5, <2>1 DEF Current
  <1>6. Current(k) # NULL => \E v \in Subject(k) : Onboarded(v)
    BY DEF Current
  <1> QED BY <1>2, <1>3, <1>5, <1>6

-----------------------------------------------------------------------------
\* The steps that write a page.
LEMMA CacheWriters ==
    ASSUME [Next]_vars
    PROVE  \/ UNCHANGED cache
           \/ \E r \in RequestId : fill(r) \/ bust(r)
           \/ \E k \in Key : expire(k)
  <1>1. CASE SearchIndexNext
    BY <1>1, ZenonT(60) DEF SearchIndexNext, viewPage, readRow, reindex, readListings,
       readListing, upsert, deleteDoc, bulkSyncListings, bulkSyncVendors, bulkSync, import,
       reconcileSchema, tables, copies
  <1> QED BY <1>1, VendorsFootprint, ListingsFootprint, RatingsFootprint, DisputesFootprint,
          AccountsFootprint, FailFootprint DEF Next, vars, tables, copies

\* A page that is there was there before, or was just read and cached.
LEMMA PageFilled ==
    ASSUME TypeInv, [Next]_vars, NEW k \in Key, cache'[k] # NULL, cache'[k] # cache[k]
    PROVE  \E r \in RequestId : /\ fill(r) /\ Steps(r) /\ k \in req[r].keys
                                /\ cache'[k] = req[r].value
  <1>0. cache \in [Key -> Snapshot \cup {NULL}]
    BY DEF TypeInv, TablesTyped
  <1>1. ASSUME NEW r \in RequestId, bust(r) PROVE FALSE
    BY <1>0, <1>1 DEF bust
  <1>2. ASSUME NEW j \in Key, expire(j) PROVE FALSE
    BY <1>0, <1>2 DEF expire
  <1>3. PICK r \in RequestId : fill(r)
    BY <1>1, <1>2, CacheWriters
  <1>4. k \in req[r].keys /\ cache'[k] = req[r].value
    BY <1>0, <1>3 DEF fill
  <1>5. Steps(r)
    BY <1>3, ReqTyped DEF fill, Return, Idle, Steps
  <1> QED BY <1>3, <1>4, <1>5

\* A slot that is to delete a page does so next, or fails.
LEMMA BustingStays ==
    ASSUME TypeInv, [Next]_vars, NEW q \in RequestId, NEW k \in Key,
           req[q].at = "bust", k \in req[q].keys
    PROVE  req'[q] = req[q] \/ cache'[k] = NULL \/ Dies(q)
  <1>1. req[q].at \in CopySteps
    BY DEF CopySteps
  <1>2. ASSUME bust(q) PROVE cache'[k] = NULL
    BY <1>2 DEF bust
  <1> QED BY <1>1, <1>2, CopySlots, Died DEF Brought, readRow, fill, reindex, readListings,
          readListing, upsert, deleteDoc, import

\* Likewise as one formula, to be used of the next state too.
Paged ==
    \A k \in Key, v \in Vendor :
       k[1] # "listing" /\ Onboarded(v) /\ k \in KeysOf(v, profile[v].slug)
          => Current(k) = ProfileView(v)

LEMMA PagesHold == TypeInv /\ SlugsUnique => Paged
  BY PageOf DEF Paged

LEMMA PagesNext == (TypeInv /\ SlugsUnique)' => Paged'
  BY PagesHold, PTL

-----------------------------------------------------------------------------
\* A slot comes to delete a listing from having looked at its row.
LEMMA RemoveSlots ==
    ASSUME TypeInv, [Next]_vars, NEW q \in RequestId, req'[q].at = "deleteListing"
    PROVE  req'[q] = req[q] \/ \E l \in Listing : remove(q, l)
  <1> DEFINE Done == req'[q] = req[q] \/ \E l \in Listing : remove(q, l)
  <1> SUFFICES Done
    OBVIOUS
  <1>1. ASSUME NEW steps, Reads(q, steps), "deleteListing" \notin steps PROVE Done
    BY <1>1 DEF Reads
  <1>2. ASSUME NEW r \in RequestId, NEW s, Wait(r, s), s.at # "deleteListing" PROVE Done
    BY <1>2, ReqTyped DEF Wait
  <1>3. ASSUME NEW r \in RequestId, Return(r) PROVE Done
    BY <1>3, ReqTyped DEF Return, Idle
  <1>4. ASSUME req' = req PROVE Done
    BY <1>4
  <1>5. ASSUME NEW r \in RequestId, NEW l \in Listing, remove(r, l) PROVE Done
    BY <1>5, ReqTyped DEF remove, Wait
  <1> HIDE DEF Done
  <1>6. CASE ListingsNext
    <2>1. ASSUME NEW r \in RequestId, NEW v \in Vendor, create(r, v) PROVE Done
      BY <1>2, <2>1 DEF create, Idle
    <2>2. ASSUME NEW r \in RequestId, readLimit(r) \/ countActive(r) PROVE Done
      <3>1. ASSUME NEW n, NEW at \in {"insertListing", "countActive"},
                   \/ Wait(r, [req[r] EXCEPT !.at = at])
                   \/ Wait(r, [req[r] EXCEPT !.at = at, !.n = n])
            PROVE  Done
        BY <1>2, <3>1, ReqTyped DEF Slot
      <3> QED BY <1>3, <2>2, <3>1 DEF readLimit, countActive
    <2>3. ASSUME NEW r \in RequestId, NEW l \in Listing, NEW media, insertListing(r, l, media)
          PROVE  Done
      BY <1>2, <2>3 DEF insertListing, Idle
    <2>4. ASSUME NEW r \in RequestId, NEW l \in Listing, NEW to, update(r, l, to) PROVE Done
      BY <1>2, <2>4 DEF update, Idle
    <2>5. ASSUME NEW r \in RequestId, NEW l \in Listing, changeMedia(r, l) \/ recordView(r, l)
          PROVE  Done
      BY <1>2, <2>5 DEF changeMedia, recordView, Idle
    <2>6. ASSUME NEW r \in RequestId, updateListing(r) \/ deleteListing(r) \/ writeMedia(r)
          PROVE  Done
      <3>1. CASE Wait(r, [req[r] EXCEPT !.at = "bust", !.after = "readListing", !.seen = NULL])
        BY <1>2, <3>1, ReqTyped DEF Slot
      <3>2. CASE Wait(r, [req[r] EXCEPT !.at = "bust"])
        BY <1>2, <3>2, ReqTyped DEF Slot
      <3> QED BY <2>6, <3>1, <3>2 DEF updateListing, deleteListing, writeMedia
    <2> QED BY <1>3, <1>4, <1>5, <1>6, <2>1, <2>2, <2>3, <2>4, <2>5, <2>6
            DEF ListingsNext, updatePlan, deleteListingBooked, writeRefused
  <1>7. CASE SearchIndexNext
    BY <1>1, <1>7, SearchGo DEF CopySteps
  <1>8. CASE VendorProfilesNext
    BY <1>1, <1>8, VendorsGo DEF VendorSlots, VendorSteps
  <1>9. CASE RatingsNext
    BY <1>1, <1>9, RatingsGo, GoesReads
  <1>10. CASE DisputesNext
    BY <1>1, <1>10, DisputesGo, GoesReads
  <1>11. CASE AccountsNext
    BY <1>1, <1>11, AccountsGo, GoesReads DEF UserCarriers
  <1>12. ASSUME NEW r \in RequestId, Fail(r) PROVE Done
    BY <1>3, <1>12 DEF Fail
  <1> QED BY <1>4, <1>6, <1>7, <1>8, <1>9, <1>10, <1>11, <1>12 DEF Next, vars

\* Whoever deletes a listing knows whose page shows it.
RemoversKnow ==
    \A r \in RequestId : req[r].at = "deleteListing" =>
        /\ listing[req[r].l].status # "none"
        /\ <<"vendor", listing[req[r].l].vendor>> \in req[r].keys

LEMMA RemoversStep == ASSUME TypeInv, RemoversKnow, [Next]_vars PROVE RemoversKnow'
  <1>1. ASSUME NEW q \in RequestId, req'[q].at = "deleteListing"
        PROVE  /\ listing'[req'[q].l].status # "none"
               /\ <<"vendor", listing'[req'[q].l].vendor>> \in req'[q].keys
    <2>1. CASE req'[q] = req[q]
      <3>1. req[q].l \in Listing
        BY <1>1, <2>1, SlotHolds DEF Carries, RowSteps
      <3> QED BY <1>1, <2>1, <3>1, OwnerStays DEF RemoversKnow
    <2>2. ASSUME NEW l \in Listing, remove(q, l)
          PROVE  /\ listing'[req'[q].l].status # "none"
                 /\ <<"vendor", listing'[req'[q].l].vendor>> \in req'[q].keys
      <3>1. req'[q].l = l /\ req'[q].keys = {<<"listing", l>>, <<"vendor", listing[l].vendor>>}
        BY <2>2, ReqTyped DEF remove, Wait, Idle
      <3>2. listing[l].status # "none" /\ listing' = listing
        BY <2>2 DEF remove, Exists, tables, catalog
      <3> QED BY <3>1, <3>2
    <2> QED BY <1>1, <2>1, <2>2, RemoveSlots
  <1> QED BY <1>1 DEF RemoversKnow

LEMMA RemoversInvariance == Spec => []RemoversKnow
  <1>1. TablesInit => RemoversKnow
    BY DEF TablesInit, RemoversKnow, Idle
  <1>2. TypeInv /\ RemoversKnow /\ [Next]_vars => RemoversKnow'
    BY RemoversStep
  <1> QED BY <1>1, <1>2, TypeInvariance, PTL DEF Spec

-----------------------------------------------------------------------------
\* A change to a listing is followed by the deletion of its page.
LEMMA ListingBusts ==
    ASSUME TypeInv, [Next]_vars, NEW l \in Listing, Exists(l), listing'[l] # listing[l]
    PROVE  \E r \in RequestId : req'[r].at = "bust" /\ <<"listing", l>> \in req'[r].keys
  <1>0. listing \in [Listing -> ListingRow] /\ listing'[l] # listing[l]
    BY DEF TypeInv, TablesTyped
  <1>1. ASSUME NEW r \in RequestId, NEW m \in Listing, NEW media, insertListing(r, m, media)
        PROVE  FALSE
    BY <1>0, <1>1 DEF insertListing, Exists
  <1>2. PICK r \in RequestId : updateListing(r) \/ deleteListing(r) \/ writeMedia(r)
    BY <1>0, <1>1, ListingWriters
  <1>3. req[r].at \in RowSteps /\ req[r].l = l /\ req[r] \in Slot
    BY <1>0, <1>2, ReqTyped DEF updateListing, deleteListing, writeMedia, RowSteps
  <1>4. <<"listing", l>> \in req[r].keys
    BY <1>3, SlotHolds DEF Carries
  <1>5. CASE updateListing(r)
    BY <1>3, <1>4, <1>5, ReqTyped DEF updateListing, Wait, Slot
  <1>6. CASE deleteListing(r)
    BY <1>3, <1>4, <1>6, ReqTyped DEF deleteListing, Wait, Slot
  <1>7. CASE writeMedia(r)
    BY <1>3, <1>4, <1>7, ReqTyped DEF writeMedia, Wait, Slot
  <1> QED BY <1>2, <1>5, <1>6, <1>7

\* The writer of a profile had read the slug before a rename.
ReadBeforeRename(r) ==
    /\ req[r].at \in {"updateProfile", "decide", "commitRating"} /\ Steps(r)
    /\ req[r].old # profile[req[r].v].slug

\* A change to a profile is followed by the deletion of the vendor's pages,
\* unless the writer knows them under another slug or deletes none.
LEMMA ProfileBusts ==
    ASSUME TypeInv, [Next]_vars, NEW v \in Vendor, Onboarded(v), profile'[v] # profile[v]
    PROVE  \/ \E r \in RequestId :
                 \/ ReadBeforeRename(r)
                 \/ req'[r].at = "bust" /\ KeysOf(v, profile[v].slug) \subseteq req'[r].keys
           \/ PagesOmitted(v)
  <1> DEFINE Done == \/ \E r \in RequestId :
                           \/ ReadBeforeRename(r)
                           \/ /\ req'[r].at = "bust"
                              /\ KeysOf(v, profile[v].slug) \subseteq req'[r].keys
                     \/ PagesOmitted(v)
  <1> SUFFICES Done
    OBVIOUS
  <1>0. profile \in [Vendor -> Profile] /\ profile[v].slug # NULL /\ profile'[v] # profile[v]
    BY DEF TypeInv, TablesTyped, Onboarded
  <1>1. ASSUME NEW r \in RequestId, insertProfile(r) PROVE Done
    BY <1>0, <1>1 DEF insertProfile, Onboarded
  <1>2. ASSUME NEW r \in RequestId, NEW u \in User, deleteMe(r, u) PROVE Done
    <2>1. profile'[v].text = "deleted" /\ profile[v] # [profile[v] EXCEPT !.text = "deleted"]
      BY <1>0, <1>2 DEF deleteMe, Profile
    <2>2. profile[v].text # "deleted"
      BY <1>0, <2>1 DEF Profile
    <2> QED BY <2>1, <2>2 DEF PagesOmitted
  <1>3. ASSUME NEW r \in RequestId, NEW text, updateProfile(r, text) PROVE Done
    <2>1. req[r].at = "updateProfile" /\ req[r].v = v /\ req[r] \in Slot /\ Steps(r)
      BY <1>0, <1>3, SlotHolds, ReqTyped DEF updateProfile, Wait, Slot, Steps
    <2>2. CASE req[r].old # profile[v].slug
      BY <2>1, <2>2 DEF ReadBeforeRename
    <2>3. CASE req[r].old = profile[v].slug
      <3>1. req[r].slug # NULL /\ req[r].keys = KeysOf(v, profile[v].slug)
        BY <1>0, <2>1, <2>3, SlotHolds DEF Carries
      <3>2. req'[r].at = "bust" /\ req'[r].keys = req[r].keys
        BY <1>3, <2>1, <3>1, ReqTyped DEF updateProfile, Wait, Slot
      <3> QED BY <3>1, <3>2
    <2> QED BY <2>2, <2>3
  <1>4. ASSUME NEW r \in RequestId, decide(r) \/ commitRating(r) PROVE Done
    <2>1. req[r].at \in {"decide", "commitRating"} /\ req[r].v = v /\ req[r] \in Slot
      BY <1>0, <1>4, SlotHolds DEF decide, commitRating
    <2>2. req'[r].at = "bust" /\ req'[r].keys = req[r].keys /\ Steps(r)
      <3>1. CASE decide(r)
        BY <2>1, <3>1, ReqTyped DEF decide, Wait, Slot, Steps
      <3>2. CASE commitRating(r)
        BY <2>1, <3>2, ReqTyped DEF commitRating, Wait, Slot, Steps
      <3> QED BY <1>4, <3>1, <3>2
    <2>3. CASE req[r].old # profile[v].slug
      BY <2>1, <2>2, <2>3 DEF ReadBeforeRename
    <2>4. CASE req[r].old = profile[v].slug
      BY ZenonT(60), <1>0, <2>1, <2>2, <2>4, SlotHolds DEF Carries
    <2> QED BY <2>3, <2>4
  <1>5. ASSUME NEW r \in RequestId, NEW w \in Vendor, submitKyc(r, w) PROVE Done
    <2>1. profile'[v].kyc = "SUBMITTED" /\ profile[v] # [profile[v] EXCEPT !.kyc = "SUBMITTED"]
      BY <1>0, <1>5 DEF submitKyc, Profile
    <2>2. profile[v].kyc # "SUBMITTED"
      BY <1>0, <2>1 DEF Profile
    <2> QED BY <2>1, <2>2 DEF PagesOmitted
  <1>6. ASSUME NEW r \in RequestId, NEW w \in Vendor, changePlan(r, w) PROVE Done
    <2>1. PICK tier \in Tier : profile' = [profile EXCEPT ![w].tier = tier]
      BY <1>6 DEF changePlan
    <2>2. profile'[v].tier = tier /\ profile[v] # [profile[v] EXCEPT !.tier = tier]
      BY <1>0, <2>1 DEF Profile
    <2>3. profile[v].tier # tier
      BY <1>0, <2>2 DEF Profile
    <2> QED BY <2>2, <2>3 DEF PagesOmitted
  <1> HIDE DEF Done
  <1> QED BY <1>0, <1>1, <1>2, <1>3, <1>4, <1>5, <1>6, ProfileWriters, ZenonT(30)

\* A change to what a vendor's page shows of its listings is an edit, after
\* which its pages stay, or one comes or goes, and only the page by id does.
LEMMA ItemsBust ==
    ASSUME TypeInv, RemoversKnow, [Next]_vars, NEW v \in Vendor,
           {Item(l) : l \in ActiveOf(v)}' # {Item(l) : l \in ActiveOf(v)}
    PROVE  \/ PagesOmitted(v)
           \/ /\ SlugOmitted(v)
              /\ \E r \in RequestId : req'[r].at = "bust" /\ <<"vendor", v>> \in req'[r].keys
  <1> DEFINE Done == \/ PagesOmitted(v)
                     \/ /\ SlugOmitted(v)
                        /\ \E r \in RequestId :
                              req'[r].at = "bust" /\ <<"vendor", v>> \in req'[r].keys
  <1> SUFFICES Done
    OBVIOUS
  <1>0. listing \in [Listing -> ListingRow]
    BY DEF TypeInv, TablesTyped
  <1>1. PICK l \in Listing : listing'[l] # listing[l] /\ (l \in ActiveOf(v) \/ l \in ActiveOf(v)')
    <2>1. SUFFICES ASSUME \A l \in Listing :
                             l \in ActiveOf(v) \/ l \in ActiveOf(v)' => listing'[l] = listing[l]
                   PROVE  FALSE
      OBVIOUS
    <2>2. ActiveOf(v)' = ActiveOf(v)
      BY <2>1 DEF ActiveOf
    <2>3. \A l \in ActiveOf(v) : Item(l)' = Item(l)
      BY <2>1 DEF ActiveOf, Item
    <2> QED BY <2>2, <2>3
  <1>2. ASSUME NEW r \in RequestId, NEW m \in Listing, NEW media, insertListing(r, m, media)
        PROVE  Done
    <2>1. m = l /\ listing[l].status = "none" /\ listing'[l].vendor = req[r].v
      BY <1>0, <1>1, <1>2 DEF insertListing
    <2>2. l \notin ActiveOf(v) /\ l \in ActiveOf(v)' /\ req[r].v = v
      BY <1>1, <2>1 DEF ActiveOf
    <2>3. req'[r].at = "bust" /\ <<"vendor", v>> \in req'[r].keys
      BY <1>2, <2>2, ReqTyped DEF insertListing, Wait, Idle
    <2> QED BY <2>2, <2>3 DEF SlugOmitted
  <1>3. ASSUME NEW r \in RequestId, updateListing(r) \/ writeMedia(r) PROVE Done
    <2>1. req[r].seen \in {NULL, "active", "inactive"} \/ ~updateListing(r)
      BY SlotHolds DEF updateListing, Carries
    <2>2. req[r].l = l /\ Exists(l)
      BY <1>0, <1>1, <1>3 DEF updateListing, writeMedia
    <2>3. listing'[l].vendor = listing[l].vendor /\ Exists(l)'
      <3>0. listing[l] \in ListingRow /\ listing'[l].vendor = listing[l].vendor
        BY <1>0, <2>2, OwnerStays DEF Exists
      <3>1. CASE updateListing(r)
        <4> DEFINE status == IF req[r].seen = NULL THEN listing[l].status ELSE req[r].seen
        <4>1. PICK text \in Words :
                 listing' = [listing EXCEPT ![l].status = status, ![l].text = text]
          BY <2>2, <3>1 DEF updateListing
        <4>2. status \in {"active", "inactive"}
          BY <2>1, <2>2, <3>1 DEF Exists
        <4> HIDE DEF status
        <4>3. listing'[l].status = status
          BY <1>0, <3>0, <4>1 DEF ListingRow
        <4> QED BY <3>0, <4>2, <4>3 DEF Exists
      <3>2. CASE writeMedia(r)
        <4>1. listing'[l].status = listing[l].status
          BY <1>0, <2>2, <3>0, <3>2 DEF writeMedia, ListingRow
        <4> QED BY <2>2, <3>0, <4>1 DEF Exists
      <3> QED BY <1>3, <3>1, <3>2
    <2>4. listing[l].vendor = v
      BY <1>1, <2>3 DEF ActiveOf
    <2> QED BY <1>1, <2>2, <2>3, <2>4 DEF PagesOmitted
  <1>4. ASSUME NEW r \in RequestId, deleteListing(r) PROVE Done
    <2>1. req[r].at = "deleteListing" /\ req[r].l = l /\ req[r] \in Slot
      BY <1>0, <1>1, <1>4, ReqTyped DEF deleteListing
    <2>2. listing'[l].status = "deleted"
      BY <1>0, <1>4, <2>1 DEF deleteListing, ListingRow
    <2>3. l \in ActiveOf(v) /\ l \notin ActiveOf(v)' /\ listing[l].vendor = v
      BY <1>1, <2>2 DEF ActiveOf
    <2>4. <<"vendor", v>> \in req[r].keys
      BY <2>1, <2>3 DEF RemoversKnow
    <2>5. req'[r].at = "bust" /\ req'[r].keys = req[r].keys
      BY <1>4, <2>1, ReqTyped DEF deleteListing, Wait, Slot
    <2> QED BY <2>3, <2>4, <2>5 DEF SlugOmitted
  <1> HIDE DEF Done
  <1> QED BY <1>1, <1>2, <1>3, <1>4, ListingWriters

-----------------------------------------------------------------------------
\* What the copies' writers and expiry leave of a page they do not fill.
LEMMA StaleStep ==
    ASSUME TypeInv, SlugsUnique, RemoversKnow, TypeInv', SlugsUnique', [Next]_vars,
           NEW k \in Key, ~Stale(k), Stale(k)'
    PROVE  \/ \E r \in RequestId :
                 \/ /\ req[r].at = "fill" /\ k \in req[r].keys /\ Steps(r)
                    /\ req[r].value # Current(k)
                 \/ ReadBeforeRename(r)
                 \/ Dies(r)
           \/ Omitted(k)
  <1> DEFINE Done == \/ \E r \in RequestId :
                           \/ /\ req[r].at = "fill" /\ k \in req[r].keys /\ Steps(r)
                              /\ req[r].value # Current(k)
                           \/ ReadBeforeRename(r)
                           \/ Dies(r)
                     \/ Omitted(k)
  <1> SUFFICES Done
    OBVIOUS
  <1>1. /\ cache'[k] # NULL /\ cache'[k] # Current(k)'
        /\ \A r \in RequestId : ~(req'[r].at = "bust" /\ k \in req'[r].keys)
    BY DEF Stale
  <1>2. CASE cache'[k] # cache[k]
    <2>1. PICK r \in RequestId : fill(r) /\ Steps(r) /\ k \in req[r].keys /\ cache'[k] = req[r].value
      BY <1>1, <1>2, PageFilled
    <2>2. UNCHANGED <<profile, listing>>
      BY <2>1 DEF fill, catalog
    <2>3. Current(k)' = Current(k)
      BY <2>2 DEF Current, Subject, Exists, Onboarded, ListingView, ProfileView, Card, Item,
         ActiveOf
    <2> QED BY <1>1, <2>1, <2>3 DEF fill
  <1>3. CASE \E q \in RequestId : req[q].at = "bust" /\ k \in req[q].keys
    BY <1>1, <1>3, BustingStays
  <1>4. CASE cache'[k] = cache[k] /\ ~\E q \in RequestId : req[q].at = "bust" /\ k \in req[q].keys
    <2>1. cache[k] = Current(k) /\ Current(k) # NULL /\ Current(k)' # Current(k)
      BY <1>1, <1>4 DEF Stale
    <2>2. CASE k[1] = "listing"
      <3>1. k[2] \in Listing /\ k = <<"listing", k[2]>>
        BY <2>2 DEF Key
      <3>2. Exists(k[2])
        BY <2>1, <2>2 DEF Current
      <3>3. CASE listing'[k[2]] # listing[k[2]]
        BY <1>1, <3>1, <3>2, <3>3, ListingBusts
      <3>4. CASE listing'[k[2]] = listing[k[2]]
        <4>1. ListingView(k[2])' # ListingView(k[2])
          BY <2>1, <2>2, <3>2, <3>4 DEF Current, Exists
        <4>2. CardOmitted(k[2])
          BY <3>4, <4>1 DEF ListingView, CardOmitted
        <4> QED BY <3>1, <4>2 DEF Omitted
      <3> QED BY <3>3, <3>4
    <2>3. CASE k[1] # "listing"
      <3>1. PICK v \in Vendor : Onboarded(v) /\ k \in KeysOf(v, profile[v].slug)
        BY <2>1, <2>3, PageOf
      <3>2. Current(k) = ProfileView(v)
        BY <2>3, <3>1, PageOf
      <3>3. PagesOmitted(v) => Omitted(k)
        BY <3>1 DEF Omitted
      <3>4. CASE profile'[v] # profile[v]
        BY <1>1, <3>1, <3>3, <3>4, ProfileBusts
      <3>5. CASE profile'[v] = profile[v]
        <4>1. Current(k)' = ProfileView(v)'
          BY <2>3, <3>1, <3>5, PagesNext DEF Paged, Onboarded
        <4>2. {Item(l) : l \in ActiveOf(v)}' # {Item(l) : l \in ActiveOf(v)}
          BY <2>1, <3>2, <3>5, <4>1 DEF ProfileView, Card
        <4>3. CASE \E r \in RequestId : req'[r].at = "bust" /\ <<"vendor", v>> \in req'[r].keys
          <5>1. k = <<"slug", profile[v].slug>>
            BY <1>1, <3>1, <4>3 DEF KeysOf
          <5> QED BY <3>3, <4>2, <5>1, ItemsBust DEF Omitted
        <4> QED BY <3>3, <4>2, <4>3, ItemsBust
      <3> QED BY <3>4, <3>5
    <2> QED BY <2>2, <2>3
  <1> QED BY <1>2, <1>3, <1>4

\* Apart from what no code deletes it for, a page becomes wrong until it
\* expires only by a race that the property names.
THEOREM StaleExplained == Spec => StaleOnlyByRaceOrOmission
  <1>1. TypeInv /\ SlugsUnique /\ RemoversKnow /\ TypeInv' /\ SlugsUnique' /\ [Next]_vars
           => \A k \in Key : ~Stale(k) /\ Stale(k)' =>
                 \/ \E r \in RequestId :
                       \/ /\ req[r].at = "fill" /\ k \in req[r].keys /\ Steps(r)
                          /\ req[r].value # Current(k)
                       \/ /\ req[r].at \in {"updateProfile", "decide", "commitRating"} /\ Steps(r)
                          /\ req[r].old # profile[req[r].v].slug
                       \/ Dies(r)
                 \/ Omitted(k)
    BY StaleStep DEF ReadBeforeRename
  <1> QED BY <1>1, TypeInvariance, SlugsInvariance, RemoversInvariance, PTL
          DEF Spec, StaleOnlyByRaceOrOmission

-----------------------------------------------------------------------------
(* Documents of what the tables show.  They are deleted only with the row.  *)

Deletes(s) == s.at = "deleteDoc" \/ (s.at = "bust" /\ s.after = "deleteDoc")

\* A slot comes to delete a document by deleting the listing.
LEMMA DeletesStep ==
    ASSUME TypeInv, [Next]_vars, NEW q \in RequestId, Deletes(req'[q]), req'[q] # req[q]
    PROVE  deleteListing(q) \/ (bust(q) /\ Deletes(req[q]))
  <1> DEFINE Done == deleteListing(q) \/ (bust(q) /\ Deletes(req[q]))
  <1> SUFFICES Done
    OBVIOUS
  <1>1. ASSUME NEW r \in RequestId, NEW s, Wait(r, s), ~Deletes(s) PROVE Done
    BY <1>1, ReqTyped DEF Wait
  <1>2. ASSUME NEW r \in RequestId, Return(r) PROVE Done
    BY <1>2, ReqTyped DEF Return, Idle, Deletes
  <1>3. ASSUME req' = req PROVE Done
    BY <1>3
  <1>4. ASSUME NEW r \in RequestId, NEW s, Wait(r, s), r # q PROVE Done
    BY <1>4, ReqTyped DEF Wait
  <1>5. \A steps : Goes(q, steps) => req'[q].at \in steps \cup {"idle"}
    BY DEF Goes
  <1>6. CASE DisputesNext
    BY <1>5, <1>6, DisputesGo DEF Deletes
  <1>7. CASE AccountsNext
    BY <1>5, <1>7, AccountsGo DEF Deletes, UserCarriers
  <1>8. CASE RatingsNext
    <2>1. ASSUME NEW r \in RequestId, NEW b \in Booking, createReview(r, b) \/ respond(r, b)
          PROVE  Done
      BY ZenonT(60), <2>1, ReqTyped DEF createReview, respond, Wait, Idle, Deletes
    <2>2. ASSUME NEW r \in RequestId, NEW n, Wait(r, [req[r] EXCEPT !.at = "commitRating", !.n = n])
          PROVE  Done
      BY <2>2, ReqTyped DEF Wait, Slot, Deletes
    <2>3. ASSUME NEW r \in RequestId, commitRating(r) PROVE Done
      <3>1. req[r] \in Slot /\ req[r].after = "idle"
        BY <2>3, SlotHolds DEF commitRating, Carries
      <3>2. Wait(r, [req[r] EXCEPT !.at = "bust", !.n = 0])
        BY <2>3 DEF commitRating
      <3> QED BY <3>1, <3>2, ReqTyped DEF Wait, Slot, Deletes
    <2> HIDE DEF Done
    <2> QED BY <1>2, <1>3, <1>8, <2>1, <2>2, <2>3 DEF RatingsNext, complete, postReview,
            postReviewRefused, insertResponse, insertResponseRefused
  <1>9. CASE VendorProfilesNext
    <2>1. ASSUME NEW r \in RequestId, NEW v \in Vendor, NEW s \in Slug,
                 onboard(r, v, s) \/ updateMyProfile(r, v, s)
          PROVE  Done
      BY ZenonT(60), <2>1, ReqTyped DEF onboard, updateMyProfile, Wait, Idle, Deletes
    <2>2. ASSUME NEW r \in RequestId, NEW v \in Vendor, NEW verdict,
                 onboardAgain(r, v) \/ reviewKyc(r, v, verdict)
          PROVE  Done
      BY ZenonT(60), <2>2, ReqTyped DEF onboardAgain, reviewKyc, Wait, Idle, Deletes
    <2>3. ASSUME NEW r \in RequestId, insertProfile(r) PROVE Done
      BY <2>3, ReqTyped DEF insertProfile, Wait, Slot, Deletes
    <2>4. ASSUME NEW r \in RequestId, NEW text, updateProfile(r, text) PROVE Done
      <3> DEFINE at == IF req[r].slug = NULL THEN "upsert" ELSE "bust"
                 after == IF req[r].slug = NULL THEN "idle" ELSE "upsert"
                 s == [req[r] EXCEPT !.at = at, !.after = after, !.todo = {VendorDoc(req[r].v)}]
      <3>1. s.at # "deleteDoc" /\ s.after # "deleteDoc"
        BY ReqTyped DEF Slot
      <3>2. Wait(r, s)
        BY <2>4 DEF updateProfile
      <3> HIDE DEF s
      <3> QED BY <1>1, <3>1, <3>2 DEF Deletes
    <2>5. ASSUME NEW r \in RequestId, decide(r) PROVE Done
      <3> DEFINE after == IF req[r].flag THEN "reindex" ELSE "idle"
      <3>1. Wait(r, [req[r] EXCEPT !.at = "bust", !.after = after])
        BY <2>5 DEF decide
      <3> QED BY <3>1, ReqTyped DEF Wait, Slot, Deletes
    <2> HIDE DEF Done
    <2> QED BY <1>2, <1>3, <1>9, <2>1, <2>2, <2>3, <2>4, <2>5 DEF VendorProfilesNext, submitKyc, changePlan,
            insertProfileRefused, updateProfileRefused
  <1>10. CASE ListingsNext
    <2>1. ASSUME NEW r \in RequestId, NEW v \in Vendor, create(r, v) PROVE Done
      BY <2>1, ReqTyped DEF create, Wait, Idle, Deletes
    <2>2. ASSUME NEW r \in RequestId, NEW n, NEW at \in {"insertListing", "countActive"},
                 \/ Wait(r, [req[r] EXCEPT !.at = at])
                 \/ Wait(r, [req[r] EXCEPT !.at = at, !.n = n])
          PROVE  Done
      BY <2>2, ReqTyped DEF Wait, Slot, Deletes
    <2>3. ASSUME NEW r \in RequestId, NEW l \in Listing, NEW media, insertListing(r, l, media)
          PROVE  Done
      BY <2>3, ReqTyped DEF insertListing, Wait, Idle, Deletes
    <2>4. ASSUME NEW r \in RequestId, NEW l \in Listing, NEW to, update(r, l, to) PROVE Done
      BY <2>4, ReqTyped DEF update, Wait, Idle, Deletes
    <2>5. ASSUME NEW r \in RequestId, NEW l \in Listing, remove(r, l) \/ recordView(r, l)
          PROVE  Done
      BY ZenonT(60), <2>5, ReqTyped DEF remove, recordView, Wait, Idle, Deletes
    <2>6. ASSUME NEW r \in RequestId, NEW l \in Listing, changeMedia(r, l) PROVE Done
      BY <2>6, ReqTyped DEF changeMedia, Wait, Idle, Deletes
    <2>7. ASSUME NEW r \in RequestId, updateListing(r) PROVE Done
      BY <2>7, ReqTyped DEF updateListing, Wait, Slot, Deletes
    <2>8. ASSUME NEW r \in RequestId, deleteListing(r) PROVE Done
      BY <1>4, <2>8 DEF deleteListing
    <2>9. ASSUME NEW r \in RequestId, writeMedia(r) PROVE Done
      <3>1. req[r] \in Slot /\ req[r].after = "idle"
        BY <2>9, SlotHolds DEF writeMedia, Carries
      <3> QED BY <2>9, <3>1, ReqTyped DEF writeMedia, Wait, Slot, Deletes
    <2> HIDE DEF Done
    <2>10. ASSUME NEW r \in RequestId, readLimit(r) \/ countActive(r) PROVE Done
      BY <1>2, <2>2, <2>10 DEF readLimit, countActive
    <2> QED BY <1>2, <1>3, <1>10, <2>1, <2>3, <2>4, <2>5, <2>6, <2>7, <2>8, <2>9, <2>10
            DEF ListingsNext, updatePlan, deleteListingBooked, writeRefused
  <1>11. CASE SearchIndexNext
    <2>1. ASSUME NEW r \in RequestId, NEW k \in Key, viewPage(r, k) PROVE Done
      BY <2>1, ReqTyped DEF viewPage, Wait, Idle, Deletes
    <2>2. ASSUME NEW r \in RequestId, readRow(r) PROVE Done
      <3>1. ASSUME NEW row, Wait(r, [req[r] EXCEPT !.at = "fill", !.value = row]) PROVE Done
        BY <3>1, ReqTyped DEF Wait, Slot, Deletes
      <3> HIDE DEF Done
      <3> QED BY <1>2, <2>2, <3>1 DEF readRow
    <2>3. ASSUME NEW r \in RequestId, bust(r) PROVE Done
      <3>1. CASE r = q /\ req[r].after # "idle"
                 /\ Wait(r, [req[r] EXCEPT !.at = req[r].after, !.after = "idle", !.keys = {}])
        <4>1. req[r] \in Slot /\ req[r].after # "bust"
          BY ReqTyped DEF Slot, Follower
        <4>2. req'[r].at = req[r].after /\ req'[r].after = "idle"
          BY <3>1, <4>1, ReqTyped DEF Wait, Slot
        <4> QED BY <2>3, <3>1, <4>1, <4>2 DEF bust, Deletes
      <3> QED BY <1>2, <1>4, <2>3, <3>1 DEF bust
    <2>4. ASSUME NEW r \in RequestId, reindex(r) PROVE Done
      BY <2>4, ReqTyped DEF reindex, Wait, Slot, Deletes
    <2>5. ASSUME NEW r \in RequestId, NEW docs,
                 Wait(r, [req[r] EXCEPT !.at = "upsert", !.v = NULL, !.todo = docs])
          PROVE  Done
      BY <2>5, ReqTyped DEF Wait, Slot, Deletes
    <2>6. ASSUME NEW r \in RequestId, NEW docs,
                 Wait(r, [req[r] EXCEPT !.at = "upsert", !.todo = docs])
          PROVE  Done
      BY <2>6, ReqTyped DEF Wait, Slot, Deletes
    <2>7. ASSUME NEW r \in RequestId, NEW entry, upsert(r, entry) PROVE Done
      <3>1. req[r] \in Slot /\ req[r].at = "upsert" /\ req[r].after \in {"idle", "readListing"}
        BY <2>7, SlotHolds DEF upsert, Carries
      <3>2. CASE Wait(r, [req[r] EXCEPT !.todo = @ \ {entry}])
        BY <3>1, <3>2, ReqTyped DEF Wait, Slot, Deletes
      <3>3. CASE Wait(r, [req[r] EXCEPT !.at = req[r].after, !.after = "idle", !.todo = {}])
        BY <3>1, <3>3, ReqTyped DEF Wait, Slot, Deletes
      <3> QED BY <1>2, <2>7, <3>2, <3>3 DEF upsert
    <2>8. ASSUME NEW r \in RequestId, NEW docs, bulkSync(r, docs) PROVE Done
      BY <2>8, ReqTyped DEF bulkSync, Wait, Idle, Deletes
    <2> HIDE DEF Done
    <2>9. ASSUME NEW r \in RequestId, readListings(r) \/ readListing(r) PROVE Done
      BY <1>2, <2>5, <2>6, <2>9 DEF readListings, readListing
    <2>10. ASSUME NEW r \in RequestId, fill(r) \/ deleteDoc(r) \/ import(r) PROVE Done
      BY <1>2, <2>10 DEF fill, deleteDoc, import
    <2>11. ASSUME NEW r \in RequestId, bulkSyncListings(r) \/ bulkSyncVendors(r) PROVE Done
      BY <2>8, <2>11 DEF bulkSyncListings, bulkSyncVendors
    <2> QED BY <1>3, <1>11, <2>1, <2>2, <2>3, <2>4, <2>7, <2>9, <2>10, <2>11
            DEF SearchIndexNext, expire, reconcileSchema
  <1>12. ASSUME NEW r \in RequestId, Fail(r) PROVE Done
    BY <1>2, <1>12 DEF Fail
  <1>13. CASE UNCHANGED vars
    BY <1>3, <1>13 DEF vars
  <1> HIDE DEF Done
  <1> QED BY <1>6, <1>7, <1>8, <1>9, <1>10, <1>11, <1>12, <1>13 DEF Next

\* A request that is to delete a document has deleted the listing.
DeletedFirst ==
    \A r \in RequestId, l \in Listing : Deleting(r, l) => listing[l].status = "deleted"

\* No step brings a deleted listing back.
LEMMA DeletedStays ==
    ASSUME TypeInv, [Next]_vars, NEW l \in Listing, listing[l].status = "deleted"
    PROVE  listing'[l].status = "deleted"
  <1>0. listing \in [Listing -> ListingRow]
    BY DEF TypeInv, TablesTyped
  <1>1. ASSUME NEW r \in RequestId, updateListing(r) \/ deleteListing(r) \/ writeMedia(r)
        PROVE  listing'[l].status = "deleted"
    BY <1>0, <1>1 DEF updateListing, deleteListing, writeMedia, Exists
  <1>2. ASSUME NEW r \in RequestId, NEW m \in Listing, NEW media, insertListing(r, m, media)
        PROVE  listing'[l].status = "deleted"
    BY <1>0, <1>2 DEF insertListing
  <1> QED BY <1>1, <1>2, ListingWriters

LEMMA DeletedFirstStep == ASSUME TypeInv, DeletedFirst, [Next]_vars PROVE DeletedFirst'
  <1>1. ASSUME NEW q \in RequestId, NEW l \in Listing, Deleting(q, l)'
        PROVE  listing'[l].status = "deleted"
    <2>1. CASE Deleting(q, l)
      BY <2>1, DeletedStays DEF DeletedFirst
    <2>2. CASE ~Deleting(q, l)
      <3>1. Deletes(req'[q]) /\ req'[q] # req[q] /\ req'[q].l = l
        BY <1>1, <2>2 DEF Deleting, Deletes
      <3>2. CASE deleteListing(q)
        <4>1. req'[q].l = req[q].l
          BY <3>2, ReqTyped DEF deleteListing, Wait, Slot
        <4> QED BY <3>1, <3>2, <4>1 DEF deleteListing, TypeInv, TablesTyped, ListingRow
      <3>3. CASE bust(q) /\ Deletes(req[q])
        <4>1. CASE Return(q)
          BY <3>1, <4>1, ReqTyped DEF Return, Idle, Deletes
        <4>2. CASE Wait(q, [req[q] EXCEPT !.at = req[q].after, !.after = "idle", !.keys = {}])
          <5>1. req'[q].l = req[q].l
            BY <4>2, ReqTyped DEF Wait, Slot
          <5> QED BY <2>2, <3>1, <3>3, <5>1 DEF Deleting, Deletes
        <4> QED BY <3>3, <4>1, <4>2 DEF bust
      <3> QED BY <3>1, <3>2, <3>3, DeletesStep
    <2> QED BY <2>1, <2>2
  <1> QED BY <1>1 DEF DeletedFirst

\* remove deletes the row before the keys and the document, whatever else
\* happens to either in between.
THEOREM DeletedFirstInvariance == Spec => []DeletedFirst
  <1>1. TablesInit => DeletedFirst
    BY DEF TablesInit, DeletedFirst, Deleting, Idle
  <1>2. TypeInv /\ DeletedFirst /\ [Next]_vars => DeletedFirst'
    BY DeletedFirstStep
  <1> QED BY <1>1, <1>2, TypeInvariance, PTL DEF Spec

-----------------------------------------------------------------------------
Shown == [active |-> TRUE, verified |-> TRUE]

\* The document of what the tables show.
FindableDocs ==
    \A d \in DocId : Findable(d) =>
       /\ DocOf(d) = <<d, Shown>> /\ Owner(d) \in Vendor
       /\ d \in Vendor \/ (d \in Listing /\ listing[d].status = "active")

LEMMA FindableShown == TypeInv => FindableDocs
  <1> SUFFICES ASSUME TypeInv, NEW d \in DocId, Findable(d)
               PROVE  /\ DocOf(d) = <<d, Shown>> /\ Owner(d) \in Vendor
                      /\ d \in Vendor \/ (d \in Listing /\ listing[d].status = "active")
    BY DEF FindableDocs
  <1>0. profile \in [Vendor -> Profile] /\ listing \in [Listing -> ListingRow]
    BY DEF TypeInv, TablesTyped
  <1>1. CASE d \in Vendor
    <2>1. d \notin Listing
      BY <1>1, CatalogAssumption
    <2>2. profile[d].verified = TRUE
      BY <1>0, <1>1, <2>1 DEF Findable, browseVendors, browseListings, Profile
    <2> QED BY <1>1, <2>2 DEF DocOf, VendorDoc, Owner, Shown
  <1>2. CASE d \notin Vendor
    <2>1. d \in browseListings
      BY <1>2 DEF Findable, browseVendors
    <2>2. d \in Listing /\ listing[d].status = "active" /\ listing[d].vendor \in Vendor
          /\ profile[listing[d].vendor].verified
      BY <2>1 DEF browseListings, browseVendors
    <2>3. profile[listing[d].vendor].verified = TRUE
      BY <1>0, <2>2 DEF Profile
    <2> QED BY <1>2, <2>2, <2>3 DEF DocOf, ListingDoc, Owner, Shown
  <1> QED BY <1>1, <1>2

LEMMA FindableShownNext == TypeInv' => FindableDocs'
  BY FindableShown, PTL

LEMMA FoundShown == ASSUME NEW d, index[d] = Shown, Shown # NULL PROVE Found(d)
  BY DEF Found, Shown
LEMMA ShownThere == Shown \in Doc /\ Shown # NULL
  <1>1. Shown \in Doc
    BY DEF Shown, Doc
  <1> QED BY <1>1, CatalogAssumption

\* A document that is gone was deleted.
LEMMA DocDeleted ==
    ASSUME TypeInv, [Next]_vars, NEW d \in DocId, index[d] # NULL, index'[d] = NULL
    PROVE  \E r \in RequestId : deleteDoc(r) /\ req[r].l = d
  <1>0. index \in [DocId -> Doc \cup {NULL}] /\ NULL \notin Doc
    BY CatalogAssumption DEF TypeInv, TablesTyped
  <1>1. ASSUME NEW r \in RequestId, NEW entry, upsert(r, entry) PROVE FALSE
    <2>1. entry \in Entry
      BY <1>1, ReqTyped DEF upsert, Slot
    <2>2. entry[2] \in Doc
      BY <2>1 DEF Entry
    <2> QED BY <1>0, <1>1, <2>2 DEF upsert
  <1>2. ASSUME NEW r \in RequestId, import(r) PROVE FALSE
    <2>1. \A entry \in req[r].todo : entry[2] \in Doc
      BY ReqTyped DEF Slot, Entry
    <2> QED BY <1>0, <1>2, <2>1 DEF import
  <1>3. ASSUME reconcileSchema PROVE FALSE
    <2>1. index[d] \in Doc
      BY <1>0
    <2>2. [index[d] EXCEPT !.verified = FALSE] \in Doc
      BY <2>1 DEF Doc
    <2> QED BY <1>0, <1>3, <2>1, <2>2 DEF reconcileSchema
  <1>4. CASE UNCHANGED index
    BY <1>4
  <1>5. CASE SearchIndexNext
    <2>1. \/ UNCHANGED index \/ reconcileSchema
          \/ \E r \in RequestId :
                \/ deleteDoc(r) \/ import(r)
                \/ \E entry \in req[r].todo : upsert(r, entry)
      BY <1>5, ZenonT(30) DEF SearchIndexNext, viewPage, readRow, fill, bust, reindex, readListings,
         readListing, bulkSyncListings, bulkSyncVendors, bulkSync, expire, tables, copies
    <2>2. PICK r \in RequestId : deleteDoc(r)
      BY <1>1, <1>2, <1>3, <1>4, <2>1
    <2> QED BY <1>0, <2>2 DEF deleteDoc
  <1> QED BY <1>4, <1>5, VendorsFootprint, ListingsFootprint, RatingsFootprint,
          DisputesFootprint, AccountsFootprint, FailFootprint DEF Next, vars, tables, copies

\* A document of what the tables show is lost only to an older one.
LEMMA FoundStays ==
    ASSUME TypeInv, DeletedFirst, [Next]_vars, UNCHANGED drift,
           NEW d \in DocId, Findable(d), Found(d), ~Found(d)'
    PROVE  \E r \in RequestId : WritesOvertaken(r, d)
  <1>1. /\ DocOf(d) = <<d, Shown>>
        /\ d \in Listing => listing[d].status = "active"
    BY FindableShown, CatalogAssumption DEF FindableDocs
  <1>2. index[d] # NULL /\ index'[d] # index[d]
    BY DEF Found
  <1>3. CASE index'[d] = NULL
    <2>1. PICK r \in RequestId : deleteDoc(r) /\ req[r].l = d
      BY <1>2, <1>3, DocDeleted
    <2>2. d \in Listing
      BY <2>1, SlotHolds DEF deleteDoc, Carries
    <2> QED BY <1>1, <2>1, <2>2 DEF deleteDoc, DeletedFirst, Deleting
  <1>4. CASE index'[d] # NULL
    <2>1. PICK r \in RequestId, doc \in Doc : IndexWritten(r, d, doc)
      BY <1>2, <1>4, IndexStep DEF IndexKept
    <2>2. doc # Shown
      BY <2>1, ShownThere DEF IndexWritten, Found, Shown
    <2>3. <<d, doc>> # DocOf(d)
      BY <1>1, <2>2
    <2> QED BY <2>1, <2>3 DEF IndexWritten, WritesOvertaken
  <1> QED BY <1>3, <1>4

-----------------------------------------------------------------------------
\* A vendor is verified by a decision, which then brings its documents up.
LEMMA VerifiedBy ==
    ASSUME TypeInv, [Next]_vars, NEW v \in Vendor,
           ~profile[v].verified, profile'[v].verified
    PROVE  \E r \in RequestId :
              /\ decide(r) /\ req[r].v = v
              /\ req'[r].at = "bust" /\ req'[r].after = "reindex" /\ req'[r].v = v
  <1>0. profile \in [Vendor -> Profile]
    BY DEF TypeInv, TablesTyped
  <1>1. ASSUME NEW r \in RequestId, insertProfile(r) \/ commitRating(r) PROVE FALSE
    <2>1. CASE insertProfile(r)
      BY <1>0, <2>1 DEF insertProfile, Profile
    <2>2. CASE commitRating(r)
      BY <1>0, <2>2 DEF commitRating, Profile
    <2> QED BY <1>1, <2>1, <2>2
  <1>2. ASSUME NEW r \in RequestId, NEW text, updateProfile(r, text) PROVE FALSE
    <2> DEFINE s == IF req[r].slug = NULL THEN profile[req[r].v].slug ELSE req[r].slug
    <2>1. profile' = [profile EXCEPT ![req[r].v].slug = s, ![req[r].v].text = text]
      BY <1>0, <1>2 DEF updateProfile
    <2> HIDE DEF s
    <2> QED BY <1>0, <2>1 DEF Profile
  <1>3. ASSUME NEW r \in RequestId, NEW w \in Vendor, submitKyc(r, w) \/ changePlan(r, w) PROVE FALSE
    BY <1>0, <1>3 DEF submitKyc, changePlan, Profile
  <1>4. ASSUME NEW r \in RequestId, NEW u \in User, deleteMe(r, u) PROVE FALSE
    BY <1>0, <1>4 DEF deleteMe, Profile
  <1>5. PICK r \in RequestId : decide(r)
    BY <1>1, <1>2, <1>3, <1>4, ProfileWriters, ZenonT(30)
  <1>6. req[r] \in Slot /\ req[r].v = v /\ req[r].flag
    BY <1>0, <1>5, SlotHolds DEF decide, Profile, Slot
  <1>7. Wait(r, [req[r] EXCEPT !.at = "bust", !.after = "reindex"])
    BY <1>5, <1>6 DEF decide
  <1>8. req'[r].at = "bust" /\ req'[r].after = "reindex" /\ req'[r].v = v
    BY <1>6, <1>7, ReqTyped DEF Wait, Slot
  <1> QED BY <1>5, <1>6, <1>8

\* What the tables come to show is then synchronised.
LEMMA ShownSyncs ==
    ASSUME TypeInv, TypeInv', [Next]_vars, NEW d \in DocId, ~Findable(d), Findable(d)'
    PROVE  \E r \in RequestId : Syncing(r, d)'
  <1>0. listing \in [Listing -> ListingRow]
    BY DEF TypeInv, TablesTyped
  <1>1. ASSUME NEW r \in RequestId, req'[r].at = "bust", req'[r].after = "reindex",
               req'[r].v = Owner(d)'
        PROVE  Syncing(r, d)'
    BY <1>1 DEF Syncing
  <1>2. ASSUME NEW r \in RequestId, req'[r].at = "bust", req'[r].after = "readListing",
               d \in Listing, req'[r].l = d
        PROVE  Syncing(r, d)'
    BY <1>2 DEF Syncing
  <1>3. CASE d \in Vendor
    <2>1. d \notin Listing
      BY <1>3, CatalogAssumption
    <2>2. ~profile[d].verified /\ profile'[d].verified
      BY <1>3, <2>1 DEF Findable, browseVendors, browseListings
    <2>3. Owner(d)' = d
      BY <1>3 DEF Owner
    <2> QED BY <1>1, <1>3, <2>2, <2>3, VerifiedBy
  <1>4. CASE d \notin Vendor
    <2> DEFINE v == listing'[d].vendor
    <2>1. d \in Listing /\ listing'[d].status = "active" /\ v \in Vendor /\ profile'[v].verified
      BY <1>4 DEF Findable, browseVendors, browseListings
    <2>2. Owner(d)' = v
      BY <1>4 DEF Owner
    <2>3. CASE listing[d].status = "active"
      <3>1. listing[d].vendor = v
        BY <2>1, <2>3, OwnerStays
      <3>2. ~profile[v].verified
        BY <2>1, <2>3, <3>1 DEF Findable, browseVendors, browseListings
      <3> QED BY <1>1, <2>1, <2>2, <3>2, VerifiedBy
    <2>4. CASE listing[d].status # "active"
      <3>1. ASSUME NEW r \in RequestId, deleteListing(r) \/ writeMedia(r) PROVE FALSE
        BY <1>0, <2>1, <2>4, <3>1 DEF deleteListing, writeMedia, ListingRow
      <3>2. ASSUME NEW r \in RequestId, updateListing(r) PROVE Syncing(r, d)'
        <4>1. req[r].l = d
          BY <1>0, <2>1, <2>4, <3>2 DEF updateListing
        <4>2. req'[r].at = "bust" /\ req'[r].after = "readListing" /\ req'[r].l = d
          BY <3>2, <4>1, ReqTyped DEF updateListing, Wait, Slot
        <4> QED BY <1>2, <2>1, <4>2
      <3>3. ASSUME NEW r \in RequestId, NEW l \in Listing, NEW media, insertListing(r, l, media)
            PROVE  Syncing(r, d)'
        <4>1. l = d
          BY <1>0, <2>1, <2>4, <3>3 DEF insertListing
        <4>2. req'[r].at = "bust" /\ req'[r].after = "readListing" /\ req'[r].l = d
          BY <3>3, <4>1, ReqTyped DEF insertListing, Wait, Idle
        <4> QED BY <1>2, <2>1, <4>2
      <3> QED BY <2>1, <2>4, <3>1, <3>2, <3>3, ListingWriters, ZenonT(30)
    <2> QED BY <2>3, <2>4
  <1> QED BY <1>3, <1>4

-----------------------------------------------------------------------------
\* A request that is to bring a document up to date goes on to do so, unless
\* it dies, or holds an older reading of the document.
LEMMA SyncStays ==
    ASSUME TypeInv, TypeInv', [Next]_vars, NEW d \in DocId, Findable(d), Findable(d)',
           NEW q \in RequestId, Syncing(q, d)
    PROVE  Syncing(q, d)' \/ index'[d] = Shown \/ WritesOvertaken(q, d) \/ Dies(q)
  <1> DEFINE slot == req[q]
             Done == Syncing(q, d)' \/ index'[d] = Shown \/ WritesOvertaken(q, d) \/ Dies(q)
  <1> SUFFICES Done
    OBVIOUS
  <1>0. /\ slot \in Slot /\ Carries(slot) /\ req \in [RequestId -> Slot]
        /\ index \in [DocId -> Doc \cup {NULL}] /\ Listing \cap Vendor = {}
        /\ NULL \notin Vendor /\ NULL \notin Listing
    BY SlotHolds, ReqTyped, CatalogAssumption DEF TypeInv, TablesTyped
  <1>1. /\ DocOf(d) = <<d, Shown>> /\ Owner(d) \in Vendor
        /\ d \in Vendor \/ (d \in Listing /\ listing[d].status = "active")
    BY FindableShown DEF FindableDocs
  <1>2. DocOf(d)' = DocOf(d)
    BY <1>1, FindableShownNext DEF FindableDocs, Shown
  <1>3. Owner(d)' = Owner(d)
    <2>1. CASE d \in Vendor
      BY <2>1 DEF Owner
    <2>2. CASE d \notin Vendor
      <3>1. d \in Listing /\ listing[d].status # "none"
        BY <1>1, <2>2
      <3> QED BY <2>2, <3>1, OwnerStays DEF Owner
    <2> QED BY <2>1, <2>2
  <1>4. ASSUME req'[q] = slot PROVE Done
    BY <1>2, <1>3, <1>4 DEF Syncing
  <1>5. slot.at \in {"bust", "reindex", "readListing", "upsert", "import"}
    BY DEF Syncing
  <1>6. CASE bust(q)
    <2>1. slot.after \in {"reindex", "readListing", "upsert"} /\ slot.at = "bust"
      BY <1>0, <1>6 DEF bust, Syncing, Slot, Follower
    <2>2. Wait(q, [slot EXCEPT !.at = slot.after, !.after = "idle", !.keys = {}])
      BY <1>6, <2>1 DEF bust
    <2>3. /\ req'[q].at = slot.after /\ req'[q].v = slot.v /\ req'[q].l = slot.l
          /\ req'[q].todo = slot.todo
      BY <1>0, <2>2 DEF Wait, Slot
    <2> QED BY <1>2, <1>3, <2>1, <2>3 DEF Syncing
  <1>7. CASE reindex(q)
    <2>1. slot.at = "reindex" /\ slot.v = Owner(d)
      BY <1>7 DEF reindex, Syncing
    <2>2. /\ req'[q].at = "upsert" /\ req'[q].after = "readListing" /\ req'[q].v = slot.v
          /\ req'[q].todo = {VendorDoc(slot.v)}
      BY <1>0, <1>7 DEF reindex, Wait, Slot
    <2>3. CASE d \in Vendor
      <3>1. DocOf(d) \in req'[q].todo
        BY <2>1, <2>2, <2>3 DEF DocOf, Owner
      <3> QED BY <1>2, <2>2, <3>1 DEF Syncing
    <2>4. CASE d \notin Vendor
      BY <1>1, <1>3, <2>1, <2>2, <2>4 DEF Syncing
    <2> QED BY <2>3, <2>4
  <1>8. CASE readListings(q)
    <2> DEFINE docs == {ListingDoc(l) : l \in ActiveOf(slot.v)}
    <2>1. slot.at = "readListing" /\ slot.v \in Vendor /\ slot.l = NULL
      BY <1>0, <1>8 DEF readListings, Carries
    <2>2. d \in Listing /\ slot.v = Owner(d)
      BY <1>0, <2>1 DEF Syncing
    <2>3. DocOf(d) \in docs
      BY <1>0, <1>1, <2>2 DEF ActiveOf, DocOf, Owner
    <2>4. Wait(q, [slot EXCEPT !.at = "upsert", !.v = NULL, !.todo = docs])
      BY <1>8, <2>3 DEF readListings
    <2> HIDE DEF docs
    <2>5. req'[q].at = "upsert" /\ req'[q].todo = docs
      BY <1>0, <2>4 DEF Wait, Slot
    <2> QED BY <1>2, <2>3, <2>5 DEF Syncing
  <1>9. CASE readListing(q)
    <2>1. slot.at = "readListing" /\ slot.v = NULL
      BY <1>9 DEF readListing
    <2>2. d \in Listing /\ slot.l = d
      BY <1>0, <1>1, <2>1 DEF Syncing
    <2>3. Wait(q, [slot EXCEPT !.at = "upsert", !.todo = {ListingDoc(d)}])
      BY <1>0, <1>1, <1>9, <2>2 DEF readListing, Exists
    <2>4. req'[q].at = "upsert" /\ req'[q].todo = {ListingDoc(d)}
      BY <1>0, <2>3 DEF Wait, Slot
    <2>5. DocOf(d) = ListingDoc(d)
      BY <1>0, <2>2 DEF DocOf
    <2> QED BY <1>2, <2>4, <2>5 DEF Syncing
  <1>10. ASSUME NEW entry \in slot.todo, upsert(q, entry) PROVE Done
    <2>1. slot.at = "upsert" /\ slot.after \in {"idle", "readListing"}
      BY <1>0, <1>10 DEF upsert, Carries
    <2>2. CASE entry = DocOf(d)
      BY <1>0, <1>1, <1>10, <2>2 DEF upsert
    <2>3. CASE entry # DocOf(d) /\ slot.todo # {entry}
      <3>1. Wait(q, [slot EXCEPT !.todo = @ \ {entry}])
        BY <1>10, <2>3 DEF upsert
      <3>2. /\ req'[q].at = "upsert" /\ req'[q].after = slot.after /\ req'[q].v = slot.v
            /\ req'[q].l = slot.l /\ req'[q].todo = slot.todo \ {entry}
        BY <1>0, <2>1, <3>1 DEF Wait, Slot
      <3> QED BY <1>2, <1>3, <2>1, <2>3, <3>2 DEF Syncing
    <2>4. CASE entry # DocOf(d) /\ slot.todo = {entry}
      <3>1. /\ slot.after = "readListing" /\ d \in Listing
            /\ slot.l = d \/ slot.v = Owner(d)
        BY <2>1, <2>4 DEF Syncing
      <3>2. Wait(q, [slot EXCEPT !.at = slot.after, !.after = "idle", !.todo = {}])
        BY <1>10, <2>4, <3>1 DEF upsert
      <3>3. req'[q].at = "readListing" /\ req'[q].v = slot.v /\ req'[q].l = slot.l
        BY <1>0, <3>1, <3>2 DEF Wait, Slot
      <3> QED BY <1>3, <3>1, <3>3 DEF Syncing
    <2> QED BY <2>2, <2>3, <2>4
  <1>11. CASE import(q)
    <2> DEFINE entry == CHOOSE e \in slot.todo : e[1] = d
    <2>1. slot.at = "import" /\ DocOf(d) \in slot.todo
      BY <1>11 DEF import, Syncing
    <2>2. entry \in slot.todo /\ entry[1] = d
      BY <1>1, <2>1
    <2>3. index'[d] = entry[2]
      BY <1>1, <1>11, <2>1 DEF import
    <2> HIDE DEF entry
    <2>4. entry \in Entry
      BY <1>0, <2>2 DEF Slot
    <2>5. entry[2] \in Doc /\ entry = <<d, entry[2]>>
      BY <2>2, <2>4 DEF Entry
    <2>6. Steps(q)
      BY <1>0, <1>11, <2>1 DEF import, Return, Idle, Steps
    <2>7. CASE entry = DocOf(d)
      BY <1>1, <2>3, <2>7
    <2>8. CASE entry # DocOf(d)
      BY <2>1, <2>2, <2>5, <2>6, <2>8 DEF WritesOvertaken
    <2> QED BY <2>7, <2>8
  <1>12. ASSUME readRow(q) \/ fill(q) \/ deleteDoc(q) PROVE FALSE
    BY <1>5, <1>12 DEF readRow, fill, deleteDoc
  <1>13. slot.at \in CopySteps
    BY <1>5 DEF CopySteps
  <1>14. ASSUME Fail(q) PROVE Done
    BY <1>14, Died
  <1> HIDE DEF Done
  <1> QED BY <1>4, <1>6, <1>7, <1>8, <1>9, <1>10, <1>11, <1>12, <1>13, <1>14, CopySlots DEF Brought

\* A vendor or a listing that is shown and not found is about to be found, but
\* for a race that the property names.
THEOREM HiddenExplained == Spec => HiddenOnlyByRace
  <1>1. ASSUME TypeInv, DeletedFirst, TypeInv', [Next]_vars, NEW d \in DocId,
               ~Hidden(d), Hidden(d)', UNCHANGED drift
        PROVE  \E r \in RequestId : WritesOvertaken(r, d) \/ Dies(r)
    <2>1. Findable(d)' /\ ~Found(d)' /\ \A r \in RequestId : ~Syncing(r, d)'
      BY <1>1 DEF Hidden
    <2>2. Findable(d)
      BY <1>1, <2>1, ShownSyncs
    <2>3. CASE Found(d)
      BY <1>1, <2>1, <2>2, <2>3, FoundStays
    <2>4. CASE ~Found(d)
      <3>1. PICK q \in RequestId : Syncing(q, d)
        BY <1>1, <2>2, <2>4 DEF Hidden
      <3>2. index'[d] # Shown
        BY <2>1, ShownThere DEF Found, Shown
      <3> QED BY <1>1, <2>1, <2>2, <3>1, <3>2, SyncStays
    <2> QED BY <2>3, <2>4
  <1>2. TypeInv /\ DeletedFirst /\ TypeInv' /\ [Next]_vars
           => \A d \in DocId : ~Hidden(d) /\ Hidden(d)' =>
                 \/ \E r \in RequestId : WritesOvertaken(r, d) \/ Dies(r)
                 \/ drift # drift'
    BY <1>1
  <1> QED BY <1>2, TypeInvariance, DeletedFirstInvariance, PTL DEF Spec, HiddenOnlyByRace

=============================================================================
