---------------------------- MODULE CatalogTypes ----------------------------
(***************************************************************************)
(* The types of the catalog, for any number of vendors, listings, bookings *)
(* and overlapping requests: what a request carries from one step to the   *)
(* next names rows that are there.  And the footprint of each step: the    *)
(* tables it writes, the slot it moves.                                    *)
(***************************************************************************)
EXTENDS Catalog, FiniteSetTheorems, TLAPS

VendorCarriers == {"insertProfile", "updateProfile", "decide", "reindex", "readLimit",
                   "countActive", "insertListing", "postReview", "commitRating"}
RowSteps == {"updateListing", "deleteListing", "insertMedia", "deleteMedia"}
BookingCarriers == {"postReview", "commitRating", "insertResponse", "insertDispute",
                    "setDispute", "resolveDispute"}
UserCarriers == {"readMe", "reactivate", "setOnboarded", "setRole", "setActive"}

\* What a slot carries to the step it waits for, and to the one after it.
Carries(s) ==
    /\ s.at \in VendorCarriers \/ s.after = "reindex" => s.v \in Vendor
    /\ s.at \in RowSteps => s.l \in Listing /\ s.v = NULL /\ <<"listing", s.l>> \in s.keys
    /\ s.at = "deleteDoc" \/ s.after = "deleteDoc" => s.l \in Listing
    /\ s.at \in {"decide", "reindex"} \/ s.after = "reindex" => s.l = NULL
    /\ "readListing" \in {s.at, s.after} =>
          (s.v \in Vendor /\ s.l = NULL) \/ (s.v = NULL /\ s.l \in Listing)
    /\ s.at \in BookingCarriers => s.b \in Booking
    /\ s.at \in UserCarriers => s.u \in User
    /\ s.at = "insertProfile" => s.slug \in Slug
    /\ s.at = "updateProfile" => (s.slug = NULL <=> s.old = NULL)
    /\ s.at \in {"decide", "postReview", "commitRating"} => s.old \in Slug
    /\ s.at \in {"updateProfile", "decide", "postReview", "commitRating"} /\ s.old # NULL =>
          s.keys = KeysOf(s.v, s.old)
    /\ s.at = "updateListing" => s.seen \in {NULL, "active", "inactive"}
    /\ s.after # "idle" => s.at \in {"bust", "upsert", "deleteListing"}
    /\ s.at = "upsert" => s.after \in {"idle", "readListing"}
    /\ s.at = "deleteListing" => s.after = "deleteDoc"
    /\ s.at = "decide" => s.seen = "SUBMITTED"
    /\ s.at = "setDispute" => s.seen \in DisputeStatus
    /\ s.at = "resolveDispute" => s.seen \in {"OPEN", "UNDER_REVIEW"}
    /\ s.at = "setRole" => s.seen \in Role
    /\ s.at = "reactivate" => ~s.flag

\* A listing has its vendor, and a vendor with a completed booking a profile.
RowsOwned ==
    /\ \A l \in Listing : listing[l].status # "none" => listing[l].vendor \in Vendor
    /\ \A b \in Booking : reviews[b].vendor # NULL => Onboarded(reviews[b].vendor)

TablesTyped ==
    /\ suite \in Suites
    /\ profile \in [Vendor -> Profile]
    /\ listing \in [Listing -> ListingRow]
    /\ limit \in Limit
    /\ reviews \in [Booking -> Review]
    /\ cache \in [Key -> Snapshot \cup {NULL}]
    /\ index \in [DocId -> Doc \cup {NULL}]
    /\ drift \in BOOLEAN
    /\ dispute \in [Booking -> Dispute]
    /\ account \in [User -> Account]
    /\ RowsOwned

\* A profile that is to be updated is there.
Updates(s) == s.at = "updateProfile" => Onboarded(s.v)

SlotsTyped ==
    /\ req \in [RequestId -> Slot]
    /\ \A r \in RequestId : Carries(req[r]) /\ Updates(req[r])

TypeInv == TablesTyped /\ SlotsTyped

-----------------------------------------------------------------------------
\* Profiles that are there stay, whatever else a step does to them.
Kept == \A v \in Vendor : Onboarded(v) => Onboarded(v)'

LEMMA IdleTyped == Idle \in Slot /\ Carries(Idle) /\ Updates(Idle)
  BY DEF Idle, Slot, Step, Follower, Reading, Carries, Updates, VendorCarriers, RowSteps, BookingCarriers, UserCarriers

LEMMA SlotHolds ==
    ASSUME TypeInv, NEW r \in RequestId
    PROVE  req[r] \in Slot /\ Carries(req[r]) /\ Updates(req[r])
  BY DEF TypeInv, SlotsTyped

\* A step that ends with the slot waiting for the next one.
LEMMA WaitStep ==
    ASSUME TypeInv, TablesTyped', Kept, NEW r \in RequestId,
           NEW s, s \in Slot, Carries(s), Updates(s), Wait(r, s)
    PROVE  TypeInv'
  <1>1. req' \in [RequestId -> Slot]
    BY DEF TypeInv, SlotsTyped, Wait
  <1>2. ASSUME NEW q \in RequestId, NEW t, t = req'[q]
        PROVE  Carries(t) /\ (t.at = "updateProfile" => profile'[t.v].slug # NULL)
    <2>1. t \in Slot /\ Carries(t) /\ Updates(t)
      BY <1>2 DEF TypeInv, SlotsTyped, Wait
    <2>2. t.at = "updateProfile" => t.v \in Vendor
      BY <2>1 DEF Carries, VendorCarriers
    <2> QED BY <2>1, <2>2 DEF Updates, Kept, Onboarded
  <1> QED BY <1>1, <1>2 DEF TypeInv, SlotsTyped, Updates, Onboarded

\* A step that ends with the slot free.
LEMMA EndStep ==
    ASSUME TypeInv, TablesTyped', Kept, NEW r \in RequestId, Return(r)
    PROVE  TypeInv'
  BY IdleTyped, WaitStep DEF Return, Wait

\* A step that leaves the slots alone.
LEMMA SlotsStay ==
    ASSUME TypeInv, TablesTyped', Kept, req' = req
    PROVE  TypeInv'
  <1>1. \A r \in RequestId : req[r].at = "updateProfile" => req[r].v \in Vendor
    BY DEF TypeInv, SlotsTyped, Carries, VendorCarriers
  <1> QED BY <1>1 DEF TypeInv, SlotsTyped, Updates, Kept, Onboarded

LEMMA TablesStay ==
    ASSUME TypeInv, UNCHANGED tables
    PROVE  TablesTyped' /\ Kept
  BY DEF TypeInv, TablesTyped, RowsOwned, Kept, Onboarded, tables, catalog, copies

-----------------------------------------------------------------------------
\* What a page holds is a snapshot.
LEMMA CardTyped == ASSUME TypeInv, NEW v \in Vendor PROVE Card(v) \in CardRow
  BY DEF TypeInv, TablesTyped, Profile, Card, CardRow

LEMMA ItemTyped == ASSUME TypeInv, NEW l \in Listing PROVE Item(l) \in ItemRow
  BY DEF TypeInv, TablesTyped, ListingRow, Item, ItemRow

LEMMA CurrentTyped ==
    ASSUME TypeInv, NEW k \in Key
    PROVE  Current(k) \in Snapshot \cup {NULL}
  <1>1. CASE k[1] = "listing"
    <2>1. k[2] \in Listing
      BY <1>1 DEF Key
    <2>2. ASSUME Exists(k[2]) PROVE ListingView(k[2]) \in Snapshot
      <3>1. Card(listing[k[2]].vendor) \in CardRow
        BY <2>1, <2>2, CardTyped DEF TypeInv, TablesTyped, RowsOwned, Exists
      <3> QED BY <2>1, <3>1 DEF TypeInv, TablesTyped, ListingRow, ListingView, Snapshot
    <2> QED BY <1>1, <2>2 DEF Current
  <1>2. CASE k[1] # "listing"
    <2>1. Subject(k) \subseteq Vendor
      BY <1>2 DEF Key, Subject
    <2>2. ASSUME NEW v \in Vendor PROVE ProfileView(v) \in Snapshot
      <3>1. {Item(l) : l \in ActiveOf(v)} \subseteq ItemRow
        BY ItemTyped DEF ActiveOf
      <3>2. Card(v) \in CardRow /\ profile[v].kyc \in KycStatus /\ profile[v].tier \in Tier
        BY <2>2, CardTyped DEF TypeInv, TablesTyped, Profile
      <3> QED BY <3>1, <3>2 DEF ProfileView, Snapshot
    <2> QED BY <1>2, <2>1, <2>2 DEF Current
  <1> QED BY <1>1, <1>2

LEMMA DocsTyped ==
    ASSUME TypeInv
    PROVE  /\ \A v \in Vendor : VendorDoc(v) \in Entry
           /\ \A l \in Listing : listing[l].status # "none" => ListingDoc(l) \in Entry
  <1>1. ASSUME NEW v \in Vendor PROVE VendorDoc(v) \in Entry
    BY <1>1 DEF TypeInv, TablesTyped, Profile, VendorDoc, Entry, DocId, Doc
  <1>2. ASSUME NEW l \in Listing, listing[l].status # "none"
        PROVE  ListingDoc(l) \in Entry
    BY <1>2 DEF TypeInv, TablesTyped, RowsOwned, Profile, ListingDoc, Entry, DocId, Doc
  <1> QED BY <1>1, <1>2

\* A write to the cache or to the index that is of its type.
LEMMA CopiesStep ==
    ASSUME TypeInv, cache' \in [Key -> Snapshot \cup {NULL}],
           index' \in [DocId -> Doc \cup {NULL}], drift' \in BOOLEAN,
           UNCHANGED <<suite, catalog, dispute, account>>
    PROVE  TablesTyped' /\ Kept
  BY DEF TypeInv, TablesTyped, RowsOwned, Kept, Onboarded, catalog

LEMMA PagesTyped ==
    ASSUME TypeInv, NEW r \in RequestId,
           \/ \E k \in Key : viewPage(r, k)
           \/ readRow(r) \/ fill(r) \/ bust(r)
    PROVE  TypeInv'
  <1> DEFINE slot == req[r]
  <1>0. slot \in Slot /\ Carries(slot) /\ Updates(slot)
    BY SlotHolds
  <1>1. ASSUME NEW k \in Key, viewPage(r, k) PROVE TypeInv'
    <2> DEFINE s == [Idle EXCEPT !.at = "readRow", !.keys = {k}]
    <2>1. s \in Slot /\ Carries(s) /\ Updates(s)
      BY DEF Idle, Slot, Step, Follower, CopySteps, Reading, Carries, Updates, VendorCarriers, RowSteps,
             BookingCarriers, UserCarriers
    <2> QED BY <1>1, <2>1, WaitStep, TablesStay DEF viewPage
  <1>2. CASE readRow(r)
    <2>1. CASE Return(r)
      BY <1>2, <2>1, EndStep, TablesStay DEF readRow
    <2>2. ASSUME NEW k \in slot.keys, Current(k) # NULL,
                 Wait(r, [slot EXCEPT !.at = "fill", !.value = Current(k)])
          PROVE  TypeInv'
      <3> DEFINE s == [slot EXCEPT !.at = "fill", !.value = Current(k)]
      <3>1. k \in Key
        BY <1>0, <2>2 DEF Slot
      <3>2. s \in Slot
        <4>1. "fill" \in Step /\ Current(k) \in Snapshot \cup {NULL}
          BY <3>1, CurrentTyped DEF Step, CopySteps
        <4> QED BY <1>0, <4>1 DEF Slot
      <3>3. Carries(s) /\ Updates(s)
        BY <1>0, <1>2 DEF readRow, Slot, Carries, Updates, VendorCarriers, RowSteps,
           BookingCarriers, UserCarriers
      <3> QED BY <1>2, <2>2, <3>2, <3>3, WaitStep, TablesStay DEF readRow
    <2> QED BY <1>2, <2>1, <2>2 DEF readRow
  <1>3. CASE fill(r)
    <2>1. cache' \in [Key -> Snapshot \cup {NULL}]
      BY <1>0, <1>3 DEF fill, TypeInv, TablesTyped, Slot
    <2> QED BY <1>3, <2>1, CopiesStep, EndStep DEF fill, TypeInv, TablesTyped
  <1>4. CASE bust(r)
    <2>1. cache' \in [Key -> Snapshot \cup {NULL}]
      BY <1>4 DEF bust, TypeInv, TablesTyped
    <2>2. TablesTyped' /\ Kept
      BY <1>4, <2>1, CopiesStep DEF bust, TypeInv, TablesTyped
    <2>3. CASE Return(r)
      BY <2>2, <2>3, EndStep
    <2>4. CASE Wait(r, [slot EXCEPT !.at = slot.after, !.after = "idle", !.keys = {}])
               /\ slot.after # "idle"
      <3> DEFINE s == [slot EXCEPT !.at = slot.after, !.after = "idle", !.keys = {}]
      <3>1. s \in Slot
        <4>1. slot.after \in Step /\ "idle" \in Follower
          BY <1>0 DEF Slot, Step, Follower, CopySteps
        <4> QED BY <1>0, <4>1 DEF Slot
      <3>2. Carries(s) /\ Updates(s)
        BY <1>0, <1>4, <2>4 DEF bust, Slot, Follower, Carries, Updates, VendorCarriers, RowSteps,
           BookingCarriers, UserCarriers
      <3> QED BY <2>2, <2>4, <3>1, <3>2, WaitStep
    <2> QED BY <1>4, <2>3, <2>4 DEF bust
  <1> QED BY <1>1, <1>2, <1>3, <1>4

LEMMA SyncTyped ==
    ASSUME TypeInv, NEW r \in RequestId,
           \/ reindex(r) \/ readListings(r) \/ readListing(r)
           \/ \E entry \in req[r].todo : upsert(r, entry)
           \/ deleteDoc(r) \/ import(r)
    PROVE  TypeInv'
  <1> DEFINE slot == req[r]
  <1>0. slot \in Slot /\ Carries(slot) /\ Updates(slot)
    BY SlotHolds
  <1>1. CASE reindex(r)
    <2> DEFINE s == [slot EXCEPT !.at = "upsert", !.after = "readListing",
                                 !.todo = {VendorDoc(slot.v)}]
    <2>1. slot.at = "reindex" /\ slot.v \in Vendor /\ slot.l = NULL
      BY <1>0, <1>1 DEF reindex, Carries, VendorCarriers
    <2>2. s \in Slot
      <3>1. "upsert" \in Step /\ "readListing" \in Follower /\ {VendorDoc(slot.v)} \subseteq Entry
        BY <2>1, DocsTyped DEF Step, CopySteps, Follower
      <3> QED BY <1>0, <3>1 DEF Slot
    <2>3. Carries(s) /\ Updates(s)
      BY <1>0, <2>1 DEF Slot, Carries, Updates, VendorCarriers, RowSteps, BookingCarriers,
         UserCarriers
    <2> QED BY <1>1, <2>2, <2>3, WaitStep, TablesStay DEF reindex
  <1>2. CASE readListings(r)
    <2> DEFINE docs == {ListingDoc(l) : l \in ActiveOf(slot.v)}
               s == [slot EXCEPT !.at = "upsert", !.v = NULL, !.todo = docs]
    <2>1. slot.at = "readListing" /\ slot.after = "idle"
      BY <1>0, <1>2 DEF readListings, Carries
    <2>2. \A l \in ActiveOf(slot.v) : l \in Listing /\ listing[l].status # "none"
      BY DEF ActiveOf
    <2>3. docs \subseteq Entry
      BY <2>2, DocsTyped
    <2> HIDE DEF docs
    <2>4. s \in Slot
      <3>1. "upsert" \in Step
        BY DEF Step, CopySteps
      <3> QED BY <1>0, <2>3, <3>1 DEF Slot
    <2>5. Carries(s) /\ Updates(s)
      BY <1>0, <2>1 DEF Slot, Carries, Updates, VendorCarriers, RowSteps, BookingCarriers,
         UserCarriers
    <2> QED BY <1>2, <2>4, <2>5, WaitStep, EndStep, TablesStay DEF readListings, docs
  <1>3. CASE readListing(r)
    <2> DEFINE s == [slot EXCEPT !.at = "upsert", !.todo = {ListingDoc(slot.l)}]
    <2>1. slot.at = "readListing" /\ slot.after = "idle" /\ slot.l \in Listing
      BY <1>0, <1>3, CatalogAssumption DEF readListing, Carries
    <2>2. ASSUME Exists(slot.l) PROVE s \in Slot
      <3>1. "upsert" \in Step /\ {ListingDoc(slot.l)} \subseteq Entry
        BY <2>1, <2>2, DocsTyped DEF Exists, Step, CopySteps
      <3> QED BY <1>0, <3>1 DEF Slot
    <2>3. Carries(s) /\ Updates(s)
      BY <1>0, <2>1 DEF Slot, Carries, Updates, VendorCarriers, RowSteps, BookingCarriers,
         UserCarriers
    <2> QED BY <1>3, <2>2, <2>3, WaitStep, EndStep, TablesStay DEF readListing
  <1>4. ASSUME NEW entry \in slot.todo, upsert(r, entry) PROVE TypeInv'
    <2> DEFINE s == [slot EXCEPT !.todo = @ \ {entry}]
               t == [slot EXCEPT !.at = slot.after, !.after = "idle", !.todo = {}]
    <2>1. entry \in Entry /\ slot.at = "upsert" /\ slot.after \in {"idle", "readListing"}
      BY <1>0, <1>4 DEF Slot, upsert, Carries
    <2>2. index' \in [DocId -> Doc \cup {NULL}]
      BY <1>4, <2>1 DEF upsert, TypeInv, TablesTyped, Entry
    <2>3. TablesTyped' /\ Kept
      BY <1>4, <2>2, CopiesStep DEF upsert, TypeInv, TablesTyped
    <2>4. s \in Slot /\ Carries(s) /\ Updates(s)
      BY <1>0, <2>1 DEF Slot, Carries, Updates, VendorCarriers, RowSteps, BookingCarriers,
         UserCarriers
    <2>5. slot.after # "idle" => t \in Slot /\ Carries(t) /\ Updates(t)
      <3>1. slot.after \in Step /\ "idle" \in Follower /\ {} \in SUBSET Entry
        BY <2>1 DEF Step, Follower, CopySteps
      <3>2. t \in Slot
        BY <1>0, <3>1 DEF Slot
      <3> QED BY <1>0, <2>1, <3>2 DEF Slot, Carries, Updates, VendorCarriers, RowSteps,
              BookingCarriers, UserCarriers
    <2>6. \/ Wait(r, s) \/ Return(r)
          \/ slot.after # "idle" /\ Wait(r, t)
      BY <1>4 DEF upsert
    <2> QED BY <2>3, <2>4, <2>5, <2>6, WaitStep, EndStep
  <1>5. CASE deleteDoc(r)
    <2>1. index' \in [DocId -> Doc \cup {NULL}]
      BY <1>5 DEF deleteDoc, TypeInv, TablesTyped
    <2> QED BY <1>5, <2>1, CopiesStep, EndStep DEF deleteDoc, TypeInv, TablesTyped
  <1>6. CASE import(r)
    <2>1. \A entry \in slot.todo : entry[2] \in Doc
      BY <1>0 DEF Slot, Entry
    <2>2. \A d \in DocId : index'[d] \in Doc \cup {NULL}
      BY <1>6, <2>1 DEF import, TypeInv, TablesTyped
    <2>3. index' \in [DocId -> Doc \cup {NULL}]
      BY <1>6, <2>2 DEF import
    <2> QED BY <1>6, <2>3, CopiesStep, EndStep DEF import, TypeInv, TablesTyped
  <1> QED BY <1>1, <1>2, <1>3, <1>4, <1>5, <1>6

\* A slot that starts with the documents of what is there.
LEMMA SearchTyped ==
    ASSUME TypeInv, SearchIndexNext
    PROVE  TypeInv'
  <1>1. ASSUME NEW r \in RequestId, NEW docs \in SUBSET Entry, bulkSync(r, docs)
        PROVE  TypeInv'
    <2> DEFINE s == [Idle EXCEPT !.at = "import", !.todo = docs]
    <2>1. s \in Slot /\ Carries(s) /\ Updates(s)
      BY DEF Idle, Slot, Step, Follower, CopySteps, Reading, Carries, Updates, VendorCarriers,
             RowSteps, BookingCarriers, UserCarriers
    <2> QED BY <1>1, <2>1, WaitStep, TablesStay DEF bulkSync
  <1>2. /\ {ListingDoc(l) : l \in {m \in Listing : listing[m].status = "active"}} \subseteq Entry
        /\ {VendorDoc(v) : v \in {w \in Vendor : Onboarded(w)}} \subseteq Entry
    BY DocsTyped
  <1>3. ASSUME NEW r \in RequestId, bulkSyncListings(r) \/ bulkSyncVendors(r) PROVE TypeInv'
    BY <1>1, <1>2, <1>3 DEF bulkSyncListings, bulkSyncVendors
  <1>4. ASSUME NEW k \in Key, expire(k) PROVE TypeInv'
    <2>1. cache' \in [Key -> Snapshot \cup {NULL}]
      BY <1>4 DEF expire, TypeInv, TablesTyped
    <2> QED BY <1>4, <2>1, CopiesStep, SlotsStay DEF expire, TypeInv, TablesTyped
  <1>5. CASE reconcileSchema
    <2>1. ASSUME NEW d \in DocId PROVE index'[d] \in Doc \cup {NULL}
      BY <1>5 DEF reconcileSchema, TypeInv, TablesTyped, Doc
    <2>2. index' \in [DocId -> Doc \cup {NULL}]
      BY <1>5, <2>1 DEF reconcileSchema
    <2> QED BY <1>5, <2>2, CopiesStep, SlotsStay DEF reconcileSchema, TypeInv, TablesTyped
  <1> QED BY <1>3, <1>4, <1>5, PagesTyped, SyncTyped DEF SearchIndexNext

-----------------------------------------------------------------------------
\* A write to the profiles that takes no vendor's profile away.
LEMMA ProfileStep ==
    ASSUME TypeInv, profile' \in [Vendor -> Profile],
           \A v \in Vendor : Onboarded(v) => profile'[v].slug # NULL,
           account' \in [User -> Account], RowsOwned',
           UNCHANGED <<suite, listing, limit, copies, dispute>>,
           reviews' \in [Booking -> Review]
    PROVE  TablesTyped' /\ Kept
  BY DEF TypeInv, TablesTyped, Kept, Onboarded, copies

\* The vendor of a listing, and of a booking, keep their profiles.
LEMMA OwnedStays ==
    ASSUME TypeInv, \A v \in Vendor : Onboarded(v) => profile'[v].slug # NULL,
           UNCHANGED <<listing, reviews>>
    PROVE  RowsOwned'
  BY DEF TypeInv, TablesTyped, RowsOwned, Onboarded, Review

LEMMA VendorReadsTyped ==
    ASSUME TypeInv, NEW r \in RequestId, NEW v \in Vendor,
           \/ \E s \in Slug : onboard(r, v, s) \/ updateMyProfile(r, v, s)
           \/ onboardAgain(r, v) \/ submitKyc(r, v) \/ changePlan(r, v)
           \/ \E verdict \in Verdict : reviewKyc(r, v, verdict)
    PROVE  TypeInv'
  <1>1. ASSUME NEW s \in Slug, onboard(r, v, s) PROVE TypeInv'
    <2> DEFINE t == [Idle EXCEPT !.at = "insertProfile", !.v = v, !.slug = s]
    <2>1. t \in Slot /\ Carries(t) /\ Updates(t)
      BY DEF Idle, Slot, Step, Follower, VendorSteps, Reading, Carries, Updates, VendorCarriers,
             RowSteps, BookingCarriers, UserCarriers
    <2> QED BY <1>1, <2>1, WaitStep, TablesStay DEF onboard
  <1>2. Onboarded(v) => profile[v].slug \in Slug /\ KeysOf(v, profile[v].slug) \subseteq Key
    BY DEF TypeInv, TablesTyped, Profile, Onboarded, KeysOf, Key
  <1>3. ASSUME NEW s \in Slug, updateMyProfile(r, v, s) PROVE TypeInv'
    <2> DEFINE t == [Idle EXCEPT !.at = "updateProfile", !.v = v, !.slug = s,
                        !.old = profile[v].slug, !.keys = KeysOf(v, profile[v].slug)]
    <2>1. Onboarded(v) /\ s # NULL /\ profile[v].slug # NULL
      BY <1>3, CatalogAssumption DEF updateMyProfile, Onboarded
    <2>2. t \in Slot
      BY <1>2, <2>1 DEF Idle, Slot, Step, Follower, VendorSteps, Reading
    <2>3. Carries(t) /\ Updates(t)
      BY <2>1 DEF Idle, Carries, Updates, VendorCarriers, RowSteps, BookingCarriers, UserCarriers
    <2> QED BY <1>3, <2>2, <2>3, WaitStep, TablesStay DEF updateMyProfile
  <1>4. CASE onboardAgain(r, v)
    <2> DEFINE t == [Idle EXCEPT !.at = "updateProfile", !.v = v]
    <2>1. t \in Slot /\ Carries(t) /\ Updates(t)
      BY <1>4 DEF onboardAgain, Idle, Slot, Step, Follower, VendorSteps, Reading, Carries,
         Updates, VendorCarriers, RowSteps, BookingCarriers, UserCarriers
    <2> QED BY <1>4, <2>1, WaitStep, TablesStay DEF onboardAgain
  <1>5. CASE submitKyc(r, v)
    <2>1. profile' \in [Vendor -> Profile]
      BY <1>5 DEF submitKyc, TypeInv, TablesTyped, Profile, KycStatus
    <2>2. \A w \in Vendor : profile'[w].slug = profile[w].slug
      BY <1>5 DEF submitKyc, TypeInv, TablesTyped, Profile
    <2>3. RowsOwned'
      BY <1>5, <2>2, OwnedStays DEF submitKyc, Onboarded
    <2> QED BY <1>5, <2>1, <2>2, <2>3, ProfileStep, SlotsStay
            DEF submitKyc, TypeInv, TablesTyped, Onboarded
  <1>6. CASE changePlan(r, v)
    <2>1. profile' \in [Vendor -> Profile]
      BY <1>6 DEF changePlan, TypeInv, TablesTyped, Profile
    <2>2. \A w \in Vendor : profile'[w].slug = profile[w].slug
      BY <1>6 DEF changePlan, TypeInv, TablesTyped, Profile
    <2>3. RowsOwned'
      BY <1>6, <2>2, OwnedStays DEF changePlan, Onboarded
    <2> QED BY <1>6, <2>1, <2>2, <2>3, ProfileStep, SlotsStay
            DEF changePlan, TypeInv, TablesTyped, Onboarded
  <1>7. ASSUME NEW verdict \in Verdict, reviewKyc(r, v, verdict) PROVE TypeInv'
    <2> DEFINE t == [Idle EXCEPT !.at = "decide", !.v = v, !.seen = profile[v].kyc,
                        !.old = profile[v].slug, !.flag = (verdict = "APPROVED"),
                        !.keys = KeysOf(v, profile[v].slug)]
    <2>1. Onboarded(v) /\ profile[v].slug # NULL /\ profile[v].kyc = "SUBMITTED"
      BY <1>7 DEF reviewKyc, Onboarded
    <2>2. t \in Slot
      BY <1>2, <2>1 DEF Idle, Slot, Step, Follower, VendorSteps, Reading, KycStatus
    <2>3. Carries(t) /\ Updates(t)
      BY <1>2, <2>1 DEF Idle, Carries, Updates, VendorCarriers, RowSteps, BookingCarriers,
         UserCarriers
    <2> QED BY <1>7, <2>2, <2>3, WaitStep, TablesStay DEF reviewKyc
  <1> QED BY <1>1, <1>3, <1>4, <1>5, <1>6, <1>7

LEMMA VendorWritesTyped ==
    ASSUME TypeInv, NEW r \in RequestId,
           \/ insertProfile(r) \/ insertProfileRefused(r)
           \/ \E text \in Words : updateProfile(r, text)
           \/ updateProfileRefused(r)
           \/ decide(r)
    PROVE  TypeInv'
  <1> DEFINE slot == req[r]
  <1>0. slot \in Slot /\ Carries(slot) /\ Updates(slot)
    BY SlotHolds
  <1>1. CASE insertProfile(r)
    <2> DEFINE s == [slot EXCEPT !.at = "upsert", !.todo = {VendorDoc(slot.v)}]
    <2>1. /\ slot.at = "insertProfile" /\ slot.v \in Vendor /\ slot.v \in User
          /\ slot.slug \in Slug /\ slot.slug # NULL /\ slot.after = "idle"
      BY <1>0, <1>1, CatalogAssumption DEF insertProfile, Carries, VendorCarriers
    <2>2. profile' \in [Vendor -> Profile]
      BY <1>1, <2>1 DEF insertProfile, TypeInv, TablesTyped, Profile
    <2>3. \A w \in Vendor : Onboarded(w) => profile'[w].slug # NULL
      BY <1>1, <2>1 DEF insertProfile, TypeInv, TablesTyped, Profile, Onboarded
    <2>4. account' \in [User -> Account]
      BY <1>1, <2>1 DEF insertProfile, TypeInv, TablesTyped, Account, Role
    <2>5. RowsOwned'
      BY <1>1, <2>3, OwnedStays DEF insertProfile
    <2>6. TablesTyped' /\ Kept
      BY <1>1, <2>2, <2>3, <2>4, <2>5, ProfileStep DEF insertProfile, TypeInv, TablesTyped
    <2>7. s \in Slot
      <3>1. "upsert" \in Step /\ {VendorDoc(slot.v)} \subseteq Entry
        BY <2>1, DocsTyped DEF Step, CopySteps
      <3> QED BY <1>0, <3>1 DEF Slot
    <2>8. Carries(s) /\ Updates(s)
      BY <1>0, <2>1 DEF Slot, Carries, Updates, VendorCarriers, RowSteps, BookingCarriers,
         UserCarriers
    <2> QED BY <1>1, <2>6, <2>7, <2>8, WaitStep DEF insertProfile
  <1>2. CASE insertProfileRefused(r) \/ updateProfileRefused(r)
    BY <1>2, EndStep, TablesStay DEF insertProfileRefused, updateProfileRefused
  <1>3. ASSUME NEW text \in Words, updateProfile(r, text) PROVE TypeInv'
    <2> DEFINE none == slot.slug = NULL
               at == IF none THEN "upsert" ELSE "bust"
               after == IF none THEN "idle" ELSE "upsert"
               s == [slot EXCEPT !.at = at, !.after = after, !.todo = {VendorDoc(slot.v)}]
    <2>1. /\ slot.at = "updateProfile" /\ slot.v \in Vendor
          /\ slot.slug \in Slug \cup {NULL}
      BY <1>0, <1>3 DEF updateProfile, Carries, VendorCarriers, Slot
    <2>2. profile' \in [Vendor -> Profile]
      <3> DEFINE slug == IF slot.slug = NULL THEN profile[slot.v].slug ELSE slot.slug
                 p == [profile[slot.v] EXCEPT !.slug = slug, !.text = text]
      <3>1. slug \in Slug \cup {NULL} /\ text \in Text
        BY <2>1 DEF TypeInv, TablesTyped, Profile, Text
      <3>2. profile' = [profile EXCEPT ![slot.v] = p]
        BY <1>3, <2>1 DEF updateProfile, TypeInv, TablesTyped
      <3> HIDE DEF slug
      <3>3. p \in Profile
        <4>1. profile[slot.v] \in Profile
          BY <2>1 DEF TypeInv, TablesTyped
        <4> QED BY <3>1, <4>1 DEF Profile
      <3> QED BY <3>2, <3>3 DEF TypeInv, TablesTyped
    <2>3. \A w \in Vendor : Onboarded(w) => profile'[w].slug # NULL
      BY <1>3, <2>1 DEF updateProfile, TypeInv, TablesTyped, Profile, Onboarded
    <2>4. RowsOwned'
      BY <1>3, <2>3, OwnedStays DEF updateProfile
    <2>5. TablesTyped' /\ Kept
      BY <1>3, <2>2, <2>3, <2>4, ProfileStep DEF updateProfile, TypeInv, TablesTyped
    <2>6. s \in Slot
      <3>1. at \in Step /\ after \in Follower /\ {VendorDoc(slot.v)} \subseteq Entry
        BY <2>1, DocsTyped DEF Step, CopySteps, Follower
      <3> HIDE DEF at, after
      <3> QED BY <1>0, <3>1 DEF Slot
    <2>7. Carries(s) /\ Updates(s)
      BY <1>0, <2>1 DEF Slot, Carries, Updates, VendorCarriers, RowSteps, BookingCarriers,
         UserCarriers
    <2> QED BY <1>3, <2>5, <2>6, <2>7, WaitStep DEF updateProfile
  <1>4. CASE decide(r)
    <2> DEFINE after == IF slot.flag THEN "reindex" ELSE "idle"
               s == [slot EXCEPT !.at = "bust", !.after = after]
    <2>1. slot.at = "decide" /\ slot.v \in Vendor /\ slot.l = NULL /\ slot.flag \in BOOLEAN
      BY <1>0, <1>4 DEF decide, Carries, VendorCarriers, Slot
    <2>2. profile' \in [Vendor -> Profile]
      BY SMTT(30), <1>4, <2>1 DEF decide, TypeInv, TablesTyped, Profile, KycStatus
    <2>3. \A w \in Vendor : profile'[w].slug = profile[w].slug
      BY <1>4, <2>1 DEF decide, TypeInv, TablesTyped, Profile
    <2>4. RowsOwned'
      BY <1>4, <2>3, OwnedStays DEF decide, Onboarded
    <2>5. TablesTyped' /\ Kept
      BY <1>4, <2>2, <2>3, <2>4, ProfileStep DEF decide, TypeInv, TablesTyped, Onboarded
    <2>6. s \in Slot
      <3>1. "bust" \in Step /\ after \in Follower
        BY DEF Step, CopySteps, Follower
      <3> HIDE DEF after
      <3> QED BY <1>0, <3>1 DEF Slot
    <2>7. Carries(s) /\ Updates(s)
      BY <1>0, <2>1 DEF Slot, Carries, Updates, VendorCarriers, RowSteps, BookingCarriers,
         UserCarriers
    <2> QED BY <1>4, <2>5, <2>6, <2>7, WaitStep DEF decide
  <1> QED BY <1>1, <1>2, <1>3, <1>4

-----------------------------------------------------------------------------
\* A write to the listings that leaves each with a vendor.
LEMMA ListingStep ==
    ASSUME TypeInv, listing' \in [Listing -> ListingRow], limit' \in Limit,
           \A l \in Listing : listing'[l].status # "none" => listing'[l].vendor \in Vendor,
           UNCHANGED <<suite, profile, reviews, copies, dispute, account>>
    PROVE  TablesTyped' /\ Kept
  BY DEF TypeInv, TablesTyped, RowsOwned, Kept, Onboarded, copies

\* One row of the listings is written over, its vendor left alone.
LEMMA RowStep ==
    ASSUME TypeInv, NEW l \in Listing, Exists(l), NEW row \in ListingRow,
           row.vendor = listing[l].vendor, listing' = [listing EXCEPT ![l] = row],
           UNCHANGED <<suite, profile, limit, reviews, copies, dispute, account>>
    PROVE  TablesTyped' /\ Kept
  <1>1. listing' \in [Listing -> ListingRow] /\ limit' \in Limit
    BY DEF TypeInv, TablesTyped
  <1>2. listing[l].vendor \in Vendor
    BY DEF TypeInv, TablesTyped, RowsOwned, Exists
  <1>3. \A m \in Listing : listing'[m].status # "none" => listing'[m].vendor \in Vendor
    BY <1>2 DEF TypeInv, TablesTyped, RowsOwned
  <1> QED BY <1>1, <1>3, ListingStep

LEMMA CreationTyped ==
    ASSUME TypeInv, NEW r \in RequestId,
           \/ \E n \in Limit : updatePlan(r, n)
           \/ \E v \in Vendor : create(r, v)
           \/ readLimit(r) \/ countActive(r)
           \/ \E l \in Listing, media \in BOOLEAN : insertListing(r, l, media)
    PROVE  TypeInv'
  <1> DEFINE slot == req[r]
  <1>0. slot \in Slot /\ Carries(slot) /\ Updates(slot)
    BY SlotHolds
  <1>1. ASSUME NEW n \in Limit, updatePlan(r, n) PROVE TypeInv'
    <2>1. TablesTyped' /\ Kept
      BY <1>1, ListingStep DEF updatePlan, TypeInv, TablesTyped, RowsOwned
    <2> QED BY <1>1, <2>1, SlotsStay DEF updatePlan
  <1>2. ASSUME NEW v \in Vendor, create(r, v) PROVE TypeInv'
    <2> DEFINE t == [Idle EXCEPT !.at = "readLimit", !.v = v]
    <2>1. t \in Slot /\ Carries(t) /\ Updates(t)
      BY DEF Idle, Slot, Step, Follower, ListingSteps, Reading, Carries, Updates, VendorCarriers,
             RowSteps, BookingCarriers, UserCarriers
    <2> QED BY <1>2, <2>1, WaitStep, TablesStay DEF create
  <1>3. CASE readLimit(r) \/ countActive(r)
    <2>1. slot.at \in {"readLimit", "countActive"} /\ slot.v \in Vendor
      BY <1>0, <1>3 DEF readLimit, countActive, Carries, VendorCarriers
    <2>2. ASSUME NEW n \in Nat
          PROVE  LET s == [slot EXCEPT !.at = "countActive", !.n = n]
                     t == [slot EXCEPT !.at = "insertListing", !.n = n]
                 IN  /\ s \in Slot /\ Carries(s) /\ Updates(s)
                     /\ t \in Slot /\ Carries(t) /\ Updates(t)
      <3> DEFINE s == [slot EXCEPT !.at = "countActive", !.n = n]
                 t == [slot EXCEPT !.at = "insertListing", !.n = n]
      <3>1. {"countActive", "insertListing"} \subseteq Step
        BY DEF Step, ListingSteps
      <3>2. s \in Slot /\ t \in Slot
        BY <1>0, <2>2, <3>1 DEF Slot
      <3>3. Carries(s) /\ Updates(s) /\ Carries(t) /\ Updates(t)
        BY <1>0, <2>1 DEF Slot, Carries, Updates, VendorCarriers, RowSteps, BookingCarriers,
           UserCarriers
      <3> QED BY <3>2, <3>3
    <2>3. limit \in Nat \/ limit = NULL
      BY CatalogAssumption DEF TypeInv, TablesTyped, Limit
    <2>4. slot.n \in Nat /\ [slot EXCEPT !.at = "insertListing"]
                             = [slot EXCEPT !.at = "insertListing", !.n = slot.n]
      BY <1>0 DEF Slot
    <2>5. \/ Return(r)
          \/ \E n \in Nat : \/ Wait(r, [slot EXCEPT !.at = "countActive", !.n = n])
                            \/ Wait(r, [slot EXCEPT !.at = "insertListing", !.n = n])
      BY <1>3, <2>3, <2>4 DEF readLimit, countActive
    <2>6. TablesTyped' /\ Kept
      BY <1>3, TablesStay DEF readLimit, countActive
    <2> QED BY <2>2, <2>5, <2>6, WaitStep, EndStep
  <1>4. ASSUME NEW l \in Listing, NEW media \in BOOLEAN, insertListing(r, l, media)
        PROVE  TypeInv'
    <2> DEFINE t == [Idle EXCEPT !.at = "bust", !.after = "readListing", !.l = l,
                                 !.keys = {<<"vendor", slot.v>>}]
    <2>1. slot.at = "insertListing" /\ slot.v \in Vendor
      BY <1>0, <1>4 DEF insertListing, Carries, VendorCarriers
    <2>2. {<<"vendor", slot.v>>} \subseteq Key
      BY <2>1 DEF Key
    <2>3. t \in Slot /\ Carries(t) /\ Updates(t)
      BY <2>2 DEF Idle, Slot, Step, Follower, CopySteps, Reading, Carries, Updates,
         VendorCarriers, RowSteps, BookingCarriers, UserCarriers
    <2>4. [vendor |-> slot.v, text |-> "first", media |-> media, status |-> "active"] \in ListingRow
      BY <2>1 DEF ListingRow, Words
    <2>5. listing' \in [Listing -> ListingRow] /\ limit' \in Limit
      BY <1>4, <2>4 DEF insertListing, TypeInv, TablesTyped
    <2>6. \A m \in Listing : listing'[m].status # "none" => listing'[m].vendor \in Vendor
      BY <1>4, <2>1 DEF insertListing, TypeInv, TablesTyped, RowsOwned
    <2>7. TablesTyped' /\ Kept
      BY <1>4, <2>5, <2>6, ListingStep DEF insertListing
    <2> QED BY <1>4, <2>3, <2>7, WaitStep DEF insertListing
  <1> QED BY <1>1, <1>2, <1>3, <1>4

LEMMA ListingReadsTyped ==
    ASSUME TypeInv, NEW r \in RequestId, NEW l \in Listing,
           \/ \E to \in {"active", "inactive"} : update(r, l, to)
           \/ remove(r, l) \/ changeMedia(r, l) \/ recordView(r, l)
    PROVE  TypeInv'
  <1>1. <<"listing", l>> \in Key /\ l # NULL
    BY CatalogAssumption DEF Key
  <1>2. TablesTyped' /\ Kept
    BY TablesStay DEF update, remove, changeMedia, recordView
  <1>3. ASSUME NEW to \in {"active", "inactive"}, update(r, l, to) PROVE TypeInv'
    <2> DEFINE seen == IF to = listing[l].status THEN NULL ELSE to
               t == [Idle EXCEPT !.at = "updateListing", !.l = l, !.keys = {<<"listing", l>>},
                                 !.seen = seen]
    <2>1. seen \in {NULL, "active", "inactive"}
      OBVIOUS
    <2> HIDE DEF seen
    <2>2. t \in Slot /\ Carries(t) /\ Updates(t)
      BY <1>1, <2>1 DEF Idle, Slot, Step, Follower, ListingSteps, Reading, Carries, Updates,
         VendorCarriers, RowSteps, BookingCarriers, UserCarriers
    <2> QED BY <1>2, <1>3, <2>2, WaitStep DEF update, seen
  <1>4. CASE remove(r, l)
    <2> DEFINE t == [Idle EXCEPT !.at = "deleteListing", !.after = "deleteDoc", !.l = l,
                        !.keys = {<<"listing", l>>, <<"vendor", listing[l].vendor>>}]
    <2>1. listing[l].vendor \in Vendor
      BY <1>4 DEF remove, Exists, TypeInv, TablesTyped, RowsOwned
    <2>2. {<<"listing", l>>, <<"vendor", listing[l].vendor>>} \subseteq Key
      BY <1>1, <2>1 DEF Key
    <2>3. t \in Slot /\ Carries(t) /\ Updates(t)
      BY <2>2 DEF Idle, Slot, Step, Follower, ListingSteps, Reading, Carries, Updates,
         VendorCarriers, RowSteps, BookingCarriers, UserCarriers
    <2> QED BY <1>2, <1>4, <2>3, WaitStep DEF remove
  <1>5. CASE changeMedia(r, l)
    <2> DEFINE at == IF listing[l].media THEN "deleteMedia" ELSE "insertMedia"
               t == [Idle EXCEPT !.at = at, !.l = l, !.keys = {<<"listing", l>>}]
    <2>1. at \in {"deleteMedia", "insertMedia"}
      OBVIOUS
    <2> HIDE DEF at
    <2>2. t \in Slot /\ Carries(t) /\ Updates(t)
      BY <1>1, <2>1 DEF Idle, Slot, Step, Follower, ListingSteps, Reading, Carries, Updates,
         VendorCarriers, RowSteps, BookingCarriers, UserCarriers
    <2> QED BY <1>2, <1>5, <2>2, WaitStep DEF changeMedia, at
  <1>6. CASE recordView(r, l)
    <2> DEFINE t == [Idle EXCEPT !.at = "bust", !.after = "readListing", !.l = l,
                                 !.keys = {<<"listing", l>>}]
    <2>1. t \in Slot /\ Carries(t) /\ Updates(t)
      BY <1>1 DEF Idle, Slot, Step, Follower, CopySteps, Reading, Carries, Updates,
         VendorCarriers, RowSteps, BookingCarriers, UserCarriers
    <2> QED BY <1>2, <1>6, <2>1, WaitStep DEF recordView
  <1> QED BY <1>3, <1>4, <1>5, <1>6

LEMMA ListingWritesTyped ==
    ASSUME TypeInv, NEW r \in RequestId,
           \/ updateListing(r) \/ deleteListing(r) \/ deleteListingBooked(r)
           \/ writeMedia(r) \/ writeRefused(r)
    PROVE  TypeInv'
  <1> DEFINE slot == req[r]
             l == slot.l
             s == [slot EXCEPT !.at = "bust"]
             t == [slot EXCEPT !.at = "bust", !.after = "readListing", !.seen = NULL]
  <1>0. slot \in Slot /\ Carries(slot) /\ Updates(slot)
    BY SlotHolds
  <1>1. CASE deleteListingBooked(r) \/ writeRefused(r)
    BY <1>1, EndStep, TablesStay DEF deleteListingBooked, writeRefused
  <1>2. CASE updateListing(r) \/ deleteListing(r) \/ writeMedia(r)
    <2>1. slot.at \in RowSteps /\ l \in Listing /\ slot.v = NULL /\ Exists(l)
      BY <1>0, <1>2 DEF updateListing, deleteListing, writeMedia, Carries, RowSteps
    <2>2. listing[l] \in ListingRow
      BY <2>1 DEF TypeInv, TablesTyped
    <2>3. s \in Slot /\ t \in Slot
      <3>1. "bust" \in Step /\ "readListing" \in Follower /\ NULL \in Reading
        BY DEF Step, CopySteps, Follower, Reading
      <3> QED BY <1>0, <3>1 DEF Slot
    <2>4. Carries(s) /\ Updates(s) /\ Carries(t) /\ Updates(t)
      <3>1. s.after \in {"idle", "deleteDoc"}
        BY <1>0, <2>1 DEF Carries, RowSteps, Slot
      <3> QED BY <1>0, <2>1, <3>1 DEF Slot, Carries, Updates, VendorCarriers, RowSteps,
              BookingCarriers, UserCarriers
    <2>5. CASE updateListing(r)
      <3>0. PICK text \in Words :
               listing' = [listing EXCEPT ![l].status = IF slot.seen = NULL THEN @ ELSE slot.seen,
                                          ![l].text = text]
        BY <2>5 DEF updateListing
      <3> DEFINE row == [listing[l] EXCEPT !.status = IF slot.seen = NULL THEN @ ELSE slot.seen,
                                           !.text = text]
      <3>1. slot.seen \in {NULL, "active", "inactive"}
        BY <1>0, <2>5 DEF updateListing, Carries
      <3>2. row \in ListingRow /\ row.vendor = listing[l].vendor
        BY <2>2, <3>1 DEF ListingRow
      <3>3. listing' = [listing EXCEPT ![l] = row]
        BY <2>1, <3>0 DEF TypeInv, TablesTyped
      <3> HIDE DEF row
      <3>4. TablesTyped' /\ Kept
        BY <2>1, <2>5, <3>2, <3>3, RowStep DEF updateListing
      <3> QED BY <2>3, <2>4, <2>5, <3>4, WaitStep DEF updateListing
    <2>6. CASE deleteListing(r)
      <3> DEFINE row == [listing[l] EXCEPT !.status = "deleted", !.text = "first", !.media = FALSE]
      <3>1. row \in ListingRow /\ row.vendor = listing[l].vendor
        BY <2>2 DEF ListingRow, Words
      <3>2. listing' = [listing EXCEPT ![l] = row]
        BY <2>1, <2>6 DEF deleteListing, TypeInv, TablesTyped
      <3> HIDE DEF row
      <3>3. TablesTyped' /\ Kept
        BY <2>1, <2>6, <3>1, <3>2, RowStep DEF deleteListing
      <3> QED BY <2>3, <2>4, <2>6, <3>3, WaitStep DEF deleteListing
    <2>7. CASE writeMedia(r)
      <3> DEFINE row == [listing[l] EXCEPT !.media = (slot.at = "insertMedia")]
      <3>1. row \in ListingRow /\ row.vendor = listing[l].vendor
        BY <2>2 DEF ListingRow
      <3>2. listing' = [listing EXCEPT ![l] = row]
        BY <2>7 DEF writeMedia
      <3> HIDE DEF row
      <3>3. TablesTyped' /\ Kept
        BY <2>1, <2>7, <3>1, <3>2, RowStep DEF writeMedia
      <3> QED BY <2>3, <2>4, <2>7, <3>3, WaitStep DEF writeMedia
    <2> QED BY <1>2, <2>5, <2>6, <2>7
  <1> QED BY <1>1, <1>2

LEMMA ListingsTyped ==
    ASSUME TypeInv, ListingsNext
    PROVE  TypeInv'
  BY CreationTyped, ListingReadsTyped, ListingWritesTyped DEF ListingsNext

-----------------------------------------------------------------------------
\* What may be counted: finitely many reviews, and finitely many listings.
LEMMA FinitelyMany ==
    ASSUME NEW v
    PROVE  /\ IsFiniteSet(ReviewsOf(v)) /\ Cardinality(ReviewsOf(v)) \in Nat
           /\ IsFiniteSet(ActiveOf(v)) /\ Cardinality(ActiveOf(v)) \in Nat
  <1>1. ReviewsOf(v) \subseteq Booking /\ ActiveOf(v) \subseteq Listing
    BY DEF ReviewsOf, ActiveOf
  <1>2. IsFiniteSet(ReviewsOf(v)) /\ IsFiniteSet(ActiveOf(v))
    BY <1>1, FS_Subset, CatalogAssumption
  <1> QED BY <1>2, FS_CardinalityType

LEMMA ReviewsStep ==
    ASSUME TypeInv, NEW b \in Booking, NEW row \in Review,
           reviews' = [reviews EXCEPT ![b] = row],
           row.vendor # NULL => Onboarded(row.vendor),
           profile' \in [Vendor -> Profile],
           \A v \in Vendor : Onboarded(v) => profile'[v].slug # NULL,
           UNCHANGED <<suite, listing, limit, copies, dispute, account>>
    PROVE  TablesTyped' /\ Kept
  <1>1. reviews' \in [Booking -> Review]
    BY DEF TypeInv, TablesTyped
  <1>2. \A c \in Booking : reviews'[c].vendor # NULL =>
           reviews'[c].vendor \in Vendor /\ Onboarded(reviews'[c].vendor)
    BY DEF TypeInv, TablesTyped, RowsOwned, Review
  <1>3. RowsOwned'
    BY <1>2 DEF TypeInv, TablesTyped, RowsOwned, Onboarded
  <1> QED BY <1>1, <1>3, ProfileStep DEF TypeInv, TablesTyped

LEMMA RatingsTyped ==
    ASSUME TypeInv, RatingsNext
    PROVE  TypeInv'
  <1>1. ASSUME NEW b \in Booking, NEW v \in Vendor, complete(b, v) PROVE TypeInv'
    <2> DEFINE row == [reviews[b] EXCEPT !.vendor = v]
    <2>1. row \in Review /\ row.vendor = v
      BY DEF TypeInv, TablesTyped, Review
    <2>2. reviews' = [reviews EXCEPT ![b] = row]
      BY <1>1 DEF complete
    <2> HIDE DEF row
    <2>3. TablesTyped' /\ Kept
      BY <1>1, <2>1, <2>2, ReviewsStep DEF complete, TypeInv, TablesTyped, Onboarded
    <2> QED BY <1>1, <2>3, SlotsStay DEF complete
  <1>2. ASSUME NEW r \in RequestId, NEW b \in Booking, createReview(r, b) PROVE TypeInv'
    <2> DEFINE v == reviews[b].vendor
               t == [Idle EXCEPT !.at = "postReview", !.b = b, !.v = v,
                        !.old = profile[v].slug, !.keys = KeysOf(v, profile[v].slug)]
    <2>1. v \in Vendor /\ Onboarded(v)
      BY <1>2 DEF createReview, TypeInv, TablesTyped, RowsOwned, Review
    <2>2. profile[v].slug \in Slug /\ KeysOf(v, profile[v].slug) \subseteq Key
      BY <2>1 DEF TypeInv, TablesTyped, Profile, Onboarded, KeysOf, Key
    <2> HIDE DEF v
    <2>3. t \in Slot
      BY <2>1, <2>2 DEF Idle, Slot, Step, Follower, OtherSteps, Reading
    <2>4. Carries(t) /\ Updates(t)
      BY <2>1, <2>2 DEF Idle, Carries, Updates, VendorCarriers, RowSteps, BookingCarriers,
         UserCarriers
    <2> QED BY <1>2, <2>3, <2>4, WaitStep, TablesStay DEF createReview, v
  <1>3. ASSUME NEW r \in RequestId, NEW b \in Booking, respond(r, b) PROVE TypeInv'
    <2> DEFINE t == [Idle EXCEPT !.at = "insertResponse", !.b = b]
    <2>1. t \in Slot /\ Carries(t) /\ Updates(t)
      BY DEF Idle, Slot, Step, Follower, OtherSteps, Reading, Carries, Updates, VendorCarriers,
             RowSteps, BookingCarriers, UserCarriers
    <2> QED BY <1>3, <2>1, WaitStep, TablesStay DEF respond
  <1>4. ASSUME NEW r \in RequestId, postReview(r) PROVE TypeInv'
    <2> DEFINE slot == req[r]
               n == Cardinality(ReviewsOf(slot.v)) + 1
               s == [slot EXCEPT !.at = "commitRating", !.n = n]
    <2>1. slot \in Slot /\ Carries(slot) /\ Updates(slot) /\ slot.at = "postReview"
      BY <1>4, SlotHolds DEF postReview
    <2>2. n \in Nat /\ "commitRating" \in Step
      BY FinitelyMany DEF Step, OtherSteps
    <2> HIDE DEF n
    <2>3. s \in Slot
      BY <2>1, <2>2 DEF Slot
    <2>4. Carries(s) /\ Updates(s)
      BY <2>1 DEF Slot, Carries, Updates, VendorCarriers, RowSteps, BookingCarriers, UserCarriers
    <2> QED BY <1>4, <2>3, <2>4, WaitStep, TablesStay DEF postReview, n
  <1>5. ASSUME NEW r \in RequestId, postReviewRefused(r) \/ insertResponseRefused(r)
        PROVE  TypeInv'
    BY <1>5, EndStep, TablesStay DEF postReviewRefused, insertResponseRefused
  <1>6. ASSUME NEW r \in RequestId, commitRating(r) PROVE TypeInv'
    <2> DEFINE slot == req[r]
               s == [slot EXCEPT !.at = "bust", !.n = 0]
               row == [reviews[slot.b] EXCEPT !.state = "posted"]
    <2>1. slot \in Slot /\ Carries(slot) /\ Updates(slot) /\ slot.at = "commitRating"
      BY <1>6, SlotHolds DEF commitRating
    <2>2. slot.b \in Booking /\ slot.v \in Vendor /\ slot.n \in Nat /\ slot.after = "idle"
      BY <2>1 DEF Carries, VendorCarriers, BookingCarriers, Slot
    <2>3. row \in Review /\ row.vendor = reviews[slot.b].vendor
      BY <2>2 DEF TypeInv, TablesTyped, Review
    <2>4. reviews' = [reviews EXCEPT ![slot.b] = row]
      BY <1>6 DEF commitRating
    <2>5. profile' \in [Vendor -> Profile] /\ \A v \in Vendor : profile'[v].slug = profile[v].slug
      <3> DEFINE p == [profile[slot.v] EXCEPT !.count = slot.n]
      <3>1. p \in Profile /\ p.slug = profile[slot.v].slug
        BY <2>2 DEF TypeInv, TablesTyped, Profile
      <3>2. profile' = [profile EXCEPT ![slot.v] = p]
        BY <1>6 DEF commitRating
      <3> HIDE DEF p
      <3> QED BY <2>2, <3>1, <3>2 DEF TypeInv, TablesTyped
    <2>6. row.vendor # NULL => Onboarded(row.vendor)
      BY <2>2, <2>3 DEF TypeInv, TablesTyped, RowsOwned
    <2> HIDE DEF row
    <2>7. TablesTyped' /\ Kept
      <3>1. UNCHANGED <<suite, listing, limit, copies, dispute, account>>
        BY <1>6 DEF commitRating
      <3>2. \A v \in Vendor : Onboarded(v) => profile'[v].slug # NULL
        BY <2>5 DEF Onboarded
      <3> HIDE DEF slot
      <3> QED BY <2>2, <2>3, <2>4, <2>5, <2>6, <3>1, <3>2, ReviewsStep
    <2>8. s \in Slot
      <3>1. "bust" \in Step /\ 0 \in Nat
        BY DEF Step, CopySteps
      <3> QED BY <2>1, <3>1 DEF Slot
    <2>9. Carries(s) /\ Updates(s)
      BY <2>1, <2>2 DEF Slot, Carries, Updates, VendorCarriers, RowSteps, BookingCarriers,
         UserCarriers
    <2> QED BY <1>6, <2>7, <2>8, <2>9, WaitStep DEF commitRating
  <1>7. ASSUME NEW r \in RequestId, insertResponse(r) PROVE TypeInv'
    <2> DEFINE b == req[r].b
               row == [reviews[b] EXCEPT !.state = "answered"]
    <2>1. b \in Booking
      BY <1>7, SlotHolds DEF insertResponse, Carries, BookingCarriers
    <2>2. row \in Review /\ row.vendor = reviews[b].vendor
      BY <2>1 DEF TypeInv, TablesTyped, Review
    <2>3. reviews' = [reviews EXCEPT ![b] = row]
      BY <1>7 DEF insertResponse
    <2>4. row.vendor # NULL => Onboarded(row.vendor)
      BY <2>1, <2>2 DEF TypeInv, TablesTyped, RowsOwned
    <2> HIDE DEF row
    <2>5. profile' \in [Vendor -> Profile] /\ \A v \in Vendor : profile'[v] = profile[v]
      BY <1>7 DEF insertResponse, TypeInv, TablesTyped
    <2>6. TablesTyped' /\ Kept
      BY <1>7, <2>1, <2>2, <2>3, <2>4, <2>5, ReviewsStep DEF insertResponse, Onboarded
    <2> QED BY <1>7, <2>6, EndStep DEF insertResponse
  <1> QED BY <1>1, <1>2, <1>3, <1>4, <1>5, <1>6, <1>7 DEF RatingsNext

-----------------------------------------------------------------------------
LEMMA DisputesTyped ==
    ASSUME TypeInv, DisputesNext
    PROVE  TypeInv'
  <1>1. ASSUME dispute' \in [Booking -> Dispute], UNCHANGED <<suite, catalog, copies, account>>
        PROVE  TablesTyped' /\ Kept
    BY <1>1 DEF TypeInv, TablesTyped, RowsOwned, Kept, Onboarded, catalog, copies
  <1>2. ASSUME NEW r \in RequestId, NEW b \in Booking, createDispute(r, b) PROVE TypeInv'
    <2> DEFINE t == [Idle EXCEPT !.at = "insertDispute", !.b = b]
    <2>1. t \in Slot /\ Carries(t) /\ Updates(t)
      BY DEF Idle, Slot, Step, Follower, OtherSteps, Reading, Carries, Updates, VendorCarriers,
             RowSteps, BookingCarriers, UserCarriers
    <2> QED BY <1>2, <2>1, WaitStep, TablesStay DEF createDispute
  <1>3. ASSUME NEW r \in RequestId, NEW b \in Booking, resolve(r, b) PROVE TypeInv'
    <2> DEFINE t == [Idle EXCEPT !.at = "resolveDispute", !.b = b, !.seen = dispute[b].status]
    <2>1. t \in Slot /\ Carries(t) /\ Updates(t)
      BY <1>3 DEF resolve, Idle, Slot, Step, Follower, OtherSteps, Reading, DisputeStatus, Carries,
         Updates, VendorCarriers, RowSteps, BookingCarriers, UserCarriers
    <2> QED BY <1>3, <2>1, WaitStep, TablesStay DEF resolve
  <1>4. ASSUME NEW r \in RequestId, NEW b \in Booking, NEW to \in DisputeStatus,
               updateStatus(r, b, to)
        PROVE  TypeInv'
    <2> DEFINE t == [Idle EXCEPT !.at = "setDispute", !.b = b, !.seen = to]
    <2>1. t \in Slot /\ Carries(t) /\ Updates(t)
      BY DEF Idle, Slot, Step, Follower, OtherSteps, Reading, Carries, Updates, VendorCarriers,
             RowSteps, BookingCarriers, UserCarriers
    <2> QED BY <1>4, <2>1, WaitStep, TablesStay DEF updateStatus
  <1>5. ASSUME NEW r \in RequestId, insertDispute(r) PROVE TypeInv'
    <2>1. req[r].b \in Booking
      BY <1>5, SlotHolds DEF insertDispute, Carries, BookingCarriers
    <2>2. [dispute[req[r].b] EXCEPT !.status = "OPEN"] \in Dispute
      BY <2>1 DEF TypeInv, TablesTyped, Dispute, DisputeStatus
    <2>3. dispute' \in [Booking -> Dispute]
      BY <1>5, <2>2 DEF insertDispute, TypeInv, TablesTyped
    <2> QED BY <1>1, <1>5, <2>3, EndStep DEF insertDispute
  <1>6. ASSUME NEW r \in RequestId, insertDisputeRefused(r) PROVE TypeInv'
    BY <1>6, EndStep, TablesStay DEF insertDisputeRefused
  <1>7. ASSUME NEW r \in RequestId, setDispute(r) PROVE TypeInv'
    <2>1. req[r].seen \in DisputeStatus /\ req[r].b \in Booking
      BY <1>7, SlotHolds DEF setDispute, Carries, BookingCarriers
    <2>2. [dispute[req[r].b] EXCEPT !.status = req[r].seen] \in Dispute
      BY <2>1 DEF TypeInv, TablesTyped, Dispute
    <2>3. dispute' \in [Booking -> Dispute]
      BY <1>7, <2>2 DEF setDispute, TypeInv, TablesTyped
    <2> QED BY <1>1, <1>7, <2>3, EndStep DEF setDispute
  <1>8. ASSUME NEW r \in RequestId, NEW resolution \in {"client", "vendor"},
               resolveDispute(r, resolution)
        PROVE  TypeInv'
    <2>1. [status |-> "RESOLVED", resolution |-> resolution] \in Dispute
      BY DEF Dispute, DisputeStatus
    <2>2. dispute' \in [Booking -> Dispute]
      BY <1>8, <2>1 DEF resolveDispute, TypeInv, TablesTyped
    <2> QED BY <1>1, <1>8, <2>2, EndStep DEF resolveDispute
  <1> QED BY <1>2, <1>3, <1>4, <1>5, <1>6, <1>7, <1>8 DEF DisputesNext

-----------------------------------------------------------------------------
\* A write to the accounts alone.
LEMMA AccountStep ==
    ASSUME TypeInv, account' \in [User -> Account], UNCHANGED <<suite, catalog, copies, dispute>>
    PROVE  TablesTyped' /\ Kept
  BY DEF TypeInv, TablesTyped, RowsOwned, Kept, Onboarded, catalog, copies

LEMMA UsersTyped ==
    ASSUME TypeInv, NEW u \in User,
           \/ signIn(u) \/ cookieExpires(u)
           \/ \E r \in RequestId : deactivateMe(r, u) \/ deleteMe(r, u)
    PROVE  TypeInv'
  <1>1. account[u] \in Account /\ Revoked(account[u].session) \in {"none", "live", "cached"}
    BY DEF TypeInv, TablesTyped, Account, Revoked
  <1>2. account' \in [User -> Account]
    <2>1. CASE signIn(u) \/ cookieExpires(u)
      BY <1>1, <2>1 DEF signIn, cookieExpires, TypeInv, TablesTyped, Account
    <2>2. ASSUME NEW r \in RequestId, deactivateMe(r, u) PROVE account' \in [User -> Account]
      BY <1>1, <2>2 DEF deactivateMe, TypeInv, TablesTyped, Account
    <2>3. ASSUME NEW r \in RequestId, deleteMe(r, u) PROVE account' \in [User -> Account]
      BY <1>1, <2>3 DEF deleteMe, TypeInv, TablesTyped, Account
    <2> QED BY <2>1, <2>2, <2>3
  <1>3. ASSUME NEW r \in RequestId, deleteMe(r, u) PROVE TypeInv'
    <2>1. profile' \in [Vendor -> Profile] /\ \A v \in Vendor : profile'[v].slug = profile[v].slug
      BY <1>3 DEF deleteMe, TypeInv, TablesTyped, Profile, Text
    <2>2. RowsOwned'
      BY <1>3, <2>1, OwnedStays DEF deleteMe, Onboarded
    <2>3. TablesTyped' /\ Kept
      BY <1>2, <1>3, <2>1, <2>2, ProfileStep DEF deleteMe, TypeInv, TablesTyped, Onboarded
    <2> QED BY <1>3, <2>3, SlotsStay DEF deleteMe
  <1> QED BY <1>2, <1>3, AccountStep, SlotsStay DEF signIn, cookieExpires, deactivateMe

LEMMA AccountReadsTyped ==
    ASSUME TypeInv, NEW r \in RequestId, NEW u \in User,
           \/ getMe(r, u) \/ (\E city \in BOOLEAN : updateMe(r, u, city))
           \/ setPreferences(r, u) \/ completeOnboarding(r, u) \/ claimVendorIntent(r, u)
           \/ \E role \in Role : setUserRole(r, u, role)
           \/ \E isActive \in BOOLEAN : setUserActive(r, u, isActive)
    PROVE  TypeInv'
  <1>1. ASSUME NEW at \in {"readMe", "setOnboarded"}
        PROVE  LET t == [Idle EXCEPT !.at = at, !.u = u]
               IN  t \in Slot /\ Carries(t) /\ Updates(t)
    BY DEF Idle, Slot, Step, Follower, OtherSteps, Reading, Carries, Updates, VendorCarriers,
           RowSteps, BookingCarriers, UserCarriers
  <1>2. ASSUME NEW role \in Role
        PROVE  LET t == [Idle EXCEPT !.at = "setRole", !.u = u, !.seen = role]
               IN  t \in Slot /\ Carries(t) /\ Updates(t)
    BY DEF Idle, Slot, Step, Follower, OtherSteps, Reading, Carries, Updates, VendorCarriers,
           RowSteps, BookingCarriers, UserCarriers
  <1>3. ASSUME NEW on \in BOOLEAN
        PROVE  LET t == [Idle EXCEPT !.at = "setActive", !.u = u, !.flag = on]
               IN  t \in Slot /\ Carries(t) /\ Updates(t)
    BY DEF Idle, Slot, Step, Follower, OtherSteps, Reading, Carries, Updates, VendorCarriers,
           RowSteps, BookingCarriers, UserCarriers
  <1>4. CASE getMe(r, u) \/ setPreferences(r, u) \/ completeOnboarding(r, u)
    <2>1. \E at \in {"readMe", "setOnboarded"} : Wait(r, [Idle EXCEPT !.at = at, !.u = u])
      BY <1>4 DEF getMe, setPreferences, completeOnboarding
    <2>2. TablesTyped' /\ Kept
      BY <1>4, TablesStay DEF getMe, setPreferences, completeOnboarding
    <2> QED BY <1>1, <2>1, <2>2, WaitStep
  <1>5. ASSUME NEW city \in BOOLEAN, updateMe(r, u, city) PROVE TypeInv'
    <2>1. account' \in [User -> Account]
      <3> DEFINE near == account[u].city \/ city
                 done == account[u].onboarded \/ city \/ account[u].city
               row == [account[u] EXCEPT !.city = near, !.onboarded = done]
      <3>1. near \in BOOLEAN /\ done \in BOOLEAN
        OBVIOUS
      <3>2. account' = [account EXCEPT ![u] = row]
        BY <1>5 DEF updateMe, TypeInv, TablesTyped
      <3> HIDE DEF near, done
      <3>3. row \in Account
        BY <3>1 DEF TypeInv, TablesTyped, Account
      <3> QED BY <3>2, <3>3 DEF TypeInv, TablesTyped
    <2>2. TablesTyped' /\ Kept
      BY <1>5, <2>1, AccountStep DEF updateMe
    <2> QED BY <1>1, <1>5, <2>2, WaitStep DEF updateMe
  <1>6. CASE claimVendorIntent(r, u)
    <2>1. "VENDOR" \in Role
      BY DEF Role
    <2> QED BY <1>2, <1>6, <2>1, WaitStep, TablesStay DEF claimVendorIntent
  <1>7. ASSUME NEW role \in Role, setUserRole(r, u, role) PROVE TypeInv'
    BY <1>2, <1>7, WaitStep, TablesStay DEF setUserRole
  <1>8. ASSUME NEW on \in BOOLEAN, setUserActive(r, u, on) PROVE TypeInv'
    BY <1>3, <1>8, WaitStep, TablesStay DEF setUserActive
  <1> QED BY <1>4, <1>5, <1>6, <1>7, <1>8

LEMMA AccountWritesTyped ==
    ASSUME TypeInv, NEW r \in RequestId,
           readMe(r) \/ reactivate(r) \/ setOnboarded(r) \/ setRole(r) \/ setActive(r)
    PROVE  TypeInv'
  <1> DEFINE slot == req[r]
  <1>0. slot \in Slot /\ Carries(slot) /\ Updates(slot)
    BY SlotHolds
  <1>1. slot.at \in UserCarriers /\ slot.u \in User /\ slot.after = "idle"
    BY <1>0 DEF readMe, reactivate, setOnboarded, setRole, setActive, Carries, UserCarriers
  <1>2. CASE readMe(r)
    <2> DEFINE s == [slot EXCEPT !.at = "reactivate", !.flag = account[slot.u].deleted]
    <2>1. ASSUME ~account[slot.u].deleted PROVE s \in Slot /\ Carries(s) /\ Updates(s)
      <3>1. account[slot.u].deleted = FALSE /\ "reactivate" \in Step
        BY <1>1, <2>1 DEF TypeInv, TablesTyped, Account, Step, OtherSteps
      <3>2. s \in Slot
        BY <1>0, <3>1 DEF Slot
      <3> QED BY <1>0, <1>1, <3>1, <3>2 DEF Slot, Carries, Updates, VendorCarriers, RowSteps,
              BookingCarriers, UserCarriers
    <2>2. Return(r) \/ (~account[slot.u].deleted /\ Wait(r, s))
      BY <1>2 DEF readMe
    <2> QED BY <1>2, <2>1, <2>2, WaitStep, EndStep, TablesStay DEF readMe
  <1>3. CASE reactivate(r) \/ setActive(r)
    <2>1. account' \in [User -> Account]
      <3> PICK on \in BOOLEAN : account' = [account EXCEPT ![slot.u].active = on]
        BY <1>0, <1>3 DEF reactivate, setActive, Slot
      <3> QED BY <1>1 DEF TypeInv, TablesTyped, Account
    <2> QED BY <1>3, <2>1, AccountStep, EndStep DEF reactivate, setActive
  <1>4. CASE setRole(r)
    <2>1. slot.seen \in Role
      BY <1>0, <1>4 DEF setRole, Carries
    <2>2. account' \in [User -> Account]
      BY <1>1, <1>4, <2>1 DEF setRole, TypeInv, TablesTyped, Account
    <2> QED BY <1>4, <2>2, AccountStep, EndStep DEF setRole
  <1>5. CASE setOnboarded(r)
    <2> DEFINE s == [slot EXCEPT !.at = "readMe"]
    <2>1. account' \in [User -> Account]
      BY <1>1, <1>5 DEF setOnboarded, TypeInv, TablesTyped, Account
    <2>2. s \in Slot
      <3>1. "readMe" \in Step
        BY DEF Step, OtherSteps
      <3> QED BY <1>0, <3>1 DEF Slot
    <2>3. Carries(s) /\ Updates(s)
      BY <1>0, <1>1 DEF Slot, Carries, Updates, VendorCarriers, RowSteps, BookingCarriers,
         UserCarriers
    <2> QED BY <1>5, <2>1, <2>2, <2>3, AccountStep, WaitStep DEF setOnboarded
  <1> QED BY <1>2, <1>3, <1>4, <1>5

LEMMA AccountsTyped ==
    ASSUME TypeInv, AccountsNext
    PROVE  TypeInv'
  BY UsersTyped, AccountReadsTyped, AccountWritesTyped DEF AccountsNext

LEMMA VendorsTyped ==
    ASSUME TypeInv, VendorProfilesNext
    PROVE  TypeInv'
  BY VendorReadsTyped, VendorWritesTyped DEF VendorProfilesNext

-----------------------------------------------------------------------------
LEMMA InitTyped == TablesInit => TypeInv
  <1> SUFFICES ASSUME TablesInit PROVE TypeInv
    OBVIOUS
  <1>1. SlotsTyped
    BY IdleTyped DEF TablesInit, SlotsTyped
  <1>2. profile \in [Vendor -> Profile] /\ listing \in [Listing -> ListingRow]
    BY DEF TablesInit, Profile, Text, Words, KycStatus, Tier, ListingRow
  <1>3. reviews \in [Booking -> Review] /\ dispute \in [Booking -> Dispute]
    BY DEF TablesInit, Review, Dispute
  <1>4. account \in [User -> Account]
    BY DEF TablesInit, Account, Role
  <1>5. suite \in Suites /\ drift \in BOOLEAN
    BY CatalogAssumption DEF TablesInit, Traffic
  <1>6. RowsOwned
    BY DEF TablesInit, RowsOwned
  <1>7. cache \in [Key -> Snapshot \cup {NULL}] /\ index \in [DocId -> Doc \cup {NULL}]
        /\ limit \in Limit
    BY DEF TablesInit
  <1> QED BY <1>1, <1>2, <1>3, <1>4, <1>5, <1>6, <1>7 DEF TypeInv, TablesTyped

LEMMA NextTyped == ASSUME TypeInv, [Next]_vars PROVE TypeInv'
  <1>1. ASSUME NEW r \in RequestId, Fail(r) PROVE TypeInv'
    BY <1>1, EndStep, TablesStay DEF Fail
  <1>2. CASE UNCHANGED vars
    BY <1>2, TablesStay, SlotsStay DEF vars
  <1> QED BY <1>1, <1>2, SearchTyped, VendorsTyped, ListingsTyped, RatingsTyped, DisputesTyped,
          AccountsTyped DEF Next

\* Every state of the catalog satisfies the invariant.
THEOREM TypeInvariance == Spec => []TypeInv
  <1>1. TypeInv /\ [Next]_vars => TypeInv'
    BY NextTyped
  <1> QED BY InitTyped, <1>1, PTL DEF Spec

\* Rows, cached pages, documents and what requests carry are of their types:
\* no commit of the catalog's services writes through an id that is not there.
THEOREM TypeCorrect == Spec => []TypeOK
  <1>1. TypeInv => TypeOK
    BY DEF TypeInv, TablesTyped, SlotsTyped, TypeOK
  <1> QED BY <1>1, TypeInvariance, PTL

-----------------------------------------------------------------------------
\* Which tables the steps of one module leave alone.
LEMMA SearchFootprint == SearchIndexNext => UNCHANGED <<suite, catalog, dispute, account>>
  BY ZenonT(120) DEF SearchIndexNext, viewPage, readRow, fill, bust, reindex, readListings,
     readListing, upsert, deleteDoc, bulkSyncListings, bulkSyncVendors, bulkSync, import,
     expire, reconcileSchema, tables

LEMMA VendorsFootprint ==
    VendorProfilesNext => UNCHANGED <<suite, listing, limit, reviews, copies, dispute>>
  BY ZenonT(120) DEF VendorProfilesNext, onboard, updateMyProfile, onboardAgain, submitKyc,
     changePlan, reviewKyc, insertProfile, insertProfileRefused, updateProfile, updateProfileRefused,
     decide, tables, catalog

LEMMA ListingsFootprint ==
    ListingsNext => UNCHANGED <<suite, profile, reviews, copies, dispute, account>>
  BY ZenonT(120) DEF ListingsNext, updatePlan, create, readLimit, countActive, insertListing,
     update, updateListing, remove, deleteListing, deleteListingBooked, changeMedia, writeMedia,
     writeRefused, recordView, tables, catalog

LEMMA RatingsFootprint ==
    RatingsNext => UNCHANGED <<suite, listing, limit, copies, dispute, account>>
  BY ZenonT(120) DEF RatingsNext, complete, createReview, postReview, postReviewRefused,
     commitRating, respond, insertResponse, insertResponseRefused, tables, catalog

LEMMA DisputesFootprint == DisputesNext => UNCHANGED <<suite, catalog, copies, account>>
  BY ZenonT(120) DEF DisputesNext, createDispute, insertDispute, insertDisputeRefused,
     updateStatus, setDispute, resolve, resolveDispute, tables

LEMMA AccountsFootprint ==
    AccountsNext => UNCHANGED <<suite, listing, limit, reviews, copies, dispute>>
  BY ZenonT(120) DEF AccountsNext, signIn, cookieExpires, getMe, readMe, reactivate,
     deactivateMe, deleteMe, updateMe, setPreferences, completeOnboarding, setOnboarded,
     claimVendorIntent, setUserRole, setRole, setUserActive, setActive, tables, catalog

LEMMA FailFootprint == (\E r \in RequestId : Fail(r)) => UNCHANGED tables
  BY DEF Fail

-----------------------------------------------------------------------------
\* The steps that write a table.
LEMMA ProfileWriters ==
    ASSUME [Next]_vars
    PROVE  \/ UNCHANGED profile
           \/ \E r \in RequestId :
                 \/ insertProfile(r) \/ decide(r) \/ commitRating(r)
                 \/ \E text \in Words : updateProfile(r, text)
                 \/ \E v \in Vendor : submitKyc(r, v) \/ changePlan(r, v)
                 \/ \E u \in User : deleteMe(r, u)
  <1>1. CASE VendorProfilesNext
    BY <1>1, ZenonT(120) DEF VendorProfilesNext, onboard, updateMyProfile, onboardAgain,
       reviewKyc, insertProfileRefused, updateProfileRefused, tables, catalog
  <1>2. CASE RatingsNext
    BY <1>2, ZenonT(120) DEF RatingsNext, complete, createReview, postReview,
       postReviewRefused, respond, insertResponse, insertResponseRefused, tables, catalog
  <1>3. CASE AccountsNext
    BY <1>3, ZenonT(120) DEF AccountsNext, signIn, cookieExpires, getMe, readMe, reactivate,
       deactivateMe, updateMe, setPreferences, completeOnboarding, setOnboarded,
       claimVendorIntent, setUserRole, setRole, setUserActive, setActive, tables, catalog
  <1> QED BY <1>1, <1>2, <1>3, SearchFootprint, ListingsFootprint, DisputesFootprint,
          FailFootprint DEF Next, vars, tables, catalog

LEMMA ListingWriters ==
    ASSUME [Next]_vars
    PROVE  \/ UNCHANGED listing
           \/ \E r \in RequestId :
                 \/ updateListing(r) \/ deleteListing(r) \/ writeMedia(r)
                 \/ \E l \in Listing, media \in BOOLEAN : insertListing(r, l, media)
  <1>1. CASE ListingsNext
    BY <1>1, ZenonT(120) DEF ListingsNext, updatePlan, create, readLimit, countActive, update,
       remove, deleteListingBooked, changeMedia, writeRefused, recordView, tables, catalog
  <1> QED BY <1>1, SearchFootprint, VendorsFootprint, RatingsFootprint, DisputesFootprint,
          AccountsFootprint, FailFootprint DEF Next, vars, tables, catalog

LEMMA ReviewWriters ==
    ASSUME [Next]_vars
    PROVE  \/ UNCHANGED reviews
           \/ \E b \in Booking, v \in Vendor : complete(b, v)
           \/ \E r \in RequestId : commitRating(r) \/ insertResponse(r)
  <1>1. CASE RatingsNext
    BY <1>1, ZenonT(120) DEF RatingsNext, createReview, postReview, postReviewRefused, respond,
       insertResponseRefused, tables, catalog
  <1> QED BY <1>1, SearchFootprint, VendorsFootprint, ListingsFootprint, DisputesFootprint,
          AccountsFootprint, FailFootprint DEF Next, vars, tables, catalog

LEMMA DisputeWriters ==
    ASSUME [Next]_vars
    PROVE  \/ UNCHANGED dispute
           \/ \E r \in RequestId :
                 \/ insertDispute(r) \/ setDispute(r)
                 \/ \E resolution \in {"client", "vendor"} : resolveDispute(r, resolution)
  <1>1. CASE DisputesNext
    BY <1>1, ZenonT(120) DEF DisputesNext, createDispute, insertDisputeRefused, updateStatus,
       resolve, tables
  <1> QED BY <1>1, SearchFootprint, VendorsFootprint, ListingsFootprint, RatingsFootprint,
          AccountsFootprint, FailFootprint DEF Next, vars, tables

LEMMA AccountWriters ==
    ASSUME [Next]_vars
    PROVE  \/ UNCHANGED account
           \/ \E r \in RequestId :
                 insertProfile(r) \/ reactivate(r) \/ setOnboarded(r) \/ setRole(r) \/ setActive(r)
           \/ \E u \in User :
                 \/ signIn(u) \/ cookieExpires(u)
                 \/ \E r \in RequestId :
                       \/ deactivateMe(r, u) \/ deleteMe(r, u)
                       \/ \E city \in BOOLEAN : updateMe(r, u, city)
  <1>1. CASE VendorProfilesNext
    BY <1>1, ZenonT(120) DEF VendorProfilesNext, onboard, updateMyProfile, onboardAgain,
       submitKyc, changePlan, reviewKyc, insertProfileRefused, updateProfile, updateProfileRefused,
       decide,
       tables
  <1>2. CASE AccountsNext
    BY <1>2, ZenonT(120) DEF AccountsNext, getMe, readMe, setPreferences, completeOnboarding,
       claimVendorIntent, setUserRole, setUserActive, tables
  <1> QED BY <1>1, <1>2, SearchFootprint, ListingsFootprint, RatingsFootprint,
          DisputesFootprint, FailFootprint DEF Next, vars, tables

LEMMA LimitWriters ==
    ASSUME [Next]_vars
    PROVE  UNCHANGED limit \/ "updatePlan" \in suite.routes
  <1>1. CASE ListingsNext
    BY <1>1, ZenonT(120) DEF ListingsNext, updatePlan, Called, create, readLimit, countActive,
       insertListing, update, updateListing, remove, deleteListing, deleteListingBooked,
       changeMedia, writeMedia, writeRefused, recordView, tables, catalog
  <1> QED BY <1>1, SearchFootprint, VendorsFootprint, RatingsFootprint, DisputesFootprint,
          AccountsFootprint, FailFootprint DEF Next, vars, tables, catalog

LEMMA SuiteStays == ASSUME [Next]_vars PROVE UNCHANGED suite
  BY SearchFootprint, VendorsFootprint, ListingsFootprint, RatingsFootprint, DisputesFootprint,
     AccountsFootprint, FailFootprint DEF Next, vars, tables

-----------------------------------------------------------------------------
\* Slot r waits for one of these steps, or may be taken by a request.
Serves(r, steps) ==
    \/ req[r].at \in steps
    \/ req[r] = Idle /\ (suite.overlap \/ \A s \in RequestId : req[s] = Idle)

Turn(steps) == \E r \in RequestId : Serves(r, steps) /\ \E s : Wait(r, s)

RatingSteps == {"postReview", "commitRating", "insertResponse"}
DisputeSteps == {"insertDispute", "setDispute", "resolveDispute"}

LEMMA Calls == ASSUME NEW r, NEW op, Called(r, op) PROVE \A steps : Serves(r, steps)
  BY DEF Called, Serves

LEMMA Returns == ASSUME NEW r, Return(r) PROVE \E s : Wait(r, s)
  BY DEF Return, Wait

LEMMA SearchTurn == SearchIndexNext => req' = req \/ Turn(CopySteps)
  <1>1. ASSUME NEW r, req[r].at \in CopySteps PROVE Serves(r, CopySteps)
    BY <1>1 DEF Serves
  <1>2. {"readRow", "fill", "bust", "reindex", "readListing", "upsert", "deleteDoc", "import"}
           \subseteq CopySteps
    BY DEF CopySteps
  <1> QED BY <1>1, <1>2, Calls, Returns, ZenonT(150) DEF Turn, SearchIndexNext, viewPage, readRow, fill,
          bust, reindex, readListings, readListing, upsert, deleteDoc, bulkSyncListings,
          bulkSyncVendors, bulkSync, import, expire, reconcileSchema

LEMMA VendorsTurn == VendorProfilesNext => req' = req \/ Turn(VendorSteps)
  <1>1. ASSUME NEW r
        PROVE  /\ req[r].at = "insertProfile" => Serves(r, VendorSteps)
               /\ req[r].at = "updateProfile" => Serves(r, VendorSteps)
               /\ req[r].at = "decide" => Serves(r, VendorSteps)
    BY DEF Serves, VendorSteps
  <1> QED BY <1>1, Calls, Returns, ZenonT(150) DEF Turn, VendorSteps, VendorProfilesNext,
          onboard, updateMyProfile, onboardAgain,
          submitKyc, changePlan, reviewKyc, insertProfile, insertProfileRefused, updateProfile,
          updateProfileRefused, decide

LEMMA ListingsTurn == ListingsNext => req' = req \/ Turn(ListingSteps)
  <1>1. ASSUME NEW r
        PROVE  /\ req[r].at = "readLimit" => Serves(r, ListingSteps)
               /\ req[r].at = "countActive" => Serves(r, ListingSteps)
               /\ req[r].at = "insertListing" => Serves(r, ListingSteps)
               /\ req[r].at = "updateListing" => Serves(r, ListingSteps)
               /\ req[r].at = "deleteListing" => Serves(r, ListingSteps)
               /\ req[r].at = "insertMedia" => Serves(r, ListingSteps)
               /\ req[r].at = "deleteMedia" => Serves(r, ListingSteps)
    BY DEF Serves, ListingSteps
  <1> QED BY <1>1, Calls, Returns, ZenonT(150) DEF Turn, ListingSteps, ListingsNext,
          updatePlan, create, readLimit, countActive,
          insertListing, update, updateListing, remove, deleteListing, deleteListingBooked,
          changeMedia, writeMedia, writeRefused, recordView

LEMMA RatingsTurn == RatingsNext => req' = req \/ Turn(RatingSteps)
  <1>1. ASSUME NEW r
        PROVE  /\ req[r].at = "postReview" => Serves(r, RatingSteps)
               /\ req[r].at = "commitRating" => Serves(r, RatingSteps)
               /\ req[r].at = "insertResponse" => Serves(r, RatingSteps)
    BY DEF Serves, RatingSteps
  <1> QED BY <1>1, Calls, Returns, ZenonT(150) DEF Turn, RatingSteps, RatingsNext,
          complete, createReview, postReview,
          postReviewRefused, commitRating, respond, insertResponse, insertResponseRefused

LEMMA DisputesTurn == DisputesNext => req' = req \/ Turn(DisputeSteps)
  <1>1. ASSUME NEW r
        PROVE  /\ req[r].at = "insertDispute" => Serves(r, DisputeSteps)
               /\ req[r].at = "setDispute" => Serves(r, DisputeSteps)
               /\ req[r].at = "resolveDispute" => Serves(r, DisputeSteps)
    BY DEF Serves, DisputeSteps
  <1> QED BY <1>1, Calls, Returns, ZenonT(150) DEF Turn, DisputeSteps, DisputesNext,
          createDispute, insertDispute,
          insertDisputeRefused, updateStatus, setDispute, resolve, resolveDispute

LEMMA AccountsTurn == AccountsNext => req' = req \/ Turn(UserCarriers)
  <1>1. ASSUME NEW r
        PROVE  /\ req[r].at = "readMe" => Serves(r, UserCarriers)
               /\ req[r].at = "reactivate" => Serves(r, UserCarriers)
               /\ req[r].at = "setOnboarded" => Serves(r, UserCarriers)
               /\ req[r].at = "setRole" => Serves(r, UserCarriers)
               /\ req[r].at = "setActive" => Serves(r, UserCarriers)
    BY DEF Serves, UserCarriers
  <1> QED BY <1>1, Calls, Returns, ZenonT(150) DEF Turn, UserCarriers, AccountsNext,
          signIn, cookieExpires, CalledBy, getMe,
          readMe, reactivate, deactivateMe, deleteMe, updateMe, setPreferences,
          completeOnboarding, setOnboarded, claimVendorIntent, setUserRole, setRole,
          setUserActive, setActive

\* At most one slot moves: one in use, or one that may be taken.
LEMMA TurnTaken ==
    ASSUME [Next]_vars
    PROVE  req' = req \/ \E r \in RequestId :
                            /\ \E s : Wait(r, s)
                            /\ \/ req[r] # Idle \/ suite.overlap
                               \/ \A s \in RequestId : req[s] = Idle
  <1>1. ASSUME NEW steps, "idle" \notin steps, Turn(steps)
        PROVE  \E r \in RequestId :
                  /\ \E s : Wait(r, s)
                  /\ \/ req[r] # Idle \/ suite.overlap
                     \/ \A s \in RequestId : req[s] = Idle
    <2>1. PICK r \in RequestId : Serves(r, steps) /\ \E s : Wait(r, s)
      BY <1>1 DEF Turn
    <2>2. req[r] = Idle => req[r].at \notin steps
      BY <1>1 DEF Idle
    <2> QED BY <2>1, <2>2 DEF Serves
  <1>2. /\ "idle" \notin CopySteps /\ "idle" \notin VendorSteps /\ "idle" \notin ListingSteps
        /\ "idle" \notin RatingSteps /\ "idle" \notin DisputeSteps /\ "idle" \notin UserCarriers
    BY DEF CopySteps, VendorSteps, ListingSteps, RatingSteps, DisputeSteps, UserCarriers
  <1>3. ASSUME NEW r \in RequestId, Fail(r) PROVE (\E s : Wait(r, s)) /\ req[r] # Idle
    BY <1>3, Returns DEF Fail
  <1> QED BY <1>1, <1>2, <1>3, SearchTurn, VendorsTurn, ListingsTurn, RatingsTurn, DisputesTurn,
          AccountsTurn DEF Next, vars

-----------------------------------------------------------------------------
\* A step leaves slot q alone, or takes it to one of these steps with no new
\* document to write.
Goes(q, steps) ==
    \/ req'[q] = req[q]
    \/ req'[q].at \in steps \cup {"idle"} /\ req'[q].todo \subseteq req[q].todo

LEMMA ReqTyped == TypeInv => req \in [RequestId -> Slot]
  BY DEF TypeInv, SlotsTyped

LEMMA EndsGo ==
    ASSUME TypeInv, NEW r \in RequestId, Return(r), NEW q \in RequestId, NEW steps
    PROVE  Goes(q, steps)
  BY ReqTyped DEF Return, Goes, Idle

LEMMA DisputesGo ==
    ASSUME TypeInv, DisputesNext, NEW q \in RequestId
    PROVE  Goes(q, {"insertDispute", "setDispute", "resolveDispute"})
  <1>1. ASSUME NEW r \in RequestId, NEW b \in Booking,
               \/ createDispute(r, b) \/ resolve(r, b)
               \/ \E to \in DisputeStatus : updateStatus(r, b, to)
        PROVE  Goes(q, {"insertDispute", "setDispute", "resolveDispute"})
    BY <1>1, ReqTyped DEF createDispute, resolve, updateStatus, Wait, Goes, Idle
  <1> QED BY <1>1, EndsGo DEF DisputesNext, insertDispute, insertDisputeRefused, setDispute,
          resolveDispute

LEMMA AccountsGo ==
    ASSUME TypeInv, AccountsNext, NEW q \in RequestId
    PROVE  Goes(q, UserCarriers)
  <1>1. ASSUME NEW r \in RequestId, NEW u \in User,
               \/ getMe(r, u) \/ setPreferences(r, u) \/ completeOnboarding(r, u)
               \/ claimVendorIntent(r, u)
        PROVE  Goes(q, UserCarriers)
    BY <1>1, ReqTyped DEF getMe, setPreferences, completeOnboarding, claimVendorIntent, Wait,
       Goes, Idle, UserCarriers
  <1>2. ASSUME NEW r \in RequestId, NEW u \in User,
               \/ \E city \in BOOLEAN : updateMe(r, u, city)
               \/ \E role \in Role : setUserRole(r, u, role)
               \/ \E isActive \in BOOLEAN : setUserActive(r, u, isActive)
        PROVE  Goes(q, UserCarriers)
    BY ZenonT(60), <1>2, ReqTyped
       DEF updateMe, setUserRole, setUserActive, Wait, Goes, Idle, UserCarriers
  <1>3. ASSUME NEW r \in RequestId, readMe(r) PROVE Goes(q, UserCarriers)
    <2>1. CASE Wait(r, [req[r] EXCEPT !.at = "reactivate", !.flag = account[req[r].u].deleted])
      BY <2>1, ReqTyped DEF Wait, Goes, Slot, UserCarriers
    <2> QED BY <1>3, <2>1, EndsGo DEF readMe
  <1>4. ASSUME NEW r \in RequestId, setOnboarded(r) PROVE Goes(q, UserCarriers)
    BY <1>4, ReqTyped DEF setOnboarded, Wait, Goes, Slot, UserCarriers
  <1>5. ASSUME req' = req PROVE Goes(q, UserCarriers)
    BY <1>5 DEF Goes
  <1> QED BY <1>1, <1>2, <1>3, <1>4, <1>5, EndsGo DEF AccountsNext, signIn, cookieExpires,
          deactivateMe, deleteMe, reactivate, setRole, setActive

LEMMA RatingsGo ==
    ASSUME TypeInv, RatingsNext, NEW q \in RequestId
    PROVE  Goes(q, {"postReview", "commitRating", "bust", "insertResponse"})
  <1> DEFINE steps == {"postReview", "commitRating", "bust", "insertResponse"}
  <1>1. ASSUME NEW r \in RequestId, NEW b \in Booking, createReview(r, b) \/ respond(r, b)
        PROVE  Goes(q, steps)
    BY <1>1, ReqTyped DEF createReview, respond, Wait, Goes, Idle
  <1>2. ASSUME NEW r \in RequestId, postReview(r) \/ commitRating(r) PROVE Goes(q, steps)
    <2>1. ASSUME NEW n, Wait(r, [req[r] EXCEPT !.at = "commitRating", !.n = n])
          PROVE  Goes(q, steps)
      BY <2>1, ReqTyped DEF Wait, Goes, Slot
    <2>2. CASE Wait(r, [req[r] EXCEPT !.at = "bust", !.n = 0])
      BY <2>2, ReqTyped DEF Wait, Goes, Slot
    <2> QED BY <1>2, <2>1, <2>2 DEF postReview, commitRating
  <1>3. ASSUME req' = req PROVE Goes(q, steps)
    BY <1>3 DEF Goes
  <1> HIDE DEF steps
  <1>4. Goes(q, steps)
    BY <1>1, <1>2, <1>3, EndsGo DEF RatingsNext, complete, postReviewRefused, insertResponse,
       insertResponseRefused
  <1> QED BY <1>4 DEF steps

LEMMA ListingsGo ==
    ASSUME TypeInv, ListingsNext, NEW q \in RequestId
    PROVE  Goes(q, ListingSteps \cup {"bust"})
  <1> DEFINE steps == ListingSteps \cup {"bust"}
  <1>1. ASSUME NEW r \in RequestId, NEW v \in Vendor, create(r, v) PROVE Goes(q, steps)
    BY <1>1, ReqTyped DEF create, Wait, Goes, Idle, ListingSteps
  <1>2. ASSUME NEW r \in RequestId, readLimit(r) PROVE Goes(q, steps)
    <2>1. CASE Wait(r, [req[r] EXCEPT !.at = "insertListing"])
      BY <2>1, ReqTyped DEF Wait, Goes, Slot, ListingSteps
    <2>2. CASE Wait(r, [req[r] EXCEPT !.at = "countActive", !.n = limit])
      BY <2>2, ReqTyped DEF Wait, Goes, Slot, ListingSteps
    <2> QED BY <1>2, <2>1, <2>2, EndsGo DEF readLimit
  <1>3. ASSUME NEW r \in RequestId, countActive(r) PROVE Goes(q, steps)
    <2>1. CASE Wait(r, [req[r] EXCEPT !.at = "insertListing", !.n = 0])
      BY <2>1, ReqTyped DEF Wait, Goes, Slot, ListingSteps
    <2> QED BY <1>3, <2>1, EndsGo DEF countActive
  <1>4. ASSUME NEW r \in RequestId, NEW l \in Listing, NEW media \in BOOLEAN,
               insertListing(r, l, media)
        PROVE  Goes(q, steps)
    BY <1>4, ReqTyped DEF insertListing, Wait, Goes, Idle
  <1>5. ASSUME NEW r \in RequestId, NEW l \in Listing,
               NEW to \in {"active", "inactive"}, update(r, l, to)
        PROVE  Goes(q, steps)
    BY <1>5, ReqTyped DEF update, Wait, Goes, Idle, ListingSteps
  <1>6. ASSUME NEW r \in RequestId, NEW l \in Listing, remove(r, l) \/ recordView(r, l)
        PROVE  Goes(q, steps)
    BY <1>6, ReqTyped DEF remove, recordView, Wait, Goes, Idle, ListingSteps
  <1>7. ASSUME NEW r \in RequestId, NEW l \in Listing, changeMedia(r, l) PROVE Goes(q, steps)
    BY <1>7, ReqTyped DEF changeMedia, Wait, Goes, Idle, ListingSteps
  <1>8. ASSUME NEW r \in RequestId, updateListing(r) \/ deleteListing(r) \/ writeMedia(r)
        PROVE  Goes(q, steps)
    <2>1. CASE Wait(r, [req[r] EXCEPT !.at = "bust", !.after = "readListing", !.seen = NULL])
      BY <2>1, ReqTyped DEF Wait, Goes, Slot
    <2>2. CASE Wait(r, [req[r] EXCEPT !.at = "bust"])
      BY <2>2, ReqTyped DEF Wait, Goes, Slot
    <2> QED BY <1>8, <2>1, <2>2 DEF updateListing, deleteListing, writeMedia
  <1>9. ASSUME req' = req PROVE Goes(q, steps)
    BY <1>9 DEF Goes
  <1> HIDE DEF steps
  <1>10. Goes(q, steps)
    BY <1>1, <1>2, <1>3, <1>4, <1>5, <1>6, <1>7, <1>8, <1>9, EndsGo
       DEF ListingsNext, updatePlan, deleteListingBooked, writeRefused
  <1> QED BY <1>10 DEF steps

\* Likewise, but the slot may have read documents from the tables.
Fresh(entry) ==
    \/ \E v \in Vendor : entry = VendorDoc(v)
    \/ \E l \in Listing : listing[l].status # "none" /\ entry = ListingDoc(l)
Reads(q, steps) ==
    \/ req'[q] = req[q]
    \/ /\ req'[q].at \in steps \cup {"idle"}
       /\ \A entry \in req'[q].todo : entry \in req[q].todo \/ Fresh(entry)

LEMMA GoesReads ==
    ASSUME NEW q, NEW steps, Goes(q, steps) PROVE Reads(q, steps)
  BY DEF Goes, Reads

\* A slot that begins anew, and one that goes on.
LEMMA StepReads ==
    ASSUME TypeInv, NEW r \in RequestId, NEW s, Wait(r, s), NEW steps, s.at \in steps,
           \A entry \in s.todo : entry \in req[r].todo \/ Fresh(entry), NEW q \in RequestId
    PROVE  Reads(q, steps)
  BY ReqTyped DEF Wait, Reads

VendorSlots == VendorSteps \cup {"bust", "upsert"}

LEMMA VendorsGo ==
    ASSUME TypeInv, VendorProfilesNext, NEW q \in RequestId
    PROVE  Reads(q, VendorSlots)
  <1>1. ASSUME NEW r \in RequestId, NEW v \in Vendor, NEW s \in Slug, onboard(r, v, s)
        PROVE  Reads(q, VendorSlots)
    BY <1>1, ReqTyped DEF onboard, Wait, Reads, Idle, VendorSlots, VendorSteps
  <1>2. ASSUME NEW r \in RequestId, NEW v \in Vendor, NEW s \in Slug, updateMyProfile(r, v, s)
        PROVE  Reads(q, VendorSlots)
    BY <1>2, ReqTyped DEF updateMyProfile, Wait, Reads, Idle, VendorSlots, VendorSteps
  <1>3. ASSUME NEW r \in RequestId, NEW v \in Vendor, onboardAgain(r, v)
        PROVE  Reads(q, VendorSlots)
    BY <1>3, ReqTyped DEF onboardAgain, Wait, Reads, Idle, VendorSlots, VendorSteps
  <1>4. ASSUME NEW r \in RequestId, NEW v \in Vendor, NEW verdict \in Verdict,
               reviewKyc(r, v, verdict)
        PROVE  Reads(q, VendorSlots)
    BY <1>4, ReqTyped DEF reviewKyc, Wait, Reads, Idle, VendorSlots, VendorSteps
  <1>5. ASSUME NEW r \in RequestId, insertProfile(r) PROVE Reads(q, VendorSlots)
    <2> DEFINE s == [req[r] EXCEPT !.at = "upsert", !.todo = {VendorDoc(req[r].v)}]
    <2>1. req[r].v \in Vendor /\ req[r] \in Slot
      BY <1>5, SlotHolds DEF insertProfile, Carries, VendorCarriers
    <2>2. s.at = "upsert" /\ s.todo = {VendorDoc(req[r].v)}
      BY <2>1 DEF Slot
    <2>3. Wait(r, s)
      BY <1>5 DEF insertProfile
    <2> HIDE DEF s
    <2> QED BY <2>1, <2>2, <2>3, StepReads DEF Fresh, VendorSlots
  <1>6. ASSUME NEW r \in RequestId, NEW text, updateProfile(r, text)
        PROVE  Reads(q, VendorSlots)
    <2> DEFINE at == IF req[r].slug = NULL THEN "upsert" ELSE "bust"
               after == IF req[r].slug = NULL THEN "idle" ELSE "upsert"
               s == [req[r] EXCEPT !.at = at, !.after = after, !.todo = {VendorDoc(req[r].v)}]
    <2>1. req[r].v \in Vendor /\ req[r] \in Slot
      BY <1>6, SlotHolds DEF updateProfile, Carries, VendorCarriers
    <2>2. s.at \in VendorSlots /\ s.todo = {VendorDoc(req[r].v)}
      BY <2>1 DEF Slot, VendorSlots
    <2>3. Wait(r, s)
      BY <1>6 DEF updateProfile
    <2> HIDE DEF s
    <2> QED BY <2>1, <2>2, <2>3, StepReads DEF Fresh
  <1>7. ASSUME NEW r \in RequestId, decide(r) PROVE Reads(q, VendorSlots)
    <2>1. PICK after : Wait(r, [req[r] EXCEPT !.at = "bust", !.after = after])
      BY <1>7 DEF decide
    <2> QED BY <2>1, ReqTyped DEF Wait, Reads, Slot, VendorSlots
  <1>8. ASSUME req' = req PROVE Reads(q, VendorSlots)
    BY <1>8 DEF Reads
  <1> QED BY <1>1, <1>2, <1>3, <1>4, <1>5, <1>6, <1>7, <1>8, EndsGo, GoesReads
          DEF VendorProfilesNext, submitKyc, changePlan, insertProfileRefused, updateProfileRefused

LEMMA SearchGo ==
    ASSUME TypeInv, SearchIndexNext, NEW q \in RequestId
    PROVE  Reads(q, CopySteps)
  <1>1. ASSUME NEW r \in RequestId, NEW k \in Key, viewPage(r, k) PROVE Reads(q, CopySteps)
    BY <1>1, ReqTyped DEF viewPage, Wait, Reads, Idle, CopySteps
  <1>2. ASSUME NEW r \in RequestId, readRow(r) PROVE Reads(q, CopySteps)
    <2>1. ASSUME NEW row, Wait(r, [req[r] EXCEPT !.at = "fill", !.value = row])
          PROVE  Reads(q, CopySteps)
      BY <2>1, ReqTyped DEF Wait, Reads, Slot, CopySteps
    <2> QED BY <1>2, <2>1, EndsGo, GoesReads DEF readRow
  <1>3. ASSUME NEW r \in RequestId, bust(r) PROVE Reads(q, CopySteps)
    <2>1. CASE req[r].after # "idle" /\ Wait(r, [req[r] EXCEPT !.at = req[r].after, !.after = "idle", !.keys = {}])
      <3>1. req[r].after \in CopySteps
        BY <2>1, ReqTyped DEF Slot, Follower, CopySteps
      <3> QED BY <2>1, <3>1, ReqTyped DEF Wait, Reads, Slot
    <2> QED BY <1>3, <2>1, EndsGo, GoesReads DEF bust
  <1>4. ASSUME NEW r \in RequestId, reindex(r) PROVE Reads(q, CopySteps)
    <2> DEFINE s == [req[r] EXCEPT !.at = "upsert", !.after = "readListing",
                                   !.todo = {VendorDoc(req[r].v)}]
    <2>1. req[r].v \in Vendor /\ req[r] \in Slot
      BY <1>4, SlotHolds DEF reindex, Carries, VendorCarriers
    <2>2. s.at \in CopySteps /\ s.todo = {VendorDoc(req[r].v)}
      BY <2>1 DEF Slot, CopySteps
    <2>3. Wait(r, s)
      BY <1>4 DEF reindex
    <2> HIDE DEF s
    <2> QED BY <2>1, <2>2, <2>3, StepReads DEF Fresh
  <1>5. ASSUME NEW r \in RequestId, readListings(r) PROVE Reads(q, CopySteps)
    <2> DEFINE docs == {ListingDoc(l) : l \in ActiveOf(req[r].v)}
               s == [req[r] EXCEPT !.at = "upsert", !.v = NULL, !.todo = docs]
    <2>1. \A entry \in docs : Fresh(entry)
      BY DEF ActiveOf, Fresh
    <2>2. Return(r) \/ Wait(r, s)
      BY <1>5 DEF readListings
    <2> HIDE DEF docs
    <2>3. s.at \in CopySteps /\ s.todo = docs
      BY ReqTyped DEF Slot, CopySteps
    <2> HIDE DEF s
    <2> QED BY <2>1, <2>2, <2>3, StepReads, EndsGo, GoesReads
  <1>6. ASSUME NEW r \in RequestId, readListing(r) PROVE Reads(q, CopySteps)
    <2> DEFINE s == [req[r] EXCEPT !.at = "upsert", !.todo = {ListingDoc(req[r].l)}]
    <2>1. Exists(req[r].l) => Fresh(ListingDoc(req[r].l))
      <3>1. req[r].l \in Listing
        BY <1>6, SlotHolds, CatalogAssumption DEF readListing, Carries
      <3> QED BY <3>1 DEF Exists, Fresh
    <2>2. Return(r) \/ (Exists(req[r].l) /\ Wait(r, s))
      BY <1>6 DEF readListing
    <2>3. s.at \in CopySteps /\ s.todo = {ListingDoc(req[r].l)}
      BY ReqTyped DEF Slot, CopySteps
    <2> HIDE DEF s
    <2> QED BY <2>1, <2>2, <2>3, StepReads, EndsGo, GoesReads
  <1>7. ASSUME NEW r \in RequestId, NEW entry, upsert(r, entry) PROVE Reads(q, CopySteps)
    <2>1. CASE Wait(r, [req[r] EXCEPT !.todo = @ \ {entry}])
      BY <1>7, <2>1, ReqTyped DEF upsert, Wait, Reads, Slot, CopySteps
    <2>2. CASE req[r].after # "idle" /\ Wait(r, [req[r] EXCEPT !.at = req[r].after, !.after = "idle", !.todo = {}])
      <3>1. req[r].after \in CopySteps
        BY <2>2, ReqTyped DEF Slot, Follower, CopySteps
      <3> QED BY <2>2, <3>1, ReqTyped DEF Wait, Reads, Slot
    <2> QED BY <1>7, <2>1, <2>2, EndsGo, GoesReads DEF upsert
  <1>8. ASSUME NEW r \in RequestId, NEW docs, bulkSync(r, docs), \A entry \in docs : Fresh(entry)
        PROVE  Reads(q, CopySteps)
    BY <1>8, ReqTyped DEF bulkSync, Wait, Reads, Idle, CopySteps
  <1>9. ASSUME NEW r \in RequestId, bulkSyncListings(r) \/ bulkSyncVendors(r)
        PROVE  Reads(q, CopySteps)
    BY <1>8, <1>9 DEF bulkSyncListings, bulkSyncVendors, Fresh
  <1>10. ASSUME req' = req PROVE Reads(q, CopySteps)
    BY <1>10 DEF Reads
  <1> QED BY <1>1, <1>2, <1>3, <1>4, <1>5, <1>6, <1>7, <1>9, <1>10, EndsGo, GoesReads
          DEF SearchIndexNext, fill, deleteDoc, import, expire, reconcileSchema

LEMMA FailGo ==
    ASSUME TypeInv, NEW r \in RequestId, Fail(r), NEW q \in RequestId, NEW steps
    PROVE  Goes(q, steps)
  BY EndsGo DEF Fail

\* Whatever a step does, the documents a slot is to write it had, or read now.
LEMMA TodoStep ==
    ASSUME TypeInv, [Next]_vars, NEW q \in RequestId, NEW entry \in req'[q].todo
    PROVE  entry \in req[q].todo \/ Fresh(entry)
  <1>1. \A steps : Reads(q, steps) => entry \in req[q].todo \/ Fresh(entry)
    BY DEF Reads
  <1>2. CASE UNCHANGED vars
    BY <1>2 DEF vars
  <1> QED BY <1>1, <1>2, SearchGo, VendorsGo, ListingsGo, RatingsGo, DisputesGo, AccountsGo, FailGo,
          GoesReads DEF Next

-----------------------------------------------------------------------------
IndexKept(d) ==
    /\ index[d] # NULL
    /\ \/ index'[d] = index[d]
       \/ drift /\ ~drift' /\ index'[d] = [index[d] EXCEPT !.verified = FALSE]

IndexWritten(r, d, doc) ==
    /\ req[r].at \in {"upsert", "import"} /\ <<d, doc>> \in req[r].todo
    /\ Steps(r) /\ index'[d] = doc

LEMMA UpsertStep ==
    ASSUME TypeInv, NEW r \in RequestId, NEW entry, upsert(r, entry),
           NEW d \in DocId, index'[d] # NULL
    PROVE  IndexKept(d) \/ \E doc \in Doc : IndexWritten(r, d, doc)
  <1>0. req[r] \in Slot /\ index \in [DocId -> Doc \cup {NULL}] /\ entry \in req[r].todo
        /\ req[r].at = "upsert"
    BY SlotHolds DEF upsert, TypeInv, TablesTyped
  <1>1. entry[1] \in DocId /\ entry[2] \in Doc /\ entry = <<entry[1], entry[2]>>
    BY <1>0 DEF Slot, Entry
  <1>2. CASE d # entry[1]
    BY <1>0, <1>1, <1>2 DEF upsert, IndexKept
  <1>3. CASE d = entry[1]
    <2>1. index'[d] = entry[2]
      BY <1>0, <1>1, <1>3 DEF upsert
    <2>2. Steps(r)
      <3>1. CASE Wait(r, [req[r] EXCEPT !.todo = @ \ {entry}])
        <4>1. req'[r].todo = req[r].todo \ {entry}
          BY <1>0, <3>1, ReqTyped DEF Wait, Slot
        <4> QED BY <1>0, <4>1 DEF Steps
      <3>2. CASE req[r].after # "idle"
                 /\ Wait(r, [req[r] EXCEPT !.at = req[r].after, !.after = "idle", !.todo = {}])
        <4>1. req'[r].at = req[r].after /\ req[r].after = "readListing"
          BY <1>0, <3>2, SlotHolds, ReqTyped DEF Wait, Slot, Carries
        <4> QED BY <1>0, <4>1 DEF Steps
      <3>3. CASE Return(r)
        BY <1>0, <3>3, ReqTyped DEF Return, Idle, Steps
      <3> QED BY <3>1, <3>2, <3>3 DEF upsert
    <2> QED BY <1>0, <1>1, <1>3, <2>1, <2>2 DEF IndexWritten
  <1> QED BY <1>2, <1>3

LEMMA ImportStep ==
    ASSUME TypeInv, NEW r \in RequestId, import(r), NEW d \in DocId, index'[d] # NULL
    PROVE  IndexKept(d) \/ \E doc \in Doc : IndexWritten(r, d, doc)
  <1>0. req[r] \in Slot /\ req[r].at = "import"
    BY SlotHolds DEF import
  <1>1. CASE ~\E entry \in req[r].todo : entry[1] = d
    BY <1>1 DEF import, IndexKept
  <1>2. CASE \E entry \in req[r].todo : entry[1] = d
    <2> DEFINE entry == CHOOSE entry \in req[r].todo : entry[1] = d
    <2>1. entry \in req[r].todo /\ entry[1] = d
      BY <1>2
    <2>2. index'[d] = entry[2]
      BY <1>2 DEF import
    <2> HIDE DEF entry
    <2>3. entry[2] \in Doc /\ entry = <<d, entry[2]>>
      BY <1>0, <2>1 DEF Slot, Entry
    <2>4. Steps(r)
      BY <1>0, ReqTyped DEF import, Return, Idle, Steps
    <2> QED BY <1>0, <2>1, <2>2, <2>3, <2>4 DEF IndexWritten
  <1> QED BY <1>1, <1>2

\* A document that is there after a step was there before, or a request that
\* held it has written it.
LEMMA IndexStep ==
    ASSUME TypeInv, [Next]_vars, NEW d \in DocId, index'[d] # NULL
    PROVE  IndexKept(d) \/ \E r \in RequestId, doc \in Doc : IndexWritten(r, d, doc)
  <1>0. index \in [DocId -> Doc \cup {NULL}]
    BY DEF TypeInv, TablesTyped
  <1>1. CASE UNCHANGED index
    BY <1>1 DEF IndexKept
  <1>2. CASE reconcileSchema
    BY <1>0, <1>2 DEF reconcileSchema, IndexKept
  <1>3. ASSUME NEW r \in RequestId, deleteDoc(r) PROVE IndexKept(d)
    BY <1>0, <1>3 DEF deleteDoc, IndexKept
  <1>4. CASE SearchIndexNext
    <2>1. \/ UNCHANGED index \/ reconcileSchema
          \/ \E r \in RequestId :
                \/ deleteDoc(r) \/ import(r)
                \/ \E entry \in req[r].todo : upsert(r, entry)
      BY <1>4, ZenonT(30) DEF SearchIndexNext, viewPage, readRow, fill, bust, reindex, readListings,
         readListing, bulkSyncListings, bulkSyncVendors, bulkSync, expire, tables, copies
    <2> QED BY <1>1, <1>2, <1>3, <2>1, UpsertStep, ImportStep
  <1> QED BY <1>1, <1>4, VendorsFootprint, ListingsFootprint, RatingsFootprint,
          DisputesFootprint, AccountsFootprint, FailFootprint DEF Next, vars, tables, copies

=============================================================================
