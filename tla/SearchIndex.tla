---------------------------- MODULE SearchIndex -----------------------------
(***************************************************************************)
(* The two copies of the catalog.  RedisService: a page read through the   *)
(* cache, and the deletion of keys after a write.  TypesenseSyncService    *)
(* and SearchService: documents upserted after a write or all at once, and *)
(* what a search finds among them.                                         *)
(***************************************************************************)
EXTENDS CatalogTables

Subject(k) ==
    IF k[1] = "vendor" THEN {k[2]}
    ELSE {v \in Vendor : k[1] = "slug" /\ profile[v].slug = k[2]}

\* What the database says a key should hold.
Current(k) ==
    IF k[1] = "listing"
    THEN IF Exists(k[2]) THEN ListingView(k[2]) ELSE NULL
    ELSE IF \E v \in Subject(k) : Onboarded(v)
    THEN ProfileView(CHOOSE v \in Subject(k) : Onboarded(v)) ELSE NULL

-----------------------------------------------------------------------------
\* getPublicProfile, getBySlug, findOne: a miss, then the row, then setJson.
viewPage(r, k) ==
    /\ Called(r, "view")
    /\ cache[k] = NULL
    /\ Wait(r, [Idle EXCEPT !.at = "readRow", !.keys = {k}])
    /\ UNCHANGED tables

readRow(r) ==
    /\ req[r].at = "readRow"
    /\ \E k \in req[r].keys :
          IF Current(k) = NULL THEN Return(r)
          ELSE Wait(r, [req[r] EXCEPT !.at = "fill", !.value = Current(k)])
    /\ UNCHANGED tables

fill(r) ==
    /\ req[r].at = "fill"
    /\ cache' = [k \in Key |-> IF k \in req[r].keys THEN req[r].value ELSE cache[k]]
    /\ Return(r)
    /\ UNCHANGED <<suite, catalog, index, drift, dispute, account>>

\* The time to live runs out.
expire(k) ==
    /\ "view" \in suite.routes
    /\ cache[k] # NULL
    /\ cache' = [cache EXCEPT ![k] = NULL]
    /\ UNCHANGED <<suite, catalog, index, drift, dispute, account, req>>

\* redis.del of the keys a write made stale; then the request answers, and
\* what it does to the index is nobody's to wait for.
bust(r) ==
    /\ req[r].at = "bust"
    /\ cache' = [k \in Key |-> IF k \in req[r].keys THEN NULL ELSE cache[k]]
    /\ IF req[r].after = "idle" THEN Return(r)
       ELSE Wait(r, [req[r] EXCEPT !.at = req[r].after, !.after = "idle", !.keys = {}])
    /\ UNCHANGED <<suite, catalog, index, drift, dispute, account>>

-----------------------------------------------------------------------------
\* Mutant: an approval reindexes the vendor alone.
reindexVendorOnly(r) ==
    /\ req[r].at = "reindex"
    /\ Wait(r, [req[r] EXCEPT !.at = "upsert", !.todo = {VendorDoc(req[r].v)}])
    /\ UNCHANGED tables

\* reindexVendorAndListings: the vendor is read and upserted, then its active
\* listings are read, and upserted one by one.
reindex(r) ==
    /\ req[r].at = "reindex"
    /\ Wait(r, [req[r] EXCEPT !.at = "upsert", !.after = "readListing",
                              !.todo = {VendorDoc(req[r].v)}])
    /\ UNCHANGED tables

readListings(r) ==
    /\ req[r].at = "readListing" /\ req[r].v # NULL
    /\ LET docs == {ListingDoc(l) : l \in ActiveOf(req[r].v)} IN
       IF docs = {} THEN Return(r)
       ELSE Wait(r, [req[r] EXCEPT !.at = "upsert", !.v = NULL, !.todo = docs])
    /\ UNCHANGED tables

\* syncListingToSearch reads the listing with its vendor, if it still exists.
readListing(r) ==
    /\ req[r].at = "readListing" /\ req[r].v = NULL
    /\ IF Exists(req[r].l)
       THEN Wait(r, [req[r] EXCEPT !.at = "upsert", !.todo = {ListingDoc(req[r].l)}])
       ELSE Return(r)
    /\ UNCHANGED tables

\* indexVendor and indexListing.
upsert(r, entry) ==
    /\ req[r].at = "upsert"
    /\ entry \in req[r].todo
    /\ index' = [index EXCEPT ![entry[1]] = entry[2]]
    /\ IF req[r].todo # {entry}
       THEN Wait(r, [req[r] EXCEPT !.todo = @ \ {entry}])
       ELSE IF req[r].after = "idle" THEN Return(r)
       ELSE Wait(r, [req[r] EXCEPT !.at = req[r].after, !.after = "idle", !.todo = {}])
    /\ UNCHANGED <<suite, catalog, cache, drift, dispute, account>>

deleteDoc(r) ==
    /\ req[r].at = "deleteDoc"
    /\ index' = [index EXCEPT ![req[r].l] = NULL]
    /\ Return(r)
    /\ UNCHANGED <<suite, catalog, cache, drift, dispute, account>>

-----------------------------------------------------------------------------
\* An administrator starts bulkSyncListings, which takes the active listings,
\* and bulkSyncVendors, which takes all vendors, side by side; neither deletes
\* a document.
bulkSync(r, docs) ==
    /\ Called(r, "bulkSync")
    /\ docs # {}
    /\ Wait(r, [Idle EXCEPT !.at = "import", !.todo = docs])
    /\ UNCHANGED tables

bulkSyncListings(r) ==
    bulkSync(r, {ListingDoc(l) : l \in {m \in Listing : listing[m].status = "active"}})

bulkSyncVendors(r) ==
    bulkSync(r, {VendorDoc(v) : v \in {w \in Vendor : Onboarded(w)}})

import(r) ==
    /\ req[r].at = "import"
    /\ index' = [d \in DocId |->
                   IF \E entry \in req[r].todo : entry[1] = d
                   THEN (CHOOSE entry \in req[r].todo : entry[1] = d)[2] ELSE index[d]]
    /\ Return(r)
    /\ UNCHANGED <<suite, catalog, cache, drift, dispute, account>>

\* The next start of a process adds the missing field; the documents there
\* are have no value for it until they are indexed again.
reconcileSchema ==
    /\ drift
    /\ drift' = FALSE
    /\ index' = [d \in DocId |-> IF d \in Listing /\ index[d] # NULL
                                 THEN [index[d] EXCEPT !.verified = FALSE] ELSE index[d]]
    /\ UNCHANGED <<suite, catalog, cache, dispute, account, req>>

\* Mutant: vendorVerified is not among the filters.
FoundActive(d) == index[d] # NULL /\ index[d].active

\* What searchListings and searchVendors can return.  A search on a collection
\* without the field is retried without that filter.
Found(d) ==
    /\ index[d] # NULL
    /\ index[d].active
    /\ index[d].verified \/ (drift /\ d \in Listing)

\* What the recommendations can return.  For listings the same filters, with no
\* second try; for vendors, those with an active listing in the database.
Recommended(d) ==
    /\ index[d] # NULL
    /\ index[d].verified
    /\ IF d \in Listing THEN index[d].active /\ ~drift ELSE ActiveOf(d) # {}

\* What VendorsService.browse and ListingsService.browse read off the tables.
browseVendors == {v \in Vendor : profile[v].verified}
browseListings ==
    {l \in Listing : listing[l].status = "active" /\ listing[l].vendor \in browseVendors}

SearchIndexNext ==
    \/ \E r \in RequestId :
        \/ \E k \in Key : viewPage(r, k)
        \/ readRow(r) \/ fill(r) \/ bust(r)
        \/ reindex(r) \/ readListings(r) \/ readListing(r)
        \/ \E entry \in req[r].todo : upsert(r, entry)
        \/ deleteDoc(r)
        \/ bulkSyncListings(r) \/ bulkSyncVendors(r) \/ import(r)
    \/ \E k \in Key : expire(k)
    \/ reconcileSchema
=============================================================================
