------------------------------ MODULE Catalog -------------------------------
(***************************************************************************)
(* What clients browse and find, and what administrators decide about it:  *)
(* vendors and their verification, listings, ratings, the cache and the    *)
(* search index that copy them; disputes; accounts.                        *)
(***************************************************************************)
EXTENDS Listings, Ratings, Disputes, Accounts

Next ==
    \/ SearchIndexNext
    \/ VendorProfilesNext
    \/ ListingsNext
    \/ RatingsNext
    \/ DisputesNext
    \/ AccountsNext
    \/ \E r \in RequestId : Fail(r)

Spec == TablesInit /\ [][Next]_vars

\* Request r takes a step, or dies.
Steps(r) == req'[r] # req[r]
Dies(r) == suite.dies /\ Steps(r) /\ req'[r] = Idle

-----------------------------------------------------------------------------
\* What one administrator decided, a verdict on a vendor or the resolution of
\* a dispute, another replaces only by a commit that read it as undecided:
\* two reviews of one submission may both commit, a late one does not.
DecisionsStand ==
    [][/\ \A v \in Vendor :
             /\ profile[v].kyc \in Verdict
             /\ profile'[v].kyc \in Verdict \ {profile[v].kyc}
             => \E r \in RequestId :
                   req[r].at = "decide" /\ req[r].v = v /\ req[r].seen = "SUBMITTED" /\ Steps(r)
       /\ \A b \in Booking :
             dispute'[b].resolution \notin {NULL, dispute[b].resolution}
             => \E r \in RequestId :
                   /\ req[r].at = "resolveDispute" /\ req[r].b = b /\ Steps(r)
                   /\ req[r].seen \in {"OPEN", "UNDER_REVIEW"}]_vars

\* A cached page differs from the tables, and nobody is about to delete it.
Stale(k) ==
    /\ cache[k] \notin {NULL, Current(k)}
    /\ ~\E r \in RequestId : req[r].at = "bust" /\ k \in req[r].keys

\* The page of a listing after a change of its vendor's card: no writer of a
\* profile deletes it.
CardOmitted(l) == Card(listing[l].vendor)' # Card(listing[l].vendor)

\* The pages of a vendor after what deletes neither: the account is deleted,
\* documents are submitted, the plan changes, a listing of the vendor changes.
PagesOmitted(v) ==
    \/ profile'[v].text = "deleted" /\ profile[v].text # "deleted"
    \/ profile'[v].kyc = "SUBMITTED" /\ profile[v].kyc # "SUBMITTED"
    \/ profile'[v].tier # profile[v].tier
    \/ \E l \in Listing : /\ listing[l].vendor = v /\ listing'[l] # listing[l]
                          /\ Exists(l) /\ Exists(l)'

\* The page by slug after a listing came or went: the page by id is deleted.
SlugOmitted(v) == ActiveOf(v)' # ActiveOf(v)

\* A step of the code that changes what a page shows and never deletes it.
Omitted(k) ==
    \/ \E l \in Listing : k = <<"listing", l>> /\ CardOmitted(l)
    \/ \E v \in Vendor : k \in KeysOf(v, profile[v].slug) /\ PagesOmitted(v)
    \/ \E v \in Vendor : k = <<"slug", profile[v].slug>> /\ SlugOmitted(v)

\* Apart from what no code deletes it for, a page becomes wrong until it
\* expires only if it was read before a write and cached after it, if the
\* writer knows the vendor by a slug it has no more (or, onboarding again, by
\* none), or if the deletion failed.
StaleOnlyByRaceOrOmission ==
    [][\A k \in Key : ~Stale(k) /\ Stale(k)' =>
          \/ \E r \in RequestId :
                \/ /\ req[r].at = "fill" /\ k \in req[r].keys /\ Steps(r)
                   /\ req[r].value # Current(k)
                \/ /\ req[r].at \in {"updateProfile", "decide", "commitRating"} /\ Steps(r)
                   /\ req[r].old # profile[req[r].v].slug
                \/ Dies(r)
          \/ Omitted(k)]_vars

-----------------------------------------------------------------------------
Owner(d) == IF d \in Vendor THEN d ELSE listing[d].vendor
DocOf(d) == IF d \in Vendor THEN VendorDoc(d) ELSE ListingDoc(d)

\* What the pages read off the tables show is to be found by searching too.
Findable(d) == d \in browseVendors \cup browseListings

\* Request r will yet bring the document d up to date.
Syncing(r, d) ==
    LET steps == {req[r].at} \cup (IF req[r].at \in {"bust", "upsert"}
                                   THEN {req[r].after} ELSE {}) IN
    \/ "reindex" \in steps /\ req[r].v = Owner(d)
    \/ "readListing" \in steps /\ d \in Listing /\ (req[r].l = d \/ req[r].v = Owner(d))
    \/ {"upsert", "import"} \cap steps # {} /\ DocOf(d) \in req[r].todo

\* A document that request r read is written although the row has changed.
WritesOvertaken(r, d) ==
    /\ req[r].at \in {"upsert", "import"}
    /\ \E doc \in Doc : <<d, doc>> \in req[r].todo /\ <<d, doc>> # DocOf(d)
    /\ Steps(r)

Hidden(d) == Findable(d) /\ ~Found(d) /\ ~\E r \in RequestId : Syncing(r, d)

\* A verified vendor, or an active listing of one, drops out of the search
\* only by a document that was read before a change and written after it, by
\* a field added to the collection, or when a synchronisation fails.
HiddenOnlyByRace ==
    [][\A d \in DocId : ~Hidden(d) /\ Hidden(d)' =>
          \/ \E r \in RequestId : WritesOvertaken(r, d) \/ Dies(r)
          \/ drift # drift']_vars

\* The document of a deleted listing is there, and nobody is to delete it: a
\* request that is yet to delete the row will be refused.
Ghost(l) ==
    /\ listing[l].status = "deleted" /\ index[l] # NULL
    /\ ~\E r \in RequestId :
          req[r].l = l /\ (req[r].at = "deleteDoc" \/ (req[r].at = "bust" /\ req[r].after = "deleteDoc"))

\* A deleted listing stays in the search only for the same reasons.
GhostOnlyByRace ==
    [][\A l \in Listing : ~Ghost(l) /\ Ghost(l)' =>
          \E r \in RequestId :
             \/ /\ req[r].at \in {"upsert", "import"} /\ Steps(r)
                /\ \E doc \in Doc : <<l, doc>> \in req[r].todo
             \/ Dies(r)]_vars

\* No search, once the collection has the field it is filtered by, and no
\* recommendation returns a vendor, or a listing of one, that no administrator
\* has ever approved.
FoundWereApproved ==
    \A d \in DocId : (Found(d) /\ ~drift) \/ Recommended(d) => profile[Owner(d)].approved

-----------------------------------------------------------------------------
\* Creating listings, a vendor goes past the limit of its plan only by what
\* overlapping requests had counted before: with n slots by n - 1, one request
\* at a time not at all.
LimitOverrunBounded ==
    suite.routes \cap {"setActive", "updatePlan", "changePlan"} = {} /\ limit # NULL =>
        \A v \in Vendor :
            Cardinality(ActiveOf(v))
                <= limit + (IF suite.overlap THEN Cardinality(RequestId) - 1 ELSE 0)

\* A profile counts no review that is not there; of the reviews that are, one
\* committed between another's count and its commit may be missing, and one
\* request at a time none is.
RatingCountsReviews ==
    \A v \in Vendor :
        /\ profile[v].count <= Cardinality(ReviewsOf(v))
        /\ ~suite.overlap => profile[v].count = Cardinality(ReviewsOf(v))

\* A deleted account becomes active again only by an administrator, or by a
\* request of its user that read it before the deletion.
DeletedStaysDown ==
    [][\A u \in User :
          account[u].deleted /\ ~account[u].active /\ account'[u].active =>
             \E r \in RequestId :
                /\ req[r].u = u /\ Steps(r)
                /\ req[r].at = "setActive" \/ (req[r].at = "reactivate" /\ ~req[r].flag)]_vars
=============================================================================
