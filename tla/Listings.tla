------------------------------ MODULE Listings ------------------------------
(***************************************************************************)
(* ListingsService: a vendor creates listings within the limit of its      *)
(* plan, edits, deactivates and deletes them, and changes their images;    *)
(* clients view them.  AdminService.updatePlan moves the limit.            *)
(***************************************************************************)
EXTENDS VendorProfiles

updatePlan(r, n) ==
    /\ Called(r, "updatePlan")
    /\ limit' = n
    /\ UNCHANGED <<suite, profile, listing, reviews, copies, dispute, account, req>>

create(r, v) ==
    /\ Called(r, "createListing")
    /\ Onboarded(v)
    /\ Wait(r, [Idle EXCEPT !.at = "readLimit", !.v = v])
    /\ UNCHANGED tables

\* assertWithinListingLimit reads the plan: no limit, no listings, or a count.
readLimit(r) ==
    /\ req[r].at = "readLimit"
    /\ \/ limit = NULL /\ Wait(r, [req[r] EXCEPT !.at = "insertListing"])
       \/ limit = 0 /\ Return(r)
       \/ limit \notin {NULL, 0} /\ Wait(r, [req[r] EXCEPT !.at = "countActive", !.n = limit])
    /\ UNCHANGED tables

\* Mutant: the limit itself is let through.
countActiveOff(r) ==
    /\ req[r].at = "countActive"
    /\ IF Cardinality(ActiveOf(req[r].v)) > req[r].n
       THEN Return(r)
       ELSE Wait(r, [req[r] EXCEPT !.at = "insertListing", !.n = 0])
    /\ UNCHANGED tables

countActive(r) ==
    /\ req[r].at = "countActive"
    /\ IF Cardinality(ActiveOf(req[r].v)) >= req[r].n
       THEN Return(r)
       ELSE Wait(r, [req[r] EXCEPT !.at = "insertListing", !.n = 0])
    /\ UNCHANGED tables

\* With or without images; the cached page of its vendor goes by id only.
insertListing(r, l, media) ==
    /\ req[r].at = "insertListing"
    /\ l \in suite.rows
    /\ listing[l].status = "none"
    /\ listing' = [listing EXCEPT ![l] =
                     [vendor |-> req[r].v, text |-> "first", media |-> media, status |-> "active"]]
    /\ Wait(r, [Idle EXCEPT !.at = "bust", !.after = "readListing", !.l = l,
                            !.keys = {<<"vendor", req[r].v>>}])
    /\ UNCHANGED <<suite, profile, limit, reviews, copies, dispute, account>>

-----------------------------------------------------------------------------
\* The owner's listing exists when it is asked for: assertOwnership.  `to' is
\* the isActive of the body, or the status it has when the body has none.
update(r, l, to) ==
    /\ \/ Called(r, "editListing") /\ to = listing[l].status
       \/ Called(r, "setActive") /\ to # listing[l].status
    /\ Exists(l)
    /\ Wait(r, [Idle EXCEPT !.at = "updateListing", !.l = l, !.keys = {<<"listing", l>>},
                            !.seen = IF to = listing[l].status THEN NULL ELSE to])
    /\ UNCHANGED tables

updateListing(r) ==
    LET l == req[r].l IN
    /\ req[r].at = "updateListing"
    /\ Exists(l)
    /\ \E text \in Words :
          listing' = [listing EXCEPT ![l].status = IF req[r].seen = NULL THEN @ ELSE req[r].seen,
                                     ![l].text = text]
    /\ Wait(r, [req[r] EXCEPT !.at = "bust", !.after = "readListing", !.seen = NULL])
    /\ UNCHANGED <<suite, profile, limit, reviews, copies, dispute, account>>

\* Mutant: the document is left for the next bulk sync.
removeUnsynced(r, l) ==
    /\ Called(r, "removeListing")
    /\ Exists(l)
    /\ Wait(r, [Idle EXCEPT !.at = "deleteListing", !.l = l,
                            !.keys = {<<"listing", l>>, <<"vendor", listing[l].vendor>>}])
    /\ UNCHANGED tables

remove(r, l) ==
    /\ Called(r, "removeListing")
    /\ Exists(l)
    /\ Wait(r, [Idle EXCEPT !.at = "deleteListing", !.after = "deleteDoc", !.l = l,
                            !.keys = {<<"listing", l>>, <<"vendor", listing[l].vendor>>}])
    /\ UNCHANGED tables

deleteListing(r) ==
    LET l == req[r].l IN
    /\ req[r].at = "deleteListing"
    /\ Exists(l)
    /\ listing' = [listing EXCEPT ![l].status = "deleted", ![l].text = "first",
                                  ![l].media = FALSE]
    /\ Wait(r, [req[r] EXCEPT !.at = "bust"])
    /\ UNCHANGED <<suite, profile, limit, reviews, copies, dispute, account>>

\* A listing with bookings is not deleted, for the sake of their history.
deleteListingBooked(r) ==
    /\ req[r].at = "deleteListing"
    /\ Return(r)
    /\ UNCHANGED tables

\* The images of a listing come and go; the index is not told.
changeMedia(r, l) ==
    /\ Called(r, "media")
    /\ Exists(l)
    /\ Wait(r, [Idle EXCEPT !.at = IF listing[l].media THEN "deleteMedia" ELSE "insertMedia",
                            !.l = l, !.keys = {<<"listing", l>>}])
    /\ UNCHANGED tables

writeMedia(r) ==
    LET l == req[r].l IN
    /\ req[r].at \in {"insertMedia", "deleteMedia"}
    /\ Exists(l)
    /\ req[r].at = "deleteMedia" => listing[l].media
    /\ listing' = [listing EXCEPT ![l].media = (req[r].at = "insertMedia")]
    /\ Wait(r, [req[r] EXCEPT !.at = "bust"])
    /\ UNCHANGED <<suite, profile, limit, reviews, copies, dispute, account>>

\* The row that was found has been deleted since.
writeRefused(r) ==
    /\ req[r].at \in {"updateListing", "insertMedia", "deleteMedia"}
    /\ \/ ~Exists(req[r].l)
       \/ req[r].at = "deleteMedia" /\ ~listing[req[r].l].media
    /\ Return(r)
    /\ UNCHANGED tables

\* A view is counted, and the listing read again for the cache and the index.
recordView(r, l) ==
    /\ Called(r, "recordView")
    /\ Exists(l)
    /\ Wait(r, [Idle EXCEPT !.at = "bust", !.after = "readListing", !.l = l,
                            !.keys = {<<"listing", l>>}])
    /\ UNCHANGED tables

ListingsNext ==
    \E r \in RequestId :
        \/ \E n \in Limit : updatePlan(r, n)
        \/ \E v \in Vendor : create(r, v)
        \/ readLimit(r) \/ countActive(r)
        \/ \E l \in Listing :
              \/ \E media \in BOOLEAN : insertListing(r, l, media)
              \/ \E to \in {"active", "inactive"} : update(r, l, to)
              \/ remove(r, l) \/ changeMedia(r, l) \/ recordView(r, l)
        \/ updateListing(r) \/ deleteListing(r) \/ deleteListingBooked(r)
        \/ writeMedia(r) \/ writeRefused(r)
=============================================================================
