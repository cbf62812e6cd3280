----------------------------- MODULE MCCatalog ------------------------------
(* Catalog under TLC: the kinds of traffic of its run, and the symmetry of *)
(* ids that no definition distinguishes.                                   *)
EXTENDS Catalog, FiniteSetsExt, TLC

\* The verification of vendors with the pages and the index it changes; slugs
\* taken and renamed, and the pages they name; the limit of a plan; a listing's
\* life in cache and index, in three parts; ratings; disputes; accounts, as
\* their users and as administrators change them; a listing edited under its
\* own page and its vendor's; what else those pages show of the vendor;
\* accounts deleted.
KycRoutes == {"onboard", "submitKyc", "reviewKyc", "view"}
DecisionRoutes == {"onboard", "submitKyc", "reviewKyc"}
ReindexRoutes == {"onboard", "submitKyc", "reviewKyc", "createListing", "bulkSync"}
SlugRoutes == {"onboard", "updateProfile"}
PageRoutes == {"onboard", "onboardAgain", "updateProfile", "view"}
LimitRoutes == {"onboard", "createListing"}
PlanRoutes == {"onboard", "createListing", "updatePlan", "setActive"}
ListingRoutes == {"onboard", "createListing", "editListing", "removeListing",
                  "recordView", "bulkSync"}
ActiveRoutes == {"onboard", "submitKyc", "reviewKyc", "createListing", "setActive"}
MediaRoutes == {"onboard", "createListing", "media", "removeListing", "view"}
RatingRoutes == {"onboard", "createReview", "respond", "view"}
DisputeRoutes == {"createDispute", "disputeStatus", "resolveDispute"}
PauseRoutes == {"signIn", "getMe", "deactivateMe", "deleteMe", "setUserActive"}
RoleRoutes == {"onboard", "updateMe", "setPreferences", "completeOnboarding", "claimVendor",
               "setUserRole", "promote"}
EditRoutes == {"onboard", "createListing", "editListing", "setActive", "removeListing", "view"}
CardRoutes == {"onboard", "createListing", "submitKyc", "reviewKyc", "changePlan",
               "view"}
GoneRoutes == {"onboard", "deleteMe", "onboardAgain", "view"}

\* m vendors and n listings.
Rows(m, n) == {vs \cup ls : vs \in kSubset(m, Vendor), ls \in kSubset(n, Listing)}

Traffics(sets, rows, overlap, dies, lacks) ==
    [routes: sets, rows: rows, overlap: {overlap}, dies: {dies}, drift: {lacks}]

RunSuites ==
    Traffics({KycRoutes}, Rows(1, 0), TRUE, FALSE, FALSE)
    \cup Traffics({KycRoutes}, Rows(1, 0), FALSE, TRUE, FALSE)
    \cup Traffics({DecisionRoutes}, Rows(1, 0), TRUE, TRUE, FALSE)
    \cup Traffics({SlugRoutes}, Rows(2, 0), TRUE, TRUE, FALSE)
    \cup Traffics({PageRoutes, RatingRoutes, RoleRoutes}, Rows(1, 0), TRUE, FALSE, FALSE)
    \cup Traffics({PageRoutes}, Rows(2, 0), FALSE, FALSE, FALSE)
    \cup Traffics({ReindexRoutes, ActiveRoutes, MediaRoutes}, Rows(1, 1), TRUE, FALSE, FALSE)
    \cup Traffics({LimitRoutes, ListingRoutes}, Rows(1, 3), TRUE, FALSE, FALSE)
    \cup Traffics({DisputeRoutes, PauseRoutes}, {{}}, TRUE, FALSE, FALSE)
    \cup Traffics({LimitRoutes, PlanRoutes, RatingRoutes, GoneRoutes}, Rows(1, 2),
                  FALSE, FALSE, FALSE)
    \cup Traffics({EditRoutes, CardRoutes}, Rows(1, 1), FALSE, FALSE, FALSE)
    \cup Traffics({ReindexRoutes}, Rows(1, 2), FALSE, FALSE, TRUE)

Symmetry == Permutations(Vendor) \cup Permutations(Listing)
               \cup Permutations(Booking) \cup Permutations(RequestId)
=============================================================================
