--------------------------- MODULE VendorProfiles ---------------------------
(***************************************************************************)
(* VendorsService: a vendor onboards, edits its profile under a unique     *)
(* slug, and submits documents, which an administrator approves or         *)
(* rejects.                                                                *)
(***************************************************************************)
EXTENDS SearchIndex

SlugTaken(s) == \E v \in Vendor : profile[v].slug = s
KeysOf(v, s) == {<<"vendor", v>>, <<"slug", s>>}

\* generateUniqueSlug reads the slugs there are and takes the first free.
onboard(r, v, s) ==
    /\ Called(r, "onboard")
    /\ v \in suite.rows
    /\ ~Onboarded(v)
    /\ ~SlugTaken(s)
    /\ \A t \in Slug : t < s => SlugTaken(t)
    /\ Wait(r, [Idle EXCEPT !.at = "insertProfile", !.v = v, !.slug = s])
    /\ UNCHANGED tables

\* The profile and the role in one transaction; the row it returns is what is
\* indexed.
insertProfile(r) ==
    LET v == req[r].v IN
    /\ req[r].at = "insertProfile"
    /\ ~Onboarded(v)
    /\ ~SlugTaken(req[r].slug)
    /\ profile' = [profile EXCEPT ![v].slug = req[r].slug]
    /\ account' = [account EXCEPT ![v].role = "VENDOR"]
    /\ Wait(r, [req[r] EXCEPT !.at = "upsert", !.todo = {VendorDoc(v)}])
    /\ UNCHANGED <<suite, listing, limit, reviews, copies, dispute>>

\* The unique indexes on user_id and slug refuse the second.
insertProfileRefused(r) ==
    /\ req[r].at = "insertProfile"
    /\ Onboarded(req[r].v) \/ SlugTaken(req[r].slug)
    /\ Return(r)
    /\ UNCHANGED tables

\* A vendor that has onboarded redoes the wizard: the profile is updated in
\* place, slug left alone, and so are the cached pages.
onboardAgain(r, v) ==
    /\ Called(r, "onboardAgain")
    /\ Onboarded(v)
    /\ Wait(r, [Idle EXCEPT !.at = "updateProfile", !.v = v])
    /\ UNCHANGED tables

\* A new slug must be free when it is asked for.
updateMyProfile(r, v, s) ==
    /\ Called(r, "updateProfile")
    /\ Onboarded(v)
    /\ s # profile[v].slug => ~SlugTaken(s)
    /\ Wait(r, [Idle EXCEPT !.at = "updateProfile", !.v = v, !.slug = s,
                            !.old = profile[v].slug, !.keys = KeysOf(v, profile[v].slug)])
    /\ UNCHANGED tables

updateProfile(r, text) ==
    LET v == req[r].v  s == req[r].slug IN
    /\ req[r].at = "updateProfile"
    /\ \A w \in Vendor \ {v} : s # NULL => profile[w].slug # s
    /\ profile' = [profile EXCEPT ![v].slug = IF s = NULL THEN @ ELSE s, ![v].text = text]
    /\ Wait(r, [req[r] EXCEPT !.at = IF s = NULL THEN "upsert" ELSE "bust",
                              !.after = IF s = NULL THEN "idle" ELSE "upsert",
                              !.todo = {VendorDoc(v)}])
    /\ UNCHANGED <<suite, listing, limit, reviews, copies, dispute, account>>

\* The unique index on slug refuses the second.
updateProfileRefused(r) ==
    /\ req[r].at = "updateProfile"
    /\ \E w \in Vendor \ {req[r].v} : req[r].slug # NULL /\ profile[w].slug = req[r].slug
    /\ Return(r)
    /\ UNCHANGED tables

-----------------------------------------------------------------------------
\* Whatever was decided before, documents may be submitted again; the vendor
\* stays verified, or not, until they are reviewed.
submitKyc(r, v) ==
    /\ Called(r, "submitKyc")
    /\ Onboarded(v)
    /\ profile' = [profile EXCEPT ![v].kyc = "SUBMITTED"]
    /\ UNCHANGED <<suite, listing, limit, reviews, copies, dispute, account, req>>

\* Subscriptions, the sweep and the store's webhooks write the vendor's tier;
\* the limit that comes with it is updatePlan's to move.
changePlan(r, v) ==
    /\ Called(r, "changePlan")
    /\ Onboarded(v)
    /\ \E tier \in Tier : profile' = [profile EXCEPT ![v].tier = tier]
    /\ UNCHANGED <<suite, listing, limit, reviews, copies, dispute, account, req>>

\* Mutant: a decision is not refused where none is pending.
reviewKycAnytime(r, v, verdict) ==
    /\ Called(r, "reviewKyc")
    /\ Onboarded(v)
    /\ Wait(r, [Idle EXCEPT !.at = "decide", !.v = v, !.seen = profile[v].kyc,
                            !.old = profile[v].slug, !.flag = (verdict = "APPROVED"),
                            !.keys = KeysOf(v, profile[v].slug)])
    /\ UNCHANGED tables

reviewKyc(r, v, verdict) ==
    /\ Called(r, "reviewKyc")
    /\ Onboarded(v)
    /\ profile[v].kyc = "SUBMITTED"
    /\ Wait(r, [Idle EXCEPT !.at = "decide", !.v = v, !.seen = profile[v].kyc,
                            !.old = profile[v].slug, !.flag = (verdict = "APPROVED"),
                            !.keys = KeysOf(v, profile[v].slug)])
    /\ UNCHANGED tables

\* Mutant: the search index is brought up to date, the cache is not.
decideUncached(r) ==
    LET v == req[r].v  yes == req[r].flag IN
    /\ req[r].at = "decide"
    /\ profile' = [profile EXCEPT ![v].kyc = IF yes THEN "APPROVED" ELSE "REJECTED",
                                  ![v].verified = yes, ![v].approved = @ \/ yes]
    /\ IF yes THEN Wait(r, [req[r] EXCEPT !.at = "reindex", !.keys = {}]) ELSE Return(r)
    /\ UNCHANGED <<suite, listing, limit, reviews, copies, dispute, account>>

\* Only an approval is told to the index.
decide(r) ==
    LET v == req[r].v  yes == req[r].flag IN
    /\ req[r].at = "decide"
    /\ profile' = [profile EXCEPT ![v].kyc = IF yes THEN "APPROVED" ELSE "REJECTED",
                                  ![v].verified = yes, ![v].approved = @ \/ yes]
    /\ Wait(r, [req[r] EXCEPT !.at = "bust", !.after = IF yes THEN "reindex" ELSE "idle"])
    /\ UNCHANGED <<suite, listing, limit, reviews, copies, dispute, account>>

VendorProfilesNext ==
    \E r \in RequestId :
        \/ \E v \in Vendor :
              \/ \E s \in Slug : onboard(r, v, s) \/ updateMyProfile(r, v, s)
              \/ onboardAgain(r, v) \/ submitKyc(r, v) \/ changePlan(r, v)
              \/ \E verdict \in Verdict : reviewKyc(r, v, verdict)
        \/ insertProfile(r) \/ insertProfileRefused(r)
        \/ \E text \in Words : updateProfile(r, text)
        \/ updateProfileRefused(r)
        \/ decide(r)
=============================================================================
