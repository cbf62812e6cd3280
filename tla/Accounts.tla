------------------------------ MODULE Accounts ------------------------------
(***************************************************************************)
(* UsersService, VendorsService.claimVendorIntent and the accounts of      *)
(* AdminService: onboarding, roles, the pause and the deletion of an       *)
(* account, and the sessions these revoke.                                 *)
(***************************************************************************)
EXTENDS CatalogTables

\* The guard asks for a session; a revoked one is accepted while the cookie's
\* copy lasts.  It does not read isActive.
Authenticated(u) == account[u].session # "none"

\* A client calls route op as u.
CalledBy(r, op, u) == Called(r, op) /\ Authenticated(u)

Revoked(session) == IF session = "live" THEN "cached" ELSE session

signIn(u) ==
    /\ "signIn" \in suite.routes
    /\ account[u].session # "live"
    /\ account' = [account EXCEPT ![u].session = "live"]
    /\ UNCHANGED <<suite, catalog, copies, dispute, req>>

\* The five minutes of the cookie's copy are over.
cookieExpires(u) ==
    /\ account[u].session = "cached"
    /\ account' = [account EXCEPT ![u].session = "none"]
    /\ UNCHANGED <<suite, catalog, copies, dispute, req>>

-----------------------------------------------------------------------------
getMe(r, u) ==
    /\ CalledBy(r, "getMe", u)
    /\ Wait(r, [Idle EXCEPT !.at = "readMe", !.u = u])
    /\ UNCHANGED tables

\* Mutant: a deleted account comes back like a paused one.
readMeDeletedToo(r) ==
    LET u == req[r].u IN
    /\ req[r].at = "readMe"
    /\ IF account[u].active THEN Return(r)
       ELSE Wait(r, [req[r] EXCEPT !.at = "reactivate", !.flag = account[u].deleted])
    /\ UNCHANGED tables

\* An account that is inactive and not deleted is to be reactivated, whoever
\* made it inactive; flag keeps what was read of the deletion.
readMe(r) ==
    LET u == req[r].u IN
    /\ req[r].at = "readMe"
    /\ IF account[u].active \/ account[u].deleted THEN Return(r)
       ELSE Wait(r, [req[r] EXCEPT !.at = "reactivate", !.flag = account[u].deleted])
    /\ UNCHANGED tables

reactivate(r) ==
    /\ req[r].at = "reactivate"
    /\ account' = [account EXCEPT ![req[r].u].active = TRUE]
    /\ Return(r)
    /\ UNCHANGED <<suite, catalog, copies, dispute>>

deactivateMe(r, u) ==
    /\ CalledBy(r, "deactivateMe", u)
    /\ account' = [account EXCEPT ![u].active = FALSE, ![u].session = Revoked(@)]
    /\ UNCHANGED <<suite, catalog, copies, dispute, req>>

\* The account and the vendor profile lose what is personal, in the database
\* and nowhere else.
deleteMe(r, u) ==
    /\ CalledBy(r, "deleteMe", u)
    /\ account' = [account EXCEPT ![u].active = FALSE, ![u].deleted = TRUE,
                                  ![u].session = Revoked(@)]
    /\ profile' = [v \in Vendor |-> IF v = u /\ Onboarded(v)
                                    THEN [profile[v] EXCEPT !.text = "deleted"]
                                    ELSE profile[v]]
    /\ UNCHANGED <<suite, listing, limit, reviews, copies, dispute, req>>

-----------------------------------------------------------------------------
\* A client with a city has onboarded; updateMe may name one.
updateMe(r, u, city) ==
    /\ CalledBy(r, "updateMe", u)
    /\ account' = [account EXCEPT ![u].city = @ \/ city,
                                  ![u].onboarded = @ \/ city \/ account[u].city]
    /\ Wait(r, [Idle EXCEPT !.at = "readMe", !.u = u])
    /\ UNCHANGED <<suite, catalog, copies, dispute>>

setPreferences(r, u) ==
    /\ CalledBy(r, "setPreferences", u)
    /\ Wait(r, [Idle EXCEPT !.at = IF account[u].city THEN "setOnboarded" ELSE "readMe",
                            !.u = u])
    /\ UNCHANGED tables

completeOnboarding(r, u) ==
    /\ CalledBy(r, "completeOnboarding", u)
    /\ Wait(r, [Idle EXCEPT !.at = "setOnboarded", !.u = u])
    /\ UNCHANGED tables

setOnboarded(r) ==
    /\ req[r].at = "setOnboarded"
    /\ account' = [account EXCEPT ![req[r].u].onboarded = TRUE]
    /\ Wait(r, [req[r] EXCEPT !.at = "readMe"])
    /\ UNCHANGED <<suite, catalog, copies, dispute>>

-----------------------------------------------------------------------------
\* A client who has onboarded is refused, when it is asked for.
claimVendorIntent(r, u) ==
    /\ CalledBy(r, "claimVendor", u)
    /\ account[u].role # "VENDOR"
    /\ u \in Vendor => ~Onboarded(u)
    /\ ~account[u].onboarded
    /\ Wait(r, [Idle EXCEPT !.at = "setRole", !.u = u, !.seen = "VENDOR"])
    /\ UNCHANGED tables

\* setUserRole asks only that the account exists, promoteToAdmin that it is
\* not deleted.
setUserRole(r, u, role) ==
    /\ \/ Called(r, "setUserRole")
       \/ Called(r, "promote") /\ role = "ADMIN" /\ ~account[u].deleted
    /\ Wait(r, [Idle EXCEPT !.at = "setRole", !.u = u, !.seen = role])
    /\ UNCHANGED tables

setRole(r) ==
    /\ req[r].at = "setRole"
    /\ account' = [account EXCEPT ![req[r].u].role = req[r].seen]
    /\ Return(r)
    /\ UNCHANGED <<suite, catalog, copies, dispute>>

\* An administrator suspends or reactivates any account, a deleted one too.
setUserActive(r, u, isActive) ==
    /\ Called(r, "setUserActive")
    /\ Wait(r, [Idle EXCEPT !.at = "setActive", !.u = u, !.flag = isActive])
    /\ UNCHANGED tables

setActive(r) ==
    /\ req[r].at = "setActive"
    /\ account' = [account EXCEPT ![req[r].u].active = req[r].flag]
    /\ Return(r)
    /\ UNCHANGED <<suite, catalog, copies, dispute>>

AccountsNext ==
    \/ \E u \in User : signIn(u) \/ cookieExpires(u)
    \/ \E r \in RequestId :
        \/ \E u \in User :
              \/ getMe(r, u) \/ deactivateMe(r, u) \/ deleteMe(r, u)
              \/ \E city \in BOOLEAN : updateMe(r, u, city)
              \/ setPreferences(r, u) \/ completeOnboarding(r, u) \/ claimVendorIntent(r, u)
              \/ \E role \in Role : setUserRole(r, u, role)
              \/ \E isActive \in BOOLEAN : setUserActive(r, u, isActive)
        \/ readMe(r) \/ reactivate(r) \/ setOnboarded(r) \/ setRole(r) \/ setActive(r)
=============================================================================
