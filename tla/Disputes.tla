------------------------------ MODULE Disputes ------------------------------
(***************************************************************************)
(* DisputesService: a participant of a booking raises one dispute about    *)
(* it; administrators move its status and resolve it.                      *)
(***************************************************************************)
EXTENDS CatalogTables

createDispute(r, b) ==
    /\ Called(r, "createDispute")
    /\ dispute[b].status = NULL
    /\ Wait(r, [Idle EXCEPT !.at = "insertDispute", !.b = b])
    /\ UNCHANGED tables

insertDispute(r) ==
    LET b == req[r].b IN
    /\ req[r].at = "insertDispute"
    /\ dispute[b].status = NULL
    /\ dispute' = [dispute EXCEPT ![b].status = "OPEN"]
    /\ Return(r)
    /\ UNCHANGED <<suite, catalog, copies, account>>

\* The unique index on booking_id refuses the second.
insertDisputeRefused(r) ==
    /\ req[r].at = "insertDispute"
    /\ dispute[req[r].b].status # NULL
    /\ Return(r)
    /\ UNCHANGED tables

-----------------------------------------------------------------------------
\* updateStatus reads that the dispute exists, and nothing else: any status
\* may follow any other.
updateStatus(r, b, to) ==
    /\ Called(r, "disputeStatus")
    /\ dispute[b].status # NULL
    /\ Wait(r, [Idle EXCEPT !.at = "setDispute", !.b = b, !.seen = to])
    /\ UNCHANGED tables

setDispute(r) ==
    /\ req[r].at = "setDispute"
    /\ dispute' = [dispute EXCEPT ![req[r].b].status = req[r].seen]
    /\ Return(r)
    /\ UNCHANGED <<suite, catalog, copies, account>>

resolve(r, b) ==
    /\ Called(r, "resolveDispute")
    /\ dispute[b].status \in {"OPEN", "UNDER_REVIEW"}
    /\ Wait(r, [Idle EXCEPT !.at = "resolveDispute", !.b = b, !.seen = dispute[b].status])
    /\ UNCHANGED tables

\* Mutant: the two fields are written the wrong way round.
resolveDisputeSwapped(r, resolution) ==
    /\ req[r].at = "resolveDispute"
    /\ dispute' = [dispute EXCEPT ![req[r].b] =
                     [status |-> resolution, resolution |-> "RESOLVED"]]
    /\ Return(r)
    /\ UNCHANGED <<suite, catalog, copies, account>>

resolveDispute(r, resolution) ==
    /\ req[r].at = "resolveDispute"
    /\ dispute' = [dispute EXCEPT ![req[r].b] =
                     [status |-> "RESOLVED", resolution |-> resolution]]
    /\ Return(r)
    /\ UNCHANGED <<suite, catalog, copies, account>>

DisputesNext ==
    \E r \in RequestId :
        \/ \E b \in Booking :
              \/ createDispute(r, b) \/ resolve(r, b)
              \/ \E to \in DisputeStatus : updateStatus(r, b, to)
        \/ insertDispute(r) \/ insertDisputeRefused(r) \/ setDispute(r)
        \/ \E resolution \in {"client", "vendor"} : resolveDispute(r, resolution)
=============================================================================
