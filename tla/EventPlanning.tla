--------------------------- MODULE EventPlanning ----------------------------
(***************************************************************************)
(* EventsService: a client creates an event, moves and cancels it, and     *)
(* sources vendors for it, who are seated in its group chat if it has one. *)
(* Everything here acts for the event's owner.  The listings of an event   *)
(* are read by nothing but its own page, so only their vendor is kept.     *)
(***************************************************************************)
EXTENDS Conversations

Created(e) == events[e].client # NULL

create(r, u, e) ==
    /\ Called(r, "createEvent")
    /\ ~Created(e)
    /\ events' = [events EXCEPT ![e] = [client |-> u, status |-> "PLANNING", vendors |-> {}]]
    /\ UNCHANGED <<suite, chatTables, sockets, req>>

\* Mutant: a completed event can still be updated.
updateCompleted(r, e) ==
    /\ Called(r, "updateEvent")
    /\ Created(e)
    /\ events[e].status # "CANCELLED"
    /\ Wait(r, [Idle EXCEPT !.at = "updateEvent", !.e = e, !.seen = events[e].status])
    /\ UNCHANGED tables

update(r, e) ==
    /\ Called(r, "updateEvent")
    /\ Created(e)
    /\ events[e].status \notin FinalStatus
    /\ Wait(r, [Idle EXCEPT !.at = "updateEvent", !.e = e, !.seen = events[e].status])
    /\ UNCHANGED tables

\* The body may carry any status, forwards or backwards.
setStatus(r, status) ==
    /\ req[r].at = "updateEvent"
    /\ events' = [events EXCEPT ![req[r].e].status = status]
    /\ Return(r)
    /\ UNCHANGED <<suite, chatTables, sockets>>

cancel(r, e) ==
    /\ Called(r, "cancelEvent")
    /\ Created(e)
    /\ events[e].status \notin FinalStatus
    /\ Wait(r, [Idle EXCEPT !.at = "cancelEvent", !.e = e, !.seen = events[e].status])
    /\ UNCHANGED tables

setCancelled(r) ==
    /\ req[r].at = "cancelEvent"
    /\ events' = [events EXCEPT ![req[r].e].status = "CANCELLED"]
    /\ Return(r)
    /\ UNCHANGED <<suite, chatTables, sockets>>

-----------------------------------------------------------------------------
\* addVendor looks for the row first; addListing upserts it.
addVendor(r, e, v) ==
    /\ Called(r, "addVendor")
    /\ Created(e)
    /\ v \notin events[e].vendors
    /\ Wait(r, [Idle EXCEPT !.at = "insertVendor", !.e = e, !.v = v])
    /\ UNCHANGED tables

addListing(r, e, v) ==
    /\ Called(r, "addListing")
    /\ Created(e)
    /\ Wait(r, [Idle EXCEPT !.at = "upsertVendor", !.e = e, !.v = v])
    /\ UNCHANGED tables

\* Mutant: the vendor is not synced into the group.
insertVendorUnsynced(r) ==
    /\ req[r].at \in {"insertVendor", "upsertVendor"}
    /\ req[r].at = "insertVendor" => req[r].v \notin events[req[r].e].vendors
    /\ events' = [events EXCEPT ![req[r].e].vendors = @ \cup {req[r].v}]
    /\ Return(r)
    /\ UNCHANGED <<suite, chatTables, sockets>>

insertVendor(r) ==
    /\ req[r].at \in {"insertVendor", "upsertVendor"}
    /\ req[r].at = "insertVendor" => req[r].v \notin events[req[r].e].vendors
    /\ events' = [events EXCEPT ![req[r].e].vendors = @ \cup {req[r].v}]
    /\ Wait(r, [req[r] EXCEPT !.at = "findEventGroup"])
    /\ UNCHANGED <<suite, chatTables, sockets>>

\* The unique index on (event_id, vendor_id) refuses a second insert.
insertVendorRefused(r) ==
    /\ req[r].at = "insertVendor"
    /\ req[r].v \in events[req[r].e].vendors
    /\ Return(r)
    /\ UNCHANGED tables

\* syncVendorIntoEventGroup: nothing to do without a group.
findEventGroup(r) ==
    /\ req[r].at = "findEventGroup"
    /\ \/ EventGroups(req[r].e) = {} /\ Return(r)
       \/ \E c \in EventGroups(req[r].e) :
             Wait(r, [req[r] EXCEPT !.at = "seatVendor", !.c = c])
    /\ UNCHANGED tables

seatVendor(r) ==
    /\ req[r].at = "seatVendor"
    /\ convs' = [convs EXCEPT ![req[r].c].members = SeatAll(@, {req[r].v})]
    /\ Return(r)
    /\ UNCHANGED <<suite, msgs, todos, events, sockets>>

removeVendor(r, e, v) ==
    /\ Called(r, "removeVendor")
    /\ Created(e)
    /\ v \in events[e].vendors
    /\ Wait(r, [Idle EXCEPT !.at = "deleteVendor", !.e = e, !.v = v])
    /\ UNCHANGED tables

\* The row found is deleted by its id, so whoever waits to delete the same
\* row will find it gone even if the vendor is added again.  The group keeps
\* its member.
deleteVendor(r) ==
    LET e == req[r].e  v == req[r].v IN
    /\ req[r].at = "deleteVendor"
    /\ ~req[r].flag
    /\ events' = [events EXCEPT ![e].vendors = @ \ {v}]
    /\ req' = [s \in RequestId |->
                 IF s = r THEN Idle
                 ELSE IF req[s].at = "deleteVendor" /\ req[s].e = e /\ req[s].v = v
                 THEN [req[s] EXCEPT !.flag = TRUE] ELSE req[s]]
    /\ UNCHANGED <<suite, chatTables, sockets>>

deleteVendorRefused(r) ==
    /\ req[r].at = "deleteVendor"
    /\ req[r].flag
    /\ Return(r)
    /\ UNCHANGED tables

EventPlanningNext ==
    \E r \in RequestId :
        \/ \E e \in Event :
              \/ \E u \in Client : create(r, u, e)
              \/ update(r, e) \/ cancel(r, e)
              \/ \E v \in Seller :
                    addVendor(r, e, v) \/ addListing(r, e, v) \/ removeVendor(r, e, v)
        \/ \E status \in EventStatus : setStatus(r, status)
        \/ setCancelled(r)
        \/ insertVendor(r) \/ insertVendorRefused(r)
        \/ findEventGroup(r) \/ seatVendor(r)
        \/ deleteVendor(r) \/ deleteVendorRefused(r)
=============================================================================
