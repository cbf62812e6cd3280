------------------------------- MODULE Inbox --------------------------------
(***************************************************************************)
(* The chat as its users see it: conversations, messages and read state,   *)
(* the events whose vendors share a group, to-dos in the group, and the    *)
(* sockets messages are pushed to.                                         *)
(***************************************************************************)
EXTENDS EventPlanning, GroupTodos, ChatGateway

Next ==
    \/ ConversationsNext
    \/ EventPlanningNext
    \/ GroupTodosNext
    \/ ChatGatewayNext
    \/ \E r \in RequestId : Fail(r)

Spec == TablesInit /\ [][Next]_vars

-----------------------------------------------------------------------------
\* The messages u has not seen in c: those others sent since u joined and
\* since u last read.
Unseen(c, u) ==
    {m \in DOMAIN msgs :
        /\ msgs[m].conv = c /\ msgs[m].sender # u
        /\ m > convs[c].members[u].joined /\ m > convs[c].members[u].read}

\* The badge is right: unreadCount, which sends increment and reads reset, is
\* the number of messages of others since the user joined and last read.
UnreadCountsUnseen ==
    \A c \in DOMAIN convs : \A u \in Members(c) :
        convs[c].members[u].unread = Cardinality(Unseen(c, u))

\* isRead is one flag for all participants: it says that someone other than
\* the sender has read the conversation since the message was sent, no more.
ReceiptsTruthful ==
    \A m \in DOMAIN msgs :
        msgs[m].isRead <=>
            \E u \in Members(msgs[m].conv) \ {msgs[m].sender} :
                convs[msgs[m].conv].members[u].read >= m

\* A client and a vendor have one chat outside of bookings.  First contacts
\* that overlap may each open one, so there are never more than requests can
\* overlap.
OneDirectPerPair ==
    \A u \in Client, v \in Seller :
        Cardinality({c \in DOMAIN convs :
                        /\ convs[c].type = "DIRECT" /\ convs[c].booking = NULL
                        /\ convs[c].client = u /\ convs[c].vendor = v})
            <= IF suite.overlap THEN Cardinality(RequestId) ELSE 1

-----------------------------------------------------------------------------
\* Vendor v was added to event e, whose group exists, and is not in it, and
\* no request is about to see to it.
LeftOut(e, v) ==
    /\ v \in events[e].vendors
    /\ EventGroups(e) # {}
    /\ \A c \in EventGroups(e) : v \notin Members(c)
    /\ ~\E r \in RequestId : /\ req[r].at \in {"findEventGroup", "seatVendor"}
                             /\ req[r].e = e /\ req[r].v = v

\* A vendor is left out of the group of an event it was added to only when
\* the group is created from a list without it, or its request dies.
LeftOutOnlyAtCreation ==
    [][\A e \in Event, v \in Seller :
          ~LeftOut(e, v) /\ LeftOut(e, v)' =>
             \E r \in RequestId :
                /\ req[r].e = e /\ req'[r] = Idle
                /\ \/ req[r].at = "createGroup" /\ v \notin req[r].who
                   \/ suite.dies /\ req[r].v = v]_vars

\* A group created through the event's page, one request at a time, seats
\* every vendor of the event, and the list and the group stay together.
GroupComplete ==
    ~suite.overlap /\ ~suite.dies /\ "createGroup" \notin suite.routes =>
        \A e \in Event, v \in Seller : ~LeftOut(e, v)

\* A completed or cancelled event stays so, except for a commit that read its
\* status before.
FinalEventsStay ==
    [][\A e \in Event :
          events[e].status \in FinalStatus /\ events'[e].status # events[e].status =>
             \E r \in RequestId :
                /\ req[r].at \in {"updateEvent", "cancelEvent"} /\ req[r].e = e
                /\ req[r].seen \notin FinalStatus /\ req'[r] = Idle]_vars

\* A to-do lives in a group whose members created and share it, under exactly
\* one card of that group; no card outlives its to-do.
TodosBelong ==
    /\ \A t \in DOMAIN todos : ~todos[t].gone =>
          /\ convs[todos[t].conv].type = "GROUP"
          /\ {todos[t].by} \cup {u \in User : Assigned(t, u)} \subseteq Members(todos[t].conv)
          /\ \E m \in DOMAIN msgs : msgs[m].todo = t
    /\ \A m, n \in DOMAIN msgs : msgs[m].todo # 0 =>
          /\ ~todos[msgs[m].todo].gone
          /\ todos[msgs[m].todo].conv = msgs[m].conv
          /\ msgs[n].todo = msgs[m].todo => m = n

\* A pushed message has reached every member of its conversation at the time
\* it was sent who is connected, in the room or not; nobody else is shown it.
LiveForMembers ==
    /\ \A p \in shown : p[1] \in Members(msgs[p[2]].conv)
    /\ \A p \in room : p[1] \in online /\ p[1] \in Members(p[2])

PushReachesMembers ==
    [][\A m \in emitted' \ emitted : \A u \in online :
          IsParticipant(msgs[m].conv, u) /\ convs[msgs[m].conv].members[u].joined < m
             => <<u, m>> \in shown']_vars
=============================================================================
