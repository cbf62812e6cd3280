--------------------------- MODULE Conversations ----------------------------
(***************************************************************************)
(* MessagingService: conversations are found or created, groups gain       *)
(* members, messages are sent and read.                                    *)
(***************************************************************************)
EXTENDS ChatTables

\* Mutant: the lookup for a chat without a booking is left out.
FindDirectOnlyBooked(u, v, b) ==
    {c \in DOMAIN convs : b # NULL /\ convs[c].booking = b}

\* A chat opened for a booking is looked up by that booking alone; any other
\* by the pair, among the chats without a booking.
FindDirect(u, v, b) ==
    {c \in DOMAIN convs :
        IF b # NULL
        THEN convs[c].booking = b
        ELSE /\ convs[c].type = "DIRECT" /\ convs[c].booking = NULL
             /\ convs[c].client = u /\ convs[c].vendor = v}

DirectOf(u, v, b) ==
    [type |-> "DIRECT", client |-> u, vendor |-> v, booking |-> b, event |-> NULL,
     members |-> SeatAll(NoMembers, {u, v})]
GroupOf(u, e, who) ==
    [type |-> "GROUP", client |-> u, vendor |-> NULL, booking |-> NULL, event |-> e,
     members |-> SeatAll(NoMembers, who)]

createDirectConversation(r, u, v, b) ==
    /\ Called(r, "createDirect")
    /\ FindDirect(u, v, b) = {}
    /\ Wait(r, [Idle EXCEPT !.at = "createDirect", !.u = u, !.v = v, !.b = b])
    /\ UNCHANGED tables

\* getOrCreateDirect of the order services finds any DIRECT chat of the pair.
getOrCreateDirect(r, u, v) ==
    /\ Called(r, "orderDirect")
    /\ {c \in DOMAIN convs : convs[c].type = "DIRECT"
                                /\ convs[c].client = u /\ convs[c].vendor = v} = {}
    /\ Wait(r, [Idle EXCEPT !.at = "createDirect", !.u = u, !.v = v])
    /\ UNCHANGED tables

BookingTaken(b) == b # NULL /\ \E c \in DOMAIN convs : convs[c].booking = b

createDirect(r) ==
    /\ req[r].at = "createDirect"
    /\ ~BookingTaken(req[r].b)
    /\ Insert(DirectOf(req[r].u, req[r].v, req[r].b))
    /\ Return(r)
    /\ UNCHANGED <<suite, msgs, todos, events, sockets>>

\* The unique index on booking_id refuses the second.
createDirectRefused(r) ==
    /\ req[r].at = "createDirect"
    /\ BookingTaken(req[r].b)
    /\ Return(r)
    /\ UNCHANGED tables

-----------------------------------------------------------------------------
\* POST /conversations creates the group with its client alone, and does not
\* look for one.
createGroupConversation(r, e) ==
    /\ Called(r, "createGroup")
    /\ events[e].client # NULL
    /\ Wait(r, [Idle EXCEPT !.at = "createGroup", !.u = events[e].client, !.e = e,
                            !.who = {events[e].client}])
    /\ UNCHANGED tables

\* Mutant: the owner alone is seated.
getOrCreateEventGroupAlone(r, e) ==
    /\ Called(r, "eventGroup")
    /\ events[e].client # NULL
    /\ Wait(r, [Idle EXCEPT !.at = "findGroup", !.u = events[e].client, !.e = e,
                            !.who = {events[e].client}])
    /\ UNCHANGED tables

getOrCreateEventGroup(r, e) ==
    /\ Called(r, "eventGroup")
    /\ events[e].client # NULL
    /\ Wait(r, [Idle EXCEPT !.at = "findGroup", !.u = events[e].client, !.e = e,
                            !.who = {events[e].client} \cup events[e].vendors])
    /\ UNCHANGED tables

\* The lookup by event_id, then members to add, none to add, or no group.
findGroup(r) ==
    /\ req[r].at = "findGroup"
    /\ \/ \E c \in EventGroups(req[r].e) :
             LET missing == req[r].who \ Members(c) IN
             IF missing = {} THEN Return(r)
             ELSE Wait(r, [req[r] EXCEPT !.at = "seat", !.c = c, !.who = missing])
       \/ EventGroups(req[r].e) = {} /\ Wait(r, [req[r] EXCEPT !.at = "createGroup"])
    /\ UNCHANGED tables

createGroup(r) ==
    /\ req[r].at = "createGroup"
    /\ EventGroups(req[r].e) = {}
    /\ Insert(GroupOf(req[r].u, req[r].e, req[r].who))
    /\ Return(r)
    /\ UNCHANGED <<suite, msgs, todos, events, sockets>>

\* The unique index on event_id refuses the second.
createGroupRefused(r) ==
    /\ req[r].at = "createGroup"
    /\ EventGroups(req[r].e) # {}
    /\ Return(r)
    /\ UNCHANGED tables

\* createMany with skipDuplicates: a member seated meanwhile keeps its row.
seat(r) ==
    /\ req[r].at = "seat"
    /\ convs' = [convs EXCEPT ![req[r].c].members = SeatAll(@, req[r].who)]
    /\ Return(r)
    /\ UNCHANGED <<suite, msgs, todos, events, sockets>>

addGroupParticipant(r, c, u, p) ==
    /\ Called(r, "addParticipant")
    /\ IsParticipant(c, u)
    /\ convs[c].type = "GROUP"
    /\ p \notin Members(c)
    /\ Wait(r, [Idle EXCEPT !.at = "addParticipant", !.u = u, !.c = c, !.who = {p}])
    /\ UNCHANGED tables

addParticipant(r) ==
    /\ req[r].at = "addParticipant"
    /\ req[r].who \cap Members(req[r].c) = {}
    /\ convs' = [convs EXCEPT ![req[r].c].members = SeatAll(@, req[r].who)]
    /\ Return(r)
    /\ UNCHANGED <<suite, msgs, todos, events, sockets>>

\* The unique index on (conversation_id, user_id) refuses the second.
addParticipantRefused(r) ==
    /\ req[r].at = "addParticipant"
    /\ req[r].who \cap Members(req[r].c) # {}
    /\ Return(r)
    /\ UNCHANGED tables

-----------------------------------------------------------------------------
\* sendMessage over HTTP and, with flag, from the gateway's 'message' event.
sendMessage(r, op, c, u) ==
    /\ Called(r, op)
    /\ IsParticipant(c, u)
    /\ Wait(r, [Idle EXCEPT !.at = "insertMessage", !.u = u, !.c = c,
                            !.flag = (op = "gatewaySend")])
    /\ UNCHANGED tables

\* The HTTP route pushes nothing to the sockets; the gateway goes on.
insertMessage(r) ==
    /\ req[r].at = "insertMessage"
    /\ post(req[r].c, req[r].u, 0)
    /\ IF req[r].flag
       THEN Wait(r, [req[r] EXCEPT !.at = "findAudience", !.m = Len(msgs) + 1])
       ELSE Return(r)
    /\ UNCHANGED <<suite, todos, events, sockets>>

markRead(r, c, u) ==
    /\ Called(r, "markRead")
    /\ IsParticipant(c, u)
    /\ Wait(r, [Idle EXCEPT !.at = "resetUnread", !.u = u, !.c = c])
    /\ UNCHANGED tables

\* Mutant: the reader's own messages are marked too.
resetUnreadOwn(r) ==
    LET c == req[r].c  u == req[r].u IN
    /\ req[r].at = "resetUnread"
    /\ convs' = [convs EXCEPT ![c].members = ReadNow(@, u)]
    /\ msgs' = [m \in DOMAIN msgs |->
                  IF msgs[m].conv = c THEN [msgs[m] EXCEPT !.isRead = TRUE] ELSE msgs[m]]
    /\ Return(r)
    /\ UNCHANGED <<suite, todos, events, sockets>>

\* One transaction: the reader's count, and isRead, which all participants
\* share, on every message of the others.
resetUnread(r) ==
    LET c == req[r].c  u == req[r].u IN
    /\ req[r].at = "resetUnread"
    /\ convs' = [convs EXCEPT ![c].members = ReadNow(@, u)]
    /\ msgs' = [m \in DOMAIN msgs |->
                  IF msgs[m].conv = c /\ msgs[m].sender # u
                  THEN [msgs[m] EXCEPT !.isRead = TRUE] ELSE msgs[m]]
    /\ Return(r)
    /\ UNCHANGED <<suite, todos, events, sockets>>

ConversationsNext ==
    \E r \in RequestId :
        \/ \E u \in Client, v \in Seller :
              \/ \E b \in Booking \cup {NULL} : createDirectConversation(r, u, v, b)
              \/ getOrCreateDirect(r, u, v)
        \/ createDirect(r) \/ createDirectRefused(r)
        \/ \E e \in Event : createGroupConversation(r, e) \/ getOrCreateEventGroup(r, e)
        \/ findGroup(r) \/ createGroup(r) \/ createGroupRefused(r) \/ seat(r)
        \/ \E c \in DOMAIN convs, u, p \in User : addGroupParticipant(r, c, u, p)
        \/ addParticipant(r) \/ addParticipantRefused(r)
        \/ \E c \in DOMAIN convs, u \in User :
              \/ \E op \in {"send", "gatewaySend"} : sendMessage(r, op, c, u)
              \/ markRead(r, c, u)
        \/ insertMessage(r) \/ resetUnread(r)
=============================================================================
