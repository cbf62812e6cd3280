---------------------------- MODULE InboxSafety -----------------------------
(***************************************************************************)
(* The safety properties of Inbox, for any number of users, conversations, *)
(* messages and requests.  Each is proved from what a step may do to the   *)
(* chat: seat newcomers, post a message, mark a conversation read, or      *)
(* create, tick and delete a to-do (StepEffect).                           *)
(***************************************************************************)
EXTENDS InboxTypes, FiniteSetTheorems

\* Newcomers are seated, in old conversations or a new one; the rest stays.
Newcomers ==
    /\ UNCHANGED <<msgs, todos>>
    /\ \A c \in DOMAIN convs' : \A u \in User :
          IF c \in DOMAIN convs /\ convs[c].members[u] # NULL
          THEN convs'[c].members[u] = convs[c].members[u]
          ELSE convs'[c].members[u] # NULL => convs'[c].members[u] = Seat

Effect ==
    \/ Newcomers
    \/ \E r \in RequestId :
          insertMessage(r) \/ resetUnread(r) \/ insertTodo(r) \/ tick(r) \/ removeTodo(r)

\* A step that writes neither conversations nor messages nor to-dos seats nobody.
LEMMA NobodySeated ==
    ASSUME UNCHANGED chatTables
    PROVE  Newcomers
  BY DEF chatTables, Newcomers

\* Adding participants to a conversation.
LEMMA SomeSeated ==
    ASSUME TypeInv, NEW c \in DOMAIN convs, NEW who, UNCHANGED <<msgs, todos>>,
           MembersBecome(c, SeatAll(convs[c].members, who))
    PROVE  Newcomers
  <1>1. /\ DOMAIN convs' = DOMAIN convs
        /\ convs'[c].members = SeatAll(convs[c].members, who)
        /\ \A d \in DOMAIN convs : d # c => convs'[d] = convs[d]
    BY SeatWritten
  <1>2. ASSUME NEW d \in DOMAIN convs, NEW u \in User
        PROVE  IF convs[d].members[u] # NULL
               THEN convs'[d].members[u] = convs[d].members[u]
               ELSE convs'[d].members[u] # NULL => convs'[d].members[u] = Seat
    BY <1>1 DEF SeatAll
  <1> QED BY <1>1, <1>2 DEF Newcomers

\* Creating a conversation.
LEMMA NewSeated ==
    ASSUME TypeInv, NEW conv \in Conversation, NEW who, UNCHANGED <<msgs, todos>>,
           conv.members = SeatAll(NoMembers, who), Insert(conv)
    PROVE  Newcomers
  <1>1. convs \in Seq(Conversation) /\ convs' = Append(convs, conv)
    BY DEF TypeInv, TablesTyped, Insert
  <1>2. /\ DOMAIN convs' = DOMAIN convs \cup {Len(convs) + 1}
        /\ Len(convs) + 1 \notin DOMAIN convs
        /\ convs'[Len(convs) + 1] = conv
        /\ \A d \in DOMAIN convs : convs'[d] = convs[d]
    BY <1>1, RowAppended
  <1>3. ASSUME NEW u \in User, conv.members[u] # NULL
        PROVE  conv.members[u] = Seat
    BY <1>3 DEF SeatAll, NoMembers
  <1>4. ASSUME NEW c \in DOMAIN convs', NEW u \in User
        PROVE  IF c \in DOMAIN convs /\ convs[c].members[u] # NULL
               THEN convs'[c].members[u] = convs[c].members[u]
               ELSE convs'[c].members[u] # NULL => convs'[c].members[u] = Seat
    <2>1. CASE c \in DOMAIN convs
      <3>1. convs[c].members = convs'[c].members
        BY <1>2, <2>1
      <3> QED BY <2>1, <3>1
    <2>2. CASE c = Len(convs) + 1
      <3>1. convs'[c].members = conv.members
        BY <1>2, <2>2
      <3> QED BY <1>2, <1>3, <2>2, <3>1
    <2> QED BY <1>2, <2>1, <2>2
  <1> QED BY <1>4 DEF Newcomers

\* What a step of MessagingService does to the chat.
LEMMA ConversationsEffect ==
    ASSUME TypeInv, ConversationsNext
    PROVE  Effect
  <1>1. CASE UNCHANGED chatTables
    BY <1>1, NobodySeated DEF Effect
  <1>2. ASSUME NEW r \in RequestId, createDirect(r) PROVE Newcomers
    <2> DEFINE conv == DirectOf(req[r].u, req[r].v, req[r].b)
    <2>1. req[r].u \in Client /\ req[r].v \in Seller /\ req[r].b \in Booking \cup {NULL}
      BY <1>2 DEF createDirect, TypeInv, RequestsCarry, Carries, VendorCarriers, Slot
    <2>2. conv.members \in [User -> Participant \cup {NULL}]
      BY SeatAllTyped DEF DirectOf, NoMembers, TypeInv, TablesTyped
    <2>3. conv \in Conversation /\ conv.members = SeatAll(NoMembers, {req[r].u, req[r].v})
      BY <2>1, <2>2 DEF DirectOf, Conversation
    <2> HIDE DEF conv
    <2>4. Insert(conv) /\ UNCHANGED <<msgs, todos>>
      BY <1>2 DEF createDirect, conv
    <2> QED BY <2>3, <2>4, NewSeated
  <1>3. ASSUME NEW r \in RequestId, createGroup(r) PROVE Newcomers
    <2> DEFINE conv == GroupOf(req[r].u, req[r].e, req[r].who)
    <2>1. req[r].u \in Client /\ req[r].e \in Event
      BY <1>3 DEF createGroup, TypeInv, RequestsCarry, Carries
    <2>2. conv.members \in [User -> Participant \cup {NULL}]
      BY SeatAllTyped DEF GroupOf, NoMembers, TypeInv, TablesTyped
    <2>3. conv \in Conversation /\ conv.members = SeatAll(NoMembers, req[r].who)
      BY <2>1, <2>2 DEF GroupOf, Conversation
    <2> HIDE DEF conv
    <2>4. Insert(conv) /\ UNCHANGED <<msgs, todos>>
      BY <1>3 DEF createGroup, conv
    <2> QED BY <2>3, <2>4, NewSeated
  <1>4. ASSUME NEW r \in RequestId, seat(r) \/ addParticipant(r) PROVE Newcomers
    <2>1. req[r].c \in DOMAIN convs
      BY <1>4 DEF seat, addParticipant, TypeInv, RequestsCarry, Carries, ConvCarriers
    <2>2. /\ MembersBecome(req[r].c, SeatAll(convs[req[r].c].members, req[r].who))
          /\ UNCHANGED <<msgs, todos>>
      BY <1>4 DEF seat, addParticipant, MembersBecome
    <2> QED BY <2>1, <2>2, SomeSeated
  <1>5. \/ UNCHANGED tables
        \/ \E r \in RequestId : \/ createDirect(r) \/ createGroup(r) \/ seat(r)
                               \/ addParticipant(r) \/ insertMessage(r) \/ resetUnread(r)
    BY DEF ConversationsNext, createDirectConversation, getOrCreateDirect, createDirectRefused,
           createGroupConversation, getOrCreateEventGroup, findGroup, createGroupRefused,
           addGroupParticipant, addParticipantRefused, sendMessage, markRead
  <1>6. UNCHANGED tables => UNCHANGED chatTables
    BY DEF tables, chatTables
  <1> QED BY <1>1, <1>2, <1>3, <1>4, <1>5, <1>6 DEF Effect

\* What a step does to the chat.
LEMMA StepEffect ==
    ASSUME TypeInv, [Next]_vars
    PROVE  Effect
  <1>1. CASE UNCHANGED chatTables
    BY <1>1, NobodySeated DEF Effect
  <1>2. CASE ConversationsNext
    BY <1>2, ConversationsEffect
  <1>3. CASE EventPlanningNext
    <2>1. ASSUME NEW r \in RequestId, seatVendor(r) PROVE Newcomers
      <3>1. req[r].c \in DOMAIN convs
        BY <2>1 DEF seatVendor, TypeInv, RequestsCarry, Carries, ConvCarriers
      <3>2. /\ MembersBecome(req[r].c, SeatAll(convs[req[r].c].members, {req[r].v}))
            /\ UNCHANGED <<msgs, todos>>
        BY <2>1 DEF seatVendor, MembersBecome
      <3> QED BY <3>1, <3>2, SomeSeated
    <2>2. \/ UNCHANGED tables
          \/ UNCHANGED chatTables
          \/ \E r \in RequestId : seatVendor(r)
      BY ZenonT(30), <1>3
         DEF EventPlanningNext, create, update, setStatus, cancel, setCancelled, addVendor,
             addListing, insertVendor, insertVendorRefused, findEventGroup, removeVendor,
             deleteVendor, deleteVendorRefused
    <2>3. UNCHANGED tables => UNCHANGED chatTables
      BY DEF tables, chatTables
    <2> QED BY <1>1, <2>1, <2>2, <2>3 DEF Effect
  <1>4. CASE GroupTodosNext
    <2>1. \/ UNCHANGED tables
          \/ \E r \in RequestId : insertTodo(r) \/ tick(r) \/ removeTodo(r)
      BY <1>4 DEF GroupTodosNext, createTodo, findAssignees, toggleMyTask, tickRefused,
             deleteTodo, removeTodoRefused
    <2>2. UNCHANGED tables => UNCHANGED chatTables
      BY DEF tables, chatTables
    <2> QED BY <1>1, <2>1, <2>2 DEF Effect
  <1>5. CASE ChatGatewayNext
    <2>1. UNCHANGED tables \/ UNCHANGED chatTables
      BY <1>5 DEF ChatGatewayNext, handleConnection, handleDisconnect, handleJoin, joinRoom,
             handleLeave, findAudience, emitMessage
    <2>2. UNCHANGED tables => UNCHANGED chatTables
      BY DEF tables, chatTables
    <2> QED BY <1>1, <2>1, <2>2
  <1>6. CASE (\E r \in RequestId : Fail(r)) \/ UNCHANGED vars
    <2>1. UNCHANGED tables
      BY <1>6 DEF Fail, vars
    <2> QED BY <1>1, <2>1 DEF tables, chatTables
  <1> QED BY <1>2, <1>3, <1>4, <1>5, <1>6 DEF Next

-----------------------------------------------------------------------------
(* Counts, receipts and clocks.                                            *)

\* A message of u in c is posted.
Posted == \E c \in DOMAIN convs : \E u \in Members(c), t \in Nat : post(c, u, t)

\* Participant u reads conversation c.
MarksRead(c, u) ==
    /\ DOMAIN convs' = DOMAIN convs
    /\ convs'[c].members = ReadNow(convs[c].members, u)
    /\ \A d \in DOMAIN convs : d # c => convs'[d] = convs[d]
    /\ DOMAIN msgs' = DOMAIN msgs /\ Len(msgs') = Len(msgs)
    /\ \A m \in DOMAIN msgs :
          /\ msgs'[m].conv = msgs[m].conv /\ msgs'[m].sender = msgs[m].sender
          /\ msgs'[m].todo = msgs[m].todo
          /\ msgs'[m].isRead = (msgs[m].isRead \/ (msgs[m].conv = c /\ msgs[m].sender # u))

\* Nothing moves but what cards refer to.
Relabelled ==
    /\ convs' = convs
    /\ DOMAIN msgs' = DOMAIN msgs /\ Len(msgs') = Len(msgs)
    /\ \A m \in DOMAIN msgs :
          /\ msgs'[m].conv = msgs[m].conv /\ msgs'[m].sender = msgs[m].sender
          /\ msgs'[m].isRead = msgs[m].isRead

\* What a participant row and the table of messages are made of.
LEMMA RowTyped ==
    ASSUME TypeInv
    PROVE  /\ Len(msgs) \in Nat /\ DOMAIN msgs = 1 .. Len(msgs)
           /\ \A c \in DOMAIN convs : \A u \in User : convs[c].members[u] # NULL =>
                 /\ convs[c].members[u].unread \in Nat
                 /\ convs[c].members[u].joined \in Nat
                 /\ convs[c].members[u].read \in Nat
           /\ \A m \in DOMAIN msgs : /\ msgs[m].conv \in DOMAIN convs
                                     /\ msgs[m].sender \in User /\ msgs[m].isRead \in BOOLEAN
  <1>1. msgs \in Seq(Message)
    BY DEF TypeInv, TablesTyped
  <1>2. Len(msgs) \in Nat /\ DOMAIN msgs = 1 .. Len(msgs)
    BY <1>1, LenProperties
  <1>3. ASSUME NEW m \in DOMAIN msgs
        PROVE  /\ msgs[m].conv \in DOMAIN convs
               /\ msgs[m].sender \in User /\ msgs[m].isRead \in BOOLEAN
    <2>1. msgs[m] \in Message
      BY <1>1
    <2> QED BY <2>1 DEF Message, TypeInv, RowsSound
  <1>4. ASSUME NEW c \in DOMAIN convs, NEW u \in User, convs[c].members[u] # NULL
        PROVE  convs[c].members[u] \in Participant
    <2>1. convs[c].members \in [User -> Participant \cup {NULL}]
      BY MembersTyped
    <2> QED BY <1>4, <2>1
  <1>5. ASSUME NEW p \in Participant
        PROVE  p.unread \in Nat /\ p.joined \in Nat /\ p.read \in Nat
    BY DEF Participant
  <1> QED BY <1>2, <1>3, <1>4, <1>5

\* What resetUnread writes.
LEMMA ReadWritten ==
    ASSUME TypeInv, NEW r \in RequestId, resetUnread(r)
    PROVE  /\ req[r].c \in DOMAIN convs /\ req[r].u \in Members(req[r].c)
           /\ MarksRead(req[r].c, req[r].u) /\ todos' = todos
  <1> DEFINE c == req[r].c  u == req[r].u
  <1>1. c \in DOMAIN convs /\ u \in Members(c)
    BY DEF resetUnread, TypeInv, RequestsCarry, Carries, ConvCarriers, MemberCarriers
  <1>2. /\ MembersBecome(c, ReadNow(convs[c].members, u))
        /\ msgs' = [m \in DOMAIN msgs |-> IF msgs[m].conv = c /\ msgs[m].sender # u
                                          THEN [msgs[m] EXCEPT !.isRead = TRUE] ELSE msgs[m]]
        /\ todos' = todos
    BY DEF resetUnread, MembersBecome
  <1> HIDE DEF c, u
  <1>3. /\ DOMAIN convs' = DOMAIN convs
        /\ convs'[c].members = ReadNow(convs[c].members, u)
        /\ \A d \in DOMAIN convs : d # c => convs'[d] = convs[d]
    BY <1>1, <1>2, ResetWritten
  <1>4. ASSUME NEW m \in DOMAIN msgs
        PROVE  /\ msgs'[m] \in Message
               /\ msgs'[m].conv = msgs[m].conv /\ msgs'[m].sender = msgs[m].sender
               /\ msgs'[m].todo = msgs[m].todo
               /\ msgs'[m].isRead = (msgs[m].isRead \/ (msgs[m].conv = c /\ msgs[m].sender # u))
    <2>1. msgs[m] \in Message
      BY DEF TypeInv, TablesTyped
    <2>2. CASE msgs[m].conv = c /\ msgs[m].sender # u
      <3>1. msgs'[m] = [msgs[m] EXCEPT !.isRead = TRUE]
        BY <1>2, <2>2
      <3> QED BY <2>1, <2>2, <3>1 DEF Message
    <2>3. CASE ~(msgs[m].conv = c /\ msgs[m].sender # u)
      <3>1. msgs'[m] = msgs[m]
        BY <1>2, <2>3
      <3>2. msgs[m].isRead \in BOOLEAN
        BY <2>1 DEF Message
      <3> QED BY <2>1, <2>3, <3>1, <3>2
    <2> QED BY <2>2, <2>3
  <1>5. msgs \in Seq(Message) /\ msgs' \in [DOMAIN msgs -> Message]
    BY <1>2, <1>4 DEF TypeInv, TablesTyped
  <1>6. DOMAIN msgs' = DOMAIN msgs /\ Len(msgs') = Len(msgs)
    BY <1>2, <1>5, RowsMapped
  <1> QED BY <1>1, <1>2, <1>3, <1>4, <1>6 DEF MarksRead, c, u

\* What a step does to messages, counts and clocks.
LEMMA ClockSteps ==
    ASSUME TypeInv, [Next]_vars
    PROVE  \/ Newcomers \/ Posted \/ Relabelled
           \/ \E c \in DOMAIN convs : \E u \in Members(c) : MarksRead(c, u)
  <1>1. ASSUME NEW r \in RequestId, insertMessage(r) \/ insertTodo(r)
        PROVE  Posted
    <2>1. req[r].c \in DOMAIN convs /\ req[r].u \in Members(req[r].c)
      BY <1>1 DEF insertMessage, insertTodo, TypeInv, RequestsCarry, Carries, ConvCarriers,
             MemberCarriers
    <2>2. Len(todos) \in Nat
      BY LenProperties DEF TypeInv, TablesTyped
    <2>3. post(req[r].c, req[r].u, 0) \/ post(req[r].c, req[r].u, Len(todos) + 1)
      BY <1>1 DEF insertMessage, insertTodo
    <2>4. ASSUME NEW t \in Nat, post(req[r].c, req[r].u, t) PROVE Posted
      BY <2>1, <2>4 DEF Posted
    <2> QED BY <2>2, <2>3, <2>4
  <1>2. ASSUME NEW r \in RequestId, resetUnread(r)
        PROVE  \E c \in DOMAIN convs : \E u \in Members(c) : MarksRead(c, u)
    BY <1>2, ReadWritten
  <1>3. ASSUME NEW r \in RequestId, tick(r) PROVE Relabelled
    BY <1>3 DEF tick, Relabelled
  <1>4. ASSUME NEW r \in RequestId, removeTodo(r) PROVE Relabelled
    BY <1>4, RemoveWritten DEF Relabelled
  <1> QED BY StepEffect, <1>1, <1>2, <1>3, <1>4 DEF Effect

\* u posts message t in c: the counts of the others move and nothing else does.
MovesCounts(c, u, t) ==
    /\ DOMAIN convs' = DOMAIN convs
    /\ Len(msgs') = Len(msgs) + 1
    /\ DOMAIN msgs' = DOMAIN msgs \cup {Len(msgs) + 1}
    /\ Len(msgs) + 1 \notin DOMAIN msgs
    /\ msgs'[Len(msgs) + 1] = [conv |-> c, sender |-> u, isRead |-> FALSE, todo |-> t]
    /\ \A m \in DOMAIN msgs : msgs'[m] = msgs[m]
    /\ \A d \in DOMAIN convs : \A p \in User :
          /\ convs'[d].members[p] = NULL <=> convs[d].members[p] = NULL
          /\ convs[d].members[p] # NULL =>
                /\ convs'[d].members[p].joined = convs[d].members[p].joined
                /\ convs'[d].members[p].read = convs[d].members[p].read
                /\ convs'[d].members[p].unread
                      = convs[d].members[p].unread + (IF d # c \/ p = u THEN 0 ELSE 1)

\* What posting does to the rows of participants.
LEMMA PostRows ==
    ASSUME TypeInv, NEW c \in DOMAIN convs, NEW u \in Members(c), NEW t \in Nat, post(c, u, t)
    PROVE  MovesCounts(c, u, t)
  <1>1. u \in User /\ convs[c].members \in [User -> Participant \cup {NULL}]
    BY MembersTyped DEF Members
  <1>2. /\ DOMAIN convs' = DOMAIN convs
        /\ Len(msgs') = Len(msgs) + 1
        /\ DOMAIN msgs' = DOMAIN msgs \cup {Len(msgs) + 1}
        /\ Len(msgs) + 1 \notin DOMAIN msgs
        /\ msgs'[Len(msgs) + 1] = [conv |-> c, sender |-> u, isRead |-> FALSE, todo |-> t]
        /\ \A m \in DOMAIN msgs : msgs'[m] = msgs[m]
        /\ convs'[c].members = Bump(convs[c].members, u)
        /\ \A d \in DOMAIN convs : d # c => convs'[d] = convs[d]
    BY <1>1, PostWritten
  <1>3. ASSUME NEW p \in User
        PROVE  /\ convs'[c].members[p] = NULL <=> convs[c].members[p] = NULL
               /\ convs[c].members[p] # NULL =>
                     /\ convs'[c].members[p].joined = convs[c].members[p].joined
                     /\ convs'[c].members[p].read = convs[c].members[p].read
                     /\ convs'[c].members[p].unread
                           = convs[c].members[p].unread + (IF p = u THEN 0 ELSE 1)
    BY <1>1, <1>2, BumpTyped
  <1>4. ASSUME NEW d \in DOMAIN convs, d # c, NEW p \in User, convs[d].members[p] # NULL
        PROVE  convs[d].members[p].unread + 0 = convs[d].members[p].unread
    BY <1>4, RowTyped
  <1> QED BY <1>2, <1>3, <1>4 DEF MovesCounts

\* What reading does to them.
LEMMA ReadRows ==
    ASSUME TypeInv, NEW c \in DOMAIN convs, NEW u \in Members(c), MarksRead(c, u)
    PROVE  /\ convs'[c].members[u] # NULL
           /\ convs'[c].members[u].unread = 0
           /\ convs'[c].members[u].read = Len(msgs)
           /\ convs'[c].members[u].joined = convs[c].members[u].joined
           /\ \A d \in DOMAIN convs : \A p \in User :
                 d # c \/ p # u => convs'[d].members[p] = convs[d].members[p]
  <1>1. /\ u \in User /\ convs[c].members[u] # NULL
        /\ convs[c].members \in [User -> Participant \cup {NULL}] /\ msgs \in Seq(Message)
    BY MembersTyped DEF Members, TypeInv, TablesTyped
  <1>2. /\ convs'[c].members = ReadNow(convs[c].members, u)
        /\ \A d \in DOMAIN convs : d # c => convs'[d] = convs[d]
    BY DEF MarksRead
  <1>3. /\ ReadNow(convs[c].members, u)[u].unread = 0
        /\ ReadNow(convs[c].members, u)[u].read = Len(msgs)
        /\ ReadNow(convs[c].members, u)[u].joined = convs[c].members[u].joined
        /\ \A p \in User : p # u => ReadNow(convs[c].members, u)[p] = convs[c].members[p]
        /\ ReadNow(convs[c].members, u)[u] # NULL
    BY <1>1, ReadNowTyped
  <1> QED BY <1>2, <1>3

-----------------------------------------------------------------------------
\* Participants joined and read in the past.
ClocksPast ==
    \A c \in DOMAIN convs : \A u \in Members(c) :
        /\ convs[c].members[u].joined <= Len(msgs)
        /\ convs[c].members[u].read <= Len(msgs)

\* No clock runs ahead of the messages.
LEMMA ClocksStep ==
    ASSUME TypeInv, [Next]_vars, ClocksPast
    PROVE  ClocksPast'
  <1>1. TypeInv'
    BY NextTypes
  <1> SUFFICES ASSUME NEW c \in DOMAIN convs', NEW u \in User, convs'[c].members[u] # NULL
               PROVE  /\ convs'[c].members[u].joined <= Len(msgs')
                      /\ convs'[c].members[u].read <= Len(msgs')
    BY DEF ClocksPast, Members
  <1>2. /\ Len(msgs) \in Nat
        /\ \A d \in DOMAIN convs : \A p \in User : convs[d].members[p] # NULL =>
              /\ convs[d].members[p].joined \in Nat /\ convs[d].members[p].read \in Nat
              /\ convs[d].members[p].joined <= Len(msgs)
              /\ convs[d].members[p].read <= Len(msgs)
    BY RowTyped DEF ClocksPast, Members
  <1>3. CASE Newcomers
    <2>1. msgs' = msgs
      BY <1>3 DEF Newcomers
    <2>2. CASE c \in DOMAIN convs /\ convs[c].members[u] # NULL
      <3>1. convs'[c].members[u] = convs[c].members[u]
        BY <1>3, <2>2 DEF Newcomers
      <3> QED BY <1>2, <2>1, <2>2, <3>1
    <2>3. CASE ~(c \in DOMAIN convs /\ convs[c].members[u] # NULL)
      <3>1. convs'[c].members[u] = Seat
        BY <1>3, <2>3 DEF Newcomers
      <3>2. Seat.joined = Len(msgs) /\ Seat.read = 0
        BY DEF Seat
      <3> QED BY <1>2, <2>1, <3>1, <3>2
    <2> QED BY <2>2, <2>3
  <1>4. CASE Posted
    <2>1. PICK d \in DOMAIN convs : \E p \in Members(d), t \in Nat : post(d, p, t)
      BY <1>4 DEF Posted
    <2>0. PICK p \in Members(d), t \in Nat : MovesCounts(d, p, t)
      BY <2>1, PostRows
    <2>2. /\ c \in DOMAIN convs /\ convs[c].members[u] # NULL
          /\ convs'[c].members[u].joined = convs[c].members[u].joined
          /\ convs'[c].members[u].read = convs[c].members[u].read
          /\ Len(msgs') = Len(msgs) + 1
      BY <2>0 DEF MovesCounts
    <2> QED BY <1>2, <2>2
  <1>5. CASE Relabelled
    BY <1>2, <1>5 DEF Relabelled
  <1>6. ASSUME NEW d \in DOMAIN convs, NEW p \in Members(d), MarksRead(d, p)
        PROVE  /\ convs'[c].members[u].joined <= Len(msgs')
               /\ convs'[c].members[u].read <= Len(msgs')
    <2>1. c \in DOMAIN convs /\ Len(msgs') = Len(msgs)
      BY <1>6 DEF MarksRead
    <2>2. CASE c = d /\ u = p
      <3>1. /\ convs'[c].members[u].read = Len(msgs)
            /\ convs'[c].members[u].joined = convs[c].members[u].joined
        BY <1>6, <2>2, ReadRows
      <3>2. convs[c].members[u] # NULL
        BY <1>6, <2>2 DEF Members
      <3> QED BY <1>2, <2>1, <3>1, <3>2
    <2>3. CASE ~(c = d /\ u = p)
      <3>1. convs'[c].members[u] = convs[c].members[u]
        BY <1>6, <2>1, <2>3, ReadRows
      <3> QED BY <1>2, <2>1, <3>1
    <2> QED BY <2>2, <2>3
  <1> QED BY <1>3, <1>4, <1>5, <1>6, ClockSteps

\* Someone other than the sender of m has read its conversation since.
SeenByOther(m) ==
    \E u \in User :
        /\ convs[msgs[m].conv].members[u] # NULL /\ u # msgs[m].sender
        /\ convs[msgs[m].conv].members[u].read >= m

\* The flag of each message keeps to what the clocks say.
LEMMA ReceiptsStep ==
    ASSUME TypeInv, [Next]_vars, ClocksPast, ReceiptsTruthful
    PROVE  ReceiptsTruthful'
  <1>1. TypeInv' /\ Kept
    BY NextTypes
  <1>2. \A m \in DOMAIN msgs : msgs[m].isRead <=> SeenByOther(m)
    BY DEF ReceiptsTruthful, SeenByOther, Members
  <1>3. SUFFICES ASSUME NEW m \in DOMAIN msgs'
                 PROVE  msgs'[m].isRead <=> SeenByOther(m)'
    BY DEF ReceiptsTruthful, SeenByOther, Members
  <1> DEFINE c == msgs[m].conv
  <1>4. /\ Len(msgs) \in Nat /\ DOMAIN msgs = 1 .. Len(msgs)
        /\ \A d \in DOMAIN convs : \A u \in User : convs[d].members[u] # NULL =>
              convs[d].members[u].read \in Nat /\ convs[d].members[u].read <= Len(msgs)
        /\ m \in DOMAIN msgs => c \in DOMAIN convs /\ msgs[m].isRead \in BOOLEAN
    BY RowTyped DEF ClocksPast, Members
  <1>5. m \in DOMAIN msgs => c \in DOMAIN convs'
    BY <1>1, <1>4 DEF Kept, ConvsKept
  <1>6. CASE Newcomers
    <2>1. msgs' = msgs /\ m \in DOMAIN msgs
      BY <1>6 DEF Newcomers
    <2>2. ASSUME NEW u \in User
          PROVE  convs'[c].members[u] # NULL /\ convs'[c].members[u].read >= m
                    <=> convs[c].members[u] # NULL /\ convs[c].members[u].read >= m
      <3>1. CASE convs[c].members[u] # NULL
        <4>1. convs'[c].members[u] = convs[c].members[u]
          BY <1>4, <1>5, <1>6, <2>1, <3>1 DEF Newcomers
        <4> QED BY <4>1
      <3>2. CASE convs[c].members[u] = NULL
        <4>1. convs'[c].members[u] # NULL => convs'[c].members[u] = Seat
          BY <1>5, <1>6, <2>1, <3>2 DEF Newcomers
        <4>2. Seat.read = 0 /\ ~(0 >= m)
          BY <1>4, <2>1 DEF Seat
        <4> QED BY <3>2, <4>1, <4>2
      <3> QED BY <3>1, <3>2
    <2>3. msgs'[m].conv = c /\ msgs'[m].sender = msgs[m].sender /\ msgs'[m].isRead = msgs[m].isRead
      BY <2>1
    <2> HIDE DEF c
    <2>4. msgs[m].isRead <=> SeenByOther(m)
      BY <1>2, <2>1
    <2> QED BY <2>2, <2>3, <2>4 DEF SeenByOther, c
  <1>7. CASE Posted
    <2>1. PICK d \in DOMAIN convs : \E p \in Members(d), t \in Nat : post(d, p, t)
      BY <1>7 DEF Posted
    <2>0. PICK p \in Members(d), t \in Nat : MovesCounts(d, p, t)
      BY <2>1, PostRows
    <2>2. /\ DOMAIN msgs' = DOMAIN msgs \cup {Len(msgs) + 1}
          /\ msgs'[Len(msgs) + 1] = [conv |-> d, sender |-> p, isRead |-> FALSE, todo |-> t]
          /\ \A i \in DOMAIN msgs : msgs'[i] = msgs[i]
          /\ \A i \in DOMAIN convs : \A u \in User :
                /\ convs'[i].members[u] = NULL <=> convs[i].members[u] = NULL
                /\ convs[i].members[u] # NULL =>
                      convs'[i].members[u].read = convs[i].members[u].read
      BY <2>0 DEF MovesCounts
    <2>3. CASE m = Len(msgs) + 1
      <3>1. msgs'[m].conv = d /\ msgs'[m].isRead = FALSE
        BY <2>2, <2>3
      <3>2. ASSUME NEW u \in User, convs'[d].members[u] # NULL
            PROVE  ~(convs'[d].members[u].read >= m)
        BY <1>4, <2>2, <2>3, <3>2
      <3> QED BY <3>1, <3>2 DEF SeenByOther
    <2>4. CASE m \in DOMAIN msgs
      <3>1. msgs'[m] = msgs[m] /\ (msgs[m].isRead <=> SeenByOther(m))
        BY <1>2, <2>2, <2>4
      <3>2. c \in DOMAIN convs
        BY <1>4, <2>4
      <3>3. \A u \in User : /\ convs'[c].members[u] = NULL <=> convs[c].members[u] = NULL
                            /\ convs[c].members[u] # NULL =>
                                  convs'[c].members[u].read = convs[c].members[u].read
        BY <2>2, <3>2
      <3> QED BY <3>1, <3>3 DEF SeenByOther
    <2> QED BY <2>2, <2>3, <2>4
  <1>8. CASE Relabelled
    <2>1. /\ m \in DOMAIN msgs /\ convs' = convs /\ msgs'[m].conv = msgs[m].conv
          /\ msgs'[m].sender = msgs[m].sender /\ msgs'[m].isRead = msgs[m].isRead
      BY <1>8 DEF Relabelled
    <2>2. msgs[m].isRead <=> SeenByOther(m)
      BY <1>2, <2>1
    <2> QED BY <2>1, <2>2 DEF SeenByOther
  <1>9. ASSUME NEW d \in DOMAIN convs, NEW p \in Members(d), MarksRead(d, p)
        PROVE  msgs'[m].isRead <=> SeenByOther(m)'
    <2>1. /\ m \in DOMAIN msgs /\ msgs'[m].conv = c /\ msgs'[m].sender = msgs[m].sender
          /\ msgs'[m].isRead = (msgs[m].isRead \/ (c = d /\ msgs[m].sender # p))
      BY <1>9 DEF MarksRead
    <2>2. /\ c \in DOMAIN convs /\ p \in User /\ m <= Len(msgs)
          /\ convs[d].members[p] # NULL
      BY <1>4, <2>1 DEF Members
    <2>3. (msgs[m].isRead <=> SeenByOther(m)) /\ msgs[m].isRead \in BOOLEAN
      BY <1>2, <1>4, <2>1
    <2>4. /\ convs'[d].members[p] # NULL
          /\ convs'[d].members[p].read = Len(msgs)
          /\ \A u \in User : c # d \/ u # p => convs'[c].members[u] = convs[c].members[u]
      BY <1>9, <2>2, ReadRows
    <2> HIDE DEF c
    <2>5. SeenByOther(m) <=> \E u \in User : /\ convs[c].members[u] # NULL /\ u # msgs[m].sender
                                             /\ convs[c].members[u].read >= m
      BY DEF SeenByOther, c
    <2>6. SeenByOther(m)' <=> \E u \in User : /\ convs'[c].members[u] # NULL
                                              /\ u # msgs[m].sender
                                              /\ convs'[c].members[u].read >= m
      BY <2>1 DEF SeenByOther
    <2>7. CASE c = d /\ msgs[m].sender # p
      BY <1>4, <2>1, <2>2, <2>4, <2>6, <2>7
    <2>8. CASE ~(c = d /\ msgs[m].sender # p)
      <3>1. \A u \in User : u # msgs[m].sender => convs'[c].members[u] = convs[c].members[u]
        BY <2>4, <2>8
      <3>2. msgs'[m].isRead <=> msgs[m].isRead
        BY <2>1, <2>8
      <3> QED BY <2>3, <2>5, <2>6, <3>1, <3>2
    <2> QED BY <2>7, <2>8
  <1> QED BY <1>6, <1>7, <1>8, <1>9, ClockSteps

\* The messages u has not seen are finitely many.
LEMMA UnseenFinite ==
    ASSUME TypeInv, NEW c, NEW u
    PROVE  IsFiniteSet(Unseen(c, u))
  <1>1. Unseen(c, u) \subseteq 1 .. Len(msgs) /\ Len(msgs) \in Nat
    BY RowTyped DEF Unseen
  <1>2. IsFiniteSet(1 .. Len(msgs))
    BY <1>1, FS_Interval
  <1> QED BY <1>1, <1>2, FS_Subset

\* The counts move with the messages they count.
LEMMA UnreadStep ==
    ASSUME TypeInv, [Next]_vars, ClocksPast, UnreadCountsUnseen
    PROVE  UnreadCountsUnseen'
  <1>1. SUFFICES ASSUME NEW c \in DOMAIN convs', NEW u \in User, convs'[c].members[u] # NULL
                 PROVE  convs'[c].members[u].unread = Cardinality(Unseen(c, u)')
    BY DEF UnreadCountsUnseen, Members
  <1>2. /\ Len(msgs) \in Nat /\ DOMAIN msgs = 1 .. Len(msgs)
        /\ \A d \in DOMAIN convs : \A p \in User : convs[d].members[p] # NULL =>
              /\ convs[d].members[p].joined \in Nat /\ convs[d].members[p].read \in Nat
              /\ convs[d].members[p].unread \in Nat
              /\ convs[d].members[p].joined <= Len(msgs)
              /\ convs[d].members[p].read <= Len(msgs)
    BY RowTyped DEF ClocksPast, Members
  <1>3. ASSUME NEW d \in DOMAIN convs, convs[d].members[u] # NULL
        PROVE  convs[d].members[u].unread = Cardinality(Unseen(d, u))
    BY <1>3 DEF UnreadCountsUnseen, Members
  <1>4. Cardinality({}) = 0
    BY FS_EmptySet
  <1>5. CASE Newcomers
    <2>1. msgs' = msgs
      BY <1>5 DEF Newcomers
    <2>2. CASE c \in DOMAIN convs /\ convs[c].members[u] # NULL
      <3>1. convs'[c].members[u] = convs[c].members[u]
        BY <1>5, <2>2 DEF Newcomers
      <3>2. Unseen(c, u)' = Unseen(c, u)
        BY <2>1, <3>1 DEF Unseen
      <3> QED BY <1>3, <2>2, <3>1, <3>2
    <2>3. CASE ~(c \in DOMAIN convs /\ convs[c].members[u] # NULL)
      <3>1. convs'[c].members[u] = Seat
        BY <1>1, <1>5, <2>3 DEF Newcomers
      <3>2. Seat.joined = Len(msgs) /\ Seat.unread = 0
        BY DEF Seat
      <3>3. \A m \in DOMAIN msgs : ~(m > Len(msgs))
        BY <1>2
      <3>4. Unseen(c, u)' = {}
        BY <2>1, <3>1, <3>2, <3>3 DEF Unseen
      <3> QED BY <1>4, <3>1, <3>2, <3>4
    <2> QED BY <2>2, <2>3
  <1>6. CASE Posted
    <2>1. PICK d \in DOMAIN convs : \E p \in Members(d), t \in Nat : post(d, p, t)
      BY <1>6 DEF Posted
    <2>2. PICK p \in Members(d), t \in Nat : MovesCounts(d, p, t)
      BY <2>1, PostRows
    <2> DEFINE n == Len(msgs) + 1
    <2>3. /\ c \in DOMAIN convs /\ convs[c].members[u] # NULL
          /\ convs'[c].members[u].joined = convs[c].members[u].joined
          /\ convs'[c].members[u].read = convs[c].members[u].read
          /\ DOMAIN msgs' = DOMAIN msgs \cup {n} /\ n \notin DOMAIN msgs
          /\ \A m \in DOMAIN msgs : msgs'[m] = msgs[m]
      BY <1>1, <2>2 DEF MovesCounts
    <2>4. convs'[c].members[u].unread
             = convs[c].members[u].unread + (IF c # d \/ u = p THEN 0 ELSE 1)
      BY <1>1, <2>2, <2>3 DEF MovesCounts
    <2>5. msgs'[n].conv = d /\ msgs'[n].sender = p
      BY <2>2 DEF MovesCounts
    <2>6. n > convs[c].members[u].joined /\ n > convs[c].members[u].read
      BY <1>2, <2>3
    <2>7. convs[c].members[u].unread = Cardinality(Unseen(c, u))
          /\ convs[c].members[u].unread \in Nat
      BY <1>2, <1>3, <2>3
    <2> HIDE DEF n
    <2>8. CASE c # d \/ u = p
      <3>1. Unseen(c, u)' = Unseen(c, u)
        BY <2>3, <2>5, <2>8 DEF Unseen
      <3> QED BY <2>4, <2>7, <2>8, <3>1
    <2>9. CASE ~(c # d \/ u = p)
      <3>1. Unseen(c, u)' = Unseen(c, u) \cup {n}
        BY <2>3, <2>5, <2>6, <2>9 DEF Unseen
      <3>2. n \notin Unseen(c, u)
        BY <2>3 DEF Unseen
      <3>3. Cardinality(Unseen(c, u) \cup {n}) = Cardinality(Unseen(c, u)) + 1
        BY <3>2, UnseenFinite, FS_AddElement
      <3> QED BY <2>4, <2>7, <2>9, <3>1, <3>3
    <2> QED BY <2>8, <2>9
  <1>7. CASE Relabelled
    <2>1. /\ convs' = convs /\ DOMAIN msgs' = DOMAIN msgs
          /\ \A m \in DOMAIN msgs : msgs'[m].conv = msgs[m].conv /\ msgs'[m].sender = msgs[m].sender
      BY <1>7 DEF Relabelled
    <2>2. Unseen(c, u)' = Unseen(c, u)
      BY <2>1 DEF Unseen
    <2> QED BY <1>1, <1>3, <2>1, <2>2
  <1>8. ASSUME NEW d \in DOMAIN convs, NEW p \in Members(d), MarksRead(d, p)
        PROVE  convs'[c].members[u].unread = Cardinality(Unseen(c, u)')
    <2>1. /\ c \in DOMAIN convs /\ DOMAIN msgs' = DOMAIN msgs
          /\ \A m \in DOMAIN msgs : msgs'[m].conv = msgs[m].conv /\ msgs'[m].sender = msgs[m].sender
      BY <1>8 DEF MarksRead
    <2>2. CASE c = d /\ u = p
      <3>1. convs'[c].members[u].unread = 0 /\ convs'[c].members[u].read = Len(msgs)
        BY <1>8, <2>2, ReadRows
      <3>2. \A m \in DOMAIN msgs : ~(m > Len(msgs))
        BY <1>2
      <3>3. Unseen(c, u)' = {}
        BY <2>1, <3>1, <3>2 DEF Unseen
      <3> QED BY <1>4, <3>1, <3>3
    <2>3. CASE ~(c = d /\ u = p)
      <3>1. convs'[c].members[u] = convs[c].members[u]
        BY <1>8, <2>1, <2>3, ReadRows
      <3>2. Unseen(c, u)' = Unseen(c, u)
        BY <2>1, <3>1 DEF Unseen
      <3> QED BY <1>1, <1>3, <2>1, <3>1, <3>2
    <2> QED BY <2>2, <2>3
  <1> QED BY <1>5, <1>6, <1>7, <1>8, ClockSteps

-----------------------------------------------------------------------------
\* Whoever a message is pushed to, and whoever has a conversation open, is one
\* of its members.
LEMMA LiveStep ==
    ASSUME TypeInv, [Next]_vars, LiveForMembers
    PROVE  LiveForMembers'
  <1>1. Kept
    BY NextTypes
  <1>2. \A c \in DOMAIN convs : Members(c) \subseteq Members(c)'
    BY <1>1 DEF Kept, ConvsKept, Members
  <1>3. ASSUME NEW p \in shown
        PROVE  p[1] \in Members(msgs[p[2]].conv)'
    <2>1. p[2] \in DOMAIN msgs /\ p[1] \in Members(msgs[p[2]].conv)
      BY DEF TypeInv, TablesTyped, LiveForMembers
    <2>2. msgs[p[2]].conv \in DOMAIN convs /\ msgs'[p[2]].conv = msgs[p[2]].conv
      BY <1>1, <2>1 DEF Kept, TypeInv, RowsSound
    <2>3. \A c \in DOMAIN convs : p[1] \in Members(c) => p[1] \in Members(c)'
      BY <1>2
    <2> QED BY <2>1, <2>2, <2>3 DEF Members
  <1>4. ASSUME NEW p \in room
        PROVE  p[1] \in Members(p[2])'
    <2>1. p[2] \in DOMAIN convs /\ p[1] \in Members(p[2])
      BY DEF TypeInv, TablesTyped, LiveForMembers
    <2> QED BY <1>2, <2>1
  <1>5. CASE /\ shown' = shown /\ room' \subseteq room
             /\ \A p \in room' : p[1] \in online'
    BY <1>3, <1>4, <1>5 DEF LiveForMembers
  <1>6. CASE UNCHANGED sockets
    BY <1>5, <1>6 DEF sockets, LiveForMembers
  <1>7. ASSUME NEW u \in User, handleDisconnect(u) PROVE LiveForMembers'
    BY <1>5, <1>7 DEF handleDisconnect, LiveForMembers
  <1>8. ASSUME NEW r \in RequestId, NEW u \in User,
               handleConnection(r, u) \/ \E c \in DOMAIN convs : handleLeave(r, c, u)
        PROVE  LiveForMembers'
    BY <1>5, <1>8 DEF handleConnection, handleLeave, LiveForMembers
  <1>9. ASSUME NEW r \in RequestId, joinRoom(r) PROVE LiveForMembers'
    <2>0. PICK c, u : c = req[r].c /\ u = req[r].u
      OBVIOUS
    <2>1. c \in DOMAIN convs /\ u \in Members(c) /\ u \in online
      BY <1>9, <2>0 DEF joinRoom, TypeInv, RequestsCarry, Carries, ConvCarriers, MemberCarriers
    <2>2. room' = room \cup {<<u, c>>} /\ UNCHANGED <<online, shown>>
      BY <1>9, <2>0 DEF joinRoom
    <2>3. u \in Members(c)'
      BY <1>2, <2>1
    <2> QED BY <1>3, <1>4, <2>1, <2>2, <2>3 DEF LiveForMembers
  <1>10. ASSUME NEW r \in RequestId, emitMessage(r) PROVE LiveForMembers'
    <2> DEFINE c == req[r].c  m == req[r].m
    <2>1. /\ c \in DOMAIN convs /\ m \in DOMAIN msgs /\ msgs[m].conv = c
          /\ req[r].who \subseteq Members(c)
      BY <1>10 DEF emitMessage, TypeInv, RequestsCarry, Carries, ConvCarriers, MessageCarriers
    <2>2. /\ shown' = shown \cup ({u \in online : u \in req[r].who \/ <<u, c>> \in room} \X {m})
          /\ UNCHANGED <<chatTables, online, room>>
      BY <1>10 DEF emitMessage
    <2> HIDE DEF c, m
    <2>3. ASSUME NEW u \in online, u \in req[r].who \/ <<u, c>> \in room
          PROVE  u \in Members(msgs[m].conv)
      BY <2>1, <2>3 DEF LiveForMembers
    <2>4. convs' = convs /\ msgs' = msgs
      BY <2>2 DEF chatTables
    <2>5. ASSUME NEW p \in shown' PROVE p[1] \in Members(msgs[p[2]].conv)
      BY <2>2, <2>3, <2>5 DEF LiveForMembers
    <2> QED BY <2>2, <2>4, <2>5 DEF LiveForMembers, Members
  <1>11. CASE ChatGatewayNext
    <2>1. ASSUME UNCHANGED tables PROVE UNCHANGED sockets
      BY <2>1 DEF tables, sockets
    <2> QED BY <1>6, <1>7, <1>8, <1>9, <1>10, <1>11, <2>1
            DEF ChatGatewayNext, handleJoin, findAudience
  <1>12. CASE (\E r \in RequestId : Fail(r)) \/ UNCHANGED vars
    BY <1>6, <1>12 DEF Fail, vars, tables, sockets
  <1>13. CASE ConversationsNext
    <2>1. UNCHANGED tables \/ UNCHANGED sockets
      BY ZenonT(30), <1>13
         DEF ConversationsNext, createDirectConversation, getOrCreateDirect, createDirect,
             createDirectRefused, createGroupConversation, getOrCreateEventGroup, findGroup,
             createGroup, createGroupRefused, seat, addGroupParticipant, addParticipant,
             addParticipantRefused, sendMessage, insertMessage, markRead, resetUnread
    <2> QED BY <1>6, <2>1 DEF tables, sockets
  <1>14. CASE EventPlanningNext
    <2>1. UNCHANGED tables \/ UNCHANGED sockets
      BY ZenonT(30), <1>14
         DEF EventPlanningNext, create, update, setStatus, cancel, setCancelled, addVendor,
             addListing, insertVendor, insertVendorRefused, findEventGroup, seatVendor,
             removeVendor, deleteVendor, deleteVendorRefused
    <2> QED BY <1>6, <2>1 DEF tables, sockets
  <1>15. CASE GroupTodosNext
    <2>1. UNCHANGED tables \/ UNCHANGED sockets
      BY <1>15 DEF GroupTodosNext, createTodo, findAssignees, insertTodo, toggleMyTask, tick,
             tickRefused, deleteTodo, removeTodo, removeTodoRefused
    <2> QED BY <1>6, <2>1 DEF tables, sockets
  <1> QED BY <1>11, <1>12, <1>13, <1>14, <1>15 DEF Next

-----------------------------------------------------------------------------
(* To-dos and their cards.                                                 *)

\* To-do t is in a group of its creator and assignees, which holds a card of it.
TodoAtHome(t) ==
    /\ convs[todos[t].conv].type = "GROUP"
    /\ todos[t].by \in Members(todos[t].conv)
    /\ \A u \in User : todos[t].done[u] # NULL => u \in Members(todos[t].conv)
    /\ \E m \in DOMAIN msgs : msgs[m].todo = t

CardsSound ==
    /\ \A m \in DOMAIN msgs : msgs[m].todo # 0 => /\ ~todos[msgs[m].todo].gone
                                                  /\ todos[msgs[m].todo].conv = msgs[m].conv
    /\ \A m, n \in DOMAIN msgs : msgs[m].todo # 0 /\ msgs[n].todo = msgs[m].todo => m = n

\* The property, taken apart, before a step and after it.
LEMMA TodosApart ==
    /\ TodosBelong <=> /\ \A t \in DOMAIN todos : ~todos[t].gone => TodoAtHome(t)
                       /\ CardsSound
    /\ TodosBelong' <=> /\ \A t \in DOMAIN todos' : ~todos'[t].gone => TodoAtHome(t)'
                        /\ CardsSound'
  BY ZenonT(30) DEF TodosBelong, TodoAtHome, CardsSound, Assigned

\* A to-do that is not touched stays at home if its card stays.
LEMMA HomeKept ==
    ASSUME TypeInv, Kept, NEW t \in DOMAIN todos, TodoAtHome(t),
           todos'[t].conv = todos[t].conv, todos'[t].by = todos[t].by,
           \A u \in User : todos'[t].done[u] # NULL => todos[t].done[u] # NULL,
           \A m \in DOMAIN msgs : msgs[m].todo = t => msgs'[m].todo = t
    PROVE  TodoAtHome(t)'
  <1> DEFINE c == todos[t].conv
  <1>1. c \in DOMAIN convs
    BY DEF TypeInv, RowsSound
  <1>2. convs'[c].type = convs[c].type /\ Members(c) \subseteq Members(c)'
    BY <1>1 DEF Kept, ConvsKept, Members
  <1>3. PICK m \in DOMAIN msgs : msgs[m].todo = t
    BY DEF TodoAtHome
  <1>4. m \in DOMAIN msgs' /\ msgs'[m].todo = t
    BY <1>3 DEF Kept
  <1>5. ASSUME NEW u \in User, u \in Members(c) PROVE convs'[c].members[u] # NULL
    BY <1>2, <1>5 DEF Members
  <1> HIDE DEF c
  <1>6. /\ convs[c].type = "GROUP" /\ todos[t].by \in Members(c)
        /\ \A u \in User : todos[t].done[u] # NULL => u \in Members(c)
        /\ todos'[t].conv = c
    BY DEF TodoAtHome, c
  <1> QED BY <1>2, <1>4, <1>5, <1>6 DEF TodoAtHome, Members

\* A step that touches no to-do and adds no card.
LEMMA CardsStay ==
    ASSUME TypeInv, Kept, TodosBelong, todos' = todos,
           \A m \in DOMAIN msgs : msgs'[m].todo = msgs[m].todo,
           \A m \in DOMAIN msgs' : m \in DOMAIN msgs \/ msgs'[m].todo = 0
    PROVE  TodosBelong'
  <1>1. CardsSound /\ \A t \in DOMAIN todos : ~todos[t].gone => TodoAtHome(t)
    BY TodosApart
  <1>2. ASSUME NEW t \in DOMAIN todos, ~todos[t].gone PROVE TodoAtHome(t)'
    BY <1>1, <1>2, HomeKept
  <1>3. CardsSound'
    BY <1>1 DEF CardsSound, Kept
  <1> QED BY <1>2, <1>3, TodosApart

\* A new to-do comes with its card.
LEMMA InsertStep ==
    ASSUME TypeInv, Kept, TodosBelong, NEW r \in RequestId, insertTodo(r)
    PROVE  TodosBelong'
  <1>0. PICK c, u, who, i, n : /\ c = req[r].c /\ u = req[r].u /\ who = req[r].who
                               /\ i = Len(todos) + 1 /\ n = Len(msgs) + 1
    OBVIOUS
  <1> DEFINE row == [conv |-> c, by |-> u, gone |-> FALSE,
                     done |-> [p \in User |-> IF p \in who THEN FALSE ELSE NULL]]
  <1>1. /\ c \in DOMAIN convs /\ u \in Members(c) /\ who \subseteq Members(c)
        /\ convs[c].type = "GROUP" /\ who \subseteq User
    BY <1>0 DEF insertTodo, TypeInv, RequestsCarry, Carries, ConvCarriers, MemberCarriers,
           GroupCarriers, Slot
  <1>2. /\ convs \in Seq(Conversation) /\ Len(convs) <= MaxConvs
        /\ todos \in Seq(Todo) /\ Len(todos) \in Nat
    BY LenProperties DEF TypeInv, TablesTyped
  <1>3. c \in ConvId /\ u \in User
    BY <1>1, <1>2, LenProperties, ChatAssumption DEF ConvId, Members
  <1>4. row \in Todo
    BY <1>3 DEF Todo
  <1>5. todos' = Append(todos, row) /\ post(c, u, i)
    BY <1>0 DEF insertTodo
  <1>6. row.conv = c /\ row.by = u /\ row.gone = FALSE
        /\ \A p \in User : row.done[p] # NULL => p \in who
    OBVIOUS
  <1>7. i \in Nat /\ i # 0
    BY <1>0, <1>2
  <1> HIDE DEF row
  <1>8. /\ DOMAIN todos' = DOMAIN todos \cup {i} /\ i \notin DOMAIN todos
        /\ todos'[i] = row /\ \A t \in DOMAIN todos : todos'[t] = todos[t]
    BY <1>0, <1>2, <1>4, <1>5, RowAppended
  <1>9. MovesCounts(c, u, i)
    BY <1>1, <1>5, <1>7, PostRows
  <1>10. /\ DOMAIN msgs' = DOMAIN msgs \cup {n} /\ n \notin DOMAIN msgs
         /\ msgs'[n].conv = c /\ msgs'[n].todo = i
         /\ \A m \in DOMAIN msgs : msgs'[m] = msgs[m]
    BY <1>0, <1>9 DEF MovesCounts
  <1>11. CardsSound /\ \A t \in DOMAIN todos : ~todos[t].gone => TodoAtHome(t)
    BY TodosApart
  <1>12. \A m \in DOMAIN msgs : msgs[m].todo # i /\ (msgs[m].todo # 0 => msgs[m].todo \in DOMAIN todos)
    BY <1>7, <1>8 DEF TypeInv, RowsSound
  <1>13. ASSUME NEW t \in DOMAIN todos, ~todos'[t].gone PROVE TodoAtHome(t)'
    <2>1. todos'[t] = todos[t] /\ TodoAtHome(t)
      BY <1>8, <1>11, <1>13
    <2> QED BY <1>10, <2>1, HomeKept
  <1>14. TodoAtHome(i)'
    <2>1. convs'[c].type = "GROUP" /\ Members(c) \subseteq Members(c)'
      BY <1>1 DEF Kept, ConvsKept, Members
    <2>2. u \in Members(c)' /\ who \subseteq Members(c)'
      BY <1>1, <2>1
    <2> QED BY <1>6, <1>8, <1>10, <2>1, <2>2 DEF TodoAtHome, Members
  <1>15. CardsSound'
    BY <1>6, <1>8, <1>10, <1>11, <1>12 DEF CardsSound
  <1> QED BY <1>8, <1>13, <1>14, <1>15, TodosApart

\* Ticking changes who has done what, not whose it is.
LEMMA TickStep ==
    ASSUME TypeInv, Kept, TodosBelong, NEW r \in RequestId, tick(r)
    PROVE  TodosBelong'
  <1>0. PICK i, d : /\ i = req[r].t /\ d = [todos[i].done EXCEPT ![req[r].u] = ~req[r].flag]
    OBVIOUS
  <1>1. /\ i \in DOMAIN todos /\ d \in [User -> BOOLEAN \cup {NULL}]
        /\ \A p \in User : d[p] = NULL <=> todos[i].done[p] = NULL
        /\ todos' = [todos EXCEPT ![i] = [todos[i] EXCEPT !.gone = todos[i].gone, !.done = d]]
        /\ msgs' = msgs
    BY <1>0, TickWritten
  <1>2. todos[i].gone \in BOOLEAN
    <2>1. todos[i] \in Todo
      BY <1>1 DEF TypeInv, TablesTyped
    <2> QED BY <2>1 DEF Todo
  <1>3. /\ DOMAIN todos' = DOMAIN todos
        /\ todos'[i].gone = todos[i].gone /\ todos'[i].done = d
        /\ todos'[i].conv = todos[i].conv /\ todos'[i].by = todos[i].by
        /\ \A t \in DOMAIN todos : t # i => todos'[t] = todos[t]
    BY <1>1, <1>2, TodoReplaced
  <1>4. CardsSound /\ \A t \in DOMAIN todos : ~todos[t].gone => TodoAtHome(t)
    BY TodosApart
  <1>5. ASSUME NEW t \in DOMAIN todos
        PROVE  /\ todos'[t].gone = todos[t].gone
               /\ todos'[t].conv = todos[t].conv /\ todos'[t].by = todos[t].by
               /\ \A p \in User : todos'[t].done[p] # NULL => todos[t].done[p] # NULL
    BY <1>1, <1>3
  <1>6. ASSUME NEW t \in DOMAIN todos, ~todos'[t].gone PROVE TodoAtHome(t)'
    BY <1>1, <1>4, <1>5, <1>6, HomeKept
  <1>7. CardsSound'
    <2>1. \A m \in DOMAIN msgs : msgs[m].todo # 0 => msgs[m].todo \in DOMAIN todos
      BY DEF TypeInv, RowsSound
    <2> QED BY <1>1, <1>4, <1>5, <2>1 DEF CardsSound
  <1> QED BY <1>3, <1>6, <1>7, TodosApart

\* A to-do goes with its assignments, and its card lets go of it.
LEMMA RemoveStep ==
    ASSUME TypeInv, Kept, TodosBelong, NEW r \in RequestId, removeTodo(r)
    PROVE  TodosBelong'
  <1>0. PICK i, d : i = req[r].t /\ d = [p \in User |-> NULL]
    OBVIOUS
  <1>1. /\ i \in DOMAIN todos
        /\ todos' = [todos EXCEPT ![i] = [todos[i] EXCEPT !.gone = TRUE, !.done = d]]
        /\ DOMAIN msgs' = DOMAIN msgs
        /\ \A m \in DOMAIN msgs : /\ msgs'[m].conv = msgs[m].conv
                                  /\ msgs'[m].todo = IF msgs[m].todo = i THEN 0 ELSE msgs[m].todo
    BY <1>0, RemoveWritten
  <1>2. d \in [User -> BOOLEAN \cup {NULL}]
    BY <1>0
  <1>3. /\ DOMAIN todos' = DOMAIN todos /\ todos'[i].gone = TRUE
        /\ \A t \in DOMAIN todos : t # i => todos'[t] = todos[t]
    BY <1>1, <1>2, TodoReplaced
  <1>4. CardsSound /\ \A t \in DOMAIN todos : ~todos[t].gone => TodoAtHome(t)
    BY TodosApart
  <1>5. ASSUME NEW t \in DOMAIN todos, ~todos'[t].gone PROVE TodoAtHome(t)'
    <2>1. t # i /\ todos'[t] = todos[t] /\ TodoAtHome(t)
      BY <1>3, <1>4, <1>5
    <2> QED BY <1>1, <2>1, HomeKept
  <1>6. CardsSound'
    <2>1. \A m \in DOMAIN msgs : msgs[m].todo # 0 => msgs[m].todo \in DOMAIN todos
      BY DEF TypeInv, RowsSound
    <2> QED BY <1>1, <1>3, <1>4, <2>1 DEF CardsSound
  <1> QED BY <1>3, <1>5, <1>6, TodosApart

\* No step leaves a to-do without its card or a card without its to-do.
LEMMA TodosStep ==
    ASSUME TypeInv, [Next]_vars, TodosBelong
    PROVE  TodosBelong'
  <1>1. Kept
    BY NextTypes
  <1>2. CASE Newcomers
    BY <1>1, <1>2, CardsStay DEF Newcomers
  <1>3. ASSUME NEW r \in RequestId, insertMessage(r) PROVE TodosBelong'
    <2>1. /\ req[r].c \in DOMAIN convs /\ req[r].u \in Members(req[r].c)
          /\ post(req[r].c, req[r].u, 0) /\ todos' = todos
      BY <1>3 DEF insertMessage, TypeInv, RequestsCarry, Carries, ConvCarriers, MemberCarriers
    <2>2. MovesCounts(req[r].c, req[r].u, 0)
      BY <2>1, PostRows
    <2>3. /\ DOMAIN msgs' = DOMAIN msgs \cup {Len(msgs) + 1}
          /\ msgs'[Len(msgs) + 1].todo = 0
          /\ \A m \in DOMAIN msgs : msgs'[m] = msgs[m]
      BY <2>2 DEF MovesCounts
    <2> QED BY <1>1, <2>1, <2>3, CardsStay
  <1>4. ASSUME NEW r \in RequestId, resetUnread(r) PROVE TodosBelong'
    <2>1. /\ DOMAIN msgs' = DOMAIN msgs /\ todos' = todos
          /\ \A m \in DOMAIN msgs : msgs'[m].conv = msgs[m].conv /\ msgs'[m].todo = msgs[m].todo
      BY <1>4, ReadWritten DEF MarksRead
    <2> QED BY <1>1, <2>1, CardsStay
  <1> QED BY <1>1, <1>2, <1>3, <1>4, StepEffect, InsertStep, TickStep, RemoveStep DEF Effect

-----------------------------------------------------------------------------
(* Where requests come from and go.                                        *)

\* The steps at which a request holds what others rely on.
Pending == {"findEventGroup", "seatVendor"}
Updating == {"updateEvent", "cancelEvent"}

\* What a request that updates an event has checked of it.
MayUpdate(s) == s.at \in Updating => s.seen \notin FinalStatus /\ Created(s.e)

\* A step of slot t that neither pushes nor adds a vendor, and that begins to
\* update an event only if it may.
Calm(t) ==
    /\ req[t].at \notin Pending
    /\ req'[t].at \notin Pending \cup {"emit"}
    /\ MayUpdate(req'[t])

AllCalm == \A t \in RequestId : req'[t] = req[t] \/ Calm(t)

\* A request that ends was calm, unless it was adding a vendor.
LEMMA ReturnCalm ==
    ASSUME TypeInv, NEW r \in RequestId, Return(r), req[r].at \notin Pending
    PROVE  AllCalm
  BY DEF Return, AllCalm, Calm, MayUpdate, Idle, Pending, Updating, TypeInv

\* So is one that goes on to a calm step.
LEMMA WaitCalm ==
    ASSUME TypeInv, NEW r \in RequestId, NEW s, Wait(r, s), req[r].at \notin Pending,
           s.at \notin Pending \cup {"emit"}, MayUpdate(s)
    PROVE  AllCalm
  BY DEF Wait, AllCalm, Calm, TypeInv

\* So is one that begins with a calm step.
LEMMA CallCalm ==
    ASSUME TypeInv, NEW r \in RequestId, NEW op, Called(r, op), NEW s, Wait(r, s),
           s.at \notin Pending \cup {"emit"}, MayUpdate(s)
    PROVE  AllCalm
  <1>1. req[r].at \notin Pending
    BY DEF Called, Idle, Pending
  <1> QED BY <1>1, WaitCalm

\* The slots a step of MessagingService leaves behind.
LEMMA ConversationsCalm ==
    ASSUME TypeInv, ConversationsNext
    PROVE  AllCalm
  <1> USE DEF Pending, Updating, MayUpdate
  <1>1. ASSUME NEW r \in RequestId, NEW u, NEW v, NEW b,
               createDirectConversation(r, u, v, b) \/ getOrCreateDirect(r, u, v)
        PROVE  AllCalm
    BY <1>1, CallCalm DEF createDirectConversation, getOrCreateDirect, Idle
  <1>2. ASSUME NEW r \in RequestId, NEW e,
               createGroupConversation(r, e) \/ getOrCreateEventGroup(r, e)
        PROVE  AllCalm
    BY <1>2, CallCalm DEF createGroupConversation, getOrCreateEventGroup, Idle
  <1>3. ASSUME NEW r \in RequestId, NEW c, NEW u, NEW p, addGroupParticipant(r, c, u, p)
        PROVE  AllCalm
    BY <1>3, CallCalm DEF addGroupParticipant, Idle
  <1>4. ASSUME NEW r \in RequestId, NEW op, NEW c, NEW u, sendMessage(r, op, c, u)
        PROVE  AllCalm
    BY <1>4, CallCalm DEF sendMessage, Idle
  <1>5. ASSUME NEW r \in RequestId, NEW c, NEW u, markRead(r, c, u)
        PROVE  AllCalm
    BY <1>5, CallCalm DEF markRead, Idle
  <1>6. ASSUME NEW r \in RequestId,
               \/ createDirect(r) \/ createDirectRefused(r) \/ createGroup(r)
               \/ createGroupRefused(r) \/ seat(r) \/ addParticipant(r)
               \/ addParticipantRefused(r) \/ resetUnread(r)
        PROVE  AllCalm
    BY <1>6, ReturnCalm DEF createDirect, createDirectRefused, createGroup, createGroupRefused,
           seat, addParticipant, addParticipantRefused, resetUnread
  <1>7. ASSUME NEW r \in RequestId, findGroup(r) PROVE AllCalm
    <2>1. req[r] \in Slot /\ req[r].at = "findGroup"
      BY <1>7 DEF TypeInv, findGroup
    <2>2. ASSUME NEW c, Wait(r, [req[r] EXCEPT !.at = "seat", !.c = c,
                                               !.who = req[r].who \ Members(c)])
          PROVE  AllCalm
      BY <2>1, <2>2, WaitCalm DEF Slot
    <2>3. ASSUME Wait(r, [req[r] EXCEPT !.at = "createGroup"]) PROVE AllCalm
      BY <2>1, <2>3, WaitCalm DEF Slot
    <2>4. ASSUME Return(r) PROVE AllCalm
      BY <2>1, <2>4, ReturnCalm
    <2> QED BY <1>7, <2>2, <2>3, <2>4 DEF findGroup
  <1>8. ASSUME NEW r \in RequestId, insertMessage(r) PROVE AllCalm
    <2>1. req[r] \in Slot /\ req[r].at = "insertMessage"
      BY <1>8 DEF TypeInv, insertMessage
    <2>2. ASSUME Wait(r, [req[r] EXCEPT !.at = "findAudience", !.m = Len(msgs) + 1])
          PROVE  AllCalm
      BY <2>1, <2>2, WaitCalm DEF Slot
    <2>3. ASSUME Return(r) PROVE AllCalm
      BY <2>1, <2>3, ReturnCalm
    <2> QED BY <1>8, <2>2, <2>3 DEF insertMessage
  <1> QED BY <1>1, <1>2, <1>3, <1>4, <1>5, <1>6, <1>7, <1>8 DEF ConversationsNext

\* Deleting a vendor of an event leaves every other request where it is.
LEMMA DeleteVendorCalm ==
    ASSUME TypeInv, NEW r \in RequestId, deleteVendor(r)
    PROVE  AllCalm
  <1>1. ASSUME NEW t \in RequestId PROVE req'[t] = req[t] \/ Calm(t)
    <2>1. req[r].at = "deleteVendor" /\ req[t] \in Slot
      BY DEF deleteVendor, TypeInv
    <2>2. CASE t = r
      <3>1. req'[t] = Idle
        BY <2>2 DEF deleteVendor
      <3> QED BY <2>1, <2>2, <3>1 DEF Calm, MayUpdate, Idle, Pending, Updating
    <2>3. CASE t # r /\ req'[t] # req[t]
      <3>1. req[t].at = "deleteVendor" /\ req'[t] = [req[t] EXCEPT !.flag = TRUE]
        BY <2>3 DEF deleteVendor
      <3>2. req'[t].at = "deleteVendor"
        BY <2>1, <3>1 DEF Slot
      <3> QED BY <3>1, <3>2 DEF Calm, MayUpdate, Pending, Updating
    <2> QED BY <2>2, <2>3
  <1> QED BY <1>1 DEF AllCalm

\* The slots a step of EventsService leaves behind.
LEMMA EventPlanningCalm ==
    ASSUME TypeInv, EventPlanningNext
    PROVE  \/ AllCalm
           \/ \E r \in RequestId : insertVendor(r) \/ findEventGroup(r) \/ seatVendor(r)
  <1> USE DEF Pending, Updating, MayUpdate
  <1>1. ASSUME NEW r \in RequestId, NEW u, NEW e, create(r, u, e) PROVE AllCalm
    BY <1>1 DEF create, AllCalm
  <1>2. ASSUME NEW r \in RequestId, NEW e, update(r, e) \/ cancel(r, e) PROVE AllCalm
    BY <1>2, CallCalm DEF update, cancel, Idle
  <1>3. ASSUME NEW r \in RequestId, NEW e, NEW v,
               addVendor(r, e, v) \/ addListing(r, e, v) \/ removeVendor(r, e, v)
        PROVE  AllCalm
    BY <1>3, CallCalm DEF addVendor, addListing, removeVendor, Idle
  <1>4. ASSUME NEW r \in RequestId,
               \/ \E status \in EventStatus : setStatus(r, status)
               \/ setCancelled(r) \/ insertVendorRefused(r) \/ deleteVendorRefused(r)
        PROVE  AllCalm
    BY <1>4, ReturnCalm DEF setStatus, setCancelled, insertVendorRefused, deleteVendorRefused
  <1> QED BY <1>1, <1>2, <1>3, <1>4, DeleteVendorCalm DEF EventPlanningNext

\* The slots a step of TodoService leaves behind.
LEMMA GroupTodosCalm ==
    ASSUME TypeInv, GroupTodosNext
    PROVE  AllCalm
  <1> USE DEF Pending, Updating, MayUpdate
  <1>1. ASSUME NEW r \in RequestId, NEW c, NEW u, NEW who, createTodo(r, c, u, who)
        PROVE  AllCalm
    BY <1>1, CallCalm DEF createTodo, Idle
  <1>2. ASSUME NEW r \in RequestId, NEW t, NEW u, toggleMyTask(r, t, u) \/ deleteTodo(r, t, u)
        PROVE  AllCalm
    BY <1>2, CallCalm DEF toggleMyTask, deleteTodo, Idle
  <1>3. ASSUME NEW r \in RequestId,
               tick(r) \/ tickRefused(r) \/ removeTodo(r) \/ removeTodoRefused(r)
        PROVE  AllCalm
    BY <1>3, ReturnCalm DEF tick, tickRefused, removeTodo, removeTodoRefused
  <1>4. ASSUME NEW r \in RequestId, findAssignees(r) \/ insertTodo(r) PROVE AllCalm
    <2>1. req[r] \in Slot /\ req[r].at \in {"findAssignees", "insertTodo"}
      BY <1>4 DEF TypeInv, findAssignees, insertTodo
    <2>2. ASSUME Wait(r, [req[r] EXCEPT !.at = "insertTodo"]) PROVE AllCalm
      BY <2>1, <2>2, WaitCalm DEF Slot
    <2>3. ASSUME Wait(r, [req[r] EXCEPT !.at = "findAudience", !.m = Len(msgs) + 1])
          PROVE  AllCalm
      BY <2>1, <2>3, WaitCalm DEF Slot
    <2>4. ASSUME Return(r) PROVE AllCalm
      BY <2>1, <2>4, ReturnCalm
    <2> QED BY <1>4, <2>2, <2>3, <2>4 DEF findAssignees, insertTodo
  <1> QED BY <1>1, <1>2, <1>3, <1>4 DEF GroupTodosNext

\* The slots a step of the gateway leaves behind.
LEMMA ChatGatewayCalm ==
    ASSUME TypeInv, ChatGatewayNext
    PROVE  AllCalm \/ \E r \in RequestId : findAudience(r)
  <1> USE DEF Pending, Updating, MayUpdate
  <1>1. ASSUME NEW u, handleDisconnect(u) PROVE AllCalm
    <2>1. ASSUME NEW t \in RequestId PROVE req'[t] = req[t] \/ Calm(t)
      <3>1. req'[t] = IF req[t].at = "joinRoom" /\ req[t].u = u THEN Idle ELSE req[t]
        BY <1>1 DEF handleDisconnect
      <3> QED BY <3>1 DEF Calm, Idle
    <2> QED BY <2>1 DEF AllCalm
  <1>2. ASSUME NEW r \in RequestId, NEW u,
               handleConnection(r, u) \/ \E c \in DOMAIN convs : handleLeave(r, c, u)
        PROVE  AllCalm
    BY <1>2 DEF handleConnection, handleLeave, AllCalm
  <1>3. ASSUME NEW r \in RequestId, NEW c, NEW u, handleJoin(r, c, u) PROVE AllCalm
    BY <1>3, CallCalm DEF handleJoin, Idle
  <1>4. ASSUME NEW r \in RequestId, joinRoom(r) \/ emitMessage(r) PROVE AllCalm
    BY <1>4, ReturnCalm DEF joinRoom, emitMessage
  <1> QED BY <1>1, <1>2, <1>3, <1>4 DEF ChatGatewayNext

\* What a step does to the slots.
LEMMA SlotSteps ==
    ASSUME TypeInv, [Next]_vars
    PROVE  \/ AllCalm
           \/ \E r \in RequestId : \/ insertVendor(r) \/ findEventGroup(r) \/ seatVendor(r)
                                   \/ findAudience(r) \/ Fail(r)
  <1>1. CASE UNCHANGED vars
    BY <1>1 DEF vars, AllCalm
  <1> QED BY <1>1, ConversationsCalm, EventPlanningCalm, GroupTodosCalm, ChatGatewayCalm DEF Next

-----------------------------------------------------------------------------
(* Who is told.                                                            *)

\* Whoever was a member before a message that is about to be pushed is told.
AudienceComplete ==
    \A r \in RequestId : req[r].at = "emit" =>
        \A u \in Members(req[r].c) :
            convs[req[r].c].members[u].joined < req[r].m => u \in req[r].who

\* A participant joined when it did, or now.
LEMMA JoinedKept ==
    ASSUME TypeInv, [Next]_vars
    PROVE  \A c \in DOMAIN convs : \A u \in User : convs'[c].members[u] # NULL =>
              \/ /\ convs[c].members[u] # NULL
                 /\ convs'[c].members[u].joined = convs[c].members[u].joined
              \/ convs'[c].members[u].joined = Len(msgs)
  <1>1. SUFFICES ASSUME NEW c \in DOMAIN convs, NEW u \in User, convs'[c].members[u] # NULL
                 PROVE  \/ /\ convs[c].members[u] # NULL
                           /\ convs'[c].members[u].joined = convs[c].members[u].joined
                        \/ convs'[c].members[u].joined = Len(msgs)
    OBVIOUS
  <1>2. c \in DOMAIN convs'
    BY NextTypes DEF Kept, ConvsKept
  <1>3. CASE Newcomers
    <2>1. \/ convs[c].members[u] # NULL /\ convs'[c].members[u] = convs[c].members[u]
          \/ convs'[c].members[u] = Seat
      BY <1>1, <1>2, <1>3 DEF Newcomers
    <2> QED BY <2>1 DEF Seat
  <1>4. CASE Posted
    <2>1. PICK d \in DOMAIN convs : \E p \in Members(d), t \in Nat : post(d, p, t)
      BY <1>4 DEF Posted
    <2>2. PICK p \in Members(d), t \in Nat : MovesCounts(d, p, t)
      BY <2>1, PostRows
    <2> QED BY <1>1, <2>2 DEF MovesCounts
  <1>5. CASE Relabelled
    BY <1>1, <1>5 DEF Relabelled
  <1>6. ASSUME NEW d \in DOMAIN convs, NEW p \in Members(d), MarksRead(d, p)
        PROVE  /\ convs[c].members[u] # NULL
               /\ convs'[c].members[u].joined = convs[c].members[u].joined
    <2>1. CASE c = d /\ u = p
      <3>1. convs'[c].members[u].joined = convs[c].members[u].joined
        BY <1>6, <2>1, ReadRows
      <3> QED BY <2>1, <3>1 DEF Members
    <2>2. CASE ~(c = d /\ u = p)
      <3>1. convs'[c].members[u] = convs[c].members[u]
        BY <1>6, <2>2, ReadRows
      <3> QED BY <1>1, <3>1
    <2> QED BY <2>1, <2>2
  <1> QED BY <1>3, <1>4, <1>5, <1>6, ClockSteps

\* An audience, once read, misses nobody who was there before the message.
LEMMA AudienceStep ==
    ASSUME TypeInv, [Next]_vars, AudienceComplete
    PROVE  AudienceComplete'
  <1>1. SUFFICES ASSUME NEW r \in RequestId, NEW s, s = req'[r], s.at = "emit", NEW u \in User,
                        convs'[s.c].members[u] # NULL,
                        convs'[s.c].members[u].joined < s.m
                 PROVE  u \in s.who
    BY DEF AudienceComplete, Members
  <1>2. req'[r] = req[r] \/ findAudience(r)
    <2>1. req \in [RequestId -> Slot]
      BY DEF TypeInv
    <2>2. ASSUME NEW q \in RequestId,
                 insertVendor(q) \/ findEventGroup(q) \/ seatVendor(q) \/ Fail(q)
          PROVE  req'[r] = req[r]
      <3>1. PICK w : req' = [req EXCEPT ![q] = w] /\ w.at # "emit"
        <4>1. req[q] \in Slot
          BY <2>1
        <4>2. CASE Return(q)
          <5>1. Idle.at # "emit"
            BY DEF Idle
          <5> QED BY <4>2, <5>1 DEF Return
        <4>3. ASSUME NEW at, at # "emit", NEW c, Wait(q, [req[q] EXCEPT !.at = at, !.c = c])
              PROVE  \E w : req' = [req EXCEPT ![q] = w] /\ w.at # "emit"
          <5>1. [req[q] EXCEPT !.at = at, !.c = c].at # "emit"
            BY <4>1, <4>3 DEF Slot
          <5> QED BY <4>3, <5>1 DEF Wait
        <4>4. ASSUME NEW at, at # "emit", Wait(q, [req[q] EXCEPT !.at = at])
              PROVE  \E w : req' = [req EXCEPT ![q] = w] /\ w.at # "emit"
          <5>1. [req[q] EXCEPT !.at = at].at # "emit"
            BY <4>1, <4>4 DEF Slot
          <5> QED BY <4>4, <5>1 DEF Wait
        <4> QED BY <2>2, <4>2, <4>3, <4>4 DEF insertVendor, findEventGroup, seatVendor, Fail
      <3> QED BY <1>1, <2>1, <3>1
    <2>3. ASSUME NEW q \in RequestId, findAudience(q) PROVE req'[r] = req[r] \/ findAudience(r)
      BY <2>1, <2>3 DEF findAudience, Wait
    <2>4. CASE AllCalm
      BY <1>1, <2>4 DEF AllCalm, Calm
    <2> QED BY <2>2, <2>3, <2>4, SlotSteps
  <1>3. CASE req'[r] = req[r]
    <2>1. s.c \in DOMAIN convs /\ s.m \in DOMAIN msgs /\ Carries(s)
      BY <1>1, <1>3 DEF TypeInv, RequestsCarry, Carries, ConvCarriers, MessageCarriers
    <2>2. ~(Len(msgs) < s.m)
      BY <2>1, RowTyped
    <2>3. /\ convs[s.c].members[u] # NULL
          /\ convs'[s.c].members[u].joined = convs[s.c].members[u].joined
      BY <1>1, <2>1, <2>2, JoinedKept
    <2> QED BY <1>1, <1>3, <2>3 DEF AudienceComplete, Members
  <1>4. CASE findAudience(r)
    <2>1. req[r] \in Slot /\ convs' = convs
      BY <1>4 DEF TypeInv, findAudience, tables
    <2>2. s = [req[r] EXCEPT !.at = "emit", !.who = Members(req[r].c)]
      BY <1>1, <1>4 DEF findAudience, Wait, TypeInv
    <2>3. s.c = req[r].c /\ s.who = Members(req[r].c)
      BY <2>1, <2>2 DEF Slot
    <2> QED BY <1>1, <2>1, <2>3 DEF Members
  <1> QED BY <1>2, <1>3, <1>4

\* Only a push adds to the messages pushed.
LEMMA OnlyEmitEmits ==
    ASSUME [Next]_vars, emitted' # emitted
    PROVE  \E r \in RequestId : emitMessage(r)
  <1>1. CASE ConversationsNext
    BY ZenonT(30), <1>1
       DEF ConversationsNext, createDirectConversation, getOrCreateDirect, createDirect,
           createDirectRefused, createGroupConversation, getOrCreateEventGroup, findGroup,
           createGroup, createGroupRefused, seat, addGroupParticipant, addParticipant,
           addParticipantRefused, sendMessage, insertMessage, markRead, resetUnread,
           tables, sockets
  <1>2. CASE EventPlanningNext
    BY ZenonT(30), <1>2
       DEF EventPlanningNext, create, update, setStatus, cancel, setCancelled, addVendor,
           addListing, insertVendor, insertVendorRefused, findEventGroup, seatVendor,
           removeVendor, deleteVendor, deleteVendorRefused, tables, sockets
  <1>3. CASE GroupTodosNext
    BY <1>3 DEF GroupTodosNext, createTodo, findAssignees, insertTodo, toggleMyTask, tick,
           tickRefused, deleteTodo, removeTodo, removeTodoRefused, tables, sockets
  <1>4. CASE ChatGatewayNext
    BY <1>4 DEF ChatGatewayNext, handleConnection, handleDisconnect, handleJoin, joinRoom,
           handleLeave, findAudience, tables, sockets
  <1>5. CASE (\E r \in RequestId : Fail(r)) \/ UNCHANGED vars
    BY <1>5 DEF Fail, vars, tables, sockets
  <1> QED BY <1>1, <1>2, <1>3, <1>4, <1>5 DEF Next

\* A push reaches whoever should be told.
LEMMA PushStep ==
    ASSUME TypeInv, [Next]_vars, AudienceComplete
    PROVE  \A m \in emitted' \ emitted : \A u \in online :
              IsParticipant(msgs[m].conv, u) /\ convs[msgs[m].conv].members[u].joined < m
                 => <<u, m>> \in shown'
  <1>1. SUFFICES ASSUME NEW m \in emitted' \ emitted, NEW u \in online,
                        IsParticipant(msgs[m].conv, u),
                        convs[msgs[m].conv].members[u].joined < m
                 PROVE  <<u, m>> \in shown'
    OBVIOUS
  <1>2. PICK r \in RequestId : emitMessage(r)
    BY <1>1, OnlyEmitEmits
  <1>3. m = req[r].m /\ req[r].at = "emit"
    BY <1>1, <1>2 DEF emitMessage
  <1>4. msgs[m].conv = req[r].c
    BY <1>3 DEF TypeInv, RequestsCarry, Carries, MessageCarriers
  <1>5. u \in req[r].who
    BY <1>1, <1>3, <1>4 DEF AudienceComplete, IsParticipant
  <1> QED BY <1>1, <1>2, <1>3, <1>5 DEF emitMessage

-----------------------------------------------------------------------------
(* Events, their vendors and their groups.                                 *)

\* A request that updates an event has seen it open.
UpdatesOpen == \A r \in RequestId : MayUpdate(req[r])
UncreatedDraft == \A e \in Event : ~Created(e) => events[e].status = "DRAFT"

\* What a step does to the row of an event.
EventMoves(e) ==
    \/ events'[e].client = events[e].client /\ events'[e].status = events[e].status
    \/ /\ events'[e].client = events[e].client
       /\ \E r \in RequestId : /\ req[r].at \in Updating /\ req[r].e = e
                               /\ req'[r] = Idle
    \/ ~Created(e) /\ events'[e].client # NULL

LEMMA EventRowSteps ==
    ASSUME TypeInv, [Next]_vars
    PROVE  \A e \in Event : EventMoves(e)
  <1>1. events \in [Event -> EventRow] /\ req \in [RequestId -> Slot]
    BY DEF TypeInv, TablesTyped
  <1>2. CASE events' = events
    BY <1>2 DEF EventMoves
  <1>3. ASSUME NEW r \in RequestId, NEW u \in Client, NEW e \in Event, create(r, u, e)
        PROVE  \A d \in Event : EventMoves(d)
    <2>1. u # NULL
      BY ChatAssumption DEF User
    <2> QED BY <1>1, <1>3, <2>1 DEF create, EventMoves
  <1>4. ASSUME NEW r \in RequestId, NEW status, setStatus(r, status) \/ setCancelled(r)
        PROVE  \A d \in Event : EventMoves(d)
    <2>1. req[r].at \in Updating /\ req'[r] = Idle
      BY <1>1, <1>4 DEF setStatus, setCancelled, Return, Updating
    <2>2. ASSUME NEW d \in Event PROVE EventMoves(d)
      <3>1. CASE d = req[r].e
        <4>1. events[d] \in EventRow
          BY <1>1
        <4>2. events'[d].client = events[d].client
          BY <1>1, <1>4, <3>1, <4>1 DEF setStatus, setCancelled, EventRow
        <4> QED BY <2>1, <3>1, <4>2 DEF EventMoves
      <3>2. CASE d # req[r].e
        BY <1>1, <1>4, <3>2 DEF setStatus, setCancelled, EventMoves
      <3> QED BY <3>1, <3>2
    <2> QED BY <2>2
  <1>5. ASSUME NEW r \in RequestId, insertVendor(r) \/ deleteVendor(r)
        PROVE  \A d \in Event : EventMoves(d)
    <2>1. ASSUME NEW d \in Event PROVE EventMoves(d)
      <3>1. events[d] \in EventRow
        BY <1>1
      <3>2. events'[d].client = events[d].client /\ events'[d].status = events[d].status
        BY <1>1, <1>5, <3>1 DEF insertVendor, deleteVendor, EventRow
      <3> QED BY <3>2 DEF EventMoves
    <2> QED BY <2>1
  <1>6. CASE ConversationsNext
    <2>1. events' = events
      BY ZenonT(30), <1>6
         DEF ConversationsNext, createDirectConversation, getOrCreateDirect, createDirect,
             createDirectRefused, createGroupConversation, getOrCreateEventGroup, findGroup,
             createGroup, createGroupRefused, seat, addGroupParticipant, addParticipant,
             addParticipantRefused, sendMessage, insertMessage, markRead, resetUnread, tables
    <2> QED BY <1>2, <2>1
  <1>7. CASE EventPlanningNext
    <2>1. ASSUME UNCHANGED tables PROVE events' = events
      BY <2>1 DEF tables
    <2>2. ASSUME NEW r \in RequestId, seatVendor(r) PROVE events' = events
      BY <2>2 DEF seatVendor
    <2> QED BY <1>2, <1>3, <1>4, <1>5, <1>7, <2>1, <2>2
            DEF EventPlanningNext, update, cancel, addVendor, addListing, insertVendorRefused,
                findEventGroup, removeVendor, deleteVendorRefused
  <1>8. CASE GroupTodosNext
    <2>1. events' = events
      BY <1>8 DEF GroupTodosNext, createTodo, findAssignees, insertTodo, toggleMyTask, tick,
             tickRefused, deleteTodo, removeTodo, removeTodoRefused, tables
    <2> QED BY <1>2, <2>1
  <1>9. CASE ChatGatewayNext
    <2>1. events' = events
      BY <1>9 DEF ChatGatewayNext, handleConnection, handleDisconnect, handleJoin, joinRoom,
             handleLeave, findAudience, emitMessage, tables
    <2> QED BY <1>2, <2>1
  <1>10. CASE (\E r \in RequestId : Fail(r)) \/ UNCHANGED vars
    BY <1>2, <1>10 DEF Fail, vars, tables
  <1> QED BY <1>6, <1>7, <1>8, <1>9, <1>10 DEF Next

\* What is known of events and of the requests that update them stays known.
LEMMA EventsStep ==
    ASSUME TypeInv, [Next]_vars, UpdatesOpen, UncreatedDraft
    PROVE  UpdatesOpen' /\ UncreatedDraft'
  <1>1. ASSUME NEW e \in Event PROVE ~Created(e) <=> events[e].client = NULL
    BY DEF Created
  <1>2. ASSUME NEW e \in Event, events'[e].client = NULL PROVE events'[e].status = "DRAFT"
    <2>1. EventMoves(e)
      BY EventRowSteps
    <2>2. ASSUME NEW r \in RequestId, req[r].at \in Updating, req[r].e = e PROVE Created(e)
      BY <2>2 DEF UpdatesOpen, MayUpdate
    <2> QED BY <1>2, <2>1, <2>2 DEF EventMoves, UncreatedDraft, Created
  <1>3. ASSUME NEW e \in Event, events[e].client # NULL PROVE events'[e].client # NULL
    <2>1. EventMoves(e)
      BY EventRowSteps
    <2> QED BY <1>3, <2>1 DEF EventMoves
  <1>4. ASSUME NEW r \in RequestId PROVE req'[r] = req[r] \/ MayUpdate(req'[r])
    <2>1. CASE AllCalm
      BY <2>1 DEF AllCalm, Calm
    <2>2. ASSUME NEW q \in RequestId,
                 \/ insertVendor(q) \/ findEventGroup(q) \/ seatVendor(q)
                 \/ findAudience(q) \/ Fail(q)
          PROVE  req'[r] = req[r] \/ MayUpdate(req'[r])
      <3>1. req \in [RequestId -> Slot]
        BY DEF TypeInv
      <3>2. CASE Return(q)
        BY <3>1, <3>2 DEF Return, Idle, MayUpdate, Updating
      <3>3. CASE insertVendor(q)
        BY <3>1, <3>3 DEF insertVendor, Wait, Slot, MayUpdate, Updating
      <3>4. CASE findEventGroup(q)
        BY <3>1, <3>2, <3>4 DEF findEventGroup, Wait, Slot, MayUpdate, Updating
      <3>5. CASE findAudience(q)
        BY <3>1, <3>5 DEF findAudience, Wait, Slot, MayUpdate, Updating
      <3> QED BY <2>2, <3>2, <3>3, <3>4, <3>5 DEF seatVendor, Fail
    <2> QED BY <2>1, <2>2, SlotSteps
  <1>5. ASSUME NEW r \in RequestId, NEW s, s = req'[r], s.at \in Updating
        PROVE  s.seen \notin FinalStatus /\ events'[s.e].client # NULL
    <2>1. MayUpdate(s)
      BY <1>4, <1>5 DEF UpdatesOpen
    <2>2. s.seen \notin FinalStatus /\ events[s.e].client # NULL
      BY <1>5, <2>1 DEF MayUpdate, Created
    <2>3. s.e \in Event
      <3>1. Carries(s)'
        BY <1>5, NextTypes DEF TypeInv, RequestsCarry
      <3> QED BY <1>5, <3>1 DEF Carries, Updating, EventSteps
    <2> QED BY <1>3, <2>2, <2>3
  <1>6. UpdatesOpen'
    BY <1>5 DEF UpdatesOpen, MayUpdate, Created
  <1> QED BY <1>2, <1>6 DEF UncreatedDraft, Created

\* A final event changes only by a request that saw it open.
LEMMA FinalStep ==
    ASSUME TypeInv, [Next]_vars, UpdatesOpen, UncreatedDraft
    PROVE  \A e \in Event :
              events[e].status \in FinalStatus /\ events'[e].status # events[e].status =>
                 \E r \in RequestId :
                    /\ req[r].at \in {"updateEvent", "cancelEvent"} /\ req[r].e = e
                    /\ req[r].seen \notin FinalStatus /\ req'[r] = Idle
  <1>1. SUFFICES ASSUME NEW e \in Event, events[e].status \in FinalStatus,
                        events'[e].status # events[e].status
                 PROVE  \E r \in RequestId :
                           /\ req[r].at \in Updating /\ req[r].e = e
                           /\ req[r].seen \notin FinalStatus /\ req'[r] = Idle
    BY DEF Updating
  <1>2. Created(e)
    BY <1>1 DEF UncreatedDraft, FinalStatus
  <1>3. PICK r \in RequestId : req[r].at \in Updating /\ req[r].e = e /\ req'[r] = Idle
    BY <1>1, <1>2, EventRowSteps DEF EventMoves
  <1>4. req[r].seen \notin FinalStatus
    BY <1>3 DEF UpdatesOpen, MayUpdate
  <1> QED BY <1>3, <1>4

\* Vendor v is waiting to be seated in the group of event e.
Awaited(e, v) ==
    \E r \in RequestId : req[r].at \in Pending /\ req[r].e = e /\ req[r].v = v

\* A vendor is added to an event by a request that then looks for the group.
LEMMA AddedIsAwaited ==
    ASSUME TypeInv, [Next]_vars, NEW e \in Event, NEW v,
           v \notin events[e].vendors, v \in events'[e].vendors
    PROVE  Awaited(e, v)'
  <1>1. events \in [Event -> EventRow] /\ req \in [RequestId -> Slot]
    BY DEF TypeInv, TablesTyped
  <1>2. events' # events
    OBVIOUS
  <1>3. ASSUME NEW r \in RequestId, insertVendor(r) PROVE Awaited(e, v)'
    <2>1. events' = [events EXCEPT ![req[r].e].vendors = @ \cup {req[r].v}]
          /\ req' = [req EXCEPT ![r] = [req[r] EXCEPT !.at = "findEventGroup"]]
      BY <1>3 DEF insertVendor, Wait
    <2>2. req[r].e = e /\ req[r].v = v
      <3>1. events[e] \in EventRow
        BY <1>1
      <3> QED BY <1>1, <2>1, <3>1 DEF EventRow
    <2>3. req'[r] = [req[r] EXCEPT !.at = "findEventGroup"] /\ req[r] \in Slot
      BY <1>1, <2>1
    <2>4. req'[r].at = "findEventGroup" /\ req'[r].e = e /\ req'[r].v = v
      BY <2>2, <2>3 DEF Slot
    <2> QED BY <2>4 DEF Awaited, Pending
  <1>4. ASSUME NEW r \in RequestId, NEW u, NEW d \in Event, create(r, u, d) PROVE FALSE
    <2>1. events'[d].vendors = {} /\ (e # d => events'[e] = events[e])
      BY <1>1, <1>4 DEF create
    <2> QED BY <2>1
  <1>5. ASSUME NEW r \in RequestId, NEW st, setStatus(r, st) \/ setCancelled(r) PROVE FALSE
    <2>1. events[e] \in EventRow
      BY <1>1
    <2>2. events'[e].vendors = events[e].vendors
      BY <1>1, <1>5, <2>1 DEF setStatus, setCancelled, EventRow
    <2> QED BY <2>2
  <1>6. ASSUME NEW r \in RequestId, deleteVendor(r) PROVE FALSE
    <2>1. events[e] \in EventRow
      BY <1>1
    <2>2. events'[e].vendors \subseteq events[e].vendors
      BY <1>1, <1>6, <2>1 DEF deleteVendor, EventRow
    <2> QED BY <2>2
  <1>7. CASE ConversationsNext
    BY ZenonT(30), <1>2, <1>7
       DEF ConversationsNext, createDirectConversation, getOrCreateDirect, createDirect,
           createDirectRefused, createGroupConversation, getOrCreateEventGroup, findGroup,
           createGroup, createGroupRefused, seat, addGroupParticipant, addParticipant,
           addParticipantRefused, sendMessage, insertMessage, markRead, resetUnread, tables
  <1>8. CASE EventPlanningNext
    <2>1. ~UNCHANGED tables
      BY <1>2 DEF tables
    <2> QED BY <1>2, <1>3, <1>4, <1>5, <1>6, <1>8, <2>1
            DEF EventPlanningNext, update, cancel, addVendor, addListing, insertVendorRefused,
                findEventGroup, removeVendor, deleteVendorRefused, seatVendor
  <1>9. CASE GroupTodosNext
    BY <1>2, <1>9 DEF GroupTodosNext, createTodo, findAssignees, insertTodo, toggleMyTask, tick,
           tickRefused, deleteTodo, removeTodo, removeTodoRefused, tables
  <1>10. CASE ChatGatewayNext
    BY <1>2, <1>10 DEF ChatGatewayNext, handleConnection, handleDisconnect, handleJoin, joinRoom,
           handleLeave, findAudience, emitMessage, tables
  <1>11. CASE (\E r \in RequestId : Fail(r)) \/ UNCHANGED vars
    BY <1>2, <1>11 DEF Fail, vars, tables
  <1> QED BY <1>7, <1>8, <1>9, <1>10, <1>11 DEF Next

\* The first group of an event is created by a request for that event, which
\* seats everybody on its list.
LEMMA GroupAppears ==
    ASSUME TypeInv, [Next]_vars, NEW e \in Event, EventGroups(e) = {}, NEW c \in EventGroups(e)'
    PROVE  \E r \in RequestId :
              /\ req[r].at = "createGroup" /\ req[r].e = e /\ req'[r] = Idle
              /\ \A u \in User : u \in req[r].who => u \in Members(c)'
  <1>1. c \in DOMAIN convs' /\ convs'[c].event = e
    BY DEF EventGroups
  <1>2. e # NULL
    BY ChatAssumption
  <1>3. ASSUME NEW conv, Insert(conv)
        PROVE  /\ c = Len(convs) + 1 /\ convs'[c] = conv
    <2>1. convs \in Seq(Conversation) /\ convs' = Append(convs, conv)
      BY <1>3 DEF TypeInv, TablesTyped, Insert
    <2>2. DOMAIN convs' = 1 .. (Len(convs) + 1) /\ DOMAIN convs = 1 .. Len(convs) /\ Len(convs) \in Nat
      BY <2>1, LenProperties
    <2>3. c \in DOMAIN convs => convs'[c] = convs[c]
      BY <2>1, <2>2
    <2>4. c \notin DOMAIN convs
      BY <1>1, <2>3 DEF EventGroups
    <2>5. c = Len(convs) + 1
      BY <1>1, <2>2, <2>4
    <2> QED BY <2>1, <2>2, <2>5
  <1>4. ASSUME NEW r \in RequestId, createDirect(r) PROVE FALSE
    <2>1. convs'[c] = DirectOf(req[r].u, req[r].v, req[r].b)
      BY <1>3, <1>4 DEF createDirect
    <2> QED BY <1>1, <1>2, <2>1 DEF DirectOf
  <1>5. ASSUME NEW r \in RequestId, createGroup(r)
        PROVE  /\ req[r].at = "createGroup" /\ req[r].e = e /\ req'[r] = Idle
               /\ \A u \in User : u \in req[r].who => u \in Members(c)'
    <2>1. convs'[c] = GroupOf(req[r].u, req[r].e, req[r].who)
      BY <1>3, <1>5 DEF createGroup
    <2>2. convs'[c].event = req[r].e /\ convs'[c].members = SeatAll(NoMembers, req[r].who)
      BY <2>1 DEF GroupOf
    <2>3. ASSUME NEW u \in User, u \in req[r].who PROVE convs'[c].members[u] # NULL
      BY <2>2, <2>3, SeatAllTyped DEF NoMembers, TypeInv, TablesTyped
    <2>4. req[r].at = "createGroup" /\ req'[r] = Idle
      BY <1>5 DEF createGroup, Return, TypeInv
    <2> QED BY <1>1, <2>2, <2>3, <2>4 DEF Members
  <1>6. ASSUME Newcomers \/ Posted \/ Relabelled
               \/ \E d \in DOMAIN convs : \E u \in Members(d) : MarksRead(d, u),
               DOMAIN convs' = DOMAIN convs
        PROVE  FALSE
    <2>1. c \in DOMAIN convs /\ convs'[c].event = convs[c].event
      BY <1>1, <1>6, NextTypes DEF Kept, ConvsKept
    <2> QED BY <1>1, <2>1 DEF EventGroups
  <1>7. DOMAIN convs' # DOMAIN convs
    BY <1>6, ClockSteps
  <1>8. CASE ConversationsNext
    <2>1. ASSUME NEW r \in RequestId, seat(r) \/ addParticipant(r) PROVE FALSE
      BY <1>7, <2>1 DEF seat, addParticipant
    <2>2. ASSUME NEW r \in RequestId, insertMessage(r) PROVE FALSE
      BY <1>7, <2>2 DEF insertMessage, post
    <2>3. ASSUME NEW r \in RequestId, resetUnread(r) PROVE FALSE
      BY <1>7, <2>3 DEF resetUnread
    <2>4. ~UNCHANGED tables
      BY <1>7 DEF tables
    <2> QED BY <1>4, <1>5, <1>8, <2>1, <2>2, <2>3, <2>4
            DEF ConversationsNext, createDirectConversation, getOrCreateDirect,
                createDirectRefused, createGroupConversation, getOrCreateEventGroup, findGroup,
                createGroupRefused, addGroupParticipant, addParticipantRefused, sendMessage,
                markRead
  <1>9. CASE EventPlanningNext
    BY ZenonT(30), <1>7, <1>9
       DEF EventPlanningNext, create, update, setStatus, cancel, setCancelled,
           addVendor, addListing, insertVendor, insertVendorRefused, findEventGroup, seatVendor,
           removeVendor, deleteVendor, deleteVendorRefused, tables, chatTables
  <1>10. CASE GroupTodosNext
    BY <1>7, <1>10 DEF GroupTodosNext, createTodo, findAssignees, insertTodo, post, toggleMyTask,
           tick, tickRefused, deleteTodo, removeTodo, removeTodoRefused, tables
  <1>11. CASE ChatGatewayNext
    BY <1>7, <1>11 DEF ChatGatewayNext, handleConnection, handleDisconnect, handleJoin, joinRoom,
           handleLeave, findAudience, emitMessage, tables, chatTables
  <1>12. CASE (\E r \in RequestId : Fail(r)) \/ UNCHANGED vars
    BY <1>7, <1>12 DEF Fail, vars, tables
  <1> QED BY <1>8, <1>9, <1>10, <1>11, <1>12 DEF Next

\* A request that is about to seat a vendor stays so, seats it, finds no
\* group to seat it in, or dies.
LEMMA AwaitedStays ==
    ASSUME TypeInv, [Next]_vars, NEW e \in Event, NEW v \in Seller, NEW r \in RequestId,
           req[r].at \in Pending, req[r].e = e, req[r].v = v
    PROVE  \/ Awaited(e, v)'
           \/ EventGroups(e) = {}
           \/ \E c \in EventGroups(e) : v \in Members(c)'
           \/ suite.dies /\ req'[r] = Idle
  <1>1. req \in [RequestId -> Slot] /\ req[r] \in Slot
    BY DEF TypeInv
  <1>2. CASE req'[r] = req[r]
    BY <1>2 DEF Awaited
  <1>3. CASE AllCalm
    BY <1>2, <1>3 DEF AllCalm, Calm
  <1>4. ASSUME NEW q \in RequestId, insertVendor(q) \/ findAudience(q)
        PROVE  req'[r] = req[r]
    <2>1. q # r
      BY <1>4 DEF insertVendor, findAudience, Pending
    <2> QED BY <1>1, <1>4, <2>1 DEF insertVendor, findAudience, Wait
  <1>5. ASSUME NEW q \in RequestId, q # r, findEventGroup(q) \/ seatVendor(q) \/ Fail(q)
        PROVE  req'[r] = req[r]
    BY <1>1, <1>5 DEF findEventGroup, seatVendor, Fail, Wait, Return
  <1>6. CASE findEventGroup(r) /\ EventGroups(e) # {}
    <2>1. PICK c : Wait(r, [req[r] EXCEPT !.at = "seatVendor", !.c = c])
      BY <1>6 DEF findEventGroup
    <2>2. req'[r].at = "seatVendor" /\ req'[r].e = e /\ req'[r].v = v
      BY <1>1, <2>1 DEF Wait, Slot
    <2> QED BY <2>2 DEF Awaited, Pending
  <1>7. CASE seatVendor(r)
    <2>0. PICK c : c = req[r].c
      OBVIOUS
    <2>1. c \in DOMAIN convs /\ convs[c].event = e
      BY <1>7, <2>0 DEF seatVendor, TypeInv, RequestsCarry, Carries, ConvCarriers
    <2>2. MembersBecome(c, SeatAll(convs[c].members, {v}))
      BY <1>7, <2>0 DEF seatVendor, MembersBecome
    <2>3. convs'[c].members = SeatAll(convs[c].members, {v})
      BY <2>1, <2>2, SeatWritten
    <2>4. msgs \in Seq(Message) /\ convs[c].members \in [User -> Participant \cup {NULL}]
      BY <2>1, MembersTyped DEF TypeInv, TablesTyped
    <2>5. v \in User
      BY DEF User
    <2>6. \A u \in User : u \in {v} => SeatAll(convs[c].members, {v})[u] # NULL
      BY <2>4, SeatAllTyped
    <2>7. convs'[c].members[v] # NULL
      BY <2>3, <2>5, <2>6
    <2> QED BY <2>1, <2>5, <2>7 DEF EventGroups, Members
  <1>8. CASE Fail(r)
    BY <1>1, <1>8 DEF Fail, Return
  <1> QED BY <1>2, <1>3, <1>4, <1>5, <1>6, <1>7, <1>8, SlotSteps

\* A vendor is left out only when the group is created without it, or when
\* the request that was to seat it dies.
LEMMA LeftOutStep ==
    ASSUME TypeInv, [Next]_vars
    PROVE  \A e \in Event, v \in Seller :
              ~LeftOut(e, v) /\ LeftOut(e, v)' =>
                 \E r \in RequestId :
                    /\ req[r].e = e /\ req'[r] = Idle
                    /\ \/ req[r].at = "createGroup" /\ v \notin req[r].who
                       \/ suite.dies /\ req[r].v = v
  <1>1. SUFFICES ASSUME NEW e \in Event, NEW v \in Seller, ~LeftOut(e, v), LeftOut(e, v)'
                 PROVE  \E r \in RequestId :
                           /\ req[r].e = e /\ req'[r] = Idle
                           /\ \/ req[r].at = "createGroup" /\ v \notin req[r].who
                              \/ suite.dies /\ req[r].v = v
    OBVIOUS
  <1>2. /\ v \in events'[e].vendors /\ EventGroups(e)' # {}
        /\ \A c \in EventGroups(e)' : v \notin Members(c)'
        /\ ~Awaited(e, v)'
    BY <1>1 DEF LeftOut, Awaited, Pending
  <1>3. \/ v \notin events[e].vendors
        \/ EventGroups(e) = {}
        \/ \E c \in EventGroups(e) : v \in Members(c)
        \/ Awaited(e, v)
    BY <1>1 DEF LeftOut, Awaited, Pending
  <1>4. ASSUME NEW c \in EventGroups(e)
        PROVE  c \in EventGroups(e)' /\ (v \in Members(c) => v \in Members(c)')
    BY NextTypes DEF Kept, ConvsKept, EventGroups, Members
  <1>5. CASE v \notin events[e].vendors
    BY <1>2, <1>5, AddedIsAwaited
  <1>6. CASE EventGroups(e) = {}
    <2>1. PICK c : c \in EventGroups(e)'
      BY <1>2
    <2>2. PICK r \in RequestId :
             /\ req[r].at = "createGroup" /\ req[r].e = e /\ req'[r] = Idle
             /\ \A u \in User : u \in req[r].who => u \in Members(c)'
      BY <1>6, <2>1, GroupAppears
    <2>3. v \notin req[r].who
      BY <1>2, <2>1, <2>2 DEF User
    <2> QED BY <2>2, <2>3
  <1>7. CASE Awaited(e, v) /\ EventGroups(e) # {}
    <2>1. PICK r \in RequestId : req[r].at \in Pending /\ req[r].e = e /\ req[r].v = v
      BY <1>7 DEF Awaited
    <2>2. suite.dies /\ req'[r] = Idle
      BY <1>2, <1>4, <1>7, <2>1, AwaitedStays
    <2> QED BY <2>1, <2>2
  <1> QED BY <1>2, <1>3, <1>4, <1>5, <1>6, <1>7

-----------------------------------------------------------------------------
(* Conversations are founded, and requests take turns.                     *)

\* The steps at which a request is about to create a conversation.
Founding == {"createDirect", "findGroup", "createGroup"}

\* A request begins to create a conversation, or finds that it has to.
Founds(r) ==
    \/ \E u \in Client, v \in Seller :
          \/ \E b \in Booking \cup {NULL} : createDirectConversation(r, u, v, b)
          \/ getOrCreateDirect(r, u, v)
    \/ \E e \in Event : createGroupConversation(r, e) \/ getOrCreateEventGroup(r, e)
    \/ findGroup(r)

\* Requests end, or go on to steps that create no conversation.
GoOn ==
    \A t \in RequestId : req'[t] = req[t] \/ (req[t] # Idle /\ req'[t].at \notin Founding)

\* A request of another kind is called.
Begins(q) == \E op, t : Called(q, op) /\ Wait(q, t) /\ t.at \notin Founding

Turn == GoOn \/ \E q \in RequestId : Begins(q) \/ Founds(q)

LEMMA ReturnGoesOn ==
    ASSUME TypeInv, NEW r \in RequestId, Return(r), req[r].at # "idle"
    PROVE  GoOn
  BY DEF Return, GoOn, Idle, Founding, TypeInv

LEMMA WaitGoesOn ==
    ASSUME TypeInv, NEW r \in RequestId, NEW s, Wait(r, s), req[r].at # "idle",
           s.at \notin Founding
    PROVE  GoOn
  <1>1. req[r] # Idle
    BY DEF Idle
  <1> QED BY <1>1 DEF Wait, GoOn, TypeInv

LEMMA CallBegins ==
    ASSUME NEW r \in RequestId, NEW op, Called(r, op), NEW s, Wait(r, s), s.at \notin Founding
    PROVE  Turn
  BY DEF Turn, Begins

\* The turns of MessagingService.
LEMMA ConversationsTurn ==
    ASSUME TypeInv, ConversationsNext
    PROVE  Turn
  <1>1. ASSUME NEW r \in RequestId, NEW c, NEW u, NEW p, addGroupParticipant(r, c, u, p)
        PROVE  Turn
    BY <1>1, CallBegins DEF addGroupParticipant, Idle, Founding
  <1>2. ASSUME NEW r \in RequestId, NEW op, NEW c, NEW u, sendMessage(r, op, c, u)
        PROVE  Turn
    BY <1>2, CallBegins DEF sendMessage, Idle, Founding
  <1>3. ASSUME NEW r \in RequestId, NEW c, NEW u, markRead(r, c, u)
        PROVE  Turn
    BY <1>3, CallBegins DEF markRead, Idle, Founding
  <1>4. ASSUME NEW r \in RequestId,
               \/ createDirect(r) \/ createDirectRefused(r) \/ createGroup(r)
               \/ createGroupRefused(r) \/ seat(r) \/ addParticipant(r)
               \/ addParticipantRefused(r) \/ resetUnread(r)
        PROVE  GoOn
    BY <1>4, ReturnGoesOn DEF createDirect, createDirectRefused, createGroup, createGroupRefused,
           seat, addParticipant, addParticipantRefused, resetUnread
  <1>5. ASSUME NEW r \in RequestId, insertMessage(r) PROVE GoOn
    <2>1. req[r] \in Slot /\ req[r].at = "insertMessage"
      BY <1>5 DEF TypeInv, insertMessage
    <2>2. ASSUME Wait(r, [req[r] EXCEPT !.at = "findAudience", !.m = Len(msgs) + 1])
          PROVE  GoOn
      BY <2>1, <2>2, WaitGoesOn DEF Slot, Founding
    <2>3. ASSUME Return(r) PROVE GoOn
      BY <2>1, <2>3, ReturnGoesOn
    <2> QED BY <1>5, <2>2, <2>3 DEF insertMessage
  <1>6. (\E r \in RequestId : Founds(r)) => Turn
    BY DEF Turn
  <1>7. GoOn => Turn
    BY DEF Turn
  <1>8. \/ \E r \in RequestId : Founds(r)
        \/ \E r \in RequestId :
              \/ createDirect(r) \/ createDirectRefused(r) \/ createGroup(r)
              \/ createGroupRefused(r) \/ seat(r) \/ addParticipant(r)
              \/ addParticipantRefused(r) \/ resetUnread(r)
        \/ \E r \in RequestId :
              \/ \E c, u, p : addGroupParticipant(r, c, u, p)
              \/ \E op, c, u : sendMessage(r, op, c, u)
              \/ \E c, u : markRead(r, c, u)
              \/ insertMessage(r)
    BY ZenonT(30) DEF ConversationsNext, Founds
  <1> QED BY <1>1, <1>2, <1>3, <1>4, <1>5, <1>6, <1>7, <1>8

\* The turns of EventsService.
LEMMA EventPlanningTurn ==
    ASSUME TypeInv, EventPlanningNext
    PROVE  Turn
  <1>0. GoOn => Turn
    BY DEF Turn
  <1>1. ASSUME NEW r \in RequestId, NEW u, NEW e, create(r, u, e) PROVE GoOn
    BY <1>1 DEF create, GoOn
  <1>2. ASSUME NEW r \in RequestId, NEW e, update(r, e) \/ cancel(r, e) PROVE Turn
    BY <1>2, CallBegins DEF update, cancel, Idle, Founding
  <1>3. ASSUME NEW r \in RequestId, NEW e, NEW v,
               addVendor(r, e, v) \/ addListing(r, e, v) \/ removeVendor(r, e, v)
        PROVE  Turn
    BY <1>3, CallBegins DEF addVendor, addListing, removeVendor, Idle, Founding
  <1>4. ASSUME NEW r \in RequestId,
               \/ \E status \in EventStatus : setStatus(r, status)
               \/ setCancelled(r) \/ insertVendorRefused(r) \/ deleteVendorRefused(r)
               \/ seatVendor(r)
        PROVE  GoOn
    BY <1>4, ReturnGoesOn DEF setStatus, setCancelled, insertVendorRefused, deleteVendorRefused,
           seatVendor
  <1>5. ASSUME NEW r \in RequestId, insertVendor(r) \/ findEventGroup(r) PROVE GoOn
    <2>1. req[r] \in Slot /\ req[r].at # "idle"
      BY <1>5 DEF TypeInv, insertVendor, findEventGroup
    <2>2. ASSUME Wait(r, [req[r] EXCEPT !.at = "findEventGroup"]) PROVE GoOn
      BY <2>1, <2>2, WaitGoesOn DEF Slot, Founding
    <2>3. ASSUME NEW c, Wait(r, [req[r] EXCEPT !.at = "seatVendor", !.c = c]) PROVE GoOn
      BY <2>1, <2>3, WaitGoesOn DEF Slot, Founding
    <2>4. ASSUME Return(r) PROVE GoOn
      BY <2>1, <2>4, ReturnGoesOn
    <2> QED BY <1>5, <2>2, <2>3, <2>4 DEF insertVendor, findEventGroup
  <1>6. ASSUME NEW r \in RequestId, deleteVendor(r) PROVE GoOn
    <2>1. ASSUME NEW t \in RequestId, req'[t] # req[t]
          PROVE  req[t] # Idle /\ req'[t].at \notin Founding
      <3>1. req[t] \in Slot /\ req[r].at = "deleteVendor"
        BY <1>6 DEF deleteVendor, TypeInv
      <3>2. CASE t = r
        <4>1. req'[t] = Idle
          BY <1>6, <3>2 DEF deleteVendor
        <4> QED BY <3>1, <3>2, <4>1 DEF Idle, Founding
      <3>3. CASE t # r
        <4>1. req[t].at = "deleteVendor" /\ req'[t] = [req[t] EXCEPT !.flag = TRUE]
          BY <1>6, <2>1, <3>3 DEF deleteVendor
        <4>2. req'[t].at = "deleteVendor"
          BY <3>1, <4>1 DEF Slot
        <4> QED BY <4>1, <4>2 DEF Idle, Founding
      <3> QED BY <3>2, <3>3
    <2> QED BY <2>1 DEF GoOn
  <1> QED BY <1>0, <1>1, <1>2, <1>3, <1>4, <1>5, <1>6 DEF EventPlanningNext

\* The turns of TodoService.
LEMMA GroupTodosTurn ==
    ASSUME TypeInv, GroupTodosNext
    PROVE  Turn
  <1>0. GoOn => Turn
    BY DEF Turn
  <1>1. ASSUME NEW r \in RequestId, NEW c, NEW u, NEW who, createTodo(r, c, u, who)
        PROVE  Turn
    BY <1>1, CallBegins DEF createTodo, Idle, Founding
  <1>2. ASSUME NEW r \in RequestId, NEW t, NEW u, toggleMyTask(r, t, u) \/ deleteTodo(r, t, u)
        PROVE  Turn
    BY <1>2, CallBegins DEF toggleMyTask, deleteTodo, Idle, Founding
  <1>3. ASSUME NEW r \in RequestId,
               tick(r) \/ tickRefused(r) \/ removeTodo(r) \/ removeTodoRefused(r)
        PROVE  GoOn
    BY <1>3, ReturnGoesOn DEF tick, tickRefused, removeTodo, removeTodoRefused
  <1>4. ASSUME NEW r \in RequestId, findAssignees(r) \/ insertTodo(r) PROVE GoOn
    <2>1. req[r] \in Slot /\ req[r].at \in {"findAssignees", "insertTodo"}
      BY <1>4 DEF TypeInv, findAssignees, insertTodo
    <2>2. ASSUME Wait(r, [req[r] EXCEPT !.at = "insertTodo"]) PROVE GoOn
      BY <2>1, <2>2, WaitGoesOn DEF Slot, Founding
    <2>3. ASSUME Wait(r, [req[r] EXCEPT !.at = "findAudience", !.m = Len(msgs) + 1])
          PROVE  GoOn
      BY <2>1, <2>3, WaitGoesOn DEF Slot, Founding
    <2>4. ASSUME Return(r) PROVE GoOn
      BY <2>1, <2>4, ReturnGoesOn
    <2> QED BY <1>4, <2>2, <2>3, <2>4 DEF findAssignees, insertTodo
  <1> QED BY <1>0, <1>1, <1>2, <1>3, <1>4 DEF GroupTodosNext

\* The turns of the gateway.
LEMMA ChatGatewayTurn ==
    ASSUME TypeInv, ChatGatewayNext
    PROVE  Turn
  <1>0. GoOn => Turn
    BY DEF Turn
  <1>1. ASSUME NEW u, handleDisconnect(u) PROVE GoOn
    <2>1. ASSUME NEW t \in RequestId
          PROVE  req'[t] = req[t] \/ (req[t] # Idle /\ req'[t].at \notin Founding)
      <3>1. req'[t] = IF req[t].at = "joinRoom" /\ req[t].u = u THEN Idle ELSE req[t]
        BY <1>1 DEF handleDisconnect
      <3> QED BY <3>1 DEF Idle, Founding
    <2> QED BY <2>1 DEF GoOn
  <1>2. ASSUME NEW r \in RequestId, NEW u,
               handleConnection(r, u) \/ \E c \in DOMAIN convs : handleLeave(r, c, u)
        PROVE  GoOn
    BY <1>2 DEF handleConnection, handleLeave, GoOn
  <1>3. ASSUME NEW r \in RequestId, NEW c, NEW u, handleJoin(r, c, u) PROVE Turn
    BY <1>3, CallBegins DEF handleJoin, Idle, Founding
  <1>4. ASSUME NEW r \in RequestId, joinRoom(r) \/ emitMessage(r) PROVE GoOn
    BY <1>4, ReturnGoesOn DEF joinRoom, emitMessage
  <1>5. ASSUME NEW r \in RequestId, findAudience(r) PROVE GoOn
    <2>1. req[r] \in Slot /\ req[r].at = "findAudience"
      BY <1>5 DEF TypeInv, findAudience
    <2>2. Wait(r, [req[r] EXCEPT !.at = "emit", !.who = Members(req[r].c)])
      BY <1>5 DEF findAudience
    <2> QED BY <2>1, <2>2, WaitGoesOn DEF Slot, Founding
  <1> QED BY <1>0, <1>1, <1>2, <1>3, <1>4, <1>5 DEF ChatGatewayNext

\* Requests begin when they may, and found conversations in the ways above.
LEMMA TurnTaken ==
    ASSUME TypeInv, [Next]_vars
    PROVE  Turn
  <1>1. CASE (\E r \in RequestId : Fail(r)) \/ UNCHANGED vars
    <2>1. ASSUME NEW r \in RequestId, Fail(r) PROVE GoOn
      BY <2>1 DEF Fail, Return, GoOn, Idle, Founding, TypeInv
    <2>2. ASSUME UNCHANGED vars PROVE GoOn
      BY <2>2 DEF vars, GoOn
    <2> QED BY <1>1, <2>1, <2>2 DEF Turn
  <1> QED BY <1>1, ConversationsTurn, EventPlanningTurn, GroupTodosTurn, ChatGatewayTurn DEF Next

\* No step changes the kind of traffic.
LEMMA SuiteStays == [Next]_vars => suite' = suite
  <1>1. CASE ConversationsNext
    BY ZenonT(30), <1>1
       DEF ConversationsNext, createDirectConversation, getOrCreateDirect, createDirect,
           createDirectRefused, createGroupConversation, getOrCreateEventGroup, findGroup,
           createGroup, createGroupRefused, seat, addGroupParticipant, addParticipant,
           addParticipantRefused, sendMessage, insertMessage, markRead, resetUnread, tables
  <1>2. CASE EventPlanningNext
    BY ZenonT(30), <1>2
       DEF EventPlanningNext, create, update, setStatus, cancel, setCancelled, addVendor,
           addListing, insertVendor, insertVendorRefused, findEventGroup, seatVendor,
           removeVendor, deleteVendor, deleteVendorRefused, tables
  <1>3. CASE GroupTodosNext
    BY <1>3 DEF GroupTodosNext, createTodo, findAssignees, insertTodo, toggleMyTask, tick,
           tickRefused, deleteTodo, removeTodo, removeTodoRefused, tables
  <1>4. CASE ChatGatewayNext
    BY <1>4 DEF ChatGatewayNext, handleConnection, handleDisconnect, handleJoin, joinRoom,
           handleLeave, findAudience, emitMessage, tables
  <1>5. CASE (\E r \in RequestId : Fail(r)) \/ UNCHANGED vars
    BY <1>5 DEF Fail, vars, tables
  <1> QED BY <1>1, <1>2, <1>3, <1>4, <1>5 DEF Next

\* Without overlap, one request is in flight at a time.
Alone ==
    ~suite.overlap => \A r, s \in RequestId : req[r] # Idle /\ req[s] # Idle => r = s

LEMMA AloneStep ==
    ASSUME TypeInv, [Next]_vars, Alone
    PROVE  Alone'
  <1>1. suite' = suite /\ req \in [RequestId -> Slot]
    BY SuiteStays DEF TypeInv
  <1>2. CASE GoOn
    BY <1>1, <1>2 DEF GoOn, Alone
  <1>3. ASSUME NEW q \in RequestId, NEW op, NEW t, Called(q, op), Wait(q, t)
        PROVE  Alone'
    <2>1. \A s \in RequestId \ {q} : req'[s] = req[s]
      BY <1>1, <1>3 DEF Wait
    <2>2. ASSUME ~suite.overlap PROVE \A s \in RequestId : req[s] = Idle
      BY <1>3, <2>2 DEF Called
    <2> QED BY <1>1, <2>1, <2>2 DEF Alone
  <1>4. ASSUME NEW q \in RequestId, findGroup(q)
        PROVE  Alone'
    <2>1. \A s \in RequestId \ {q} : req'[s] = req[s]
      BY <1>1, <1>4 DEF findGroup, Wait, Return
    <2>2. req[q].at = "findGroup"
      BY <1>4 DEF findGroup
    <2>3. req[q] # Idle
      BY <2>2 DEF Idle
    <2> QED BY <1>1, <2>1, <2>3 DEF Alone
  <1>5. ASSUME NEW q \in RequestId, Founds(q) PROVE Alone'
    BY <1>3, <1>4, <1>5
       DEF Founds, createDirectConversation, getOrCreateDirect, createGroupConversation,
           getOrCreateEventGroup
  <1> QED BY <1>2, <1>3, <1>5, TurnTaken DEF Turn, Begins

-----------------------------------------------------------------------------
(* One chat of a client and a vendor.                                      *)

\* Their chats outside of bookings, and the requests about to open one.
Chats(u, v) ==
    {c \in DOMAIN convs : /\ convs[c].type = "DIRECT" /\ convs[c].booking = NULL
                          /\ convs[c].client = u /\ convs[c].vendor = v}
Openers(u, v) ==
    {r \in RequestId : /\ req[r].at = "createDirect" /\ req[r].b = NULL
                       /\ req[r].u = u /\ req[r].v = v}

\* Chats and requests about to open one together stay within the bound: a
\* request becomes a chat, and none begins once there is a chat.
ChatsBounded ==
    \A u \in Client, v \in Seller :
        Cardinality(Chats(u, v)) + Cardinality(Openers(u, v))
            <= IF suite.overlap THEN Cardinality(RequestId) ELSE 1

\* The participants of a conversation are written, and nothing else of it.
LEMMA SameParties ==
    ASSUME TypeInv, NEW c, NEW new, MembersBecome(c, new)
    PROVE  \A u, v : Chats(u, v)' = Chats(u, v)
  <1>1. DOMAIN convs' = DOMAIN convs
    BY DEF MembersBecome
  <1>2. ASSUME NEW d \in DOMAIN convs
        PROVE  /\ convs'[d].type = convs[d].type /\ convs'[d].booking = convs[d].booking
               /\ convs'[d].client = convs[d].client /\ convs'[d].vendor = convs[d].vendor
    <2>1. convs[d] \in Conversation
      BY DEF TypeInv, TablesTyped
    <2> QED BY <2>1 DEF MembersBecome, Conversation
  <1> QED BY <1>1, <1>2 DEF Chats

\* A conversation is created: a chat of the two, or none of theirs.
LEMMA OneMore ==
    ASSUME TypeInv, NEW conv, Insert(conv), NEW u, NEW v
    PROVE  /\ Chats(u, v)' \subseteq Chats(u, v) \cup {Len(convs) + 1}
           /\ ~(/\ conv.type = "DIRECT" /\ conv.booking = NULL
                /\ conv.client = u /\ conv.vendor = v) => Chats(u, v)' = Chats(u, v)
  <1>1. convs \in Seq(Conversation) /\ convs' = Append(convs, conv)
    BY DEF TypeInv, TablesTyped, Insert
  <1>2. /\ DOMAIN convs' = 1 .. (Len(convs) + 1) /\ DOMAIN convs = 1 .. Len(convs)
        /\ Len(convs) \in Nat
    BY <1>1, LenProperties
  <1>3. /\ \A c \in DOMAIN convs : convs'[c] = convs[c]
        /\ convs'[Len(convs) + 1] = conv
        /\ DOMAIN convs' = DOMAIN convs \cup {Len(convs) + 1}
    BY <1>1, <1>2
  <1> QED BY <1>3 DEF Chats

\* What a step does to the chats.
LEMMA ChatSteps ==
    ASSUME TypeInv, [Next]_vars
    PROVE  \/ \A u \in Client, v \in Seller : Chats(u, v)' = Chats(u, v)
           \/ \E r \in RequestId : createDirect(r)
  <1> DEFINE Same == \A u \in Client, v \in Seller : Chats(u, v)' = Chats(u, v)
  <1> SUFFICES ASSUME \A r \in RequestId : ~createDirect(r)
               PROVE  Same
    OBVIOUS
  <1>1. ASSUME NEW c, NEW new, MembersBecome(c, new) PROVE Same
    BY <1>1, SameParties
  <1>2. ASSUME convs' = convs PROVE Same
    BY <1>2 DEF Chats
  <1>3. ASSUME NEW r \in RequestId, createGroup(r) PROVE Same
    <2> DEFINE conv == GroupOf(req[r].u, req[r].e, req[r].who)
    <2>1. conv.type # "DIRECT" /\ Insert(conv)
      BY <1>3 DEF createGroup, GroupOf
    <2> HIDE DEF conv
    <2> QED BY <2>1, OneMore
  <1>4. ASSUME NEW r \in RequestId, seat(r) \/ addParticipant(r) \/ seatVendor(r) \/ resetUnread(r)
        PROVE  \E c, new : MembersBecome(c, new)
    BY <1>4 DEF seat, addParticipant, seatVendor, resetUnread, MembersBecome
  <1>5. ASSUME NEW r \in RequestId, insertMessage(r) \/ insertTodo(r)
        PROVE  \E c, new : MembersBecome(c, new)
    BY <1>5 DEF insertMessage, insertTodo, post, MembersBecome
  <1> HIDE DEF Same
  <1>6. CASE ConversationsNext
    <2>1. \/ UNCHANGED tables
          \/ \E r \in RequestId : \/ createDirect(r) \/ createGroup(r) \/ seat(r)
                                 \/ addParticipant(r) \/ insertMessage(r) \/ resetUnread(r)
      BY <1>6
         DEF ConversationsNext, createDirectConversation, getOrCreateDirect, createDirectRefused,
             createGroupConversation, getOrCreateEventGroup, findGroup, createGroupRefused,
             addGroupParticipant, addParticipantRefused, sendMessage, markRead
    <2> QED BY <1>1, <1>2, <1>3, <1>4, <1>5, <2>1 DEF tables
  <1>7. CASE EventPlanningNext
    <2>1. convs' = convs \/ \E r \in RequestId : seatVendor(r)
      BY ZenonT(30), <1>7
         DEF EventPlanningNext, create, update, setStatus, cancel, setCancelled, addVendor,
             addListing, insertVendor, insertVendorRefused, findEventGroup, removeVendor,
             deleteVendor, deleteVendorRefused, tables, chatTables
    <2> QED BY <1>1, <1>2, <1>4, <2>1
  <1>8. CASE GroupTodosNext
    <2>1. convs' = convs \/ \E r \in RequestId : insertTodo(r)
      BY <1>8 DEF GroupTodosNext, createTodo, findAssignees, toggleMyTask, tick, tickRefused,
             deleteTodo, removeTodo, removeTodoRefused, tables
    <2> QED BY <1>1, <1>2, <1>5, <2>1
  <1>9. CASE ChatGatewayNext
    <2>1. convs' = convs
      BY <1>9 DEF ChatGatewayNext, handleConnection, handleDisconnect, handleJoin, joinRoom,
             handleLeave, findAudience, emitMessage, tables, chatTables
    <2> QED BY <1>2, <2>1
  <1>10. CASE (\E r \in RequestId : Fail(r)) \/ UNCHANGED vars
    BY <1>2, <1>10 DEF Fail, vars, tables
  <1> QED BY <1>6, <1>7, <1>8, <1>9, <1>10 DEF Next

\* Chats and requests about to open one are finitely many.
LEMMA ChatsFinite ==
    ASSUME TypeInv, NEW u, NEW v
    PROVE  IsFiniteSet(Chats(u, v)) /\ IsFiniteSet(Openers(u, v))
  <1>1. DOMAIN convs = 1 .. Len(convs) /\ Len(convs) \in Nat
    BY LenProperties DEF TypeInv, TablesTyped
  <1>2. IsFiniteSet(DOMAIN convs)
    BY <1>1, FS_Interval
  <1>3. Chats(u, v) \subseteq DOMAIN convs /\ Openers(u, v) \subseteq RequestId
    BY DEF Chats, Openers
  <1> QED BY <1>2, <1>3, FS_Subset, ChatAssumption

\* A request begins to open a chat of the two only when they have none.
LEMMA OpenerSteps ==
    ASSUME TypeInv, [Next]_vars, NEW u, NEW v
    PROVE  \/ Openers(u, v)' \subseteq Openers(u, v)
           \/ /\ Chats(u, v) = {} /\ Chats(u, v)' = {}
              /\ ~suite.overlap => \E q \in RequestId : Openers(u, v)' \subseteq {q}
  <1> DEFINE Fewer == Openers(u, v)' \subseteq Openers(u, v)
             First == /\ Chats(u, v) = {} /\ Chats(u, v)' = {}
                      /\ ~suite.overlap => \E q \in RequestId : Openers(u, v)' \subseteq {q}
  <1> SUFFICES Fewer \/ First
    OBVIOUS
  <1>1. req \in [RequestId -> Slot]
    BY DEF TypeInv
  <1>2. CASE GoOn
    BY <1>2 DEF GoOn, Openers, Founding
  <1>3. ASSUME NEW q \in RequestId, NEW t, Wait(q, t), t.at # "createDirect"
        PROVE  Fewer
    BY <1>1, <1>3 DEF Wait, Openers
  <1>4. ASSUME NEW q \in RequestId, Begins(q) PROVE Fewer
    BY <1>3, <1>4 DEF Begins, Founding
  <1>5. ASSUME NEW q \in RequestId, NEW e,
               createGroupConversation(q, e) \/ getOrCreateEventGroup(q, e)
        PROVE  Fewer
    BY <1>3, <1>5 DEF createGroupConversation, getOrCreateEventGroup, Idle
  <1>6. ASSUME NEW q \in RequestId, findGroup(q) PROVE Fewer
    <2>1. req[q] \in Slot /\ Idle.at # "createDirect"
      BY <1>1 DEF Idle
    <2>2. ASSUME Return(q) PROVE Fewer
      BY <1>1, <2>1, <2>2 DEF Return, Openers
    <2>3. ASSUME NEW c, NEW who, Wait(q, [req[q] EXCEPT !.at = "seat", !.c = c, !.who = who])
          PROVE  Fewer
      BY <1>3, <2>1, <2>3 DEF Slot
    <2>4. ASSUME Wait(q, [req[q] EXCEPT !.at = "createGroup"]) PROVE Fewer
      BY <1>3, <2>1, <2>4 DEF Slot
    <2> QED BY <1>6, <2>2, <2>3, <2>4 DEF findGroup
  <1>7. ASSUME NEW q \in RequestId, NEW op, NEW t, Called(q, op), Wait(q, t), UNCHANGED tables,
               t.u = u /\ t.v = v /\ t.b = NULL => Chats(u, v) = {}
        PROVE  Fewer \/ First
    <2>1. (\A r \in RequestId \ {q} : req'[r] = req[r]) /\ req'[q] = t
      BY <1>1, <1>7 DEF Wait
    <2>2. CASE t.u = u /\ t.v = v /\ t.b = NULL
      <3>1. Chats(u, v) = {} /\ Chats(u, v)' = {}
        BY <1>7, <2>2 DEF Chats, tables
      <3>2. ASSUME ~suite.overlap PROVE Openers(u, v)' \subseteq {q}
        <4>1. \A r \in RequestId : req[r] = Idle
          BY <1>7, <3>2 DEF Called
        <4>2. \A r \in RequestId \ {q} : req'[r].at = "idle"
          BY <2>1, <4>1 DEF Idle
        <4> QED BY <4>2 DEF Openers
      <3> QED BY <3>1, <3>2
    <2>3. CASE ~(t.u = u /\ t.v = v /\ t.b = NULL)
      BY <2>1, <2>3 DEF Openers
    <2> QED BY <2>2, <2>3
  <1>8. ASSUME NEW q \in RequestId, NEW x, NEW y, NEW b, createDirectConversation(q, x, y, b)
        PROVE  Fewer \/ First
    <2>1. x = u /\ y = v /\ b = NULL => Chats(u, v) = {}
      BY <1>8 DEF createDirectConversation, FindDirect, Chats
    <2> DEFINE t == [Idle EXCEPT !.at = "createDirect", !.u = x, !.v = y, !.b = b]
    <2>2. t.u = x /\ t.v = y /\ t.b = b
      BY DEF Idle
    <2>3. Called(q, "createDirect") /\ Wait(q, t) /\ UNCHANGED tables
      BY <1>8 DEF createDirectConversation
    <2> HIDE DEF t
    <2> QED BY <1>7, <2>1, <2>2, <2>3
  <1>9. ASSUME NEW q \in RequestId, NEW x, NEW y, getOrCreateDirect(q, x, y)
        PROVE  Fewer \/ First
    <2>1. x = u /\ y = v => Chats(u, v) = {}
      BY <1>9 DEF getOrCreateDirect, Chats
    <2> DEFINE t == [Idle EXCEPT !.at = "createDirect", !.u = x, !.v = y]
    <2>2. t.u = x /\ t.v = y
      BY DEF Idle
    <2>3. Called(q, "orderDirect") /\ Wait(q, t) /\ UNCHANGED tables
      BY <1>9 DEF getOrCreateDirect
    <2> HIDE DEF t
    <2> QED BY <1>7, <2>1, <2>2, <2>3
  <1> HIDE DEF Fewer, First
  <1>10. ASSUME NEW q \in RequestId, Founds(q) PROVE Fewer \/ First
    BY <1>5, <1>6, <1>8, <1>9, <1>10 DEF Founds
  <1> QED BY <1>2, <1>4, <1>10, TurnTaken DEF Turn

\* A request that was about to open a chat has opened it.
LEMMA ChatOpened ==
    ASSUME TypeInv, NEW r \in RequestId, createDirect(r), NEW u, NEW v
    PROVE  /\ Openers(u, v)' \subseteq Openers(u, v) \ {r}
           /\ \/ Chats(u, v)' = Chats(u, v)
              \/ r \in Openers(u, v) /\ Chats(u, v)' \subseteq Chats(u, v) \cup {Len(convs) + 1}
  <1>1. req \in [RequestId -> Slot] /\ Idle.at # "createDirect"
    BY DEF TypeInv, Idle
  <1>2. Openers(u, v)' \subseteq Openers(u, v) \ {r}
    BY <1>1 DEF createDirect, Return, Openers
  <1> DEFINE conv == DirectOf(req[r].u, req[r].v, req[r].b)
  <1>3. /\ conv.type = "DIRECT" /\ conv.booking = req[r].b
        /\ conv.client = req[r].u /\ conv.vendor = req[r].v
        /\ Insert(conv) /\ req[r].at = "createDirect"
    BY DEF createDirect, DirectOf
  <1> HIDE DEF conv
  <1>4. CASE r \in Openers(u, v)
    BY <1>2, <1>3, <1>4, OneMore
  <1>5. CASE r \notin Openers(u, v)
    BY <1>2, <1>3, <1>5, OneMore DEF Openers
  <1> QED BY <1>4, <1>5

\* The bound is kept.
LEMMA ChatsStep ==
    ASSUME TypeInv, [Next]_vars, ChatsBounded
    PROVE  ChatsBounded'
  <1>1. SUFFICES ASSUME NEW u \in Client, NEW v \in Seller
                 PROVE  Cardinality(Chats(u, v))' + Cardinality(Openers(u, v))'
                           <= IF suite.overlap THEN Cardinality(RequestId) ELSE 1
    BY SuiteStays DEF ChatsBounded
  <1> DEFINE C == Chats(u, v)  D == Chats(u, v)'
             O == Openers(u, v)  P == Openers(u, v)'  n == Len(convs) + 1
             bound == IF suite.overlap THEN Cardinality(RequestId) ELSE 1
  <1>2. IsFiniteSet(C) /\ IsFiniteSet(O)
    BY ChatsFinite
  <1>3. IsFiniteSet(RequestId) /\ P \subseteq RequestId
    BY ChatAssumption DEF Openers
  <1>4. Cardinality(C) + Cardinality(O) <= bound
    BY DEF ChatsBounded
  <1>5. \/ D = C
        \/ \E r \in RequestId : /\ P \subseteq O \ {r}
                               /\ \/ D = C
                                  \/ r \in O /\ D \subseteq C \cup {n}
    BY ChatSteps, ChatOpened
  <1>6. \/ P \subseteq O
        \/ /\ C = {} /\ D = {}
           /\ ~suite.overlap => \E q \in RequestId : P \subseteq {q}
    BY OpenerSteps
  <1> HIDE DEF C, D, O, P, n
  <1>7. ASSUME P \subseteq O, D = C
        PROVE  Cardinality(D) + Cardinality(P) <= bound
    <2>1. Cardinality(C) \in Nat /\ Cardinality(O) \in Nat /\ Cardinality(P) \in Nat
          /\ Cardinality(P) <= Cardinality(O)
      BY <1>2, <1>7, FS_Subset, FS_CardinalityType
    <2>2. Cardinality(RequestId) \in Nat
      BY <1>3, FS_CardinalityType
    <2> QED BY <1>4, <1>7, <2>1, <2>2
  <1>8. ASSUME D = {}, ~suite.overlap => \E q \in RequestId : P \subseteq {q}
        PROVE  Cardinality(D) + Cardinality(P) <= bound
    <2>1. /\ Cardinality(D) = 0 /\ Cardinality(P) \in Nat /\ Cardinality(RequestId) \in Nat
          /\ Cardinality(P) <= Cardinality(RequestId)
      BY <1>3, <1>8, FS_EmptySet, FS_Subset, FS_CardinalityType
    <2>2. ASSUME ~suite.overlap PROVE Cardinality(P) <= 1
      <3>1. PICK q \in RequestId : P \subseteq {q}
        BY <1>8, <2>2
      <3>2. IsFiniteSet({q}) /\ Cardinality({q}) = 1
        BY FS_Singleton
      <3> QED BY <3>1, <3>2, FS_Subset
    <2> QED BY <2>1, <2>2
  <1>9. ASSUME NEW r \in RequestId, P \subseteq O \ {r}, r \in O, D \subseteq C \cup {n}
        PROVE  Cardinality(D) + Cardinality(P) <= bound
    <2>0. Cardinality(C) \in Nat /\ Cardinality(O) \in Nat
      BY <1>2, FS_CardinalityType
    <2>1. /\ IsFiniteSet(O \ {r}) /\ Cardinality(O \ {r}) = Cardinality(O) - 1
          /\ IsFiniteSet(C \cup {n}) /\ Cardinality(C \cup {n}) <= Cardinality(C) + 1
      <3>1. IsFiniteSet(O \ {r}) /\ Cardinality(O \ {r}) = Cardinality(O) - 1
        BY <1>2, <1>9, FS_RemoveElement
      <3>2. IsFiniteSet(C \cup {n}) /\ Cardinality(C \cup {n}) <= Cardinality(C) + 1
        <4>1. /\ IsFiniteSet(C \cup {n})
              /\ Cardinality(C \cup {n})
                    = IF n \in C THEN Cardinality(C) ELSE Cardinality(C) + 1
          BY <1>2, FS_AddElement
        <4> QED BY <2>0, <4>1
      <3> QED BY <3>1, <3>2
    <2>2. /\ Cardinality(P) \in Nat /\ Cardinality(P) <= Cardinality(O) - 1
          /\ Cardinality(D) \in Nat /\ Cardinality(D) <= Cardinality(C) + 1
      BY <1>9, <2>0, <2>1, FS_Subset, FS_CardinalityType
    <2>3. Cardinality(RequestId) \in Nat
      BY <1>3, FS_CardinalityType
    <2> QED BY <1>4, <2>0, <2>2, <2>3
  <1>10. Cardinality(D) + Cardinality(P) <= bound
    BY <1>5, <1>6, <1>7, <1>8, <1>9
  <1> QED BY <1>10 DEF D, P

-----------------------------------------------------------------------------
(* The group of an event and its vendors, one request at a time.           *)

\* Requests do not overlap or die, and groups come from the event's page.
Orderly == ~suite.overlap /\ ~suite.dies /\ "createGroup" \notin suite.routes

\* A request that looks for the group of an event, or creates it, has every
\* vendor of the event on its list.
ListsComplete ==
    Orderly => \A r \in RequestId : req[r].at \in {"findGroup", "createGroup"} =>
                  events[req[r].e].vendors \subseteq req[r].who

\* One request at a time, the list cannot grow while its group is created.
LEMMA ListsStep ==
    ASSUME TypeInv, [Next]_vars, Alone, ListsComplete
    PROVE  ListsComplete'
  <1>1. suite' = suite /\ req \in [RequestId -> Slot] /\ TypeInv' /\ Alone'
    BY SuiteStays, AloneStep, NextTypes DEF TypeInv
  <1>2. SUFFICES ASSUME Orderly, NEW r \in RequestId, req'[r].at \in {"findGroup", "createGroup"},
                        NEW v, v \in events'[req'[r].e].vendors
                 PROVE  v \in req'[r].who
    BY <1>1 DEF ListsComplete, Orderly
  <1>3. v \in events[req'[r].e].vendors
    <2>1. PICK e \in Event : e = req'[r].e
      BY <1>1, <1>2 DEF TypeInv, RequestsCarry, Carries
    <2>2. ASSUME v \notin events[e].vendors PROVE FALSE
      <3>1. PICK q \in RequestId : req'[q].at \in Pending
        BY <1>2, <2>1, <2>2, AddedIsAwaited DEF Awaited
      <3>2. req'[q] # Idle /\ req'[r] # Idle
        BY <1>2, <3>1 DEF Idle, Pending
      <3>3. q = r
        BY <1>1, <1>2, <3>2 DEF Alone, Orderly
      <3> QED BY <1>2, <3>1, <3>3 DEF Pending
    <2> QED BY <2>1, <2>2
  <1>4. CASE req'[r] = req[r]
    BY <1>2, <1>3, <1>4 DEF ListsComplete
  <1>5. ASSUME NEW q \in RequestId, NEW t, Wait(q, t), t.at \notin {"findGroup", "createGroup"}
        PROVE  req'[r] = req[r]
    BY <1>1, <1>2, <1>5 DEF Wait
  <1>6. ASSUME NEW q \in RequestId, NEW e, getOrCreateEventGroup(q, e)
        PROVE  v \in req'[r].who
    <2>1. CASE q = r
      <3>1. req'[r] = [Idle EXCEPT !.at = "findGroup", !.u = events[e].client, !.e = e,
                                   !.who = {events[e].client} \cup events[e].vendors]
        BY <1>1, <1>6, <2>1 DEF getOrCreateEventGroup, Wait
      <3>2. req'[r].e = e /\ req'[r].who = {events[e].client} \cup events[e].vendors
        BY <3>1 DEF Idle
      <3> QED BY <1>3, <3>2
    <2>2. CASE q # r
      BY <1>1, <1>4, <1>6, <2>2 DEF getOrCreateEventGroup, Wait
    <2> QED BY <2>1, <2>2
  <1>7. ASSUME NEW q \in RequestId, findGroup(q)
        PROVE  v \in req'[r].who
    <2>1. CASE q = r
      <3>1. req[r] \in Slot /\ req[r].at = "findGroup"
        BY <1>1, <1>7, <2>1 DEF findGroup
      <3>2. req'[r] = [req[r] EXCEPT !.at = "createGroup"]
        <4>1. ASSUME Return(r) PROVE FALSE
          BY <1>1, <1>2, <4>1 DEF Return, Idle
        <4>2. ASSUME NEW c, NEW who,
                     Wait(r, [req[r] EXCEPT !.at = "seat", !.c = c, !.who = who])
              PROVE  FALSE
          <5>1. req'[r].at = "seat"
            BY <1>1, <3>1, <4>2 DEF Wait, Slot
          <5> QED BY <1>2, <5>1
        <4>3. Wait(r, [req[r] EXCEPT !.at = "createGroup"])
          BY <1>7, <2>1, <4>1, <4>2 DEF findGroup
        <4> QED BY <1>1, <4>3 DEF Wait
      <3>3. req'[r].e = req[r].e /\ req'[r].who = req[r].who
        BY <3>1, <3>2 DEF Slot
      <3> QED BY <1>2, <1>3, <3>1, <3>3 DEF ListsComplete
    <2>2. CASE q # r
      BY <1>1, <1>4, <1>7, <2>2 DEF findGroup, Wait, Return
    <2> QED BY <2>1, <2>2
  <1>8. ASSUME NEW q \in RequestId, Founds(q) PROVE v \in req'[r].who
    <2>1. ASSUME NEW e, createGroupConversation(q, e) PROVE FALSE
      BY <1>2, <2>1 DEF createGroupConversation, Called, Orderly
    <2>2. ASSUME NEW x, NEW y, NEW b,
                 createDirectConversation(q, x, y, b) \/ getOrCreateDirect(q, x, y)
          PROVE  req'[r] = req[r]
      BY <1>5, <2>2 DEF createDirectConversation, getOrCreateDirect, Idle
    <2> QED BY <1>4, <1>6, <1>7, <1>8, <2>1, <2>2 DEF Founds
  <1>9. ASSUME NEW q \in RequestId, Begins(q) PROVE v \in req'[r].who
    BY <1>4, <1>5, <1>9 DEF Begins, Founding
  <1>10. CASE GoOn
    BY <1>2, <1>4, <1>10 DEF GoOn, Founding
  <1> QED BY <1>8, <1>9, <1>10, TurnTaken DEF Turn

\* So nobody is left out of the group.
LEMMA GroupStep ==
    ASSUME TypeInv, [Next]_vars, ListsComplete, GroupComplete
    PROVE  GroupComplete'
  <1>1. SUFFICES ASSUME Orderly, NEW e \in Event, NEW v \in Seller, LeftOut(e, v)'
                 PROVE  FALSE
    BY SuiteStays DEF GroupComplete, Orderly
  <1>2. ~LeftOut(e, v)
    BY <1>1 DEF GroupComplete, Orderly
  <1>3. PICK r \in RequestId : req[r].e = e /\ req[r].at = "createGroup" /\ v \notin req[r].who
    BY <1>1, <1>2, LeftOutStep DEF Orderly
  <1>4. v \notin events[e].vendors
    BY <1>1, <1>3 DEF ListsComplete
  <1>5. v \in events'[e].vendors /\ ~Awaited(e, v)'
    BY <1>1 DEF LeftOut, Awaited, Pending
  <1> QED BY <1>4, <1>5, AddedIsAwaited

-----------------------------------------------------------------------------
\* What the chat keeps, whatever its requests do to each other.
SafetyInv ==
    /\ TypeInv /\ ClocksPast /\ UnreadCountsUnseen /\ ReceiptsTruthful
    /\ TodosBelong /\ LiveForMembers /\ AudienceComplete /\ UpdatesOpen /\ UncreatedDraft
    /\ ChatsBounded /\ Alone /\ ListsComplete /\ GroupComplete

\* At the start there is nothing to count, read, tick or push.
LEMMA InitSafe == TablesInit => SafetyInv
  <1> SUFFICES ASSUME TablesInit PROVE SafetyInv
    OBVIOUS
  <1>1. TypeInv
    BY InitTypes
  <1>2. DOMAIN convs = {} /\ DOMAIN msgs = {} /\ DOMAIN todos = {} /\ shown = {} /\ room = {}
    BY EmptySeq, LenProperties DEF TablesInit
  <1>3. ClocksPast /\ UnreadCountsUnseen /\ ReceiptsTruthful /\ TodosBelong /\ LiveForMembers
    BY <1>2 DEF ClocksPast, UnreadCountsUnseen, ReceiptsTruthful, TodosBelong, LiveForMembers
  <1>4. AudienceComplete /\ UpdatesOpen
    BY DEF TablesInit, AudienceComplete, UpdatesOpen, MayUpdate, Updating, Idle
  <1>5. UncreatedDraft
    BY DEF TablesInit, UncreatedDraft
  <1>6. ChatsBounded
    <2>1. ASSUME NEW u, NEW v PROVE Chats(u, v) = {} /\ Openers(u, v) = {}
      BY <1>2 DEF TablesInit, Chats, Openers, Idle
    <2>2. Cardinality({}) = 0 /\ Cardinality(RequestId) \in Nat
      BY FS_EmptySet, FS_CardinalityType, ChatAssumption
    <2>3. ASSUME NEW u, NEW v
          PROVE  Cardinality(Chats(u, v)) = 0 /\ Cardinality(Openers(u, v)) = 0
      BY <2>1, <2>2
    <2> QED BY <2>2, <2>3 DEF ChatsBounded
  <1>7. Alone /\ ListsComplete
    BY DEF TablesInit, Alone, ListsComplete, Idle
  <1>8. GroupComplete
    BY <1>2 DEF GroupComplete, LeftOut, EventGroups
  <1> QED BY <1>1, <1>3, <1>4, <1>5, <1>6, <1>7, <1>8 DEF SafetyInv

\* Every step keeps it.
LEMMA NextSafe == SafetyInv /\ [Next]_vars => SafetyInv'
  <1> SUFFICES ASSUME SafetyInv, [Next]_vars PROVE SafetyInv'
    OBVIOUS
  <1> USE DEF SafetyInv
  <1>1. TypeInv'
    BY NextTypes
  <1>2. ClocksPast'
    BY ClocksStep
  <1>3. UnreadCountsUnseen'
    BY UnreadStep
  <1>4. ReceiptsTruthful'
    BY ReceiptsStep
  <1>5. TodosBelong'
    BY TodosStep
  <1>6. LiveForMembers'
    BY LiveStep
  <1>7. AudienceComplete'
    BY AudienceStep
  <1>8. UpdatesOpen' /\ UncreatedDraft'
    BY EventsStep
  <1>9. ChatsBounded' /\ Alone' /\ ListsComplete' /\ GroupComplete'
    BY ChatsStep, AloneStep, ListsStep, GroupStep
  <1> QED BY <1>1, <1>2, <1>3, <1>4, <1>5, <1>6, <1>7, <1>8, <1>9

LEMMA SafetyInvariance == Spec => []SafetyInv
  BY InitSafe, NextSafe, PTL DEF Spec

\* The unread badge is right for every participant of every conversation.
THEOREM UnreadCorrect == Spec => []UnreadCountsUnseen
  <1>1. SafetyInv => UnreadCountsUnseen
    BY DEF SafetyInv
  <1> QED BY <1>1, SafetyInvariance, PTL

\* A message is marked read if and only if someone other than its sender has
\* read its conversation since.
THEOREM ReceiptsCorrect == Spec => []ReceiptsTruthful
  <1>1. SafetyInv => ReceiptsTruthful
    BY DEF SafetyInv
  <1> QED BY <1>1, SafetyInvariance, PTL

\* A to-do stays in its group, with exactly one card, and goes with it.
THEOREM TodosCorrect == Spec => []TodosBelong
  <1>1. SafetyInv => TodosBelong
    BY DEF SafetyInv
  <1> QED BY <1>1, SafetyInvariance, PTL

\* A client and a vendor have one chat outside of bookings, or as many as
\* requests that overlapped on first contact.
THEOREM DirectBounded == Spec => []OneDirectPerPair
  <1>1. SafetyInv => OneDirectPerPair
    <2>1. SUFFICES ASSUME SafetyInv, NEW u \in Client, NEW v \in Seller
                   PROVE  Cardinality(Chats(u, v))
                             <= IF suite.overlap THEN Cardinality(RequestId) ELSE 1
      BY DEF OneDirectPerPair, Chats
    <2>2. Cardinality(Chats(u, v)) \in Nat /\ Cardinality(Openers(u, v)) \in Nat
          /\ Cardinality(RequestId) \in Nat
      BY <2>1, ChatsFinite, FS_CardinalityType, ChatAssumption DEF SafetyInv
    <2> QED BY <2>1, <2>2 DEF SafetyInv, ChatsBounded
  <1> QED BY <1>1, SafetyInvariance, PTL

\* One request at a time, the group of an event and its vendors stay together.
THEOREM GroupCorrect == Spec => []GroupComplete
  <1>1. SafetyInv => GroupComplete
    BY DEF SafetyInv
  <1> QED BY <1>1, SafetyInvariance, PTL

\* Nobody but members of a conversation is shown its messages or has it open.
THEOREM LiveCorrect == Spec => []LiveForMembers
  <1>1. SafetyInv => LiveForMembers
    BY DEF SafetyInv
  <1> QED BY <1>1, SafetyInvariance, PTL

\* A push reaches everyone connected who was a member before the message.
THEOREM PushCorrect == Spec => PushReachesMembers
  <1>1. SafetyInv /\ [Next]_vars =>
           [\A m \in emitted' \ emitted : \A u \in online :
               IsParticipant(msgs[m].conv, u) /\ convs[msgs[m].conv].members[u].joined < m
                  => <<u, m>> \in shown']_vars
    BY PushStep DEF SafetyInv
  <1> QED BY <1>1, SafetyInvariance, PTL DEF Spec, PushReachesMembers

\* A completed or cancelled event changes only by a request that saw it open.
THEOREM FinalCorrect == Spec => FinalEventsStay
  <1>1. SafetyInv /\ [Next]_vars =>
           [\A e \in Event :
               events[e].status \in FinalStatus /\ events'[e].status # events[e].status =>
                  \E r \in RequestId :
                     /\ req[r].at \in {"updateEvent", "cancelEvent"} /\ req[r].e = e
                     /\ req[r].seen \notin FinalStatus /\ req'[r] = Idle]_vars
    BY FinalStep DEF SafetyInv
  <1> QED BY <1>1, SafetyInvariance, PTL DEF Spec, FinalEventsStay

\* A vendor of an event is left out of its group only when the group is
\* created from a list without it, or its request dies.
THEOREM LeftOutCorrect == Spec => LeftOutOnlyAtCreation
  <1>1. SafetyInv /\ [Next]_vars =>
           [\A e \in Event, v \in Seller :
               ~LeftOut(e, v) /\ LeftOut(e, v)' =>
                  \E r \in RequestId :
                     /\ req[r].e = e /\ req'[r] = Idle
                     /\ \/ req[r].at = "createGroup" /\ v \notin req[r].who
                        \/ suite.dies /\ req[r].v = v]_vars
    BY LeftOutStep DEF SafetyInv
  <1> QED BY <1>1, SafetyInvariance, PTL DEF Spec, LeftOutOnlyAtCreation
=============================================================================
