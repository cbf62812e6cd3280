----------------------------- MODULE ChatTables -----------------------------
(***************************************************************************)
(* The tables of the chat: conversations with their participants, messages,*)
(* to-dos, and the events whose vendors share a group chat; the sockets of *)
(* the /chat namespace; and the requests in flight.                        *)
(*                                                                         *)
(* Time is the order of messages: a participant joined, or last read,      *)
(* after the first n messages of the table.  Participants are never        *)
(* removed and messages never deleted, so rows are numbered in order of    *)
(* creation.  A vendor profile is identified with its user.                *)
(***************************************************************************)
EXTENDS Naturals, Sequences, FiniteSets

CONSTANTS
    Client,      \* users who plan events
    Seller,      \* users with a vendor profile
    Event, Booking,
    NULL,        \* SQL NULL
    RequestId,   \* slots for requests
    Suites,      \* the kinds of traffic of this instance (Traffic)
    MaxConvs, MaxMsgs, MaxTodos     \* bounds on the rows of each table

VARIABLES
    suite,       \* the traffic of this behaviour
    convs,       \* conversations and conversation_participants
    msgs,        \* table messages
    todos,       \* todos and todo_assignments
    events,      \* events and event_vendors
    online,      \* users whose socket is in their personal room
    room,        \* <<u, c>>: u's socket has joined conversation c's room
    shown,       \* <<u, m>>: u's socket has received message m
    emitted,     \* messages pushed to the sockets
    req          \* what each slot holds

chatTables == <<convs, msgs, todos>>
sockets == <<online, room, shown, emitted>>
tables == <<suite, convs, msgs, todos, events, sockets>>
vars == <<tables, req>>

-----------------------------------------------------------------------------
User == Client \cup Seller
ConvId == 1 .. MaxConvs
MsgId == 1 .. MaxMsgs
TodoId == 1 .. MaxTodos

EventStatus == {"DRAFT", "PLANNING", "CONFIRMED", "ACTIVE", "COMPLETED", "CANCELLED"}
FinalStatus == {"COMPLETED", "CANCELLED"}

\* unreadCount, joinedAt and lastReadAt of a participant; NULL for a user who
\* is none, and for one a to-do is not assigned to.
Participant == [unread: Nat, joined: Nat, read: Nat]
Conversation ==
    [type: {"DIRECT", "GROUP"}, client: Client, vendor: Seller \cup {NULL},
     booking: Booking \cup {NULL}, event: Event \cup {NULL},
     members: [User -> Participant \cup {NULL}]]
Message == [conv: ConvId, sender: User, isRead: BOOLEAN, todo: Nat]
Todo == [conv: ConvId, by: User, gone: BOOLEAN, done: [User -> BOOLEAN \cup {NULL}]]
EventRow == [client: Client \cup {NULL}, status: EventStatus, vendors: SUBSET Seller]

\* The traffic of one behaviour: the routes called, whether a request may
\* start while another waits, and whether requests may die.
Traffic == [routes: SUBSET STRING, overlap: BOOLEAN, dies: BOOLEAN]

\* `at' names what the handler does when it resumes; `who' the users it will
\* seat, assign or notify; `seen' the event status it read; `flag' the tick
\* it read, or that the row it read has been deleted since.
MessagingSteps == {"createDirect", "createGroup", "findGroup", "seat",
                   "addParticipant", "insertMessage", "resetUnread"}
EventSteps == {"updateEvent", "cancelEvent", "insertVendor", "upsertVendor",
               "findEventGroup", "seatVendor", "deleteVendor"}
TodoSteps == {"findAssignees", "insertTodo", "tick", "deleteTodo"}
GatewaySteps == {"findAudience", "emit", "joinRoom"}

Slot == [at: MessagingSteps \cup EventSteps \cup TodoSteps \cup GatewaySteps
               \cup {"idle"},
         u: User \cup {NULL}, v: Seller \cup {NULL}, c: Nat, m: Nat, t: Nat,
         e: Event \cup {NULL}, b: Booking \cup {NULL}, who: SUBSET User,
         seen: EventStatus \cup {NULL}, flag: BOOLEAN]

Idle == [at |-> "idle", u |-> NULL, v |-> NULL, c |-> 0, m |-> 0, t |-> 0,
         e |-> NULL, b |-> NULL, who |-> {}, seen |-> NULL, flag |-> FALSE]

ASSUME ChatAssumption ==
    /\ IsFiniteSet(User) /\ IsFiniteSet(RequestId)
    /\ Client \cap Seller = {}
    /\ NULL \notin User \cup Event \cup Booking \cup EventStatus
    /\ NULL \notin BOOLEAN
    /\ NULL \notin Participant
    /\ Suites \subseteq Traffic
    /\ {MaxConvs, MaxMsgs, MaxTodos} \subseteq Nat

-----------------------------------------------------------------------------
Members(c) == {u \in User : convs[c].members[u] # NULL}
IsParticipant(c, u) == c \in DOMAIN convs /\ u \in Members(c)
EventGroups(e) == {c \in DOMAIN convs : convs[c].event = e}

\* Mutant: unread_count has no default.
SeatUncounted == [unread |-> NULL, joined |-> Len(msgs), read |-> 0]

\* A participant row as its defaults make it.
Seat == [unread |-> 0, joined |-> Len(msgs), read |-> 0]
NoMembers == [u \in User |-> NULL]
SeatAll(members, who) ==
    [u \in User |-> IF u \in who /\ members[u] = NULL THEN Seat ELSE members[u]]

Insert(conv) ==
    /\ Len(convs) < MaxConvs
    /\ convs' = Append(convs, conv)

\* Every participant but u has one more unread message.
Bump(members, u) ==
    [p \in User |-> IF p = u \/ members[p] = NULL
                    THEN members[p] ELSE [members[p] EXCEPT !.unread = @ + 1]]

\* Participant u has read all there is.
ReadNow(members, u) == [members EXCEPT ![u].unread = 0, ![u].read = Len(msgs)]

\* Mutant: a post counts as unread for its sender too.
postToAll(c, u, t) ==
    /\ Len(msgs) < MaxMsgs
    /\ msgs' = Append(msgs, [conv |-> c, sender |-> u, isRead |-> FALSE, todo |-> t])
    /\ convs' = [convs EXCEPT ![c].members = Bump(@, NULL)]

\* A message and the unread counts it moves, in one transaction: sendMessage
\* and, for the cards of to-dos, ChatCardService.post.
post(c, u, t) ==
    /\ Len(msgs) < MaxMsgs
    /\ msgs' = Append(msgs, [conv |-> c, sender |-> u, isRead |-> FALSE, todo |-> t])
    /\ convs' = [convs EXCEPT ![c].members = Bump(@, u)]

\* A request on route op reaches slot r.
Called(r, op) ==
    /\ op \in suite.routes
    /\ req[r] = Idle
    /\ suite.overlap \/ \A s \in RequestId : req[s] = Idle

Wait(r, slot) == req' = [req EXCEPT ![r] = slot]
Return(r) == req' = [req EXCEPT ![r] = Idle]

\* A request dies between two steps; what it committed before stays.
Fail(r) ==
    /\ suite.dies
    /\ req[r] # Idle
    /\ Return(r)
    /\ UNCHANGED tables

TablesInit ==
    /\ suite \in Suites
    /\ convs = <<>>
    /\ msgs = <<>>
    /\ todos = <<>>
    /\ events = [e \in Event |-> [client |-> NULL, status |-> "DRAFT", vendors |-> {}]]
    /\ online = {}
    /\ room = {}
    /\ shown = {}
    /\ emitted = {}
    /\ req = [r \in RequestId |-> Idle]

TypeOK ==
    /\ suite \in Suites
    /\ convs \in Seq(Conversation)
    /\ msgs \in Seq(Message)
    /\ todos \in Seq(Todo)
    /\ events \in [Event -> EventRow]
    /\ online \subseteq User
    /\ room \subseteq User \X (DOMAIN convs)
    /\ shown \subseteq User \X (DOMAIN msgs)
    /\ emitted \subseteq DOMAIN msgs
    /\ req \in [RequestId -> Slot]
=============================================================================
