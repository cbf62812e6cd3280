----------------------------- MODULE InboxTypes -----------------------------
(***************************************************************************)
(* Type correctness of Inbox, for any number of users, events and rows.    *)
(* TypeOK alone is not inductive: a commit writes through the ids its      *)
(* request read, so the invariant adds that those rows exist, and what the *)
(* checks before the commit established of them and nothing undoes.        *)
(***************************************************************************)
EXTENDS Inbox, SequenceTheorems, TLAPS

TablesTyped ==
    /\ suite \in Suites
    /\ convs \in Seq(Conversation) /\ Len(convs) <= MaxConvs
    /\ msgs \in Seq(Message)
    /\ todos \in Seq(Todo)
    /\ events \in [Event -> EventRow]
    /\ online \subseteq User
    /\ room \subseteq User \X (DOMAIN convs)
    /\ shown \subseteq User \X (DOMAIN msgs)
    /\ emitted \subseteq DOMAIN msgs

RowsSound ==
    /\ \A m \in DOMAIN msgs : /\ msgs[m].conv \in DOMAIN convs
                              /\ msgs[m].todo \in {0} \cup DOMAIN todos
    /\ \A t \in DOMAIN todos : todos[t].conv \in DOMAIN convs

ConvCarriers == {"seat", "addParticipant", "insertMessage", "resetUnread", "seatVendor",
                 "findAssignees", "insertTodo", "findAudience", "emit", "joinRoom"}
MemberCarriers == {"insertMessage", "resetUnread", "findAssignees", "insertTodo", "joinRoom"}
VendorCarriers == {"createDirect"} \cup (EventSteps \ {"updateEvent", "cancelEvent"})
GroupCarriers == {"findAssignees", "insertTodo"}
MessageCarriers == {"findAudience", "emit"}

\* What a request carries to its next step is there, and was checked.
Carries(s) ==
    /\ s.at \in ConvCarriers => s.c \in DOMAIN convs
    /\ s.at \in MemberCarriers => s.u \in Members(s.c)
    /\ s.at \in GroupCarriers => convs[s.c].type = "GROUP"
    /\ s.at = "insertTodo" => s.who \subseteq Members(s.c)
    /\ s.at \in VendorCarriers => s.v \in Seller
    /\ s.at \in EventSteps \cup {"createGroup", "findGroup"} => s.e \in Event
    /\ s.at \in {"createDirect", "createGroup", "findGroup"} => s.u \in Client
    /\ s.at = "seatVendor" => convs[s.c].event = s.e
    /\ s.at \in TodoSteps \ GroupCarriers => s.t \in DOMAIN todos /\ s.u \in User
    /\ s.at \in MessageCarriers => s.m \in DOMAIN msgs /\ msgs[s.m].conv = s.c
    /\ s.at = "emit" => s.who \subseteq Members(s.c)
    /\ s.at = "joinRoom" => s.u \in online

RequestsCarry == \A r \in RequestId : Carries(req[r])

TypeInv == TablesTyped /\ RowsSound /\ req \in [RequestId -> Slot] /\ RequestsCarry

\* No step takes a row or a participant away, or moves a row.
ConvsKept ==
    /\ DOMAIN convs \subseteq DOMAIN convs'
    /\ \A c \in DOMAIN convs :
          /\ convs'[c].type = convs[c].type
          /\ convs'[c].event = convs[c].event
          /\ \A u \in User : convs[c].members[u] # NULL => convs'[c].members[u] # NULL

Kept ==
    /\ ConvsKept
    /\ DOMAIN msgs \subseteq DOMAIN msgs'
    /\ \A m \in DOMAIN msgs : msgs'[m].conv = msgs[m].conv
    /\ DOMAIN todos \subseteq DOMAIN todos'

-----------------------------------------------------------------------------
(* What the building blocks of the actions do.                             *)

\* The idle slot is a slot and carries nothing.
LEMMA IdleCarries == Idle \in Slot /\ Carries(Idle)
  BY DEF Idle, Slot, Carries, ConvCarriers, MemberCarriers, VendorCarriers, GroupCarriers,
         MessageCarriers, EventSteps, TodoSteps

\* What a request carries stays there while others step.
LEMMA CarriesKept ==
    ASSUME NEW s, Carries(s), Kept, s.at = "joinRoom" => s.u \in online'
    PROVE  Carries(s)'
  <1>1. \A c \in DOMAIN convs : Members(c) \subseteq Members(c)'
    BY DEF Kept, ConvsKept, Members
  <1>2. s.at \in ConvCarriers => /\ s.c \in DOMAIN convs
                                 /\ s.c \in DOMAIN convs'
                                 /\ convs'[s.c].type = convs[s.c].type
                                 /\ convs'[s.c].event = convs[s.c].event
                                 /\ Members(s.c) \subseteq Members(s.c)'
    BY <1>1 DEF Carries, Kept, ConvsKept
  <1>3. MemberCarriers \cup GroupCarriers \cup MessageCarriers \cup {"seatVendor"}
           \subseteq ConvCarriers
    BY DEF ConvCarriers, MemberCarriers, GroupCarriers, MessageCarriers
  <1>4. s.at \in MemberCarriers => s.u \in Members(s.c)'
    BY <1>2, <1>3 DEF Carries
  <1>5. s.at \in GroupCarriers => convs'[s.c].type = "GROUP"
    BY <1>2, <1>3 DEF Carries
  <1>6. s.at \in {"insertTodo", "emit"} => s.who \subseteq Members(s.c)'
    BY <1>2, <1>3 DEF Carries, GroupCarriers, MessageCarriers
  <1>7. s.at = "seatVendor" => convs'[s.c].event = s.e
    BY <1>2, <1>3 DEF Carries
  <1>8. s.at \in TodoSteps \ GroupCarriers => s.t \in DOMAIN todos' /\ s.u \in User
    BY DEF Carries, Kept
  <1>9. s.at \in MessageCarriers => s.m \in DOMAIN msgs' /\ msgs'[s.m].conv = s.c
    BY DEF Carries, Kept
  <1> QED BY <1>2, <1>4, <1>5, <1>6, <1>7, <1>8, <1>9 DEF Carries

\* The slots of the other requests keep what they carry.
LEMMA OthersCarry ==
    ASSUME TypeInv, NEW r \in RequestId, NEW s, Carries(s)',
           req' = [req EXCEPT ![r] = s], Kept, online \subseteq online'
    PROVE  RequestsCarry'
  <1>1. Carries(req[r])'
    BY DEF TypeInv, Carries
  <1>2. ASSUME NEW t \in RequestId, t # r PROVE Carries(req[t])'
    <2>1. Carries(req[t]) /\ (req[t].at = "joinRoom" => req[t].u \in online')
      BY DEF TypeInv, RequestsCarry, Carries
    <2>2. ASSUME NEW u, u = req[t] PROVE Carries(u)'
      BY <2>1, <2>2, CarriesKept
    <2>3. req'[t] = req[t]
      BY <1>2 DEF TypeInv
    <2> QED BY <2>2, <2>3
  <1> QED BY <1>1, <1>2 DEF RequestsCarry

\* A request that ends, after writing the tables, keeps the invariant and the rows.
LEMMA EndStep ==
    ASSUME TypeInv, NEW r \in RequestId, Return(r), TablesTyped', RowsSound', Kept,
           online \subseteq online'
    PROVE  TypeInv' /\ Kept
  <1>1. req' \in [RequestId -> Slot]
    BY IdleCarries DEF Return, TypeInv
  <1>2. Carries(Idle)'
    BY IdleCarries, CarriesKept DEF Idle
  <1> QED BY <1>1, <1>2, OthersCarry DEF Return, TypeInv

\* So does one that waits, carrying what is there.
LEMMA WaitStep ==
    ASSUME TypeInv, NEW r \in RequestId, NEW s \in Slot, Wait(r, s), Carries(s)',
           TablesTyped', RowsSound', Kept, online \subseteq online'
    PROVE  TypeInv' /\ Kept
  <1>1. req' \in [RequestId -> Slot]
    BY DEF Wait, TypeInv
  <1> QED BY <1>1, OthersCarry DEF Wait, TypeInv

\* A step that writes no table breaks nothing that is said of the tables.
LEMMA Unchanged ==
    ASSUME TypeInv, UNCHANGED tables
    PROVE  TablesTyped' /\ RowsSound' /\ Kept /\ online' = online
  BY DEF TypeInv, TablesTyped, RowsSound, Kept, ConvsKept, tables, sockets

\* A request that reads, and then waits or ends, keeps the invariant and the rows.
LEMMA ReadStep ==
    ASSUME TypeInv, UNCHANGED tables, NEW r \in RequestId, NEW s \in Slot, Carries(s),
           Wait(r, s), s.at = "joinRoom" => s.u \in online
    PROVE  TypeInv' /\ Kept
  BY Unchanged, WaitStep, CarriesKept

LEMMA QuitStep ==
    ASSUME TypeInv, UNCHANGED tables, NEW r \in RequestId, Return(r)
    PROVE  TypeInv' /\ Kept
  BY Unchanged, EndStep

-----------------------------------------------------------------------------
(* What the writes do to each table.                                       *)

\* A row is replaced in a table.
LEMMA RowReplaced ==
    ASSUME NEW S, NEW table \in Seq(S), NEW i \in DOMAIN table, NEW row \in S,
           NEW new, new = [table EXCEPT ![i] = row]
    PROVE  /\ new \in Seq(S) /\ Len(new) = Len(table) /\ DOMAIN new = DOMAIN table
           /\ new[i] = row
           /\ \A j \in DOMAIN table : j # i => new[j] = table[j]
  <1>1. i \in 1 .. Len(table)
    BY LenProperties
  <1>2. new \in Seq(S) /\ Len(new) = Len(table)
    BY <1>1, ExceptSeq
  <1> QED BY <1>2

\* A row is appended to a table.
LEMMA RowAppended ==
    ASSUME NEW S, NEW table \in Seq(S), NEW row \in S, NEW new, new = Append(table, row)
    PROVE  /\ new \in Seq(S) /\ Len(new) = Len(table) + 1
           /\ DOMAIN table \subseteq DOMAIN new
           /\ DOMAIN new = DOMAIN table \cup {Len(table) + 1}
           /\ Len(table) + 1 \notin DOMAIN table
           /\ new[Len(table) + 1] = row
           /\ \A i \in DOMAIN table : new[i] = table[i]
  <1>1. new \in Seq(S) /\ Len(new) = Len(table) + 1
    BY AppendProperties
  <1>2. DOMAIN table = 1 .. Len(table) /\ DOMAIN new = 1 .. Len(new) /\ Len(table) \in Nat
    BY <1>1, LenProperties
  <1> QED BY <1>1, <1>2, AppendProperties

\* A new participant is a participant; SeatAll keeps those there are.
LEMMA SeatAllTyped ==
    ASSUME msgs \in Seq(Message), NEW members \in [User -> Participant \cup {NULL}], NEW who
    PROVE  /\ SeatAll(members, who) \in [User -> Participant \cup {NULL}]
           /\ \A u \in User : members[u] # NULL => SeatAll(members, who)[u] = members[u]
           /\ \A u \in User : u \in who => SeatAll(members, who)[u] # NULL
  <1>1. Seat \in Participant
    BY LenProperties DEF Seat, Participant
  <1> QED BY <1>1, ChatAssumption DEF SeatAll

\* The participants of one conversation become new.
MembersBecome(c, new) == convs' = [convs EXCEPT ![c].members = new]

\* Every conversation has a row, or none, for each user.
LEMMA MembersTyped ==
    ASSUME TypeInv, NEW c \in DOMAIN convs
    PROVE  /\ convs[c] \in Conversation
           /\ convs[c].members \in [User -> Participant \cup {NULL}]
  <1>1. convs[c] \in Conversation
    BY DEF TypeInv, TablesTyped
  <1> QED BY <1>1 DEF Conversation

\* The participants of one conversation are written.
LEMMA MembersWritten ==
    ASSUME TypeInv, NEW c \in DOMAIN convs,
           NEW new \in [User -> Participant \cup {NULL}],
           \A u \in User : convs[c].members[u] # NULL => new[u] # NULL,
           MembersBecome(c, new)
    PROVE  /\ convs' \in Seq(Conversation)
           /\ Len(convs') = Len(convs) /\ DOMAIN convs' = DOMAIN convs
           /\ convs'[c] = [convs[c] EXCEPT !.members = new]
           /\ convs'[c].members = new
           /\ \A d \in DOMAIN convs : d # c => convs'[d] = convs[d]
           /\ ConvsKept
  <1> DEFINE conv == [convs[c] EXCEPT !.members = new]
  <1>1. convs \in Seq(Conversation) /\ convs[c] \in Conversation
    BY DEF TypeInv, TablesTyped
  <1>2. /\ conv \in Conversation /\ conv.type = convs[c].type
        /\ conv.event = convs[c].event /\ conv.members = new
    BY <1>1 DEF Conversation
  <1>3. convs' = [convs EXCEPT ![c] = conv]
    BY <1>1 DEF Conversation, MembersBecome
  <1> HIDE DEF conv
  <1>4. /\ convs' \in Seq(Conversation) /\ Len(convs') = Len(convs)
        /\ DOMAIN convs' = DOMAIN convs
        /\ \A d \in DOMAIN convs : convs'[d] = IF d = c THEN conv ELSE convs[d]
    BY <1>1, <1>2, <1>3, RowReplaced
  <1>5. ConvsKept
    BY <1>2, <1>4 DEF ConvsKept
  <1> QED BY <1>2, <1>4, <1>5 DEF conv

\* createMany, create and upsert of participants.
LEMMA SeatWritten ==
    ASSUME TypeInv, NEW c \in DOMAIN convs, NEW who,
           MembersBecome(c, SeatAll(convs[c].members, who))
    PROVE  /\ convs' \in Seq(Conversation)
           /\ Len(convs') = Len(convs) /\ DOMAIN convs' = DOMAIN convs
           /\ convs'[c] = [convs[c] EXCEPT !.members = SeatAll(convs[c].members, who)]
           /\ convs'[c].members = SeatAll(convs[c].members, who)
           /\ \A d \in DOMAIN convs : d # c => convs'[d] = convs[d]
           /\ ConvsKept
  <1>1. msgs \in Seq(Message)
    BY DEF TypeInv, TablesTyped
  <1> QED BY <1>1, MembersTyped, SeatAllTyped, MembersWritten

\* A conversation created is appended.
LEMMA InsertWritten ==
    ASSUME TypeInv, NEW conv \in Conversation, Insert(conv)
    PROVE  /\ convs' \in Seq(Conversation)
           /\ Len(convs') <= MaxConvs
           /\ ConvsKept
  <1>1. convs \in Seq(Conversation) /\ Len(convs) \in Nat
    BY LenProperties DEF TypeInv, TablesTyped
  <1>2. /\ convs' \in Seq(Conversation)
        /\ Len(convs') = Len(convs) + 1
        /\ DOMAIN convs \subseteq DOMAIN convs'
        /\ \A d \in DOMAIN convs : convs'[d] = convs[d]
    BY <1>1, RowAppended DEF Insert
  <1>3. Len(convs') <= MaxConvs
    BY <1>1, <1>2, ChatAssumption DEF Insert
  <1> QED BY <1>2, <1>3 DEF ConvsKept

\* A step that writes the conversations alone.
LEMMA ConvsOnly ==
    ASSUME TypeInv, UNCHANGED <<suite, msgs, todos, events, sockets>>,
           convs' \in Seq(Conversation), Len(convs') <= MaxConvs, ConvsKept
    PROVE  TablesTyped' /\ RowsSound' /\ Kept /\ online' = online
  <1>1. DOMAIN convs \subseteq DOMAIN convs'
    BY DEF ConvsKept
  <1>2. TablesTyped'
    BY <1>1 DEF TypeInv, TablesTyped, sockets
  <1>3. RowsSound'
    BY <1>1 DEF TypeInv, RowsSound
  <1>4. Kept
    BY DEF Kept
  <1> QED BY <1>2, <1>3, <1>4 DEF sockets

\* Counting an unread message changes no member's seat.
LEMMA BumpTyped ==
    ASSUME NEW members \in [User -> Participant \cup {NULL}], NEW u
    PROVE  /\ Bump(members, u) \in [User -> Participant \cup {NULL}]
           /\ \A p \in User :
                 /\ members[p] = NULL <=> Bump(members, u)[p] = NULL
                 /\ members[p] # NULL =>
                       /\ Bump(members, u)[p].joined = members[p].joined
                       /\ Bump(members, u)[p].read = members[p].read
                       /\ Bump(members, u)[p].unread
                             = members[p].unread + (IF p = u THEN 0 ELSE 1)
  <1> SUFFICES ASSUME NEW p \in User
               PROVE  /\ Bump(members, u)[p] \in Participant \cup {NULL}
                      /\ members[p] = NULL <=> Bump(members, u)[p] = NULL
                      /\ members[p] # NULL =>
                            /\ Bump(members, u)[p].joined = members[p].joined
                            /\ Bump(members, u)[p].read = members[p].read
                            /\ Bump(members, u)[p].unread
                                  = members[p].unread + (IF p = u THEN 0 ELSE 1)
    BY DEF Bump
  <1>1. CASE p = u \/ members[p] = NULL
    BY <1>1 DEF Bump, Participant
  <1>2. CASE p # u /\ members[p] # NULL
    <2>1. Bump(members, u)[p] = [members[p] EXCEPT !.unread = @ + 1]
      BY <1>2 DEF Bump
    <2>2. members[p] \in Participant
      BY <1>2
    <2>3. Bump(members, u)[p] \in Participant
      BY <2>1, <2>2 DEF Participant
    <2>4. Bump(members, u)[p] # NULL
      BY <2>3, ChatAssumption
    <2> QED BY <1>2, <2>1, <2>2, <2>3, <2>4 DEF Participant
  <1> QED BY <1>1, <1>2

\* A message inserted with the counts it moves.
LEMMA PostWritten ==
    ASSUME TypeInv, NEW c \in DOMAIN convs, NEW u \in User, NEW t \in Nat, post(c, u, t)
    PROVE  /\ msgs' \in Seq(Message)
           /\ Len(msgs') = Len(msgs) + 1
           /\ Len(msgs) + 1 \notin DOMAIN msgs
           /\ DOMAIN msgs' = DOMAIN msgs \cup {Len(msgs) + 1}
           /\ msgs'[Len(msgs) + 1] = [conv |-> c, sender |-> u, isRead |-> FALSE, todo |-> t]
           /\ \A m \in DOMAIN msgs : msgs'[m] = msgs[m]
           /\ convs' \in Seq(Conversation)
           /\ Len(convs') = Len(convs) /\ DOMAIN convs' = DOMAIN convs
           /\ convs'[c].members = Bump(convs[c].members, u)
           /\ \A d \in DOMAIN convs : d # c => convs'[d] = convs[d]
           /\ ConvsKept
  <1> DEFINE row == [conv |-> c, sender |-> u, isRead |-> FALSE, todo |-> t]
  <1>0. convs \in Seq(Conversation) /\ Len(convs) <= MaxConvs /\ msgs \in Seq(Message)
    BY DEF TypeInv, TablesTyped
  <1>1. /\ msgs \in Seq(Message) /\ c \in ConvId
        /\ convs[c].members \in [User -> Participant \cup {NULL}]
    BY <1>0, MembersTyped, LenProperties, ChatAssumption DEF ConvId
  <1>2. row \in Message
    BY <1>1 DEF Message
  <1>3. /\ Bump(convs[c].members, u) \in [User -> Participant \cup {NULL}]
        /\ \A p \in User : convs[c].members[p] # NULL => Bump(convs[c].members, u)[p] # NULL
    BY <1>1, BumpTyped
  <1>4. MembersBecome(c, Bump(convs[c].members, u)) /\ msgs' = Append(msgs, row)
    BY DEF post, MembersBecome
  <1> HIDE DEF row
  <1>5. /\ msgs' \in Seq(Message)
        /\ Len(msgs') = Len(msgs) + 1
        /\ Len(msgs) + 1 \notin DOMAIN msgs
        /\ DOMAIN msgs' = DOMAIN msgs \cup {Len(msgs) + 1}
        /\ msgs'[Len(msgs) + 1] = row
        /\ \A m \in DOMAIN msgs : msgs'[m] = msgs[m]
    BY <1>1, <1>2, <1>4, RowAppended
  <1>6. /\ convs' \in Seq(Conversation) /\ Len(convs') = Len(convs)
        /\ DOMAIN convs' = DOMAIN convs
        /\ convs'[c].members = Bump(convs[c].members, u)
        /\ \A d \in DOMAIN convs : d # c => convs'[d] = convs[d]
        /\ ConvsKept
    BY <1>3, <1>4, MembersWritten
  <1> QED BY <1>5, <1>6 DEF row

\* A step that writes conversations, messages and to-dos.
LEMMA ChatWritten ==
    ASSUME TypeInv, UNCHANGED <<suite, events, sockets>>,
           convs' \in Seq(Conversation), Len(convs') <= MaxConvs, ConvsKept,
           msgs' \in Seq(Message), DOMAIN msgs \subseteq DOMAIN msgs',
           \A m \in DOMAIN msgs : msgs'[m].conv = msgs[m].conv,
           todos' \in Seq(Todo), DOMAIN todos \subseteq DOMAIN todos'
    PROVE  TablesTyped' /\ Kept /\ online' = online
  <1>1. DOMAIN convs \subseteq DOMAIN convs'
    BY DEF ConvsKept
  <1>2. TablesTyped'
    BY <1>1 DEF TypeInv, TablesTyped, sockets
  <1> QED BY <1>2 DEF Kept, sockets

\* A step that posts a message, and may add to-dos.
LEMMA PostTables ==
    ASSUME TypeInv, NEW c \in DOMAIN convs, NEW u \in User, NEW t \in Nat, post(c, u, t),
           UNCHANGED <<suite, events, sockets>>,
           todos' \in Seq(Todo), DOMAIN todos \subseteq DOMAIN todos',
           t \in {0} \cup DOMAIN todos',
           \A i \in DOMAIN todos' : todos'[i].conv \in DOMAIN convs
    PROVE  /\ TablesTyped' /\ RowsSound' /\ Kept /\ online' = online
           /\ Len(msgs) + 1 \in DOMAIN msgs'
           /\ msgs'[Len(msgs) + 1].conv = c
           /\ Len(msgs) + 1 \in Nat
  <1>1. Len(convs) <= MaxConvs
    BY DEF TypeInv, TablesTyped
  <1>2. TablesTyped' /\ Kept /\ online' = online
    BY <1>1, PostWritten, ChatWritten
  <1> DEFINE n == Len(msgs) + 1
  <1>3. /\ DOMAIN msgs' = DOMAIN msgs \cup {n} /\ msgs'[n].conv = c /\ msgs'[n].todo = t
        /\ \A m \in DOMAIN msgs : msgs'[m] = msgs[m]
        /\ DOMAIN convs' = DOMAIN convs
    <2>1. msgs'[n] = [conv |-> c, sender |-> u, isRead |-> FALSE, todo |-> t]
      BY PostWritten
    <2>2. /\ DOMAIN msgs' = DOMAIN msgs \cup {n} /\ DOMAIN convs' = DOMAIN convs
          /\ \A m \in DOMAIN msgs : msgs'[m] = msgs[m]
      BY PostWritten
    <2> QED BY <2>1, <2>2
  <1>4. n \in Nat
    BY LenProperties DEF TypeInv, TablesTyped
  <1> HIDE DEF n
  <1>5. ASSUME NEW m \in DOMAIN msgs'
        PROVE  msgs'[m].conv \in DOMAIN convs /\ msgs'[m].todo \in {0} \cup DOMAIN todos'
    <2>1. CASE m = n
      BY <1>3, <2>1
    <2>2. CASE m \in DOMAIN msgs
      BY <1>3, <2>2 DEF TypeInv, RowsSound
    <2> QED BY <1>3, <2>1, <2>2
  <1>6. RowsSound'
    BY <1>3, <1>5 DEF RowsSound
  <1> QED BY <1>2, <1>3, <1>4, <1>6 DEF n

\* The request that posted it goes on to push it.
LEMMA PostThenPush ==
    ASSUME TypeInv, NEW r \in RequestId, NEW t \in Nat,
           req[r].c \in DOMAIN convs, req[r].u \in User, post(req[r].c, req[r].u, t),
           UNCHANGED <<suite, events, sockets>>,
           todos' \in Seq(Todo), DOMAIN todos \subseteq DOMAIN todos',
           t \in {0} \cup DOMAIN todos',
           \A i \in DOMAIN todos' : todos'[i].conv \in DOMAIN convs,
           NEW s, s = [req[r] EXCEPT !.at = "findAudience", !.m = Len(msgs) + 1], Wait(r, s)
    PROVE  TypeInv' /\ Kept
  <1>1. /\ TablesTyped' /\ RowsSound' /\ Kept /\ online' = online
        /\ Len(msgs) + 1 \in DOMAIN msgs'
        /\ msgs'[Len(msgs) + 1].conv = req[r].c
        /\ Len(msgs) + 1 \in Nat
    BY PostTables
  <1>2. s \in Slot /\ s.at = "findAudience" /\ s.c = req[r].c /\ s.m = Len(msgs) + 1
    BY ZenonT(30), <1>1 DEF TypeInv, Slot, GatewaySteps
  <1>3. s.c \in DOMAIN convs' /\ s.m \in DOMAIN msgs' /\ msgs'[s.m].conv = s.c
    BY <1>1, <1>2 DEF Kept, ConvsKept
  <1>4. Carries(s)'
    BY <1>2, <1>3 DEF Carries, ConvCarriers, MemberCarriers, GroupCarriers,
           MessageCarriers, VendorCarriers, EventSteps, TodoSteps
  <1> QED BY <1>1, <1>2, <1>4, WaitStep

\* A function on the rows of a table is a table.
LEMMA RowsMapped ==
    ASSUME NEW S, NEW T, NEW table \in Seq(S), NEW new \in [DOMAIN table -> T]
    PROVE  new \in Seq(T) /\ Len(new) = Len(table)
  <1>1. DOMAIN table = 1 .. Len(table) /\ Len(table) \in Nat
    BY LenProperties
  <1>2. new \in [1 .. Len(table) -> T]
    BY <1>1
  <1>3. new \in Seq(T)
    BY <1>1, <1>2, SeqDef
  <1>4. 1 .. Len(new) = 1 .. Len(table) /\ Len(new) \in Nat
    BY <1>2, <1>3, LenProperties
  <1>5. Len(new) <= Len(table) /\ Len(table) <= Len(new)
    <2>1. Len(new) # 0 => Len(new) \in 1 .. Len(table)
      BY <1>4
    <2>2. Len(table) # 0 => Len(table) \in 1 .. Len(new)
      BY <1>1, <1>4
    <2> QED BY <1>1, <1>4, <2>1, <2>2
  <1> QED BY <1>1, <1>3, <1>4, <1>5

\* A participant who reads has nothing unread and keeps its seat.
LEMMA ReadNowTyped ==
    ASSUME NEW members \in [User -> Participant \cup {NULL}], NEW u \in User,
           members[u] # NULL, msgs \in Seq(Message)
    PROVE  /\ ReadNow(members, u) \in [User -> Participant \cup {NULL}]
           /\ ReadNow(members, u)[u].unread = 0
           /\ ReadNow(members, u)[u].read = Len(msgs)
           /\ ReadNow(members, u)[u].joined = members[u].joined
           /\ \A p \in User : /\ p # u => ReadNow(members, u)[p] = members[p]
                              /\ members[p] = NULL <=> ReadNow(members, u)[p] = NULL
  <1> DEFINE row == [members[u] EXCEPT !.unread = 0, !.read = Len(msgs)]
  <1>1. members[u] \in Participant /\ Len(msgs) \in Nat
    BY LenProperties
  <1>2. ReadNow(members, u) = [members EXCEPT ![u] = row]
    BY <1>1 DEF ReadNow, Participant
  <1>3. row \in Participant /\ row.unread = 0 /\ row.read = Len(msgs)
        /\ row.joined = members[u].joined
    BY <1>1 DEF Participant
  <1>4. row # NULL
    BY <1>3, ChatAssumption
  <1> HIDE DEF row
  <1> QED BY <1>2, <1>3, <1>4

\* markRead writes the reader's participant row.
LEMMA ResetWritten ==
    ASSUME TypeInv, NEW c \in DOMAIN convs, NEW u \in Members(c),
           MembersBecome(c, ReadNow(convs[c].members, u))
    PROVE  /\ convs' \in Seq(Conversation)
           /\ Len(convs') = Len(convs) /\ DOMAIN convs' = DOMAIN convs
           /\ convs'[c].members = ReadNow(convs[c].members, u)
           /\ \A d \in DOMAIN convs : d # c => convs'[d] = convs[d]
           /\ ConvsKept
  <1>1. u \in User /\ convs[c].members[u] # NULL
    BY DEF Members
  <1>2. msgs \in Seq(Message)
    BY DEF TypeInv, TablesTyped
  <1> DEFINE new == ReadNow(convs[c].members, u)
  <1>3. /\ new \in [User -> Participant \cup {NULL}]
        /\ \A p \in User : convs[c].members[p] # NULL => new[p] # NULL
    BY <1>1, <1>2, MembersTyped, ReadNowTyped
  <1>4. MembersBecome(c, new)
    OBVIOUS
  <1> HIDE DEF new
  <1>5. /\ convs' \in Seq(Conversation)
        /\ Len(convs') = Len(convs) /\ DOMAIN convs' = DOMAIN convs
        /\ convs'[c].members = new
        /\ \A d \in DOMAIN convs : d # c => convs'[d] = convs[d]
        /\ ConvsKept
    BY <1>3, <1>4, MembersWritten
  <1> QED BY <1>5 DEF new

-----------------------------------------------------------------------------
\* The steps of MessagingService keep the invariant and the rows.
LEMMA ConversationsTypes ==
    ASSUME TypeInv, ConversationsNext
    PROVE  TypeInv' /\ Kept
  <1> USE DEF TypeInv
  <1>1. ASSUME NEW r \in RequestId, NEW u \in Client, NEW v \in Seller,
               NEW b \in Booking \cup {NULL}, createDirectConversation(r, u, v, b)
        PROVE  TypeInv' /\ Kept
    <2> DEFINE s == [Idle EXCEPT !.at = "createDirect", !.u = u, !.v = v, !.b = b]
    <2>1. s \in Slot /\ Carries(s) /\ s.at # "joinRoom"
      BY DEF Idle, Slot, User, MessagingSteps, Carries, ConvCarriers, MemberCarriers,
             GroupCarriers, MessageCarriers, EventSteps, TodoSteps
    <2>2. Wait(r, s) /\ UNCHANGED tables
      BY <1>1 DEF createDirectConversation
    <2> HIDE DEF s
    <2> QED BY <2>1, <2>2, ReadStep
  <1>2. ASSUME NEW r \in RequestId, NEW u \in Client, NEW v \in Seller,
               getOrCreateDirect(r, u, v)
        PROVE  TypeInv' /\ Kept
    <2> DEFINE s == [Idle EXCEPT !.at = "createDirect", !.u = u, !.v = v]
    <2>1. s \in Slot /\ Carries(s) /\ s.at # "joinRoom"
      BY DEF Idle, Slot, User, MessagingSteps, Carries, ConvCarriers, MemberCarriers,
             GroupCarriers, MessageCarriers, EventSteps, TodoSteps
    <2>2. Wait(r, s) /\ UNCHANGED tables
      BY <1>2 DEF getOrCreateDirect
    <2> HIDE DEF s
    <2> QED BY <2>1, <2>2, ReadStep
  <1>3. ASSUME NEW r \in RequestId, createDirect(r)
        PROVE  TypeInv' /\ Kept
    <2> DEFINE conv == DirectOf(req[r].u, req[r].v, req[r].b)
    <2>1. req[r].u \in Client /\ req[r].v \in Seller /\ req[r].b \in Booking \cup {NULL}
      BY <1>3 DEF createDirect, RequestsCarry, Carries, VendorCarriers, Slot
    <2>2. conv.members \in [User -> Participant \cup {NULL}]
      BY SeatAllTyped DEF DirectOf, NoMembers, TablesTyped
    <2>3. conv \in Conversation
      BY <2>1, <2>2 DEF DirectOf, Conversation
    <2> HIDE DEF conv
    <2>4. Insert(conv) /\ Return(r) /\ UNCHANGED <<suite, msgs, todos, events, sockets>>
      BY <1>3 DEF createDirect, conv
    <2> QED BY <2>3, <2>4, InsertWritten, ConvsOnly, EndStep
  <1>4. ASSUME NEW r \in RequestId,
               \/ createDirectRefused(r) \/ createGroupRefused(r) \/ addParticipantRefused(r)
        PROVE  TypeInv' /\ Kept
    BY <1>4, QuitStep DEF createDirectRefused, createGroupRefused, addParticipantRefused
  <1>5. ASSUME NEW r \in RequestId, NEW e \in Event, createGroupConversation(r, e)
        PROVE  TypeInv' /\ Kept
    <2> DEFINE s == [Idle EXCEPT !.at = "createGroup", !.u = events[e].client, !.e = e,
                                 !.who = {events[e].client}]
    <2>1. events[e].client \in Client
      BY <1>5 DEF createGroupConversation, TablesTyped, EventRow
    <2>2. s \in Slot /\ Carries(s) /\ s.at # "joinRoom"
      BY <2>1 DEF Idle, Slot, User, MessagingSteps, Carries, ConvCarriers, MemberCarriers,
             GroupCarriers, MessageCarriers, VendorCarriers, EventSteps, TodoSteps
    <2>3. Wait(r, s) /\ UNCHANGED tables
      BY <1>5 DEF createGroupConversation
    <2> HIDE DEF s
    <2> QED BY <2>2, <2>3, ReadStep
  <1>6. ASSUME NEW r \in RequestId, NEW e \in Event, getOrCreateEventGroup(r, e)
        PROVE  TypeInv' /\ Kept
    <2> DEFINE s == [Idle EXCEPT !.at = "findGroup", !.u = events[e].client, !.e = e,
                                 !.who = {events[e].client} \cup events[e].vendors]
    <2>1. events[e].client \in Client /\ events[e].vendors \subseteq Seller
      BY <1>6 DEF getOrCreateEventGroup, TablesTyped, EventRow
    <2>2. s \in Slot /\ Carries(s) /\ s.at # "joinRoom"
      BY <2>1 DEF Idle, Slot, User, MessagingSteps, Carries, ConvCarriers, MemberCarriers,
             GroupCarriers, MessageCarriers, VendorCarriers, EventSteps, TodoSteps
    <2>3. Wait(r, s) /\ UNCHANGED tables
      BY <1>6 DEF getOrCreateEventGroup
    <2> HIDE DEF s
    <2> QED BY <2>2, <2>3, ReadStep
  <1>7. ASSUME NEW r \in RequestId, findGroup(r)
        PROVE  TypeInv' /\ Kept
    <2> DEFINE s == [req[r] EXCEPT !.at = "createGroup"]
               t(c) == [req[r] EXCEPT !.at = "seat", !.c = c, !.who = req[r].who \ Members(c)]
    <2>1. UNCHANGED tables
      BY <1>7 DEF findGroup
    <2>2. /\ req[r] \in Slot /\ req[r].e \in Event /\ req[r].u \in Client
      BY <1>7 DEF findGroup, RequestsCarry, Carries
    <2>3. CASE Return(r)
      BY <2>1, <2>3, QuitStep
    <2>4. CASE Wait(r, s)
      <3>1. s \in Slot /\ Carries(s) /\ s.at # "joinRoom"
        BY <2>2 DEF Slot, User, MessagingSteps, Carries, ConvCarriers, MemberCarriers,
               GroupCarriers, MessageCarriers, VendorCarriers, EventSteps, TodoSteps
      <3> HIDE DEF s
      <3> QED BY <2>1, <2>4, <3>1, ReadStep
    <2>5. ASSUME NEW c \in EventGroups(req[r].e), Wait(r, t(c)) PROVE TypeInv' /\ Kept
      <3>1. c \in DOMAIN convs /\ c \in Nat
        BY LenProperties DEF EventGroups, TablesTyped
      <3>2. t(c) \in Slot /\ Carries(t(c)) /\ t(c).at # "joinRoom"
        BY <2>2, <3>1 DEF Slot, User, MessagingSteps, Carries, ConvCarriers, MemberCarriers,
               GroupCarriers, MessageCarriers, VendorCarriers, EventSteps, TodoSteps
      <3> HIDE DEF t
      <3> QED BY <2>1, <2>5, <3>2, ReadStep
    <2> QED BY <1>7, <2>3, <2>4, <2>5 DEF findGroup
  <1>8. ASSUME NEW r \in RequestId, createGroup(r)
        PROVE  TypeInv' /\ Kept
    <2> DEFINE conv == GroupOf(req[r].u, req[r].e, req[r].who)
    <2>1. req[r].u \in Client /\ req[r].e \in Event
      BY <1>8 DEF createGroup, RequestsCarry, Carries
    <2>2. conv.members \in [User -> Participant \cup {NULL}]
      BY SeatAllTyped DEF GroupOf, NoMembers, TablesTyped
    <2>3. conv \in Conversation
      BY <2>1, <2>2 DEF GroupOf, Conversation
    <2> HIDE DEF conv
    <2>4. Insert(conv) /\ Return(r) /\ UNCHANGED <<suite, msgs, todos, events, sockets>>
      BY <1>8 DEF createGroup, conv
    <2> QED BY <2>3, <2>4, InsertWritten, ConvsOnly, EndStep
  <1>9. ASSUME NEW r \in RequestId, seat(r) \/ addParticipant(r)
        PROVE  TypeInv' /\ Kept
    <2>1. req[r].c \in DOMAIN convs
      BY <1>9 DEF seat, addParticipant, RequestsCarry, Carries, ConvCarriers
    <2>2. /\ MembersBecome(req[r].c, SeatAll(convs[req[r].c].members, req[r].who))
          /\ Return(r) /\ UNCHANGED <<suite, msgs, todos, events, sockets>>
      BY <1>9 DEF seat, addParticipant, MembersBecome
    <2>3. convs' \in Seq(Conversation) /\ Len(convs') <= MaxConvs /\ ConvsKept
      BY <2>1, <2>2, SeatWritten DEF TablesTyped
    <2> QED BY <2>2, <2>3, ConvsOnly, EndStep
  <1>10. ASSUME NEW r \in RequestId, NEW c \in DOMAIN convs, NEW u \in User, NEW p \in User,
                addGroupParticipant(r, c, u, p)
         PROVE  TypeInv' /\ Kept
    <2> DEFINE s == [Idle EXCEPT !.at = "addParticipant", !.u = u, !.c = c, !.who = {p}]
    <2>1. c \in Nat
      BY LenProperties DEF TablesTyped
    <2>2. s \in Slot /\ Carries(s) /\ s.at # "joinRoom"
      BY <2>1 DEF Idle, Slot, MessagingSteps, Carries, ConvCarriers, MemberCarriers,
             GroupCarriers, MessageCarriers, VendorCarriers, EventSteps, TodoSteps
    <2>3. Wait(r, s) /\ UNCHANGED tables
      BY <1>10 DEF addGroupParticipant
    <2> HIDE DEF s
    <2> QED BY <2>2, <2>3, ReadStep
  <1>11. ASSUME NEW r \in RequestId, NEW c \in DOMAIN convs, NEW u \in User, NEW op,
                sendMessage(r, op, c, u)
         PROVE  TypeInv' /\ Kept
    <2> DEFINE s == [Idle EXCEPT !.at = "insertMessage", !.u = u, !.c = c,
                                 !.flag = (op = "gatewaySend")]
    <2>1. c \in Nat /\ u \in Members(c)
      BY <1>11, LenProperties DEF TablesTyped, sendMessage, IsParticipant
    <2>2. s \in Slot /\ Carries(s) /\ s.at # "joinRoom"
      BY <2>1 DEF Idle, Slot, MessagingSteps, Carries, ConvCarriers, MemberCarriers,
             GroupCarriers, MessageCarriers, VendorCarriers, EventSteps, TodoSteps
    <2>3. Wait(r, s) /\ UNCHANGED tables
      BY <1>11 DEF sendMessage
    <2> HIDE DEF s
    <2> QED BY <2>2, <2>3, ReadStep
  <1>12. ASSUME NEW r \in RequestId, NEW c \in DOMAIN convs, NEW u \in User, markRead(r, c, u)
         PROVE  TypeInv' /\ Kept
    <2> DEFINE s == [Idle EXCEPT !.at = "resetUnread", !.u = u, !.c = c]
    <2>1. c \in Nat /\ u \in Members(c)
      BY <1>12, LenProperties DEF TablesTyped, markRead, IsParticipant
    <2>2. s \in Slot /\ Carries(s) /\ s.at # "joinRoom"
      BY <2>1 DEF Idle, Slot, MessagingSteps, Carries, ConvCarriers, MemberCarriers,
             GroupCarriers, MessageCarriers, VendorCarriers, EventSteps, TodoSteps
    <2>3. Wait(r, s) /\ UNCHANGED tables
      BY <1>12 DEF markRead
    <2> HIDE DEF s
    <2> QED BY <2>2, <2>3, ReadStep
  <1>13. ASSUME NEW r \in RequestId, insertMessage(r)
         PROVE  TypeInv' /\ Kept
    <2>1. req[r].c \in DOMAIN convs /\ req[r].u \in User /\ req[r] \in Slot
      BY <1>13 DEF insertMessage, RequestsCarry, Carries, ConvCarriers, MemberCarriers, Members
    <2>2. post(req[r].c, req[r].u, 0) /\ UNCHANGED <<suite, todos, events, sockets>>
      BY <1>13 DEF insertMessage
    <2>3. CASE Return(r)
      BY <2>1, <2>2, <2>3, PostTables, EndStep DEF TablesTyped, RowsSound
    <2>4. ASSUME NEW s, s = [req[r] EXCEPT !.at = "findAudience", !.m = Len(msgs) + 1],
                 Wait(r, s)
          PROVE  TypeInv' /\ Kept
      BY <2>1, <2>2, <2>4, PostThenPush DEF TablesTyped, RowsSound
    <2> QED BY <1>13, <2>3, <2>4 DEF insertMessage
  <1>14. ASSUME NEW r \in RequestId, resetUnread(r)
         PROVE  TypeInv' /\ Kept
    <2> DEFINE c == req[r].c  u == req[r].u
    <2>1. c \in DOMAIN convs /\ u \in Members(c)
      BY <1>14 DEF resetUnread, RequestsCarry, Carries, ConvCarriers, MemberCarriers
    <2>2. /\ MembersBecome(c, ReadNow(convs[c].members, u))
          /\ msgs' = [m \in DOMAIN msgs |-> IF msgs[m].conv = c /\ msgs[m].sender # u
                                            THEN [msgs[m] EXCEPT !.isRead = TRUE] ELSE msgs[m]]
          /\ Return(r) /\ UNCHANGED <<suite, todos, events, sockets>>
      BY <1>14 DEF resetUnread, MembersBecome
    <2>3. convs' \in Seq(Conversation) /\ Len(convs') <= MaxConvs /\ ConvsKept
      BY <2>1, <2>2, ResetWritten DEF TablesTyped
    <2>4. ASSUME NEW m \in DOMAIN msgs
          PROVE  /\ msgs'[m] \in Message
                 /\ msgs'[m].conv = msgs[m].conv /\ msgs'[m].todo = msgs[m].todo
      <3>1. msgs[m] \in Message
        BY DEF TablesTyped
      <3> QED BY <2>2, <3>1 DEF Message
    <2>5. msgs' \in Seq(Message) /\ DOMAIN msgs' = DOMAIN msgs
      BY <2>2, <2>4, RowsMapped DEF TablesTyped
    <2>6. TablesTyped' /\ Kept /\ online' = online
      BY <2>2, <2>3, <2>4, <2>5, ChatWritten DEF TablesTyped
    <2>7. RowsSound'
      BY <2>2, <2>3, <2>4, <2>5 DEF RowsSound, ConvsKept
    <2> QED BY <2>2, <2>6, <2>7, EndStep
  <1> QED BY <1>1, <1>2, <1>3, <1>4, <1>5, <1>6, <1>7, <1>8, <1>9, <1>10, <1>11, <1>12,
             <1>13, <1>14 DEF ConversationsNext

-----------------------------------------------------------------------------
\* A step that writes the events alone.
LEMMA EventsOnly ==
    ASSUME TypeInv, UNCHANGED <<suite, chatTables, sockets>>, events' \in [Event -> EventRow]
    PROVE  TablesTyped' /\ RowsSound' /\ Kept /\ online' = online
  BY DEF TypeInv, TablesTyped, RowsSound, Kept, ConvsKept, chatTables, sockets

\* The row of one event is replaced.
LEMMA EventReplaced ==
    ASSUME TypeInv, NEW e \in Event, NEW row \in EventRow, events' = [events EXCEPT ![e] = row]
    PROVE  events' \in [Event -> EventRow]
  BY DEF TypeInv, TablesTyped

\* The steps of EventsService keep the invariant and the rows.
LEMMA EventPlanningTypes ==
    ASSUME TypeInv, EventPlanningNext
    PROVE  TypeInv' /\ Kept
  <1> USE DEF TypeInv
  <1>1. ASSUME NEW r \in RequestId, NEW u \in Client, NEW e \in Event, create(r, u, e)
        PROVE  TypeInv' /\ Kept
    <2> DEFINE row == [client |-> u, status |-> "PLANNING", vendors |-> {}]
    <2>1. row \in EventRow
      BY DEF EventRow, EventStatus
    <2>2. events' = [events EXCEPT ![e] = row] /\ UNCHANGED <<suite, chatTables, sockets, req>>
      BY <1>1 DEF create
    <2> HIDE DEF row
    <2>3. TablesTyped' /\ RowsSound' /\ Kept /\ online' = online
      BY <2>1, <2>2, EventReplaced, EventsOnly
    <2>4. ASSUME NEW t \in RequestId PROVE Carries(req[t])'
      <3>1. Carries(req[t]) /\ (req[t].at = "joinRoom" => req[t].u \in online')
        BY <2>3 DEF RequestsCarry, Carries
      <3>2. ASSUME NEW s, s = req[t] PROVE Carries(s)'
        BY <2>3, <3>1, <3>2, CarriesKept
      <3> QED BY <2>2, <3>2
    <2> QED BY <2>2, <2>3, <2>4 DEF RequestsCarry
  <1>2. ASSUME NEW r \in RequestId, NEW e \in Event, update(r, e) \/ cancel(r, e)
        PROVE  TypeInv' /\ Kept
    <2> DEFINE s(at) == [Idle EXCEPT !.at = at, !.e = e, !.seen = events[e].status]
    <2>1. events[e].status \in EventStatus
      BY DEF TablesTyped, EventRow
    <2>2. ASSUME NEW at \in {"updateEvent", "cancelEvent"}
          PROVE  s(at) \in Slot /\ Carries(s(at)) /\ s(at).at # "joinRoom"
      BY <2>1 DEF Idle, Slot, EventSteps, Carries, ConvCarriers, MemberCarriers, VendorCarriers,
             GroupCarriers, MessageCarriers, TodoSteps
    <2>3. UNCHANGED tables /\ (Wait(r, s("updateEvent")) \/ Wait(r, s("cancelEvent")))
      BY <1>2 DEF update, cancel
    <2> HIDE DEF s
    <2> QED BY <2>2, <2>3, ReadStep
  <1>3. ASSUME NEW r \in RequestId, NEW status \in EventStatus,
               setStatus(r, status) \/ setCancelled(r)
        PROVE  TypeInv' /\ Kept
    <2> DEFINE row(st) == [events[req[r].e] EXCEPT !.status = st]
    <2>1. req[r].e \in Event
      BY <1>3 DEF setStatus, setCancelled, RequestsCarry, Carries, EventSteps
    <2>2. ASSUME NEW st \in EventStatus PROVE row(st) \in EventRow
      BY <2>1 DEF TablesTyped, EventRow
    <2>3. Return(r) /\ UNCHANGED <<suite, chatTables, sockets>>
      BY <1>3 DEF setStatus, setCancelled
    <2>4. \/ events' = [events EXCEPT ![req[r].e] = row(status)]
          \/ events' = [events EXCEPT ![req[r].e] = row("CANCELLED")]
      BY <1>3 DEF setStatus, setCancelled
    <2>5. "CANCELLED" \in EventStatus
      BY DEF EventStatus
    <2> HIDE DEF row
    <2>6. events' \in [Event -> EventRow]
      BY <2>1, <2>2, <2>4, <2>5, EventReplaced
    <2> QED BY <2>3, <2>6, EventsOnly, EndStep
  <1>4. ASSUME NEW r \in RequestId, NEW e \in Event, NEW v \in Seller,
               addVendor(r, e, v) \/ addListing(r, e, v) \/ removeVendor(r, e, v)
        PROVE  TypeInv' /\ Kept
    <2> DEFINE s(at) == [Idle EXCEPT !.at = at, !.e = e, !.v = v]
    <2>1. ASSUME NEW at \in {"insertVendor", "upsertVendor", "deleteVendor"}
          PROVE  s(at) \in Slot /\ Carries(s(at)) /\ s(at).at # "joinRoom"
      BY DEF Idle, Slot, EventSteps, Carries, ConvCarriers, MemberCarriers, VendorCarriers,
             GroupCarriers, MessageCarriers, TodoSteps
    <2>2. /\ UNCHANGED tables
          /\ Wait(r, s("insertVendor")) \/ Wait(r, s("upsertVendor")) \/ Wait(r, s("deleteVendor"))
      BY <1>4 DEF addVendor, addListing, removeVendor
    <2> HIDE DEF s
    <2> QED BY <2>1, <2>2, ReadStep
  <1>5. ASSUME NEW r \in RequestId, insertVendor(r)
        PROVE  TypeInv' /\ Kept
    <2> DEFINE row == [events[req[r].e] EXCEPT !.vendors = @ \cup {req[r].v}]
               s == [req[r] EXCEPT !.at = "findEventGroup"]
    <2>1. req[r].e \in Event /\ req[r].v \in Seller /\ req[r] \in Slot
      BY <1>5 DEF insertVendor, RequestsCarry, Carries, EventSteps, VendorCarriers
    <2>2. row \in EventRow
      BY <2>1 DEF TablesTyped, EventRow
    <2>3. s \in Slot /\ Carries(s) /\ s.at # "joinRoom"
      BY <2>1 DEF Slot, EventSteps, Carries, ConvCarriers, MemberCarriers, VendorCarriers,
             GroupCarriers, MessageCarriers, TodoSteps
    <2>4. /\ events' = [events EXCEPT ![req[r].e] = row] /\ Wait(r, s)
          /\ UNCHANGED <<suite, chatTables, sockets>>
      BY <1>5 DEF insertVendor
    <2> HIDE DEF row, s
    <2>5. TablesTyped' /\ RowsSound' /\ Kept /\ online' = online
      BY <2>1, <2>2, <2>4, EventReplaced, EventsOnly
    <2>6. ASSUME NEW w, w = s PROVE Carries(w)'
      BY <2>3, <2>5, <2>6, CarriesKept
    <2>7. ASSUME NEW w, w = s PROVE TypeInv' /\ Kept
      <3>1. w \in Slot /\ Wait(r, w) /\ Carries(w)'
        BY <2>3, <2>4, <2>6, <2>7 DEF Wait
      <3> QED BY <2>5, <3>1, WaitStep
    <2> QED BY <2>7
  <1>6. ASSUME NEW r \in RequestId, insertVendorRefused(r) \/ deleteVendorRefused(r)
        PROVE  TypeInv' /\ Kept
    BY <1>6, QuitStep DEF insertVendorRefused, deleteVendorRefused
  <1>7. ASSUME NEW r \in RequestId, findEventGroup(r)
        PROVE  TypeInv' /\ Kept
    <2> DEFINE s(c) == [req[r] EXCEPT !.at = "seatVendor", !.c = c]
    <2>1. req[r].e \in Event /\ req[r].v \in Seller /\ req[r] \in Slot
      BY <1>7 DEF findEventGroup, RequestsCarry, Carries, EventSteps, VendorCarriers
    <2>2. UNCHANGED tables
      BY <1>7 DEF findEventGroup
    <2>3. CASE Return(r)
      BY <2>2, <2>3, QuitStep
    <2>4. ASSUME NEW c \in EventGroups(req[r].e), Wait(r, s(c)) PROVE TypeInv' /\ Kept
      <3>1. c \in DOMAIN convs /\ c \in Nat /\ convs[c].event = req[r].e
        BY LenProperties DEF EventGroups, TablesTyped
      <3>2. s(c) \in Slot /\ Carries(s(c)) /\ s(c).at # "joinRoom"
        BY <2>1, <3>1 DEF Slot, EventSteps, Carries, ConvCarriers, MemberCarriers,
               VendorCarriers, GroupCarriers, MessageCarriers, TodoSteps
      <3> HIDE DEF s
      <3> QED BY <2>2, <2>4, <3>2, ReadStep
    <2> QED BY <1>7, <2>3, <2>4 DEF findEventGroup
  <1>8. ASSUME NEW r \in RequestId, seatVendor(r)
        PROVE  TypeInv' /\ Kept
    <2>1. req[r].c \in DOMAIN convs
      BY <1>8 DEF seatVendor, RequestsCarry, Carries, ConvCarriers
    <2>2. /\ MembersBecome(req[r].c, SeatAll(convs[req[r].c].members, {req[r].v}))
          /\ Return(r) /\ UNCHANGED <<suite, msgs, todos, events, sockets>>
      BY <1>8 DEF seatVendor, MembersBecome
    <2>3. convs' \in Seq(Conversation) /\ Len(convs') <= MaxConvs /\ ConvsKept
      BY <2>1, <2>2, SeatWritten DEF TablesTyped
    <2> QED BY <2>2, <2>3, ConvsOnly, EndStep
  <1>9. ASSUME NEW r \in RequestId, deleteVendor(r)
        PROVE  TypeInv' /\ Kept
    <2> DEFINE row == [events[req[r].e] EXCEPT !.vendors = @ \ {req[r].v}]
               gone(t) == req[t].at = "deleteVendor" /\ req[t].e = req[r].e /\ req[t].v = req[r].v
    <2>1. req[r].e \in Event
      BY <1>9 DEF deleteVendor, RequestsCarry, Carries, EventSteps
    <2>2. row \in EventRow
      BY <2>1 DEF TablesTyped, EventRow
    <2>3. /\ events' = [events EXCEPT ![req[r].e] = row]
          /\ UNCHANGED <<suite, chatTables, sockets>>
      BY <1>9 DEF deleteVendor
    <2> HIDE DEF row
    <2>4. TablesTyped' /\ RowsSound' /\ Kept /\ online' = online
      BY <2>1, <2>2, <2>3, EventReplaced, EventsOnly
    <2>5. req' = [t \in RequestId |-> IF t = r THEN Idle
                                       ELSE IF gone(t) THEN [req[t] EXCEPT !.flag = TRUE]
                                                       ELSE req[t]]
      BY <1>9 DEF deleteVendor
    <2>6. ASSUME NEW t \in RequestId, NEW s, s = [req[t] EXCEPT !.flag = TRUE]
          PROVE  s \in Slot /\ Carries(s)
      <3>1. req[t] \in Slot /\ Carries(req[t])
        BY DEF RequestsCarry
      <3>2. /\ s \in Slot /\ s.at = req[t].at /\ s.u = req[t].u /\ s.v = req[t].v
            /\ s.c = req[t].c /\ s.m = req[t].m /\ s.t = req[t].t
            /\ s.e = req[t].e /\ s.who = req[t].who
        BY <2>6, <3>1 DEF Slot
      <3> QED BY <3>1, <3>2 DEF Carries
    <2>7. ASSUME NEW t \in RequestId PROVE req'[t] \in Slot /\ Carries(req'[t])
      <3> HIDE DEF gone
      <3>1. req[t] \in Slot /\ Carries(req[t])
        BY DEF RequestsCarry
      <3> QED BY <2>5, <2>6, <3>1, IdleCarries
    <2>8. req' \in [RequestId -> Slot]
      <3> HIDE DEF gone
      <3> QED BY <2>5, <2>7
    <2>9. ASSUME NEW t \in RequestId, NEW s, s = req'[t] PROVE Carries(s)'
      <3>1. Carries(s) /\ (s.at = "joinRoom" => s.u \in online')
        BY <2>4, <2>7, <2>9 DEF Carries
      <3> QED BY <2>4, <3>1, CarriesKept
    <2> QED BY <2>4, <2>8, <2>9 DEF RequestsCarry
  <1>10. EventStatus # {}
    BY DEF EventStatus
  <1> QED BY <1>1, <1>2, <1>3, <1>4, <1>5, <1>6, <1>7, <1>8, <1>9, <1>10 DEF EventPlanningNext

-----------------------------------------------------------------------------
\* A step that writes messages and to-dos, keeping the rows and where they are.
LEMMA TodosWritten ==
    ASSUME TypeInv, UNCHANGED <<suite, convs, events, sockets>>,
           msgs' \in Seq(Message), DOMAIN msgs' = DOMAIN msgs,
           \A m \in DOMAIN msgs : /\ msgs'[m].conv = msgs[m].conv
                                 /\ msgs'[m].todo \in {0, msgs[m].todo},
           todos' \in Seq(Todo), DOMAIN todos' = DOMAIN todos,
           \A t \in DOMAIN todos : todos'[t].conv = todos[t].conv
    PROVE  TablesTyped' /\ RowsSound' /\ Kept /\ online' = online
  <1>1. ConvsKept
    BY DEF ConvsKept
  <1>2. Kept
    BY <1>1 DEF Kept
  <1>3. TablesTyped'
    BY DEF TypeInv, TablesTyped, sockets
  <1>4. RowsSound'
    BY DEF TypeInv, RowsSound
  <1> QED BY <1>2, <1>3, <1>4 DEF sockets

\* The assignments of a to-do change, and perhaps whether it is deleted.
LEMMA TodoReplaced ==
    ASSUME TypeInv, NEW t \in DOMAIN todos, NEW g \in BOOLEAN,
           NEW d \in [User -> BOOLEAN \cup {NULL}],
           todos' = [todos EXCEPT ![t] = [todos[t] EXCEPT !.gone = g, !.done = d]]
    PROVE  /\ todos' \in Seq(Todo) /\ DOMAIN todos' = DOMAIN todos
           /\ todos'[t].gone = g /\ todos'[t].done = d
           /\ todos'[t].conv = todos[t].conv /\ todos'[t].by = todos[t].by
           /\ \A i \in DOMAIN todos : i # t => todos'[i] = todos[i]
  <1> DEFINE row == [todos[t] EXCEPT !.gone = g, !.done = d]
  <1>1. todos \in Seq(Todo) /\ todos[t] \in Todo
    BY DEF TypeInv, TablesTyped
  <1>2. row \in Todo /\ row.gone = g /\ row.done = d
        /\ row.conv = todos[t].conv /\ row.by = todos[t].by
    BY <1>1 DEF Todo
  <1>3. todos' = [todos EXCEPT ![t] = row]
    OBVIOUS
  <1> HIDE DEF row
  <1>4. /\ todos' \in Seq(Todo) /\ DOMAIN todos' = DOMAIN todos /\ todos'[t] = row
        /\ \A i \in DOMAIN todos : i # t => todos'[i] = todos[i]
    BY <1>1, <1>2, <1>3, RowReplaced
  <1> QED BY <1>2, <1>4

\* What ticking writes: the assignments with u's tick changed.
LEMMA TickWritten ==
    ASSUME TypeInv, NEW r \in RequestId, tick(r)
    PROVE  LET t == req[r].t  u == req[r].u
               d == [todos[t].done EXCEPT ![u] = ~req[r].flag] IN
           /\ t \in DOMAIN todos /\ u \in User
           /\ d \in [User -> BOOLEAN \cup {NULL}]
           /\ \A p \in User : d[p] = NULL <=> todos[t].done[p] = NULL
           /\ todos' = [todos EXCEPT ![t] = [todos[t] EXCEPT !.gone = todos[t].gone, !.done = d]]
           /\ Return(r) /\ UNCHANGED <<suite, convs, msgs, events, sockets>>
  <1> DEFINE t == req[r].t  u == req[r].u
             d == [todos[t].done EXCEPT ![u] = ~req[r].flag]
  <1>1. t \in DOMAIN todos /\ u \in User /\ req[r].flag \in BOOLEAN
    BY DEF tick, TypeInv, RequestsCarry, Carries, TodoSteps, GroupCarriers, Slot
  <1>2. todos[t] \in Todo
    BY <1>1 DEF TypeInv, TablesTyped
  <1>3. todos[t].done \in [User -> BOOLEAN \cup {NULL}] /\ todos[t].done[u] # NULL
    BY <1>2 DEF Todo, tick, Assigned
  <1>4. d \in [User -> BOOLEAN \cup {NULL}] /\ d[u] \in BOOLEAN
        /\ \A p \in User : p # u => d[p] = todos[t].done[p]
    BY <1>1, <1>3
  <1>5. \A p \in User : d[p] = NULL <=> todos[t].done[p] = NULL
    BY <1>3, <1>4, ChatAssumption
  <1>6. todos' = [todos EXCEPT ![t] = [todos[t] EXCEPT !.done = d]]
        /\ Return(r) /\ UNCHANGED <<suite, convs, msgs, events, sockets>>
    BY DEF tick
  <1>7. [todos[t] EXCEPT !.done = d] = [todos[t] EXCEPT !.gone = todos[t].gone, !.done = d]
    BY <1>2 DEF Todo
  <1> QED BY <1>1, <1>4, <1>5, <1>6, <1>7

\* What deleting a to-do writes: its row, and the cards that pointed at it.
LEMMA RemoveWritten ==
    ASSUME TypeInv, NEW r \in RequestId, removeTodo(r)
    PROVE  /\ req[r].t \in DOMAIN todos
           /\ todos' = [todos EXCEPT ![req[r].t] =
                          [todos[req[r].t] EXCEPT !.gone = TRUE, !.done = [p \in User |-> NULL]]]
           /\ msgs' \in Seq(Message) /\ DOMAIN msgs' = DOMAIN msgs /\ Len(msgs') = Len(msgs)
           /\ \A m \in DOMAIN msgs :
                 /\ msgs'[m].conv = msgs[m].conv /\ msgs'[m].sender = msgs[m].sender
                 /\ msgs'[m].isRead = msgs[m].isRead
                 /\ msgs'[m].todo = IF msgs[m].todo = req[r].t THEN 0 ELSE msgs[m].todo
           /\ Return(r) /\ UNCHANGED <<suite, convs, events, sockets>>
  <1>1. req[r].t \in DOMAIN todos
    BY DEF removeTodo, TypeInv, RequestsCarry, Carries, TodoSteps, GroupCarriers
  <1>2. /\ todos' = [todos EXCEPT ![req[r].t] =
                       [todos[req[r].t] EXCEPT !.gone = TRUE, !.done = [p \in User |-> NULL]]]
        /\ Return(r) /\ UNCHANGED <<suite, convs, events, sockets>>
    BY DEF removeTodo
  <1>3. msgs' = [m \in DOMAIN msgs |-> IF msgs[m].todo = req[r].t
                                       THEN [msgs[m] EXCEPT !.todo = 0] ELSE msgs[m]]
    BY DEF removeTodo
  <1>4. ASSUME NEW m \in DOMAIN msgs
        PROVE  /\ msgs'[m] \in Message
               /\ msgs'[m].conv = msgs[m].conv /\ msgs'[m].sender = msgs[m].sender
               /\ msgs'[m].isRead = msgs[m].isRead
               /\ msgs'[m].todo = IF msgs[m].todo = req[r].t THEN 0 ELSE msgs[m].todo
    <2>1. msgs[m] \in Message
      BY DEF TypeInv, TablesTyped
    <2> QED BY <1>3, <2>1 DEF Message
  <1>5. msgs \in Seq(Message) /\ msgs' \in [DOMAIN msgs -> Message]
    BY <1>3, <1>4 DEF TypeInv, TablesTyped
  <1>6. msgs' \in Seq(Message) /\ DOMAIN msgs' = DOMAIN msgs /\ Len(msgs') = Len(msgs)
    BY <1>5, RowsMapped
  <1> QED BY <1>1, <1>2, <1>4, <1>6

\* The steps of TodoService keep the invariant and the rows.
LEMMA GroupTodosTypes ==
    ASSUME TypeInv, GroupTodosNext
    PROVE  TypeInv' /\ Kept
  <1> USE DEF TypeInv
  <1>1. ASSUME NEW r \in RequestId, NEW c \in DOMAIN convs, NEW u \in User,
               NEW who \in SUBSET User, createTodo(r, c, u, who)
        PROVE  TypeInv' /\ Kept
    <2> DEFINE s == [Idle EXCEPT !.at = "findAssignees", !.u = u, !.c = c, !.who = who]
    <2>1. c \in Nat /\ u \in Members(c) /\ convs[c].type = "GROUP"
      BY <1>1, LenProperties DEF TablesTyped, createTodo, IsParticipant
    <2>2. s \in Slot /\ Carries(s) /\ s.at # "joinRoom"
      BY <2>1 DEF Idle, Slot, TodoSteps, Carries, ConvCarriers, MemberCarriers, VendorCarriers,
             GroupCarriers, MessageCarriers, EventSteps
    <2>3. Wait(r, s) /\ UNCHANGED tables
      BY <1>1 DEF createTodo
    <2> HIDE DEF s
    <2> QED BY <2>2, <2>3, ReadStep
  <1>2. ASSUME NEW r \in RequestId, findAssignees(r)
        PROVE  TypeInv' /\ Kept
    <2> DEFINE s == [req[r] EXCEPT !.at = "insertTodo"]
    <2>1. req[r] \in Slot /\ Carries(req[r]) /\ req[r].at = "findAssignees" /\ UNCHANGED tables
      BY <1>2 DEF findAssignees, RequestsCarry
    <2>2. CASE Return(r)
      BY <2>1, <2>2, QuitStep
    <2>3. CASE Wait(r, s) /\ req[r].who \subseteq Members(req[r].c)
      <3>1. s \in Slot /\ Carries(s) /\ s.at # "joinRoom"
        BY <2>1, <2>3 DEF Slot, TodoSteps, Carries, ConvCarriers, MemberCarriers,
               VendorCarriers, GroupCarriers, MessageCarriers, EventSteps
      <3> HIDE DEF s
      <3> QED BY <2>1, <2>3, <3>1, ReadStep
    <2> QED BY <1>2, <2>2, <2>3 DEF findAssignees
  <1>3. ASSUME NEW r \in RequestId, insertTodo(r)
        PROVE  TypeInv' /\ Kept
    <2> DEFINE row == [conv |-> req[r].c, by |-> req[r].u, gone |-> FALSE,
                       done |-> [u \in User |-> IF u \in req[r].who THEN FALSE ELSE NULL]]
    <2>1. req[r].c \in DOMAIN convs /\ req[r].u \in User
      BY <1>3 DEF insertTodo, RequestsCarry, Carries, ConvCarriers, MemberCarriers, Members
    <2>2. /\ convs \in Seq(Conversation) /\ Len(convs) <= MaxConvs
          /\ todos \in Seq(Todo) /\ Len(todos) \in Nat
      BY LenProperties DEF TablesTyped
    <2>3. row \in Todo /\ row.conv = req[r].c
      <3>1. req[r].c \in ConvId
        BY <2>1, <2>2, LenProperties, ChatAssumption DEF ConvId
      <3> QED BY <2>1, <3>1 DEF Todo
    <2>4. todos' = Append(todos, row)
      BY <1>3 DEF insertTodo
    <2>5. post(req[r].c, req[r].u, Len(todos) + 1) /\ UNCHANGED <<suite, events, sockets>>
      BY <1>3 DEF insertTodo
    <2> HIDE DEF row
    <2>6. /\ todos' \in Seq(Todo) /\ DOMAIN todos' = DOMAIN todos \cup {Len(todos) + 1}
          /\ todos'[Len(todos) + 1] = row
          /\ \A i \in DOMAIN todos : todos'[i] = todos[i]
      BY <2>2, <2>3, <2>4, RowAppended
    <2>7. \A i \in DOMAIN todos' : todos'[i].conv \in DOMAIN convs
      BY <2>1, <2>3, <2>6 DEF RowsSound
    <2>8. ASSUME NEW s, s = [req[r] EXCEPT !.at = "findAudience", !.m = Len(msgs) + 1],
                 Wait(r, s)
          PROVE  TypeInv' /\ Kept
      <3>1. Len(todos) + 1 \in Nat /\ Len(todos) + 1 \in {0} \cup DOMAIN todos'
        BY <2>2, <2>6
      <3>2. DOMAIN todos \subseteq DOMAIN todos' /\ todos' \in Seq(Todo)
        BY <2>6
      <3>3. ASSUME NEW t \in Nat, t = Len(todos) + 1 PROVE TypeInv' /\ Kept
        <4>1. post(req[r].c, req[r].u, t) /\ t \in {0} \cup DOMAIN todos'
          BY <2>5, <3>1, <3>3
        <4> QED BY <2>1, <2>5, <2>7, <2>8, <3>2, <4>1, PostThenPush
      <3> QED BY <3>1, <3>3
    <2> QED BY <1>3, <2>8 DEF insertTodo
  <1>4. ASSUME NEW r \in RequestId, NEW t \in DOMAIN todos, NEW u \in User,
               toggleMyTask(r, t, u)
        PROVE  TypeInv' /\ Kept
    <2> DEFINE s == [Idle EXCEPT !.at = "tick", !.u = u, !.t = t, !.flag = todos[t].done[u]]
    <2>1. t \in Nat /\ todos[t] \in Todo
      BY LenProperties DEF TablesTyped
    <2>2. todos[t].done[u] \in BOOLEAN
      BY <1>4, <2>1 DEF Todo, toggleMyTask, Assigned
    <2>3. s \in Slot /\ Carries(s) /\ s.at # "joinRoom"
      BY <2>1, <2>2 DEF Idle, Slot, TodoSteps, Carries, ConvCarriers, MemberCarriers,
             VendorCarriers, GroupCarriers, MessageCarriers, EventSteps
    <2>4. Wait(r, s) /\ UNCHANGED tables
      BY <1>4 DEF toggleMyTask
    <2> HIDE DEF s
    <2> QED BY <2>3, <2>4, ReadStep
  <1>5. ASSUME NEW r \in RequestId, NEW t \in DOMAIN todos, NEW u \in User,
               deleteTodo(r, t, u)
        PROVE  TypeInv' /\ Kept
    <2> DEFINE s == [Idle EXCEPT !.at = "deleteTodo", !.u = u, !.t = t]
    <2>1. t \in Nat
      BY LenProperties DEF TablesTyped
    <2>2. s \in Slot /\ Carries(s) /\ s.at # "joinRoom"
      BY <2>1 DEF Idle, Slot, TodoSteps, Carries, ConvCarriers, MemberCarriers,
             VendorCarriers, GroupCarriers, MessageCarriers, EventSteps
    <2>3. Wait(r, s) /\ UNCHANGED tables
      BY <1>5 DEF deleteTodo
    <2> HIDE DEF s
    <2> QED BY <2>2, <2>3, ReadStep
  <1>6. ASSUME NEW r \in RequestId, tick(r)
        PROVE  TypeInv' /\ Kept
    <2> DEFINE t == req[r].t
               d == [todos[t].done EXCEPT ![req[r].u] = ~req[r].flag]
    <2>1. /\ t \in DOMAIN todos /\ d \in [User -> BOOLEAN \cup {NULL}]
          /\ todos' = [todos EXCEPT ![t] = [todos[t] EXCEPT !.gone = todos[t].gone, !.done = d]]
          /\ Return(r) /\ UNCHANGED <<suite, convs, msgs, events, sockets>>
      BY <1>6, TickWritten
    <2>2. todos[t] \in Todo
      BY <2>1 DEF TablesTyped
    <2>3. todos[t].gone \in BOOLEAN
      BY <2>2 DEF Todo
    <2> HIDE DEF d
    <2>4. /\ todos' \in Seq(Todo) /\ DOMAIN todos' = DOMAIN todos
          /\ \A i \in DOMAIN todos : todos'[i].conv = todos[i].conv
      BY <2>1, <2>3, TodoReplaced
    <2>5. TablesTyped' /\ RowsSound' /\ Kept /\ online' = online
      BY <2>1, <2>4, TodosWritten DEF TablesTyped
    <2> QED BY <2>1, <2>5, EndStep
  <1>7. ASSUME NEW r \in RequestId, removeTodo(r)
        PROVE  TypeInv' /\ Kept
    <2> DEFINE t == req[r].t  d == [p \in User |-> NULL]
    <2>1. /\ t \in DOMAIN todos
          /\ todos' = [todos EXCEPT ![t] = [todos[t] EXCEPT !.gone = TRUE, !.done = d]]
          /\ msgs' \in Seq(Message) /\ DOMAIN msgs' = DOMAIN msgs
          /\ \A m \in DOMAIN msgs : /\ msgs'[m].conv = msgs[m].conv
                                    /\ msgs'[m].todo \in {0, msgs[m].todo}
          /\ Return(r) /\ UNCHANGED <<suite, convs, events, sockets>>
      BY <1>7, RemoveWritten
    <2>2. d \in [User -> BOOLEAN \cup {NULL}]
      OBVIOUS
    <2> HIDE DEF d
    <2>3. /\ todos' \in Seq(Todo) /\ DOMAIN todos' = DOMAIN todos
          /\ \A i \in DOMAIN todos : todos'[i].conv = todos[i].conv
      BY <2>1, <2>2, TodoReplaced
    <2>4. TablesTyped' /\ RowsSound' /\ Kept /\ online' = online
      BY <2>1, <2>3, TodosWritten
    <2> QED BY <2>1, <2>4, EndStep
  <1>8. ASSUME NEW r \in RequestId, tickRefused(r) \/ removeTodoRefused(r)
        PROVE  TypeInv' /\ Kept
    BY <1>8, QuitStep DEF tickRefused, removeTodoRefused
  <1> QED BY <1>1, <1>2, <1>3, <1>4, <1>5, <1>6, <1>7, <1>8 DEF GroupTodosNext

-----------------------------------------------------------------------------
\* A step that writes the sockets alone.
LEMMA SocketsOnly ==
    ASSUME TypeInv, UNCHANGED <<suite, chatTables, events>>,
           online' \subseteq User, room' \subseteq User \X (DOMAIN convs),
           shown' \subseteq User \X (DOMAIN msgs), emitted' \subseteq DOMAIN msgs
    PROVE  TablesTyped' /\ RowsSound' /\ Kept
  BY DEF TypeInv, TablesTyped, RowsSound, Kept, ConvsKept, chatTables

\* The steps of the gateway keep the invariant and the rows.
LEMMA ChatGatewayTypes ==
    ASSUME TypeInv, ChatGatewayNext
    PROVE  TypeInv' /\ Kept
  <1> USE DEF TypeInv
  <1>1. ASSUME NEW u \in User, handleDisconnect(u)
        PROVE  TypeInv' /\ Kept
    <2>1. /\ online' = online \ {u} /\ room' \subseteq room
          /\ UNCHANGED <<suite, chatTables, events, shown, emitted>>
      BY <1>1 DEF handleDisconnect
    <2>2. TablesTyped' /\ RowsSound' /\ Kept
      BY <2>1, SocketsOnly DEF TablesTyped
    <2>3. req' = [t \in RequestId |-> IF req[t].at = "joinRoom" /\ req[t].u = u
                                      THEN Idle ELSE req[t]]
      BY <1>1 DEF handleDisconnect
    <2>4. ASSUME NEW t \in RequestId
          PROVE  /\ req'[t] \in Slot /\ Carries(req'[t])
                 /\ req'[t].at = "joinRoom" => req'[t].u \in online'
      <3>1. req[t] \in Slot /\ Carries(req[t])
        BY DEF RequestsCarry
      <3>2. req[t].at = "joinRoom" => req[t].u \in online
        BY <3>1 DEF Carries
      <3>3. Idle.at # "joinRoom"
        BY DEF Idle
      <3> QED BY <2>1, <2>3, <3>1, <3>2, <3>3, IdleCarries
    <2>5. ASSUME NEW t \in RequestId, NEW s, s = req'[t] PROVE Carries(s)'
      BY <2>2, <2>4, <2>5, CarriesKept
    <2>6. req' \in [RequestId -> Slot]
      BY <2>3, <2>4
    <2> QED BY <2>2, <2>5, <2>6 DEF RequestsCarry
  <1>2. ASSUME NEW r \in RequestId, NEW u \in User,
               handleConnection(r, u) \/ \E c \in DOMAIN convs : handleLeave(r, c, u)
        PROVE  TypeInv' /\ Kept
    <2>1. /\ online \subseteq online' /\ online' \subseteq User /\ room' \subseteq room
          /\ UNCHANGED <<suite, chatTables, events, shown, emitted, req>>
      BY <1>2 DEF handleConnection, handleLeave, TablesTyped
    <2>2. TablesTyped' /\ RowsSound' /\ Kept
      BY <2>1, SocketsOnly DEF TablesTyped
    <2>3. ASSUME NEW t \in RequestId, NEW s, s = req[t] PROVE Carries(s)'
      <3>1. Carries(s) /\ (s.at = "joinRoom" => s.u \in online')
        BY <2>1, <2>3 DEF RequestsCarry, Carries
      <3> QED BY <2>2, <3>1, CarriesKept
    <2> QED BY <2>1, <2>2, <2>3 DEF RequestsCarry
  <1>3. ASSUME NEW r \in RequestId, NEW u \in User, NEW c \in DOMAIN convs, handleJoin(r, c, u)
        PROVE  TypeInv' /\ Kept
    <2> DEFINE s == [Idle EXCEPT !.at = "joinRoom", !.u = u, !.c = c]
    <2>1. c \in Nat /\ u \in Members(c) /\ u \in online
      BY <1>3, LenProperties DEF TablesTyped, handleJoin, IsParticipant
    <2>2. s \in Slot /\ Carries(s) /\ s.u \in online
      BY <2>1 DEF Idle, Slot, GatewaySteps, Carries, ConvCarriers, MemberCarriers,
             VendorCarriers, GroupCarriers, MessageCarriers, EventSteps, TodoSteps
    <2>3. Wait(r, s) /\ UNCHANGED tables
      BY <1>3 DEF handleJoin
    <2> HIDE DEF s
    <2> QED BY <2>2, <2>3, ReadStep
  <1>4. ASSUME NEW r \in RequestId, joinRoom(r)
        PROVE  TypeInv' /\ Kept
    <2>1. req[r].c \in DOMAIN convs /\ req[r].u \in User
      BY <1>4 DEF joinRoom, RequestsCarry, Carries, ConvCarriers, MemberCarriers, Members
    <2>2. /\ room' = room \cup {<<req[r].u, req[r].c>>} /\ Return(r)
          /\ UNCHANGED <<suite, chatTables, events, online, shown, emitted>>
      BY <1>4 DEF joinRoom
    <2>3. TablesTyped' /\ RowsSound' /\ Kept
      BY <2>1, <2>2, SocketsOnly DEF TablesTyped
    <2> QED BY <2>2, <2>3, EndStep
  <1>5. ASSUME NEW r \in RequestId, findAudience(r)
        PROVE  TypeInv' /\ Kept
    <2> DEFINE s == [req[r] EXCEPT !.at = "emit", !.who = Members(req[r].c)]
    <2>1. req[r] \in Slot /\ Carries(req[r]) /\ req[r].at = "findAudience"
      BY <1>5 DEF findAudience, RequestsCarry
    <2>2. s \in Slot /\ Carries(s) /\ s.at # "joinRoom"
      BY ZenonT(30), <2>1
         DEF Slot, GatewaySteps, Members, Carries, ConvCarriers, MemberCarriers,
             VendorCarriers, GroupCarriers, MessageCarriers, EventSteps, TodoSteps
    <2>3. Wait(r, s) /\ UNCHANGED tables
      BY <1>5 DEF findAudience
    <2> HIDE DEF s
    <2> QED BY <2>2, <2>3, ReadStep
  <1>6. ASSUME NEW r \in RequestId, emitMessage(r)
        PROVE  TypeInv' /\ Kept
    <2>1. req[r].m \in DOMAIN msgs
      BY <1>6 DEF emitMessage, RequestsCarry, Carries, MessageCarriers
    <2>2. /\ shown' \subseteq shown \cup (online \X {req[r].m})
          /\ emitted' = emitted \cup {req[r].m} /\ Return(r)
          /\ UNCHANGED <<suite, chatTables, events, online, room>>
      BY <1>6 DEF emitMessage
    <2>3. TablesTyped' /\ RowsSound' /\ Kept
      BY <2>1, <2>2, SocketsOnly DEF TablesTyped
    <2> QED BY <2>2, <2>3, EndStep
  <1> QED BY <1>1, <1>2, <1>3, <1>4, <1>5, <1>6 DEF ChatGatewayNext

\* A request that dies takes nothing with it.
LEMMA FailTypes ==
    ASSUME TypeInv, NEW r \in RequestId, Fail(r)
    PROVE  TypeInv' /\ Kept
  BY QuitStep DEF Fail

\* No table has a row at the start.
LEMMA InitTypes == TablesInit => TypeInv
  <1> SUFFICES ASSUME TablesInit PROVE TypeInv
    OBVIOUS
  <1>1. /\ convs \in Seq(Conversation) /\ msgs \in Seq(Message) /\ todos \in Seq(Todo)
        /\ Len(convs) = 0 /\ DOMAIN msgs = {} /\ DOMAIN todos = {}
    BY EmptySeq, LenProperties DEF TablesInit
  <1>2. TablesTyped
    BY <1>1, ChatAssumption DEF TablesInit, TablesTyped, EventRow, EventStatus
  <1>3. RowsSound
    BY <1>1 DEF RowsSound
  <1>4. req \in [RequestId -> Slot] /\ RequestsCarry
    BY IdleCarries DEF TablesInit, RequestsCarry
  <1> QED BY <1>2, <1>3, <1>4 DEF TypeInv

\* Every step keeps the invariant and the rows.
LEMMA NextTypes ==
    ASSUME TypeInv, [Next]_vars
    PROVE  TypeInv' /\ Kept
  <1>1. CASE ConversationsNext
    BY <1>1, ConversationsTypes
  <1>2. CASE EventPlanningNext
    BY <1>2, EventPlanningTypes
  <1>3. CASE GroupTodosNext
    BY <1>3, GroupTodosTypes
  <1>4. CASE ChatGatewayNext
    BY <1>4, ChatGatewayTypes
  <1>5. ASSUME NEW r \in RequestId, Fail(r) PROVE TypeInv' /\ Kept
    BY <1>5, FailTypes
  <1>6. CASE UNCHANGED vars
    <2>1. UNCHANGED tables /\ req' = req
      BY <1>6 DEF vars
    <2>2. TablesTyped' /\ RowsSound' /\ Kept /\ online' = online
      BY <2>1, Unchanged
    <2>3. ASSUME NEW t \in RequestId, NEW s, s = req[t] PROVE Carries(s)'
      <3>1. Carries(s) /\ (s.at = "joinRoom" => s.u \in online')
        BY <2>2, <2>3 DEF TypeInv, RequestsCarry, Carries
      <3> QED BY <2>2, <3>1, CarriesKept
    <2> QED BY <2>1, <2>2, <2>3 DEF TypeInv, RequestsCarry
  <1> QED BY <1>1, <1>2, <1>3, <1>4, <1>5, <1>6 DEF Next

\* Rows that requests and other rows refer to exist, whatever the requests
\* in flight do to each other.
THEOREM TypeInvariance == Spec => []TypeInv
  BY InitTypes, NextTypes, PTL DEF Spec

\* Every table of the chat, and every slot, holds values of its type.
THEOREM TypeCorrect == Spec => []TypeOK
  <1>1. TypeInv => TypeOK
    BY DEF TypeInv, TablesTyped, TypeOK
  <1> QED BY <1>1, TypeInvariance, PTL
=============================================================================
