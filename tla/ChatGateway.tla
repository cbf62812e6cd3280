---------------------------- MODULE ChatGateway -----------------------------
(***************************************************************************)
(* MessagingGateway and ChatRealtimeService: a user's socket joins the     *)
(* user's personal room and the rooms of open conversations; a message is  *)
(* pushed to its conversation's room and its participants' personal rooms. *)
(* One socket per user.                                                    *)
(***************************************************************************)
EXTENDS ChatTables

\* handleConnection: the session is resolved and the personal room joined
\* before the client may do anything.
handleConnection(r, u) ==
    /\ Called(r, "connect")
    /\ u \notin online
    /\ online' = online \cup {u}
    /\ UNCHANGED <<suite, chatTables, events, room, shown, emitted, req>>

\* Socket.IO takes a closed socket out of its rooms; a join still under way
\* was for that socket.
handleDisconnect(u) ==
    /\ "disconnect" \in suite.routes
    /\ u \in online
    /\ online' = online \ {u}
    /\ room' = {p \in room : p[1] # u}
    /\ req' = [s \in RequestId |->
                 IF req[s].at = "joinRoom" /\ req[s].u = u THEN Idle ELSE req[s]]
    /\ UNCHANGED <<suite, chatTables, events, shown, emitted>>

\* Mutant: participation is not checked.
handleJoinUnchecked(r, c, u) ==
    /\ Called(r, "join")
    /\ u \in online
    /\ Wait(r, [Idle EXCEPT !.at = "joinRoom", !.u = u, !.c = c])
    /\ UNCHANGED tables

handleJoin(r, c, u) ==
    /\ Called(r, "join")
    /\ u \in online
    /\ IsParticipant(c, u)
    /\ Wait(r, [Idle EXCEPT !.at = "joinRoom", !.u = u, !.c = c])
    /\ UNCHANGED tables

joinRoom(r) ==
    /\ req[r].at = "joinRoom"
    /\ room' = room \cup {<<req[r].u, req[r].c>>}
    /\ Return(r)
    /\ UNCHANGED <<suite, chatTables, events, online, shown, emitted>>

handleLeave(r, c, u) ==
    /\ Called(r, "leave")
    /\ <<u, c>> \in room
    /\ room' = room \ {<<u, c>>}
    /\ UNCHANGED <<suite, chatTables, events, online, shown, emitted, req>>

\* participantUserIds after sendMessage; the participants that broadcast
\* reads with the card.
findAudience(r) ==
    /\ req[r].at = "findAudience"
    /\ Wait(r, [req[r] EXCEPT !.at = "emit", !.who = Members(req[r].c)])
    /\ UNCHANGED tables

\* Mutant: only those who have the conversation open are told.
emitMessageToRoom(r) ==
    LET told == {u \in online : <<u, req[r].c>> \in room} IN
    /\ req[r].at = "emit"
    /\ shown' = shown \cup (told \X {req[r].m})
    /\ emitted' = emitted \cup {req[r].m}
    /\ Return(r)
    /\ UNCHANGED <<suite, chatTables, events, online, room>>

\* To the conversation's room and to each participant's personal room; a
\* socket in both receives the message twice.
emitMessage(r) ==
    LET told == {u \in online : u \in req[r].who \/ <<u, req[r].c>> \in room} IN
    /\ req[r].at = "emit"
    /\ shown' = shown \cup (told \X {req[r].m})
    /\ emitted' = emitted \cup {req[r].m}
    /\ Return(r)
    /\ UNCHANGED <<suite, chatTables, events, online, room>>

ChatGatewayNext ==
    \/ \E u \in User : handleDisconnect(u)
    \/ \E r \in RequestId :
        \/ \E u \in User :
              \/ handleConnection(r, u)
              \/ \E c \in DOMAIN convs : handleJoin(r, c, u) \/ handleLeave(r, c, u)
        \/ joinRoom(r) \/ findAudience(r) \/ emitMessage(r)
=============================================================================
