----------------------------- MODULE GroupTodos -----------------------------
(***************************************************************************)
(* TodoService: to-dos in a group chat, posted as a card, ticked by each   *)
(* assignee, deleted by their creator.                                     *)
(***************************************************************************)
EXTENDS ChatTables

\* assertGroupMember.
createTodo(r, c, u, who) ==
    /\ Called(r, "createTodo")
    /\ IsParticipant(c, u)
    /\ convs[c].type = "GROUP"
    /\ Wait(r, [Idle EXCEPT !.at = "findAssignees", !.u = u, !.c = c, !.who = who])
    /\ UNCHANGED tables

findAssignees(r) ==
    /\ req[r].at = "findAssignees"
    /\ IF req[r].who \subseteq Members(req[r].c)
       THEN Wait(r, [req[r] EXCEPT !.at = "insertTodo"])
       ELSE Return(r)
    /\ UNCHANGED tables

\* The to-do, its assignments and its card are one transaction; then the card
\* is broadcast.
insertTodo(r) ==
    /\ req[r].at = "insertTodo"
    /\ Len(todos) < MaxTodos
    /\ todos' = Append(todos, [conv |-> req[r].c, by |-> req[r].u, gone |-> FALSE,
                               done |-> [u \in User |-> IF u \in req[r].who THEN FALSE ELSE NULL]])
    /\ post(req[r].c, req[r].u, Len(todos) + 1)
    /\ Wait(r, [req[r] EXCEPT !.at = "findAudience", !.m = Len(msgs) + 1])
    /\ UNCHANGED <<suite, events, sockets>>

Assigned(t, u) == todos[t].done[u] # NULL

toggleMyTask(r, t, u) ==
    /\ Called(r, "toggleTask")
    /\ Assigned(t, u)
    /\ Wait(r, [Idle EXCEPT !.at = "tick", !.u = u, !.t = t, !.flag = todos[t].done[u]])
    /\ UNCHANGED tables

\* The complement of what was read, whatever the row holds by now.
tick(r) ==
    /\ req[r].at = "tick"
    /\ Assigned(req[r].t, req[r].u)
    /\ todos' = [todos EXCEPT ![req[r].t].done[req[r].u] = ~req[r].flag]
    /\ Return(r)
    /\ UNCHANGED <<suite, convs, msgs, events, sockets>>

tickRefused(r) ==
    /\ req[r].at = "tick"
    /\ ~Assigned(req[r].t, req[r].u)
    /\ Return(r)
    /\ UNCHANGED tables

deleteTodo(r, t, u) ==
    /\ Called(r, "deleteTodo")
    /\ ~todos[t].gone
    /\ todos[t].by = u
    /\ Wait(r, [Idle EXCEPT !.at = "deleteTodo", !.u = u, !.t = t])
    /\ UNCHANGED tables

\* Mutant: the card keeps pointing at the to-do.
removeTodoKeepingCard(r) ==
    /\ req[r].at = "deleteTodo"
    /\ ~todos[req[r].t].gone
    /\ todos' = [todos EXCEPT ![req[r].t].gone = TRUE, ![req[r].t].done = [u \in User |-> NULL]]
    /\ Return(r)
    /\ UNCHANGED <<suite, convs, msgs, events, sockets>>

\* The assignments go with the row, and its card loses the reference.
removeTodo(r) ==
    /\ req[r].at = "deleteTodo"
    /\ ~todos[req[r].t].gone
    /\ todos' = [todos EXCEPT ![req[r].t].gone = TRUE, ![req[r].t].done = [u \in User |-> NULL]]
    /\ msgs' = [m \in DOMAIN msgs |->
                  IF msgs[m].todo = req[r].t THEN [msgs[m] EXCEPT !.todo = 0] ELSE msgs[m]]
    /\ Return(r)
    /\ UNCHANGED <<suite, convs, events, sockets>>

removeTodoRefused(r) ==
    /\ req[r].at = "deleteTodo"
    /\ todos[req[r].t].gone
    /\ Return(r)
    /\ UNCHANGED tables

GroupTodosNext ==
    \E r \in RequestId :
        \/ \E c \in DOMAIN convs, u \in User, who \in (SUBSET User) \ {{}} : createTodo(r, c, u, who)
        \/ \E t \in DOMAIN todos, u \in User : toggleMyTask(r, t, u) \/ deleteTodo(r, t, u)
        \/ findAssignees(r) \/ insertTodo(r)
        \/ tick(r) \/ tickRefused(r)
        \/ removeTodo(r) \/ removeTodoRefused(r)
=============================================================================
