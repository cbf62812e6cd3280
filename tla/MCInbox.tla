------------------------------ MODULE MCInbox -------------------------------
(* Inbox under TLC: the kinds of traffic of its run, and the symmetry of   *)
(* ids that no definition distinguishes.                                   *)
EXTENDS Inbox, TLC

\* First contacts; messages and reading between a pair and in a growing
\* group; sourcing vendors and their group, by vendor and by listing; the
\* status of an event; to-dos in a group, and refused elsewhere; the sockets.
OpenRoutes == {"createDirect", "orderDirect"}
TalkRoutes == {"orderDirect", "send", "markRead"}
GroupTalkRoutes == {"createEvent", "createGroup", "addParticipant", "send", "markRead"}
GroupRoutes == {"createEvent", "eventGroup", "createGroup", "addParticipant",
                "addVendor", "removeVendor"}
ListingRoutes == {"createEvent", "eventGroup", "addVendor", "addListing", "removeVendor"}
StatusRoutes == {"createEvent", "updateEvent", "cancelEvent"}
TodoRoutes == {"createEvent", "createGroup", "addParticipant",
               "createTodo", "toggleTask", "deleteTodo"}
PlainTodoRoutes == {"createEvent", "eventGroup", "addVendor", "orderDirect", "createTodo"}
LiveRoutes == {"createEvent", "createGroup", "addParticipant", "gatewaySend", "connect"}
DropRoutes == {"createEvent", "eventGroup", "gatewaySend", "connect", "disconnect", "join"}
PlainLiveRoutes == {"orderDirect", "gatewaySend", "connect", "disconnect", "join", "leave"}

Overlapping(sets) == {[routes |-> routes, overlap |-> TRUE, dies |-> FALSE] : routes \in sets}
Dying(sets) == {[routes |-> routes, overlap |-> TRUE, dies |-> TRUE] : routes \in sets}
OneByOne(sets) == {[routes |-> routes, overlap |-> FALSE, dies |-> FALSE] : routes \in sets}

RunSuites ==
    Dying({OpenRoutes, GroupRoutes})
    \cup Overlapping({TalkRoutes, GroupTalkRoutes, ListingRoutes, StatusRoutes,
                      TodoRoutes, LiveRoutes, DropRoutes})
    \cup OneByOne({OpenRoutes, ListingRoutes, PlainTodoRoutes, PlainLiveRoutes})

Symmetry == Permutations(Client) \cup Permutations(Seller)
               \cup Permutations(RequestId)
=============================================================================
