----------------------------- MODULE Negotiation -----------------------------
(***************************************************************************)
(* What the in-chat quote flow promises: a negotiation has one version on  *)
(* the table at a time; a revision replaces it, an answer takes it off the *)
(* table, and only the version on the table can become a deal.             *)
(***************************************************************************)
CONSTANT QuoteId
VARIABLES
    onTable,     \* versions the client may still accept
    deals,       \* versions that were accepted and invoiced
    withdrawn    \* versions superseded, declined or expired

Fresh(q) == q \notin onTable \cup deals \cup withdrawn

Init == onTable = {} /\ deals = {} /\ withdrawn = {}

Send(q) ==
    /\ Fresh(q)
    /\ onTable' = onTable \cup {q}
    /\ UNCHANGED <<deals, withdrawn>>

Revise(q, next) ==
    /\ q \in onTable
    /\ Fresh(next)
    /\ onTable' = (onTable \ {q}) \cup {next}
    /\ withdrawn' = withdrawn \cup {q}
    /\ UNCHANGED deals

Agree(q) ==
    /\ q \in onTable
    /\ onTable' = onTable \ {q}
    /\ deals' = deals \cup {q}
    /\ UNCHANGED withdrawn

Withdraw(q) ==
    /\ q \in onTable
    /\ onTable' = onTable \ {q}
    /\ withdrawn' = withdrawn \cup {q}
    /\ UNCHANGED deals

Next == \E q \in QuoteId :
    \/ Send(q) \/ Agree(q) \/ Withdraw(q)
    \/ \E next \in QuoteId : Revise(q, next)

Spec == Init /\ [][Next]_<<onTable, deals, withdrawn>>
=============================================================================
