---------------------------- MODULE PlanOfRecord ----------------------------
(***************************************************************************)
(* What vendor subscriptions promise.  A vendor is on at most one plan and *)
(* its profile shows that plan's tier.  A paid plan is entered in three    *)
(* ways: by the one trial; by a checkout the vendor opened for that tier   *)
(* and paid, which is taken once; or by exchange of a paid plan the vendor *)
(* is on, never of a trial.  Only a paid plan lapses.                      *)
(***************************************************************************)
CONSTANTS
    Vendor,
    PaidTier,
    Checkout,    \* the checkouts that can be opened
    None         \* no tier, no vendor

VARIABLES
    plan,        \* the plan each vendor is on, and whether it is its trial
    shown,       \* the tier its profile shows
    trialled,    \* vendors that had their trial
    order        \* each checkout: whose, for what tier, and how far it got

NoPlan == [tier |-> None, trial |-> FALSE]
NoOrder == [vendor |-> None, tier |-> None, state |-> "none"]

Init ==
    /\ plan = [v \in Vendor |-> NoPlan]
    /\ shown = [v \in Vendor |-> "BASIC"]
    /\ trialled = {}
    /\ order = [s \in Checkout |-> NoOrder]

PutOn(v, t, trial) ==
    /\ plan' = [plan EXCEPT ![v] = [tier |-> t, trial |-> trial]]
    /\ shown' = [shown EXCEPT ![v] = t]

OnPaid(v) == plan[v].tier \in PaidTier

ChooseFree(v) ==
    /\ PutOn(v, "BASIC", FALSE)
    /\ UNCHANGED <<trialled, order>>

StartTrial(v, t) ==
    /\ v \notin trialled
    /\ ~OnPaid(v)
    /\ PutOn(v, t, TRUE)
    /\ trialled' = trialled \cup {v}
    /\ UNCHANGED order

\* The unused value of the plan covers the other tier's price.
Exchange(v, t) ==
    /\ OnPaid(v)
    /\ ~plan[v].trial
    /\ PutOn(v, t, FALSE)
    /\ UNCHANGED <<trialled, order>>

Lapse(v) ==
    /\ OnPaid(v)
    /\ plan' = [plan EXCEPT ![v] = NoPlan]
    /\ shown' = [shown EXCEPT ![v] = "BASIC"]
    /\ UNCHANGED <<trialled, order>>

-----------------------------------------------------------------------------
Turn(s, state) == order' = [order EXCEPT ![s].state = state]

Open(s, v, t) ==
    /\ order[s].state = "none"
    /\ order' = [order EXCEPT ![s] = [vendor |-> v, tier |-> t, state |-> "open"]]
    /\ UNCHANGED <<plan, shown, trialled>>

Pay(s) ==
    /\ order[s].state = "open"
    /\ Turn(s, "paid")
    /\ UNCHANGED <<plan, shown, trialled>>

\* The plan of a paid checkout is taken, for its vendor and at its tier.
Take(s) ==
    /\ order[s].state = "paid"
    /\ PutOn(order[s].vendor, order[s].tier, FALSE)
    /\ Turn(s, "closed")
    /\ UNCHANGED trialled

\* A checkout is given up; if it was paid, the payment is lost.
Forfeit(s) ==
    /\ order[s].state \in {"open", "paid"}
    /\ Turn(s, "closed")
    /\ UNCHANGED <<plan, shown, trialled>>

Next ==
    \/ \E v \in Vendor :
          \/ ChooseFree(v) \/ Lapse(v)
          \/ \E t \in PaidTier : StartTrial(v, t) \/ Exchange(v, t)
    \/ \E s \in Checkout :
          \/ \E v \in Vendor, t \in PaidTier : Open(s, v, t)
          \/ Pay(s) \/ Take(s) \/ Forfeit(s)

Spec == Init /\ [][Next]_<<plan, shown, trialled, order>>
=============================================================================
