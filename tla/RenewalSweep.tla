---------------------------- MODULE RenewalSweep ----------------------------
(***************************************************************************)
(* SubscriptionsService.expireLapsedSubscriptions: every night the rows    *)
(* whose window has closed are collected, then expired one by one, each    *)
(* after a look for another live row of the vendor.                        *)
(***************************************************************************)
EXTENDS SubscriptionTables

collectLapsed(r) ==
    LET lapsed == {i \in DOMAIN subs : Candidate(i)}
    IN  /\ Called(r, "sweep")
        /\ lapsed # {}
        /\ Wait(r, [Idle EXCEPT !.at = "readOther",
                                !.todo = {<<i, subs[i].vendor>> : i \in lapsed}])
        /\ UNCHANGED tables

\* flag: the vendor has another live row, a free one included.
readOther(r, i) ==
    /\ req[r].at = "readOther"
    /\ \E v \in Vendor :
          /\ <<i, v>> \in req[r].todo
          /\ Wait(r, [req[r] EXCEPT !.at = "expire", !.row = i, !.v = v,
                                    !.flag = RowsIn(v, Live) \ {i} # {}])
    /\ UNCHANGED tables

\* Mutant: the row is expired, the vendor keeps the tier.
dropTierNever(v, other) == UNCHANGED tier

dropTier(v, other) ==
    tier' = IF other THEN tier ELSE [tier EXCEPT ![v] = "BASIC"]

expire(r, i) ==
    LET rest == {c \in req[r].todo : c[1] # i}
    IN  /\ req[r].at = "expire"
        /\ req[r].row = i
        /\ subs' = [subs EXCEPT ![i].status = "EXPIRED"]
        /\ dropTier(req[r].v, req[r].flag)
        /\ IF rest = {} THEN Return(r)
           ELSE Wait(r, [Idle EXCEPT !.at = "readOther", !.todo = rest])
        /\ UNCHANGED <<claims, checkout>>

RenewalSweepNext ==
    \E r \in RequestId, i \in RowId :
        \/ i = 1 /\ collectLapsed(r)
        \/ readOther(r, i)
        \/ expire(r, i)
=============================================================================
