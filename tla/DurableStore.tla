---------------------------- MODULE DurableStore ----------------------------
(***************************************************************************)
(* What the timescaledb bridge promises for each reading it accepts: once  *)
(* journalled, a reading ends up in the database or is given up by a       *)
(* documented rule (eviction, age, staleness, refusal by the database).    *)
(* Only a reading that never reached the journal may vanish.               *)
(***************************************************************************)
CONSTANT Points
VARIABLE fate

Fates == {"none", "volatile", "durable", "stored", "dropped", "lost"}

Init == fate = [p \in Points |-> "none"]

Allowed ==
    {<<"none", "volatile">>, <<"none", "dropped">>,
     <<"volatile", "durable">>, <<"volatile", "stored">>, <<"volatile", "dropped">>,
     <<"volatile", "lost">>,
     <<"durable", "stored">>, <<"durable", "dropped">>,
     <<"dropped", "stored">>}   \* an evicted reading whose queued copy still gets written

Next ==
    \A p \in Points : fate'[p] = fate[p] \/ <<fate[p], fate'[p]>> \in Allowed

Spec == Init /\ [][Next /\ DOMAIN fate' = Points]_fate
=============================================================================
