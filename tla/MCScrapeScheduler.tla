------------------------- MODULE MCScrapeScheduler --------------------------
(* Model-checking instances of ScrapeScheduler: scrapers s1 (every tick) and  *)
(* s2 (every other tick) share the device d1, scraper s3 (every other tick) has d2.*)
EXTENDS ScrapeScheduler

CONSTANTS s1, s2, s3, d1, d2, db, mq

TargetOf == [m \in Members |-> IF m = s3 THEN d2 ELSE d1]
EveryOrOther == [m \in Members |-> IF m = s1 THEN 1 ELSE 2]
Fastest == [g \in Groups |-> IF g = d1 THEN s1 ELSE s3]
InOrder == [m \in Members |-> CASE m = s1 -> 1 [] m = s2 -> 2 [] m = s3 -> 3]
DevicesInOrder == [g \in Groups |-> IF g = d1 THEN 1 ELSE 2]
Masks == [m \in Members |-> IF m = s2 THEN {1, 2} ELSE {1}]
Outputs == [m \in Members |-> IF m = s2 THEN {db, mq} ELSE {db}]
=============================================================================
