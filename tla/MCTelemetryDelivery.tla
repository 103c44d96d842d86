-------------------------- MODULE MCTelemetryDelivery --------------------------
(* Two accounts share the route cn, and ann has a second account. *)
EXTENDS TelemetryDelivery

MCAccountOf == [e \in Events |-> IF e = 2 THEN "bob" ELSE IF e = 3 THEN "intl" ELSE "ann"]
MCRouteOf == [a \in Accounts |-> IF a = "intl" THEN "intl" ELSE "cn"]
=============================================================================
