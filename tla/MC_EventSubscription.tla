----------------------- MODULE MC_EventSubscription -----------------------
(* EventSubscription for TLC: two events in one eventgroup, or an eventgroup *)
(* for each, all of one service.                                             *)
EXTENDS EventSubscription, TLC

CONSTANTS e1, e2, g1, g2, s1

OneGroup == (e1 :> g1) @@ (e2 :> g1)
TwoGroups == (e1 :> g1) @@ (e2 :> g2)
OneService == (g1 :> s1) @@ (g2 :> s1)
=============================================================================
