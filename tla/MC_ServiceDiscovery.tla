------------------------ MODULE MC_ServiceDiscovery ------------------------
(* ServiceDiscovery for TLC: two services to offer, with a TTL the wire     *)
(* holds and one it does not, and a service to discover.                    *)
EXTENDS ServiceDiscovery
=============================================================================
