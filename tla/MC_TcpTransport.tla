-------------------------- MODULE MC_TcpTransport --------------------------
(* TcpTransport for TLC: one or two callers, one endpoint to connect to and  *)
(* an accept thread, which draw from one or two connection ids.              *)
EXTENDS TcpTransport
=============================================================================
