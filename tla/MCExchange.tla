----------------------------- MODULE MCExchange -----------------------------
(* Two clients, one with bundle2 and one without, and a server.            *)
EXTENDS Exchange

CONSTANTS c1, c2, server
=============================================================================
