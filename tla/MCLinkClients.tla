--------------------------- MODULE MCLinkClients ---------------------------
(* LinkClients for TLC.                                                    *)
EXTENDS LinkClients, TLC
=============================================================================
