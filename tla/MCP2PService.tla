---------------------------- MODULE MCP2PService ----------------------------
(* P2PService as it is: two attempts and a short queue are set in the cfg.  *)
EXTENDS P2PService
=============================================================================
