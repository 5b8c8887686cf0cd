------------------------------- MODULE Sides -------------------------------
(***************************************************************************)
(* The two ends of one tunnel connection: the vs-vpn client, which dials,  *)
(* and the vs-vpn server, which accepts.  `is_client` in the source.       *)
(***************************************************************************)
Side == {"client", "server"}

Peer(s) == IF s = "client" THEN "server" ELSE "client"
=============================================================================
