------------------------------ MODULE MCPeers -------------------------------
(***************************************************************************)
(* Model-checking instances of Peers, and a statement of the sources that  *)
(* the code does not keep.                                                 *)
(***************************************************************************)
EXTENDS Peers

\* A score that is two failed checks away from being blocked, and the lowest
\* the column holds, which a gain takes out of its range.
Assorted == {320, -9990}

\* No message is taken from a peer the server has blocked ("Blocking peer %s
\* due to low trust score", peers.go).  Violated: only the map knows.
BlockedRefused ==
  [][\A r \in Requests, p \in Peers, k \in Keys :
       Receive(r, p, k) => ~(p \in known /\ mem[p].status = "BLOCKED")]_vars
=============================================================================
