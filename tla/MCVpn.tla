------------------------------- MODULE MCVpn -------------------------------
\* Model-checking instances of the VPN and of port forwarding: two requests in
\* flight in each, peers that compete for addresses, and two forwards that share a
\* port, one of them to an IPv6 address.  Addresses are ordered: the smallest free
\* one is taken.
\*
\* Vpn and Forwards share no variable: their runs are put side by side, and a
\* behaviour moves one of them.  The host changes its firewalls only where requests
\* for forwards come one at a time ("host"): a bound.
EXTENDS Vpn, Forwards, TLC

VARIABLE moving \* which of the two, and how
AllVars == <<moving, vars, forwardVars>>

AllInit ==
  /\ moving \in {"vpn", "forwards", "host"}
  /\ Init /\ ForwardsInit
  /\ moving = "vpn" => backend = "none"

AllNext ==
  \/ moving = "vpn" /\ Next /\ UNCHANGED <<moving, forwardVars>>
  \/ /\ moving # "vpn" /\ ForwardsNext
     /\ moving = "forwards" => changes' = 0
     /\ moving = "host" => Cardinality({a \in Askers : ask'[a] # NoAsk}) <= 1
     /\ UNCHANGED <<moving, vars>>

AllSpec == AllInit /\ [][AllNext]_AllVars

\* The instances give the rows and the slots of both the same names.
Symmetry == Permutations(Peers) \cup Permutations(Ports) \cup Permutations(Requests)
=============================================================================
