------------------------------- MODULE MCDhcp -------------------------------
(* Values for the run of Dhcp: no static leases; clients are               *)
(* interchangeable.                                                        *)
EXTENDS Dhcp, TLC

MCStatic == [c \in Clients |-> 0]
Symmetry == Permutations(Clients)
=============================================================================
