------------------------------- MODULE MCMdev -------------------------------
(* Values for the runs of Mdev: what /dev/mdev.seq is at first, and two    *)
(* mdev.conf files.  One is empty; the other makes no node for a device    *)
(* with number 1, and otherwise an alias and a node that is linked to.     *)
EXTENDS Mdev

MCRule(maj, ren, to, keep) ==
  [devs |-> Devs, maj |-> maj, ren |-> ren, to |-> to, keep |-> keep]

MCConfs == {
  <<MCRule({1}, "!", "", FALSE), MCRule({}, "=", "alias", TRUE),
    MCRule({}, ">", "target", FALSE)>> }
MCDefault == {<< >>}

MCSeeds == {Absent, Seed, FirstSeq}
MCEmpty == {Seed}
=============================================================================
