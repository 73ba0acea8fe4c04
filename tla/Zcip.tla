-------------------------------- MODULE Zcip --------------------------------
(***************************************************************************)
(* networking/zcip.c: hosts on one Ethernet link choose link-local         *)
(* addresses.  Each runs zcip, which probes for an address, announces it,  *)
(* has a script configure it and then defends it.                          *)
(*                                                                         *)
(* A broadcast reaches every host of the link at once, and waits in the    *)
(* receiver's ARP socket (rx).  The kernel, which is external, answers     *)
(* probes for an address that is configured on its interface.  Time is not *)
(* modelled: a timeout may strike whenever poll() has nothing to return.   *)
(***************************************************************************)
EXTENDS Integers, Sequences

CONSTANTS
  Hosts,        \* one interface, with one zcip, each
  Addrs,        \* the link-local addresses pick_nip() may return
  PROBE_NUM,    \* probes to send
  ANNOUNCE_NUM, \* announces to send
  ScriptLag,    \* how many timeouts of another host "<script> config" may last
  MaxRx,        \* bound: packets waiting in one socket
  MaxSplits,    \* bound: how often the link falls apart
  Prompt,       \* TRUE: queues are read within DEFEND_INTERVAL
  Faults        \* what may fail, see FaultKinds

FaultKinds == {"script", "linkdown", "syscall"}
NoAddr == "0.0.0.0"

ASSUME ZcipAssumption ==
  /\ PROBE_NUM \in Nat \ {0} /\ ANNOUNCE_NUM \in Nat \ {0}
  /\ ScriptLag \in Nat /\ MaxRx \in Nat /\ MaxSplits \in Nat
  /\ Prompt \in BOOLEAN /\ Faults \subseteq FaultKinds
  /\ NoAddr \notin Addrs

VARIABLES
  state,   \* zcip's state; "SCRIPT" while "<script> config" runs, "EXIT" after
  nip,     \* chosen_nip
  nsent,   \* packets sent in this state
  quit,    \* -q: exit once the address is configured
  rx,      \* ARP packets waiting in the socket
  ifaddr,  \* the link-local addresses of the interface, in the kernel
  left,    \* history: those of them whose "<script> deconfig" failed
  lag,     \* lag[g][h]: timeouts of h since g's script was started
  linked,  \* whether the hosts are connected
  splits   \* how often they were disconnected

vars == <<state, nip, nsent, quit, rx, ifaddr, left, lag, linked, splits>>
iface == <<ifaddr, left>>
proto == <<state, nip, nsent>>
env == <<quit, linked, splits>>

Packets == [spa : Addrs \cup {NoAddr}, tpa : Addrs \cup {NoAddr}]
Probe(a) == [spa |-> NoAddr, tpa |-> a]
Announce(a) == [spa |-> a, tpa |-> a]

\* At the start chosen_nip is the address given with -r, or a random one.
Init ==
  /\ state = [h \in Hosts |-> "PROBE"]
  /\ nip \in [Hosts -> Addrs]
  /\ nsent = [h \in Hosts |-> 0]
  /\ quit \in [Hosts -> BOOLEAN]
  /\ rx = [h \in Hosts |-> << >>]
  /\ ifaddr = [h \in Hosts |-> {}]
  /\ left = [h \in Hosts |-> {}]
  /\ lag = [g \in Hosts |-> [h \in Hosts |-> 0]]
  /\ linked = TRUE
  /\ splits = 0

-----------------------------------------------------------------------------
\* A host's own packets come back to its socket as well, and are dropped there
\* because the sender is our_ethaddr: they are left out of rx.
Hears(g, h) == linked /\ g # h /\ state[g] # "EXIT"

\* Bound: k more packets fit into the sockets that h reaches.
Room(h, k) == \A g \in Hosts : Hears(g, h) => Len(rx[g]) + k <= MaxRx

\* send_arp_request(): broadcast p; q is what of it is left in h's own queue.
Broadcast(h, p, q) ==
  rx' = [g \in Hosts |-> IF g = h THEN q
                         ELSE IF Hears(g, h) THEN Append(rx[g], p) ELSE rx[g]]

\* The kernels that have address a answer a probe for it.
Answers(h, a) ==
  IF linked /\ \E g \in Hosts \ {h} : a \in ifaddr[g]
  THEN << [spa |-> a, tpa |-> NoAddr] >> ELSE << >>

\* Time passes: one more timeout of h falls into each script that is running.
Passes(h) ==
  /\ \A g \in Hosts : state[g] = "SCRIPT" => lag[g][h] < ScriptLag
  /\ lag' = [g \in Hosts |-> IF state[g] = "SCRIPT"
                              THEN [lag[g] EXCEPT ![h] = @ + 1] ELSE lag[g]]

-----------------------------------------------------------------------------
(* poll() timed out.  It does so only if no packet waits to be read.       *)
TimedOut(h) == rx[h] = << >> /\ Room(h, 1) /\ Passes(h)

\* Mutant of SendProbe: one probe too many.
SendProbe_OffByOne(h) ==
  /\ state[h] = "PROBE" /\ nsent[h] <= PROBE_NUM
  /\ TimedOut(h)
  /\ nsent' = [nsent EXCEPT ![h] = @ + 1]
  /\ Broadcast(h, Probe(nip[h]), Answers(h, nip[h]))
  /\ UNCHANGED <<state, nip, iface, env>>

SendProbe(h) ==
  /\ state[h] = "PROBE" /\ nsent[h] < PROBE_NUM
  /\ TimedOut(h)
  /\ nsent' = [nsent EXCEPT ![h] = @ + 1]
  /\ Broadcast(h, Probe(nip[h]), Answers(h, nip[h]))
  /\ UNCHANGED <<state, nip, iface, env>>

\* Mutant of SendAnnounce: announces one probe too early.
SendAnnounce_Early(h) ==
  /\ TimedOut(h)
  /\ \/ state[h] = "PROBE" /\ nsent[h] >= PROBE_NUM - 1 /\ nsent' = [nsent EXCEPT ![h] = 1]
     \/ /\ state[h] = "ANNOUNCE" /\ nsent[h] < ANNOUNCE_NUM
        /\ nsent' = [nsent EXCEPT ![h] = @ + 1]
  /\ state' = [state EXCEPT ![h] = "ANNOUNCE"]
  /\ Broadcast(h, Announce(nip[h]), << >>)
  /\ UNCHANGED <<nip, iface, env>>

\* The last probe was not answered: announce the address, ANNOUNCE_NUM times.
SendAnnounce(h) ==
  /\ TimedOut(h)
  /\ \/ /\ state[h] = "PROBE" /\ nsent[h] = PROBE_NUM
        /\ state' = [state EXCEPT ![h] = "ANNOUNCE"]
        /\ nsent' = [nsent EXCEPT ![h] = 1]
     \/ /\ state[h] = "ANNOUNCE" /\ nsent[h] < ANNOUNCE_NUM
        /\ nsent' = [nsent EXCEPT ![h] = @ + 1]
        /\ UNCHANGED state
  /\ Broadcast(h, Announce(nip[h]), << >>)
  /\ UNCHANGED <<nip, iface, env>>

\* run(argv, "config", chosen_nip): zcip waits for the script.
StartScript(h) ==
  /\ state[h] = "ANNOUNCE" /\ nsent[h] = ANNOUNCE_NUM
  /\ TimedOut(h)
  /\ state' = [state EXCEPT ![h] = "SCRIPT"]
  /\ UNCHANGED <<nip, nsent, rx, iface, env>>

\* The script has added the address ("ip address add"), or failed, which zcip
\* ignores; then zcip exits (-q) or monitors the address.
ScriptDone(h) ==
  /\ state[h] = "SCRIPT"
  /\ \/ ifaddr' = [ifaddr EXCEPT ![h] = @ \cup {nip[h]}]
     \/ "script" \in Faults /\ UNCHANGED ifaddr
  /\ left' = [left EXCEPT ![h] = @ \ {nip[h]}]
  /\ state' = [state EXCEPT ![h] = IF quit[h] THEN "EXIT" ELSE "MONITOR"]
  /\ lag' = [lag EXCEPT ![h] = [g \in Hosts |-> 0]]
  /\ rx' = IF quit[h] THEN [rx EXCEPT ![h] = << >>] ELSE rx
  /\ UNCHANGED <<nip, nsent, env>>

\* The defend period ended without another conflict.
DefendOver(h) ==
  /\ state[h] = "DEFEND"
  /\ Prompt => \A g \in Hosts : rx[g] = << >>
  /\ TimedOut(h)
  /\ state' = [state EXCEPT ![h] = "MONITOR"]
  /\ UNCHANGED <<nip, nsent, rx, iface, env>>

-----------------------------------------------------------------------------
(* A packet arrived.                                                       *)
SrcConflict(h, p) == p.spa = nip[h]
TargetConflict(h, p) == p.spa = NoAddr /\ p.tpa = nip[h]

\* Mutant of Conflict: while claiming, only other probes count.
Conflict_NoSrc(h, p) ==
  IF state[h] \in {"PROBE", "ANNOUNCE"} THEN TargetConflict(h, p)
                                        ELSE SrcConflict(h, p)

Conflict(h, p) ==
  IF state[h] \in {"PROBE", "ANNOUNCE"}
  THEN SrcConflict(h, p) \/ TargetConflict(h, p)
  ELSE SrcConflict(h, p)

\* new_nip_and_PROBE:
Restart(h, a) ==
  /\ nip' = [nip EXCEPT ![h] = a]
  /\ state' = [state EXCEPT ![h] = "PROBE"]
  /\ nsent' = [nsent EXCEPT ![h] = 0]

\* run(argv, "deconfig", chosen_nip): the script removes the address ("ip
\* address del"), or fails and leaves it, and zcip does not look.
Deconfig(h) ==
  \/ /\ ifaddr' = [ifaddr EXCEPT ![h] = @ \ {nip[h]}]
     /\ left' = [left EXCEPT ![h] = @ \ {nip[h]}]
  \/ /\ "script" \in Faults
     /\ left' = [left EXCEPT ![h] = @ \cup ({nip[h]} \cap ifaddr[h])]
     /\ UNCHANGED ifaddr

\* Not a conflict, or, while monitoring, a probe for which the kernel is
\* expected to answer.
Ignore(h) ==
  /\ ~Conflict(h, Head(rx[h]))
  /\ rx' = [rx EXCEPT ![h] = Tail(@)]
  /\ UNCHANGED <<proto, iface, lag, env>>

PickAnother(h) ==
  /\ state[h] \in {"PROBE", "ANNOUNCE"} /\ Conflict(h, Head(rx[h]))
  /\ \E a \in Addrs : Restart(h, a)
  /\ rx' = [rx EXCEPT ![h] = Tail(@)]
  /\ UNCHANGED <<iface, lag, env>>

\* Mutants of Defend: the address is given up at once; no packet is sent.
Defend_GiveUp(h) ==
  /\ state[h] = "MONITOR" /\ Conflict(h, Head(rx[h]))
  /\ Deconfig(h)
  /\ \E a \in Addrs : Restart(h, a)
  /\ rx' = [rx EXCEPT ![h] = Tail(@)]
  /\ UNCHANGED <<lag, env>>
Defend_Silent(h) ==
  /\ state[h] = "MONITOR" /\ Conflict(h, Head(rx[h]))
  /\ state' = [state EXCEPT ![h] = "DEFEND"]
  /\ rx' = [rx EXCEPT ![h] = Tail(@)]
  /\ UNCHANGED <<nip, nsent, iface, lag, env>>

Defend(h) ==
  /\ state[h] = "MONITOR" /\ Conflict(h, Head(rx[h])) /\ Room(h, 1)
  /\ state' = [state EXCEPT ![h] = "DEFEND"]
  /\ Broadcast(h, Announce(nip[h]), Tail(rx[h]))
  /\ UNCHANGED <<nip, nsent, iface, lag, env>>

\* Mutant of GiveUp: starts over without "deconfig".
GiveUp_NoDeconfig(h) ==
  /\ state[h] = "DEFEND" /\ Conflict(h, Head(rx[h]))
  /\ \E a \in Addrs : Restart(h, a)
  /\ rx' = [rx EXCEPT ![h] = Tail(@)]
  /\ UNCHANGED <<iface, lag, env>>

\* Run "deconfig" and start over, whatever became of it.
GiveUp(h) ==
  /\ state[h] = "DEFEND" /\ Conflict(h, Head(rx[h]))
  /\ Deconfig(h)
  /\ \E a \in Addrs : Restart(h, a)
  /\ rx' = [rx EXCEPT ![h] = Tail(@)]
  /\ UNCHANGED <<lag, env>>

Polling(h) == state[h] \in {"PROBE", "ANNOUNCE", "MONITOR", "DEFEND"}

ReadPacket(h) ==
  /\ Polling(h) /\ rx[h] # << >>
  /\ Ignore(h) \/ PickAnother(h) \/ Defend(h) \/ GiveUp(h)

-----------------------------------------------------------------------------
(* The ways out of the loop besides -q.                                    *)
Leave(h) ==
  /\ state' = [state EXCEPT ![h] = "EXIT"]
  /\ rx' = [rx EXCEPT ![h] = << >>]
  /\ UNCHANGED <<nip, nsent, lag, env>>

\* POLLERR: an address that was configured is deconfigured.
LinkDown(h) ==
  /\ "linkdown" \in Faults /\ Polling(h) /\ rx[h] = << >>
  /\ \/ state[h] \in {"MONITOR", "DEFEND"} /\ Deconfig(h)
     \/ state[h] \in {"PROBE", "ANNOUNCE"} /\ UNCHANGED iface
  /\ Leave(h)

\* poll(), read() or sendto() fails.
SyscallFails(h) ==
  /\ "syscall" \in Faults /\ Polling(h)
  /\ Leave(h)
  /\ UNCHANGED iface

-----------------------------------------------------------------------------
(* The environment: a host uses an address of its, and sends an ARP request *)
(* with it as source; the link falls apart and is repaired.                *)
Use(h, a) ==
  /\ a \in ifaddr[h] /\ Room(h, 2)  \* room is left for zcip's own packets
  /\ \E g \in Hosts : Hears(g, h)
  /\ Broadcast(h, [spa |-> a, tpa |-> NoAddr], rx[h])
  /\ UNCHANGED <<proto, iface, lag, env>>

Split ==
  /\ linked /\ splits < MaxSplits
  /\ linked' = FALSE /\ splits' = splits + 1
  /\ UNCHANGED <<proto, quit, rx, iface, lag>>

Join ==
  /\ ~linked
  /\ linked' = TRUE
  /\ UNCHANGED <<proto, quit, rx, iface, lag, splits>>

Step(h) ==
  \/ SendProbe(h) \/ SendAnnounce(h) \/ StartScript(h) \/ ScriptDone(h)
  \/ DefendOver(h) \/ ReadPacket(h) \/ LinkDown(h) \/ SyscallFails(h)
  \/ \E a \in Addrs : Use(h, a)

Next == Split \/ Join \/ \E h \in Hosts : Step(h)

Spec == Init /\ [][Next]_vars

(* Packets that wait are read, scripts end, a link is repaired, and a host *)
(* goes on using the addresses of its interface.                           *)
Fairness ==
  /\ WF_vars(Join)
  /\ \A h \in Hosts : /\ WF_vars(ReadPacket(h)) /\ WF_vars(ScriptDone(h))
                      /\ \A a \in Addrs : SF_vars(Use(h, a))

FairSpec == Spec /\ Fairness

-----------------------------------------------------------------------------
\* The types of zcip_main()'s locals, the sockets and the interfaces.
TypeOK ==
  /\ state \in [Hosts -> {"PROBE", "ANNOUNCE", "SCRIPT", "MONITOR", "DEFEND", "EXIT"}]
  /\ nip \in [Hosts -> Addrs]
  /\ nsent \in [Hosts -> Nat]
  /\ \A h \in Hosts : /\ state[h] = "PROBE" => nsent[h] <= PROBE_NUM
                      /\ state[h] = "ANNOUNCE" => nsent[h] \in 1..ANNOUNCE_NUM
  /\ quit \in [Hosts -> BOOLEAN]
  /\ rx \in [Hosts -> Seq(Packets)]
  /\ ifaddr \in [Hosts -> SUBSET Addrs] /\ left \in [Hosts -> SUBSET Addrs]
  /\ lag \in [Hosts -> [Hosts -> 0..ScriptLag]]
  /\ linked \in BOOLEAN /\ splits \in 0..MaxSplits

\* RFC 3927's purpose: as long as the link holds, no two interfaces are ever
\* configured with one address, however the hosts' probes, announcements and
\* scripts interleave (a script being shorter than PROBE_NUM probes).
AddressUnique ==
  splits = 0 => \A g, h \in Hosts : g # h => ifaddr[g] \cap ifaddr[h] = {}

\* h lays claim to a: it has probed for it, announced it, or has it.
Claims(h, a) ==
  \/ nip[h] = a /\ state[h] = "PROBE" /\ nsent[h] > 0
  \/ nip[h] = a /\ state[h] \in {"ANNOUNCE", "SCRIPT"}
  \/ a \in ifaddr[h]

\* h is about to give up its claim to a: a packet waits that will make it pick
\* another address, and no earlier script has left a on the interface.
Doomed(h, a) ==
  /\ nip[h] = a /\ a \notin ifaddr[h]
  /\ state[h] \in {"PROBE", "ANNOUNCE"}
  /\ \E i \in 1..Len(rx[h]) : Conflict(h, rx[h][i])

\* g's script has kept g from reading h's probes, but h has not yet sent all
\* of them: the next one is answered once the script is done.
Behind(h, g, a) ==
  /\ nip[h] = a /\ a \notin ifaddr[h]
  /\ state[h] = "PROBE"
  /\ \/ nip[g] = a /\ state[g] = "SCRIPT" /\ nsent[h] <= lag[g][h]
     \/ a \in ifaddr[g] /\ nsent[h] <= ScriptLag

\* Why addresses are unique: of two claims to one address, one is doomed, or
\* is still so young that it will meet the kernel's answer.
OneClaimSurvives ==
  splits = 0 => \A g, h \in Hosts, a \in Addrs :
    g # h /\ Claims(g, a) /\ Claims(h, a)
      => Doomed(g, a) \/ Doomed(h, a) \/ Behind(g, h, a) \/ Behind(h, g, a)

\* What is on the interface is the one address that zcip defends, and nothing
\* while it still probes or announces, save what a failed script has left
\* there: "deconfig" runs before every new choice.
InterfaceMatches ==
  \A h \in Hosts : \A a \in ifaddr[h] \ left[h] :
    a = nip[h] /\ state[h] \in {"MONITOR", "DEFEND", "EXIT"}

GivesUpDefending ==
  \A h \in Hosts : \A a \in ifaddr[h] \ ifaddr'[h] :
    a = nip[h] /\ (state[h] = "DEFEND" \/ state'[h] = "EXIT")

\* A configured address is not given up at the first conflict: the host has
\* announced it once, and then met a second claim to it.
GivesUpOnlyDefending == [][GivesUpDefending]_vars

\* Two interfaces have one address, and zcip watches over both.
Shared(g, h) ==
  /\ (ifaddr[g] \ left[g]) \cap (ifaddr[h] \ left[h]) # {}
  /\ state[g] # "EXIT" /\ state[h] # "EXIT"

\* After a split, two hosts may come to share an address.  Once the link is
\* repaired and both use it, one of them has it removed, if both still run
\* zcip; "deconfig" may fail, and then zcip has turned away from the address.
ConflictResolved ==
  \A g, h \in Hosts : g # h => (Shared(g, h) ~> ~Shared(g, h))
=============================================================================
