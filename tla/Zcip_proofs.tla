---------------------------- MODULE Zcip_proofs ----------------------------
(***************************************************************************)
(* What is proved of zcip, for any number of hosts and addresses, any      *)
(* PROBE_NUM and ANNOUNCE_NUM, and sockets of any size.                    *)
(***************************************************************************)
EXTENDS Zcip, TLAPS

USE DEF NoAddr

\* What a broadcast does to the sockets: nothing is lost from another host's
\* socket, and the packet is the last one in that of a host that hears it.
LEMMA BroadcastType ==
  ASSUME TypeOK, NEW h \in Hosts, NEW p \in Packets, NEW q \in Seq(Packets),
         Broadcast(h, p, q)
  PROVE  rx' \in [Hosts -> Seq(Packets)]
  BY DEF TypeOK, Broadcast

\* Probes, announcements and the kernels' answers are packets.
LEMMA PacketTypes ==
  ASSUME TypeOK, NEW h \in Hosts
  PROVE  /\ Probe(nip[h]) \in Packets /\ Announce(nip[h]) \in Packets
         /\ Answers(h, nip[h]) \in Seq(Packets)
         /\ \A a \in Addrs : [spa |-> a, tpa |-> NoAddr] \in Packets
         /\ << >> \in Seq(Packets)
         /\ rx[h] # << >> => Head(rx[h]) \in Packets /\ Tail(rx[h]) \in Seq(Packets)
  <1> nip[h] \in Addrs /\ rx[h] \in Seq(Packets)
    BY DEF TypeOK
  <1>1. Probe(nip[h]) \in Packets /\ Announce(nip[h]) \in Packets
    BY DEF Packets, Probe, Announce
  <1>2. \A a \in Addrs : [spa |-> a, tpa |-> NoAddr] \in Packets
    BY DEF Packets
  <1>3. Answers(h, nip[h]) \in Seq(Packets)
    BY <1>2 DEF Answers
  <1>4. rx[h] # << >> => Head(rx[h]) \in Packets /\ Tail(rx[h]) \in Seq(Packets)
    OBVIOUS
  <1> QED  BY <1>1, <1>2, <1>3, <1>4

\* A timeout of h counts for the scripts under way, each at most ScriptLag times.
LEMMA PassesType ==
  ASSUME TypeOK, NEW h \in Hosts, Passes(h)
  PROVE  lag' \in [Hosts -> [Hosts -> 0..ScriptLag]]
  BY ZcipAssumption DEF TypeOK, Passes

\* The scripts add and remove addresses of the host's own.
LEMMA IfaceType ==
  ASSUME TypeOK, NEW h \in Hosts, Deconfig(h) \/ ScriptDone(h)
  PROVE  ifaddr' \in [Hosts -> SUBSET Addrs] /\ left' \in [Hosts -> SUBSET Addrs]
  <1>1. /\ nip[h] \in Addrs /\ ifaddr[h] \in SUBSET Addrs /\ left[h] \in SUBSET Addrs
        /\ ifaddr \in [Hosts -> SUBSET Addrs] /\ left \in [Hosts -> SUBSET Addrs]
    BY DEF TypeOK
  <1>2. ASSUME NEW S \in SUBSET Addrs
        PROVE  /\ [ifaddr EXCEPT ![h] = S] \in [Hosts -> SUBSET Addrs]
               /\ [left EXCEPT ![h] = S] \in [Hosts -> SUBSET Addrs]
    BY <1>1
  <1>3. /\ ifaddr[h] \ {nip[h]} \in SUBSET Addrs /\ left[h] \ {nip[h]} \in SUBSET Addrs
        /\ left[h] \cup ({nip[h]} \cap ifaddr[h]) \in SUBSET Addrs
        /\ ifaddr[h] \cup {nip[h]} \in SUBSET Addrs
    BY <1>1
  <1>4. /\ ifaddr' = ifaddr \/ \E S \in SUBSET Addrs : ifaddr' = [ifaddr EXCEPT ![h] = S]
        /\ \E S \in SUBSET Addrs : left' = [left EXCEPT ![h] = S]
    <2>1. CASE Deconfig(h)
      BY <1>3, <2>1, Zenon DEF Deconfig
    <2>2. CASE ScriptDone(h)
      BY <1>3, <2>2, Zenon DEF ScriptDone
    <2> QED  BY <2>1, <2>2
  <1>5. ifaddr' \in [Hosts -> SUBSET Addrs]
    BY ONLY <1>1, <1>2, <1>4
  <1>6. left' \in [Hosts -> SUBSET Addrs]
    BY ONLY <1>1, <1>2, <1>4
  <1> QED  BY <1>5, <1>6

\* A step of a host keeps the types: nsent stays within the count of its state.
LEMMA TypeStep ==
  ASSUME TypeOK, NEW h \in Hosts, Step(h)
  PROVE  TypeOK'
  <1> USE ZcipAssumption DEF TypeOK, proto, env, iface
  <1>1. CASE SendProbe(h)
    <2>1. rx' \in [Hosts -> Seq(Packets)]
      BY <1>1, BroadcastType, PacketTypes DEF SendProbe
    <2>2. lag' \in [Hosts -> [Hosts -> 0..ScriptLag]]
      BY <1>1, PassesType DEF SendProbe, TimedOut
    <2>3. state' \in [Hosts -> {"PROBE", "ANNOUNCE", "SCRIPT", "MONITOR", "DEFEND", "EXIT"}]
      BY <1>1 DEF SendProbe
    <2>4. nsent' \in [Hosts -> Nat]
      BY <1>1 DEF SendProbe
    <2>5. ASSUME NEW g \in Hosts
          PROVE  /\ state'[g] = "PROBE" => nsent'[g] <= PROBE_NUM
                 /\ state'[g] = "ANNOUNCE" => nsent'[g] \in 1..ANNOUNCE_NUM
      <3>1. CASE g = h
        BY <1>1, <3>1 DEF SendProbe
      <3>2. CASE g # h
        BY <1>1, <3>2 DEF SendProbe
      <3> QED  BY <3>1, <3>2
    <2> QED  BY <1>1, <2>1, <2>2, <2>3, <2>4, <2>5 DEF SendProbe
  <1>2. CASE SendAnnounce(h)
    <2>1. rx' \in [Hosts -> Seq(Packets)]
      BY <1>2, BroadcastType, PacketTypes DEF SendAnnounce
    <2>2. lag' \in [Hosts -> [Hosts -> 0..ScriptLag]]
      BY <1>2, PassesType DEF SendAnnounce, TimedOut
    <2>3. state' \in [Hosts -> {"PROBE", "ANNOUNCE", "SCRIPT", "MONITOR", "DEFEND", "EXIT"}]
      BY <1>2 DEF SendAnnounce
    <2>4. nsent' \in [Hosts -> Nat]
      <3>1. \/ nsent' = [nsent EXCEPT ![h] = 1]
            \/ nsent' = [nsent EXCEPT ![h] = nsent[h] + 1]
        BY <1>2 DEF SendAnnounce
      <3>2. nsent \in [Hosts -> Nat]
        OBVIOUS
      <3> QED  BY ONLY <3>1, <3>2
    <2>5. ASSUME NEW g \in Hosts
          PROVE  /\ state'[g] = "PROBE" => nsent'[g] <= PROBE_NUM
                 /\ state'[g] = "ANNOUNCE" => nsent'[g] \in 1..ANNOUNCE_NUM
      <3>1. CASE g = h
        <4>1. CASE state[h] = "PROBE"
          BY <1>2, <3>1, <4>1 DEF SendAnnounce
        <4>2. CASE state[h] = "ANNOUNCE" /\ nsent[h] < ANNOUNCE_NUM
          BY <1>2, <3>1, <4>2 DEF SendAnnounce
        <4> QED  BY <1>2, <4>1, <4>2 DEF SendAnnounce
      <3>2. CASE g # h
        BY <1>2, <3>2 DEF SendAnnounce
      <3> QED  BY <3>1, <3>2
    <2> QED  BY <1>2, <2>1, <2>2, <2>3, <2>4, <2>5 DEF SendAnnounce
  <1>3. CASE StartScript(h)
    <2>1. lag' \in [Hosts -> [Hosts -> 0..ScriptLag]]
      BY <1>3, PassesType DEF StartScript, TimedOut
    <2> QED  BY <1>3, <2>1 DEF StartScript
  <1>4. CASE ScriptDone(h)
    <2>1. rx' \in [Hosts -> Seq(Packets)]
      BY <1>4, PacketTypes DEF ScriptDone
    <2>2. ifaddr' \in [Hosts -> SUBSET Addrs] /\ left' \in [Hosts -> SUBSET Addrs]
      BY <1>4, IfaceType
    <2>3. /\ state' \in [Hosts -> {"PROBE", "ANNOUNCE", "SCRIPT", "MONITOR", "DEFEND", "EXIT"}]
          /\ \A g \in Hosts : state'[g] \in {"PROBE", "ANNOUNCE"} => state[g] = state'[g]
      BY <1>4 DEF ScriptDone
    <2>4. lag' \in [Hosts -> [Hosts -> 0..ScriptLag]]
      BY <1>4 DEF ScriptDone
    <2> QED  BY <1>4, <2>1, <2>2, <2>3, <2>4 DEF ScriptDone
  <1>5. CASE DefendOver(h)
    <2>1. lag' \in [Hosts -> [Hosts -> 0..ScriptLag]]
      BY <1>5, PassesType DEF DefendOver, TimedOut
    <2> QED  BY <1>5, <2>1 DEF DefendOver
  <1>6. CASE ReadPacket(h)
    <2> rx[h] # << >>
      BY <1>6 DEF ReadPacket
    <2> Tail(rx[h]) \in Seq(Packets)
      BY PacketTypes
    <2>1. CASE Ignore(h)
      BY <2>1 DEF Ignore
    <2>2. CASE PickAnother(h)
      BY <2>2 DEF PickAnother, Restart
    <2>3. CASE Defend(h)
      <3>1. rx' \in [Hosts -> Seq(Packets)]
        BY <2>3, BroadcastType, PacketTypes DEF Defend
      <3> QED  BY <2>3, <3>1 DEF Defend
    <2>4. CASE GiveUp(h)
      <3>1. ifaddr' \in [Hosts -> SUBSET Addrs] /\ left' \in [Hosts -> SUBSET Addrs]
        BY <2>4, IfaceType DEF GiveUp
      <3>2. /\ state' \in [Hosts -> {"PROBE", "ANNOUNCE", "SCRIPT", "MONITOR", "DEFEND", "EXIT"}]
            /\ nip' \in [Hosts -> Addrs] /\ nsent' \in [Hosts -> Nat]
            /\ \A g \in Hosts :
                 /\ state'[g] = "PROBE" => nsent'[g] <= PROBE_NUM
                 /\ state'[g] = "ANNOUNCE" => nsent'[g] \in 1..ANNOUNCE_NUM
        BY <2>4 DEF GiveUp, Restart
      <3>3. rx' \in [Hosts -> Seq(Packets)] /\ UNCHANGED <<lag, env>>
        BY <2>4 DEF GiveUp
      <3> QED  BY <3>1, <3>2, <3>3
    <2> QED  BY <1>6, <2>1, <2>2, <2>3, <2>4 DEF ReadPacket
  <1>7. CASE LinkDown(h)
    <2>1. rx' \in [Hosts -> Seq(Packets)]
      BY <1>7, PacketTypes DEF LinkDown, Leave
    <2>2. ifaddr' \in [Hosts -> SUBSET Addrs] /\ left' \in [Hosts -> SUBSET Addrs]
      BY <1>7, IfaceType DEF LinkDown
    <2> QED  BY <1>7, <2>1, <2>2 DEF LinkDown, Leave, Polling
  <1>8. CASE SyscallFails(h)
    <2>1. rx' \in [Hosts -> Seq(Packets)]
      BY <1>8, PacketTypes DEF SyscallFails, Leave
    <2> QED  BY <1>8, <2>1 DEF SyscallFails, Leave, Polling
  <1>9. ASSUME NEW a \in Addrs, Use(h, a)
        PROVE  TypeOK'
    <2>1. rx' \in [Hosts -> Seq(Packets)]
      BY <1>9, BroadcastType, PacketTypes DEF Use
    <2> QED  BY <1>9, <2>1 DEF Use
  <1> QED  BY <1>1, <1>2, <1>3, <1>4, <1>5, <1>6, <1>7, <1>8, <1>9 DEF Step

\* Types and counts of zcip_main()'s locals, the sockets and the interfaces.
THEOREM TypeCorrect == Spec => []TypeOK
  <1>1. Init => TypeOK
    BY ZcipAssumption DEF Init, TypeOK, Packets
  <1>2. TypeOK /\ [Next]_vars => TypeOK'
    <2> SUFFICES ASSUME TypeOK, [Next]_vars PROVE TypeOK'
      OBVIOUS
    <2>1. CASE Split
      <3>1. linked' \in BOOLEAN
        BY <2>1 DEF Split
      <3>2. splits' \in 0..MaxSplits
        BY <2>1, ZcipAssumption DEF Split, TypeOK
      <3> QED  BY <2>1, <3>1, <3>2 DEF Split, TypeOK, proto, iface
    <2>2. CASE Join
      BY <2>2 DEF Join, TypeOK, proto, iface
    <2>3. CASE \E h \in Hosts : Step(h)
      BY <2>3, TypeStep
    <2>4. CASE UNCHANGED vars
      BY <2>4 DEF vars, TypeOK
    <2> QED  BY <2>1, <2>2, <2>3, <2>4 DEF Next
  <1> QED  BY <1>1, <1>2, PTL DEF Spec

-----------------------------------------------------------------------------
\* What a step of h leaves to another host g: its locals and its interface,
\* and whatever waits in its socket.
LEMMA OtherHost ==
  ASSUME TypeOK, NEW h \in Hosts, Step(h), NEW g \in Hosts, g # h
  PROVE  /\ state'[g] = state[g] /\ nip'[g] = nip[g] /\ nsent'[g] = nsent[g]
         /\ ifaddr'[g] = ifaddr[g] /\ left'[g] = left[g]
         /\ rx'[g] = rx[g] \/ \E p \in Packets : rx'[g] = Append(rx[g], p)
  <1> USE DEF TypeOK, proto, env, iface
  <1>1. CASE SendProbe(h)
    BY <1>1, PacketTypes DEF SendProbe, Broadcast
  <1>2. CASE SendAnnounce(h)
    <2>1. state'[g] = state[g] /\ nsent'[g] = nsent[g]
      BY <1>2 DEF SendAnnounce
    <2> QED  BY <1>2, <2>1, PacketTypes DEF SendAnnounce, Broadcast
  <1>3. CASE StartScript(h)
    BY <1>3 DEF StartScript
  <1>4. CASE ScriptDone(h)
    BY <1>4 DEF ScriptDone
  <1>5. CASE DefendOver(h)
    BY <1>5 DEF DefendOver
  <1>6. CASE Ignore(h)
    BY <1>6 DEF Ignore
  <1>7. CASE PickAnother(h)
    BY <1>7 DEF PickAnother, Restart
  <1>8. CASE Defend(h)
    BY <1>8, PacketTypes DEF Defend, Broadcast
  <1>9. CASE GiveUp(h)
    BY <1>9 DEF GiveUp, Restart, Deconfig
  <1>10. CASE LinkDown(h)
    BY <1>10 DEF LinkDown, Leave, Deconfig
  <1>11. CASE SyscallFails(h)
    BY <1>11 DEF SyscallFails, Leave
  <1>12. CASE \E a \in Addrs : Use(h, a)
    BY <1>12, PacketTypes DEF Use, Broadcast
  <1> QED  BY <1>1, <1>2, <1>3, <1>4, <1>5, <1>6, <1>7, <1>8, <1>9, <1>10, <1>11, <1>12
           DEF Step, ReadPacket

\* What "deconfig" leaves on the interface.
LEMMA DeconfigIs ==
  ASSUME TypeOK, NEW h \in Hosts, Deconfig(h)
  PROVE  /\ ifaddr'[h] \subseteq ifaddr[h]
         /\ ifaddr[h] \ ifaddr'[h] \subseteq {nip[h]}
         /\ \A a \in ifaddr'[h] \ left'[h] : a \in ifaddr[h] \ left[h] /\ a # nip[h]
  <1> USE DEF TypeOK
  <1>1. CASE /\ ifaddr' = [ifaddr EXCEPT ![h] = @ \ {nip[h]}]
             /\ left' = [left EXCEPT ![h] = @ \ {nip[h]}]
    <2>1. ifaddr'[h] = ifaddr[h] \ {nip[h]} /\ left'[h] = left[h] \ {nip[h]}
      BY <1>1
    <2> QED  BY <2>1
  <1>2. CASE /\ left' = [left EXCEPT ![h] = @ \cup ({nip[h]} \cap ifaddr[h])]
             /\ UNCHANGED ifaddr
    <2>1. ifaddr'[h] = ifaddr[h] /\ left'[h] = left[h] \cup ({nip[h]} \cap ifaddr[h])
      BY <1>2
    <2> QED  BY <2>1
  <1> QED  BY <1>1, <1>2 DEF Deconfig

\* A step of a host keeps the interfaces in line with what zcip defends.
LEMMA InterfaceStep ==
  ASSUME TypeOK, InterfaceMatches, NEW h \in Hosts, Step(h)
  PROVE  InterfaceMatches'
  <1> SUFFICES ASSUME NEW a \in ifaddr'[h] \ left'[h]
               PROVE  a = nip'[h] /\ state'[h] \in {"MONITOR", "DEFEND", "EXIT"}
    BY OtherHost DEF InterfaceMatches
  <1> USE DEF TypeOK, InterfaceMatches, proto, env, iface
  <1>1. CASE SendProbe(h)
    BY <1>1 DEF SendProbe
  <1>2. CASE SendAnnounce(h)
    BY <1>2 DEF SendAnnounce
  <1>3. CASE StartScript(h)
    BY <1>3 DEF StartScript
  <1>4. CASE ScriptDone(h)
    <2>1. a = nip[h]
      <3>1. ifaddr[h] \subseteq left[h]
        BY <1>4 DEF ScriptDone
      <3>2. /\ ifaddr'[h] \subseteq ifaddr[h] \cup {nip[h]}
            /\ left'[h] = left[h] \ {nip[h]}
        BY <1>4 DEF ScriptDone
      <3> QED  BY <3>1, <3>2
    <2> QED  BY <1>4, <2>1 DEF ScriptDone
  <1>5. CASE DefendOver(h)
    BY <1>5 DEF DefendOver
  <1>6. CASE Ignore(h)
    BY <1>6 DEF Ignore
  <1>7. CASE PickAnother(h)
    BY <1>7 DEF PickAnother, Restart
  <1>8. CASE Defend(h)
    BY <1>8 DEF Defend
  <1>9. CASE GiveUp(h)
    BY <1>9, DeconfigIs DEF GiveUp
  <1>10. CASE LinkDown(h)
    BY <1>10, DeconfigIs DEF LinkDown, Leave, Polling
  <1>11. CASE SyscallFails(h)
    BY <1>11 DEF SyscallFails, Leave, Polling
  <1>12. CASE \E x \in Addrs : Use(h, x)
    BY <1>12 DEF Use
  <1> QED  BY <1>1, <1>2, <1>3, <1>4, <1>5, <1>6, <1>7, <1>8, <1>9, <1>10, <1>11, <1>12
           DEF Step, ReadPacket

\* What is on an interface although zcip has turned away from it is there
\* because its "deconfig" failed: every path back to PROBE has run it first.
THEOREM InterfaceCorrect == Spec => []InterfaceMatches
  <1>1. Init => InterfaceMatches
    BY DEF Init, InterfaceMatches
  <1>2. TypeOK /\ InterfaceMatches /\ [Next]_vars => InterfaceMatches'
    <2> SUFFICES ASSUME TypeOK, InterfaceMatches, [Next]_vars PROVE InterfaceMatches'
      OBVIOUS
    <2>1. CASE Split
      BY <2>1 DEF Split, InterfaceMatches, proto, iface
    <2>2. CASE Join
      BY <2>2 DEF Join, InterfaceMatches, proto, iface
    <2>3. CASE \E h \in Hosts : Step(h)
      BY <2>3, InterfaceStep
    <2>4. CASE UNCHANGED vars
      BY <2>4 DEF vars, InterfaceMatches
    <2> QED  BY <2>1, <2>2, <2>3, <2>4 DEF Next
  <1> QED  BY <1>1, <1>2, TypeCorrect, PTL DEF Spec

\* A configured address goes away only in DEFEND, or as zcip exits: one claim
\* of another host is never enough.
THEOREM DefendsBeforeGivingUp == Spec => GivesUpOnlyDefending
  <1>1. TypeOK /\ [Next]_vars => [GivesUpDefending]_vars
    <2> SUFFICES ASSUME TypeOK, Next, NEW g \in Hosts, NEW a \in ifaddr[g] \ ifaddr'[g]
                 PROVE  a = nip[g] /\ (state[g] = "DEFEND" \/ state'[g] = "EXIT")
      BY DEF vars, GivesUpDefending
    <2>1. PICK h \in Hosts : Step(h)
      BY DEF Next, Split, Join, iface
    <2>2. g = h
      BY <2>1, OtherHost
    <2>3. \/ ScriptDone(h) \/ GiveUp(h) \/ LinkDown(h)
      BY <2>1, <2>2 DEF Step, ReadPacket, SendProbe, SendAnnounce, StartScript, DefendOver,
                        Ignore, PickAnother, Defend, SyscallFails, Use, iface
    <2>4. ~ScriptDone(h)
      BY <2>2 DEF ScriptDone, TypeOK
    <2>5. CASE GiveUp(h)
      BY <2>2, <2>5, DeconfigIs DEF GiveUp
    <2>6. CASE LinkDown(h)
      BY <2>2, <2>6, DeconfigIs DEF LinkDown, Leave, TypeOK, iface
    <2> QED  BY <2>3, <2>4, <2>5, <2>6
  <1> QED  BY <1>1, TypeCorrect, PTL DEF Spec, GivesUpOnlyDefending
-----------------------------------------------------------------------------
\* A link that never fell apart holds.
Whole == splits = 0 => linked = TRUE

\* While g's script runs, lag only grows.
LEMMA LagGrows ==
  ASSUME TypeOK, NEW h \in Hosts, Step(h), NEW g \in Hosts, NEW x \in Hosts,
         state[g] = "SCRIPT", state'[g] = "SCRIPT"
  PROVE  lag[g][x] <= lag'[g][x]
  <1> lag[g][x] \in Nat
    BY ZcipAssumption DEF TypeOK
  <1>1. CASE Passes(h)
    BY <1>1, ZcipAssumption, SMTT(30) DEF TypeOK, Passes
  <1>2. CASE ScriptDone(h)
    <2> g # h
      BY <1>2 DEF ScriptDone, TypeOK
    <2> QED  BY <1>2 DEF ScriptDone, TypeOK
  <1>3. CASE UNCHANGED lag
    BY <1>3
  <1> QED  BY <1>1, <1>2, <1>3
           DEF Step, ReadPacket, SendProbe, SendAnnounce, StartScript, DefendOver, TimedOut,
               Ignore, PickAnother, Defend, GiveUp, LinkDown, SyscallFails, Leave, Use

\* Another host that is doomed stays so: packets leave a socket only when its
\* host reads them.
LEMMA DoomedStays ==
  ASSUME TypeOK, NEW h \in Hosts, Step(h), NEW g \in Hosts, g # h,
         NEW a \in Addrs, Doomed(g, a)
  PROVE  Doomed(g, a)'
  <1>1. PICK i \in 1..Len(rx[g]) : Conflict(g, rx[g][i])
    BY DEF Doomed
  <1>2. rx[g] \in Seq(Packets)
    BY DEF TypeOK
  <1>3. i \in 1..Len(rx'[g]) /\ rx'[g][i] = rx[g][i]
    BY <1>2, OtherHost
  <1> QED  BY <1>1, <1>3, OtherHost
           DEF Doomed, Conflict, SrcConflict, TargetConflict

\* Whoever hears a claim to the address it is itself claiming is doomed.
LEMMA HearsClaim ==
  ASSUME TypeOK, NEW h \in Hosts, NEW g \in Hosts, g # h, linked = TRUE,
         NEW p \in {Probe(nip[h]), Announce(nip[h])}, NEW q, Broadcast(h, p, q),
         nip[g] = nip[h], state[g] \in {"PROBE", "ANNOUNCE"}, nip[g] \notin ifaddr'[g],
         state'[g] = state[g], nip'[g] = nip[g]
  PROVE  Doomed(g, nip[g])'
  <1>1. rx[g] \in Seq(Packets) /\ p \in Packets
    BY PacketTypes DEF TypeOK
  <1>2. rx'[g] = Append(rx[g], p)
    BY DEF Broadcast, Hears
  <1>3. Len(rx[g]) + 1 \in 1..Len(rx'[g]) /\ rx'[g][Len(rx[g]) + 1] = p
    BY <1>1, <1>2
  <1>4. p.spa = nip[g] \/ (p.spa = NoAddr /\ p.tpa = nip[g])
    BY DEF Probe, Announce
  <1> QED  BY <1>3, <1>4 DEF Doomed, Conflict, SrcConflict, TargetConflict

\* A host that already has a is neither doomed nor behind in its claim to it.
LEMMA HolderStands ==
  ASSUME NEW h \in Hosts, NEW g \in Hosts, NEW a \in Addrs,
         a \in ifaddr[h] \/ nip[h] # a \/ state[h] \notin {"PROBE", "ANNOUNCE"}
  PROVE  ~Doomed(h, a) /\ ~Behind(h, g, a)
  BY DEF Doomed, Behind

\* h still holds what it held: whoever is behind it stays behind it.
LEMMA BehindHolder ==
  ASSUME TypeOK, NEW h \in Hosts, Step(h), NEW g \in Hosts, g # h, NEW a \in Addrs,
         Behind(g, h, a), a \in ifaddr'[h]
  PROVE  Behind(g, h, a)'
  <1>1. /\ state'[g] = state[g] /\ nip'[g] = nip[g] /\ nsent'[g] = nsent[g]
        /\ ifaddr'[g] = ifaddr[g]
    BY OtherHost
  <1>2. nsent[g] <= ScriptLag
    <2>1. lag[h][g] \in 0..ScriptLag /\ nsent[g] \in Nat
      BY DEF TypeOK
    <2> QED  BY <2>1, ZcipAssumption DEF Behind
  <1> QED  BY <1>1, <1>2 DEF Behind

\* A step of h keeps the invariant for h, any other host g and any address.
LEMMA ClaimStep ==
  ASSUME ScriptLag < PROBE_NUM, TypeOK, OneClaimSurvives, Whole, splits = 0,
         NEW h \in Hosts, Step(h), NEW g \in Hosts, g # h, NEW a \in Addrs,
         Claims(g, a)', Claims(h, a)'
  PROVE  Doomed(g, a)' \/ Doomed(h, a)' \/ Behind(g, h, a)' \/ Behind(h, g, a)'
  <1>1. /\ state'[g] = state[g] /\ nip'[g] = nip[g] /\ nsent'[g] = nsent[g]
        /\ ifaddr'[g] = ifaddr[g] /\ Claims(g, a)
    BY OtherHost DEF Claims
  <1>2. Doomed(g, a) => Doomed(g, a)'
    BY DoomedStays
  <1>3. Claims(h, a)
          => Doomed(g, a) \/ Doomed(h, a) \/ Behind(g, h, a) \/ Behind(h, g, a)
    BY <1>1 DEF OneClaimSurvives
  <1>4. rx[h] = << >> => ~Doomed(h, a)
    BY DEF Doomed
  <1>5. Behind(h, g, a) => nsent[h] <= ScriptLag
    <2>1. lag[g][h] \in 0..ScriptLag /\ nsent[h] \in Nat
      BY DEF TypeOK
    <2> QED  BY <2>1, ZcipAssumption DEF Behind
  <1>6. CASE a \in ifaddr[h] /\ a \in ifaddr'[h]
    <2>1. ~Doomed(h, a) /\ ~Behind(h, g, a) /\ Claims(h, a)
      BY <1>6, HolderStands DEF Claims
    <2> QED  BY <1>2, <1>3, <1>6, <2>1, BehindHolder
  <1>7. CASE a \notin ifaddr[h] /\ a \in ifaddr'[h]
    <2>1. ScriptDone(h)
      <3>1. ~(UNCHANGED ifaddr) /\ ~Deconfig(h)
        BY <1>7, DeconfigIs
      <3> QED  BY <3>1 DEF Step, ReadPacket, SendProbe, SendAnnounce, StartScript, DefendOver,
                           Ignore, PickAnother, Defend, GiveUp, LinkDown, SyscallFails, Use, iface
    <2>2. a = nip[h]
      BY <1>7, <2>1 DEF ScriptDone, TypeOK
    <2>3. Claims(h, a) /\ ~Doomed(h, a) /\ ~Behind(h, g, a)
      BY <2>1, <2>2 DEF ScriptDone, Claims, Doomed, Behind
    <2> QED  BY <1>2, <1>3, <1>7, <2>3, BehindHolder
  <1>8. CASE a \notin ifaddr'[h]
    <2>1. nip'[h] = a /\ (\/ state'[h] = "PROBE" /\ nsent'[h] > 0
                          \/ state'[h] \in {"ANNOUNCE", "SCRIPT"})
      BY <1>8 DEF Claims
    <2>2. ~ScriptDone(h) /\ ~PickAnother(h) /\ ~GiveUp(h) /\ ~LinkDown(h) /\ ~SyscallFails(h)
          /\ ~DefendOver(h) /\ ~Defend(h)
      BY <2>1 DEF ScriptDone, PickAnother, GiveUp, Restart, LinkDown, SyscallFails, Leave,
                  DefendOver, Defend, TypeOK
    <2>3. ifaddr' = ifaddr /\ nip' = nip
      <3>1. \/ SendProbe(h) \/ SendAnnounce(h) \/ StartScript(h) \/ Ignore(h)
            \/ \E x \in Addrs : Use(h, x)
        BY <2>2 DEF Step, ReadPacket
      <3> QED  BY <3>1 DEF SendProbe, SendAnnounce, StartScript, Ignore, Use, iface, proto
    <2>4. a \notin ifaddr[h] /\ nip[h] = a
      BY <1>8, <2>1, <2>3
    <2>5. CASE SendProbe(h)
      <3>1. state'[h] = "PROBE" /\ state[h] = "PROBE" /\ nsent'[h] = nsent[h] + 1
            /\ nsent[h] \in Nat /\ rx[h] = << >>
        BY <2>5 DEF SendProbe, TimedOut, TypeOK
      <3>2. CASE a \in ifaddr[g]
        <4>1. Answers(h, nip[h]) = << [spa |-> a, tpa |-> NoAddr] >>
          BY <2>4, <3>2 DEF Answers, Whole
        <4>2. rx'[h] = << [spa |-> a, tpa |-> NoAddr] >>
          BY <2>5, <4>1 DEF SendProbe, Broadcast, TypeOK
        <4>3. 1 \in 1..Len(rx'[h]) /\ rx'[h][1].spa = a
          BY <4>2
        <4>4. Doomed(h, a)'
          BY <1>8, <2>1, <3>1, <4>3 DEF Doomed, Conflict, SrcConflict
        <4> QED  BY <4>4
      <3>3. CASE a \notin ifaddr[g] /\ state[g] \in {"PROBE", "ANNOUNCE"}
        <4>1. nip[g] = a
          BY <1>1, <3>3 DEF Claims
        <4> QED  BY <1>1, <2>4, <2>5, <3>3, <4>1, HearsClaim DEF SendProbe, Whole
      <3>4. CASE a \notin ifaddr[g] /\ state[g] = "SCRIPT"
        <4>1. nip[g] = a
          BY <1>1, <3>4 DEF Claims
        <4>2. nsent[h] <= lag[g][h]
          <5>1. CASE nsent[h] = 0
            <6>1. lag[g][h] \in 0..ScriptLag
              BY DEF TypeOK
            <6> QED  BY <5>1, <6>1, ZcipAssumption
          <5>2. CASE nsent[h] > 0
            <6>1. Claims(h, a) /\ ~Doomed(g, a) /\ ~Doomed(h, a) /\ ~Behind(g, h, a)
              BY <1>4, <2>4, <3>1, <3>4, <5>2 DEF Claims, Doomed, Behind
            <6> QED  BY <1>3, <3>4, <6>1 DEF Behind
          <5> QED  BY <3>1, <5>1, <5>2
        <4>3. lag'[g][h] = lag[g][h] + 1 /\ lag[g][h] \in Nat
          BY <2>5, <3>4, ZcipAssumption DEF SendProbe, TimedOut, Passes, TypeOK
        <4> QED  BY <1>1, <1>8, <2>1, <3>1, <3>4, <4>1, <4>2, <4>3 DEF Behind
      <3> QED  BY <1>1, <3>2, <3>3, <3>4 DEF Claims
    <2>6. CASE SendAnnounce(h)
      <3>1. Claims(h, a) /\ ~Doomed(h, a) /\ ~Behind(h, g, a)
        <4>1. ~Doomed(h, a)
          BY <1>4, <2>6 DEF SendAnnounce, TimedOut
        <4>2. CASE state[h] = "PROBE" /\ nsent[h] = PROBE_NUM
          BY <1>5, <2>4, <4>1, <4>2, ZcipAssumption DEF Claims
        <4>3. CASE state[h] = "ANNOUNCE"
          BY <2>4, <4>1, <4>3 DEF Claims, Behind
        <4> QED  BY <2>6, <4>2, <4>3 DEF SendAnnounce
      <3>2. ~Behind(g, h, a)
        BY <2>4, <2>6 DEF SendAnnounce, Behind
      <3> QED  BY <1>2, <1>3, <3>1, <3>2
    <2>7. CASE StartScript(h)
      <3>1. Claims(h, a) /\ ~Doomed(h, a) /\ ~Behind(h, g, a) /\ ~Behind(g, h, a)
        BY <1>4, <2>4, <2>7 DEF StartScript, TimedOut, Claims, Behind
      <3> QED  BY <1>2, <1>3, <3>1
    <2>8. CASE Ignore(h) /\ rx[h] # << >>
      <3>1. /\ UNCHANGED <<state, nip, nsent, ifaddr, lag>>
            /\ rx[h] \in Seq(Packets) /\ rx'[h] = Tail(rx[h])
        BY <2>8 DEF Ignore, proto, iface, TypeOK
      <3>2. Doomed(h, a) => Doomed(h, a)'
        <4> SUFFICES ASSUME Doomed(h, a) PROVE Doomed(h, a)'
          OBVIOUS
        <4>1. PICK i \in 1..Len(rx[h]) : Conflict(h, rx[h][i])
          BY DEF Doomed
        <4>2. i # 1
          BY <2>8, <3>1, <4>1 DEF Ignore
        <4>3. i - 1 \in 1..Len(rx'[h]) /\ rx'[h][i - 1] = rx[h][i]
          BY <3>1, <4>1, <4>2, <2>8
        <4> QED  BY <3>1, <4>1, <4>3 DEF Doomed, Conflict, SrcConflict, TargetConflict
      <3>3. /\ Claims(h, a) /\ (Behind(g, h, a) => Behind(g, h, a)')
            /\ Behind(h, g, a) => Behind(h, g, a)'
        BY <3>1 DEF Claims, Behind
      <3> QED  BY <1>2, <1>3, <3>2, <3>3
    <2>9. CASE \E x \in Addrs : Use(h, x)
      <3>1. UNCHANGED <<state, nip, nsent, ifaddr, lag>> /\ rx'[h] = rx[h]
        BY <2>9 DEF Use, proto, iface, Broadcast, TypeOK
      <3>2. /\ Claims(h, a) /\ (Behind(g, h, a) => Behind(g, h, a)')
            /\ Behind(h, g, a) => Behind(h, g, a)'
        BY <3>1 DEF Claims, Behind
      <3>3. Doomed(h, a) => Doomed(h, a)'
        BY <3>1 DEF Doomed, Conflict, SrcConflict, TargetConflict
      <3> QED  BY <1>2, <1>3, <3>2, <3>3
    <2> QED  BY <2>2, <2>5, <2>6, <2>7, <2>8, <2>9 DEF Step, ReadPacket
  <1> QED  BY <1>6, <1>7, <1>8

\* Two hosts that do not move keep the invariant too.
LEMMA ClaimBystanders ==
  ASSUME TypeOK, OneClaimSurvives, splits = 0, NEW h \in Hosts, Step(h),
         NEW f \in Hosts, NEW g \in Hosts, f # g, f # h, g # h, NEW a \in Addrs,
         Claims(f, a)', Claims(g, a)'
  PROVE  Doomed(f, a)' \/ Doomed(g, a)' \/ Behind(f, g, a)' \/ Behind(g, f, a)'
  <1>1. /\ state'[f] = state[f] /\ nip'[f] = nip[f] /\ nsent'[f] = nsent[f]
        /\ state'[g] = state[g] /\ nip'[g] = nip[g] /\ nsent'[g] = nsent[g]
        /\ ifaddr'[f] = ifaddr[f] /\ ifaddr'[g] = ifaddr[g]
    BY OtherHost
  <1>2. Doomed(f, a) \/ Doomed(g, a) \/ Behind(f, g, a) \/ Behind(g, f, a)
    BY <1>1 DEF OneClaimSurvives, Claims
  <1>3. ASSUME NEW x \in {f, g}, NEW y \in {f, g}, Behind(x, y, a)
        PROVE  Behind(x, y, a)'
    <2>1. state[y] = "SCRIPT" => lag[y][x] <= lag'[y][x]
      BY <1>1, LagGrows
    <2>2. lag[y][x] \in Nat /\ nsent[x] \in Nat
      BY ZcipAssumption, SMTT(30) DEF TypeOK
    <2>3. TypeOK'
      BY TypeStep
    <2>4. lag'[y][x] \in Nat
      <3>1. lag' \in [Hosts -> [Hosts -> 0..ScriptLag]] /\ x \in Hosts /\ y \in Hosts
        BY <2>3 DEF TypeOK
      <3>2. lag'[y][x] \in 0..ScriptLag
        BY <3>1
      <3> QED  BY <3>2, ZcipAssumption
    <2> QED  BY <1>1, <1>3, <2>1, <2>2, <2>4 DEF Behind
  <1> QED  BY <1>2, <1>3, DoomedStays

\* The invariant behind AddressUnique, as long as the link holds and a script
\* takes less time than another host's PROBE_NUM probes.
THEOREM ClaimsCorrect ==
  ASSUME ScriptLag < PROBE_NUM
  PROVE  Spec => [](Whole /\ OneClaimSurvives)
  <1>1. Init => Whole /\ OneClaimSurvives
    <2> SUFFICES ASSUME Init PROVE Whole /\ \A h \in Hosts, a \in Addrs : ~Claims(h, a)
      BY DEF OneClaimSurvives
    <2> QED  BY ZcipAssumption DEF Init, Whole, Claims
  <1>2. TypeOK /\ Whole /\ OneClaimSurvives /\ [Next]_vars => (Whole /\ OneClaimSurvives)'
    <2> SUFFICES ASSUME TypeOK, Whole, OneClaimSurvives, [Next]_vars
                 PROVE  (Whole /\ OneClaimSurvives)'
      OBVIOUS
    <2>1. CASE Split
      BY <2>1 DEF Split, Whole, OneClaimSurvives, TypeOK
    <2>2. CASE Join
      <3>1. splits # 0 /\ splits' = splits /\ linked' = TRUE
        BY <2>2 DEF Join, Whole
      <3> QED  BY <3>1 DEF Whole, OneClaimSurvives
    <2>3. ASSUME NEW h \in Hosts, Step(h)
          PROVE  (Whole /\ OneClaimSurvives)'
      <3>1. UNCHANGED <<linked, splits>>
        BY <2>3 DEF Step, ReadPacket, SendProbe, SendAnnounce, StartScript, ScriptDone,
                    DefendOver, Ignore, PickAnother, Defend, GiveUp, LinkDown, SyscallFails,
                    Leave, Use, env
      <3>2. ASSUME splits = 0, NEW f \in Hosts, NEW g \in Hosts, NEW a \in Addrs, f # g,
                   Claims(f, a)', Claims(g, a)'
            PROVE  Doomed(f, a)' \/ Doomed(g, a)' \/ Behind(f, g, a)' \/ Behind(g, f, a)'
        <4>1. CASE f = h
          BY <2>3, <3>2, <4>1, ClaimStep
        <4>2. CASE g = h
          BY <2>3, <3>2, <4>2, ClaimStep
        <4>3. CASE f # h /\ g # h
          BY <2>3, <3>2, <4>3, ClaimBystanders
        <4> QED  BY <4>1, <4>2, <4>3
      <3> QED  BY <3>1, <3>2 DEF Whole, OneClaimSurvives
    <2>4. CASE UNCHANGED vars
      BY <2>4 DEF vars, Whole, OneClaimSurvives, Claims, Doomed, Behind, Conflict,
                  SrcConflict, TargetConflict
    <2> QED  BY <2>1, <2>2, <2>3, <2>4 DEF Next
  <1> QED  BY <1>1, <1>2, TypeCorrect, PTL DEF Spec

\* No two interfaces are configured with one address, for any number of hosts:
\* zcip's probes, announcements and conflict rules suffice, whatever its scripts
\* return, provided the link holds and a script is shorter than another host's
\* probing.
THEOREM UniqueAddresses ==
  ASSUME ScriptLag < PROBE_NUM
  PROVE  Spec => []AddressUnique
  <1>1. TypeOK /\ OneClaimSurvives => AddressUnique
    <2> SUFFICES ASSUME TypeOK, OneClaimSurvives, splits = 0,
                        NEW g \in Hosts, NEW h \in Hosts, g # h,
                        NEW a \in ifaddr[g] \cap ifaddr[h]
                 PROVE  FALSE
      BY DEF AddressUnique
    <2>1. a \in Addrs
      BY DEF TypeOK
    <2>2. ~Doomed(g, a) /\ ~Doomed(h, a) /\ ~Behind(g, h, a) /\ ~Behind(h, g, a)
      BY <2>1, HolderStands
    <2> QED  BY <2>1, <2>2 DEF OneClaimSurvives, Claims
  <1> QED  BY <1>1, TypeCorrect, ClaimsCorrect, PTL
=============================================================================
