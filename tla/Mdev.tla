-------------------------------- MODULE Mdev --------------------------------
(***************************************************************************)
(* util-linux/mdev.c as the kernel's hotplug helper: the kernel starts one *)
(* mdev per event and serializes nothing.  Each waits until /dev/mdev.seq  *)
(* holds its SEQNUM (wait_for_seqfile), creates or removes the device's    *)
(* nodes (make_device), writes SEQNUM + 1 and wakes the others up.  One    *)
(* more mdev may run with -s and create the nodes of all devices.          *)
(*                                                                         *)
(* A device number is a positive integer.  What the patterns of a rule     *)
(* match is given by the set of devices.                                   *)
(***************************************************************************)
EXTENDS Integers, Sequences, FiniteSets

CONSTANTS
  Devs,       \* device names
  Nums,       \* device numbers
  Aliases,    \* the names that rules give to nodes
  Confs,      \* what /etc/mdev.conf may be: sequences of rules
  Seeds,      \* what /dev/mdev.seq may be at first: Absent, Seed, a number
  FirstSeq,   \* the first event's SEQNUM
  MaxEvents,  \* bound: events
  Tries,      \* how often 32 ms are waited: 62
  Scans,      \* whether mdev -s runs
  Faults      \* what may happen: "timeout", "kill"

\* A rule: the devices or the numbers it matches; how the node is named, after
\* the device, "=to" or ">to", or "!": not made; whether rules after it count.
Rule == [devs : SUBSET Devs, maj : SUBSET Nums, ren : {"", "=", ">", "!"},
         to : Aliases \cup {""}, keep : BOOLEAN]

Absent == -1   \* there is no /dev/mdev.seq
Seed == 0      \* it is empty, or one newline
NoDev == "none"

\* A number that an unsigned holds has ten digits at most.
Power(k) == 10^k
HasDigits(n, k) == Power(k - 1) <= n /\ n < Power(k)
Number == {n \in Nat : \E k \in 1..10 : HasDigits(n, k)}

ASSUME MdevAssumption ==
  /\ Nums \subseteq Nat \ {0} /\ FirstSeq \in Nat \ {0} /\ MaxEvents \in Nat
  /\ Tries \in Nat \ {0} /\ Scans \in BOOLEAN /\ Faults \subseteq {"timeout", "kill"}
  /\ Confs \subseteq Seq(Rule) /\ NoDev \notin Devs
  /\ \A c \in Confs : \A k \in 1..Len(c) : c[k].ren \in {"=", ">"} => c[k].to \in Aliases
  /\ FirstSeq..(FirstSeq + MaxEvents) \subseteq Number
  /\ Seeds \subseteq {Absent, Seed} \cup Number

None == 0      \* no node, no device
Link == -1     \* a symbolic link

Seqs == FirstSeq..(FirstSeq + MaxEvents - 1)
Names == Devs \cup Aliases

VARIABLES
  sys,      \* the number a device has in /sys, None if it is not there
  seqnum,   \* the SEQNUM of the next event
  mdev,     \* the mdev started for an event
  conf,     \* /etc/mdev.conf
  scan,     \* mdev -s: the devices still to visit, and the one it is at
  seqfile,  \* /dev/mdev.seq
  chld,     \* the mdevs for which a SIGCHLD is pending
  nodes,    \* /dev
  ordered,  \* no event overtook another since all mdevs were done
  trust     \* "fresh": there before mdev; "unsure": raced or lost an event

kernel == <<sys, seqnum>>
vars == <<kernel, mdev, conf, scan, seqfile, chld, nodes, ordered, trust>>

NotStarted == [pc |-> "none", op |-> "change", dev |-> NoDev, timeout |-> Tries,
               fd |-> FALSE, major |-> -1, rule |-> 1]
Idle == [todo |-> {}, dev |-> NoDev, major |-> -1, rule |-> 1]

Alive == {n \in Seqs : mdev[n].pc \notin {"none", "done"}}
\* In wait_for_seqfile(), where SIGCHLD is blocked; elsewhere it is ignored.
Waiting == {n \in Seqs : mdev[n].pc \in {"read", "seed", "wait"}}
Working(n) == mdev[n].pc \in {"open", "rules", "exit"}
\* Who works or waits to work on a device.
Users(d) == Cardinality({n \in Alive : mdev[n].dev = d}) + (IF scan.dev = d THEN 1 ELSE 0)

Init ==
  /\ sys \in [Devs -> {None} \cup Nums] /\ seqnum = FirstSeq
  /\ mdev = [n \in Seqs |-> NotStarted] /\ conf \in Confs
  /\ scan = [Idle EXCEPT !.todo = IF Scans THEN Devs ELSE {}]
  /\ seqfile \in Seeds /\ chld = {}
  /\ nodes = [x \in Names |-> None]
  /\ ordered = TRUE
  /\ trust = [d \in Devs |-> IF sys[d] = None THEN "sure" ELSE "fresh"]

\* D are devices whose nodes can no longer be relied on.
Distrust(D) == trust' = [d \in Devs |-> IF d \in D THEN "unsure" ELSE trust[d]]

\* Mutant of GoesOn: a signal stays pending.
GoesOn_Pending(n, fd) ==
  /\ mdev' = [mdev EXCEPT ![n].pc = "open", ![n].fd = fd, ![n].timeout = Tries]
  /\ UNCHANGED <<chld, conf>>

\* wait_for_seqfile() returns: SIGCHLD is unblocked, and ignored if pending.
GoesOn(n, fd) ==
  /\ mdev' = [mdev EXCEPT ![n].pc = "open", ![n].fd = fd, ![n].timeout = Tries]
  /\ chld' = chld \ {n}
  /\ UNCHANGED conf

Step(n, upd) == mdev' = [mdev EXCEPT ![n] = upd] /\ UNCHANGED conf

-----------------------------------------------------------------------------
(* The kernel.                                                             *)
\* Whether the mdevs still take turns when one starts for the next event: one
\* that is alone always does, others only if the file has a number.
StaysOrdered ==
  IF Alive = {} THEN seqfile <= seqnum ELSE ordered /\ seqfile > 0

Event(op, d) ==
  /\ seqnum \in Seqs
  /\ seqnum' = seqnum + 1
  /\ Step(seqnum, [NotStarted EXCEPT !.pc = "read", !.op = op, !.dev = d])
  /\ ordered' = StaysOrdered
  /\ Distrust(IF Users(d) > 0 /\ (~ordered' \/ scan.dev = d) THEN {d} ELSE {})
  /\ UNCHANGED <<scan, seqfile, chld, nodes>>

Plug(d, num) ==
  /\ sys[d] = None
  /\ sys' = [sys EXCEPT ![d] = num]
  /\ Event("add", d)

Unplug(d) ==
  /\ sys[d] # None
  /\ sys' = [sys EXCEPT ![d] = None]
  /\ Event("remove", d)

\* Also "remove" with $FIRMWARE, which mdev ignores.
Change(d) ==
  /\ sys[d] # None /\ UNCHANGED sys
  /\ Event("change", d)

-----------------------------------------------------------------------------
(* wait_for_seqfile()                                                      *)
\* The file cannot be opened: go on, and do not write it at the end.
NoSeqfile(n) ==
  /\ mdev[n].pc = "read" /\ seqfile = Absent
  /\ GoesOn(n, FALSE)
  /\ UNCHANGED <<kernel, scan, seqfile, nodes, ordered, trust>>

SeesSeed(n) ==
  /\ mdev[n].pc = "read" /\ seqfile = Seed
  /\ Step(n, [mdev[n] EXCEPT !.pc = "seed"])
  /\ UNCHANGED <<kernel, scan, seqfile, chld, nodes, ordered, trust>>

\* utoa(n) is written over what is there, which is not truncated.
Digits(n) == CHOOSE k \in 1..10 : HasDigits(n, k)
Overwrite(n) ==
  IF seqfile = Seed \/ Digits(n) >= Digits(seqfile) THEN n
  ELSE LET rest == Digits(seqfile) - Digits(n)
       IN (n * Power(rest)) + (seqfile % Power(rest))

WritesSeed(n) ==
  /\ mdev[n].pc = "seed"
  /\ seqfile' = Overwrite(n)
  /\ GoesOn(n, TRUE)
  /\ UNCHANGED <<kernel, scan, nodes, ordered, trust>>

\* Mutant of SeesTurn: it also goes ahead of the event before it.
SeesTurn_Next(n) ==
  /\ mdev[n].pc = "read" /\ seqfile \in {n - 1, n}
  /\ GoesOn(n, TRUE)
  /\ UNCHANGED <<kernel, scan, seqfile, nodes, ordered, trust>>

SeesTurn(n) ==
  /\ mdev[n].pc = "read" /\ seqfile = n
  /\ GoesOn(n, TRUE)
  /\ UNCHANGED <<kernel, scan, seqfile, nodes, ordered, trust>>

\* "a later mdev runs already"; "do not overwrite seqfile on exit"
SeesLater(n) ==
  /\ mdev[n].pc = "read" /\ seqfile > n
  /\ GoesOn(n, FALSE)
  /\ UNCHANGED <<kernel, scan, seqfile, nodes, ordered, trust>>

SeesEarlier(n) ==
  /\ mdev[n].pc = "read" /\ seqfile \in 1..(n - 1)
  /\ Step(n, [mdev[n] EXCEPT !.pc = "wait"])
  /\ UNCHANGED <<kernel, scan, seqfile, chld, nodes, ordered, trust>>

\* sigtimedwait() returns a signal, or 32 ms pass.
Woken(n) ==
  /\ mdev[n].pc = "wait" /\ n \in chld
  /\ chld' = chld \ {n}
  /\ Step(n, [mdev[n] EXCEPT !.pc = "read"])
  /\ UNCHANGED <<kernel, scan, seqfile, nodes, ordered, trust>>

\* Mutant of TimesOut: timeout is not counted down.
TimesOut_Forever(n) ==
  /\ "timeout" \in Faults
  /\ mdev[n].pc = "wait" /\ n \notin chld
  /\ Step(n, [mdev[n] EXCEPT !.pc = "read"])
  /\ UNCHANGED <<kernel, scan, seqfile, chld, nodes, ordered, trust>>

\* At the last timeout the mdev goes on, out of its turn.
TimesOut(n) ==
  /\ "timeout" \in Faults
  /\ mdev[n].pc = "wait" /\ n \notin chld
  /\ \/ /\ mdev[n].timeout > 1
        /\ Step(n, [mdev[n] EXCEPT !.pc = "read", !.timeout = @ - 1])
        /\ UNCHANGED <<chld, ordered, trust>>
     \/ /\ mdev[n].timeout = 1
        /\ GoesOn(n, TRUE)
        /\ ordered' = FALSE
        /\ Distrust({d \in Devs : Users(d) > 1})
  /\ UNCHANGED <<kernel, scan, seqfile, nodes>>

-----------------------------------------------------------------------------
(* make_device()                                                           *)
\* For "add" the number is read from /sys, and may be gone by now; without
\* FEATURE_MDEV_EXEC that is the end.
OpensDev(n) ==
  /\ mdev[n].pc = "open"
  /\ LET d == mdev[n].dev
     IN Step(n, CASE mdev[n].op # "add" -> [mdev[n] EXCEPT !.pc = "rules"]
                  [] mdev[n].op = "add" /\ sys[d] = None -> [mdev[n] EXCEPT !.pc = "exit"]
                  [] OTHER -> [mdev[n] EXCEPT !.pc = "rules", !.major = sys[d]])
  /\ UNCHANGED <<kernel, scan, seqfile, chld, nodes, ordered, trust>>

\* The implicit last rule matches everything.
Default == [devs |-> Devs, maj |-> {}, ren |-> "", to |-> "", keep |-> FALSE]
AllRules == Append(conf, Default)

Matches(r, d, major) == IF r.maj # {} THEN major \in r.maj ELSE d \in r.devs

\* The index of the rule that next_rule() and the tests after it arrive at.
NextMatch(k, d, major) ==
  CHOOSE j \in k..Len(AllRules) :
    /\ Matches(AllRules[j], d, major)
    /\ \A i \in k..(j - 1) : ~Matches(AllRules[i], d, major)

NodeName(r, d) == IF r.ren \in {"=", ">"} THEN r.to ELSE d
\* "!" suppresses creation and deletion, by later rules too.
Major(r, major) == IF r.ren = "!" THEN -2 ELSE major

\* mknod() and symlink() do not replace what is there.
MakeNode(r, d, major) ==
  LET made == IF nodes[NodeName(r, d)] # None THEN nodes
              ELSE [nodes EXCEPT ![NodeName(r, d)] = major]
  IN IF r.ren = ">" /\ made[d] = None THEN [made EXCEPT ![d] = Link] ELSE made

\* Mutant of RemoveNode: the link is left.
RemoveNode_Link(r, d) == [nodes EXCEPT ![NodeName(r, d)] = None]
RemoveNode(r, d) ==
  [x \in Names |-> IF x = NodeName(r, d) \/ (r.ren = ">" /\ x = d) THEN None ELSE nodes[x]]

\* One matching rule; the next one too if this one starts with "-".
AppliesRule(n) ==
  /\ mdev[n].pc = "rules"
  /\ LET d == mdev[n].dev
         k == NextMatch(mdev[n].rule, d, mdev[n].major)
         r == AllRules[k]
         major == Major(r, mdev[n].major)
     IN /\ nodes' = CASE mdev[n].op = "add" /\ major >= 0 -> MakeNode(r, d, major)
                      [] mdev[n].op = "remove" /\ major >= -1 -> RemoveNode(r, d)
                      [] OTHER -> nodes
        /\ Step(n, IF r.keep THEN [mdev[n] EXCEPT !.rule = k + 1, !.major = major]
                             ELSE [mdev[n] EXCEPT !.pc = "exit"])
  /\ UNCHANGED <<kernel, scan, seqfile, chld, ordered, trust>>

Done(n) == [NotStarted EXCEPT !.pc = "done"]

\* The end of process_action(): give the turn to the next, if the file is
\* there and was not ahead.
Exits(n) ==
  /\ mdev[n].pc = "exit"
  /\ IF mdev[n].fd
     THEN seqfile' = Overwrite(n + 1) /\ Step(n, [mdev[n] EXCEPT !.pc = "signal"])
     ELSE UNCHANGED seqfile /\ Step(n, Done(n))
  /\ UNCHANGED <<kernel, scan, chld, nodes, ordered, trust>>

\* signal_mdevs(): all other mdevs.
SignalsMdevs(n) ==
  /\ mdev[n].pc = "signal"
  /\ chld' = Waiting
  /\ Step(n, Done(n))
  /\ UNCHANGED <<kernel, scan, seqfile, nodes, ordered, trust>>

\* The process is killed, by the OOM killer for example.
Killed(n) ==
  /\ "kill" \in Faults /\ n \in Alive
  /\ Step(n, Done(n))
  /\ chld' = chld \ {n}
  /\ Distrust({mdev[n].dev})
  /\ UNCHANGED <<kernel, scan, seqfile, nodes, ordered>>

-----------------------------------------------------------------------------
(* mdev -s                                                                 *)
\* recursive_action() comes to a device and reads its number; a device that
\* is not there has no /dev entry in /sys.
ScanOpens(d) ==
  /\ scan.dev = NoDev /\ d \in scan.todo
  /\ scan' = [Idle EXCEPT !.todo = scan.todo \ {d}, !.dev = IF sys[d] = None THEN NoDev ELSE d,
                          !.major = sys[d]]
  /\ Distrust(IF sys[d] # None /\ Users(d) > 0 THEN {d} ELSE {})
  /\ UNCHANGED <<kernel, mdev, conf, seqfile, chld, nodes, ordered>>

\* The device is done with: its nodes are as if "add" had come.
ScanLeaves(d) == trust' = [trust EXCEPT ![d] = IF @ = "fresh" THEN "sure" ELSE @]

ScanAppliesRule ==
  /\ scan.dev # NoDev
  /\ LET d == scan.dev
         k == NextMatch(scan.rule, d, scan.major)
         r == AllRules[k]
         major == Major(r, scan.major)
     IN /\ nodes' = IF major >= 0 THEN MakeNode(r, d, major) ELSE nodes
        /\ IF r.keep
           THEN scan' = [scan EXCEPT !.rule = k + 1, !.major = major] /\ UNCHANGED trust
           ELSE scan' = [Idle EXCEPT !.todo = scan.todo] /\ ScanLeaves(d)
  /\ UNCHANGED <<kernel, mdev, conf, seqfile, chld, ordered>>

-----------------------------------------------------------------------------
Mdev(n) ==
  \/ NoSeqfile(n) \/ SeesSeed(n) \/ WritesSeed(n) \/ SeesTurn(n) \/ SeesLater(n)
  \/ SeesEarlier(n) \/ Woken(n) \/ TimesOut(n)
  \/ OpensDev(n) \/ AppliesRule(n) \/ Exits(n) \/ SignalsMdevs(n)

Next ==
  \/ \E d \in Devs : Unplug(d) \/ Change(d) \/ ScanOpens(d) \/ \E num \in Nums : Plug(d, num)
  \/ \E n \in Seqs : Mdev(n) \/ Killed(n)
  \/ ScanAppliesRule

Spec == Init /\ [][Next]_vars
\* As long as there are mdevs, one of them runs; sigtimedwait() returns.
FairSpec == Spec /\ WF_vars(\E n \in Seqs : Mdev(n))


-----------------------------------------------------------------------------
(* Properties.                                                             *)
TypeOK ==
  /\ sys \in [Devs -> {None} \cup Nums]
  /\ seqnum \in FirstSeq..(FirstSeq + MaxEvents)
  /\ mdev \in [Seqs ->
       [pc : {"none", "read", "seed", "wait", "open", "rules", "exit", "signal", "done"},
        op : {"add", "remove", "change"}, dev : Devs \cup {NoDev}, timeout : 1..Tries,
        fd : BOOLEAN, major : {-2, -1} \cup Nums, rule : 1..Len(AllRules)]]
  /\ scan \in [todo : SUBSET Devs, dev : Devs \cup {NoDev},
               major : {-2, -1, None} \cup Nums, rule : 1..Len(AllRules)]
  /\ seqfile \in {Absent, Seed} \cup Number
  /\ chld \subseteq Waiting
  /\ nodes \in [Names -> {Link, None} \cup Nums]
  /\ ordered \in BOOLEAN
  /\ trust \in [Devs -> {"fresh", "sure", "unsure"}]

\* wait_for_seqfile(): as long as no mdev ran into its timeout, and the file
\* held a number before a second mdev was started, the events are worked on
\* one after the other, in the order of their numbers.  That holds again, after
\* a timeout, from when all mdevs are done.
Serialized ==
  ordered => \A m, n \in Alive : m < n /\ mdev[m].pc # "signal" => ~Working(n)

\* The nodes that rule r makes or removes for d.
NodesOf(r, d) == {NodeName(r, d)} \cup (IF r.ren = ">" THEN {d} ELSE {})

\* The rules that count for d with this number, or with -1, on removal: those
\* that match, as far as "-" goes on and "!" does not end it.
GoesPast(r, d, major) == Matches(r, d, major) => r.keep /\ r.ren # "!"
Applied(d, major) ==
  {j \in 1..Len(AllRules) :
     /\ Matches(AllRules[j], d, major) /\ AllRules[j].ren # "!"
     /\ \A i \in 1..(j - 1) : GoesPast(AllRules[i], d, major)}
NodesFor(d, major) == UNION {NodesOf(AllRules[j], d) : j \in Applied(d, major)}

\* Removal finds what was made, although then the number is not known and rules
\* with numbers do not match; and no two devices have a name in common.
Tidy ==
  \A d \in Devs :
    /\ \A num \in Nums : NodesFor(d, num) \subseteq NodesFor(d, -1)
    /\ \A e \in Devs \ {d} : NodesFor(d, -1) \cap NodesFor(e, -1) = {}

Nodes(d) == {x \in NodesFor(d, -1) : nodes[x] # None}
NodesRight(d) ==
  LET made == IF sys[d] = None THEN {} ELSE NodesFor(d, sys[d])
  IN /\ Nodes(d) = made
     /\ made # {} => {nodes[x] : x \in made} \in {{sys[d]}, {sys[d], Link}}

\* make_device(): once no mdev works on a device, exactly the nodes that its
\* rules name exist, if the device does, with the number it has now, whatever
\* was plugged meanwhile.  Not promised: devices for which an mdev was killed,
\* or two of whose mdevs ran out of turn, devices older than mdev that mdev -s
\* has not visited, and rules that are not Tidy.
NodesMatch ==
  Tidy => \A d \in Devs : Users(d) = 0 /\ trust[d] = "sure" => NodesRight(d)

\* process_action(): every mdev ends, also if others are killed before they
\* write the file.
EveryMdevEnds == (Alive # {}) ~> (Alive = {})

\* The usage text: mdev.seq "prevents plug/unplug races", and is activated by
\* an empty file: without timeouts, the nodes of every device that mdev has
\* seen plugged are right once no mdev works on it.
PlugRacesPrevented ==
  seqfile # Absent =>
    \A d \in Devs : Users(d) = 0 /\ trust[d] # "fresh" => NodesRight(d)
=============================================================================
