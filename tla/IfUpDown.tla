------------------------------ MODULE IfUpDown ------------------------------
(***************************************************************************)
(* networking/ifupdown.c: ifup and ifdown commands that run concurrently.  *)
(* Each brings interfaces up or down, stanza by stanza, and records which  *)
(* are up in the file ifstate: it creates ifstate.new exclusively, reads   *)
(* ifstate, writes the changed lines and renames.  An ifstate.new that     *)
(* stays for 450 ms is taken to be left over, and is taken over.           *)
(*                                                                         *)
(* A line of the file is <<interface, logical name>>, and all lines are    *)
(* equally long.                                                           *)
(***************************************************************************)
EXTENDS Integers, Sequences, FiniteSets

CONSTANTS
  Procs,     \* the processes
  Ifaces,    \* interfaces
  Logicals,  \* names of stanzas in /etc/network/interfaces
  Stanzas,   \* how many stanzas a logical name has
  Maps,      \* what the mapping scripts for an interface may answer
  Commands,  \* the commands that are run
  MaxCmds,   \* bound: commands
  Waits,     \* how often ifstate.new is waited for: 31
  Faults     \* what may happen: "script" fails, "crash"

None == "none"

ASSUME IfUpDownAssumption ==
  /\ Ifaces \subseteq Logicals /\ None \notin Logicals /\ Stanzas \in [Logicals -> Nat]
  /\ Maps \in [Logicals -> SUBSET Logicals]
  /\ Commands \subseteq [up : BOOLEAN, force : BOOLEAN, todo : Seq(Ifaces \X Logicals)]
  /\ \A c \in Commands : c.todo # << >>
  /\ MaxCmds \in Nat /\ Waits \in Nat /\ Faults \subseteq {"script", "crash"}

VARIABLES
  proc,    \* what a process does
  live,    \* the lines of ifstate
  new,     \* ifstate.new: whether it is there, and its lines
  conf,    \* the stanzas an interface is configured with
  cmds,    \* commands started
  want,    \* what the last command on an interface recorded
  robbed,  \* ifstate.new was taken over from a process that still used it
  raced,   \* interfaces with two commands at once, one that did not end, or one
           \* under another name than the one recorded
  failed   \* interfaces with a command that failed

ghosts == <<want, robbed, raced, failed>>
vars == <<proc, live, new, conf, cmds, ghosts>>

NoLine == <<None, None>>
NoFile == [there |-> FALSE, lines |-> << >>]

\* fd: which file the process has open, "new", "live" after another process
\* renamed it, "gone" after that file was replaced too.
Idle == [pc |-> "idle", cmd |-> [up |-> TRUE, force |-> FALSE, todo |-> << >>],
         at |-> NoLine, k |-> 1, failure |-> FALSE, cnt |-> 0, fd |-> None, list |-> << >>]

AllOf(l) == {<<l, k>> : k \in 1..Stanzas[l]}

\* One interface may be up already.
Init ==
  /\ proc = [p \in Procs |-> Idle]
  /\ new = NoFile /\ cmds = 0
  /\ live \in {<< >>} \cup {<< <<i, i>> >> : i \in Ifaces}
  /\ LET up == {live[n][1] : n \in DOMAIN live} IN
       /\ conf = [i \in Ifaces |-> IF i \in up THEN AllOf(i) ELSE {}]
       /\ want = [i \in Ifaces |-> IF i \in up THEN i ELSE None]
  /\ robbed = FALSE /\ raced = {} /\ failed = {}

Step(p, upd) == proc' = [proc EXCEPT ![p] = upd]

\* find_iface_state() returns the first line for the interface.
Lines(list, i) == {n \in 1..Len(list) : list[n][1] = i}
FindIfaceState(list, i) ==
  IF Lines(list, i) = {} THEN 0
  ELSE CHOOSE n \in Lines(list, i) : \A m \in Lines(list, i) : n <= m
Reverse(list) == [n \in 1..Len(list) |-> list[Len(list) + 1 - n]]
\* read_iface_state(): the list comes out in reverse order.
ReadIfaceState == Reverse(live)
\* What the file records for an interface.
Recorded(i) ==
  LET n == FindIfaceState(ReadIfaceState, i) IN IF n = 0 THEN None ELSE ReadIfaceState[n][2]

-----------------------------------------------------------------------------
Start(p, c) ==
  /\ proc[p].pc = "idle" /\ cmds < MaxCmds
  /\ cmds' = cmds + 1
  /\ Step(p, [Idle EXCEPT !.pc = "check", !.cmd = c])
  /\ UNCHANGED <<live, new, conf, ghosts>>

\* The interface is done with; the next one, or the end.
NextTarget(pr) ==
  LET rest == Tail(pr.cmd.todo)
  IN IF rest = << >> THEN Idle
     ELSE [Idle EXCEPT !.pc = "check", !.cmd = [pr.cmd EXCEPT !.todo = rest]]

\* "already configured", "not configured"
Skips(p) ==
  LET c == proc[p].cmd IN ~c.force /\ (Recorded(Head(c.todo)[1]) # None) = c.up

Skip(p) ==
  /\ proc[p].pc = "check" /\ Skips(p)
  /\ Step(p, NextTarget(proc[p]))
  /\ UNCHANGED <<live, new, conf, cmds, ghosts>>

On(i) == {q \in Procs : proc[q].at[1] = i}

\* run_mapping(): what a script answers; without one, the name itself.
Mapped(l) == IF Maps[l] = {} THEN {l} ELSE Maps[l]

\* ifup runs the mapping scripts; ifdown takes the interface's own name,
\* whatever is recorded.
Begin(p) ==
  /\ proc[p].pc = "check" /\ ~Skips(p)
  /\ LET i == Head(proc[p].cmd.todo)[1]
         l == Head(proc[p].cmd.todo)[2]
         names == IF proc[p].cmd.up THEN Mapped(l) ELSE {l}
     IN \E m \in names :
          /\ Step(p, [proc[p] EXCEPT !.pc = "run", !.at = <<i, m>>])
          /\ raced' = raced \cup {j \in {i} : On(i) # {} \/ Recorded(i) \notin {None, m}}
  /\ UNCHANGED <<live, new, conf, cmds, want, robbed, failed>>

\* What iface_up() or iface_down() makes of the next stanza if it succeeds.
Stanza(p) == <<proc[p].at[2], proc[p].k>>
Configured(p) ==
  LET i == proc[p].at[1]
  IN [conf EXCEPT ![i] = IF proc[p].cmd.up THEN @ \cup {Stanza(p)} ELSE @ \ {Stanza(p)}]

\* Mutant of RunStanza: curr_failure is set for the last stanza only.
RunStanza_Last(p) ==
  /\ proc[p].pc = "run" /\ proc[p].k <= Stanzas[proc[p].at[2]]
  /\ \/ /\ conf' = Configured(p)
        /\ Step(p, [proc[p] EXCEPT !.k = @ + 1, !.failure = FALSE])
        /\ UNCHANGED failed
     \/ /\ "script" \in Faults
        /\ conf' \in {conf, Configured(p)}
        /\ Step(p, [proc[p] EXCEPT !.k = @ + 1, !.failure = TRUE])
        /\ failed' = failed \cup {proc[p].at[1]}
  /\ UNCHANGED <<live, new, cmds, want, robbed, raced>>

\* iface_up() or iface_down() for the next stanza.  A command of it may fail,
\* or a variable be missing: what was done until then stays, and the other
\* stanzas are still tried.
RunStanza(p) ==
  /\ proc[p].pc = "run" /\ proc[p].k <= Stanzas[proc[p].at[2]]
  /\ \/ /\ conf' = Configured(p)
        /\ Step(p, [proc[p] EXCEPT !.k = @ + 1])
        /\ UNCHANGED failed
     \/ /\ "script" \in Faults
        /\ conf' \in {conf, Configured(p)}
        /\ Step(p, [proc[p] EXCEPT !.k = @ + 1, !.failure = TRUE])
        /\ failed' = failed \cup {proc[p].at[1]}
  /\ UNCHANGED <<live, new, cmds, want, robbed, raced>>

\* "ignoring unknown interface"; with -f the state file is updated anyway.
RunEnds(p) ==
  /\ proc[p].pc = "run" /\ proc[p].k > Stanzas[proc[p].at[2]]
  /\ Step(p, IF Stanzas[proc[p].at[2]] = 0 /\ ~proc[p].cmd.force
             THEN NextTarget(proc[p]) ELSE [proc[p] EXCEPT !.pc = "open"])
  /\ UNCHANGED <<live, new, conf, cmds, ghosts>>

-----------------------------------------------------------------------------
(* open_new_state_file()                                                   *)
\* Mutant of Open: without O_EXCL.
Open_NoExcl(p) ==
  /\ proc[p].pc = "open"
  /\ new' = [there |-> TRUE, lines |-> << >>]
  /\ Step(p, [proc[p] EXCEPT !.pc = "read", !.fd = "new"])
  /\ UNCHANGED <<live, conf, cmds, ghosts>>

Open(p) ==
  /\ proc[p].pc = "open" /\ ~new.there
  /\ new' = [there |-> TRUE, lines |-> << >>]
  /\ Step(p, [proc[p] EXCEPT !.pc = "read", !.fd = "new"])
  /\ UNCHANGED <<live, conf, cmds, ghosts>>

\* Mutants of Wait: not counted; once too often.
Wait_Forever(p) ==
  proc[p].pc = "open" /\ new.there /\ proc[p].cnt < Waits /\ UNCHANGED vars
Wait_More(p) ==
  /\ proc[p].pc = "open" /\ new.there /\ proc[p].cnt <= Waits
  /\ Step(p, [proc[p] EXCEPT !.cnt = @ + 1])
  /\ UNCHANGED <<live, new, conf, cmds, ghosts>>

\* "Someone else created the .new file"
Wait(p) ==
  /\ proc[p].pc = "open" /\ new.there /\ proc[p].cnt < Waits
  /\ Step(p, [proc[p] EXCEPT !.cnt = @ + 1])
  /\ UNCHANGED <<live, new, conf, cmds, ghosts>>

\* "Assuming a stale file, rewriting it": O_TRUNC instead of O_EXCL.
TakeOver(p) ==
  /\ proc[p].pc = "open" /\ new.there /\ proc[p].cnt = Waits
  /\ new' = [there |-> TRUE, lines |-> << >>]
  /\ Step(p, [proc[p] EXCEPT !.pc = "read", !.fd = "new"])
  /\ robbed' = (robbed \/ \E q \in Procs : proc[q].pc \in {"read", "write", "rename"})
  /\ UNCHANGED <<live, conf, cmds, want, raced, failed>>

-----------------------------------------------------------------------------
(* The update of the state file.                                           *)
\* ifup records the interface unless it failed, in the line it had or at the
\* end; otherwise its line is removed.
Updated(list, p) ==
  LET n == FindIfaceState(list, proc[p].at[1])
  IN IF proc[p].cmd.up /\ ~proc[p].failure
     THEN IF n = 0 THEN Append(list, proc[p].at) ELSE [list EXCEPT ![n] = proc[p].at]
     ELSE IF n = 0 THEN list ELSE SubSeq(list, 1, n - 1) \o SubSeq(list, n + 1, Len(list))

Read(p) ==
  /\ proc[p].pc = "read"
  /\ Step(p, [proc[p] EXCEPT !.pc = "write", !.list = Updated(ReadIfaceState, p)])
  /\ UNCHANGED <<live, new, conf, cmds, ghosts>>

\* Written from the file's start, over what another process wrote to it.
Over(list, lines) == list \o SubSeq(lines, Len(list) + 1, Len(lines))

\* The lines reach the file that was opened, whatever it is named by now.
Write(p) ==
  /\ proc[p].pc = "write"
  /\ new' = IF proc[p].fd = "new" THEN [new EXCEPT !.lines = Over(proc[p].list, @)] ELSE new
  /\ live' = IF proc[p].fd = "live" THEN Over(proc[p].list, live) ELSE live
  /\ Step(p, [proc[p] EXCEPT !.pc = "rename", !.list = << >>, !.fd = None])
  /\ UNCHANGED <<conf, cmds, ghosts>>

\* What becomes of the other processes' open files.
Moved(fd) == CASE fd = "new" -> "live" [] fd = "live" -> "gone" [] OTHER -> fd

Rename(p) ==
  /\ proc[p].pc = "rename" /\ new.there
  /\ live' = new.lines /\ new' = NoFile
  /\ proc' = [q \in Procs |-> IF q = p THEN NextTarget(proc[p])
                              ELSE [proc[q] EXCEPT !.fd = Moved(@)]]
  /\ want' = [want EXCEPT ![proc[p].at[1]] =
                IF proc[p].cmd.up /\ ~proc[p].failure THEN proc[p].at[2] ELSE None]
  /\ UNCHANGED <<conf, cmds, robbed, raced, failed>>

\* xrename() dies: another process has renamed the file already.
RenameFails(p) ==
  /\ proc[p].pc = "rename" /\ ~new.there
  /\ Step(p, Idle)
  /\ UNCHANGED <<live, new, conf, cmds, ghosts>>

\* The process is killed, and may leave ifstate.new.
Crash(p) ==
  /\ "crash" \in Faults /\ proc[p].pc # "idle"
  /\ Step(p, Idle)
  /\ raced' = raced \cup ({proc[p].at[1]} \cap Ifaces)
  /\ UNCHANGED <<live, new, conf, cmds, want, robbed, failed>>

-----------------------------------------------------------------------------
Ifupdown(p) ==
  \/ Skip(p) \/ Begin(p) \/ RunStanza(p) \/ RunEnds(p) \/ Open(p) \/ Wait(p) \/ TakeOver(p)
  \/ Read(p) \/ Write(p) \/ Rename(p) \/ RenameFails(p)

Next == \E p \in Procs : Ifupdown(p) \/ Crash(p) \/ \E c \in Commands : Start(p, c)

Spec == Init /\ [][Next]_vars
\* Commands run on: the scripts return, and so does msleep().
FairSpec == Spec /\ \A p \in Procs : WF_vars(Ifupdown(p))

-----------------------------------------------------------------------------
(* Properties.                                                             *)
TypeOK ==
  /\ proc \in [Procs ->
       [pc : {"idle", "check", "run", "open", "read", "write", "rename"},
        cmd : [up : BOOLEAN, force : BOOLEAN, todo : Seq(Ifaces \X Logicals)],
        at : (Ifaces \X Logicals) \cup {NoLine}, k : Nat, failure : BOOLEAN,
        cnt : 0..Waits, fd : {None, "new", "live", "gone"}, list : Seq(Ifaces \X Logicals)]]
  /\ live \in Seq(Ifaces \X Logicals)
  /\ new \in [there : BOOLEAN, lines : Seq(Ifaces \X Logicals)]
  /\ conf \in [Ifaces -> SUBSET (Logicals \X Nat)]
  /\ cmds \in 0..MaxCmds
  /\ want \in [Ifaces -> Logicals \cup {None}]
  /\ robbed \in BOOLEAN /\ raced \subseteq Ifaces /\ failed \subseteq Ifaces

\* The update of the state file: for every interface, the file says what the
\* last command that renamed it recorded, and has one line at most, however the
\* updates of several commands interleave, and also after crashes, as long as
\* ifstate.new is not taken over from a process that still uses it.
NoLostUpdate ==
  ~robbed => \A i \in Ifaces : Recorded(i) = want[i] /\ Cardinality(Lines(live, i)) <= 1

\* ifupdown_main(): an interface that no command works on is recorded only if
\* all stanzas of the logical name succeeded, and if no command for it failed
\* it is recorded whenever it has any configuration.  Not promised: interfaces
\* with two commands at once, a killed command, or an ifdown or a forced ifup
\* under another name than the one recorded.
StateTruth ==
  ~robbed => \A i \in Ifaces \ raced : On(i) = {} =>
    /\ Recorded(i) # None => AllOf(Recorded(i)) \subseteq conf[i]
    /\ Recorded(i) = None /\ i \notin failed => conf[i] = {}

\* open_new_state_file(): a command ends, even if a killed one left
\* ifstate.new behind.
CommandEnds == \A p \in Procs : proc[p].pc # "idle" ~> proc[p].pc = "idle"
=============================================================================
