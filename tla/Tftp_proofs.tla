---------------------------- MODULE Tftp_proofs ----------------------------
(***************************************************************************)
(* What is proved about tftp_protocol(), for every block size, file        *)
(* length, modulus, number of retries and set of faults:                   *)
(*   TypeCorrect, FailuresTidy (NoPartialFile), ResendsCorrect             *)
(*   (ResendOnlyOnTimeout); and, when no client asks for a block size      *)
(*   below the default: LockStepCorrect, SuccessComplete and               *)
(*   TransferCorrect, the refinement of FileTransfer.                      *)
(*                                                                         *)
(* Two inductive invariants carry the argument.  Sound says what a process *)
(* and a datagram look like on their own; under it every step is one of    *)
(* five moves (Moves).  Numbered and Written relate the two ends: by the   *)
(* bound on a datagram's age, a 16-bit block number that matches is the    *)
(* number of the very block that is waited for.                            *)
(***************************************************************************)
EXTENDS Tftp, SequenceTheorems, TLAPS

-----------------------------------------------------------------------------
(* Block numbers.  Wrap(x) is the 16-bit number of block x.                *)

Wrap(x) == x % Modulus

\* The constants' bounds, as the lemmas below use them.
LEMMA ModulusBig ==
  Modulus \in Nat /\ Modulus > 1 /\ MaxAge \in Nat /\ MaxAge + 1 < Modulus
  BY TftpAssumption

\* Division with remainder.
LEMMA Division ==
  ASSUME NEW M \in Nat, M > 0, NEW x \in Nat
  PROVE  /\ x % M \in 0..(M - 1) /\ x \div M \in Nat
         /\ x = M * (x \div M) + (x % M)
  OBVIOUS

\* Two multiples of M that are less than M apart are the same.
LEMMA Multiples ==
  ASSUME NEW M \in Nat, M > 0, NEW p \in Nat, NEW q \in Nat,
         M * p < M * q + M, M * q < M * p + M
  PROVE  p = q
  <1>1. ASSUME NEW x \in Nat, NEW y \in Nat, x < y, M * y < M * x + M  PROVE FALSE
    <2>1. y - x - 1 \in Nat /\ y = x + 1 + (y - x - 1)
      BY <1>1
    <2>2. PICK d \in Nat : y = x + 1 + d
      BY <2>1
    <2>3. M * y = M * x + M + M * d /\ M * d >= 0 /\ M * x \in Nat
      BY <2>2
    <2> QED  BY <1>1, <2>3
  <1> QED  BY <1>1

\* The remainder is the only one of its range.
LEMMA Remainder ==
  ASSUME NEW M \in Nat, M > 0, NEW q \in Nat, NEW r \in 0..(M - 1), NEW x \in Nat,
         x = M * q + r
  PROVE  x % M = r
  <1> DEFINE p == x \div M
             s == x % M
  <1>1. p \in Nat /\ s \in 0..(M - 1) /\ x = M * p + s
    BY Division
  <1> HIDE DEF p, s
  <1>2. M * p \in Nat /\ M * q \in Nat
    BY <1>1
  <1>3. p = q
    BY <1>1, <1>2, Multiples
  <1>4. s = r
    BY <1>1, <1>2, <1>3
  <1> QED  BY <1>4 DEF s

\* A block number fits 16 bits.
LEMMA WrapType == ASSUME NEW x \in Nat PROVE Wrap(x) \in 0..(Modulus - 1)
  BY ModulusBig DEF Wrap

\* The first two block numbers are not cut.
LEMMA WrapSmall == Wrap(0) = 0 /\ Wrap(1) = 1
  BY ModulusBig DEF Wrap

\* Counting up after the cut or before it is the same.
LEMMA WrapNext == ASSUME NEW x \in Nat PROVE Wrap(Wrap(x) + 1) = Wrap(x + 1)
  <1> DEFINE q == x \div Modulus
             r == x % Modulus
  <1>1. q \in Nat /\ r \in 0..(Modulus - 1) /\ x = Modulus * q + r
    BY Division, ModulusBig
  <1> HIDE DEF q, r
  <1>2. CASE r + 1 < Modulus
    <2>1. x + 1 = Modulus * q + (r + 1) /\ r + 1 \in 0..(Modulus - 1)
      BY <1>1, <1>2, ModulusBig
    <2>2. (x + 1) % Modulus = r + 1
      BY <1>1, <2>1, Remainder, ModulusBig
    <2>3. (r + 1) % Modulus = r + 1
      BY <1>1, <2>1, ModulusBig
    <2> QED  BY <2>2, <2>3 DEF Wrap, r
  <1>3. CASE r + 1 = Modulus
    <2>1. x + 1 = Modulus * (q + 1) + 0 /\ 0 \in 0..(Modulus - 1) /\ q + 1 \in Nat
      BY <1>1, <1>3, ModulusBig
    <2>2. (x + 1) % Modulus = 0
      BY <1>1, <2>1, Remainder, ModulusBig
    <2>3. Modulus % Modulus = 0
      BY ModulusBig
    <2> QED  BY <1>3, <2>2, <2>3 DEF Wrap, r
  <1> QED  BY <1>1, <1>2, <1>3, ModulusBig

\* The number that a sender compares an ACK with is the one before its next.
LEMMA WrapBack ==
  ASSUME NEW x \in Nat
  PROVE  (Wrap(x + 1) + Modulus - 1) % Modulus = Wrap(x)
  <1> DEFINE q == (x + 1) \div Modulus
             r == (x + 1) % Modulus
  <1>1. q \in Nat /\ r \in 0..(Modulus - 1) /\ x + 1 = Modulus * q + r
    BY Division, ModulusBig
  <1> HIDE DEF q, r
  <1>2. CASE r # 0
    <2>1. x = Modulus * q + (r - 1) /\ r - 1 \in 0..(Modulus - 1)
      BY <1>1, <1>2, ModulusBig
    <2>2. x % Modulus = r - 1
      BY <1>1, <2>1, Remainder, ModulusBig
    <2>3. r + Modulus - 1 = Modulus * 1 + (r - 1) /\ r + Modulus - 1 \in Nat
      BY <1>1, <2>1, ModulusBig
    <2>4. (r + Modulus - 1) % Modulus = r - 1
      BY <2>1, <2>3, Remainder, ModulusBig
    <2> QED  BY <2>2, <2>4 DEF Wrap, r
  <1>3. CASE r = 0
    <2>1. q # 0
      BY <1>1, <1>3, ModulusBig
    <2>2. /\ x = Modulus * (q - 1) + (Modulus - 1)
          /\ Modulus - 1 \in 0..(Modulus - 1) /\ q - 1 \in Nat
      BY <1>1, <1>3, <2>1, ModulusBig
    <2>3. x % Modulus = Modulus - 1
      BY <1>1, <2>2, Remainder, ModulusBig
    <2>4. (r + Modulus - 1) % Modulus = Modulus - 1
      BY <1>3, ModulusBig
    <2> QED  BY <2>3, <2>4 DEF Wrap, r
  <1> QED  BY <1>1, <1>2, <1>3

\* Blocks less than 2^16 apart have different numbers.
LEMMA WrapInjective ==
  ASSUME NEW x \in Nat, NEW y \in Nat, x <= y, y < x + Modulus, Wrap(x) = Wrap(y)
  PROVE  x = y
  <1> DEFINE q == x \div Modulus
             r == x % Modulus
             p == y \div Modulus
  <1>1. q \in Nat /\ r \in 0..(Modulus - 1) /\ x = Modulus * q + r
    BY Division, ModulusBig
  <1>2. p \in Nat /\ y = Modulus * p + r
    BY Division, ModulusBig DEF Wrap
  <1> HIDE DEF q, r, p
  <1>3. Modulus * q \in Nat /\ Modulus * p \in Nat
    BY <1>1, <1>2, ModulusBig
  <1>4. Modulus * q < Modulus * p + Modulus /\ Modulus * p < Modulus * q + Modulus
    BY <1>1, <1>2, <1>3, ModulusBig
  <1>5. p = q
    BY <1>1, <1>2, <1>4, Multiples, ModulusBig
  <1> QED  BY <1>1, <1>2, <1>5

-----------------------------------------------------------------------------
(* The processes and their locals.                                         *)

\* Each end is the other's peer, and one of them sends.
LEMMA Ends ==
  ASSUME NEW p \in Procs
  PROVE  /\ Peer(p) \in Procs /\ Peer(p) # p /\ Peer(Peer(p)) = p
         /\ \A q \in Procs : q # p => q = Peer(p)
         /\ Sends(p) <=> p = Sender
         /\ ~Sends(p) <=> p = Receiver
         /\ Sender \in Procs /\ Receiver \in Procs /\ Sender # Receiver
  BY DEF Procs, Peer, Sends, Sender, Receiver

\* The block size that both ends agree on in the end.
Neg == IF job.options THEN job.want ELSE BlkDefault

\* The sizes of a job are positive.
LEMMA SizesPositive ==
  ASSUME job \in Jobs
  PROVE  /\ job.want \in Nat \ {0} /\ Neg \in Nat \ {0} /\ BlkDefault \in Nat \ {0}
         /\ job.readable \in Nat /\ job.want \in BlkWanted /\ job.cmd \in {"get", "put"}
         /\ Retries \in Nat \ {0}
  <1>1. job.want \in BlkWanted /\ job.readable \in 0..MaxLen /\ job.cmd \in {"get", "put"}
    BY DEF Jobs
  <1>2. BlkWanted \subseteq Nat \ {0} /\ BlkDefault \in Nat \ {0} /\ MaxLen \in Nat
        /\ Retries \in Nat \ {0}
    BY Zenon, TftpAssumption
  <1>3. job.want \in Nat \ {0}
    BY <1>1, <1>2, Zenon
  <1>4. Neg = job.want \/ Neg = BlkDefault
    BY Zenon DEF Neg
  <1>5. job.readable \in Nat
    BY <1>1, <1>2
  <1> QED  BY <1>1, <1>2, <1>3, <1>4, <1>5

\* What the top of the loop makes of the locals.
BuildOp(p) == IF Sends(p) THEN "DATA" ELSE "ACK"
BuildN(p, s) == IF Sends(p) THEN Min(s.blksize, job.readable - s.pos) ELSE 0

\* The locals after the top of the loop, field by field.
LEMMA BuildIs ==
  ASSUME job \in Jobs, NEW p \in Procs, NEW s \in Locals, s.pos <= job.readable
  PROVE  LET t == Build(p, s)
             n == BuildN(p, s)
         IN  /\ t \in Locals
             /\ t.pc = "send" /\ t.result = s.result /\ t.opcode = BuildOp(p)
             /\ t.blksize = s.blksize /\ t.expectOACK = s.expectOACK
             /\ t.blockNr = Wrap(s.blockNr + 1) /\ t.abs = s.abs + 1
             /\ n \in Nat /\ t.pos = s.pos + n /\ t.pos <= job.readable
             /\ t.retries = Retries
             /\ t.xbuf = Pkt(p, BuildOp(p), s.blockNr, s.pos, n, s.abs)
             /\ t.finished <=> s.finished \/ (Sends(p) /\ n # s.blksize)
  <1> DEFINE n == BuildN(p, s)
             x == Pkt(p, BuildOp(p), s.blockNr, s.pos, n, s.abs)
             u == ToSend(s, x)
             t == Build(p, s)
  <1>1. n \in Nat /\ s.pos + n <= job.readable /\ s.pos \in Nat
    BY SizesPositive DEF BuildN, Min, Locals
  <1>2. BuildOp(p) \in Ops
    BY DEF BuildOp, Ops
  <1>3. s.blockNr \in 0..(Modulus - 1) /\ s.abs \in Nat
    BY DEF Locals
  <1> HIDE DEF n
  <1>4. x \in Packets /\ x.op = BuildOp(p)
    BY <1>1, <1>2, <1>3 DEF Pkt, Packets
  <1> HIDE DEF x
  <1>5. /\ u \in Locals /\ u.pc = "send" /\ u.result = s.result /\ u.opcode = BuildOp(p)
        /\ u.blksize = s.blksize /\ u.expectOACK = s.expectOACK
        /\ u.retries = Retries /\ u.xbuf = x
    <2>1. Retries \in 0..Retries
      BY SizesPositive
    <2>2. u = [s EXCEPT !.pc = "send", !.opcode = BuildOp(p), !.xbuf = x, !.retries = Retries]
      BY <1>4 DEF ToSend
    <2> HIDE DEF u
    <2> QED  BY <1>2, <1>4, <2>1, <2>2 DEF Locals
  <1>6. (s.blockNr + 1) % Modulus = Wrap(s.blockNr + 1)
        /\ Wrap(s.blockNr + 1) \in 0..(Modulus - 1)
    BY <1>3, WrapType, ModulusBig DEF Wrap
  <1>7. t = [u EXCEPT !.blockNr = Wrap(s.blockNr + 1), !.abs = s.abs + 1, !.pos = s.pos + n,
                      !.finished = s.finished \/ (Sends(p) /\ n # s.blksize)]
    BY <1>6 DEF Build, u, x, n, BuildN, BuildOp
  <1> HIDE DEF u, t
  <1>8. (s.finished \/ (Sends(p) /\ n # s.blksize)) \in BOOLEAN
    BY Zenon DEF Locals
  <1>9. s.abs + 1 \in Nat /\ s.pos + n \in Nat
    BY <1>1, <1>3
  <1>10. /\ t \in Locals /\ t.pc = u.pc /\ t.result = u.result /\ t.opcode = u.opcode
         /\ t.blksize = u.blksize /\ t.expectOACK = u.expectOACK /\ t.retries = u.retries
         /\ t.xbuf = u.xbuf /\ t.blockNr = Wrap(s.blockNr + 1) /\ t.abs = s.abs + 1
         /\ t.pos = s.pos + n
         /\ t.finished = (s.finished \/ (Sends(p) /\ n # s.blksize))
    BY <1>5, <1>6, <1>7, <1>8, <1>9 DEF Locals
  <1> QED  BY <1>1, <1>5, <1>10 DEF t, n, x

-----------------------------------------------------------------------------
(* The first inductive invariant: what one process, or one datagram, can   *)
(* look like.                                                              *)

Body == {"DATA", "ACK"}

\* A packet that a process holds in xbuf or that is in the network.
PktOK(m) ==
  /\ m.op \in {"RRQ", "WRQ"} =>
       /\ m.src = "tftp" /\ m.n = job.want
       /\ m.op = (IF job.cmd = "put" THEN "WRQ" ELSE "RRQ")
  /\ m.op = "OACK" => m.src = "tftpd" /\ m.n = Neg
  /\ m.op = "DATA" => Sends(m.src) /\ m.abs >= 1 /\ m.blk = Wrap(m.abs)
  /\ m.op = "ACK" => ~Sends(m.src) /\ m.blk = Wrap(m.abs)

\* The locals s of process p.  abs is one more than the block in xbuf; a
\* process that still waits for the OACK has sent its request only.
Good(p, s) ==
  /\ s \in Locals
  /\ s.pos <= job.readable
  /\ s.pc \in {"send", "recv"} => s.retries >= 1 /\ s.xbuf.op # "none"
  /\ s.result = "none" <=> s.pc # "exit"
  /\ s.abs >= 1 /\ s.blockNr = Wrap(s.abs)
  /\ s.xbuf.abs = s.abs - 1 /\ s.xbuf.src = p /\ s.xbuf.op # "ERROR" /\ PktOK(s.xbuf)
  /\ Sends(p) => (s.abs > 1 <=> s.xbuf.op = "DATA")
  /\ s.pc = "start" => s = InitProc(p)
  /\ s.expectOACK => p = "tftp" /\ s.xbuf.op \notin Body /\ s.abs = 1 /\ ~s.finished
  /\ s.pc # "start" => s.blksize = (IF s.expectOACK THEN job.want ELSE Neg)

\* The client has had no answer yet.
Waits == proc["tftp"].pc = "start" \/ proc["tftp"].expectOACK

\* Until then it sends nothing but its request, and tftpd's DATA or ACK means
\* that no block size was negotiated.
Answered ==
  Waits => /\ \A m \in net : m.op \in Body => m.src = "tftpd" /\ Neg = BlkDefault
           /\ proc["tftpd"].xbuf.op \in Body => Neg = BlkDefault

Sound ==
  /\ job \in Jobs
  /\ proc \in [Procs -> Locals]
  /\ \A p \in Procs : Good(p, proc[p])
  /\ net \subseteq Packets
  /\ \A m \in net : m.op # "none" /\ PktOK(m)
  /\ file \in [present : BOOLEAN, bytes : Seq(Nat)]
  /\ Answered

\* What a step of p has to show.
LEMMA Frame ==
  ASSUME Sound, NEW p \in Procs, NEW t, Good(p, t), t.pc # "start",
         job' = job, proc' = [proc EXCEPT ![p] = t],
         net' \subseteq Packets,
         \A m \in net' : m \in net \/ m.op = "ERROR" \/ (m = proc[p].xbuf /\ proc[p].pc = "send"),
         file' \in [present : BOOLEAN, bytes : Seq(Nat)],
         t.expectOACK => Waits,
         Waits /\ p = "tftpd" /\ t.xbuf.op \in Body => Neg = BlkDefault
  PROVE  Sound'
  <1>1. \A m : PktOK(m)' <=> PktOK(m)
    BY DEF PktOK, Neg, Sends
  <1>2. \A q, s : Good(q, s)' <=> Good(q, s)
    BY <1>1 DEF Good, Sends, Neg
  <1>3. job' \in Jobs /\ proc' \in [Procs -> Locals]
    BY DEF Sound, Good
  <1>4. proc'[p] = t /\ \A q \in Procs : q # p => proc'[q] = proc[q]
    BY DEF Sound
  <1>5. \A q \in Procs : Good(q, proc[q])'
    BY <1>2, <1>4 DEF Sound
  <1>6. \A m \in net' : m.op # "none" /\ PktOK(m)'
    BY <1>1 DEF Sound, Good, PktOK
  <1>7. Answered'
    <2> SUFFICES ASSUME Waits'
                 PROVE  /\ \A m \in net' : m.op \in Body => m.src = "tftpd" /\ Neg = BlkDefault
                        /\ proc'["tftpd"].xbuf.op \in Body => Neg = BlkDefault
      BY DEF Answered, Neg
    <2>1. Waits
      BY <1>4 DEF Waits, Procs
    <2>2. \A m \in net : m.op \in Body => m.src = "tftpd" /\ Neg = BlkDefault
      BY <2>1 DEF Sound, Answered
    <2>3. proc["tftpd"].xbuf.op \in Body => Neg = BlkDefault
      BY <2>1 DEF Sound, Answered
    <2>4. ASSUME proc[p].pc = "send", proc[p].xbuf.op \in Body
          PROVE  proc[p].xbuf.src = "tftpd" /\ Neg = BlkDefault
      <3>1. Good(p, proc[p])
        BY DEF Sound
      <3>2. p = "tftpd"
        BY <2>1, <2>4, <3>1 DEF Good, Waits, Procs
      <3> QED  BY <2>3, <2>4, <3>1, <3>2 DEF Good
    <2>5. ASSUME NEW m \in net', m.op \in Body  PROVE m.src = "tftpd" /\ Neg = BlkDefault
      BY <2>2, <2>4, <2>5 DEF Body
    <2>6. proc'["tftpd"].xbuf.op \in Body => Neg = BlkDefault
      BY <1>4, <2>1, <2>3 DEF Procs
    <2> QED  BY <2>5, <2>6
  <1> QED  BY <1>3, <1>5, <1>6, <1>7 DEF Sound

\* Build makes good locals of good ones, once the block size is agreed on.
LEMMA BuildGood ==
  ASSUME job \in Jobs, NEW p \in Procs, NEW s \in Locals, s.pos <= job.readable,
         s.result = "none", s.blockNr = Wrap(s.abs), Sends(p) => s.abs >= 1,
         ~s.expectOACK, s.blksize = Neg
  PROVE  Good(p, Build(p, s))
  <1> DEFINE t == Build(p, s)
             n == BuildN(p, s)
  <1>1. /\ t \in Locals
        /\ t.pc = "send" /\ t.result = s.result /\ t.blksize = s.blksize
        /\ t.expectOACK = s.expectOACK
        /\ t.blockNr = Wrap(s.blockNr + 1) /\ t.abs = s.abs + 1
        /\ t.pos <= job.readable /\ t.retries = Retries /\ n \in Nat
        /\ t.xbuf = Pkt(p, BuildOp(p), s.blockNr, s.pos, n, s.abs)
    BY BuildIs
  <1> HIDE DEF t, n
  <1>2. s.abs \in Nat /\ t.blockNr = Wrap(t.abs)
    BY <1>1, WrapNext DEF Locals
  <1>3. /\ t.xbuf.op = BuildOp(p) /\ t.xbuf.src = p /\ t.xbuf.abs = s.abs
        /\ t.xbuf.blk = Wrap(s.abs)
    BY <1>1 DEF Pkt
  <1>4. PktOK(t.xbuf)
    BY <1>3 DEF PktOK, BuildOp
  <1>5. t.retries >= 1
    BY <1>1, SizesPositive
  <1>6. t.xbuf.op \in Body /\ (t.xbuf.op = "DATA" <=> Sends(p))
    BY <1>3 DEF BuildOp, Body
  <1>7. t.abs >= 1 /\ t.xbuf.abs = t.abs - 1 /\ (Sends(p) => t.abs > 1)
    BY <1>1, <1>2, <1>3
  <1>8. ~t.expectOACK
    BY <1>1
  <1> QED  BY <1>1, <1>2, <1>3, <1>4, <1>5, <1>6, <1>7, <1>8 DEF Good, Body, t

-----------------------------------------------------------------------------
(* Every step is one of five moves of a process p.                         *)

\* No receiver that reports a failure keeps its file; a sender touches none.
Tidy(p) ==
  /\ ~Sends(p) /\ proc'[p].result = "fail" => ~file'.present
  /\ Sends(p) => file' = file

\* A process that waits resends its packet at the cost of a retry only.
Patient(p) ==
  proc[p].pc = "recv" /\ proc'[p].pc = "send" /\ proc'[p].xbuf = proc[p].xbuf
  => proc'[p].retries = proc[p].retries - 1

\* p sends no DATA or ACK, builds none that counts and writes nothing.
Rests(p) ==
  LET s == proc[p]
      t == proc'[p]
  IN  /\ t.abs = s.abs /\ t.pos = s.pos /\ t.finished = s.finished
      /\ Sends(p) => t.xbuf = s.xbuf \/ s.abs = 1
      /\ \A m \in net' : m.op \in Body => m \in net
      /\ \/ file'.bytes = file.bytes
         \/ ~Sends(p) /\ s.pc = "start" /\ file'.bytes = << >>
      /\ s.pc # "exit" /\ t.pc # "start" /\ (s.pc \in {"send", "err"} => t.pc = "exit")
      /\ s.pc = "send" => file' = file
      /\ t.pc = "recv" => s.pc = "recv"
      /\ t.result = "ok" => s.finished /\ s.pc = "recv"

\* p sends the packet in xbuf, and exits if that was the final ACK.
Transmits(p) ==
  LET s == proc[p]
      t == proc'[p]
  IN  /\ s.pc = "send" /\ file' = file /\ net' = Live(s.xbuf.abs) \cup {s.xbuf}
      /\ t.abs = s.abs /\ t.pos = s.pos /\ t.finished = s.finished /\ t.xbuf = s.xbuf
      /\ \/ FinalAckSent(s) /\ t.pc = "exit" /\ t.result = "ok"
         \/ ~FinalAckSent(s) /\ t.pc = "recv" /\ t.result = "none"

\* A sender reads the next block: its first, or the last one is acknowledged.
Advances(p) ==
  LET s == proc[p]
      t == proc'[p]
  IN  /\ Sends(p) /\ file' = file /\ net' = net
      /\ s.abs = 1 \/ (s.pc = "recv" /\ \E m \in net : m.op = "ACK" /\ m.blk = Wrap(s.abs - 1))
      /\ t.pc = "send" /\ t.result = "none" /\ t.abs = s.abs + 1
      /\ t.xbuf.op = "DATA" /\ t.xbuf.off = s.pos
      /\ t.xbuf.n = Min(Neg, job.readable - s.pos) /\ t.pos = s.pos + t.xbuf.n

\* The datagram with the block that receiver p waits for, and what is left of it.
Expected(p, m) == m \in net /\ m.op = "DATA" /\ m.blk = Wrap(proc[p].abs)

\* A receiver writes a block and will acknowledge it.
Writes(p) ==
  LET s == proc[p]
      t == proc'[p]
  IN  /\ ~Sends(p) /\ s.pc = "recv" /\ net' = net
      /\ \E m \in net :
           /\ Expected(p, m)
           /\ file'.present
           /\ file'.bytes = file.bytes \o Bytes(m.off, Received(s, m))
           /\ t.finished <=> s.finished \/ Received(s, m) # Neg
      /\ t.pc = "send" /\ t.result = "none" /\ t.opcode = "ACK" /\ t.abs = s.abs + 1

\* A receiver writes less than a block and gives up.
WritesPart(p) ==
  LET s == proc[p]
      t == proc'[p]
  IN  /\ ~Sends(p) /\ s.pc = "recv" /\ net' = net
      /\ \E m \in net :
           /\ Expected(p, m)
           /\ \E k \in 0..(Received(s, m) - 1) :
                file'.bytes = file.bytes \o Bytes(m.off, k)
      /\ t.pc = "err" /\ t.result = "none" /\ t.abs = s.abs /\ t.finished = s.finished

Moves(p) ==
  /\ job' = job /\ proc' = [proc EXCEPT ![p] = proc'[p]]
  /\ Tidy(p) /\ Patient(p)
  /\ Rests(p) \/ Transmits(p) \/ Advances(p) \/ Writes(p) \/ WritesPart(p)

\* The locals t that p goes on with when it neither sends nor builds a packet.
Quiet(p, t) ==
  LET s == proc[p]
  IN  /\ t \in Locals
      /\ t.abs = s.abs /\ t.blockNr = s.blockNr /\ t.pos = s.pos /\ t.xbuf = s.xbuf
      /\ t.finished = s.finished
      /\ s.pc # "exit" /\ t.pc # "start" /\ (s.pc \in {"send", "err"} => t.pc = "exit")
      /\ t.pc \in {"send", "recv"} => s.pc = "recv" /\ t.retries >= 1
      /\ t.pc = "send" => t.retries = s.retries - 1
      /\ t.result = "none" <=> t.pc # "exit"
      /\ t.result = "ok" => s.finished /\ s.pc = "recv"
      /\ t.expectOACK => s.expectOACK \/ (s.pc = "start" /\ p = "tftp")
      /\ t.blksize = (IF t.expectOACK THEN job.want ELSE Neg)

\* Such locals are good ones.
LEMMA QuietGood ==
  ASSUME Sound, NEW p \in Procs, NEW t, Quiet(p, t)
  PROVE  /\ Good(p, t)
         /\ t.expectOACK => Waits
         /\ Waits /\ p = "tftpd" /\ t.xbuf.op \in Body => Neg = BlkDefault
  <1> DEFINE s == proc[p]
  <1>1. Good(p, s)
    BY DEF Sound
  <1>2. s.pc = "start" => s.xbuf.op \notin Body /\ s.abs = 1 /\ ~s.finished
    BY <1>1 DEF Good, InitProc, Pkt, Body
  <1>3. s.pc = "recv" => s.xbuf.op # "none"
    BY <1>1 DEF Good
  <1>4. Good(p, t)
    BY <1>1, <1>2, <1>3 DEF Good, Quiet
  <1>5. t.expectOACK => Waits
    BY <1>1 DEF Quiet, Good, Waits
  <1>6. Waits /\ p = "tftpd" /\ t.xbuf.op \in Body => Neg = BlkDefault
    BY DEF Sound, Answered, Quiet
  <1> QED  BY <1>4, <1>5, <1>6

\* Such a step keeps the invariant and is one where p rests.
LEMMA QuietStep ==
  ASSUME Sound, NEW p \in Procs, NEW t, Quiet(p, t),
         job' = job, proc' = [proc EXCEPT ![p] = t],
         net' \subseteq Packets, \A m \in net' : m \in net \/ m.op = "ERROR",
         file' \in [present : BOOLEAN, bytes : Seq(Nat)], file'.bytes = file.bytes,
         ~Sends(p) /\ t.result = "fail" => ~file'.present,
         Sends(p) \/ proc[p].pc = "send" => file' = file
  PROVE  Sound' /\ Moves(p)
  <1>1. proc'[p] = t
    BY DEF Sound
  <1>2. Sound'
    <2>1. \A m \in net' : m \in net \/ m.op = "ERROR" \/ (m = proc[p].xbuf /\ proc[p].pc = "send")
      OBVIOUS
    <2>2. t.pc # "start"
      BY DEF Quiet
    <2> QED  BY <2>1, <2>2, QuietGood, Frame, Zenon
  <1>3. Tidy(p) /\ Patient(p)
    BY <1>1 DEF Tidy, Patient, Quiet
  <1>4. \A m \in net' : m.op \in Body => m \in net
    BY DEF Body
  <1>5. Rests(p)
    BY <1>1, <1>4 DEF Rests, Quiet
  <1> QED  BY <1>1, <1>2, <1>3, <1>5 DEF Moves

\* err: only ever marks a receiver's file as removed.
LEMMA UnlinkedIs ==
  ASSUME file \in [present : BOOLEAN, bytes : Seq(Nat)], NEW p \in Procs
  PROVE  LET f == Unlinked(p, file.present)
         IN  /\ f \in [present : BOOLEAN, bytes : Seq(Nat)] /\ f.bytes = file.bytes
             /\ Sends(p) => f = file
             /\ ~Sends(p) => ~f.present
  <1>1. CASE ~Sends(p) /\ file.present
    BY <1>1 DEF Unlinked
  <1>2. CASE ~(~Sends(p) /\ file.present)
    BY <1>2, Zenon DEF Unlinked
  <1> QED  BY <1>1, <1>2

\* The locals of a process that exits.
LEMMA ExitIs ==
  ASSUME NEW s \in Locals, NEW r \in {"ok", "fail", "die"}
  PROVE  LET t == Exit(s, r)
         IN  /\ t \in Locals /\ t.pc = "exit" /\ t.result = r
             /\ t.abs = s.abs /\ t.blockNr = s.blockNr /\ t.pos = s.pos /\ t.xbuf = s.xbuf
             /\ t.finished = s.finished /\ t.expectOACK = s.expectOACK
             /\ t.blksize = s.blksize
  BY DEF Exit, Locals

\* The locals of a process that only changes its label.
LEMMA GotoIs ==
  ASSUME NEW s \in Locals, NEW l \in {"send", "recv", "err"}
  PROVE  LET t == [s EXCEPT !.pc = l]
         IN  /\ t \in Locals /\ t.pc = l /\ t.result = s.result
             /\ t.abs = s.abs /\ t.blockNr = s.blockNr /\ t.pos = s.pos /\ t.xbuf = s.xbuf
             /\ t.finished = s.finished /\ t.expectOACK = s.expectOACK
             /\ t.blksize = s.blksize /\ t.retries = s.retries
  BY DEF Locals

-----------------------------------------------------------------------------
(* The actions, one by one.                                                *)

\* The locals of a process in any reachable state.
LEMMA LocalsOf ==
  ASSUME Sound, NEW p \in Procs
  PROVE  proc[p] \in Locals /\ Good(p, proc[p]) /\ job \in Jobs /\ net \subseteq Packets
         /\ file \in [present : BOOLEAN, bytes : Seq(Nat)]
  BY DEF Sound

\* ret:, from recv_again: with the locals u.
LEMMA RetStep ==
  ASSUME Sound, NEW p \in Procs, NEW u \in Locals, proc[p].pc = "recv", Ret(p, u),
         u.abs = proc[p].abs, u.blockNr = proc[p].blockNr, u.pos = proc[p].pos,
         u.xbuf = proc[p].xbuf, u.finished = proc[p].finished,
         u.expectOACK => proc[p].expectOACK,
         u.blksize = (IF u.expectOACK THEN job.want ELSE Neg)
  PROVE  Sound' /\ Moves(p)
  <1> DEFINE r == IF u.finished THEN "ok" ELSE "fail"
             t == Exit(u, r)
  <1>1. r \in {"ok", "fail", "die"} /\ (r = "ok" => u.finished) /\ r # "none"
    BY Zenon
  <1>2. /\ proc' = [proc EXCEPT ![p] = t] /\ job' = job /\ net' = net
        /\ file' = IF u.finished THEN file ELSE Unlinked(p, file.present)
    BY DEF Ret
  <1>3. r = "fail" => ~u.finished
    OBVIOUS
  <1> HIDE DEF r
  <1>4. /\ t \in Locals /\ t.pc = "exit" /\ t.result = r
        /\ t.abs = u.abs /\ t.blockNr = u.blockNr /\ t.pos = u.pos /\ t.xbuf = u.xbuf
        /\ t.finished = u.finished /\ t.expectOACK = u.expectOACK
        /\ t.blksize = u.blksize
    BY <1>1, ExitIs
  <1> HIDE DEF t
  <1>5. Quiet(p, t)
    BY <1>1, <1>4 DEF Quiet
  <1>6. /\ file' \in [present : BOOLEAN, bytes : Seq(Nat)] /\ file'.bytes = file.bytes
        /\ Sends(p) => file' = file
        /\ ~Sends(p) /\ ~u.finished => ~file'.present
    <2>1. file \in [present : BOOLEAN, bytes : Seq(Nat)]
      BY LocalsOf
    <2> QED  BY <1>2, <2>1, UnlinkedIs, Zenon
  <1>7. Sends(p) \/ proc[p].pc = "send" => file' = file
    BY <1>6
  <1> QED  BY <1>7, <1>2, <1>3, <1>4, <1>5, <1>6, QuietStep, LocalsOf, Zenon

\* send_err_pkt: keeps the invariant, and p rests.
LEMMA SendErrStep ==
  ASSUME Sound, NEW p \in Procs, SendErr(p)
  PROVE  Sound' /\ Moves(p)
  <1> DEFINE s == proc[p]
             t == Exit(s, "fail")
             e == Pkt(p, "ERROR", 0, 0, 0, s.abs)
  <1>1. /\ s.pc = "err" /\ proc' = [proc EXCEPT ![p] = t] /\ job' = job
        /\ net' = net \cup {e} /\ file' = Unlinked(p, file.present)
    BY DEF SendErr
  <1>2. s \in Locals /\ Good(p, s)
    BY LocalsOf
  <1>3. /\ t \in Locals /\ t.pc = "exit" /\ t.result = "fail"
        /\ t.abs = s.abs /\ t.blockNr = s.blockNr /\ t.pos = s.pos /\ t.xbuf = s.xbuf
        /\ t.finished = s.finished /\ t.expectOACK = s.expectOACK
        /\ t.blksize = s.blksize
    BY <1>2, ExitIs
  <1> HIDE DEF t
  <1>4. Quiet(p, t)
    BY <1>1, <1>2, <1>3 DEF Quiet, Good
  <1>5. /\ file' \in [present : BOOLEAN, bytes : Seq(Nat)] /\ file'.bytes = file.bytes
        /\ Sends(p) \/ proc[p].pc = "send" => file' = file
        /\ ~Sends(p) => ~file'.present
    BY <1>1, UnlinkedIs, LocalsOf
  <1>6. e \in Packets /\ e.op = "ERROR"
    <2>1. s.abs \in Nat
      BY <1>2 DEF Locals
    <2> QED  BY <2>1, ModulusBig DEF Pkt, Packets, Ops
  <1> HIDE DEF e
  <1>7. net' \subseteq Packets /\ \A m \in net' : m \in net \/ m.op = "ERROR"
    BY <1>1, <1>6, LocalsOf
  <1> QED  BY <1>1, <1>4, <1>5, <1>7, QuietStep, Zenon

\* xsendto() dying keeps the invariant, and p rests.
LEMMA SendDiesStep ==
  ASSUME Sound, NEW p \in Procs, SendDies(p)
  PROVE  Sound' /\ Moves(p)
  <1> DEFINE s == proc[p]
             t == Exit(s, "die")
  <1>1. /\ s.pc \in {"send", "err"} /\ proc' = [proc EXCEPT ![p] = t] /\ job' = job
        /\ net' = net /\ file' = file
    BY DEF SendDies
  <1>2. s \in Locals /\ Good(p, s)
    BY LocalsOf
  <1>3. /\ t \in Locals /\ t.pc = "exit" /\ t.result = "die"
        /\ t.abs = s.abs /\ t.blockNr = s.blockNr /\ t.pos = s.pos /\ t.xbuf = s.xbuf
        /\ t.finished = s.finished /\ t.expectOACK = s.expectOACK
        /\ t.blksize = s.blksize
    BY <1>2, ExitIs
  <1> HIDE DEF t
  <1>4. Quiet(p, t)
    BY <1>1, <1>2, <1>3 DEF Quiet, Good
  <1>5. t.result # "fail"
    BY <1>3
  <1> QED  BY <1>1, <1>4, <1>5, QuietStep, LocalsOf, Zenon

\* A closed peer keeps the invariant, and p rests.
LEMMA UnreachableStep ==
  ASSUME Sound, NEW p \in Procs, Unreachable(p)
  PROVE  Sound' /\ Moves(p)
  <1> DEFINE s == proc[p]
             t == [s EXCEPT !.pc = "err"]
  <1>1. s \in Locals /\ Good(p, s) /\ s.pc = "recv"
    BY LocalsOf DEF Unreachable
  <1>2. proc' = [proc EXCEPT ![p] = t] /\ job' = job /\ net' = net /\ file' = file
    BY LocalsOf DEF Unreachable
  <1>3. /\ t \in Locals /\ t.pc = "err" /\ t.result = s.result
        /\ t.abs = s.abs /\ t.blockNr = s.blockNr /\ t.pos = s.pos /\ t.xbuf = s.xbuf
        /\ t.finished = s.finished /\ t.expectOACK = s.expectOACK
        /\ t.blksize = s.blksize
    BY <1>1, GotoIs
  <1> HIDE DEF t
  <1>4. Quiet(p, t) /\ t.result # "fail"
    BY <1>1, <1>3 DEF Quiet, Good
  <1> QED  BY <1>2, <1>4, QuietStep, LocalsOf, Zenon

\* A failing poll() keeps the invariant, and p rests.
LEMMA PollFailsStep ==
  ASSUME Sound, NEW p \in Procs, PollFails(p)
  PROVE  Sound' /\ Moves(p)
  <1>1. proc[p].pc = "recv" /\ Ret(p, proc[p])
    BY DEF PollFails
  <1>2. proc[p] \in Locals /\ Good(p, proc[p])
    BY LocalsOf
  <1>3. proc[p].blksize = (IF proc[p].expectOACK THEN job.want ELSE Neg)
    BY <1>1, <1>2 DEF Good
  <1> QED  BY <1>1, <1>2, <1>3, RetStep

\* A timeout keeps the invariant, and p rests.
LEMMA TimeoutStep ==
  ASSUME Sound, NEW p \in Procs, Timeout(p)
  PROVE  Sound' /\ Moves(p)
  <1> DEFINE s == proc[p]
             u == [s EXCEPT !.retries = s.retries - 1]
             t == [u EXCEPT !.pc = "send"]
  <1>1. s \in Locals /\ Good(p, s) /\ s.pc = "recv"
    BY LocalsOf DEF Timeout, Locals
  <1>2. \/ u.retries = 0 /\ Ret(p, u)
        \/ /\ u.retries # 0 /\ proc' = [proc EXCEPT ![p] = t]
           /\ job' = job /\ net' = net /\ file' = file
    BY DEF Timeout
  <1>3. s.retries \in 1..Retries /\ s.retries - 1 \in 0..Retries
    <2>1. s.retries >= 1 /\ s.retries \in 0..Retries
      BY <1>1 DEF Good, Locals
    <2> QED  BY <2>1, SizesPositive, LocalsOf
  <1>4. /\ u \in Locals /\ u.pc = s.pc /\ u.result = s.result
        /\ u.abs = s.abs /\ u.blockNr = s.blockNr /\ u.pos = s.pos /\ u.xbuf = s.xbuf
        /\ u.finished = s.finished /\ u.expectOACK = s.expectOACK
        /\ u.blksize = s.blksize /\ u.retries = s.retries - 1
    BY <1>1, <1>3 DEF Locals
  <1> HIDE DEF u
  <1>5. u.blksize = (IF u.expectOACK THEN job.want ELSE Neg)
    BY <1>1, <1>4 DEF Good
  <1>6. CASE u.retries = 0 /\ Ret(p, u)
    BY <1>1, <1>4, <1>5, <1>6, RetStep
  <1>7. CASE /\ u.retries # 0 /\ proc' = [proc EXCEPT ![p] = t]
             /\ job' = job /\ net' = net /\ file' = file
    <2>1. /\ t \in Locals /\ t.pc = "send" /\ t.result = u.result
          /\ t.abs = u.abs /\ t.blockNr = u.blockNr /\ t.pos = u.pos /\ t.xbuf = u.xbuf
          /\ t.finished = u.finished /\ t.expectOACK = u.expectOACK
          /\ t.blksize = u.blksize /\ t.retries = u.retries
      BY <1>4, GotoIs
    <2> HIDE DEF t
    <2>2. t.retries >= 1 /\ t.retries = s.retries - 1
      BY <1>3, <1>4, <1>7, <2>1
    <2>3. Quiet(p, t) /\ t.result # "fail"
      BY <1>1, <1>4, <1>5, <2>1, <2>2 DEF Quiet, Good
    <2> QED  BY <1>7, <2>3, QuietStep, LocalsOf, Zenon
  <1> QED  BY <1>2, <1>6, <1>7

\* send_again: keeps the invariant, and p transmits.
LEMMA SendStep ==
  ASSUME Sound, NEW p \in Procs, Send(p)
  PROVE  Sound' /\ Moves(p)
  <1> DEFINE s == proc[p]
             t == IF FinalAckSent(s) THEN Exit(s, "ok") ELSE [s EXCEPT !.pc = "recv"]
  <1>1. /\ s.pc = "send" /\ proc' = [proc EXCEPT ![p] = t] /\ job' = job /\ file' = file
        /\ net' = Live(s.xbuf.abs) \cup {s.xbuf}
    BY DEF Send
  <1>2. s \in Locals /\ Good(p, s)
    BY LocalsOf
  <1>3. /\ t \in Locals /\ t.abs = s.abs /\ t.blockNr = s.blockNr /\ t.pos = s.pos
        /\ t.xbuf = s.xbuf /\ t.finished = s.finished /\ t.expectOACK = s.expectOACK
        /\ t.blksize = s.blksize
        /\ \/ FinalAckSent(s) /\ t.pc = "exit" /\ t.result = "ok"
           \/ ~FinalAckSent(s) /\ t.pc = "recv" /\ t.result = s.result /\ t.retries = s.retries
    <2>1. CASE FinalAckSent(s)
      BY <1>2, <2>1, ExitIs
    <2>2. CASE ~FinalAckSent(s)
      BY <1>2, <2>2, GotoIs
    <2> QED  BY <2>1, <2>2
  <1> HIDE DEF t
  <1>4. Good(p, t) /\ s.result = "none"
    BY <1>1, <1>2, <1>3 DEF Good
  <1>5. s.xbuf \in Packets
    BY <1>2 DEF Locals
  <1>6. /\ net' \subseteq Packets
        /\ \A m \in net' : m \in net \/ m.op = "ERROR" \/ (m = proc[p].xbuf /\ proc[p].pc = "send")
    BY <1>1, <1>5, LocalsOf DEF Live
  <1>7. t.pc # "start" /\ (t.expectOACK => Waits)
    BY <1>2, <1>3 DEF Good, Waits
  <1>8. Waits /\ p = "tftpd" /\ t.xbuf.op \in Body => Neg = BlkDefault
    BY <1>3 DEF Sound, Answered
  <1>9. Sound'
    BY <1>1, <1>4, <1>6, <1>7, <1>8, Frame, LocalsOf, Zenon
  <1>10. proc'[p] = t
    BY <1>1 DEF Sound
  <1>11. Tidy(p) /\ Patient(p) /\ Transmits(p)
    BY <1>1, <1>3, <1>4, <1>10 DEF Tidy, Patient, Transmits
  <1> QED  BY <1>1, <1>9, <1>10, <1>11 DEF Moves

\* The locals at send_pkt:.
LEMMA ToSendIs ==
  ASSUME job \in Jobs, NEW s \in Locals, NEW x \in Packets
  PROVE  LET t == ToSend(s, x)
         IN  /\ t \in Locals /\ t.pc = "send" /\ t.result = s.result /\ t.retries = Retries
             /\ t.abs = s.abs /\ t.blockNr = s.blockNr /\ t.pos = s.pos /\ t.xbuf = x
             /\ t.finished = s.finished /\ t.expectOACK = s.expectOACK
             /\ t.blksize = s.blksize
  <1>1. Retries \in 0..Retries
    BY SizesPositive
  <1>2. x.op \in Ops
    BY DEF Packets
  <1> QED  BY <1>1, <1>2 DEF ToSend, Locals

\* The locals of a process that has not started.
LEMMA InitProcIs ==
  ASSUME job \in Jobs, NEW p \in Procs
  PROVE  LET s == InitProc(p)
         IN  /\ s \in Locals /\ s.pc = "start" /\ s.result = "none" /\ ~s.expectOACK
             /\ ~s.finished /\ s.blockNr = 1 /\ s.abs = 1 /\ s.pos = 0 /\ s.retries = Retries
             /\ s.xbuf = Pkt(p, "none", 0, 0, 0, 0) /\ s.blksize = BlkDefault
  <1> DEFINE x == Pkt(p, "none", 0, 0, 0, 0)
  <1>1. x \in Packets
    BY ModulusBig DEF Pkt, Packets, Ops
  <1> HIDE DEF x
  <1>2. InitProc(p) =
          [pc |-> "start", result |-> "none", opcode |-> "none", blksize |-> BlkDefault,
           expectOACK |-> FALSE, finished |-> FALSE, blockNr |-> 1, abs |-> 1, pos |-> 0,
           retries |-> Retries, xbuf |-> x]
    BY DEF InitProc, x
  <1>3. 1 \in 0..(Modulus - 1) /\ Retries \in 0..Retries /\ BlkDefault \in Nat \ {0}
    BY ModulusBig, SizesPositive
  <1>4. InitProc(p) \in Locals
    BY <1>1, <1>2, <1>3 DEF Locals, Ops
  <1> QED  BY <1>2, <1>4 DEF x

\* A first packet, request or OACK, from the locals s.
LEMMA FirstStep ==
  ASSUME Sound, NEW p \in Procs, proc[p].pc = "start", NEW s \in Locals,
         s.result = "none", ~s.finished, s.blockNr = 1, s.abs = 1, s.pos = 0,
         s.expectOACK => p = "tftp",
         s.blksize = (IF s.expectOACK THEN job.want ELSE Neg),
         NEW x \in Packets, x.src = p, x.op \in {"RRQ", "WRQ", "OACK"}, x.abs = 0, PktOK(x),
         proc' = [proc EXCEPT ![p] = ToSend(s, x)], job' = job, net' = net,
         file' \in [present : BOOLEAN, bytes : Seq(Nat)],
         file' = file \/ (~Sends(p) /\ file'.bytes = << >>)
  PROVE  Sound' /\ Moves(p)
  <1> DEFINE t == ToSend(s, x)
  <1>1. /\ t \in Locals /\ t.pc = "send" /\ t.result = s.result /\ t.retries = Retries
        /\ t.abs = s.abs /\ t.blockNr = s.blockNr /\ t.pos = s.pos /\ t.xbuf = x
        /\ t.finished = s.finished /\ t.expectOACK = s.expectOACK
        /\ t.blksize = s.blksize
    BY ToSendIs, LocalsOf
  <1> HIDE DEF t
  <1>2. t.retries >= 1 /\ 0 <= job.readable
    BY <1>1, SizesPositive, LocalsOf
  <1>3. t.xbuf.op \notin Body
    BY <1>1 DEF Body
  <1>4. Good(p, t)
    BY <1>1, <1>2, <1>3, WrapSmall DEF Good, Body
  <1>5. /\ proc[p].abs = 1 /\ proc[p].pos = 0 /\ ~proc[p].finished /\ proc[p].finished \in BOOLEAN
        /\ proc[p].result = "none"
    <2>1. proc[p] \in Locals /\ proc[p] = InitProc(p) /\ job \in Jobs
      BY LocalsOf DEF Good
    <2> QED  BY <2>1, InitProcIs DEF Locals
  <1>6. t.pc # "start" /\ (t.expectOACK => Waits)
    BY <1>1 DEF Waits
  <1>7. Waits /\ p = "tftpd" /\ t.xbuf.op \in Body => Neg = BlkDefault
    BY <1>3
  <1>8. Sound'
    BY <1>4, <1>6, <1>7, Frame, LocalsOf, Zenon DEF t
  <1>9. proc'[p] = t
    BY DEF Sound, t
  <1>10. t.finished = proc[p].finished
    <2>1. t.finished \in BOOLEAN
      BY <1>1 DEF Locals
    <2> QED  BY <1>1, <1>5, <2>1
  <1>11. Tidy(p) /\ Patient(p)
    BY <1>1, <1>9 DEF Tidy, Patient
  <1>12. Rests(p)
    BY <1>1, <1>5, <1>9, <1>10 DEF Rests
  <1> QED  BY <1>8, <1>9, <1>11, <1>12 DEF Moves, t

\* tftp_main() keeps the invariant; the client rests.
LEMMA ClientStartStep ==
  ASSUME Sound, ClientStart
  PROVE  Sound' /\ Moves("tftp")
  <1> DEFINE p == "tftp"
             s == [proc["tftp"] EXCEPT !.blksize = job.want, !.expectOACK = TRUE]
             op == IF job.cmd = "put" THEN "WRQ" ELSE "RRQ"
             x == Pkt("tftp", op, 0, 0, job.want, 0)
  <1>1. p \in Procs
    BY DEF Procs
  <1>2. proc[p] \in Locals /\ Good(p, proc[p])
    BY <1>1, LocalsOf
  <1>3. /\ s \in Locals /\ s.pc = proc[p].pc /\ s.result = proc[p].result
        /\ s.abs = proc[p].abs /\ s.blockNr = proc[p].blockNr /\ s.pos = proc[p].pos
        /\ s.xbuf = proc[p].xbuf /\ s.finished = proc[p].finished /\ s.expectOACK
        /\ s.blksize = job.want
    <2>1. job.want \in Nat \ {0}
      BY <1>1, SizesPositive, LocalsOf
    <2> QED  BY <1>2, <2>1 DEF Locals
  <1>4. proc[p].pc = "start"
    BY <1>3 DEF ClientStart
  <1>5. /\ s.result = "none" /\ ~s.finished /\ s.blockNr = 1 /\ s.abs = 1 /\ s.pos = 0
    BY <1>1, <1>2, <1>3, <1>4, InitProcIs, LocalsOf DEF Good
  <1>6. /\ job' = job /\ net' = net /\ file' = file
        /\ \/ proc' = [proc EXCEPT !["tftp"] = ToSend(s, x)]
           \/ proc' = [proc EXCEPT !["tftp"] = Exit(s, "die")]
    BY DEF ClientStart
  <1> HIDE DEF s
  <1>7. CASE proc' = [proc EXCEPT !["tftp"] = ToSend(s, x)]
    <2>1. /\ x \in Packets /\ x.src = p /\ x.op \in {"RRQ", "WRQ", "OACK"} /\ x.abs = 0
          /\ PktOK(x)
      <3>1. job.want \in Nat /\ 0 \in 0..(Modulus - 1) /\ op \in Ops
        BY <1>1, SizesPositive, LocalsOf, ModulusBig DEF Ops
      <3>2. op \in {"RRQ", "WRQ"}
        OBVIOUS
      <3>3. x.src = p /\ x.op = op /\ x.abs = 0 /\ x.n = job.want
        BY DEF Pkt
      <3>4. x \in Packets
        BY <1>1, <3>1 DEF Pkt, Packets
      <3>5. PktOK(x)
        BY <3>2, <3>3 DEF PktOK
      <3> QED  BY <3>2, <3>3, <3>4, <3>5
    <2> HIDE DEF x
    <2> QED  BY <1>1, <1>3, <1>4, <1>5, <1>6, <1>7, <2>1, FirstStep, LocalsOf
  <1>8. CASE proc' = [proc EXCEPT !["tftp"] = Exit(s, "die")]
    <2> DEFINE t == Exit(s, "die")
    <2>1. /\ t \in Locals /\ t.pc = "exit" /\ t.result = "die"
          /\ t.abs = s.abs /\ t.blockNr = s.blockNr /\ t.pos = s.pos /\ t.xbuf = s.xbuf
          /\ t.finished = s.finished /\ t.expectOACK = s.expectOACK
          /\ t.blksize = s.blksize
      BY <1>3, ExitIs
    <2> HIDE DEF t
    <2>2. Quiet(p, t) /\ t.result # "fail"
      BY <1>3, <1>4, <2>1 DEF Quiet
    <2>3. proc' = [proc EXCEPT ![p] = t]
      BY <1>8 DEF t
    <2> QED  BY <1>1, <1>6, <2>2, <2>3, QuietStep, LocalsOf, Zenon
  <1> QED  BY <1>6, <1>7, <1>8

\* A receiver's ACK 0: to a request, or to an OACK.
LEMMA AckZeroStep ==
  ASSUME Sound, NEW p \in Procs, NEW u \in Locals, ~Sends(p), BuildNext(p, u),
         proc[p].pc \in {"start", "recv"}, proc[p].abs = 1, proc[p].xbuf.op \notin Body,
         u.abs = 0, u.blockNr = 0, u.pos = proc[p].pos, u.finished = proc[p].finished,
         u.result = "none", ~u.expectOACK, u.blksize = Neg,
         file' \in [present : BOOLEAN, bytes : Seq(Nat)],
         file'.bytes = file.bytes \/ (proc[p].pc = "start" /\ file'.bytes = << >>),
         Waits /\ p = "tftpd" => Neg = BlkDefault
  PROVE  Sound' /\ Moves(p)
  <1> DEFINE s == proc[p]
             t == Build(p, u)
  <1>1. /\ s \in Locals /\ Good(p, s) /\ job \in Jobs /\ net \subseteq Packets
    BY LocalsOf
  <1>2. proc' = [proc EXCEPT ![p] = t] /\ job' = job /\ net' = net
    BY DEF BuildNext
  <1>3. u.pos <= job.readable /\ u.blockNr = Wrap(u.abs)
    BY <1>1, WrapSmall DEF Good
  <1>4. Good(p, t)
    BY <1>1, <1>3, BuildGood
  <1>5. /\ t.pc = "send" /\ t.result = "none" /\ t.abs = 0 + 1 /\ t.pos = u.pos + BuildN(p, u)
        /\ t.finished <=> u.finished \/ (Sends(p) /\ BuildN(p, u) # u.blksize)
        /\ t.expectOACK = u.expectOACK /\ t \in Locals
        /\ t.xbuf = Pkt(p, BuildOp(p), u.blockNr, u.pos, BuildN(p, u), u.abs)
    BY <1>1, <1>3, BuildIs
  <1>6. t.xbuf.op \in Body
    BY <1>5 DEF Pkt, BuildOp, Body
  <1> HIDE DEF t
  <1>7. t.pos = s.pos /\ t.finished = s.finished /\ t.abs = 1
    BY <1>1, <1>5 DEF BuildN, Locals
  <1>8. Sound'
    <2>1. t.pc # "start" /\ (t.expectOACK => Waits)
      BY <1>5
    <2>2. \A m \in net' : m \in net \/ m.op = "ERROR" \/ (m = proc[p].xbuf /\ proc[p].pc = "send")
      BY <1>2
    <2> QED  BY <1>1, <1>2, <1>4, <2>1, <2>2, Frame, Zenon
  <1>9. proc'[p] = t
    BY <1>2 DEF Sound
  <1>10. t.xbuf # s.xbuf
    BY <1>6
  <1>11. Tidy(p) /\ Patient(p)
    BY <1>5, <1>9, <1>10 DEF Tidy, Patient
  <1>12. Rests(p)
    BY <1>2, <1>5, <1>7, <1>9 DEF Rests
  <1> QED  BY <1>2, <1>8, <1>9, <1>11, <1>12 DEF Moves

\* A sender's next block, or its read that fails.
LEMMA NextBlockStep ==
  ASSUME Sound, NEW p \in Procs, NEW u \in Locals, Sends(p), BuildNext(p, u), file' = file,
         proc[p].pc \in {"start", "recv"},
         proc[p].abs = 1 \/ \E m \in net : m.op = "ACK" /\ m.blk = Wrap(proc[p].abs - 1),
         proc[p].pc = "start" => proc[p].abs = 1,
         u.abs = proc[p].abs, u.blockNr = proc[p].blockNr, u.pos = proc[p].pos,
         u.xbuf = proc[p].xbuf, u.finished = proc[p].finished,
         u.result = "none", ~u.expectOACK, u.blksize = Neg,
         Waits /\ p = "tftpd" => Neg = BlkDefault
  PROVE  Sound' /\ Moves(p)
  <1> DEFINE s == proc[p]
             b == Build(p, u)
             t == [u EXCEPT !.pc = "err"]
  <1>1. /\ s \in Locals /\ Good(p, s) /\ job \in Jobs /\ net \subseteq Packets
        /\ file \in [present : BOOLEAN, bytes : Seq(Nat)]
    BY LocalsOf
  <1>2. /\ proc' = [proc EXCEPT ![p] = b] \/ proc' = [proc EXCEPT ![p] = t]
        /\ job' = job /\ net' = net
    BY DEF BuildNext
  <1>3. CASE proc' = [proc EXCEPT ![p] = t]
    <2>1. /\ t \in Locals /\ t.pc = "err" /\ t.result = u.result
          /\ t.abs = u.abs /\ t.blockNr = u.blockNr /\ t.pos = u.pos /\ t.xbuf = u.xbuf
          /\ t.finished = u.finished /\ t.expectOACK = u.expectOACK
          /\ t.blksize = u.blksize
      BY GotoIs
    <2> HIDE DEF t
    <2>2. Quiet(p, t) /\ t.result # "fail"
      BY <2>1 DEF Quiet
    <2> QED  BY <1>1, <1>2, <1>3, <2>2, QuietStep, Zenon
  <1>4. CASE proc' = [proc EXCEPT ![p] = b]
    <2>1. /\ u.pos <= job.readable /\ u.blockNr = Wrap(u.abs) /\ u.abs >= 1
          /\ s.xbuf.abs = s.abs - 1 /\ s.abs \in Nat
      BY <1>1 DEF Good, Locals
    <2>2. Good(p, b)
      BY <1>1, <2>1, BuildGood
    <2>3. /\ b.pc = "send" /\ b.result = "none" /\ b.abs = u.abs + 1
          /\ b.pos = u.pos + BuildN(p, u) /\ b.expectOACK = u.expectOACK
          /\ b.xbuf = Pkt(p, BuildOp(p), u.blockNr, u.pos, BuildN(p, u), u.abs)
      BY <1>1, <2>1, BuildIs
    <2>4. /\ b.xbuf.op = "DATA" /\ b.xbuf.off = s.pos /\ b.xbuf.abs = s.abs
          /\ b.xbuf.n = Min(Neg, job.readable - s.pos)
          /\ b.xbuf.n = BuildN(p, u)
      BY <2>3 DEF Pkt, BuildOp, BuildN
    <2> HIDE DEF b
    <2>5. Sound'
      <3>1. b.pc # "start" /\ (b.expectOACK => Waits)
        BY <2>3
      <3>2. \A m \in net' : m \in net \/ m.op = "ERROR" \/ (m = proc[p].xbuf /\ proc[p].pc = "send")
        BY <1>2
      <3> QED  BY <1>1, <1>2, <1>4, <2>2, <3>1, <3>2, Frame, Zenon
    <2>6. proc'[p] = b
      BY <1>4 DEF Sound
    <2>7. b.xbuf # s.xbuf
      BY <2>1, <2>4
    <2>8. Tidy(p) /\ Patient(p)
      BY <2>3, <2>6, <2>7 DEF Tidy, Patient
    <2>9. Advances(p)
      BY <1>2, <2>3, <2>4, <2>6 DEF Advances
    <2> QED  BY <1>2, <1>4, <2>5, <2>6, <2>8, <2>9 DEF Moves
  <1> QED  BY <1>2, <1>3, <1>4

\* tftpd's start keeps the invariant; it rests or reads its first block.
LEMMA ServerStartStep ==
  ASSUME Sound, ServerStart
  PROVE  Sound' /\ Moves("tftpd")
  <1> DEFINE p == "tftpd"
             s0 == proc[p]
  <1>1. p \in Procs
    BY DEF Procs
  <1>2. /\ s0 \in Locals /\ Good(p, s0) /\ job \in Jobs /\ net \subseteq Packets
        /\ file \in [present : BOOLEAN, bytes : Seq(Nat)]
    BY <1>1, LocalsOf
  <1>3. s0.pc = "start"
    BY DEF ServerStart
  <1>4. /\ s0.result = "none" /\ ~s0.finished /\ s0.blockNr = 1 /\ s0.abs = 1 /\ s0.pos = 0
        /\ ~s0.expectOACK
    <2>1. s0 = InitProc(p)
      BY <1>2, <1>3 DEF Good
    <2> QED  BY <1>1, <1>2, <2>1, InitProcIs
  <1>5. PICK m \in Requests :
          LET blk == BlksizeOf(m)
              s == [s0 EXCEPT !.blksize = blk]
              oack == blk # BlkDefault \/ WantTransferSize(m)
              created == IF m.op = "WRQ" THEN [present |-> TRUE, bytes |-> << >>]
                                         ELSE file
          IN  \/ /\ oack
                 /\ proc' = [proc EXCEPT !["tftpd"] =
                               ToSend(s, Pkt("tftpd", "OACK", 0, 0, blk, 0))]
                 /\ file' = created
                 /\ UNCHANGED <<job, net>>
              \/ /\ ~oack /\ m.op = "WRQ"
                 /\ BuildNext("tftpd", [s EXCEPT !.blockNr = 0, !.abs = 0])
                 /\ file' = created
              \/ /\ ~oack /\ m.op = "RRQ"
                 /\ BuildNext("tftpd", s)
                 /\ file' = created
              \/ /\ "refuse" \in Faults
                 /\ proc' = [proc EXCEPT !["tftpd"] = [s EXCEPT !.pc = "err"]]
                 /\ UNCHANGED <<job, net, file>>
    BY DEF ServerStart
  <1> DEFINE blk == BlksizeOf(m)
             s == [s0 EXCEPT !.blksize = blk]
             oack == blk # BlkDefault \/ WantTransferSize(m)
             created == IF m.op = "WRQ" THEN [present |-> TRUE, bytes |-> << >>] ELSE file
             x == Pkt("tftpd", "OACK", 0, 0, blk, 0)
  <1>6. m \in net /\ m.op \in {"RRQ", "WRQ"} /\ PktOK(m)
    BY DEF Requests, Sound
  <1>7. blk = Neg /\ Neg \in Nat \ {0}
    BY <1>2, <1>6, SizesPositive DEF BlksizeOf, PktOK, Neg
  <1>8. m.op = "WRQ" <=> ~Sends(p)
    BY <1>2, <1>6, SizesPositive DEF PktOK, Sends
  <1>9. /\ s \in Locals /\ s.pc = "start" /\ s.result = "none" /\ ~s.finished
        /\ s.blockNr = 1 /\ s.abs = 1 /\ s.pos = 0 /\ ~s.expectOACK /\ s.blksize = Neg
        /\ s.xbuf = s0.xbuf /\ s.finished = s0.finished /\ s.expectOACK = s0.expectOACK
    <2> HIDE DEF blk
    <2> QED  BY <1>2, <1>3, <1>4, <1>7 DEF Locals
  <1>10. /\ created \in [present : BOOLEAN, bytes : Seq(Nat)]
         /\ created = file \/ (~Sends(p) /\ created.bytes = << >>)
    <2>1. CASE m.op = "WRQ"
      BY <1>8, <2>1
    <2>2. CASE m.op # "WRQ"
      BY <1>2, <2>2
    <2> QED  BY <2>1, <2>2
  <1>11. \/ /\ proc' = [proc EXCEPT ![p] = ToSend(s, x)] /\ file' = created
            /\ job' = job /\ net' = net
         \/ /\ ~oack /\ m.op = "WRQ" /\ file' = created
            /\ BuildNext(p, [s EXCEPT !.blockNr = 0, !.abs = 0])
         \/ /\ ~oack /\ m.op = "RRQ" /\ file' = created
            /\ BuildNext(p, s)
         \/ /\ proc' = [proc EXCEPT ![p] = [s EXCEPT !.pc = "err"]]
            /\ job' = job /\ net' = net /\ file' = file
    BY <1>5
  <1> HIDE DEF s, created
  <1>12. ~oack => Neg = BlkDefault
    BY <1>7
  <1> HIDE DEF oack
  <1>13. CASE /\ proc' = [proc EXCEPT ![p] = ToSend(s, x)] /\ file' = created
              /\ job' = job /\ net' = net
    <2>1. x.src = p /\ x.op = "OACK" /\ x.abs = 0 /\ x.n = Neg
      BY <1>7 DEF Pkt
    <2>2. x \in Packets
      BY <1>1, <1>7, ModulusBig DEF Pkt, Packets, Ops
    <2>3. PktOK(x)
      BY <2>1 DEF PktOK
    <2> HIDE DEF x
    <2>4. x.op \in {"RRQ", "WRQ", "OACK"}
      BY <2>1
    <2> QED  BY <1>1, <1>3, <1>9, <1>10, <1>13, <2>1, <2>2, <2>3, <2>4, FirstStep
  <1>14. CASE /\ proc' = [proc EXCEPT ![p] = [s EXCEPT !.pc = "err"]]
              /\ job' = job /\ net' = net /\ file' = file
    <2> DEFINE t == [s EXCEPT !.pc = "err"]
    <2>1. /\ t \in Locals /\ t.pc = "err" /\ t.result = s.result
          /\ t.abs = s.abs /\ t.blockNr = s.blockNr /\ t.pos = s.pos /\ t.xbuf = s.xbuf
          /\ t.finished = s.finished /\ t.expectOACK = s.expectOACK
          /\ t.blksize = s.blksize
      BY <1>9, GotoIs
    <2>2. proc' = [proc EXCEPT ![p] = t]
      BY <1>14
    <2> HIDE DEF t
    <2>3. Quiet(p, t) /\ t.result # "fail"
      BY <1>3, <1>4, <1>9, <2>1 DEF Quiet
    <2> QED  BY <1>1, <1>2, <1>14, <2>2, <2>3, QuietStep, Zenon
  <1>15. CASE /\ ~oack /\ m.op = "WRQ" /\ file' = created
              /\ BuildNext(p, [s EXCEPT !.blockNr = 0, !.abs = 0])
    <2> DEFINE u == [s EXCEPT !.blockNr = 0, !.abs = 0]
    <2>1. ~Sends(p)
      BY <1>8, <1>15
    <2>2. /\ u \in Locals /\ u.result = "none" /\ u.finished = s.finished
          /\ u.blockNr = 0 /\ u.abs = 0 /\ u.pos = 0 /\ ~u.expectOACK /\ u.blksize = Neg
      <3>1. 0 \in 0..(Modulus - 1)
        BY ModulusBig
      <3> QED  BY <1>9, <3>1 DEF Locals
    <2>3. BuildNext(p, u)
      BY <1>15
    <2> HIDE DEF u
    <2>4. file'.bytes = << >>
      BY <1>15 DEF created
    <2>5. s0.xbuf.op \notin Body
      <3>1. s0 = InitProc(p)
        BY <1>2, <1>3 DEF Good
      <3> QED  BY <3>1 DEF InitProc, Pkt, Body
    <2> QED  BY <1>1, <1>3, <1>4, <1>9, <1>10, <1>12, <1>15, <2>1, <2>2, <2>3, <2>4, <2>5,
                AckZeroStep
  <1>16. CASE /\ ~oack /\ m.op = "RRQ" /\ file' = created
              /\ BuildNext(p, s)
    <2>1. Sends(p) /\ created = file
      BY <1>8, <1>16 DEF created
    <2> QED  BY <1>1, <1>3, <1>4, <1>9, <1>12, <1>16, <2>1, NextBlockStep
  <1> QED  BY <1>11, <1>13, <1>14, <1>15, <1>16

\* The locals once an answer is in rbuf: only opcode has changed.
LEMMA ReadIs ==
  ASSUME Sound, NEW p \in Procs, proc[p].pc = "recv", NEW m \in net
  PROVE  LET r == [proc[p] EXCEPT !.opcode = m.op]
         IN  /\ r \in Locals /\ r.pc = "recv" /\ r.result = "none" /\ r.retries = proc[p].retries
             /\ r.abs = proc[p].abs /\ r.blockNr = proc[p].blockNr /\ r.pos = proc[p].pos
             /\ r.xbuf = proc[p].xbuf /\ r.finished = proc[p].finished
             /\ r.expectOACK = proc[p].expectOACK /\ r.blksize = proc[p].blksize
  <1>1. m.op \in Ops
    BY DEF Sound, Packets
  <1>2. proc[p] \in Locals /\ proc[p].result = "none"
    BY LocalsOf DEF Good
  <1> QED  BY <1>1, <1>2 DEF Locals

\* Past the OACK branch nobody waits for an OACK, and the block size is the
\* one that both ends agree on.
LEMMA FallbackIs ==
  ASSUME Sound, NEW p \in Procs, proc[p].pc = "recv", NEW m \in net, m.src = Peer(p),
         m.op # "ERROR", ~(proc[p].expectOACK /\ m.op = "OACK")
  PROVE  LET s == Fallback([proc[p] EXCEPT !.opcode = m.op])
         IN  /\ s \in Locals /\ s.pc = "recv" /\ s.result = "none" /\ s.retries = proc[p].retries
             /\ s.abs = proc[p].abs /\ s.blockNr = proc[p].blockNr /\ s.pos = proc[p].pos
             /\ s.xbuf = proc[p].xbuf /\ s.finished = proc[p].finished
             /\ ~s.expectOACK /\ s.blksize = Neg
  <1> DEFINE r == [proc[p] EXCEPT !.opcode = m.op]
             s == Fallback(r)
  <1>1. /\ r \in Locals /\ r.pc = "recv" /\ r.result = "none" /\ r.retries = proc[p].retries
        /\ r.abs = proc[p].abs /\ r.blockNr = proc[p].blockNr /\ r.pos = proc[p].pos
        /\ r.xbuf = proc[p].xbuf /\ r.finished = proc[p].finished
        /\ r.expectOACK = proc[p].expectOACK /\ r.blksize = proc[p].blksize
    BY ReadIs
  <1>2. Good(p, proc[p]) /\ job \in Jobs
    BY LocalsOf
  <1> HIDE DEF r
  <1>3. CASE r.expectOACK
    <2>1. p = "tftp" /\ Waits
      BY <1>1, <1>2, <1>3 DEF Good, Waits
    <2>2. m.src = "tftpd" /\ m.op \in Ops /\ PktOK(m) /\ m.op # "none"
      BY <2>1 DEF Peer, Sound, Packets
    <2>3. m.op \in Body
      BY <1>1, <1>3, <2>2 DEF PktOK, Ops, Body
    <2>4. Neg = BlkDefault
      BY <2>1, <2>3 DEF Sound, Answered
    <2>5. s = [r EXCEPT !.expectOACK = FALSE, !.blksize = BlkDefault]
      BY <1>3, Zenon DEF Fallback
    <2>6. BlkDefault \in Nat \ {0}
      BY <1>2, SizesPositive
    <2> HIDE DEF s
    <2>7. /\ s \in Locals /\ s.pc = r.pc /\ s.result = r.result /\ s.retries = r.retries
          /\ s.abs = r.abs /\ s.blockNr = r.blockNr /\ s.pos = r.pos /\ s.xbuf = r.xbuf
          /\ s.finished = r.finished /\ ~s.expectOACK /\ s.blksize = BlkDefault
      BY <1>1, <2>5, <2>6 DEF Locals
    <2> QED  BY <1>1, <2>4, <2>7 DEF s, r
  <1>4. CASE ~r.expectOACK
    <2>1. s = r
      BY <1>4, Zenon DEF Fallback
    <2>2. proc[p].blksize = Neg
      BY <1>1, <1>2, <1>4 DEF Good
    <2> QED  BY <1>1, <1>4, <2>1, <2>2 DEF r
  <1> QED  BY <1>3, <1>4 DEF s

\* The client's DATA and ACK reach tftpd only once it has had an answer.
LEMMA BodyFrom ==
  ASSUME Sound, NEW p \in Procs, NEW m \in net, m.src = Peer(p), m.op \in Body
  PROVE  Waits /\ p = "tftpd" => Neg = BlkDefault
  BY DEF Sound, Answered

\* An OACK keeps the invariant; p answers it with ACK 0 or its first block.
LEMMA RecvOACKStep ==
  ASSUME Sound, NEW p \in Procs, proc[p].pc = "recv", NEW m \in net,
         RecvOACK(p, [proc[p] EXCEPT !.opcode = m.op], m)
  PROVE  Sound' /\ Moves(p)
  <1> DEFINE r == [proc[p] EXCEPT !.opcode = m.op]
             t == [r EXCEPT !.expectOACK = FALSE, !.blksize = m.n]
             z == [t EXCEPT !.blockNr = 0, !.abs = 0]
  <1>1. /\ r \in Locals /\ r.pc = "recv" /\ r.result = "none" /\ r.retries = proc[p].retries
        /\ r.abs = proc[p].abs /\ r.blockNr = proc[p].blockNr /\ r.pos = proc[p].pos
        /\ r.xbuf = proc[p].xbuf /\ r.finished = proc[p].finished
        /\ r.expectOACK = proc[p].expectOACK /\ r.blksize = proc[p].blksize
    BY ReadIs
  <1>2. /\ r.expectOACK /\ m.op = "OACK" /\ file' = file
        /\ BuildNext(p, IF Sends(p) THEN t ELSE z)
    BY DEF RecvOACK
  <1> HIDE DEF r
  <1>3. Good(p, proc[p]) /\ job \in Jobs /\ file \in [present : BOOLEAN, bytes : Seq(Nat)]
    BY LocalsOf
  <1>4. p = "tftp" /\ proc[p].abs = 1 /\ proc[p].xbuf.op \notin Body
    BY <1>1, <1>2, <1>3 DEF Good
  <1>5. m.n = Neg /\ Neg \in Nat \ {0}
    BY <1>2, <1>3, SizesPositive DEF Sound, PktOK
  <1>6. /\ t \in Locals /\ t.pc = "recv" /\ t.result = "none"
        /\ t.abs = proc[p].abs /\ t.blockNr = proc[p].blockNr /\ t.pos = proc[p].pos
        /\ t.xbuf = proc[p].xbuf /\ t.finished = proc[p].finished
        /\ ~t.expectOACK /\ t.blksize = Neg
    BY <1>1, <1>5 DEF Locals
  <1> HIDE DEF t
  <1>7. CASE Sends(p)
    <2>1. BuildNext(p, t)
      BY <1>2, <1>7
    <2> QED  BY <1>2, <1>4, <1>6, <1>7, <2>1, NextBlockStep
  <1>8. CASE ~Sends(p)
    <2>1. BuildNext(p, z)
      BY <1>2, <1>8
    <2>2. /\ z \in Locals /\ z.result = "none" /\ z.abs = 0 /\ z.blockNr = 0
          /\ z.pos = proc[p].pos /\ z.finished = proc[p].finished
          /\ ~z.expectOACK /\ z.blksize = Neg
      <3>1. 0 \in 0..(Modulus - 1)
        BY ModulusBig
      <3> QED  BY <1>6, <3>1 DEF Locals
    <2> HIDE DEF z
    <2> QED  BY <1>2, <1>3, <1>4, <1>8, <2>1, <2>2, AckZeroStep
  <1> QED  BY <1>7, <1>8

\* The awaited ACK keeps the invariant; p exits or reads the next block.
LEMMA RecvAckStep ==
  ASSUME Sound, NEW p \in Procs, proc[p].pc = "recv", NEW m \in net, m.src = Peer(p),
         m.op # "ERROR", ~(proc[p].expectOACK /\ m.op = "OACK"),
         RecvAck(p, Fallback([proc[p] EXCEPT !.opcode = m.op]), m)
  PROVE  Sound' /\ Moves(p)
  <1> DEFINE s == Fallback([proc[p] EXCEPT !.opcode = m.op])
  <1>1. /\ s \in Locals /\ s.pc = "recv" /\ s.result = "none" /\ s.retries = proc[p].retries
        /\ s.abs = proc[p].abs /\ s.blockNr = proc[p].blockNr /\ s.pos = proc[p].pos
        /\ s.xbuf = proc[p].xbuf /\ s.finished = proc[p].finished
        /\ ~s.expectOACK /\ s.blksize = Neg
    BY FallbackIs
  <1> HIDE DEF s
  <1>2. IsAckOfLast(p, s, m) /\ (Ret(p, s) \/ (BuildNext(p, s) /\ file' = file))
    BY DEF RecvAck, s
  <1>3. Sends(p) /\ m.op = "ACK" /\ m.op \in Body /\ m.blk = (s.blockNr + Modulus - 1) % Modulus
    BY <1>2 DEF IsAckOfLast, Body
  <1>4. proc[p].abs \in Nat /\ proc[p].abs >= 1 /\ proc[p].blockNr = Wrap(proc[p].abs)
    BY LocalsOf DEF Good, Locals
  <1>5. m.blk = Wrap(proc[p].abs - 1)
    <2> DEFINE x == proc[p].abs - 1
    <2>1. x \in Nat /\ x + 1 = proc[p].abs
      BY <1>4
    <2> HIDE DEF x
    <2>2. (Wrap(x + 1) + Modulus - 1) % Modulus = Wrap(x)
      BY <2>1, WrapBack
    <2> QED  BY <1>1, <1>3, <1>4, <2>1, <2>2 DEF x
  <1>6. CASE Ret(p, s)
    BY <1>1, <1>6, RetStep
  <1>7. CASE BuildNext(p, s) /\ file' = file
    BY <1>1, <1>3, <1>5, <1>7, BodyFrom, NextBlockStep
  <1> QED  BY <1>2, <1>6, <1>7

\* Any other answer keeps the invariant, and p rests.
LEMMA RecvOtherStep ==
  ASSUME Sound, NEW p \in Procs, proc[p].pc = "recv", NEW m \in net, m.src = Peer(p),
         m.op # "ERROR", ~(proc[p].expectOACK /\ m.op = "OACK"),
         RecvOther(p, Fallback([proc[p] EXCEPT !.opcode = m.op]), m)
  PROVE  Sound' /\ Moves(p)
  <1> DEFINE s == Fallback([proc[p] EXCEPT !.opcode = m.op])
  <1>1. /\ s \in Locals /\ s.pc = "recv" /\ s.result = "none" /\ s.retries = proc[p].retries
        /\ s.abs = proc[p].abs /\ s.blockNr = proc[p].blockNr /\ s.pos = proc[p].pos
        /\ s.xbuf = proc[p].xbuf /\ s.finished = proc[p].finished
        /\ ~s.expectOACK /\ s.blksize = Neg
    BY FallbackIs
  <1>2. proc' = [proc EXCEPT ![p] = s] /\ job' = job /\ net' = net /\ file' = file
    BY DEF RecvOther
  <1> HIDE DEF s
  <1>3. Good(p, proc[p])
    BY LocalsOf
  <1>4. Quiet(p, s) /\ s.result # "fail"
    BY <1>1, <1>3 DEF Quiet, Good
  <1> QED  BY <1>2, <1>4, QuietStep, LocalsOf, Zenon

\* What a write appends.
LEMMA ReceivedIs ==
  ASSUME Sound, NEW p \in Procs, NEW m \in net
  PROVE  /\ Received(proc[p], m) \in Nat /\ m.off \in Nat
         /\ \A k \in 0..Received(proc[p], m) :
              file.bytes \o Bytes(m.off, k) \in Seq(Nat)
  <1>1. m \in Packets /\ proc[p] \in Locals /\ file.bytes \in Seq(Nat)
    BY DEF Sound
  <1>2. m.n \in Nat /\ m.off \in Nat /\ proc[p].blksize \in Nat
    BY <1>1 DEF Packets, Locals
  <1>3. Received(proc[p], m) \in Nat
    BY <1>2 DEF Received, Min
  <1>4. ASSUME NEW k \in 0..Received(proc[p], m)
        PROVE  file.bytes \o Bytes(m.off, k) \in Seq(Nat)
    <2>1. k \in Nat
      BY <1>3
    <2>2. Bytes(m.off, k) \in [1..k -> Nat]
      BY <1>2, <2>1 DEF Bytes
    <2>3. Bytes(m.off, k) \in Seq(Nat)
      BY <2>1, <2>2
    <2> HIDE DEF Bytes
    <2> QED  BY <1>1, <2>3
  <1> QED  BY <1>2, <1>3, <1>4

\* The awaited DATA keeps the invariant; p writes it, a part of it, or dies.
LEMMA RecvDataStep ==
  ASSUME Sound, NEW p \in Procs, proc[p].pc = "recv", NEW m \in net, m.src = Peer(p),
         m.op # "ERROR", ~(proc[p].expectOACK /\ m.op = "OACK"),
         RecvData(p, Fallback([proc[p] EXCEPT !.opcode = m.op]), m)
  PROVE  Sound' /\ Moves(p)
  <1> DEFINE s == Fallback([proc[p] EXCEPT !.opcode = m.op])
             sz == Received(proc[p], m)
             u == [s EXCEPT !.finished = s.finished \/ sz # s.blksize]
  <1>1. /\ s \in Locals /\ s.pc = "recv" /\ s.result = "none" /\ s.retries = proc[p].retries
        /\ s.abs = proc[p].abs /\ s.blockNr = proc[p].blockNr /\ s.pos = proc[p].pos
        /\ s.xbuf = proc[p].xbuf /\ s.finished = proc[p].finished
        /\ ~s.expectOACK /\ s.blksize = Neg
    BY FallbackIs
  <1>2. /\ IsNextData(p, s, m)
        /\ \/ /\ file' = [present |-> TRUE, bytes |-> file.bytes \o Bytes(m.off, sz)]
              /\ BuildNext(p, u)
           \/ /\ \E k \in 0..(sz - 1) :
                   file' = [present |-> TRUE, bytes |-> file.bytes \o Bytes(m.off, k)]
              /\ proc' = [proc EXCEPT ![p] = [s EXCEPT !.pc = "err"]]
              /\ job' = job /\ net' = net
           \/ /\ proc' = [proc EXCEPT ![p] = Exit(s, "die")]
              /\ job' = job /\ net' = net /\ file' = file
    BY DEF RecvData
  <1> HIDE DEF s
  <1>3. /\ Good(p, proc[p]) /\ job \in Jobs /\ net \subseteq Packets
        /\ file \in [present : BOOLEAN, bytes : Seq(Nat)]
    BY LocalsOf
  <1>4. ~Sends(p) /\ m.op = "DATA" /\ m.op \in Body /\ m.blk = s.blockNr
    BY <1>2 DEF IsNextData, Body
  <1>5. Expected(p, m)
    BY <1>1, <1>3, <1>4 DEF Expected, Good
  <1>6. sz \in Nat /\ \A k \in 0..sz : file.bytes \o Bytes(m.off, k) \in Seq(Nat)
    BY ReceivedIs
  <1> HIDE DEF sz
  <1>7. CASE /\ file' = [present |-> TRUE, bytes |-> file.bytes \o Bytes(m.off, sz)]
             /\ BuildNext(p, u)
    <2> DEFINE t == Build(p, u)
    <2>1. /\ u \in Locals /\ u.result = "none" /\ u.abs = s.abs /\ u.blockNr = s.blockNr
          /\ u.pos = s.pos /\ ~u.expectOACK /\ u.blksize = Neg
          /\ u.finished <=> s.finished \/ sz # Neg
      <3>1. (s.finished \/ sz # s.blksize) \in BOOLEAN
        BY <1>1, Zenon DEF Locals
      <3> QED  BY <1>1, <3>1 DEF Locals
    <2>2. proc' = [proc EXCEPT ![p] = t] /\ job' = job /\ net' = net
      BY <1>4, <1>7 DEF BuildNext
    <2> HIDE DEF u
    <2>3. u.pos <= job.readable /\ u.blockNr = Wrap(u.abs)
          /\ proc[p].xbuf.abs = proc[p].abs - 1 /\ proc[p].abs \in Nat
      BY <1>1, <1>3, <2>1 DEF Good, Locals
    <2>4. Good(p, t)
      BY <1>3, <1>4, <2>1, <2>3, BuildGood
    <2>5. /\ t.pc = "send" /\ t.result = "none" /\ t.opcode = BuildOp(p)
          /\ t.abs = u.abs + 1 /\ t.expectOACK = u.expectOACK
          /\ t.xbuf = Pkt(p, BuildOp(p), u.blockNr, u.pos, BuildN(p, u), u.abs)
          /\ t.finished <=> u.finished \/ (Sends(p) /\ BuildN(p, u) # u.blksize)
      BY <1>3, <2>1, <2>3, BuildIs
    <2>6. t.xbuf.abs = proc[p].abs /\ t.opcode = "ACK"
      BY <1>1, <1>4, <2>1, <2>5 DEF Pkt, BuildOp
    <2> HIDE DEF t
    <2>7. sz \in 0..sz /\ file' \in [present : BOOLEAN, bytes : Seq(Nat)]
      BY <1>6, <1>7
    <2>8. Sound'
      <3>1. t.pc # "start" /\ (t.expectOACK => Waits)
        BY <2>1, <2>5
      <3>2. \A n \in net' : n \in net \/ n.op = "ERROR" \/ (n = proc[p].xbuf /\ proc[p].pc = "send")
        BY <2>2
      <3>3. Waits /\ p = "tftpd" => Neg = BlkDefault
        BY <1>4, BodyFrom
      <3> QED  BY <1>3, <2>2, <2>4, <2>7, <3>1, <3>2, <3>3, Frame, Zenon
    <2>9. proc'[p] = t
      BY <2>2 DEF Sound
    <2>10. t.xbuf # proc[p].xbuf
      BY <2>3, <2>6
    <2>11. Tidy(p) /\ Patient(p)
      BY <1>4, <2>5, <2>9, <2>10 DEF Tidy, Patient
    <2>12. t.finished <=> proc[p].finished \/ sz # Neg
      BY <1>1, <1>4, <2>1, <2>5
    <2>13. file'.present /\ file'.bytes = file.bytes \o Bytes(m.off, sz)
      BY <1>7
    <2>14. Writes(p)
      <3>1. /\ t.abs = proc[p].abs + 1 /\ t.pc = "send" /\ t.result = "none" /\ t.opcode = "ACK"
        BY <1>1, <2>1, <2>5, <2>6
      <3> QED  BY <1>4, <1>5, <2>2, <2>9, <2>12, <2>13, <3>1 DEF Writes, sz
    <2> QED  BY <2>2, <2>8, <2>9, <2>11, <2>14 DEF Moves
  <1>8. CASE /\ \E k \in 0..(sz - 1) :
                  file' = [present |-> TRUE, bytes |-> file.bytes \o Bytes(m.off, k)]
             /\ proc' = [proc EXCEPT ![p] = [s EXCEPT !.pc = "err"]]
             /\ job' = job /\ net' = net
    <2> DEFINE t == [s EXCEPT !.pc = "err"]
    <2>1. /\ t \in Locals /\ t.pc = "err" /\ t.result = s.result
          /\ t.abs = s.abs /\ t.blockNr = s.blockNr /\ t.pos = s.pos /\ t.xbuf = s.xbuf
          /\ t.finished = s.finished /\ t.expectOACK = s.expectOACK
          /\ t.blksize = s.blksize
      BY <1>1, GotoIs
    <2>2. proc' = [proc EXCEPT ![p] = t]
      BY <1>8
    <2> HIDE DEF t
    <2>3. PICK k \in 0..(sz - 1) :
            file' = [present |-> TRUE, bytes |-> file.bytes \o Bytes(m.off, k)]
      BY <1>8
    <2>4. k \in 0..sz
      BY <1>6
    <2>5. /\ file' \in [present : BOOLEAN, bytes : Seq(Nat)]
          /\ file'.bytes = file.bytes \o Bytes(m.off, k)
      BY <1>6, <2>3, <2>4
    <2>6. Quiet(p, t)
      BY <1>1, <2>1 DEF Quiet
    <2>7. Good(p, t) /\ (t.expectOACK => Waits)
          /\ (Waits /\ p = "tftpd" /\ t.xbuf.op \in Body => Neg = BlkDefault)
      BY <2>6, QuietGood
    <2>8. Sound'
      <3>1. \A n \in net' : n \in net \/ n.op = "ERROR" \/ (n = proc[p].xbuf /\ proc[p].pc = "send")
        BY <1>8
      <3>2. t.pc # "start"
        BY <2>1
      <3> QED  BY <1>3, <1>8, <2>2, <2>5, <2>7, <3>1, <3>2, Frame, Zenon
    <2>9. proc'[p] = t
      BY <2>2 DEF Sound
    <2>10. Tidy(p) /\ Patient(p)
      BY <1>1, <1>4, <2>1, <2>9 DEF Tidy, Patient
    <2>11. WritesPart(p)
      BY <1>1, <1>4, <1>5, <1>8, <2>1, <2>5, <2>9 DEF WritesPart, sz
    <2> QED  BY <1>8, <2>2, <2>8, <2>9, <2>10, <2>11 DEF Moves
  <1>9. CASE /\ proc' = [proc EXCEPT ![p] = Exit(s, "die")]
             /\ job' = job /\ net' = net /\ file' = file
    <2> DEFINE t == Exit(s, "die")
    <2>1. /\ t \in Locals /\ t.pc = "exit" /\ t.result = "die"
          /\ t.abs = s.abs /\ t.blockNr = s.blockNr /\ t.pos = s.pos /\ t.xbuf = s.xbuf
          /\ t.finished = s.finished /\ t.expectOACK = s.expectOACK
          /\ t.blksize = s.blksize
      BY <1>1, ExitIs
    <2>2. proc' = [proc EXCEPT ![p] = t]
      BY <1>9
    <2> HIDE DEF t
    <2>3. Quiet(p, t) /\ t.result # "fail"
      BY <1>1, <2>1 DEF Quiet
    <2> QED  BY <1>3, <1>9, <2>2, <2>3, QuietStep, Zenon
  <1> QED  BY <1>2, <1>7, <1>8, <1>9

\* recv_again: keeps the invariant and is a move of p.
LEMMA RecvStep ==
  ASSUME Sound, NEW p \in Procs, Recv(p)
  PROVE  Sound' /\ Moves(p)
  <1>1. proc[p].pc = "recv"
    BY DEF Recv
  <1>2. PICK m \in net :
          LET r == [proc[p] EXCEPT !.opcode = m.op]
              s == Fallback(r)
          IN  /\ m.src = Peer(p)
              /\ \/ m.op = "ERROR" /\ Ret(p, r)
                 \/ RecvOACK(p, r, m)
                 \/ /\ m.op # "ERROR" /\ ~(r.expectOACK /\ m.op = "OACK")
                    /\ \/ RecvData(p, s, m)
                       \/ RecvAck(p, s, m)
                       \/ RecvOther(p, s, m)
    BY DEF Recv
  <1> DEFINE r == [proc[p] EXCEPT !.opcode = m.op]
             s == Fallback(r)
  <1>3. /\ r \in Locals /\ r.pc = "recv" /\ r.result = "none" /\ r.retries = proc[p].retries
        /\ r.abs = proc[p].abs /\ r.blockNr = proc[p].blockNr /\ r.pos = proc[p].pos
        /\ r.xbuf = proc[p].xbuf /\ r.finished = proc[p].finished
        /\ r.expectOACK = proc[p].expectOACK /\ r.blksize = proc[p].blksize
    BY <1>1, ReadIs
  <1>4. CASE Ret(p, r)
    <2> HIDE DEF r
    <2>1. r.blksize = (IF r.expectOACK THEN job.want ELSE Neg)
      BY <1>1, <1>3, LocalsOf DEF Good
    <2> QED  BY <1>1, <1>3, <1>4, <2>1, RetStep
  <1>5. CASE RecvOACK(p, r, m)
    BY <1>1, <1>5, RecvOACKStep
  <1>6. CASE /\ m.op # "ERROR" /\ ~(r.expectOACK /\ m.op = "OACK")
             /\ \/ RecvData(p, s, m)
                \/ RecvAck(p, s, m)
                \/ RecvOther(p, s, m)
    <2>1. m.src = Peer(p) /\ m.op # "ERROR" /\ ~(proc[p].expectOACK /\ m.op = "OACK")
      BY <1>2, <1>3, <1>6
    <2> QED  BY <1>1, <1>6, <2>1, RecvDataStep, RecvAckStep, RecvOtherStep, Zenon
  <1> QED  BY <1>2, <1>4, <1>5, <1>6

\* Every step of the system keeps the invariant and is a move of a process.
LEMMA NextMoves ==
  ASSUME Sound, Next
  PROVE  Sound' /\ \E p \in Procs : Moves(p)
  <1>1. "tftp" \in Procs /\ "tftpd" \in Procs
    BY DEF Procs
  <1>2. CASE ClientStart
    BY <1>1, <1>2, ClientStartStep
  <1>3. CASE ServerStart
    BY <1>1, <1>3, ServerStartStep
  <1>4. ASSUME NEW p \in Procs, Step(p)  PROVE Sound' /\ Moves(p)
    BY <1>4, SendStep, SendErrStep, SendDiesStep, TimeoutStep, PollFailsStep, UnreachableStep,
       RecvStep DEF Step
  <1> QED  BY <1>2, <1>3, <1>4 DEF Next

\* The invariant is about the variables only.
LEMMA SoundStutters == Sound /\ UNCHANGED vars => Sound'
  BY DEF Sound, Good, Answered, PktOK, Waits, Neg, Sends, vars

\* The invariant holds before anyone starts.
LEMMA SoundInit == Init => Sound
  <1> SUFFICES ASSUME Init  PROVE Sound
    OBVIOUS
  <1>1. job \in Jobs /\ net = {} /\ file = [present |-> FALSE, bytes |-> << >>]
        /\ proc = [p \in Procs |-> InitProc(p)]
    BY DEF Init
  <1>2. ASSUME NEW p \in Procs  PROVE Good(p, InitProc(p))
    <2> DEFINE s == InitProc(p)
    <2>1. /\ s \in Locals /\ s.pc = "start" /\ s.result = "none" /\ ~s.expectOACK
          /\ ~s.finished /\ s.blockNr = 1 /\ s.abs = 1 /\ s.pos = 0 /\ s.retries = Retries
          /\ s.xbuf = Pkt(p, "none", 0, 0, 0, 0) /\ s.blksize = BlkDefault
      BY <1>1, InitProcIs
    <2>2. s.xbuf.op = "none" /\ s.xbuf.src = p /\ s.xbuf.abs = 0
      BY <2>1 DEF Pkt
    <2> HIDE DEF s
    <2>3. PktOK(s.xbuf)
      BY <2>2 DEF PktOK
    <2>4. 0 <= job.readable
      BY <1>1, SizesPositive
    <2> QED  BY <2>1, <2>2, <2>3, <2>4, WrapSmall DEF Good, s
  <1>3. proc \in [Procs -> Locals]
    BY <1>1, <1>2 DEF Good
  <1>4. Answered
    <2>1. proc["tftpd"].xbuf.op \notin Body
      BY <1>1 DEF Procs, InitProc, Pkt, Body
    <2> QED  BY <1>1, <2>1 DEF Answered
  <1>5. \A p \in Procs : Good(p, proc[p])
    BY <1>1, <1>2
  <1> QED  BY <1>1, <1>3, <1>4, <1>5 DEF Sound

\* What a process and a datagram look like holds in every reachable state.
THEOREM SoundAlways == Spec => []Sound
  <1>1. Sound /\ [Next]_vars => Sound'
    BY NextMoves, SoundStutters
  <1> QED  BY <1>1, SoundInit, PTL DEF Spec

\* tftp_protocol()'s locals, the datagrams and the file keep their types:
\* block_nr stays within 16 bits, the file position within the file, and a
\* process at send_again: or recv_again: has a retry left.
THEOREM TypeCorrect == Spec => []TypeOK
  <1>1. Sound => TypeOK
    BY DEF Sound, TypeOK
  <1> QED  BY <1>1, SoundAlways, PTL

\* A receiver that reports a failure has removed its partial file, whatever
\* failed and however the two ends interleaved.
THEOREM FailuresTidy == Spec => []NoPartialFile
  <1>1. Init => NoPartialFile
    BY Ends DEF Init, InitProc, NoPartialFile, Procs
  <1>2. Sound /\ NoPartialFile /\ [Next]_vars => NoPartialFile'
    <2> SUFFICES ASSUME Sound, NoPartialFile, [Next]_vars  PROVE NoPartialFile'
      OBVIOUS
    <2>1. CASE UNCHANGED vars
      BY <2>1 DEF NoPartialFile, Receiver, Sender, vars
    <2>2. CASE Next
      <3>1. PICK p \in Procs : Moves(p)
        BY <2>2, NextMoves
      <3>2. job' = job /\ (\A q \in Procs : q # p => proc'[q] = proc[q]) /\ Tidy(p)
        BY <3>1 DEF Moves, Sound
      <3>3. Receiver' = Receiver /\ Receiver \in Procs /\ (~Sends(p) <=> p = Receiver)
        BY <3>2, Ends DEF Receiver, Sender, Peer
      <3>4. CASE p = Receiver
        BY <3>2, <3>3, <3>4 DEF Tidy, NoPartialFile
      <3>5. CASE p # Receiver
        BY <3>2, <3>3, <3>5 DEF Tidy, NoPartialFile
      <3> QED  BY <3>4, <3>5
    <2> QED  BY <2>1, <2>2
  <1> QED  BY <1>1, <1>2, SoundAlways, PTL DEF Spec

\* An answer never makes a process resend its last packet (rfc1123): from
\* recv_again: the same xbuf goes out again only at the cost of a retry.
THEOREM ResendsCorrect == Spec => ResendOnlyOnTimeout
  <1> DEFINE A == \A p \in Procs :
       (proc[p].pc = "recv" /\ proc'[p].pc = "send" /\ proc'[p].xbuf = proc[p].xbuf)
       => proc'[p].retries = proc[p].retries - 1
  <1>1. Sound /\ [Next]_vars => [A]_vars
    <2> SUFFICES ASSUME Sound, Next  PROVE A
      OBVIOUS
    <2>1. PICK p \in Procs : Moves(p)
      BY NextMoves
    <2>2. (\A q \in Procs : q # p => proc'[q] = proc[q]) /\ Patient(p)
      BY <2>1 DEF Moves, Sound
    <2>3. ASSUME NEW q \in Procs, proc[q].pc = "recv", proc'[q].pc = "send",
                 proc'[q].xbuf = proc[q].xbuf
          PROVE  proc'[q].retries = proc[q].retries - 1
      BY <2>2, <2>3 DEF Patient
    <2> QED  BY <2>3
  <1> QED  BY <1>1, SoundAlways, PTL DEF Spec, ResendOnlyOnTimeout

-----------------------------------------------------------------------------
(* The second inductive invariant relates the two ends.  From here on no   *)
(* block size smaller than the default is asked for.                       *)

\* The two ends count in lock step; nothing in the network is newer than the
\* sender's last block, nor older than MaxAge allows.
Numbered ==
  LET s == proc[Sender]
      r == proc[Receiver]
  IN  /\ r.abs <= s.abs /\ s.abs <= r.abs + 1
      /\ \A m \in net : m.op = "DATA" =>
           /\ m.abs <= s.abs - 1
           /\ m.abs = s.abs - 1 => m = s.xbuf
           /\ r.pc = "recv" => r.abs <= m.abs + MaxAge + 1
      /\ \A m \in net : m.op = "ACK" =>
           /\ m.abs <= r.abs - 1
           /\ s.pc = "recv" => s.abs <= m.abs + MaxAge + 2

\* What is in the file: the first blocks, the last of them perhaps in part
\* when the write failed; everything once the receiver has finished.
Written ==
  LET s == proc[Sender]
      r == proc[Receiver]
      w == Len(file.bytes)
  IN  /\ file.bytes = Transfer!Prefix(w)
      /\ s.xbuf.op = "DATA" => /\ s.xbuf.off + s.xbuf.n = s.pos
                               /\ s.xbuf.n = Min(Neg, job.readable - s.xbuf.off)
      /\ r.abs = s.abs => w = s.pos
      /\ r.abs # s.abs => /\ s.xbuf.off <= w /\ w <= s.pos
                          /\ r.pc \in {"start", "send", "recv"} => w = s.xbuf.off
      /\ r.finished => /\ r.pc \in {"send", "exit"} /\ (r.pc = "send" => r.opcode = "ACK")
                       /\ w = job.readable /\ file.present
      /\ r.pc = "start" => w = 0
      /\ r.result = "ok" => w = job.readable /\ file.present

\* The integers that the arithmetic below is about.
LEMMA Counts ==
  ASSUME Sound
  PROVE  /\ Sender \in Procs /\ Receiver \in Procs /\ Sender # Receiver
         /\ Sends(Sender) /\ ~Sends(Receiver)
         /\ \A p \in Procs : proc[p].abs \in Nat /\ proc[p].abs >= 1 /\ proc[p].pos \in Nat
                             /\ proc[p].xbuf.off \in Nat /\ proc[p].xbuf.n \in Nat
                             /\ proc[p].pos <= job.readable
         /\ \A m \in net : m.abs \in Nat /\ m.n \in Nat /\ m.off \in Nat
         /\ job.readable \in Nat /\ Neg \in Nat \ {0} /\ MaxAge \in Nat
         /\ Len(file.bytes) \in Nat
  <1>1. "tftp" \in Procs
    BY DEF Procs
  <1>2. /\ Sender \in Procs /\ Receiver \in Procs /\ Sender # Receiver
        /\ Sends(Sender) /\ ~Sends(Receiver)
    BY <1>1, Ends
  <1>3. ASSUME NEW p \in Procs
        PROVE  proc[p].abs \in Nat /\ proc[p].abs >= 1 /\ proc[p].pos \in Nat
               /\ proc[p].xbuf.off \in Nat /\ proc[p].xbuf.n \in Nat
               /\ proc[p].pos <= job.readable
    BY LocalsOf DEF Good, Locals, Packets
  <1>4. \A m \in net : m.abs \in Nat /\ m.n \in Nat /\ m.off \in Nat
    BY DEF Sound, Packets
  <1>5. job.readable \in Nat /\ Neg \in Nat \ {0} /\ MaxAge \in Nat
    BY <1>1, LocalsOf, SizesPositive, ModulusBig
  <1>6. Len(file.bytes) \in Nat
    BY DEF Sound
  <1> QED  BY <1>2, <1>3, <1>4, <1>5, <1>6

\* The ACK that makes a sender go on is the one of its last block.
LEMMA AckOfLast ==
  ASSUME Sound, Numbered, proc[Sender].pc = "recv",
         NEW m \in net, m.op = "ACK", m.blk = Wrap(proc[Sender].abs - 1)
  PROVE  proc[Receiver].abs = proc[Sender].abs
  <1> DEFINE a == proc[Sender].abs
             b == proc[Receiver].abs
  <1>1. a \in Nat /\ a >= 1 /\ b \in Nat /\ m.abs \in Nat
    BY Counts
  <1>2. m.blk = Wrap(m.abs)
    BY DEF Sound, PktOK
  <1>3. b <= a /\ m.abs <= b - 1 /\ a <= m.abs + MaxAge + 2
    BY DEF Numbered
  <1> HIDE DEF a, b
  <1>4. a - 1 \in Nat /\ m.abs <= a - 1 /\ a - 1 < m.abs + Modulus
    BY <1>1, <1>3, ModulusBig
  <1>5. m.abs = a - 1
    BY <1>1, <1>2, <1>4, WrapInjective DEF a
  <1> QED  BY <1>1, <1>3, <1>5 DEF a, b

\* The DATA that a receiver writes is the sender's last block.
LEMMA DataOfLast ==
  ASSUME Sound, Numbered, proc[Receiver].pc = "recv", NEW m, Expected(Receiver, m)
  PROVE  proc[Sender].abs = proc[Receiver].abs + 1 /\ m = proc[Sender].xbuf
  <1> DEFINE a == proc[Sender].abs
             b == proc[Receiver].abs
  <1>1. m \in net /\ m.op = "DATA" /\ m.blk = Wrap(b)
    BY DEF Expected
  <1>2. a \in Nat /\ a >= 1 /\ b \in Nat /\ m.abs \in Nat
    BY <1>1, Counts
  <1>3. m.blk = Wrap(m.abs)
    BY <1>1 DEF Sound, PktOK
  <1>4. a <= b + 1 /\ m.abs <= a - 1 /\ b <= m.abs + MaxAge + 1
        /\ (m.abs = a - 1 => m = proc[Sender].xbuf)
    BY <1>1 DEF Numbered
  <1> HIDE DEF a, b
  <1>5. m.abs <= b /\ b < m.abs + Modulus
    BY <1>2, <1>4, ModulusBig
  <1>6. m.abs = b
    BY <1>1, <1>2, <1>3, <1>5, WrapInjective
  <1>7. a = b + 1 /\ m.abs = a - 1
    BY <1>2, <1>4, <1>6
  <1> QED  BY <1>4, <1>7 DEF a, b

\* A step of p leaves its peer alone, and the roles.
LEMMA Roles ==
  ASSUME Sound, NEW p \in Procs, Moves(p)
  PROVE  /\ Sender' = Sender /\ Receiver' = Receiver /\ job' = job /\ Neg' = Neg
         /\ p = Sender \/ p = Receiver
         /\ p = Sender => proc'[Receiver] = proc[Receiver] /\ Sends(p) /\ file' = file
         /\ p = Receiver => proc'[Sender] = proc[Sender] /\ ~Sends(p)
  <1>1. job' = job /\ proc' = [proc EXCEPT ![p] = proc'[p]] /\ Tidy(p)
    BY DEF Moves
  <1>2. Sender' = Sender /\ Receiver' = Receiver /\ Neg' = Neg
    BY <1>1 DEF Sender, Receiver, Peer, Neg
  <1>3. p = Sender \/ p = Receiver
    BY Ends DEF Receiver
  <1> QED  BY <1>1, <1>2, <1>3, Counts DEF Tidy, Sound

\* Every move keeps the two ends in lock step.
LEMMA NumberedStep ==
  ASSUME Sound, Sound', Numbered, NEW p \in Procs, Moves(p)
  PROVE  Numbered'
  <1> DEFINE S == Sender
             R == Receiver
  <1>1. /\ Sender' = S /\ Receiver' = R
        /\ p = S \/ p = R
        /\ p = S => proc'[R] = proc[R] /\ Sends(p)
        /\ p = R => proc'[S] = proc[S] /\ ~Sends(p)
    BY Roles
  <1>2. /\ S \in Procs /\ R \in Procs /\ S # R
        /\ proc[S].abs \in Nat /\ proc[S].abs >= 1 /\ proc[R].abs \in Nat /\ proc[R].abs >= 1
        /\ MaxAge \in Nat /\ \A m \in net : m.abs \in Nat
    BY Counts
  <1>3. /\ proc[R].abs <= proc[S].abs /\ proc[S].abs <= proc[R].abs + 1
        /\ \A m \in net : m.op = "DATA" =>
             /\ m.abs <= proc[S].abs - 1
             /\ m.abs = proc[S].abs - 1 => m = proc[S].xbuf
             /\ proc[R].pc = "recv" => proc[R].abs <= m.abs + MaxAge + 1
        /\ \A m \in net : m.op = "ACK" =>
             /\ m.abs <= proc[R].abs - 1
             /\ proc[S].pc = "recv" => proc[S].abs <= m.abs + MaxAge + 2
    BY DEF Numbered
  <1> DEFINE Goal ==
        /\ proc'[R].abs <= proc'[S].abs /\ proc'[S].abs <= proc'[R].abs + 1
        /\ \A m \in net' : m.op = "DATA" =>
             /\ m.abs <= proc'[S].abs - 1
             /\ m.abs = proc'[S].abs - 1 => m = proc'[S].xbuf
             /\ proc'[R].pc = "recv" => proc'[R].abs <= m.abs + MaxAge + 1
        /\ \A m \in net' : m.op = "ACK" =>
             /\ m.abs <= proc'[R].abs - 1
             /\ proc'[S].pc = "recv" => proc'[S].abs <= m.abs + MaxAge + 2
  <1> SUFFICES Goal
    BY <1>1 DEF Numbered
  <1>4. \A m \in net : m.op = "DATA" => m.abs >= 1
    BY DEF Sound, PktOK
  <1> HIDE DEF S, R
  <1>5. CASE Rests(p)
    <2>1. \A m \in net' : m.op \in {"DATA", "ACK"} => m \in net
      BY <1>5 DEF Rests, Body
    <2>2. CASE p = S
      <3>1. /\ proc'[S].abs = proc[S].abs /\ proc'[R] = proc[R]
            /\ proc'[S].xbuf = proc[S].xbuf \/ proc[S].abs = 1
            /\ proc'[S].pc = "recv" => proc[S].pc = "recv"
        BY <1>1, <1>5, <2>2 DEF Rests
      <3> QED  BY <1>2, <1>3, <1>4, <2>1, <3>1
    <2>3. CASE p = R
      <3>1. /\ proc'[R].abs = proc[R].abs /\ proc'[S] = proc[S]
            /\ proc'[R].pc = "recv" => proc[R].pc = "recv"
        BY <1>1, <1>5, <2>3 DEF Rests
      <3> QED  BY <1>2, <1>3, <2>1, <3>1
    <2> QED  BY <1>1, <2>2, <2>3
  <1>6. CASE Transmits(p)
    <2> DEFINE x == proc[p].xbuf
    <2>1. /\ x.abs = proc[p].abs - 1 /\ x.src = p /\ PktOK(x)
      BY LocalsOf DEF Good
    <2>2. (x.op = "DATA" => Sends(p)) /\ (x.op = "ACK" => ~Sends(p))
      BY <2>1 DEF PktOK
    <2>3. net' = Live(x.abs) \cup {x}
      BY <1>6 DEF Transmits
    <2>4. \A m \in net' : m = x \/ (m \in net /\ x.abs <= m.abs + MaxAge)
      BY <2>3, <1>2 DEF Live
    <2>5. /\ proc'[p].abs = proc[p].abs /\ proc'[p].xbuf = x
      BY <1>6 DEF Transmits
    <2> HIDE DEF x
    <2>6. CASE p = S
      <3>1. /\ proc'[S].abs = proc[S].abs /\ proc'[R] = proc[R] /\ proc'[S].xbuf = x
            /\ x.abs = proc[S].abs - 1 /\ x.op # "ACK" /\ x = proc[S].xbuf
        BY <1>1, <2>1, <2>2, <2>5, <2>6 DEF x
      <3> QED  BY <1>2, <1>3, <2>4, <3>1
    <2>7. CASE p = R
      <3>1. /\ proc'[R].abs = proc[R].abs /\ proc'[S] = proc[S]
            /\ x.abs = proc[R].abs - 1 /\ x.op # "DATA"
        BY <1>1, <2>1, <2>2, <2>5, <2>7
      <3> QED  BY <1>2, <1>3, <2>4, <3>1
    <2> QED  BY <1>1, <2>6, <2>7
  <1>7. CASE Advances(p)
    <2>1. p = S /\ net' = net /\ proc'[R] = proc[R]
          /\ proc'[S].abs = proc[S].abs + 1 /\ proc'[S].pc = "send"
      BY <1>1, <1>7 DEF Advances
    <2>2. proc[R].abs = proc[S].abs
      <3>1. CASE proc[S].abs = 1
        BY <1>2, <1>3, <3>1
      <3>2. CASE /\ proc[S].pc = "recv"
                 /\ \E m \in net : m.op = "ACK" /\ m.blk = Wrap(proc[S].abs - 1)
        BY <3>2, AckOfLast DEF S, R
      <3> QED  BY <1>7, <2>1, <3>1, <3>2 DEF Advances
    <2> QED  BY <1>2, <1>3, <2>1, <2>2
  <1>8. CASE Writes(p)
    <2>1. p = R /\ net' = net /\ proc'[S] = proc[S] /\ proc[R].pc = "recv"
          /\ proc'[R].abs = proc[R].abs + 1 /\ proc'[R].pc = "send"
      BY <1>1, <1>8 DEF Writes
    <2>2. \E m : Expected(R, m)
      BY <1>8, <2>1 DEF Writes
    <2>3. proc[S].abs = proc[R].abs + 1
      BY <2>1, <2>2, DataOfLast DEF S, R
    <2> QED  BY <1>2, <1>3, <2>1, <2>3
  <1>9. CASE WritesPart(p)
    <2>1. p = R /\ net' = net /\ proc'[S] = proc[S]
          /\ proc'[R].abs = proc[R].abs /\ proc'[R].pc = "err"
      BY <1>1, <1>9 DEF WritesPart
    <2> QED  BY <1>2, <1>3, <2>1
  <1> QED  BY <1>5, <1>6, <1>7, <1>8, <1>9 DEF Moves

\* A block appended to the prefix that precedes it.
LEMMA Appended ==
  ASSUME NEW b \in Seq(Nat), b = Transfer!Prefix(Len(b)), NEW k \in Nat
  PROVE  LET c == b \o Bytes(Len(b), k)
         IN  c = Transfer!Prefix(Len(b) + k) /\ Len(c) = Len(b) + k
  <1> DEFINE w == Len(b)
             d == Bytes(w, k)
             c == b \o d
  <1>1. w \in Nat
    OBVIOUS
  <1>2. d \in [1..k -> Nat] /\ \A i \in 1..k : d[i] = w + i
    BY <1>1 DEF Bytes
  <1>3. d \in Seq(Nat) /\ Len(d) = k
    BY <1>2
  <1>4. \A i \in 1..w : b[i] = i
    BY <1>1 DEF Transfer!Prefix
  <1> HIDE DEF w, d
  <1>5. /\ c \in Seq(Nat) /\ Len(c) = w + k
        /\ \A i \in 1..(w + k) : c[i] = IF i <= w THEN b[i] ELSE d[i - w]
    BY <1>3, ConcatProperties DEF w
  <1>6. \A i \in 1..(w + k) : c[i] = i
    <2> TAKE i \in 1..(w + k)
    <2>1. CASE i <= w
      BY <1>1, <1>4, <1>5, <2>1
    <2>2. CASE ~(i <= w)
      <3>1. i - w \in 1..k
        BY <1>1, <2>2
      <3>2. c[i] = d[i - w] /\ d[i - w] = w + (i - w)
        BY <1>2, <1>5, <2>2, <3>1
      <3> QED  BY <1>1, <3>2
    <2> QED  BY <2>1, <2>2
  <1> HIDE DEF c
  <1>7. c = [i \in 1..(w + k) |-> i]
    BY <1>5, <1>6
  <1> QED  BY <1>5, <1>7 DEF Transfer!Prefix, c, w, d

\* The receiver's buffer holds the sender's whole block.
LEMMA BlockFits ==
  ASSUME \A b \in BlkWanted : b >= BlkDefault,
         Sound, Numbered, Written, proc[Receiver].pc = "recv", NEW m, Expected(Receiver, m)
  PROVE  LET s == proc[Sender]
             w == Len(file.bytes)
         IN  /\ s.abs = proc[Receiver].abs + 1 /\ m = s.xbuf /\ m.off = w
             /\ Received(proc[Receiver], m) = m.n
             /\ w + m.n = s.pos /\ (m.n # Neg => s.pos = job.readable)
             /\ ~proc[Receiver].finished
  <1> DEFINE s == proc[Sender]
             r == proc[Receiver]
             w == Len(file.bytes)
  <1>1. s.abs = r.abs + 1 /\ m = s.xbuf
    BY DataOfLast
  <1>2. m.op = "DATA" /\ m \in net
    BY DEF Expected
  <1>3. /\ s.abs \in Nat /\ r.abs \in Nat /\ w \in Nat /\ m.off \in Nat /\ m.n \in Nat
        /\ s.pos \in Nat /\ Neg \in Nat \ {0} /\ job.readable \in Nat /\ s.pos <= job.readable
    BY <1>2, Counts
  <1>4. /\ m.off + m.n = s.pos /\ m.n = Min(Neg, job.readable - m.off) /\ m.off = w /\ ~r.finished
    BY <1>1, <1>2, <1>3 DEF Written
  <1>5. m.n <= Neg /\ (m.n # Neg => s.pos = job.readable)
    BY <1>3, <1>4 DEF Min
  <1>6. r.blksize \in Nat /\ m.n <= r.blksize
    <2>1. r \in Locals /\ Good(Receiver, r) /\ job \in Jobs
      BY LocalsOf, Counts
    <2>2. r.blksize = job.want \/ r.blksize = Neg
      BY <2>1 DEF Good
    <2>3. Neg <= job.want /\ job.want \in Nat
      <3>1. Neg = job.want \/ Neg = BlkDefault
        BY Zenon DEF Neg
      <3> QED  BY <2>1, <3>1, SizesPositive
    <2> QED  BY <1>3, <1>5, <2>2, <2>3
  <1>7. Received(r, m) = m.n
    BY <1>3, <1>6 DEF Received, Min
  <1> QED  BY <1>1, <1>3, <1>4, <1>5, <1>7

\* Every move keeps the file a prefix of what the sender has read, and is a
\* step of FileTransfer or none.
LEMMA WrittenStep ==
  ASSUME \A b \in BlkWanted : b >= BlkDefault,
         Sound, Sound', Numbered, Written, NEW p \in Procs, Moves(p)
  PROVE  Written' /\ [Transfer!Next]_(Transfer!vars)
  <1> DEFINE S == Sender
             R == Receiver
             s == proc[S]
             r == proc[R]
             w == Len(file.bytes)
             s1 == proc'[S]
             r1 == proc'[R]
             w1 == Len(file'.bytes)
  <1>1. /\ Sender' = S /\ Receiver' = R /\ job' = job /\ Neg' = Neg
        /\ p = S \/ p = R
        /\ p = S => r1 = r /\ Sends(p) /\ file' = file
        /\ p = R => s1 = s /\ ~Sends(p)
    BY Roles
  <1>2. /\ s.abs \in Nat /\ r.abs \in Nat /\ w \in Nat /\ s.pos \in Nat /\ s.pos <= job.readable
        /\ s.xbuf.off \in Nat /\ s.xbuf.n \in Nat /\ job.readable \in Nat /\ Neg \in Nat
        /\ s.abs >= 1 /\ r.abs >= 1
    BY Counts
  <1>3. r.abs <= s.abs /\ s.abs <= r.abs + 1
    BY DEF Numbered
  <1>4. /\ file.bytes = Transfer!Prefix(w)
        /\ s.xbuf.op = "DATA" => /\ s.xbuf.off + s.xbuf.n = s.pos
                                 /\ s.xbuf.n = Min(Neg, job.readable - s.xbuf.off)
        /\ r.abs = s.abs => w = s.pos
        /\ r.abs # s.abs => /\ s.xbuf.off <= w /\ w <= s.pos
                            /\ r.pc \in {"start", "send", "recv"} => w = s.xbuf.off
        /\ r.finished => /\ r.pc \in {"send", "exit"} /\ (r.pc = "send" => r.opcode = "ACK")
                         /\ w = job.readable /\ file.present
        /\ r.pc = "start" => w = 0
        /\ r.result = "ok" => w = job.readable /\ file.present
    BY DEF Written
  <1>5. /\ r.result = "none" <=> r.pc # "exit"
        /\ r1.result = "none" <=> r1.pc # "exit"
        /\ s.abs > 1 <=> s.xbuf.op = "DATA"
        /\ s1.abs > 1 <=> s1.xbuf.op = "DATA"
        /\ r.result \in {"none", "ok", "fail", "die"} /\ r1.result \in {"none", "ok", "fail", "die"}
    <2>1. S \in Procs /\ R \in Procs /\ Sends(S)
      BY Counts
    <2>2. \A q \in Procs :
            /\ proc[q].result = "none" <=> proc[q].pc # "exit"
            /\ Sends(q) => (proc[q].abs > 1 <=> proc[q].xbuf.op = "DATA")
            /\ proc[q].result \in {"none", "ok", "fail", "die"}
      BY DEF Sound, Good, Locals
    <2>3. \A q \in Procs :
            /\ proc'[q].result = "none" <=> proc'[q].pc # "exit"
            /\ Sends(q) => (proc'[q].abs > 1 <=> proc'[q].xbuf.op = "DATA")
            /\ proc'[q].result \in {"none", "ok", "fail", "die"}
      BY <1>1 DEF Sound, Good, Locals, Sends
    <2> QED  BY <2>1, <2>2, <2>3
  <1>6. /\ Status = IF r.result = "die" THEN "fail" ELSE r.result
        /\ Status' = IF r1.result = "die" THEN "fail" ELSE r1.result
    BY <1>1 DEF Status
  <1> DEFINE W == /\ file'.bytes = Transfer!Prefix(w1)
                  /\ s1.xbuf.op = "DATA" => /\ s1.xbuf.off + s1.xbuf.n = s1.pos
                                            /\ s1.xbuf.n = Min(Neg, job.readable - s1.xbuf.off)
                  /\ r1.abs = s1.abs => w1 = s1.pos
                  /\ r1.abs # s1.abs =>
                       /\ s1.xbuf.off <= w1 /\ w1 <= s1.pos
                       /\ r1.pc \in {"start", "send", "recv"} => w1 = s1.xbuf.off
                  /\ r1.finished =>
                       /\ r1.pc \in {"send", "exit"} /\ (r1.pc = "send" => r1.opcode = "ACK")
                       /\ w1 = job.readable /\ file'.present
                  /\ r1.pc = "start" => w1 = 0
                  /\ r1.result = "ok" => w1 = job.readable /\ file'.present
             T == [Transfer!Next]_(Transfer!vars)
  <1> SUFFICES W /\ T
    BY <1>1 DEF Written
  <1> HIDE DEF S, R
  <1>7. CASE p = S
    <2>1. r1 = r /\ file' = file /\ Sends(p) /\ w1 = w /\ job' = job
      BY <1>1, <1>7
    <2>2. T
      BY <1>6, <2>1 DEF Transfer!vars
    <2> HIDE DEF T
    <2>3. CASE Rests(p)
      <3>1. s1.abs = s.abs /\ s1.pos = s.pos /\ (s1.xbuf = s.xbuf \/ s.abs = 1)
        BY <1>7, <2>1, <2>3 DEF Rests
      <3>2. s.abs = 1 => s1.xbuf.op # "DATA" /\ r.abs = s.abs
        BY <1>2, <1>3, <1>5, <3>1
      <3> HIDE DEF s, r, s1, r1, w, w1
      <3> QED  BY <1>2, <1>4, <2>1, <2>2, <3>1, <3>2
    <2>4. CASE Transmits(p)
      <3>1. s1.abs = s.abs /\ s1.pos = s.pos /\ s1.xbuf = s.xbuf
        BY <1>7, <2>4 DEF Transmits
      <3> HIDE DEF s, r, s1, r1, w, w1
      <3> QED  BY <1>4, <2>1, <2>2, <3>1
    <2>5. CASE Advances(p)
      <3>1. /\ s1.abs = s.abs + 1 /\ s1.xbuf.off = s.pos
            /\ s1.xbuf.n = Min(Neg, job.readable - s.pos) /\ s1.pos = s.pos + s1.xbuf.n
        BY <1>7, <2>5 DEF Advances
      <3>2. r.abs = s.abs
        <4>1. CASE s.abs = 1
          BY <1>2, <1>3, <4>1
        <4>2. CASE /\ s.pc = "recv"
                   /\ \E m \in net : m.op = "ACK" /\ m.blk = Wrap(s.abs - 1)
          BY <4>2, AckOfLast DEF S, R
        <4> QED  BY <1>7, <2>5, <4>1, <4>2 DEF Advances
      <3>3. s1.xbuf.n \in Nat
        BY <1>2, <3>1 DEF Min
      <3> HIDE DEF s, r, s1, r1, w, w1
      <3> QED  BY <1>2, <1>4, <2>1, <2>2, <3>1, <3>2, <3>3
    <2> QED  BY <2>1, <2>3, <2>4, <2>5 DEF Moves, Writes, WritesPart
  <1>8. CASE p = R
    <2>1. s1 = s /\ ~Sends(p) /\ job' = job
      BY <1>1, <1>8
    <2>2. CASE Rests(p)
      <3>1. /\ r1.abs = r.abs /\ r1.finished = r.finished
            /\ file'.bytes = file.bytes \/ (r.pc = "start" /\ file'.bytes = << >>)
            /\ r.pc # "exit" /\ r1.pc # "start" /\ (r.pc \in {"send", "err"} => r1.pc = "exit")
            /\ r.pc = "send" => file' = file
            /\ r1.result = "ok" => r.finished /\ r.pc = "recv"
        BY <1>8, <2>1, <2>2 DEF Rests
      <3>2. file'.bytes = file.bytes
        <4>1. ASSUME r.pc = "start"  PROVE file.bytes = << >>
          <5>1. Len(file.bytes) = 0 /\ file.bytes \in Seq(Nat)
            BY <1>4, <4>1 DEF Sound
          <5> QED  BY <5>1, EmptySeq
        <4> QED  BY <3>1, <4>1
      <3>3. w1 = w
        BY <3>2
      <3>4. r1.pc \in {"start", "send", "recv"} => r.pc \in {"start", "send", "recv"}
        <4>1. r.pc \in {"start", "send", "recv", "err", "exit"}
          BY Counts DEF Sound, Locals, R
        <4> QED  BY <3>1, <4>1
      <3>5. W
        <4> HIDE DEF s, r, s1, r1, w, w1
        <4> QED  BY <1>4, <2>1, <3>1, <3>2, <3>3, <3>4
      <3>6. r1.result # "ok"
        BY <1>4, <3>1
      <3>7. Status = "none" /\ Status' \in {"none", "fail"}
        BY <1>5, <1>6, <3>1, <3>6
      <3>8. T
        BY <2>1, <3>2, <3>7 DEF Transfer!vars, Transfer!Next, Transfer!Fail
      <3> QED  BY <3>5, <3>8
    <2>3. CASE Transmits(p)
      <3>1. /\ r1.abs = r.abs /\ r1.finished = r.finished /\ r.pc = "send" /\ file' = file
            /\ \/ FinalAckSent(r) /\ r1.pc = "exit" /\ r1.result = "ok"
               \/ ~FinalAckSent(r) /\ r1.pc = "recv" /\ r1.result = "none"
        BY <1>8, <2>3 DEF Transmits
      <3>2. FinalAckSent(r) <=> r.finished
        BY <1>4, <3>1 DEF FinalAckSent
      <3>3. w1 = w /\ file'.bytes = file.bytes
        BY <3>1
      <3>4. W
        <4> HIDE DEF s, r, s1, r1, w, w1
        <4> QED  BY <1>4, <2>1, <3>1, <3>2, <3>3
      <3>5. Status = "none" /\ (Status' = "none" \/ (Status' = "ok" /\ w = job.readable))
        BY <1>4, <1>5, <1>6, <3>1, <3>2
      <3>6. T
        BY <2>1, <3>3, <3>5 DEF Transfer!vars, Transfer!Next, Transfer!Succeed
      <3> QED  BY <3>4, <3>6
    <2>4. CASE Writes(p)
      <3>1. PICK m \in net :
              /\ Expected(R, m) /\ file'.present
              /\ file'.bytes = file.bytes \o Bytes(m.off, Received(r, m))
              /\ r1.finished <=> r.finished \/ Received(r, m) # Neg
        BY <1>8, <2>4 DEF Writes
      <3>2. /\ r.pc = "recv" /\ r1.pc = "send" /\ r1.result = "none" /\ r1.opcode = "ACK"
            /\ r1.abs = r.abs + 1
        BY <1>8, <2>4 DEF Writes
      <3>3. /\ s.abs = r.abs + 1 /\ m.off = w /\ Received(r, m) = m.n
            /\ w + m.n = s.pos /\ (m.n # Neg => s.pos = job.readable) /\ ~r.finished
        BY <3>1, <3>2, BlockFits DEF S, R
      <3>4. m.n \in Nat
        BY Counts
      <3>5. file'.bytes = Transfer!Prefix(w + m.n) /\ w1 = w + m.n
        <4>1. file.bytes \in Seq(Nat)
          BY DEF Sound
        <4>2. file'.bytes = file.bytes \o Bytes(w, m.n)
          BY <3>1, <3>3
        <4> QED  BY <1>4, <3>4, <4>1, <4>2, Appended
      <3>6. W
        <4>1. r1.finished => s.pos = job.readable
          BY <3>1, <3>3
        <4>2. file'.present
          BY <3>1
        <4> HIDE DEF s, r, s1, r1, w, w1
        <4> QED  BY <1>2, <1>4, <2>1, <3>2, <3>3, <3>5, <4>1, <4>2
      <3>7. Status = "none" /\ Status' = "none"
        BY <1>5, <1>6, <3>2
      <3>8. T
        <4>1. CASE m.n = 0
          BY <1>2, <1>4, <2>1, <3>5, <3>7, <4>1 DEF Transfer!vars
        <4>2. CASE m.n # 0
          <5>1. w + m.n \in (w + 1)..job.readable
            BY <1>2, <3>3, <3>4, <4>2
          <5> QED  BY <2>1, <3>5, <3>7, <5>1 DEF Transfer!Next, Transfer!Deliver
        <4> QED  BY <4>1, <4>2
      <3> QED  BY <3>6, <3>8
    <2>5. CASE WritesPart(p)
      <3>1. PICK m \in net :
              /\ Expected(R, m)
              /\ \E k \in 0..(Received(r, m) - 1) : file'.bytes = file.bytes \o Bytes(m.off, k)
        BY <1>8, <2>5 DEF WritesPart
      <3>2. /\ r.pc = "recv" /\ r1.pc = "err" /\ r1.result = "none"
            /\ r1.abs = r.abs /\ r1.finished = r.finished
        BY <1>8, <2>5 DEF WritesPart
      <3>3. /\ s.abs = r.abs + 1 /\ m.off = w /\ Received(r, m) = m.n
            /\ w + m.n = s.pos /\ ~r.finished /\ m = s.xbuf
        BY <3>1, <3>2, BlockFits DEF S, R
      <3>4. m.n \in Nat
        BY Counts
      <3>5. PICK k \in 0..(m.n - 1) : file'.bytes = file.bytes \o Bytes(w, k)
        BY <3>1, <3>3
      <3>6. k \in Nat /\ w + k <= s.pos
        BY <1>2, <3>3, <3>4, <3>5
      <3>7. file'.bytes = Transfer!Prefix(w + k) /\ w1 = w + k
        <4>1. file.bytes \in Seq(Nat)
          BY DEF Sound
        <4> QED  BY <1>4, <3>5, <3>6, <4>1, Appended
      <3>8. W
        <4> HIDE DEF s, r, s1, r1, w, w1
        <4> QED  BY <1>2, <1>4, <2>1, <3>2, <3>3, <3>6, <3>7
      <3>9. Status = "none" /\ Status' = "none"
        BY <1>5, <1>6, <3>2
      <3>10. T
        <4>1. CASE k = 0
          BY <1>2, <1>4, <2>1, <3>7, <3>9, <4>1 DEF Transfer!vars
        <4>2. CASE k # 0
          <5>1. w + k \in (w + 1)..job.readable
            BY <1>2, <3>6, <4>2
          <5> QED  BY <2>1, <3>7, <3>9, <5>1 DEF Transfer!Next, Transfer!Deliver
        <4> QED  BY <4>1, <4>2
      <3> QED  BY <3>8, <3>10
    <2> QED  BY <2>1, <2>2, <2>3, <2>4, <2>5 DEF Moves, Advances
  <1> QED  BY <1>1, <1>7, <1>8

-----------------------------------------------------------------------------
(* Theorems for clients that ask for no block size below the default.      *)

\* Both hold before anyone starts, and FileTransfer's Init.
LEMMA BothInit == Init => Numbered /\ Written /\ Transfer!Init
  <1> SUFFICES ASSUME Init  PROVE Numbered /\ Written /\ Transfer!Init
    OBVIOUS
  <1>1. Sound
    BY SoundInit
  <1>2. /\ net = {} /\ file = [present |-> FALSE, bytes |-> << >>]
        /\ proc = [p \in Procs |-> InitProc(p)]
    BY DEF Init
  <1>3. /\ Sender \in Procs /\ Receiver \in Procs /\ Sender # Receiver
        /\ Sends(Sender) /\ ~Sends(Receiver) /\ job.readable \in Nat
    BY <1>1, Counts
  <1>4. \A p \in Procs :
          /\ proc[p].pc = "start" /\ proc[p].result = "none" /\ ~proc[p].finished
          /\ proc[p].abs = 1 /\ proc[p].pos = 0 /\ proc[p].xbuf.op = "none"
    BY <1>2 DEF InitProc, Pkt
  <1>5. file.bytes = << >> /\ Len(file.bytes) = 0 /\ file.bytes = Transfer!Prefix(0)
    BY <1>2 DEF Transfer!Prefix
  <1>6. Numbered
    BY <1>2, <1>3, <1>4 DEF Numbered
  <1>7. Written
    BY <1>3, <1>4, <1>5 DEF Written
  <1>8. Status = "none"
    BY <1>3, <1>4 DEF Status
  <1> QED  BY <1>3, <1>5, <1>6, <1>7, <1>8 DEF Transfer!Init

\* The two ends stay in lock step and the file holds what was acknowledged.
THEOREM ExchangeAlways ==
  ASSUME \A b \in BlkWanted : b >= BlkDefault
  PROVE  Spec => [](Numbered /\ Written)
  <1>1. Sound /\ Sound' /\ Numbered /\ Written /\ [Next]_vars => (Numbered /\ Written)'
    <2> SUFFICES ASSUME Sound, Sound', Numbered, Written, [Next]_vars
                 PROVE  Numbered' /\ Written'
      OBVIOUS
    <2>1. CASE UNCHANGED vars
      BY <2>1 DEF vars, Numbered, Written, Sender, Receiver, Neg, Transfer!Prefix
    <2>2. CASE Next
      BY <2>2, NextMoves, NumberedStep, WrittenStep
    <2> QED  BY <2>1, <2>2
  <1>2. Init => Numbered /\ Written
    BY BothInit
  <1> QED  BY <1>1, <1>2, SoundAlways, PTL DEF Spec

\* The sender is never behind what the receiver has written and never more
\* than one block ahead, although block numbers wrap and datagrams are lost,
\* repeated and reordered.
THEOREM LockStepCorrect ==
  ASSUME \A b \in BlkWanted : b >= BlkDefault
  PROVE  Spec => []LockStep
  <1>1. Sound /\ Numbered /\ Written => LockStep
    <2> SUFFICES ASSUME Sound, Numbered, Written  PROVE LockStep
      OBVIOUS
    <2> DEFINE s == proc[Sender]
               r == proc[Receiver]
               w == Len(file.bytes)
    <2>1. /\ s.abs \in Nat /\ r.abs \in Nat /\ r.abs >= 1 /\ w \in Nat /\ s.pos \in Nat
          /\ s.xbuf.off \in Nat /\ s.xbuf.n \in Nat /\ Neg \in Nat /\ job.readable \in Nat
      BY Counts
    <2>2. s \in Locals /\ Good(Sender, s) /\ Sends(Sender)
      BY LocalsOf, Counts
    <2>3. s.blksize \in Nat
      BY <2>2 DEF Locals
    <2>4. r.abs <= s.abs
      BY DEF Numbered
    <2>5. CASE r.abs = s.abs
      <3>1. w = s.pos
        BY <2>5 DEF Written
      <3> QED  BY <2>1, <2>3, <3>1 DEF LockStep
    <2>6. CASE r.abs # s.abs
      <3>1. s.abs > 1
        BY <2>1, <2>4, <2>6
      <3>2. s.xbuf.op = "DATA" /\ s.blksize = Neg
        <4>1. s.xbuf.op = "DATA"
          BY <2>2, <3>1 DEF Good
        <4>2. s.pc # "start"
          BY <2>2, <3>1 DEF Good, InitProc
        <4> QED  BY <2>2, <4>1, <4>2 DEF Good, Body
      <3>3. /\ s.xbuf.off + s.xbuf.n = s.pos /\ s.xbuf.n = Min(Neg, job.readable - s.xbuf.off)
            /\ s.xbuf.off <= w /\ w <= s.pos
        BY <2>6, <3>2 DEF Written
      <3>4. s.xbuf.n <= Neg
        BY <2>1, <3>3 DEF Min
      <3> QED  BY <2>1, <3>2, <3>3, <3>4 DEF LockStep
    <2> QED  BY <2>5, <2>6
  <1> QED  BY <1>1, SoundAlways, ExchangeAlways, PTL

\* EXIT_SUCCESS of a receiver means that all the sender could read is in place.
\* The hypothesis is needed: run tftp_small_block shows a truncated file without it.
THEOREM SuccessComplete ==
  ASSUME \A b \in BlkWanted : b >= BlkDefault
  PROVE  Spec => []CompleteOnSuccess
  <1>1. Written => CompleteOnSuccess
    BY DEF Written, CompleteOnSuccess
  <1> QED  BY <1>1, ExchangeAlways, PTL

\* To the receiving side the bytes arrive in order, each once, and success is
\* reported for all that can be read only: tftp_protocol() implements FileTransfer.
THEOREM TransferCorrect ==
  ASSUME \A b \in BlkWanted : b >= BlkDefault
  PROVE  Spec => TransferSpec
  <1>1. Sound /\ Sound' /\ Numbered /\ Written /\ [Next]_vars => [Transfer!Next]_(Transfer!vars)
    <2> SUFFICES ASSUME Sound, Sound', Numbered, Written, [Next]_vars
                 PROVE  [Transfer!Next]_(Transfer!vars)
      OBVIOUS
    <2>1. CASE UNCHANGED vars
      BY <2>1 DEF vars, Transfer!vars, Status, Receiver, Sender, Peer
    <2>2. CASE Next
      BY <2>2, NextMoves, WrittenStep
    <2> QED  BY <2>1, <2>2
  <1>2. Init => Transfer!Init
    BY BothInit
  <1> QED  BY <1>1, <1>2, SoundAlways, ExchangeAlways, PTL DEF Spec, TransferSpec, Transfer!Spec
=============================================================================
