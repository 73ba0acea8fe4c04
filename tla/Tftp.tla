-------------------------------- MODULE Tftp --------------------------------
(***************************************************************************)
(* networking/tftp.c: a tftp client and the tftpd that answers its request *)
(* both run tftp_protocol(), on the two ends of an unreliable network.     *)
(*                                                                         *)
(* A process is a record of tftp_protocol()'s locals.  Its pc is the label *)
(* it stands at: "start", "send" (send_again:), "recv" (recv_again:),      *)
(* "err" (send_err_pkt:), "exit".  The file is <<1, 2, ..., job.len>>; a   *)
(* DATA packet holds the n bytes after offset off.                         *)
(***************************************************************************)
EXTENDS Integers, Sequences

CONSTANTS
  MaxLen,      \* bound: longest file transferred, in bytes
  BlkDefault,  \* TFTP_BLKSIZE_DEFAULT
  BlkWanted,   \* the block sizes asked for with "tftp -b"
  OptionsBuilt,\* whether tftpd is built with FEATURE_TFTP_BLOCKSIZE: a set
  Retries,     \* TFTP_NUM_RETRIES
  Modulus,     \* 2^16: block_nr and recv_blk are uint16_t
  MaxAge,      \* how many blocks a datagram may survive in the network
  Faults       \* local failures that may happen, see FaultKinds

FaultKinds == {"refuse", "open", "read", "write", "send", "poll", "unreach"}

ASSUME TftpAssumption ==
  /\ MaxLen \in Nat /\ BlkDefault \in Nat \ {0} /\ BlkWanted \subseteq Nat \ {0}
  /\ OptionsBuilt \subseteq BOOLEAN /\ Retries \in Nat \ {0}
  /\ Modulus \in Nat /\ MaxAge \in Nat /\ MaxAge + 1 < Modulus
  /\ Faults \subseteq FaultKinds

VARIABLES
  job,   \* what is transferred: command, file length, -b SIZE, tftpd's build
  proc,  \* the two processes
  net,   \* every datagram still in the network; any of them may be received,
         \* more than once, in any order, or never
  file   \* the receiving side's file

vars == <<job, proc, net, file>>

Procs == {"tftp", "tftpd"}
Peer(p) == IF p = "tftp" THEN "tftpd" ELSE "tftp"

\* CMD_PUT: the client uploads, or tftpd answers a read request.
Sends(p) == p = (IF job.cmd = "put" THEN "tftp" ELSE "tftpd")

Ops == {"none", "RRQ", "WRQ", "DATA", "ACK", "ERROR", "OACK"}

(* abs is the block number before it is cut to 16 bits.  It is not sent:   *)
(* only the network's bound on a datagram's age reads it.                  *)
Pkt(p, op, blk, off, n, abs) ==
  [src |-> p, op |-> op, blk |-> blk, off |-> off, n |-> n, abs |-> abs]

(* Of the sender's file the first readable bytes can be read.  If that is  *)
(* not all of it, read() fails there: an EIO, a file server that is gone.  *)
Jobs ==
  {j \in [cmd : {"get", "put"}, len : 0..MaxLen, readable : 0..MaxLen,
          want : BlkWanted, options : OptionsBuilt] :
     /\ j.readable <= j.len
     /\ "read" \notin Faults => j.readable = j.len}

Bytes(off, n) == [i \in 1..n |-> off + i]
Min(a, b) == IF a <= b THEN a ELSE b

InitProc(p) ==
  [pc |-> "start", result |-> "none", opcode |-> "none", blksize |-> BlkDefault,
   expectOACK |-> FALSE, finished |-> FALSE, blockNr |-> 1, abs |-> 1, pos |-> 0,
   retries |-> Retries, xbuf |-> Pkt(p, "none", 0, 0, 0, 0)]

Init ==
  /\ job \in Jobs
  /\ proc = [p \in Procs |-> InitProc(p)]
  /\ net = {}
  /\ file = [present |-> FALSE, bytes |-> << >>]

-----------------------------------------------------------------------------
(* Steps of a process, as functions from its locals to its locals.         *)

\* send_pkt: the packet is in xbuf, the retry counter starts afresh.
ToSend(s, pkt) ==
  [s EXCEPT !.pc = "send", !.opcode = pkt.op, !.xbuf = pkt, !.retries = Retries]

\* Mutant of Build: block_nr kept in an int instead of a uint16_t.
Build_NoWrap(p, s) ==
  LET n == IF Sends(p) THEN Min(s.blksize, job.readable - s.pos) ELSE 0
  IN  [ToSend(s, Pkt(p, IF Sends(p) THEN "DATA" ELSE "ACK", s.blockNr, s.pos, n, s.abs))
         EXCEPT !.blockNr = s.blockNr + 1, !.abs = s.abs + 1, !.pos = s.pos + n,
                !.finished = s.finished \/ (Sends(p) /\ n # s.blksize)]

\* The top of the loop: build ACK or DATA from block_nr, then increment it.
\* full_read() returns fewer bytes than asked at the end of the file, and also
\* when read() fails after some of the block's bytes: either way the short
\* block counts as the last one.
Build(p, s) ==
  LET n == IF Sends(p) THEN Min(s.blksize, job.readable - s.pos) ELSE 0
      op == IF Sends(p) THEN "DATA" ELSE "ACK"
  IN  [ToSend(s, Pkt(p, op, s.blockNr, s.pos, n, s.abs)) EXCEPT
         !.blockNr = (s.blockNr + 1) % Modulus,
         !.abs = s.abs + 1,
         !.pos = s.pos + n,
         !.finished = s.finished \/ (Sends(p) /\ n # s.blksize)]

\* Mutant of Unlinked: the error path forgets to remove the file.
Unlinked_Never(p, opened) == file

\* err: a receiver that has its file open removes it.
Unlinked(p, opened) ==
  IF ~Sends(p) /\ opened THEN [file EXCEPT !.present = FALSE] ELSE file

Exit(s, r) == [s EXCEPT !.pc = "exit", !.result = r]

\* ret: success is "finished is set", whatever brought the process here.
Ret(p, s) ==
  /\ proc' = [proc EXCEPT ![p] = Exit(s, IF s.finished THEN "ok" ELSE "fail")]
  /\ file' = IF s.finished THEN file ELSE Unlinked(p, file.present)
  /\ UNCHANGED <<job, net>>

\* full_read() returns -1 only if read() fails before the block's first byte.
ReadsSome(s) == s.pos < job.readable \/ job.readable = job.len

\* Continue at the loop's top, where a sender's read may fail.
BuildNext(p, s) ==
  /\ \/ /\ Sends(p) => ReadsSome(s)
        /\ proc' = [proc EXCEPT ![p] = Build(p, s)]
     \/ /\ "read" \in Faults /\ Sends(p)
        /\ proc' = [proc EXCEPT ![p] = [s EXCEPT !.pc = "err"]]
  /\ UNCHANGED <<job, net>>

-----------------------------------------------------------------------------
(* tftp_main(): the client builds its request, always with the tsize option. *)
(* For an upload, the local file is opened first, and xopen() dies.         *)
ClientStart ==
  LET s == [proc["tftp"] EXCEPT !.blksize = job.want, !.expectOACK = TRUE]
      op == IF job.cmd = "put" THEN "WRQ" ELSE "RRQ"
  IN  /\ s.pc = "start"
      /\ \/ proc' = [proc EXCEPT !["tftp"] =
                       ToSend(s, Pkt("tftp", op, 0, 0, job.want, 0))]
         \/ /\ "open" \in Faults /\ job.cmd = "put"
            /\ proc' = [proc EXCEPT !["tftp"] = Exit(s, "die")]
      /\ UNCHANGED <<job, net, file>>

\* tftpd_main(): the requests among the datagrams that reach port 69.
Requests == {m \in net : m.op \in {"RRQ", "WRQ"}}

\* Its parsing of the options: the blksize asked for, which tftp_blksize_check()
\* lets pass, and whether the size of a file to download was asked for.
BlksizeOf(m) == IF job.options THEN m.n ELSE BlkDefault
WantTransferSize(m) == job.options /\ m.op = "RRQ"

(* The tftpd part of tftp_protocol().  The request may have been refused    *)
(* (bad name, mode, option, -r, open() failing): one error packet.          *)
(* Otherwise the file is opened, an upload truncating it, and the answer is *)
(* an OACK, or ACK 0 for an upload, or DATA 1 for a download.               *)
ServerStart ==
  LET s0 == proc["tftpd"] IN
  /\ s0.pc = "start"
  /\ \E m \in Requests :
       /\ LET blk == BlksizeOf(m)
              s == [s0 EXCEPT !.blksize = blk]
              oack == blk # BlkDefault \/ WantTransferSize(m)
              created == IF m.op = "WRQ" THEN [present |-> TRUE, bytes |-> << >>]
                                         ELSE file
          IN  \/ /\ oack
                 /\ proc' = [proc EXCEPT !["tftpd"] =
                               ToSend(s, Pkt("tftpd", "OACK", 0, 0, blk, 0))]
                 /\ file' = created
                 /\ UNCHANGED <<job, net>>
              \/ /\ ~oack /\ m.op = "WRQ"
                 /\ BuildNext("tftpd", [s EXCEPT !.blockNr = 0, !.abs = 0])
                 /\ file' = created
              \/ /\ ~oack /\ m.op = "RRQ"
                 /\ BuildNext("tftpd", s)
                 /\ file' = created
              \/ /\ "refuse" \in Faults
                 /\ proc' = [proc EXCEPT !["tftpd"] = [s EXCEPT !.pc = "err"]]
                 /\ UNCHANGED <<job, net, file>>

\* UDP's lifetime bound: once block a is sent, what is older than a by more
\* than MaxAge blocks is no longer in the network.
Live(a) == {m \in net : m.abs + MaxAge >= a}

\* Mutant of FinalAckSent: leaves after any ACK, finished or not.
FinalAckSent_Any(s) == s.opcode = "ACK"

(* send_again: xsendto().  "Was it final ACK? then exit" tests opcode, which *)
(* by then may hold the opcode of the last packet received.                 *)
FinalAckSent(s) == s.finished /\ s.opcode = "ACK"

Send(p) ==
  LET s == proc[p] IN
  /\ s.pc = "send"
  /\ net' = Live(s.xbuf.abs) \cup {s.xbuf}
  /\ proc' = [proc EXCEPT ![p] = IF FinalAckSent(s) THEN Exit(s, "ok")
                                 ELSE [s EXCEPT !.pc = "recv"]]
  /\ UNCHANGED <<job, file>>

\* send_err_pkt: one error packet, then err:.
SendErr(p) ==
  LET s == proc[p] IN
  /\ s.pc = "err"
  /\ net' = net \cup {Pkt(p, "ERROR", 0, 0, 0, s.abs)}
  /\ proc' = [proc EXCEPT ![p] = Exit(s, "fail")]
  /\ file' = Unlinked(p, file.present)
  /\ UNCHANGED job

\* xsendto() dies when sendto() fails: the local file stays as it is.
SendDies(p) ==
  /\ "send" \in Faults
  /\ proc[p].pc \in {"send", "err"}
  /\ proc' = [proc EXCEPT ![p] = Exit(proc[p], "die")]
  /\ UNCHANGED <<job, net, file>>

\* Mutant of Timeout: jumps to send_pkt:, which starts the retries afresh.
Timeout_Afresh(p) ==
  /\ proc[p].pc = "recv"
  /\ proc' = [proc EXCEPT ![p] = ToSend(proc[p], proc[p].xbuf)]
  /\ UNCHANGED <<job, net, file>>

\* poll() times out: resend the last packet, or give up when retries are spent.
Timeout(p) ==
  LET s == [proc[p] EXCEPT !.retries = @ - 1] IN
  /\ s.pc = "recv"
  /\ \/ /\ s.retries = 0
        /\ Ret(p, s)
     \/ /\ s.retries # 0
        /\ proc' = [proc EXCEPT ![p] = [s EXCEPT !.pc = "send"]]
        /\ UNCHANGED <<job, net, file>>

\* poll() fails: ret:, without an error packet.
PollFails(p) ==
  /\ "poll" \in Faults
  /\ proc[p].pc = "recv"
  /\ Ret(p, proc[p])

\* A connected socket reports that the peer's port is closed: read() fails.
Unreachable(p) ==
  LET s == proc[p] IN
  /\ "unreach" \in Faults
  /\ s.pc = "recv" /\ proc[Peer(p)].pc = "exit"
  /\ p = "tftpd" \/ ~s.expectOACK
  /\ proc' = [proc EXCEPT ![p].pc = "err"]
  /\ UNCHANGED <<job, net, file>>

\* What is left of the datagram in rbuf, which holds one block.
Received(s, m) == Min(m.n, s.blksize)

\* An OACK that was waited for sets the block size; a downloading client
\* answers it with ACK 0.
RecvOACK(p, s, m) ==
  /\ s.expectOACK /\ m.op = "OACK"
  /\ LET t == [s EXCEPT !.expectOACK = FALSE, !.blksize = m.n]
     IN  BuildNext(p, IF Sends(p) THEN t ELSE [t EXCEPT !.blockNr = 0, !.abs = 0])
  /\ UNCHANGED file

\* Any other first answer means that the options were not understood.
Fallback(s) ==
  IF s.expectOACK THEN [s EXCEPT !.expectOACK = FALSE, !.blksize = BlkDefault]
                  ELSE s

\* Mutant of IsAckOfLast: the block number is not compared.
IsAckOfLast_Any(p, s, m) == Sends(p) /\ m.op = "ACK"

IsNextData(p, s, m) == ~Sends(p) /\ m.op = "DATA" /\ m.blk = s.blockNr
IsAckOfLast(p, s, m) ==
  Sends(p) /\ m.op = "ACK" /\ m.blk = (s.blockNr + Modulus - 1) % Modulus

\* The expected block: append it to the file (a client creates the file only
\* now, and xopen() dies if it cannot) and acknowledge it; a short block is the
\* last one.  A write that fails may have written some of the bytes.
RecvData(p, s, m) ==
  LET sz == Received(proc[p], m) IN
  /\ IsNextData(p, s, m)
  /\ \/ /\ file' = [present |-> TRUE, bytes |-> file.bytes \o Bytes(m.off, sz)]
        /\ BuildNext(p, [s EXCEPT !.finished = s.finished \/ sz # s.blksize])
     \/ /\ "write" \in Faults
        /\ \E k \in 0..(sz - 1) :
             file' = [present |-> TRUE, bytes |-> file.bytes \o Bytes(m.off, k)]
        /\ proc' = [proc EXCEPT ![p] = [s EXCEPT !.pc = "err"]]
        /\ UNCHANGED <<job, net>>
     \/ /\ "open" \in Faults /\ ~file.present
        /\ proc' = [proc EXCEPT ![p] = Exit(s, "die")]
        /\ UNCHANGED <<job, net, file>>

RecvAck(p, s, m) ==
  /\ IsAckOfLast(p, s, m)
  /\ \/ /\ s.finished
        /\ Ret(p, s)
     \/ /\ ~s.finished
        /\ BuildNext(p, s)
        /\ UNCHANGED file

\* Mutant of RecvOther: an answer that is not the expected one causes a resend.
RecvOther_Resend(p, s, m) ==
  /\ ~IsNextData(p, s, m) /\ ~IsAckOfLast(p, s, m)
  /\ proc' = [proc EXCEPT ![p] = [s EXCEPT !.pc = "send"]]
  /\ UNCHANGED <<job, net, file>>

\* Anything else is ignored, and nothing is resent; opcode keeps its opcode.
RecvOther(p, s, m) ==
  /\ ~IsNextData(p, s, m) /\ ~IsAckOfLast(p, s, m)
  /\ proc' = [proc EXCEPT ![p] = s]
  /\ UNCHANGED <<job, net, file>>

Recv(p) ==
  /\ proc[p].pc = "recv"
  /\ \E m \in net :
       LET r == [proc[p] EXCEPT !.opcode = m.op]
           s == Fallback(r)
       IN  /\ m.src = Peer(p)
           /\ \/ m.op = "ERROR" /\ Ret(p, r)
              \/ RecvOACK(p, r, m)
              \/ /\ m.op # "ERROR" /\ ~(r.expectOACK /\ m.op = "OACK")
                 /\ \/ RecvData(p, s, m)
                    \/ RecvAck(p, s, m)
                    \/ RecvOther(p, s, m)

Step(p) ==
  \/ Send(p) \/ SendErr(p) \/ SendDies(p)
  \/ Timeout(p) \/ PollFails(p) \/ Unreachable(p) \/ Recv(p)

Next == ClientStart \/ ServerStart \/ \E p \in Procs : Step(p)

Spec == Init /\ [][Next]_vars

(* A process that can send, has timed out or has yet to start does so.  A  *)
(* timeout is fair because the peer's datagrams, and so the copies of them *)
(* that restart poll(), are finitely many.                                 *)
Fairness ==
  /\ WF_vars(ClientStart)
  /\ \A p \in Procs : WF_vars(Send(p)) /\ WF_vars(SendErr(p)) /\ WF_vars(Timeout(p))

FairSpec == Spec /\ Fairness

-----------------------------------------------------------------------------
Packets ==
  [src : Procs, op : Ops, blk : 0..(Modulus - 1), off : Nat, n : Nat, abs : Nat]

Locals ==
  [pc : {"start", "send", "recv", "err", "exit"}, result : {"none", "ok", "fail", "die"},
   opcode : Ops, blksize : Nat \ {0}, expectOACK : BOOLEAN, finished : BOOLEAN,
   blockNr : 0..(Modulus - 1), abs : Nat, pos : Nat, retries : 0..Retries,
   xbuf : Packets]

\* The types of tftp_protocol()'s locals, the datagrams and the file.
TypeOK ==
  /\ job \in Jobs
  /\ proc \in [Procs -> Locals]
  /\ net \subseteq Packets
  /\ file \in [present : BOOLEAN, bytes : Seq(Nat)]

Sender == IF job.cmd = "put" THEN "tftp" ELSE "tftpd"
Receiver == Peer(Sender)

\* A receiver returns EXIT_SUCCESS only with all in place that the sender could
\* read, the whole file unless a read failed inside a block: a short block is
\* taken for the last one by both sides or by neither.
CompleteOnSuccess ==
  proc[Receiver].result = "ok" => file.present /\ Len(file.bytes) = job.readable

\* Lock step: what the sender has read is at most one block ahead of what the
\* receiver has written, and never behind it.
LockStep ==
  LET gap == proc[Sender].pos - Len(file.bytes)
  IN  0 <= gap /\ gap <= proc[Sender].blksize

\* A receiver that fails leaves no partial file behind, unless it dies in
\* xsendto(), where the err: path is not taken.
NoPartialFile == proc[Receiver].result = "fail" => ~file.present

\* rfc1123, quoted in the code: an answer never makes a process resend its
\* last packet; from recv_again: it resends only on a timeout.
ResendOnlyOnTimeout ==
  [][\A p \in Procs :
       (proc[p].pc = "recv" /\ proc'[p].pc = "send" /\ proc'[p].xbuf = proc[p].xbuf)
       => proc'[p].retries = proc[p].retries - 1]_vars

\* Retries are bounded and every block restarts them finitely often: a process
\* that has started exits.
Termination ==
  \A p \in Procs : proc[p].pc # "start" ~> proc[p].pc = "exit"

\* To the receiving side a transfer is in order, without repeats, and all that
\* the sender could read if reported so: tftp_protocol() implements FileTransfer.
Status == IF proc[Receiver].result = "die" THEN "fail" ELSE proc[Receiver].result
Transfer == INSTANCE FileTransfer
              WITH len <- job.readable, out <- file.bytes, status <- Status
TransferSpec == Transfer!Spec
=============================================================================
