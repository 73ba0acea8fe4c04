------------------------------ MODULE LogRing ------------------------------
(***************************************************************************)
(* The circular buffer in shared memory that syslogd -C writes             *)
(* (sysklogd/syslogd.c) and logread reads (sysklogd/logread.c), and the    *)
(* two semaphores that guard it: sem0 counts the readers, sem1 the writer. *)
(*                                                                         *)
(* A byte is the number of the message it belongs to, or NUL.  logread is  *)
(* the variant without FEATURE_LOGREAD_REDUCED_LOCKING.                    *)
(***************************************************************************)
EXTENDS Integers, Sequences, FiniteSets, SequencesExt

CONSTANTS
  size,        \* shbuf->size: one byte less than data has
  Lens,        \* lengths of messages, without the NUL
  MaxMsgs,     \* bound: messages written
  Readers,     \* the logread processes
  Follow,      \* which of them run with -f; the others dump the buffer
  MaxKills     \* bound: kills of syslogd

ASSUME LogRingAssumption ==
  /\ size \in Nat \ {0} /\ Lens \subseteq Nat \ {0} /\ MaxMsgs \in Nat
  /\ Follow \subseteq Readers /\ IsFiniteSet(Readers) /\ MaxKills \in Nat

NUL == 0

VARIABLES
  data, tail,  \* shbuf
  sem0, sem1,
  wpc,         \* log_to_shmem(): "idle", "lock", "copy", "unlock"
  msg,         \* what it has still to copy
  count,       \* messages so far
  lens,        \* their lengths
  rpc,         \* logread: "start", "lock", "read", "unlock", "exit"
  cur,         \* its position
  behind,      \* bytes written since it looked at tail, at most size
  astray,      \* cur may be inside a message: the buffer went round since it
               \* looked at tail, or it did so while a message was half copied
  upto,        \* the last message written when it took the lock
  out,         \* what it has printed
  kills

shbuf == <<data, tail>>
writer == <<wpc, msg, count, lens>>
reader == <<rpc, cur, upto, out>>
seen == <<behind, astray>>
vars == <<shbuf, sem0, sem1, writer, reader, seen, kills>>

Init ==
  /\ data = [k \in 0..size |-> NUL] /\ tail = 0
  /\ sem0 = 0 /\ sem1 = 0
  /\ wpc = "idle" /\ msg = << >> /\ count = 0 /\ lens = << >>
  /\ rpc = [r \in Readers |-> "start"] /\ cur = [r \in Readers |-> 0]
  /\ upto = [r \in Readers |-> 0] /\ out = [r \in Readers |-> << >>]
  /\ behind = [r \in Readers |-> 0] /\ astray = [r \in Readers |-> FALSE]
  /\ kills = 0

-----------------------------------------------------------------------------
(* syslogd: log_to_shmem().                                                *)
\* A message of length n arrives; n + 1 bytes will be copied.
Message(n) ==
  /\ wpc = "idle" /\ count < MaxMsgs
  /\ wpc' = "lock" /\ count' = count + 1 /\ lens' = Append(lens, n)
  /\ msg' = [k \in 1..(n + 1) |-> IF k = n + 1 THEN NUL ELSE count + 1]
  /\ UNCHANGED <<shbuf, sem0, sem1, reader, seen, kills>>

\* Mutant of WriterLock: does not wait for the readers.
WriterLock_NoWait ==
  /\ wpc = "lock" /\ sem1 = 0
  /\ sem1' = sem1 + 1
  /\ wpc' = "copy"
  /\ UNCHANGED <<shbuf, sem0, msg, count, lens, reader, seen, kills>>

\* semop(SMwdn): waits until there is no reader and no writer.
WriterLock ==
  /\ wpc = "lock" /\ sem0 = 0 /\ sem1 = 0
  /\ sem1' = sem1 + 1
  /\ wpc' = "copy"
  /\ UNCHANGED <<shbuf, sem0, msg, count, lens, reader, seen, kills>>

Attached(r) == rpc[r] \notin {"start", "exit"}

\* Mutant of Fits: the message may end in the last byte.
Fits_Equal(n) == tail + n <= size
Fits(n) == tail + n < size

\* The bytes of m, stored from position a on.
Stored(a, m) ==
  [k \in 0..size |-> IF k \in a..(a + Len(m) - 1) THEN m[k - a + 1] ELSE data[k]]

\* One turn of the loop: store the message, or what fits up to the end.
Copy ==
  /\ wpc = "copy"
  /\ IF Fits(Len(msg))
     THEN /\ data' = Stored(tail, msg)
          /\ tail' = tail + Len(msg)
          /\ msg' = << >> /\ wpc' = "unlock"
     ELSE LET k == size - tail
          IN  /\ data' = Stored(tail, SubSeq(msg, 1, k))
              /\ tail' = 0
              /\ msg' = SubSeq(msg, k + 1, Len(msg)) /\ UNCHANGED wpc
  /\ behind' = [r \in Readers |-> IF Attached(r)
                   THEN Min({size, behind[r] + Len(msg) - Len(msg')}) ELSE 0]
  /\ astray' = [r \in Readers |-> astray[r] \/ behind'[r] = size]
  /\ UNCHANGED <<sem0, sem1, count, lens, reader, kills>>


WriterUnlock ==
  /\ wpc = "unlock"
  /\ sem1' = sem1 - 1
  /\ wpc' = "idle"
  /\ UNCHANGED <<shbuf, sem0, msg, count, lens, reader, seen, kills>>

\* syslogd is killed and started again.  ipcsyslog_init() clears the buffer
\* and takes the semaphores as it finds them: without SEM_UNDO, sem1 stays.
Killed ==
  /\ kills < MaxKills /\ kills' = kills + 1
  /\ data' = [k \in 0..size |-> NUL] /\ tail' = 0
  /\ wpc' = "idle" /\ msg' = << >>
  /\ UNCHANGED <<sem0, sem1, count, lens, reader, seen>>

-----------------------------------------------------------------------------
(* logread.                                                                *)
Goto(r, l) == rpc' = [rpc EXCEPT ![r] = l]

\* cur is read before the lock is taken.
Attach(r) ==
  /\ rpc[r] = "start"
  /\ cur' = [cur EXCEPT ![r] = tail]
  /\ behind' = [behind EXCEPT ![r] = 0]
  /\ astray' = [astray EXCEPT ![r] = wpc = "copy" /\ Len(msg) <= lens[count]]
  /\ Goto(r, "lock")
  /\ UNCHANGED <<shbuf, sem0, sem1, writer, upto, out, kills>>

\* semop(SMrdn): waits until there is no writer.
ReaderLock(r) ==
  /\ rpc[r] = "lock" /\ sem1 = 0
  /\ sem0' = sem0 + 1
  /\ upto' = [upto EXCEPT ![r] = IF wpc = "lock" THEN count - 1 ELSE count]
  /\ Goto(r, "read")
  /\ UNCHANGED <<shbuf, sem1, writer, cur, out, seen, kills>>

\* strlen(data + p): the distance to the next NUL.  The last byte is one.
StrLen(p) == (CHOOSE k \in p..size : data[k] = NUL /\ \A l \in p..(k - 1) : data[l] # NUL) - p

\* Mutant of Advance: the search does not go on at the start of the buffer.
Advance_NoWrap(p) ==
  LET q == p + StrLen(p)
  IN  IF q >= size THEN -1 ELSE IF q + 1 >= size THEN 0 ELSE q + 1

\* Advance to the first byte after the next NUL; -1: no complete messages.
Advance(p) ==
  LET q == p + StrLen(p)
      c == IF q >= size THEN (IF StrLen(0) < tail THEN StrLen(0) ELSE tail) ELSE q
  IN  IF q >= size /\ c = tail THEN -1
      ELSE IF c + 1 >= size THEN 0 ELSE c + 1

\* What "while (cur != shbuf_tail)" prints, starting at p: all that is not NUL.
Printed(p) ==
  LET n == IF p <= tail THEN tail - p ELSE size - p + tail
      byte(k) == IF p + k <= size THEN data[p + k - 1] ELSE data[p + k - 1 - size]
      text[k \in 0..n] ==
        IF k = 0 THEN << >>
        ELSE IF byte(k) = NUL THEN text[k - 1] ELSE Append(text[k - 1], byte(k))
  IN  text[n]

\* Dump the buffer, or print what is new.
ReadDump(r) ==
  /\ rpc[r] = "read" /\ r \notin Follow
  /\ IF Advance(cur[r]) = -1 THEN UNCHANGED out
     ELSE out' = [out EXCEPT ![r] = Printed(Advance(cur[r]))]
  /\ Goto(r, "unlock")
  /\ UNCHANGED <<shbuf, sem0, sem1, writer, cur, upto, seen, kills>>

ReadNew(r) ==
  /\ rpc[r] = "read" /\ r \in Follow
  /\ out' = [out EXCEPT ![r] = @ \o Printed(cur[r])]
  /\ cur' = [cur EXCEPT ![r] = tail]
  /\ behind' = [behind EXCEPT ![r] = 0]
  /\ Goto(r, "unlock")
  /\ UNCHANGED <<shbuf, sem0, sem1, writer, upto, astray, kills>>

\* The process ends, and its locals with it.
Exits(r) ==
  /\ Goto(r, "exit")
  /\ cur' = [cur EXCEPT ![r] = 0] /\ upto' = [upto EXCEPT ![r] = 0]
  /\ out' = [out EXCEPT ![r] = << >>]
  /\ behind' = [behind EXCEPT ![r] = 0] /\ astray' = [astray EXCEPT ![r] = FALSE]

\* sem_up(); a follower goes on, after a sleep if there was nothing new.
ReaderUnlock(r) ==
  /\ rpc[r] = "unlock"
  /\ sem0' = sem0 - 1
  /\ \/ r \in Follow /\ Goto(r, "lock") /\ UNCHANGED <<cur, upto, out, seen>>
     \/ r \notin Follow /\ Exits(r)
  /\ UNCHANGED <<shbuf, sem1, writer, kills>>

\* A reader is interrupted: SEM_UNDO gives back what it holds.
ReaderKilled(r) ==
  /\ Attached(r)
  /\ sem0' = IF rpc[r] = "lock" THEN sem0 ELSE sem0 - 1
  /\ Exits(r)
  /\ UNCHANGED <<shbuf, sem1, writer, kills>>

WriterStep == WriterLock \/ Copy \/ WriterUnlock
ReaderStep(r) ==
  Attach(r) \/ ReaderLock(r) \/ ReadDump(r) \/ ReadNew(r) \/ ReaderUnlock(r)

Next ==
  \/ WriterStep \/ Killed \/ \E n \in Lens : Message(n)
  \/ \E r \in Readers : ReaderStep(r) \/ ReaderKilled(r)

Spec == Init /\ [][Next]_vars

\* r has something to print: it does so holding the semaphore, and its output
\* (a pager, a slow terminal) may take it as late as it likes.
Printing(r) ==
  /\ rpc[r] = "read"
  /\ IF r \in Follow THEN cur[r] # tail ELSE Advance(cur[r]) # -1

\* syslogd and the readers run, except that an output may block for good; the
\* kernel carries out a waiting semop() as soon as it can, so that nobody
\* overtakes it for ever.
FairSpec ==
  /\ Spec
  /\ SF_vars(WriterLock) /\ WF_vars(Copy) /\ WF_vars(WriterUnlock)
  /\ \A r \in Readers : SF_vars(ReaderLock(r)) /\ WF_vars(~Printing(r) /\ ReaderStep(r))

-----------------------------------------------------------------------------
\* Types; "tail's max value is (shbuf->size - 1)" and "Last byte of buffer is
\* never used and remains NUL".
TypeOK ==
  /\ data \in [0..size -> 0..MaxMsgs] /\ data[size] = NUL /\ tail \in 0..(size - 1)
  /\ sem0 \in 0..Cardinality(Readers) /\ sem1 \in 0..1
  /\ wpc \in {"idle", "lock", "copy", "unlock"}
  /\ count \in 0..MaxMsgs /\ Len(lens) = count
  /\ rpc \in [Readers -> {"start", "lock", "read", "unlock", "exit"}]
  /\ cur \in [Readers -> 0..(size - 1)] /\ behind \in [Readers -> 0..size]

Body(m) == [k \in 1..lens[m] |-> m]
Messages(a, b) == FlattenSeq([k \in 1..(b - a + 1) |-> Body(a + k - 1)])

\* What logread prints consists of whole messages, in order, up to the last one:
\* however the buffer wrapped, no half of an overwritten message is shown.  "Show
\* messages in syslogd's circular buffer": a dump shows at least the latest one,
\* unless one was written after logread looked at tail.  A follower prints every
\* message once, as long as it keeps up and did not look at tail in the middle of
\* a copy.
ReadersShow ==
  \A r \in Readers : rpc[r] = "unlock" /\ kills = 0 /\ (r \in Follow => ~astray[r]) =>
    \E a \in 1..(upto[r] + 1) :
      /\ out[r] = Messages(a, upto[r])
      /\ r \notin Follow /\ upto[r] > 0 /\ behind[r] = 0 => a <= upto[r]

\* Nobody reads the buffer while a message is copied into it.
NoTornRead ==
  \A r \in Readers : rpc[r] \in {"read", "unlock"} => wpc # "copy"

\* The write semaphore is still held for a syslogd that was killed.
Orphaned == sem1 = 1 /\ wpc \in {"idle", "lock"} /\ kills > 0

=============================================================================
