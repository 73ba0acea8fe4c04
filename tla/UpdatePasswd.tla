---------------------------- MODULE UpdatePasswd ----------------------------
(***************************************************************************)
(* libbb/update_passwd.c: processes that call update_passwd() on one FILE. *)
(* Each opens FILE, creates FILE+ exclusively, links FILE to the backup    *)
(* FILE-, writes the updated lines to FILE+ and renames it to FILE.        *)
(*                                                                         *)
(* Every rename gives FILE a new inode.  versions holds their contents in  *)
(* order, the last one being what FILE names now; a process that opened    *)
(* FILE goes on reading the inode it opened.                               *)
(***************************************************************************)
EXTENDS Integers, Sequences, FiniteSets

CONSTANTS
  Procs,                   \* the processes
  Keys, Values, Members,  \* what the file's lines are made of
  Calls,                   \* the updates asked for
  InitialFiles,            \* what FILE may hold at first
  Tries,                   \* how often FILE+ is tried: 30
  MaxVersions,             \* bound: renames
  Faults                   \* what may fail: "crash", "io", "link"

VARIABLES
  versions,  \* the contents of FILE, oldest first
  plus,      \* FILE+: who created it, "none", or "stale" after a crash
  backup,    \* the version that FILE- names, 0 if there is none
  pc,        \* where a process is in update_passwd()
  call,      \* its arguments
  old,       \* the version that old_fp reads
  tries,     \* i, in the loop that creates FILE+
  ret        \* what update_passwd() returned last

updateVars == <<versions, plus, backup, pc, call, old, tries, ret>>

PF == INSTANCE PasswdFile WITH file <- versions[Len(versions)]

ASSUME UpdatePasswdAssumption ==
  /\ Calls \subseteq PF!Ops /\ InitialFiles \subseteq PF!Contents
  /\ IsFiniteSet(Keys) /\ Tries \in Nat \ {0} /\ MaxVersions \in Nat
  /\ "none" \notin Procs /\ "stale" \notin Procs

NoCall == [kind |-> "none"]
Now == Len(versions)

UpdateInit ==
  /\ \E c \in InitialFiles : versions = <<c>>
  /\ plus = "none" /\ backup = 0
  /\ pc = [p \in Procs |-> "idle"]
  /\ call = [p \in Procs |-> NoCall]
  /\ old = [p \in Procs |-> 0]
  /\ tries = [p \in Procs |-> 0]
  /\ ret = [p \in Procs |-> 0]

\* Bound: every call under way may still rename once.
Bounded == Now + Cardinality({q \in Procs : pc[q] # "idle"}) < MaxVersions

\* The process returns r.
Return(p, r) ==
  /\ pc' = [pc EXCEPT ![p] = "idle"]
  /\ ret' = [ret EXCEPT ![p] = r]
  /\ call' = [call EXCEPT ![p] = NoCall]
  /\ old' = [old EXCEPT ![p] = 0]
  /\ tries' = [tries EXCEPT ![p] = 0]

Proceed(p, l) ==
  /\ pc' = [pc EXCEPT ![p] = l]
  /\ UNCHANGED <<call, old, tries, ret>>

-----------------------------------------------------------------------------
\* fopen(filename): from here on the process reads this version.
Open(p, op) ==
  /\ pc[p] = "idle" /\ Bounded
  /\ pc' = [pc EXCEPT ![p] = "create"]
  /\ call' = [call EXCEPT ![p] = op]
  /\ old' = [old EXCEPT ![p] = Now]
  /\ tries' = [tries EXCEPT ![p] = Tries]
  /\ UNCHANGED <<versions, plus, backup, ret>>

\* Mutant of Create: without O_EXCL.
Create_NoExcl(p) ==
  /\ pc[p] = "create"
  /\ plus' = p
  /\ Proceed(p, "backup")
  /\ UNCHANGED <<versions, backup>>

\* open(FILE+, O_CREAT|O_EXCL) succeeds.
Create(p) ==
  /\ pc[p] = "create" /\ plus = "none"
  /\ plus' = p
  /\ Proceed(p, "backup")
  /\ UNCHANGED <<versions, backup>>

\* Mutant of CreateWaits: the loop does not count.
CreateWaits_Forever(p) ==
  pc[p] = "create" /\ plus # "none" /\ UNCHANGED updateVars

\* FILE+ exists: sleep and try again, and give up after Tries times.
CreateWaits(p) ==
  /\ pc[p] = "create" /\ plus # "none"
  /\ \/ /\ tries[p] > 1
        /\ tries' = [tries EXCEPT ![p] = @ - 1]
        /\ UNCHANGED <<pc, call, old, ret>>
     \/ /\ tries[p] = 1
        /\ Return(p, -1)
  /\ UNCHANGED <<versions, plus, backup>>

\* FILE cannot be opened, or FILE+ cannot be created for another reason; that
\* a shadow file is missing is not an error.
OpenFails(p) ==
  /\ "io" \in Faults /\ pc[p] = "create"
  /\ Return(p, -1) \/ Return(p, 0)
  /\ UNCHANGED <<versions, plus, backup>>

\* Mutants of Backup: a link to a file that is not there yet; a link to the
\* inode that was opened.
Backup_Next(p) ==
  /\ pc[p] = "backup"
  /\ backup' = Now + 1
  /\ Proceed(p, "rewrite")
  /\ UNCHANGED <<versions, plus>>
Backup_Opened(p) ==
  /\ pc[p] = "backup"
  /\ backup' = old[p]
  /\ Proceed(p, "rewrite")
  /\ UNCHANGED <<versions, plus>>

\* unlink(FILE-), link(FILE, FILE-): whatever FILE names now.  Either may
\* fail, which only causes a warning.
Backup(p) ==
  /\ pc[p] = "backup"
  /\ \/ backup' = Now /\ Proceed(p, "rewrite")
     \/ "link" \in Faults /\ backup' \in {0, backup} /\ Proceed(p, "nobackup")
  /\ UNCHANGED <<versions, plus>>

Rewriting(p) == pc[p] \in {"rewrite", "nobackup"}

\* changed_lines: a line that is deleted is not counted.
ChangedLines(op, c) ==
  IF op.kind = "add" THEN 1 ELSE Cardinality(PF!Rewritten(op, c))

\* Copy the lines of old_fp, updated, to FILE+, and rename FILE+ to FILE.  The
\* fcntl() lock taken around the copy is not waited for and may fail, so that
\* it never changes what happens.
Rename(p) ==
  /\ Rewriting(p)
  /\ versions' = Append(versions, PF!Apply(call[p], versions[old[p]]))
  /\ plus' = "none"
  /\ Return(p, ChangedLines(call[p], versions[old[p]]))
  /\ UNCHANGED backup

\* Reading, writing, syncing or renaming fails: FILE+ is removed.
WriteFails(p) ==
  /\ "io" \in Faults /\ Rewriting(p)
  /\ plus' = "none"
  /\ Return(p, -1)
  /\ UNCHANGED <<versions, backup>>

\* The process is killed, or the machine stops: FILE+ stays where it is.
Killed(p) ==
  /\ "crash" \in Faults /\ pc[p] # "idle"
  /\ plus' = IF plus = p THEN "stale" ELSE plus
  /\ Return(p, -1)
  /\ UNCHANGED <<versions, backup>>

UpdateStep(p) ==
  \/ Create(p) \/ CreateWaits(p) \/ OpenFails(p)
  \/ Backup(p) \/ Rename(p) \/ WriteFails(p)

UpdateNext == \E p \in Procs : UpdateStep(p) \/ Killed(p) \/ \E op \in Calls : Open(p, op)

UpdateSpec == UpdateInit /\ [][UpdateNext]_updateVars

\* A process that is not killed goes on; nothing has to fail.
Progress(p) == Create(p) \/ CreateWaits(p) \/ Backup(p) \/ Rename(p)
FairSpec == UpdateSpec /\ \A p \in Procs : WF_updateVars(Progress(p))

-----------------------------------------------------------------------------
\* The types of the file's versions and of update_passwd()'s locals.
UpdateTypeOK ==
  /\ versions \in Seq(PF!Contents) /\ versions # << >>
  /\ plus \in Procs \cup {"none", "stale"}
  /\ backup \in 0..Len(versions)
  /\ pc \in [Procs -> {"idle", "create", "backup", "rewrite", "nobackup"}]
  /\ call \in [Procs -> Calls \cup {NoCall}]
  /\ old \in [Procs -> 0..Len(versions)]
  /\ tries \in [Procs -> 0..Tries]
  /\ ret \in [Procs -> Int]
  /\ \A p \in Procs : pc[p] # "idle" => call[p] \in Calls /\ old[p] > 0

Writing(p) == pc[p] = "backup" \/ Rewriting(p)

\* FILE+ is the lock: who writes has created it, nobody else writes, and one
\* left by a crash keeps everybody from writing.
ExclusiveWriter ==
  \A p \in Procs : Writing(p) <=> plus = p

RenameLeavesBackup ==
  versions' # versions /\ (\A p \in Procs : pc[p] # "nobackup") => backup' = Now

\* Whoever renames, FILE- is then the file that was replaced, unless the link()
\* of this very call failed: the previous state can be restored.
BackupIsPrevious == [][RenameLeavesBackup]_updateVars

\* Waiting for FILE+ is bounded: every call returns, also when a crashed
\* process has left FILE+ behind.
CallReturns ==
  \A p \in Procs : pc[p] # "idle" ~> pc[p] = "idle"

\* Whatever crashes or fails, FILE changes by whole updates of its current
\* contents.  This needs calls that do not overlap.
AtomicUpdates == PF!Spec

\* "Read current password file, write updated": what a process writes is an
\* update of what FILE holds when it is renamed, so no update is lost.
NoLostUpdate ==
  [][\A p \in Procs : Rewriting(p) /\ versions' # versions /\ plus = p
       => PF!Apply(call[p], versions[Now]) = versions'[Now + 1]]_updateVars
=============================================================================
