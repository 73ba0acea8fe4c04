-------------------------- MODULE Accounts_proofs --------------------------
(***************************************************************************)
(* What is proved of the account files.                                    *)
(*                                                                         *)
(* First the account tools, for any names, ids, passwords and numbers of   *)
(* failures: types hold for any number of administrators, the rest for     *)
(* one, since nothing in the code keeps two commands apart.                *)
(*                                                                         *)
(* Then update_passwd(), through which the tools write every file: its     *)
(* lock and its backup for any number of processes, and its atomicity when *)
(* one process calls it.                                                   *)
(***************************************************************************)
EXTENDS Accounts, UpdatePasswd, FiniteSetTheorems, WellFoundedInduction, TLAPS

\* What a command has for each file that it still has to update.
WellFormed(r) ==
  /\ r.pc \in {"passwd", "shadow"} => r.cmd \in {"adduser", "adduserto", "deluser", "passwd"}
  /\ r.pc = "groups" => r.cmd = "deluser"
  /\ r.pc = "child" => r.cmd \in {"adduser", "adduserto", "deluser"}
  /\ r.pc \in {"group", "gshadow"} => r.cmd \notin {"none", "passwd"}
  /\ Adds(r) => r.uid \in Ids /\ r.gid \in Ids
  /\ r.cmd \in {"adduser", "addgroup"} => r.grp \in Names /\ r.gid \in Ids
  /\ r.cmd \notin {"none", "addgroup", "delgroup"} => r.user \in Names
  /\ r.cmd = "passwd" => r.hash \in Hashes /\ r.newp \in {r.hash, "x"}

Commands == {"none", "adduser", "adduserto", "addgroup", "addmember",
             "deluser", "delgroup", "delmember", "passwd"}
Labels == {"idle", "passwd", "shadow", "groups", "child", "group", "gshadow"}
Runs == [cmd : Commands, pc : Labels, user : Names \cup {""}, grp : Names \cup {""},
         uid : Ids \cup {0}, gid : Ids \cup {0}, hash : Passwords, newp : Passwords]
Users == [uid : Ids, gid : Ids, pw : Passwords]
Groups == [gid : Ids, mem : SUBSET Names]

Typed ==
  /\ IsFile(passwd, Users) /\ IsFile(shadow, Passwords)
  /\ IsFile(group, Groups) /\ IsFile(gshadow, SUBSET Names)
  /\ run \in [Admins -> Runs] /\ faults \in 0..MaxFaults
  /\ \A p \in Admins : WellFormed(run[p])

-----------------------------------------------------------------------------
(* Ids.                                                                    *)
LEMMA Least ==
  ASSUME NEW T \in SUBSET Nat, T # {}
  PROVE  \E x \in T : \A y \in T : x <= y
  <1> DEFINE R == {ss \in Nat \X Nat : ss[1] < ss[2]}
  <1>1. IsWellFoundedOn(R, Nat)
    BY NatLessThanWellFounded DEF OpToRel
  <1> HIDE DEF R
  <1>2. PICK x \in T : \A y \in T : ~(<<y, x>> \in R)
    BY <1>1, WFMin
  <1>3. ASSUME NEW y \in T  PROVE  x <= y
    <2>1. x \in Nat /\ y \in Nat
      OBVIOUS
    <2>2. ~(y < x)
      BY <1>2, <2>1 DEF R
    <2> QED  BY <2>1, <2>2
  <1> QED  BY <1>3

\* passwd_study() and xgroup_study() find an id that is free, if there is one.
LEMMA FirstFreeFound ==
  ASSUME NEW used, Ids \ used # {}
  PROVE  FirstFree(used) \in Ids /\ FirstFree(used) \notin used
  <1>1. Ids \ used \in SUBSET Nat
    BY AccountsAssumption
  <1>2. \E i \in Ids \ used : \A j \in Ids \ used : i <= j
    BY <1>1, Least
  <1> QED  BY <1>2 DEF FirstFree

-----------------------------------------------------------------------------
(* Types.                                                                  *)
LEMMA FaultsBounded == MaxFaults \in Nat
  BY Zenon, AccountsAssumption

LEMMA TypedIsTypeOK == Typed => TypeOK
  BY DEF Typed, TypeOK, Users, Groups, Runs, Commands, Labels

LEMMA NoRunTyped == NoRun \in Runs /\ WellFormed(NoRun)
  BY DEF NoRun, Runs, Commands, Labels, Passwords, WellFormed, Adds

LEMMA WithType ==
  ASSUME NEW f, NEW S, IsFile(f, S), NEW n \in Names, NEW v \in S
  PROVE  IsFile(With(f, n, v), S)
  BY DEF IsFile, With

LEMMA WithoutType ==
  ASSUME NEW f, NEW S, IsFile(f, S), NEW n
  PROVE  IsFile(Without(f, n), S)
  BY DEF IsFile, Without

\* A command is started with the arguments that its checks found.
LEMMA StartType ==
  ASSUME Typed, NEW p \in Admins, NEW c, NEW l, NEW u, NEW g, NEW uid, NEW gid, NEW h,
         Start(p, c, l, u, g, uid, gid, h),
         LET r == [cmd |-> c, pc |-> l, user |-> u, grp |-> g, uid |-> uid,
                   gid |-> gid, hash |-> h, newp |-> h]
         IN  r \in Runs /\ WellFormed(r)
  PROVE  Typed'
  <1> DEFINE r == [cmd |-> c, pc |-> l, user |-> u, grp |-> g, uid |-> uid,
                   gid |-> gid, hash |-> h, newp |-> h]
  <1>1. r \in Runs /\ WellFormed(r)
    OBVIOUS
  <1>2. run' = [run EXCEPT ![p] = r] /\ UNCHANGED <<passwd, shadow, group, gshadow, faults>>
    BY DEF Start, files
  <1> HIDE DEF r
  <1>3. run' \in [Admins -> Runs] /\ \A q \in Admins : WellFormed(run'[q])
    BY <1>1, <1>2 DEF Typed
  <1> QED  BY <1>2, <1>3 DEF Typed

LEMMA InitTyped == Init => Typed
  <1> SUFFICES ASSUME Init  PROVE  Typed
    OBVIOUS
  <1>1. run \in [Admins -> Runs] /\ \A p \in Admins : WellFormed(run[p])
    BY NoRunTyped DEF Init
  <1>2. faults \in 0..MaxFaults
    BY FaultsBounded DEF Init
  <1>3. CASE passwd = Empty /\ shadow = Empty /\ group = Empty /\ gshadow = Empty
    BY <1>1, <1>2, <1>3 DEF Typed, IsFile, Empty
  <1>4. ASSUME NEW n \in Names, NEW i \in Ids, NEW h \in Hashes,
               passwd = With(Empty, n, [uid |-> i, gid |-> i, pw |-> h]),
               shadow \in {Empty, With(Empty, n, "!")},
               group = With(Empty, n, [gid |-> i, mem |-> {}]),
               gshadow = With(Empty, n, {})
        PROVE  Typed
    <2>1. [uid |-> i, gid |-> i, pw |-> h] \in Users /\ [gid |-> i, mem |-> {}] \in Groups
          /\ {} \in SUBSET Names /\ "!" \in Passwords
      BY DEF Users, Groups, Passwords
    <2>2. \A S : IsFile(Empty, S)
      BY DEF IsFile, Empty
    <2>3. IsFile(passwd, Users) /\ IsFile(shadow, Passwords)
          /\ IsFile(group, Groups) /\ IsFile(gshadow, SUBSET Names)
      BY <1>4, <2>1, <2>2, WithType
    <2> QED  BY <1>1, <1>2, <2>3 DEF Typed
  <1> QED  BY <1>3, <1>4 DEF Init

LEMMA CommandTyped ==
  ASSUME Typed, NEW p \in Admins, Command(p)
  PROVE  Typed'
  <1> USE DEF Runs, Commands, Labels, Passwords, WellFormed, Adds
  <1>1. CASE AddUser(p)
    <2>1. PICK n \in Names \ (DOMAIN passwd \cup DOMAIN group) :
            /\ Ids \ (Uids \cup Gids) # {}
            /\ Start(p, "adduser", "passwd", n, n, FirstFree(Uids \cup Gids),
                     FirstFree(Uids \cup Gids), "x")
      BY <1>1 DEF AddUser
    <2>2. FirstFree(Uids \cup Gids) \in Ids
      BY <2>1, FirstFreeFound
    <2> QED  BY <2>1, <2>2, StartType
  <1>2. CASE AddUserTo(p)
    <2>1. PICK n \in Names \ DOMAIN passwd, g \in DOMAIN group :
            /\ Ids \ Uids # {}
            /\ Start(p, "adduserto", "passwd", n, g, FirstFree(Uids), group[g].gid, "x")
      BY <1>2 DEF AddUserTo
    <2>2. FirstFree(Uids) \in Ids /\ g \in Names /\ group[g].gid \in Ids
      BY <2>1, FirstFreeFound DEF Typed, IsFile, Groups
    <2> QED  BY <2>1, <2>2, StartType
  <1>3. CASE AddGroup(p)
    <2>1. PICK n \in Names \ DOMAIN group :
            /\ Ids \ Gids # {}
            /\ Start(p, "addgroup", "group", "", n, 0, FirstFree(Gids), "x")
      BY <1>3 DEF AddGroup
    <2>2. FirstFree(Gids) \in Ids
      BY <2>1, FirstFreeFound
    <2> QED  BY <2>1, <2>2, StartType
  <1>4. CASE AddMember(p)
    <2>1. PICK u \in DOMAIN passwd, g \in DOMAIN group :
            Start(p, "addmember", "group", u, g, 0, 0, "x")
      BY <1>4 DEF AddMember
    <2>2. u \in Names /\ g \in Names
      BY DEF Typed, IsFile
    <2> QED  BY <2>1, <2>2, StartType
  <1>5. CASE DelUser(p)
    <2>1. PICK n \in DOMAIN passwd : Start(p, "deluser", "passwd", n, n, 0, 0, "x")
      BY <1>5 DEF DelUser
    <2>2. n \in Names
      BY DEF Typed, IsFile
    <2> QED  BY <2>1, <2>2, StartType
  <1>6. CASE DelGroup(p)
    <2>1. PICK g \in DOMAIN group : Start(p, "delgroup", "group", "", g, 0, 0, "x")
      BY <1>6 DEF DelGroup
    <2>2. g \in Names
      BY DEF Typed, IsFile
    <2> QED  BY <2>1, <2>2, StartType
  <1>7. CASE DelMember(p)
    <2>1. PICK u \in Names, g \in DOMAIN group :
            Start(p, "delmember", "group", u, g, 0, 0, "x")
      BY <1>7 DEF DelMember
    <2>2. g \in Names
      BY DEF Typed, IsFile
    <2> QED  BY <2>1, <2>2, StartType
  <1>8. CASE Passwd(p)
    <2>1. PICK n \in DOMAIN passwd, h \in Hashes : Start(p, "passwd", "shadow", n, "", 0, 0, h)
      BY <1>8 DEF Passwd
    <2>2. n \in Names
      BY DEF Typed, IsFile
    <2> QED  BY <2>1, <2>2, StartType
  <1> QED  BY <1>1, <1>2, <1>3, <1>4, <1>5, <1>6, <1>7, <1>8 DEF Command

\* A step leaves a command at another file, or done.
LEMMA GotoTyped ==
  ASSUME Typed, NEW p \in Admins, NEW l \in Labels,
         WellFormed([run[p] EXCEPT !.pc = l]), Goto(p, l)
  PROVE  run' \in [Admins -> Runs] /\ \A q \in Admins : WellFormed(run'[q])
  <1> DEFINE u == [run[p] EXCEPT !.pc = l]
  <1>1. run' = [run EXCEPT ![p] = u]
    BY DEF Goto
  <1>2. u \in Runs /\ WellFormed(u)
    BY DEF Typed, Runs
  <1> HIDE DEF u
  <1> QED  BY <1>1, <1>2 DEF Typed

LEMMA ExitTyped ==
  ASSUME Typed, NEW p \in Admins, Exit(p)
  PROVE  run' \in [Admins -> Runs] /\ \A q \in Admins : WellFormed(run'[q])
  BY NoRunTyped DEF Exit, Typed

LEMMA StepTyped ==
  ASSUME Typed, NEW p \in Admins, Step(p)
  PROVE  Typed'
  <1> DEFINE r == run[p]
             RunsTyped == run' \in [Admins -> Runs] /\ \A q \in Admins : WellFormed(run'[q])
             To(l) == [run[p] EXCEPT !.pc = l]
  <1>0. r \in Runs /\ WellFormed(r)
    BY DEF Typed
  <1>1. CASE PasswdStep(p)
    <2>1. ASSUME Adds(r) \/ r.cmd = "deluser", Goto(p, "shadow")
          PROVE  RunsTyped
      <3>1. WellFormed(To("shadow"))
        BY <1>0, <1>1, <2>1 DEF WellFormed, Adds, Runs, PasswdStep
      <3> QED  BY <2>1, <3>1, GotoTyped DEF Labels
    <2>2. RunsTyped
      BY <1>1, <2>1, ExitTyped DEF PasswdStep
    <2>3. CASE Adds(r)
      <3>1. [uid |-> r.uid, gid |-> r.gid, pw |-> "x"] \in Users /\ r.user \in Names
        BY <1>0, <2>3 DEF WellFormed, Users, Passwords, Adds
      <3>2. passwd' = With(passwd, r.user, [uid |-> r.uid, gid |-> r.gid, pw |-> "x"])
        BY <1>1, <2>3 DEF PasswdStep, Adds
      <3>3. IsFile(passwd', Users)
        BY <3>1, <3>2, WithType DEF Typed
      <3> QED  BY <1>1, <2>2, <3>3 DEF PasswdStep, Typed
    <2>4. CASE r.cmd = "deluser"
      <3>1. IsFile(passwd', Users)
        BY <1>1, <2>4, WithoutType DEF PasswdStep, Typed, Adds
      <3> QED  BY <1>1, <2>2, <3>1 DEF PasswdStep, Typed
    <2>5. CASE r.cmd = "passwd"
      <3>1. passwd' = [u \in DOMAIN passwd |->
                         IF u = r.user THEN [passwd[u] EXCEPT !.pw = r.newp] ELSE passwd[u]]
        BY <1>1, <2>5 DEF PasswdStep, Adds
      <3>2. IsFile(passwd', Users)
        <4>1. r.newp \in Passwords
          BY <1>0 DEF Runs
        <4>2. \A u \in DOMAIN passwd : passwd'[u] \in Users
          BY <3>1, <4>1 DEF Typed, IsFile, Users
        <4> QED  BY <3>1, <4>2 DEF Typed, IsFile
      <3> QED  BY <1>1, <2>2, <3>2 DEF PasswdStep, Typed
    <2> QED  BY <1>1, <2>3, <2>4, <2>5 DEF PasswdStep
  <1>2. CASE ShadowStep(p)
    <2>1. CASE Adds(r)
      <3>1. shadow' = With(shadow, r.user, "!") /\ Goto(p, "child")
        BY <1>2, <2>1 DEF ShadowStep, Adds
      <3>2. r.user \in Names /\ "!" \in Passwords
        BY <1>0, <2>1 DEF WellFormed, Passwords, Adds
      <3>3. WellFormed(To("child"))
        BY <1>0, <2>1 DEF WellFormed, Adds, Runs
      <3>4. IsFile(shadow', Passwords) /\ RunsTyped
        BY <3>1, <3>2, <3>3, WithType, GotoTyped DEF Typed, Labels
      <3> QED  BY <1>2, <3>4 DEF ShadowStep, Typed
    <2>2. CASE r.cmd = "deluser"
      <3>1. shadow' = Without(shadow, r.user) /\ Goto(p, "groups")
        BY <1>2, <2>2 DEF ShadowStep, Adds
      <3>2. WellFormed(To("groups"))
        BY <1>0, <2>2 DEF WellFormed, Adds, Runs
      <3>3. IsFile(shadow', Passwords) /\ RunsTyped
        BY <3>1, <3>2, WithoutType, GotoTyped DEF Typed, Labels
      <3> QED  BY <1>2, <3>3 DEF ShadowStep, Typed
    <2>3. CASE r.cmd = "passwd"
      <3> DEFINE t == [r EXCEPT !.pc = "passwd", !.newp = NewPassword(r)]
      <3>1. /\ shadow' = [u \in DOMAIN shadow |-> IF u = r.user THEN r.hash ELSE shadow[u]]
            /\ run' = [run EXCEPT ![p] = t]
        BY <1>2, <2>3 DEF ShadowStep, Adds
      <3>2. NewPassword(r) \in {r.hash, "x"} /\ NewPassword(r) \in Passwords
        BY <1>0 DEF Runs, NewPassword, Passwords
      <3>5. t \in Runs
        BY <1>0, <3>2 DEF Runs, Labels
      <3>6. WellFormed(t)
        BY <1>0, <2>3, <3>2 DEF WellFormed, Adds, Runs
      <3> HIDE DEF t
      <3>3. RunsTyped
        BY <3>1, <3>5, <3>6 DEF Typed
      <3>4. IsFile(shadow', Passwords)
        BY <1>0, <3>1 DEF Typed, IsFile, Runs
      <3> QED  BY <1>2, <3>3, <3>4 DEF ShadowStep, Typed
    <2> QED  BY <1>2, <2>1, <2>2, <2>3 DEF ShadowStep
  <1>3. CASE GroupsStep(p)
    <2>1. WellFormed(To("child"))
      BY <1>0, <1>3 DEF WellFormed, Adds, Runs, GroupsStep
    <2>2. RunsTyped
      BY <1>3, <2>1, GotoTyped DEF GroupsStep, Labels
    <2>3. IsFile(group', Groups)
      BY <1>3 DEF GroupsStep, Typed, IsFile, Groups
    <2> QED  BY <1>3, <2>2, <2>3 DEF GroupsStep, Typed
  <1>4. CASE ChildStep(p)
    <2>1. WellFormed(To("group"))
      BY <1>0, <1>4 DEF WellFormed, Adds, Runs, ChildStep
    <2>2. RunsTyped
      BY <1>4, <2>1, GotoTyped, ExitTyped DEF ChildStep, Labels
    <2> QED  BY <1>4, <2>2 DEF ChildStep, Typed, files
  <1>5. CASE GroupStep(p)
    <2>1. WellFormed(To("gshadow"))
      BY <1>0, <1>5 DEF WellFormed, Adds, Runs, GroupStep
    <2>2. RunsTyped
      BY <1>5, <2>1, GotoTyped DEF GroupStep, Labels
    <2>3. CASE r.cmd \in {"adduser", "addgroup"}
      <3>1. group' = With(group, r.grp, [gid |-> r.gid, mem |-> {}])
        BY <1>5, <2>3 DEF GroupStep
      <3>2. [gid |-> r.gid, mem |-> {}] \in Groups /\ r.grp \in Names
        BY <1>0, <2>3 DEF WellFormed, Groups
      <3>3. IsFile(group', Groups)
        BY <3>1, <3>2, WithType DEF Typed
      <3> QED  BY <1>5, <2>2, <3>3 DEF GroupStep, Typed
    <2>4. CASE r.cmd \in {"deluser", "delgroup"}
      <3>1. group' = Without(group, r.grp)
        BY <1>5, <2>4 DEF GroupStep
      <3>2. IsFile(group', Groups)
        BY <3>1, WithoutType DEF Typed
      <3> QED  BY <1>5, <2>2, <3>2 DEF GroupStep, Typed
    <2>5. CASE r.cmd \notin {"adduser", "addgroup", "deluser", "delgroup"}
      <3>1. group' = [g \in DOMAIN group |->
                        IF g = r.grp THEN [group[g] EXCEPT !.mem = NewMembers(r, @)] ELSE group[g]]
        BY <1>5, <2>5 DEF GroupStep
      <3>2. r.user \in Names
        BY <1>0, <1>5, <2>5 DEF WellFormed, GroupStep
      <3>3. IsFile(group', Groups)
        BY <3>1, <3>2 DEF Typed, IsFile, Groups, NewMembers
      <3> QED  BY <1>5, <2>2, <3>3 DEF GroupStep, Typed
    <2> QED  BY <2>3, <2>4, <2>5
  <1>6. CASE GshadowStep(p)
    <2>2. RunsTyped
      BY <1>6, ExitTyped DEF GshadowStep
    <2>3. CASE r.cmd \in {"adduser", "addgroup"}
      <3>1. gshadow' = With(gshadow, r.grp, {})
        BY <1>6, <2>3 DEF GshadowStep
      <3>2. r.grp \in Names /\ {} \in SUBSET Names
        BY <1>0, <2>3 DEF WellFormed
      <3>3. IsFile(gshadow', SUBSET Names)
        BY <3>1, <3>2, WithType DEF Typed
      <3> QED  BY <1>6, <2>2, <3>3 DEF GshadowStep, Typed
    <2>4. CASE r.cmd \in {"deluser", "delgroup"}
      <3>1. gshadow' = Without(gshadow, r.grp)
        BY <1>6, <2>4 DEF GshadowStep
      <3>2. IsFile(gshadow', SUBSET Names)
        BY <3>1, WithoutType DEF Typed
      <3> QED  BY <1>6, <2>2, <3>2 DEF GshadowStep, Typed
    <2>5. CASE r.cmd \notin {"adduser", "addgroup", "deluser", "delgroup"}
      <3>1. gshadow' = [g \in DOMAIN gshadow |->
                          IF g = r.grp THEN NewMembers(r, gshadow[g]) ELSE gshadow[g]]
        BY <1>6, <2>5 DEF GshadowStep
      <3>2. r.user \in Names
        BY <1>0, <1>6, <2>5 DEF WellFormed, GshadowStep
      <3>3. IsFile(gshadow', SUBSET Names)
        BY <3>1, <3>2 DEF Typed, IsFile, NewMembers
      <3> QED  BY <1>6, <2>2, <3>3 DEF GshadowStep, Typed
    <2> QED  BY <2>3, <2>4, <2>5
  <1>7. CASE UpdateFails(p)
    <2>1. r.pc = "shadow" /\ Adds(r) => WellFormed(To("child"))
      BY <1>0 DEF WellFormed, Adds, Runs
    <2>2. RunsTyped
      BY <1>7, <2>1, GotoTyped, ExitTyped DEF UpdateFails, Labels
    <2>3. faults' \in 0..MaxFaults
      BY <1>7, FaultsBounded DEF UpdateFails, Typed
    <2> QED  BY <1>7, <2>2, <2>3 DEF UpdateFails, Typed, files
  <1>8. CASE Crash(p)
    <2>1. faults' \in 0..MaxFaults
      BY <1>8, FaultsBounded DEF Crash, Typed
    <2> QED  BY <1>8, <2>1, ExitTyped DEF Crash, Typed, files
  <1> QED  BY <1>1, <1>2, <1>3, <1>4, <1>5, <1>6, <1>7, <1>8 DEF Step

LEMMA TypedStays == Typed /\ [Next]_vars => Typed'
  <1> SUFFICES ASSUME Typed, [Next]_vars  PROVE  Typed'
    OBVIOUS
  <1>1. CASE UNCHANGED vars
    BY <1>1 DEF vars, Typed
  <1>2. CASE Next
    BY <1>2, CommandTyped, StepTyped DEF Next
  <1> QED  BY <1>1, <1>2

\* The four files and the locals of any number of account commands have their
\* types, whatever fails: in particular passwd_study() and xgroup_study() only
\* hand out ids of the configured range.
THEOREM TypeCorrect == Spec => []TypeOK
  BY InitTyped, TypedStays, TypedIsTypeOK, PTL DEF Spec

-----------------------------------------------------------------------------
(* One administrator.                                                      *)

\* An id that passwd_study() or xgroup_study() found is still free when the
\* line with it is written.
StillFree(r) ==
  /\ r.pc = "passwd" /\ Adds(r) => r.uid \notin Uids
  /\ r.pc = "group" /\ r.cmd \in {"adduser", "addgroup"} => r.gid \notin Gids

\* How far the four files are from being consistent while a command is under
\* way that so far met no failure.
Between(r) ==
  /\ DOMAIN shadow \subseteq DOMAIN passwd \cup
       (IF r.cmd = "deluser" /\ r.pc = "shadow" THEN {r.user} ELSE {})
  /\ \A g \in DOMAIN group : group[g].mem \subseteq DOMAIN passwd \cup
       (IF r.cmd = "deluser" /\ r.pc \in {"shadow", "groups"} THEN {r.user} ELSE {})
  /\ Primary \subseteq Gids \cup
       (IF r.cmd = "adduser" /\ r.pc \in {"shadow", "child", "group"} THEN {r.gid} ELSE {})
  /\ CASE r.pc = "gshadow" /\ r.cmd \in {"adduser", "addgroup"} ->
            DOMAIN group = DOMAIN gshadow \cup {r.grp}
       [] r.pc = "gshadow" /\ r.cmd \in {"deluser", "delgroup"} ->
            DOMAIN group = DOMAIN gshadow \ {r.grp}
       [] OTHER -> DOMAIN group = DOMAIN gshadow
  /\ r.cmd \in {"adduser", "addgroup"} /\ r.pc \in {"passwd", "shadow", "child", "group"} =>
       r.grp \notin DOMAIN group /\ r.gid \notin Gids
  /\ r.cmd = "adduserto" /\ r.pc = "passwd" => r.gid \in Gids
  /\ Adds(r) /\ r.pc \in {"shadow", "child", "group"} => r.user \in DOMAIN passwd
  /\ r.cmd = "addmember" /\ r.pc = "group" => r.user \in DOMAIN passwd
  /\ r.cmd \in {"deluser", "delgroup"} /\ r.pc = "group" /\ r.grp \in DOMAIN group =>
       group[r.grp].gid \notin Primary

\* passwd puts "x" into /etc/passwd only where the new password is in
\* /etc/shadow.
Shadowed(r) ==
  r.cmd = "passwd" /\ r.pc = "passwd" /\ r.newp = "x" =>
    r.user \in DOMAIN shadow /\ shadow[r.user] = r.hash

-----------------------------------------------------------------------------
(* Unique ids.                                                             *)
IdsFree == IdsUnique /\ \A p \in Admins : StillFree(run[p])

\* What the checks of a command have found when it starts.
Checked(r) ==
  \/ /\ r.cmd = "adduser" /\ r.pc = "passwd"
     /\ r.uid \notin Uids /\ r.gid \notin Gids /\ r.grp \notin DOMAIN group
  \/ r.cmd = "adduserto" /\ r.pc = "passwd" /\ r.uid \notin Uids /\ r.gid \in Gids
  \/ r.cmd = "addgroup" /\ r.pc = "group" /\ r.gid \notin Gids /\ r.grp \notin DOMAIN group
  \/ r.cmd = "addmember" /\ r.pc = "group" /\ r.user \in DOMAIN passwd
  \/ r.cmd = "deluser" /\ r.pc = "passwd"
  \/ r.cmd = "delgroup" /\ r.pc = "group" /\ group[r.grp].gid \notin Primary
  \/ r.cmd = "delmember" /\ r.pc = "group"
  \/ r.cmd = "passwd" /\ r.pc = "shadow"

LEMMA Started ==
  ASSUME NEW a, Admins = {a}, Typed, NEW p \in Admins, Command(p)
  PROVE  /\ run[a].pc = "idle" /\ UNCHANGED <<passwd, shadow, group, gshadow, faults>>
         /\ Checked(run'[a])
  <1>0. p = a
    OBVIOUS
  <1>1. CASE AddUser(p)
    <2>1. PICK n \in Names \ (DOMAIN passwd \cup DOMAIN group) :
            /\ Ids \ (Uids \cup Gids) # {}
            /\ Start(p, "adduser", "passwd", n, n, FirstFree(Uids \cup Gids), FirstFree(Uids \cup Gids), "x")
      BY <1>1 DEF AddUser
    <2>2. /\ run[a].pc = "idle" /\ UNCHANGED <<passwd, shadow, group, gshadow, faults>>
          /\ run'[a].cmd = "adduser" /\ run'[a].pc = "passwd" /\ run'[a].uid = FirstFree(Uids \cup Gids) /\ run'[a].gid = FirstFree(Uids \cup Gids) /\ run'[a].grp = n
      BY <1>0, <2>1 DEF Start, files, Typed
    <2>3. FirstFree(Uids \cup Gids) \notin Uids \cup Gids
      BY <2>1, FirstFreeFound
    <2> QED  BY <2>1, <2>2, <2>3 DEF Checked
  <1>2. CASE AddUserTo(p)
    <2>1. PICK n \in Names \ DOMAIN passwd, g \in DOMAIN group :
            /\ Ids \ Uids # {}
            /\ Start(p, "adduserto", "passwd", n, g, FirstFree(Uids), group[g].gid, "x")
      BY <1>2 DEF AddUserTo
    <2>2. /\ run[a].pc = "idle" /\ UNCHANGED <<passwd, shadow, group, gshadow, faults>>
          /\ run'[a].cmd = "adduserto" /\ run'[a].pc = "passwd" /\ run'[a].uid = FirstFree(Uids) /\ run'[a].gid = group[g].gid
      BY <1>0, <2>1 DEF Start, files, Typed
    <2>3. FirstFree(Uids) \notin Uids /\ group[g].gid \in Gids
      BY <2>1, FirstFreeFound DEF Gids
    <2> QED  BY <2>1, <2>2, <2>3 DEF Checked
  <1>3. CASE AddGroup(p)
    <2>1. PICK n \in Names \ DOMAIN group :
            /\ Ids \ Gids # {}
            /\ Start(p, "addgroup", "group", "", n, 0, FirstFree(Gids), "x")
      BY <1>3 DEF AddGroup
    <2>2. /\ run[a].pc = "idle" /\ UNCHANGED <<passwd, shadow, group, gshadow, faults>>
          /\ run'[a].cmd = "addgroup" /\ run'[a].pc = "group" /\ run'[a].gid = FirstFree(Gids)
          /\ run'[a].grp = n
      BY <1>0, <2>1 DEF Start, files, Typed
    <2>3. FirstFree(Gids) \notin Gids
      BY <2>1, FirstFreeFound
    <2> QED  BY <2>1, <2>2, <2>3 DEF Checked
  <1>4. CASE AddMember(p)
    <2>1. PICK u \in DOMAIN passwd, g \in DOMAIN group :
            Start(p, "addmember", "group", u, g, 0, 0, "x")
      BY <1>4 DEF AddMember
    <2>2. /\ run[a].pc = "idle" /\ UNCHANGED <<passwd, shadow, group, gshadow, faults>>
          /\ run'[a].cmd = "addmember" /\ run'[a].pc = "group" /\ run'[a].user = u
      BY <1>0, <2>1 DEF Start, files, Typed
    <2> QED  BY <2>1, <2>2 DEF Checked
  <1>5. CASE DelUser(p)
    <2>1. PICK n \in DOMAIN passwd :
            Start(p, "deluser", "passwd", n, n, 0, 0, "x")
      BY <1>5 DEF DelUser
    <2>2. /\ run[a].pc = "idle" /\ UNCHANGED <<passwd, shadow, group, gshadow, faults>>
          /\ run'[a].cmd = "deluser" /\ run'[a].pc = "passwd"
      BY <1>0, <2>1 DEF Start, files, Typed
    <2> QED  BY <2>1, <2>2 DEF Checked
  <1>6. CASE DelGroup(p)
    <2>1. PICK g \in DOMAIN group :
            /\ group[g].gid \notin Primary
            /\ Start(p, "delgroup", "group", "", g, 0, 0, "x")
      BY <1>6 DEF DelGroup
    <2>2. /\ run[a].pc = "idle" /\ UNCHANGED <<passwd, shadow, group, gshadow, faults>>
          /\ run'[a].cmd = "delgroup" /\ run'[a].pc = "group" /\ run'[a].grp = g
      BY <1>0, <2>1 DEF Start, files, Typed
    <2> QED  BY <2>1, <2>2 DEF Checked
  <1>7. CASE DelMember(p)
    <2>1. PICK u \in Names, g \in DOMAIN group :
            Start(p, "delmember", "group", u, g, 0, 0, "x")
      BY <1>7 DEF DelMember
    <2>2. /\ run[a].pc = "idle" /\ UNCHANGED <<passwd, shadow, group, gshadow, faults>>
          /\ run'[a].cmd = "delmember" /\ run'[a].pc = "group"
      BY <1>0, <2>1 DEF Start, files, Typed
    <2> QED  BY <2>1, <2>2 DEF Checked
  <1>8. CASE Passwd(p)
    <2>1. PICK n \in DOMAIN passwd, h \in Hashes :
            Start(p, "passwd", "shadow", n, "", 0, 0, h)
      BY <1>8 DEF Passwd
    <2>2. /\ run[a].pc = "idle" /\ UNCHANGED <<passwd, shadow, group, gshadow, faults>>
          /\ run'[a].cmd = "passwd" /\ run'[a].pc = "shadow"
      BY <1>0, <2>1 DEF Start, files, Typed
    <2> QED  BY <2>1, <2>2 DEF Checked
  <1> QED  BY <1>1, <1>2, <1>3, <1>4, <1>5, <1>6, <1>7, <1>8 DEF Command

\* And what a step does to it.
LEMMA Moved ==
  ASSUME NEW a, Admins = {a}, Typed, NEW p \in Admins, NEW l \in Labels, Goto(p, l)
  PROVE  /\ run'[a].pc = l /\ run'[a].cmd = run[a].cmd
         /\ run'[a].user = run[a].user /\ run'[a].grp = run[a].grp
         /\ run'[a].gid = run[a].gid
  <1>1. run[a] \in Runs /\ p = a
    BY DEF Typed
  <1>2. run'[a] = [run[a] EXCEPT !.pc = l]
    BY <1>1 DEF Goto, Typed
  <1> QED  BY <1>1, <1>2 DEF Runs

LEMMA Ended ==
  ASSUME NEW a, Admins = {a}, Typed, NEW p \in Admins, Exit(p)
  PROVE  run'[a].pc = "idle" /\ run'[a].cmd = "none"
  <1>1. run'[a] = NoRun
    BY DEF Exit, Typed
  <1>2. NoRun.pc = "idle" /\ NoRun.cmd = "none"
    BY DEF NoRun
  <1> QED  BY <1>1, <1>2

LEMMA CommandFree ==
  ASSUME NEW a, Admins = {a}, Typed, IdsFree, NEW p \in Admins, Command(p)
  PROVE  IdsFree'
  <1>1. UNCHANGED <<passwd, group>> /\ Checked(run'[a])
    BY Started
  <1>2. StillFree(run[a])'
    BY <1>1 DEF Checked, StillFree, Uids, Gids, Adds
  <1>3. IdsUnique'
    BY <1>1 DEF IdsFree, IdsUnique
  <1> QED  BY <1>2, <1>3 DEF IdsFree

LEMMA StepFree ==
  ASSUME NEW a, Admins = {a}, Typed, IdsFree, NEW p \in Admins, Step(p)
  PROVE  IdsFree'
  <1> DEFINE r == run[a]
  <1>0. p = a /\ r \in Runs /\ WellFormed(r) /\ StillFree(r)
    BY DEF Typed, IdsFree
  <1>1. ASSUME NEW l \in Labels \ {"passwd", "group"}, Goto(p, l) \/ Exit(p)
        PROVE  StillFree(run[a])'
    <2>1. run'[a].pc \notin {"passwd", "group"}
      BY <1>1, Moved, Ended
    <2> QED  BY <2>1 DEF StillFree
  <1>2. CASE PasswdStep(p)
    <2>1. StillFree(run[a])'
      BY <1>1, <1>2 DEF PasswdStep, Labels
    <2>2. UNCHANGED group
      BY <1>2 DEF PasswdStep
    <2>3. \A u, v \in DOMAIN passwd' : passwd'[u].uid = passwd'[v].uid => u = v
      <3>1. CASE Adds(r)
        <4>1. passwd' = With(passwd, r.user, [uid |-> r.uid, gid |-> r.gid, pw |-> "x"])
          BY <1>0, <1>2, <3>1 DEF PasswdStep, Adds
        <4>2. \A u \in DOMAIN passwd : passwd[u].uid # r.uid
          BY <1>0, <1>2, <3>1 DEF StillFree, Uids, PasswdStep
        <4> QED  BY <4>1, <4>2 DEF With, IdsFree, IdsUnique
      <3>2. CASE r.cmd = "deluser"
        BY <1>0, <1>2, <3>2 DEF PasswdStep, Adds, Without, IdsFree, IdsUnique
      <3>3. CASE r.cmd = "passwd"
        <4>1. passwd' = [u \in DOMAIN passwd |->
                           IF u = r.user THEN [passwd[u] EXCEPT !.pw = r.newp] ELSE passwd[u]]
          BY <1>0, <1>2, <3>3 DEF PasswdStep, Adds
        <4>2. \A u \in DOMAIN passwd : passwd'[u].uid = passwd[u].uid
          BY <4>1 DEF Typed, IsFile, Users
        <4> QED  BY <4>1, <4>2 DEF IdsFree, IdsUnique
      <3> QED  BY <1>0, <1>2, <3>1, <3>2, <3>3 DEF PasswdStep
    <2> QED  BY <2>1, <2>2, <2>3 DEF IdsFree, IdsUnique
  <1>3. ASSUME UNCHANGED passwd, StillFree(run[a])',
               \A g \in DOMAIN group' : g \in DOMAIN group /\ group'[g].gid = group[g].gid
        PROVE  IdsFree'
    BY <1>3 DEF IdsFree, IdsUnique
  <1>4. CASE ShadowStep(p)
    <2>1. CASE r.cmd = "passwd"
      <3>1. run'[a].cmd = "passwd"
        <4>1. run'[a] = [r EXCEPT !.pc = "passwd", !.newp = NewPassword(r)]
          BY <1>0, <1>4, <2>1 DEF ShadowStep, Adds, Typed
        <4> QED  BY <1>0, <2>1, <4>1 DEF Runs
      <3>2. StillFree(run[a])'
        BY <3>1 DEF StillFree, Adds
      <3> QED  BY <1>3, <1>4, <3>2 DEF ShadowStep
    <2>2. CASE r.cmd # "passwd"
      <3>1. StillFree(run[a])'
        BY <1>0, <1>1, <1>4, <2>2 DEF ShadowStep, Labels
      <3> QED  BY <1>3, <1>4, <3>1 DEF ShadowStep
    <2> QED  BY <2>1, <2>2
  <1>5. CASE GroupsStep(p)
    <2>1. StillFree(run[a])'
      BY <1>1, <1>5 DEF GroupsStep, Labels
    <2>2. \A g \in DOMAIN group' : g \in DOMAIN group /\ group'[g].gid = group[g].gid
      BY <1>5 DEF GroupsStep, Typed, IsFile, Groups
    <2> QED  BY <1>3, <1>5, <2>1, <2>2 DEF GroupsStep
  <1>6. CASE ChildStep(p)
    <2>0. UNCHANGED <<passwd, group>>
      BY <1>6 DEF ChildStep, files
    <2>1. CASE ChildMayGo(r)
      <3>1. run'[a].pc = "group" /\ run'[a].cmd = r.cmd /\ run'[a].gid = r.gid
        BY <1>0, <1>6, <2>1, Moved DEF ChildStep, Labels
      <3>2. r.cmd = "adduser" => r.gid \notin Gids
        BY <2>1 DEF ChildMayGo
      <3>3. r.cmd # "addgroup"
        BY <1>0, <1>6 DEF WellFormed, ChildStep
      <3>4. StillFree(run[a])'
        BY <2>0, <3>1, <3>2, <3>3 DEF StillFree, Gids
      <3> QED  BY <1>3, <2>0, <3>4
    <2>2. CASE ~ChildMayGo(r)
      <3>1. StillFree(run[a])'
        BY <1>0, <1>1, <1>6, <2>2 DEF ChildStep, Labels
      <3> QED  BY <1>3, <2>0, <3>1
    <2> QED  BY <2>1, <2>2
  <1>7. CASE GroupStep(p)
    <2>0. UNCHANGED passwd /\ StillFree(run[a])'
      BY <1>1, <1>7 DEF GroupStep, Labels
    <2>1. CASE r.cmd \in {"adduser", "addgroup"}
      <3>1. group' = With(group, r.grp, [gid |-> r.gid, mem |-> {}])
        BY <1>0, <1>7, <2>1 DEF GroupStep
      <3>2. \A g \in DOMAIN group : group[g].gid # r.gid
        BY <1>0, <1>7, <2>1 DEF StillFree, Gids, GroupStep
      <3>3. \A g, h \in DOMAIN group' : group'[g].gid = group'[h].gid => g = h
        BY <3>1, <3>2 DEF With, IdsFree, IdsUnique
      <3> QED  BY <2>0, <3>3 DEF IdsFree, IdsUnique
    <2>2. CASE r.cmd \notin {"adduser", "addgroup"}
      <3>1. \A g \in DOMAIN group' : g \in DOMAIN group /\ group'[g].gid = group[g].gid
        <4>1. CASE r.cmd \in {"deluser", "delgroup"}
          <5>1. group' = Without(group, r.grp)
            BY <1>0, <1>7, <4>1 DEF GroupStep
          <5> QED  BY <5>1 DEF Without
        <4>2. CASE r.cmd \notin {"deluser", "delgroup"}
          <5>1. group' = [g \in DOMAIN group |->
                            IF g = r.grp THEN [group[g] EXCEPT !.mem = NewMembers(r, @)] ELSE group[g]]
            BY <1>0, <1>7, <2>2, <4>2 DEF GroupStep
          <5> QED  BY <5>1 DEF Typed, IsFile, Groups
        <4> QED  BY <4>1, <4>2
      <3> QED  BY <1>3, <2>0, <3>1
    <2> QED  BY <2>1, <2>2
  <1>8. CASE GshadowStep(p) \/ UpdateFails(p) \/ Crash(p)
    <2>1. UNCHANGED <<passwd, group>>
      BY <1>8 DEF GshadowStep, UpdateFails, Crash, files
    <2>2. StillFree(run[a])'
      BY <1>1, <1>8 DEF GshadowStep, UpdateFails, Crash, Labels
    <2> QED  BY <1>3, <2>1, <2>2
  <1> QED  BY <1>2, <1>4, <1>5, <1>6, <1>7, <1>8 DEF Step

LEMMA FreeInit == Init => IdsFree
  <1> SUFFICES ASSUME Init  PROVE  IdsFree
    OBVIOUS
  <1>1. \A p \in Admins : StillFree(run[p])
    BY DEF Init, NoRun, StillFree
  <1>2. IdsUnique
    BY DEF Init, IdsUnique, With, Empty
  <1> QED  BY <1>1, <1>2 DEF IdsFree

\* With one administrator no two users have one uid and no two groups have one
\* gid, however many commands run, fail half-way or are killed: an id found
\* free is still free when its line is written.
THEOREM IdsCorrect == ASSUME NEW a, Admins = {a}  PROVE  Spec => []IdsUnique
  <1>1. Init => Typed /\ IdsFree
    BY InitTyped, FreeInit
  <1>2. Typed /\ IdsFree /\ [Next]_vars => Typed' /\ IdsFree'
    <2> SUFFICES ASSUME Typed, IdsFree, [Next]_vars  PROVE  Typed' /\ IdsFree'
      OBVIOUS
    <2>1. CASE UNCHANGED vars
      BY <2>1, TypedStays DEF vars, IdsFree, IdsUnique, StillFree, Uids, Gids
    <2>2. CASE Next
      BY <2>2, TypedStays, CommandFree, StepFree DEF Next
    <2> QED  BY <2>1, <2>2
  <1>3. IdsFree => IdsUnique
    BY DEF IdsFree
  <1> QED  BY <1>1, <1>2, <1>3, PTL DEF Spec

-----------------------------------------------------------------------------
(* Passwords.                                                              *)
LEMMA ShadowedStays ==
  ASSUME NEW a, Admins = {a}, Typed, Shadowed(run[a]), [Next]_vars
  PROVE  Shadowed(run[a])'
  <1> DEFINE r == run[a]
  <1>0. r \in Runs /\ WellFormed(r)
    BY DEF Typed
  <1>1. ASSUME run'[a].pc # "passwd" \/ run'[a].cmd # "passwd"
        PROVE  Shadowed(run[a])'
    BY <1>1 DEF Shadowed
  <1>2. CASE UNCHANGED vars
    BY <1>2 DEF vars, Shadowed
  <1>3. ASSUME Command(a)  PROVE  Shadowed(run[a])'
    <2>1. Checked(run'[a])
      BY <1>3, Started
    <2> QED  BY <1>1, <2>1 DEF Checked
  <1>4. ASSUME Step(a)  PROVE  Shadowed(run[a])'
    <2>1. ASSUME NEW l \in Labels \ {"passwd"}, Goto(a, l) \/ Exit(a)
          PROVE  Shadowed(run[a])'
      BY <1>1, <2>1, Moved, Ended
    <2>2. CASE ShadowStep(a) /\ r.cmd = "passwd"
      <3>1. /\ shadow' = [u \in DOMAIN shadow |-> IF u = r.user THEN r.hash ELSE shadow[u]]
            /\ run'[a] = [r EXCEPT !.pc = "passwd", !.newp = NewPassword(r)]
        BY <2>2 DEF ShadowStep, Adds, Typed
      <3>2. run'[a].newp = NewPassword(r) /\ run'[a].user = r.user /\ run'[a].hash = r.hash
        BY <1>0, <3>1 DEF Runs
      <3>3. r.hash # "x"
        BY <1>0, <2>2, AccountsAssumption DEF WellFormed
      <3> QED  BY <3>1, <3>2, <3>3 DEF Shadowed, NewPassword
    <2>3. CASE ShadowStep(a) /\ r.cmd # "passwd"
      BY <2>1, <2>3 DEF ShadowStep, Labels
    <2>4. CASE PasswdStep(a)
      BY <2>1, <2>4 DEF PasswdStep, Labels
    <2>5. CASE GroupsStep(a) \/ ChildStep(a) \/ GroupStep(a) \/ GshadowStep(a)
      BY <2>1, <2>5 DEF GroupsStep, ChildStep, GroupStep, GshadowStep, Labels
    <2>6. CASE UpdateFails(a) \/ Crash(a)
      BY <2>1, <2>6 DEF UpdateFails, Crash, Labels
    <2> QED  BY <1>4, <2>2, <2>3, <2>4, <2>5, <2>6 DEF Step
  <1> QED  BY <1>2, <1>3, <1>4 DEF Next

\* While passwd runs, the password that counts for a user changes only to the
\* one asked for.
LEMMA PasswordStep ==
  ASSUME NEW a, Admins = {a}, Typed, Shadowed(run[a]), Next, run[a].cmd = "passwd",
         NEW u \in Names, Effective(u)' # Effective(u)
  PROVE  Effective(u)' = run[a].hash
  <1> DEFINE r == run[a]
  <1>0. r \in Runs /\ WellFormed(r)
    BY DEF Typed
  <1>1. ~UNCHANGED <<passwd, shadow>>
    BY DEF Effective
  <1>2. \A c, l, v, g, uid, gid, h : ~Start(a, c, l, v, g, uid, gid, h)
    BY <1>1, Zenon DEF Start, files
  <1>3. ~Command(a)
    BY <1>2, Zenon DEF Command, AddUser, AddUserTo, AddGroup, AddMember, DelUser, DelGroup, DelMember, Passwd
  <1>4. PasswdStep(a) \/ ShadowStep(a)
    BY <1>1, <1>3 DEF Next, Step, GroupsStep, ChildStep, GroupStep, GshadowStep, UpdateFails, Crash, files
  <1>5. CASE PasswdStep(a)
    <2>1. /\ passwd' = [v \in DOMAIN passwd |->
                          IF v = r.user THEN [passwd[v] EXCEPT !.pw = r.newp] ELSE passwd[v]]
          /\ shadow' = shadow /\ r.pc = "passwd"
      BY <1>5 DEF PasswdStep, Adds
    <2>2. u = r.user /\ u \in DOMAIN passwd
      BY <2>1 DEF Effective
    <2>3. passwd'[u].pw = r.newp /\ u \in DOMAIN passwd'
      BY <2>1, <2>2 DEF Typed, IsFile, Users
    <2>4. CASE r.newp = "x"
      <3>1. u \in DOMAIN shadow' /\ shadow'[u] = r.hash
        BY <2>1, <2>2, <2>4 DEF Shadowed
      <3> QED  BY <2>3, <2>4, <3>1 DEF Effective
    <2>5. CASE r.newp # "x"
      <3>1. r.newp = r.hash
        BY <1>0, <2>5 DEF WellFormed
      <3> QED  BY <2>3, <2>5, <3>1 DEF Effective
    <2> QED  BY <2>4, <2>5
  <1>6. CASE ShadowStep(a)
    <2>1. /\ shadow' = [v \in DOMAIN shadow |-> IF v = r.user THEN r.hash ELSE shadow[v]]
          /\ passwd' = passwd
      BY <1>6 DEF ShadowStep, Adds
    <2> QED  BY <2>1 DEF Effective
  <1> QED  BY <1>4, <1>5, <1>6

\* With one administrator, passwd and chpasswd move the password that counts
\* from the old one to the one asked for, and to no other, even when they are
\* killed between /etc/shadow and /etc/passwd.
THEOREM PasswordCorrect == ASSUME NEW a, Admins = {a}  PROVE  Spec => PasswordOldOrNew
  <1>1. Init => Typed /\ Shadowed(run[a])
    <2>1. NoRun.cmd = "none"
      BY DEF NoRun
    <2>2. Init => run[a] = NoRun
      BY DEF Init
    <2> QED  BY <2>1, <2>2, InitTyped DEF Shadowed
  <1>2. Typed /\ Shadowed(run[a]) /\ [Next]_vars => Typed' /\ Shadowed(run[a])'
    BY TypedStays, ShadowedStays
  <1>3. Typed /\ Shadowed(run[a]) /\ [Next]_vars =>
          [\A p \in Admins : run[p].cmd = "passwd" /\ run'[p] # run[p] =>
             \A u \in Names : Effective(u)' # Effective(u) =>
               \E q \in Admins : run[q].cmd = "passwd" /\ Effective(u)' = run[q].hash]_vars
    <2> SUFFICES ASSUME Typed, Shadowed(run[a]), Next, run[a].cmd = "passwd",
                        NEW u \in Names, Effective(u)' # Effective(u)
                 PROVE  Effective(u)' = run[a].hash
      OBVIOUS
    <2> QED  BY PasswordStep
  <1> QED  BY <1>1, <1>2, <1>3, PTL DEF Spec, PasswordOldOrNew

-----------------------------------------------------------------------------
(* Consistent files.                                                       *)
LEMMA CommandBetween ==
  ASSUME NEW a, Admins = {a}, Typed, Between(run[a]), Command(a)
  PROVE  Between(run[a])'
  <1>1. run[a].pc = "idle" /\ UNCHANGED <<passwd, shadow, group, gshadow>> /\ Checked(run'[a])
    BY Started
  <1>2. /\ DOMAIN shadow \subseteq DOMAIN passwd /\ Primary \subseteq Gids
        /\ DOMAIN group = DOMAIN gshadow
        /\ \A g \in DOMAIN group : group[g].mem \subseteq DOMAIN passwd
    BY <1>1 DEF Between
  <1> QED  BY <1>1, <1>2 DEF Between, Checked, Primary, Gids, Adds

\* The steps of a command, none of which fails.
LEMMA StepBetween ==
  ASSUME NEW a, Admins = {a}, Typed, Between(run[a]), Step(a), faults' = 0, faults = 0
  PROVE  Between(run[a])'
  <1> DEFINE r == run[a]
             t == run'[a]
             Same == /\ t.cmd = r.cmd /\ t.user = r.user /\ t.grp = r.grp /\ t.gid = r.gid
  <1>0. r \in Runs /\ WellFormed(r)
    BY DEF Typed
  <1>a. \A l \in Labels : Goto(a, l) => t.pc = l /\ Same
    BY Moved
  <1>b. Exit(a) => t.pc = "idle" /\ t.cmd = "none"
    BY Ended
  <1> HIDE DEF t, r
  <1>1. CASE PasswdStep(a)
    <2>0. UNCHANGED <<shadow, group, gshadow>> /\ r.pc = "passwd"
      BY <1>1 DEF PasswdStep, r
    <2>1. CASE Adds(r)
      <3>1. passwd' = With(passwd, r.user, [uid |-> r.uid, gid |-> r.gid, pw |-> "x"])
            /\ t.pc = "shadow" /\ Same
        BY <1>1, <1>a, <2>1 DEF PasswdStep, Adds, Labels, r
      <3>2. DOMAIN passwd' = DOMAIN passwd \cup {r.user}
        BY <3>1 DEF With
      <3>3. Primary' \subseteq Primary \cup {r.gid}
        BY <3>1 DEF Primary, With
      <3>4. Gids' = Gids
        BY <2>0 DEF Gids
      <3> QED  BY <2>0, <2>1, <3>1, <3>2, <3>3, <3>4 DEF Between, Adds, r, t
    <2>2. CASE r.cmd = "deluser"
      <3>1. passwd' = Without(passwd, r.user) /\ t.pc = "shadow" /\ Same
        BY <1>1, <1>a, <2>2 DEF PasswdStep, Adds, Labels, r
      <3>2. DOMAIN passwd \subseteq DOMAIN passwd' \cup {r.user}
        BY <3>1 DEF Without
      <3>3. Primary' \subseteq Primary
        BY <3>1 DEF Primary, Without
      <3>4. Gids' = Gids
        BY <2>0 DEF Gids
      <3> QED  BY <2>0, <2>2, <3>1, <3>2, <3>3, <3>4 DEF Between, Adds, r, t
    <2>3. CASE r.cmd = "passwd"
      <3>1. /\ passwd' = [u \in DOMAIN passwd |->
                            IF u = r.user THEN [passwd[u] EXCEPT !.pw = r.newp] ELSE passwd[u]]
            /\ t.pc = "idle" /\ t.cmd = "none"
        BY <1>1, <1>b, <2>3 DEF PasswdStep, Adds, r
      <3>2. DOMAIN passwd' = DOMAIN passwd
        BY <3>1
      <3>3. Primary' \subseteq Primary
        BY <3>1 DEF Primary, Typed, IsFile, Users
      <3>4. Gids' = Gids
        BY <2>0 DEF Gids
      <3> QED  BY <2>0, <2>3, <3>1, <3>2, <3>3, <3>4 DEF Between, Adds, r, t
    <2> QED  BY <1>1, <2>1, <2>2, <2>3 DEF PasswdStep, r
  <1>2. CASE ShadowStep(a)
    <2>0. UNCHANGED <<passwd, group, gshadow>> /\ r.pc = "shadow" /\ Gids' = Gids /\ Primary' = Primary
      BY <1>2 DEF ShadowStep, r, Gids, Primary
    <2>1. CASE Adds(r)
      <3>1. DOMAIN shadow' = DOMAIN shadow \cup {r.user} /\ t.pc = "child" /\ Same
        BY <1>2, <1>a, <2>1 DEF ShadowStep, Adds, Labels, r, With
      <3> QED  BY <2>0, <2>1, <3>1 DEF Between, Adds, r, t
    <2>2. CASE r.cmd = "deluser"
      <3>1. DOMAIN shadow' = DOMAIN shadow \ {r.user} /\ t.pc = "groups" /\ Same
        BY <1>2, <1>a, <2>2 DEF ShadowStep, Adds, Labels, r, Without
      <3> QED  BY <2>0, <2>2, <3>1 DEF Between, Adds, r, t
    <2>3. CASE r.cmd = "passwd"
      <3>1. DOMAIN shadow' = DOMAIN shadow /\ t.pc = "passwd" /\ t.cmd = "passwd"
        <4>1. /\ shadow' = [u \in DOMAIN shadow |-> IF u = r.user THEN r.hash ELSE shadow[u]]
              /\ t = [r EXCEPT !.pc = "passwd", !.newp = NewPassword(r)]
          BY <1>2, <2>3 DEF ShadowStep, Adds, r, t, Typed
        <4> QED  BY <1>0, <2>3, <4>1 DEF Runs
      <3> QED  BY <2>0, <2>3, <3>1 DEF Between, Adds, r, t
    <2> QED  BY <1>2, <2>1, <2>2, <2>3 DEF ShadowStep, r
  <1>3. CASE GroupsStep(a)
    <2>0. UNCHANGED <<passwd, shadow, gshadow>> /\ r.pc = "groups" /\ r.cmd = "deluser"
          /\ Primary' = Primary /\ t.pc = "child" /\ Same
      BY <1>0, <1>3, <1>a DEF GroupsStep, r, Primary, WellFormed, Labels
    <2>1. group' = [g \in DOMAIN group |-> [group[g] EXCEPT !.mem = @ \ {r.user}]]
      BY <1>3 DEF GroupsStep, r
    <2>2. \A g \in DOMAIN group : group'[g].gid = group[g].gid /\ group'[g].mem = group[g].mem \ {r.user}
      BY <2>1 DEF Typed, IsFile, Groups
    <2>3. Gids' = Gids /\ DOMAIN group' = DOMAIN group
      BY <2>1, <2>2 DEF Gids
    <2> QED  BY <2>0, <2>2, <2>3 DEF Between, Adds, r, t
  <1>4. CASE ChildStep(a)
    <2>0. UNCHANGED <<passwd, shadow, group, gshadow>> /\ r.pc = "child" /\ Gids' = Gids /\ Primary' = Primary
      BY <1>4 DEF ChildStep, files, r, Gids, Primary
    <2>1. CASE ChildMayGo(r)
      <3>1. t.pc = "group" /\ Same
        BY <1>4, <1>a, <2>1 DEF ChildStep, Labels, r
      <3>2. r.cmd \in {"adduser", "adduserto", "deluser"}
            /\ (r.cmd = "deluser" => group[r.grp].gid \notin Primary)
        BY <2>1 DEF ChildMayGo
      <3> QED  BY <2>0, <3>1, <3>2 DEF Between, Adds, r, t
    <2>2. CASE ~ChildMayGo(r)
      <3>1. t.pc = "idle" /\ t.cmd = "none"
        BY <1>4, <1>b, <2>2 DEF ChildStep, r
      <3>2. r.cmd # "adduser"
        BY <2>0, <2>2 DEF ChildMayGo, Between, r
      <3> QED  BY <2>0, <3>1, <3>2 DEF Between, Adds, r, t
    <2> QED  BY <2>1, <2>2
  <1>5. CASE GroupStep(a)
    <2>0. UNCHANGED <<passwd, shadow, gshadow>> /\ r.pc = "group" /\ Primary' = Primary
          /\ t.pc = "gshadow" /\ Same
      BY <1>5, <1>a DEF GroupStep, r, Primary, Labels
    <2>1. CASE r.cmd \in {"adduser", "addgroup"}
      <3>1. group' = With(group, r.grp, [gid |-> r.gid, mem |-> {}])
        BY <1>5, <2>1 DEF GroupStep, r
      <3>2. r.grp \notin DOMAIN group
        BY <2>0, <2>1 DEF Between, r
      <3>3. DOMAIN group' = DOMAIN group \cup {r.grp} /\ Gids \cup {r.gid} \subseteq Gids'
        BY <3>1, <3>2 DEF With, Gids
      <3>4. \A g \in DOMAIN group' : group'[g].mem \subseteq DOMAIN passwd
        BY <2>0, <2>1, <3>1 DEF With, Between, r
      <3> QED  BY <2>0, <2>1, <3>3, <3>4 DEF Between, Adds, r, t
    <2>2. CASE r.cmd \in {"deluser", "delgroup"}
      <3>1. group' = Without(group, r.grp)
        BY <1>5, <2>2 DEF GroupStep, r
      <3>2. DOMAIN group' = DOMAIN group \ {r.grp} /\ \A g \in DOMAIN group' : group'[g] = group[g]
        BY <3>1 DEF Without
      <3>3. Primary \subseteq Gids
        BY <2>0, <2>2 DEF Between, r
      <3>4. Primary \subseteq Gids'
        BY <2>0, <2>2, <3>2, <3>3 DEF Between, r, Gids
      <3> QED  BY <2>0, <2>2, <3>2, <3>4 DEF Between, Adds, r, t
    <2>3. CASE r.cmd \notin {"adduser", "addgroup", "deluser", "delgroup"}
      <3>1. group' = [g \in DOMAIN group |->
                        IF g = r.grp THEN [group[g] EXCEPT !.mem = NewMembers(r, @)] ELSE group[g]]
        BY <1>5, <2>3 DEF GroupStep, r
      <3>2. r.cmd \in {"adduserto", "addmember", "delmember"}
        BY <1>0, <2>0, <2>3 DEF WellFormed, Runs, Commands
      <3>3. NewMembers(r, group[r.grp].mem) \subseteq group[r.grp].mem \cup DOMAIN passwd
        BY <2>0, <3>2 DEF NewMembers, Between, Adds, r
      <3>4. \A g \in DOMAIN group : group'[g].gid = group[g].gid
              /\ group'[g].mem \subseteq group[g].mem \cup DOMAIN passwd
        BY <3>1, <3>3 DEF Typed, IsFile, Groups
      <3>5. DOMAIN group' = DOMAIN group /\ Gids' = Gids
        BY <3>1, <3>4 DEF Gids
      <3> QED  BY <2>0, <2>3, <3>4, <3>5 DEF Between, Adds, r, t
    <2> QED  BY <2>1, <2>2, <2>3
  <1>6. CASE GshadowStep(a)
    <2>0. UNCHANGED <<passwd, shadow, group>> /\ r.pc = "gshadow" /\ Primary' = Primary /\ Gids' = Gids
          /\ t.pc = "idle" /\ t.cmd = "none"
      BY <1>6, <1>b DEF GshadowStep, r, Primary, Gids
    <2>1. DOMAIN gshadow' = DOMAIN group
      <3>1. CASE r.cmd \in {"adduser", "addgroup"}
        BY <1>6, <2>0, <3>1 DEF GshadowStep, r, With, Between
      <3>2. CASE r.cmd \in {"deluser", "delgroup"}
        BY <1>6, <2>0, <3>2 DEF GshadowStep, r, Without, Between
      <3>3. CASE r.cmd \notin {"adduser", "addgroup", "deluser", "delgroup"}
        BY <1>6, <2>0, <3>3 DEF GshadowStep, r, Between
      <3> QED  BY <3>1, <3>2, <3>3
    <2> QED  BY <2>0, <2>1 DEF Between, Adds, r, t
  <1>7. CASE UpdateFails(a) \/ Crash(a)
    BY <1>7 DEF UpdateFails, Crash
  <1> QED  BY <1>1, <1>2, <1>3, <1>4, <1>5, <1>6, <1>7 DEF Step

\* With one administrator, commands that do not fail leave the four files
\* consistent, however many there were and whatever their arguments.
THEOREM FilesConsistent == ASSUME NEW a, Admins = {a}  PROVE  Spec => []Consistent
  <1> DEFINE Inv == faults = 0 => Between(run[a])
  <1>1. Init => Typed /\ Inv
    <2> SUFFICES ASSUME Init  PROVE  Between(run[a])
      BY InitTyped
    <2>1. run[a].pc = "idle" /\ run[a].cmd = "none"
      <3>1. NoRun.pc = "idle" /\ NoRun.cmd = "none"
        BY DEF NoRun
      <3> QED  BY <3>1 DEF Init
    <2>2. /\ DOMAIN shadow \subseteq DOMAIN passwd /\ Primary \subseteq Gids
          /\ DOMAIN group = DOMAIN gshadow
          /\ \A g \in DOMAIN group : group[g].mem \subseteq DOMAIN passwd
      <3>1. CASE passwd = Empty /\ shadow = Empty /\ group = Empty /\ gshadow = Empty
        BY <3>1 DEF Primary, Gids, Empty
      <3>2. ASSUME NEW n \in Names, NEW i \in Ids, NEW h \in Hashes,
                   passwd = With(Empty, n, [uid |-> i, gid |-> i, pw |-> h]),
                   shadow \in {Empty, With(Empty, n, "!")},
                   group = With(Empty, n, [gid |-> i, mem |-> {}]),
                   gshadow = With(Empty, n, {})
            PROVE  /\ DOMAIN shadow \subseteq DOMAIN passwd /\ Primary \subseteq Gids
                   /\ DOMAIN group = DOMAIN gshadow
                   /\ \A g \in DOMAIN group : group[g].mem \subseteq DOMAIN passwd
        <4>1. DOMAIN passwd = {n} /\ passwd[n].gid = i /\ DOMAIN shadow \subseteq {n}
          BY <3>2 DEF With, Empty
        <4>2. DOMAIN group = {n} /\ group[n].gid = i /\ group[n].mem = {} /\ DOMAIN gshadow = {n}
          BY <3>2 DEF With, Empty
        <4> QED  BY <4>1, <4>2 DEF Primary, Gids
      <3> QED  BY <3>1, <3>2 DEF Init
    <2> QED  BY <2>1, <2>2 DEF Between, Adds
  <1>2. Typed /\ Inv /\ [Next]_vars => Typed' /\ Inv'
    <2> SUFFICES ASSUME Typed, Inv, [Next]_vars, faults' = 0  PROVE  Between(run[a])'
      BY TypedStays
    <2>1. CASE UNCHANGED vars
      BY <2>1 DEF vars, Between, Primary, Gids
    <2>2. CASE Command(a)
      <3>1. faults = 0
        BY <2>2, Started
      <3> QED  BY <2>2, <3>1, CommandBetween
    <2>3. CASE Step(a)
      <3>1. faults = 0
        BY <2>3, FaultsBounded DEF Step, PasswdStep, ShadowStep, GroupsStep, ChildStep, GroupStep, GshadowStep,
              UpdateFails, Crash, Typed
      <3> QED  BY <2>3, <3>1, StepBetween
    <2> QED  BY <2>1, <2>2, <2>3 DEF Next
  <1>3. Inv => Consistent
    BY DEF Consistent, Between
  <1> QED  BY <1>1, <1>2, <1>3, PTL DEF Spec

-----------------------------------------------------------------------------
(* update_passwd().                                                        *)
\* An update of a file is a file.
LEMMA ApplyType ==
  ASSUME NEW op \in PF!Ops, NEW c \in PF!Contents
  PROVE  PF!Apply(op, c) \in PF!Contents
  <1>1. PICK N \in SUBSET Keys : c \in [N -> PF!Line]
    BY DEF PF!Contents
  <1>2. /\ op.name \in Keys /\ op.val \in Values /\ op.member \in Members
    BY DEF PF!Ops
  <1>3. CASE op.kind = "add"
    <2>1. [val |-> op.val, mem |-> {}] \in PF!Line
      BY <1>2 DEF PF!Line
    <2>2. PF!WithLine(c, op.name, [val |-> op.val, mem |-> {}]) \in [N \cup {op.name} -> PF!Line]
      BY <1>1, <2>1 DEF PF!WithLine
    <2> QED  BY <1>2, <1>3, <2>2 DEF PF!Apply, PF!Contents
  <1>4. CASE op.kind = "del"
    <2>1. PF!Without(c, op.name) \in [N \ {op.name} -> PF!Line]
      BY <1>1 DEF PF!Without
    <2> QED  BY <1>4, <2>1 DEF PF!Apply, PF!Contents
  <1>5. CASE op.kind \notin {"add", "del"}
    <2>1. ASSUME NEW l \in PF!Line PROVE PF!NewLine(op, l) \in PF!Line
      BY <1>2 DEF PF!NewLine, PF!Line
    <2>2. [n \in DOMAIN c |-> IF n \in PF!Rewritten(op, c) THEN PF!NewLine(op, c[n]) ELSE c[n]]
            \in [N -> PF!Line]
      BY <1>1, <2>1
    <2> QED  BY <1>5, <2>2 DEF PF!Apply, PF!Contents
  <1> QED  BY <1>3, <1>4, <1>5

\* The number of changed lines is a number.
LEMMA ChangedLinesType ==
  ASSUME NEW op \in PF!Ops, NEW c \in PF!Contents
  PROVE  ChangedLines(op, c) \in Int
  <1>1. PICK N \in SUBSET Keys : c \in [N -> PF!Line]
    BY DEF PF!Contents
  <1>2. PF!Rewritten(op, c) \subseteq N
    BY <1>1 DEF PF!Rewritten
  <1>3. IsFiniteSet(PF!Rewritten(op, c))
    BY <1>2, FS_Subset, UpdatePasswdAssumption
  <1>4. Cardinality(PF!Rewritten(op, c)) \in Nat
    BY <1>3, FS_CardinalityType
  <1> QED  BY <1>4 DEF ChangedLines

\* A rename adds a version, which is a file, and returns a number.
LEMMA RenameType ==
  ASSUME UpdateTypeOK, NEW p \in Procs, Rename(p)
  PROVE  /\ versions' = Append(versions, PF!Apply(call[p], versions[old[p]]))
         /\ versions' \in Seq(PF!Contents) /\ Len(versions') = Len(versions) + 1
         /\ ChangedLines(call[p], versions[old[p]]) \in Int
  <1>1. call[p] \in PF!Ops /\ versions[old[p]] \in PF!Contents
    BY UpdatePasswdAssumption DEF UpdateTypeOK, Rename, Rewriting
  <1>2. PF!Apply(call[p], versions[old[p]]) \in PF!Contents
    BY <1>1, ApplyType
  <1> QED  BY <1>1, <1>2, ChangedLinesType DEF Rename, UpdateTypeOK

\* Returning an integer keeps the types of the locals.
LEMMA ReturnType ==
  ASSUME UpdateTypeOK, NEW p \in Procs, NEW r \in Int, Return(p, r)
  PROVE  /\ pc' \in [Procs -> {"idle", "create", "backup", "rewrite", "nobackup"}]
         /\ call' \in [Procs -> Calls \cup {NoCall}]
         /\ old' \in [Procs -> 0..Len(versions)]
         /\ tries' \in [Procs -> 0..Tries]
         /\ ret' \in [Procs -> Int]
         /\ \A q \in Procs : pc'[q] # "idle" => call'[q] \in Calls /\ old'[q] > 0
  BY UpdatePasswdAssumption DEF UpdateTypeOK, Return

\* A process that returns without having renamed keeps all types.
LEMMA ReturnKeepsType ==
  ASSUME UpdateTypeOK, NEW p \in Procs, NEW r \in Int, Return(p, r),
         versions' = versions, backup' = backup,
         plus' \in Procs \cup {"none", "stale"}
  PROVE  UpdateTypeOK'
  <1>1. /\ pc' \in [Procs -> {"idle", "create", "backup", "rewrite", "nobackup"}]
        /\ call' \in [Procs -> Calls \cup {NoCall}]
        /\ old' \in [Procs -> 0..Len(versions')]
        /\ tries' \in [Procs -> 0..Tries]
        /\ ret' \in [Procs -> Int]
        /\ \A q \in Procs : pc'[q] # "idle" => call'[q] \in Calls /\ old'[q] > 0
    BY ReturnType
  <1>2. versions' \in Seq(PF!Contents) /\ versions' # << >> /\ backup' \in 0..Len(versions')
    BY DEF UpdateTypeOK
  <1> QED  BY <1>1, <1>2 DEF UpdateTypeOK

\* The types of the file's versions and of update_passwd()'s locals; a call
\* under way has its arguments and the file it opened.
THEOREM UpdateTypeCorrect == UpdateSpec => []UpdateTypeOK
  <1>1. UpdateInit => UpdateTypeOK
    <2> SUFFICES ASSUME UpdateInit PROVE UpdateTypeOK
      OBVIOUS
    <2>1. versions \in Seq(PF!Contents) /\ Len(versions) = 1 /\ versions # << >>
      BY UpdatePasswdAssumption DEF UpdateInit
    <2> QED  BY <2>1, UpdatePasswdAssumption DEF UpdateInit, UpdateTypeOK
  <1>2. UpdateTypeOK /\ [UpdateNext]_updateVars => UpdateTypeOK'
    <2> SUFFICES ASSUME UpdateTypeOK, [UpdateNext]_updateVars PROVE UpdateTypeOK'
      OBVIOUS
    <2> USE UpdatePasswdAssumption
    <2> Len(versions) \in Nat /\ Len(versions) > 0
      BY DEF UpdateTypeOK
    <2>1. ASSUME NEW p \in Procs, NEW op \in Calls, Open(p, op) PROVE UpdateTypeOK'
      BY <2>1 DEF Open, UpdateTypeOK, Now
    <2>2. ASSUME NEW p \in Procs, Create(p) PROVE UpdateTypeOK'
      BY <2>2 DEF Create, Proceed, UpdateTypeOK
    <2>3. ASSUME NEW p \in Procs, CreateWaits(p) PROVE UpdateTypeOK'
      <3>1. CASE tries[p] > 1 /\ tries' = [tries EXCEPT ![p] = @ - 1] /\ UNCHANGED <<pc, call, old, ret>>
        BY <2>3, <3>1 DEF CreateWaits, UpdateTypeOK
      <3>2. CASE Return(p, -1)
        <4>1. UNCHANGED <<versions, plus, backup>>
          BY <2>3 DEF CreateWaits
        <4> QED  BY <3>2, <4>1 DEF Return, UpdateTypeOK
      <3> QED  BY <2>3, <3>1, <3>2 DEF CreateWaits
    <2>4. ASSUME NEW p \in Procs, OpenFails(p) PROVE UpdateTypeOK'
      <3>1. versions' = versions /\ backup' = backup /\ plus' = plus
        BY <2>4 DEF OpenFails
      <3>2. plus' \in Procs \cup {"none", "stale"}
        BY <3>1 DEF UpdateTypeOK
      <3>3. \E r \in Int : Return(p, r)
        BY <2>4 DEF OpenFails
      <3> QED  BY <3>1, <3>2, <3>3, ReturnKeepsType
    <2>5. ASSUME NEW p \in Procs, Backup(p) PROVE UpdateTypeOK'
      <3>1. backup' \in 0..Len(versions) /\ UNCHANGED <<versions, plus, call, old, tries, ret>>
        BY <2>5 DEF Backup, Proceed, UpdateTypeOK, Now
      <3>2. \E l \in {"rewrite", "nobackup"} : pc' = [pc EXCEPT ![p] = l]
        BY <2>5 DEF Backup, Proceed
      <3>3. pc[p] = "backup"
        BY <2>5 DEF Backup
      <3>4. \A q \in Procs : pc'[q] # "idle" => pc[q] # "idle"
        BY <3>2, <3>3 DEF UpdateTypeOK
      <3>5. pc' \in [Procs -> {"idle", "create", "backup", "rewrite", "nobackup"}]
        BY <3>2 DEF UpdateTypeOK
      <3> QED  BY <3>1, <3>4, <3>5 DEF UpdateTypeOK
    <2>6. ASSUME NEW p \in Procs, Rename(p) PROVE UpdateTypeOK'
      <3>1. Return(p, ChangedLines(call[p], versions[old[p]]))
        BY <2>6 DEF Rename
      <3>2. 0..Len(versions) \subseteq 0..Len(versions')
        BY <2>6, RenameType
      <3>3. versions' \in Seq(PF!Contents) /\ versions' # << >>
        BY <2>6, RenameType
      <3>4. old' \in [Procs -> 0..Len(versions')]
        BY <2>6, <3>1, <3>2, ReturnType, RenameType
      <3> QED  BY <2>6, <3>1, <3>2, <3>3, <3>4, ReturnType, RenameType DEF Rename, UpdateTypeOK
    <2>7. ASSUME NEW p \in Procs, WriteFails(p) PROVE UpdateTypeOK'
      <3>1. Return(p, -1) /\ plus' = "none" /\ versions' = versions /\ backup' = backup
        BY <2>7 DEF WriteFails
      <3> QED  BY <3>1, ReturnKeepsType
    <2>8. ASSUME NEW p \in Procs, Killed(p) PROVE UpdateTypeOK'
      <3>1. Return(p, -1) /\ versions' = versions /\ backup' = backup
        BY <2>8 DEF Killed
      <3>2. plus' \in Procs \cup {"none", "stale"}
        BY <2>8 DEF Killed, UpdateTypeOK
      <3> QED  BY <3>1, <3>2, ReturnKeepsType
    <2>9. CASE UNCHANGED updateVars
      BY <2>9 DEF updateVars, UpdateTypeOK
    <2> QED  BY <2>1, <2>2, <2>3, <2>4, <2>5, <2>6, <2>7, <2>8, <2>9 DEF UpdateNext, UpdateStep
  <1> QED  BY <1>1, <1>2, PTL DEF UpdateSpec

-----------------------------------------------------------------------------
\* While a process writes FILE+ after its link() succeeded, FILE- names what
\* FILE names.
BackedUp ==
  \A p \in Procs : pc[p] = "rewrite" => backup = Now

\* FILE+ is an exclusive lock, for any number of processes, also when some are
\* killed while they hold it.
THEOREM LockCorrect == UpdateSpec => []ExclusiveWriter
  <1>1. UpdateInit => ExclusiveWriter
    BY UpdatePasswdAssumption DEF UpdateInit, ExclusiveWriter, Writing, Rewriting
  <1>2. UpdateTypeOK /\ ExclusiveWriter /\ [UpdateNext]_updateVars => ExclusiveWriter'
    <2> SUFFICES ASSUME UpdateTypeOK, ExclusiveWriter, [UpdateNext]_updateVars PROVE ExclusiveWriter'
      OBVIOUS
    <2> USE UpdatePasswdAssumption DEF UpdateTypeOK, ExclusiveWriter, Writing, Rewriting, Proceed, Return
    <2>1. ASSUME NEW p \in Procs, NEW op \in Calls, Open(p, op) PROVE ExclusiveWriter'
      BY <2>1 DEF Open
    <2>2. ASSUME NEW p \in Procs, Create(p) PROVE ExclusiveWriter'
      BY <2>2 DEF Create
    <2>3. ASSUME NEW p \in Procs, CreateWaits(p) PROVE ExclusiveWriter'
      BY <2>3 DEF CreateWaits
    <2>4. ASSUME NEW p \in Procs, OpenFails(p) PROVE ExclusiveWriter'
      BY <2>4 DEF OpenFails
    <2>5. ASSUME NEW p \in Procs, Backup(p) PROVE ExclusiveWriter'
      <3>1. /\ pc[p] = "backup" /\ plus' = plus
            /\ \E l \in {"rewrite", "nobackup"} : pc' = [pc EXCEPT ![p] = l]
        BY <2>5 DEF Backup
      <3> QED  BY <3>1
    <2>6. ASSUME NEW p \in Procs, Rename(p) \/ WriteFails(p) PROVE ExclusiveWriter'
      <3>1. /\ plus = p /\ plus' = "none"
            /\ pc' = [pc EXCEPT ![p] = "idle"]
        BY <2>6 DEF Rename, WriteFails
      <3> QED  BY <3>1
    <2>7. ASSUME NEW p \in Procs, Killed(p) PROVE ExclusiveWriter'
      BY <2>7 DEF Killed
    <2>8. CASE UNCHANGED updateVars
      BY <2>8 DEF updateVars
    <2> QED  BY <2>1, <2>2, <2>3, <2>4, <2>5, <2>6, <2>7, <2>8 DEF UpdateNext, UpdateStep
  <1> QED  BY <1>1, <1>2, UpdateTypeCorrect, PTL DEF UpdateSpec

\* Nobody moves FILE or FILE- between a writer's link() and its rename().
LEMMA BackupStays == UpdateSpec => []BackedUp
  <1>1. UpdateInit => BackedUp
    BY DEF UpdateInit, BackedUp
  <1>2. UpdateTypeOK /\ ExclusiveWriter /\ BackedUp /\ [UpdateNext]_updateVars => BackedUp'
    <2> SUFFICES ASSUME UpdateTypeOK, ExclusiveWriter, BackedUp, [UpdateNext]_updateVars,
                        NEW q \in Procs, pc'[q] = "rewrite"
                 PROVE  backup' = Len(versions')
      BY DEF BackedUp, Now
    <2> USE DEF UpdateTypeOK, BackedUp, Now, Proceed, Return
    <2>1. ASSUME NEW p \in Procs, NEW op \in Calls, Open(p, op) PROVE backup' = Len(versions')
      BY <2>1 DEF Open
    <2>2. ASSUME NEW p \in Procs, Create(p) \/ OpenFails(p) \/ Killed(p)
          PROVE  backup' = Len(versions')
      BY <2>2 DEF Create, OpenFails, Killed
    <2>3. ASSUME NEW p \in Procs, CreateWaits(p) PROVE backup' = Len(versions')
      BY <2>3 DEF CreateWaits
    <2>4. ASSUME NEW p \in Procs, Backup(p) PROVE backup' = Len(versions')
      <3>1. CASE backup' = Now
        BY <2>4, <3>1 DEF Backup
      <3>2. CASE Proceed(p, "nobackup")
        <4>1. q # p /\ Writing(p) /\ Writing(q)
          BY <2>4, <3>2 DEF Backup, Writing, Rewriting
        <4> QED  BY <4>1 DEF ExclusiveWriter
      <3> QED  BY <2>4, <3>1, <3>2 DEF Backup
    <2>5. ASSUME NEW p \in Procs, Rename(p) \/ WriteFails(p) PROVE backup' = Len(versions')
      <3>1. pc'[p] = "idle" /\ q # p /\ Writing(p) /\ Writing(q)
        BY <2>5 DEF Rename, WriteFails, Writing, Rewriting
      <3> QED  BY <3>1 DEF ExclusiveWriter
    <2>6. CASE UNCHANGED updateVars
      BY <2>6 DEF updateVars
    <2> QED  BY <2>1, <2>2, <2>3, <2>4, <2>5, <2>6 DEF UpdateNext, UpdateStep
  <1> QED  BY <1>1, <1>2, UpdateTypeCorrect, LockCorrect, PTL DEF UpdateSpec

\* After any rename, by any of any number of processes, FILE- is exactly the
\* file that the rename replaced, unless the call's own link() failed.
THEOREM BackupCorrect == UpdateSpec => BackupIsPrevious
  <1>1. UpdateTypeOK /\ BackedUp /\ [UpdateNext]_updateVars => [RenameLeavesBackup]_updateVars
    <2> SUFFICES ASSUME UpdateTypeOK, BackedUp, UpdateNext, versions' # versions,
                        \A p \in Procs : pc[p] # "nobackup"
                 PROVE  backup' = Now
      BY DEF RenameLeavesBackup
    <2>1. PICK p \in Procs : Rename(p)
      BY DEF UpdateNext, UpdateStep, Open, Create, CreateWaits, OpenFails, Backup, WriteFails, Killed
    <2> QED  BY <2>1 DEF Rename, Rewriting, BackedUp
  <1> QED  BY <1>1, UpdateTypeCorrect, BackupStays, PTL DEF UpdateSpec, BackupIsPrevious

-----------------------------------------------------------------------------
\* The file that a process opened is still the current one.
Current == \A p \in Procs : pc[p] # "idle" => old[p] = Now

\* With one process, whatever fails and wherever it is killed, FILE changes
\* only by whole updates: update_passwd() implements PasswdFile.
THEOREM UpdatesAtomic ==
  ASSUME NEW P, Procs = {P}
  PROVE  UpdateSpec => AtomicUpdates
  <1>1. UpdateInit => Current /\ PF!Init
    BY UpdatePasswdAssumption DEF UpdateInit, Current, PF!Init
  <1>2. UpdateTypeOK /\ Current /\ [UpdateNext]_updateVars => Current' /\ [PF!Update]_(versions[Len(versions)])
    <2> SUFFICES ASSUME UpdateTypeOK, Current, [UpdateNext]_updateVars
                 PROVE  Current' /\ [PF!Update]_(versions[Len(versions)])
      OBVIOUS
    <2>1. CASE UNCHANGED versions
      <3>1. UNCHANGED versions[Len(versions)]
        BY <2>1
      <3>2. Current'
        BY <2>1 DEF UpdateNext, UpdateStep, Open, Create, CreateWaits, OpenFails, Backup, WriteFails, Killed,
                    Rename, Proceed, Return, Current, Now, UpdateTypeOK, updateVars
      <3> QED  BY <3>1, <3>2
    <2>2. CASE Rename(P)
      <3>1. Rewriting(P) /\ old[P] = Len(versions) /\ call[P] \in PF!Ops
        BY <2>2, UpdatePasswdAssumption DEF Rename, Rewriting, Current, Now, UpdateTypeOK
      <3>2. versions'[Len(versions')] = PF!Apply(call[P], versions[Len(versions)])
        BY <2>2, <3>1, RenameType
      <3>3. PF!Update
        BY <3>1, <3>2 DEF PF!Update
      <3>4. Current'
        BY <2>2 DEF Rename, Return, Current, UpdateTypeOK
      <3> QED  BY <3>3, <3>4
    <2> QED  BY <2>1, <2>2 DEF UpdateNext, UpdateStep, Open, Create, CreateWaits, OpenFails, Backup,
                               WriteFails, Killed, updateVars
  <1> QED  BY <1>1, <1>2, UpdateTypeCorrect, PTL DEF UpdateSpec, AtomicUpdates, PF!Spec
=============================================================================
