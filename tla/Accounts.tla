------------------------------ MODULE Accounts ------------------------------
(***************************************************************************)
(* loginutils: adduser, addgroup, deluser, delgroup, passwd and chpasswd.  *)
(* Each command looks at /etc/passwd, /etc/shadow, /etc/group and          *)
(* /etc/gshadow and then updates several of them, one update_passwd() call *)
(* after the other.  A call is one step here (module UpdatePasswd is about *)
(* the call itself); it may fail, and a command may die between two calls. *)
(*                                                                         *)
(* A process's pc names the file it updates next; "groups" stands for the  *)
(* removal of a user from all groups, "child" for the checks of the        *)
(* addgroup that adduser spawns or of deluser's implied delgroup.          *)
(***************************************************************************)
EXTENDS Integers, FiniteSets

CONSTANTS
  Admins,   \* processes that run commands
  Names,    \* names of users and of groups
  Ids,      \* the ids handed out, CONFIG_LAST_SYSTEM_ID + 1 .. CONFIG_LAST_ID
  Hashes,   \* encrypted passwords
  MaxFaults \* bound: updates that fail and commands that are killed

ASSUME AccountsAssumption ==
  /\ Ids \subseteq Nat /\ IsFiniteSet(Ids) /\ MaxFaults \in Nat
  /\ Hashes \cap {"x", "!"} = {} /\ "" \notin Names

VARIABLES
  passwd,   \* /etc/passwd:  user -> uid, gid, password field
  shadow,   \* /etc/shadow:  user -> password field
  group,    \* /etc/group:   group -> gid, members
  gshadow,  \* /etc/gshadow: group -> members
  run,      \* the command a process is executing
  faults    \* failed updates and kills so far

files == <<passwd, shadow, group, gshadow>>
vars == <<passwd, shadow, group, gshadow, run, faults>>

Empty == [n \in {} |-> n]
Without(f, n) == [x \in DOMAIN f \ {n} |-> f[x]]
With(f, n, v) == [x \in DOMAIN f \cup {n} |-> IF x = n THEN v ELSE f[x]]

NoRun == [cmd |-> "none", pc |-> "idle", user |-> "", grp |-> "",
          uid |-> 0, gid |-> 0, hash |-> "x", newp |-> "x"]

\* Either no accounts, or one whose password is in /etc/passwd although there
\* may be a line for it in /etc/shadow.
Init ==
  /\ \/ passwd = Empty /\ shadow = Empty /\ group = Empty /\ gshadow = Empty
     \/ \E n \in Names, i \in Ids, h \in Hashes :
          /\ passwd = With(Empty, n, [uid |-> i, gid |-> i, pw |-> h])
          /\ shadow \in {Empty, With(Empty, n, "!")}
          /\ group = With(Empty, n, [gid |-> i, mem |-> {}])
          /\ gshadow = With(Empty, n, {})
  /\ run = [p \in Admins |-> NoRun]
  /\ faults = 0

Uids == {passwd[u].uid : u \in DOMAIN passwd}
Gids == {group[g].gid : g \in DOMAIN group}
Primary == {passwd[u].gid : u \in DOMAIN passwd}

\* Mutant of FirstFree: one id past the first free one.
FirstFree_Next(used) == 1 + CHOOSE i \in Ids \ used : \A j \in Ids \ used : i <= j

FirstFree(used) == CHOOSE i \in Ids \ used : \A j \in Ids \ used : i <= j

-----------------------------------------------------------------------------
(* Starting a command: its checks, which read the files as they are now.   *)

Start(p, c, l, u, g, uid, gid, h) ==
  /\ run[p].pc = "idle"
  /\ run' = [run EXCEPT ![p] = [cmd |-> c, pc |-> l, user |-> u, grp |-> g, uid |-> uid,
                                gid |-> gid, hash |-> h, newp |-> h]]
  /\ UNCHANGED <<files, faults>>

\* adduser USER, and passwd_study(): the name is in use neither for a user nor
\* for a group, and the first id free as a uid and as a gid becomes both.
AddUser(p) == \E n \in Names \ (DOMAIN passwd \cup DOMAIN group) :
  /\ Ids \ (Uids \cup Gids) # {}
  /\ LET i == FirstFree(Uids \cup Gids) IN Start(p, "adduser", "passwd", n, n, i, i, "x")

\* adduser -G GROUP USER: the user's primary group exists already.
AddUserTo(p) == \E n \in Names \ DOMAIN passwd, g \in DOMAIN group :
  /\ Ids \ Uids # {}
  /\ Start(p, "adduserto", "passwd", n, g, FirstFree(Uids), group[g].gid, "x")

\* Mutant of AddGroup: xgroup_study() does not look for a free gid.
AddGroup_NoStudy(p) == \E n \in Names \ DOMAIN group :
  Start(p, "addgroup", "group", "", n, 0, FirstFree({}), "x")

\* addgroup GROUP, and xgroup_study().
AddGroup(p) == \E n \in Names \ DOMAIN group :
  /\ Ids \ Gids # {}
  /\ Start(p, "addgroup", "group", "", n, 0, FirstFree(Gids), "x")

\* addgroup USER GROUP, where the user is not a member yet.
AddMember(p) == \E u \in DOMAIN passwd, g \in DOMAIN group :
  /\ u \notin group[g].mem
  /\ Start(p, "addmember", "group", u, g, 0, 0, "x")

\* deluser USER
DelUser(p) == \E n \in DOMAIN passwd : Start(p, "deluser", "passwd", n, n, 0, 0, "x")

\* Mutant of DelGroup: "Check if the group is in use" is left out.
DelGroup_NoCheck(p) == \E g \in DOMAIN group :
  Start(p, "delgroup", "group", "", g, 0, 0, "x")

\* delgroup GROUP, which is nobody's primary group.
DelGroup(p) == \E g \in DOMAIN group :
  /\ group[g].gid \notin Primary
  /\ Start(p, "delgroup", "group", "", g, 0, 0, "x")

\* delgroup USER GROUP
DelMember(p) == \E u \in Names, g \in DOMAIN group :
  Start(p, "delmember", "group", u, g, 0, 0, "x")

\* passwd USER (also as executed at the end of adduser), or a line of
\* chpasswd's input.  The new password is any: a new one, or the old one
\* locked, unlocked or deleted.
Passwd(p) == \E n \in DOMAIN passwd, h \in Hashes :
  Start(p, "passwd", "shadow", n, "", 0, 0, h)

-----------------------------------------------------------------------------
(* The update_passwd() calls, in each command's order.                     *)
Adds(r) == r.cmd \in {"adduser", "adduserto"}

Goto(p, l) == run' = [run EXCEPT ![p].pc = l]
Exit(p) == run' = [run EXCEPT ![p] = NoRun]

PasswdStep(p) ==
  LET r == run[p] IN
  /\ r.pc = "passwd"
  /\ \/ /\ Adds(r)
        /\ passwd' = With(passwd, r.user, [uid |-> r.uid, gid |-> r.gid, pw |-> "x"])
        /\ Goto(p, "shadow")
     \/ /\ r.cmd = "deluser"
        /\ passwd' = Without(passwd, r.user)
        /\ Goto(p, "shadow")
     \/ /\ r.cmd = "passwd"
        /\ passwd' = [u \in DOMAIN passwd |->
                        IF u = r.user THEN [passwd[u] EXCEPT !.pw = r.newp] ELSE passwd[u]]
        /\ Exit(p)
  /\ UNCHANGED <<shadow, group, gshadow, faults>>

\* Mutant of NewPassword: rc >= 0 instead of rc > 0.
NewPassword_Always(r) == "x"

\* rc > 0: the password was changed in /etc/shadow, and "x" goes to /etc/passwd.
NewPassword(r) == IF r.user \in DOMAIN shadow THEN "x" ELSE r.hash

ShadowStep(p) ==
  LET r == run[p] IN
  /\ r.pc = "shadow"
  /\ \/ /\ Adds(r)
        /\ shadow' = With(shadow, r.user, "!")
        /\ Goto(p, "child")
     \/ /\ r.cmd = "deluser"
        /\ shadow' = Without(shadow, r.user)
        /\ Goto(p, "groups")
     \/ /\ r.cmd = "passwd"
        /\ shadow' = [u \in DOMAIN shadow |-> IF u = r.user THEN r.hash ELSE shadow[u]]
        /\ run' = [run EXCEPT ![p].pc = "passwd", ![p].newp = NewPassword(r)]
  /\ UNCHANGED <<passwd, group, gshadow, faults>>

\* deluser: delete the user from all groups, in /etc/group only.
GroupsStep(p) ==
  /\ run[p].pc = "groups"
  /\ group' = [g \in DOMAIN group |-> [group[g] EXCEPT !.mem = @ \ {run[p].user}]]
  /\ Goto(p, "child")
  /\ UNCHANGED <<passwd, shadow, gshadow, faults>>

\* The checks of "addgroup --gid GID USER", of "addgroup USER GROUP" and of
\* "delgroup USER".  The command ends where they fail; adduser ignores it.
ChildMayGo(r) ==
  \/ r.cmd = "adduser" /\ r.grp \notin DOMAIN group /\ r.gid \notin Gids
  \/ r.cmd = "adduserto" /\ r.user \in DOMAIN passwd /\ r.grp \in DOMAIN group
       /\ r.user \notin group[r.grp].mem
  \/ r.cmd = "deluser" /\ r.grp \in DOMAIN group /\ group[r.grp].gid \notin Primary

ChildStep(p) ==
  /\ run[p].pc = "child"
  /\ IF ChildMayGo(run[p]) THEN Goto(p, "group") ELSE Exit(p)
  /\ UNCHANGED <<files, faults>>

\* Of the two group files, members change the line that exists, if any.
NewMembers(r, mem) ==
  IF r.cmd = "delmember" THEN mem \ {r.user} ELSE mem \cup {r.user}

GroupStep(p) ==
  LET r == run[p] IN
  /\ r.pc = "group"
  /\ group' = CASE r.cmd \in {"adduser", "addgroup"} ->
                     With(group, r.grp, [gid |-> r.gid, mem |-> {}])
                [] r.cmd \in {"deluser", "delgroup"} -> Without(group, r.grp)
                [] OTHER -> [g \in DOMAIN group |->
                     IF g = r.grp THEN [group[g] EXCEPT !.mem = NewMembers(r, @)]
                                  ELSE group[g]]
  /\ Goto(p, "gshadow")
  /\ UNCHANGED <<passwd, shadow, gshadow, faults>>

GshadowStep(p) ==
  LET r == run[p] IN
  /\ r.pc = "gshadow"
  /\ gshadow' = CASE r.cmd \in {"adduser", "addgroup"} -> With(gshadow, r.grp, {})
                  [] r.cmd \in {"deluser", "delgroup"} -> Without(gshadow, r.grp)
                  [] OTHER -> [g \in DOMAIN gshadow |->
                       IF g = r.grp THEN NewMembers(r, gshadow[g]) ELSE gshadow[g]]
  /\ Exit(p)
  /\ UNCHANGED <<passwd, shadow, group, faults>>

\* update_passwd() returns -1: the command ends, but adduser ignores errors in
\* /etc/shadow and goes on.
UpdateFails(p) ==
  /\ faults < MaxFaults /\ faults' = faults + 1
  /\ run[p].pc \in {"passwd", "shadow", "groups", "group", "gshadow"}
  /\ IF run[p].pc = "shadow" /\ Adds(run[p]) THEN Goto(p, "child") ELSE Exit(p)
  /\ UNCHANGED files

Crash(p) ==
  /\ faults < MaxFaults /\ faults' = faults + 1
  /\ run[p].pc # "idle"
  /\ Exit(p)
  /\ UNCHANGED files

Command(p) ==
  \/ AddUser(p) \/ AddUserTo(p) \/ AddGroup(p) \/ AddMember(p) \/ DelUser(p)
  \/ DelGroup(p) \/ DelMember(p) \/ Passwd(p)

Step(p) ==
  \/ PasswdStep(p) \/ ShadowStep(p) \/ GroupsStep(p) \/ ChildStep(p) \/ GroupStep(p)
  \/ GshadowStep(p) \/ UpdateFails(p) \/ Crash(p)

Next == \E p \in Admins : Command(p) \/ Step(p)

Spec == Init /\ [][Next]_vars

-----------------------------------------------------------------------------
IsFile(f, S) == DOMAIN f \subseteq Names /\ \A n \in DOMAIN f : f[n] \in S
Passwords == Hashes \cup {"x", "!"}

\* The types of the four files and of a command's locals.
TypeOK ==
  /\ IsFile(passwd, [uid : Ids, gid : Ids, pw : Passwords])
  /\ IsFile(shadow, Passwords)
  /\ IsFile(group, [gid : Ids, mem : SUBSET Names])
  /\ IsFile(gshadow, SUBSET Names)
  /\ run \in [Admins -> [cmd : {"none", "adduser", "adduserto", "addgroup", "addmember",
                                "deluser", "delgroup", "delmember", "passwd"},
                         pc : {"idle", "passwd", "shadow", "groups", "child", "group", "gshadow"},
                         user : Names \cup {""}, grp : Names \cup {""},
                         uid : Ids \cup {0}, gid : Ids \cup {0},
                         hash : Passwords, newp : Passwords]]
  /\ faults \in 0..MaxFaults

\* No two users have one uid, no two groups have one gid: "make sure gid and
\* group haven't already been allocated".
IdsUnique ==
  /\ \A u, v \in DOMAIN passwd : passwd[u].uid = passwd[v].uid => u = v
  /\ \A g, h \in DOMAIN group : group[g].gid = group[h].gid => g = h

\* Commands that neither fail nor overlap leave the files consistent, however
\* many there were: both halves of an account and of a group are there or not,
\* every primary group exists and groups have existing users as members.
Consistent ==
  faults = 0 /\ (\A p \in Admins : run[p].pc = "idle") =>
    /\ DOMAIN shadow \subseteq DOMAIN passwd
    /\ DOMAIN gshadow = DOMAIN group
    /\ Primary \subseteq Gids
    /\ \A g \in DOMAIN group : group[g].mem \subseteq DOMAIN passwd

\* The password that login accepts.
Effective(u) ==
  IF u \notin DOMAIN passwd THEN "none"
  ELSE IF passwd[u].pw # "x" THEN passwd[u].pw
  ELSE IF u \in DOMAIN shadow THEN shadow[u] ELSE "none"

\* While passwd moves from /etc/shadow to /etc/passwd, wherever the password
\* is kept and even if it is killed in between, the password that counts is the
\* old one or one asked for, never one left over in the other file.
PasswordOldOrNew ==
  [][\A p \in Admins : run[p].cmd = "passwd" /\ run'[p] # run[p] =>
       \A u \in Names : Effective(u)' # Effective(u) =>
         \E q \in Admins : run[q].cmd = "passwd" /\ Effective(u)' = run[q].hash]_vars
=============================================================================
