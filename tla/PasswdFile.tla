----------------------------- MODULE PasswdFile -----------------------------
(***************************************************************************)
(* What update_passwd() of libbb/update_passwd.c does to a file, and the   *)
(* promise behind it: the file changes by whole updates, one at a time.    *)
(*                                                                         *)
(* A file maps the names that have a line to the line's rest: a value (the *)
(* password of a user, or what follows the name) and a set of members      *)
(* (empty but in /etc/group and /etc/gshadow).                             *)
(***************************************************************************)
CONSTANTS Keys, Values, Members

Line == [val : Values, mem : SUBSET Members]
Contents == UNION {[N -> Line] : N \in SUBSET Keys}

Kinds == {"add", "del", "chg", "addmem", "delmem", "delall"}
Ops == [kind : Kinds, name : Keys, val : Values, member : Members]

Without(c, n) == [x \in DOMAIN c \ {n} |-> c[x]]
WithLine(c, n, l) == [x \in DOMAIN c \cup {n} |-> IF x = n THEN l ELSE c[x]]

\* The lines an operation rewrites in place: the line of its name, or, to
\* delete a member from all groups, the lines that have the member.
Rewritten(op, c) ==
  CASE op.kind \in {"chg", "addmem"} -> {op.name} \cap DOMAIN c
    [] op.kind = "delmem" -> {n \in {op.name} \cap DOMAIN c : op.member \in c[n].mem}
    [] op.kind = "delall" -> {n \in DOMAIN c : op.member \in c[n].mem}
    [] OTHER -> {}

NewLine(op, l) ==
  CASE op.kind = "chg" -> [l EXCEPT !.val = op.val]
    [] op.kind = "addmem" -> [l EXCEPT !.mem = @ \cup {op.member}]
    [] OTHER -> [l EXCEPT !.mem = @ \ {op.member}]

\* A line of the same name is skipped when one is added, so it is replaced.
Apply(op, c) ==
  CASE op.kind = "add" -> WithLine(c, op.name, [val |-> op.val, mem |-> {}])
    [] op.kind = "del" -> Without(c, op.name)
    [] OTHER -> [n \in DOMAIN c |-> IF n \in Rewritten(op, c)
                                    THEN NewLine(op, c[n]) ELSE c[n]]

-----------------------------------------------------------------------------
VARIABLE file

Init == file \in Contents
Update == \E op \in Ops : file' = Apply(op, file)
Spec == Init /\ [][Update]_file
=============================================================================
