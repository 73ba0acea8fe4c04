--------------------------- MODULE MCUpdatePasswd ---------------------------
(* Instances of UpdatePasswd: every kind of update, of two names.          *)
EXTENDS UpdatePasswd

Call(k, n, v) == [kind |-> k, name |-> n, val |-> v, member |-> "m1"]

AllCalls ==
  {Call("add", "n1", "v2"), Call("add", "n2", "v1"), Call("chg", "n1", "v2"),
   Call("del", "n1", "v1"), Call("addmem", "n1", "v1"), Call("delmem", "n1", "v1"),
   Call("delall", "n2", "v1")}

TwoCalls == {Call("add", "n1", "v1"), Call("add", "n2", "v1")}

Empty == [n \in {} |-> n]
OneLine == [n \in {"n1"} |-> [val |-> "v1", mem |-> {}]]
TwoLines == [n \in {"n1", "n2"} |-> [val |-> "v1", mem |-> {"m1"}]]
Files == {Empty, OneLine, TwoLines}
=============================================================================
