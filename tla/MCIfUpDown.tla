----------------------------- MODULE MCIfUpDown -----------------------------
(* Two interfaces: lo has one stanza; eth has two and is mapped, to itself *)
(* or to home, which has one stanza; there is no stanza for nowhere.       *)
EXTENDS IfUpDown

MCStanzas == [l \in Logicals |-> CASE l = "eth" -> 2 [] l = "nowhere" -> 0 [] OTHER -> 1]
MCMaps == [l \in Logicals |-> IF l = "eth" THEN {"eth", "home"} ELSE {}]

Cmd(up, force, todo) == [up |-> up, force |-> force, todo |-> todo]
All == <<<<"lo", "lo">>, <<"eth", "eth">>>>      \* -a
MCCommands ==
  {Cmd(TRUE, FALSE, All), Cmd(FALSE, FALSE, All),
   Cmd(TRUE, FALSE, <<<<"lo", "nowhere">>>>), Cmd(FALSE, TRUE, <<<<"eth", "eth">>>>),
   Cmd(TRUE, TRUE, <<<<"eth", "eth">>>>)}
=============================================================================
