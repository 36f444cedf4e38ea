----------------------------- MODULE MCGmCommand -----------------------------
(* The menu of commands for GmCommand: the operator's choice at each insertion. *)
EXTENDS GmCommand

Command(opr, target, valid, param, start, end) ==
  [opr |-> opr, target |-> target, passport |-> "p", valid |-> valid,
   param |-> param, start |-> start, end |-> end]

\* Set the authority now, or later and until an end.
AtOnce(a) == Command("set_gm_auth", "passport", TRUE, a, 0, 0)
Later     == Command("set_gm_auth", "passport", TRUE, 2, 2, 4)
Past      == Command("set_gm_auth", "passport", TRUE, 2, 1, 1)
Invalid   == Command("set_gm_auth", "passport", FALSE, 1, 0, 0)
Unknown   == Command("other", "passport", TRUE, 1, 0, 0)
Elsewhere == Command("set_gm_auth", "server", TRUE, 1, 0, 0)
Cancel(i) == Command("cancel_gm_command", "passport", TRUE, i, 0, 0)

FullMenu  == {AtOnce(1), Later, Past, Invalid, Unknown, Elsewhere, Cancel(1)}
OrderMenu == {AtOnce(1), Later}
=============================================================================
