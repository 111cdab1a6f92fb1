-------------------------- MODULE MCTerminalInput --------------------------
(* Instances of TerminalInput for TLC. *)
EXTENDS TerminalInput

W(kind, by, bytes) == [kind |-> kind, by |-> by, bytes |-> bytes, after |-> 0]
Enter(kind, by, text) == [kind |-> kind, by |-> by, bytes |-> 1, after |-> text]

L(writes, leave, giveUp) == [writes |-> writes, leave |-> leave, giveUp |-> giveUp]

MCLoads ==
  {L(<<W("input", "v", 2), W("input", "v", 0), W("remote input", "r", 2)>>, {"v"}, {1}),
   L(<<W("input", "v", 2), W("remote input", "r", 1), W("remote input", "r", 1)>>, {"r"}, {2}),
   L(<<W("input", "v", 1), W("command", "k", 2), W("reply", "t", 1)>>, {"v"}, {2}),
   L(<<W("input", "v", 1), W("input", "v", 1), W("reply", "t", 2)>>, {"v"}, {1}),
   L(<<W("remote picture", "r", 2), W("picture", "v", 1), W("input", "v", 1)>>, {"r"}, {}),
   L(<<W("message", "k", 1), Enter("message", "k", 1), W("input", "v", 1)>>, {}, {2}),
   L(<<W("message", "k", 1), Enter("message", "k", 1), W("remote input", "r", 1)>>, {"r"}, {}),
   L(<<W("message", "k", 1), Enter("message", "k", 1), W("picture", "v", 1)>>, {}, {}),
   L(<<W("remote message", "r", 1), Enter("remote message", "r", 1), W("run", "k", 2)>>, {"r"}, {3}),
   L(<<W("start", "k", 1), W("run", "k", 2), W("remote input", "r", 1)>>, {}, {})}

=============================================================================
