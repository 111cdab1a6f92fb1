-------------------------- MODULE MCRemoteStream --------------------------
EXTENDS RemoteStream

Some(which) == [e \in Events |-> IF e \in DOMAIN which THEN which[e] ELSE 0]

MCLoads ==
  {Some([output |-> 4, resize |-> 1]),
   Some([output |-> 3, resize |-> 2]),
   Some([output |-> 2, resize |-> 1, refresh |-> 1]),
   Some([output |-> 2, resize |-> 1, timeout |-> 1]),
   Some([output |-> 2, resize |-> 1, relink |-> 1]),
   Some([output |-> 3, resize |-> 1, close |-> 1])}
=============================================================================
