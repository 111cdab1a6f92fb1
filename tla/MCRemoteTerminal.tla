------------------------- MODULE MCRemoteTerminal -------------------------
EXTENDS RemoteTerminal

CONSTANTS ana, ben,
          type1, type2, text1, tell1, tell2, ask1, focus1, blur1, focus2, join2, leave1

MCKind == (type1 :> "type") @@ (type2 :> "type") @@ (text1 :> "text") @@ (tell1 :> "tell")
          @@ (tell2 :> "tell") @@ (ask1 :> "ask") @@ (focus1 :> "focus") @@ (blur1 :> "blur")
          @@ (focus2 :> "focus") @@ (join2 :> "join") @@ (leave1 :> "leave")
MCFrom == [r \in DOMAIN MCKind |->
             CASE r \in {text1, tell1, tell2, ask1} -> NoView
               [] r \in {focus2, join2} -> ben
               [] OTHER -> ana]

Some(which) == [e \in Events |-> IF e \in DOMAIN which THEN which[e] ELSE 0]
Load(requests, views, events) == [requests |-> requests, views |-> views, events |-> Some(events)]

MCLoads ==
  {Load({type1, type2, tell1}, {ana}, [break |-> 1]),
   Load({type1}, {ana}, [break |-> 1, timeout |-> 1]),
   Load({type1, text1}, {ana}, [break |-> 1]),
   Load({type1, ask1}, {ana}, [break |-> 1]),
   Load({tell1, tell2}, {ana}, [break |-> 1, refuse |-> 1]),
   Load({focus1, blur1}, {ana}, [break |-> 1]),
   Load({focus1}, {ana}, [break |-> 1, timeout |-> 1]),
   Load({focus1, leave1}, {ana, ben}, [break |-> 1]),
   Load({join2, focus2}, {ana}, [break |-> 1]),
   Load({ask1}, {ana}, [see |-> 2]),
   Load({type1}, {ana}, [see |-> 2, fail |-> 1]),
   Load({type1}, {ana}, [break |-> 1, relink |-> 1, fail |-> 1]),
   Load({type1}, {ana}, [break |-> 1, offline |-> 1]),
   Load({ask1}, {ana}, [break |-> 2, timeout |-> 1]),
   Load({type1}, {ana}, [attach |-> 2, break |-> 1]),
   Load({type1}, {ana}, [block |-> 1, break |-> 1, attach |-> 2]),
   Load({tell1}, {ana}, [end |-> 1, break |-> 1])}

=============================================================================
