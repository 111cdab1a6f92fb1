----------------------------- MODULE MCRoomKeys -----------------------------
(* Instances of RoomKeys for TLC. *)
EXTENDS RoomKeys, TLC

CONSTANTS o, u, w, o1, o2, u1, u2, w1

MCOf(d) == CASE d \in {o1, o2} -> o [] d \in {u1, u2} -> u [] OTHER -> w

Load(members, devices, new, events) ==
  [members |-> members, devices |-> devices, new |-> new, events |-> events]

MCLoads == {
  \* Somebody leaves or is removed around posts.
  Load({o, u}, {o1, u1}, FALSE,
       {<<"post", o1, 1>>, <<"remove", u1, u>>, <<"post", o1, 2>>}),
  Load({o, u}, {o1, u1}, FALSE,
       {<<"post", u1, 1>>, <<"remove", o1, u>>, <<"lose", o1>>}),
  \* A new room: its first keys, an invitation, the same from two devices.
  Load({o}, {o1, u1}, TRUE,
       {<<"invite", o1, u>>, <<"accept", u>>, <<"reject", u1, u>>, <<"post", o1, 1>>}),
  Load({o}, {o1, o2}, TRUE,
       {<<"post", o1, 1>>, <<"post", o2, 1>>, <<"restart", o2>>}),
  \* Devices come and go, and the last one with keys may go.
  Load({o, u}, {o1, u1}, FALSE,
       {<<"link", o2>>}),
  Load({o, u}, {o1, o2, u1}, FALSE,
       {<<"unlink", o2>>, <<"post", u1, 1>>}),
  Load({o}, {o1}, FALSE,
       {<<"link", o2>>, <<"unlink", o1>>, <<"post", o2, 1>>}),
  \* Somebody starts fresh; an account is deleted.
  Load({o, u}, {o1, u1}, FALSE,
       {<<"reset", u>>, <<"link", u2>>, <<"trust", u>>}),
  Load({o, u}, {o1, u1}, FALSE,
       {<<"delete", u>>, <<"post", o1, 1>>, <<"remove", o1, u>>}),
  \* Three people.
  Load({o, u, w}, {o1, u1, w1}, FALSE,
       {<<"remove", u1, u>>, <<"post", w1, 1>>}),
  Load({o}, {o1, u1, w1}, FALSE,
       {<<"invite", o1, u>>, <<"accept", u>>, <<"invite", o1, w>>, <<"reject", w1, w>>}),
  \* A link and an answer are lost.
  Load({o, u}, {o1, u1}, FALSE,
       {<<"post", o1, 1>>, <<"post", u1, 1>>, <<"remove", u1, u>>, <<"cut", o1>>, <<"lose", o1>>})
}
=============================================================================
