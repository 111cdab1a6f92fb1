------------------------------ MODULE RoomKeys ------------------------------
(***************************************************************************)
(* The keys and the content of one room: the backend's rows                *)
(* (Missions/MissionContent.cs, MissionService.cs, DeviceService.cs,       *)
(* AccountService.cs) and the client on each device                        *)
(* (network/backend_client/rooms.rs, notifications.rs).                    *)
(*                                                                         *)
(* A device runs one operation at a time (BackendClient::operations), and  *)
(* every request of it is a step in which the other devices and people may *)
(* have changed the room.  A change of the room runs in a transaction that *)
(* holds the room's row, so it is one step.  That its device is approved   *)
(* is checked before: a request on its way ("commit", "commitItem") passed *)
(* that check, whatever happens to the device since.                       *)
(*                                                                         *)
(* The key of an epoch is random and sealed under the next one, so the     *)
(* model keeps no keys: a device has the keys up to the newest epoch that  *)
(* some key state it read is wrapped for it.  The backend is honest: the   *)
(* states that a device has are the first ones of the backend.             *)
(***************************************************************************)
EXTENDS Naturals, FiniteSets, Sequences

CONSTANTS
  User, Owner,      \* people; the one who made the room
  Device, Of(_),    \* devices, each with its person
  Loads             \* bound of the model: who is there and what may happen

ASSUME RoomAssumption ==
  /\ Owner \in User /\ IsFiniteSet(User) /\ IsFiniteSet(Device)
  /\ \A d \in Device : Of(d) \in User
  /\ \A load \in Loads : /\ Owner \in load.members /\ load.members \subseteq User
                         /\ load.devices \subseteq Device

VARIABLES
  list,       \* the signed device lists of a person, the last one current
  keyed,      \* RoomRecipientKeys: devices that registered their room key
  deleted,    \* people whose account was deleted
  trust,      \* the identity of a person that the owner trusts
  member,     \* Mission.OwnerUserId and MissionMembers
  invited,    \* MissionInvitations
  states,     \* MissionKeyStates, by version
  items,      \* MissionItems, by sequence
  dev,        \* the client of each device
  left        \* bound of the model: what may still happen

peopleVars == <<list, keyed, deleted, trust>>
roomVars == <<member, invited, states, items>>
vars == <<peopleVars, roomVars, dev, left>>

-----------------------------------------------------------------------------
(* People and devices *)

Current(u) == list[u][Len(list[u])]
Approved(d) == d \in Current(Of(d)).devices
DevicesAt(u, gen) == list[u][gen].devices
RootAt(u, gen) == list[u][gen].root

\* RoomMembership.PeopleOf with the invited.
People == member \cup invited

\* DeviceService.RequireRelationAsync: the owner and the others are friends.
Related(a, b) ==
  \/ a = b
  \/ {a, b} \cap deleted = {} /\ Owner \in {a, b}
  \/ {a, b} \subseteq People

\* DeviceService.IdentityAsync: the number of the current list, 0 for 404.
Bundle(a, u) ==
  IF Related(a, u) /\ Current(u).devices # {} THEN Len(list[u]) ELSE 0

\* BackendClient::trusted_member, for the owner.
Trusted(u) == u \notin deleted /\ Current(u).devices # {} /\ trust[u] = Current(u).root

\* MissionService.RecipientKeysAsync.
RoomKeysOf(u) == {d \in keyed : Of(d) = u /\ Approved(d)}

-----------------------------------------------------------------------------
(* What a device knows after it read the states up to a version *)

\* room_crypto::unwrap and open_previous: the newest epoch it has the key of.
TopKey(d, v) ==
  LET mine == {states[w].epoch : w \in {x \in 1..v : d \in states[x].recipients}}
  IN IF mine = {} THEN 0 ELSE CHOOSE e \in mine : \A f \in mine : f <= e

HasKey(d, v) == v > 0 /\ TopKey(d, v) >= states[v].epoch

\* The state that made the key of version v.
Opener(v) == CHOOSE w \in 1..v : /\ states[w].epoch = states[v].epoch
                                 /\ w = 1 \/ states[w - 1].epoch < states[w].epoch

\* Mutant of KeyMakerLeft: nobody looks who made the key.
KeyMakerLeftNever(v) == FALSE

\* CachedRoom::key_maker_left.
KeyMakerLeft(v) == v > 0 /\ states[Opener(v)].author \notin DOMAIN states[v].members

\* BackendClient::room_payload accepts an item.
Opens(d, v, n) ==
  LET item == items[n] IN
  /\ item.version <= v /\ item.epoch = states[item.version].epoch
  /\ Of(item.by) \in DOMAIN states[item.version].members
  /\ item.by \in DevicesAt(Of(item.by), states[item.version].members[Of(item.by)])
  /\ item.epoch <= TopKey(d, v)

-----------------------------------------------------------------------------
(* The client *)

NoState == [version |-> 0, author |-> Owner, epoch |-> 0, members |-> <<>>,
            recipients |-> {}]
NoOp == [kind |-> "none", at |-> "idle", who |-> Owner, then |-> "look", tries |-> 0,
         bundles |-> <<>>, keys |-> <<>>, out |-> {}, back |-> {}, body |-> NoState,
         page |-> [sequence |-> 0, version |-> 0, last |-> 0], wanted |-> {},
         again |-> 0, renewed |-> FALSE]

\* Nothing is cached, and the link is down or new.
Client(up) == [link |-> up, missions |-> up, wanted |-> {}, known |-> 0,
               checked |-> FALSE, loaded |-> FALSE, sequence |-> 0, got |-> {},
               op |-> NoOp]

Refreshing(d) == dev[d].op.kind \in {"refresh", "notice"}

\* Waiting::add for a room: a wanted sequence, 0 for any, the empty set for none.
Wants(old, new) ==
  IF 0 \in old \cup new THEN {0}
  ELSE {n \in old \cup new : \A m \in old \cup new : m <= n}

\* ConnectionDirectory.Notify to the devices that are connected.
Told(clients, people, missions, wanted) ==
  [d \in Device |->
     IF clients[d].link /\ Of(d) \in people
     THEN [clients[d] EXCEPT !.missions = @ \/ missions, !.wanted = Wants(@, wanted)]
     ELSE clients[d]]

\* RoomMembership.NotifyRoomsOfAsync.
ToldOf(clients, u) == IF u \in member THEN Told(clients, member, TRUE, {}) ELSE clients

Ended(c) == [c EXCEPT !.op = NoOp]

\* BackendClient::forget_room.
Forgotten(c) == [Ended(c) EXCEPT !.known = 0, !.checked = FALSE, !.loaded = FALSE,
                                 !.sequence = 0, !.got = {}]

\* A 403 or 404 on the way: a refresh forgets the room, a command fails.
Missing(c) == IF c.op.kind \in {"refresh", "notice"} THEN Forgotten(c) ELSE Ended(c)

\* An error that refresh_waiting tries again: what it was told stays waiting.
Retried(c) ==
  CASE c.op.kind = "refresh" ->
         [Ended(c) EXCEPT !.missions = TRUE, !.wanted = Wants(@, c.op.wanted)]
    [] c.op.kind = "notice" -> [Ended(c) EXCEPT !.wanted = Wants(@, c.op.wanted)]
    [] OTHER -> Ended(c)

\* After refresh_room_keys: sync_room of a refresh, or what room_command does.
KeysReady(c) ==
  CASE c.op.kind = "notice" /\ c.loaded /\ ~(\E n \in c.op.wanted : n = 0 \/ n > c.sequence)
         -> Ended(c)
    [] c.op.kind = "post" /\ c.loaded -> [c EXCEPT !.op.at = "write"]
    [] OTHER -> [c EXCEPT !.op.at = "page"]

\* The start of refresh_room_keys without force: members_checked lasts a while.
StartUnforced(c, op, fresh) ==
  LET started == [c EXCEPT !.op = [op EXCEPT !.at = "keys"]]
  IN IF fresh /\ ~KeyMakerLeft(c.known) THEN KeysReady(started) ELSE started

-----------------------------------------------------------------------------
(* Taking content *)

\* Content::take of what was read, up to the first item that does not open.
\* What was read is merged when the room is loaded (RoomCache::merge), and
\* else becomes its content (BackendClient::load_room).
Taken(c, d, v) ==
  LET page == c.op.page
      from == IF c.loaded THEN c.sequence ELSE 0
      good == {n \in (from + 1)..page.last : \A m \in (from + 1)..n : Opens(d, v, m)}
      all == good = (from + 1)..page.last
      next == IF c.op.kind = "post" THEN [c EXCEPT !.op.at = "write"] ELSE Ended(c)
  IN CASE c.loaded /\ all -> [next EXCEPT !.got = @ \cup good, !.sequence = page.last]
       [] c.loaded /\ ~all -> [Ended(c) EXCEPT !.got = @ \cup good]
       [] ~c.loaded /\ all -> [next EXCEPT !.loaded = TRUE, !.got = good,
                                           !.sequence = page.sequence]
       [] OTHER -> Ended(c)

\* Mutant of Absorbed: the item that was written counts as the newest one.
AbsorbedAny(c, n) ==
  IF c.loaded THEN [c EXCEPT !.got = @ \cup {n}, !.sequence = n] ELSE c

\* RoomCache::absorb of the item that this device wrote, which it can open.
Absorbed(c, n) ==
  IF c.loaded /\ n = c.sequence + 1
  THEN [c EXCEPT !.got = @ \cup {n}, !.sequence = n]
  ELSE c

-----------------------------------------------------------------------------
(* The next state of the keys: BackendClient::next_room_state *)

\* The change that a command makes: who comes and who goes.
Adds(op) == IF op.kind = "invite" THEN {op.who} ELSE {}
Removes(op) == IF op.kind \in {"remove", "reject"} THEN {op.who} ELSE {}

\* BackendClient::room_standing: what is known of each person of the last state.
\* Answers are kept for the next attempt (Lookups), a 404 is not.
Answers(d, op, last) ==
  [u \in DOMAIN last.members |->
     IF u \in DOMAIN op.bundles THEN op.bundles[u] ELSE Bundle(Of(d), u)]

Replaced(answers, last) ==
  {u \in DOMAIN answers : \/ answers[u] = 0
                          \/ RootAt(u, answers[u]) # RootAt(u, last.members[u])}

\* Mutant of Returned: the owner takes every new identity.
ReturnedAll(d, op, replaced) ==
  IF Of(d) = Owner THEN {u \in replaced \ Removes(op) : Current(u).devices # {}} ELSE {}

\* The owner takes the new identity of people it trusts.
Returned(d, op, replaced) ==
  IF Of(d) = Owner THEN {u \in replaced \ Removes(op) : Trusted(u)} ELSE {}

\* An older list than the one of the last state does not replace it.
Standing(answers, last, replaced) ==
  [u \in DOMAIN answers |->
     IF u \in replaced \/ answers[u] < last.members[u] THEN last.members[u] ELSE answers[u]]

\* BackendClient::room_recipients, from the keys that were read.
Recipients(members, out, keys) ==
  UNION {keys[u] \cap DevicesAt(u, members[u]) : u \in DOMAIN members \ out}

\* Mutant of Rotates: a device that leaves makes no new epoch.
RotatesForPeople(op, last, recipients, v) ==
  Removes(op) # {} \/ op.back # {} \/ KeyMakerLeft(v)

Rotates(op, last, recipients, v) ==
  \/ Removes(op) # {} \/ op.back # {} \/ KeyMakerLeft(v)
  \/ last.recipients \ recipients # {}

Changes(op, last, recipients, v) ==
  \/ Adds(op) # {} \/ Rotates(op, last, recipients, v) \/ recipients # last.recipients

NextState(d, op, last, recipients, v) ==
  [version |-> v + 1, author |-> Of(d), members |-> op.body.members,
   recipients |-> recipients,
   epoch |-> IF Rotates(op, last, recipients, v) THEN last.epoch + 1 ELSE last.epoch]

-----------------------------------------------------------------------------
(* The backend's transactions *)

\* MissionService.AppendKeysAsync: the checks of a new state, with the people
\* that the transaction leaves in the room.
Appends(state, people) ==
  LET last == states[Len(states)]
      gone == DOMAIN last.members \ DOMAIN state.members
      come == DOMAIN state.members \ DOMAIN last.members
  IN /\ state.version = Len(states) + 1
     /\ DOMAIN state.members = people
     /\ IF states = <<>> THEN state.author = Owner /\ state.epoch = 1
        ELSE /\ state.epoch \in last.epoch..(last.epoch + 1)
             /\ state.author = Owner \/ (come = {} /\ gone \subseteq {state.author})
             /\ gone # {} => state.epoch = last.epoch + 1
     /\ \A d \in state.recipients : Of(d) \in DOMAIN state.members

\* What a request does to the members and the invitations.
MembersAfter(op) == IF op.kind = "remove" THEN member \ {op.who} ELSE member
InvitedAfter(op) ==
  IF op.kind = "invite" THEN invited \cup {op.who} ELSE invited \ Removes(op)

\* RequireMemberForUpdateAsync and the checks of the request.  The owner invites
\* friends, and a deleted account is nobody's friend.
Allowed(d, op) ==
  CASE op.kind = "invite" -> Of(d) = Owner /\ op.who \notin deleted
    [] op.kind = "reject" -> Of(d) = op.who /\ op.who \in invited
    [] op.kind = "remove" -> Of(d) \in member /\ op.who # Owner /\ Of(d) \in {Owner, op.who}
    [] OTHER -> Of(d) \in member

\* The request that changes the keys, with what it says to whom afterwards.
KeysResult(d, op) ==
  IF ~Allowed(d, op) THEN "missing"
  ELSE IF op.kind = "invite" /\ op.who \in People THEN "ok"
  ELSE IF op.body.recipients = {} THEN "invalid"
  ELSE IF Appends(op.body, MembersAfter(op) \cup InvitedAfter(op)) THEN "ok"
  ELSE "conflict"

\* The room after it: the answered client, and who is told.
KeysStored(d, op, clients) ==
  IF KeysResult(d, op) = "ok" /\ ~(op.kind = "invite" /\ op.who \in People)
  THEN /\ states' = Append(states, op.body)
       /\ member' = MembersAfter(op) /\ invited' = InvitedAfter(op)
       /\ dev' = IF op.kind \in {"invite", "remove", "reject"}
                 THEN Told(clients, member' \cup {op.who}, TRUE, {})
                 ELSE Told(clients, member, FALSE, {0})
       /\ UNCHANGED <<items, peopleVars>>
  ELSE dev' = clients /\ UNCHANGED <<roomVars, peopleVars>>

\* MissionService.PutContentAsync.
ItemResult(d, op) ==
  IF Of(d) \notin member THEN "missing"
  ELSE IF op.body.version = Len(states) /\ op.body.epoch = states[Len(states)].epoch THEN "ok"
  ELSE "conflict"

ItemStored(d, op, clients) ==
  IF ItemResult(d, op) = "ok"
  THEN /\ items' = Append(items, [by |-> d, version |-> op.body.version,
                                  epoch |-> op.body.epoch])
       /\ dev' = Told(clients, member, FALSE, {Len(items')})
       /\ UNCHANGED <<member, invited, states, peopleVars>>
  ELSE dev' = clients /\ UNCHANGED <<roomVars, peopleVars>>

-----------------------------------------------------------------------------
(* The steps of an operation *)

Busy(d, at) == dev[d].op.at = at /\ Approved(d)
Becomes(d, c) == dev' = [dev EXCEPT ![d] = c] /\ UNCHANGED <<peopleVars, roomVars, left>>

\* The same for "rooms": refresh_room without force.
Notice(d) ==
  LET c == [dev[d] EXCEPT !.wanted = {}]
      op == [NoOp EXCEPT !.kind = "notice", !.wanted = dev[d].wanted] IN
  /\ Busy(d, "idle") /\ dev[d].link /\ d \in keyed
  /\ ~dev[d].missions /\ dev[d].wanted # {}
  /\ \E fresh \in {c.checked, FALSE} : Becomes(d, StartUnforced(c, op, fresh))

\* BackendClient::room_keys: the states that are new, and who asked for them.
\* Without any state the owner makes the first one.
AfterKeys(c, d, v) ==
  LET ready == HasKey(d, v) /\ Of(d) \in DOMAIN states[v].members IN
  CASE c.op.then = "mark" -> KeysReady([c EXCEPT !.checked = TRUE])
    [] c.op.then = "take" -> Taken(c, d, v)
    [] c.op.then = "write" -> [c EXCEPT !.op.at = "write"]
    [] c.op.then = "look" /\ c.op.kind \in {"invite", "remove", "reject"} ->
         IF HasKey(d, v) THEN [c EXCEPT !.op.at = "standing"] ELSE Ended(c)
    [] OTHER -> IF ready THEN [c EXCEPT !.op.at = "standing"] ELSE KeysReady(c)

KeysRead(c, d) ==
  LET v == Len(states)
      made == c.op.body.version = 1
      op == IF made THEN [c.op EXCEPT !.tries = 0, !.body = NoState] ELSE c.op
  IN CASE Of(d) \notin People -> Missing(c)
       [] Of(d) \in People /\ v = 0 ->
            IF Of(d) # Owner \/ c.op.tries = 3 THEN Ended(c) ELSE [c EXCEPT !.op.at = "first"]
       [] OTHER -> AfterKeys([c EXCEPT !.known = v, !.op = op], d, v)

ReadKeys(d) == Busy(d, "keys") /\ Becomes(d, KeysRead(dev[d], d))

\* BackendClient::refresh_waiting for "missions": a room that is listed or
\* cached is refreshed with force.
Refresh(d) ==
  LET c == [dev[d] EXCEPT !.missions = FALSE, !.wanted = {}]
      op == [NoOp EXCEPT !.kind = "refresh", !.at = "keys", !.wanted = dev[d].wanted] IN
  /\ Busy(d, "idle") /\ dev[d].link /\ d \in keyed /\ dev[d].missions
  /\ Becomes(d, IF Of(d) \in member \/ c.known > 0
                THEN KeysRead([c EXCEPT !.op = op], d)
                ELSE c)

\* BackendClient::initialize_room up to its request.
First(d) ==
  LET members == [u \in People |-> Len(list[u])]
      body == [version |-> 1, author |-> Owner, epoch |-> 1, members |-> members,
               recipients |-> Recipients(members, {}, [u \in People |-> RoomKeysOf(u)])]
  IN /\ Busy(d, "first")
     /\ Becomes(d, IF \A u \in People : Trusted(u)
                   THEN [dev[d] EXCEPT !.op.at = "commit", !.op.body = body]
                   ELSE Ended(dev[d]))

\* next_room_state up to the identities of the people.
ReadStanding(d) ==
  LET c == dev[d] last == states[c.known]
      answers == Answers(d, c.op, last)
      replaced == Replaced(answers, last)
      back == Returned(d, c.op, replaced)
      stale == Of(d) \notin replaced /\ answers[Of(d)] < last.members[Of(d)]
      standing == Standing(answers, last, replaced)
      kept == (DOMAIN standing \cup Adds(c.op)) \ Removes(c.op)
      members == [u \in kept |-> IF u \in back \cup Adds(c.op) THEN Len(list[u])
                                 ELSE standing[u]]
  IN /\ Busy(d, "standing")
     /\ Becomes(d, IF stale \/ \E u \in Adds(c.op) : ~Trusted(u) THEN Ended(c)
                   ELSE [c EXCEPT !.op.at = "recipients",
                                  !.op.bundles = [u \in {w \in DOMAIN answers : answers[w] > 0}
                                                    |-> answers[u]],
                                  !.op.out = replaced \ back, !.op.back = back,
                                  !.op.body.members = members])

\* The rest of next_room_state.
ReadRecipients(d) ==
  LET c == dev[d] last == states[c.known]
      asked == DOMAIN c.op.body.members \ c.op.out
      keys == [u \in asked \cup DOMAIN c.op.keys |->
                 IF u \in DOMAIN c.op.keys THEN c.op.keys[u] ELSE RoomKeysOf(u)]
      recipients == Recipients(c.op.body.members, c.op.out, keys)
      body == NextState(d, c.op, last, recipients, c.known)
  IN /\ Busy(d, "recipients")
     /\ Becomes(d, IF \E u \in asked \ DOMAIN c.op.keys : ~Related(Of(d), u) THEN Missing(c)
                   ELSE IF Changes(c.op, last, recipients, c.known)
                   THEN [c EXCEPT !.op.at = "commit", !.op.keys = keys, !.op.body = body]
                   ELSE KeysReady([c EXCEPT !.checked = TRUE]))

\* The answer of the request: the rest of refresh_room_keys, or of a command.
Answered(c, result) ==
  LET op == c.op
      first == op.body.version = 1
      command == op.kind \in {"invite", "remove", "reject"}
  IN CASE result = "missing" -> Missing(c)
       [] result = "invalid" -> Ended(c)
       [] result = "ok" /\ ~first ->
            IF command THEN Ended(c) ELSE [c EXCEPT !.op.at = "keys", !.op.then = "mark"]
       [] result = "conflict" /\ ~first /\ (command \/ op.tries >= 2) -> Retried(c)
       [] OTHER -> [c EXCEPT !.op.at = "keys", !.op.then = "look", !.op.tries = @ + 1]

CommitKeys(d) ==
  /\ dev[d].op.at = "commit"
  /\ KeysStored(d, dev[d].op,
                [dev EXCEPT ![d] = Answered(@, KeysResult(d, dev[d].op))])
  /\ UNCHANGED left

\* MissionService.ContentAsync reads the room, and then its items.
Page(d) ==
  LET c == dev[d] IN
  /\ Busy(d, "page")
  /\ Becomes(d, IF Of(d) \notin member THEN Missing(c)
                ELSE [c EXCEPT !.op.at = "items",
                               !.op.page = [sequence |-> Len(items),
                                            version |-> Len(states), last |-> 0]])

Items(d) ==
  LET c == [dev[d] EXCEPT !.op.page.last = Len(items)] IN
  /\ Busy(d, "items")
  /\ Becomes(d, IF c.op.page.version > c.known
                THEN [c EXCEPT !.op.at = "keys", !.op.then = "take"]
                ELSE Taken(c, d, c.known))

\* BackendClient::writing_key and the start of put_room_item.  A key whose
\* maker left is replaced first.
MayWrite(d, v) == HasKey(d, v) /\ ~KeyMakerLeft(v)

Write(d) ==
  LET c == dev[d] v == c.known IN
  /\ Busy(d, "write")
  /\ Becomes(d, IF KeyMakerLeft(v) /\ ~c.op.renewed
                THEN [c EXCEPT !.op.at = "keys", !.op.then = "look", !.op.renewed = TRUE,
                               !.op.tries = 0, !.op.bundles = <<>>, !.op.keys = <<>>]
                ELSE IF MayWrite(d, v) /\ v > c.op.again
                THEN [c EXCEPT !.op.at = "commitItem", !.op.body.version = v,
                               !.op.body.epoch = states[v].epoch]
                ELSE Ended(c))

\* The rest of room_write: a conflict is tried once more with newer keys.
ItemAnswered(c, result) ==
  CASE result = "ok" -> Ended(Absorbed(c, Len(items) + 1))
    [] result = "conflict" /\ c.op.again = 0 ->
         [c EXCEPT !.op.at = "keys", !.op.then = "write", !.op.renewed = FALSE,
                   !.op.again = c.op.body.version]
    [] OTHER -> Ended(c)

CommitItem(d) ==
  /\ dev[d].op.at = "commitItem"
  /\ ItemStored(d, dev[d].op,
                [dev EXCEPT ![d] = ItemAnswered(@, ItemResult(d, dev[d].op))])
  /\ UNCHANGED left

-----------------------------------------------------------------------------
(* What people do, and what fails *)

Spend(event) == event \in left /\ left' = left \ {event}
Starts(d, op) == /\ dev' = [dev EXCEPT ![d].op = op]
                 /\ UNCHANGED <<peopleVars, roomVars>>

\* room_command with Action::Post.
Post(d, m) ==
  /\ Busy(d, "idle") /\ d \in keyed /\ Of(d) \in member
  /\ Spend(<<"post", d, m>>)
  /\ \E fresh \in {dev[d].checked, FALSE} :
       dev' = [dev EXCEPT ![d] = StartUnforced(@, [NoOp EXCEPT !.kind = "post"], fresh)]
  /\ UNCHANGED <<peopleVars, roomVars>>

\* The commands mission.invite, mission.removeMember, mission.leave and
\* mission.invitation.reject.
Command(d, kind, u) ==
  /\ Busy(d, "idle") /\ d \in keyed
  /\ Spend(<<kind, d, u>>)
  /\ CASE kind = "invite" -> Of(d) = Owner /\ u \notin deleted
       [] kind = "remove" -> Of(d) \in member /\ u # Owner /\ Of(d) \in {Owner, u}
       [] kind = "reject" -> Of(d) = u /\ u \in invited
  /\ Starts(d, [NoOp EXCEPT !.kind = kind, !.at = "keys", !.who = u])

\* MissionService.ResolveInvitationAsync, accepting.
Accept(u) ==
  /\ u \in invited /\ Current(u).devices # {}
  /\ Spend(<<"accept", u>>)
  /\ invited' = invited \ {u} /\ member' = member \cup {u}
  /\ dev' = Told(dev, member', TRUE, {})
  /\ UNCHANGED <<states, items, peopleVars>>

\* MissionService.RegisterRoomKeyAsync, before a device follows its rooms.
Register(d) ==
  /\ Busy(d, "idle") /\ dev[d].link /\ d \notin keyed
  /\ keyed' = keyed \cup {d}
  /\ dev' = ToldOf(dev, Of(d))
  /\ UNCHANGED <<list, deleted, trust, roomVars, left>>

NewList(u, root, devices) == list' = [list EXCEPT ![u] = Append(@, [root |-> root,
                                                                    devices |-> devices])]

\* EnrollAsync and ApproveLinkAsync: a new device.
Link(d) ==
  LET who == Of(d) IN
  /\ who \notin deleted /\ \A n \in 1..Len(list[who]) : d \notin DevicesAt(who, n)
  /\ Spend(<<"link", d>>)
  /\ NewList(who, Current(who).root, Current(who).devices \cup {d})
  /\ dev' = [dev EXCEPT ![d] = Client(TRUE)]
  /\ UNCHANGED <<keyed, deleted, trust, roomVars>>

\* DeviceService.ReplaceListAsync: a person removes a device.
Unlink(d) ==
  LET who == Of(d) IN
  /\ Approved(d) /\ Current(who).devices # {d} /\ Spend(<<"unlink", d>>)
  /\ NewList(who, Current(who).root, Current(who).devices \ {d})
  /\ dev' = ToldOf([dev EXCEPT ![d].link = FALSE], who)
  /\ UNCHANGED <<keyed, deleted, trust, roomVars>>

\* DeviceService.ResetIdentityAsync: a person starts fresh.
Unlinked(u) == [d \in Device |-> [dev[d] EXCEPT !.link = @ /\ Of(d) # u]]
Reset(u) ==
  /\ u \notin deleted /\ Spend(<<"reset", u>>)
  /\ NewList(u, Current(u).root + 1, {})
  /\ dev' = ToldOf(Unlinked(u), u)
  /\ UNCHANGED <<keyed, deleted, trust, roomVars>>

\* friends.identity.trust of the owner.
Trust(u) ==
  /\ Current(u).devices # {} /\ Spend(<<"trust", u>>)
  /\ trust' = [trust EXCEPT ![u] = Current(u).root]
  /\ UNCHANGED <<list, keyed, deleted, roomVars, dev>>

\* AccountService.DeleteAsync: the person leaves the room without a new state.
\* The account of the owner, with which the room goes, is not deleted here.
Delete(u) ==
  /\ u \notin deleted \cup {Owner} /\ Spend(<<"delete", u>>)
  /\ deleted' = deleted \cup {u}
  /\ NewList(u, Current(u).root, {})
  /\ member' = member \ {u} /\ invited' = invited \ {u}
  /\ dev' = IF u \in People THEN Told(Unlinked(u), People \ {u}, TRUE, {}) ELSE Unlinked(u)
  /\ UNCHANGED <<keyed, trust, states, items>>

\* A request of a device that is no longer approved is refused: it signs out.
Refused(d) ==
  /\ ~Approved(d) /\ dev[d].op.at \notin {"idle", "commit", "commitItem"}
  /\ Becomes(d, Client(FALSE))

\* A request gets no answer: it was lost, or the backend did it.
Unanswered(d) ==
  LET clients == [dev EXCEPT ![d] = Retried(@)] op == dev[d].op IN
  /\ op.at \notin {"idle", "write"} /\ Spend(<<"lose", d>>)
  /\ \/ dev' = clients /\ UNCHANGED <<peopleVars, roomVars>>
     \/ op.at = "commit" /\ KeysStored(d, op, clients)
     \/ op.at = "commitItem" /\ ItemStored(d, op, clients)

\* The link of a device breaks, and with it the refresh that runs.
Cut(d) ==
  LET c == [dev[d] EXCEPT !.link = FALSE, !.missions = FALSE, !.wanted = {}] IN
  /\ dev[d].link /\ Spend(<<"cut", d>>)
  /\ dev' = [dev EXCEPT ![d] = IF Refreshing(d) THEN Ended(c) ELSE c]
  /\ UNCHANGED <<peopleVars, roomVars>>

\* Kodosi starts again on a device: the cache is empty.
Restart(d) ==
  /\ Approved(d) /\ Spend(<<"restart", d>>)
  /\ dev' = [dev EXCEPT ![d] = Client(FALSE)]
  /\ UNCHANGED <<peopleVars, roomVars>>

\* link::run: after it connects, a device is told of everything.
Reconnect(d) ==
  /\ Approved(d) /\ ~dev[d].link
  /\ Becomes(d, [dev[d] EXCEPT !.link = TRUE, !.missions = TRUE])

-----------------------------------------------------------------------------

Steps(d) ==
  \/ Refresh(d) \/ Notice(d) \/ ReadKeys(d) \/ First(d) \/ ReadStanding(d)
  \/ ReadRecipients(d) \/ CommitKeys(d) \/ Page(d) \/ Items(d)
  \/ Write(d) \/ CommitItem(d)
  \/ Register(d) \/ Reconnect(d) \/ Refused(d)

Fault(d) == Unanswered(d) \/ Cut(d) \/ Restart(d)

Acts ==
  \/ \E d \in Device : Link(d) \/ Unlink(d) \/ Fault(d)
  \/ \E d \in Device, m \in 1..2 : Post(d, m)
  \/ \E d \in Device, u \in User, kind \in {"invite", "remove", "reject"} : Command(d, kind, u)
  \/ \E u \in User : Accept(u) \/ Reset(u) \/ Trust(u) \/ Delete(u)

Next == Acts \/ \E d \in Device : Steps(d)

\* A load: people of the room, devices that are linked, whether the room has
\* its first keys yet (and the devices have read them), and the events that
\* may happen.
Init ==
  \E load \in Loads :
    LET linked(u) == {d \in load.devices : Of(d) = u}
        members == [u \in load.members |-> 1]
        recipients == {d \in load.devices : Of(d) \in load.members}
    IN /\ list = [u \in User |-> <<[root |-> 1, devices |-> linked(u)]>>]
       /\ keyed = load.devices /\ deleted = {} /\ trust = [u \in User |-> 1]
       /\ member = load.members /\ invited = {} /\ items = <<>>
       /\ states = IF load.new THEN <<>>
                   ELSE <<[version |-> 1, author |-> Owner, epoch |-> 1,
                           members |-> members, recipients |-> recipients]>>
       /\ dev = [d \in Device |->
                   IF load.new \/ d \notin recipients THEN Client(d \in load.devices)
                   ELSE [Client(TRUE) EXCEPT !.missions = FALSE, !.known = 1,
                                             !.checked = TRUE, !.loaded = TRUE]]
       /\ left = load.events

Spec == Init /\ [][Next]_vars

\* Devices go on with their operations, connect again and look at what they
\* were told.  That some device does is enough: each has finitely much to do.
FairSpec == Spec /\ WF_vars(\E d \in Device : Steps(d))

-----------------------------------------------------------------------------
(* Properties *)

\* The rows are a room: its states are numbered, name people that were there
\* and lists that they had, and no device is ahead of the backend.  What waits
\* for a room is one number (Waiting::add), and a refresh tries three times.
TypeOK ==
  /\ keyed \subseteq Device /\ deleted \subseteq User
  /\ Owner \in member /\ member \subseteq User /\ invited \subseteq User \ member
  /\ \A v \in 1..Len(states) :
       /\ states[v].version = v /\ states[v].author \in User /\ states[v].epoch \in 1..v
       /\ DOMAIN states[v].members \subseteq User
       /\ \A u \in DOMAIN states[v].members : states[v].members[u] \in 1..Len(list[u])
       /\ states[v].recipients \subseteq Device
  /\ \A d \in Device :
       /\ dev[d].known \in 0..Len(states)
       /\ dev[d].sequence \in 0..Len(items) /\ dev[d].got \subseteq 1..Len(items)
       /\ Cardinality(dev[d].wanted) <= 1 /\ dev[d].op.tries \in 0..3

\* Whoever was given, or made, the key of a version up to then.
Holders(v) ==
  {u \in User : \E w \in Opener(v)..v : u = states[w].author
                                     \/ \E d \in states[w].recipients : Of(d) = u}

\* What is posted is never readable by someone outside the room: whoever was
\* given the key that it is sealed with, or made that key, is of the room when
\* the backend stores it.  Somebody who leaves makes the next key, so a device
\* must not write with it (writing_key, key_maker_left), and one that has not
\* heard of a removal must be refused (PutContentAsync).  A deleted account
\* leaves its key behind.
OutsidersShut ==
  [][\A n \in Len(items) + 1..Len(items') :
       Holders(items'[n].version) \subseteq People \cup deleted]_vars

\* Every device of the room can check what is stored: the state that an item
\* names has its epoch, and lists the device that signed it (room_payload).
\* A device that is new, or whose list is newer than the state, would post
\* what everybody refuses.
Verifiable ==
  \A n \in 1..Len(items) :
    LET item == items[n] last == states[item.version] IN
    /\ item.epoch = last.epoch /\ Of(item.by) \in DOMAIN last.members
    /\ item.by \in DevicesAt(Of(item.by), last.members[Of(item.by)])

\* The devices of a person who started fresh get no key before the owner
\* trusts the new identity, whoever makes the state and from whatever answers
\* it kept (room_standing, trusted_member).
NewIdentityWaits ==
  \A v \in 1..Len(states) :
    \A d \in states[v].recipients :
      LET who == Of(d) IN
      /\ who \in DOMAIN states[v].members
      /\ d \in DevicesAt(who, states[v].members[who])
      /\ RootAt(who, states[v].members[who]) <= trust[who]

\* A device that counts its content up to a sequence has every item up to it:
\* an item of its own is counted only when it is the next one (absorb), and a
\* page that was read in two parts counts no item it does not have.
NoGap ==
  \A d \in Device : dev[d].loaded => 1..dev[d].sequence \subseteq dev[d].got

\* A device that the room waits for: registered, of a member with the identity
\* it came with.
Follows(d) ==
  Approved(d) /\ d \in keyed /\ Of(d) \in member /\ RootAt(Of(d), 1) = Current(Of(d)).root

\* Somebody can make the next state, and no account was deleted (then every
\* later state is refused until the owner removes that person).
Held ==
  /\ deleted = {}
  /\ \E d \in Device : Follows(d) /\ HasKey(d, Len(states))

\* Every device of a member gets the key of the room in the end, whatever was
\* lost on the way, as long as some device of the room has it.
KeysArrive == <>[](Held => \A d \in Device : Follows(d) => HasKey(d, Len(states)))

\* A device that its person removed, or that a new identity replaced, is shut
\* out in the end: it is no recipient of any state of the current epoch.
RemovedOut ==
  <>[](Held => \A v \in Opener(Len(states))..Len(states) :
                 \A d \in states[v].recipients : Of(d) \in member => Approved(d))

\* Every device of a member has the whole content in the end.
ContentArrives ==
  <>[](Held => \A d \in Device : Follows(d) => dev[d].loaded /\ dev[d].sequence = Len(items))

\* The key states give each key to devices that may have it, and let everybody
\* check what was posted under them.
KeysRight == TypeOK /\ Verifiable /\ NewIdentityWaits

\* Keys and content reach everybody in the room in the end, and nobody whose
\* device was removed.
RoomArrives == KeysArrive /\ RemovedOut /\ ContentArrives

=============================================================================
