# Kodosi: TLA+ specifications

These modules specify the parts of Kodosi in which several tasks, several views or a
crash decide what a person sees: the stream, size, focus and input of a terminal, its views
on another computer, the saving and the views of a live document, the backend's directory of
connections, and the keys of a room. TLC checks them on small instances; TLAPS proves most of
their safety properties, and that the views of a document implement their abstract
specification, for every value of the constants (section 6). `PROJECT.json`
names every run, the source lines behind each definition and the hazards the properties are
aimed at; section 7 lists the places where the code does not do what a document, a comment or
a test says.

    tlc -workers 2 -config stream_order.cfg MCTerminalStream     # one run
    tlapm TerminalStreamProofs.tla                               # the proofs

Paths below are relative to `src/`; `session.rs`, `subscribers.rs` and `remote.rs` are in
`runtime/src/terminal/`, `server.rs` in `runtime/src/local_host/`, `task.rs` and
`journal.rs` in `documents/crates/documents/src/`, `live.rs` in
`documents/crates/document/src/`, `client.ts` and `outbox.ts` in
`documents/views/client/src/`, `host.rs` and `participant.rs` in
`runtime/src/network/terminal_connections/`, `rooms.rs` and `notifications.rs` in
`runtime/src/network/backend_client/`, C# files in `backend/src/Kodosi.Host/`.

## 1. The system and its parts

Kodosi runs a host process on each computer. It owns terminals, documents and browsers;
clients on the same computer attach views to them over a local socket, and devices of
the same or of other people attach over a backend that relays encrypted channels.

| Part | State it keeps | Operations | Interacts with |
|---|---|---|---|
| Terminal actor (`LocalActor`, session.rs) | emulator, output sequence, subscribers, focus, owner and requests of the size, input queue | output, resize, focus, subscribe, checkpoint, input, upkeep, stop | emulator thread, pseudoterminal, views through bounded channels, runtime through requests |
| Subscribers and Subscription (subscribers.rs) | per view: data and control queue, `behind`; pending resizes, refresh, close | `data`, `control`, `refresh`, `close`; `recv`, `refresh` | actor on one side, view task on the other |
| View task (`serve_terminal`, server.rs) | wish for a refresh, retry timer, refresh in flight | write frames, read frames of the client, refresh | Subscription, runtime, client socket |
| Runtime core (runtime.rs, runtime/) | terminals, connections, jobs and their completions | commands, restore, messages | every actor |
| Remote terminal (remote.rs) | link state, control in flight, buffered output, waiters | connect, lose, pause, wake, replay, stop | channel, views |
| Channels (network/terminal_connections, wire, crypto) | handshake, keys, pacing | open, send, receive, close | backend, remote terminal, actor |
| Live document task (task.rs) | document, file copy and stamp, journal, timers, pipes | batch of commands, save, seal, look at file, finish | file system, views, other programs |
| Journal (journal.rs) | original, records | start, find, record, saved, sync, remove | file system |
| Document (live.rs) | model, log, revs, saved states, seats and sequence numbers | join, change, save, saved, file_changed, restore | format crates |
| Document view (documents/views/client) | outbox, last sequence number, local state | attach, join, send, catch up | document task |
| Document formats | parsed files | apply, compare, write | document |
| Identity, rooms, dosi (runtime/src) | pins, signed device lists, room keys, receipts | pin, verify, rotate, act | backend, people |
| Browser and canvas | pages, viewers, flow control | frames, acks | engine, views |
| Backend (C#) | connection directory, leases, presence, accounts, devices, friends, missions | authorize, open, revoke, host, hide | runtimes |
| Operating system layer, command line, clients, sign-in | little | input and output | the rest |

What makes each part hard, and what makes it correct:

* **Terminal stream.** Two queues and a refresh future per view are merged by a task that
  another thread feeds; any queue may be full; the terminal may close at any moment.
  Correct: a view shows exactly what the host showed, each frame drawn at the size the host
  had; a view that lost frames comes back; every stream ends; buffering is bounded.
* **Size and focus.** Views leave without a word while requests are handled; resizes fail
  half way. Correct: program, emulator and owner agree on the size; a size is given back to
  the view that had it before; the program is told the focus that is true.
* **Live document.** A crash between any two disk operations, saves that fail, other
  programs that write the same file from an old copy. Correct: a change is on disk before a
  view hears of it, a restart builds the same document, the file ends up with every change,
  merges lose nobody's edits, a sealed change leaves no trace.
* **Document client.** Batches are sent again after a lost link. Correct: each batch applies
  exactly once.
* **Remote terminal.** A control is in flight when its link is lost. Correct: at most once
  effect, every waiter answered.
* **Terminal input.** Writes of several views, cancelled ones among them, share one queue
  with a budget. Correct: no byte of a cancelled write is credited to another one.
* **Backend directory.** Access is checked, a pipe opened, and revoked meanwhile. Correct:
  no pipe stays open for somebody whose access was revoked.
* **Rooms and identity.** People and devices come and go while several devices make the next
  key from what each of them last read. Correct: nobody outside reads what is posted, everybody
  inside reads and can check all of it in the end, a pinned generation never goes back.

## 2. Plan

Done:

| Module | Part | Run |
|---|---|---|
| `TerminalStream`, `TerminalStreamProofs` | output to the views of this computer | `stream_order`, `stream_live` |
| `TerminalSize`, `TerminalSizeProofs` | size and focus | `size_order`, `size_live` |
| `TerminalInput`, `TerminalInputProofs` | input queue, budget, messages and the typing guard | `input` |
| `RemoteTerminal` | requests to a terminal of another computer, its link, pausing and waking | `remote` |
| `RemoteStream`, `RemoteStreamProofs` | output of such a terminal: window, keyframes, replay | `remote_stream` |
| `DocumentJournal`, `DocumentJournalProofs` | saving, journal, crashes, other programs | `journal_safe`, `journal_live` |
| `SharedOrder` | abstract specification of a shared document | (used by `sync`) |
| `DocumentSync`, `DocumentSyncProofs` | views of a document, which implement `SharedOrder` | `sync` |
| `ConnectionDirectory`, `ConnectionDirectoryProofs` | connections, hosts, pipes and presence in the backend | `directory` |
| `RoomKeys`, `RoomKeysProofs` | key states and content of a room, on devices and in the backend | `rooms` |

Each `MC` module gives its specification the loads of its run. No module that is to be proved about
uses a RECURSIVE operator.

Left, in this order:

1. Proofs: `RequestsSafe` and `StaysUnsent` of `RemoteTerminal`.
2. The pins of identity, the receipts of dosi, the flow control of the shared browser, the lease of a
   connection, restore and the message store of the runtime.

## 3. TerminalStream

The actor and the tasks of the views run on different threads of one executor. One action
is one handler of the actor, or one step of a view task up to the next point where the
actor can come in between.

| State | Code |
|---|---|
| `phase`, `sequence`, `screen`, `diverged` | run loop, `sequence` and emulator of `LocalActor`, `ResizeError::Diverged` |
| `entry`, `behind`, `data`, `control` | `Subscribers::entries`, `Subscriber::behind`, the two channels of a view |
| `state`, `next`, `resizes`, `closing` | a `Subscription`: whether it exists, `next_sequence`, `resizes`, `closing` |
| `polled` | `recv` is between the two branches of its select: control was not ready, data comes next |
| `shown` | what the view has shown: the frames that `recv` returned |
| `want`, `retry`, `stage`, `cut` | `refresh_wanted`, the retry timer, the refresh future and `Subscription::refresh` |

| Actions | Code |
|---|---|
| `ApplyOutput` with `SendData` | `apply_output`, `Subscribers::data` |
| `ApplyResize`, `ResizeDiverges` with `Deliver`, `Feed` | `apply_resize`, `publish_size`, `Subscribers::control`, `Subscriber::deliver` |
| `Subscribe`, `Unsubscribe`, `Maintain`, `CaptureFor`, `RefuseCapture` | the requests and `maintain`, `Subscribers::refresh`, `capture_for` |
| `Stop`, `Close` | end of the run loop, `Subscribers::close` |
| `ReadyCut`, `ReadyResize`, `ReadyClose` | `Subscription::ready` |
| `TakeResize`, `TakeSnapshot`, `TakeClosed`, `TakeControlEnd` | first branch of the select in `recv` |
| `PollData`, `TakeData`, `TakeDataEnd`, `Park` | the second branch |
| `WantRefresh`, `AskRefresh`, `FinishRefresh`, `RetryDue`, `Leave` | the loop of `serve_terminal` |

*Abstraction.* What a terminal shows is its size and, for each frame of output, the size at
which the frame was drawn. That is enough to tell a lost, doubled, reordered or wrongly sized
frame from a right one; bytes, titles, status and context are left out.

*Runs.*

* `stream_order` (one view, two sizes, queues of two, two pending resizes, four frames):
  `TypeOK`, `Faithful`, `Settled`, `OvertakenStops`, `ClosedShowsAll`. Queues of two are the
  least that can hold a frame and its successor, so they can be empty, part full and full;
  four frames fill a queue, lose one and go on after the snapshot. The two sizes are
  interchangeable, hence the symmetry. One view is enough for TLC because views share only
  the limit on their number; the theorems hold for any number.
* `stream_live` (one refreshing view, queues of one, two frames): `OutputReachesViews`,
  `EveryViewEnds`, `RefreshResolves`. Every second frame or resize meets a full queue.

*Fairness.* `Maintain`: the timer of the run loop fires at least every 250 ms and its tick
stays ready. `Close`: termination has timeouts. `Recv`: a ready task is polled, its client
reads. Answers to a checkpoint request: given, or the reply is dropped, which counts as a
refusal. `AskRefresh`, `FinishRefresh`, `RetryDue` are strongly fair because the select of
`serve_terminal` is biased and looks at the refresh before each poll of `recv`; they are
disabled only for the moment between the two polls. Nothing makes a person write, resize,
refresh, subscribe or leave.

## 4. TerminalSize

`LocalActor` handles one request at a time, but the token of a view can be cancelled by
another thread between two reads of it. `live` holds the tokens; where a handler reads one
twice, the action has an alternative in which the view has gone in between.

| State | Code |
|---|---|
| `fresh`, `live` | connections yet to come; tokens that are not cancelled |
| `focused`, `asked`, `turn`, `owner` | `focused`, `requested` and `taken_turn`, `resize_owner` |
| `size`, `pty` | sizes of emulator and pseudoterminal |
| `reports`, `told` | focus reports in the input queue, what the program read last |
| `since`, `denied`, `missed`, `lost` | history for the properties |

`Resize`, `Focus`, `Blur`, `Leave`, `Maintain` are the requests and `maintain` with the whole
of `set_focus`, `take_requested_size`, `apply_resize` (accepted, rejected or diverged),
`give_size_back` and `release`; `PassReport` is the writer of the input queue; `Connect`,
`Cancel` and `Stop` are the environment. Pixel sizes travel with the size and are left out.

*Runs.* `size_order` (three views of this computer, one size, three turns) checks
`FocusSetsSize` and `GivesBackInOrder`: with three views one leaves and two compete; views are
interchangeable. `size_live` (one view here, one of another computer, two sizes, two turns, two
reports) checks `TypeOK`, `OwnerHasItsSize`, `FocusReleased` and, under fairness of `Maintain`
and `PassReport`, `GoneViewsLoseAll`. The bound on turns limits how often the size changes
hands, not how often views come, go, focus or blur. `ReportRoom` stands for the budget of the input
queue, so that a report may not fit. `missed`, `denied` and `lost` mark the cases that section 7
describes, and the properties leave them out.

## 5. DocumentJournal

The content of a file is a set of edits; a change adds or takes away one, which keeps the
property the code relies on (a change "holds on any later state"). The task's work is split at
each disk operation, so that a crash or another program can come in between: append
(`Take`, `Look`), sync (`Hear`), rename (`Rename`), stamp and journal (`Written`), removal and
start of a journal (`SealRemove`, `SealStart`), removal at a close (`Closed`).

| State | Code |
|---|---|
| `file`, `journal`, `synced` | the disk; `synced` is the part of the journal that a crash leaves |
| `pc`, `then` | where the task is, and what `save` returns to |
| `doc` | `Document`: model, original, first rev, rev, log, saved rev, saved states, save_waits |
| `cache`, `noticed`, `attached` | `Task::disk`, whether `Task::stamp` is that of the file, whether the records file is still in the folder |
| `due`, `retry`, `sealing` | `first_unsaved`, `retry_at`, `sealing` |
| `base`, `from` | what the other program read and last started from |
| `touched`, `heard`, `shown` | history for the properties |

`StateAt` is the state that `save` names: as many changes of the log as the journal held at the saved
rev. `Replay` runs the records of a journal over its original, `OfKind` picks its changes or its saves,
and both are recursive functions, so that the proofs can reason about them.

`Nearest` is `nearest_changes`: it compares the new file with each saved state and takes the
oldest of the most similar. `Restored` is `Journal::find` with `Document::restore`. `Faults`
names the operations that may fail: `"append"` (append or sync), `"write"` (replacing the file),
`"format"` (building its bytes), `"start"` (starting a journal), `"remove"` (a crash in the middle
of a removal).

*Runs.*

* `journal_safe` (two edits, one sealing; one outside edit; batches of two; four changes; three
  saved states; one crash; faults `write` and `format`): `TypeOK`, `SafeBeforeHeard`,
  `RestartBuildsSame`, `FileTrue` (`FileHoldsAll` and `SavedMeansOnDisk`), `LateWriteMerges`. Four changes fill
  the list of saved states and drop one. The journal is not allowed to become long here
  (`MostJournal` is 9): see "a long journal" in section 7. About 1.4 million states.
* `journal_live` (one sealing edit, one outside edit, journal long after one record, one crash,
  faults `write`, `start`, `remove`): `SavesComplete`.

*Fairness.* The task goes on while it is open (weak fairness of its internal steps). Timers that
have fired stay ready in a select that polls in random order, and a save that is tried again and
again succeeds some time because the program that holds the file lets go of it: strong fairness of
`SaveDue`, `Look`, `LookGone`, `Rename`, `Written`. `SavesComplete` does not hold when the
bytes cannot be built, which sets a retry only once (section 7), so `"format"` is not among the faults
of that run.

*Left out.* Half-written files (write_whole renames, the journal syncs); two writes with the same
stamp; a journal that cannot be read; assets; seats, places and sequence numbers; the check of the
metadata before the rename is one step with it; a look at the file is one step; another program saves
only with an edit of its own.

### 5.1 TerminalInput

`queue` is `LocalActor::queue`, `free` its `input_budget`, `mail` the two bounded mailboxes (clients of
this computer and the backend's host task), `flight` the write of the Windows transfer thread, `saving`
the pictures being written to files, `typing` whether `typed_at` is recent, `at` the place of the run
loop between its upkeep and its select. A write is a number of bytes; `pty` is the sequence of
<<write, byte>> the program got. `Offer`, `GiveUp`, `Cancel` are callers and views; `CommandArm`,
`HostArm`, `SavedArm`, `TransferWrote`, `TransferDone`, `TransferRead` are the arms of the select with
the whole of their handler; `HandOver` and `ThreadWrites` are the pseudoterminal (kodosi-pty), which on
Windows finishes a write after the actor went on. What the program and its agent do is arbitrary.

`input` has ten loads (input, pictures, messages with their Enter, start lines and replies of the
terminal, of a view here and of one on another computer), a budget of three bytes and mailboxes of one,
so that budget and mailbox are full in most of them; on Unix and on Windows, with a program that reads
and one that does not. It checks `InputWhole` (`TypeOK` with the budget, `StaysWhole`, `InOrder`,
`LateOnce`), `AnswersTrue` (`AnswerTrue`, `TextStays`) and `InputProgress` (`CancelledLeaves`,
`Answered`).

*Fairness.* The select takes each arm that stays ready in turn, and the upkeep timer stays ready: the
arms are strongly fair because another arm may run before them. Writes to the program are fair only when the
program reads. *Assumption:* the pause before Enter and the time in the mailbox together are shorter
than TYPING, which holds for messages of this computer; section 7 says what happens for others. *Left
out:* focus and size (`TerminalSize`), the digests of known pictures, interrupts.

### 5.2 RemoteTerminal

`actor[a]` is a `RemoteActor` (link, mailbox, queue, held requests, control in flight, subscribers, focus
confirmed), `conns[k]` a connection with its Viewer and the host's end of it, `changes` the messages of
actors to the runtime, `rt` what the runtime keeps of the terminal (shown, offline, retry, connecting),
`answer`, `arrived` and `issued` what callers heard, what the host took and what was asked. Each handler
of the actor (mailbox, viewer updates, finished control, timers, end) is an action; pausing is two steps
because the actor tells the runtime before it looks at its mailbox a last time; the runtime's handling of
each change, the opening of a connection and its outcomes, and what the network does are others.

`remote` has 17 loads of requests, views and events (links break, connections fail, are refused or
blocked, clients come and go, the computer goes offline, the terminal ends, callers time out); capacity
two, two actors, three connections; numbers that nothing refers to are used again. It checks
`RequestsSafe` (`TypeOK`, `AtMostOnce`, `UnsentNotSent`, `InOrder`, `FocusTrue`), `StaysUnsent`,
`LinkReturns` (`ComesBack`, `FocusReaches`) and `AllAnswered` (`Answered`, `WorkWakes`). Capacity two lets a
request meet an empty, a part full and a full buffer.

*Fairness.* Actors and their timers, connections (a dead one is found dead by its heartbeat), and the
runtime go on. Nothing makes a link hold; events are bounded instead. *Assumption:* a retry, which waits
two seconds, takes longer than an actor takes to read its mailbox. *Left out:* resizes, pictures,
documents over pipes, the bound on unconfirmed input, the growing delay of retries, other incarnations
of the terminal.

### 5.3 RemoteStream

`term` is what the terminal shows (as in `TerminalStream`: its size and the size at which each frame was
drawn), `buf` and `lagged` the broadcast channel, `st` the `Stream` of one viewer in host.rs (live,
keyframe parts still to send, frames that wait for the window, capture in flight with its mark, whether an
exact keyframe is owed, draining), `wire`, `acks` the channel, `viewer` the Viewer of participant.rs, `ups`
the bounded updates to the actor, `act` `RemoteActor::update`, `view` what its views show.

`remote_stream` has six loads of at most five outputs and resizes with a refresh, a capture that times
out, a lost link or a close; two sizes, broadcast and window of two frames, keyframes of two parts, one
update waiting. Four outputs overflow a window of two and the broadcast behind it. It checks
`ViewFaithful` (`TypeOK`, `InOrder`, `Faithful`), `ViewSettled` (`Settled`, `EndComplete`) and
`ViewCatchesUp` (`CatchesUp`, `ExactAtLast`).

*Fairness.* The host's loop, its timers for a capture after the close and for the exact keyframe, the
Viewer, its acknowledgements and the actor go on. *Left out:* the clock of keyframes and of pacing (the
window is a constant), metadata, pictures, pipes, heartbeats. Two error branches of the actor (a checkpoint
ahead of it without Resync, and a hole without a lag) are unreachable, since the Viewer sends Resync
before each later checkpoint.

### 5.4 SharedOrder and DocumentSync

`SharedOrder` is what a live document promises: one order of changes that grows at its end, and views
that were given a beginning of it that only gets longer. `DocumentSync` has `doc` (epoch, first rev, rev,
`history`, sequence number of each client, seats of pipes), the pipes in both directions, `view` (client.ts
with outbox.ts and its editor) and `risk`, which marks the three ways in which a client gives up the fate
of a batch: it joins by a snapshot with unanswered edits, it sends a batch again before it joined, or a
move removes a whole batch before its answer (section 7). `Receive` is the document task with `Document::join`, `change` and
`leave`; `Handle` the page; `CloseCell` the person who leaves a cell editor; `Attach`, `Dropped` the host; losing a link, a crash, a new journal, another
opening, an outside write and an invalid batch are events. The refinement maps the order to
`doc.history` and what a view was given to `view[c].seen`; `OneOrder` says that `DocumentSync` implements
`SharedOrder`.

The editors are the ones with an `Outbox`: sheets, presentations, PDFs. A sheet does two things more with a
change of others (xlsx/src/index.ts:765). While the person's cell editor is open, a change that touches its
cell waits, and every later one of others behind it: these are in `view[c].held`, `Pulls` gives no batch
meanwhile (`batch`, :547), and `CloseCell` shows them and pulls (:388). A change that removes lines goes
through `Outbox.move`: `Shown` removes the unanswered edits on them from `sent` and `queued`, by choice any
of them, and keeps them in `removed`. Whether a change touches anything is a choice too (`Touches`), which
`left.touches` bounds; that the editor is open is not kept, since a person may open it at any time. Edits
that a move only shifts stay the same edit.

`ExactlyOnce` says that an edit of a client without `risk` is in the document once, or still in the outbox,
or in `removed`; it was not in the document when it was removed, or went there with the batch on its way.
`ViewShowsAll` leaves out what waits and what was removed. A client that awaits an answer may hold no batch
only with `risk` (`TypeOK`).

`sync` has three budgets, five pipes at most: two views with two edits and one event; one view with two
edits, two events and one touch; two views on links that hold, with two edits and two touches. Two events
are the least in which a link is lost while the view is still recovering, and, with one touch, in which an
outside write removes an edit whose link is lost; two touches are the least in which one change waits and
another removes edits. It checks `EditsKept` (`TypeOK`, `ExactlyOnce`, `ViewShowsAll`, `PeersTrue`), `OneOrder` and `AllArrives`
(`EditsArrive`, `ChangesReach`).

*Fairness.* The task takes what a pipe carries, the page handles what arrives, the host opens a new pipe
while the page is open, and nobody leaves a cell editor with changes that wait open for ever. The last one
is about the person and only `EditsArrive` needs it, for sheets: nothing is sent while changes wait (:549),
and the client pulls again when the editor closes (:389-393). An editor that stays open with nothing that
waits holds up no batch. `ChangesReach` is about what the client was given, which an open editor does not
delay. *Assumption:* packing a frame ends before its link is replaced. *Left out:* places, queries, people,
assets, saved and closed notices, the text editor with its own merge.

*A seat ends a little earlier than in the code.* `run_effects` (task.rs:293) drops a pipe once the whole
batch of at most 64 commands was stepped, and `Leave` in the step itself. Only a second join of a pipe that
joined, which is a view that loads again after an invalid batch, can be followed by more frames of that
pipe in the same batch. The document may apply a change among them whose answer no view reads, as when the
link is lost with the answer on it. The view asked with rev 0 and joins by a snapshot next, which marks it
in `risk` if it has unanswered edits; so nothing that is checked tells the two apart.

### 5.5 ConnectionDirectory

`dir` is the directory as a record of its dictionaries and indexes; a method is one step up to its
unlock, what it sends afterwards waits in `late`, and each await of a connection's task (`pc`, `arg`), of a
request that changes access (`task`), of a hide (`hide`) and of the announcer (`waiting`, `announcing`) is
a point where others run. `shared`, `ended`, `revoked`, `hidden` are the database; `hostSees`, `viewSees`,
`hostsTold`, `told` what devices and people were told; `lapsed` marks a failure that cut off the second
half of a request, which section 7 describes.

`directory` has eight loads: a revocation with a viewer, a removed device, the limits, a stop, presence, a
hide, calls to a computer that connects again. A pipe identity is used once. It checks `DirectoryRight`
(`TypeOK`, `Indexed`, `EndsKnow`), `AccessKept` (`NoPipeWithoutAccess`, `NoRevokedDevice`) and
`PresenceKnown` (`HostsKnown`, `PresenceTrue`, `OnlineNotHidden`). It has no fairness: these are safety
properties, with "or the step that will put it right is still to run" spelled out. It may stop, since
connections and requests are used once.

*Left out:* the lease that renews a connection, failures of an announcement that are not the database's,
a device that opens its own terminal through the backend.

### 5.6 RoomKeys

`list`, `keyed`, `deleted`, `trust` are people and their signed device lists; `member`, `invited`, `states`,
`items` the rows of one room; `dev[d]` the client of each device (what it read, the operation under way,
what it wants next). A device runs one operation at a time and each request of it is one step; a
transaction of the backend is one step; that a device is approved is checked before it. A key is its epoch:
a device has the keys up to the newest epoch that a state it read is wrapped for it.

`rooms` has twelve loads with up to three people and five devices: people who leave or are removed around
posts, a new room, devices that come and go, a person who starts fresh, a deleted account, answers and
links that are lost. It checks `KeysRight` (`TypeOK`, `Verifiable`, `NewIdentityWaits`), `NoGap`,
`OutsidersShut` and `RoomArrives` (`KeysArrive`, `RemovedOut`, `ContentArrives`).

*Fairness.* Devices go on with what they want, connect again, and look at what they were told. The
liveness properties speak of rooms in which some device has the key and no account was deleted (`Held`).
*Left out:* a dishonest backend (the chain of hashes and the heads file detect one), the trimming of
history, tasks, repositories and issues, recovery keys, the deletion of a room.

## 6. What is proved

Eight modules hold proofs. They cover 21 of the 22 safety invariants that the runs check, and six of the
action properties and refinements. Except where a theorem names a hypothesis, the only assumptions are
the ones that the modules state about their constants (which TLC evaluates in every run): any number of
views, devices, people and pipes, any limits that are at least one, any load.

### 6.1 TerminalStream

`TerminalStreamProofs` proves, from `StreamAssumption` only (capacities and limits at least one,
some size, refreshing views are views), for any set of views and sizes and any amount of output:

| Theorem | Statement |
|---|---|
| `TypeCorrect` | `Spec => []TypeOK`, the bounds of all queues included |
| `ViewsFaithful` | `Spec => []Faithful` |
| `ViewsSettle` | `Spec => []Settled` |
| `OvertakenViewsStop` | `Spec => OvertakenStops` |
| `ClosedViewsShowAll` | `Spec => ClosedShowsAll` |

None of the last four is inductive: each speaks of what a view has shown, and a step that shows
something takes it from a queue. The inductive invariant is
`StreamInv == HostInv /\ \A v \in View : ViewInv(v)`. `HostInv` says that the screen of the host has
one drawn size per frame and that a closed terminal feeds nobody. `ViewInv(v)` says that a stream
that is over has empty queues and, of an open view without refreshes in a terminal that did not
diverge (`StreamOK`), that it shows the host's past or has an overtaken frame, never the latter between the
two polls, and that what waits for it is right. With `Pending(v)` the pending resizes followed by the
control queue, right means `PendingOK`:

* `Ordered`: the frames stand at non-decreasing places in the output;
* `SizesRight`: a frame of output that is still to come was drawn by the host at the size that the
  view will have when it gets there, following its pending frames (`SizeAtEnd` at the end);
* `SnapshotsRight`: a pending snapshot agrees with the host's past up to its place;
* `CloseLast`: nothing is placed after the close;

and for a view that is not behind, that its data, its place or a pending snapshot reaches the end of
the output (`Reaches`) and that its size is the host's once nothing is pending. The lemmas follow the code: one for appending a frame to the
pending ones (`AppendPending`, used by every send of the actor), one for consuming the first
(`ConsumePending`, used by every step of `recv`), one for growing the host's output (`GrowHost`),
and one per action. Views with refreshes are outside these four theorems, because the code does not
keep the properties for them (the first two entries of section 7).

### 6.2 TerminalSize

`TypeCorrect`, `OwnerHasItsSizeAlways`, `FocusSetsSizeAlways`, `FocusReleasedAlways` and
`GivesBackInOrderAlways` state the properties of the two runs. The first three are inductive together, since
every handler finishes what it begins. Two parts of `SizeInv` are not checked properties:

* `TurnOrder`: a view that is there has a later turn than every view that did not take the size since it
  did. `GivesBackInOrder` is about the past (`since`), the code compares numbers (`taken_turn`); this part
  says that they agree. The numbers of any set of views have a bound, and so `Latest` is a maximum.
* `FocusHeard`: with no view in focus the last report, if any waits, says so and belongs to nobody. A
  report belongs to a view and is thrown away with it, so it matters that this one is not.

### 6.3 DocumentSync

`ImplementsSharedOrder` is `Spec => OneOrder`: initial states map to initial states, and every step of
document, pipes and views is a step of `SharedOrder` or a stutter. A step is one only if what arrives at a
view continues what it was given, so `SyncInv` is about the frames on the way: those to the current pipe of
a view are a `Chain` over the history, each taking the view from where the one before it left it. A rev is
no place in the history, because a document that is opened again counts from 0; `ViewRight` and `Chain` use
a rev only with the epoch it was said in, and `Before` is where an epoch begins. For a seated pipe the
chain reaches the end of the history (`ChainToEnd`), which is what makes the next change continue it; a
pipe that waits for its join has that join first, with the epoch and rev that its view still has.

`EditsKeptAlways` is `Spec => []EditsKept`. Its inductive invariant is `SyncInv /\ EditInv /\ Tidy /\
PeersInv`; the hypothesis of `EditsKept` on `risk` is the only one, and it holds for any number of touches.
`EditInv` has three parts per client:

* `Lawful`, of every client: at most one of its pipes is joined (`Alone`), the first frame of a pipe and no
  other tells the view that it joined (`Entered`), and no change of this epoch has a number above the one
  the document knows for its author (`Counted`).
* `Kept`, of a client without `risk`. A change is `Live` on a pipe while the document would not ignore it. At
  most one is (`LiveOnce`), it carries what the client still holds of its batch, with edits at most that
  were removed since, and then the view was given every change of the client (`LiveSent`). A change that
  the view was not given yet is that batch and the only one (`OnePending`); so each edit is in one change,
  or in the outbox, or removed (`HeldOnce`). The hard part is a link that is
  replaced while an old pipe still carries the batch: the new pipe waits behind its join, and `Behind` and
  `NextLive` say that what two pipes carry has the same next number, so that the document ignores whichever
  comes second. `Awaited` and `Settled` say that an answer on its way is the one the client waits for, and
  that a view which joined and waits for nothing knows the fate of its batches; `Early` is why sending
  before the join was answered is safe with nothing else on the way; `SeqKnown` says that
  the number from which a client counts on is not above the one that the document knows.
* `ShownRight`, of the same clients: the editor shows the changes that it was given and that do not wait,
  and the outbox, but for removed edits. `Sound` is `Kept` with it.

A view that is given changes applies them one by one, and each may answer its batch, wait, or remove some of
its edits. `Fits` is what any number of them leaves of the outbox, proved without looking at the order in
which that happens (`AppliedAllFits`), and `GivenRead` carries `Sound` over it. A move keeps `Kept` while
something of a batch that was sent is left of it (`Pruned`, `PrunedKeeps`). When nothing is left, the
document may still take the batch, and the client has nothing that its answer would clear; this is where
`risk` is needed.

`PeersInv` says of every other client that joined that the view has it among its peers once it handled the
frames on the way (`Knows`: a frame brings the peer, and none after it drops it). Each event that changes
several things at once is split into lemmas about what the others see of it (`Apart`, `Elsewhere`): a step of
one client leaves the invariant of another because it touches neither its pipes nor its changes.

### 6.4 ConnectionDirectory

`DirectoryRightAlways`, `AccessKeptAlways`, `PresenceKnownAlways`. `DirInv` follows the life of a pipe
identity: unused, asked for, open in every index, closed, never used again. `Well` says that the indexes
name exactly the pipes there are and that the counts under the limits are theirs; `EndsRight` adds to
`EndsKnow` that a notice in `late` is about a pipe that is gone, so that it may come as late as it likes;
`TasksRight` and `RequestsFormed` say what a connection's task or a request keeps over its awaits;
`AccessRight` names, for a pipe whose viewer lost access, the check or the revocation that will find it,
and `RevokedRight` the same for a removed device. `HiddenRight` and `PresenceRight` tighten the run's
properties the same way, since a hide, a show and an announcement are several steps each.

### 6.5 RoomKeys

`KeysRightAlways`, `NoGapAlways`, `OutsidersShutAlways`. `RoomInv` has the rows of the backend and what each
device holds. The rows: of two states of one epoch the later has everybody of the earlier (`Follow`),
the author of a state that keeps the epoch is one of its members, trust in an identity only grows. The
devices: a request under way was built from a state that may be old by now (`NextRight`, `SealRight`).
It is right for *that* state; the backend takes it only if the state is still the last one, or, for an
item, of the same epoch, and `Follow` carries it over. `OutsidersShut` is an action property and
follows from `SealRight` at the moment an item is stored.

### 6.6 DocumentJournal

`JournalTypeAlways` and `SafeBeforeHeardAlways` assume `Steady`, that `Faults` has nothing but `"write"` and
`"format"`: files may fail to be built or replaced, the host may crash and other programs may write at
any point, but an append or sync that returns has worked, a new journal can be started, and the removal
of a folder is not torn. Without it they are false, as section 7 says; `journal_safe.cfg` satisfies it.
`RestartBuildsSameAlways`, `FileTrueAlways` and `LateWriteMergesAlways` also assume `Short`, that the
journal never gets long (`MostJournal` at least twice `MaxRev`, the number of changes and saves there can
be), because of "a long journal" in section 7; `journal_safe.cfg` satisfies that too.

`JournalInv` is `TypeOK` with its details (`Typed`), `Shaped` and `SafeBeforeHeard`. A crash leaves any
beginning of the records that has the synced ones, so `Shaped` says of *every* beginning that it is right
(`AllRight`): its changes count on from the first rev, its last save names a rev that is there, and it has
no more saves than revs saved, which bounds the journal. The document agrees with the journal
(`Matches`) except while there is none. `SameInv` adds that the model is the replay of the log
over the original, and that the file holds the model whenever a new journal is about to start.

`FileTrueAlways` has to rule out that a look takes a write of another program for a state that was saved
before, and so changes nothing although the file is not the document. It cannot: what other programs
wrote (`Ours`: their edits in the original and the log) is never removed by the task, is in the file and
in whatever a program read of it (`Known`), so a new write of theirs has an edit that no saved state has
(`Fresh`, `StateOurs`), and its merge has a change to save (`NearestOurs`). While nobody wrote, the file is the
document whenever no rev waits (`OnDisk`), and what views saw last when there is no journal (`Left`).

`LateWriteMergesAlways` rests on `EditInv`. People's edits in the file, and in what another program read
of it, are in the document, and would be after a crash at any point (`Kept`, `Durable`: they are in the replay of
every beginning of the journal that a crash may leave), because every change is synced before the next save and a merge
takes out only what the file lacks. So the merge of a late write brings everything that it started from. It brings the one
edit that was added and removes nothing: the saved state that it started from is one edit away, so the
state that `Nearest` chooses is too (`NearestStart`), and as that edit is in no saved state the distance
is that edit, whichever state it is (`NearestToLate`).

### 6.7 RemoteStream

`ViewFaithfulHolds` and `ViewSettledHolds` are the two invariants of the run, for any sizes, bounds and
loads. A *place* is the number of frames of output shown and the size, or "waits for a snapshot"; each
frame or update is a `Step` from one place to another, or is out of order, and `Path` says that a queue
leads from a place to a place. `WayRight` lays three paths end to end: the updates from where the views are,
the wire from there, what waits in the Stream from there. `LogRight` says that the broadcast, read from any
point, leads to where the terminal is (`Marked`), and `Follows` ties the two: a live Stream that missed
nothing stands at a place of that log. Each step takes a frame off one path and puts what it becomes on
the next.

Three cases need more. The barrier of a capture that timed out may come late, after the frames that it
should have come before were read; so `Follows` lets the size differ from that of the log as long as a
resize at this very place is still to come (`SizeComes`), and `Barred` says where a snapshot meets the log
while its barrier is on the way. A keyframe in parts counts for nothing until its last part. And the end of
a terminal that closed is the last frame (`EndsRight`), whether the Viewer has a snapshot or not. The count
of the window is a sum over two queues (`Total`); the lemmas say what appending and removing do to it.

### 6.8 TerminalInput

`InputHolds` and `AnswersHold` state `InputWhole` and `AnswersTrue` for any views, writes and limits. A
write is in one place at a time: a mailbox, `saving`, `start`, the queue, or none. `IInv` says what is
true of it there.

* `Through(p, w, n)`: the program has the first `n` bytes of `w` and no others of it. `Reaches` adds
  that the next byte may follow: nothing came between, and nothing that its view typed later. A write in the queue
  reaches the offset where it stands (`QueueRight`), one that waits elsewhere reaches 0 and comes after
  all of the queue (`AsideRight`, `Precedes`); so whichever is next, its bytes join the ones that are there.
* The Windows thread is the exception: between its write and the report to the actor the program has more than the
  queue says. `FlightRight` says how much, and that the write is still the first of the queue, which is what
  `drop_cancelled_input` takes care of. When the actor ends first, the queue is gone and the caller was not
  told "ok".
* `AnswerRight` is `AnswerTrue` in terms of `Through`; `BudgetRight` the sum of `TypeOK`, where a write costs
  the number of its bytes (`Cost` counts <<write, byte>> pairs, so that a union of disjoint sets costs the sum).
* `LateOnce` needs that after `pending_input` no cancelled write is first (`LateRight`), `TextStays` that Enter in
  whose pause a person typed is in no queue, and not in a mailbox once `typing` ended (`TypedRight`).

The parts take the state they are about as arguments. A step is a chain of lemmas about `Core`, each of
which does one thing: a write leaves its mailbox (`CoreTakes`), joins the queue (`CoreAppends`), leaves it
(`CoreLeaves`), gets bytes (`CoreGrows`), its caller is told (`CoreTold`).

### 6.9 Method, and what is only model-checked

Induction over data is done with the library's fact that `<` on the naturals is well-founded: the numbers
up to `n` of which something holds are a set, and a least number outside it leads to a contradiction
(`UpTo`, `LeastNatural`). Recursion in these modules is written as recursive functions, and sets of positions
take the place of `SelectSeq`, and a recursive function (`Total` in `RemoteStream`, `Staying` in
`TerminalInput`) that of a fold or a filter.

Only model-checked:

* every liveness property: the prover has neither fairness nor ENABLED;
* `RequestsSafe` and `StaysUnsent` of `RemoteTerminal`, whose queues are counted and filtered with operators
  that take an operator (`SelectSeq`, `FoldLeft`), which the provers cannot expand.

## 7. Where the code and its promises differ

Each of these was met while modelling. The properties of the runs leave these cases out by name (a
history variable, an exception, or a fault that the run does not have), so that they show what the code
does keep; stating the sentence without the exception gives a counterexample.

Terminal streams:

* server.rs:356: a checkpoint that arrives after newer output was shown ends the view's stream
  (`terminal refresh snapshot regressed`, subscribers.rs:118). A failed refresh was to be tried again
  (server.rs:358).
* subscribers.rs:117: a refresh captured before a resize at the same place in the output is shown
  after it and undoes it; docs/ARCHITECTURE.md:48 promises ordered updates.
* subscribers.rs:104: snapshot and output sent between the two polls of `recv` end the stream of the
  view they were to bring back; the test at subscribers_tests.rs:29 says that such a view stays open.
* subscribers.rs:71: a view that waits for output while more resizes come than it may keep ends with
  an error instead of falling behind.
* subscribers.rs:346: with a full control queue the close is lost, and `recv` ends on the lost sender
  before it reads the output it was sent.

Size, focus and input:

* session.rs:1033: a size offered to a view that is leaving is offered to nobody else.
  docs/ARCHITECTURE.md:72: "the focused view whose size the terminal had before sets it again".
* session.rs:962: the report of a first focus is dropped with its view although another view has the
  focus by then; the program is never told.
* session.rs:1754: with a full input queue the focus of a view of another computer fails with Busy,
  which ends the terminal; a view of this computer only gets an error.
* runtime.rs:840: a message of another computer waits on its link longer than TYPING, so its Enter
  may follow what a person typed in between; the comment at runtime.rs:827 says that the text stays.
* docs/ARCHITECTURE.md:111: that nobody types is checked when a message is accepted, not when it is
  written.

Live document:

* task.rs:187: an outside write that a restart finds is never merged, because `start` already took its
  stamp (task.rs:115, :447). docs/ARCHITECTURE.md:145: "An outside write merges by comparing it with the
  last saved state."
* task.rs:336: the task forgets `sealing` before the save, so a crash or a failed save leaves a sealed
  change in the journal. live.rs:88: "A change must leave no trace".
* task.rs:431: `Journal::start` removes the old journal first; when it fails the task goes on recording
  in a file that no restart finds, against task.rs:291 (`journal_safe.cfg` with `Faults = {"start"}`
  and `MostJournal = 4`: `SafeBeforeHeard`).
* task.rs:376: a save replaces an outside write of the last second that no look has found; task.rs:101:
  another write between the rename and the metadata is taken for the task's own.
* task.rs:299: a failed append or sync of the journal is logged, and views hear of the change
  (`journal_safe.cfg` with `Faults = {"append"}`).
* journal.rs:205: a crash while a journal's folder is removed can leave a journal without records,
  which a restart takes for a whole one (`Faults = {"remove"}`).
* live.rs:552: another program that saves an older saved state again merges as no change; the
  document stays ahead of the file and counts as saved.
* A long journal (task.rs:338): after a restart that found an outside write with everything saved,
  `start_new_journal` takes that write as the original, and the next restart loses what views see
  (`journal_safe.cfg` with a small `MostJournal`).
* live.rs:615, task.rs:383: a failure to build the bytes while a save already waits sets no new retry.

Views of a document (the first three are the marks in `risk`):

* client.ts:103, live.rs:349: a view that joins by a snapshot sends its unanswered batch again under a
  new number, although the snapshot may hold it: it is applied twice. The tests at tests.rs:208 and :929
  are about the join by missed changes.
* client.ts:67: an edit between the new pipe and its `joined` sends the batch again, with the same
  effect, or under a number that the document ignores without an answer (live.rs:404): the view then
  waits until its next link is lost. Over an old pipe an edit can be lost that way.
* outbox.ts:27, xlsx/src/index.ts:589: another view removes the line of every edit in the batch on its way,
  and the link is lost. The batch is gone from the outbox ("The batch on its way stays here until its
  answer comes", outbox.ts:1), though the document took it. An edit made before the new `joined` then goes
  out as the next batch, the own change among the missed ones answers it, and when the document refuses it
  as behind, nothing sends it again. Nothing of this happens while one edit of the batch is left.
* After a snapshot with unanswered edits the view does not show its own edits until they are answered.
* A second join that an old pipe still carries removes the newer seat without telling the others.
* An invalid batch makes the view load the document again, possibly for ever.
* client.ts:69: a frame still being packed when its link is replaced goes out on the new one.

Remote terminals:

* remote.rs:1396: held requests go out before the first snapshot of the new connection, and
  participant.rs:520 refuses a canvas request then; docs/ARCHITECTURE.md:50.
* remote.rs:1172, :1395: a request begun on a connection that ended, before the actor read of its end,
  is refused instead of kept.
* commands.rs:1671: two wishes for a terminal can each start a connection, and the second replaces the
  actor of the first.
* A loss that the runtime reads after the new connection shows an open terminal as offline, until its
  next change; a failed connection of a hidden terminal that was to wake is not tried again until the
  next request.
* An answer to input says that it is on the channel, not that the host has it; frames of an old
  channel may reach the host after those of the new one.

Backend and rooms:

* Sessions/TerminalAccess.cs:48: access is revoked in the database, and when the query before
  `Revoke` fails the pipe stays until the access of that terminal changes again.
* Accounts/AccountService.cs:54: deleting an account removes a member without a new key state; every
  later state names that person and is refused, until the owner removes the member.
  docs/CRYPTOGRAPHY.md:74: "A new epoch starts when a member or device leaves".
* rooms.rs:876: answers kept from a refused attempt can leave a newly added device out of the next state
  for a while.
* Changes of the devices of an invited person notify nobody; trusting a new identity starts no refresh;
  a post sent again after its answer was lost is answered 409.
* An owner whose only device with the key is removed before it passed the key on leaves a room that
  nobody can open.

## 8. Not modelled

Planned (section 2): the pins of identity, the receipts of dosi, the flow control of the shared browser,
the lease of a connection, restore and the message store of the runtime.

Not planned: the formats of documents, wire encoding and cryptography, the emulator and the parsers of
program reports (data, no shared state); handshake, direct connections and pacing by the clock;
providers, agents, folders, command line, diagnostics and the user interfaces (input and output); the
backend's friends, recovery and plans, whose concurrency is that of single database transactions.
