-------------------------- MODULE DocumentJournal --------------------------
(***************************************************************************)
(* How the changes of one live document stay safe: the task that owns an   *)
(* open file (documents/src/task.rs), its journal (documents/src/          *)
(* journal.rs) and the document value it feeds (document/src/live.rs),     *)
(* with other programs that write the same file and with crashes.          *)
(*                                                                         *)
(* The task handles one batch of commands, one timer or one look at the    *)
(* file at a time.  A crash, or a write of another program, may fall       *)
(* between any two of its disk operations.                                 *)
(*                                                                         *)
(* The content of a file is a set of edits.  A change adds one edit or, in *)
(* a merge, takes one away; that is a change "in a form that holds on any  *)
(* later state".  Half-written files are left out.                         *)
(***************************************************************************)
EXTENDS Naturals, Sequences, FiniteSets, SequencesExt

CONSTANTS
  Edit,          \* the edits that people make in views
  Outside,       \* the edits that another program makes
  Sealing,       \* the edits that must leave no trace (F::seals)
  Faults,        \* the disk operations that may fail: a subset of Fault
  MaxBatch,      \* changes that one batch of commands holds
  MostJournal,   \* records after which a new journal starts (MOST_JOURNAL)
  MostStates,    \* saved states that a document keeps (MOST_SAVED_STATES)
  MaxRev,        \* bound of the model: changes of one document
  MaxCrashes     \* bound of the model: crashes of the host

(***************************************************************************)
(* Appending a record, replacing the file, building its new bytes, and     *)
(* starting a journal may fail; removing a journal may stop half way in a  *)
(* crash.                                                                  *)
(***************************************************************************)
Fault == {"append", "write", "format", "start", "remove"}

ASSUME JournalAssumption ==
  /\ Edit \cap Outside = {} /\ Sealing \subseteq Edit
  /\ IsFiniteSet(Edit) /\ IsFiniteSet(Outside)
  /\ Faults \subseteq Fault
  /\ MaxBatch \in Nat \ {0}
  /\ MostJournal \in Nat /\ MostStates \in Nat \ {0, 1}
  /\ MaxRev \in Nat /\ MaxCrashes \in Nat

VARIABLES
  file,      \* the content of the file, as a set of at most one
  journal,   \* the journal on disk
  synced,    \* records of it that are safe on disk
  pc,        \* of the task: "down", "read", "idle", "appended", "saving",
             \* "writing", "renamed", "saved", "sealing"
  then,      \* what save() returns to: "idle", "seal" or "close"
  doc,       \* the Document
  cache,     \* Task::disk, the file as the task knows it
  noticed,   \* Task::stamp is the stamp of the file
  attached,  \* the records file that the task appends to is in the journal
  due,       \* first_unsaved is set
  retry,     \* retry_at is set
  sealing,   \* Task::sealing
  base,      \* what the other program read, as a set of at most one
  from,      \* history: what the last write of the other program started from
  touched,   \* history: the file holds what the task did not write or merge
  heard,     \* history: the changes views heard of since the file opened
  shown,     \* history: the content views heard of last
  crashes    \* crashes so far

diskVars == <<file, journal, synced>>
flowVars == <<pc, then>>
timeVars == <<due, retry>>
pastVars == <<heard, shown>>
otherVars == <<base, from, touched>>
vars == <<diskVars, flowVars, doc, cache, noticed, attached, timeVars, sealing,
          otherVars, pastVars, crashes>>

Content == SUBSET (Edit \cup Outside)

-----------------------------------------------------------------------------
(***************************************************************************)
(* The document value.                                                     *)
(***************************************************************************)

\* Document::open
Opened(c) == [model |-> c, original |-> c, first |-> 0, rev |-> 0, log |-> <<>>,
              saved |-> 0, states |-> <<0>>, waits |-> FALSE]

NoDocument == Opened({})

\* F::apply
Apply(m, c) == IF c.op = "add" THEN m \cup {c.edit} ELSE m \ {c.edit}

\* What Document::ordered puts in the log: the change gets the next rev.
Ordered(c, rev) == [kind |-> "change", rev |-> rev, op |-> c.op, edit |-> c.edit]

\* Document::saved.  The first saved state always stays.
Saved(d, rev) ==
  LET states == IF Last(d.states) = rev THEN d.states ELSE Append(d.states, rev)
  IN [d EXCEPT !.saved = rev,
               !.waits = FALSE,
               !.states = IF Len(states) > MostStates THEN RemoveAt(states, 2) ELSE states]

\* Document::rebased
Rebased(d, c) ==
  [d EXCEPT !.original = c, !.first = d.rev, !.log = <<>>,
            !.states = <<d.rev>>, !.saved = d.rev]

\* The changes one after the other.
Replay(m, changes) ==
  LET model[n \in 0 .. Len(changes)] ==
        IF n = 0 THEN m ELSE Apply(model[n - 1], changes[n])
  IN model[Len(changes)]

\* The content as it was when rev r was saved: changes are taken while the last is before r.
StateAt(d, r) ==
  LET taken == {i \in DOMAIN d.log : (IF i = 1 THEN d.first ELSE d.log[i - 1].rev) < r}
  IN Replay(d.original, SubSeq(d.log, 1, Cardinality(taken)))

\* F::compare
Compare(old, new) ==
  [op : {"add"}, edit : new \ old] \cup [op : {"remove"}, edit : old \ new]

\* Mutant: a write of another program always starts from the last save.
NearestLast(d, new) == SetToSeq(Compare(StateAt(d, Last(d.states)), new))

(***************************************************************************)
(* Document::nearest_changes: what lies between the saved state that is    *)
(* most like the new file, the oldest of them, and the new file.           *)
(***************************************************************************)
Nearest(d, new) ==
  LET distance(i) == Cardinality(Compare(StateAt(d, d.states[i]), new))
      start == CHOOSE i \in DOMAIN d.states : \A j \in DOMAIN d.states :
                 distance(i) < distance(j) \/ (distance(i) = distance(j) /\ i <= j)
  IN SetToSeq(Compare(StateAt(d, d.states[start]), new))

\* Every saved state can be built from the log.
HasStates(d) == \A i \in DOMAIN d.states : d.states[i] <= d.first \/
                  \E j \in DOMAIN d.log : d.states[i] <= d.log[j].rev

-----------------------------------------------------------------------------
(***************************************************************************)
(* The journal.                                                            *)
(***************************************************************************)

\* Journal::start
Started(c, first) == [there |-> TRUE, original |-> c, first |-> first, records |-> <<>>]

NoJournal == [there |-> FALSE, original |-> {}, first |-> 0, records |-> <<>>]

\* The records of a journal up to a torn one.
Whole(records) ==
  LET torn == {i \in DOMAIN records : records[i].kind = "torn"}
  IN IF torn = {} THEN records ELSE SubSeq(records, 1, Min(torn) - 1)

\* Its changes, or its saves.
OfKind(records, kind) ==
  LET picked[n \in 0 .. Len(records)] ==
        IF n = 0 THEN <<>>
        ELSE IF records[n].kind = kind THEN Append(picked[n - 1], records[n])
        ELSE picked[n - 1]
  IN picked[Len(records)]

\* Mutant: a restart takes every change in the journal for saved.
RestoredSaved(j) ==
  LET log == OfKind(Whole(j.records), "change")
      saves == OfKind(Whole(j.records), "saved")
      revs == <<j.first>> \o [i \in DOMAIN saves |-> saves[i].rev]
      rev == IF log = <<>> THEN j.first ELSE Last(log).rev
  IN [model |-> Replay(j.original, log), original |-> j.original, first |-> j.first,
      rev |-> rev, log |-> log, saved |-> rev, states |-> revs, waits |-> FALSE]

\* Mutant: a restart replays the changes and not their revs.
RestoredRev(j) ==
  LET log == OfKind(Whole(j.records), "change")
      saves == OfKind(Whole(j.records), "saved")
      revs == <<j.first>> \o [i \in DOMAIN saves |-> saves[i].rev]
  IN [model |-> Replay(j.original, log), original |-> j.original, first |-> j.first,
      rev |-> j.first, log |-> log, saved |-> Last(revs), states |-> revs, waits |-> FALSE]

\* Journal::find and Document::restore
Restored(j) ==
  LET log == OfKind(Whole(j.records), "change")
      saves == OfKind(Whole(j.records), "saved")
      revs == <<j.first>> \o [i \in DOMAIN saves |-> saves[i].rev]
  IN [model |-> Replay(j.original, log), original |-> j.original, first |-> j.first,
      rev |-> IF log = <<>> THEN j.first ELSE Last(log).rev,
      log |-> log, saved |-> Last(revs), states |-> revs, waits |-> FALSE]

(***************************************************************************)
(* Journal::record for each of `added`.  A write that fails is only        *)
(* logged: it leaves nothing, or a torn record.  After a failed start the  *)
(* task still appends to a file that is no longer in the folder.           *)
(***************************************************************************)
Recorded(added) ==
  IF ~attached \/ added = <<>> THEN {journal}
  ELSE {[journal EXCEPT !.records = @ \o added]} \cup
       (IF "append" \in Faults
          THEN {journal, [journal EXCEPT !.records = Append(@, [kind |-> "torn"])]} ELSE {})

\* Journal::sync: the records of j that a crash leaves.  A failure is only logged.
Sync(j) == {Len(j.records)} \cup (IF "append" \in Faults THEN {synced} ELSE {})

Init ==
  /\ file = {{}}
  /\ journal = NoJournal /\ synced = 0
  /\ pc = "down" /\ then = "idle"
  /\ doc = NoDocument /\ cache = {}
  /\ noticed = TRUE /\ attached = TRUE
  /\ due = FALSE /\ retry = FALSE
  /\ sealing = FALSE
  /\ base = {} /\ from = {} /\ touched = FALSE
  /\ heard = {} /\ shown = {}
  /\ crashes = 0

-----------------------------------------------------------------------------
(***************************************************************************)
(* The task.                                                               *)
(***************************************************************************)

\* The start of start(): it reads the file.
OpenRead ==
  /\ pc = "down" /\ file # {}
  /\ pc' = "read"
  /\ cache' \in file
  /\ UNCHANGED <<diskVars, then, doc, noticed, attached, timeVars, sealing,
                 otherVars, pastVars, crashes>>

(***************************************************************************)
(* Then it takes the file's stamp and restores the document from a journal *)
(* or opens the file and starts one (open_or_restore).  When the file is   *)
(* not the one the journal saved last, run looks at it at once, but by the *)
(* stamp that was just taken it sees no change.                            *)
(***************************************************************************)
OpenStamp ==
  /\ pc = "read" /\ file # {}
  /\ pc' = "idle"
  /\ noticed' = TRUE /\ attached' = TRUE
  /\ \/ /\ journal.there
        /\ doc' = Restored(journal)
        /\ journal' = [journal EXCEPT !.records = Whole(@)]
        /\ heard' = heard
        /\ touched' = (file # {StateAt(doc', doc'.saved)})
     \/ /\ ~journal.there
        /\ doc' = Opened(cache)
        /\ journal' = Started(cache, 0)
        /\ heard' = {}
        /\ touched' = (file # {cache})
  /\ synced' = Len(journal'.records)
  /\ shown' = doc'.model
  /\ due' = (doc'.rev # doc'.saved)
  /\ retry' = FALSE
  /\ UNCHANGED <<file, then, cache, sealing, base, from, crashes>>

\* The file is gone when the stamp is taken, or no journal can be started.
OpenFails ==
  /\ pc = "read"
  /\ file = {} \/ (~journal.there /\ "start" \in Faults)
  /\ pc' = "down"
  /\ UNCHANGED <<diskVars, then, doc, cache, noticed, attached, timeVars, sealing,
                 otherVars, pastVars, crashes>>

\* The document d after changes that were not yet ordered.
AllOrdered(d, changes) ==
  [d EXCEPT !.model = Replay(@, changes),
            !.rev = @ + Len(changes),
            !.log = @ \o [i \in DOMAIN changes |-> Ordered(changes[i], d.rev + i)]]

\* The records of the changes that d has and the document does not.
NewRecords(d) == SubSeq(d.log, Len(doc.log) + 1, Len(d.log))

\* One of those changes must leave no trace (Effect::Seal).
Seals(d) == \E c \in ToSet(NewRecords(d)) : c.op = "add" /\ c.edit \in Sealing

\* Whether the journal is long, by the bytes that the task appended to it.
Long == IF attached THEN {Len(journal.records) > MostJournal} ELSE BOOLEAN

(***************************************************************************)
(* take and the first half of run_effects: the edits of a batch go in the  *)
(* document and are appended to the journal.  An edit that the document    *)
(* refuses changes nothing.                                                *)
(***************************************************************************)
Take(edits) ==
  /\ pc = "idle"
  /\ doc.rev + Len(edits) <= MaxRev
  /\ \A e \in ToSet(edits) : e \notin doc.model /\ \A c \in heard : c.edit # e
  /\ doc' = AllOrdered(doc, [i \in DOMAIN edits |-> [op |-> "add", edit |-> edits[i]]])
  /\ journal' \in Recorded(NewRecords(doc'))
  /\ due' = TRUE
  /\ sealing' = Seals(doc')
  /\ pc' = "appended"
  /\ UNCHANGED <<file, synced, then, cache, noticed, attached, retry,
                 otherVars, pastVars, crashes>>

\* Mutant: views hear of a change before it is safe.
HearUnsynced ==
  /\ pc = "appended"
  /\ synced' = synced
  /\ heard' = heard \cup ToSet(doc.log)
  /\ shown' = doc.model
  /\ \E long \in Long :
       IF sealing \/ long THEN pc' = "saving" /\ then' = "seal"
                          ELSE pc' = "idle" /\ then' = then
  /\ sealing' = FALSE
  /\ UNCHANGED <<file, journal, doc, cache, noticed, attached, timeVars,
                 otherVars, crashes>>

(***************************************************************************)
(* The second half of run_effects: sync, then every view hears.  A change  *)
(* that seals, or a long journal, makes it save and start a new journal.   *)
(***************************************************************************)
Hear ==
  /\ pc = "appended"
  /\ synced' \in Sync(journal)
  /\ heard' = heard \cup ToSet(doc.log)
  /\ shown' = doc.model
  /\ \E long \in Long :
       IF sealing \/ long THEN pc' = "saving" /\ then' = "seal"
                          ELSE pc' = "idle" /\ then' = then
  /\ sealing' = FALSE
  /\ UNCHANGED <<file, journal, doc, cache, noticed, attached, timeVars,
                 otherVars, crashes>>

\* A batch that changes nothing ends with the same check of the journal.
TakeNothing ==
  /\ pc = "idle" /\ TRUE \in Long
  /\ pc' = "saving" /\ then' = "seal"
  /\ UNCHANGED <<diskVars, doc, cache, noticed, attached, timeVars, sealing,
                 otherVars, pastVars, crashes>>

\* deadline_reached for a change or a retry.
SaveDue ==
  /\ pc = "idle" /\ (due \/ retry)
  /\ pc' = "saving" /\ then' = "idle"
  /\ retry' = FALSE
  /\ UNCHANGED <<diskVars, doc, cache, noticed, attached, due, sealing,
                 otherVars, pastVars, crashes>>

\* Command::Flush with something to save.
Flush ==
  /\ pc = "idle" /\ doc.rev # doc.saved
  /\ pc' = "saving" /\ then' = "idle"
  /\ UNCHANGED <<diskVars, doc, cache, noticed, attached, timeVars, sealing, otherVars,
                 pastVars, crashes>>

\* deadline_reached a minute after the last view left, and Command::Close.
Finish ==
  /\ pc = "idle"
  /\ pc' = "saving" /\ then' = "close"
  /\ UNCHANGED <<diskVars, doc, cache, noticed, attached, timeVars, sealing,
                 otherVars, pastVars, crashes>>

(***************************************************************************)
(* save: Document::save has nothing to write, gives the new bytes, or      *)
(* cannot build them (save_waits), which asks for a retry only once.       *)
(***************************************************************************)
Save ==
  /\ pc = "saving"
  /\ due' = FALSE
  /\ \/ /\ doc.rev = doc.saved
        /\ pc' = "saved"
        /\ UNCHANGED <<doc, retry>>
     \/ /\ doc.rev # doc.saved
        /\ pc' = "writing"
        /\ UNCHANGED <<doc, retry>>
     \/ /\ doc.rev # doc.saved /\ "format" \in Faults
        /\ pc' = "saved"
        /\ doc' = [doc EXCEPT !.waits = TRUE]
        /\ retry' = (retry \/ ~doc.waits)
  /\ UNCHANGED <<diskVars, then, cache, noticed, attached, sealing,
                 otherVars, pastVars, crashes>>

\* write_whole renames the new file into place.
Rename ==
  /\ pc = "writing" /\ file # {}
  /\ file' = {doc.model}
  /\ noticed' = FALSE
  /\ touched' = FALSE
  /\ pc' = "renamed"
  /\ UNCHANGED <<journal, synced, then, doc, cache, attached, timeVars, sealing,
                 base, from, pastVars, crashes>>

\* Mutant: a save that failed is not tried again.
WriteFailsOnce ==
  /\ pc \in {"writing", "renamed"} /\ (file = {} \/ "write" \in Faults)
  /\ pc' = "saved"
  /\ doc' = [doc EXCEPT !.waits = TRUE]
  /\ retry' = retry
  /\ UNCHANGED <<diskVars, then, cache, noticed, attached, due, sealing, otherVars,
                 pastVars, crashes>>

\* write_whole fails, before or after its rename: the save waits.
WriteFails ==
  /\ pc \in {"writing", "renamed"} /\ (file = {} \/ "write" \in Faults)
  /\ pc' = "saved"
  /\ doc' = [doc EXCEPT !.waits = TRUE]
  /\ retry' = TRUE
  /\ UNCHANGED <<diskVars, then, cache, noticed, attached, due, sealing,
                 otherVars, pastVars, crashes>>

(***************************************************************************)
(* The end of write: the stamp of the file is taken, the journal and the   *)
(* document learn of the save.                                             *)
(***************************************************************************)
Written ==
  /\ pc = "renamed" /\ file # {}
  /\ noticed' = TRUE
  /\ journal' \in Recorded(<<[kind |-> "saved", rev |-> doc.rev]>>)
  /\ synced' \in Sync(journal')
  /\ cache' = doc.model
  /\ doc' = Saved(doc, doc.rev)
  /\ pc' = "saved"
  /\ UNCHANGED <<file, then, attached, timeVars, sealing, otherVars, pastVars,
                 crashes>>

\* save returns to the loop, or the save that a seal needs did not succeed.
SaveDone ==
  /\ pc = "saved"
  /\ then = "idle" \/ (then = "seal" /\ doc.rev # doc.saved)
  /\ pc' = "idle"
  /\ UNCHANGED <<diskVars, then, doc, cache, noticed, attached, timeVars, sealing,
                 otherVars, pastVars, crashes>>

\* start_new_journal: Journal::start removes the journal that is there.
SealRemove ==
  /\ pc = "saved" /\ then = "seal" /\ doc.rev = doc.saved
  /\ journal' = NoJournal /\ synced' = 0
  /\ pc' = "sealing"
  /\ UNCHANGED <<file, then, doc, cache, noticed, attached, timeVars, sealing,
                 otherVars, pastVars, crashes>>

\* Then a new journal starts from the file; when it cannot, the old one goes on.
SealStart ==
  /\ pc = "sealing"
  /\ \/ /\ journal' = Started(cache, doc.rev)
        /\ doc' = Rebased(doc, cache)
        /\ attached' = TRUE
     \/ /\ "start" \in Faults
        /\ attached' = FALSE
        /\ UNCHANGED <<journal, doc>>
  /\ pc' = "idle"
  /\ UNCHANGED <<file, synced, then, cache, noticed, timeVars, sealing, otherVars,
                 pastVars, crashes>>

\* The task is over: nothing of it stays in memory.
Forget ==
  /\ pc' = "down" /\ then' = "idle"
  /\ doc' = NoDocument /\ cache' = {}
  /\ attached' = TRUE
  /\ due' = FALSE /\ retry' = FALSE
  /\ sealing' = FALSE

\* Mutant: a close removes the journal whether or not the file was saved.
ClosedAlways ==
  /\ pc = "saved" /\ then = "close"
  /\ journal' = NoJournal
  /\ synced' = 0
  /\ Forget
  /\ UNCHANGED <<file, noticed, otherVars, pastVars, crashes>>

\* The end of finish: the journal goes when the file holds every change.
Closed ==
  /\ pc = "saved" /\ then = "close"
  /\ journal' = IF doc.rev = doc.saved THEN NoJournal ELSE journal
  /\ synced' = Len(journal'.records)
  /\ Forget
  /\ UNCHANGED <<file, noticed, otherVars, pastVars, crashes>>

(***************************************************************************)
(* look_at_file, every second: the file is gone and the task ends          *)
(* (remove_gone), or another program wrote it and its changes merge in     *)
(* (Document::file_changed).                                               *)
(***************************************************************************)
LookGone ==
  /\ pc = "idle" /\ file = {}
  /\ Forget
  /\ UNCHANGED <<diskVars, noticed, otherVars, pastVars, crashes>>

Look ==
  /\ pc = "idle" /\ ~noticed
  /\ noticed' = TRUE
  /\ \E new \in file :
       \/ /\ new = cache \/ ~HasStates(doc)
          /\ touched' = (new # doc.model)
          /\ UNCHANGED <<pc, doc, cache, journal, due, sealing>>
       \/ /\ new # cache /\ HasStates(doc)
          /\ doc.rev + Len(Nearest(doc, new)) <= MaxRev
          /\ doc' = AllOrdered(doc, Nearest(doc, new))
          /\ journal' \in Recorded(NewRecords(doc'))
          /\ cache' = new
          /\ touched' = FALSE
          /\ due' = (due \/ doc'.rev # doc.rev)
          /\ sealing' = Seals(doc')
          /\ pc' = "appended"
  /\ UNCHANGED <<file, synced, then, attached, retry, base, from, pastVars, crashes>>

-----------------------------------------------------------------------------
(***************************************************************************)
(* The host crashes.  Records that were not synced may be lost from the    *)
(* end, and a journal that is being removed may have lost its records and  *)
(* kept the rest.                                                          *)
(***************************************************************************)
Crash ==
  /\ pc # "down" /\ crashes < MaxCrashes
  /\ crashes' = crashes + 1
  /\ \/ \E n \in synced .. Len(journal.records) :
          journal' = [journal EXCEPT !.records = SubSeq(@, 1, n)]
     \/ /\ "remove" \in Faults
        /\ pc = "saved" /\ then \in {"seal", "close"} /\ doc.rev = doc.saved
        /\ journal' = [journal EXCEPT !.records = <<>>]
  /\ synced' = Len(journal'.records)
  /\ Forget
  /\ UNCHANGED <<file, noticed, otherVars, pastVars>>

(***************************************************************************)
(* Another program reads the file, and later saves what it read with an    *)
(* edit of its own.                                                        *)
(***************************************************************************)
OutsideRead ==
  /\ file # {} /\ base # file
  /\ base' = file
  /\ UNCHANGED <<diskVars, flowVars, doc, cache, noticed, attached, timeVars, sealing,
                 from, touched, pastVars, crashes>>

OutsideWrite(e) ==
  /\ \E c \in base :
       /\ e \notin c
       /\ file' = {c \cup {e}}
       /\ from' = {c}
       /\ base' = {}
  /\ noticed' = FALSE
  /\ touched' = TRUE
  /\ UNCHANGED <<journal, synced, flowVars, doc, cache, attached, timeVars, sealing,
                 pastVars, crashes>>

\* Somebody removes the file.
OutsideRemove ==
  /\ file # {}
  /\ file' = {}
  /\ noticed' = FALSE
  /\ touched' = TRUE
  /\ UNCHANGED <<journal, synced, flowVars, doc, cache, attached, timeVars, sealing,
                 base, from, pastVars, crashes>>

Task ==
  \/ OpenRead \/ OpenStamp \/ OpenFails \/ Hear \/ TakeNothing \/ SaveDue \/ Flush
  \/ Finish \/ Save \/ Rename \/ WriteFails \/ Written \/ SaveDone \/ SealRemove
  \/ SealStart \/ Closed \/ LookGone \/ Look
  \/ \E edits \in SeqOf(Edit, MaxBatch) : edits # <<>> /\ IsInjective(edits) /\ Take(edits)

Other ==
  \/ OutsideRead \/ OutsideRemove
  \/ \E e \in Outside : OutsideWrite(e)

\* A file that is gone, or that nobody opens: the end of a behaviour.
Finished == pc = "down" /\ UNCHANGED vars

Next == Task \/ Crash \/ Other \/ Finished

Spec == Init /\ [][Next]_vars

(***************************************************************************)
(* Fairness: the task goes on while it is open.  A timer that has fired    *)
(* stays ready in the select of run, which polls its branches in a random  *)
(* order, so it is taken however many commands come.  A program that holds *)
(* the file lets go of it: a save that is tried again and again succeeds.  *)
(* Nobody has to open a file or to edit it.                                *)
(***************************************************************************)
FairSpec ==
  /\ Spec
  /\ WF_vars(Hear \/ Save \/ SaveDone \/ SealRemove \/ SealStart \/ Closed \/ WriteFails)
  /\ SF_vars(SaveDue) /\ SF_vars(Look) /\ SF_vars(LookGone)
  /\ SF_vars(Rename) /\ SF_vars(Written)

-----------------------------------------------------------------------------
(***************************************************************************)
(* Properties.                                                             *)
(***************************************************************************)

Change == [kind : {"change"}, rev : Nat, op : {"add", "remove"}, edit : Edit \cup Outside]
SavedRecord == [kind : {"saved"}, rev : Nat]
Torn == [kind : {"torn"}]

\* Every variable has its type, and no rev is saved before it is made.
TypeOK ==
  /\ file \in SUBSET Content /\ Cardinality(file) <= 1
  /\ journal.there \in BOOLEAN /\ journal.original \in Content /\ journal.first \in Nat
  /\ journal.records \in Seq(Change \cup SavedRecord \cup Torn)
  /\ synced \in 0 .. Len(journal.records)
  /\ pc \in {"down", "read", "idle", "appended", "saving", "writing", "renamed", "saved",
             "sealing"}
  /\ then \in {"idle", "seal", "close"}
  /\ doc.model \in Content /\ doc.original \in Content
  /\ doc.rev \in Nat /\ doc.first \in 0 .. doc.rev /\ doc.log \in Seq(Change)
  /\ doc.states \in Seq(Nat) /\ doc.states # <<>> /\ doc.waits \in BOOLEAN
  /\ doc.saved \in doc.first .. doc.rev
  /\ cache \in Content
  /\ {noticed, attached, due, retry, sealing, touched} \subseteq BOOLEAN
  /\ base \in SUBSET Content /\ from \in SUBSET Content
  /\ heard \subseteq Change /\ shown \in Content
  /\ crashes \in Nat

(***************************************************************************)
(* "Each change is safe in the journal before any view hears of it": a     *)
(* change that a view heard of is in the part of the journal that a crash  *)
(* leaves, or its rev is one that the journal starts after.                *)
(***************************************************************************)
SafeBeforeHeard ==
  \A c \in heard :
    IF journal.there
      THEN c.rev <= journal.first \/ \E i \in 1 .. synced : journal.records[i] = c
      ELSE pc \in {"down", "read"} \/ c.rev <= doc.saved

(***************************************************************************)
(* "Builds a document again from its journal": between two steps of the    *)
(* task, a restart would bring back the document that views see, with its  *)
(* log, its rev and the rev it saved.                                      *)
(***************************************************************************)
RestartBuildsSame ==
  pc = "idle" =>
    LET again == Restored(journal)
    IN /\ again.model = doc.model /\ again.log = doc.log
       /\ again.rev = doc.rev /\ again.saved = doc.saved

(***************************************************************************)
(* When there is no journal, after a clean close or a crash in the middle  *)
(* of a seal, the file holds exactly what views saw last, unless another   *)
(* program wrote it.                                                       *)
(***************************************************************************)
FileHoldsAll == ~journal.there /\ ~touched => file = {shown}

(***************************************************************************)
(* Input::Saved: "The file holds each change up to this rev."  When no rev *)
(* waits to be saved and no other program wrote the file since the task    *)
(* looked, the file is what views see.                                     *)
(***************************************************************************)
SavedMeansOnDisk ==
  pc = "idle" /\ ~touched /\ doc.rev = doc.saved => file = {doc.model}

(***************************************************************************)
(* What the task says of the file is true: after a close, and after each   *)
(* save it reports to the views.                                           *)
(***************************************************************************)
FileTrue == FileHoldsAll /\ SavedMeansOnDisk

(***************************************************************************)
(* "A late write keeps the edits made while the program worked": a write   *)
(* that started from a saved state the document still knows merges in, and *)
(* neither its own edits nor the document's are lost.                      *)
(***************************************************************************)
LateWriteMerges ==
  [][pc = "idle" /\ touched /\ ~noticed /\ noticed' =>
       \A new \in file, old \in from :
         /\ new # cache /\ HasStates(doc)
         /\ \E i \in DOMAIN doc.states : old = StateAt(doc, doc.states[i])
         => doc.model \cup new \subseteq doc'.model]_vars

(***************************************************************************)
(* "The save goes on trying": every change is saved in the end, unless the *)
(* document goes down first.                                               *)
(***************************************************************************)
SavesComplete ==
  \A n \in 1 .. MaxRev :
    (pc # "down" /\ doc.rev >= n) ~> (pc = "down" \/ doc.saved >= n)

=============================================================================
