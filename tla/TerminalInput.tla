---------------------------- MODULE TerminalInput ----------------------------
(***************************************************************************)
(* The input of a terminal (runtime/src/terminal/session.rs): the budget   *)
(* and the mailboxes through which writes come, LocalActor::queue, the     *)
(* guard for a person who types, and the transfer to the program           *)
(* (crates/kodosi-pty), which on Windows is a thread that finishes a write *)
(* after the actor went on.                                                *)
(*                                                                         *)
(* A write is its number of bytes.  What the program and its agent do is   *)
(* arbitrary.  Size and focus are in TerminalSize; the report of a focus   *)
(* is here one of the writes of the terminal itself.                       *)
(***************************************************************************)
EXTENDS Naturals, Sequences, FiniteSets, SequencesExt

CONSTANTS Views,    \* views of this computer and of others, by their tokens
          Budget,   \* MAX_PENDING_BYTES
          Mailbox,  \* COMMAND_CAPACITY
          Loads     \* the writes of a behaviour, in the order of their offers, the views that
                    \* leave and the callers that give up

Local == {"input", "picture"}
Remote == {"remote input", "remote picture", "remote message"}
Command == {"command", "message", "run", "start"}
Kinds == Local \cup Remote \cup Command \cup {"reply"}
Authorized == Remote \cup {"input"}   \* kinds that end with the token of their view

(* "after" is the text of a message whose Enter this is, or 0. *)
ASSUME TerminalInputAssumption ==
  /\ {Budget, Mailbox} \subseteq Nat \ {0}
  /\ \A l \in Loads : Len(l.writes) \in Nat /\ DOMAIN l.writes = 1..Len(l.writes)
  /\ \A l \in Loads : l.leave \subseteq Views /\ \A w \in DOMAIN l.writes :
       /\ l.writes[w].kind \in Kinds /\ l.writes[w].bytes \in 0..Budget /\ l.writes[w].after \in 0..(w - 1)
       /\ l.writes[w].kind \in Local \cup Remote => l.writes[w].by \in Views

VARIABLES
  load,     \* the writes
  windows,  \* a thread writes to the program
  reads,    \* the program reads its input
  live,     \* views whose token is not cancelled
  free,     \* input_budget
  mail,     \* commands and host requests
  saving,   \* pictures whose files are written
  queue,    \* LocalActor::queue
  flight,   \* the write of the Windows thread
  pty,      \* the bytes that the program got
  typing,   \* typed_at is not long ago
  start,    \* the line to type at the first prompt
  answer,   \* what the caller of a write heard
  at,       \* where the loop of the actor is
  late,     \* history: writes for a view after its token was cancelled
  typed     \* history: the Enters in whose pause a person typed

vars == <<load, windows, reads, live, free, mail, saving, queue, flight, pty, typing, start, answer, at,
          late, typed>>
fixed == <<load, windows, reads>>

Writes == DOMAIN load.writes
Kind(w) == load.writes[w].kind
By(w) == load.writes[w].by
Size(w) == load.writes[w].bytes
After(w) == load.writes[w].after
Door(w) == IF Kind(w) \in Remote THEN "host" ELSE "commands"
None == [w |-> 0, n |-> 0, done |-> FALSE]

Init ==
  /\ load \in Loads /\ windows \in BOOLEAN /\ reads \in BOOLEAN
  /\ live = Views /\ free = Budget
  /\ mail = [d \in {"commands", "host"} |-> <<>>] /\ saving = {} /\ queue = <<>>
  /\ flight = None /\ pty = <<>>
  /\ typing = FALSE /\ start = 0
  /\ answer = [w \in Writes |-> "none"]
  /\ at = "top" /\ late = [v \in Views |-> 0] /\ typed = {}

----------------------------------------------------------------------------
(* Callers *)

(* Input and messages of this computer take their part of the budget at once. *)
Admitted(w) == Kind(w) \in {"input", "command", "message"}

(* A view sends its input in order.  Enter follows once the text of a message was written. *)
Offer(w) ==
  /\ at # "ended" /\ Kind(w) # "reply" /\ answer[w] = "none"
  /\ \A u \in 1..(w - 1) : By(u) = By(w) => answer[u] # "none"
  /\ After(w) # 0 => answer[After(w)] = "ok"
  /\ IF Len(mail[Door(w)]) = Mailbox \/ (Admitted(w) /\ free < Size(w))
     THEN answer' = [answer EXCEPT ![w] = "busy"] /\ UNCHANGED <<mail, free>>
     ELSE /\ answer' = [answer EXCEPT ![w] = IF Kind(w) = "start" THEN "queued" ELSE "waits"]
          /\ mail' = [mail EXCEPT ![Door(w)] = Append(@, w)]
          /\ free' = IF Admitted(w) THEN free - Size(w) ELSE free
  /\ UNCHANGED <<fixed, live, saving, queue, flight, pty, typing, start, at, late, typed>>

(* REQUEST_TIMEOUT *)
GiveUp(w) ==
  /\ w \in load.giveUp /\ answer[w] = "waits"
  /\ answer' = [answer EXCEPT ![w] = "timeout"]
  /\ UNCHANGED <<fixed, live, free, mail, saving, queue, flight, pty, typing, start, at, late, typed>>

(* A view leaves, or may no longer type. *)
Cancel(v) ==
  /\ v \in live \cap load.leave
  /\ live' = live \ {v}
  /\ UNCHANGED <<fixed, free, mail, saving, queue, flight, pty, typing, start, answer, at, late, typed>>

(* Enter comes ENTER_PAUSE after the text of a message, which is shorter than TYPING.  One *)
(* from another computer may wait longer, for its link.                                    *)
Pause(e) ==
  /\ After(e) # 0 /\ answer[After(e)] = "ok"
  /\ answer[e] = "none" \/ \E d \in DOMAIN mail : e \in ToSet(mail[d])
PersonTypes ==
  /\ typing' = TRUE
  /\ typed' = typed \cup {e \in Writes : Pause(e)}
TypingEnds ==
  /\ typing /\ typing' = FALSE
  /\ \A e \in typed : Pause(e) => Kind(e) = "remote message"
  /\ UNCHANGED <<fixed, live, free, mail, saving, queue, flight, pty, start, answer, at, late, typed>>

----------------------------------------------------------------------------
(* The queue *)

Pending(w) == [w |-> w, offset |-> 0]
Cancelled(p) == Kind(p.w) \in Authorized /\ By(p.w) \notin live
Whole(p) == p.offset = Size(p.w)
InFlight == flight.w # 0

(* A write that is dropped gives its budget back, and its caller hears of it. *)
Tell(ans, W, what) == [w \in Writes |-> IF w \in W /\ ans[w] = "waits" THEN what ELSE ans[w]]
Cost(W) == Cardinality({b \in W \X (1..Budget) : b[2] <= Size(b[1])})   \* their bytes
Queued(q) == {q[i].w : i \in DOMAIN q}

(* pending_input: the writes in front that are cancelled or empty go. *)
Kept(p) == ~Cancelled(p) /\ ~Whole(p)
PendingInput ==
  LET keep == {i \in DOMAIN queue : Kept(queue[i])}
      n == IF InFlight THEN 0 ELSE IF keep = {} THEN Len(queue) ELSE Min(keep) - 1
      gone == SubSeq(queue, 1, n)
      dropped == {gone[i].w : i \in {j \in DOMAIN gone : Cancelled(gone[j])}}
  IN /\ queue' = SubSeq(queue, n + 1, Len(queue))
     /\ free' = free + Cost(Queued(gone))
     /\ answer' = Tell(Tell(answer, dropped, "interrupted"), Queued(gone) \ dropped, "ok")

(* The top of the loop. *)
Loop ==
  /\ at = "top" /\ at' = "select"
  /\ PendingInput
  /\ UNCHANGED <<fixed, live, mail, saving, flight, pty, typing, start, late, typed>>

(* wrote: the front of the queue is credited. *)
Wrote(n) ==
  LET p == [Head(queue) EXCEPT !.offset = Min({@ + n, Size(Head(queue).w)})]
  IN IF queue = <<>> THEN UNCHANGED <<queue, free, answer>>
     ELSE IF Whole(p)
     THEN /\ queue' = Tail(queue)
          /\ free' = free + Size(p.w)
          /\ answer' = Tell(answer, {p.w}, "ok")
     ELSE queue' = <<p>> \o Tail(queue) /\ UNCHANGED <<free, answer>>

Bytes(p, n) == [i \in 1..n |-> <<p.w, p.offset + i>>]
Late(p) == IF Cancelled(p) THEN [late EXCEPT ![By(p.w)] = @ + 1] ELSE late

----------------------------------------------------------------------------
(* The arms of the loop *)

Arm == at = "select" /\ at' = "top"

(* transfer on Unix: the program takes some of the bytes. *)
TransferWrote ==
  /\ ~windows /\ Arm /\ queue # <<>> /\ ~Whole(Head(queue))
  /\ \E n \in 1..(Size(Head(queue).w) - Head(queue).offset) :
       /\ pty' = pty \o Bytes(Head(queue), n)
       /\ Wrote(n)
  /\ late' = Late(Head(queue))
  /\ UNCHANGED <<fixed, live, mail, saving, flight, typing, start, typed>>

(* transfer on Windows: the thread gets the bytes, and reports them written later. *)
HandOver ==
  /\ windows /\ at = "select" /\ ~InFlight /\ queue # <<>> /\ ~Whole(Head(queue))
  /\ flight' = [w |-> Head(queue).w, n |-> Size(Head(queue).w) - Head(queue).offset, done |-> FALSE]
  /\ late' = Late(Head(queue))
  /\ UNCHANGED <<fixed, live, free, mail, saving, queue, pty, typing, start, answer, at, typed>>

ThreadWrites ==
  /\ InFlight /\ ~flight.done
  /\ flight' = [flight EXCEPT !.done = TRUE]
  /\ pty' = pty \o Bytes([w |-> flight.w, offset |-> Size(flight.w) - flight.n], flight.n)
  /\ UNCHANGED <<fixed, live, free, mail, saving, queue, typing, start, answer, at, late, typed>>

TransferDone ==
  /\ Arm /\ InFlight /\ flight.done
  /\ flight' = None
  /\ Wrote(flight.n)
  /\ UNCHANGED <<fixed, live, mail, saving, pty, typing, start, late, typed>>

(* enqueue: a write of the terminal itself. *)
Enqueue(w) ==
  LET heard(what) == [answer EXCEPT ![w] = IF @ = "timeout" THEN @ ELSE what]
  IN IF free < Size(w) THEN answer' = heard("busy") /\ UNCHANGED <<queue, free>>
     ELSE /\ queue' = Append(queue, Pending(w))
          /\ free' = free - Size(w)
          /\ answer' = heard("queued")

(* apply_output: the program writes, and asks for an answer. *)
TransferRead ==
  /\ Arm
  /\ \E w \in Writes : Kind(w) = "reply" /\ answer[w] = "none" /\ Enqueue(w)
  /\ UNCHANGED <<fixed, live, mail, saving, flight, pty, typing, start, late, typed>>

Refused(w, what) ==
  /\ answer' = Tell(answer, {w}, what)
  /\ free' = IF Admitted(w) THEN free + Size(w) ELSE free
  /\ UNCHANGED <<queue, typing, typed>>

Accepted(w) ==
  /\ queue' = Append(queue, Pending(w))
  /\ UNCHANGED <<answer, free>>

(* accept_input *)
AcceptInput(w) ==
  IF By(w) \notin live THEN Refused(w, "stale")
  ELSE Accepted(w) /\ PersonTypes

(* accept_command_input, with takes_message: an agent may take a message or not. *)
Takes(w) == IF typing THEN {FALSE} ELSE IF Kind(w) = "command" THEN {TRUE} ELSE BOOLEAN
AcceptCommandInput(w) ==
  \E takes \in Takes(w) :
    IF takes THEN Accepted(w) /\ UNCHANGED <<typing, typed>> ELSE Refused(w, "refused")

(* Request::Run: the shell is at its prompt, or not. *)
Run(w) == Refused(w, "refused") \/ (Enqueue(w) /\ UNCHANGED <<typing, typed>>)

(* command *)
CommandArm ==
  LET w == Head(mail["commands"])
      kind == Kind(w)
  IN /\ Arm /\ mail["commands"] # <<>>
     /\ mail' = [mail EXCEPT !["commands"] = Tail(@)]
     /\ saving' = IF kind = "picture" THEN saving \cup {w} ELSE saving
     /\ start' = IF kind = "start" THEN w ELSE start
     /\ CASE kind = "input" -> AcceptInput(w)
          [] kind \in {"command", "message"} -> AcceptCommandInput(w)
          [] kind = "run" -> Run(w)
          [] OTHER -> UNCHANGED <<queue, free, answer, typing, typed>>
     /\ UNCHANGED <<fixed, live, flight, pty, late>>

(* A wrong paste is not taken for a person's input. *)
PasteSavedQuiet(w) ==
  IF By(w) \notin live /\ Kind(w) = "remote picture" THEN Refused(w, "stale")
  ELSE IF free < Size(w) THEN Refused(w, "busy")
  ELSE /\ queue' = Append(queue, Pending(w))
       /\ typed' = typed \cup {e \in Writes : Pause(e)}
       /\ free' = free - Size(w)
       /\ UNCHANGED <<answer, typing>>

(* paste_saved *)
PasteSaved(w) ==
  IF By(w) \notin live /\ Kind(w) = "remote picture" THEN Refused(w, "stale")
  ELSE IF free < Size(w) THEN Refused(w, "busy")
  ELSE /\ queue' = Append(queue, Pending(w)) /\ PersonTypes
       /\ free' = free - Size(w)
       /\ UNCHANGED answer

(* host_control and HostRequest::Picture: a caller that gave up gets nothing. *)
HostArm ==
  LET w == Head(mail["host"])
      kind == Kind(w)
  IN /\ Arm /\ mail["host"] # <<>>
     /\ mail' = [mail EXCEPT !["host"] = Tail(@)]
     /\ \/ /\ kind = "remote picture"
           /\ saving' = saving \cup {w} /\ UNCHANGED <<queue, free, answer, typing, typed>>
        \/ /\ kind = "remote picture"
           /\ PasteSaved(w) /\ UNCHANGED saving
        \/ /\ kind # "remote picture"
           /\ UNCHANGED saving
           /\ IF By(w) \notin live \/ answer[w] = "timeout" THEN Refused(w, "stale")
              ELSE IF free < Size(w) THEN Refused(w, "busy")
              ELSE \E takes \in IF kind = "remote message" THEN Takes(w) ELSE {TRUE} :
                     IF ~takes THEN Refused(w, "refused")
                     ELSE /\ queue' = Append(queue, Pending(w))
                          /\ free' = free - Size(w)
                          /\ IF kind = "remote input" THEN PersonTypes ELSE UNCHANGED <<typing, typed>>
                          /\ UNCHANGED answer
     /\ UNCHANGED <<fixed, live, flight, pty, start, late>>

SavedArm ==
  \E w \in saving :
    /\ Arm
    /\ saving' = saving \ {w}
    /\ PasteSaved(w)
    /\ UNCHANGED <<fixed, live, mail, flight, pty, start, late>>

Staying(q) ==
  LET staying[n \in 0..Len(q)] ==
        IF n = 0 THEN <<>>
        ELSE IF Cancelled(q[n]) THEN staying[n - 1]
        ELSE Append(staying[n - 1], q[n])
  IN staying[Len(q)]

(* A wrong drop_cancelled_input drops the write that the thread writes, another one none. *)
DropCancelledAll(q) == Staying(q)
DropCancelledNone(q) == q

(* maintain: the start line is typed at the prompt or goes, and so do cancelled writes. *)
DropCancelled(q) ==
  IF InFlight /\ q # <<>> THEN <<Head(q)>> \o Staying(Tail(q)) ELSE Staying(q)
Maintain ==
  \E types, waits \in BOOLEAN :
    LET q == IF types THEN Append(queue, Pending(start)) ELSE queue
        gone == Queued(q) \ Queued(DropCancelled(q))
    IN /\ Arm
       /\ types => start # 0 /\ free >= Size(start)
       /\ waits => start # 0 /\ ~types
       /\ start' = IF waits THEN start ELSE 0
       /\ queue' = DropCancelled(q)
       /\ free' = free + Cost(gone) - (IF types THEN Size(start) ELSE 0)
       /\ answer' = Tell(answer, gone, "interrupted")
       /\ UNCHANGED <<fixed, live, mail, saving, flight, pty, typing, late, typed>>

(* The program ends or the terminal is closed: all that waits is dropped. *)
End ==
  /\ at # "ended" /\ at' = "ended"
  /\ queue' = <<>> /\ mail' = [d \in DOMAIN mail |-> <<>>] /\ saving' = {} /\ start' = 0
  /\ free' = Budget
  /\ answer' = Tell(answer, Writes, "interrupted")
  /\ UNCHANGED <<fixed, live, flight, pty, typing, late, typed>>

----------------------------------------------------------------------------
Caller == TypingEnds \/ (\E w \in Writes : Offer(w) \/ GiveUp(w)) \/ \E v \in Views : Cancel(v)
Reads == CommandArm \/ HostArm \/ SavedArm

Next ==
  \/ Caller \/ Loop \/ TransferWrote \/ HandOver \/ ThreadWrites \/ TransferDone \/ TransferRead
  \/ Reads \/ Maintain \/ End

(* tokio::select takes each arm that stays ready in turn.  Only a program that reads takes *)
(* its input.                                                                             *)
Fairness ==
  /\ WF_vars(Loop) /\ SF_vars(Reads \/ TransferDone) /\ SF_vars(Maintain)
  /\ SF_vars(reads /\ (TransferWrote \/ HandOver)) /\ WF_vars(reads /\ ThreadWrites)
Spec == Init /\ [][Next]_vars /\ Fairness

----------------------------------------------------------------------------
(* Properties *)

Holders ==
  Queued(queue) \cup {w \in Writes : Admitted(w) /\ \E d \in DOMAIN mail : w \in ToSet(mail[d])}

(* The types, and the budget: what is free and what the writes hold that wait make up   *)
(* MAX_PENDING_BYTES.  A path that drops a write without its permit, or gives it back   *)
(* twice, would break it.                                                               *)
TypeOK ==
  /\ live \subseteq Views /\ saving \subseteq Writes
  /\ \A i \in DOMAIN queue : queue[i].w \in Writes /\ queue[i].offset \in 0..Size(queue[i].w)
  /\ at \in {"top", "select", "ended"}
  /\ free + Cost(Holders) = Budget

(* The bytes of a write reach the program together, in order and once, whatever is      *)
(* cancelled while the Windows thread writes: wrote credits the write that was written  *)
(* (drop_cancelled_input keeps it).                                                     *)
StaysWhole ==
  \A j, k \in DOMAIN pty :
    /\ j # k => pty[j] # pty[k]
    /\ pty[k][2] > 1 => k > 1 /\ pty[k - 1] = <<pty[k][1], pty[k][2] - 1>>

(* A caller that hears "ok" knows that the program got all its bytes; one that was      *)
(* refused knows that it got none.                                                      *)
Got(w) == {k \in DOMAIN pty : pty[k][1] = w}
AnswerTrue ==
  \A w \in Writes :
    /\ answer[w] = "ok" => Cardinality(Got(w)) = Size(w)
    /\ answer[w] \in {"none", "busy", "stale", "refused"} => Got(w) = {}

(* What a view types arrives in the order in which it was typed, also when a caller     *)
(* stops waiting or another's input is dropped in between.                              *)
InOrder ==
  \A j, k \in DOMAIN pty :
    LET u == pty[j][1]
        w == pty[k][1]
    IN j < k /\ By(u) = By(w) /\ Kind(u) = Kind(w) /\ Kind(u) \in {"input", "remote input"} => u <= w

(* After a view lost its right to type at most one write of its input goes to the       *)
(* program, the one the loop offered before: pending_input looks at the token anew in   *)
(* every turn.                                                                          *)
LateOnce == \A v \in Views : late[v] <= 1

(* Input of a view that has gone leaves the queue although the program never reads and  *)
(* other input is before it: maintain drops it, and with it its part of the budget.     *)
AllWrites == UNION {DOMAIN l.writes : l \in Loads}
Left(v) ==
  \A i \in DOMAIN queue : Cancelled(queue[i]) /\ By(queue[i].w) = v => InFlight /\ i = 1
CancelledLeaves == \A v \in Views : v \notin live ~> []Left(v)

(* Every caller is answered while the program reads, also for input with no bytes,      *)
(* which transfer never reports as written.                                             *)
Answered ==
  \A w \in AllWrites :
    reads /\ w \in Writes /\ answer[w] = "waits" ~> answer[w] # "waits"

(* The comment on type_line (runtime.rs): "When a person types in the pause, the text   *)
(* stays in the terminal for them".  Enter of a message of this computer does not      *)
(* follow, whichever way the person's input came.                                      *)
TextStays == \A e \in typed : Kind(e) = "message" => Got(e) = {}

(* What the program gets: whole writes, in order, within the budget, and nothing of a   *)
(* view that lost its right to type but what was already offered.                       *)
InputWhole == TypeOK /\ StaysWhole /\ InOrder /\ LateOnce

(* What callers are told: an answer is true of the bytes, and Enter of a message does   *)
(* not follow what a person typed.                                                      *)
AnswersTrue == AnswerTrue /\ TextStays

(* Nothing waits for ever: input of a view that has gone leaves the queue, and every    *)
(* caller of a program that reads is answered.                                          *)
InputProgress == CancelledLeaves /\ Answered

=============================================================================
