-------------------------------- MODULE Telemetry --------------------------------
(***************************************************************************)
(* The telemetry of the command line (src/umx/telemetry.py), for a user    *)
(* who has enabled it: every command appends an event to a queue file and  *)
(* uploads the oldest events of the queue.  The server may switch          *)
(* telemetry off for good.  Commands overlap, die, and get no answer; the  *)
(* queue and the state are files that are read, and written anew.          *)
(***************************************************************************)
EXTENDS Integers, Sequences, FiniteSetsExt, SequencesExt

CONSTANTS
  Proc,
  Batch,      \* events sent at once (batch_size)
  MaxQueue,   \* events kept (TELEMETRY_MAX_QUEUE_EVENTS)
  MaxEvents,  \* bound: commands in one behaviour
  MaxActs     \* bound: deaths, delays and changes of the server

Event == 1 .. MaxEvents
State == {"fresh", "waiting", "disabled"}   \* a file that is missing or torn is fresh

VARIABLES
  queue,   \* the lines of queue.jsonl
  state,   \* state.json
  server,  \* what the server does
  got,     \* got[e]: how often the server has stored event e
  pc,      \* pc[p]: what p does next
  seen,    \* seen[p]: the state as read
  mine,    \* mine[p]: the events that p is to write, or has sent
  made, acts,
  dropped, \* ghost: events dropped because the queue was full, or telemetry was off
  off,     \* ghost: the server's switch is on disk
  sentOff, \* ghost: something was sent after that
  breach   \* ghost: "overlap" of two commands; "died"; "unheard", the server's answer was lost

program == <<pc, seen, mine>>
ghost == <<dropped, off, sentOff, breach>>
vars == <<queue, state, server, got, program, made, acts, ghost>>

TypeOK ==
  /\ queue \in Seq(Event) /\ Len(queue) <= MaxQueue /\ state \in State /\ server \in {"up", "down", "off"}
  /\ got \in [Event -> 0 .. MaxEvents]
  /\ pc \in [Proc -> {"idle", "save", "load", "send", "stored", "failed", "off", "cut", "clear"}]
  /\ seen \in [Proc -> State] /\ \A p \in Proc : mine[p] \in Seq(Event)
  /\ made \in 0 .. MaxEvents /\ acts \in 0 .. MaxActs
  /\ dropped \subseteq Event /\ {off, sentOff} \subseteq BOOLEAN /\ breach \subseteq {"overlap", "died", "unheard"}

Init ==
  /\ queue = <<>> /\ state = "fresh" /\ server = "up" /\ got = [e \in Event |-> 0]
  /\ pc = [p \in Proc |-> "idle"] /\ seen = [p \in Proc |-> "fresh"] /\ mine = [p \in Proc |-> <<>>]
  /\ made = 0 /\ acts = 0 /\ dropped = {} /\ off = FALSE /\ sentOff = FALSE /\ breach = {}

Set(f, p, x) == [f EXCEPT ![p] = x]
Goto(p, step) == pc' = Set(pc, p, step)
Finish(p) == Goto(p, "idle") /\ seen' = Set(seen, p, "fresh") /\ mine' = Set(mine, p, <<>>)
Act == acts < MaxActs /\ acts' = acts + 1
Kept(q) == SubSeq(q, Max({1, Len(q) - MaxQueue + 1}), Len(q))

-----------------------------------------------------------------------------
(* The end of a command.                                                    *)

\* Unless telemetry is off, the command's event is added to the queue as read.
Record(p) ==
  /\ pc[p] = "idle" /\ made < MaxEvents /\ made' = made + 1
  /\ IF state = "disabled"
     THEN dropped' = dropped \union {made'} /\ UNCHANGED <<program, breach>>
     ELSE /\ seen' = Set(seen, p, state) /\ mine' = Set(mine, p, Append(queue, made')) /\ Goto(p, "save")
          /\ breach' = breach \union (IF \E q \in Proc : pc[q] # "idle" THEN {"overlap"} ELSE {})
          /\ UNCHANGED dropped
  /\ UNCHANGED <<queue, state, server, got, acts, off, sentOff>>

\* The last events are written; if an upload has failed a short while ago, that is all.
SaveQueue(p) ==
  /\ pc[p] = "save" /\ queue' = Kept(mine[p])
  /\ dropped' = dropped \union (Range(mine[p]) \ Range(queue'))
  /\ IF seen[p] = "waiting" THEN Finish(p) ELSE Goto(p, "load") /\ UNCHANGED <<seen, mine>>
  /\ UNCHANGED <<state, server, got, made, acts, off, sentOff, breach>>

\* The oldest events of the queue, read again, are to be sent.
LoadBatch(p) ==
  /\ pc[p] = "load"
  /\ IF queue = <<>> THEN Finish(p)
     ELSE mine' = Set(mine, p, SubSeq(queue, 1, Min({Batch, Len(queue)}))) /\ Goto(p, "send") /\ UNCHANGED seen
  /\ UNCHANGED <<queue, state, server, got, made, acts, ghost>>

\* The server stores the batch, and answers; it may be off; and no answer may come, although it has
\* stored the batch.
SendBatch(p) ==
  /\ pc[p] = "send"
  /\ \E stores \in BOOLEAN :
       /\ (server = "up" => stores) /\ (server = "off" => ~stores)
       /\ got' = [e \in Event |-> IF stores /\ e \in Range(mine[p]) THEN got[e] + 1 ELSE got[e]]
       /\ Goto(p, CASE server = "up" -> "stored" [] server = "down" -> "failed" [] server = "off" -> "off")
       /\ breach' = breach \union (IF stores /\ server = "down" THEN {"unheard"} ELSE {})
  /\ sentOff' = (sentOff \/ off)
  /\ UNCHANGED <<queue, state, server, seen, mine, made, acts, dropped, off>>

\* Mutant: the queue is emptied.
Remaining_None(p) == <<>>
\* What stays in the queue, read again: all but as many events as were sent.
Remaining(p) == SubSeq(queue, Len(mine[p]) + 1, Len(queue))

\* _record_success and _record_failure save the state that was read, and when to try again.
Stored(p) ==
  /\ pc[p] = "stored" /\ state' = "fresh" /\ mine' = Set(mine, p, Remaining(p)) /\ Goto(p, "cut")
  /\ UNCHANGED <<queue, server, got, seen, made, acts, ghost>>

CutQueue(p) ==
  /\ pc[p] = "cut" /\ queue' = mine[p] /\ Finish(p)
  /\ UNCHANGED <<state, server, got, made, acts, ghost>>

Failed(p) ==
  /\ pc[p] = "failed" /\ state' = "waiting" /\ Finish(p)
  /\ UNCHANGED <<queue, server, got, made, acts, ghost>>

\* _apply_server_kill_switch saves the switch, then empties the queue.
SwitchOff(p) ==
  /\ pc[p] = "off" /\ state' = "disabled" /\ off' = TRUE /\ Goto(p, "clear")
  /\ UNCHANGED <<queue, server, got, seen, mine, made, acts, dropped, sentOff, breach>>

ClearQueue(p) ==
  /\ pc[p] = "clear" /\ queue' = <<>> /\ dropped' = dropped \union Range(queue) /\ Finish(p)
  /\ UNCHANGED <<state, server, got, made, acts, off, sentOff, breach>>

-----------------------------------------------------------------------------
(* The environment.                                                         *)

ServerChanges ==
  /\ server # "off" /\ Act /\ server' \in {"up", "down", "off"} \ {server}
  /\ UNCHANGED <<queue, state, got, program, made, ghost>>

\* The fifteen minutes of TELEMETRY_RETRY_DELAY are over.
DelayEnds ==
  /\ state = "waiting" /\ Act /\ state' = "fresh"
  /\ UNCHANGED <<queue, server, got, program, made, ghost>>

\* A death while a file is written leaves it torn: some of the events, or a fresh state.
Die(p) ==
  /\ pc[p] # "idle" /\ Act /\ breach' = breach \union {"died"}
  /\ queue' \in {queue} \union (IF pc[p] \in {"save", "cut"} THEN {SubSeq(mine[p], 1, n) : n \in 0 .. Min({MaxQueue, Len(mine[p])})} ELSE {})
  /\ state' \in {state} \union (IF pc[p] \in {"stored", "failed", "off"} THEN {"fresh"} ELSE {})
  /\ Finish(p)
  /\ UNCHANGED <<server, got, made, dropped, off, sentOff>>

Next ==
  \/ \E p \in Proc :
       \/ Record(p) \/ SaveQueue(p) \/ LoadBatch(p) \/ SendBatch(p)
       \/ Stored(p) \/ CutQueue(p) \/ Failed(p) \/ SwitchOff(p) \/ ClearQueue(p) \/ Die(p)
  \/ ServerChanges \/ DelayEnds

Spec == Init /\ [][Next]_vars

-----------------------------------------------------------------------------
(* Properties.                                                              *)

Writing == UNION {Range(mine[p]) : p \in {q \in Proc : pc[q] \in {"save", "cut"}}}

\* Unless commands overlapped or died, an event is in the queue, was sent, or was dropped because
\* the queue was full or telemetry off; and unless an answer was lost, it was sent once
\* (telemetry.py:416).
EventsArriveOnce ==
  /\ breach \subseteq {"unheard"} => \A e \in 1 .. made : e \in Range(queue) \union dropped \union Writing \/ got[e] > 0
  /\ breach = {} => \A e \in Event : got[e] <= 1

\* Once the server's switch is on disk, nothing is sent any more (telemetry.py:299).
SwitchedOffForGood == breach \subseteq {"unheard"} => ~sentOff
=============================================================================
