----------------------------- MODULE SchedStats -----------------------------
(***************************************************************************)
(* Scheduler statistics over console port 2.  Host threads ask the         *)
(* scheduler in the guest for its statistics through clones of one         *)
(* SchedStatsClient; the freeze coordinator does so before each periodic   *)
(* capture, and blocks until it has an answer.  A request crosses the      *)
(* port as a line and a newline, a relay thread of the guest's init        *)
(* forwards it to the socket of the scheduler, and what comes back is      *)
(* collected by a drainer thread on the host.  There is no time-out: what  *)
(* ends a request is an answer, an error envelope of the relay, a freeze   *)
(* or the end of the run.                                                  *)
(*                                                                         *)
(* Requests are numbered from 1; 0 is the newline among the bytes that go  *)
(* in, and the envelope (or the answer to a line that is no request) among *)
(* those that come out.  A byte of output stands for a stretch of bytes:   *)
(* the request it answers, whether a newline ends it, and, for the         *)
(* properties only, whether it reached the host after the request of the   *)
(* moment had begun.                                                       *)
(***************************************************************************)
EXTENDS Naturals, Sequences, FiniteSets

CONSTANTS
  Coord,          \* the freeze coordinator, a caller
  Clones,         \* other threads that hold a clone of the client
  MaxAsk,         \* bound: requests of one clone
  NumSnapshots,   \* periodic captures of the run
  MaxResponse,    \* MAX_RESPONSE_BYTES
  Answers,        \* the lengths of an answer
  MaxLives        \* bound: schedulers started in the run

ASSUME StatsAssumption ==
  /\ Coord \notin Clones /\ IsFiniteSet(Clones)
  /\ {MaxAsk, NumSnapshots, MaxLives} \subseteq Nat
  /\ MaxResponse \in Nat \ {0}
  /\ Answers \subseteq Nat \ {0} /\ Answers # {}

Callers == Clones \cup {Coord}
MaxSeq == NumSnapshots + MaxAsk * Cardinality(Clones)

VARIABLES
  pc,         \* where each caller is in request_raw
  asked,      \* calls made by each clone
  seq,        \* requests started
  inFlight,   \* request_in_flight
  respBuf,    \* response_buf
  clean,      \* history: no envelope was sent and no request given up
  drainer,    \* where the drainer is
  batch,      \* bytes it has taken from the device and not yet routed
  kill,       \* the kill flag, which is also the client's cancel flag
  killEvt,    \* kill_evt, which is also cancel_evt, is readable
  txBuf,      \* tx_buf of port 2
  pending,    \* pending_rx of port 2
  opened,     \* the guest has opened port 2
  rx,         \* filled receive buffers of the guest's port
  relay,      \* where the relay is
  out,        \* what the relay is writing to the port
  toSched, fromSched,  \* the two directions of the relay's socket
  peer,       \* the scheduler at its other end is alive
  sched,      \* a scheduler listens
  lives,      \* schedulers started
  coord,      \* where the coordinator is
  idx,        \* next_periodic_idx
  end         \* how far run_vm and collect_results are

client == <<pc, asked, seq, inFlight, respBuf, clean>>
drain  == <<drainer, batch>>
events == <<kill, killEvt>>
port   == <<txBuf, pending, opened>>
guest  == <<rx, relay, out, toSched, fromSched, peer, sched, lives>>
run    == <<coord, idx, end>>
vars   == <<client, drain, events, port, guest, run>>

Byte(of, last) == [of |-> of, end |-> last, fresh |-> TRUE]
Envelope == Byte(0, TRUE)
Aged(bytes, f) == [i \in DOMAIN bytes |-> [bytes[i] EXCEPT !.fresh = f]]

Places == {"idle", "lock", "mark", "clear", "line", "newline", "check", "wait", "sleep"}

\* Every variable has its type, and the response buffer its cap.
TypeOK ==
  /\ pc \in [Callers -> Places]
  /\ asked \in [Clones -> 0..MaxAsk]
  /\ seq \in 0..MaxSeq
  /\ {inFlight, clean, kill, killEvt, opened, peer, sched} \subseteq BOOLEAN
  /\ Len(respBuf) <= 2 * MaxResponse
  /\ drainer \in {"poll", "route", "append", "bye", "gone"}
  /\ pending \in Seq(0..MaxSeq)
  /\ relay \in {"closed", "wait", "session", "lost", "stopped"}
  /\ lives \in 0..MaxLives
  /\ coord \in {"idle", "asking", "freezing", "frozen", "exited"}
  /\ idx \in 0..NumSnapshots
  /\ end \in {"run", "bsp", "collected"}

Init ==
  /\ pc = [c \in Callers |-> "idle"]
  /\ asked = [c \in Clones |-> 0]
  /\ seq = 0 /\ inFlight = FALSE /\ respBuf = <<>> /\ clean = TRUE
  /\ drainer = "poll" /\ batch = <<>>
  /\ kill = FALSE /\ killEvt = FALSE
  /\ txBuf = <<>> /\ pending = <<>> /\ opened = FALSE
  /\ rx = <<>> /\ relay = "closed" /\ out = <<>>
  /\ toSched = <<>> /\ fromSched = <<>> /\ peer = FALSE
  /\ sched = FALSE /\ lives = 0
  /\ coord = "idle" /\ idx = 0 /\ end = "run"

Freeze == coord \in {"freezing", "frozen"}

\* The mutex of the device is held between the two pushes of a request, that
\* of the response buffer from the last test of a caller until it sleeps.
DeviceFree == \A c \in Callers : pc[c] # "newline"
BufferFree == \A c \in Callers : pc[c] # "wait"

Go(c, place) == pc' = [pc EXCEPT ![c] = place]

-----------------------------------------------------------------------------
(* request_raw *)

\* A clone calls; during a freeze and after kill it is refused at once.
Call(c) ==
  /\ pc[c] = "idle" /\ asked[c] < MaxAsk /\ ~Freeze /\ ~kill
  /\ asked' = [asked EXCEPT ![c] = @ + 1]
  /\ Go(c, "lock")
  /\ UNCHANGED <<seq, inFlight, respBuf, clean, drain, events, port, guest, run>>

Holders == {c \in Callers : pc[c] \notin {"idle", "lock"}}

\* Variant for mutation: without the drain.
StartUndrained(c) ==
  /\ pc[c] = "lock" /\ Holders = {} /\ DeviceFree
  /\ seq' = seq + 1
  /\ txBuf' = Aged(txBuf, FALSE)
  /\ batch' = Aged(batch, TRUE) /\ respBuf' = Aged(respBuf, FALSE)
  /\ Go(c, "mark")
  /\ UNCHANGED <<asked, inFlight, clean, drainer, events, pending, opened, guest, run>>

\* The lock is taken and the device drained.  Bytes the drainer has taken
\* before count as arriving now: this does not reach them.
Start(c) ==
  /\ pc[c] = "lock" /\ Holders = {} /\ DeviceFree
  /\ seq' = seq + 1
  /\ txBuf' = <<>>
  /\ batch' = Aged(batch, TRUE) /\ respBuf' = Aged(respBuf, FALSE)
  /\ Go(c, "mark")
  /\ UNCHANGED <<asked, inFlight, clean, drainer, events, pending, opened, guest, run>>

MarkInFlight(c) ==
  /\ pc[c] = "mark"
  /\ inFlight' = TRUE
  /\ Go(c, "clear")
  /\ UNCHANGED <<asked, seq, respBuf, clean, drain, events, port, guest, run>>

ClearResponse(c) ==
  /\ pc[c] = "clear" /\ BufferFree
  /\ respBuf' = <<>>
  /\ Go(c, "line")
  /\ UNCHANGED <<asked, seq, inFlight, clean, drain, events, port, guest, run>>

\* Variant for mutation: what is delivered stays in pending_rx.
DeliverKeeps(bytes) ==
  /\ rx' = IF opened THEN Append(rx, bytes) ELSE rx
  /\ pending' = bytes

\* queue_input_port2 on what pending_rx holds by then.
Deliver(bytes) ==
  IF opened THEN rx' = Append(rx, bytes) /\ pending' = <<>>
            ELSE pending' = bytes /\ UNCHANGED rx

\* clear_port2_pending_rx and the first push, then the second.
PushLine(c) ==
  /\ pc[c] = "line" /\ DeviceFree
  /\ Deliver(<<seq>>)
  /\ Go(c, "newline")
  /\ UNCHANGED <<asked, seq, inFlight, respBuf, clean, drain, events, txBuf, opened,
                 relay, out, toSched, fromSched, peer, sched, lives, run>>

PushNewline(c) ==
  /\ pc[c] = "newline"
  /\ Deliver(Append(pending, 0))
  /\ Go(c, "check")
  /\ UNCHANGED <<asked, seq, inFlight, respBuf, clean, drain, events, txBuf, opened,
                 relay, out, toSched, fromSched, peer, sched, lives, run>>

LineEnds == {i \in DOMAIN respBuf : respBuf[i].end}

\* One turn of the loop: a line, too much without one, a freeze, the end of
\* the run, or nothing yet.  On return the guards clear the flag and free
\* the lock.
Check(c) ==
  /\ pc[c] = "check"
  /\ \/ /\ \E e \in LineEnds : /\ \A i \in LineEnds : e <= i
                               /\ respBuf' = SubSeq(respBuf, e + 1, Len(respBuf))
        /\ Go(c, "idle") /\ inFlight' = FALSE /\ UNCHANGED clean
     \/ /\ LineEnds = {} /\ (Len(respBuf) > MaxResponse \/ Freeze \/ kill)
        /\ respBuf' = <<>> /\ clean' = FALSE
        /\ Go(c, "idle") /\ inFlight' = FALSE
     \/ /\ LineEnds = {} /\ Len(respBuf) <= MaxResponse /\ ~Freeze /\ ~kill
        /\ Go(c, "wait") /\ UNCHANGED <<respBuf, clean, inFlight>>
  /\ UNCHANGED <<asked, seq, drain, events, port, guest, run>>

Sleep(c) ==
  /\ pc[c] = "wait"
  /\ Go(c, "sleep")
  /\ UNCHANGED <<asked, seq, inFlight, respBuf, clean, drain, events, port, guest, run>>

-----------------------------------------------------------------------------
(* drainer_loop *)

NotifyAll == pc' = [c \in Callers |-> IF pc[c] = "sleep" THEN "check" ELSE pc[c]]

\* stats_tx_evt is written after the bytes and read before they are taken,
\* so it is readable whenever bytes wait.
DrainData ==
  /\ drainer = "poll" /\ txBuf # <<>> /\ DeviceFree
  /\ batch' = txBuf /\ txBuf' = <<>>
  /\ drainer' = "route"
  /\ UNCHANGED <<client, events, pending, opened, guest, run>>

DrainRoute ==
  /\ drainer = "route"
  /\ IF inFlight THEN drainer' = "append" /\ UNCHANGED batch
                 ELSE drainer' = "poll" /\ batch' = <<>>
  /\ UNCHANGED <<client, events, port, guest, run>>

\* Variant for mutation: the hard cap forgotten.
DrainAppendUncapped ==
  /\ drainer = "append" /\ BufferFree
  /\ respBuf' = respBuf \o batch /\ UNCHANGED clean
  /\ NotifyAll
  /\ batch' = <<>> /\ drainer' = "poll"
  /\ UNCHANGED <<asked, seq, inFlight, events, port, guest, run>>

DrainAppend ==
  /\ drainer = "append" /\ BufferFree
  /\ IF Len(respBuf) + Len(batch) > 2 * MaxResponse
       THEN respBuf' = <<Envelope>> /\ clean' = FALSE
       ELSE respBuf' = respBuf \o batch /\ UNCHANGED clean
  /\ NotifyAll
  /\ batch' = <<>> /\ drainer' = "poll"
  /\ UNCHANGED <<asked, seq, inFlight, events, port, guest, run>>

DrainCancel ==
  /\ drainer = "poll" /\ killEvt
  /\ killEvt' = FALSE
  /\ drainer' = "bye"
  /\ UNCHANGED <<client, batch, kill, port, guest, run>>

\* Variant for mutation: the last notification without the lock.
DrainByeUnlocked ==
  /\ drainer = "bye"
  /\ NotifyAll
  /\ drainer' = "gone"
  /\ UNCHANGED <<asked, seq, inFlight, respBuf, clean, batch, events, port, guest, run>>

DrainBye ==
  /\ drainer = "bye" /\ BufferFree
  /\ NotifyAll
  /\ drainer' = "gone"
  /\ UNCHANGED <<asked, seq, inFlight, respBuf, clean, batch, events, port, guest, run>>

-----------------------------------------------------------------------------
(* The relay of the guest's init *)

Running == coord # "frozen" /\ relay # "stopped"
RelayAt(place) == Running /\ relay = place /\ out = <<>>

\* sched_stats_relay_loop opens the port; the device then passes on what it
\* has kept, in one buffer.
OpenPort ==
  /\ RelayAt("closed") /\ DeviceFree
  /\ opened' = TRUE
  /\ rx' = IF pending = <<>> THEN rx ELSE Append(rx, pending)
  /\ pending' = <<>>
  /\ relay' = "wait"
  /\ UNCHANGED <<client, drain, events, txBuf, out, toSched, fromSched, peer, sched, lives, run>>

\* wait_for_stats_socket connects, at once or on the event of a new socket.
\* Nothing says it must: the socket may not listen yet when the event comes,
\* and the relay then waits for another.
Connect ==
  /\ RelayAt("wait") /\ sched
  /\ relay' = "session" /\ peer' = TRUE
  /\ UNCHANGED <<client, drain, events, port, rx, out, toSched, fromSched, sched, lives, run>>

\* Variant for mutation: an envelope without the read.
RefuseUnread ==
  /\ RelayAt("wait") \/ RelayAt("lost")
  /\ rx # <<>>
  /\ out' = <<Envelope>> /\ clean' = FALSE
  /\ UNCHANGED <<pc, asked, seq, inFlight, respBuf, drain, events, port, rx, relay, toSched,
                 fromSched, peer, sched, lives, run>>

\* One envelope for each read: while it waits, and, once a session is lost,
\* until the port is empty.
Refuse ==
  /\ RelayAt("wait") \/ RelayAt("lost")
  /\ rx # <<>>
  /\ rx' = Tail(rx)
  /\ out' = <<Envelope>> /\ clean' = FALSE
  /\ UNCHANGED <<pc, asked, seq, inFlight, respBuf, drain, events, port, relay, toSched,
                 fromSched, peer, sched, lives, run>>

PortIsEmpty ==
  /\ RelayAt("lost") /\ rx = <<>>
  /\ relay' = "wait" /\ fromSched' = <<>>
  /\ UNCHANGED <<client, drain, events, port, rx, out, toSched, peer, sched, lives, run>>

\* A request is forwarded, or refused when the scheduler has gone.
Forward ==
  /\ RelayAt("session") /\ rx # <<>>
  /\ rx' = Tail(rx)
  /\ IF peer
       THEN toSched' = toSched \o Head(rx) /\ UNCHANGED <<relay, out, clean>>
       ELSE relay' = "lost" /\ out' = <<Envelope>> /\ clean' = FALSE /\ UNCHANGED toSched
  /\ UNCHANGED <<pc, asked, seq, inFlight, respBuf, drain, events, port, fromSched, peer,
                 sched, lives, run>>

\* An answer goes back; what a dead scheduler has written can still be read.
Backward ==
  /\ RelayAt("session") /\ fromSched # <<>>
  /\ out' = fromSched /\ fromSched' = <<>>
  /\ UNCHANGED <<client, drain, events, port, rx, relay, toSched, peer, sched, lives, run>>

\* End of file, a hang-up, or an error, which also loses what could be read.
LoseSocket ==
  /\ RelayAt("session") /\ ~peer
  /\ relay' = "lost" /\ out' = <<Envelope>> /\ clean' = FALSE
  /\ UNCHANGED <<pc, asked, seq, inFlight, respBuf, drain, events, port, rx, toSched,
                 fromSched, peer, sched, lives, run>>

\* write_all to the port, which process_tx takes up buffer by buffer.
WritePort ==
  /\ Running /\ out # <<>> /\ DeviceFree
  /\ txBuf' = Append(txBuf, Head(out))
  /\ out' = Tail(out)
  /\ UNCHANGED <<client, drain, events, pending, opened, rx, relay, toSched, fromSched,
                 peer, sched, lives, run>>

\* The guest stops the relay, hangs or is gone: nothing in it matters then.
GuestStops ==
  /\ relay' = "stopped"
  /\ rx' = <<>> /\ out' = <<>> /\ toSched' = <<>> /\ fromSched' = <<>>
  /\ peer' = FALSE /\ sched' = FALSE
  /\ UNCHANGED lives

Stop ==
  /\ Running /\ GuestStops
  /\ UNCHANGED <<client, drain, events, port, run>>

-----------------------------------------------------------------------------
(* The schedulers (external) *)

SchedStart ==
  /\ Running /\ ~sched /\ lives < MaxLives
  /\ sched' = TRUE /\ lives' = lives + 1
  /\ UNCHANGED <<client, drain, events, port, rx, relay, out, toSched, fromSched, peer, run>>

Answer(k, n) == [i \in 1..n |-> Byte(k, i = n)]

\* One answer for each line; a line that is not one request gets an error.
SchedAnswer ==
  /\ Running /\ peer
  /\ \E e \in DOMAIN toSched, n \in Answers :
       /\ toSched[e] = 0 /\ \A i \in 1..(e - 1) : toSched[i] # 0
       /\ toSched' = SubSeq(toSched, e + 1, Len(toSched))
       /\ fromSched' = fromSched \o Answer(IF e = 2 THEN toSched[1] ELSE 0, n)
  /\ UNCHANGED <<client, drain, events, port, rx, relay, out, peer, sched, lives, run>>

SchedExit ==
  /\ Running /\ sched
  /\ sched' = FALSE /\ peer' = FALSE /\ toSched' = <<>>
  /\ UNCHANGED <<client, drain, events, port, rx, relay, out, fromSched, lives, run>>

-----------------------------------------------------------------------------
(* The coordinator's periodic captures and the end of the run *)

\* A boundary has passed.  Without a client, or with kill raised just after
\* it was tested here, the request returns at once.
PeriodicDue ==
  /\ coord = "idle" /\ idx < NumSnapshots /\ ~kill
  /\ coord' = "asking"
  /\ Go(Coord, "lock") \/ UNCHANGED pc
  /\ UNCHANGED <<asked, seq, inFlight, respBuf, clean, drain, events, port, guest, idx, end>>

PeriodicFreeze ==
  /\ coord = "asking" /\ pc[Coord] = "idle"
  /\ coord' = "freezing"
  /\ UNCHANGED <<client, drain, events, port, guest, idx, end>>

Rendezvous ==
  /\ coord = "freezing" /\ end = "run"
  /\ coord' = "frozen"
  /\ UNCHANGED <<client, drain, events, port, guest, idx, end>>

\* The guest is thawed, stopped or not, and the sample stored.
PeriodicStore ==
  /\ Freeze
  /\ idx' = idx + 1 /\ coord' = "idle"
  /\ UNCHANGED <<client, drain, events, port, guest, end>>

CoordReadsKill ==
  /\ coord = "idle" /\ killEvt
  /\ killEvt' = FALSE
  /\ UNCHANGED <<client, drain, kill, port, guest, run>>

CoordExits ==
  /\ coord = "idle" /\ kill
  /\ coord' = "exited"
  /\ UNCHANGED <<client, drain, events, port, guest, idx, end>>

\* Any thread may end the run; the watchdog does when the guest is stuck.
Kill ==
  /\ ~kill
  /\ kill' = TRUE /\ killEvt' = TRUE
  /\ UNCHANGED <<client, drain, port, guest, run>>

BspEnds ==
  /\ kill /\ end = "run" /\ coord # "frozen"
  /\ killEvt' = TRUE /\ end' = "bsp"
  /\ GuestStops
  /\ UNCHANGED <<client, drain, kill, port, coord, idx>>

CollectResults ==
  /\ end = "bsp" /\ coord = "exited"
  /\ killEvt' = TRUE /\ end' = "collected"
  /\ UNCHANGED <<client, drain, kill, port, guest, coord, idx>>

-----------------------------------------------------------------------------
Request(c) ==
  \/ Start(c) \/ MarkInFlight(c) \/ ClearResponse(c) \/ PushLine(c) \/ PushNewline(c)
  \/ Check(c) \/ Sleep(c)

Drainer == DrainData \/ DrainRoute \/ DrainAppend \/ DrainCancel \/ DrainBye

Relay ==
  \/ OpenPort \/ Refuse \/ PortIsEmpty \/ Forward \/ Backward \/ LoseSocket \/ WritePort

Coordinator == PeriodicFreeze \/ Rendezvous \/ PeriodicStore \/ CoordReadsKill \/ CoordExits

Over == end = "collected" /\ drainer = "gone" /\ \A c \in Callers : pc[c] = "idle"

Next ==
  \/ \E c \in Clones : Call(c)
  \/ \E c \in Callers : Request(c)
  \/ Drainer \/ Relay \/ Connect \/ Stop \/ SchedStart \/ SchedAnswer \/ SchedExit
  \/ PeriodicDue \/ Coordinator \/ Kill \/ BspEnds \/ CollectResults
  \/ Over /\ UNCHANGED vars

Spec == Init /\ [][Next]_vars

(***************************************************************************)
(* What goes on by itself: the threads of the host, the relay and a        *)
(* connected scheduler as long as the guest runs, and, once it does not,   *)
(* the end of the run (the watchdog, or the exit of the BSP).  Nobody need *)
(* ask, no boundary need come, no scheduler need start, exit or be         *)
(* connected to, and nothing else need end the run.                        *)
(***************************************************************************)
Progress ==
  \/ \E c \in Callers : Request(c)
  \/ Drainer \/ Relay \/ SchedAnswer \/ Coordinator
  \/ (relay = "stopped" /\ Kill) \/ BspEnds \/ CollectResults

-----------------------------------------------------------------------------
\* A caller holds the response buffer and is about to look at it.
Reads == \E c \in Callers : pc[c] = "check"

\* Callers that overlap do not get each other's answers: as long as no
\* envelope has been sent and no request given up, all that request_raw finds
\* in the buffer answers the request it has just made (request_lock, and the
\* order of drain, flag, clear and push).
AnswersAreOwn == Reads /\ clean => \A i \in DOMAIN respBuf : respBuf[i].of = seq

\* Whatever has gone before, request_raw never finds bytes in the buffer that
\* had reached the device before it began, those in the drainer's hands
\* excepted: they are drained, cleared or discarded.
OldBytesAreDropped == Reads => \A i \in DOMAIN respBuf : respBuf[i].fresh

(***************************************************************************)
(* Where Progress can take a step: the guards of its actions.              *)
(***************************************************************************)
CallerGoesOn(c) ==
  \/ pc[c] = "lock" /\ Holders = {} /\ DeviceFree
  \/ pc[c] \in {"mark", "newline", "check", "wait"}
  \/ pc[c] = "clear" /\ BufferFree
  \/ pc[c] = "line" /\ DeviceFree
DrainerGoesOn ==
  \/ drainer = "poll" /\ ((txBuf # <<>> /\ DeviceFree) \/ killEvt)
  \/ drainer = "route"
  \/ drainer \in {"append", "bye"} /\ BufferFree
RelayGoesOn ==
  \/ Running /\ out # <<>> /\ DeviceFree
  \/ RelayAt("closed") /\ DeviceFree
  \/ RelayAt("wait") /\ rx # <<>>
  \/ RelayAt("lost")
  \/ RelayAt("session") /\ (rx # <<>> \/ fromSched # <<>> \/ ~peer)
SchedGoesOn == Running /\ peer /\ \E i \in DOMAIN toSched : toSched[i] = 0
CoordGoesOn ==
  \/ coord = "asking" /\ pc[Coord] = "idle"
  \/ Freeze
  \/ coord = "idle" /\ (kill \/ killEvt)
RunGoesOn ==
  \/ relay = "stopped" /\ ~kill
  \/ kill /\ end = "run" /\ coord # "frozen"
  \/ end = "bsp" /\ coord = "exited"
GoesOn ==
  \/ \E c \in Callers : CallerGoesOn(c)
  \/ DrainerGoesOn \/ RelayGoesOn \/ SchedGoesOn \/ CoordGoesOn \/ RunGoesOn

\* No request hangs, although none has a time-out, and the coordinator is
\* not held up in one when the run ends: where nothing goes on by itself any
\* more, every caller has returned, and after kill the coordinator has left
\* (the notifications of drainer_loop, the writes to kill_evt, the envelopes
\* of the relay).
NoRequestHangs ==
  GoesOn \/ ((\A c \in Callers : pc[c] = "idle") /\ (kill => coord = "exited"))

(***************************************************************************)
(* What the steps of Progress use up.                                      *)
(***************************************************************************)
At(place) == \E c \in Callers : pc[c] = place

EndLeft == (IF kill THEN 0 ELSE 1) + (CASE end = "run" -> 2 [] end = "bsp" -> 1 [] OTHER -> 0)
CaptureLeft == CASE coord = "asking" -> 4 [] coord = "freezing" -> 3 [] coord = "frozen" -> 2
                 [] coord = "idle" -> 1 [] OTHER -> 0
EventLeft == IF killEvt THEN 1 ELSE 0
DrainerLeft == IF drainer = "gone" THEN 0 ELSE 1
StartsLeft == MaxSeq - seq
PushLeft == CASE At("mark") -> 4 [] At("clear") -> 3 [] At("line") -> 2 [] At("newline") -> 1
              [] OTHER -> 0
OpenLeft == IF relay = "closed" THEN 1 ELSE 0
SessionLeft == CASE relay = "session" -> 2 [] relay = "lost" -> 1 [] OTHER -> 0
BatchLeft == CASE drainer = "route" -> 2 [] drainer = "append" -> 1 [] OTHER -> 0
LookLeft == CASE At("check") -> 2 [] At("wait") -> 1 [] OTHER -> 0

\* The lexicographic order: less is left of a, or as much and less of the rest.
Falls(a, b, rest) == a < b \/ (a = b /\ rest)
LessLeft ==
  Falls(EndLeft', EndLeft, Falls(CaptureLeft', CaptureLeft, Falls(EventLeft', EventLeft,
  Falls(DrainerLeft', DrainerLeft, Falls(StartsLeft', StartsLeft, Falls(PushLeft', PushLeft,
  Falls(OpenLeft', OpenLeft, Falls(Len(rx'), Len(rx), Falls(SessionLeft', SessionLeft,
  Falls(Len(toSched'), Len(toSched), Falls(Len(fromSched'), Len(fromSched),
  Falls(Len(out'), Len(out), Falls(Len(txBuf'), Len(txBuf), Falls(BatchLeft', BatchLeft,
  LookLeft' < LookLeft))))))))))))))

\* What goes on by itself comes to an end: no loop of request_raw, of the
\* drainer, the relay or the coordinator turns for ever without a new
\* request, scheduler or capture, since each of its steps leaves less to do.
ProgressIsFinite == [][LessLeft \/ ~Progress]_vars
=============================================================================
