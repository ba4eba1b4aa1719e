------------------------------ MODULE StockBle ------------------------------
(***************************************************************************)
(* The stock service's transport, main/stock_ble.c, with the frame         *)
(* assembly of main/stock_protocol.c and the calls main/main.c makes.      *)
(*                                                                         *)
(* Two tasks share s_ble under a spin lock: the NimBLE host (link events,  *)
(* writes of the phone, the transmit event) and the main loop (the poll,   *)
(* the frame handler, notifications).  A critical section is one step, and *)
(* so is a host callback, which nothing else on the host task interrupts;  *)
(* the transmit event takes the lock once per packet and is several steps. *)
(*                                                                         *)
(* A write is known by its serial number among all writes of all phones;   *)
(* what its bytes do to the parser is a free choice: nothing (no bytes),   *)
(* extend a frame, complete one, or break one in either of two ways.  The  *)
(* link numbers in writes and packets are ghosts: s_ble has one handle,    *)
(* the same for every link, and tells links apart by session.              *)
(***************************************************************************)
EXTENDS Integers, Sequences

CONSTANTS QueueLength,      \* STOCK_BLE_QUEUE_LENGTH
          TxQueueLength,    \* TX_QUEUE_LENGTH
          Idle,             \* STOCK_BLE_IDLE_MS, in ticks of the clock
          SessionLimit,     \* largest session number, 2^32 - 1
          MaxLinks,         \* bound on the links of a behaviour
          MaxWrites,        \* bound on its writes
          MaxClock          \* bound on its clock

ASSUME StockBleAssumption ==
    /\ {QueueLength, TxQueueLength, Idle, SessionLimit} \subseteq Nat \ {0}
    /\ {MaxLinks, MaxWrites, MaxClock} \subseteq Nat

VARIABLES
    link, links,    \* the link that is up, 0 for none, and the number so far
    clock,          \* esp_timer_get_time
    writes,         \* ghost: the writes so far
    s,              \* s_ble
    event,          \* s_tx_event is in the host's event queue
    host,           \* where the host task is in tx_event
    w,              \* where the main loop is, and its locals
    stream,         \* s_stream, s_parser_session and s_last_received
    last,           \* last_session of main.c
    frame, sent     \* ghosts: the frame being dispatched, the packet just sent

vars == <<link, links, clock, writes, s, event, host, w, stream, last, frame, sent>>

NoError == [code |-> "NONE", link |-> 0]
NoWrite == [n |-> 0, t |-> 0, session |-> 0, link |-> 0]
NoPacket == [session |-> 0, code |-> "NONE", link |-> 0]
NoFrame == [parts |-> <<>>, link |-> 0]
NoSent == [link |-> 0, to |-> 0]
NoSession == [session |-> 0, link |-> 0]
NewStream(session) == [parts |-> <<>>, session |-> session, last |-> 0]

\* Response codes: 00 1b, 00 15, 00 10, 00 11, any other response, and a
\* screenshot packet, which goes to the other characteristic.
Code == {"NONE", "FULL", "LARGE", "BAD", "IDLE", "REPLY", "SHOT"}

Error == [code : Code, link : Nat]
Write == [n : Nat, t : Nat, session : Nat, link : Nat]
Packet == [session : Nat, code : Code, link : Nat]

WorkerPc == {"poll", "take", "check", "feed", "dispatch", "handler", "reply", "idle",
             "end", "shot", "notify", "put", "event"}

ServiceState ==
    [connected : BOOLEAN, blocked : BOOLEAN, status : BOOLEAN, shot : BOOLEAN,
     session : Nat \ {0}, pending : Error, queue : Seq(Write), tx : Seq(Packet)]
LoopState ==
    [pc : WorkerPc, session : Nat, now : Nat, processed : 0 .. QueueLength,
     ev : Write, out : Packet, ret : {"shot", "take", "feed", "end"}]
ParserState == [parts : Seq(Write), session : Nat, last : Nat]

Init ==
    /\ link = 0 /\ links = 0 /\ clock = 0 /\ writes = 0
    /\ s = [connected |-> FALSE, blocked |-> FALSE, status |-> FALSE, shot |-> FALSE,
            session |-> 1, pending |-> NoError, queue |-> <<>>, tx |-> <<>>]
    /\ event = FALSE
    /\ host = [pc |-> "ready", taken |-> 0]
    /\ w = [pc |-> "poll", session |-> 0, now |-> 0, processed |-> 0,
            ev |-> NoWrite, out |-> NoPacket, ret |-> "shot"]
    /\ stream = NewStream(0)
    /\ last = NoSession
    /\ frame = NoFrame /\ sent = NoSent

-----------------------------------------------------------------------------
(* Shared pieces *)

\* Mutant: one element too many.
RoomOneMore(q, length) == Len(q) <= length

\* Both queues are arrays.
Room(q, length) == Len(q) < length

\* Mutant: the queues are flushed and the session number stays.
next_session_same(b) == [b EXCEPT !.queue = <<>>, !.tx = <<>>]

\* Zero is skipped when the counter wraps.
next_session_locked(b) ==
    [b EXCEPT !.session = (@ % SessionLimit) + 1, !.queue = <<>>, !.tx = <<>>]

\* What on_connect and on_disconnect leave besides the connection itself.
Fresh(b, connected) ==
    [next_session_locked(b) EXCEPT !.connected = connected, !.status = FALSE,
        !.shot = FALSE, !.blocked = FALSE, !.pending = NoError]

reject_locked(b, code) ==
    [next_session_locked(b) EXCEPT
        !.blocked = TRUE, !.pending = [code |-> code, link |-> link]]

stock_ble_session_current(session) ==
    s.connected /\ s.session = session /\ ~s.blocked

Subscribed(code) == IF code = "SHOT" THEN s.shot ELSE s.status

-----------------------------------------------------------------------------
(* The host task: links and writes *)

HostReady == host.pc = "ready" /\ UNCHANGED <<event, host, w, stream, last, frame, sent>>

stock_ble_on_connect ==
    /\ HostReady
    /\ link = 0 /\ links < MaxLinks
    /\ links' = links + 1 /\ link' = links'
    /\ s' = IF s.connected THEN s ELSE Fresh(s, TRUE)
    /\ UNCHANGED <<clock, writes>>

stock_ble_on_disconnect == s' = IF s.connected THEN Fresh(s, FALSE) ELSE s

\* The link went down, or the host reset itself.
LinkDown ==
    /\ HostReady
    /\ link # 0 /\ link' = 0
    /\ stock_ble_on_disconnect
    /\ UNCHANGED <<links, clock, writes>>

\* wallet_ble gives up on the link, which is still up.
Cancel ==
    /\ HostReady
    /\ link # 0 /\ s.connected
    /\ stock_ble_on_disconnect
    /\ UNCHANGED <<link, links, clock, writes>>

stock_ble_on_subscribe ==
    /\ HostReady
    /\ link # 0 /\ s.connected
    /\ \E on \in BOOLEAN : s' = [s EXCEPT !.status = on] \/ s' = [s EXCEPT !.shot = on]
    /\ UNCHANGED <<link, links, clock, writes>>

\* A write of the phone to the write characteristic.  Too long a write is
\* rejected before the queue is looked at.
access_cb ==
    /\ HostReady
    /\ link # 0 /\ writes < MaxWrites
    /\ writes' = writes + 1
    /\ \E long \in BOOLEAN :
         s' = IF ~s.connected \/ s.blocked THEN s
              ELSE IF long THEN reject_locked(s, "LARGE")
              ELSE IF ~Room(s.queue, QueueLength) THEN reject_locked(s, "FULL")
              ELSE [s EXCEPT !.queue = Append(@,
                      [n |-> writes', t |-> clock, session |-> s.session, link |-> link])]
    /\ UNCHANGED <<link, links, clock>>

-----------------------------------------------------------------------------
(* The host task: the transmit event *)

TxStep == UNCHANGED <<link, links, clock, writes, w, stream, last, frame>>

TxBegin ==
    /\ TxStep /\ UNCHANGED <<s, sent>>
    /\ host.pc = "ready" /\ event
    /\ event' = FALSE
    /\ host' = [pc |-> "send", taken |-> 0]

\* One turn of the loop: the packet is sent if its session still is current
\* and the phone listens, unless it does not fit or no buffer is left.
TxSend ==
    /\ TxStep /\ UNCHANGED event
    /\ host.pc = "send"
    /\ IF s.tx = <<>> \/ host.taken = TxQueueLength
         THEN host' = [host EXCEPT !.pc = "more"] /\ UNCHANGED <<s, sent>>
         ELSE LET out == Head(s.tx)
              IN  /\ host' = [host EXCEPT !.taken = @ + 1]
                  /\ s' = [s EXCEPT !.tx = Tail(@)]
                  /\ \/ /\ stock_ble_session_current(out.session) /\ Subscribed(out.code)
                        /\ sent' = [link |-> link, to |-> out.link]
                     \/ UNCHANGED sent

TxMore ==
    /\ TxStep /\ UNCHANGED s
    /\ host.pc = "more"
    /\ event' = (event \/ s.tx # <<>>)
    /\ host' = [pc |-> "ready", taken |-> 0]
    /\ sent' = NoSent

-----------------------------------------------------------------------------
(* The main loop: notifications *)

Worker == UNCHANGED <<link, links, clock, writes, host, sent>>

\* Go on at pc; locals whose scope ends there are forgotten.
Goto(pc) ==
    w' = [w EXCEPT !.pc = pc, !.out = NoPacket, !.ret = "shot",
                   !.ev = IF pc = "take" THEN NoWrite ELSE @]

\* The call of notify that a step ends with.
Notify(session, code, to, ret) ==
    w' = [w EXCEPT !.pc = "notify", !.ret = ret,
                   !.out = [session |-> session, code |-> code, link |-> to]]

\* The first critical section of notify.
NotifyCheck ==
    /\ Worker /\ UNCHANGED <<s, event, stream, last, frame>>
    /\ w.pc = "notify"
    /\ LET allowed == stock_ble_session_current(w.out.session) /\ Subscribed(w.out.code)
       IN  IF allowed THEN w' = [w EXCEPT !.pc = "put"] ELSE Goto(w.ret)

\* The MTU, then the second critical section.
NotifyPut ==
    /\ Worker /\ UNCHANGED <<event, stream, last, frame>>
    /\ w.pc = "put"
    /\ LET allowed == stock_ble_session_current(w.out.session) /\ Room(s.tx, TxQueueLength)
       IN  \/ /\ allowed
              /\ s' = [s EXCEPT !.tx = Append(@, w.out)]
              /\ w' = [w EXCEPT !.pc = "event"]
           \/ UNCHANGED s /\ Goto(w.ret)      \* too long, or not allowed

\* Mutant: the packet is queued and the host not told.
NotifyEventNone ==
    /\ Worker /\ UNCHANGED <<s, event, stream, last, frame>>
    /\ w.pc = "event"
    /\ Goto(w.ret)

NotifyEvent ==
    /\ Worker /\ UNCHANGED <<s, stream, last, frame>>
    /\ w.pc = "event"
    /\ event' = TRUE
    /\ Goto(w.ret)

-----------------------------------------------------------------------------
(* The main loop: stock_ble_poll *)

Quiet == Worker /\ UNCHANGED <<event, last>>

\* Mutant: the service stays blocked.
PollStartBlocked(b) == [b EXCEPT !.pending = NoError]

\* A poll accepts writes again and takes over the error to report.
PollStart(b) == [b EXCEPT !.pending = NoError, !.blocked = FALSE]

\* Mutant: the parser is reset for a rejected write only.
PollResetsErrors(b, parser) == b.pending # NoError

\* Whether a poll starts with an empty parser.
PollReset(b, parser) == b.session # parser \/ b.pending # NoError

PollBegin ==
    /\ Quiet /\ UNCHANGED frame
    /\ w.pc = "poll"
    /\ s' = PollStart(s)
    /\ stream' = IF PollReset(s, stream.session) THEN NewStream(s.session) ELSE stream
    /\ w' = [w EXCEPT !.pc = IF s.pending = NoError THEN "take" ELSE "notify",
                      !.ret = "take", !.session = s.session, !.now = clock, !.processed = 0,
                      !.out = IF s.pending = NoError THEN NoPacket
                              ELSE [session |-> s.session, code |-> s.pending.code,
                                    link |-> s.pending.link]]

\* Mutant: the last write waits for another one.
HaveTwo == w.processed < QueueLength /\ Len(s.queue) > 1 /\ s.session = w.session

\* There is another write for this poll to take.
Have ==
    /\ w.processed < QueueLength
    /\ s.queue # <<>> /\ s.session = w.session /\ ~s.blocked

PollTake ==
    /\ Quiet /\ UNCHANGED <<stream, frame>>
    /\ w.pc = "take"
    /\ IF Have
         THEN /\ s' = [s EXCEPT !.queue = Tail(@)]
              /\ w' = [w EXCEPT !.pc = "check", !.processed = @ + 1, !.ev = Head(s.queue)]
         ELSE UNCHANGED s /\ Goto("idle")

\* A partial frame has waited too long at time t.
Stale(t) ==
    stream.parts # <<>> /\ t >= stream.last /\ t - stream.last >= Idle

PollCheck ==
    /\ Quiet /\ UNCHANGED <<s, frame>>
    /\ w.pc = "check"
    /\ IF w.ev.session # w.session \/ ~stock_ble_session_current(w.session)
         THEN Goto("take") /\ UNCHANGED stream
         ELSE IF Stale(w.ev.t)
           THEN /\ stream' = [stream EXCEPT !.parts = <<>>]
                /\ Notify(w.session, "IDLE", w.ev.link, "feed")
           ELSE Goto("feed") /\ UNCHANGED stream

\* stock_stream_feed.  A write without bytes leaves an empty parser empty.
PollFeed ==
    /\ Quiet /\ UNCHANGED <<s, frame>>
    /\ w.pc = "feed"
    /\ \/ \E bytes \in BOOLEAN :
            /\ stream' = [stream EXCEPT !.last = w.ev.t,
                 !.parts = IF bytes \/ @ # <<>> THEN Append(@, w.ev) ELSE @]
            /\ Goto("take")
       \/ \E code \in {"BAD", "LARGE"} :
            /\ stream' = [stream EXCEPT !.last = w.ev.t, !.parts = <<>>]
            /\ Notify(w.session, code, w.ev.link, "take")
       \/ /\ stream' = [stream EXCEPT !.last = w.ev.t, !.parts = Append(@, w.ev)]
          /\ w' = [w EXCEPT !.pc = "dispatch"]

PollDispatch ==
    /\ Quiet /\ UNCHANGED s
    /\ w.pc = "dispatch"
    /\ stream' = [stream EXCEPT !.parts = <<>>]
    /\ IF stock_ble_session_current(w.session)
         THEN /\ frame' = [parts |-> stream.parts, link |-> link]
              /\ Goto("handler")
         ELSE UNCHANGED frame /\ Goto("take")

\* received: the handler remembers the session of the frame and works on it.
Received ==
    /\ Worker /\ UNCHANGED <<s, event, stream>>
    /\ w.pc = "handler"
    /\ frame' = NoFrame
    /\ IF stock_ble_session_current(w.session)
         THEN /\ last' = [session |-> w.session, link |-> w.ev.link]
              /\ Goto("reply")
         ELSE UNCHANGED last /\ Goto("take")

\* It answers, or has nothing to say.
Reply ==
    /\ Quiet /\ UNCHANGED <<s, stream, frame>>
    /\ w.pc = "reply"
    /\ Notify(w.session, "REPLY", w.ev.link, "take") \/ Goto("take")

PollIdle ==
    /\ Quiet /\ UNCHANGED <<s, frame>>
    /\ w.pc = "idle"
    /\ IF s.queue = <<>> /\ s.session = w.session /\ ~s.blocked /\ Stale(w.now)
         THEN /\ stream' = [stream EXCEPT !.parts = <<>>]
              /\ Notify(w.session, "IDLE", Head(stream.parts).link, "end")
         ELSE UNCHANGED stream /\ Goto("end")

\* After the poll the main loop forgets a session that has ended.
LoopForget ==
    /\ Worker /\ UNCHANGED <<s, event, stream, frame>>
    /\ w.pc = "end"
    /\ last' = IF stock_ble_session_current(last.session) THEN last ELSE NoSession
    /\ w' = [w EXCEPT !.pc = "shot", !.session = 0, !.now = 0, !.processed = 0]

\* shot_tick: unasked, a status or a screenshot packet for the last session.
\* A turn of the loop may send several.
ShotTick ==
    /\ Quiet /\ UNCHANGED <<s, stream, frame>>
    /\ w.pc = "shot"
    /\ last # NoSession /\ stock_ble_session_current(last.session)
    /\ \E code \in {"REPLY", "SHOT"} : Notify(last.session, code, last.link, "shot")

NextTurn ==
    /\ Quiet /\ UNCHANGED <<s, stream, frame>>
    /\ w.pc = "shot"
    /\ Goto("poll")

-----------------------------------------------------------------------------

Tick == clock < MaxClock /\ clock' = clock + 1
        /\ UNCHANGED <<link, links, writes, s, event, host, w, stream, last, frame, sent>>

HostLinks == stock_ble_on_connect \/ LinkDown \/ Cancel \/ stock_ble_on_subscribe \/ access_cb
HostSends == TxBegin \/ TxSend \/ TxMore
MainLoop ==
    \/ NotifyCheck \/ NotifyPut \/ NotifyEvent
    \/ PollBegin \/ PollTake \/ PollCheck \/ PollFeed \/ PollDispatch
    \/ Received \/ Reply \/ PollIdle \/ LoopForget \/ ShotTick \/ NextTurn

Next == HostLinks \/ HostSends \/ MainLoop \/ Tick

Spec == Init /\ [][Next]_vars

\* The main loop goes on for ever, a turn of it sends a few notifications only,
\* and the host runs the events it was given.
FairSpec == Spec /\ WF_vars(MainLoop) /\ SF_vars(NextTurn) /\ WF_vars(HostSends)

-----------------------------------------------------------------------------
(* Properties *)

\* Types; both queues keep within their arrays.
TypeOK ==
    /\ link \in 0 .. links /\ links \in 0 .. MaxLinks
    /\ clock \in 0 .. MaxClock /\ writes \in 0 .. MaxWrites
    /\ s \in ServiceState
    /\ Len(s.queue) <= QueueLength /\ Len(s.tx) <= TxQueueLength
    /\ event \in BOOLEAN
    /\ host \in [pc : {"ready", "send", "more"}, taken : 0 .. TxQueueLength]
    /\ w \in LoopState
    /\ stream \in ParserState
    /\ last \in [session : Nat, link : Nat]
    /\ frame \in [parts : Seq(Write), link : Nat]
    /\ sent \in [link : Nat, to : Nat]

\* A frame that reaches the handler consists of writes that followed each
\* other without a gap: none between them was rejected, dropped with a queue
\* or came from another link, none waited for the idle time, and the phone
\* that wrote them still is connected (stock_ble_poll, reject_locked).
FrameIntact ==
    /\ \A i \in 1 .. Len(frame.parts) : frame.parts[i].link = frame.link
    /\ \A i \in 1 .. Len(frame.parts) - 1 :
         /\ frame.parts[i + 1].n = frame.parts[i].n + 1
         /\ frame.parts[i + 1].t - frame.parts[i].t < Idle

\* A packet goes out on the link it was written for, although notify is given
\* a session number only and the handle is that of every link (notify,
\* tx_event).
PacketToItsLink == sent.link = sent.to

\* A queued packet never waits for a transmit event nobody will post: the
\* event is queued, running, or about to be posted (notify, tx_event).
NoLostWakeup == s.tx # <<>> => event \/ host.pc # "ready" \/ w.pc = "event"

(* What the invariants above rest on *)

\* Where notify is running.
Notifying == w.pc \in {"notify", "put", "event"}
\* A poll is under way; it holds a write; the write is not fed yet.
InPoll == w.pc \notin {"poll", "shot"} /\ (Notifying => w.ret # "shot")
Unfed == w.pc \in {"check", "feed"} \/ (Notifying /\ w.ret = "feed")
HasWrite == Unfed \/ w.pc \in {"handler", "reply", "dispatch"}

\* Session numbers do not come round: the bounds of a behaviour are too small.
NoWrap == 2 * MaxLinks + MaxWrites < SessionLimit

\* What each session number was spent on, and what a session leaves empty.
SessionInv ==
    /\ s.session + (IF s.connected THEN 1 ELSE 0) <= 1 + 2 * links + writes
    /\ s.connected => link # 0
    /\ ~s.connected \/ s.blocked => s.queue = <<>>
    /\ s.blocked <=> s.pending # NoError
    /\ s.blocked => s.connected /\ s.pending.link = link

\* Whatever names the current session of service b is of the link that is up.
Held(x, b, up) ==
    /\ x.session <= b.session
    /\ x.session = b.session => b.connected /\ ~b.blocked /\ x.link = up
HeldAll(q, b, up) == \A i \in 1 .. Len(q) : Held(q[i], b, up)
Of(q, session) == \A i \in 1 .. Len(q) : q[i].session = session
HeldInv ==
    /\ Held(w.out, s, link) /\ Held(w.ev, s, link) /\ Held(last, s, link)
    /\ HeldAll(s.tx, s, link)
    /\ HeldAll(s.queue, s, link) /\ Of(s.queue, s.session)
    /\ HeldAll(stream.parts, s, link) /\ Of(stream.parts, stream.session)
    /\ w.session <= s.session /\ stream.session <= s.session
    /\ InPoll => stream.session = w.session
    /\ HasWrite => w.ev.session = w.session

\* The writes of the parser, the one in the hands of the poll and those in the
\* queue follow each other, up to the last one, as long as their session lasts.
Consecutive(q) == \A i \in 1 .. Len(q) - 1 : q[i + 1].n = q[i].n + 1
Timely(q) == \A i \in 1 .. Len(q) - 1 : q[i + 1].t - q[i].t < Idle
Final(q) == q[Len(q)]
NextIs(n) == IF s.queue = <<>> THEN writes = n ELSE s.queue[1].n = n + 1
ChainInv ==
    /\ Consecutive(s.queue) /\ (s.queue # <<>> => Final(s.queue).n = writes)
    /\ Consecutive(stream.parts) /\ Timely(stream.parts)
    /\ Unfed /\ w.session = s.session => NextIs(w.ev.n)
    /\ stream.parts # <<>> =>
         /\ stream.last = Final(stream.parts).t
         /\ Unfed => w.ev.n = Final(stream.parts).n + 1
         /\ Unfed /\ w.pc # "check" => w.ev.t - stream.last < Idle
         /\ ~Unfed /\ stream.session = s.session => NextIs(Final(stream.parts).n)

\* The service does not stay blocked after a rejected write (stock_ble_poll).
Unblocks == s.blocked ~> ~s.blocked

\* An accepted write is taken from the queue, or dropped with its session.
Queued(n) == \E i \in 1 .. Len(s.queue) : s.queue[i].n = n
WritesTaken == \A n \in 1 .. MaxWrites : Queued(n) ~> ~Queued(n)
=============================================================================
