--------------------------- MODULE StockBleProofs ---------------------------
(* Proofs about StockBle, for every value of its constants. *)
EXTENDS StockBle, SequenceTheorems, TLAPS

LEMMA ConstantTypes ==
    /\ QueueLength \in Nat \ {0} /\ TxQueueLength \in Nat \ {0}
    /\ Idle \in Nat \ {0} /\ SessionLimit \in Nat \ {0}
    /\ MaxLinks \in Nat /\ MaxWrites \in Nat /\ MaxClock \in Nat
BY StockBleAssumption

USE ConstantTypes

LEMMA Modulo ==
    ASSUME NEW x \in Nat, NEW m \in Nat \ {0}
    PROVE  x % m \in Nat /\ (x < m => x % m = x)
OBVIOUS

\* A session number has a successor, never 0; without a wrap, the next number.
LEMMA NextSession ==
    ASSUME NEW b \in ServiceState
    PROVE  /\ next_session_locked(b) \in ServiceState
           /\ next_session_locked(b).queue = <<>> /\ next_session_locked(b).tx = <<>>
           /\ next_session_locked(b).connected = b.connected
           /\ b.session < SessionLimit =>
                next_session_locked(b).session = b.session + 1
<1>1. b.session \in Nat /\ SessionLimit \in Nat \ {0}
  BY DEF ServiceState
<1> DEFINE n == b.session % SessionLimit
<1>2. n \in Nat /\ (b.session < SessionLimit => n = b.session)
  BY <1>1, Modulo
<1>3. next_session_locked(b) = [b EXCEPT !.session = n + 1, !.queue = <<>>, !.tx = <<>>]
  BY DEF next_session_locked, ServiceState
<1> HIDE DEF n
<1>4. <<>> \in Seq(Write) /\ <<>> \in Seq(Packet)
  BY EmptySeq
<1>5. n + 1 \in Nat \ {0}
  BY <1>2
<1>6. ASSUME NEW k \in Nat \ {0}
      PROVE  LET r == [b EXCEPT !.session = k, !.queue = <<>>, !.tx = <<>>]
             IN  /\ r \in ServiceState /\ r.queue = <<>> /\ r.tx = <<>>
                 /\ r.connected = b.connected /\ r.session = k
  BY <1>4 DEF ServiceState
<1> DEFINE r == [b EXCEPT !.session = n + 1, !.queue = <<>>, !.tx = <<>>]
<1>7. /\ r \in ServiceState /\ r.queue = <<>> /\ r.tx = <<>>
      /\ r.connected = b.connected /\ r.session = n + 1
  BY <1>5, <1>6
<1>8. next_session_locked(b) = r
  BY <1>3
<1>9. b.session < SessionLimit => n + 1 = b.session + 1
  BY <1>2
<1> HIDE DEF r
<1>10. QED
  BY <1>7, <1>8, <1>9

\* What on_connect and on_disconnect leave.
LEMMA FreshType ==
    ASSUME NEW b \in ServiceState, NEW c \in BOOLEAN
    PROVE  /\ Fresh(b, c) \in ServiceState
           /\ Fresh(b, c).queue = <<>> /\ Fresh(b, c).tx = <<>>
           /\ Fresh(b, c).connected = c /\ Fresh(b, c).blocked = FALSE
           /\ Fresh(b, c).pending = NoError
           /\ Fresh(b, c).session = next_session_locked(b).session
           /\ Len(Fresh(b, c).queue) = 0 /\ Len(Fresh(b, c).tx) = 0
<1>1. /\ Fresh(b, c) \in ServiceState
      /\ Fresh(b, c).queue = <<>> /\ Fresh(b, c).tx = <<>>
      /\ Fresh(b, c).connected = c /\ Fresh(b, c).blocked = FALSE
      /\ Fresh(b, c).pending = NoError
      /\ Fresh(b, c).session = next_session_locked(b).session
  BY NextSession DEF Fresh, ServiceState, NoError, Error, Code
<1>2. Len(<<>>) = 0
  BY EmptySeq
<1>3. QED
  BY <1>1, <1>2, Zenon

\* What a rejected write leaves.
LEMMA RejectType ==
    ASSUME NEW b \in ServiceState, NEW code \in Code, link \in Nat
    PROVE  /\ reject_locked(b, code) \in ServiceState
           /\ reject_locked(b, code).queue = <<>> /\ reject_locked(b, code).tx = <<>>
           /\ reject_locked(b, code).connected = b.connected
           /\ reject_locked(b, code).blocked = TRUE
           /\ reject_locked(b, code).pending = [code |-> code, link |-> link]
           /\ reject_locked(b, code).session = next_session_locked(b).session
           /\ Len(reject_locked(b, code).queue) = 0 /\ Len(reject_locked(b, code).tx) = 0
<1>1. /\ reject_locked(b, code) \in ServiceState
      /\ reject_locked(b, code).queue = <<>> /\ reject_locked(b, code).tx = <<>>
      /\ reject_locked(b, code).connected = b.connected
      /\ reject_locked(b, code).blocked = TRUE
      /\ reject_locked(b, code).pending = [code |-> code, link |-> link]
      /\ reject_locked(b, code).session = next_session_locked(b).session
  BY NextSession DEF reject_locked, ServiceState, Error
<1>2. Len(<<>>) = 0
  BY EmptySeq
<1>3. QED
  BY <1>1, <1>2, Zenon

\* Queues of records.
LEMMA QueueAppend ==
    ASSUME NEW T, NEW q \in Seq(T), NEW x \in T
    PROVE  /\ Append(q, x) \in Seq(T) /\ Append(q, x) # <<>>
           /\ Len(Append(q, x)) = Len(q) + 1
           /\ Append(q, x)[Len(q) + 1] = x
           /\ \A i \in 1 .. Len(q) : Append(q, x)[i] = q[i]
BY AppendProperties

LEMMA QueueTake ==
    ASSUME NEW T, NEW q \in Seq(T), q # <<>>
    PROVE  /\ Head(q) \in T /\ Tail(q) \in Seq(T) /\ Head(q) = q[1]
           /\ Len(q) \in Nat \ {0} /\ Len(Tail(q)) = Len(q) - 1
           /\ (Tail(q) = <<>> <=> Len(q) = 1)
           /\ \A i \in 1 .. Len(q) - 1 : Tail(q)[i] = q[i + 1]
<1>0. Len(<<>>) = 0
  BY EmptySeq
<1>1. Len(q) \in Nat \ {0}
  BY EmptySeq
<1>2. Head(q) \in T /\ Tail(q) \in Seq(T) /\ Len(Tail(q)) = Len(q) - 1
  BY HeadTailProperties
<1>3. \A i \in 1 .. Len(q) - 1 : Tail(q)[i] = q[i + 1]
  BY <1>2, HeadTailProperties
<1>4. Tail(q) = <<>> <=> Len(q) = 1
  <2>1. ASSUME Tail(q) = <<>> PROVE Len(q) = 1
    <3>1. Len(Tail(q)) = 0
      BY <1>0, <2>1, Zenon
    <3>2. Len(q) - 1 = 0
      BY <1>2, <3>1, Zenon
    <3>3. QED
      BY <1>1, <3>2
  <2>2. ASSUME Tail(q) # <<>> PROVE Len(q) # 1
    <3>1. Len(Tail(q)) \in Nat \ {0}
      BY <1>2, <2>2, EmptySeq
    <3>2. QED
      BY <1>1, <1>2, <3>1
  <2>3. QED
    BY <2>1, <2>2
<1>5. Head(q) = q[1]
  BY <1>1
<1>6. QED
  BY <1>1, <1>2, <1>3, <1>4, <1>5

\* The empty values have their types.
LEMMA EmptyValues ==
    /\ <<>> \in Seq(Write) /\ <<>> \in Seq(Packet) /\ Len(<<>>) = 0
    /\ NoError \in Error /\ NoWrite \in Write /\ NoPacket \in Packet
    /\ NoSession \in [session : Nat, link : Nat]
    /\ NoFrame \in [parts : Seq(Write), link : Nat]
    /\ NoSent \in [link : Nat, to : Nat]
    /\ \A n \in Nat : NewStream(n) \in ParserState
<1>1. <<>> \in Seq(Write) /\ <<>> \in Seq(Packet) /\ Len(<<>>) = 0
  BY EmptySeq
<1>2. NoError \in Error /\ NoWrite \in Write /\ NoPacket \in Packet
  BY DEF NoError, NoWrite, NoPacket, Error, Write, Packet, Code
<1>3. /\ NoSession \in [session : Nat, link : Nat]
      /\ NoSent \in [link : Nat, to : Nat]
  BY DEF NoSession, NoSent
<1>4. /\ NoFrame \in [parts : Seq(Write), link : Nat]
      /\ \A n \in Nat : NewStream(n) \in ParserState
  BY <1>1 DEF NoFrame, NewStream, ParserState
<1>5. QED
  BY <1>1, <1>2, <1>3, <1>4

LEMMA InitTypeOK == Init => TypeOK
<1> SUFFICES ASSUME Init PROVE TypeOK
  OBVIOUS
<1>1. s \in ServiceState
  BY EmptyValues DEF Init, ServiceState
<1>2. Len(s.queue) <= QueueLength /\ Len(s.tx) <= TxQueueLength
  BY EmptyValues DEF Init
<1>3. w \in LoopState
  BY EmptyValues DEF Init, LoopState, WorkerPc
<1>4. stream \in ParserState /\ frame \in [parts : Seq(Write), link : Nat]
  BY EmptyValues DEF Init
<1>5. host \in [pc : {"ready", "send", "more"}, taken : 0 .. TxQueueLength]
  BY DEF Init
<1>6. last \in [session : Nat, link : Nat] /\ sent \in [link : Nat, to : Nat]
  BY EmptyValues DEF Init
<1>7. /\ link \in 0 .. links /\ links \in 0 .. MaxLinks
      /\ clock \in 0 .. MaxClock /\ writes \in 0 .. MaxWrites
  <2>1. link = 0 /\ links = 0 /\ clock = 0 /\ writes = 0
    BY DEF Init
  <2>2. QED
    BY <2>1
<1>8. event \in BOOLEAN
  BY DEF Init
<1>9. QED
  BY <1>1, <1>2, <1>3, <1>4, <1>5, <1>6, <1>7, <1>8 DEF TypeOK

\* What a host callback leaves of s_ble has its type.
LEMMA HostLinksType == TypeOK /\ HostLinks => TypeOK'
<1> SUFFICES ASSUME TypeOK, HostLinks PROVE TypeOK'
  OBVIOUS
<1>0. /\ s \in ServiceState /\ Len(s.queue) <= QueueLength /\ Len(s.tx) <= TxQueueLength
      /\ link \in 0 .. links /\ links \in 0 .. MaxLinks
      /\ clock \in 0 .. MaxClock /\ writes \in 0 .. MaxWrites
  BY DEF TypeOK
<1>1. /\ s' \in ServiceState /\ link' \in 0 .. links' /\ links' \in 0 .. MaxLinks
      /\ writes' \in 0 .. MaxWrites /\ clock' \in 0 .. MaxClock
      /\ Len(s'.queue) <= QueueLength /\ Len(s'.tx) <= TxQueueLength
      => TypeOK'
  BY DEF HostLinks, HostReady, stock_ble_on_connect, LinkDown, Cancel,
         stock_ble_on_subscribe, access_cb, TypeOK
<1>2. ASSUME NEW c \in BOOLEAN
      PROVE  /\ Fresh(s, c) \in ServiceState
             /\ Len(Fresh(s, c).queue) <= QueueLength
             /\ Len(Fresh(s, c).tx) <= TxQueueLength
  <2>1. /\ Fresh(s, c) \in ServiceState
        /\ Len(Fresh(s, c).queue) = 0 /\ Len(Fresh(s, c).tx) = 0
    BY <1>0, FreshType, Zenon
  <2>2. QED
    BY <2>1
<1>3. CASE stock_ble_on_connect
  <2>1. s' = s \/ s' = Fresh(s, TRUE)
    BY <1>3 DEF stock_ble_on_connect
  <2>2. /\ link' \in 0 .. links' /\ links' \in 0 .. MaxLinks
        /\ writes' = writes /\ clock' = clock
    BY <1>0, <1>3 DEF stock_ble_on_connect
  <2>3. QED
    BY <1>0, <1>1, <1>2, <2>1, <2>2
<1>4. CASE LinkDown
  <2>1. s' = s \/ s' = Fresh(s, FALSE)
    BY <1>4 DEF LinkDown, stock_ble_on_disconnect
  <2>2. link' = 0 /\ links' = links /\ writes' = writes /\ clock' = clock
    BY <1>4 DEF LinkDown
  <2>3. link' \in 0 .. links' /\ links' \in 0 .. MaxLinks
    BY <1>0, <2>2
  <2>4. QED
    BY <1>0, <1>1, <1>2, <2>1, <2>2, <2>3
<1>5. CASE Cancel
  <2>1. s' = s \/ s' = Fresh(s, FALSE)
    BY <1>5 DEF Cancel, stock_ble_on_disconnect
  <2>2. QED
    BY <1>0, <1>1, <1>2, <1>5, <2>1 DEF Cancel
<1>6. CASE stock_ble_on_subscribe
  <2>1. s' \in ServiceState /\ s'.queue = s.queue /\ s'.tx = s.tx
    BY <1>0, <1>6 DEF stock_ble_on_subscribe, ServiceState
  <2>2. QED
    BY <1>0, <1>1, <1>6, <2>1 DEF stock_ble_on_subscribe
<1>7. CASE access_cb
  <2>1. link \in Nat /\ writes' \in 0 .. MaxWrites
    <3>1. writes' = writes + 1 /\ writes < MaxWrites
      BY <1>7 DEF access_cb
    <3>2. QED
      BY <1>0, <3>1
  <2>2. ASSUME NEW code \in Code
        PROVE  /\ reject_locked(s, code) \in ServiceState
               /\ Len(reject_locked(s, code).queue) <= QueueLength
               /\ Len(reject_locked(s, code).tx) <= TxQueueLength
    <3>1. /\ reject_locked(s, code) \in ServiceState
          /\ Len(reject_locked(s, code).queue) = 0
          /\ Len(reject_locked(s, code).tx) = 0
      BY <1>0, <2>1, RejectType, Zenon
    <3>2. QED
      BY <3>1
  <2> DEFINE x == [n |-> writes', t |-> clock, session |-> s.session, link |-> link]
             r == [s EXCEPT !.queue = Append(@, x)]
  <2>3. x \in Write
    BY <1>0, <2>1 DEF Write, ServiceState
  <2>4. Append(s.queue, x) \in Seq(Write) /\ Len(Append(s.queue, x)) = Len(s.queue) + 1
    BY <1>0, <2>3, QueueAppend DEF ServiceState
  <2>5. /\ r \in ServiceState /\ r.tx = s.tx
        /\ Len(r.queue) = Len(s.queue) + 1
    BY <1>0, <2>4 DEF ServiceState
  <2>6. s' = s \/ s' = reject_locked(s, "LARGE") \/ s' = reject_locked(s, "FULL")
        \/ (s' = r /\ Len(s.queue) < QueueLength)
    BY <1>7 DEF access_cb, Room
  <2>7. s.queue \in Seq(Write) /\ Len(s.queue) \in Nat
    BY <1>0, LenProperties DEF ServiceState
  <2>8. /\ s' \in ServiceState
        /\ Len(s'.queue) <= QueueLength /\ Len(s'.tx) <= TxQueueLength
    <3> HIDE DEF r, x
    <3>1. CASE s' = s
      BY <1>0, <3>1
    <3>2. CASE s' = reject_locked(s, "LARGE") \/ s' = reject_locked(s, "FULL")
      BY <2>2, <3>2 DEF Code
    <3>3. CASE s' = r /\ Len(s.queue) < QueueLength
      BY <1>0, <2>5, <2>7, <3>3
    <3>4. QED
      BY <2>6, <3>1, <3>2, <3>3
  <2>9. QED
    BY <1>0, <1>1, <1>7, <2>1, <2>8 DEF access_cb
<1>8. QED
  BY <1>3, <1>4, <1>5, <1>6, <1>7 DEF HostLinks

LEMMA HostSendsType == TypeOK /\ HostSends => TypeOK'
<1> SUFFICES ASSUME TypeOK, HostSends PROVE TypeOK'
  OBVIOUS
<1>0. /\ s \in ServiceState /\ Len(s.queue) <= QueueLength /\ Len(s.tx) <= TxQueueLength
      /\ host \in [pc : {"ready", "send", "more"}, taken : 0 .. TxQueueLength]
      /\ link \in Nat /\ links \in Nat /\ sent \in [link : Nat, to : Nat]
  BY DEF TypeOK
<1>1. /\ s' \in ServiceState
      /\ Len(s'.queue) <= QueueLength /\ Len(s'.tx) <= TxQueueLength
      /\ host' \in [pc : {"ready", "send", "more"}, taken : 0 .. TxQueueLength]
      /\ sent' \in [link : Nat, to : Nat]
      /\ event' \in BOOLEAN
      => TypeOK'
  BY DEF HostSends, TxBegin, TxSend, TxMore, TxStep, TypeOK
<1>2. 0 \in 0 .. TxQueueLength
  OBVIOUS
<1>3. CASE TxBegin
  <2>1. host' \in [pc : {"ready", "send", "more"}, taken : 0 .. TxQueueLength]
    BY <1>2, <1>3 DEF TxBegin
  <2>2. event' \in BOOLEAN
    BY <1>3 DEF TxBegin
  <2>3. QED
    BY <1>0, <1>1, <1>3, <2>1, <2>2 DEF TxBegin
<1>4. CASE TxSend
  <2>0. event' \in BOOLEAN
    BY <1>4 DEF TxSend, TypeOK
  <2>1. CASE s.tx = <<>> \/ host.taken = TxQueueLength
    <3>1. host' \in [pc : {"ready", "send", "more"}, taken : 0 .. TxQueueLength]
      BY <1>0, <1>4, <2>1 DEF TxSend
    <3>2. s' = s /\ sent' = sent
      BY <1>4, <2>1 DEF TxSend
    <3>3. QED
      BY <1>0, <1>1, <2>0, <3>1, <3>2
  <2>2. CASE ~(s.tx = <<>> \/ host.taken = TxQueueLength)
    <3>1. s.tx \in Seq(Packet) /\ s.tx # <<>>
      BY <1>0, <2>2 DEF ServiceState
    <3>2. /\ Head(s.tx) \in Packet /\ Tail(s.tx) \in Seq(Packet)
          /\ Len(Tail(s.tx)) = Len(s.tx) - 1 /\ Len(s.tx) \in Nat
      BY <3>1, QueueTake
    <3>3. s' = [s EXCEPT !.tx = Tail(@)]
      BY <1>4, <2>2 DEF TxSend
    <3>4. s' \in ServiceState /\ s'.queue = s.queue /\ s'.tx = Tail(s.tx)
      BY <1>0, <3>2, <3>3 DEF ServiceState
    <3>5. host' = [host EXCEPT !.taken = @ + 1]
      BY <1>4, <2>2 DEF TxSend
    <3>6. host.taken + 1 \in 0 .. TxQueueLength
      BY <1>0, <2>2
    <3>7. host' \in [pc : {"ready", "send", "more"}, taken : 0 .. TxQueueLength]
      BY <1>0, <3>5, <3>6
    <3>8. sent' = sent \/ sent' = [link |-> link, to |-> Head(s.tx).link]
      BY <1>4, <2>2 DEF TxSend
    <3>9. sent' \in [link : Nat, to : Nat]
      BY <1>0, <3>2, <3>8 DEF Packet
    <3>10. QED
      BY <1>0, <1>1, <2>0, <3>2, <3>4, <3>7, <3>9
  <2>3. QED
    BY <2>1, <2>2
<1>5. CASE TxMore
  <2>1. host' \in [pc : {"ready", "send", "more"}, taken : 0 .. TxQueueLength]
    BY <1>2, <1>5 DEF TxMore
  <2>2. sent' \in [link : Nat, to : Nat]
    BY <1>5, EmptyValues DEF TxMore
  <2>3. event' \in BOOLEAN
    BY <1>5 DEF TxMore, TypeOK
  <2>4. QED
    BY <1>0, <1>1, <1>5, <2>1, <2>2, <2>3 DEF TxMore
<1>6. QED
  BY <1>3, <1>4, <1>5 DEF HostSends

\* The main loop goes on, or calls notify.
LEMMA GotoType ==
    ASSUME w \in LoopState, NEW pc \in WorkerPc, Goto(pc)
    PROVE  w' \in LoopState
BY EmptyValues DEF Goto, LoopState

LEMMA NotifyType ==
    ASSUME w \in LoopState, NEW session \in Nat, NEW code \in Code, NEW to \in Nat,
           NEW ret \in {"shot", "take", "feed", "end"}, Notify(session, code, to, ret)
    PROVE  w' \in LoopState
<1>1. [session |-> session, code |-> code, link |-> to] \in Packet
  BY DEF Packet
<1>2. QED
  BY <1>1 DEF Notify, LoopState, WorkerPc

\* What the main loop may touch.
LEMMA LoopTouches ==
    ASSUME TypeOK, MainLoop,
           s' \in ServiceState, Len(s'.queue) <= QueueLength, Len(s'.tx) <= TxQueueLength,
           w' \in LoopState, stream' \in ParserState,
           last' \in [session : Nat, link : Nat],
           frame' \in [parts : Seq(Write), link : Nat]
    PROVE  TypeOK'
<1>1. event' \in BOOLEAN
  BY DEF TypeOK, MainLoop, NotifyCheck, NotifyPut, NotifyEvent, Quiet,
         PollBegin, PollTake, PollCheck, PollFeed, PollDispatch, Received, Reply,
         PollIdle, LoopForget, ShotTick, NextTurn
<1>2. UNCHANGED <<link, links, clock, writes, host, sent>>
  BY DEF MainLoop, NotifyCheck, NotifyPut, NotifyEvent, Quiet, Worker,
         PollBegin, PollTake, PollCheck, PollFeed, PollDispatch, Received, Reply,
         PollIdle, LoopForget, ShotTick, NextTurn
<1>3. QED
  BY <1>1, <1>2 DEF TypeOK

LEMMA NotifyStepsType ==
    TypeOK /\ (NotifyCheck \/ NotifyPut \/ NotifyEvent) => TypeOK'
<1> SUFFICES ASSUME TypeOK, NotifyCheck \/ NotifyPut \/ NotifyEvent PROVE TypeOK'
  OBVIOUS
<1>0. /\ s \in ServiceState /\ Len(s.queue) <= QueueLength /\ Len(s.tx) <= TxQueueLength
      /\ w \in LoopState /\ stream \in ParserState
      /\ last \in [session : Nat, link : Nat]
      /\ frame \in [parts : Seq(Write), link : Nat]
  BY DEF TypeOK
<1>1. UNCHANGED <<stream, last, frame>>
  BY DEF NotifyCheck, NotifyPut, NotifyEvent
<1>2. w.ret \in WorkerPc /\ w.out \in Packet
  BY <1>0 DEF LoopState, WorkerPc
<1>3. w' \in LoopState
  <2>1. \/ \E pc \in {"put", "event"} : w' = [w EXCEPT !.pc = pc]
        \/ Goto(w.ret)
    BY DEF NotifyCheck, NotifyPut, NotifyEvent
  <2>2. CASE Goto(w.ret)
    BY <1>0, <1>2, <2>2, GotoType
  <2>3. CASE \E pc \in {"put", "event"} : w' = [w EXCEPT !.pc = pc]
    BY <1>0, <2>3 DEF LoopState, WorkerPc
  <2>4. QED
    BY <2>1, <2>2, <2>3
<1>4. /\ s' \in ServiceState
      /\ Len(s'.queue) <= QueueLength /\ Len(s'.tx) <= TxQueueLength
  <2>1. \/ s' = s
        \/ s' = [s EXCEPT !.tx = Append(@, w.out)] /\ Len(s.tx) < TxQueueLength
    BY DEF NotifyCheck, NotifyPut, NotifyEvent, Room
  <2>2. CASE s' = s
    BY <1>0, <2>2
  <2>3. CASE s' = [s EXCEPT !.tx = Append(@, w.out)] /\ Len(s.tx) < TxQueueLength
    <3>1. s.tx \in Seq(Packet) /\ Len(s.tx) \in Nat
      BY <1>0, LenProperties DEF ServiceState
    <3>2. /\ Append(s.tx, w.out) \in Seq(Packet)
          /\ Len(Append(s.tx, w.out)) = Len(s.tx) + 1
      BY <1>2, <3>1, QueueAppend
    <3>3. /\ s' \in ServiceState /\ s'.queue = s.queue
          /\ s'.tx = Append(s.tx, w.out)
      BY <1>0, <2>3, <3>2 DEF ServiceState
    <3>4. QED
      BY <1>0, <2>3, <3>1, <3>2, <3>3
  <2>4. QED
    BY <2>1, <2>2, <2>3
<1>5. QED
  BY <1>0, <1>1, <1>3, <1>4, LoopTouches DEF MainLoop

LEMMA PollStepsType ==
    TypeOK /\ (PollBegin \/ PollTake \/ PollCheck \/ PollFeed \/ PollDispatch \/ PollIdle)
    => TypeOK'
<1> SUFFICES ASSUME TypeOK,
        PollBegin \/ PollTake \/ PollCheck \/ PollFeed \/ PollDispatch \/ PollIdle
    PROVE TypeOK'
  OBVIOUS
<1>0. /\ s \in ServiceState /\ Len(s.queue) <= QueueLength /\ Len(s.tx) <= TxQueueLength
      /\ w \in LoopState /\ stream \in ParserState /\ clock \in Nat /\ link \in Nat
      /\ last \in [session : Nat, link : Nat]
      /\ frame \in [parts : Seq(Write), link : Nat]
  BY DEF TypeOK
<1>1. /\ w.session \in Nat /\ w.ev \in Write /\ w.ev.link \in Nat /\ w.ev.t \in Nat
      /\ stream.parts \in Seq(Write)
      /\ s.queue \in Seq(Write) /\ s.session \in Nat
      /\ s.pending.code \in Code /\ s.pending.link \in Nat
  BY <1>0 DEF LoopState, ParserState, ServiceState, Write, Error
<1>2. MainLoop
  BY DEF MainLoop
<1>3. [stream EXCEPT !.parts = <<>>] \in ParserState
  BY <1>0, EmptyValues DEF ParserState
<1>4. CASE PollBegin
  <2>1. s' \in ServiceState /\ s'.queue = s.queue /\ s'.tx = s.tx
    BY <1>0, <1>4, EmptyValues DEF PollBegin, PollStart, ServiceState
  <2>2. stream' \in ParserState
    BY <1>0, <1>1, <1>4, EmptyValues DEF PollBegin
  <2>3. [session |-> s.session, code |-> s.pending.code, link |-> s.pending.link] \in Packet
    BY <1>1 DEF Packet
  <2>4. w' \in LoopState
    <3>1. \E pc \in WorkerPc, o \in Packet :
            w' = [w EXCEPT !.pc = pc, !.ret = "take", !.session = s.session,
                           !.now = clock, !.processed = 0, !.out = o]
      <4>1. CASE s.pending = NoError
        <5>1. w' = [w EXCEPT !.pc = "take", !.ret = "take", !.session = s.session,
                           !.now = clock, !.processed = 0, !.out = NoPacket]
          BY <1>4, <4>1 DEF PollBegin
        <5>2. "take" \in WorkerPc
          BY DEF WorkerPc
        <5>3. QED
          BY <5>1, <5>2, EmptyValues
      <4>2. CASE s.pending # NoError
        <5>1. "notify" \in WorkerPc
          BY DEF WorkerPc
        <5>2. QED
          BY <1>4, <2>3, <4>2, <5>1 DEF PollBegin
      <4>3. QED
        BY <4>1, <4>2
    <3>2. PICK pc \in WorkerPc, o \in Packet :
            w' = [w EXCEPT !.pc = pc, !.ret = "take", !.session = s.session,
                           !.now = clock, !.processed = 0, !.out = o]
      BY <3>1
    <3>3. 0 \in 0 .. QueueLength
      OBVIOUS
    <3>4. QED
      BY <1>0, <1>1, <3>2, <3>3 DEF LoopState
  <2>5. QED
    BY <1>0, <1>2, <1>4, <2>1, <2>2, <2>4, LoopTouches DEF PollBegin, Quiet
<1>5. CASE PollTake
  <2>1. CASE Have
    <3>1. /\ s' = [s EXCEPT !.queue = Tail(@)]
          /\ w' = [w EXCEPT !.pc = "check", !.processed = @ + 1, !.ev = Head(s.queue)]
      BY <1>5, <2>1 DEF PollTake
    <3>2. /\ Head(s.queue) \in Write /\ Tail(s.queue) \in Seq(Write)
          /\ Len(Tail(s.queue)) = Len(s.queue) - 1 /\ Len(s.queue) \in Nat
      BY <1>1, <2>1, QueueTake DEF Have
    <3>3. s' \in ServiceState /\ s'.queue = Tail(s.queue) /\ s'.tx = s.tx
      BY <1>0, <3>1, <3>2 DEF ServiceState
    <3>4. w.processed + 1 \in 0 .. QueueLength
      BY <1>0, <2>1 DEF Have, LoopState
    <3>5. w' \in LoopState
      BY <1>0, <3>1, <3>2, <3>4 DEF LoopState, WorkerPc
    <3>6. Len(s'.queue) <= QueueLength /\ Len(s'.tx) <= TxQueueLength
      BY <1>0, <3>2, <3>3
    <3>7. QED
      BY <1>0, <1>2, <1>5, <3>3, <3>5, <3>6, LoopTouches DEF PollTake, Quiet
  <2>2. CASE ~Have
    <3>1. Goto("idle") /\ s' = s
      BY <1>5, <2>2 DEF PollTake
    <3>2. w' \in LoopState
      BY <1>0, <3>1, GotoType DEF WorkerPc
    <3>3. QED
      BY <1>0, <1>2, <1>5, <3>1, <3>2, LoopTouches DEF PollTake, Quiet
  <2>3. QED
    BY <2>1, <2>2
<1>6. CASE PollCheck
  <2>1. stream' \in ParserState
    BY <1>0, <1>3, <1>6 DEF PollCheck
  <2>2. Goto("take") \/ Goto("feed") \/ Notify(w.session, "IDLE", w.ev.link, "feed")
    BY <1>6 DEF PollCheck
  <2>3. w' \in LoopState
    BY <1>0, <1>1, <2>2, GotoType, NotifyType DEF WorkerPc, Code
  <2>4. QED
    BY <1>0, <1>2, <1>6, <2>1, <2>3, LoopTouches DEF PollCheck, Quiet
<1>7. CASE PollFeed
  <2>1. Append(stream.parts, w.ev) \in Seq(Write)
    BY <1>1, QueueAppend
  <2>2. \E q \in Seq(Write) : stream' = [stream EXCEPT !.last = w.ev.t, !.parts = q]
    BY <1>0, <1>1, <1>7, <2>1, EmptyValues DEF PollFeed
  <2>3. stream' \in ParserState
    BY <1>0, <1>1, <2>2 DEF ParserState
  <2>4. \/ Goto("take") \/ Notify(w.session, "BAD", w.ev.link, "take")
        \/ Notify(w.session, "LARGE", w.ev.link, "take")
        \/ w' = [w EXCEPT !.pc = "dispatch"]
    BY <1>7 DEF PollFeed
  <2>5. CASE w' = [w EXCEPT !.pc = "dispatch"]
    BY <1>0, <1>2, <1>7, <2>3, <2>5, LoopTouches DEF PollFeed, Quiet, LoopState, WorkerPc
  <2>6. CASE w' # [w EXCEPT !.pc = "dispatch"]
    <3>1. w' \in LoopState
      BY <1>0, <1>1, <2>4, <2>6, GotoType, NotifyType DEF WorkerPc, Code
    <3>2. QED
      BY <1>0, <1>2, <1>7, <2>3, <3>1, LoopTouches DEF PollFeed, Quiet
  <2>7. QED
    BY <2>5, <2>6
<1>8. CASE PollDispatch
  <2>1. stream' \in ParserState
    BY <1>0, <1>3, <1>8 DEF PollDispatch
  <2>2. Goto("handler") \/ Goto("take")
    BY <1>8 DEF PollDispatch
  <2>3. w' \in LoopState
    BY <1>0, <2>2, GotoType DEF WorkerPc
  <2>4. frame' = frame \/ frame' = [parts |-> stream.parts, link |-> link]
    BY <1>8 DEF PollDispatch
  <2>5. frame' \in [parts : Seq(Write), link : Nat]
    BY <1>0, <1>1, <2>4
  <2>6. QED
    BY <1>0, <1>2, <1>8, <2>1, <2>3, <2>5, LoopTouches DEF PollDispatch, Quiet
<1>9. CASE PollIdle
  <2>1. stream' \in ParserState
    BY <1>0, <1>3, <1>9 DEF PollIdle
  <2>2. \/ Goto("end")
        \/ stream.parts # <<>> /\ Notify(w.session, "IDLE", Head(stream.parts).link, "end")
    BY <1>9 DEF PollIdle, Stale
  <2>3. CASE Goto("end")
    BY <1>0, <1>2, <1>9, <2>1, <2>3, GotoType, LoopTouches
       DEF PollIdle, Quiet, WorkerPc
  <2>4. CASE stream.parts # <<>> /\ Notify(w.session, "IDLE", Head(stream.parts).link, "end")
    <3>1. Head(stream.parts) \in Write
      BY <1>1, <2>4, QueueTake
    <3>2. Head(stream.parts).link \in Nat
      BY <3>1 DEF Write
    <3>3. w' \in LoopState
      BY <1>0, <1>1, <2>4, <3>2, NotifyType DEF Code
    <3>4. QED
      BY <1>0, <1>2, <1>9, <2>1, <3>3, LoopTouches DEF PollIdle, Quiet
  <2>5. QED
    BY <2>2, <2>3, <2>4
<1>10. QED
  BY <1>4, <1>5, <1>6, <1>7, <1>8, <1>9

LEMMA CallerStepsType ==
    TypeOK /\ (Received \/ Reply \/ LoopForget \/ ShotTick \/ NextTurn) => TypeOK'
<1> SUFFICES ASSUME TypeOK, Received \/ Reply \/ LoopForget \/ ShotTick \/ NextTurn PROVE TypeOK'
  OBVIOUS
<1>0. /\ s \in ServiceState /\ Len(s.queue) <= QueueLength /\ Len(s.tx) <= TxQueueLength
      /\ w \in LoopState /\ stream \in ParserState
      /\ last \in [session : Nat, link : Nat]
      /\ frame \in [parts : Seq(Write), link : Nat]
  BY DEF TypeOK
<1>1. /\ w.session \in Nat /\ w.ev.link \in Nat
      /\ last.session \in Nat /\ last.link \in Nat /\ 0 \in 0 .. QueueLength
  BY <1>0 DEF LoopState, Write
<1>2. UNCHANGED <<s, stream>>
  BY DEF Received, Reply, LoopForget, ShotTick, NextTurn
<1>3. last' \in [session : Nat, link : Nat]
  <2>1. last' = last \/ last' = NoSession
        \/ last' = [session |-> w.session, link |-> w.ev.link]
    BY DEF Received, Reply, LoopForget, ShotTick, NextTurn, Quiet
  <2>2. NoSession \in [session : Nat, link : Nat]
    BY EmptyValues
  <2>3. [session |-> w.session, link |-> w.ev.link] \in [session : Nat, link : Nat]
    BY <1>1
  <2>4. QED
    BY <1>0, <2>1, <2>2, <2>3
<1>4. frame' \in [parts : Seq(Write), link : Nat]
  BY <1>0, EmptyValues DEF Received, Reply, LoopForget, ShotTick, NextTurn, Quiet
<1>5. \/ Goto("reply") \/ Goto("take") \/ Goto("poll")
      \/ \E code \in {"REPLY", "SHOT"} :
            \/ Notify(w.session, code, w.ev.link, "take")
            \/ Notify(last.session, code, last.link, "shot")
      \/ w' = [w EXCEPT !.pc = "shot", !.session = 0, !.now = 0, !.processed = 0]
  BY DEF Received, Reply, LoopForget, ShotTick, NextTurn
<1>6. w' \in LoopState
  <2>1. CASE Goto("reply") \/ Goto("take") \/ Goto("poll")
    BY <1>0, <2>1, GotoType DEF WorkerPc
  <2>2. CASE \E code \in {"REPLY", "SHOT"} :
               \/ Notify(w.session, code, w.ev.link, "take")
               \/ Notify(last.session, code, last.link, "shot")
    BY <1>0, <1>1, <2>2, NotifyType DEF Code
  <2>3. CASE w' = [w EXCEPT !.pc = "shot", !.session = 0, !.now = 0, !.processed = 0]
    BY <1>0, <1>1, <2>3 DEF LoopState, WorkerPc
  <2>4. QED
    BY <1>5, <2>1, <2>2, <2>3
<1>7. QED
  BY <1>0, <1>2, <1>3, <1>4, <1>6, LoopTouches DEF MainLoop

LEMMA TypeStep == TypeOK /\ [Next]_vars => TypeOK'
<1>1. ASSUME TypeOK, Tick PROVE TypeOK'
  BY <1>1 DEF TypeOK, Tick
<1>2. ASSUME TypeOK, UNCHANGED vars PROVE TypeOK'
  BY <1>2 DEF TypeOK, vars
<1>3. QED
  BY <1>1, <1>2, HostLinksType, HostSendsType, NotifyStepsType, PollStepsType,
     CallerStepsType DEF Next, MainLoop

\* Types, among them the bounds of both queues, hold for ever.
THEOREM TypeCorrect == Spec => []TypeOK
BY InitTypeOK, TypeStep, PTL DEF Spec

-----------------------------------------------------------------------------

\* A queued packet has a transmit event that will take it.
THEOREM EveryPacketAwaited == Spec => []NoLostWakeup
<1>1. Init => NoLostWakeup
  BY DEF Init, NoLostWakeup
<1>2. TypeOK /\ NoLostWakeup /\ [Next]_vars => NoLostWakeup'
  <2> SUFFICES ASSUME TypeOK, NoLostWakeup, [Next]_vars PROVE NoLostWakeup'
    OBVIOUS
  <2>0. s \in ServiceState /\ w \in LoopState
        /\ host \in [pc : {"ready", "send", "more"}, taken : 0 .. TxQueueLength]
    BY DEF TypeOK
  <2>1. CASE HostLinks
    <3>1. s'.tx = s.tx \/ s'.tx = <<>>
      <4>1. link \in Nat /\ links \in Nat
        BY DEF TypeOK
      <4>2. \A c \in BOOLEAN : Fresh(s, c).tx = <<>>
        BY <2>0, FreshType, Zenon
      <4>3. \A code \in Code : reject_locked(s, code).tx = <<>>
        BY <2>0, <4>1, RejectType, Zenon
      <4>4. "FULL" \in Code /\ "LARGE" \in Code
        BY DEF Code
      <4>5. \/ s' = s \/ \E c \in BOOLEAN : s' = Fresh(s, c)
            \/ \E code \in Code : s' = reject_locked(s, code)
            \/ \E on \in BOOLEAN : s' = [s EXCEPT !.status = on] \/ s' = [s EXCEPT !.shot = on]
            \/ \E q : s' = [s EXCEPT !.queue = q]
        BY <2>1, <4>4 DEF HostLinks, stock_ble_on_connect, LinkDown, Cancel,
               stock_ble_on_subscribe, stock_ble_on_disconnect, access_cb
      <4>6. QED
        BY <2>0, <4>2, <4>3, <4>5 DEF ServiceState
    <3>2. UNCHANGED <<event, host, w>>
      BY <2>1 DEF HostLinks, HostReady, stock_ble_on_connect, LinkDown, Cancel,
             stock_ble_on_subscribe, access_cb
    <3>3. QED
      BY <3>1, <3>2 DEF NoLostWakeup
  <2>2. CASE HostSends
    <3>1. CASE TxBegin
      <4>1. host'.pc # "ready"
        BY <3>1 DEF TxBegin
      <4>2. QED
        BY <4>1 DEF NoLostWakeup
    <3>2. CASE TxSend
      <4>1. \/ host' = [host EXCEPT !.pc = "more"]
            \/ host.pc = "send" /\ host' = [host EXCEPT !.taken = @ + 1]
        BY <3>2 DEF TxSend
      <4>2. host'.pc # "ready"
        BY <2>0, <4>1
      <4>3. QED
        BY <4>2 DEF NoLostWakeup
    <3>3. CASE TxMore
      <4>1. s' = s /\ (event' = (event \/ s.tx # <<>>))
        BY <3>3 DEF TxMore
      <4>2. s.tx # <<>> => event'
        BY <4>1, Zenon
      <4>3. QED
        BY <4>1, <4>2, Zenon DEF NoLostWakeup
    <3>4. QED
      BY <2>2, <3>1, <3>2, <3>3 DEF HostSends
  <2>3. CASE NotifyCheck \/ NotifyPut \/ NotifyEvent
    BY <2>0, <2>3 DEF NotifyCheck, NotifyPut, NotifyEvent, Worker, LoopState, NoLostWakeup
  <2>4. CASE PollBegin \/ PollTake \/ PollCheck \/ PollFeed \/ PollDispatch
             \/ Received \/ Reply \/ PollIdle \/ LoopForget \/ ShotTick \/ NextTurn
    <3>1. s'.tx = s.tx
      BY <2>0, <2>4 DEF PollBegin, PollStart, PollTake, PollCheck, PollFeed, PollDispatch,
             Received, Reply, PollIdle, LoopForget, ShotTick, NextTurn, ServiceState
    <3>2. w.pc # "event" /\ UNCHANGED <<event, host>>
      BY <2>4 DEF PollBegin, PollTake, PollCheck, PollFeed, PollDispatch, Received, Reply,
             PollIdle, LoopForget, ShotTick, NextTurn, Quiet, Worker
    <3>3. QED
      BY <3>1, <3>2 DEF NoLostWakeup
  <2>5. CASE Tick \/ UNCHANGED vars
    BY <2>5 DEF Tick, vars, NoLostWakeup
  <2>6. QED
    BY <2>1, <2>2, <2>3, <2>4, <2>5 DEF Next, MainLoop
<1>3. QED
  BY <1>1, <1>2, TypeCorrect, PTL DEF Spec

-----------------------------------------------------------------------------
(* Sessions and links, as long as the session number does not wrap *)

\* A step either keeps the session or begins a new one with empty queues.
KeepsSession ==
    /\ s'.session = s.session /\ s'.connected = s.connected
    /\ s'.blocked => s.blocked
    /\ s.connected => link' = link
EndsSession == s'.session = s.session + 1 /\ s'.queue = <<>> /\ s'.tx = <<>>

\* What a new session is counted for.
LEMMA CountedSession ==
    ASSUME NoWrap, TypeOK, SessionInv,
           \/ s.connected
           \/ links < MaxLinks
    PROVE  s.session < SessionLimit
<1>1. /\ links \in Nat /\ writes \in Nat /\ links <= MaxLinks /\ writes <= MaxWrites
  BY DEF TypeOK
<1>2. s.session \in Nat
  BY DEF TypeOK, ServiceState
<1>3. s.session + (IF s.connected THEN 1 ELSE 0) <= 1 + 2 * links + writes
  BY DEF SessionInv
<1>4. CASE s.connected
  BY <1>1, <1>2, <1>3, <1>4 DEF NoWrap
<1>5. CASE ~s.connected
  BY <1>1, <1>2, <1>3, <1>5 DEF NoWrap
<1>6. QED
  BY <1>4, <1>5

\* The host callbacks.  A write that is accepted belongs to the session and the
\* link that are up.
HostEffect ==
    \/ EndsSession
    \/ KeepsSession /\ s'.tx = s.tx /\ s'.queue = s.queue
    \/ /\ KeepsSession /\ s'.tx = s.tx /\ s.connected /\ ~s.blocked
       /\ \E e \in Write : e.session = s.session /\ e.link = link
                           /\ s'.queue = Append(s.queue, e)

LEMMA HostLinksSession ==
    NoWrap /\ TypeOK /\ SessionInv /\ HostLinks => SessionInv' /\ HostEffect
<1> SUFFICES ASSUME NoWrap, TypeOK, SessionInv, HostLinks
             PROVE  SessionInv' /\ HostEffect
  OBVIOUS
<1>0. /\ s \in ServiceState /\ link \in Nat /\ links \in Nat /\ writes \in Nat
      /\ clock \in Nat
  BY DEF TypeOK
<1>1. /\ s.session \in Nat \ {0} /\ s.connected \in BOOLEAN /\ s.blocked \in BOOLEAN
      /\ s.queue \in Seq(Write)
  BY <1>0 DEF ServiceState
<1>2. ASSUME NEW c \in BOOLEAN, s.session < SessionLimit
      PROVE  /\ Fresh(s, c).queue = <<>> /\ Fresh(s, c).tx = <<>>
             /\ Fresh(s, c).connected = c /\ Fresh(s, c).blocked = FALSE
             /\ Fresh(s, c).pending = NoError
             /\ Fresh(s, c).session = s.session + 1
  <2>1. next_session_locked(s).session = s.session + 1
    BY <1>0, <1>2, NextSession
  <2>2. QED
    BY <1>0, <2>1, FreshType, Zenon
<1>3. CASE stock_ble_on_connect
  <2>1. ~s.connected /\ links < MaxLinks /\ link' = links + 1 /\ links' = links + 1
        /\ writes' = writes
    BY <1>3 DEF stock_ble_on_connect, SessionInv
  <2>2. s' = Fresh(s, TRUE)
    BY <1>3, <2>1 DEF stock_ble_on_connect
  <2>3. s.session < SessionLimit
    BY <2>1, CountedSession
  <2>4. /\ s'.queue = <<>> /\ s'.tx = <<>> /\ s'.connected = TRUE /\ s'.blocked = FALSE
        /\ s'.pending = NoError /\ s'.session = s.session + 1
    BY <1>2, <2>2, <2>3, Zenon
  <2>5. s'.session + 1 <= 1 + 2 * links' + writes'
    BY <1>0, <1>1, <2>1, <2>4 DEF SessionInv
  <2>6. QED
    BY <1>0, <2>1, <2>4, <2>5 DEF SessionInv, HostEffect, EndsSession
<1>4. CASE (LinkDown \/ Cancel) /\ s.connected
  <2>1. s' = Fresh(s, FALSE) /\ links' = links /\ writes' = writes
    BY <1>4 DEF LinkDown, Cancel, stock_ble_on_disconnect
  <2>2. s.session < SessionLimit
    BY <1>4, CountedSession
  <2>3. /\ s'.queue = <<>> /\ s'.tx = <<>> /\ s'.connected = FALSE /\ s'.blocked = FALSE
        /\ s'.pending = NoError /\ s'.session = s.session + 1
    BY <1>2, <2>1, <2>2, Zenon
  <2>4. s'.session <= 1 + 2 * links' + writes'
    BY <1>0, <1>1, <1>4, <2>1, <2>3 DEF SessionInv
  <2>5. QED
    BY <1>1, <2>3, <2>4 DEF SessionInv, HostEffect, EndsSession
<1>5. CASE (LinkDown \/ Cancel) /\ ~s.connected
  <2>1. s' = s /\ links' = links /\ writes' = writes
    BY <1>5 DEF LinkDown, Cancel, stock_ble_on_disconnect
  <2>2. QED
    BY <1>5, <2>1 DEF SessionInv, HostEffect, KeepsSession
<1>6. CASE stock_ble_on_subscribe
  <2>1. /\ s'.queue = s.queue /\ s'.tx = s.tx /\ s'.connected = s.connected
        /\ s'.blocked = s.blocked /\ s'.pending = s.pending /\ s'.session = s.session
    BY <1>0, <1>6 DEF stock_ble_on_subscribe, ServiceState
  <2>2. link' = link /\ links' = links /\ writes' = writes
    BY <1>6 DEF stock_ble_on_subscribe
  <2>3. QED
    BY <2>1, <2>2 DEF SessionInv, HostEffect, KeepsSession
<1>7. CASE access_cb
  <2>0. link' = link /\ links' = links /\ writes' = writes + 1
    BY <1>7 DEF access_cb
  <2> DEFINE x == [n |-> writes', t |-> clock, session |-> s.session, link |-> link]
             r == [s EXCEPT !.queue = Append(@, x)]
  <2>1. x \in Write /\ x.session = s.session /\ x.link = link
    BY <1>0, <1>1, <2>0 DEF Write
  <2>2. /\ r.queue = Append(s.queue, x) /\ r.tx = s.tx /\ r.connected = s.connected
        /\ r.blocked = s.blocked /\ r.pending = s.pending /\ r.session = s.session
    BY <1>0 DEF ServiceState
  <2>3. \/ s' = s
        \/ s.connected /\ \E code \in {"LARGE", "FULL"} : s' = reject_locked(s, code)
        \/ s.connected /\ ~s.blocked /\ s' = r
    BY <1>7 DEF access_cb
  <2> HIDE DEF x, r
  <2>4. CASE s' = s
    BY <1>0, <1>1, <2>0, <2>4 DEF SessionInv, HostEffect, KeepsSession
  <2>5. CASE s.connected /\ \E code \in {"LARGE", "FULL"} : s' = reject_locked(s, code)
    <3>1. PICK code \in {"LARGE", "FULL"} : s' = reject_locked(s, code)
      BY <2>5
    <3>2. code \in Code /\ code # "NONE"
      BY DEF Code
    <3>3. s.session < SessionLimit
      BY <2>5, CountedSession
    <3>4. /\ s'.queue = <<>> /\ s'.tx = <<>> /\ s'.connected = s.connected
          /\ s'.blocked = TRUE /\ s'.pending = [code |-> code, link |-> link]
          /\ s'.session = s.session + 1
      BY <1>0, <3>1, <3>2, <3>3, RejectType, NextSession, Zenon
    <3>5. s'.pending # NoError /\ s'.pending.link = link
      BY <3>2, <3>4 DEF NoError
    <3>6. s'.session + 1 <= 1 + 2 * links' + writes'
      BY <1>0, <1>1, <2>0, <2>5, <3>4 DEF SessionInv
    <3>7. QED
      BY <2>0, <2>5, <3>4, <3>5, <3>6 DEF SessionInv, HostEffect, EndsSession
  <2>6. CASE s.connected /\ ~s.blocked /\ s' = r
    <3>1. SessionInv'
      <4>1. /\ s'.connected = s.connected /\ s'.blocked = s.blocked
            /\ s'.pending = s.pending /\ s'.session = s.session
        BY <2>2, <2>6, Zenon
      <4>2. /\ ~s'.connected \/ s'.blocked => s'.queue = <<>>
            /\ s'.blocked => s'.connected /\ s'.pending.link = link'
        BY <2>6, <4>1, Zenon
      <4>3. /\ s'.connected => link' # 0
            /\ s'.blocked <=> s'.pending # NoError
        BY <2>0, <4>1, Zenon DEF SessionInv
      <4>4. s'.session + (IF s'.connected THEN 1 ELSE 0) <= 1 + 2 * links' + writes'
        BY <1>0, <1>1, <2>0, <4>1 DEF SessionInv
      <4>5. QED
        BY <4>2, <4>3, <4>4 DEF SessionInv
    <3>2. HostEffect
      BY <2>0, <2>1, <2>2, <2>6 DEF HostEffect, KeepsSession
    <3>3. QED
      BY <3>1, <3>2
  <2>7. QED
    BY <2>3, <2>4, <2>5, <2>6
<1>8. QED
  BY <1>3, <1>4, <1>5, <1>6, <1>7 DEF HostLinks

\* Every other step keeps the session.
LEMMA OtherStepsSession ==
    TypeOK /\ SessionInv /\ (HostSends \/ MainLoop \/ Tick \/ UNCHANGED vars)
    => SessionInv' /\ KeepsSession
<1> SUFFICES ASSUME TypeOK, SessionInv, HostSends \/ MainLoop \/ Tick \/ UNCHANGED vars
             PROVE  SessionInv' /\ KeepsSession
  OBVIOUS
<1>0. s \in ServiceState
  BY DEF TypeOK
<1>1. UNCHANGED <<link, links, writes>>
  BY DEF HostSends, TxBegin, TxSend, TxMore, TxStep, MainLoop, NotifyCheck, NotifyPut,
         NotifyEvent, Quiet, Worker, PollBegin, PollTake, PollCheck, PollFeed, PollDispatch,
         Received, Reply, PollIdle, LoopForget, ShotTick, NextTurn, Tick, vars
<1>2. \/ s' = s
      \/ \E q : s' = [s EXCEPT !.tx = q]
      \/ s' = [s EXCEPT !.queue = Tail(@)] /\ s.queue # <<>>
      \/ s' = [s EXCEPT !.pending = NoError, !.blocked = FALSE]
  <2>1. CASE HostSends
    BY <2>1 DEF HostSends, TxBegin, TxSend, TxMore
  <2>2. CASE MainLoop
    BY <2>2 DEF MainLoop, NotifyCheck, NotifyPut, NotifyEvent, Have, PollStart,
         PollBegin, PollTake, PollCheck, PollFeed, PollDispatch,
         Received, Reply, PollIdle, LoopForget, ShotTick, NextTurn
  <2>3. CASE Tick \/ UNCHANGED vars
    BY <2>3 DEF Tick, vars
  <2>4. QED
    BY <2>1, <2>2, <2>3
<1>3. CASE s' = s
  BY <1>1, <1>3 DEF SessionInv, KeepsSession
<1>4. CASE \E q : s' = [s EXCEPT !.tx = q]
  <2>1. /\ s'.session = s.session /\ s'.connected = s.connected /\ s'.blocked = s.blocked
        /\ s'.pending = s.pending /\ s'.queue = s.queue
    BY <1>0, <1>4 DEF ServiceState
  <2>2. QED
    BY <1>1, <2>1 DEF SessionInv, KeepsSession
<1>5. CASE s' = [s EXCEPT !.queue = Tail(@)] /\ s.queue # <<>>
  <2>1. /\ s'.session = s.session /\ s'.connected = s.connected /\ s'.blocked = s.blocked
        /\ s'.pending = s.pending
    BY <1>0, <1>5 DEF ServiceState
  <2>2. s.connected /\ ~s.blocked
    BY <1>5 DEF SessionInv
  <2>3. QED
    BY <1>1, <2>1, <2>2 DEF SessionInv, KeepsSession
<1>6. CASE s' = [s EXCEPT !.pending = NoError, !.blocked = FALSE]
  <2>1. /\ s'.session = s.session /\ s'.connected = s.connected /\ s'.blocked = FALSE
        /\ s'.pending = NoError /\ s'.queue = s.queue
    BY <1>0, <1>6 DEF ServiceState
  <2>2. QED
    BY <1>1, <2>1 DEF SessionInv, KeepsSession
<1>7. QED
  BY <1>2, <1>3, <1>4, <1>5, <1>6

LEMMA SessionStep ==
    NoWrap /\ TypeOK /\ SessionInv /\ [Next]_vars
    => SessionInv' /\ (KeepsSession \/ EndsSession)
BY HostLinksSession, OtherStepsSession DEF Next, HostEffect

\* What names a session keeps its link, or names a session that has ended.
LEMMA HeldKept ==
    ASSUME TypeOK, NEW x, x.session \in Nat, Held(x, s, link), KeepsSession \/ EndsSession
    PROVE  Held(x, s', link')
<1>1. s.session \in Nat
  BY DEF TypeOK, ServiceState
<1>2. CASE KeepsSession
  BY <1>2 DEF Held, KeepsSession
<1>3. CASE EndsSession
  <2>1. x.session <= s.session /\ s'.session = s.session + 1
    BY <1>3 DEF Held, EndsSession
  <2>2. x.session <= s'.session /\ x.session # s'.session
    BY <1>1, <2>1
  <2>3. QED
    BY <2>2 DEF Held
<1>4. QED
  BY <1>2, <1>3

\* Session 0 is nobody's.
LEMMA HeldNothing ==
    ASSUME s' \in ServiceState, NEW x, x.session = 0
    PROVE  Held(x, s', link')
<1>1. s'.session \in Nat \ {0}
  BY DEF ServiceState
<1>2. QED
  BY <1>1 DEF Held

LEMMA NothingHeld ==
    NoPacket.session = 0 /\ NoWrite.session = 0 /\ NoSession.session = 0
BY DEF NoPacket, NoWrite, NoSession

\* Queues keep what is held.
LEMMA HeldAppend ==
    ASSUME NEW T, NEW q \in Seq(T), NEW x \in T, NEW session, NEW b, NEW up
    PROVE  /\ HeldAll(q, b, up) /\ Held(x, b, up) => HeldAll(Append(q, x), b, up)
           /\ Of(q, session) /\ x.session = session => Of(Append(q, x), session)
<1>1. /\ Len(q) \in Nat /\ Len(Append(q, x)) = Len(q) + 1
      /\ Append(q, x)[Len(q) + 1] = x
      /\ \A i \in 1 .. Len(q) : Append(q, x)[i] = q[i]
  BY QueueAppend, LenProperties
<1>2. \A i \in 1 .. Len(Append(q, x)) : i \in 1 .. Len(q) \/ i = Len(q) + 1
  BY <1>1
<1>3. QED
  BY <1>1, <1>2 DEF HeldAll, Of

LEMMA HeldTail ==
    ASSUME NEW T, NEW q \in Seq(T), q # <<>>, NEW session, NEW b, NEW up
    PROVE  /\ HeldAll(q, b, up) => HeldAll(Tail(q), b, up) /\ Held(Head(q), b, up)
           /\ Of(q, session) => Of(Tail(q), session) /\ Head(q).session = session
<1>1. /\ Head(q) = q[1] /\ Len(q) \in Nat \ {0} /\ Len(Tail(q)) = Len(q) - 1
      /\ \A i \in 1 .. Len(q) - 1 : Tail(q)[i] = q[i + 1]
  BY QueueTake
<1>2. 1 \in 1 .. Len(q) /\ \A i \in 1 .. Len(q) - 1 : i + 1 \in 1 .. Len(q)
  BY <1>1
<1>3. QED
  BY <1>1, <1>2 DEF HeldAll, Of

LEMMA HeldEmpty ==
    ASSUME NEW session, NEW b, NEW up
    PROVE  HeldAll(<<>>, b, up) /\ Of(<<>>, session)
BY EmptyValues DEF HeldAll, Of

LEMMA HeldAllKept ==
    ASSUME TypeOK, NEW T, NEW q \in Seq(T), \A x \in T : x.session \in Nat,
           HeldAll(q, s, link), KeepsSession \/ EndsSession
    PROVE  HeldAll(q, s', link')
<1>1. \A i \in 1 .. Len(q) : q[i] \in T
  BY ElementOfSeq
<1>2. QED
  BY <1>1, HeldKept DEF HeldAll

\* The queues hold nothing of another link's.
LEMMA TxHeld ==
    ASSUME NoWrap, TypeOK, SessionInv, HeldInv, [Next]_vars
    PROVE  HeldAll(s'.tx, s', link')
<1>0. /\ s \in ServiceState /\ s.tx \in Seq(Packet) /\ w.out \in Packet
      /\ \A x \in Packet : x.session \in Nat
  BY DEF TypeOK, ServiceState, LoopState, Packet
<1>1. \/ s'.tx = s.tx \/ s'.tx = <<>>
      \/ s.tx # <<>> /\ s'.tx = Tail(s.tx)
      \/ s'.tx = Append(s.tx, w.out)
  <2>1. CASE HostLinks
    BY <2>1, HostLinksSession DEF HostEffect, EndsSession
  <2>2. CASE HostSends
    BY <1>0, <2>2 DEF HostSends, TxBegin, TxSend, TxMore, ServiceState
  <2>3. CASE MainLoop
    BY <1>0, <2>3 DEF MainLoop, NotifyCheck, NotifyPut, NotifyEvent, PollStart,
         PollBegin, PollTake, PollCheck, PollFeed, PollDispatch,
         Received, Reply, PollIdle, LoopForget, ShotTick, NextTurn, ServiceState
  <2>4. CASE Tick \/ UNCHANGED vars
    BY <2>4 DEF Tick, vars
  <2>5. QED
    BY <2>1, <2>2, <2>3, <2>4 DEF Next
<1>2. HeldAll(s.tx, s, link) /\ Held(w.out, s, link)
  BY DEF HeldInv
<1>3. HeldAll(s'.tx, s, link)
  <2>1. HeldAll(<<>>, s, link) /\ HeldAll(Append(s.tx, w.out), s, link)
    BY <1>0, <1>2, HeldEmpty, HeldAppend, Zenon
  <2>2. s.tx # <<>> => HeldAll(Tail(s.tx), s, link)
    BY <1>0, <1>2, HeldTail, Zenon
  <2>3. QED
    BY <1>1, <1>2, <2>1, <2>2, Zenon
<1>4. s'.tx \in Seq(Packet)
  BY TypeStep DEF TypeOK, ServiceState
<1>5. QED
  BY <1>0, <1>3, <1>4, SessionStep, HeldAllKept

LEMMA QueueHeld ==
    ASSUME NoWrap, TypeOK, SessionInv, HeldInv, [Next]_vars
    PROVE  HeldAll(s'.queue, s', link') /\ Of(s'.queue, s'.session)
<1>0. /\ s \in ServiceState /\ s.queue \in Seq(Write) /\ s.session \in Nat
      /\ \A x \in Write : x.session \in Nat
  BY DEF TypeOK, ServiceState, Write
<1>1. HeldAll(s.queue, s, link) /\ Of(s.queue, s.session)
  BY DEF HeldInv
<1>2. \/ s'.queue = s.queue
      \/ s.queue # <<>> /\ s'.queue = Tail(s.queue)
      \/ s'.queue = <<>>
      \/ \E e \in Write : /\ s'.queue = Append(s.queue, e)
                          /\ Held(e, s, link) /\ e.session = s.session
  <2>1. CASE HostLinks
    <3>1. ASSUME NEW e \in Write, e.session = s.session, e.link = link,
                 s.connected, ~s.blocked
          PROVE  Held(e, s, link)
      BY <1>0, <3>1 DEF Held
    <3>2. HostEffect
      BY <2>1, HostLinksSession
    <3>3. QED
      BY <3>1, <3>2 DEF HostEffect, EndsSession
  <2>2. CASE HostSends
    BY <1>0, <2>2 DEF HostSends, TxBegin, TxSend, TxMore, ServiceState
  <2>3. CASE MainLoop
    BY <1>0, <2>3 DEF MainLoop, NotifyCheck, NotifyPut, NotifyEvent, PollStart, Have,
         PollBegin, PollTake, PollCheck, PollFeed, PollDispatch,
         Received, Reply, PollIdle, LoopForget, ShotTick, NextTurn, ServiceState
  <2>4. CASE Tick \/ UNCHANGED vars
    BY <2>4 DEF Tick, vars
  <2>5. QED
    BY <2>1, <2>2, <2>3, <2>4 DEF Next
<1>3. HeldAll(s'.queue, s, link) /\ Of(s'.queue, s.session)
  <2>1. HeldAll(<<>>, s, link) /\ Of(<<>>, s.session)
    BY HeldEmpty, Zenon
  <2>2. s.queue # <<>> => HeldAll(Tail(s.queue), s, link) /\ Of(Tail(s.queue), s.session)
    BY <1>0, <1>1, HeldTail, Zenon
  <2>3. ASSUME NEW e \in Write, Held(e, s, link), e.session = s.session
        PROVE  HeldAll(Append(s.queue, e), s, link) /\ Of(Append(s.queue, e), s.session)
    BY <1>0, <1>1, <2>3, HeldAppend, Zenon
  <2>4. QED
    BY <1>1, <1>2, <2>1, <2>2, <2>3, Zenon
<1>4. s'.queue \in Seq(Write)
  BY TypeStep DEF TypeOK, ServiceState
<1>5. Of(s'.queue, s'.session)
  BY <1>3, SessionStep, HeldEmpty DEF KeepsSession, EndsSession
<1>6. QED
  BY <1>0, <1>3, <1>4, <1>5, SessionStep, HeldAllKept

LEMMA PartsHeld ==
    ASSUME NoWrap, TypeOK, SessionInv, HeldInv, [Next]_vars
    PROVE  /\ HeldAll(stream'.parts, s', link') /\ Of(stream'.parts, stream'.session)
           /\ stream'.session <= s'.session
<1>0. /\ stream \in ParserState /\ stream.parts \in Seq(Write) /\ stream.session \in Nat
      /\ w.ev \in Write /\ s.session \in Nat
      /\ \A x \in Write : x.session \in Nat
  BY DEF TypeOK, ParserState, LoopState, Write, ServiceState
<1>1. /\ HeldAll(stream.parts, s, link) /\ Of(stream.parts, stream.session)
      /\ Held(w.ev, s, link) /\ stream.session <= s.session
  BY DEF HeldInv
<1>2. \/ /\ stream'.session = stream.session
         /\ \/ stream'.parts = stream.parts \/ stream'.parts = <<>>
            \/ stream'.parts = Append(stream.parts, w.ev) /\ w.pc = "feed"
      \/ stream'.session = s.session /\ stream'.parts = <<>>
  <2>1. CASE HostLinks \/ HostSends \/ Tick \/ UNCHANGED vars
    BY <2>1 DEF HostLinks, HostReady, stock_ble_on_connect, LinkDown, Cancel,
         stock_ble_on_subscribe, access_cb, HostSends, TxStep, TxBegin, TxSend, TxMore,
         Tick, vars
  <2>2. CASE PollBegin
    BY <2>2 DEF PollBegin, NewStream
  <2>3. CASE PollFeed
    BY <1>0, <2>3 DEF PollFeed, ParserState
  <2>4. CASE MainLoop /\ ~PollBegin /\ ~PollFeed
    BY <1>0, <2>4 DEF MainLoop, NotifyCheck, NotifyPut, NotifyEvent,
         PollTake, PollCheck, PollDispatch, Quiet,
         Received, Reply, PollIdle, LoopForget, ShotTick, NextTurn, ParserState
  <2>5. QED
    BY <2>1, <2>2, <2>3, <2>4 DEF Next, MainLoop
<1>3. w.pc = "feed" => w.ev.session = stream.session
  BY DEF HeldInv, HasWrite, Unfed, InPoll, Notifying
<1>4. HeldAll(stream'.parts, s, link) /\ Of(stream'.parts, stream'.session)
  <2>1. HeldAll(<<>>, s, link) /\ Of(<<>>, stream'.session)
    BY HeldEmpty, Zenon
  <2>2. w.pc = "feed" =>
          /\ HeldAll(Append(stream.parts, w.ev), s, link)
          /\ Of(Append(stream.parts, w.ev), stream.session)
    BY <1>0, <1>1, <1>3, HeldAppend, Zenon
  <2>3. QED
    BY <1>1, <1>2, <2>1, <2>2, Zenon
<1>5. stream'.parts \in Seq(Write)
  BY TypeStep DEF TypeOK, ParserState
<1>6. HeldAll(stream'.parts, s', link')
  BY <1>0, <1>4, <1>5, SessionStep, HeldAllKept
<1>7. s.session <= s'.session
  BY <1>0, SessionStep DEF KeepsSession, EndsSession
<1>8. stream'.session <= s'.session
  <2>1. stream'.session \in Nat /\ s'.session \in Nat
    BY TypeStep DEF TypeOK, ParserState, ServiceState
  <2>2. QED
    BY <1>0, <1>1, <1>2, <1>7, <2>1
<1>9. QED
  BY <1>4, <1>6, <1>8

LEMMA LastHeld ==
    ASSUME NoWrap, TypeOK, SessionInv, HeldInv, [Next]_vars
    PROVE  Held(last', s', link')
<1>0. /\ last.session \in Nat /\ w.ev \in Write /\ w.ev.session \in Nat
      /\ s' \in ServiceState /\ w.session \in Nat
  BY TypeStep DEF TypeOK, LoopState, Write
<1>1. \/ last' = last \/ last' = NoSession
      \/ last' = [session |-> w.session, link |-> w.ev.link] /\ w.pc = "handler"
  BY DEF Next, HostLinks, HostReady, stock_ble_on_connect, LinkDown, Cancel,
     stock_ble_on_subscribe, access_cb, HostSends, TxStep, TxBegin, TxSend, TxMore,
     MainLoop, NotifyCheck, NotifyPut, NotifyEvent, Quiet, PollBegin, PollTake, PollCheck,
     PollFeed, PollDispatch, Received, Reply, PollIdle, LoopForget, ShotTick, NextTurn, Tick, vars
<1>2. CASE last' = last
  BY <1>0, <1>2, SessionStep, HeldKept DEF HeldInv
<1>3. CASE last' = NoSession
  BY <1>0, <1>3, HeldNothing, NothingHeld
<1>4. CASE last' = [session |-> w.session, link |-> w.ev.link] /\ w.pc = "handler"
  <2>1. w.ev.session = w.session /\ Held(w.ev, s, link)
    BY <1>4 DEF HeldInv, HasWrite
  <2>2. last'.session = w.session /\ last'.link = w.ev.link
    BY <1>4
  <2>3. Held(last', s, link)
    BY <2>1, <2>2 DEF Held
  <2>4. QED
    BY <1>0, <2>2, <2>3, SessionStep, HeldKept
<1>5. QED
  BY <1>1, <1>2, <1>3, <1>4

\* What the locals of the main loop name after a step, by the state before it.
NextLocals ==
    /\ Held(w'.out, s, link) /\ Held(w'.ev, s, link)
    /\ w'.session <= s.session
    /\ InPoll' => stream'.session = w'.session
    /\ HasWrite' => w'.ev.session = w'.session

Locals ==
    /\ Held(w.out, s, link) /\ Held(w.ev, s, link)
    /\ w.session <= s.session
    /\ InPoll => stream.session = w.session
    /\ HasWrite => w.ev.session = w.session

LEMMA GotoLocals ==
    ASSUME TypeOK, Locals, NEW pc \in WorkerPc, Goto(pc),
           stream'.session = stream.session,
           pc \notin {"poll", "shot"} => InPoll,
           pc \in {"check", "feed", "handler", "reply", "dispatch"} => HasWrite,
           pc \notin {"notify", "put", "event"}
    PROVE  NextLocals
<1>1. w \in LoopState /\ s \in ServiceState
  BY DEF TypeOK
<1>2. /\ w'.pc = pc /\ w'.out = NoPacket /\ w'.ret = "shot" /\ w'.session = w.session
      /\ w'.ev = IF pc = "take" THEN NoWrite ELSE w.ev
  BY <1>1 DEF Goto, LoopState
<1>3. \A x : x.session = 0 => Held(x, s, link)
  <2>1. s.session \in Nat \ {0}
    BY <1>1 DEF ServiceState
  <2>2. QED
    BY <2>1 DEF Held
<1>4. Held(w'.out, s, link) /\ Held(w'.ev, s, link)
  BY <1>2, <1>3, NothingHeld DEF Locals
<1>5. InPoll' => stream'.session = w'.session
  BY <1>2 DEF Locals, InPoll, Notifying
<1>6. HasWrite' => w'.ev.session = w'.session
  BY <1>2 DEF Locals, HasWrite, Unfed, Notifying
<1>7. QED
  BY <1>2, <1>4, <1>5, <1>6 DEF NextLocals, Locals

LEMMA NotifyLocals ==
    ASSUME TypeOK, Locals, NEW session \in Nat, NEW code, NEW to,
           NEW ret \in {"shot", "take", "feed", "end"}, Notify(session, code, to, ret),
           Held([session |-> session, code |-> code, link |-> to], s, link),
           stream'.session = stream.session,
           ret # "shot" => InPoll,
           ret = "feed" => HasWrite
    PROVE  NextLocals
<1>1. w \in LoopState
  BY DEF TypeOK
<1>2. /\ w'.pc = "notify" /\ w'.ret = ret /\ w'.session = w.session /\ w'.ev = w.ev
      /\ w'.out = [session |-> session, code |-> code, link |-> to]
  BY <1>1 DEF Notify, LoopState
<1>3. InPoll' => stream'.session = w'.session
  BY <1>2 DEF Locals, InPoll, Notifying
<1>4. HasWrite' => w'.ev.session = w'.session
  BY <1>2 DEF Locals, HasWrite, Unfed, Notifying
<1>5. QED
  BY <1>2, <1>3, <1>4 DEF NextLocals, Locals

\* A notification of the poll for the write it holds.
LEMMA WriteHeld ==
    ASSUME Locals, HasWrite, NEW code
    PROVE  Held([session |-> w.session, code |-> code, link |-> w.ev.link], s, link)
BY DEF Locals, Held

LEMMA NotifyStepsLocals ==
    ASSUME TypeOK, Locals, NotifyCheck \/ NotifyPut \/ NotifyEvent
    PROVE  NextLocals
<1>0. w \in LoopState /\ w.ret \in {"shot", "take", "feed", "end"} /\ stream' = stream
  BY DEF TypeOK, LoopState, NotifyCheck, NotifyPut, NotifyEvent
<1>1. \/ \E pc \in {"put", "event"} : w' = [w EXCEPT !.pc = pc]
      \/ Goto(w.ret)
  BY DEF NotifyCheck, NotifyPut, NotifyEvent
<1>2. Notifying
  BY DEF NotifyCheck, NotifyPut, NotifyEvent, Notifying
<1>3. CASE Goto(w.ret)
  <2>1. w.ret \in WorkerPc
    BY <1>0 DEF WorkerPc
  <2>2. w.ret # "shot" => InPoll
    BY <1>2 DEF InPoll, Notifying
  <2>3. w.ret = "feed" => HasWrite
    BY <1>2 DEF HasWrite, Unfed
  <2>4. QED
    BY <1>0, <1>3, <2>1, <2>2, <2>3, GotoLocals
<1>4. CASE \E pc \in {"put", "event"} : w' = [w EXCEPT !.pc = pc]
  <2>1. /\ w'.pc \in {"put", "event"} /\ w'.out = w.out /\ w'.ev = w.ev
        /\ w'.session = w.session /\ w'.ret = w.ret
    BY <1>0, <1>4 DEF LoopState
  <2>2. InPoll' => InPoll
    BY <1>2, <2>1 DEF InPoll, Notifying
  <2>3. HasWrite' => HasWrite
    BY <1>2, <2>1 DEF HasWrite, Unfed, Notifying
  <2>4. QED
    BY <1>0, <2>1, <2>2, <2>3 DEF Locals, NextLocals
<1>5. QED
  BY <1>1, <1>3, <1>4

\* A poll reports the rejected write to the link that wrote it.
LEMMA PollBeginLocals ==
    ASSUME TypeOK, SessionInv, Locals, PollBegin
    PROVE  Locals'
<1>0. w \in LoopState /\ s \in ServiceState /\ stream \in ParserState
  BY DEF TypeOK
<1>1. /\ w'.session = s.session /\ w'.ev = w.ev /\ w'.pc \in {"take", "notify"}
      /\ w'.ret = "take"
  BY <1>0 DEF PollBegin, LoopState
<1>2. stream'.session = s.session
  BY <1>0 DEF PollBegin, PollReset, NewStream
<1>3. /\ s'.session = s.session /\ s'.connected = s.connected /\ s'.blocked = FALSE
      /\ link' = link /\ s.session \in Nat \ {0}
  BY <1>0 DEF PollBegin, PollStart, ServiceState, Quiet, Worker
<1>4. Held(w'.out, s', link')
  <2>1. CASE s.pending = NoError
    <3>1. w'.out = NoPacket
      BY <1>0, <2>1 DEF PollBegin, LoopState
    <3>2. QED
      BY <1>3, <3>1, NothingHeld DEF Held
  <2>2. CASE s.pending # NoError
    <3>1. w'.out.session = s.session /\ w'.out.link = s.pending.link
      BY <1>0, <2>2 DEF PollBegin, LoopState
    <3>2. s.connected /\ s.pending.link = link
      BY <2>2 DEF SessionInv
    <3>3. QED
      BY <1>3, <3>1, <3>2 DEF Held
  <2>3. QED
    BY <2>1, <2>2
<1>5. Held(w'.ev, s', link')
  BY <1>1, <1>3 DEF Locals, Held
<1>6. ~HasWrite'
  BY <1>1 DEF HasWrite, Unfed, Notifying
<1>7. QED
  BY <1>1, <1>2, <1>3, <1>4, <1>5, <1>6 DEF Locals

LEMMA PollStepsLocals ==
    ASSUME TypeOK, HeldInv, Locals,
           PollTake \/ PollCheck \/ PollFeed \/ PollDispatch \/ PollIdle
    PROVE  NextLocals
<1>0. /\ w \in LoopState /\ w.session \in Nat /\ s \in ServiceState /\ stream \in ParserState
      /\ s.queue \in Seq(Write) /\ stream.parts \in Seq(Write)
  BY DEF TypeOK, LoopState, ServiceState, ParserState
<1>1. stream'.session = stream.session
  BY <1>0 DEF PollTake, PollCheck, PollFeed, PollDispatch, PollIdle, ParserState
<1>2. CASE PollTake
  <2>1. InPoll
    BY <1>2 DEF PollTake, InPoll, Notifying
  <2>2. CASE Have
    <3>1. s.queue # <<>> /\ s.session = w.session
      BY <2>2 DEF Have
    <3>2. Held(Head(s.queue), s, link) /\ Head(s.queue).session = s.session
      BY <1>0, <3>1, HeldTail, Zenon DEF HeldInv
    <3>3. /\ w'.pc = "check" /\ w'.out = w.out /\ w'.ev = Head(s.queue)
          /\ w'.session = w.session
      BY <1>0, <1>2, <2>2 DEF PollTake, LoopState
    <3>4. QED
      BY <1>1, <2>1, <3>1, <3>2, <3>3 DEF Locals, NextLocals
  <2>3. CASE ~Have
    <3>1. Goto("idle") /\ "idle" \in WorkerPc
      BY <1>2, <2>3 DEF PollTake, WorkerPc
    <3>2. QED
      BY <1>1, <2>1, <3>1, GotoLocals
  <2>4. QED
    BY <2>2, <2>3
<1>3. CASE PollCheck
  <2>1. InPoll /\ HasWrite
    BY <1>3 DEF PollCheck, InPoll, HasWrite, Unfed, Notifying
  <2>2. Goto("take") \/ Goto("feed") \/ Notify(w.session, "IDLE", w.ev.link, "feed")
    BY <1>3 DEF PollCheck
  <2>3. QED
    BY <1>0, <1>1, <2>1, <2>2, GotoLocals, NotifyLocals, WriteHeld DEF WorkerPc
<1>4. CASE PollFeed
  <2>1. InPoll /\ HasWrite
    BY <1>4 DEF PollFeed, InPoll, HasWrite, Unfed, Notifying
  <2>2. \/ Goto("take") \/ \E code \in {"BAD", "LARGE"} : Notify(w.session, code, w.ev.link, "take")
        \/ w' = [w EXCEPT !.pc = "dispatch"]
    BY <1>4 DEF PollFeed
  <2>3. CASE w' = [w EXCEPT !.pc = "dispatch"]
    <3>1. /\ w'.pc = "dispatch" /\ w'.out = w.out /\ w'.ev = w.ev
          /\ w'.session = w.session
      BY <1>0, <2>3 DEF LoopState
    <3>2. QED
      BY <1>1, <2>1, <3>1 DEF Locals, NextLocals
  <2>4. CASE Goto("take")
    BY <1>1, <2>1, <2>4, GotoLocals DEF WorkerPc
  <2>5. CASE \E code \in {"BAD", "LARGE"} : Notify(w.session, code, w.ev.link, "take")
    BY <1>0, <1>1, <2>1, <2>5, NotifyLocals, WriteHeld
  <2>6. QED
    BY <2>2, <2>3, <2>4, <2>5
<1>5. CASE PollDispatch
  <2>1. InPoll /\ HasWrite
    BY <1>5 DEF PollDispatch, InPoll, HasWrite, Notifying
  <2>2. Goto("handler") \/ Goto("take")
    BY <1>5 DEF PollDispatch
  <2>3. QED
    BY <1>1, <2>1, <2>2, GotoLocals DEF WorkerPc
<1>6. CASE PollIdle
  <2>1. InPoll
    BY <1>6 DEF PollIdle, InPoll, Notifying
  <2>2. CASE Goto("end")
    BY <1>1, <2>1, <2>2, GotoLocals DEF WorkerPc
  <2>3. CASE /\ stream.parts # <<>>
             /\ Notify(w.session, "IDLE", Head(stream.parts).link, "end")
    <3>1. /\ Held(Head(stream.parts), s, link)
          /\ Head(stream.parts).session = stream.session
      BY <1>0, <2>3, HeldTail, Zenon DEF HeldInv
    <3>2. stream.session = w.session
      BY <2>1 DEF Locals
    <3>3. Held([session |-> w.session, code |-> "IDLE", link |-> Head(stream.parts).link],
               s, link)
      BY <3>1, <3>2 DEF Held
    <3>4. QED
      BY <1>0, <1>1, <2>1, <2>3, <3>3, NotifyLocals
  <2>4. QED
    BY <1>6, <2>2, <2>3 DEF PollIdle, Stale
<1>7. QED
  BY <1>2, <1>3, <1>4, <1>5, <1>6

LEMMA CallerStepsLocals ==
    ASSUME TypeOK, HeldInv, Locals, Received \/ Reply \/ LoopForget \/ ShotTick \/ NextTurn
    PROVE  NextLocals
<1>0. /\ w \in LoopState /\ w.session \in Nat /\ last.session \in Nat /\ s.session \in Nat
      /\ stream'.session = stream.session
  BY DEF TypeOK, LoopState, ServiceState, Received, Reply, LoopForget, ShotTick, NextTurn
<1>1. CASE Received \/ Reply
  <2>1. InPoll /\ HasWrite
    BY <1>1 DEF Received, Reply, InPoll, HasWrite, Notifying
  <2>2. Goto("reply") \/ Goto("take") \/ Notify(w.session, "REPLY", w.ev.link, "take")
    BY <1>1 DEF Received, Reply
  <2>3. QED
    BY <1>0, <2>1, <2>2, GotoLocals, NotifyLocals, WriteHeld DEF WorkerPc
<1>2. CASE LoopForget
  <2>1. w'.pc = "shot" /\ w'.out = w.out /\ w'.ev = w.ev /\ w'.session = 0
    BY <1>0, <1>2 DEF LoopForget, LoopState
  <2>2. ~InPoll' /\ ~HasWrite'
    BY <2>1 DEF InPoll, HasWrite, Unfed, Notifying
  <2>3. QED
    BY <1>0, <2>1, <2>2 DEF Locals, NextLocals
<1>3. CASE ShotTick \/ NextTurn
  <2>1. CASE Goto("poll")
    BY <1>0, <2>1, GotoLocals DEF WorkerPc
  <2>2. CASE \E code \in {"REPLY", "SHOT"} : Notify(last.session, code, last.link, "shot")
    <3>1. PICK code \in {"REPLY", "SHOT"} : Notify(last.session, code, last.link, "shot")
      BY <2>2
    <3>2. Held([session |-> last.session, code |-> code, link |-> last.link], s, link)
      BY DEF HeldInv, Held
    <3>3. QED
      BY <1>0, <3>1, <3>2, NotifyLocals
  <2>3. QED
    BY <1>3, <2>1, <2>2 DEF ShotTick, NextTurn
<1>4. QED
  BY <1>1, <1>2, <1>3

LEMMA LocalsHeld ==
    ASSUME NoWrap, TypeOK, SessionInv, HeldInv, [Next]_vars
    PROVE  Locals'
<1>1. Locals
  BY DEF HeldInv, Locals
<1>2. CASE PollBegin
  BY <1>1, <1>2, PollBeginLocals
<1>3. CASE ~PollBegin
  <2>1. NextLocals
    <3>1. CASE MainLoop
      BY <1>1, <1>3, <3>1, NotifyStepsLocals, PollStepsLocals, CallerStepsLocals DEF MainLoop
    <3>2. CASE HostLinks \/ HostSends \/ Tick \/ UNCHANGED vars
      <4>1. w' = w /\ stream' = stream
        BY <3>2 DEF HostLinks, HostReady, stock_ble_on_connect, LinkDown, Cancel,
           stock_ble_on_subscribe, access_cb, HostSends, TxStep, TxBegin, TxSend, TxMore,
           Tick, vars
      <4>2. QED
        BY <1>1, <4>1 DEF Locals, NextLocals, InPoll, HasWrite, Unfed, Notifying
    <3>3. QED
      BY <3>1, <3>2 DEF Next
  <2>2. /\ w'.out.session \in Nat /\ w'.ev.session \in Nat /\ w'.session \in Nat
        /\ s.session \in Nat /\ s'.session \in Nat
    BY TypeStep DEF TypeOK, LoopState, Packet, Write, ServiceState
  <2>3. Held(w'.out, s', link') /\ Held(w'.ev, s', link')
    BY <2>1, <2>2, SessionStep, HeldKept DEF NextLocals
  <2>4. w'.session <= s'.session
    BY <2>1, <2>2, SessionStep DEF NextLocals, KeepsSession, EndsSession
  <2>5. QED
    BY <2>1, <2>3, <2>4 DEF NextLocals, Locals
<1>4. QED
  BY <1>2, <1>3

-----------------------------------------------------------------------------

LinkInv == TypeOK /\ SessionInv /\ HeldInv /\ PacketToItsLink

LEMMA LinkInvInit == NoWrap /\ Init => LinkInv
<1> SUFFICES ASSUME NoWrap, Init PROVE LinkInv
  OBVIOUS
<1>1. TypeOK
  BY InitTypeOK
<1>2. SessionInv
  BY DEF Init, SessionInv
<1>3. HeldInv
  <2>1. \A x : x.session = 0 => Held(x, s, link)
    BY DEF Init, Held
  <2>2. /\ s.tx = <<>> /\ s.queue = <<>> /\ stream = NewStream(0) /\ last = NoSession
        /\ w.out = NoPacket /\ w.ev = NoWrite /\ w.session = 0 /\ s.session = 1
        /\ w.pc = "poll"
    BY DEF Init
  <2>3. stream.parts = <<>> /\ stream.session = 0
    BY <2>2 DEF NewStream
  <2>4. ~InPoll /\ ~HasWrite
    BY <2>2 DEF InPoll, HasWrite, Unfed, Notifying
  <2>5. /\ HeldAll(<<>>, s, link) /\ Of(<<>>, s.session) /\ Of(<<>>, stream.session)
    BY HeldEmpty, Zenon
  <2>6. Held(w.out, s, link) /\ Held(w.ev, s, link) /\ Held(last, s, link)
    BY <2>1, <2>2, NothingHeld, Zenon
  <2>7. w.session <= s.session /\ stream.session <= s.session
    BY <2>2, <2>3
  <2>8. QED
    BY <2>2, <2>3, <2>4, <2>5, <2>6, <2>7, Zenon DEF HeldInv
<1>4. PacketToItsLink
  BY DEF Init, PacketToItsLink, NoSent
<1>5. QED
  BY <1>1, <1>2, <1>3, <1>4 DEF LinkInv

\* The packet that is sent is of the current session, so of the link that is up.
LEMMA SendsToItsLink ==
    ASSUME TypeOK, SessionInv, HeldInv, PacketToItsLink, TxSend
    PROVE  PacketToItsLink'
<1>1. CASE sent' = sent
  BY <1>1 DEF PacketToItsLink
<1>2. CASE sent' # sent
  <2>1. /\ s.tx # <<>> /\ stock_ble_session_current(Head(s.tx).session)
        /\ sent' = [link |-> link, to |-> Head(s.tx).link]
    BY <1>2 DEF TxSend
  <2>2. s.tx \in Seq(Packet)
    BY DEF TypeOK, ServiceState
  <2>3. Held(Head(s.tx), s, link)
    BY <2>1, <2>2, HeldTail, Zenon DEF HeldInv
  <2>4. Head(s.tx).link = link
    BY <2>1, <2>3 DEF Held, stock_ble_session_current
  <2>5. QED
    BY <2>1, <2>4 DEF PacketToItsLink
<1>3. QED
  BY <1>1, <1>2

LEMMA LinkInvStep ==
    ASSUME NoWrap
    PROVE  LinkInv /\ [Next]_vars => LinkInv'
<1> SUFFICES ASSUME LinkInv, [Next]_vars PROVE LinkInv'
  OBVIOUS
<1>1. TypeOK /\ SessionInv /\ HeldInv /\ PacketToItsLink
  BY DEF LinkInv
<1>2. TypeOK' /\ SessionInv'
  BY <1>1, TypeStep, SessionStep
<1>3. HeldInv'
  BY <1>1, TxHeld, QueueHeld, PartsHeld, LastHeld, LocalsHeld DEF HeldInv, Locals
<1>4. PacketToItsLink'
  <2>1. CASE TxSend
    BY <1>1, <2>1, SendsToItsLink
  <2>2. CASE TxMore
    BY <2>2 DEF TxMore, PacketToItsLink, NoSent
  <2>3. CASE ~TxSend /\ ~TxMore
    <3>1. sent' = sent
      BY <2>3 DEF Next, HostLinks, HostReady, stock_ble_on_connect, LinkDown, Cancel,
         stock_ble_on_subscribe, access_cb, HostSends, TxBegin,
         MainLoop, NotifyCheck, NotifyPut, NotifyEvent, Quiet, Worker, PollBegin, PollTake,
         PollCheck, PollFeed, PollDispatch, Received, Reply, PollIdle, LoopForget, ShotTick, NextTurn,
         Tick, vars
    <3>2. QED
      BY <1>1, <3>1 DEF PacketToItsLink
  <2>4. QED
    BY <2>1, <2>2, <2>3
<1>5. QED
  BY <1>2, <1>3, <1>4 DEF LinkInv

\* As long as session numbers do not come round, a packet goes out on the link
\* it was written for.
THEOREM PacketsToTheirLink ==
    ASSUME NoWrap
    PROVE  Spec => []PacketToItsLink
<1>1. LinkInv /\ [Next]_vars => LinkInv'
  BY LinkInvStep
<1>2. Init => LinkInv
  BY LinkInvInit
<1>3. LinkInv => PacketToItsLink
  BY DEF LinkInv
<1>4. QED
  BY <1>1, <1>2, <1>3, PTL DEF Spec
=============================================================================
