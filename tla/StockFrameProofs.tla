-------------------------- MODULE StockFrameProofs --------------------------
(* A frame of StockBle is assembled from writes that followed each other, for *)
(* every value of the constants, as long as session numbers do not wrap.     *)
EXTENDS StockBleProofs

-----------------------------------------------------------------------------
(* Writes in a row *)

\* The first and the last write of a queue, and its length.
LEMMA QueueEnds ==
    ASSUME NEW q \in Seq(Write), q # <<>>
    PROVE  /\ Len(q) \in Nat \ {0} /\ 1 \in 1 .. Len(q) /\ Len(q) \in 1 .. Len(q)
           /\ q[1] \in Write /\ Final(q) \in Write /\ Final(q) = q[Len(q)]
<1>1. Len(q) \in Nat \ {0}
  BY EmptySeq
<1>2. 1 \in 1 .. Len(q) /\ Len(q) \in 1 .. Len(q)
  BY <1>1
<1>3. QED
  BY <1>1, <1>2, ElementOfSeq DEF Final

LEMMA WriteFields == \A x \in Write : x.n \in Nat /\ x.t \in Nat /\ x.session \in Nat
BY DEF Write

LEMMA ChainEmpty == Consecutive(<<>>) /\ Timely(<<>>)
BY EmptyValues DEF Consecutive, Timely

\* A queue that goes on with the next write.
LEMMA ChainAppend ==
    ASSUME NEW q \in Seq(Write), NEW x \in Write
    PROVE  /\ Append(q, x) # <<>> /\ Final(Append(q, x)) = x
           /\ (q = <<>> => Append(q, x)[1] = x) /\ (q # <<>> => Append(q, x)[1] = q[1])
           /\ Consecutive(q) /\ (q # <<>> => x.n = Final(q).n + 1)
              => Consecutive(Append(q, x))
           /\ Timely(q) /\ (q # <<>> => x.t - Final(q).t < Idle)
              => Timely(Append(q, x))
<1> DEFINE r == Append(q, x)
<1>1. /\ Len(q) \in Nat /\ r # <<>> /\ Len(r) = Len(q) + 1 /\ r[Len(q) + 1] = x
      /\ \A i \in 1 .. Len(q) : r[i] = q[i]
  BY QueueAppend, LenProperties
<1> HIDE DEF r
<1>2. Final(r) = x
  BY <1>1 DEF Final
<1>3. q = <<>> => Len(q) = 0
  BY EmptyValues
<1>4. q # <<>> => 1 \in 1 .. Len(q) /\ Len(q) \in 1 .. Len(q)
  BY QueueEnds
<1>5. (q = <<>> => r[1] = x) /\ (q # <<>> => r[1] = q[1])
  BY <1>1, <1>3, <1>4
<1>6. \A i \in 1 .. Len(r) - 1 :
        \/ i \in 1 .. Len(q) - 1 /\ r[i] = q[i] /\ r[i + 1] = q[i + 1]
        \/ q # <<>> /\ r[i] = Final(q) /\ r[i + 1] = x
  <2> SUFFICES ASSUME NEW i \in 1 .. Len(r) - 1
               PROVE  \/ i \in 1 .. Len(q) - 1 /\ r[i] = q[i] /\ r[i + 1] = q[i + 1]
                      \/ q # <<>> /\ r[i] = Final(q) /\ r[i + 1] = x
    OBVIOUS
  <2>1. CASE i = Len(q)
    <3>1. q # <<>>
      BY <1>3, <2>1
    <3>2. QED
      BY <1>1, <1>4, <2>1, <3>1 DEF Final
  <2>2. CASE i # Len(q)
    <3>1. i \in 1 .. Len(q) - 1 /\ i \in 1 .. Len(q) /\ i + 1 \in 1 .. Len(q)
      BY <1>1, <2>2
    <3>2. QED
      BY <1>1, <3>1
  <2>3. QED
    BY <2>1, <2>2
<1>7. QED
  BY <1>1, <1>2, <1>5, <1>6 DEF r, Consecutive, Timely

\* A queue from which the first write was taken.
LEMMA ChainTail ==
    ASSUME NEW q \in Seq(Write), q # <<>>, Consecutive(q)
    PROVE  /\ Consecutive(Tail(q)) /\ Head(q) = q[1]
           /\ Tail(q) = <<>> => Final(q) = Head(q)
           /\ Tail(q) # <<>> => Final(Tail(q)) = Final(q) /\ Tail(q)[1].n = Head(q).n + 1
<1>1. /\ Tail(q) \in Seq(Write) /\ Head(q) = q[1]
      /\ Len(q) \in Nat \ {0} /\ Len(Tail(q)) = Len(q) - 1
      /\ (Tail(q) = <<>> <=> Len(q) = 1)
      /\ \A i \in 1 .. Len(q) - 1 : Tail(q)[i] = q[i + 1]
  BY QueueTake
<1>2. Tail(q) = <<>> => Final(q) = Head(q)
  BY <1>1 DEF Final
<1>3. ASSUME Tail(q) # <<>>
      PROVE  Final(Tail(q)) = Final(q) /\ Tail(q)[1].n = Head(q).n + 1
  <2>1. Len(q) - 1 \in 1 .. Len(q) - 1 /\ 1 \in 1 .. Len(q) - 1
    BY <1>1, <1>3
  <2>2. QED
    BY <1>1, <2>1 DEF Final, Consecutive
<1>4. Consecutive(Tail(q))
  <2>1. \A i \in 1 .. Len(Tail(q)) - 1 :
          i \in 1 .. Len(q) - 1 /\ i + 1 \in 1 .. Len(q) - 1
    BY <1>1
  <2>2. QED
    BY <1>1, <2>1 DEF Consecutive
<1>5. QED
  BY <1>1, <1>2, <1>3, <1>4

-----------------------------------------------------------------------------
(* What a step does to the chain of writes *)

\* The chain after a step, by the variables it is made of.
LEMMA ChainKept ==
    ASSUME ChainInv, s'.queue = s.queue, s'.session = s.session, writes' = writes,
           stream' = stream \/ stream'.parts = <<>>,
           Unfed' => Unfed /\ w'.ev = w.ev /\ w'.session = w.session,
           Unfed /\ w.pc = "check" => w'.pc = "check" \/ stream'.parts = <<>>,
           Unfed => Unfed' \/ stream'.parts = <<>>
    PROVE  ChainInv'
<1>1. /\ Consecutive(s'.queue) /\ (s'.queue # <<>> => Final(s'.queue).n = writes')
      /\ Consecutive(stream'.parts) /\ Timely(stream'.parts)
  BY ChainEmpty DEF ChainInv
<1>2. \A n : NextIs(n)' <=> NextIs(n)
  BY DEF NextIs
<1>3. (Unfed /\ w.session = s.session => NextIs(w.ev.n))'
  BY <1>2 DEF ChainInv
<1>4. CASE stream'.parts = <<>>
  BY <1>1, <1>3, <1>4 DEF ChainInv
<1>5. CASE stream' = stream /\ stream.parts # <<>>
  <2>1. Unfed' <=> Unfed
    BY <1>5
  <2>2. Unfed' /\ w'.pc # "check" => Unfed /\ w.pc # "check"
    BY <1>5, <2>1
  <2>3. QED
    BY <1>1, <1>2, <1>3, <1>5, <2>1, <2>2 DEF ChainInv
<1>6. QED
  BY <1>4, <1>5

\* The host callbacks: the queue goes on with the next write, or the session
\* ends, or nobody names it.
LEMMA HostLinksChain ==
    ASSUME NoWrap, LinkInv, ChainInv, HostLinks
    PROVE  ChainInv'
<1>0. /\ TypeOK /\ SessionInv /\ HeldInv /\ s \in ServiceState /\ w \in LoopState
      /\ stream \in ParserState /\ s.queue \in Seq(Write) /\ s.session \in Nat
      /\ stream.parts \in Seq(Write) /\ writes \in Nat /\ link \in Nat /\ clock \in Nat
      /\ stream.session \in Nat /\ w.session \in Nat
  BY DEF LinkInv, TypeOK, ServiceState, LoopState, ParserState
<1>1. UNCHANGED <<w, stream>>
  BY DEF HostLinks, HostReady, stock_ble_on_connect, LinkDown, Cancel,
         stock_ble_on_subscribe, access_cb
<1>2. (Unfed' <=> Unfed) /\ w.session <= s.session /\ stream.session <= s.session
  BY <1>0, <1>1 DEF Unfed, Notifying, HeldInv
<1>3. CASE EndsSession
  <2>1. w'.session # s'.session /\ stream'.session # s'.session
    BY <1>0, <1>1, <1>2, <1>3 DEF EndsSession
  <2>2. Consecutive(s'.queue) /\ s'.queue = <<>>
    BY <1>3, ChainEmpty DEF EndsSession
  <2>3. QED
    BY <1>1, <1>2, <2>1, <2>2 DEF ChainInv
<1>4. CASE ~EndsSession /\ ~access_cb
  <2>1. /\ s'.session = s.session /\ s'.queue = s.queue
    <3>1. \/ stock_ble_on_connect \/ LinkDown \/ Cancel \/ stock_ble_on_subscribe
      BY <1>4 DEF HostLinks
    <3>2. CASE stock_ble_on_subscribe
      BY <1>0, <3>2 DEF stock_ble_on_subscribe, ServiceState
    <3>3. CASE stock_ble_on_connect \/ LinkDown \/ Cancel
      <4>1. HostEffect
        BY <1>0, HostLinksSession
      <4>2. \/ s' = s
            \/ \E c \in BOOLEAN : s' = Fresh(s, c)
        BY <3>3 DEF stock_ble_on_connect, LinkDown, Cancel, stock_ble_on_disconnect
      <4>3. CASE s' = s
        BY <4>3
      <4>4. CASE \E c \in BOOLEAN : s' = Fresh(s, c)
        <5>1. s'.queue = <<>>
          <6>1. PICK c \in BOOLEAN : s' = Fresh(s, c)
            BY <4>4
          <6>2. QED
            BY <1>0, <6>1, FreshType, Zenon
        <5>2. \A e \in Write : Append(s.queue, e) # <<>>
          BY <1>0, QueueAppend
        <5>3. KeepsSession /\ s'.queue = s.queue
          BY <1>4, <4>1, <5>1, <5>2 DEF HostEffect
        <5>4. QED
          BY <5>3 DEF KeepsSession
      <4>5. QED
        BY <4>2, <4>3, <4>4
    <3>4. QED
      BY <3>1, <3>2, <3>3
  <2>2. writes' = writes
    BY <1>4 DEF HostLinks, stock_ble_on_connect, LinkDown, Cancel, stock_ble_on_subscribe
  <2>3. QED
    BY <1>1, <1>2, <2>1, <2>2, ChainKept
<1>5. CASE ~EndsSession /\ access_cb
  <2>0. writes' = writes + 1
    BY <1>5 DEF access_cb
  <2> DEFINE x == [n |-> writes', t |-> clock, session |-> s.session, link |-> link]
             r == [s EXCEPT !.queue = Append(@, x)]
  <2>1. x \in Write /\ x.n = writes + 1
    BY <1>0, <2>0 DEF Write
  <2>2. r.queue = Append(s.queue, x) /\ r.session = s.session
    BY <1>0 DEF ServiceState
  <2>3. \/ ~s.connected \/ s.blocked
        \/ \E code \in {"LARGE", "FULL"} : s.connected /\ s' = reject_locked(s, code)
        \/ s' = r
    BY <1>5 DEF access_cb
  <2> HIDE DEF x, r
  <2>4. CASE ~s.connected \/ s.blocked
    <3>1. s' = s
      BY <1>5, <2>4 DEF access_cb
    <3>2. s.queue = <<>>
      BY <1>0, <2>4 DEF SessionInv
    <3>3. ~(Unfed /\ w.session = s.session)
      BY <1>0, <2>4 DEF HeldInv, Held, HasWrite
    <3>4. stream.parts # <<>> => stream.session # s.session
      <4>1. stream.parts # <<>> =>
              /\ Held(Head(stream.parts), s, link)
              /\ Head(stream.parts).session = stream.session
        BY <1>0, HeldTail, Zenon DEF HeldInv
      <4>2. QED
        BY <2>4, <4>1 DEF Held
    <3>5. QED
      BY <1>1, <1>2, <3>1, <3>2, <3>3, <3>4 DEF ChainInv
  <2>5. CASE \E code \in {"LARGE", "FULL"} : s.connected /\ s' = reject_locked(s, code)
    <3>1. PICK code \in {"LARGE", "FULL"} : s.connected /\ s' = reject_locked(s, code)
      BY <2>5
    <3>2. code \in Code
      BY DEF Code
    <3>3. s.session < SessionLimit
      BY <1>0, <3>1, CountedSession
    <3>4. s'.queue = <<>> /\ s'.tx = <<>> /\ s'.session = s.session + 1
      BY <1>0, <3>1, <3>2, <3>3, RejectType, NextSession, Zenon
    <3>5. QED
      BY <1>5, <3>4 DEF EndsSession
  <2>6. CASE s' = r
    <3>1. s'.queue = Append(s.queue, x) /\ s'.session = s.session
      BY <2>2, <2>6
    <3>2. s.queue # <<>> => Final(s.queue).n = writes
      BY DEF ChainInv
    <3>3. /\ s'.queue # <<>> /\ Final(s'.queue) = x /\ Consecutive(s'.queue)
          /\ (s.queue = <<>> => s'.queue[1] = x)
          /\ (s.queue # <<>> => s'.queue[1] = s.queue[1])
      BY <1>0, <2>1, <3>1, <3>2, ChainAppend DEF ChainInv
    <3>4. \A n \in Nat : NextIs(n) => NextIs(n)'
      BY <2>1, <3>3 DEF NextIs
    <3>5. w.ev.n \in Nat /\ (stream.parts # <<>> => Final(stream.parts).n \in Nat)
      BY <1>0, QueueEnds, WriteFields DEF LoopState
    <3>6. Final(s'.queue).n = writes'
      BY <2>0, <2>1, <3>3
    <3>7. QED
      BY <1>1, <1>2, <3>1, <3>3, <3>4, <3>5, <3>6 DEF ChainInv
  <2>7. QED
    BY <2>3, <2>4, <2>5, <2>6
<1>6. QED
  BY <1>3, <1>4, <1>5

-----------------------------------------------------------------------------
(* The poll *)

\* A poll takes the write after the last one it fed.
LEMMA TakeChain ==
    ASSUME LinkInv, ChainInv, PollTake
    PROVE  ChainInv'
<1>0. /\ s \in ServiceState /\ w \in LoopState /\ s.queue \in Seq(Write)
      /\ stream.parts \in Seq(Write) /\ writes' = writes /\ stream' = stream
      /\ HeldInv /\ w.pc = "take"
  BY DEF LinkInv, TypeOK, ServiceState, ParserState, PollTake, Quiet, Worker
<1>1. ~Unfed /\ InPoll
  BY <1>0 DEF Unfed, InPoll, Notifying
<1>2. CASE ~Have
  <2>1. s' = s /\ Goto("idle")
    BY <1>2 DEF PollTake
  <2>2. w'.pc = "idle"
    BY <1>0, <2>1 DEF Goto, LoopState
  <2>3. ~Unfed'
    BY <2>2 DEF Unfed, Notifying
  <2>4. QED
    BY <1>0, <1>1, <2>1, <2>3, ChainKept
<1>3. CASE Have
  <2>1. /\ s'.queue = Tail(s.queue) /\ s'.session = s.session
        /\ w'.pc = "check" /\ w'.ev = Head(s.queue) /\ w'.session = w.session
    BY <1>0, <1>3 DEF PollTake, ServiceState, LoopState
  <2>2. s.queue # <<>> /\ s.session = w.session /\ stream.session = s.session
    BY <1>0, <1>1, <1>3 DEF Have, HeldInv
  <2>3. Unfed'
    BY <2>1 DEF Unfed
  <2>4. Consecutive(s.queue) /\ Final(s.queue).n = writes
    BY <2>2 DEF ChainInv
  <2>5. /\ Consecutive(s'.queue) /\ Head(s.queue) = s.queue[1]
        /\ s'.queue = <<>> => writes = w'.ev.n
        /\ s'.queue # <<>> => Final(s'.queue).n = writes /\ s'.queue[1].n = w'.ev.n + 1
    BY <1>0, <2>1, <2>2, <2>4, ChainTail
  <2>6. (Unfed /\ w.session = s.session => NextIs(w.ev.n))'
    BY <1>0, <2>5 DEF NextIs
  <2>7. stream.parts # <<>> => w'.ev.n = Final(stream.parts).n + 1
    BY <1>1, <2>1, <2>2, <2>5 DEF ChainInv, NextIs
  <2>8. QED
    BY <1>0, <2>1, <2>3, <2>5, <2>6, <2>7 DEF ChainInv
<1>4. QED
  BY <1>2, <1>3

\* A write is fed if no partial frame is too old for it; a write of a session
\* that has ended is dropped with its frame.
LEMMA CheckChain ==
    ASSUME LinkInv, ChainInv, PollCheck
    PROVE  ChainInv'
<1>0. /\ s \in ServiceState /\ w \in LoopState /\ stream \in ParserState
      /\ stream.parts \in Seq(Write) /\ w.ev \in Write /\ stream.last \in Nat
      /\ writes' = writes /\ s' = s /\ HeldInv /\ w.pc = "check"
  BY DEF LinkInv, TypeOK, LoopState, ParserState, PollCheck, Quiet, Worker
<1>1. Unfed /\ HasWrite /\ InPoll
  BY <1>0 DEF Unfed, HasWrite, InPoll, Notifying
<1>2. w.ev.session = w.session /\ stream.session = w.session
  BY <1>1 DEF LinkInv, HeldInv
<1>3. CASE ~stock_ble_session_current(w.session)
  <2>1. Goto("take") /\ stream' = stream
    BY <1>3 DEF PollCheck
  <2>2. w'.pc = "take"
    BY <1>0, <2>1 DEF Goto, LoopState
  <2>3. ~Unfed'
    BY <2>2 DEF Unfed, Notifying
  <2>4. stream.parts # <<>> => stream.session # s.session
    <3>1. stream.parts # <<>> =>
            Held(Head(stream.parts), s, link) /\ Head(stream.parts).session = stream.session
      BY <1>0, HeldTail, Zenon DEF HeldInv
    <3>2. QED
      BY <1>2, <1>3, <3>1 DEF Held, stock_ble_session_current
  <2>5. QED
    BY <1>0, <2>1, <2>3, <2>4 DEF ChainInv
<1>4. CASE stock_ble_session_current(w.session) /\ Stale(w.ev.t)
  <2>1. /\ stream' = [stream EXCEPT !.parts = <<>>]
        /\ Notify(w.session, "IDLE", w.ev.link, "feed")
    BY <1>2, <1>4 DEF PollCheck
  <2>2. /\ stream'.parts = <<>>
        /\ w'.pc = "notify" /\ w'.ret = "feed" /\ w'.ev = w.ev /\ w'.session = w.session
    BY <1>0, <2>1 DEF Notify, ParserState, LoopState
  <2>3. QED
    BY <1>0, <1>1, <2>2, ChainKept
<1>5. CASE stock_ble_session_current(w.session) /\ ~Stale(w.ev.t)
  <2>1. Goto("feed") /\ stream' = stream
    BY <1>2, <1>5 DEF PollCheck
  <2>2. w'.pc = "feed" /\ w'.ev = w.ev /\ w'.session = w.session
    BY <1>0, <2>1 DEF Goto, LoopState
  <2>3. Unfed'
    BY <2>2 DEF Unfed
  <2>4. stream.parts # <<>> => w.ev.t - stream.last < Idle
    <3>1. w.ev.t \in Nat
      BY <1>0, WriteFields
    <3>2. stream.parts # <<>> =>
            ~(w.ev.t >= stream.last /\ w.ev.t - stream.last >= Idle)
      BY <1>5, Zenon DEF Stale
    <3>3. ASSUME NEW t \in Nat, NEW u \in Nat, ~(t >= u /\ t - u >= Idle)
          PROVE  t - u < Idle
      BY <3>3, ConstantTypes
    <3>4. QED
      BY <1>0, <3>1, <3>2, <3>3
  <2>5. (Unfed /\ w.session = s.session => NextIs(w.ev.n))'
    BY <1>0, <1>1, <2>2 DEF ChainInv, NextIs
  <2>6. QED
    BY <1>0, <1>1, <2>1, <2>2, <2>3, <2>4, <2>5 DEF ChainInv
<1>6. QED
  BY <1>3, <1>4, <1>5

\* The write that is fed is the last of its frame.
LEMMA FeedChain ==
    ASSUME LinkInv, ChainInv, PollFeed
    PROVE  ChainInv'
<1>0. /\ s \in ServiceState /\ w \in LoopState /\ stream \in ParserState
      /\ stream.parts \in Seq(Write) /\ w.ev \in Write
      /\ writes' = writes /\ s' = s /\ HeldInv /\ w.pc = "feed"
  BY DEF LinkInv, TypeOK, LoopState, ParserState, PollFeed, Quiet, Worker
<1>1. Unfed /\ HasWrite /\ InPoll
  BY <1>0 DEF Unfed, HasWrite, InPoll, Notifying
<1>2. stream.session = w.session
  BY <1>1 DEF LinkInv, HeldInv
<1>3. ~Unfed'
  <2>1. \/ Goto("take") \/ \E code \in {"BAD", "LARGE"} : Notify(w.session, code, w.ev.link, "take")
        \/ w' = [w EXCEPT !.pc = "dispatch"]
    BY DEF PollFeed
  <2>2. w'.pc \in {"take", "dispatch"} \/ (w'.pc = "notify" /\ w'.ret = "take")
    BY <1>0, <2>1 DEF Goto, Notify, LoopState
  <2>3. QED
    BY <2>2 DEF Unfed, Notifying
<1>4. /\ stream'.last = w.ev.t /\ stream'.session = stream.session
      /\ stream'.parts = <<>> \/ stream'.parts = Append(stream.parts, w.ev)
  BY <1>0 DEF PollFeed, ParserState
<1>5. CASE stream'.parts = <<>>
  BY <1>0, <1>3, <1>5, ChainEmpty DEF ChainInv
<1>6. CASE stream'.parts = Append(stream.parts, w.ev)
  <2>1. stream.parts # <<>> =>
          /\ w.ev.n = Final(stream.parts).n + 1
          /\ stream.last = Final(stream.parts).t /\ w.ev.t - stream.last < Idle
    BY <1>0, <1>1 DEF ChainInv
  <2>2. /\ Final(stream'.parts) = w.ev
        /\ Consecutive(stream'.parts) /\ Timely(stream'.parts)
    BY <1>0, <1>6, <2>1, ChainAppend DEF ChainInv
  <2>3. w.session = s.session => NextIs(w.ev.n)
    BY <1>1 DEF ChainInv
  <2>4. QED
    BY <1>0, <1>2, <1>3, <1>4, <2>2, <2>3 DEF ChainInv, NextIs
<1>7. QED
  BY <1>4, <1>5, <1>6

\* Every other step leaves the chain alone, or forgets it.
LEMMA OtherStepsChain ==
    ASSUME LinkInv, ChainInv,
           \/ HostSends \/ Tick \/ UNCHANGED vars
           \/ NotifyCheck \/ NotifyPut \/ NotifyEvent \/ PollBegin \/ PollDispatch
           \/ Received \/ Reply \/ PollIdle \/ LoopForget \/ ShotTick \/ NextTurn
    PROVE  ChainInv'
<1>0. /\ s \in ServiceState /\ w \in LoopState /\ stream \in ParserState
      /\ w.ret \in {"shot", "take", "feed", "end"}
  BY DEF LinkInv, TypeOK, LoopState
<1>1. CASE HostSends \/ Tick \/ UNCHANGED vars
  <2>1. /\ s'.queue = s.queue /\ s'.session = s.session
        /\ writes' = writes /\ stream' = stream /\ w' = w
    BY <1>0, <1>1 DEF HostSends, TxStep, TxBegin, TxSend, TxMore, Tick, vars, ServiceState
  <2>2. Unfed' <=> Unfed
    BY <2>1 DEF Unfed, Notifying
  <2>3. QED
    BY <2>1, <2>2, ChainKept
<1>2. CASE NotifyCheck \/ NotifyPut \/ NotifyEvent
  <2>1. /\ s'.queue = s.queue /\ s'.session = s.session
        /\ writes' = writes /\ stream' = stream
    BY <1>0, <1>2 DEF NotifyCheck, NotifyPut, NotifyEvent, Worker, ServiceState
  <2>2. Notifying /\ w.pc # "check"
    BY <1>2 DEF NotifyCheck, NotifyPut, NotifyEvent, Notifying
  <2>3. \/ \E pc \in {"put", "event"} : w' = [w EXCEPT !.pc = pc]
        \/ Goto(w.ret)
    BY <1>2 DEF NotifyCheck, NotifyPut, NotifyEvent
  <2>4. /\ w'.session = w.session
        /\ \/ w'.pc \in {"put", "event"} /\ w'.ret = w.ret /\ w'.ev = w.ev
           \/ w'.pc = w.ret /\ (w.ret # "take" => w'.ev = w.ev)
    BY <1>0, <2>3 DEF Goto, LoopState
  <2>5. (Unfed' <=> Unfed) /\ (Unfed => w'.ev = w.ev)
    BY <1>0, <2>2, <2>4 DEF Unfed, Notifying
  <2>6. QED
    BY <2>1, <2>2, <2>4, <2>5, ChainKept
<1>3. CASE \/ PollBegin \/ PollDispatch \/ Received \/ Reply \/ PollIdle
           \/ LoopForget \/ ShotTick \/ NextTurn
  <2>1. /\ s'.queue = s.queue /\ s'.session = s.session /\ writes' = writes
        /\ stream' = stream \/ stream'.parts = <<>>
    <3>1. CASE PollBegin
      BY <1>0, <3>1 DEF PollBegin, PollStart, NewStream, Quiet, Worker, ServiceState
    <3>2. CASE PollDispatch \/ PollIdle
      BY <1>0, <3>2 DEF PollDispatch, PollIdle, Quiet, Worker, ParserState
    <3>3. CASE Received \/ Reply \/ LoopForget \/ ShotTick \/ NextTurn
      BY <3>3 DEF Received, Reply, LoopForget, ShotTick, NextTurn, Quiet, Worker
    <3>4. QED
      BY <1>3, <3>1, <3>2, <3>3
  <2>2. w.pc \in {"poll", "dispatch", "handler", "reply", "idle", "end", "shot"}
    BY <1>3 DEF PollBegin, PollDispatch, Received, Reply, PollIdle, LoopForget, ShotTick, NextTurn
  <2>3. \/ w'.pc \in {"take", "handler", "reply", "end", "shot", "poll"}
        \/ w'.pc = "notify" /\ w'.ret \in {"take", "end", "shot"}
    BY <1>0, <1>3 DEF PollBegin, PollDispatch, Received, Reply, PollIdle, LoopForget, ShotTick,
       NextTurn, Goto, Notify, LoopState
  <2>4. ~Unfed /\ ~Unfed'
    BY <2>2, <2>3 DEF Unfed, Notifying
  <2>5. QED
    BY <2>1, <2>4, ChainKept
<1>4. QED
  BY <1>1, <1>2, <1>3

LEMMA ChainStep ==
    ASSUME NoWrap, LinkInv, ChainInv, [Next]_vars
    PROVE  ChainInv'
BY HostLinksChain, TakeChain, CheckChain, FeedChain, OtherStepsChain DEF Next, MainLoop

-----------------------------------------------------------------------------
(* The frame *)

FrameInv == LinkInv /\ ChainInv /\ FrameIntact

LEMMA FrameInvInit == NoWrap /\ Init => FrameInv
<1> SUFFICES ASSUME NoWrap, Init PROVE FrameInv
  OBVIOUS
<1>1. /\ s.queue = <<>> /\ stream.parts = <<>> /\ frame.parts = <<>> /\ w.pc = "poll"
  BY DEF Init, NewStream, NoFrame
<1>2. ~Unfed
  BY <1>1 DEF Unfed, Notifying
<1>3. ChainInv
  BY <1>1, <1>2, ChainEmpty DEF ChainInv
<1>4. FrameIntact
  BY <1>1, EmptyValues DEF FrameIntact
<1>5. QED
  BY <1>3, <1>4, LinkInvInit DEF FrameInv

\* The frame that is dispatched is what the parser holds, of the current session.
LEMMA DispatchIntact ==
    ASSUME LinkInv, ChainInv, PollDispatch, frame' # frame
    PROVE  FrameIntact'
<1>1. /\ frame'.parts = stream.parts /\ frame'.link = link
      /\ stock_ble_session_current(w.session) /\ w.pc = "dispatch"
  BY DEF PollDispatch
<1>2. stream.session = w.session
  BY <1>1 DEF LinkInv, HeldInv, InPoll, Notifying
<1>3. \A i \in 1 .. Len(stream.parts) : stream.parts[i].link = link
  BY <1>1, <1>2 DEF LinkInv, HeldInv, HeldAll, Of, Held, stock_ble_session_current
<1>4. Consecutive(stream.parts) /\ Timely(stream.parts)
  BY DEF ChainInv
<1>5. QED
  BY <1>1, <1>3, <1>4 DEF FrameIntact, Consecutive, Timely

LEMMA FrameStep ==
    ASSUME NoWrap, FrameInv, [Next]_vars
    PROVE  FrameInv'
<1>1. LinkInv' /\ ChainInv'
  BY LinkInvStep, ChainStep DEF FrameInv
<1>2. CASE PollDispatch /\ frame' # frame
  BY <1>1, <1>2, DispatchIntact DEF FrameInv
<1>3. CASE Received
  <2>1. frame'.parts = <<>>
    BY <1>3 DEF Received, NoFrame
  <2>2. FrameIntact'
    BY <2>1, EmptyValues DEF FrameIntact
  <2>3. QED
    BY <1>1, <2>2 DEF FrameInv
<1>4. CASE frame' = frame
  BY <1>1, <1>4 DEF FrameInv, FrameIntact
<1>5. PollDispatch \/ Received \/ frame' = frame
  BY DEF Next, HostLinks, HostReady, stock_ble_on_connect, LinkDown, Cancel,
     stock_ble_on_subscribe, access_cb, HostSends, TxStep, TxBegin, TxSend, TxMore,
     MainLoop, NotifyCheck, NotifyPut, NotifyEvent, Quiet, PollBegin, PollTake, PollCheck,
     PollFeed, Reply, PollIdle, LoopForget, ShotTick, NextTurn, Tick, vars
<1>6. QED
  BY <1>2, <1>3, <1>4, <1>5

\* As long as session numbers do not come round, a frame that is dispatched is
\* made of writes in a row of the link that is up, none of them late.
THEOREM FramesIntact ==
    ASSUME NoWrap
    PROVE  Spec => []FrameIntact
<1>1. FrameInv /\ [Next]_vars => FrameInv'
  BY FrameStep
<1>2. Init => FrameInv
  BY FrameInvInit
<1>3. FrameInv => FrameIntact
  BY DEF FrameInv
<1>4. QED
  BY <1>1, <1>2, <1>3, PTL DEF Spec
=============================================================================
