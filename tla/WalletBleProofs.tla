---------------------------- MODULE WalletBleProofs ----------------------------
(* Proofs about WalletBle, for every value of its constants. *)
EXTENDS WalletBle, WalletTransferProofs, SequenceTheorems

USE BleAssumption, MaxLengthAssumption

-----------------------------------------------------------------------------
(* The queues *)

\* r is q with w at its end, or q itself when it is full.
Grown(q, r, w) ==
    /\ r \in Seq(WorkType) /\ Len(r) <= QueueLength
    /\ \A i \in DOMAIN r :
          /\ i \in Nat
          /\ \/ i \in DOMAIN q /\ r[i] = q[i]
             \/ r[i] = w /\ ~Full(q) /\ \A j \in DOMAIN q : j < i

\* r is q without its first element.
Shrunk(q, r) ==
    /\ r \in Seq(WorkType) /\ Len(r) <= QueueLength
    /\ \A i \in DOMAIN r : i \in Nat /\ i + 1 \in DOMAIN q /\ r[i] = q[i + 1]

LEMMA ElementIs ==
    ASSUME NEW q \in Seq(WorkType), NEW i \in DOMAIN q
    PROVE  q[i] \in WorkType /\ i \in Nat /\ i > 0
BY LenProperties, ElementOfSeq

LEMMA AppendIs ==
    ASSUME NEW q \in Seq(WorkType), NEW w \in WorkType, ~Full(q)
    PROVE  Grown(q, Append(q, w), w)
<1> HIDE DEF WorkType
<1> DEFINE r == Append(q, w)
<1>1. /\ r \in Seq(WorkType) /\ Len(r) = Len(q) + 1 /\ Len(q) \in Nat
      /\ \A i \in 1 .. Len(q) : r[i] = q[i]
      /\ r[Len(q) + 1] = w /\ DOMAIN r = 1 .. Len(q) + 1 /\ DOMAIN q = 1 .. Len(q)
  BY AppendProperties, LenProperties
<1>2. Len(r) <= QueueLength
  BY <1>1 DEF Full
<1> HIDE DEF r
<1>3. Grown(q, r, w)
  BY <1>1, <1>2 DEF Grown
<1>4. QED
  BY <1>3 DEF r

LEMMA PutIs ==
    ASSUME NEW q \in Seq(WorkType), Len(q) <= QueueLength, NEW w \in WorkType
    PROVE  Grown(q, Put(q, w), w)
<1>1. CASE Full(q)
  BY <1>1, LenProperties DEF Put, Grown
<1>2. CASE ~Full(q)
  BY <1>2, AppendIs DEF Put
<1>3. QED
  BY <1>1, <1>2

LEMMA TailIs ==
    ASSUME NEW q \in Seq(WorkType), Len(q) <= QueueLength, q # <<>>
    PROVE  Shrunk(q, Tail(q)) /\ 1 \in DOMAIN q /\ Head(q) = q[1] /\ Head(q) \in WorkType
<1> HIDE DEF WorkType
<1> DEFINE r == Tail(q)
<1>1. /\ r \in Seq(WorkType) /\ Len(r) = Len(q) - 1 /\ Len(q) \in Nat /\ Len(q) > 0
      /\ \A i \in 1 .. Len(r) : r[i] = q[i + 1]
      /\ DOMAIN r = 1 .. Len(r) /\ DOMAIN q = 1 .. Len(q) /\ Head(q) = q[1]
  BY HeadTailProperties, LenProperties, EmptySeq
<1>2. 1 \in DOMAIN q /\ Head(q) \in WorkType
  BY <1>1, ElementOfSeq
<1> HIDE DEF r
<1>3. Shrunk(q, r)
  BY <1>1 DEF Shrunk
<1>4. QED
  BY <1>1, <1>2, <1>3 DEF r

-----------------------------------------------------------------------------
(* What the shared pieces of the handlers do to s_ble *)

\* c is a state of s_ble with b's session and owner; its window may be closed.
SameSession(b, c) ==
    /\ c \in BleType
    /\ c.generation = b.generation /\ c.control_generation >= b.control_generation
    /\ c.conn = b.conn /\ (c.window => b.window) /\ c.connected = b.connected
    /\ c.secure = b.secure /\ c.owner = b.owner /\ c.recovery = b.recovery
    /\ c.reset = b.reset

LEMMA ScheduleIs ==
    ASSUME NEW b \in BleType
    PROVE  LET c == schedule_stock_control(b)
           IN  SameSession(b, c) /\ c.confirm = b.confirm
               /\ c.control_generation = b.control_generation
<1> DEFINE c == [b EXCEPT !.event = TRUE]
<1>1. c \in BleType
  BY DEF BleType
<1>2. /\ c.generation = b.generation /\ c.control_generation = b.control_generation
      /\ c.conn = b.conn /\ c.window = b.window /\ c.connected = b.connected
      /\ c.secure = b.secure /\ c.owner = b.owner /\ c.recovery = b.recovery
      /\ c.reset = b.reset /\ c.confirm = b.confirm /\ b.control_generation \in Nat
  BY DEF BleType
<1> HIDE DEF c
<1>3. SameSession(b, c)
  BY <1>1, <1>2 DEF SameSession
<1>4. QED
  BY <1>2, <1>3 DEF c, schedule_stock_control

LEMMA RequestTerminationIs ==
    ASSUME NEW b \in BleType, NEW conn, NEW gen \in Nat
    PROVE  LET c == request_termination(b, conn, gen)
           IN  SameSession(b, c) /\ c.confirm = b.confirm
               /\ c.control_generation = b.control_generation
<1> DEFINE d == [b EXCEPT !.term = gen]
           e == schedule_stock_control(d)
           c == request_termination(b, conn, gen)
<1> SUFFICES /\ SameSession(b, c) /\ c.confirm = b.confirm
             /\ c.control_generation = b.control_generation
  OBVIOUS
<1>1. /\ d \in BleType /\ SameSession(b, d) /\ d.confirm = b.confirm
      /\ d.control_generation = b.control_generation
  BY DEF SameSession, BleType
<1>2. /\ SameSession(d, e) /\ e.confirm = d.confirm
      /\ e.control_generation = d.control_generation
  BY <1>1, ScheduleIs
<1>3. c \in {b, e} /\ SameSession(b, b)
  BY DEF request_termination, SameSession, BleType
<1> HIDE DEF c, d, e
<1>4. QED
  BY <1>1, <1>2, <1>3 DEF SameSession

LEMMA CloseWindowIs ==
    ASSUME NEW b \in BleType
    PROVE  LET c == close_window(b)
           IN  SameSession(b, c) /\ c.confirm = b.confirm
               /\ c.control_generation = b.control_generation
<1> DEFINE d == [b EXCEPT !.window = FALSE]
           e == schedule_stock_control(d)
           f == request_termination(e, b.conn, b.generation)
           c == close_window(b)
<1> SUFFICES /\ SameSession(b, c) /\ c.confirm = b.confirm
             /\ c.control_generation = b.control_generation
  OBVIOUS
<1>1. /\ d \in BleType /\ SameSession(b, d) /\ b.generation \in Nat
      /\ d.confirm = b.confirm /\ d.control_generation = b.control_generation
  <2>1. d \in BleType
    BY DEF BleType
  <2>2. /\ d.generation = b.generation /\ d.control_generation = b.control_generation
        /\ d.conn = b.conn /\ ~d.window /\ d.connected = b.connected
        /\ d.secure = b.secure /\ d.owner = b.owner /\ d.recovery = b.recovery
        /\ d.reset = b.reset /\ d.confirm = b.confirm
        /\ b.control_generation \in Nat /\ b.generation \in Nat
    BY DEF BleType
  <2> HIDE DEF d
  <2>3. QED
    BY <2>1, <2>2 DEF SameSession
<1>2. /\ SameSession(d, e) /\ e \in BleType /\ e.confirm = d.confirm
      /\ e.control_generation = d.control_generation
  <2>1. SameSession(d, e) /\ e.confirm = d.confirm
        /\ e.control_generation = d.control_generation
    BY <1>1, ScheduleIs
  <2>2. QED
    BY <2>1 DEF SameSession
<1>3. SameSession(e, f) /\ f.confirm = e.confirm
      /\ f.control_generation = e.control_generation
  BY <1>1, <1>2, RequestTerminationIs
<1>4. c \in {e, f}
  BY DEF close_window
<1> HIDE DEF c, d, e, f
<1>5. QED
  BY <1>1, <1>2, <1>3, <1>4 DEF SameSession

\* c is a state of s_ble whose session b's handler has ended.
SessionEnded(b, c) ==
    /\ c \in BleType
    /\ c.generation = b.generation + 1 /\ c.control_generation = b.control_generation
    /\ c.conn = b.conn /\ c.window = b.window /\ ~c.connected /\ ~c.secure
    /\ c.owner = b.owner /\ c.recovery = b.recovery
    /\ c.reset = b.reset /\ c.confirm = b.confirm

LEMMA EndSessionIs ==
    ASSUME NEW b \in BleType
    PROVE  SessionEnded(b, EndSession(b))
<1> DEFINE n == b.generation + 1
           c == [b EXCEPT !.secure = FALSE, !.connected = FALSE, !.pairing = FALSE,
                          !.released = FALSE, !.generation = n]
<1>1. n \in Nat /\ EndSession(b) = c
  BY DEF BleType, EndSession
<1>2. c.generation = n /\ ~c.secure /\ ~c.connected
  BY DEF BleType
<1>3. c \in BleType
  <2> HIDE DEF n
  <2>1. QED
    BY <1>1 DEF BleType
<1>4. SessionEnded(b, c)
  BY <1>2, <1>3 DEF SessionEnded, BleType
<1>5. QED
  BY <1>1, <1>4

LEMMA ZeroBleIs ==
    /\ ZeroBle \in BleType /\ ZeroBle.generation = 0 /\ ZeroBle.control_generation = 0
    /\ ZeroBle.conn = NoConn /\ ~ZeroBle.window /\ ~ZeroBle.connected /\ ~ZeroBle.secure
    /\ ZeroBle.owner = None /\ ~ZeroBle.recovery /\ ~ZeroBle.reset
    /\ ZeroBle.confirm = NoConfirm /\ ZeroBle.confirm.gen = 0
BY DEF ZeroBle, BleType, NoConfirm, NoConn, Handle

LEMMA WorkIs ==
    ASSUME NEW type \in {"NONE", "SYNC", "OPEN", "CLOSE", "CONNECT", "PASSKEY", "CONFIRM",
             "ENCRYPTION", "RX", "DISCONNECT", "ADV_COMPLETE", "TICK",
             "RESET_OWNER", "HOST_RESET"}
    PROVE  /\ Work(type) \in WorkType /\ Work(type).type = type
           /\ Work(type).gen = 0 /\ Work(type).ctl = 0 /\ Work(type).conn = NoConn
BY DEF Work, WorkType, NoConn

-----------------------------------------------------------------------------
(* Steps that leave the session, the owner and the window alone *)

LinkGoesOn ==
    \/ link' = link
    \/ /\ link # NoLink /\ link' # NoLink /\ link'.peer = link.peer
       /\ link.sec = "secure" => link'.sec = "secure"
       /\ link'.sec = "keyed" =>
             link.sec = "keyed" \/ (ble.conn = Handle /\ ble.window /\ ~Ended')

ControlGoesOn ==
    \/ control_queue' = control_queue
    \/ Shrunk(control_queue, control_queue')
    \/ \E w \in WorkType :
          /\ Grown(control_queue, control_queue', w)
          /\ w.type \notin {"CONNECT", "DISCONNECT"}
          /\ w.gen <= ble.generation /\ w.ctl <= ble.control_generation
          /\ w.type = "RESET_OWNER" /\ w.conn = NoConn /\ ble.reset => ble.conn = NoConn

QueueGoesOn ==
    \/ queue' = queue
    \/ Shrunk(queue, queue')
    \/ \E w \in WorkType :
          /\ Grown(queue, queue', w)
          /\ w.gen <= ble.generation /\ w.ctl <= ble'.control_generation
          /\ w.type = "OPEN" => pc'["ui"] = "idle"

ConfirmGoesOn ==
    \/ ble'.confirm = ble.confirm
    \/ ble'.confirm.gen = 0
    \/ /\ ble'.confirm.gen <= ble.generation
       /\ ble.conn = Handle /\ ble'.confirm.gen = ble.generation => ~Ended'

CheckGoesOn ==
    Checking' => UNCHANGED <<enc, work>> /\ pc'["worker"] = pc["worker"]

PlacesGoOn ==
    /\ work'.gen <= ble.generation
    /\ uwork' = uwork \/ (pc'["ui"] # "request" /\ uwork'.gen = 0 /\ uwork'.ctl = 0)
    /\ pc["ui"] = "idle" => pc'["ui"] = "idle"
    /\ pc'["ui"] = "request" => pc["ui"] = "request"
    /\ Finishing("worker")' => Finishing("worker") \/ ble.reset
    /\ Resetting' => Resetting \/ ble.reset
    /\ \A t \in {"worker", "ui"} : Finishing(t)' => Finishing(t) \/ link'.sec # "keyed"

TasksGoOn == CheckGoesOn /\ PlacesGoOn

AlmostQuiet ==
    /\ SameSession(ble, ble') /\ ConfirmGoesOn /\ nvs' = nvs
    /\ LinkGoesOn /\ ControlGoesOn /\ QueueGoesOn /\ PlacesGoOn

Quiet == AlmostQuiet /\ CheckGoesOn

SessionParts ==
    AgeInv /\ SessionInv /\ KeyInv /\ OwnerInv /\ SecureIsOwner

\* The work in the queues stays of its age.
LEMMA AgeKept ==
    ASSUME BleInv, TypeOK',
           ble'.generation >= ble.generation,
           ble'.control_generation >= ble.control_generation,
           ble'.generation = ble.generation =>
              ble'.conn = ble.conn /\ (ble.connected => ble'.connected),
           \A i \in DOMAIN control_queue' :
              \/ \E j \in DOMAIN control_queue : control_queue'[i] = control_queue[j]
              \/ /\ control_queue'[i].gen <= ble'.generation
                 /\ control_queue'[i].ctl <= ble'.control_generation
                 /\ control_queue'[i].type # "CONNECT" \/ ble'.connected,
           \A i \in DOMAIN queue' :
              \/ \E j \in DOMAIN queue : queue'[i] = queue[j]
              \/ /\ queue'[i].gen <= ble'.generation
                 /\ queue'[i].ctl <= ble'.control_generation
                 /\ queue'[i].type = "OPEN" => pc'["ui"] = "idle",
           pc'["ui"] # "idle" =>
              pc["ui"] # "idle" \/ ble'.control_generation > ble.control_generation,
           work'.gen <= ble'.generation, ble'.confirm.gen <= ble'.generation,
           uwork'.gen <= ble'.generation, uwork'.ctl <= ble'.control_generation
    PROVE  AgeInv'
<1>0. TypeOK /\ AgeInv
  BY DEF BleInv
<1>1. /\ ble.generation \in Nat /\ ble'.generation \in Nat
      /\ ble.control_generation \in Nat /\ ble'.control_generation \in Nat
  <2>1. ble \in BleType /\ ble' \in BleType
    BY <1>0 DEF TypeOK
  <2>2. QED
    BY <2>1 DEF BleType
<1>2. /\ \A i \in DOMAIN control_queue : control_queue[i] \in WorkType
      /\ \A i \in DOMAIN queue : queue[i] \in WorkType
      /\ \A i \in DOMAIN control_queue' : control_queue'[i] \in WorkType
      /\ \A i \in DOMAIN queue' : queue'[i] \in WorkType
  <2> HIDE DEF WorkType
  <2>1. QED
    BY <1>0, ElementIs DEF TypeOK
<1>3. \A w \in WorkType : w.gen \in Nat /\ w.ctl \in Nat
  BY DEF WorkType
<1>4. ASSUME NEW i \in DOMAIN control_queue'
      PROVE  /\ control_queue'[i].gen <= ble'.generation
             /\ control_queue'[i].ctl <= ble'.control_generation
             /\ control_queue'[i].type = "CONNECT" /\ control_queue'[i].gen = ble'.generation
                   /\ control_queue'[i].conn = ble'.conn => ble'.connected
  <2>1. CASE \E j \in DOMAIN control_queue : control_queue'[i] = control_queue[j]
    BY <1>0, <1>1, <1>2, <1>3, <2>1 DEF AgeInv
  <2>2. CASE ~ \E j \in DOMAIN control_queue : control_queue'[i] = control_queue[j]
    BY <2>2
  <2>3. QED
    BY <2>1, <2>2
<1>5. ASSUME NEW i \in DOMAIN queue'
      PROVE  /\ queue'[i].gen <= ble'.generation
             /\ queue'[i].ctl <= ble'.control_generation
             /\ queue'[i].type = "OPEN" /\ pc'["ui"] # "idle" =>
                   queue'[i].ctl < ble'.control_generation
  <2>1. CASE \E j \in DOMAIN queue : queue'[i] = queue[j]
    BY <1>0, <1>1, <1>2, <1>3, <2>1 DEF AgeInv
  <2>2. CASE ~ \E j \in DOMAIN queue : queue'[i] = queue[j]
    BY <2>2
  <2>3. QED
    BY <2>1, <2>2
<1>6. QED
  BY <1>4, <1>5 DEF AgeInv

LEMMA TypesAre ==
    ASSUME TypeOK
    PROVE  /\ ble \in BleType /\ ble.generation \in Nat /\ ble.control_generation \in Nat
           /\ ble.conn \in {NoConn, Handle} /\ ble.confirm.gen \in Nat
           /\ \A x \in {ble.window, ble.connected, ble.secure, ble.recovery, ble.reset} :
                 x \in BOOLEAN
           /\ ble.owner \in Peers \cup {None} /\ ble.passkey \in Passkeys \cup {0}
           /\ control_queue \in Seq(WorkType) /\ Len(control_queue) <= QueueLength
           /\ queue \in Seq(WorkType) /\ Len(queue) <= QueueLength
           /\ work \in WorkType /\ uwork \in WorkType
           /\ work.gen \in Nat /\ uwork.gen \in Nat /\ uwork.ctl \in Nat
           /\ link.peer \in Peers \cup {None}
           /\ \A i \in DOMAIN control_queue :
                 /\ control_queue[i] \in WorkType /\ i \in Nat /\ i > 0
                 /\ control_queue[i].gen \in Nat /\ control_queue[i].ctl \in Nat
           /\ \A i \in DOMAIN queue :
                 /\ queue[i] \in WorkType /\ queue[i].gen \in Nat /\ queue[i].ctl \in Nat
<1>1. /\ control_queue \in Seq(WorkType) /\ Len(control_queue) <= QueueLength
      /\ queue \in Seq(WorkType) /\ Len(queue) <= QueueLength
      /\ work \in WorkType /\ uwork \in WorkType /\ ble \in BleType
      /\ link.peer \in Peers \cup {None}
  BY DEF TypeOK
<1>2. \A w \in WorkType : w.gen \in Nat /\ w.ctl \in Nat
  BY DEF WorkType
<1>3. /\ ble.generation \in Nat /\ ble.control_generation \in Nat
      /\ ble.conn \in {NoConn, Handle} /\ ble.confirm.gen \in Nat
      /\ \A x \in {ble.window, ble.connected, ble.secure, ble.recovery, ble.reset} :
            x \in BOOLEAN
      /\ ble.owner \in Peers \cup {None} /\ ble.passkey \in Passkeys \cup {0}
  BY <1>1 DEF BleType
<1>4. /\ \A i \in DOMAIN control_queue : control_queue[i] \in WorkType /\ i \in Nat /\ i > 0
      /\ \A i \in DOMAIN queue : queue[i] \in WorkType
  <2> HIDE DEF WorkType
  <2>1. QED
    BY <1>1, ElementIs
<1> HIDE DEF WorkType, BleType
<1>5. QED
  BY <1>1, <1>2, <1>3, <1>4

\* A released passkey is not followed by the end of its link.
LEMMA OrderKept ==
    ASSUME TypeOK, KeyInv, ControlGoesOn, ble.conn = Handle,
           NEW i \in DOMAIN control_queue', NEW j \in DOMAIN control_queue',
           control_queue'[i].type = "CONFIRM", control_queue'[i].gen = ble.generation, i < j
    PROVE  control_queue'[j].type # "DISCONNECT"
<1>1. CASE control_queue' = control_queue
  BY <1>1 DEF KeyInv
<1>2. CASE Shrunk(control_queue, control_queue')
  <2>1. /\ i \in Nat /\ j \in Nat /\ i + 1 \in DOMAIN control_queue
        /\ j + 1 \in DOMAIN control_queue /\ i + 1 < j + 1
        /\ control_queue'[i] = control_queue[i + 1]
        /\ control_queue'[j] = control_queue[j + 1]
    BY <1>2 DEF Shrunk
  <2>2. QED
    BY <2>1 DEF KeyInv
<1>3. CASE \E w \in WorkType : /\ Grown(control_queue, control_queue', w)
                               /\ w.type # "DISCONNECT"
  <2>1. PICK w : Grown(control_queue, control_queue', w) /\ w.type # "DISCONNECT"
    BY <1>3
  <2>2. CASE j \in DOMAIN control_queue /\ control_queue'[j] = control_queue[j]
    <3>1. i \in Nat /\ j \in Nat
      BY <2>1 DEF Grown
    <3>2. i \in DOMAIN control_queue /\ control_queue'[i] = control_queue[i]
      BY <2>1, <2>2, <3>1 DEF Grown
    <3>3. QED
      BY <2>2, <3>2 DEF KeyInv
  <2>3. CASE control_queue'[j] = w
    BY <2>1, <2>3
  <2>4. QED
    BY <2>1, <2>2, <2>3 DEF Grown
<1>4. QED
  BY <1>1, <1>2, <1>3 DEF ControlGoesOn

\* The session is as good as it was.
LEMMA SessionKept ==
    ASSUME BleInv, TypeOK', AlmostQuiet
    PROVE  AgeInv' /\ SessionInv' /\ KeyInv' /\ SecureIsOwner'
<1>0. /\ TypeOK /\ AgeInv /\ SessionInv /\ KeyInv /\ OwnerInv /\ SecureIsOwner
      /\ SameSession(ble, ble') /\ ConfirmGoesOn /\ nvs' = nvs
      /\ LinkGoesOn /\ ControlGoesOn /\ QueueGoesOn /\ PlacesGoOn
  BY DEF BleInv, AlmostQuiet
<1>1. /\ ble.generation \in Nat /\ ble.control_generation \in Nat
      /\ ble.conn \in {NoConn, Handle} /\ ble.confirm.gen \in Nat
      /\ work.gen \in Nat /\ uwork.gen \in Nat /\ uwork.ctl \in Nat
      /\ ble'.control_generation \in Nat
  <2>1. ble' \in BleType
    BY DEF TypeOK
  <2>2. ble'.control_generation \in Nat
    BY <2>1 DEF BleType
  <2> HIDE DEF BleType, WorkType
  <2>3. QED
    BY <1>0, <2>2, TypesAre
<1>2. /\ \A i \in DOMAIN control_queue :
            /\ i \in Nat /\ i > 0
            /\ control_queue[i].gen \in Nat /\ control_queue[i].ctl \in Nat
      /\ \A i \in DOMAIN control_queue' :
            /\ i \in Nat /\ i > 0
            /\ control_queue'[i].gen \in Nat /\ control_queue'[i].ctl \in Nat
      /\ \A i \in DOMAIN queue : queue[i].gen \in Nat /\ queue[i].ctl \in Nat
  <2>1. control_queue' \in Seq(WorkType)
    BY DEF TypeOK
  <2>2. \A w \in WorkType : w.gen \in Nat /\ w.ctl \in Nat
    BY DEF WorkType
  <2> HIDE DEF WorkType
  <2>3. \A i \in DOMAIN control_queue' : control_queue'[i] \in WorkType /\ i \in Nat /\ i > 0
    BY <2>1, ElementIs
  <2>4. QED
    BY <1>0, <2>2, <2>3, TypesAre
<1>3. /\ ble'.generation = ble.generation
      /\ ble'.control_generation >= ble.control_generation
      /\ ble'.conn = ble.conn /\ (ble'.window => ble.window)
      /\ ble'.connected = ble.connected
      /\ ble'.secure = ble.secure /\ ble'.owner = ble.owner
      /\ ble'.recovery = ble.recovery /\ ble'.reset = ble.reset
  BY <1>0 DEF SameSession
<1>4. ASSUME NEW i \in DOMAIN control_queue'
      PROVE  \/ i \in DOMAIN control_queue /\ control_queue'[i] = control_queue[i]
             \/ i + 1 \in DOMAIN control_queue /\ control_queue'[i] = control_queue[i + 1]
             \/ /\ control_queue'[i].type \notin {"CONNECT", "DISCONNECT"}
                /\ control_queue'[i].gen <= ble.generation
                /\ control_queue'[i].ctl <= ble.control_generation
                /\ control_queue'[i].type = "RESET_OWNER" /\ control_queue'[i].conn = NoConn
                      /\ ble.reset => ble.conn = NoConn
  BY <1>0 DEF ControlGoesOn, Shrunk, Grown
<1>5. ASSUME NEW i \in DOMAIN queue'
      PROVE  \/ \E j \in DOMAIN queue : queue'[i] = queue[j]
             \/ /\ queue'[i].gen <= ble.generation
                /\ queue'[i].ctl <= ble'.control_generation
                /\ queue'[i].type = "OPEN" => pc'["ui"] = "idle"
  BY <1>0 DEF QueueGoesOn, Shrunk, Grown
<1>6. AgeInv'
  <2>1. \A i \in DOMAIN control_queue' :
              \/ \E j \in DOMAIN control_queue : control_queue'[i] = control_queue[j]
              \/ /\ control_queue'[i].gen <= ble'.generation
                 /\ control_queue'[i].ctl <= ble'.control_generation
                 /\ control_queue'[i].type # "CONNECT"
    BY <1>1, <1>2, <1>3, <1>4
  <2>2. /\ work'.gen <= ble'.generation /\ ble'.confirm.gen <= ble'.generation
        /\ uwork'.gen <= ble'.generation /\ uwork'.ctl <= ble'.control_generation
    BY <1>0, <1>1, <1>3 DEF AgeInv, PlacesGoOn, ConfirmGoesOn
  <2>3. pc'["ui"] # "idle" => pc["ui"] # "idle"
    BY <1>0 DEF PlacesGoOn
  <2>4. ble'.generation >= ble.generation
    BY <1>1, <1>3
  <2>5. \A i \in DOMAIN queue' :
              \/ \E j \in DOMAIN queue : queue'[i] = queue[j]
              \/ /\ queue'[i].gen <= ble'.generation
                 /\ queue'[i].ctl <= ble'.control_generation
                 /\ queue'[i].type = "OPEN" => pc'["ui"] = "idle"
    BY <1>3, <1>5
  <2>6. QED
    BY <1>0, <1>3, <2>1, <2>2, <2>3, <2>4, <2>5, AgeKept
<1>7. SessionInv'
  BY <1>0, <1>3 DEF SessionInv, LinkGoesOn, PlacesGoOn, NoLink
<1>8. SecureIsOwner'
  BY <1>0, <1>3 DEF SecureIsOwner, LinkGoesOn
<1>9. KeyInv'
  <2>1. /\ Ended' => Ended
        /\ ble.conn = Handle => \A i, j \in DOMAIN control_queue' :
             control_queue'[i].type = "CONFIRM" /\ control_queue'[i].gen = ble.generation /\ i < j =>
              control_queue'[j].type # "DISCONNECT"
    <3>1. Ended' => Ended
      BY <1>4 DEF Ended
    <3>2. ASSUME ble.conn = Handle, NEW i \in DOMAIN control_queue', NEW j \in DOMAIN control_queue',
                 control_queue'[i].type = "CONFIRM", control_queue'[i].gen = ble.generation, i < j
          PROVE  control_queue'[j].type # "DISCONNECT"
      BY <1>0, <3>2, OrderKept
    <3>3. QED
      BY <3>1, <3>2
  <2>2. ASSUME NEW i \in DOMAIN control_queue', control_queue'[i].type = "RESET_OWNER",
               control_queue'[i].conn = NoConn,
               control_queue'[i].ctl = ble'.control_generation, ble.reset
        PROVE  ble.conn = NoConn
    <3>1. ASSUME NEW j \in DOMAIN control_queue, control_queue'[i] = control_queue[j]
          PROVE  ble.conn = NoConn
      <4>1. control_queue[j].ctl = ble.control_generation
        BY <1>0, <1>1, <1>2, <1>3, <2>2, <3>1 DEF AgeInv
      <4>2. QED
        BY <1>0, <2>2, <3>1, <4>1 DEF KeyInv
    <3>2. QED
      BY <1>4, <2>2, <3>1
  <2>3. ble.conn = Handle /\ ble'.confirm.gen = ble.generation => ~Ended'
    BY <1>0, <1>1, <1>3, <2>1 DEF KeyInv, ConfirmGoesOn, SessionInv
  <2>4. link'.sec = "keyed" =>
           link.sec = "keyed" \/ (ble.conn = Handle /\ ble.window /\ ~Ended')
    BY <1>0 DEF LinkGoesOn
  <2>5. link'.sec = "keyed" => ble.conn = Handle /\ ~Ended'
    BY <1>0, <2>1, <2>4 DEF KeyInv
  <2>6. pc'["ui"] = "request" =>
          /\ pc["ui"] = "request" /\ uwork' = uwork
          /\ uwork.type \in {"CLOSE", "RESET_OWNER"}
          /\ uwork.conn = NoConn => link'.sec # "keyed" /\ (ble.reset => ble.conn = NoConn)
    BY <1>0, <2>4 DEF KeyInv, PlacesGoOn, SessionInv
  <2>7. \A t \in {"worker", "ui"} : Finishing(t)' => link'.sec # "keyed"
    <3>1. ASSUME NEW t \in {"worker", "ui"}, Finishing(t) PROVE ~ble.window /\ link.sec # "keyed"
      BY <1>0, <3>1 DEF KeyInv, SessionInv, Finishing
    <3>2. QED
      BY <1>0, <2>4, <3>1 DEF PlacesGoOn
  <2>8. QED
    BY <1>3, <2>1, <2>2, <2>3, <2>5, <2>6, <2>7 DEF KeyInv
<1>10. QED
  BY <1>6, <1>7, <1>8, <1>9

LEMMA QuietKept ==
    ASSUME BleInv, TypeOK', Quiet
    PROVE  SessionParts'
<1>0. /\ SessionInv /\ OwnerInv /\ SameSession(ble, ble') /\ nvs' = nvs
      /\ LinkGoesOn /\ PlacesGoOn /\ CheckGoesOn
  BY DEF BleInv, Quiet, AlmostQuiet
<1>1. /\ ble'.generation = ble.generation /\ (ble'.window => ble.window)
      /\ ble'.connected = ble.connected
      /\ ble'.secure = ble.secure /\ ble'.owner = ble.owner
      /\ ble'.recovery = ble.recovery /\ ble'.reset = ble.reset
  BY <1>0 DEF SameSession
<1>2. OwnerInv'
  BY <1>0, <1>1 DEF OwnerInv, LinkGoesOn, PlacesGoOn, CheckGoesOn, Checking, SessionInv, NoLink
<1>3. QED
  BY <1>2, SessionKept DEF Quiet, SessionParts

-----------------------------------------------------------------------------
(* Steps that leave the transfer and the store alone *)

RxGoesOn ==
    \A i \in DOMAIN queue' :
       \/ \E j \in DOMAIN queue : queue'[i] = queue[j]
       \/ queue'[i].type = "RX" => queue'[i].msg \in Message

DataGoesOn ==
    /\ UNCHANGED <<transfer, upload>> /\ RxGoesOn
    /\ \/ pc'["worker"] = pc["worker"] /\ work' = work
       \/ ~AtStore /\ ~AtStore'

LEMMA DataKept ==
    ASSUME BleInv, DataGoesOn
    PROVE  CallInv' /\ UploadAgrees'
<1>0. CallInv /\ UploadAgrees /\ UNCHANGED <<transfer, upload>> /\ RxGoesOn
  BY DEF BleInv, DataGoesOn
<1>1. \A i \in DOMAIN queue' : queue'[i].type = "RX" => queue'[i].msg \in Message
  BY <1>0 DEF CallInv, RxGoesOn
<1>2. AtStore' <=> AtStore
  BY DEF DataGoesOn, AtStore
<1>3. AtStore => pc'["worker"] = pc["worker"] /\ work' = work
  BY DEF DataGoesOn
<1>4. CallInv'
  BY <1>0, <1>1, <1>2, <1>3 DEF CallInv
<1>5. UploadAgrees'
  BY <1>0, <1>2 DEF UploadAgrees, AtStore
<1>6. QED
  BY <1>4, <1>5

LEMMA QueueTypes ==
    ASSUME TypeOK, ControlGoesOn, QueueGoesOn
    PROVE  /\ queue' \in Seq(WorkType) /\ Len(queue') <= QueueLength
           /\ control_queue' \in Seq(WorkType) /\ Len(control_queue') <= QueueLength
<1> HIDE DEF WorkType
<1>1. QED
  BY DEF ControlGoesOn, QueueGoesOn, Grown, Shrunk, TypeOK

LEMMA SameBle ==
    ASSUME TypeOK, ble' = ble
    PROVE  SameSession(ble, ble') /\ ConfirmGoesOn
<1>1. ble \in BleType /\ ble.control_generation \in Nat
  BY TypesAre
<1> HIDE DEF BleType
<1>2. QED
  BY <1>1 DEF SameSession, ConfirmGoesOn

QuietWork(w) ==
    /\ w \in WorkType /\ w.type \notin {"CONNECT", "DISCONNECT"}
    /\ w.gen <= ble.generation /\ w.ctl <= ble.control_generation
    /\ w.type = "RESET_OWNER" /\ w.conn = NoConn /\ ble.reset => ble.conn = NoConn

LEMMA PutGoesOn ==
    ASSUME TypeOK, NEW w, QuietWork(w), control_queue' = Put(control_queue, w)
    PROVE  ControlGoesOn
<1> HIDE DEF WorkType
<1>1. Grown(control_queue, control_queue', w) /\ w \in WorkType
  BY PutIs DEF TypeOK, QuietWork
<1>2. QED
  BY <1>1 DEF ControlGoesOn, QuietWork

-----------------------------------------------------------------------------
(* The NimBLE host task *)

LinkType ==
    [peer : Peers \cup {None}, dying : BOOLEAN, sec : {"plain", "asking", "keyed", "secure"}]

HostTypes ==
    /\ bond' \in Peers \cup {None} /\ approved' \subseteq Peers
    /\ syncdue' \in BOOLEAN /\ adv' \in BOOLEAN /\ link' \in LinkType

\* A host step with its work queued, but for what it does to the session.
LEMMA HostKept ==
    ASSUME BleInv, HostStep, HostTypes, ble' \in BleType,
           queue' \in Seq(WorkType), Len(queue') <= QueueLength, RxGoesOn,
           control_queue' \in Seq(WorkType), Len(control_queue') <= QueueLength
    PROVE  TypeOK' /\ PowerInv' /\ CallInv' /\ UploadAgrees'
<1>0. TypeOK /\ PowerInv
  BY DEF BleInv
<1> HIDE DEF BleType, WorkType
<1>1. TypeOK'
  BY <1>0 DEF TypeOK, HostStep, HostTypes, LinkType, locals
<1>2. PowerInv'
  BY <1>0 DEF PowerInv, HostStep, locals
<1>3. CallInv' /\ UploadAgrees'
  BY DataKept DEF DataGoesOn, HostStep, locals
<1>4. QED
  BY <1>1, <1>2, <1>3

LEMMA HostQuiet ==
    ASSUME BleInv, HostStep, HostTypes, SameSession(ble, ble'), ConfirmGoesOn,
           LinkGoesOn, ControlGoesOn, QueueGoesOn, RxGoesOn
    PROVE  BleInv'
<1>0. TypeOK /\ AgeInv
  BY DEF BleInv
<1>1. TypeOK' /\ PowerInv' /\ CallInv' /\ UploadAgrees'
  BY <1>0, QueueTypes, HostKept DEF SameSession
<1>2. TasksGoOn
  BY <1>0 DEF HostStep, TasksGoOn, CheckGoesOn, PlacesGoOn, AgeInv, Finishing, Resetting, locals
<1>3. Quiet
  BY <1>2 DEF Quiet, AlmostQuiet, TasksGoOn, HostStep
<1>4. QED
  BY <1>1, <1>3, QuietKept DEF BleInv, SessionParts

LEMMA SyncStep ==
    ASSUME BleInv, on_sync
    PROVE  BleInv'
<1>0. TypeOK /\ HostStep
  BY DEF BleInv, on_sync
<1>1. QuietWork(Work("SYNC"))
  BY <1>0, WorkIs, TypesAre DEF QuietWork
<1>2. ControlGoesOn
  BY <1>0, <1>1, PutGoesOn DEF on_sync
<1>3. SameSession(ble, ble') /\ ConfirmGoesOn
  BY <1>0, SameBle DEF on_sync
<1>4. HostTypes /\ LinkGoesOn /\ QueueGoesOn /\ RxGoesOn
  BY <1>0 DEF on_sync, HostTypes, LinkGoesOn, QueueGoesOn, RxGoesOn, TypeOK, LinkType
<1>5. QED
  BY <1>0, <1>2, <1>3, <1>4, HostQuiet

LEMMA AdvertisingEndsStep ==
    ASSUME BleInv, AdvertisingEnds
    PROVE  BleInv'
<1>0. TypeOK /\ HostStep
  BY DEF BleInv, AdvertisingEnds
<1> DEFINE w == Work("ADV_COMPLETE")
<1>1. QuietWork(w) /\ w \in WorkType /\ w.type = "ADV_COMPLETE"
  BY <1>0, WorkIs, TypesAre DEF QuietWork
<1> HIDE DEF w
<1>2. ControlGoesOn
  BY <1>0, <1>1, PutGoesOn DEF AdvertisingEnds, ControlGoesOn, w
<1>3. SameSession(ble, ble') /\ ConfirmGoesOn
  BY <1>0, SameBle DEF AdvertisingEnds
<1>4. queue' = queue \/ Grown(queue, queue', w)
  <2> HIDE DEF WorkType
  <2>1. QED
    BY <1>0, <1>1, PutIs DEF AdvertisingEnds, TypeOK, w
<1>5. QueueGoesOn /\ RxGoesOn
  <2>1. QueueGoesOn
    BY <1>0, <1>1, <1>4, TypesAre DEF QueueGoesOn, QuietWork, AdvertisingEnds
  <2>2. RxGoesOn
    BY <1>1, <1>4 DEF RxGoesOn, Grown
  <2>3. QED
    BY <2>1, <2>2
<1>6. HostTypes /\ LinkGoesOn
  BY <1>0 DEF AdvertisingEnds, HostTypes, LinkGoesOn, TypeOK, LinkType
<1>7. QED
  BY <1>0, <1>2, <1>3, <1>5, <1>6, HostQuiet

LEMMA GenerationIs ==
    ASSUME TypeOK
    PROVE  Generation \in Nat /\ Generation <= ble.generation
BY TypesAre DEF Generation

LEMMA PasskeyActionStep ==
    ASSUME BleInv, PasskeyAction
    PROVE  BleInv'
<1>0. TypeOK /\ HostStep /\ link # NoLink /\ link \in LinkType /\ link.sec = "plain"
  BY DEF BleInv, PasskeyAction, TypeOK, LinkType
<1> DEFINE x == Work("PASSKEY")
           w == [x EXCEPT !.gen = Generation, !.conn = Handle]
<1>1. QuietWork(w)
  <2>1. w \in WorkType /\ w.type = "PASSKEY" /\ w.gen = Generation /\ w.ctl = 0
    <3>1. x \in WorkType /\ x.type = "PASSKEY" /\ x.ctl = 0
      BY WorkIs
    <3> HIDE DEF x
    <3>2. QED
      BY <1>0, <3>1, GenerationIs DEF WorkType
  <2> HIDE DEF w, WorkType
  <2>2. QED
    BY <1>0, <2>1, GenerationIs, TypesAre DEF QuietWork
<1> HIDE DEF w
<1>2. ControlGoesOn
  BY <1>0, <1>1, PutGoesOn DEF PasskeyAction, ControlGoesOn, w, x
<1>3. SameSession(ble, ble') /\ ConfirmGoesOn
  <2>1. PICK v \in BOOLEAN : ble' = [ble EXCEPT !.pairing = v]
    <3>1. ble \in BleType
      BY <1>0 DEF TypeOK
    <3>2. ble.pairing \in BOOLEAN
      BY <3>1 DEF BleType
    <3>3. PICK a \in BOOLEAN : ble' = [ble EXCEPT !.pairing = @ \/ a]
      BY DEF PasskeyAction
    <3>4. QED
      BY <3>2, <3>3
  <2>2. ble \in BleType
    BY <1>0 DEF TypeOK
  <2>3. ble' \in BleType
    BY <2>1, <2>2 DEF BleType
  <2>4. QED
    BY <2>1, <2>2, <2>3 DEF SameSession, ConfirmGoesOn, BleType
<1>4. PICK l \in {[link EXCEPT !.sec = "asking"], [link EXCEPT !.dying = TRUE]} : link' = l
  BY DEF PasskeyAction
<1>5. link' \in LinkType /\ link' # NoLink /\ link'.peer = link.peer /\ link'.sec # "keyed"
  <2>1. link.peer # None
    BY <1>0 DEF BleInv, SessionInv
  <2>2. link' \in LinkType /\ link'.peer = link.peer /\ link'.sec # "keyed"
    BY <1>0, <1>4 DEF LinkType
  <2>3. QED
    BY <2>1, <2>2 DEF NoLink
<1>6. HostTypes /\ LinkGoesOn /\ QueueGoesOn /\ RxGoesOn
  BY <1>0, <1>5 DEF PasskeyAction, HostTypes, LinkGoesOn, QueueGoesOn, RxGoesOn, TypeOK
<1>7. QED
  BY <1>0, <1>2, <1>3, <1>6, HostQuiet

\* A phone encrypts, with new keys or with its old ones, or fails to.
LEMMA EncryptionStep ==
    ASSUME BleInv, HostStep, link # NoLink, UNCHANGED <<syncdue, adv, ble, queue, approved>>,
           NEW ok \in BOOLEAN, EncryptionWork(ok), bond' \in Peers \cup {None},
           NEW sec \in {"plain", "secure"}, link' = [link EXCEPT !.sec = sec],
           link.sec # "secure"
    PROVE  BleInv'
<1>0. TypeOK /\ link \in LinkType
  BY DEF BleInv, TypeOK, LinkType
<1> DEFINE x == Work("ENCRYPTION")
           w == [x EXCEPT !.gen = Generation, !.conn = Handle, !.ok = ok]
<1>1. QuietWork(w)
  <2>1. w \in WorkType /\ w.type = "ENCRYPTION" /\ w.gen = Generation /\ w.ctl = 0
    <3>1. x \in WorkType /\ x.type = "ENCRYPTION" /\ x.ctl = 0
      BY WorkIs
    <3> HIDE DEF x
    <3>2. QED
      BY <1>0, <3>1, GenerationIs DEF WorkType
  <2> HIDE DEF w, WorkType
  <2>2. QED
    BY <1>0, <2>1, GenerationIs, TypesAre DEF QuietWork
<1> HIDE DEF w
<1>2. ControlGoesOn
  BY <1>0, <1>1, PutGoesOn DEF EncryptionWork, w, x
<1>3. SameSession(ble, ble') /\ ConfirmGoesOn
  BY <1>0, SameBle
<1>4. /\ link' \in LinkType /\ link'.peer = link.peer
      /\ link'.sec \notin {"keyed", "asking"} /\ link' # NoLink
  <2>1. link.peer # None
    BY DEF BleInv, SessionInv
  <2>2. QED
    BY <1>0, <2>1 DEF LinkType, NoLink
<1>5. HostTypes /\ LinkGoesOn /\ QueueGoesOn /\ RxGoesOn
  BY <1>0, <1>4 DEF HostTypes, LinkGoesOn, QueueGoesOn, RxGoesOn, TypeOK
<1>6. QED
  BY <1>0, <1>2, <1>3, <1>5, HostQuiet

LEMMA EncryptionSteps ==
    ASSUME BleInv, Paired \/ Encrypted \/ EncryptionFails
    PROVE  BleInv'
<1>0. TypeOK /\ bond \in Peers \cup {None} /\ link.peer \in Peers \cup {None}
  BY DEF BleInv, TypeOK
<1>1. NoLink.sec = "plain"
  BY DEF NoLink
<1>2. CASE Paired
  BY <1>0, <1>1, <1>2, EncryptionStep DEF Paired
<1>3. CASE Encrypted
  BY <1>0, <1>3, EncryptionStep DEF Encrypted
<1>4. CASE EncryptionFails
  BY <1>0, <1>1, <1>4, EncryptionStep DEF EncryptionFails
<1>5. QED
  BY <1>2, <1>3, <1>4

LEMMA ControlStep ==
    ASSUME BleInv, stock_host_control
    PROVE  BleInv'
<1>0. /\ TypeOK /\ HostStep /\ link \in LinkType /\ ble \in BleType
      /\ SessionInv /\ KeyInv /\ UNCHANGED <<bond, syncdue, adv, queues>>
  BY DEF BleInv, stock_host_control, TypeOK, LinkType
<1>1. PICK x \in BOOLEAN :
         ble' = [ble EXCEPT !.event = FALSE, !.term = 0, !.confirm = NoConfirm, !.level4 = x]
  <2>1. ble.level4 \in BOOLEAN /\ ble.window \in BOOLEAN
        /\ ble.recovery \in BOOLEAN /\ ble.reset \in BOOLEAN
    BY <1>0 DEF BleType
  <2>2. QED
    BY <2>1 DEF stock_host_control
<1>2. ble' \in BleType
  <2>1. NoConfirm \in [gen : Nat, key : Passkeys \cup {0}, seen : Passkeys \cup {0}]
    BY DEF NoConfirm
  <2>2. QED
    BY <1>0, <1>1, <2>1 DEF BleType
<1>3. SameSession(ble, ble') /\ ConfirmGoesOn
  BY <1>0, <1>1, <1>2 DEF SameSession, ConfirmGoesOn, BleType, NoConfirm
<1>4. link = NoLink => link.sec = "plain"
  BY DEF NoLink
<1>5. /\ HostTypes /\ LinkGoesOn
  <2>1. CASE UNCHANGED <<link, approved>>
    BY <1>0, <2>1 DEF HostTypes, LinkGoesOn, TypeOK
  <2>2. CASE link # NoLink /\ link' = [link EXCEPT !.dying = TRUE] /\ UNCHANGED approved
    <3>1. /\ link' \in LinkType /\ link'.peer = link.peer /\ link'.sec = link.sec
          /\ link' # NoLink
      BY <1>0, <2>2 DEF LinkType, NoLink
    <3>2. QED
      BY <1>0, <2>2, <3>1 DEF HostTypes, LinkGoesOn, TypeOK
  <2>3. CASE /\ link.sec = "asking" /\ link' = [link EXCEPT !.sec = "keyed"]
             /\ approved' = approved \cup {link.peer}
             /\ ble.confirm.gen = ble.generation /\ ble.conn = Handle /\ ble.window
    <3>1. /\ link' \in LinkType /\ link'.peer = link.peer /\ link'.sec = "keyed"
          /\ link # NoLink /\ link' # NoLink
      BY <1>0, <1>4, <2>3 DEF LinkType, NoLink
    <3>2. link.peer # None
      BY <1>0, <3>1 DEF SessionInv
    <3>3. ~Ended'
      BY <1>0, <2>3 DEF KeyInv, Ended, queues
    <3>4. link.peer \in Peers
      BY <1>0, <3>2 DEF LinkType
    <3>5. HostTypes
      BY <1>0, <2>3, <3>1, <3>4 DEF HostTypes, TypeOK
    <3>6. LinkGoesOn
      BY <2>3, <3>1, <3>3 DEF LinkGoesOn
    <3>7. QED
      BY <3>5, <3>6
  <2>4. QED
    BY <2>1, <2>2, <2>3 DEF stock_host_control
<1>6. ControlGoesOn /\ QueueGoesOn /\ RxGoesOn
  BY <1>0 DEF queues, ControlGoesOn, QueueGoesOn, RxGoesOn
<1>7. QED
  BY <1>0, <1>3, <1>5, <1>6, HostQuiet

LEMMA GattStep ==
    ASSUME BleInv, NEW m \in Messages, wallet_gatt_access(m)
    PROVE  BleInv'
<1>0. TypeOK /\ HostStep /\ m \in Message /\ queue \in Seq(WorkType)
  BY DEF BleInv, wallet_gatt_access, TypeOK
<1> DEFINE x == Work("RX")
           w == [x EXCEPT !.gen = ble.generation, !.conn = Handle, !.msg = m]
<1>1. w \in WorkType /\ w.type = "RX" /\ w.gen = ble.generation /\ w.ctl = 0 /\ w.msg = m
  <2>1. x \in WorkType /\ x.type = "RX" /\ x.ctl = 0 /\ ble.generation \in Nat
    BY <1>0, WorkIs, TypesAre
  <2> HIDE DEF x
  <2>2. QED
    BY <1>0, <2>1 DEF WorkType
<1> HIDE DEF w, WorkType
<1>2. Grown(queue, queue', w)
  BY <1>0, <1>1, AppendIs DEF wallet_gatt_access, w, x
<1>3. QueueGoesOn
  BY <1>0, <1>1, <1>2, TypesAre DEF QueueGoesOn, wallet_gatt_access
<1>4. RxGoesOn
  BY <1>0, <1>1, <1>2 DEF RxGoesOn, Grown
<1>5. SameSession(ble, ble') /\ ConfirmGoesOn
  BY <1>0, SameBle DEF wallet_gatt_access
<1>6. HostTypes /\ LinkGoesOn /\ ControlGoesOn
  BY <1>0 DEF wallet_gatt_access, HostTypes, LinkGoesOn, ControlGoesOn, TypeOK, LinkType
<1>7. QED
  BY <1>0, <1>3, <1>4, <1>5, <1>6, HostQuiet

\* The link is gone, and the session with it.
LEMMA LinkGone ==
    ASSUME BleInv, HostStep, HostTypes, link' = NoLink, queue' = queue,
           NEW w \in WorkType, control_queue' = Put(control_queue, w),
           w.type \in {"HOST_RESET", "DISCONNECT"}, w.gen <= ble.generation, w.ctl = 0,
           ble' \in BleType, ble'.conn = NoConn, ~ble'.connected, ~ble'.secure,
           \/ ble'.generation = ble.generation /\ ble.conn = NoConn
           \/ ble'.generation = ble.generation + 1,
           ble'.control_generation = ble.control_generation,
           ble'.window = ble.window, ble'.owner = ble.owner,
           ble'.recovery = ble.recovery, ble'.reset = ble.reset,
           ble'.confirm.gen \in {ble.confirm.gen, 0}
    PROVE  BleInv'
<1>0. TypeOK /\ AgeInv /\ SessionInv /\ KeyInv /\ OwnerInv /\ UNCHANGED <<nvs, pc, work, enc, uwork>>
  BY DEF BleInv, HostStep, locals
<1>1. Grown(control_queue, control_queue', w)
  <2> HIDE DEF WorkType
  <2>1. QED
    BY <1>0, PutIs DEF TypeOK
<1>2. RxGoesOn
  BY DEF RxGoesOn
<1>3. TypeOK' /\ PowerInv' /\ CallInv' /\ UploadAgrees'
  BY <1>0, <1>1, <1>2, HostKept DEF Grown, TypeOK
<1>4. /\ ble.generation \in Nat /\ ble.control_generation \in Nat
      /\ ble.conn \in {NoConn, Handle} /\ ble.confirm.gen \in Nat
      /\ work.gen \in Nat /\ uwork.gen \in Nat /\ uwork.ctl \in Nat
  BY <1>0, TypesAre
<1>5. NoConn # Handle
  BY DEF NoConn, Handle
<1>6. AgeInv'
  <2>1. ble'.generation >= ble.generation /\ ble'.control_generation >= ble.control_generation
    BY <1>4
  <2>2. ble'.generation = ble.generation =>
              ble'.conn = ble.conn /\ (ble.connected => ble'.connected)
    BY <1>0, <1>4, <1>5 DEF SessionInv
  <2>3. \A i \in DOMAIN control_queue' :
              \/ \E j \in DOMAIN control_queue : control_queue'[i] = control_queue[j]
              \/ /\ control_queue'[i].gen <= ble'.generation
                 /\ control_queue'[i].ctl <= ble'.control_generation
                 /\ control_queue'[i].type # "CONNECT"
    <3>1. w.gen <= ble'.generation /\ w.ctl <= ble'.control_generation
      <4>1. w.gen \in Nat
        BY DEF WorkType
      <4>2. QED
        BY <1>4, <4>1
    <3>2. QED
      BY <1>1, <3>1 DEF Grown
  <2>4. /\ work'.gen <= ble'.generation /\ ble'.confirm.gen <= ble'.generation
        /\ uwork'.gen <= ble'.generation /\ uwork'.ctl <= ble'.control_generation
    BY <1>0, <1>4 DEF AgeInv
  <2>5. QED
    BY <1>0, <1>3, <2>1, <2>2, <2>3, <2>4, AgeKept
<1>7. SessionInv'
  BY <1>0, <1>5 DEF SessionInv, NoLink, Finishing
<1>8. KeyInv'
  BY <1>0, <1>5 DEF KeyInv, NoLink, Finishing
<1>9. OwnerInv'
  BY <1>0 DEF OwnerInv, Checking, Resetting, Finishing
<1>10. SecureIsOwner'
  BY DEF SecureIsOwner
<1>11. QED
  BY <1>3, <1>6, <1>7, <1>8, <1>9, <1>10 DEF BleInv

LEMMA HostResetStep ==
    ASSUME BleInv, on_reset
    PROVE  BleInv'
<1>0. TypeOK /\ HostStep /\ ble \in BleType
  BY DEF BleInv, on_reset, TypeOK
<1> DEFINE e == EndSession(ble)
           b == [e EXCEPT !.synced = FALSE, !.conn = NoConn]
           w == Work("HOST_RESET")
<1>1. SessionEnded(ble, e) /\ e \in BleType
  <2>1. SessionEnded(ble, e)
    BY <1>0, EndSessionIs
  <2>2. QED
    BY <2>1 DEF SessionEnded
<1>2. /\ b \in BleType /\ b.conn = NoConn /\ b.generation = e.generation
      /\ b.control_generation = e.control_generation
      /\ b.connected = e.connected /\ b.secure = e.secure /\ b.window = e.window
      /\ b.owner = e.owner /\ b.recovery = e.recovery /\ b.reset = e.reset
      /\ b.confirm = e.confirm
  <2> HIDE DEF e
  <2>1. QED
    BY <1>1 DEF BleType
<1>3. \/ ble' = b
      \/ \E x \in BOOLEAN : ble' = [b EXCEPT !.confirm = NoConfirm, !.term = 0, !.level4 = x]
  <2>1. b.window \in BOOLEAN /\ b.recovery \in BOOLEAN /\ b.reset \in BOOLEAN
    <3> HIDE DEF b
    <3>1. QED
      BY <1>2 DEF BleType
  <2>2. ble' = IF StockMode
                    THEN [b EXCEPT !.confirm = NoConfirm, !.term = 0,
                             !.level4 = b.window /\ ~b.recovery /\ ~b.reset]
                    ELSE b
    BY DEF on_reset
  <2> HIDE DEF b
  <2>3. QED
    BY <2>1, <2>2
<1>4. /\ ble' \in BleType /\ ble'.conn = NoConn /\ ble'.generation = b.generation
      /\ ble'.control_generation = b.control_generation
      /\ ble'.connected = b.connected /\ ble'.secure = b.secure /\ ble'.window = b.window
      /\ ble'.owner = b.owner /\ ble'.recovery = b.recovery /\ ble'.reset = b.reset
      /\ ble'.confirm.gen \in {b.confirm.gen, 0}
  <2>1. NoConfirm \in [gen : Nat, key : Passkeys \cup {0}, seen : Passkeys \cup {0}]
        /\ NoConfirm.gen = 0
    BY DEF NoConfirm
  <2> HIDE DEF b
  <2>2. CASE ble' = b
    BY <1>2, <2>2
  <2>3. CASE \E x \in BOOLEAN : ble' = [b EXCEPT !.confirm = NoConfirm, !.term = 0, !.level4 = x]
    <3>1. PICK x \in BOOLEAN : ble' = [b EXCEPT !.confirm = NoConfirm, !.term = 0, !.level4 = x]
      BY <2>3
    <3> HIDE DEF NoConfirm
    <3>2. b \in BleType
      BY <1>2
    <3>3. ble' \in BleType
      <4> DEFINE c == [b EXCEPT !.confirm = NoConfirm]
      <4>1. c \in BleType
        BY <2>1, <3>2 DEF BleType
      <4>2. ble' = [c EXCEPT !.term = 0, !.level4 = x]
        BY <3>1
      <4> HIDE DEF c
      <4>3. QED
        BY <4>1, <4>2 DEF BleType
    <3>4. /\ ble'.conn = b.conn /\ ble'.generation = b.generation
          /\ ble'.control_generation = b.control_generation
          /\ ble'.connected = b.connected /\ ble'.secure = b.secure
          /\ ble'.window = b.window /\ ble'.confirm = NoConfirm
          /\ ble'.owner = b.owner /\ ble'.recovery = b.recovery /\ ble'.reset = b.reset
      BY <3>1, <3>2 DEF BleType
    <3>5. QED
      BY <1>2, <2>1, <3>3, <3>4
  <2>4. QED
    BY <1>3, <2>2, <2>3
<1>5. HostTypes /\ link' = NoLink /\ queue' = queue /\ control_queue' = Put(control_queue, w)
  BY <1>0 DEF on_reset, HostTypes, TypeOK, LinkType, NoLink
<1>6. /\ w \in WorkType /\ w.type = "HOST_RESET" /\ w.ctl = 0 /\ w.gen = 0
      /\ ble.generation \in Nat
  BY <1>0, WorkIs, TypesAre
<1>7. w.gen <= ble.generation
  BY <1>6
<1> HIDE DEF e, b, w
<1>8. /\ ~ble'.connected /\ ~ble'.secure /\ ble'.generation = ble.generation + 1
      /\ ble'.control_generation = ble.control_generation
      /\ ble'.window = ble.window /\ ble'.owner = ble.owner
      /\ ble'.recovery = ble.recovery /\ ble'.reset = ble.reset
      /\ ble'.confirm.gen \in {ble.confirm.gen, 0}
  BY <1>1, <1>2, <1>4 DEF SessionEnded
<1>9. QED
  BY <1>0, <1>4, <1>5, <1>6, <1>7, <1>8, LinkGone

LEMMA DisconnectedStep ==
    ASSUME BleInv, Disconnected
    PROVE  BleInv'
<1>0. TypeOK /\ HostStep /\ ble \in BleType /\ SessionInv /\ ble.conn \in {NoConn, Handle}
  BY TypesAre DEF BleInv, Disconnected, TypeOK
<1> DEFINE e == EndSession(ble)
           b == [e EXCEPT !.abort = TRUE, !.conn = NoConn]
           x == Work("DISCONNECT")
           w == [x EXCEPT !.gen = Generation, !.conn = Handle]
<1>1. SessionEnded(ble, e) /\ e \in BleType
  <2>1. SessionEnded(ble, e)
    BY <1>0, EndSessionIs
  <2>2. QED
    BY <2>1 DEF SessionEnded
<1>2. /\ b \in BleType /\ b.conn = NoConn /\ b.generation = e.generation
      /\ b.control_generation = e.control_generation
      /\ b.connected = e.connected /\ b.secure = e.secure /\ b.window = e.window
      /\ b.owner = e.owner /\ b.recovery = e.recovery /\ b.reset = e.reset
      /\ b.confirm = e.confirm
  <2> HIDE DEF e
  <2>1. QED
    BY <1>1 DEF BleType
<1>3. /\ HostTypes /\ link' = NoLink /\ queue' = queue /\ control_queue' = Put(control_queue, w)
      /\ ble' = IF ble.conn = Handle THEN b ELSE ble
  BY <1>0 DEF Disconnected, HostTypes, TypeOK, LinkType, NoLink
<1>4. w \in WorkType /\ w.type = "DISCONNECT" /\ w.ctl = 0 /\ w.gen <= ble.generation
  <2>1. x \in WorkType /\ x.type = "DISCONNECT" /\ x.ctl = 0
    BY WorkIs
  <2>2. Generation \in Nat /\ Generation <= ble.generation
    BY <1>0, GenerationIs
  <2> HIDE DEF x
  <2>3. QED
    BY <2>1, <2>2 DEF WorkType
<1> HIDE DEF e, b, x, w
<1>5. /\ ble' \in BleType /\ ble'.conn = NoConn /\ ~ble'.connected /\ ~ble'.secure
      /\ \/ ble'.generation = ble.generation /\ ble.conn = NoConn
         \/ ble'.generation = ble.generation + 1
      /\ ble'.control_generation = ble.control_generation
      /\ ble'.window = ble.window /\ ble'.owner = ble.owner
      /\ ble'.recovery = ble.recovery /\ ble'.reset = ble.reset
      /\ ble'.confirm.gen \in {ble.confirm.gen, 0}
  <2>1. CASE ble.conn = Handle
    BY <1>1, <1>2, <1>3, <2>1 DEF SessionEnded
  <2>2. CASE ble.conn = NoConn
    <3>1. ~ble.connected /\ ~ble.secure
      BY <1>0, <2>2 DEF BleInv, SessionInv, SecureIsOwner, NoConn, Handle
    <3>2. QED
      BY <1>0, <1>3, <2>2, <3>1 DEF NoConn, Handle
  <2>3. QED
    BY <1>0, <2>1, <2>2
<1>6. QED
  BY <1>0, <1>3, <1>4, <1>5, LinkGone

\* A link is there; its phone may have a session, or the link is to end.
LEMMA RefusedStep ==
    ASSUME BleInv, HostStep, NEW p \in Peers, link = NoLink,
           link' = [peer |-> p, sec |-> "plain", dying |-> TRUE], adv' = FALSE,
           UNCHANGED <<bond, syncdue, queue, approved, ble, control_queue>>
    PROVE  BleInv'
<1>0. /\ TypeOK /\ AgeInv /\ SessionInv /\ KeyInv /\ OwnerInv /\ SecureIsOwner
      /\ UNCHANGED <<nvs, pc, work, enc, uwork>>
  BY DEF BleInv, HostStep, locals
<1>1. HostTypes /\ RxGoesOn
  <2> HIDE DEF WorkType, BleType
  <2>1. HostTypes
    BY <1>0 DEF HostTypes, LinkType, TypeOK
  <2>2. RxGoesOn
    BY DEF RxGoesOn
  <2>3. QED
    BY <2>1, <2>2
<1>2. TypeOK' /\ PowerInv' /\ CallInv' /\ UploadAgrees'
  BY <1>0, <1>1, HostKept, TypesAre
<1>3. AgeInv'
  BY <1>0 DEF AgeInv
<1>4. link'.peer = p /\ link'.sec = "plain" /\ p # None /\ link' # NoLink
  BY DEF NoLink
<1>5. ble.conn # Handle /\ ~ble.connected
  BY <1>0 DEF SessionInv
<1>6. SessionInv'
  BY <1>0, <1>4, <1>5 DEF SessionInv, Finishing
<1>7. KeyInv'
  BY <1>0, <1>4, <1>5 DEF KeyInv, Finishing, Ended
<1>8. OwnerInv'
  BY <1>0, <1>5 DEF OwnerInv, Checking, Resetting, Finishing
<1>9. SecureIsOwner'
  BY <1>0, <1>5 DEF SecureIsOwner
<1>10. QED
  BY <1>2, <1>3, <1>6, <1>7, <1>8, <1>9 DEF BleInv

LEMMA ConnectedStep ==
    ASSUME BleInv, NEW p \in Peers, Connected(p)
    PROVE  BleInv'
<1>0. /\ TypeOK /\ AgeInv /\ SessionInv /\ KeyInv /\ OwnerInv /\ SecureIsOwner
      /\ HostStep /\ UNCHANGED <<nvs, pc, work, enc, uwork>> /\ ble \in BleType
      /\ link = NoLink /\ adv' = FALSE /\ UNCHANGED <<bond, syncdue, queue, approved>>
  BY TypesAre DEF BleInv, Connected, HostStep, locals
<1>1. CASE ~(ble.conn = NoConn /\ wallet_ble_connection_allowed(ble, p))
  BY <1>0, <1>1, RefusedStep DEF Connected
<1>2. CASE ble.conn = NoConn /\ wallet_ble_connection_allowed(ble, p)
  <2> DEFINE e == EndSession(ble)
             b == [e EXCEPT !.conn = Handle, !.connected = TRUE, !.peer = p]
             x == Work("CONNECT")
             w == [x EXCEPT !.gen = b.generation, !.conn = Handle, !.peer = p]
  <2>1. ~ble.reset /\ ble.conn # Handle /\ ~ble.secure
    BY <1>0, <1>2 DEF wallet_ble_connection_allowed, SecureIsOwner, NoConn, Handle
  <2>2. SessionEnded(ble, e) /\ e \in BleType
    <3>1. SessionEnded(ble, e)
      BY <1>0, EndSessionIs
    <3>2. QED
      BY <3>1 DEF SessionEnded
  <2>3. /\ b \in BleType /\ b.conn = Handle /\ b.connected /\ b.generation = e.generation
        /\ b.control_generation = e.control_generation
        /\ b.secure = e.secure /\ b.window = e.window
        /\ b.owner = e.owner /\ b.recovery = e.recovery /\ b.reset = e.reset
        /\ b.confirm = e.confirm
    <3> HIDE DEF e
    <3>1. QED
      BY <2>2 DEF BleType
  <2>4. /\ ble' = b /\ control_queue' = Put(control_queue, w)
        /\ \E d \in BOOLEAN : link' = [peer |-> p, sec |-> "plain", dying |-> d]
    <3>1. Full(control_queue) \in BOOLEAN
      BY DEF Full
    <3>2. link' = [peer |-> p, sec |-> "plain", dying |-> Full(control_queue)]
          /\ ble' = b /\ control_queue' = Put(control_queue, w)
      BY <1>2 DEF Connected
    <3> HIDE DEF b, w
    <3>3. QED
      BY <3>1, <3>2
  <2>5. w \in WorkType /\ w.type = "CONNECT" /\ w.ctl = 0 /\ w.gen = b.generation
    <3>1. x \in WorkType /\ x.type = "CONNECT" /\ x.ctl = 0
      BY WorkIs
    <3>2. b.generation \in Nat
      <4> HIDE DEF b
      <4>1. QED
        BY <2>3 DEF BleType
    <3> HIDE DEF x, b
    <3>3. QED
      BY <3>1, <3>2 DEF WorkType
  <2> HIDE DEF e, b, x, w
  <2>6. /\ ble.generation \in Nat /\ ble.control_generation \in Nat
        /\ ble.confirm.gen \in Nat
        /\ work.gen \in Nat /\ uwork.gen \in Nat /\ uwork.ctl \in Nat
        /\ \A i \in DOMAIN control_queue : control_queue[i].gen \in Nat
        /\ \A i \in DOMAIN control_queue : control_queue[i].ctl \in Nat
    <3> HIDE DEF WorkType
    <3>1. QED
      BY <1>0, TypesAre
  <2>7. /\ ble'.generation = ble.generation + 1 /\ ble'.conn = Handle /\ ble'.connected
        /\ ble'.control_generation = ble.control_generation /\ ~ble'.secure
        /\ ble'.window = ble.window /\ ble'.owner = ble.owner
        /\ ble'.recovery = ble.recovery /\ ~ble'.reset /\ ble'.confirm = ble.confirm
        /\ ble' \in BleType /\ w.gen = ble'.generation
    BY <2>1, <2>2, <2>3, <2>4, <2>5 DEF SessionEnded
  <2>8. PICK d \in BOOLEAN : link' = [peer |-> p, sec |-> "plain", dying |-> d]
    BY <2>4
  <2>9. link'.peer = p /\ link'.sec = "plain" /\ p # None /\ link' # NoLink /\ link' \in LinkType
    BY <2>8 DEF NoLink, LinkType
  <2>10. Grown(control_queue, control_queue', w)
    <3> HIDE DEF WorkType
    <3>1. QED
      BY <1>0, <2>4, <2>5, PutIs DEF TypeOK
  <2>11. HostTypes /\ RxGoesOn
    BY <1>0, <2>9 DEF HostTypes, RxGoesOn, TypeOK
  <2>12. TypeOK' /\ PowerInv' /\ CallInv' /\ UploadAgrees'
    BY <1>0, <2>7, <2>10, <2>11, HostKept DEF Grown, TypeOK
  <2>13. AgeInv'
    <3>1. \A i \in DOMAIN control_queue' :
              \/ \E j \in DOMAIN control_queue : control_queue'[i] = control_queue[j]
              \/ /\ control_queue'[i].gen <= ble'.generation
                 /\ control_queue'[i].ctl <= ble'.control_generation
                 /\ ble'.connected
      BY <2>5, <2>6, <2>7, <2>10 DEF Grown
    <3>2. /\ work'.gen <= ble'.generation /\ ble'.confirm.gen <= ble'.generation
          /\ uwork'.gen <= ble'.generation /\ uwork'.ctl <= ble'.control_generation
      BY <1>0, <2>6, <2>7 DEF AgeInv
    <3>3. /\ ble'.generation >= ble.generation /\ ble'.generation # ble.generation
          /\ ble'.control_generation >= ble.control_generation
      BY <2>6, <2>7
    <3>4. QED
      BY <1>0, <2>6, <2>12, <3>1, <3>2, <3>3, AgeKept
  <2>14. SessionInv'
    BY <1>0, <2>6, <2>7, <2>9 DEF SessionInv, Finishing
  <2>15. ASSUME NEW i \in DOMAIN control_queue'
         PROVE  \/ control_queue'[i].type = "CONNECT"
                \/ control_queue'[i].gen # ble'.generation
    <3>1. \A j \in DOMAIN control_queue : control_queue[j].gen <= ble.generation
      BY <1>0 DEF AgeInv
    <3>2. QED
      BY <2>5, <2>6, <2>7, <2>10, <3>1 DEF Grown
  <2>16. KeyInv'
    <3>1. ble'.confirm.gen # ble'.generation
      BY <1>0, <2>6, <2>7 DEF AgeInv
    <3>2. QED
      BY <1>0, <2>7, <2>9, <2>15, <3>1 DEF KeyInv, Finishing
  <2>17. OwnerInv'
    <3>1. work.gen # ble'.generation
      BY <1>0, <2>6, <2>7 DEF AgeInv
    <3>2. QED
      BY <1>0, <2>1, <2>7, <3>1 DEF OwnerInv, Checking, Resetting, Finishing
  <2>18. SecureIsOwner'
    BY <2>7 DEF SecureIsOwner
  <2>19. QED
    BY <2>12, <2>13, <2>14, <2>16, <2>17, <2>18 DEF BleInv
<1>3. QED
  BY <1>1, <1>2

LEMMA HostTaskStep ==
    ASSUME BleInv, HostTask
    PROVE  BleInv'
BY SyncStep, HostResetStep, AdvertisingEndsStep, DisconnectedStep, ConnectedStep,
   PasskeyActionStep, EncryptionSteps, ControlStep, GattStep DEF HostTask

-----------------------------------------------------------------------------
(* The timer and the user interface task *)

ShownType == [pairing : BOOLEAN, released : BOOLEAN, key : Passkeys \cup {0}]

LEMMA TickQueuedStep ==
    ASSUME BleInv, on_tick
    PROVE  BleInv'
<1>0. /\ TypeOK /\ AgeInv /\ PowerInv /\ queue \in Seq(WorkType)
      /\ UNCHANGED <<nvs, bond, up, syncdue, adv, link, ble, transfer, control_queue,
                     upload, pc, work, enc, uwork, shown, approved>>
      /\ up
  BY DEF BleInv, on_tick, durable, host, locals, TypeOK
<1> DEFINE w == Work("TICK")
<1>1. w \in WorkType /\ w.type = "TICK" /\ w.gen = 0 /\ w.ctl = 0
  BY WorkIs
<1> HIDE DEF w, WorkType
<1>2. Grown(queue, queue', w)
  BY <1>0, <1>1, AppendIs DEF on_tick, w
<1>3. QueueGoesOn
  BY <1>0, <1>1, <1>2, TypesAre DEF QueueGoesOn
<1>4. RxGoesOn
  BY <1>1, <1>2 DEF RxGoesOn, Grown
<1>5. SameSession(ble, ble') /\ ConfirmGoesOn
  BY <1>0, SameBle
<1>6. LinkGoesOn /\ ControlGoesOn /\ TasksGoOn
  BY <1>0 DEF LinkGoesOn, ControlGoesOn, TasksGoOn, CheckGoesOn, PlacesGoOn, AgeInv, Finishing, Resetting
<1>7. TypeOK'
  BY <1>0, <1>2 DEF TypeOK, Grown
<1>8. SessionParts'
  BY <1>0, <1>3, <1>5, <1>6, <1>7, QuietKept DEF Quiet, AlmostQuiet, TasksGoOn
<1>9. CallInv' /\ UploadAgrees'
  BY <1>0, <1>4, DataKept DEF DataGoesOn
<1>10. PowerInv'
  BY <1>0 DEF PowerInv
<1>11. QED
  BY <1>7, <1>8, <1>9, <1>10 DEF BleInv, SessionParts

\* What a step of the user interface keeps, whatever becomes of the session.
LEMMA UiKept ==
    ASSUME BleInv, UiStep, nvs' = nvs, adv' \in BOOLEAN, shown' \in ShownType,
           ble' \in BleType, uwork' \in WorkType,
           queue' \in Seq(WorkType), Len(queue') <= QueueLength, RxGoesOn,
           control_queue' \in Seq(WorkType), Len(control_queue') <= QueueLength,
           NEW label \in UiLabel, pc' = [pc EXCEPT !["ui"] = label]
    PROVE  /\ TypeOK' /\ PowerInv' /\ CallInv' /\ UploadAgrees'
           /\ pc'["ui"] = label /\ pc'["worker"] = pc["worker"]
<1>0. TypeOK /\ PowerInv
  BY DEF BleInv
<1>1. /\ pc'["ui"] = label /\ pc'["worker"] = pc["worker"]
      /\ pc' \in [{"worker", "ui"} -> WorkerLabel \cup UiLabel]
  BY <1>0 DEF PowerInv
<1> HIDE DEF BleType, WorkType
<1>2. TypeOK'
  BY <1>0, <1>1 DEF TypeOK, UiStep, ShownType
<1>3. PowerInv'
  BY <1>1 DEF PowerInv, UiStep
<1>4. CallInv' /\ UploadAgrees'
  BY <1>1, DataKept DEF DataGoesOn, UiStep
<1>5. QED
  BY <1>1, <1>2, <1>3, <1>4

LEMMA UiQuiet ==
    ASSUME BleInv, UiStep, nvs' = nvs, adv' \in BOOLEAN, shown' \in ShownType,
           SameSession(ble, ble'), ConfirmGoesOn, ControlGoesOn, QueueGoesOn, RxGoesOn,
           uwork' \in WorkType,
           NEW label \in UiLabel, pc' = [pc EXCEPT !["ui"] = label],
           \/ label = pc["ui"] /\ uwork' = uwork
           \/ /\ pc["ui"] = "request" /\ label \in {"idle", "unpair"}
              /\ label = "unpair" => uwork.type = "RESET_OWNER" /\ uwork.conn = NoConn
              /\ uwork'.gen = 0 /\ uwork'.ctl = 0
    PROVE  BleInv'
<1>0. TypeOK /\ AgeInv /\ KeyInv
  BY DEF BleInv
<1>1. /\ TypeOK' /\ PowerInv' /\ CallInv' /\ UploadAgrees'
      /\ pc'["ui"] = label /\ pc'["worker"] = pc["worker"]
  BY <1>0, QueueTypes, UiKept DEF SameSession
<1>2. LinkGoesOn /\ UNCHANGED <<link, enc, work>>
  BY DEF LinkGoesOn, UiStep
<1>3. TasksGoOn
  <2>1. \A t \in {"worker", "ui"} : Finishing(t)' => Finishing(t) \/ link'.sec # "keyed"
    BY <1>0, <1>1, <1>2 DEF Finishing, KeyInv
  <2>2. Resetting' => Resetting
    BY <1>0, <1>1 DEF Resetting, Finishing
  <2>3. QED
    BY <1>0, <1>1, <1>2, <2>1, <2>2 DEF TasksGoOn, CheckGoesOn, PlacesGoOn, AgeInv, Finishing
<1>4. SessionParts'
  BY <1>1, <1>2, <1>3, QuietKept DEF Quiet, AlmostQuiet, TasksGoOn
<1>5. QED
  BY <1>1, <1>4 DEF BleInv, SessionParts

LEMMA UiRenderStep ==
    ASSUME BleInv, UiRender
    PROVE  BleInv'
<1>0. /\ TypeOK /\ PowerInv /\ UiStep /\ UNCHANGED <<nvs, adv, ble, queue, control_queue, pc, uwork>>
      /\ ble \in BleType /\ uwork \in WorkType /\ adv \in BOOLEAN /\ pc["ui"] \in UiLabel
  BY DEF BleInv, UiRender, queues, TypeOK
<1>1. shown' \in ShownType
  <2>1. ble.pairing \in BOOLEAN /\ ble.released \in BOOLEAN /\ ble.passkey \in Passkeys \cup {0}
    BY <1>0 DEF BleType
  <2>2. QED
    BY <2>1 DEF UiRender, ShownType
<1>2. pc' = [pc EXCEPT !["ui"] = pc["ui"]]
  BY <1>0 DEF PowerInv
<1>3. ControlGoesOn /\ QueueGoesOn /\ RxGoesOn
  BY <1>0 DEF ControlGoesOn, QueueGoesOn, RxGoesOn
<1>4. SameSession(ble, ble') /\ ConfirmGoesOn
  BY <1>0, SameBle
<1> HIDE DEF WorkType, BleType
<1>5. QED
  BY <1>0, <1>1, <1>2, <1>3, <1>4, UiQuiet

LEMMA UiOpenStep ==
    ASSUME BleInv, wallet_ble_open_pairing_window
    PROVE  BleInv'
<1>0. /\ TypeOK /\ PowerInv /\ UiStep /\ UNCHANGED <<nvs, adv, control_queue, pc, uwork, shown>>
      /\ ble \in BleType /\ uwork \in WorkType /\ adv \in BOOLEAN
      /\ pc["ui"] = "idle" /\ ~Full(queue) /\ shown \in ShownType /\ queue \in Seq(WorkType)
  BY DEF BleInv, wallet_ble_open_pairing_window, TypeOK, ShownType
<1> DEFINE ctl == ble.control_generation + 1
           x == Work("OPEN")
           w == [x EXCEPT !.ctl = ctl]
<1>1. ctl \in 0 .. MaxCalls /\ ctl > ble.control_generation /\ ble.control_generation \in Nat
  <2>1. ble.control_generation \in 0 .. MaxCalls
    BY <1>0 DEF BleType
  <2>2. ble.control_generation + 1 <= MaxCalls
    BY DEF wallet_ble_open_pairing_window
  <2>3. QED
    BY <2>1, <2>2, BleAssumption
<1>2. /\ queue' = Append(queue, w) /\ ble' = [ble EXCEPT !.control_generation = ctl]
  BY DEF wallet_ble_open_pairing_window
<1> HIDE DEF ctl
<1>3. w \in WorkType /\ w.type = "OPEN" /\ w.ctl = ctl /\ w.gen = 0
  <2>1. x \in WorkType /\ x.type = "OPEN" /\ x.gen = 0
    BY WorkIs
  <2> HIDE DEF x
  <2>2. QED
    BY <1>1, <2>1 DEF WorkType
<1> HIDE DEF w
<1>4. /\ ble' \in BleType /\ ble'.control_generation = ctl
  BY <1>0, <1>1, <1>2 DEF BleType
<1>5. SameSession(ble, ble') /\ ConfirmGoesOn
  <2>1. /\ ble'.generation = ble.generation /\ ble'.conn = ble.conn
        /\ ble'.window = ble.window /\ ble'.connected = ble.connected
        /\ ble'.secure = ble.secure /\ ble'.owner = ble.owner
        /\ ble'.recovery = ble.recovery /\ ble'.reset = ble.reset
        /\ ble'.confirm = ble.confirm
    BY <1>0, <1>2 DEF BleType
  <2>2. QED
    BY <1>1, <1>4, <2>1 DEF SameSession, ConfirmGoesOn
<1>6. Grown(queue, queue', w)
  <2> HIDE DEF WorkType
  <2>1. QED
    BY <1>0, <1>2, <1>3, AppendIs
<1>7. QueueGoesOn
  <2> HIDE DEF WorkType
  <2>1. ble.generation \in Nat /\ ctl \in Nat
    BY <1>0, <1>1, TypesAre
  <2>2. QED
    BY <1>0, <1>3, <1>4, <1>6, <2>1 DEF QueueGoesOn
<1>8. RxGoesOn
  BY <1>3, <1>6 DEF RxGoesOn, Grown
<1>9. pc' = [pc EXCEPT !["ui"] = "idle"] /\ "idle" \in UiLabel
  BY <1>0 DEF PowerInv, UiLabel
<1>10. ControlGoesOn
  BY <1>0 DEF ControlGoesOn
<1> HIDE DEF WorkType, BleType
<1>11. QED
  BY <1>0, <1>5, <1>7, <1>8, <1>9, <1>10, UiQuiet

LEMMA UiRequestStep ==
    ASSUME BleInv, UiRequest
    PROVE  BleInv'
<1>0. /\ TypeOK /\ AgeInv /\ KeyInv /\ UiStep /\ UNCHANGED <<nvs, adv, queue, shown>>
      /\ ble \in BleType /\ uwork \in WorkType /\ adv \in BOOLEAN
      /\ pc["ui"] = "request" /\ shown \in ShownType
      /\ control_queue' = Put(control_queue, uwork) /\ uwork' = NoWork
  BY DEF BleInv, UiRequest, TypeOK, ShownType
<1> DEFINE c == schedule_stock_control(ble)
<1>1. SameSession(ble, ble') /\ ConfirmGoesOn
  <2>1. SameSession(ble, c) /\ c.confirm = ble.confirm
    BY <1>0, ScheduleIs
  <2>2. uwork.gen \in Nat
    BY <1>0, TypesAre
  <2>3. ble' = request_termination(c, uwork.conn, uwork.gen)
    BY DEF UiRequest
  <2> HIDE DEF c, BleType
  <2>4. c \in BleType
    BY <2>1 DEF SameSession
  <2>5. SameSession(c, ble') /\ ble'.confirm = c.confirm
        /\ ble'.control_generation = c.control_generation
    BY <2>2, <2>3, <2>4, RequestTerminationIs
  <2>6. SameSession(ble, ble')
    BY <2>1, <2>5 DEF SameSession
  <2>7. QED
    BY <2>1, <2>5, <2>6 DEF ConfirmGoesOn
<1>2. ControlGoesOn
  <2>1. QuietWork(uwork)
    BY <1>0 DEF QuietWork, AgeInv, KeyInv
  <2>2. QED
    BY <1>0, <2>1, PutGoesOn
<1>3. uwork' \in WorkType /\ uwork'.gen = 0 /\ uwork'.ctl = 0
  BY <1>0, WorkIs DEF NoWork
<1>4. QueueGoesOn /\ RxGoesOn
  BY <1>0 DEF QueueGoesOn, RxGoesOn
<1>5. PICK label \in {"idle", "unpair"} :
         /\ pc' = [pc EXCEPT !["ui"] = label]
         /\ label = "unpair" => uwork.type = "RESET_OWNER" /\ uwork.conn = NoConn
  BY DEF UiRequest, Goto
<1>6. label \in UiLabel
  BY DEF UiLabel
<1> HIDE DEF WorkType, BleType
<1>7. QED
  BY <1>0, <1>1, <1>2, <1>3, <1>4, <1>5, <1>6, UiQuiet

LEMMA UiConfirmStep ==
    ASSUME BleInv, NEW accept \in BOOLEAN, wallet_ble_confirm_passkey(accept)
    PROVE  BleInv'
<1>0. /\ TypeOK /\ PowerInv /\ UiStep
      /\ UNCHANGED <<nvs, adv, ble, queue, pc, uwork, shown>>
      /\ ble \in BleType /\ uwork \in WorkType /\ adv \in BOOLEAN
      /\ pc["ui"] \in UiLabel /\ shown \in ShownType /\ ~Full(control_queue)
  BY DEF BleInv, wallet_ble_confirm_passkey, TypeOK, ShownType
<1> DEFINE x == Work("CONFIRM")
           w == [x EXCEPT !.gen = ble.generation, !.conn = ble.conn,
                          !.key = ble.passkey, !.ok = accept, !.seen = shown.key]
<1>1. QuietWork(w)
  <2>1. x \in WorkType /\ x.type = "CONFIRM" /\ x.ctl = 0
    BY WorkIs
  <2>2. /\ ble.generation \in Nat /\ ble.conn \in {NoConn, Handle}
        /\ ble.passkey \in Passkeys \cup {0} /\ ble.control_generation \in Nat
    BY <1>0, TypesAre
  <2>3. shown.key \in Passkeys \cup {0}
    BY <1>0 DEF ShownType
  <2> HIDE DEF x
  <2>4. w \in WorkType /\ w.type = "CONFIRM" /\ w.ctl = 0 /\ w.gen = ble.generation
    BY <2>1, <2>2, <2>3 DEF WorkType
  <2> HIDE DEF w, WorkType, BleType
  <2>5. QED
    BY <2>2, <2>4 DEF QuietWork
<1>2. control_queue' = Put(control_queue, w)
  BY <1>0 DEF wallet_ble_confirm_passkey, Put
<1> HIDE DEF w
<1>3. ControlGoesOn
  BY <1>0, <1>1, <1>2, PutGoesOn
<1>4. QueueGoesOn /\ RxGoesOn
  BY <1>0 DEF QueueGoesOn, RxGoesOn
<1>5. SameSession(ble, ble') /\ ConfirmGoesOn
  BY <1>0, SameBle
<1>6. pc' = [pc EXCEPT !["ui"] = pc["ui"]]
  BY <1>0 DEF PowerInv
<1> HIDE DEF WorkType, BleType
<1>7. QED
  BY <1>0, <1>3, <1>4, <1>5, <1>6, UiQuiet

LEMMA UiEndStep ==
    ASSUME BleInv, NEW type \in {"CLOSE", "RESET_OWNER"}, EndWindow(type)
    PROVE  BleInv'
<1>0. /\ TypeOK /\ AgeInv /\ SessionInv /\ KeyInv /\ OwnerInv /\ PowerInv
      /\ UiStep /\ UNCHANGED <<nvs, adv, queue, control_queue, shown>>
      /\ UNCHANGED <<link, work, enc>>
      /\ ble \in BleType /\ adv \in BOOLEAN /\ pc["ui"] = "idle" /\ shown \in ShownType
      /\ queue \in Seq(WorkType) /\ Len(queue) <= QueueLength
      /\ control_queue \in Seq(WorkType) /\ Len(control_queue) <= QueueLength
  BY DEF BleInv, EndWindow, UiStep, TypeOK, ShownType, queues
<1> DEFINE e == EndSession(ble)
           n == ble.control_generation + 1
           r == ble.reset \/ type = "RESET_OWNER"
           x == Work(type)
<1>1. SessionEnded(ble, e) /\ e \in BleType /\ r \in BOOLEAN /\ n \in 0 .. MaxCalls
  <2>1. SessionEnded(ble, e)
    BY <1>0, EndSessionIs
  <2>2. ble.control_generation \in Nat
    BY <1>0, TypesAre
  <2>3. QED
    BY <2>1, <2>2 DEF SessionEnded, EndWindow
<1>2. ble' = [e EXCEPT !.window = FALSE, !.abort = TRUE, !.control_generation = n, !.reset = r]
  <2>1. e.control_generation = ble.control_generation /\ e.reset = ble.reset
    BY <1>1 DEF SessionEnded
  <2>2. QED
    BY <2>1 DEF EndWindow
<1>3. uwork' = [x EXCEPT !.conn = ble.conn, !.gen = ble'.generation,
                         !.ctl = ble'.control_generation]
  BY DEF EndWindow
<1> HIDE DEF e, n, r, x
<1>4. /\ ble' \in BleType /\ ~ble'.window /\ ble'.control_generation = n /\ ble'.reset = r
      /\ ble'.generation = e.generation /\ ble'.conn = e.conn
      /\ ble'.connected = e.connected /\ ble'.secure = e.secure
      /\ ble'.owner = e.owner /\ ble'.recovery = e.recovery /\ ble'.confirm = e.confirm
  BY <1>1, <1>2 DEF BleType
<1>5. /\ ble.generation \in Nat /\ ble.control_generation \in Nat
      /\ ble.conn \in {NoConn, Handle} /\ ble.confirm.gen \in Nat
      /\ work.gen \in Nat /\ uwork.gen \in Nat /\ uwork.ctl \in Nat
      /\ \A i \in DOMAIN control_queue :
            control_queue[i].gen \in Nat /\ control_queue[i].ctl \in Nat
      /\ \A i \in DOMAIN queue : queue[i].ctl \in Nat
  <2> HIDE DEF WorkType, BleType
  <2>1. QED
    BY <1>0, TypesAre
<1>6. /\ ble'.generation = ble.generation + 1 /\ ~ble'.connected /\ ~ble'.secure
      /\ ble'.control_generation = ble.control_generation + 1
      /\ ble'.conn = ble.conn /\ ble'.owner = ble.owner /\ ble'.recovery = ble.recovery
      /\ ble'.confirm = ble.confirm /\ ble'.reset = r
      /\ (r <=> ble.reset \/ type = "RESET_OWNER")
  BY <1>1, <1>4 DEF SessionEnded, n, r
<1>7. /\ uwork' \in WorkType /\ uwork'.type = type /\ uwork'.conn = ble.conn
      /\ uwork'.gen = ble'.generation /\ uwork'.ctl = ble'.control_generation
  <2>1. x \in WorkType /\ x.type = type
    BY WorkIs DEF x
  <2>2. ble'.generation \in Nat /\ ble'.control_generation \in 0 .. MaxCalls
    BY <1>1, <1>4, <1>5, <1>6
  <2>3. QED
    BY <1>3, <1>5, <2>1, <2>2 DEF WorkType
<1>8. pc' = [pc EXCEPT !["ui"] = "request"] /\ "request" \in UiLabel
  BY DEF EndWindow, Goto, UiLabel
<1>9. RxGoesOn
  BY <1>0 DEF RxGoesOn
<1>10. /\ TypeOK' /\ PowerInv' /\ CallInv' /\ UploadAgrees'
       /\ pc'["ui"] = "request" /\ pc'["worker"] = pc["worker"]
  <2> HIDE DEF WorkType, BleType
  <2>1. QED
    BY <1>0, <1>4, <1>7, <1>8, <1>9, UiKept
<1>11. AgeInv'
  <2>1. /\ ble'.generation >= ble.generation /\ ble'.generation # ble.generation
        /\ ble'.control_generation >= ble.control_generation
        /\ ble'.control_generation > ble.control_generation
        /\ uwork'.gen <= ble'.generation /\ uwork'.ctl <= ble'.control_generation
    BY <1>5, <1>6, <1>7
  <2>2. work'.gen <= ble'.generation /\ ble'.confirm.gen <= ble'.generation
    BY <1>0, <1>5, <1>6 DEF AgeInv
  <2>3. QED
    BY <1>0, <1>10, <2>1, <2>2, AgeKept
<1>12. SessionInv'
  BY <1>0, <1>4, <1>5, <1>6 DEF SessionInv
<1>13. KeyInv'
  <2>1. /\ \A i \in DOMAIN control_queue : control_queue[i].gen # ble'.generation
        /\ \A i \in DOMAIN control_queue : control_queue[i].ctl # ble'.control_generation
        /\ ble'.confirm.gen # ble'.generation
    BY <1>0, <1>5, <1>6 DEF AgeInv
  <2>2. Ended' <=> Ended
    BY <1>0 DEF Ended
  <2>3. \A t \in {"worker", "ui"} : Finishing(t)' => Finishing(t)
    BY <1>10 DEF Finishing
  <2>4. link.sec = "keyed" => uwork'.conn # NoConn
    BY <1>0, <1>7 DEF KeyInv, NoConn, Handle
  <2>5. QED
    BY <1>0, <1>6, <1>7, <1>10, <2>1, <2>2, <2>3, <2>4 DEF KeyInv
<1>14. OwnerInv'
  <2>1. Resetting' => Resetting \/ ble'.reset
    BY <1>6, <1>7, <1>10 DEF Resetting, Finishing
  <2>2. QED
    BY <1>0, <1>4, <1>6, <1>10, <2>1 DEF OwnerInv, Checking
<1>15. SecureIsOwner'
  BY <1>6 DEF SecureIsOwner
<1>16. QED
  BY <1>10, <1>11, <1>12, <1>13, <1>14, <1>15 DEF BleInv

LEMMA UiTaskStep ==
    ASSUME BleInv, UiTask
    PROVE  BleInv'
BY UiRenderStep, UiOpenStep, UiEndStep, UiRequestStep, UiConfirmStep
   DEF UiTask, wallet_ble_close_pairing_window, wallet_ble_reset_owner

-----------------------------------------------------------------------------
(* finish_owner_reset *)

\* What a step of it keeps, whatever it does to the owner.
FinishGoesOn(t, label, next) ==
    /\ TypeOK' /\ PowerInv' /\ CallInv' /\ UploadAgrees'
    /\ ~(Checking /\ t = "worker") /\ (Checking' => Checking)
    /\ \A s \in {"worker", "ui"} : pc'[s] = IF s = t THEN next ELSE pc[s]
    /\ pc[t] = label /\ Finishing(t) /\ ~ble.window /\ ~ble.secure /\ link.sec # "keyed"
    /\ ble.owner # None => ble.reset \/ ble.recovery

\* What a step of erase_and_reset is known to write.
FinishWrites(t, label, next) ==
    /\ FinishStep(t, label) /\ t \in {"worker", "ui"}
    /\ label \in {"unpair", "erase", "erased", "failed"}
    /\ {nvs', bond'} \subseteq Peers \cup {None} /\ approved' \subseteq Peers
    /\ adv' \in BOOLEAN /\ link' \in LinkType /\ ble' \in BleType
    /\ next \in {"erase", "erased", "failed", "idle"} /\ pc' = [pc EXCEPT ![t] = next]

LEMMA FinishKept ==
    ASSUME BleInv, NEW t, NEW label, NEW next, FinishWrites(t, label, next)
    PROVE  FinishGoesOn(t, label, next)
<1>0. /\ TypeOK /\ PowerInv /\ SessionInv /\ KeyInv /\ OwnerInv
      /\ FinishStep(t, label) /\ t \in {"worker", "ui"}
      /\ label \in {"unpair", "erase", "erased", "failed"}
      /\ {nvs', bond'} \subseteq Peers \cup {None} /\ approved' \subseteq Peers
      /\ adv' \in BOOLEAN /\ link' \in LinkType /\ ble' \in BleType
      /\ next \in {"erase", "erased", "failed", "idle"} /\ pc' = [pc EXCEPT ![t] = next]
  BY DEF BleInv, FinishWrites
<1>1. /\ pc' \in [{"worker", "ui"} -> WorkerLabel \cup UiLabel]
      /\ \A s \in {"worker", "ui"} : pc'[s] = IF s = t THEN next ELSE pc[s]
  BY <1>0 DEF PowerInv, WorkerLabel
<1>2. pc[t] = label /\ Finishing(t)
  BY <1>0 DEF FinishStep, Finishing
<1>3. next \in UiLabel /\ next \in WorkerLabel
  BY <1>0 DEF UiLabel, WorkerLabel
<1>4. TypeOK'
  <2> HIDE DEF BleType, WorkType
  <2>1. QED
    BY <1>0, <1>1, <1>3 DEF TypeOK, FinishStep, LinkType, queues
<1>5. PowerInv'
  BY <1>0, <1>1 DEF PowerInv, FinishStep
<1>6. DataGoesOn
  BY <1>0, <1>1, <1>2 DEF DataGoesOn, FinishStep, RxGoesOn, AtStore, Finishing, queues
<1>7. /\ ~(Checking /\ t = "worker") /\ (Checking' => Checking)
  BY <1>0, <1>1, <1>2 DEF Checking
<1>8. Resetting
  BY <1>0, <1>2 DEF Resetting
<1>9. ~ble.window /\ ~ble.secure /\ link.sec # "keyed"
  BY <1>0, <1>2 DEF SessionInv, KeyInv, Finishing
<1>10. ble.owner # None => ble.reset \/ ble.recovery
  BY <1>0, <1>8 DEF OwnerInv
<1>11. CallInv' /\ UploadAgrees'
  BY <1>6, DataKept
<1>12. QED
  BY <1>1, <1>2, <1>4, <1>5, <1>7, <1>9, <1>10, <1>11 DEF FinishGoesOn

\* A step that leaves s_ble alone: a bond or the record is erased.
LEMMA FinishErases ==
    ASSUME BleInv, NEW t \in {"worker", "ui"}, NEW label, FinishStep(t, label),
           label \in {"unpair", "erase"}, UNCHANGED <<ble, adv, approved>>,
           {nvs', bond'} \subseteq Peers \cup {None},
           link' = link \/ (link # NoLink /\ link' = [link EXCEPT !.dying = TRUE]),
           NEW next \in {"erase", "erased", "failed"}, pc' = [pc EXCEPT ![t] = next]
    PROVE  BleInv'
<1>0. /\ TypeOK /\ AgeInv /\ SessionInv /\ KeyInv /\ OwnerInv
      /\ ble \in BleType /\ link \in LinkType /\ adv \in BOOLEAN /\ approved \subseteq Peers
  BY DEF BleInv, TypeOK, LinkType
<1>1. /\ link' \in LinkType /\ link'.peer = link.peer /\ link'.sec = link.sec
      /\ link' = NoLink <=> link = NoLink
  <2>1. link # NoLink => link.peer # None
    BY <1>0 DEF SessionInv
  <2>2. CASE link' = link
    BY <1>0, <2>2
  <2>3. CASE link # NoLink /\ link' = [link EXCEPT !.dying = TRUE]
    BY <1>0, <2>1, <2>3 DEF LinkType, NoLink
  <2>4. QED
    BY <2>2, <2>3
<1>2. /\ TypeOK' /\ PowerInv' /\ CallInv' /\ UploadAgrees'
      /\ ~(Checking /\ t = "worker") /\ (Checking' => Checking)
      /\ \A s \in {"worker", "ui"} : pc'[s] = IF s = t THEN next ELSE pc[s]
      /\ pc[t] = label /\ Finishing(t) /\ ~ble.window /\ ~ble.secure /\ link.sec # "keyed"
      /\ ble.owner # None => ble.reset \/ ble.recovery
  <2> HIDE DEF BleType
  <2>1. /\ label \in {"unpair", "erase", "erased", "failed"}
        /\ next \in {"erase", "erased", "failed", "idle"}
        /\ approved' \subseteq Peers /\ adv' \in BOOLEAN /\ ble' \in BleType
        /\ link' \in LinkType
    BY <1>0, <1>1
  <2> HIDE DEF LinkType
  <2>2. FinishWrites(t, label, next)
    BY <1>0, <2>1 DEF FinishWrites
  <2> HIDE DEF WorkType
  <2>3. FinishGoesOn(t, label, next)
    BY <2>2, FinishKept
  <2>4. QED
    BY <2>3 DEF FinishGoesOn
<1>3. UNCHANGED <<queue, control_queue, work, enc, uwork>>
  BY DEF FinishStep, queues
<1>4. \A s \in {"worker", "ui"} :
         /\ Finishing(s)' => Finishing(s)
         /\ pc'[s] # "idle" => pc[s] # "idle"
         /\ pc'[s] = "request" => pc[s] = "request"
  BY <1>2 DEF Finishing
<1>5. AgeInv'
  BY <1>0, <1>3, <1>4 DEF AgeInv
<1>6. SessionInv'
  BY <1>0, <1>1, <1>4 DEF SessionInv
<1>7. KeyInv'
  BY <1>0, <1>1, <1>3, <1>4 DEF KeyInv, Ended
<1>8. OwnerInv'
  <2>1. Resetting' => Resetting
    BY <1>3, <1>4 DEF Resetting
  <2>2. Checking => pc'["worker"] = pc["worker"]
    BY <1>2
  <2>3. Checking' => pc'["worker"] = pc["worker"] /\ Checking
    BY <1>2, <2>2
  <2>4. QED
    BY <1>0, <1>1, <1>2, <1>3, <2>1, <2>3 DEF OwnerInv, Checking
<1>9. SecureIsOwner'
  BY <1>2 DEF SecureIsOwner
<1>10. QED
  BY <1>2, <1>5, <1>6, <1>7, <1>8, <1>9 DEF BleInv

LEMMA ResetUnpairStep ==
    ASSUME BleInv, NEW t \in {"worker", "ui"}, ResetUnpair(t)
    PROVE  BleInv'
<1>1. /\ FinishStep(t, "unpair") /\ UNCHANGED <<nvs, adv, ble, approved>>
      /\ link' = link \/ (link # NoLink /\ link' = [link EXCEPT !.dying = TRUE])
      /\ bond' \in {bond, None}
  BY DEF ResetUnpair
<1>2. \E next \in {"erase", "failed"} : pc' = [pc EXCEPT ![t] = next]
  BY DEF ResetUnpair, Goto
<1>3. {nvs', bond'} \subseteq Peers \cup {None}
  BY <1>1 DEF BleInv, TypeOK
<1>4. QED
  BY <1>1, <1>2, <1>3, FinishErases

LEMMA ResetEraseStep ==
    ASSUME BleInv, NEW t \in {"worker", "ui"}, ResetErase(t)
    PROVE  BleInv'
<1>1. /\ FinishStep(t, "erase") /\ UNCHANGED <<bond, adv, link, ble, approved>>
      /\ nvs' \in {nvs, None}
  BY DEF ResetErase
<1>2. \E next \in {"erased", "failed"} : pc' = [pc EXCEPT ![t] = next]
  BY DEF ResetErase, Goto
<1>3. {nvs', bond'} \subseteq Peers \cup {None}
  BY <1>1 DEF BleInv, TypeOK
<1>4. QED
  BY <1>1, <1>2, <1>3, FinishErases

\* finish_owner_reset is over: without an owner, or in recovery, or still pending.
LEMMA ResetOver ==
    ASSUME BleInv, NEW t \in {"worker", "ui"}, NEW label \in {"erased", "failed"},
           FinishStep(t, label), UNCHANGED <<nvs, bond, link>>, approved' \subseteq Peers,
           adv' \in BOOLEAN, pc' = [pc EXCEPT ![t] = "idle"],
           ble' \in BleType,
           ble'.generation = ble.generation,
           ble'.control_generation = ble.control_generation,
           ble'.conn = ble.conn, ble'.window = ble.window,
           ble'.connected = ble.connected, ble'.secure = ble.secure,
           ble'.confirm = ble.confirm, ble'.reset => ble.reset,
           ble'.owner \in {ble.owner, None},
           ble'.owner # None => ble'.recovery \/ (ble'.reset /\ ble'.recovery = ble.recovery)
    PROVE  BleInv'
<1>0. TypeOK /\ AgeInv /\ SessionInv /\ KeyInv /\ OwnerInv /\ link \in LinkType
  BY DEF BleInv, TypeOK, LinkType
<1>1. /\ TypeOK' /\ PowerInv' /\ CallInv' /\ UploadAgrees'
      /\ ~(Checking /\ t = "worker") /\ (Checking' => Checking)
      /\ \A s \in {"worker", "ui"} : pc'[s] = IF s = t THEN "idle" ELSE pc[s]
      /\ pc[t] = label /\ Finishing(t) /\ ~ble.window /\ ~ble.secure /\ link.sec # "keyed"
  <2> HIDE DEF BleType
  <2>1. {nvs', bond'} \subseteq Peers \cup {None}
    BY <1>0 DEF TypeOK
  <2>2. label \in {"unpair", "erase", "erased", "failed"}
    OBVIOUS
  <2>3. link' \in LinkType
    BY <1>0
  <2>4. FinishWrites(t, label, "idle")
    BY <2>1, <2>2, <2>3 DEF FinishWrites
  <2>5. FinishGoesOn(t, label, "idle")
    BY <2>4, FinishKept
  <2>6. QED
    BY <2>5 DEF FinishGoesOn
<1>2. UNCHANGED <<queue, control_queue, work, enc, uwork>>
  BY DEF FinishStep, queues
<1>3. \A s \in {"worker", "ui"} :
         /\ Finishing(s)' => Finishing(s)
         /\ pc'[s] # "idle" => pc[s] # "idle"
         /\ pc'[s] = "request" => pc[s] = "request"
  BY <1>1 DEF Finishing
<1>4. AgeInv'
  BY <1>0, <1>2, <1>3 DEF AgeInv
<1>5. SessionInv'
  BY <1>0, <1>3 DEF SessionInv
<1>6. KeyInv'
  BY <1>0, <1>2, <1>3 DEF KeyInv, Ended
<1>7. OwnerInv'
  <2>1. Checking' => pc'["worker"] = pc["worker"] /\ Checking
    BY <1>1
  <2>2. QED
    BY <1>0, <1>1, <1>2, <2>1 DEF OwnerInv, Checking
<1>8. SecureIsOwner'
  BY <1>1 DEF SecureIsOwner
<1>9. QED
  BY <1>1, <1>4, <1>5, <1>6, <1>7, <1>8 DEF BleInv

LEMMA AdvertisingIs ==
    ASSUME NEW b
    PROVE  start_advertising(b) \in BOOLEAN
BY DEF start_advertising

LEMMA ResetDoneStep ==
    ASSUME BleInv, NEW t \in {"worker", "ui"}, ResetDone(t)
    PROVE  BleInv'
<1>0. /\ TypeOK /\ ble \in BleType /\ FinishStep(t, "erased") /\ UNCHANGED <<nvs, bond, link>>
      /\ approved' = {} /\ pc' = [pc EXCEPT ![t] = "idle"]
  BY DEF BleInv, TypeOK, ResetDone, durable, Goto
<1> DEFINE d == [ble EXCEPT !.owner = None, !.recovery = FALSE, !.reset = FALSE]
<1>1. /\ d \in BleType /\ d.generation = ble.generation
      /\ d.control_generation = ble.control_generation
      /\ d.conn = ble.conn /\ d.window = ble.window
      /\ d.connected = ble.connected /\ d.secure = ble.secure
      /\ d.confirm = ble.confirm /\ ~d.reset /\ d.owner = None
  BY <1>0 DEF BleType
<1>2. ble' = schedule_stock_control(d)
  BY DEF ResetDone
<1> HIDE DEF d
<1>3. SameSession(d, ble') /\ ble'.confirm = d.confirm
      /\ ble'.control_generation = d.control_generation
  BY <1>1, <1>2, ScheduleIs
<1>4. /\ ble' \in BleType /\ ble'.generation = ble.generation
      /\ ble'.control_generation = ble.control_generation
      /\ ble'.conn = ble.conn /\ ble'.connected = ble.connected /\ ble'.secure = ble.secure
      /\ ble'.confirm = ble.confirm /\ ~ble'.reset /\ ble'.owner = None
      /\ (ble'.window => ble.window)
  BY <1>1, <1>3 DEF SameSession
<1>5. ~ble.window /\ ble.window \in BOOLEAN /\ ble'.window \in BOOLEAN
  <2>1. SessionInv /\ KeyInv /\ OwnerInv
    BY DEF BleInv
  <2>2. Finishing(t)
    BY <1>0 DEF Finishing, FinishStep
  <2>3. ~ble.window
    BY <2>1, <2>2 DEF SessionInv, Finishing
  <2>4. QED
    BY <1>0, <1>4, <2>3 DEF BleType
<1>6. adv' \in BOOLEAN
  BY AdvertisingIs DEF ResetDone
<1> HIDE DEF BleType
<1>7. QED
  BY <1>0, <1>4, <1>5, <1>6, ResetOver

LEMMA ResetFailedStep ==
    ASSUME BleInv, NEW t \in {"worker", "ui"}, ResetFailed(t)
    PROVE  BleInv'
<1>0. /\ TypeOK /\ ble \in BleType /\ FinishStep(t, "failed") /\ UNCHANGED <<nvs, bond, link>>
      /\ approved' = approved /\ approved \subseteq Peers /\ pc' = [pc EXCEPT ![t] = "idle"]
  BY DEF BleInv, TypeOK, ResetFailed, durable, Goto
<1> DEFINE d == IF StockMode THEN [ble EXCEPT !.recovery = TRUE, !.reset = FALSE] ELSE ble
<1>1. ~ble.window /\ (ble.owner # None => ble.reset \/ ble.recovery)
  <2>1. SessionInv /\ OwnerInv
    BY DEF BleInv
  <2>2. Finishing(t) /\ Resetting
    BY <1>0 DEF Finishing, FinishStep, Resetting
  <2>3. QED
    BY <2>1, <2>2 DEF SessionInv, OwnerInv, Finishing
<1>2. /\ d \in BleType /\ d.generation = ble.generation
      /\ d.control_generation = ble.control_generation
      /\ d.conn = ble.conn /\ d.window = ble.window
      /\ d.connected = ble.connected /\ d.secure = ble.secure
      /\ d.confirm = ble.confirm /\ d.owner = ble.owner /\ (d.reset => ble.reset)
      /\ d.recovery \/ (d.reset = ble.reset /\ d.recovery = ble.recovery)
  <2>1. CASE StockMode
    BY <1>0, <2>1 DEF BleType
  <2>2. CASE ~StockMode
    BY <1>0, <2>2
  <2>3. QED
    BY <2>1, <2>2
<1>3. ble' = schedule_stock_control(d)
  BY DEF ResetFailed
<1> HIDE DEF d
<1>4. SameSession(d, ble') /\ ble'.confirm = d.confirm
      /\ ble'.control_generation = d.control_generation
  BY <1>2, <1>3, ScheduleIs
<1>5. /\ ble' \in BleType /\ ble'.generation = ble.generation
      /\ ble'.control_generation = ble.control_generation
      /\ ble'.conn = ble.conn /\ ble'.connected = ble.connected /\ ble'.secure = ble.secure
      /\ ble'.confirm = ble.confirm /\ (ble'.reset => ble.reset) /\ ble'.owner = ble.owner
      /\ (ble'.window => ble.window)
      /\ ble'.recovery \/ (ble'.reset = ble.reset /\ ble'.recovery = ble.recovery)
  BY <1>2, <1>4 DEF SameSession
<1>6. ble.window \in BOOLEAN /\ ble'.window \in BOOLEAN
      /\ ble.reset \in BOOLEAN /\ ble.recovery \in BOOLEAN
  BY <1>0, <1>5 DEF BleType
<1>7. adv' \in BOOLEAN
  BY <1>0, AdvertisingIs DEF ResetFailed, TypeOK
<1>8. ble'.owner # None => ble'.recovery \/ (ble'.reset /\ ble'.recovery = ble.recovery)
  BY <1>1, <1>5, <1>6
<1> HIDE DEF BleType
<1>9. QED
  BY <1>0, <1>1, <1>5, <1>6, <1>7, <1>8, ResetOver

LEMMA FinishTaskStep ==
    ASSUME BleInv, NEW t \in {"worker", "ui"}, Finish(t)
    PROVE  BleInv'
BY ResetUnpairStep, ResetEraseStep, ResetDoneStep, ResetFailedStep DEF Finish

-----------------------------------------------------------------------------
(* The worker *)

EncType == [peer : Peers \cup {None}, ok : BOOLEAN, match : BOOLEAN]
UploadType == [on : BOOLEAN, expected : 0 .. MaxLength, written : 0 .. MaxLength]

\* What a step of the worker keeps, whatever becomes of the session and the
\* transfer.
LEMMA WorkerKept ==
    ASSUME BleInv, WorkerFrame, nvs' \in Peers \cup {None}, bond' = bond, adv' \in BOOLEAN,
           ble' \in BleType,
           queue' \in Seq(WorkType), Len(queue') <= QueueLength,
           control_queue' \in Seq(WorkType), Len(control_queue') <= QueueLength,
           transfer' \in Transfer, upload' \in UploadType, enc' \in EncType,
           work' \in WorkType,
           NEW label \in WorkerLabel, pc' = [pc EXCEPT !["worker"] = label]
    PROVE  TypeOK' /\ PowerInv' /\ pc'["worker"] = label /\ pc'["ui"] = pc["ui"]
<1>0. TypeOK /\ PowerInv
  BY DEF BleInv
<1>1. /\ pc'["worker"] = label /\ pc'["ui"] = pc["ui"]
      /\ pc' \in [{"worker", "ui"} -> WorkerLabel \cup UiLabel]
  BY <1>0 DEF PowerInv
<1> HIDE DEF BleType, WorkType
<1>2. TypeOK'
  BY <1>0, <1>1 DEF TypeOK, WorkerFrame, EncType, UploadType
<1>3. PowerInv'
  BY <1>1 DEF PowerInv, WorkerFrame
<1>4. QED
  BY <1>1, <1>2, <1>3

LEMMA WorkerSession ==
    ASSUME BleInv, WorkerFrame, UNCHANGED <<nvs, bond>>, adv' \in BOOLEAN,
           SameSession(ble, ble'), ConfirmGoesOn, ControlGoesOn, QueueGoesOn,
           transfer' \in Transfer, upload' \in UploadType, enc' \in EncType,
           work' \in WorkType, work'.gen <= ble.generation,
           NEW label \in WorkerLabel, pc' = [pc EXCEPT !["worker"] = label],
           label \notin {"save", "own", "authorize"},
           \/ label \notin {"unpair", "erase", "erased", "failed"}
           \/ ble.reset /\ link.sec # "keyed"
    PROVE  /\ TypeOK' /\ PowerInv' /\ SessionParts'
           /\ pc'["worker"] = label /\ pc'["ui"] = pc["ui"]
<1>0. TypeOK /\ AgeInv /\ nvs \in Peers \cup {None}
  BY DEF BleInv, TypeOK
<1>1. TypeOK' /\ PowerInv' /\ pc'["worker"] = label /\ pc'["ui"] = pc["ui"]
  <2> HIDE DEF BleType, WorkType
  <2>1. nvs' \in Peers \cup {None} /\ ble' \in BleType
    BY <1>0 DEF SameSession
  <2>2. QED
    BY <1>0, <2>1, QueueTypes, WorkerKept
<1>2. LinkGoesOn /\ UNCHANGED <<link, uwork>>
  BY DEF LinkGoesOn, WorkerFrame
<1>3. TasksGoOn
  <2>1. ~Checking' /\ (Finishing("ui")' <=> Finishing("ui"))
        /\ (Finishing("worker")' => ble.reset /\ link.sec # "keyed")
    BY <1>1 DEF Checking, Finishing
  <2>2. Resetting' => Resetting \/ ble.reset
    BY <1>1, <1>2, <2>1 DEF Resetting
  <2>3. \A t \in {"worker", "ui"} : Finishing(t)' => Finishing(t) \/ link'.sec # "keyed"
    BY <1>2, <2>1
  <2>4. QED
    BY <1>0, <1>1, <1>2, <2>1, <2>2, <2>3 DEF TasksGoOn, CheckGoesOn, PlacesGoOn
<1>4. QED
  BY <1>1, <1>2, <1>3, QuietKept DEF Quiet, AlmostQuiet, TasksGoOn

LEMMA WorkerQuiet ==
    ASSUME BleInv, WorkerFrame, UNCHANGED <<nvs, bond, transfer, upload, enc, work>>,
           adv' \in BOOLEAN, SameSession(ble, ble'), ConfirmGoesOn,
           ControlGoesOn, QueueGoesOn, RxGoesOn,
           NEW label \in {"idle", "wait", "unpair"}, pc' = [pc EXCEPT !["worker"] = label],
           label = "unpair" => ble.reset /\ link.sec # "keyed",
           ~AtStore
    PROVE  BleInv'
<1>0. /\ TypeOK /\ AgeInv /\ transfer \in Transfer /\ upload \in UploadType
      /\ enc \in EncType /\ work \in WorkType /\ work.gen <= ble.generation
  BY DEF BleInv, TypeOK, UploadType, EncType, AgeInv
<1>1. /\ TypeOK' /\ PowerInv' /\ SessionParts'
      /\ pc'["worker"] = label /\ pc'["ui"] = pc["ui"]
  <2> HIDE DEF WorkType
  <2>1. label \in WorkerLabel
    BY DEF WorkerLabel
  <2>2. QED
    BY <1>0, <2>1, WorkerSession
<1>2. DataGoesOn
  BY <1>1 DEF DataGoesOn, AtStore
<1>3. QED
  BY <1>1, <1>2, DataKept DEF BleInv, SessionParts

\* The worker takes a piece of control work and looks at it.
LEMMA ControlTaken ==
    ASSUME BleInv, NEW type, FromControl(type)
    PROVE  /\ WorkerFrame /\ ~AtStore /\ pc["worker"] = "idle"
           /\ pc = [pc EXCEPT !["worker"] = "idle"]
           /\ ControlGoesOn /\ QueueGoesOn /\ RxGoesOn
           /\ Shrunk(control_queue, control_queue')
           /\ 1 \in DOMAIN control_queue /\ Head(control_queue) = control_queue[1]
           /\ Head(control_queue) \in WorkType /\ Head(control_queue).type = type
           /\ Head(control_queue).gen \in Nat /\ Head(control_queue).gen <= ble.generation
<1>0. TypeOK /\ PowerInv /\ AgeInv
  BY DEF BleInv
<1>1. /\ Shrunk(control_queue, control_queue')
      /\ 1 \in DOMAIN control_queue /\ Head(control_queue) = control_queue[1]
      /\ Head(control_queue) \in WorkType
  <2> HIDE DEF WorkType
  <2>1. QED
    BY <1>0, TailIs DEF TypeOK, FromControl
<1>2. Head(control_queue).gen \in Nat
  BY <1>1 DEF WorkType
<1>3. QED
  BY <1>0, <1>1, <1>2 DEF FromControl, AtStore, PowerInv, ControlGoesOn, QueueGoesOn,
     RxGoesOn, AgeInv

LEMMA DataTaken ==
    ASSUME BleInv, NEW type, FromQueue(type)
    PROVE  /\ WorkerFrame /\ ~AtStore /\ pc["worker"] = "wait"
           /\ QueueGoesOn /\ RxGoesOn
           /\ 1 \in DOMAIN queue /\ Head(queue) = queue[1]
           /\ Head(queue) \in WorkType /\ Head(queue).type = type
           /\ Head(queue).gen \in Nat /\ Head(queue).gen <= ble.generation
<1>0. TypeOK /\ PowerInv /\ AgeInv
  BY DEF BleInv
<1>1. /\ Shrunk(queue, queue')
      /\ 1 \in DOMAIN queue /\ Head(queue) = queue[1]
      /\ Head(queue) \in WorkType
  <2> HIDE DEF WorkType
  <2>1. QED
    BY <1>0, TailIs DEF TypeOK, FromQueue
<1>2. Head(queue).gen \in Nat
  BY <1>1 DEF WorkType
<1>3. RxGoesOn
  BY <1>1 DEF Shrunk, RxGoesOn
<1>4. QED
  BY <1>0, <1>1, <1>2, <1>3 DEF FromQueue, AtStore, QueueGoesOn, AgeInv

LEMMA WaitStep ==
    ASSUME BleInv, WorkerPoll \/ WorkerTimeout
    PROVE  BleInv'
<1>0. TypeOK /\ adv \in BOOLEAN
  BY DEF BleInv, TypeOK
<1>1. /\ WorkerFrame /\ UNCHANGED <<nvs, bond, adv, ble, transfer, queue, control_queue,
                                    upload, work, enc>>
      /\ pc["worker"] \in {"idle", "wait"}
  BY DEF WorkerPoll, WorkerTimeout, durable, queues
<1>2. PICK label \in {"idle", "wait"} : pc' = [pc EXCEPT !["worker"] = label]
  BY DEF WorkerPoll, WorkerTimeout, Goto
<1>3. SameSession(ble, ble') /\ ConfirmGoesOn
  BY <1>0, <1>1, SameBle
<1>4. ControlGoesOn /\ QueueGoesOn /\ RxGoesOn /\ ~AtStore
  BY <1>1 DEF ControlGoesOn, QueueGoesOn, RxGoesOn, AtStore
<1>5. QED
  BY <1>0, <1>1, <1>2, <1>3, <1>4, WorkerQuiet

\* Control work that changes neither the transfer nor the worker's place.
LEMMA ControlQuiet ==
    ASSUME BleInv, NEW type, FromControl(type), LinkFrame, pc' = pc, adv' \in BOOLEAN,
           SameSession(ble, ble'), ConfirmGoesOn
    PROVE  BleInv'
<1>1. pc' = [pc EXCEPT !["worker"] = "idle"] /\ WorkerFrame /\ ~AtStore
      /\ ControlGoesOn /\ QueueGoesOn /\ RxGoesOn
  BY ControlTaken
<1>2. UNCHANGED <<nvs, bond, transfer, upload, enc, work>>
  BY DEF LinkFrame, durable
<1>3. "idle" \in {"idle", "wait", "unpair"}
  OBVIOUS
<1>4. QED
  BY <1>1, <1>2, <1>3, WorkerQuiet

LEMMA SyncSession ==
    ASSUME BleInv, WorkSync
    PROVE  SameSession(ble, ble') /\ ConfirmGoesOn /\ adv' \in BOOLEAN
<1>0. ble \in BleType /\ adv \in BOOLEAN
  BY DEF BleInv, TypeOK
<1>1. PICK ok \in BOOLEAN : /\ ble' = [ble EXCEPT !.synced = ok]
                            /\ adv' = IF ok THEN start_advertising(ble') ELSE adv
  BY DEF WorkSync
<1>2. ble' \in BleType
  BY <1>0, <1>1 DEF BleType
<1>3. SameSession(ble, ble') /\ ConfirmGoesOn
  BY <1>0, <1>1, <1>2 DEF SameSession, ConfirmGoesOn, BleType
<1>4. adv' \in BOOLEAN
  BY <1>0, <1>1, AdvertisingIs
<1>5. QED
  BY <1>3, <1>4

LEMMA WorkSyncStep ==
    ASSUME BleInv, WorkSync
    PROVE  BleInv'
BY SyncSession, ControlQuiet DEF WorkSync

LEMMA CloseSession ==
    ASSUME BleInv, WorkClose
    PROVE  SameSession(ble, ble') /\ ConfirmGoesOn /\ adv' \in BOOLEAN
<1>0. TypeOK /\ ble \in BleType /\ adv \in BOOLEAN /\ FromControl("CLOSE")
  BY DEF BleInv, TypeOK, WorkClose
<1> DEFINE w == Head(control_queue)
           c == close_window(ble)
<1>1. w.gen \in Nat
  BY <1>0, ControlTaken
<1>2. CASE w.ctl # ble.control_generation
  BY <1>0, <1>2, SameBle DEF WorkClose
<1>3. CASE w.ctl = ble.control_generation
  <2>1. ble' = request_termination(c, w.conn, w.gen) /\ adv' = FALSE
    BY <1>3 DEF WorkClose
  <2>2. SameSession(ble, c) /\ c.confirm = ble.confirm
    BY <1>0, CloseWindowIs
  <2> HIDE DEF c, w
  <2>3. c \in BleType
    BY <2>2 DEF SameSession
  <2>4. SameSession(c, ble') /\ ble'.confirm = c.confirm
        /\ ble'.control_generation = c.control_generation
    BY <1>1, <2>1, <2>3, RequestTerminationIs
  <2>5. SameSession(ble, ble') /\ ConfirmGoesOn
    BY <2>2, <2>4 DEF SameSession, ConfirmGoesOn
  <2>6. QED
    BY <2>1, <2>5
<1>4. QED
  BY <1>2, <1>3

LEMMA WorkCloseStep ==
    ASSUME BleInv, WorkClose
    PROVE  BleInv'
BY CloseSession, ControlQuiet DEF WorkClose

LEMMA ConnectSession ==
    ASSUME BleInv, WorkConnect
    PROVE  SameSession(ble, ble') /\ ConfirmGoesOn
<1>0. TypeOK /\ ble \in BleType /\ adv \in BOOLEAN /\ FromControl("CONNECT") /\ AgeInv
  BY DEF BleInv, TypeOK, WorkConnect
<1> DEFINE w == Head(control_queue)
<1>1. /\ w.gen \in Nat /\ 1 \in DOMAIN control_queue /\ w = control_queue[1]
      /\ w.type = "CONNECT" /\ w \in WorkType
  BY <1>0, ControlTaken
<1>2. w.peer \in Peers \cup {None}
  BY <1>1 DEF WorkType
<1>3. w.gen = ble.generation /\ w.conn = ble.conn => ble.connected
  BY <1>0, <1>1 DEF AgeInv
<1>4. \/ ble' = ble
      \/ ble' = request_termination(ble, w.conn, w.gen)
      \/ ble.connected /\ ble' = [ble EXCEPT !.connected = TRUE, !.peer = w.peer]
  BY <1>3 DEF WorkConnect
<1> HIDE DEF w
<1>5. SameSession(ble, ble') /\ ConfirmGoesOn
  <2>1. CASE ble' = ble
    BY <1>0, <2>1, SameBle
  <2>2. CASE ble' = request_termination(ble, w.conn, w.gen)
    BY <1>0, <1>1, <2>2, RequestTerminationIs DEF ConfirmGoesOn
  <2>3. CASE ble.connected /\ ble' = [ble EXCEPT !.connected = TRUE, !.peer = w.peer]
    <3>1. ble' \in BleType
      BY <1>0, <1>2, <2>3 DEF BleType
    <3>2. /\ ble'.generation = ble.generation
          /\ ble'.control_generation = ble.control_generation
          /\ ble'.conn = ble.conn /\ ble'.window = ble.window
          /\ ble'.secure = ble.secure /\ ble'.owner = ble.owner
          /\ ble'.recovery = ble.recovery /\ ble'.reset = ble.reset
          /\ ble'.confirm = ble.confirm /\ ble.control_generation \in Nat
      BY <1>0, <2>3 DEF BleType
    <3>3. ble'.connected = ble.connected
      BY <1>0, <2>3 DEF BleType
    <3>4. SameSession(ble, ble')
      <4> HIDE DEF BleType
      <4>1. QED
        BY <3>1, <3>2, <3>3 DEF SameSession
    <3>5. QED
      BY <3>2, <3>4 DEF ConfirmGoesOn
  <2>4. QED
    BY <1>4, <2>1, <2>2, <2>3
<1>6. QED
  BY <1>5

LEMMA WorkConnectStep ==
    ASSUME BleInv, WorkConnect
    PROVE  BleInv'
<1>1. adv' \in BOOLEAN
  BY DEF WorkConnect, BleInv, TypeOK
<1>2. QED
  BY <1>1, ConnectSession, ControlQuiet DEF WorkConnect

LEMMA PasskeySession ==
    ASSUME BleInv, WorkPasskey
    PROVE  SameSession(ble, ble') /\ ConfirmGoesOn
<1>0. TypeOK /\ ble \in BleType /\ adv \in BOOLEAN /\ FromControl("PASSKEY")
  BY DEF BleInv, TypeOK, WorkPasskey
<1> DEFINE w == Head(control_queue)
<1>1. w.gen \in Nat
  BY <1>0, ControlTaken
<1>2. SameSession(ble, ble') /\ ConfirmGoesOn
  <2>1. CASE ble' = request_termination(ble, w.conn, w.gen)
    BY <1>0, <1>1, <2>1, RequestTerminationIs DEF ConfirmGoesOn
  <2>2. ASSUME NEW key \in Passkeys,
               ble' = [ble EXCEPT !.passkey = key, !.pairing = TRUE, !.released = FALSE]
        PROVE  SameSession(ble, ble') /\ ConfirmGoesOn
    <3>1. ble' \in BleType
      BY <1>0, <2>2 DEF BleType
    <3>2. QED
      BY <1>0, <2>2, <3>1 DEF SameSession, ConfirmGoesOn, BleType
  <2>3. QED
    BY <2>1, <2>2 DEF WorkPasskey
<1>3. QED
  BY <1>2

LEMMA WorkPasskeyStep ==
    ASSUME BleInv, WorkPasskey
    PROVE  BleInv'
<1>1. adv' \in BOOLEAN
  BY DEF WorkPasskey, BleInv, TypeOK
<1>2. QED
  BY <1>1, PasskeySession, ControlQuiet DEF WorkPasskey

LEMMA ConfirmSession ==
    ASSUME BleInv, WorkConfirm
    PROVE  SameSession(ble, ble') /\ ConfirmGoesOn
<1>0. /\ TypeOK /\ ble \in BleType /\ adv \in BOOLEAN /\ FromControl("CONFIRM") /\ KeyInv
  BY DEF BleInv, TypeOK, WorkConfirm
<1> DEFINE w == Head(control_queue)
           conf == [gen |-> w.gen, key |-> w.key, seen |-> w.seen]
           d == [ble EXCEPT !.released = TRUE, !.confirm = conf]
<1>1. /\ w.gen \in Nat /\ 1 \in DOMAIN control_queue /\ w = control_queue[1]
      /\ w.type = "CONFIRM" /\ w \in WorkType /\ w.gen <= ble.generation
      /\ Shrunk(control_queue, control_queue')
  BY <1>0, ControlTaken
<1>2. SameSession(ble, ble') /\ ConfirmGoesOn
  <2>1. CASE ble' = request_termination(ble, w.conn, w.gen)
    BY <1>0, <1>1, <2>1, RequestTerminationIs DEF ConfirmGoesOn
  <2>2. CASE ble' = schedule_stock_control(d) /\ ble.generation = w.gen
    <3>1. conf \in [gen : Nat, key : Passkeys \cup {0}, seen : Passkeys \cup {0}]
          /\ conf.gen = w.gen
      BY <1>1 DEF WorkType
    <3> HIDE DEF conf, w
    <3>2. d \in BleType
      BY <1>0, <3>1 DEF BleType
    <3>3. SameSession(ble, d) /\ d.confirm = conf
      BY <1>0, <3>2 DEF SameSession, BleType
    <3> HIDE DEF d
    <3>4. SameSession(d, ble') /\ ble'.confirm = d.confirm
          /\ ble'.control_generation = d.control_generation
      BY <2>2, <3>2, ScheduleIs
    <3>5. ble.conn = Handle => ~Ended'
      <4> SUFFICES ASSUME ble.conn = Handle, NEW i \in DOMAIN control_queue',
                          control_queue'[i].type = "DISCONNECT"
                   PROVE  FALSE
        BY DEF Ended
      <4>1. i \in Nat /\ i + 1 \in DOMAIN control_queue /\ control_queue'[i] = control_queue[i + 1]
        BY <1>1 DEF Shrunk
      <4>2. i > 0
        <5> HIDE DEF WorkType
        <5>1. control_queue' \in Seq(WorkType)
          BY <1>1 DEF Shrunk
        <5>2. QED
          BY <5>1, ElementIs
      <4>3. QED
        BY <1>0, <1>1, <2>2, <4>1, <4>2 DEF KeyInv
    <3>6. SameSession(ble, ble')
      BY <3>3, <3>4 DEF SameSession
    <3>7. ConfirmGoesOn
      BY <1>1, <3>1, <3>3, <3>4, <3>5 DEF ConfirmGoesOn
    <3>8. QED
      BY <3>6, <3>7
  <2>3. QED
    BY <2>1, <2>2 DEF WorkConfirm
<1>3. QED
  BY <1>2

LEMMA WorkConfirmStep ==
    ASSUME BleInv, WorkConfirm
    PROVE  BleInv'
<1>1. adv' \in BOOLEAN
  BY DEF WorkConfirm, BleInv, TypeOK
<1>2. QED
  BY <1>1, ConfirmSession, ControlQuiet DEF WorkConfirm

LEMMA WorkAdvCompleteStep ==
    ASSUME BleInv, WorkAdvComplete
    PROVE  BleInv'
<1>0. /\ TypeOK /\ adv' \in BOOLEAN /\ pc' = [pc EXCEPT !["worker"] = "idle"]
      /\ UNCHANGED <<nvs, bond, transfer, upload, enc, work, ble>>
  BY AdvertisingIs DEF BleInv, WorkAdvComplete, Goto, LinkFrame, durable
<1>1. SameSession(ble, ble') /\ ConfirmGoesOn
  BY <1>0, SameBle
<1>2. /\ WorkerFrame /\ ~AtStore /\ ControlGoesOn /\ QueueGoesOn /\ RxGoesOn
  <2>1. CASE FromControl("ADV_COMPLETE")
    BY <2>1, ControlTaken
  <2>2. CASE FromQueue("ADV_COMPLETE") /\ UNCHANGED control_queue
    BY <2>2, DataTaken DEF ControlGoesOn
  <2>3. QED
    BY <2>1, <2>2 DEF WorkAdvComplete
<1>3. "idle" \in {"idle", "wait", "unpair"}
  OBVIOUS
<1>4. QED
  BY <1>0, <1>1, <1>2, <1>3, WorkerQuiet

LEMMA ResetOwnerSession ==
    ASSUME BleInv, WorkResetOwner
    PROVE  SameSession(ble, ble') /\ ConfirmGoesOn /\ adv' \in BOOLEAN
<1>0. TypeOK /\ ble \in BleType /\ adv \in BOOLEAN /\ FromControl("RESET_OWNER")
  BY DEF BleInv, TypeOK, WorkResetOwner
<1> DEFINE w == Head(control_queue)
           c == close_window(ble)
<1>1. w.gen \in Nat
  BY <1>0, ControlTaken
<1>2. CASE ~ble.reset \/ w.ctl # ble.control_generation
  BY <1>0, <1>2, SameBle DEF WorkResetOwner
<1>3. CASE ble.reset /\ w.ctl = ble.control_generation
  <2>1. ble' = request_termination(c, w.conn, w.gen) /\ adv' = FALSE
    BY <1>3 DEF WorkResetOwner
  <2>2. SameSession(ble, c) /\ c.confirm = ble.confirm
    BY <1>0, CloseWindowIs
  <2> HIDE DEF c, w
  <2>3. c \in BleType
    BY <2>2 DEF SameSession
  <2>4. SameSession(c, ble') /\ ble'.confirm = c.confirm
        /\ ble'.control_generation = c.control_generation
    BY <1>1, <2>1, <2>3, RequestTerminationIs
  <2>5. SameSession(ble, ble') /\ ConfirmGoesOn
    BY <2>2, <2>4 DEF SameSession, ConfirmGoesOn
  <2>6. QED
    BY <2>1, <2>5
<1>4. QED
  BY <1>2, <1>3

LEMMA WorkResetOwnerStep ==
    ASSUME BleInv, WorkResetOwner
    PROVE  BleInv'
<1>0. /\ TypeOK /\ FromControl("RESET_OWNER") /\ KeyInv
      /\ UNCHANGED <<nvs, bond, transfer, upload, enc, work>>
  BY DEF BleInv, WorkResetOwner, LinkFrame, durable
<1> DEFINE w == Head(control_queue)
<1>1. /\ w.gen \in Nat /\ 1 \in DOMAIN control_queue /\ w = control_queue[1]
      /\ w.type = "RESET_OWNER" /\ WorkerFrame /\ ~AtStore
      /\ pc = [pc EXCEPT !["worker"] = "idle"]
      /\ ControlGoesOn /\ QueueGoesOn /\ RxGoesOn
  BY <1>0, ControlTaken
<1>2. PICK label \in {"idle", "unpair"} :
         /\ pc' = [pc EXCEPT !["worker"] = label]
         /\ label = "unpair" => /\ w.conn = NoConn /\ ble.reset
                                /\ w.ctl = ble.control_generation
  BY <1>1 DEF WorkResetOwner, Goto
<1>3. label = "unpair" => ble.reset /\ link.sec # "keyed"
  BY <1>0, <1>1, <1>2 DEF KeyInv, NoConn, Handle
<1>4. label \in {"idle", "wait", "unpair"}
  BY <1>2
<1>5. SameSession(ble, ble') /\ ConfirmGoesOn /\ adv' \in BOOLEAN
  BY ResetOwnerSession
<1> HIDE DEF w
<1>6. QED
  BY <1>0, <1>1, <1>2, <1>3, <1>4, <1>5, WorkerQuiet

\* Work between two store calls that goes on with the transfer or stops it.
LEMMA TransferStopped ==
    ASSUME BleInv, RxGoesOn, ~AtStore, ~AtStore', TransferInv(transfer'),
           UNCHANGED <<transfer, upload>> \/ ~Unfinished(transfer')
    PROVE  CallInv' /\ UploadAgrees'
<1>0. CallInv /\ UploadAgrees
  BY DEF BleInv
<1>1. CallInv'
  BY <1>0 DEF CallInv, RxGoesOn
<1>2. UploadAgrees'
  BY <1>0 DEF UploadAgrees, AtStore, Unfinished, Retry
<1>3. QED
  BY <1>1, <1>2

LEMMA NoUploadIs == NoUpload \in UploadType
<1>1. 0 \in 0 .. MaxLength
  OBVIOUS
<1>2. QED
  BY <1>1 DEF NoUpload, UploadType

LEMMA WorkerStops ==
    ASSUME BleInv, WorkerFrame, UNCHANGED <<nvs, bond, enc, work>>, adv' \in BOOLEAN,
           SameSession(ble, ble'), ConfirmGoesOn, ControlGoesOn, QueueGoesOn, RxGoesOn,
           TransferInv(transfer'), upload' \in {upload, NoUpload},
           UNCHANGED <<transfer, upload>> \/ ~Unfinished(transfer'),
           NEW label \in {"idle", "wait", "unpair"}, pc' = [pc EXCEPT !["worker"] = label],
           label = "unpair" => ble.reset /\ link.sec # "keyed",
           ~AtStore
    PROVE  BleInv'
<1>0. /\ TypeOK /\ AgeInv /\ transfer' \in Transfer /\ upload' \in UploadType
      /\ enc \in EncType /\ work \in WorkType /\ work.gen <= ble.generation
  BY NoUploadIs DEF BleInv, TypeOK, UploadType, EncType, AgeInv, TransferInv
<1>1. /\ TypeOK' /\ PowerInv' /\ SessionParts'
      /\ pc'["worker"] = label /\ pc'["ui"] = pc["ui"]
  <2> HIDE DEF WorkType
  <2>1. label \in WorkerLabel
    BY DEF WorkerLabel
  <2>2. QED
    BY <1>0, <2>1, WorkerSession
<1>2. ~AtStore'
  BY <1>1 DEF AtStore
<1>3. QED
  BY <1>1, <1>2, TransferStopped DEF BleInv, SessionParts

LEMMA WorkHostResetStep ==
    ASSUME BleInv, WorkHostReset
    PROVE  BleInv'
<1>0. /\ TypeOK /\ TransferInv(transfer) /\ adv' \in BOOLEAN /\ FromControl("HOST_RESET")
      /\ UNCHANGED <<nvs, bond, ble, enc, work>>
      /\ upload' \in {upload, NoUpload} /\ pc' = pc
      /\ transfer' = wallet_transfer_disconnect(transfer).transfer
  BY DEF BleInv, WorkHostReset, CallInv, TypeOK, durable
<1>1. /\ WorkerFrame /\ ~AtStore /\ pc = [pc EXCEPT !["worker"] = "idle"]
      /\ ControlGoesOn /\ QueueGoesOn /\ RxGoesOn
  BY <1>0, ControlTaken
<1>2. TransferInv(transfer') /\ ~Unfinished(transfer')
  BY <1>0, DisconnectKept
<1>3. SameSession(ble, ble') /\ ConfirmGoesOn
  BY <1>0, SameBle
<1>4. "idle" \in {"idle", "wait", "unpair"}
  OBVIOUS
<1>5. QED
  BY <1>0, <1>1, <1>2, <1>3, <1>4, WorkerStops

LEMMA WorkDisconnectStep ==
    ASSUME BleInv, WorkDisconnect
    PROVE  BleInv'
<1>0. /\ TypeOK /\ KeyInv /\ TransferInv(transfer) /\ FromControl("DISCONNECT")
      /\ UNCHANGED <<nvs, bond, ble, enc, work>> /\ adv \in BOOLEAN
  BY DEF BleInv, WorkDisconnect, CallInv, TypeOK, durable
<1>1. /\ WorkerFrame /\ ~AtStore /\ pc = [pc EXCEPT !["worker"] = "idle"]
      /\ ControlGoesOn /\ QueueGoesOn /\ RxGoesOn
      /\ 1 \in DOMAIN control_queue /\ control_queue[1].type = "DISCONNECT"
  BY <1>0, ControlTaken
<1>2. /\ \/ UNCHANGED <<transfer, upload>>
         \/ /\ transfer' = wallet_transfer_disconnect(transfer).transfer
            /\ upload' = NoUpload
  BY DEF WorkDisconnect
<1>3. TransferInv(transfer') /\ upload' \in {upload, NoUpload}
      /\ (UNCHANGED <<transfer, upload>> \/ ~Unfinished(transfer'))
  BY <1>0, <1>2, DisconnectKept
<1>4. SameSession(ble, ble') /\ ConfirmGoesOn
  BY <1>0, SameBle
<1>5. PICK label \in {"idle", "unpair"} :
         /\ pc' = [pc EXCEPT !["worker"] = label]
         /\ label = "unpair" => ble.reset
  BY <1>1 DEF WorkDisconnect, Goto
<1>6. link.sec # "keyed"
  BY <1>0, <1>1 DEF KeyInv, Ended
<1>7. adv' \in BOOLEAN
  BY <1>0, AdvertisingIs DEF WorkDisconnect
<1>8. label \in {"idle", "wait", "unpair"} /\ (label = "unpair" => ble.reset /\ link.sec # "keyed")
  BY <1>5, <1>6
<1>9. QED
  BY <1>0, <1>1, <1>3, <1>4, <1>5, <1>7, <1>8, WorkerStops

LEMMA TickSession ==
    ASSUME BleInv, NEW expired \in BOOLEAN, NEW late \in BOOLEAN, WorkTick(expired, late)
    PROVE  SameSession(ble, ble') /\ ConfirmGoesOn
<1> DEFINE b == [ble EXCEPT !.abort = FALSE]
<1>0. ble \in BleType
  BY DEF BleInv, TypeOK
<1>1. b \in BleType
  BY <1>0 DEF BleType
<1>2. SameSession(ble, b) /\ b.confirm = ble.confirm
  BY <1>0, <1>1 DEF SameSession, BleType
<1> HIDE DEF b, BleType
<1>3. SameSession(b, close_window(b)) /\ close_window(b).confirm = b.confirm
      /\ close_window(b).control_generation = b.control_generation
  BY <1>1, CloseWindowIs
<1>4. ble' \in {b, close_window(b)}
  BY DEF WorkTick, b
<1>5. SameSession(ble, ble') /\ ble'.confirm = ble.confirm
  BY <1>2, <1>3, <1>4 DEF SameSession
<1>6. QED
  BY <1>5 DEF ConfirmGoesOn

LEMMA WorkTickStep ==
    ASSUME BleInv, NEW expired \in BOOLEAN, NEW late \in BOOLEAN, WorkTick(expired, late)
    PROVE  BleInv'
<1> DEFINE timed == IF late THEN wallet_transfer_timeout(transfer).transfer ELSE transfer
           b == [ble EXCEPT !.abort = FALSE]
<1>0. /\ TypeOK /\ KeyInv /\ TransferInv(transfer) /\ FromQueue("TICK") /\ ble \in BleType
      /\ UNCHANGED <<nvs, bond, control_queue, enc, work>> /\ adv \in BOOLEAN
  BY DEF BleInv, WorkTick, CallInv, TypeOK, durable
<1>1. WorkerFrame /\ ~AtStore /\ QueueGoesOn /\ RxGoesOn
  BY <1>0, DataTaken
<1>2. /\ transfer' = IF ble.abort THEN wallet_transfer_disconnect(timed).transfer ELSE timed
      /\ ble' = IF expired THEN close_window(b) ELSE b
      /\ upload' = IF late \/ ble.abort THEN NoUpload ELSE upload
      /\ Goto("worker", IF ResetWithoutLink THEN "unpair" ELSE "idle")
  BY DEF WorkTick, TickAborts
<1>3. TransferInv(timed) /\ (late => ~Unfinished(timed))
  BY <1>0, TimeoutKept
<1>4. /\ TransferInv(transfer') /\ upload' \in {upload, NoUpload}
      /\ UNCHANGED <<transfer, upload>> \/ ~Unfinished(transfer')
  <2> DEFINE u == wallet_transfer_disconnect(timed).transfer
  <2>1. TransferInv(u) /\ ~Unfinished(u)
    <3> HIDE DEF timed
    <3>1. QED
      BY <1>3, DisconnectKept
  <2> HIDE DEF u
  <2>2. CASE ble.abort
    BY <1>2, <2>1, <2>2 DEF u
  <2>3. CASE ~ble.abort /\ late
    BY <1>2, <1>3, <2>3
  <2>4. CASE ~ble.abort /\ ~late
    BY <1>0, <1>2, <2>4
  <2>5. QED
    BY <2>2, <2>3, <2>4
<1>5. SameSession(ble, ble') /\ ConfirmGoesOn
  BY TickSession
<1> HIDE DEF timed, b
<1>6. PICK label \in {"idle", "unpair"} :
         /\ pc' = [pc EXCEPT !["worker"] = label]
         /\ label = "unpair" => ble.reset /\ ble.conn = NoConn
  BY <1>2 DEF Goto, ResetWithoutLink
<1>7. label = "unpair" => ble.reset /\ link.sec # "keyed"
  BY <1>0, <1>6 DEF KeyInv, NoConn, Handle
<1>8. adv' \in BOOLEAN
  <2>1. adv' = IF StockMode
                    THEN IF ResetWithoutLink THEN adv ELSE start_advertising(ble')
                  ELSE adv /\ ~expired
    BY DEF WorkTick
  <2>2. QED
    BY <1>0, <2>1, AdvertisingIs
<1>9. ControlGoesOn /\ label \in {"idle", "wait", "unpair"}
  BY <1>0 DEF ControlGoesOn
<1>10. QED
  BY <1>0, <1>1, <1>4, <1>5, <1>6, <1>7, <1>8, <1>9, WorkerStops

-----------------------------------------------------------------------------
(* The worker: the snapshot transfer *)

\* A step that leaves the session alone, at or on its way to a store call.
LEMMA WorkerRunsStore ==
    ASSUME BleInv, WorkerFrame, UNCHANGED <<nvs, bond, adv, enc, control_queue>>,
           SameSession(ble, ble'), ConfirmGoesOn, QueueGoesOn,
           transfer' \in Transfer, upload' \in UploadType,
           work' \in WorkType, work'.gen <= ble.generation,
           NEW label \in {"idle", "store", "guard1", "guard2", "marker"},
           pc' = [pc EXCEPT !["worker"] = label], CallInv', UploadAgrees'
    PROVE  BleInv'
<1>0. adv' \in BOOLEAN /\ enc' \in EncType /\ label \in WorkerLabel
  BY DEF BleInv, TypeOK, EncType, WorkerLabel
<1>1. ControlGoesOn /\ label \notin {"unpair", "erase", "erased", "failed"}
      /\ label \notin {"save", "own", "authorize"}
  BY DEF ControlGoesOn
<1> HIDE DEF WorkType, BleType
<1>2. TypeOK' /\ PowerInv' /\ SessionParts'
  BY <1>0, <1>1, WorkerSession
<1>3. QED
  BY <1>2 DEF BleInv, SessionParts

LEMMA WorkRxStep ==
    ASSUME BleInv, WorkRx
    PROVE  BleInv'
<1> DEFINE w == Head(queue)
           r == wallet_transfer_input(transfer, TRUE, w.msg)
<1>0. /\ TypeOK /\ CallInv /\ UploadAgrees /\ FromQueue("RX") /\ PowerInv
      /\ UNCHANGED <<nvs, bond, adv, enc, control_queue>>
      /\ ble \in BleType /\ work \in WorkType /\ work.gen <= ble.generation
      /\ upload \in UploadType /\ transfer \in Transfer /\ TransferInv(transfer)
  BY DEF BleInv, TypeOK, WorkRx, UploadType, AgeInv, durable, CallInv
<1>1. /\ WorkerFrame /\ ~AtStore /\ QueueGoesOn /\ RxGoesOn
      /\ 1 \in DOMAIN queue /\ w = queue[1] /\ w \in WorkType /\ w.type = "RX"
      /\ w.gen \in Nat /\ w.gen <= ble.generation
  BY <1>0, DataTaken
<1>2. w.msg \in Message
  BY <1>0, <1>1 DEF CallInv
<1>3. CASE ~SessionValid(w)
  <2>1. pc' = [pc EXCEPT !["worker"] = "idle"] /\ UNCHANGED <<transfer, ble, upload, work>>
    BY <1>3 DEF WorkRx, Goto
  <2>2. SameSession(ble, ble') /\ ConfirmGoesOn
    BY <1>0, <2>1, SameBle
  <2>3. adv' \in BOOLEAN /\ ControlGoesOn /\ "idle" \in {"idle", "wait", "unpair"}
    BY <1>0 DEF ControlGoesOn, TypeOK
  <2>4. QED
    BY <1>0, <1>1, <2>1, <2>2, <2>3, WorkerQuiet
<1>4. CASE SessionValid(w)
  <2>1. /\ transfer' = r.transfer
        /\ ble' = [ble EXCEPT !.transfer_generation = IF r.action = "BEGIN" THEN w.gen ELSE @]
        /\ upload' = IF r.action = "ABORT" THEN NoUpload ELSE upload
        /\ Goto("worker", CASE r.action \in {"BEGIN", "DATA"} -> "store"
                            [] r.action = "COMMIT" -> "guard1"
                            [] OTHER -> "idle")
        /\ work' = IF r.action \in {"BEGIN", "DATA", "COMMIT"} THEN w ELSE work
    BY <1>4 DEF WorkRx
  <2>2. Input(transfer, TRUE, w.msg, r)
    BY <1>0, <1>2, InputKept
  <2> HIDE DEF w, r
  <2>3. PICK g \in Nat : ble' = [ble EXCEPT !.transfer_generation = g]
    <3>1. ble.transfer_generation \in Nat
      BY <1>0 DEF BleType
    <3>2. QED
      BY <1>1, <2>1, <3>1
  <2>4. SameSession(ble, ble') /\ ConfirmGoesOn
    <3>1. ble' \in BleType
      BY <1>0, <2>3 DEF BleType
    <3>2. QED
      BY <1>0, <2>3, <3>1 DEF SameSession, ConfirmGoesOn, BleType
  <2>5. PICK label \in {"idle", "store", "guard1"} :
           /\ pc' = [pc EXCEPT !["worker"] = label]
           /\ label = "store" <=> r.action \in {"BEGIN", "DATA"}
           /\ label = "guard1" <=> r.action = "COMMIT"
    BY <2>1 DEF Goto
  <2>6. pc'["worker"] = label
    BY <1>0, <2>5 DEF PowerInv
  <2>7. ~Retry(transfer) /\ (Open(transfer) => upload = [on |-> TRUE,
            expected |-> transfer.expected, written |-> transfer.received])
    BY <1>0, <1>1 DEF UploadAgrees, AtStore
  <2>8. TransferInv(transfer') /\ transfer' \in Transfer
    BY <2>1, <2>2 DEF Input, TransferInv
  <2>9. upload' \in UploadType /\ work' \in WorkType /\ work'.gen <= ble.generation
    <3> HIDE DEF WorkType
    <3>1. QED
      BY <1>0, <1>1, <2>1, NoUploadIs
  <2>10. CASE r.action \in {"BEGIN", "DATA", "COMMIT"}
    <3>1. /\ work' = w /\ upload' = upload /\ label \in {"store", "guard1"}
          /\ transfer'.pending = r.action /\ w.msg.type = r.action
          /\ r.action = "BEGIN" => transfer'.received = 0 /\ transfer'.expected = w.msg.at
          /\ r.action = "DATA" =>
                /\ w.msg.at = transfer'.received /\ w.msg.n = transfer'.plen
                /\ Open(transfer) /\ transfer'.received = transfer.received
                /\ transfer'.expected = transfer.expected
      BY <2>1, <2>2, <2>5, <2>10 DEF Input
    <3>2. AtStore'
      BY <2>6, <3>1 DEF AtStore
    <3>3. CallInv'
      <4>1. \A i \in DOMAIN queue' : queue'[i].type = "RX" => queue'[i].msg \in Message
        BY <1>0, <1>1 DEF CallInv, RxGoesOn
      <4>2. pc'["worker"] = "store" <=> transfer'.pending \in {"BEGIN", "DATA"}
        BY <2>5, <2>6, <3>1
      <4>3. QED
        BY <1>2, <2>7, <2>8, <3>1, <4>1, <4>2 DEF CallInv
    <3>4. UploadAgrees'
      BY <3>2 DEF UploadAgrees, AtStore
    <3>5. label \in {"idle", "store", "guard1", "guard2", "marker"}
      OBVIOUS
    <3> HIDE DEF WorkType
    <3>6. QED
      BY <1>0, <1>1, <2>4, <2>5, <2>8, <2>9, <3>3, <3>4, <3>5, WorkerRunsStore
  <2>11. CASE r.action \in {"NONE", "ABORT"}
    <3>1. label = "idle" /\ ~AtStore'
      BY <2>5, <2>6, <2>11 DEF AtStore
    <3>2. UNCHANGED <<transfer, upload>> \/ ~Unfinished(transfer')
      BY <2>1, <2>2, <2>11, NewTransferKept DEF Input, Unfinished, Open
    <3>3. CallInv' /\ UploadAgrees'
      BY <1>1, <2>8, <3>1, <3>2, TransferStopped
    <3>4. label \in {"idle", "store", "guard1", "guard2", "marker"}
      OBVIOUS
    <3> HIDE DEF WorkType
    <3>5. QED
      BY <1>0, <1>1, <2>4, <2>5, <2>8, <2>9, <3>3, <3>4, WorkerRunsStore
  <2>12. QED
    BY <2>2, <2>10, <2>11 DEF Input
<1>5. QED
  BY <1>3, <1>4

\* The store's answer: the transfer goes on, or it and the upload stop.
LEMMA StoreReturnsStep ==
    ASSUME BleInv, NEW label, StoreStep(label),
           label \in {"store", "guard1", "guard2", "marker"},
           NEW ok \in BOOLEAN, NEW staged \in UploadType, StoreReturns(ok, staged),
           ok /\ transfer.pending = "BEGIN" =>
              staged = [on |-> TRUE, expected |-> transfer.expected, written |-> 0],
           ok /\ transfer.pending = "DATA" =>
              staged = [on |-> TRUE, expected |-> transfer.expected,
                        written |-> transfer.received + transfer.plen]
    PROVE  BleInv'
<1>0. /\ TypeOK /\ CallInv /\ PowerInv /\ UNCHANGED <<nvs, bond, adv, enc, control_queue, queue, ble>>
      /\ WorkerFrame /\ AtStore /\ upload \in UploadType
  BY DEF BleInv, StoreStep, durable, queues, AtStore, TypeOK, UploadType
<1>1. /\ TransferInv(transfer) /\ transfer.pending = work.msg.type
      /\ (transfer.pending = "BEGIN" => transfer.received = 0)
  BY <1>0 DEF CallInv
<1> DEFINE success == ok /\ (SessionValid(work) \/ work.msg.type = "COMMIT")
<1>2. success \in BOOLEAN /\ (success => ok)
  BY DEF SessionValid, wallet_ble_session_matches
<1>3. /\ upload' = IF success THEN staged ELSE NoUpload
      /\ pc' = [pc EXCEPT !["worker"] = "idle"] /\ work' = NoWork
      /\ \E error \in TransferError :
            transfer' = wallet_transfer_complete(transfer, transfer.pending, success, error)
  BY <1>1 DEF StoreReturns, Goto, TransferError
<1> HIDE DEF success
<1>4. transfer.pending # "NONE"
  <2>1. pc["worker"] \in {"store", "guard1", "guard2", "marker"}
    BY <1>0 DEF AtStore
  <2>2. transfer.pending \in {"BEGIN", "DATA"} \/ work.msg.type # "NONE"
    BY <1>0 DEF CallInv, Message
  <2>3. QED
    BY <1>1, <2>2
<1>5. PICK error \in TransferError :
         transfer' = wallet_transfer_complete(transfer, transfer.pending, success, error)
  BY <1>3
<1>6. /\ TransferInv(transfer') /\ transfer'.pending = "NONE"
      /\ (Open(transfer') => success /\ Continues(transfer, transfer'))
  BY <1>1, <1>2, <1>4, <1>5, CompleteKept
<1>7. pc'["worker"] = "idle" /\ pc'["ui"] = pc["ui"]
  BY <1>0, <1>3 DEF PowerInv
<1>8. CallInv'
  BY <1>0, <1>6, <1>7 DEF CallInv, AtStore
<1>9. UploadAgrees'
  <2>1. ~Retry(transfer')
    BY <1>6 DEF Retry, TransferInv
  <2>2. Open(transfer') => upload' = [on |-> TRUE, expected |-> transfer'.expected,
                                     written |-> transfer'.received]
    BY <1>1, <1>2, <1>3, <1>6 DEF Continues
  <2>3. QED
    BY <2>1, <2>2 DEF UploadAgrees
<1>10. /\ transfer' \in Transfer /\ upload' \in UploadType
       /\ work' \in WorkType /\ work'.gen = 0 /\ 0 <= ble.generation
  <2>1. NoWork \in WorkType /\ NoWork.gen = 0
    BY WorkIs DEF NoWork
  <2> HIDE DEF WorkType
  <2>2. QED
    BY <1>0, <1>3, <1>6, <2>1, NoUploadIs, TypesAre DEF TransferInv
<1>11. SameSession(ble, ble') /\ ConfirmGoesOn /\ QueueGoesOn
  BY <1>0, SameBle DEF QueueGoesOn
<1>12. "idle" \in {"idle", "store", "guard1", "guard2", "marker"}
  OBVIOUS
<1> HIDE DEF WorkType
<1>13. QED
  BY <1>0, <1>3, <1>8, <1>9, <1>10, <1>11, <1>12, WorkerRunsStore

LEMMA StoreBeginStep ==
    ASSUME BleInv, StoreBegin
    PROVE  BleInv'
<1>1. PICK ok \in BOOLEAN :
         StoreReturns(ok, [on |-> TRUE, expected |-> work.msg.at, written |-> 0])
  BY DEF StoreBegin
<1>2. /\ CallInv /\ AtStore /\ work.msg.type = "BEGIN"
      /\ StoreStep("store")
  BY DEF BleInv, StoreBegin, StoreStep, AtStore
<1>3. /\ transfer.pending = "BEGIN" /\ transfer.expected = work.msg.at
      /\ transfer.expected \in 0 .. MaxLength
  BY <1>2 DEF CallInv, TransferInv, Transfer
<1> DEFINE staged == [on |-> TRUE, expected |-> work.msg.at, written |-> 0]
<1>4. staged \in UploadType /\
      staged = [on |-> TRUE, expected |-> transfer.expected, written |-> 0]
  BY <1>3 DEF UploadType
<1> HIDE DEF staged
<1>5. StoreReturns(ok, staged)
  BY <1>1 DEF staged
<1>6. "store" \in {"store", "guard1", "guard2", "marker"} /\ transfer.pending # "DATA"
  BY <1>3
<1>7. QED
  BY <1>2, <1>4, <1>5, <1>6, StoreReturnsStep

LEMMA StoreWriteStep ==
    ASSUME BleInv, StoreWrite
    PROVE  BleInv'
<1> DEFINE staged == [upload EXCEPT !.written = @ + work.msg.n]
<1>1. PICK ok \in BOOLEAN : StoreReturns(ok, staged)
  BY DEF StoreWrite
<1>2. CallInv /\ AtStore /\ work.msg.type = "DATA" /\ StoreStep("store")
  BY DEF BleInv, StoreWrite, StoreStep, AtStore
<1>3. /\ transfer.pending = "DATA" /\ work.msg.n = transfer.plen
      /\ upload = [on |-> TRUE, expected |-> transfer.expected, written |-> transfer.received]
      /\ transfer.received + transfer.plen <= transfer.expected
      /\ transfer.received \in Nat /\ transfer.plen \in Nat
      /\ transfer.expected \in 0 .. MaxLength
  BY <1>2 DEF CallInv, TransferInv, Transfer
<1>4. staged = [on |-> TRUE, expected |-> transfer.expected,
                written |-> transfer.received + transfer.plen]
  <2>1. upload.written = transfer.received /\ upload.on = TRUE
        /\ upload.expected = transfer.expected /\ upload \in UploadType
    BY <1>3 DEF BleInv, TypeOK, UploadType
  <2>2. ASSUME NEW u \in UploadType, NEW n
        PROVE  [u EXCEPT !.written = n] = [on |-> u.on, expected |-> u.expected, written |-> n]
    BY DEF UploadType
  <2>3. [upload EXCEPT !.written = transfer.received + transfer.plen] =
           [on |-> upload.on, expected |-> upload.expected,
            written |-> transfer.received + transfer.plen]
    BY <2>1, <2>2
  <2>4. staged = [upload EXCEPT !.written = transfer.received + transfer.plen]
    BY <1>3, <2>1
  <2> HIDE DEF staged
  <2>5. QED
    BY <2>1, <2>3, <2>4
<1>5. transfer.received + transfer.plen \in 0 .. MaxLength
  BY <1>3
<1> HIDE DEF staged
<1>6. staged \in UploadType
  BY <1>3, <1>4, <1>5 DEF UploadType
<1>7. "store" \in {"store", "guard1", "guard2", "marker"} /\ transfer.pending # "BEGIN"
  BY <1>3
<1>8. QED
  BY <1>1, <1>2, <1>4, <1>6, <1>7, StoreReturnsStep

LEMMA CommitStep ==
    ASSUME BleInv, NEW label \in {"guard1", "guard2", "marker"}, StoreStep(label),
           NEW ok \in BOOLEAN, StoreReturns(ok, NoUpload)
    PROVE  BleInv'
<1>1. CallInv /\ AtStore /\ pc["worker"] = label
  BY DEF BleInv, StoreStep, AtStore
<1>2. transfer.pending \notin {"BEGIN", "DATA"}
  BY <1>1 DEF CallInv
<1>3. label \in {"store", "guard1", "guard2", "marker"}
  OBVIOUS
<1>4. QED
  BY <1>2, <1>3, NoUploadIs, StoreReturnsStep

LEMMA CommitGuardStep ==
    ASSUME BleInv, NEW label \in {"guard1", "guard2"}, NEW next \in {"guard2", "marker"},
           CommitGuard(label, next)
    PROVE  BleInv'
<1>0. StoreStep(label)
  BY DEF CommitGuard
<1>1. CASE StoreReturns(FALSE, NoUpload)
  <2>1. label \in {"guard1", "guard2", "marker"} /\ FALSE \in BOOLEAN
    OBVIOUS
  <2>2. QED
    BY <1>0, <1>1, <2>1, CommitStep
<1>2. CASE Goto("worker", next) /\ UNCHANGED <<transfer, upload, work>>
  <2>1. /\ TypeOK /\ CallInv /\ PowerInv /\ AtStore /\ WorkerFrame /\ pc["worker"] = label
        /\ UNCHANGED <<nvs, bond, adv, enc, control_queue, queue, ble>>
        /\ upload \in UploadType /\ transfer \in Transfer /\ work \in WorkType
        /\ work.gen <= ble.generation
    BY <1>0 DEF BleInv, StoreStep, durable, queues, AtStore, TypeOK, UploadType, AgeInv
  <2>2. pc' = [pc EXCEPT !["worker"] = next] /\ pc'["worker"] = next
    BY <1>2, <2>1 DEF Goto, PowerInv
  <2>3. CallInv'
    BY <1>2, <2>1, <2>2 DEF CallInv, AtStore
  <2>4. UploadAgrees'
    BY <2>2 DEF UploadAgrees
  <2>5. SameSession(ble, ble') /\ ConfirmGoesOn /\ QueueGoesOn
    BY <2>1, SameBle DEF QueueGoesOn
  <2>6. /\ next \in {"idle", "store", "guard1", "guard2", "marker"}
        /\ upload' \in UploadType /\ transfer' \in Transfer /\ work' \in WorkType
        /\ work'.gen <= ble.generation
    BY <1>2, <2>1
  <2> HIDE DEF WorkType
  <2>7. QED
    BY <2>1, <2>2, <2>3, <2>4, <2>5, <2>6, WorkerRunsStore
<1>3. QED
  BY <1>1, <1>2 DEF CommitGuard

LEMMA CommitMarkerStep ==
    ASSUME BleInv, CommitMarker
    PROVE  BleInv'
<1>1. StoreStep("marker") /\ \E ok \in BOOLEAN : StoreReturns(ok, NoUpload)
  BY DEF CommitMarker
<1>2. "marker" \in {"guard1", "guard2", "marker"}
  OBVIOUS
<1>3. QED
  BY <1>1, <1>2, CommitStep

-----------------------------------------------------------------------------
(* The worker: the window, and the encryption of a link *)

LEMMA WorkOpenStep ==
    ASSUME BleInv, WorkOpen
    PROVE  BleInv'
<1> DEFINE w == Head(queue)
           d == [ble EXCEPT !.window = TRUE]
<1>0. /\ TypeOK /\ AgeInv /\ SessionInv /\ KeyInv /\ OwnerInv /\ SecureIsOwner
      /\ FromQueue("OPEN") /\ pc' = [pc EXCEPT !["worker"] = "idle"]
      /\ UNCHANGED <<nvs, bond, transfer, upload, enc, work>>
      /\ ble \in BleType /\ adv \in BOOLEAN /\ PowerInv
  BY DEF BleInv, TypeOK, WorkOpen, Goto, LinkFrame, durable
<1>1. /\ WorkerFrame /\ ~AtStore /\ QueueGoesOn /\ RxGoesOn /\ pc["worker"] = "wait"
      /\ 1 \in DOMAIN queue /\ w = queue[1] /\ w.type = "OPEN"
  BY <1>0, DataTaken
<1>2. CASE w.ctl # ble.control_generation \/ ble.reset
  <2>1. UNCHANGED <<ble, adv, control_queue>>
    BY <1>2 DEF WorkOpen
  <2>2. SameSession(ble, ble') /\ ConfirmGoesOn
    BY <1>0, <2>1, SameBle
  <2>3. adv' \in BOOLEAN /\ ControlGoesOn /\ "idle" \in {"idle", "wait", "unpair"}
    BY <1>0, <2>1 DEF ControlGoesOn
  <2>4. QED
    BY <1>0, <1>1, <2>2, <2>3, WorkerQuiet
<1>3. CASE w.ctl = ble.control_generation /\ ~ble.reset
  <2>1. /\ ble' = schedule_stock_control(d) /\ adv' = start_advertising(ble')
        /\ EncryptionWork(TRUE) \/ UNCHANGED control_queue
    BY <1>3 DEF WorkOpen
  <2>2. /\ d \in BleType /\ d.generation = ble.generation
        /\ d.control_generation = ble.control_generation
        /\ d.conn = ble.conn /\ d.connected = ble.connected /\ d.secure = ble.secure
        /\ d.confirm = ble.confirm /\ d.owner = ble.owner
        /\ d.recovery = ble.recovery /\ d.reset = ble.reset
    BY <1>0 DEF BleType
  <2> HIDE DEF d, w
  <2>3. SameSession(d, ble') /\ ble'.confirm = d.confirm
        /\ ble'.control_generation = d.control_generation
    BY <2>1, <2>2, ScheduleIs
  <2>4. /\ ble' \in BleType /\ ble'.generation = ble.generation
        /\ ble'.control_generation = ble.control_generation
        /\ ble'.conn = ble.conn /\ ble'.connected = ble.connected
        /\ ble'.secure = ble.secure
        /\ ble'.confirm = ble.confirm /\ ble'.owner = ble.owner
        /\ ble'.recovery = ble.recovery /\ ble'.reset = ble.reset
    BY <2>2, <2>3 DEF SameSession
  <2>5. /\ ble.generation \in Nat /\ ble.control_generation \in Nat
        /\ \A i \in DOMAIN queue : queue[i].ctl \in Nat
    <3> HIDE DEF WorkType, BleType
    <3>1. QED
      BY <1>0, TypesAre
  <2>6. pc["ui"] = "idle"
    BY <1>0, <1>1, <1>3, <2>5 DEF AgeInv
  <2>7. ControlGoesOn
    <3>1. CASE UNCHANGED control_queue
      BY <3>1 DEF ControlGoesOn
    <3>2. CASE EncryptionWork(TRUE)
      <4> DEFINE x == Work("ENCRYPTION")
                 v == [x EXCEPT !.gen = Generation, !.conn = Handle, !.ok = TRUE]
      <4>1. v \in WorkType /\ v.type = "ENCRYPTION" /\ v.gen = Generation /\ v.ctl = 0
        <5>1. x \in WorkType /\ x.type = "ENCRYPTION" /\ x.ctl = 0
          BY WorkIs
        <5> HIDE DEF x
        <5>2. QED
          BY <1>0, <5>1, GenerationIs DEF WorkType
      <4>2. control_queue' = Put(control_queue, v)
        BY <3>2 DEF EncryptionWork
      <4> HIDE DEF v, x, WorkType
      <4>3. QuietWork(v)
        BY <1>0, <2>5, <4>1, GenerationIs DEF QuietWork
      <4>4. QED
        BY <1>0, <4>2, <4>3, PutGoesOn
    <3>3. QED
      BY <2>1, <3>1, <3>2
  <2>8. /\ TypeOK' /\ PowerInv' /\ pc'["worker"] = "idle" /\ pc'["ui"] = pc["ui"]
    <3>1. /\ nvs' \in Peers \cup {None} /\ adv' \in BOOLEAN /\ transfer' \in Transfer
          /\ upload' \in UploadType /\ enc' \in EncType /\ work' \in WorkType
          /\ "idle" \in WorkerLabel
      BY <1>0, <2>1, AdvertisingIs DEF TypeOK, UploadType, EncType, WorkerLabel
    <3> HIDE DEF WorkType, BleType
    <3>2. QED
      BY <1>0, <1>1, <2>4, <2>7, <3>1, QueueTypes, WorkerKept
  <2>9. /\ CallInv' /\ UploadAgrees'
    <3>1. DataGoesOn
      BY <1>0, <1>1, <2>8 DEF DataGoesOn, AtStore
    <3>2. QED
      BY <3>1, DataKept
  <2>10. ~Resetting' /\ ~Finishing("worker")' /\ ~Checking' /\ ~Finishing("ui")'
         /\ UNCHANGED <<link, uwork>>
    BY <1>1, <2>6, <2>8 DEF Resetting, Finishing, Checking, WorkerFrame
  <2>11. ASSUME NEW i \in DOMAIN control_queue'
         PROVE  \/ \E j \in DOMAIN control_queue : control_queue'[i] = control_queue[j]
                \/ /\ control_queue'[i].type \notin {"CONNECT", "DISCONNECT"}
                   /\ control_queue'[i].gen <= ble.generation
                   /\ control_queue'[i].ctl <= ble.control_generation
    BY <2>7 DEF ControlGoesOn, Grown, Shrunk
  <2>12. AgeInv'
    <3>1. /\ ble'.generation >= ble.generation
          /\ ble'.control_generation >= ble.control_generation
      BY <2>4, <2>5
    <3>2. \A i \in DOMAIN queue' :
              \/ \E j \in DOMAIN queue : queue'[i] = queue[j]
              \/ /\ queue'[i].gen <= ble'.generation
                 /\ queue'[i].ctl <= ble'.control_generation
                 /\ queue'[i].type = "OPEN" => pc'["ui"] = "idle"
      BY <1>1, <2>4, <2>6, <2>8 DEF QueueGoesOn, Grown, Shrunk
    <3>3. /\ work'.gen <= ble'.generation /\ ble'.confirm.gen <= ble'.generation
          /\ uwork'.gen <= ble'.generation /\ uwork'.ctl <= ble'.control_generation
      BY <1>0, <2>4, <2>10 DEF AgeInv
    <3>4. \A i \in DOMAIN control_queue' :
              \/ \E j \in DOMAIN control_queue : control_queue'[i] = control_queue[j]
              \/ /\ control_queue'[i].gen <= ble'.generation
                 /\ control_queue'[i].ctl <= ble'.control_generation
                 /\ control_queue'[i].type # "CONNECT"
      BY <2>4, <2>11
    <3>5. QED
      BY <2>4, <2>6, <2>8, <3>1, <3>2, <3>3, <3>4, AgeKept
  <2>13. SessionInv'
    BY <1>0, <1>3, <2>4, <2>6, <2>8, <2>10 DEF SessionInv
  <2>14. SecureIsOwner'
    BY <1>0, <2>4, <2>10 DEF SecureIsOwner
  <2>15. OwnerInv'
    BY <1>0, <2>4, <2>10, <2>8 DEF OwnerInv, Checking
  <2>16. KeyInv'
    <3>1. Ended' => Ended
      BY <2>11 DEF Ended
    <3>2. ASSUME ble.conn = Handle, NEW i \in DOMAIN control_queue', NEW j \in DOMAIN control_queue',
                 control_queue'[i].type = "CONFIRM", control_queue'[i].gen = ble.generation, i < j
          PROVE  control_queue'[j].type # "DISCONNECT"
      BY <1>0, <2>7, <3>2, OrderKept
    <3>3. QED
      BY <1>0, <1>3, <2>4, <2>6, <2>8, <2>10, <3>1, <3>2 DEF KeyInv
  <2>17. QED
    BY <2>8, <2>9, <2>12, <2>13, <2>14, <2>15, <2>16 DEF BleInv
<1>4. QED
  BY <1>2, <1>3

LEMMA EncCheckStep ==
    ASSUME BleInv, EncCheck
    PROVE  BleInv'
<1> DEFINE w == Head(control_queue)
           raw == w.ok /\ link # NoLink /\ link.sec = "secure"
           match == ble.owner # None /\ ble.owner = link.peer
<1>0. /\ TypeOK /\ AgeInv /\ SessionInv /\ OwnerInv /\ PowerInv /\ ble \in BleType
      /\ FromControl("ENCRYPTION") /\ UNCHANGED <<nvs, bond, adv, ble, transfer, upload>>
      /\ link.peer \in Peers \cup {None}
  BY TypesAre DEF BleInv, TypeOK, EncCheck, durable
<1>1. /\ WorkerFrame /\ ~AtStore /\ pc["worker"] = "idle"
      /\ ControlGoesOn /\ QueueGoesOn /\ RxGoesOn
      /\ w \in WorkType /\ w.gen \in Nat /\ w.gen <= ble.generation
      /\ Shrunk(control_queue, control_queue')
  BY <1>0, ControlTaken
<1>2. SameSession(ble, ble') /\ ConfirmGoesOn
  BY <1>0, SameBle
<1>3. CASE UNCHANGED <<pc, work, enc>>
  <2>1. LinkFrame /\ adv' \in BOOLEAN
    BY <1>0, <1>3 DEF LinkFrame, durable, TypeOK
  <2>2. QED
    BY <1>0, <1>2, <1>3, <2>1, ControlQuiet
<1>4. CASE /\ work' = w /\ enc' = [peer |-> link.peer, ok |-> raw, match |-> match]
           /\ Goto("worker", IF raw /\ ble.owner = None THEN "save" ELSE "authorize")
  <2>1. raw \in BOOLEAN /\ match \in BOOLEAN
    <3>1. w.ok \in BOOLEAN
      BY <1>1 DEF WorkType
    <3>2. QED
      BY <3>1
  <2>2. /\ raw => link # NoLink /\ link.sec = "secure" /\ link.peer # None
        /\ match => ble.owner # None /\ ble.owner = link.peer
    BY <1>0 DEF SessionInv
  <2> HIDE DEF raw, match, w
  <2>3. /\ enc' \in EncType /\ enc'.peer = link.peer /\ (enc'.ok <=> raw)
        /\ (enc'.match <=> match)
    BY <1>0, <1>4, <2>1 DEF EncType
  <2>4. PICK label \in {"save", "authorize"} :
           /\ pc' = [pc EXCEPT !["worker"] = label]
           /\ label = "save" => raw /\ ble.owner = None
    BY <1>4 DEF Goto
  <2>5. /\ TypeOK' /\ PowerInv' /\ pc'["worker"] = label /\ pc'["ui"] = pc["ui"]
    <3>1. /\ nvs' \in Peers \cup {None} /\ adv' \in BOOLEAN /\ transfer' \in Transfer
          /\ upload' \in UploadType /\ work' \in WorkType /\ ble' \in BleType
          /\ label \in WorkerLabel
      BY <1>0, <1>1, <1>4 DEF TypeOK, UploadType, WorkerLabel
    <3> HIDE DEF WorkType, BleType
    <3>2. QED
      BY <1>0, <1>1, <2>3, <2>4, <3>1, QueueTypes, WorkerKept
  <2>6. /\ CallInv' /\ UploadAgrees'
    <3>1. DataGoesOn
      BY <1>0, <1>1, <2>5 DEF DataGoesOn, AtStore
    <3>2. QED
      BY <3>1, DataKept
  <2>7. LinkGoesOn /\ UNCHANGED <<link, uwork>>
    BY <1>1 DEF LinkGoesOn, WorkerFrame
  <2>8. PlacesGoOn
    <3>1. ~Finishing("worker")' /\ (Finishing("ui")' <=> Finishing("ui"))
      BY <2>5 DEF Finishing
    <3>2. Resetting' => Resetting
      BY <2>5, <2>7, <3>1 DEF Resetting
    <3>3. work'.gen <= ble.generation
      BY <1>1, <1>4
    <3>4. QED
      BY <1>0, <2>5, <2>7, <3>1, <3>2, <3>3 DEF PlacesGoOn
  <2>9. AgeInv' /\ SessionInv' /\ KeyInv' /\ SecureIsOwner'
    BY <1>0, <1>1, <1>2, <2>5, <2>7, <2>8, SessionKept DEF AlmostQuiet
  <2>10. OwnerInv'
    <3>1. Resetting' => Resetting
      BY <2>5, <2>7 DEF Resetting, Finishing
    <3>2. QED
      BY <1>0, <2>2, <2>3, <2>4, <2>5, <2>7, <3>1 DEF OwnerInv, Checking
  <2>11. QED
    BY <2>5, <2>6, <2>9, <2>10 DEF BleInv
<1>5. QED
  BY <1>3, <1>4 DEF EncCheck

\* What the three steps that follow have in common: the session stays, but
\* for its authorization.
LEMMA EncKept ==
    ASSUME BleInv, NEW label \in {"save", "own", "authorize"}, EncStep(label),
           nvs' \in Peers \cup {None}, ble' \in BleType,
           ble'.generation = ble.generation,
           ble'.control_generation = ble.control_generation, ble'.conn = ble.conn,
           ble'.window = ble.window, ble'.connected = ble.connected,
           ble'.secure => ble.window \/ ble.secure,
           ble'.reset = ble.reset, ble'.confirm = ble.confirm,
           enc' \in EncType, work' \in {work, NoWork},
           NEW next \in {"idle", "own", "authorize"}, pc' = [pc EXCEPT !["worker"] = next]
    PROVE  /\ TypeOK' /\ PowerInv' /\ CallInv' /\ UploadAgrees'
           /\ AgeInv' /\ SessionInv' /\ KeyInv'
           /\ pc'["worker"] = next /\ pc'["ui"] = pc["ui"] /\ UNCHANGED <<link, uwork>>
           /\ pc["worker"] = label /\ (Resetting' => Resetting)
           /\ (ble.window \/ ble.secure => ~Resetting)
<1>0. /\ TypeOK /\ AgeInv /\ SessionInv /\ KeyInv /\ PowerInv
      /\ WorkerFrame /\ UNCHANGED <<bond, adv, transfer, queue, control_queue, upload>>
      /\ adv \in BOOLEAN /\ transfer \in Transfer /\ upload \in UploadType
      /\ queue \in Seq(WorkType) /\ Len(queue) <= QueueLength
      /\ control_queue \in Seq(WorkType) /\ Len(control_queue) <= QueueLength
      /\ pc["worker"] = label /\ UNCHANGED <<link, uwork>> /\ work \in WorkType
  BY DEF BleInv, EncStep, TypeOK, UploadType, queues, WorkerFrame
<1>1. work' \in WorkType /\ work'.gen \in {work.gen, 0} /\ ble.generation \in Nat
  <2>1. NoWork \in WorkType /\ NoWork.gen = 0
    BY WorkIs DEF NoWork
  <2> HIDE DEF WorkType
  <2>2. QED
    BY <1>0, <2>1, TypesAre
<1>2. /\ TypeOK' /\ PowerInv' /\ pc'["worker"] = next /\ pc'["ui"] = pc["ui"]
  <2>1. next \in WorkerLabel
    BY DEF WorkerLabel
  <2> HIDE DEF WorkType, BleType
  <2>2. QED
    BY <1>0, <1>1, <2>1, WorkerKept
<1>3. CallInv' /\ UploadAgrees'
  <2>1. DataGoesOn
    BY <1>0, <1>2 DEF DataGoesOn, AtStore, RxGoesOn
  <2>2. QED
    BY <2>1, DataKept
<1>4. AgeInv'
  BY <1>0, <1>1, <1>2 DEF AgeInv
<1>5. /\ ~Finishing("worker")' /\ ~Finishing("worker")
      /\ (Finishing("ui")' <=> Finishing("ui"))
  BY <1>0, <1>2 DEF Finishing
<1>6. SessionInv'
  BY <1>0, <1>2, <1>5 DEF SessionInv
<1>7. KeyInv'
  BY <1>0, <1>2, <1>5 DEF KeyInv, Ended
<1>8. Resetting' => Resetting
  BY <1>0, <1>2, <1>5 DEF Resetting
<1>9. ble.window \/ ble.secure => ~Resetting
  BY <1>0, <1>5 DEF Resetting, SessionInv, Finishing
<1>10. QED
  BY <1>0, <1>2, <1>3, <1>4, <1>6, <1>7, <1>8, <1>9

\* Before the owner is adopted nobody is.
LEMMA NotSecureYet ==
    ASSUME BleInv, ble.owner = None
    PROVE  ~ble.secure
BY DEF BleInv, SecureIsOwner, SessionInv

LEMMA EncSaveStep ==
    ASSUME BleInv, EncSave
    PROVE  BleInv'
<1>0. /\ TypeOK /\ SessionInv /\ OwnerInv /\ EncStep("save") /\ work' = work
      /\ ble \in BleType /\ enc \in EncType /\ pc["worker"] = "save"
      /\ enc.peer \in Peers \cup {None} /\ nvs \in Peers \cup {None}
  BY DEF BleInv, TypeOK, EncSave, EncStep, EncType
<1>1. ble.owner = None /\ enc.ok /\ enc.peer # None /\ ~ble.secure
  BY <1>0, NotSecureYet DEF OwnerInv
<1>2. CASE nvs' = enc.peer /\ Goto("worker", "own") /\ UNCHANGED <<ble, enc>>
  <2>1. /\ TypeOK' /\ PowerInv' /\ CallInv' /\ UploadAgrees'
        /\ AgeInv' /\ SessionInv' /\ KeyInv'
        /\ pc'["worker"] = "own" /\ pc'["ui"] = pc["ui"] /\ UNCHANGED <<link, uwork>>
        /\ (Resetting' => Resetting)
    <3>1. /\ nvs' \in Peers \cup {None} /\ ble' \in BleType /\ enc' \in EncType
          /\ pc' = [pc EXCEPT !["worker"] = "own"]
      BY <1>0, <1>2 DEF Goto
    <3> HIDE DEF BleType
    <3>2. QED
      BY <1>0, <1>2, <3>1, EncKept
  <2>2. OwnerInv'
    BY <1>0, <1>1, <1>2, <2>1 DEF OwnerInv, Checking
  <2>3. SecureIsOwner'
    BY <1>1, <1>2 DEF SecureIsOwner
  <2>4. QED
    BY <2>1, <2>2, <2>3 DEF BleInv
<1>3. CASE /\ nvs' \in {nvs, enc.peer} /\ ble' = [ble EXCEPT !.recovery = TRUE]
           /\ enc' = [enc EXCEPT !.ok = FALSE] /\ Goto("worker", "authorize")
  <2>1. /\ ble' \in BleType /\ ble'.generation = ble.generation
        /\ ble'.control_generation = ble.control_generation /\ ble'.conn = ble.conn
        /\ ble'.window = ble.window /\ ble'.connected = ble.connected
        /\ ble'.secure = ble.secure /\ ble'.owner = ble.owner
        /\ ble'.reset = ble.reset /\ ble'.confirm = ble.confirm
    BY <1>0, <1>3 DEF BleType
  <2>2. enc' \in EncType /\ ~enc'.ok /\ enc'.peer = enc.peer /\ enc'.match = enc.match
    BY <1>0, <1>3 DEF EncType
  <2>3. ble'.recovery
    BY <1>0, <1>3 DEF BleType
  <2>4. /\ TypeOK' /\ PowerInv' /\ CallInv' /\ UploadAgrees'
        /\ AgeInv' /\ SessionInv' /\ KeyInv'
        /\ pc'["worker"] = "authorize" /\ pc'["ui"] = pc["ui"] /\ UNCHANGED <<link, uwork>>
        /\ (Resetting' => Resetting)
    <3>1. nvs' \in Peers \cup {None} /\ pc' = [pc EXCEPT !["worker"] = "authorize"]
      BY <1>0, <1>3 DEF Goto
    <3>2. ble'.secure => ble.window \/ ble.secure
      BY <1>1, <2>1
    <3> HIDE DEF BleType
    <3>3. QED
      BY <1>0, <2>1, <2>2, <3>1, <3>2, EncKept
  <2>5. SecureIsOwner'
    BY <1>1, <2>1 DEF SecureIsOwner
  <2>6. OwnerInv'
    BY <1>0, <1>1, <2>1, <2>2, <2>3, <2>4 DEF OwnerInv, Checking
  <2>7. QED
    BY <2>4, <2>5, <2>6 DEF BleInv
<1>4. QED
  BY <1>2, <1>3 DEF EncSave

LEMMA EncOwnStep ==
    ASSUME BleInv, EncOwn
    PROVE  BleInv'
<1> DEFINE current == SessionOf(work, ble.window)
<1>0. /\ TypeOK /\ SessionInv /\ OwnerInv /\ EncStep("own") /\ work' = work
      /\ enc' = [enc EXCEPT !.match = current] /\ Goto("worker", "authorize")
      /\ ble \in BleType /\ enc \in EncType /\ pc["worker"] = "own"
      /\ enc.peer \in Peers \cup {None} /\ nvs \in Peers \cup {None}
  BY DEF BleInv, TypeOK, EncOwn, EncStep, EncType
<1>1. ble.owner = None /\ enc.ok /\ enc.peer # None /\ ~ble.secure
  BY <1>0, NotSecureYet DEF OwnerInv
<1>2. current \in BOOLEAN /\ (current => ble.window)
  <2>1. ble.window \in BOOLEAN
    BY <1>0 DEF BleType
  <2>2. QED
    BY <2>1 DEF SessionOf, wallet_ble_session_matches
<1> HIDE DEF current
<1>3. enc' \in EncType /\ enc'.ok = enc.ok /\ enc'.peer = enc.peer /\ enc'.match = current
  BY <1>0, <1>2 DEF EncType
<1>4. pc' = [pc EXCEPT !["worker"] = "authorize"]
  BY <1>0 DEF Goto
<1>5. CASE current /\ ble' = [ble EXCEPT !.owner = enc.peer] /\ UNCHANGED nvs
  <2>1. /\ ble' \in BleType /\ ble'.generation = ble.generation
        /\ ble'.control_generation = ble.control_generation /\ ble'.conn = ble.conn
        /\ ble'.window = ble.window /\ ble'.connected = ble.connected
        /\ ble'.secure = ble.secure /\ ble'.owner = enc.peer
        /\ ble'.reset = ble.reset /\ ble'.confirm = ble.confirm
    BY <1>0, <1>5 DEF BleType
  <2>2. /\ TypeOK' /\ PowerInv' /\ CallInv' /\ UploadAgrees'
        /\ AgeInv' /\ SessionInv' /\ KeyInv'
        /\ pc'["worker"] = "authorize" /\ pc'["ui"] = pc["ui"] /\ UNCHANGED <<link, uwork>>
        /\ (Resetting' => Resetting) /\ ~Resetting
    <3>1. nvs' \in Peers \cup {None}
      BY <1>0, <1>5
    <3>2. ble'.secure => ble.window \/ ble.secure
      BY <1>1, <2>1
    <3> HIDE DEF BleType
    <3>3. QED
      BY <1>0, <1>2, <1>3, <1>4, <1>5, <2>1, <3>1, <3>2, EncKept
  <2>3. SecureIsOwner'
    BY <1>1, <2>1 DEF SecureIsOwner
  <2>4. nvs' = enc.peer
    BY <1>0, <1>2, <1>5 DEF OwnerInv
  <2>5. OwnerInv'
    BY <1>0, <1>1, <1>3, <2>1, <2>2, <2>4 DEF OwnerInv, Checking
  <2>6. QED
    BY <2>2, <2>3, <2>5 DEF BleInv
<1>6. CASE ~current /\ ble' = [ble EXCEPT !.recovery = TRUE] /\ nvs' \in {nvs, None}
  <2>1. /\ ble' \in BleType /\ ble'.generation = ble.generation
        /\ ble'.control_generation = ble.control_generation /\ ble'.conn = ble.conn
        /\ ble'.window = ble.window /\ ble'.connected = ble.connected
        /\ ble'.secure = ble.secure /\ ble'.owner = ble.owner
        /\ ble'.reset = ble.reset /\ ble'.confirm = ble.confirm
    BY <1>0, <1>6 DEF BleType
  <2>2. ble'.recovery
    BY <1>0, <1>6 DEF BleType
  <2>3. /\ TypeOK' /\ PowerInv' /\ CallInv' /\ UploadAgrees'
        /\ AgeInv' /\ SessionInv' /\ KeyInv'
        /\ pc'["worker"] = "authorize" /\ pc'["ui"] = pc["ui"] /\ UNCHANGED <<link, uwork>>
        /\ (Resetting' => Resetting)
    <3>1. nvs' \in Peers \cup {None}
      BY <1>0, <1>6
    <3>2. ble'.secure => ble.window \/ ble.secure
      BY <1>1, <2>1
    <3> HIDE DEF BleType
    <3>3. QED
      BY <1>0, <1>3, <1>4, <2>1, <3>1, <3>2, EncKept
  <2>4. SecureIsOwner'
    BY <1>1, <2>1 DEF SecureIsOwner
  <2>5. OwnerInv'
    BY <1>0, <1>1, <1>3, <1>6, <2>1, <2>2, <2>3 DEF OwnerInv, Checking
  <2>6. QED
    BY <2>3, <2>4, <2>5 DEF BleInv
<1>7. QED
  BY <1>5, <1>6 DEF EncOwn, current

\* What the decision on the owner writes: the session becomes secure or not
\* and the pairing is over, nothing else changes.
Decided(b, v) == [b EXCEPT !.secure = v, !.pairing = FALSE, !.released = FALSE]

LEMMA DecidedIs ==
    ASSUME NEW b \in BleType, NEW v \in BOOLEAN
    PROVE  /\ Decided(b, v) \in BleType /\ Decided(b, v).generation = b.generation
           /\ Decided(b, v).control_generation = b.control_generation
           /\ Decided(b, v).conn = b.conn /\ Decided(b, v).window = b.window
           /\ Decided(b, v).connected = b.connected /\ Decided(b, v).secure = v
           /\ Decided(b, v).owner = b.owner /\ Decided(b, v).recovery = b.recovery
           /\ Decided(b, v).reset = b.reset /\ Decided(b, v).confirm = b.confirm
<1> DEFINE x == [b EXCEPT !.secure = v]
           y == [x EXCEPT !.pairing = FALSE]
           z == [y EXCEPT !.released = FALSE]
<1>0. x \in BleType
  BY DEF BleType
<1>1. /\ x.generation = b.generation
      /\ x.control_generation = b.control_generation /\ x.conn = b.conn
      /\ x.window = b.window /\ x.connected = b.connected /\ x.secure = v
      /\ x.owner = b.owner /\ x.recovery = b.recovery
      /\ x.reset = b.reset /\ x.confirm = b.confirm
  BY DEF BleType
<1>2. Decided(b, v) = z
  BY DEF Decided
<1> HIDE DEF x
<1>3. y \in BleType
  BY <1>0 DEF BleType
<1>4. /\ y.generation = x.generation
      /\ y.control_generation = x.control_generation /\ y.conn = x.conn
      /\ y.window = x.window /\ y.connected = x.connected /\ y.secure = x.secure
      /\ y.owner = x.owner /\ y.recovery = x.recovery
      /\ y.reset = x.reset /\ y.confirm = x.confirm
  BY <1>0 DEF BleType
<1> HIDE DEF y
<1>5. z \in BleType
  BY <1>3 DEF BleType
<1>6. /\ z.generation = y.generation
      /\ z.control_generation = y.control_generation /\ z.conn = y.conn
      /\ z.window = y.window /\ z.connected = y.connected /\ z.secure = y.secure
      /\ z.owner = y.owner /\ z.recovery = y.recovery
      /\ z.reset = y.reset /\ z.confirm = y.confirm
  BY <1>3 DEF BleType
<1> HIDE DEF z
<1>7. QED
  BY <1>1, <1>2, <1>4, <1>5, <1>6

LEMMA EncAuthorizeStep ==
    ASSUME BleInv, EncAuthorize
    PROVE  BleInv'
<1> DEFINE secure == /\ SessionOf(work, ble.window \/ ble.secure)
                     /\ enc.ok /\ enc.match
           b == [ble EXCEPT !.secure = secure, !.pairing = FALSE, !.released = FALSE]
           c == request_termination(b, work.conn, work.gen)
<1>0. /\ TypeOK /\ SessionInv /\ OwnerInv /\ SecureIsOwner
      /\ EncStep("authorize") /\ work' = NoWork
      /\ enc' = [peer |-> None, ok |-> FALSE, match |-> FALSE]
      /\ Goto("worker", "idle") /\ nvs' = nvs
      /\ ble \in BleType /\ enc \in EncType /\ pc["worker"] = "authorize"
      /\ nvs \in Peers \cup {None}
  BY DEF BleInv, TypeOK, EncAuthorize, EncStep, EncType
<1>1. /\ secure \in BOOLEAN
      /\ secure => /\ ble.connected /\ work.gen = ble.generation /\ ble.conn = Handle
                   /\ ble.window \/ ble.secure
                   /\ enc.ok /\ enc.match /\ ~ble.recovery
  <2>1. /\ ble.window \in BOOLEAN /\ ble.secure \in BOOLEAN /\ ble.connected \in BOOLEAN
        /\ enc.ok \in BOOLEAN /\ enc.match \in BOOLEAN
    BY <1>0 DEF BleType, EncType
  <2>2. QED
    BY <1>0, <2>1 DEF SessionOf, wallet_ble_session_matches, SessionInv
<1>2. work.gen \in Nat
  BY <1>0, TypesAre
<1>3. ble' = IF work.gen # ble.generation \/ work.conn # ble.conn THEN ble
             ELSE IF secure THEN b ELSE c
  BY DEF EncAuthorize
<1> HIDE DEF secure
<1>4. /\ b \in BleType /\ b.generation = ble.generation
      /\ b.control_generation = ble.control_generation /\ b.conn = ble.conn
      /\ b.window = ble.window /\ b.connected = ble.connected
      /\ b.secure = secure /\ b.owner = ble.owner /\ b.recovery = ble.recovery
      /\ b.reset = ble.reset /\ b.confirm = ble.confirm
  <2>1. PICK v \in BOOLEAN : v = secure
    BY <1>1
  <2>2. b = Decided(ble, v)
    BY <2>1 DEF Decided
  <2> HIDE DEF b
  <2>3. /\ b \in BleType /\ b.generation = ble.generation
        /\ b.control_generation = ble.control_generation /\ b.conn = ble.conn
        /\ b.window = ble.window /\ b.connected = ble.connected
        /\ b.secure = v /\ b.owner = ble.owner /\ b.recovery = ble.recovery
        /\ b.reset = ble.reset /\ b.confirm = ble.confirm
    <3> DEFINE d == Decided(ble, v)
    <3>1. ble \in BleType
      BY <1>0
    <3>2. /\ d \in BleType /\ d.generation = ble.generation
          /\ d.control_generation = ble.control_generation /\ d.conn = ble.conn
          /\ d.window = ble.window /\ d.connected = ble.connected
          /\ d.secure = v /\ d.owner = ble.owner /\ d.recovery = ble.recovery
          /\ d.reset = ble.reset /\ d.confirm = ble.confirm
      <4> HIDE DEF c
      <4>1. QED
        BY <3>1, DecidedIs
    <3>3. b = d
      BY <2>2
    <3> HIDE DEF d
    <3>4. QED
      BY <3>2, <3>3
  <2>4. QED
    BY <2>1, <2>3
<1> HIDE DEF b
<1>5. /\ c \in BleType /\ c.generation = b.generation
      /\ c.control_generation = b.control_generation /\ c.conn = b.conn
      /\ c.connected = b.connected
      /\ c.secure = b.secure /\ c.owner = b.owner /\ c.recovery = b.recovery
      /\ c.reset = b.reset /\ c.confirm = b.confirm /\ c.window = b.window
  <2>1. /\ SameSession(b, c) /\ c.confirm = b.confirm
        /\ c.control_generation = b.control_generation
    BY <1>2, <1>4, RequestTerminationIs
  <2>2. c.window = b.window
    BY <1>4 DEF request_termination, schedule_stock_control, BleType
  <2> HIDE DEF c
  <2>3. QED
    BY <2>1, <2>2 DEF SameSession
<1> HIDE DEF c
<1>6. /\ ble' \in BleType /\ ble'.generation = ble.generation
      /\ ble'.control_generation = ble.control_generation /\ ble'.conn = ble.conn
      /\ ble'.window = ble.window /\ ble'.connected = ble.connected
      /\ (ble'.secure => ble.secure \/ secure)
      /\ ble'.owner = ble.owner /\ ble'.recovery = ble.recovery
      /\ ble'.reset = ble.reset /\ ble'.confirm = ble.confirm
  BY <1>0, <1>3, <1>4, <1>5
<1>7. ble'.secure => ble.window \/ ble.secure
  BY <1>1, <1>6
<1>8. enc' \in EncType /\ pc' = [pc EXCEPT !["worker"] = "idle"]
  BY <1>0 DEF EncType, Goto
<1>9. /\ TypeOK' /\ PowerInv' /\ CallInv' /\ UploadAgrees'
      /\ AgeInv' /\ SessionInv' /\ KeyInv'
      /\ pc'["worker"] = "idle" /\ pc'["ui"] = pc["ui"] /\ UNCHANGED <<link, uwork>>
      /\ (Resetting' => Resetting)
  <2> HIDE DEF BleType
  <2>1. QED
    BY <1>0, <1>6, <1>7, <1>8, EncKept
<1>10. OwnerInv'
  BY <1>0, <1>6, <1>9 DEF OwnerInv, Checking
<1>11. ASSUME secure PROVE ble.secure \/ (link.peer = ble.owner /\ link.sec = "secure"
                              /\ ble.connected /\ ble.conn = Handle /\ ~ble.reset /\ ~ble.recovery
                              /\ ble.owner # None)
  BY <1>0, <1>1, <1>11 DEF OwnerInv, Checking, SessionInv
<1>12. SecureIsOwner'
  BY <1>0, <1>6, <1>9, <1>11 DEF SecureIsOwner, OwnerInv
<1>13. QED
  BY <1>9, <1>10, <1>12 DEF BleInv

-----------------------------------------------------------------------------
(* Power *)

\* Nothing queued, nothing under way and no link.
Still ==
    /\ link = NoLink /\ queue = <<>> /\ control_queue = <<>>
    /\ pc = [t \in {"worker", "ui"} |-> "idle"]

\* A device at rest, switched off or with its owner just loaded.
AtRest ==
    /\ Still /\ nvs \in Peers \cup {None} /\ bond \in Peers \cup {None}
    /\ approved \subseteq Peers /\ up \in BOOLEAN /\ syncdue \in BOOLEAN /\ adv \in BOOLEAN
    /\ ble \in BleType /\ ble.generation = 0 /\ ble.control_generation = 0
    /\ ble.conn = NoConn /\ ~ble.window /\ ~ble.connected /\ ~ble.secure /\ ~ble.reset
    /\ ble.confirm.gen = 0 /\ (ble.owner # None => ble.owner = nvs)
    /\ up \/ ble = ZeroBle
    /\ TransferInv(transfer) /\ ~Retry(transfer)
    /\ upload \in UploadType
    /\ Open(transfer) => upload = [on |-> TRUE, expected |-> transfer.expected,
                                   written |-> transfer.received]
    /\ work \in WorkType /\ work.gen = 0
    /\ uwork \in WorkType /\ uwork.gen = 0 /\ uwork.ctl = 0
    /\ enc \in EncType /\ shown \in ShownType

LEMMA AtRestIs == AtRest => BleInv
<1> SUFFICES ASSUME AtRest PROVE BleInv
  OBVIOUS
<1>0. /\ Still /\ TransferInv(transfer) /\ ble \in BleType
      /\ ble.conn = NoConn /\ ~ble.window /\ ~ble.connected /\ ~ble.secure /\ ~ble.reset
  BY DEF AtRest
<1>1. /\ pc["worker"] = "idle" /\ pc["ui"] = "idle" /\ DOMAIN queue = {}
      /\ DOMAIN control_queue = {}
      /\ queue \in Seq(WorkType) /\ Len(queue) <= QueueLength
      /\ control_queue \in Seq(WorkType) /\ Len(control_queue) <= QueueLength
      /\ link.peer = None /\ link.sec = "plain"
      /\ link \in [peer : Peers \cup {None}, dying : BOOLEAN,
                   sec : {"plain", "asking", "keyed", "secure"}]
  BY <1>0 DEF Still, NoLink
<1>2. TypeOK
  <2> HIDE DEF WorkType, BleType
  <2>1. transfer \in Transfer
    BY <1>0 DEF TransferInv
  <2>2. QED
    BY <1>1, <2>1 DEF AtRest, TypeOK, WorkerLabel, UiLabel, UploadType, EncType, ShownType
<1>3. PowerInv
  BY <1>0, <1>1 DEF AtRest, PowerInv, Still, WorkerLabel, UiLabel
<1>4. AgeInv
  BY <1>1 DEF AtRest, AgeInv
<1>5. ~Resetting /\ ~Finishing("worker") /\ ~Finishing("ui") /\ ~Checking /\ ~AtStore
  BY <1>1 DEF Resetting, Finishing, Checking, AtStore
<1>6. SessionInv
  BY <1>0, <1>1, <1>5 DEF SessionInv, Still, NoConn, Handle
<1>7. KeyInv
  BY <1>0, <1>1, <1>5 DEF KeyInv, Ended, NoConn, Handle
<1>8. OwnerInv
  BY <1>1, <1>5 DEF AtRest, OwnerInv
<1>9. CallInv /\ UploadAgrees
  BY <1>1, <1>5 DEF AtRest, CallInv, UploadAgrees
<1>10. SecureIsOwner
  BY <1>0 DEF SecureIsOwner
<1>11. QED
  BY <1>2, <1>3, <1>4, <1>6, <1>7, <1>8, <1>9, <1>10 DEF BleInv

LEMMA AtRestNext == AtRest' => BleInv'
BY AtRestIs, PTL

\* A transfer that has not begun.
LEMMA NewTransferIs ==
    TransferInv(NewTransfer) /\ ~Retry(NewTransfer) /\ ~Open(NewTransfer)
BY NewTransferKept DEF NewTransfer, Retry, Open

LEMMA BleInvInit == Init => BleInv
<1> SUFFICES ASSUME Init PROVE BleInv
  OBVIOUS
<1>1. /\ nvs \in Peers \cup {None} /\ bond \in Peers \cup {None} /\ approved \subseteq Peers
      /\ Still /\ up = FALSE /\ syncdue = FALSE /\ adv = FALSE
      /\ ble = ZeroBle /\ transfer = NewTransfer /\ upload = NoUpload
      /\ work = NoWork /\ uwork = NoWork
      /\ enc = [peer |-> None, ok |-> FALSE, match |-> FALSE] /\ shown = NoPrompt
  BY DEF Init, Still
<1>2. enc \in EncType /\ shown \in ShownType
  BY <1>1 DEF EncType, ShownType, NoPrompt
<1>3. work \in WorkType /\ work.gen = 0 /\ uwork \in WorkType /\ uwork.gen = 0 /\ uwork.ctl = 0
  BY <1>1, WorkIs DEF NoWork
<1> HIDE DEF WorkType, BleType
<1>4. QED
  BY <1>1, <1>2, <1>3, ZeroBleIs, NewTransferIs, NoUploadIs, AtRestIs DEF AtRest

LEMMA PowerFailsStep ==
    ASSUME BleInv, PowerFails
    PROVE  BleInv'
<1>1. /\ nvs \in Peers \cup {None} /\ bond \in Peers \cup {None} /\ approved \subseteq Peers
      /\ UNCHANGED <<nvs, bond, approved>>
      /\ Still' /\ up' = FALSE /\ syncdue' = FALSE /\ adv' = FALSE
      /\ ble' = ZeroBle /\ transfer' = NewTransfer /\ upload' = NoUpload
      /\ work' = NoWork /\ uwork' = NoWork
      /\ enc' = [peer |-> None, ok |-> FALSE, match |-> FALSE] /\ shown' = NoPrompt
  BY DEF PowerFails, Still, BleInv, TypeOK, durable
<1>2. enc' \in EncType /\ shown' \in ShownType
  BY <1>1 DEF EncType, ShownType, NoPrompt
<1>3. /\ work' \in WorkType /\ work'.gen = 0 /\ uwork' \in WorkType /\ uwork'.gen = 0
      /\ uwork'.ctl = 0
  BY <1>1, WorkIs DEF NoWork
<1> HIDE DEF WorkType, BleType
<1>4. QED
  BY <1>1, <1>2, <1>3, ZeroBleIs, NewTransferIs, NoUploadIs, AtRestNext DEF AtRest

LEMMA BootStep ==
    ASSUME BleInv, NEW readable \in BOOLEAN, Boot(readable)
    PROVE  BleInv'
<1> DEFINE owner == IF readable THEN nvs ELSE None
<1>1. /\ TypeOK /\ AgeInv /\ CallInv /\ UploadAgrees /\ Still /\ Still'
      /\ ble.generation = 0 /\ ble.confirm.gen = 0 /\ ble.control_generation = 0
      /\ pc["worker"] = "idle" /\ up' = TRUE /\ syncdue' = TRUE
      /\ UNCHANGED <<nvs, bond, approved, adv, transfer, upload, work, uwork, enc, shown>>
  BY ZeroBleIs DEF BleInv, PowerInv, Boot, Still, durable, queues, locals
<1>2. PICK recovery \in BOOLEAN :
         ble' = [ZeroBle EXCEPT !.owner = owner, !.recovery = recovery]
  BY DEF Boot
<1>3. owner \in Peers \cup {None}
  BY <1>1 DEF TypeOK
<1>4. /\ ble' \in BleType /\ ble'.generation = 0 /\ ble'.control_generation = 0
      /\ ble'.conn = NoConn /\ ~ble'.window /\ ~ble'.connected /\ ~ble'.secure
      /\ ~ble'.reset /\ ble'.confirm = ZeroBle.confirm /\ ble'.owner = owner
  <2> DEFINE x == [ZeroBle EXCEPT !.owner = owner]
             y == [x EXCEPT !.recovery = recovery]
  <2> HIDE DEF owner
  <2>1. /\ x \in BleType /\ x.generation = 0 /\ x.control_generation = 0
        /\ x.conn = NoConn /\ ~x.window /\ ~x.connected /\ ~x.secure
        /\ ~x.reset /\ x.confirm = ZeroBle.confirm /\ x.owner = owner
    BY <1>3, ZeroBleIs DEF BleType
  <2>2. ble' = y
    BY <1>2
  <2> HIDE DEF x
  <2>3. /\ y \in BleType /\ y.generation = x.generation
        /\ y.control_generation = x.control_generation
        /\ y.conn = x.conn /\ y.window = x.window /\ y.connected = x.connected
        /\ y.secure = x.secure /\ y.reset = x.reset /\ y.confirm = x.confirm
        /\ y.owner = x.owner
    BY <1>2, <2>1 DEF BleType
  <2> HIDE DEF y
  <2>4. QED
    BY <2>1, <2>2, <2>3
<1>5. ble'.owner # None => ble'.owner = nvs'
  BY <1>1, <1>4
<1>6. ble'.confirm.gen = 0
  BY <1>4, ZeroBleIs
<1>7. /\ TransferInv(transfer) /\ ~Retry(transfer)
      /\ Open(transfer) => upload = [on |-> TRUE, expected |-> transfer.expected,
                                     written |-> transfer.received]
  BY <1>1 DEF CallInv, UploadAgrees
<1>8. /\ work.gen = 0 /\ uwork.gen = 0 /\ uwork.ctl = 0
  <2>1. /\ work.gen \in Nat /\ uwork.gen \in Nat /\ uwork.ctl \in Nat
    BY <1>1, TypesAre
  <2>2. QED
    BY <1>1, <2>1 DEF AgeInv
<1>9. /\ nvs' \in Peers \cup {None} /\ bond' \in Peers \cup {None} /\ approved' \subseteq Peers
      /\ adv' \in BOOLEAN /\ upload' \in UploadType /\ enc' \in EncType /\ shown' \in ShownType
      /\ work' \in WorkType /\ uwork' \in WorkType
  BY <1>1 DEF TypeOK, UploadType, EncType, ShownType
<1> HIDE DEF WorkType, BleType, owner
<1>10. QED
  BY <1>1, <1>4, <1>5, <1>6, <1>7, <1>8, <1>9, AtRestNext DEF AtRest

-----------------------------------------------------------------------------
(* All steps *)

LEMMA WorkerTaskStep ==
    ASSUME BleInv, WorkerTask
    PROVE  BleInv'
<1>1. CASE WorkerPoll \/ WorkerTimeout
  BY <1>1, WaitStep
<1>2. CASE WorkSync \/ WorkOpen \/ WorkClose \/ WorkConnect \/ WorkPasskey \/ WorkConfirm
  BY <1>2, WorkSyncStep, WorkOpenStep, WorkCloseStep, WorkConnectStep, WorkPasskeyStep,
     WorkConfirmStep
<1>3. CASE EncCheck \/ EncSave \/ EncOwn \/ EncAuthorize
  BY <1>3, EncCheckStep, EncSaveStep, EncOwnStep, EncAuthorizeStep
<1>4. CASE WorkRx \/ StoreBegin \/ StoreWrite \/ CommitMarker
  BY <1>4, WorkRxStep, StoreBeginStep, StoreWriteStep, CommitMarkerStep
<1>5. CASE CommitGuard("guard1", "guard2") \/ CommitGuard("guard2", "marker")
  BY <1>5, CommitGuardStep
<1>6. CASE WorkDisconnect \/ WorkAdvComplete \/ WorkResetOwner \/ WorkHostReset
  BY <1>6, WorkDisconnectStep, WorkAdvCompleteStep, WorkResetOwnerStep, WorkHostResetStep
<1>7. CASE \E expired, late \in BOOLEAN : WorkTick(expired, late)
  BY <1>7, WorkTickStep
<1>8. CASE Finish("worker")
  BY <1>8, FinishTaskStep
<1>9. QED
  BY <1>1, <1>2, <1>3, <1>4, <1>5, <1>6, <1>7, <1>8 DEF WorkerTask

LEMMA BleInvStep == BleInv /\ [Next]_vars => BleInv'
<1> SUFFICES ASSUME BleInv, [Next]_vars PROVE BleInv'
  OBVIOUS
<1>1. CASE UNCHANGED vars
  BY <1>1 DEF vars, durable, host, queues, locals, BleInv, TypeOK, PowerInv, AgeInv,
     SessionInv, KeyInv, Ended, OwnerInv, Checking, Resetting, Finishing, CallInv,
     AtStore, SecureIsOwner, UploadAgrees
<1>2. CASE \E readable \in BOOLEAN : Boot(readable)
  BY <1>2, BootStep
<1>3. CASE PowerFails
  BY <1>3, PowerFailsStep
<1>4. CASE HostTask
  BY <1>4, HostTaskStep
<1>5. CASE UiTask
  BY <1>5, UiTaskStep
<1>6. CASE Finish("ui")
  BY <1>6, FinishTaskStep
<1>7. CASE on_tick
  BY <1>7, TickQueuedStep
<1>8. CASE WorkerTask
  BY <1>8, WorkerTaskStep
<1>9. QED
  BY <1>1, <1>2, <1>3, <1>4, <1>5, <1>6, <1>7, <1>8 DEF Next

LEMMA BleInvAlways == Spec => []BleInv
BY BleInvInit, BleInvStep, PTL DEF Spec

-----------------------------------------------------------------------------
(* Who is let in, and what a reset leaves behind *)

\* Unless NVS may fail: the owner record is only written by an adoption, which
\* is undone when it comes too late.
RecordGoesOn ==
    \/ nvs' = nvs /\ (pc["worker"] = "own" => pc'["worker"] = "own")
    \/ pc'["worker"] = "own"
    \/ nvs' = None
    \/ \A t \in {"worker", "ui"} : pc'[t] # "erased"

\* A step that does not go on with a reset.
ResetStays ==
    /\ ble.reset => ble'.reset
    /\ \A t \in {"worker", "ui"} : pc'[t] \in {"erase", "erased", "failed"} => pc'[t] = pc[t]
    /\ Faults \/ RecordGoesOn

\* Besides, it makes no bond and lets nobody in.
Ordinary ==
    /\ UNCHANGED <<bond, approved>>
    /\ \/ link'.sec \in {"plain", "asking"}
       \/ link'.sec = link.sec /\ link'.peer = link.peer
    /\ link'.sec = "secure" /\ ble'.connected => ble.connected
    /\ Resetting' => Resetting \/ (ble'.reset /\ ~ble'.connected)
    /\ ResetStays

LEMMA OrdinaryKept ==
    ASSUME ApprovedInv, Ordinary
    PROVE  ApprovedInv' /\ ResetStays
<1>0. ResetStays
  BY DEF Ordinary
<1>1. Resetting' =>
          /\ ~(ble'.connected /\ link'.sec = "secure")
          /\ ble'.reset \/ (bond' = None /\ link'.sec # "keyed")
  <2>1. CASE Resetting
    BY <2>1 DEF ApprovedInv, Ordinary, ResetStays
  <2>2. CASE ~Resetting
    BY <2>2 DEF Ordinary
  <2>3. QED
    BY <2>1, <2>2
<1>2. \A t \in {"worker", "ui"} :
         /\ pc'[t] \in {"erase", "erased"} => bond' = None
         /\ pc'[t] = "failed" => Faults
  BY DEF ApprovedInv, Ordinary, ResetStays
<1>3. /\ bond' \in approved' \cup {None}
      /\ link'.sec = "keyed" => link'.peer \in approved'
      /\ link'.sec = "secure" /\ ble'.connected => link'.peer \in approved'
  BY DEF ApprovedInv, Ordinary
<1>4. QED
  BY <1>0, <1>1, <1>2, <1>3 DEF ApprovedInv

LEMMA HostOrdinary ==
    ASSUME HostStep, UNCHANGED <<bond, approved>>,
           \/ link'.sec \in {"plain", "asking"}
           \/ link'.sec = link.sec /\ link'.peer = link.peer,
           link'.sec = "secure" /\ ble'.connected => ble.connected,
           ble.reset => ble'.reset
    PROVE  Ordinary
<1>1. UNCHANGED <<nvs, pc, work, uwork>>
  BY DEF HostStep, locals
<1>2. Resetting' <=> Resetting
  BY <1>1 DEF Resetting, Finishing
<1>3. QED
  BY <1>1, <1>2 DEF Ordinary, ResetStays, RecordGoesOn

LEMMA UiOrdinary ==
    ASSUME PowerInv, UiStep, nvs' = nvs, ble'.connected => ble.connected,
           ble.reset => ble'.reset,
           NEW label \in UiLabel \ {"erase", "erased", "failed"},
           pc' = [pc EXCEPT !["ui"] = label],
           \/ label = "idle" \/ Resetting \/ (ble'.reset /\ ~ble'.connected)
           \/ label = "request" /\ uwork'.type # "RESET_OWNER"
    PROVE  Ordinary
<1>1. pc'["ui"] = label /\ pc'["worker"] = pc["worker"] /\ UNCHANGED <<bond, approved, link>>
  BY DEF PowerInv, UiStep
<1>2. Resetting' => Resetting \/ (ble'.reset /\ ~ble'.connected)
  BY <1>1 DEF Resetting, Finishing
<1>3. QED
  BY <1>1, <1>2 DEF Ordinary, ResetStays, RecordGoesOn

LEMMA WorkerOrdinary ==
    ASSUME PowerInv, WorkerFrame, bond' = bond, ble'.connected => ble.connected,
           ble.reset => ble'.reset,
           NEW label \in WorkerLabel \ {"erase", "erased", "failed"},
           pc' = [pc EXCEPT !["worker"] = label],
           label = "unpair" => ble'.reset /\ ~ble'.connected,
           Faults \/ RecordGoesOn
    PROVE  Ordinary
<1>1. pc'["worker"] = label /\ pc'["ui"] = pc["ui"] /\ UNCHANGED <<approved, link, uwork>>
  BY DEF PowerInv, WorkerFrame
<1>2. Resetting' => Resetting \/ (ble'.reset /\ ~ble'.connected)
  BY <1>1 DEF Resetting, Finishing
<1>3. QED
  BY <1>1, <1>2 DEF Ordinary, ResetStays

\* The host task: a bond is made, and a bonded phone let in, with a key that
\* was released here.
LEMMA HostTaskLets ==
    ASSUME BleInv, ApprovedInv, HostTask
    PROVE  ApprovedInv' /\ ResetStays
<1>0. /\ TypeOK /\ SessionInv /\ KeyInv /\ HostStep /\ UNCHANGED <<nvs, pc, uwork>>
      /\ ble \in BleType /\ link \in LinkType /\ link.peer \in Peers \cup {None}
  BY TypesAre DEF BleInv, TypeOK, LinkType, HostTask, on_sync, on_reset, AdvertisingEnds,
     Disconnected, Connected, PasskeyAction, Paired, Encrypted, EncryptionFails,
     stock_host_control, wallet_gatt_access, HostStep, locals
<1>1. Resetting' <=> Resetting
  BY <1>0 DEF Resetting, Finishing
<1>2. CASE \/ on_sync \/ AdvertisingEnds \/ \E m \in Messages : wallet_gatt_access(m)
  <2>1. UNCHANGED <<bond, approved, link, ble>>
    BY <1>2 DEF on_sync, AdvertisingEnds, wallet_gatt_access
  <2>2. QED
    BY <1>0, <2>1, HostOrdinary, OrdinaryKept
<1>3. CASE on_reset \/ Disconnected \/ \E p \in Peers : Connected(p)
  <2>1. UNCHANGED <<bond, approved>> /\ link'.sec = "plain"
    <3>1. CASE on_reset \/ Disconnected
      BY <3>1 DEF on_reset, Disconnected, NoLink
    <3>2. ASSUME NEW p \in Peers, Connected(p)
          PROVE  UNCHANGED <<bond, approved>> /\ link'.sec = "plain"
      <4>1. \E d : link' = [peer |-> p, sec |-> "plain", dying |-> d]
        <5>1. \/ link' = [peer |-> p, sec |-> "plain", dying |-> Full(control_queue)]
              \/ link' = [peer |-> p, sec |-> "plain", dying |-> TRUE]
          BY <3>2 DEF Connected
        <5>2. QED
          BY <5>1
      <4>2. QED
        BY <3>2, <4>1 DEF Connected
    <3>3. QED
      BY <1>3, <3>1, <3>2
  <2>2. ble.reset => ble'.reset
    <3> DEFINE e == EndSession(ble)
    <3>1. e \in BleType /\ e.reset = ble.reset
      BY <1>0, EndSessionIs DEF SessionEnded
    <3> HIDE DEF e
    <3>2. CASE on_reset
      <4> DEFINE b == [e EXCEPT !.synced = FALSE, !.conn = NoConn]
      <4>1. b \in BleType /\ b.reset = e.reset
        BY <3>1 DEF BleType
      <4>2. ble' = IF StockMode
                      THEN [b EXCEPT !.confirm = NoConfirm, !.term = 0,
                               !.level4 = b.window /\ ~b.recovery /\ ~b.reset]
                      ELSE b
        BY <3>2 DEF on_reset, e
      <4> HIDE DEF b
      <4>3. QED
        BY <3>1, <4>1, <4>2 DEF BleType
    <3>3. CASE Disconnected
      <4>1. ble' = ble \/ ble' = [e EXCEPT !.abort = TRUE, !.conn = NoConn]
        BY <3>3 DEF Disconnected, e
      <4>2. QED
        BY <3>1, <4>1 DEF BleType
    <3>4. ASSUME NEW p \in Peers, Connected(p) PROVE ble.reset => ble'.reset
      <4>1. ble' = ble \/ ~ble.reset
        BY <3>4 DEF Connected, wallet_ble_connection_allowed
      <4>2. QED
        BY <4>1
    <3>5. QED
      BY <1>3, <3>2, <3>3, <3>4
  <2>3. QED
    BY <1>0, <2>1, <2>2, HostOrdinary, OrdinaryKept
<1>4. CASE PasskeyAction
  <2>1. PICK x \in BOOLEAN : ble' = [ble EXCEPT !.pairing = x]
    <3>1. ble.pairing \in BOOLEAN
      BY <1>0 DEF BleType
    <3>2. PICK a \in BOOLEAN : ble' = [ble EXCEPT !.pairing = @ \/ a]
      BY <1>4 DEF PasskeyAction
    <3>3. QED
      BY <3>1, <3>2
  <2>2. (ble.reset => ble'.reset) /\ (ble'.connected => ble.connected)
    BY <1>0, <2>1 DEF BleType
  <2>3. UNCHANGED <<bond, approved>> /\ link'.sec \in {"plain", "asking"}
    <3>1. /\ link.sec = "plain"
          /\ \E l \in {[link EXCEPT !.sec = "asking"], [link EXCEPT !.dying = TRUE]} : link' = l
      BY <1>4 DEF PasskeyAction
    <3>2. QED
      BY <1>0, <1>4, <3>1 DEF LinkType, PasskeyAction
  <2>4. QED
    BY <1>0, <2>2, <2>3, HostOrdinary, OrdinaryKept
<1>5. CASE EncryptionFails
  <2>1. UNCHANGED <<bond, approved, ble>> /\ link'.sec = "plain"
    BY <1>0, <1>5 DEF EncryptionFails, LinkType
  <2>2. QED
    BY <1>0, <2>1, HostOrdinary, OrdinaryKept
<1>6. CASE Paired \/ Encrypted
  <2>1. /\ UNCHANGED <<ble, approved>> /\ link'.sec = "secure" /\ link'.peer = link.peer
    BY <1>0, <1>6 DEF Paired, Encrypted, LinkType
  <2>2. link.peer \in approved /\ bond' \in {bond, link.peer}
    <3>1. CASE Paired
      BY <3>1 DEF Paired, ApprovedInv
    <3>2. CASE Encrypted
      BY <1>0, <3>2 DEF Encrypted, ApprovedInv, SessionInv
    <3>3. QED
      BY <1>6, <3>1, <3>2
  <2>3. Resetting => ble.reset
    <3>1. CASE Paired
      BY <3>1 DEF Paired, ApprovedInv
    <3>2. CASE Encrypted
      BY <1>0, <3>2 DEF Encrypted, ApprovedInv, SessionInv
    <3>3. QED
      BY <1>6, <3>1, <3>2
  <2>4. \A t \in {"worker", "ui"} : pc[t] \in {"erase", "erased"} => bond' = None
    <3>1. CASE Paired
      BY <1>0, <3>1 DEF Paired, KeyInv, Finishing
    <3>2. CASE Encrypted
      BY <3>2 DEF Encrypted, ApprovedInv
    <3>3. QED
      BY <1>6, <3>1, <3>2
  <2>5. ble.reset => ~ble.connected
    BY <1>0 DEF SessionInv
  <2>6. ApprovedInv'
    BY <1>0, <1>1, <2>1, <2>2, <2>3, <2>4, <2>5 DEF ApprovedInv
  <2>7. QED
    BY <1>0, <2>1, <2>6 DEF ResetStays, RecordGoesOn
<1>7. CASE stock_host_control
  <2>1. PICK x \in BOOLEAN :
           ble' = [ble EXCEPT !.event = FALSE, !.term = 0, !.confirm = NoConfirm, !.level4 = x]
    <3>1. ble.level4 \in BOOLEAN /\ ble.window \in BOOLEAN
          /\ ble.recovery \in BOOLEAN /\ ble.reset \in BOOLEAN
      BY <1>0 DEF BleType
    <3>2. QED
      BY <1>7, <3>1 DEF stock_host_control
  <2>2. ble'.reset = ble.reset /\ ble'.connected = ble.connected
    BY <1>0, <2>1 DEF BleType
  <2>3. CASE UNCHANGED approved /\ \/ link' = link
                                   \/ link' = [link EXCEPT !.dying = TRUE]
    <3>1. bond' = bond /\ link'.sec = link.sec /\ link'.peer = link.peer
      BY <1>0, <1>7, <2>3 DEF LinkType, stock_host_control
    <3>2. QED
      BY <1>0, <2>2, <2>3, <3>1, HostOrdinary, OrdinaryKept
  <2>4. CASE /\ link' = [link EXCEPT !.sec = "keyed"]
             /\ approved' = approved \cup {link.peer} /\ ble.window
    <3>1. link'.sec = "keyed" /\ link'.peer = link.peer /\ bond' = bond
      BY <1>0, <1>7, <2>4 DEF LinkType, stock_host_control
    <3>2. ~Resetting
      BY <1>0, <2>4 DEF SessionInv, Resetting, Finishing
    <3>3. ApprovedInv'
      BY <1>0, <1>1, <2>4, <3>1, <3>2 DEF ApprovedInv
    <3>4. QED
      BY <1>0, <2>2, <3>3 DEF ResetStays, RecordGoesOn
  <2>5. QED
    BY <1>7, <2>3, <2>4 DEF stock_host_control
<1>8. QED
  BY <1>2, <1>3, <1>4, <1>5, <1>6, <1>7 DEF HostTask

LEMMA UiTaskLets ==
    ASSUME BleInv, ApprovedInv, UiTask
    PROVE  ApprovedInv' /\ ResetStays
<1>0. /\ TypeOK /\ PowerInv /\ SessionInv /\ ble \in BleType
      /\ uwork \in WorkType
  BY DEF BleInv, TypeOK
<1>1. CASE UiRender \/ \E accept \in BOOLEAN : wallet_ble_confirm_passkey(accept)
  <2>1. UiStep /\ UNCHANGED <<nvs, ble, pc, uwork>>
    BY <1>1 DEF UiRender, wallet_ble_confirm_passkey
  <2>2. Ordinary
    BY <2>1 DEF Ordinary, ResetStays, RecordGoesOn, UiStep, Resetting, Finishing
  <2>3. QED
    BY <2>2, OrdinaryKept
<1>2. CASE wallet_ble_open_pairing_window
  <2>1. /\ UiStep /\ UNCHANGED <<nvs, pc, uwork>>
        /\ ble' = [ble EXCEPT !.control_generation = ble.control_generation + 1]
    BY <1>2 DEF wallet_ble_open_pairing_window
  <2>2. ble'.connected = ble.connected /\ ble'.reset = ble.reset
    BY <1>0, <2>1 DEF BleType
  <2>3. Ordinary
    BY <2>1, <2>2 DEF Ordinary, ResetStays, RecordGoesOn, UiStep, Resetting, Finishing
  <2>4. QED
    BY <2>3, OrdinaryKept
<1>3. ASSUME NEW type \in {"CLOSE", "RESET_OWNER"}, EndWindow(type)
      PROVE  ApprovedInv' /\ ResetStays
  <2> DEFINE e == EndSession(ble)
             n == e.control_generation + 1
             r == e.reset \/ type = "RESET_OWNER"
             x == Work(type)
  <2>1. e \in BleType /\ e.reset = ble.reset /\ ~e.connected /\ r \in BOOLEAN
    <3>1. e \in BleType /\ e.reset = ble.reset /\ ~e.connected
      BY <1>0, EndSessionIs DEF SessionEnded
    <3>2. QED
      BY <3>1
  <2>2. /\ UiStep /\ nvs' = nvs /\ pc' = [pc EXCEPT !["ui"] = "request"]
        /\ ble' = [e EXCEPT !.window = FALSE, !.abort = TRUE, !.control_generation = n,
                            !.reset = r]
        /\ uwork' = [x EXCEPT !.conn = ble.conn, !.gen = ble'.generation,
                              !.ctl = ble'.control_generation]
    BY <1>3 DEF EndWindow, Goto
  <2>3. uwork'.type = type
    <3>1. x \in WorkType /\ x.type = type
      BY WorkIs
    <3> HIDE DEF x
    <3>2. QED
      BY <2>2, <3>1 DEF WorkType
  <2> HIDE DEF e, n, r, x
  <2>4. ble'.reset = r /\ ble'.connected = e.connected
    BY <2>1, <2>2 DEF BleType
  <2>5. /\ ble'.connected => ble.connected
        /\ ble.reset => ble'.reset
        /\ type = "RESET_OWNER" => ble'.reset /\ ~ble'.connected
    BY <2>1, <2>4 DEF r
  <2>6. "request" \in UiLabel \ {"erase", "erased", "failed"}
    BY DEF UiLabel
  <2>7. QED
    BY <1>0, <2>2, <2>3, <2>5, <2>6, UiOrdinary, OrdinaryKept
<1>4. CASE UiRequest
  <2> DEFINE c == schedule_stock_control(ble)
  <2>1. /\ UiStep /\ nvs' = nvs /\ pc["ui"] = "request"
        /\ ble' = request_termination(c, uwork.conn, uwork.gen)
    BY <1>4 DEF UiRequest
  <2>2. SameSession(ble, ble')
    <3>1. SameSession(ble, c) /\ c.confirm = ble.confirm
      BY <1>0, ScheduleIs
    <3>2. uwork.gen \in Nat
      BY <1>0, TypesAre
    <3> HIDE DEF c, BleType
    <3>3. c \in BleType
      BY <3>1 DEF SameSession
    <3>4. SameSession(c, ble') /\ ble'.control_generation = c.control_generation
      BY <2>1, <3>2, <3>3, RequestTerminationIs
    <3>5. QED
      BY <3>1, <3>4 DEF SameSession
  <2>3. ble'.connected = ble.connected /\ ble'.reset = ble.reset
    BY <2>2 DEF SameSession
  <2>4. PICK label \in {"idle", "unpair"} :
           /\ pc' = [pc EXCEPT !["ui"] = label]
           /\ label = "unpair" => uwork.type = "RESET_OWNER"
    BY <1>4 DEF UiRequest, Goto
  <2>5. label # "idle" => Resetting
    BY <2>1, <2>4 DEF Resetting
  <2>6. label \in UiLabel \ {"erase", "erased", "failed"}
    BY <2>4 DEF UiLabel
  <2>7. QED
    BY <1>0, <2>1, <2>3, <2>4, <2>5, <2>6, UiOrdinary, OrdinaryKept
<1>5. QED
  BY <1>1, <1>2, <1>3, <1>4 DEF UiTask, wallet_ble_close_pairing_window, wallet_ble_reset_owner

\* The worker: the record of the owner is written and taken back.
LEMMA EncOrdinary ==
    ASSUME BleInv, EncSave \/ EncOwn \/ EncAuthorize
    PROVE  Ordinary
<1>0. /\ TypeOK /\ PowerInv /\ SessionInv /\ WorkerFrame /\ bond' = bond /\ ble \in BleType
      /\ enc \in EncType /\ pc["worker"] \in {"save", "own", "authorize"}
      /\ enc.peer \in Peers \cup {None} /\ Faults \in BOOLEAN
  BY DEF BleInv, TypeOK, EncSave, EncOwn, EncAuthorize, EncStep, EncType
<1>1. {"own", "authorize", "idle"} \subseteq WorkerLabel \ {"erase", "erased", "failed"}
  BY DEF WorkerLabel
<1>2. CASE EncSave
  <2>1. /\ ble' = ble \/ ble' = [ble EXCEPT !.recovery = TRUE]
        /\ \/ pc' = [pc EXCEPT !["worker"] = "own"]
           \/ Faults /\ pc' = [pc EXCEPT !["worker"] = "authorize"]
    BY <1>2 DEF EncSave, Goto
  <2>2. ble'.connected = ble.connected /\ ble'.reset = ble.reset
    BY <1>0, <2>1 DEF BleType
  <2>3. Faults \/ RecordGoesOn
    BY <1>0, <2>1 DEF RecordGoesOn, PowerInv
  <2>4. QED
    BY <1>0, <1>1, <2>1, <2>2, <2>3, WorkerOrdinary
<1>3. CASE EncOwn
  <2>1. /\ pc' = [pc EXCEPT !["worker"] = "authorize"]
        /\ \/ /\ SessionOf(work, ble.window) /\ nvs' = nvs
              /\ ble' = [ble EXCEPT !.owner = enc.peer]
           \/ /\ nvs' \in IF Faults THEN {nvs, None} ELSE {None}
              /\ ble' = [ble EXCEPT !.recovery = TRUE]
    BY <1>3 DEF EncOwn, Goto
  <2>2. ble'.connected = ble.connected /\ ble'.reset = ble.reset
    BY <1>0, <2>1 DEF BleType
  <2>3. Faults \/ RecordGoesOn
    <3>1. CASE ble.window
      <4>1. pc["ui"] = "idle"
        BY <1>0, <3>1 DEF SessionInv
      <4>2. \A t \in {"worker", "ui"} : pc'[t] # "erased"
        BY <1>0, <2>1, <4>1 DEF PowerInv
      <4>3. QED
        BY <4>2 DEF RecordGoesOn
    <3>2. CASE ~ble.window
      <4>1. ~SessionOf(work, ble.window)
        BY <3>2 DEF SessionOf
      <4>2. QED
        BY <2>1, <4>1 DEF RecordGoesOn
    <3>3. QED
      BY <3>1, <3>2
  <2>4. QED
    BY <1>0, <1>1, <2>1, <2>2, <2>3, WorkerOrdinary
<1>4. CASE EncAuthorize
  <2>1. pc["worker"] = "authorize" /\ nvs' = nvs /\ pc' = [pc EXCEPT !["worker"] = "idle"]
    BY <1>4 DEF EncAuthorize, EncStep, Goto
  <2>2. ble'.connected = ble.connected /\ ble'.reset = ble.reset
    <3> DEFINE secure == /\ SessionOf(work, ble.window \/ ble.secure)
                         /\ enc.ok /\ enc.match
               b == [ble EXCEPT !.secure = secure, !.pairing = FALSE, !.released = FALSE]
               c == request_termination(b, work.conn, work.gen)
    <3>1. ble' \in {ble, b, c}
      BY <1>4 DEF EncAuthorize
    <3>2. PICK v \in BOOLEAN : v = secure
      <4>1. enc.match \in BOOLEAN
        BY <1>0 DEF EncType
      <4>2. QED
        BY <4>1
    <3>3. b = Decided(ble, v)
      BY <3>2 DEF Decided
    <3> HIDE DEF b
    <3>4. b \in BleType /\ b.connected = ble.connected /\ b.reset = ble.reset
      BY <1>0, <3>3, DecidedIs
    <3>5. SameSession(b, c)
      <4>1. work.gen \in Nat
        BY <1>0, TypesAre
      <4>2. QED
        BY <3>4, <4>1, RequestTerminationIs
    <3> HIDE DEF c
    <3>6. QED
      BY <3>1, <3>4, <3>5 DEF SameSession
  <2>3. RecordGoesOn
    BY <2>1 DEF RecordGoesOn
  <2>4. QED
    BY <1>0, <1>1, <2>1, <2>2, <2>3, WorkerOrdinary
<1>5. QED
  BY <1>2, <1>3, <1>4

\* The worker: what leaves the session alone.
LEMMA SessionOrdinary ==
    ASSUME BleInv,
           \/ WorkSync \/ WorkClose \/ WorkConnect \/ WorkPasskey \/ WorkConfirm
           \/ WorkResetOwner \/ WorkOpen
           \/ \E expired, late \in BOOLEAN : WorkTick(expired, late)
    PROVE  Ordinary
<1>0. TypeOK /\ PowerInv /\ ble \in BleType
  BY DEF BleInv, TypeOK
<1>1. {"idle", "unpair"} \subseteq WorkerLabel \ {"erase", "erased", "failed"}
  BY DEF WorkerLabel
<1>2. /\ WorkerFrame /\ UNCHANGED <<nvs, bond>> /\ pc["worker"] \in {"idle", "wait"}
  BY DEF WorkSync, WorkClose, WorkConnect, WorkPasskey, WorkConfirm, WorkResetOwner,
     WorkOpen, WorkTick, FromControl, FromQueue, LinkFrame, durable
<1>3. SameSession(ble, ble') \/ WorkOpen
  BY SyncSession, CloseSession, ConnectSession, PasskeySession, ConfirmSession,
     ResetOwnerSession, TickSession
<1>4. SameSession(ble, ble') \/ (~ble.reset /\ ble'.connected = ble.connected)
  <2>1. CASE WorkOpen
    <3> DEFINE d == [ble EXCEPT !.window = TRUE]
    <3>1. ble' = ble \/ (~ble.reset /\ ble' = schedule_stock_control(d))
      BY <2>1 DEF WorkOpen
    <3>2. d \in BleType /\ d.connected = ble.connected
      BY <1>0 DEF BleType
    <3> HIDE DEF d
    <3>3. SameSession(d, schedule_stock_control(d))
      BY <3>2, ScheduleIs
    <3>4. QED
      BY <1>0, <3>1, <3>2, <3>3, SameBle DEF SameSession
  <2>2. QED
    BY <1>3, <2>1
<1>5. PICK label \in {"idle", "unpair"} :
         /\ pc' = [pc EXCEPT !["worker"] = label]
         /\ label = "unpair" => ble.reset
  <2>1. CASE \/ WorkSync \/ WorkClose \/ WorkConnect \/ WorkPasskey \/ WorkConfirm
    <3>1. pc' = pc /\ pc["worker"] = "idle"
      BY <2>1 DEF WorkSync, WorkClose, WorkConnect, WorkPasskey, WorkConfirm, FromControl
    <3>2. pc' = [pc EXCEPT !["worker"] = "idle"]
      BY <1>0, <3>1 DEF PowerInv
    <3>3. QED
      BY <3>2
  <2>2. CASE WorkResetOwner
    <3>1. pc["worker"] = "idle" /\ pc = [pc EXCEPT !["worker"] = "idle"]
      BY <1>0, <2>2 DEF WorkResetOwner, FromControl, PowerInv
    <3>2. QED
      BY <2>2, <3>1 DEF WorkResetOwner, Goto
  <2>3. CASE WorkOpen
    BY <2>3 DEF WorkOpen, Goto
  <2>4. CASE \E expired, late \in BOOLEAN : WorkTick(expired, late)
    BY <2>4 DEF WorkTick, Goto, ResetWithoutLink
  <2>5. QED
    BY <2>1, <2>2, <2>3, <2>4
<1>6. /\ ble'.connected = ble.connected /\ (ble.reset => ble'.reset)
      /\ ble.reset => ~ble.connected
  BY <1>4 DEF SameSession, BleInv, SessionInv
<1>7. RecordGoesOn
  BY <1>2 DEF RecordGoesOn
<1>8. QED
  BY <1>0, <1>1, <1>2, <1>5, <1>6, <1>7, WorkerOrdinary

\* The worker: what leaves s_ble alone, but for the transfer's session.
LEMMA DataOrdinary ==
    ASSUME BleInv,
           \/ WorkerPoll \/ WorkerTimeout \/ EncCheck \/ WorkRx \/ StoreBegin \/ StoreWrite
           \/ CommitGuard("guard1", "guard2") \/ CommitGuard("guard2", "marker")
           \/ CommitMarker \/ WorkDisconnect \/ WorkAdvComplete \/ WorkHostReset
    PROVE  Ordinary
<1>0. TypeOK /\ PowerInv /\ ble \in BleType
  BY DEF BleInv, TypeOK
<1>1. {"idle", "wait", "unpair", "store", "guard1", "guard2", "marker", "save", "authorize"}
         \subseteq WorkerLabel \ {"erase", "erased", "failed"}
  BY DEF WorkerLabel
<1>2. /\ WorkerFrame /\ UNCHANGED <<nvs, bond>>
      /\ pc["worker"] \in {"idle", "wait", "store", "guard1", "guard2", "marker"}
  BY DEF WorkerPoll, WorkerTimeout, EncCheck, WorkRx, StoreBegin, StoreWrite, CommitGuard,
     CommitMarker, StoreStep, WorkDisconnect, WorkAdvComplete, WorkHostReset, FromControl,
     FromQueue, LinkFrame, durable
<1>3. ble'.connected = ble.connected /\ ble'.reset = ble.reset
  <2>1. CASE WorkRx
    <3>1. \E g : ble' = [ble EXCEPT !.transfer_generation = g] \/ ble' = ble
      BY <2>1 DEF WorkRx
    <3>2. QED
      BY <1>0, <3>1 DEF BleType
  <2>2. CASE ~WorkRx
    <3>1. ble' = ble
      BY <2>2 DEF WorkerPoll, WorkerTimeout, EncCheck, StoreBegin, StoreWrite, CommitGuard,
         CommitMarker, StoreStep, WorkDisconnect, WorkAdvComplete, WorkHostReset
    <3>2. QED
      BY <3>1
  <2>3. QED
    BY <2>1, <2>2
<1>4. PICK label \in {"idle", "wait", "unpair", "store", "guard1", "guard2", "marker",
                      "save", "authorize"} :
         /\ pc' = [pc EXCEPT !["worker"] = label]
         /\ label = "unpair" => ble.reset
  <2>1. CASE UNCHANGED pc
    BY <1>0, <1>2, <2>1 DEF PowerInv
  <2>2. CASE EncCheck
    BY <2>1, <2>2 DEF EncCheck, Goto
  <2>3. CASE WorkRx
    BY <2>3 DEF WorkRx, Goto
  <2>4. CASE \/ StoreBegin \/ StoreWrite \/ CommitMarker
             \/ CommitGuard("guard1", "guard2") \/ CommitGuard("guard2", "marker")
    BY <2>4 DEF StoreBegin, StoreWrite, CommitMarker, CommitGuard, StoreReturns, Goto
  <2>5. CASE WorkDisconnect \/ WorkAdvComplete \/ WorkHostReset
    BY <2>1, <2>5 DEF WorkDisconnect, WorkAdvComplete, WorkHostReset, Goto
  <2>6. CASE WorkerPoll \/ WorkerTimeout
    BY <2>6 DEF WorkerPoll, WorkerTimeout, Goto
  <2>7. QED
    BY <2>2, <2>3, <2>4, <2>5, <2>6
<1>5. ble.reset => ~ble.connected
  BY DEF BleInv, SessionInv
<1>6. RecordGoesOn
  BY <1>2 DEF RecordGoesOn
<1>7. QED
  BY <1>0, <1>1, <1>2, <1>3, <1>4, <1>5, <1>6, WorkerOrdinary

LEMMA WorkerTaskLets ==
    ASSUME BleInv, ApprovedInv, WorkerTask, ~Finish("worker")
    PROVE  ApprovedInv' /\ ResetStays
BY EncOrdinary, SessionOrdinary, DataOrdinary, OrdinaryKept DEF WorkerTask

\* A reset is carried out: bonds go first, then the record, then s_ble.owner.
\* Only without the stock service, or without failures, does a reset that is
\* given up stay pending.
Resets == ~(StockMode /\ Faults)

LEMMA FinishLets ==
    ASSUME Resets, BleInv, ApprovedInv, NEW t \in {"worker", "ui"}, Finish(t)
    PROVE  /\ ApprovedInv'
           /\ WipeInv /\ ~Faults => WipeInv'
           /\ ble.reset /\ ~ble'.reset =>
                 /\ bond' = None /\ ble'.owner = None
                 /\ pc[t] = "erased" /\ nvs' = nvs
<1>0. /\ TypeOK /\ PowerInv /\ SessionInv /\ KeyInv /\ OwnerInv /\ ble \in BleType
      /\ link \in LinkType /\ UNCHANGED <<uwork>> /\ Finishing(t)
      /\ {StockMode, Faults} \subseteq BOOLEAN
  BY DEF BleInv, TypeOK, LinkType, Finish, ResetUnpair, ResetErase, ResetDone, ResetFailed,
     FinishStep, Finishing
<1>1. Resetting /\ link.sec # "keyed" /\ (ble.reset => ~ble.connected)
  BY <1>0 DEF Resetting, KeyInv, SessionInv
<1>2. PICK next \in {"erase", "erased", "failed", "idle"} : pc' = [pc EXCEPT ![t] = next]
  BY DEF Finish, ResetUnpair, ResetErase, ResetDone, ResetFailed, Goto
<1>3. \A s \in {"worker", "ui"} : pc'[s] = IF s = t THEN next ELSE pc[s]
  BY <1>0, <1>2 DEF PowerInv
<1>4. pc["worker"] = "own" => pc'["worker"] = "own"
  BY <1>0, <1>3 DEF Finishing
<1>5. Resetting' => Resetting
  BY <1>1
<1>6. /\ link'.sec = link.sec /\ link'.peer = link.peer
  <2>1. link' = link \/ link' = [link EXCEPT !.dying = TRUE]
    BY DEF Finish, ResetUnpair, ResetErase, ResetDone, ResetFailed
  <2>2. QED
    BY <1>0, <2>1 DEF LinkType
<1>7. CASE ResetUnpair(t)
  <2>1. /\ UNCHANGED <<nvs, ble, approved>> /\ bond' \in {bond, None}
        /\ \/ bond' = None /\ next = "erase"
           \/ Faults /\ next = "failed"
    BY <1>0, <1>2, <1>3, <1>7 DEF ResetUnpair, Goto, PowerInv
  <2>2. ApprovedInv'
    BY <1>1, <1>3, <1>6, <2>1 DEF ApprovedInv
  <2>3. WipeInv => WipeInv'
    BY <1>3, <1>4, <2>1 DEF WipeInv
  <2>4. QED
    BY <2>1, <2>2, <2>3
<1>8. CASE ResetErase(t)
  <2>1. /\ UNCHANGED <<bond, ble, approved>> /\ pc[t] = "erase" /\ nvs' \in {nvs, None}
        /\ \/ nvs' = None /\ next = "erased"
           \/ Faults /\ next = "failed"
    BY <1>0, <1>2, <1>3, <1>8 DEF ResetErase, FinishStep, Goto, PowerInv
  <2>2. ApprovedInv'
    BY <1>1, <1>3, <1>6, <2>1 DEF ApprovedInv
  <2>3. ~Faults => WipeInv'
    BY <2>1 DEF WipeInv
  <2>4. QED
    BY <2>1, <2>2, <2>3
<1>9. CASE ResetDone(t)
  <2> DEFINE d == [ble EXCEPT !.owner = None, !.recovery = FALSE, !.reset = FALSE]
  <2>1. /\ UNCHANGED <<nvs, bond, link>> /\ approved' = {} /\ pc[t] = "erased" /\ next = "idle"
        /\ ble' = schedule_stock_control(d)
    BY <1>0, <1>2, <1>3, <1>9 DEF ResetDone, FinishStep, Goto, PowerInv, durable
  <2>2. d \in BleType /\ d.owner = None /\ d.connected = ble.connected
    BY <1>0 DEF BleType
  <2> HIDE DEF d
  <2>3. ble'.owner = None /\ ble'.connected = ble.connected
    <3>1. SameSession(d, ble')
      BY <2>1, <2>2, ScheduleIs
    <3>2. QED
      BY <2>2, <3>1 DEF SameSession
  <2>4. bond = None /\ ~(ble.connected /\ link.sec = "secure")
    BY <1>1, <2>1 DEF ApprovedInv
  <2>5. ApprovedInv'
    BY <1>1, <1>3, <1>6, <2>1, <2>3, <2>4 DEF ApprovedInv
  <2>6. WipeInv => WipeInv'
    BY <1>3, <1>4, <2>1 DEF WipeInv
  <2>7. QED
    BY <2>1, <2>3, <2>4, <2>5, <2>6
<1>10. CASE ResetFailed(t)
  <2> DEFINE d == IF StockMode THEN [ble EXCEPT !.recovery = TRUE, !.reset = FALSE] ELSE ble
  <2>1. /\ UNCHANGED <<nvs, bond, link, approved>> /\ pc[t] = "failed" /\ next = "idle"
        /\ ble' = schedule_stock_control(d)
    BY <1>0, <1>2, <1>3, <1>10 DEF ResetFailed, FinishStep, Goto, PowerInv, durable
  <2>2. Faults /\ ~StockMode
    BY <1>0, <2>1 DEF ApprovedInv, Resets
  <2>3. d = ble
    BY <2>2
  <2> HIDE DEF d
  <2>4. ble'.reset = ble.reset /\ ble'.connected = ble.connected
    <3>1. SameSession(ble, ble')
      BY <1>0, <2>1, <2>3, ScheduleIs
    <3>2. QED
      BY <3>1 DEF SameSession
  <2>5. ApprovedInv'
    BY <1>1, <1>3, <1>6, <2>1, <2>4 DEF ApprovedInv
  <2>6. WipeInv => WipeInv'
    BY <1>3, <1>4, <2>1 DEF WipeInv
  <2>7. QED
    BY <2>4, <2>5, <2>6
<1>11. QED
  BY <1>7, <1>8, <1>9, <1>10 DEF Finish

LEMMA PowerLets ==
    ASSUME BleInv, ApprovedInv, PowerFails \/ \E readable \in BOOLEAN : Boot(readable)
    PROVE  ApprovedInv' /\ WipeInv' /\ ~(up' /\ ble.reset)
<1>1. UNCHANGED <<bond, approved>> /\ Still'
  BY DEF PowerFails, Boot, Still, durable, queues, locals, BleInv, PowerInv
<1>2. /\ pc'["worker"] = "idle" /\ pc'["ui"] = "idle" /\ link'.sec = "plain"
  BY <1>1 DEF Still, NoLink
<1>3. ~Resetting'
  BY <1>2 DEF Resetting, Finishing
<1>4. ~(up' /\ ble.reset)
  BY ZeroBleIs DEF PowerFails, Boot, BleInv, PowerInv
<1>5. QED
  BY <1>1, <1>2, <1>3, <1>4 DEF ApprovedInv, WipeInv

\* A step that does not go on with a reset leaves what it erased erased.
LEMMA WipeKept ==
    ASSUME WipeInv, ResetStays, ~Faults
    PROVE  WipeInv'
BY DEF WipeInv, ResetStays, RecordGoesOn

\* What a reset that ends well leaves behind.
Wiped ==
    up' /\ ble.reset /\ ~ble'.reset /\ ~ble'.recovery =>
        /\ bond' = None /\ ble'.owner = None
        /\ nvs' = None \/ pc["worker"] = "own"

LEMMA NextLets ==
    ASSUME Resets, BleInv, ApprovedInv, [Next]_vars
    PROVE  /\ ApprovedInv'
           /\ WipeInv /\ ~Faults => WipeInv' /\ Wiped
<1>0. TypeOK
  BY DEF BleInv
<1>1. CASE UNCHANGED vars
  <2>1. UNCHANGED <<bond, nvs, approved, link, ble, pc, uwork>>
    BY <1>1 DEF vars, durable, host, locals
  <2>2. ApprovedInv'
    BY <2>1 DEF ApprovedInv, Resetting, Finishing
  <2>3. WipeInv => WipeInv' /\ Wiped
    BY <2>1 DEF WipeInv, Wiped
  <2>4. QED
    BY <2>2, <2>3
<1>2. CASE \/ HostTask \/ UiTask \/ on_tick
           \/ WorkerTask /\ ~Finish("worker")
  <2>1. ApprovedInv' /\ ResetStays
    <3>1. CASE on_tick
      <4>1. UNCHANGED <<bond, nvs, approved, link, ble, pc, uwork>>
        BY <3>1 DEF on_tick, durable, host, locals
      <4>2. Ordinary
        BY <4>1 DEF Ordinary, ResetStays, RecordGoesOn, Resetting, Finishing
      <4>3. QED
        BY <4>2, OrdinaryKept
    <3>2. QED
      BY <1>2, <3>1, HostTaskLets, UiTaskLets, WorkerTaskLets
  <2>2. Wiped
    BY <2>1 DEF Wiped, ResetStays
  <2>3. QED
    BY <2>1, <2>2, WipeKept
<1>3. CASE PowerFails \/ \E readable \in BOOLEAN : Boot(readable)
  BY <1>3, PowerLets DEF Wiped
<1>4. CASE Finish("ui") \/ Finish("worker")
  <2>1. PICK t \in {"worker", "ui"} : Finish(t)
    BY <1>4
  <2>2. /\ ApprovedInv'
        /\ WipeInv /\ ~Faults => WipeInv'
        /\ ble.reset /\ ~ble'.reset =>
              bond' = None /\ ble'.owner = None /\ pc[t] = "erased" /\ nvs' = nvs
    BY <2>1, FinishLets
  <2>3. WipeInv => Wiped
    BY <2>2 DEF WipeInv, Wiped
  <2>4. QED
    BY <2>2, <2>3
<1>5. QED
  BY <1>1, <1>2, <1>3, <1>4 DEF Next

LEMMA LetsInit == Init => ApprovedInv /\ WipeInv
<1> SUFFICES ASSUME Init PROVE ApprovedInv /\ WipeInv
  OBVIOUS
<1>1. /\ bond \in approved \cup {None} /\ link.sec = "plain"
      /\ pc["worker"] = "idle" /\ pc["ui"] = "idle"
  BY DEF Init, NoLink
<1>2. QED
  BY <1>1 DEF ApprovedInv, WipeInv, Resetting, Finishing

-----------------------------------------------------------------------------
\* Every variable of the link has its type in every behaviour, and neither
\* queue ever holds more than WALLET_BLE_QUEUE_LENGTH pieces of work: xQueueSend
\* is never answered by an overrun.
THEOREM TypeCorrect == Spec => []TypeOK
<1>1. BleInv => TypeOK
  BY DEF BleInv
<1>2. QED
  BY <1>1, BleInvAlways, PTL

\* s_ble.secure, the gate of every write to the wallet service, is only set
\* while the live link is encrypted and its phone is the owner that both s_ble
\* and NVS name, with no reset and no recovery pending, whatever the host, the
\* worker, the user interface, NVS and the power do in between.
THEOREM SessionIsOwners == Spec => []SecureIsOwner
<1>1. BleInv => SecureIsOwner
  BY DEF BleInv
<1>2. QED
  BY <1>1, BleInvAlways, PTL

\* Whenever execute_transfer is not inside a store call, a transfer that would
\* admit DATA or COMMIT has its upload staged, of the announced length and
\* written up to the offset that it expects next.
THEOREM UploadsAgree == Spec => []UploadAgrees
<1>1. BleInv => UploadAgrees
  BY DEF BleInv
<1>2. QED
  BY <1>1, BleInvAlways, PTL

\* Nobody is bonded or let in whose passkey was not released on the device after
\* the last completed reset, whatever races the pairing, as long as the stock
\* service and failures of NVS do not come together: with both, a reset that
\* fails is given up (wallet_ble.c, finish_owner_reset) although another may
\* be under way, and the claim is false.
THEOREM OwnersApproved == ASSUME ~(StockMode /\ Faults) PROVE Spec => []OwnerApproved
<1>1. Resets
  BY DEF Resets
<1>2. BleInv /\ ApprovedInv /\ [Next]_vars => ApprovedInv'
  BY <1>1, NextLets
<1>3. Spec => []ApprovedInv
  BY <1>2, LetsInit, BleInvAlways, PTL DEF Spec
<1>4. BleInv /\ ApprovedInv => OwnerApproved
  BY DEF BleInv, SecureIsOwner, ApprovedInv, OwnerApproved
<1>5. QED
  BY <1>3, <1>4, BleInvAlways, PTL

\* A reset that ends well, as s_ble tells it, has taken the bond, the owner and
\* the record, but for a record that the worker is about to take back; NVS that
\* fails may keep one.
THEOREM ResetsWipe == ASSUME ~Faults PROVE Spec => ResetWipes
<1>1. Resets
  BY DEF Resets
<1>2. BleInv /\ ApprovedInv /\ WipeInv /\ [Next]_vars => ApprovedInv' /\ WipeInv'
  BY <1>1, NextLets
<1>3. BleInv /\ ApprovedInv /\ WipeInv /\ [Next]_vars => [Wiped]_vars
  BY <1>1, NextLets
<1>4. Spec => [](BleInv /\ ApprovedInv /\ WipeInv)
  BY <1>2, LetsInit, BleInvAlways, PTL DEF Spec
<1>5. QED
  BY <1>3, <1>4, PTL DEF Spec, ResetWipes, Wiped
=============================================================================
