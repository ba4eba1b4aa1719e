------------------------- MODULE PassportScreenProofs -------------------------
(* Proofs about PassportScreen, for every value of its constants. *)
EXTENDS PassportScreen, TLAPS, SequenceTheorems

LEMMA Numbers ==
    /\ FrameSize \in Nat /\ FrameSize > 0 /\ MaxData \in Nat /\ MaxData > 0
    /\ Width \in Nat /\ Width > 0 /\ Retries \in Nat /\ Strips \in Nat /\ Strips > 0
BY ScreenShotAssumption, PassportScreenAssumption

LEMMA Bounds == MaxSessions \in Nat /\ MaxShots \in Nat /\ Len(Book) \in Nat
BY LenProperties, PassportScreenAssumption

-----------------------------------------------------------------------------
(* The session *)

\* A session in which nothing is sent any more agrees with whatever was heard.
Over(s, n) ==
    /\ s \in ShotType /\ s.phase \notin Active /\ ~s.awaiting /\ s.packet = NoPacket
    /\ s.session <= n

LEMMA NoShotIs ==
    ASSUME NEW n \in Nat
    PROVE  Over(NoShot, n) /\ NoShot.phase = "IDLE"
BY Numbers DEF Over, NoShot, ShotType, Phase, Active, Sending

\* A new session with a phase and a number.
Numbered(phase, n) == [NoShot EXCEPT !.phase = phase, !.session = n]

LEMMA NumberedShot ==
    ASSUME NEW phase \in Phase, NEW n \in Nat
    PROVE  LET r == Numbered(phase, n)
           IN  /\ r \in ShotType /\ r.phase = phase /\ r.session = n /\ r.sequence = 0
               /\ r.offset = 0 /\ r.packet = NoPacket /\ ~r.awaiting
<1> DEFINE q == [NoShot EXCEPT !.phase = phase]
           r == [q EXCEPT !.session = n]
<1>1. NoShot \in ShotType
  BY NoShotIs DEF Over
<1>2. q \in ShotType
  BY <1>1 DEF ShotType
<1>3. /\ q.phase = phase /\ q.sequence = 0 /\ q.offset = 0 /\ q.packet = NoPacket
      /\ ~q.awaiting
  BY DEF NoShot
<1> HIDE DEF q
<1>4. r \in ShotType
  BY <1>2 DEF ShotType
<1>5. /\ r.phase = phase /\ r.session = n /\ r.sequence = 0 /\ r.offset = 0
      /\ r.packet = NoPacket /\ ~r.awaiting
  BY <1>2, <1>3 DEF ShotType
<1> HIDE DEF r
<1>6. Numbered(phase, n) = r
  BY DEF q, r, Numbered
<1>7. QED
  BY <1>4, <1>5, <1>6

LEMMA FailedIs ==
    ASSUME NEW s \in ShotType, NEW n \in Nat, s.session <= n
    PROVE  Over(Failed(s), n) /\ Failed(s).phase = "FAILED"
<1>1. s.session \in Nat /\ "FAILED" \in Phase
  BY DEF ShotType, Phase
<1>2. /\ Failed(s) \in ShotType /\ Failed(s).phase = "FAILED"
      /\ Failed(s).session = s.session /\ Failed(s).packet = NoPacket /\ ~Failed(s).awaiting
  <2>1. Failed(s) = Numbered("FAILED", s.session)
    BY DEF Failed, Numbered
  <2>2. QED
    BY <1>1, <2>1, NumberedShot
<1>3. QED
  BY <1>2 DEF Over, Active, Sending

LEMMA OverSession ==
    ASSUME NEW s, NEW h, NEW n, Over(s, n), h # NoPacket => h.session <= n
    PROVE  SessionOf(s, h, n)
BY DEF Over, SessionOf, Active, Sending

\* What a command makes of the session s: r.
CommandLeaves(s, h, n, a) ==
    LET r == a.shot
    IN  /\ r \in ShotType /\ SessionOf(r, h, n)
        /\ \/ r = s /\ ~a.release /\ ~a.capture
           \/ a.release /\ ~a.capture /\ r.phase \notin Active
           \/ ~a.release /\ ~a.capture /\ {s.phase, r.phase} \subseteq Sending
           \/ a.release /\ a.capture /\ r.phase = "CAPTURING" /\ s.phase \notin Active

LEMMA AnswerLeaves ==
    ASSUME NEW s \in ShotType, NEW h, NEW n, SessionOf(s, h, n), NEW status
    PROVE  CommandLeaves(s, h, n, Answer(s, status))
BY DEF CommandLeaves, Answer, Step

LEMMA StartLeaves ==
    ASSUME NEW s \in ShotType, NEW h \in Packet \cup {NoPacket}, NEW n \in Nat,
           SessionOf(s, h, n)
    PROVE  CommandLeaves(s, h, n + 1, StartShot(s, n + 1))
<1> DEFINE r == Numbered("CAPTURING", n + 1)
<1>1. SessionOf(s, h, n + 1)
  <2>1. s.session <= n + 1 /\ (h # NoPacket => h.session <= n + 1)
    BY DEF SessionOf, ShotType, Packet
  <2>2. QED
    BY <2>1 DEF SessionOf
<1>2. n + 1 \in Nat /\ n + 1 # 0 /\ "CAPTURING" \in Phase
  BY DEF Phase
<1>3. /\ r \in ShotType /\ r.phase = "CAPTURING" /\ r.session = n + 1
      /\ r.packet = NoPacket /\ ~r.awaiting /\ r.offset = 0 /\ r.sequence = 0
  BY <1>2, NumberedShot
<1>4. StartShot(s, n + 1) = IF s.phase \in Active THEN Answer(s, "0x1b")
                            ELSE IF n + 1 = 0 THEN Answer(s, "0x1c")
                            ELSE Step(r, "NONE", TRUE, TRUE)
  BY Zenon DEF StartShot, Numbered
<1> HIDE DEF r
<1>5. CASE s.phase \in Active
  <2>1. StartShot(s, n + 1) = Answer(s, "0x1b")
    BY <1>4, <1>5
  <2>2. QED
    BY <1>1, <2>1, AnswerLeaves
<1>6. CASE s.phase \notin Active
  <2>1. Older(h, r)
    BY <1>3 DEF Older, SessionOf, Packet
  <2>2. SessionOf(r, h, n + 1)
    BY <1>1, <1>3, <2>1 DEF SessionOf, Active, Sending
  <2>3. StartShot(s, n + 1) = Step(r, "NONE", TRUE, TRUE)
    BY <1>2, <1>4, <1>6
  <2>4. QED
    BY <1>3, <1>6, <2>2, <2>3 DEF CommandLeaves, Step
<1>7. QED
  BY <1>5, <1>6

LEMMA Modulo ==
    ASSUME NEW x \in Nat, NEW y \in Nat, y > 0
    PROVE  x % y \in Nat /\ x % y < y /\ (x < y => x % y = x)
OBVIOUS

\* A packet that is acknowledged is forgotten, and the next number is due.
Answered(s) ==
    [s EXCEPT !.awaiting = FALSE, !.retries = 0, !.packet = NoPacket, !.late = FALSE,
              !.sequence = (@ + 1) % Width]

LEMMA AnsweredIs ==
    ASSUME NEW s \in ShotType
    PROVE  LET r == Answered(s)
           IN  /\ r \in ShotType /\ r.packet = NoPacket /\ ~r.awaiting
               /\ r.sequence = (s.sequence + 1) % Width
               /\ r.phase = s.phase /\ r.session = s.session /\ r.offset = s.offset
<1> DEFINE q1 == [s EXCEPT !.awaiting = FALSE]
           q2 == [q1 EXCEPT !.retries = 0]
           q3 == [q2 EXCEPT !.packet = NoPacket]
           q4 == [q3 EXCEPT !.late = FALSE]
           r == [q4 EXCEPT !.sequence = (@ + 1) % Width]
<1>1. /\ q1 \in ShotType /\ ~q1.awaiting /\ q1.sequence = s.sequence
      /\ q1.phase = s.phase /\ q1.session = s.session /\ q1.offset = s.offset
  BY DEF ShotType
<1> HIDE DEF q1
<1>2. /\ q2 \in ShotType /\ ~q2.awaiting /\ q2.sequence = s.sequence
      /\ q2.phase = s.phase /\ q2.session = s.session /\ q2.offset = s.offset
  BY <1>1, Numbers DEF ShotType
<1> HIDE DEF q2
<1>3. /\ q3 \in ShotType /\ ~q3.awaiting /\ q3.sequence = s.sequence /\ q3.packet = NoPacket
      /\ q3.phase = s.phase /\ q3.session = s.session /\ q3.offset = s.offset
  BY <1>2 DEF ShotType
<1> HIDE DEF q3
<1>4. /\ q4 \in ShotType /\ ~q4.awaiting /\ q4.sequence = s.sequence /\ q4.packet = NoPacket
      /\ q4.phase = s.phase /\ q4.session = s.session /\ q4.offset = s.offset
  BY <1>3 DEF ShotType
<1> HIDE DEF q4
<1>5. (s.sequence + 1) % Width \in Nat
  <2>1. s.sequence + 1 \in Nat
    BY DEF ShotType
  <2>2. QED
    BY <2>1, Numbers, Modulo
<1> DEFINE k == (s.sequence + 1) % Width
<1>6. r = [q4 EXCEPT !.sequence = k]
  BY <1>4
<1> HIDE DEF k, r
<1>7. /\ r \in ShotType /\ ~r.awaiting /\ r.sequence = k /\ r.packet = NoPacket
      /\ r.phase = s.phase /\ r.session = s.session /\ r.offset = s.offset
  BY <1>4, <1>5, <1>6 DEF ShotType, k
<1>8. Answered(s) = r
  BY DEF Answered, r, q4, q3, q2, q1
<1>9. QED
  BY <1>7, <1>8 DEF k

\* Where the session s goes when its packet is acknowledged.
LEMMA AckedIs ==
    ASSUME NEW s \in ShotType, NEW h, NEW n, SessionOf(s, h, n), s.awaiting
    PROVE  LET r == Acked(s).shot
               next == s.offset + s.packet.pixels
           IN  /\ r \in ShotType /\ r.session = s.session /\ r.packet = NoPacket /\ ~r.awaiting
               /\ s.phase \in Sending /\ ~Acked(s).capture /\ next \in 0 .. FrameSize
               /\ s.phase = "END" => r.phase = "COMPLETE" /\ Acked(s).release
               /\ s.phase # "END" =>
                    /\ r.sequence = (s.sequence + 1) % Width /\ r.offset = next
                    /\ ~Acked(s).release
               /\ s.phase = "BEGIN" => r.phase = "DATA" /\ next = 0
               /\ s.phase = "DATA" => r.phase = IF next = FrameSize THEN "END" ELSE "DATA"
<1> DEFINE t == Answered(s)
           next == s.offset + s.packet.pixels
<1>1. /\ t \in ShotType /\ t.packet = NoPacket /\ ~t.awaiting
      /\ t.sequence = (s.sequence + 1) % Width
      /\ t.phase = s.phase /\ t.session = s.session /\ t.offset = s.offset
  BY AnsweredIs
<1>2. s.phase \in Sending /\ PacketOf(s.packet, s) /\ s.packet \in Packet
  BY DEF SessionOf, ShotType
<1>3. next \in 0 .. FrameSize /\ (s.phase = "BEGIN" => next = 0)
  <2>1. s.offset \in Nat /\ s.packet.pixels \in Nat /\ FrameSize \in Nat
    BY <1>2, Numbers DEF ShotType, Packet
  <2>2. next <= FrameSize /\ (s.phase = "BEGIN" => s.packet.pixels = 0 /\ s.offset = 0)
    BY <1>2 DEF PacketOf, SessionOf
  <2>3. QED
    BY <2>1, <2>2
<1> HIDE DEF t
<1>4. Acked(s) =
        IF s.phase = "END" THEN Step(Numbered("COMPLETE", s.session), "OK", FALSE, TRUE)
        ELSE IF s.phase = "BEGIN" THEN Silent([t EXCEPT !.phase = "DATA"])
        ELSE Silent([t EXCEPT !.offset = next, !.packets = (@ + 1) % Width,
                              !.phase = IF next = FrameSize THEN "END" ELSE @])
  BY Zenon DEF Acked, t, Answered, Numbered
<1> HIDE DEF next
<1>5. CASE s.phase = "END"
  <2>1. Acked(s) = Step(Numbered("COMPLETE", s.session), "OK", FALSE, TRUE)
    BY <1>4, <1>5
  <2>2. s.session \in Nat /\ "COMPLETE" \in Phase
    BY DEF ShotType, Phase
  <2>3. LET r == Numbered("COMPLETE", s.session)
        IN  /\ r \in ShotType /\ r.phase = "COMPLETE" /\ r.session = s.session
            /\ r.packet = NoPacket /\ ~r.awaiting
    BY <2>2, NumberedShot
  <2>4. QED
    BY <2>1, <2>3, <1>2, <1>3, <1>5 DEF Step, next
<1>6. CASE s.phase = "BEGIN"
  <2> DEFINE r == [t EXCEPT !.phase = "DATA"]
  <2>1. Acked(s) = Step(r, "NONE", FALSE, FALSE)
    BY <1>4, <1>6 DEF Silent
  <2>2. r \in ShotType
    BY <1>1 DEF ShotType, Phase
  <2>3. /\ r.phase = "DATA" /\ r.packet = NoPacket /\ ~r.awaiting /\ r.session = s.session
        /\ r.sequence = (s.sequence + 1) % Width /\ r.offset = s.offset
    BY <1>1 DEF ShotType
  <2> HIDE DEF r
  <2>4. Acked(s).shot = r /\ ~Acked(s).capture /\ ~Acked(s).release
    BY <2>1 DEF Step
  <2>5. s.offset = 0
    BY <1>6 DEF SessionOf
  <2>6. QED
    BY <2>2, <2>3, <2>4, <2>5, <1>2, <1>3, <1>6 DEF next
<1>7. CASE s.phase = "DATA"
  <2> DEFINE q1 == [t EXCEPT !.offset = next]
             q2 == [q1 EXCEPT !.packets = (@ + 1) % Width]
             phase == IF next = FrameSize THEN "END" ELSE "DATA"
             r == [q2 EXCEPT !.phase = phase]
  <2>1. q1 \in ShotType
    BY <1>1, <1>3 DEF ShotType
  <2>2. /\ q1.phase = "DATA" /\ q1.packet = NoPacket /\ ~q1.awaiting
        /\ q1.session = s.session /\ q1.sequence = t.sequence /\ q1.offset = next
    BY <1>1, <1>7 DEF ShotType
  <2> HIDE DEF q1
  <2>3. (q1.packets + 1) % Width \in Nat
    <3>1. q1.packets + 1 \in Nat
      BY <2>1 DEF ShotType
    <3>2. QED
      BY <3>1, Numbers, Modulo
  <2> DEFINE k == (q1.packets + 1) % Width
  <2>4. q2 = [q1 EXCEPT !.packets = k]
    BY <2>1
  <2> HIDE DEF k, q2
  <2>5. /\ q2 \in ShotType /\ q2.phase = "DATA" /\ q2.packet = NoPacket /\ ~q2.awaiting
        /\ q2.session = s.session /\ q2.sequence = t.sequence /\ q2.offset = next
    BY <2>1, <2>2, <2>3, <2>4 DEF ShotType, k
  <2>6. phase \in Phase
    BY DEF Phase
  <2> HIDE DEF phase
  <2>7. /\ r \in ShotType /\ r.phase = phase /\ r.packet = NoPacket /\ ~r.awaiting
        /\ r.session = s.session /\ r.sequence = t.sequence /\ r.offset = next
    BY <2>5, <2>6 DEF ShotType
  <2>8. r = [t EXCEPT !.offset = next, !.packets = (@ + 1) % Width,
                      !.phase = IF next = FrameSize THEN "END" ELSE @]
    <3>1. r = [q2 EXCEPT !.phase = IF next = FrameSize THEN "END" ELSE @]
      BY <2>5 DEF phase
    <3>2. QED
      BY <3>1, <2>4 DEF q1, q2, k
  <2> HIDE DEF r
  <2>9. Acked(s) = Step(r, "NONE", FALSE, FALSE)
    BY <1>4, <1>7, <2>8 DEF Silent
  <2>10. Acked(s).shot = r /\ ~Acked(s).capture /\ ~Acked(s).release
    BY <2>9 DEF Step
  <2>11. QED
    BY <1>1, <1>2, <1>3, <1>7, <2>7, <2>10 DEF next, phase
<1>8. QED
  BY <1>2, <1>5, <1>6, <1>7 DEF Sending

LEMMA AckLeaves ==
    ASSUME NEW s \in ShotType, NEW h, NEW n, SessionOf(s, h, n), NEW sequence
    PROVE  CommandLeaves(s, h, n, Ack(s, sequence))
<1>1. CASE s.awaiting /\ sequence = s.sequence
  <2> DEFINE r == Acked(s).shot
             next == s.offset + s.packet.pixels
  <2>1. /\ r \in ShotType /\ r.session = s.session /\ r.packet = NoPacket /\ ~r.awaiting
        /\ s.phase \in Sending /\ ~Acked(s).capture /\ next \in 0 .. FrameSize
        /\ s.phase = "END" => r.phase = "COMPLETE" /\ Acked(s).release
        /\ s.phase # "END" => r.offset = next /\ ~Acked(s).release
        /\ s.phase = "BEGIN" => r.phase = "DATA" /\ next = 0
        /\ s.phase = "DATA" => r.phase = IF next = FrameSize THEN "END" ELSE "DATA"
    BY <1>1, AckedIs
  <2> HIDE DEF r, next
  <2>2. s.session <= n /\ s.session > 0 /\ (h # NoPacket => h.session <= n)
    BY <2>1 DEF SessionOf, Active
  <2>3. CASE s.phase = "END"
    <3>1. Over(r, n) /\ SessionOf(r, h, n)
      BY <2>1, <2>2, <2>3, OverSession DEF Over, Active, Sending
    <3>2. QED
      BY <2>1, <2>3, <3>1, <1>1 DEF CommandLeaves, Ack, r, Over
  <2>4. CASE s.phase # "END"
    <3>1. r.phase \in {"DATA", "END"} /\ (r.phase = "DATA" => r.offset < FrameSize)
          /\ (r.phase = "END" => r.offset = FrameSize)
      BY <2>1, <2>4, Numbers DEF Sending
    <3>2. SessionOf(r, h, n)
      BY <2>1, <2>2, <3>1 DEF SessionOf
    <3>3. QED
      BY <2>1, <2>4, <3>1, <3>2, <1>1 DEF CommandLeaves, Ack, r, Sending
  <2>5. QED
    BY <2>3, <2>4
<1>2. CASE ~(s.awaiting /\ sequence = s.sequence)
  BY <1>2, AnswerLeaves DEF Ack
<1>3. QED
  BY <1>1, <1>2

LEMMA EndShotLeaves ==
    ASSUME NEW s \in ShotType, NEW h, NEW n \in Nat, SessionOf(s, h, n), NEW op
    PROVE  CommandLeaves(s, h, n, EndShot(s, op))
<1>1. CASE (s.phase = "COMPLETE" /\ ~s.late) \/ (op = "CANCEL" /\ s.phase \in Active)
  <2>1. EndShot(s, op) = Step(NoShot, "OK", FALSE, TRUE)
    BY <1>1 DEF EndShot
  <2>2. Over(NoShot, n)
    BY NoShotIs
  <2>3. SessionOf(NoShot, h, n)
    <3>1. h # NoPacket => h.session <= n
      BY DEF SessionOf
    <3>2. QED
      BY <2>2, <3>1, OverSession
  <2>4. QED
    BY <2>1, <2>2, <2>3 DEF CommandLeaves, Step, Over
<1>2. CASE ~((s.phase = "COMPLETE" /\ ~s.late) \/ (op = "CANCEL" /\ s.phase \in Active))
  BY <1>2, AnswerLeaves DEF EndShot
<1>3. QED
  BY <1>1, <1>2

\* A command of the phone: START takes the number after the last one.
Commanded(s, p, n) == stock_shot_command(s, p, IF p.op = "START" THEN n + 1 ELSE n)

LEMMA CommandLeavesIs ==
    ASSUME NEW s \in ShotType, NEW h \in Packet \cup {NoPacket}, NEW n \in Nat,
           SessionOf(s, h, n), NEW p, p.op \in {"BAD", "START", "ACK", "DONE", "CANCEL"},
           NEW k, k = IF p.op = "START" THEN n + 1 ELSE n
    PROVE  CommandLeaves(s, h, k, Commanded(s, p, n))
<1>1. CASE p.op = "BAD"
  <2>1. Commanded(s, p, n) = Answer(s, "0x10")
    BY <1>1 DEF Commanded, stock_shot_command
  <2>2. QED
    BY <1>1, <2>1, AnswerLeaves
<1>2. CASE p.op = "START"
  <2>1. Commanded(s, p, n) = StartShot(s, n + 1)
    BY <1>2 DEF Commanded, stock_shot_command
  <2>2. QED
    BY <1>2, <2>1, StartLeaves
<1>3. CASE p.op \in {"ACK", "DONE", "CANCEL"}
  <2>1. Commanded(s, p, n) = IF p.session = 0 \/ p.session # s.session THEN Answer(s, "0x12")
                             ELSE IF p.op = "ACK" THEN Ack(s, p.sequence)
                             ELSE EndShot(s, p.op)
    BY <1>3 DEF Commanded, stock_shot_command
  <2>2. CASE p.session = 0 \/ p.session # s.session
    BY <1>3, <2>1, <2>2, AnswerLeaves
  <2>3. CASE ~(p.session = 0 \/ p.session # s.session) /\ p.op = "ACK"
    BY <1>3, <2>1, <2>3, AckLeaves
  <2>4. CASE ~(p.session = 0 \/ p.session # s.session) /\ p.op # "ACK"
    BY <1>3, <2>1, <2>4, EndShotLeaves
  <2>5. QED
    BY <2>2, <2>3, <2>4
<1>4. QED
  BY <1>1, <1>2, <1>3

\* The capture is there: the session begins to send.
LEMMA CapturedIs ==
    ASSUME NEW s \in ShotType, NEW h, NEW n, SessionOf(s, h, n), s.phase = "CAPTURING"
    PROVE  LET r == stock_shot_captured(s)
           IN  r \in ShotType /\ SessionOf(r, h, n) /\ r.phase = "BEGIN"
<1> DEFINE q1 == [s EXCEPT !.phase = "BEGIN"]
           q2 == [q1 EXCEPT !.pixels = TRUE]
           r == [q2 EXCEPT !.late = FALSE]
<1>1. q1 \in ShotType
  BY DEF ShotType, Phase
<1>2. /\ q1.phase = "BEGIN" /\ q1.session = s.session /\ q1.sequence = s.sequence
      /\ q1.offset = s.offset /\ q1.packet = s.packet /\ q1.awaiting = s.awaiting
  BY DEF ShotType
<1> HIDE DEF q1
<1>3. /\ q2 \in ShotType
      /\ q2.phase = "BEGIN" /\ q2.session = s.session /\ q2.sequence = s.sequence
      /\ q2.offset = s.offset /\ q2.packet = s.packet /\ q2.awaiting = s.awaiting
  BY <1>1, <1>2 DEF ShotType
<1> HIDE DEF q2
<1>4. /\ r \in ShotType
      /\ r.phase = "BEGIN" /\ r.session = s.session /\ r.sequence = s.sequence
      /\ r.offset = s.offset /\ r.packet = s.packet /\ r.awaiting = s.awaiting
  BY <1>3 DEF ShotType
<1> HIDE DEF r
<1>5. ~s.awaiting
  BY DEF SessionOf, Sending
<1>6. Older(h, s) => Older(h, r)
  BY <1>4 DEF Older
<1>7. SessionOf(r, h, n)
  BY <1>4, <1>5, <1>6 DEF SessionOf, Active
<1>8. QED
  BY <1>4, <1>7 DEF stock_shot_captured, r, q2, q1

LEMMA LateIs ==
    ASSUME NEW s \in ShotType
    PROVE  LET r == [s EXCEPT !.late = TRUE]
           IN  /\ r \in ShotType
               /\ r.phase = s.phase /\ r.session = s.session /\ r.sequence = s.sequence
               /\ r.offset = s.offset /\ r.packet = s.packet /\ r.awaiting = s.awaiting
<1> DEFINE r == [s EXCEPT !.late = TRUE]
<1>1. r \in ShotType
  BY DEF ShotType
<1>2. /\ r.phase = s.phase /\ r.session = s.session /\ r.sequence = s.sequence
      /\ r.offset = s.offset /\ r.packet = s.packet /\ r.awaiting = s.awaiting
  BY DEF ShotType
<1>3. QED
  BY <1>1, <1>2

\* A packet that is made now belongs to the session, and is not larger than it may be.
LEMMA FreshIs ==
    ASSUME NEW s \in ShotType, s.phase \in Sending, s.session > 0, NEW capacity \in Nat \ {0}
    PROVE  LET p == Fresh(s, capacity)
           IN  /\ p \in Packet /\ PacketOf(p, s)
               /\ s.phase = "DATA" => \/ p.pixels = capacity \/ p.pixels = MaxData
                                      \/ p.offset + p.pixels = FrameSize
<1> DEFINE room == IF capacity < MaxData THEN capacity ELSE MaxData
           rest == FrameSize - s.offset
           pixels == IF s.phase # "DATA" THEN 0 ELSE IF room < rest THEN room ELSE rest
           p == [kind |-> s.phase, session |-> s.session, sequence |-> s.sequence,
                 offset |-> s.offset, packets |-> s.packets, pixels |-> pixels]
<1>1. s.offset \in 0 .. FrameSize /\ s.session \in Nat \ {0} /\ s.sequence \in Nat
      /\ s.packets \in Nat
  BY DEF ShotType
<1>2. room \in Nat /\ rest \in Nat /\ (room = capacity \/ room = MaxData)
  BY <1>1, Numbers
<1>3. s.offset + rest = FrameSize
  BY <1>1, Numbers
<1> HIDE DEF room, rest
<1>4. /\ pixels \in Nat /\ s.offset + pixels <= FrameSize
      /\ s.phase # "DATA" => pixels = 0
      /\ s.phase = "DATA" => \/ pixels = capacity \/ pixels = MaxData
                             \/ s.offset + pixels = FrameSize
  BY <1>1, <1>2, <1>3, Numbers
<1>5. Fresh(s, capacity) = p
  BY DEF Fresh, room, rest
<1> HIDE DEF pixels
<1>6. /\ p \in Packet /\ p.kind = s.phase /\ p.session = s.session /\ p.sequence = s.sequence
      /\ p.offset = s.offset /\ p.pixels = pixels
  BY <1>1, <1>4 DEF Packet
<1> HIDE DEF p
<1>7. QED
  BY <1>4, <1>5, <1>6 DEF PacketOf

LEMMA NoPacketIsNone == NoPacket \notin Packet /\ NoPacket.kind = "NONE"
BY DEF NoPacket, Packet, Sending

\* The packet that is sent is the one that is kept, or a new one.
LEMMA PacketIs ==
    ASSUME NEW s \in ShotType, NEW h, NEW n, SessionOf(s, h, n), s.phase \in Sending,
           NEW capacity \in Nat \ {0}, NEW p, p = stock_shot_packet(s, capacity), p # NoPacket
    PROVE  /\ p \in Packet /\ PacketOf(p, s)
           /\ s.packet # NoPacket => p = s.packet
           /\ s.awaiting => s.retries < Retries
           /\ s.packet = NoPacket /\ s.phase = "DATA" =>
                \/ p.pixels = capacity \/ p.pixels = MaxData
                \/ p.offset + p.pixels = FrameSize
<1>1. ~(s.awaiting /\ (~s.late \/ s.retries >= Retries))
  BY DEF stock_shot_packet
<1>2. s.awaiting => s.retries < Retries
  BY <1>1, Numbers DEF ShotType
<1>3. s.packet # NoPacket => s.packet \in Packet /\ PacketOf(s.packet, s)
  BY DEF ShotType, SessionOf
<1>4. CASE s.packet # NoPacket
  <2>1. p = s.packet
    BY <1>1, <1>4 DEF stock_shot_packet
  <2>2. QED
    BY <1>2, <1>3, <1>4, <2>1
<1>5. CASE s.packet = NoPacket
  <2>1. p = Fresh(s, capacity)
    BY <1>1, <1>5 DEF stock_shot_packet
  <2>2. s.session > 0
    BY DEF SessionOf, Active
  <2>3. QED
    BY <1>2, <1>5, <2>1, <2>2, FreshIs
<1>6. QED
  BY <1>4, <1>5

\* A packet is sent, or sent again.
Sent(s, p) == stock_shot_mark_sent([s EXCEPT !.packet = p])

LEMMA SentIs ==
    ASSUME NEW s \in ShotType, NEW p \in Packet, s.awaiting => s.retries < Retries
    PROVE  LET r == Sent(s, p)
           IN  /\ r \in ShotType /\ r.packet = p /\ r.awaiting
               /\ r.phase = s.phase /\ r.session = s.session /\ r.sequence = s.sequence
               /\ r.offset = s.offset
<1> DEFINE q1 == [s EXCEPT !.packet = p]
           k == IF q1.awaiting THEN q1.retries + 1 ELSE q1.retries
           q2 == [q1 EXCEPT !.retries = k]
           q3 == [q2 EXCEPT !.awaiting = TRUE]
           r == [q3 EXCEPT !.late = FALSE]
<1>1. /\ q1 \in ShotType /\ q1.packet = p /\ q1.awaiting = s.awaiting
      /\ q1.phase = s.phase /\ q1.session = s.session /\ q1.sequence = s.sequence
      /\ q1.offset = s.offset /\ q1.retries = s.retries
  BY DEF ShotType
<1> HIDE DEF q1
<1>2. k \in 0 .. Retries
  BY <1>1, Numbers DEF ShotType
<1>3. q2 = [q1 EXCEPT !.retries = IF q1.awaiting THEN @ + 1 ELSE @]
  BY <1>1
<1> HIDE DEF k
<1>4. /\ q2 \in ShotType /\ q2.packet = p
      /\ q2.phase = s.phase /\ q2.session = s.session /\ q2.sequence = s.sequence
      /\ q2.offset = s.offset
  BY <1>1, <1>2 DEF ShotType
<1> HIDE DEF q2
<1>5. /\ q3 \in ShotType /\ q3.packet = p /\ q3.awaiting
      /\ q3.phase = s.phase /\ q3.session = s.session /\ q3.sequence = s.sequence
      /\ q3.offset = s.offset
  BY <1>4 DEF ShotType
<1>6. r = [q1 EXCEPT !.retries = IF q1.awaiting THEN @ + 1 ELSE @, !.awaiting = TRUE,
                     !.late = FALSE]
  BY <1>3
<1> HIDE DEF q3
<1>7. /\ r \in ShotType /\ r.packet = p /\ r.awaiting
      /\ r.phase = s.phase /\ r.session = s.session /\ r.sequence = s.sequence
      /\ r.offset = s.offset
  BY <1>5 DEF ShotType
<1> HIDE DEF r
<1>8. Sent(s, p) = r
  BY <1>6 DEF Sent, stock_shot_mark_sent, q1
<1>9. QED
  BY <1>7, <1>8

\* The session after it sent p, which the phone heard or not.
LEMMA SentSession ==
    ASSUME NEW s \in ShotType, NEW h \in Packet \cup {NoPacket}, NEW n, SessionOf(s, h, n),
           s.phase \in Sending, NEW p \in Packet, PacketOf(p, s),
           s.packet # NoPacket => p = s.packet, s.awaiting => s.retries < Retries,
           NEW k \in {h, p}
    PROVE  SessionOf(Sent(s, p), k, n)
<1> DEFINE r == Sent(s, p)
<1>1. /\ r \in ShotType /\ r.packet = p /\ r.awaiting
      /\ r.phase = s.phase /\ r.session = s.session /\ r.sequence = s.sequence
      /\ r.offset = s.offset
  BY SentIs
<1> HIDE DEF r
<1>2. p # NoPacket
  BY NoPacketIsNone
<1>3. r.session <= n /\ (k # NoPacket => k.session <= n)
  BY <1>1 DEF SessionOf, PacketOf
<1>4. PacketOf(p, r)
  BY <1>1 DEF PacketOf
<1>5. s.phase = "BEGIN" => Older(k, r) \/ k = p
  BY <1>1 DEF SessionOf, Older
<1>6. SessionOf(r, k, n)
  BY <1>1, <1>2, <1>3, <1>4, <1>5 DEF SessionOf, Sending, Active
<1>7. QED
  BY <1>6 DEF r

\* What is sent follows what the phone heard.
LEMMA SentFollows ==
    ASSUME NEW m, NEW s \in ShotType, NEW h \in Packet \cup {NoPacket}, NEW n,
           SessionOf(s, h, n), HeardBy(m, s, h),
           s.phase \in Sending, NEW p \in Packet, PacketOf(p, s),
           s.packet # NoPacket => p = s.packet
    PROVE  Follows(h, p)
<1>1. CASE s.phase = "BEGIN"
  <2>1. s.session > 0 /\ (Older(h, s) \/ h = s.packet)
    BY <1>1 DEF SessionOf, Active
  <2>2. CASE Older(h, s)
    BY <1>1, <2>1, <2>2 DEF Older, PacketOf, Follows, ShotType, Packet
  <2>3. CASE h = s.packet /\ h # NoPacket
    BY <2>3 DEF Follows
  <2>4. QED
    BY <2>1, <2>2, <2>3 DEF Older
<1>2. CASE s.phase \in {"DATA", "END"}
  <2>1. Behind(h, s) /\ s.sequence < Width /\ s.sequence \in Nat
    BY <1>2 DEF HeardBy, ShotType
  <2>2. p.offset = FrameSize <=> p.kind = "END"
    BY <1>2, Numbers DEF SessionOf, PacketOf, ShotType
  <2>3. CASE h = s.packet
    BY <2>1, <2>3 DEF Behind, Follows
  <2>4. CASE s.sequence = h.sequence + 1 /\ s.offset = h.offset + h.pixels
    <3>1. (h.sequence + 1) % Width = h.sequence + 1
      <4>1. h.sequence + 1 \in Nat /\ h.sequence + 1 < Width
        BY <2>1, <2>4
      <4>2. Width \in Nat /\ Width > 0
        BY Numbers
      <4>3. QED
        BY <4>1, <4>2, Modulo
    <3>2. QED
      BY <1>2, <2>1, <2>2, <2>4, <3>1 DEF Behind, PacketOf, Follows
  <2>5. QED
    BY <2>1, <2>3, <2>4 DEF Behind
<1>3. QED
  BY <1>1, <1>2 DEF Sending

LEMMA SentHeard ==
    ASSUME NEW m, Fits(m), NEW s \in ShotType, NEW h \in Packet \cup {NoPacket}, NEW n,
           SessionOf(s, h, n), HeardBy(m, s, h),
           s.phase \in Sending, NEW p \in Packet, PacketOf(p, s),
           s.packet # NoPacket => p = s.packet, s.awaiting => s.retries < Retries,
           s.packet = NoPacket /\ s.phase = "DATA" =>
                \/ p.pixels >= m \/ p.offset + p.pixels = FrameSize,
           NEW k \in {h, p}
    PROVE  HeardBy(m, Sent(s, p), k)
<1> DEFINE r == Sent(s, p)
<1>1. /\ r \in ShotType /\ r.packet = p /\ r.awaiting
      /\ r.phase = s.phase /\ r.session = s.session /\ r.sequence = s.sequence
      /\ r.offset = s.offset
  BY SentIs
<1> HIDE DEF r
<1>2. p # NoPacket
  BY NoPacketIsNone
<1>3. s.phase \in {"DATA", "END"} => Behind(k, r)
  <2>1. CASE k = p
    BY <1>1, <1>2, <2>1 DEF Behind, PacketOf
  <2>2. CASE k = h
    BY <1>1, <1>2, <2>2 DEF Behind, HeardBy
  <2>3. QED
    BY <2>1, <2>2
<1>4. s.phase = "DATA" => p.pixels >= m \/ p.offset + p.pixels = FrameSize
  BY <1>2 DEF HeardBy
<1>5. HeardBy(m, r, k)
  BY <1>1, <1>3, <1>4 DEF HeardBy, Sending
<1>6. QED
  BY <1>5 DEF r

\* What an acknowledgement may name is a packet that was heard.
LEMMA AckedWasHeard ==
    ASSUME NEW m, NEW s \in ShotType, NEW h \in Packet, NEW n,
           SessionOf(s, h, n), HeardBy(m, s, h), s.awaiting, h.session = s.session,
           s.sequence \in 0 .. h.sequence
    PROVE  h = s.packet
<1>1. s.phase \in Sending /\ s.packet # NoPacket /\ h # NoPacket
  BY NoPacketIsNone DEF SessionOf
<1>2. CASE s.phase = "BEGIN"
  BY <1>1, <1>2 DEF SessionOf, Older, ShotType, Packet
<1>3. CASE s.phase # "BEGIN"
  BY <1>1, <1>3 DEF HeardBy, Behind, Sending, ShotType, Packet
<1>4. QED
  BY <1>2, <1>3

LEMMA ProductLess ==
    ASSUME NEW m \in Nat, NEW a \in Int, NEW b \in Int, m * a < m * b
    PROVE  a < b
<1> SUFFICES ASSUME a >= b PROVE FALSE
  OBVIOUS
<1>1. m * (a - b) >= 0
  <2>1. a - b \in Nat
    OBVIOUS
  <2> DEFINE d == a - b
  <2> HIDE DEF d
  <2>2. m * d >= 0
    BY <2>1 DEF d
  <2>3. QED
    BY <2>2 DEF d
<1>2. m * (a - b) = m * a - m * b
  OBVIOUS
<1>3. m * a \in Int /\ m * b \in Int
  OBVIOUS
<1>4. QED
  BY <1>1, <1>2, <1>3

LEMMA AckedHeard ==
    ASSUME NEW m, Fits(m), NEW s \in ShotType, NEW h \in Packet, NEW n,
           SessionOf(s, h, n), HeardBy(m, s, h), s.awaiting, h = s.packet
    PROVE  HeardBy(m, Acked(s).shot, h)
<1> DEFINE r == Acked(s).shot
           next == s.offset + s.packet.pixels
<1>1. /\ r \in ShotType /\ r.session = s.session /\ r.packet = NoPacket
      /\ s.phase \in Sending /\ next \in 0 .. FrameSize
      /\ s.phase = "END" => r.phase = "COMPLETE"
      /\ s.phase # "END" => r.sequence = (s.sequence + 1) % Width /\ r.offset = next
      /\ s.phase = "BEGIN" => r.phase = "DATA" /\ next = 0
      /\ s.phase = "DATA" => r.phase = IF next = FrameSize THEN "END" ELSE "DATA"
  BY AckedIs
<1> HIDE DEF r
<1>2. h # NoPacket /\ PacketOf(h, s)
  BY NoPacketIsNone DEF SessionOf
<1>3. m \in Nat /\ m > 0 /\ m <= MaxData
  BY Numbers DEF Fits
<1>4. CASE s.phase = "END"
  <2>1. r.phase = "COMPLETE" /\ r.session = s.session
    BY <1>1, <1>4
  <2>2. h.kind = "END" /\ h.session = s.session
    BY <1>2, <1>4 DEF PacketOf
  <2>3. HeardBy(m, r, h)
    BY <2>1, <2>2 DEF HeardBy
  <2>4. QED
    BY <2>3 DEF r
<1>5. CASE s.phase # "END"
  <2>1. s.sequence + 1 < Width
    <3>1. CASE s.phase = "BEGIN"
      <4>1. s.sequence = 0
        BY <3>1 DEF SessionOf
      <4>2. 0 < m * (Width - 2)
        BY Numbers, <1>3 DEF Fits
      <4>3. m * 0 < m * (Width - 2) /\ Width - 2 \in Int
        BY <1>3, <4>2, Numbers
      <4>4. 0 < Width - 2
        BY <4>3, <1>3, ProductLess
      <4>5. QED
        BY <4>1, <4>4, Numbers
    <3>2. CASE s.phase = "DATA"
      <4>1. m * (s.sequence - 1) <= s.offset /\ s.offset < FrameSize /\ 0 < s.sequence
        BY <3>2 DEF HeardBy, SessionOf
      <4>2. s.sequence - 1 \in Int /\ Width - 2 \in Int /\ s.offset \in Int
        BY Numbers DEF ShotType
      <4>3. m * (s.sequence - 1) \in Int /\ m * (Width - 2) \in Int
        BY <1>3, <4>2
      <4>4. m * (s.sequence - 1) < m * (Width - 2)
        BY <4>1, <4>2, <4>3, Numbers DEF Fits
      <4>5. s.sequence - 1 < Width - 2
        BY <4>2, <4>4, <1>3, ProductLess
      <4>6. QED
        BY <4>5, Numbers DEF ShotType
    <3>3. QED
      BY <3>1, <3>2, <1>1, <1>5 DEF Sending
  <2>2. s.sequence \in Nat /\ s.sequence + 1 \in Nat /\ s.offset \in Nat
    BY DEF ShotType
  <2>3. r.sequence = s.sequence + 1
    BY <1>1, <1>5, <2>1, <2>2, Numbers, Modulo
  <2>4. Behind(h, r)
    BY <1>1, <1>2, <1>5, <2>3 DEF Behind, PacketOf
  <2>5. r.phase = "DATA" => m * (r.sequence - 1) <= r.offset
    <3>1. CASE s.phase = "BEGIN"
      <4>1. r.sequence - 1 = 0 /\ r.offset = 0
        BY <1>1, <2>3, <3>1, <1>5 DEF SessionOf
      <4>2. QED
        BY <4>1, <1>3
    <3>2. CASE s.phase = "DATA" /\ r.phase = "DATA"
      <4>1. r.offset = s.offset + h.pixels /\ r.offset # FrameSize
        BY <1>1, <1>5, <3>2
      <4>2. h.pixels >= m
        BY <1>2, <3>2, <4>1 DEF HeardBy, PacketOf
      <4>3. m * (s.sequence - 1) <= s.offset
        BY <3>2 DEF HeardBy
      <4>4. m * (r.sequence - 1) = m * (s.sequence - 1) + m
        BY <2>2, <2>3, <1>3
      <4>5. m * (s.sequence - 1) \in Int /\ h.pixels \in Nat
        BY <1>3, <2>2 DEF Packet
      <4>6. QED
        BY <4>1, <4>2, <4>3, <4>4, <4>5, <2>2, <1>3
    <3>3. QED
      BY <3>1, <3>2, <1>1, <1>5 DEF Sending
  <2>6. r.phase \in {"DATA", "END"}
    BY <1>1, <1>5 DEF Sending
  <2>7. HeardBy(m, r, h)
    BY <1>1, <2>1, <2>2, <2>3, <2>4, <2>5, <2>6 DEF HeardBy
  <2>8. QED
    BY <2>7 DEF r
<1>6. QED
  BY <1>4, <1>5 DEF r

-----------------------------------------------------------------------------
(* The capture *)

\* LVGL's observer, where it is installed, has a buffer.
Sound(c) == c \in CapType /\ (c.observer => c.stage # "none")

LEMMA EmptyFrame == <<>> \in Seq(Public) /\ Len(<<>>) = 0
BY EmptySeq

LEMMA NewCaptureIs ==
    /\ NewCapture \in CapType /\ ~NewCapture.cleanup /\ ~NewCapture.observer
    /\ NewCapture.strip = "disarmed" /\ NewCapture.stage = "none" /\ NewCapture.frame = <<>>
BY EmptyFrame DEF NewCapture, CapType

LEMMA ReleasesIs ==
    ASSUME NEW c, Sound(c), NEW d \in Releases(c), NEW s, s.phase \notin Active, NEW view
    PROVE  d \in CapType /\ CaptureOf(d, s, view) /\ (d.cleanup \/ d = NewCapture)
<1>1. CASE d = NewCapture
  BY <1>1, NewCaptureIs DEF CaptureOf, Held, Active
<1>2. CASE d = Kept(c)
  <2> DEFINE q1 == [NewCapture EXCEPT !.stage = c.stage]
             q2 == [q1 EXCEPT !.observer = c.observer]
             q3 == [q2 EXCEPT !.strip = c.strip]
             q4 == [q3 EXCEPT !.mapped = c.mapped]
             r == [q4 EXCEPT !.cleanup = TRUE]
  <2>1. /\ c.stage \in View \cup {"none"} /\ c.observer \in BOOLEAN /\ c.mapped \in BOOLEAN
        /\ c.strip \in {"disarmed", "collecting", "complete"}
        /\ (c.observer => c.stage # "none")
    BY DEF Sound, CapType
  <2>2. q1 \in CapType /\ q1.stage = c.stage
    BY <2>1, NewCaptureIs DEF CapType
  <2> HIDE DEF q1
  <2>3. q2 \in CapType /\ q2.stage = c.stage /\ q2.observer = c.observer
    BY <2>1, <2>2 DEF CapType
  <2> HIDE DEF q2
  <2>4. q3 \in CapType /\ q3.stage = c.stage /\ q3.observer = c.observer
    BY <2>1, <2>3 DEF CapType
  <2> HIDE DEF q3
  <2>5. q4 \in CapType /\ q4.stage = c.stage /\ q4.observer = c.observer
    BY <2>1, <2>4 DEF CapType
  <2> HIDE DEF q4
  <2>6. /\ r \in CapType /\ r.stage = c.stage /\ r.observer = c.observer /\ r.cleanup
    BY <2>1, <2>5 DEF CapType
  <2> HIDE DEF r
  <2>7. d = r
    BY <1>2 DEF Kept, r, q4, q3, q2, q1
  <2>8. CaptureOf(r, s, view)
    BY <2>1, <2>6 DEF CaptureOf, Active
  <2>9. QED
    BY <2>6, <2>7, <2>8
<1>3. QED
  BY <1>1, <1>2 DEF Releases

LEMMA ArmedIs ==
    ASSUME NEW c \in CapType
    PROVE  LET r == Armed(c)
           IN  /\ r \in CapType /\ r.strip = "collecting" /\ r.stage = "blank"
               /\ r.state = c.state /\ r.observer = c.observer /\ r.mapped = c.mapped
               /\ r.frame = c.frame /\ r.cleanup = c.cleanup
<1> DEFINE q1 == [c EXCEPT !.strip = "collecting"]
           q2 == [q1 EXCEPT !.stage = "blank"]
           r == [q2 EXCEPT !.late = FALSE]
<1>1. /\ q1 \in CapType /\ q1.strip = "collecting"
      /\ q1.state = c.state /\ q1.observer = c.observer /\ q1.mapped = c.mapped
      /\ q1.frame = c.frame /\ q1.cleanup = c.cleanup
  BY DEF CapType
<1> HIDE DEF q1
<1>2. /\ q2 \in CapType /\ q2.strip = "collecting" /\ q2.stage = "blank"
      /\ q2.state = c.state /\ q2.observer = c.observer /\ q2.mapped = c.mapped
      /\ q2.frame = c.frame /\ q2.cleanup = c.cleanup
  BY <1>1 DEF CapType, View
<1> HIDE DEF q2
<1>3. /\ r \in CapType /\ r.strip = "collecting" /\ r.stage = "blank"
      /\ r.state = c.state /\ r.observer = c.observer /\ r.mapped = c.mapped
      /\ r.frame = c.frame /\ r.cleanup = c.cleanup
  BY <1>2 DEF CapType
<1> HIDE DEF r
<1>4. Armed(c) = r
  BY DEF Armed, r, q2, q1
<1>5. QED
  BY <1>3, <1>4

LEMMA BrokenIs ==
    ASSUME NEW c, Sound(c)
    PROVE  Sound(Broken(c))
<1> DEFINE q == [c EXCEPT !.state = "ERROR"]
           r == [q EXCEPT !.strip = "disarmed"]
<1>1. q \in CapType /\ q.observer = c.observer /\ q.stage = c.stage
  BY DEF Sound, CapType
<1> HIDE DEF q
<1>2. r \in CapType /\ r.observer = c.observer /\ r.stage = c.stage
  BY <1>1 DEF CapType
<1> HIDE DEF r
<1>3. Broken(c) = r
  BY DEF Broken, r, q
<1>4. QED
  BY <1>2, <1>3 DEF Sound

LEMMA StartedIs ==
    LET r == Started(NewCapture)
    IN  /\ r \in CapType /\ r.strip = "collecting" /\ r.stage = "blank" /\ r.observer
        /\ r.frame = <<>> /\ ~r.cleanup
<1> DEFINE q1 == [NewCapture EXCEPT !.state = "BUSY"]
           q2 == [q1 EXCEPT !.observer = TRUE]
<1>1. q1 \in CapType /\ q1.frame = <<>> /\ ~q1.cleanup
  BY NewCaptureIs DEF CapType
<1> HIDE DEF q1
<1>2. q2 \in CapType /\ q2.frame = <<>> /\ ~q2.cleanup /\ q2.observer
  BY <1>1 DEF CapType
<1> HIDE DEF q2
<1>3. Started(NewCapture) = Armed(q2)
  BY DEF Started, q2, q1
<1>4. QED
  BY <1>2, <1>3, ArmedIs

LEMMA StartedCaptures ==
    ASSUME NEW s, s.phase = "CAPTURING", NEW view \in Public
    PROVE  CaptureOf(Started(NewCapture), s, view)
BY StartedIs, EmptyFrame, Numbers DEF CaptureOf, Held, Active, Sending

LEMMA NotStartedIs ==
    ASSUME NEW d \in NotStarted(NewCapture)
    PROVE  Sound(d)
<1>1. CASE d = NewCapture
  BY <1>1, NewCaptureIs DEF Sound
<1>2. CASE d = [NewCapture EXCEPT !.stage = "blank"]
  BY <1>2, NewCaptureIs DEF Sound, CapType, View
<1>3. CASE d = [Started(NewCapture) EXCEPT !.state = "ERROR", !.strip = "disarmed"]
  <2>1. Sound(Started(NewCapture))
    BY StartedIs DEF Sound
  <2>2. d = Broken(Started(NewCapture))
    BY <1>3 DEF Broken
  <2>3. QED
    BY <2>1, <2>2, BrokenIs
<1>4. QED
  BY <1>1, <1>2, <1>3 DEF NotStarted

\* A complete strip is added to the frame.
LEMMA WrittenIs ==
    ASSUME NEW c \in CapType, c.stage \in Public
    PROVE  LET r == Written(c)
           IN  /\ r \in CapType /\ r.strip = "disarmed" /\ r.stage = c.stage
               /\ r.state = c.state /\ r.observer = c.observer /\ r.mapped = c.mapped
               /\ r.cleanup = c.cleanup /\ Len(r.frame) = Len(c.frame) + 1
<1> DEFINE f == Append(c.frame, c.stage)
           q == [c EXCEPT !.frame = f]
           r == [q EXCEPT !.strip = "disarmed"]
<1>1. f \in Seq(Public) /\ Len(f) = Len(c.frame) + 1
  <2>1. c.frame \in Seq(Public)
    BY DEF CapType
  <2>2. QED
    BY <2>1, AppendProperties
<1>2. q = [c EXCEPT !.frame = Append(@, c.stage)]
  OBVIOUS
<1> HIDE DEF f
<1>3. /\ q \in CapType /\ q.frame = f /\ q.stage = c.stage
      /\ q.state = c.state /\ q.observer = c.observer /\ q.mapped = c.mapped
      /\ q.cleanup = c.cleanup
  BY <1>1 DEF CapType
<1>4. r = [c EXCEPT !.frame = Append(@, c.stage), !.strip = "disarmed"]
  BY <1>2
<1> HIDE DEF q
<1>5. /\ r \in CapType /\ r.strip = "disarmed" /\ r.frame = f /\ r.stage = c.stage
      /\ r.state = c.state /\ r.observer = c.observer /\ r.mapped = c.mapped
      /\ r.cleanup = c.cleanup
  BY <1>3 DEF CapType
<1> HIDE DEF r
<1>6. Written(c) = r
  BY <1>4 DEF Written
<1>7. QED
  BY <1>1, <1>5, <1>6

LEMMA MappedIs ==
    ASSUME NEW c \in CapType
    PROVE  LET r == Mapped(c)
           IN  /\ r \in CapType /\ r.strip = c.strip /\ r.stage = "none" /\ ~r.observer
               /\ r.mapped /\ r.frame = c.frame /\ r.cleanup = c.cleanup
<1> DEFINE q1 == [c EXCEPT !.state = "READY"]
           q2 == [q1 EXCEPT !.observer = FALSE]
           q3 == [q2 EXCEPT !.stage = "none"]
           r == [q3 EXCEPT !.mapped = TRUE]
<1>1. /\ q1 \in CapType /\ q1.strip = c.strip /\ q1.frame = c.frame
      /\ q1.cleanup = c.cleanup
  BY DEF CapType
<1> HIDE DEF q1
<1>2. /\ q2 \in CapType /\ q2.strip = c.strip /\ q2.frame = c.frame
      /\ q2.cleanup = c.cleanup /\ ~q2.observer
  BY <1>1 DEF CapType
<1> HIDE DEF q2
<1>3. /\ q3 \in CapType /\ q3.strip = c.strip /\ q3.frame = c.frame
      /\ q3.cleanup = c.cleanup /\ ~q3.observer /\ q3.stage = "none"
  BY <1>2 DEF CapType
<1> HIDE DEF q3
<1>4. /\ r \in CapType /\ r.strip = c.strip /\ r.frame = c.frame
      /\ r.cleanup = c.cleanup /\ ~r.observer /\ r.stage = "none" /\ r.mapped
  BY <1>3 DEF CapType
<1> HIDE DEF r
<1>5. Mapped(c) = r
  BY DEF Mapped, r, q3, q2, q1
<1>6. QED
  BY <1>4, <1>5

LEMMA UnmappedIs ==
    ASSUME NEW c \in CapType
    PROVE  Sound(Unmapped(c))
<1> DEFINE q1 == [c EXCEPT !.state = "ERROR"]
           q2 == [q1 EXCEPT !.observer = FALSE]
           r == [q2 EXCEPT !.stage = "none"]
<1>1. q1 \in CapType
  BY DEF CapType
<1> HIDE DEF q1
<1>2. q2 \in CapType /\ ~q2.observer
  BY <1>1 DEF CapType
<1> HIDE DEF q2
<1>3. r \in CapType /\ ~r.observer
  BY <1>2 DEF CapType
<1> HIDE DEF r
<1>4. Unmapped(c) = r
  BY DEF Unmapped, r, q2, q1
<1>5. QED
  BY <1>3, <1>4 DEF Sound

-----------------------------------------------------------------------------
(* What the parts of the invariant depend on *)

LEMMA CaptureSound ==
    ASSUME NEW c \in CapType, NEW s, NEW view, CaptureOf(c, s, view)
    PROVE  Sound(c)
BY DEF CaptureOf, Sound

\* While no strip is captured it does not matter what is on the screen.
LEMMA CaptureAnyView ==
    ASSUME NEW c, NEW s, NEW view, CaptureOf(c, s, view), s.phase # "CAPTURING", NEW other
    PROVE  CaptureOf(c, s, other)
BY DEF CaptureOf

\* Of the session only its phase matters to the capture, and to send is to send.
LEMMA CapturePhase ==
    ASSUME NEW c, NEW s, NEW view, CaptureOf(c, s, view), NEW r,
           r.phase = s.phase \/ {r.phase, s.phase} \subseteq Sending
    PROVE  CaptureOf(c, r, view)
BY DEF CaptureOf, Active, Sending

LEMMA LateSession ==
    ASSUME NEW s \in ShotType, NEW h, NEW n, SessionOf(s, h, n)
    PROVE  LET r == [s EXCEPT !.late = TRUE]
           IN  r \in ShotType /\ SessionOf(r, h, n) /\ r.phase = s.phase
<1> DEFINE r == [s EXCEPT !.late = TRUE]
<1>1. /\ r \in ShotType
      /\ r.phase = s.phase /\ r.session = s.session /\ r.sequence = s.sequence
      /\ r.offset = s.offset /\ r.packet = s.packet /\ r.awaiting = s.awaiting
  BY LateIs
<1> HIDE DEF r
<1>2. SessionOf(r, h, n)
  BY <1>1 DEF SessionOf, PacketOf, Older
<1>3. QED
  BY <1>1, <1>2 DEF r

LEMMA LateHeard ==
    ASSUME NEW s \in ShotType, NEW h, NEW m, HeardBy(m, s, h)
    PROVE  HeardBy(m, [s EXCEPT !.late = TRUE], h)
<1> DEFINE r == [s EXCEPT !.late = TRUE]
<1>1. /\ r.phase = s.phase /\ r.session = s.session /\ r.sequence = s.sequence
      /\ r.offset = s.offset /\ r.packet = s.packet
  BY LateIs
<1> HIDE DEF r
<1>2. HeardBy(m, r, h)
  BY <1>1 DEF HeardBy, Behind
<1>3. QED
  BY <1>2 DEF r

\* What is left of the locals of app_main when only a redraw is asked for.
UiKeeps(u, v) ==
    /\ v \in UiType /\ v.revision = u.revision /\ v.dimmed = u.dimmed /\ v.safe = u.safe
    /\ u.dirty => v.dirty

Marked(u, transfer, dirty) == [u EXCEPT !.transfer = transfer, !.dirty = dirty]

LEMMA MarkedIs ==
    ASSUME NEW u \in UiType, NEW transfer \in BOOLEAN, NEW dirty \in BOOLEAN,
           u.dirty => dirty
    PROVE  LET v == Marked(u, transfer, dirty)
           IN  UiKeeps(u, v) /\ v.image = u.image /\ v.dirty = dirty
<1> DEFINE q == [u EXCEPT !.transfer = transfer]
           v == [q EXCEPT !.dirty = dirty]
<1>1. /\ q \in UiType /\ q.revision = u.revision /\ q.dimmed = u.dimmed
      /\ q.safe = u.safe /\ q.image = u.image
  BY DEF UiType
<1> HIDE DEF q
<1>2. /\ v \in UiType /\ v.revision = u.revision /\ v.dimmed = u.dimmed
      /\ v.safe = u.safe /\ v.dirty = dirty /\ v.image = u.image
  BY <1>1 DEF UiType
<1> HIDE DEF v
<1>3. Marked(u, transfer, dirty) = v
  BY DEF Marked, v, q
<1>4. QED
  BY <1>2, <1>3 DEF UiKeeps

\* The pages stay as they are when only a redraw is asked for.
LEMMA PagesStay ==
    ASSUME RevealInv, PageWhole, UNCHANGED <<nav, lvgl, page, permit>>, UiKeeps(ui, ui')
    PROVE  RevealInv' /\ PageWhole'
BY DEF RevealInv, PageWhole, PrivateShown, Private, UiKeeps

\* What TypeOK says of the capture and its session is in their types.
ScalarsOK ==
    /\ link \in {0, sessions} /\ sessions \in 0 .. MaxSessions
    /\ last \in 0 .. sessions
    /\ {pairing, still} \subseteq BOOLEAN /\ store \in 0 .. Len(Book) /\ idle \in 0 .. 2
PagesOK ==
    /\ ui.revision \in 0 .. store
    /\ nav.page = 0 \/ nav.page < Counts(ui.revision)
    /\ lvgl.view = "page" <=> lvgl.page # NoPage
    /\ permit \in 0 .. store

LEMMA TypeOKIs ==
    ASSUME ShapeInv
    PROVE  TypeOK <=> /\ ScalarsOK /\ PagesOK /\ next_shot \in 0 .. MaxShots
                      /\ w \in {"poll", "tick", "capture", "send", "keys", "draw", "read",
                                "render"}
BY DEF ShapeInv, TypeOK, ScalarsOK, PagesOK, NavType, UiType, CapType, ShotType

\* The invariant, part by part.
ScreenParts ==
    /\ ShapeInv /\ ScalarsOK /\ PagesOK /\ next_shot \in 0 .. MaxShots
    /\ w \in {"poll", "tick", "capture", "send", "keys", "draw", "read", "render"}
    /\ LoopInv /\ RevealInv /\ PageWhole /\ CaptureInv /\ SendInv

LEMMA ScreenInvIs == ScreenInv <=> ScreenParts
BY TypeOKIs DEF ScreenInv, ScreenParts

LEMMA PartsNext == ScreenParts' => ScreenInv'
<1>1. ScreenParts => ScreenInv
  BY ScreenInvIs
<1>2. QED
  BY <1>1, PTL

-----------------------------------------------------------------------------
(* The phone, the worker and the clock *)

LEMMA OthersStep ==
    ASSUME ScreenInv, SessionStarts \/ SessionEnds \/ PairingChanges \/ Commits \/ TimePasses
    PROVE  ScreenInv'
<1>1. UNCHANGED <<heard, nav, ui, lvgl, page, permit, cap, shot, next_shot, still, w>>
  BY DEF SessionStarts, SessionEnds, PairingChanges, Commits, TimePasses, world, screen,
         capture, phone
<1>2. /\ ScalarsOK' /\ store' >= store /\ store' \in Nat /\ store \in Nat
  <2>1. ScalarsOK /\ Len(Book) \in Nat /\ MaxSessions \in Nat
    BY ScreenInvIs, Bounds DEF ScreenParts
  <2>2. CASE SessionStarts
    BY <1>1, <2>1, <2>2 DEF SessionStarts, world, ScalarsOK
  <2>3. CASE SessionEnds
    BY <1>1, <2>1, <2>3 DEF SessionEnds, world, ScalarsOK
  <2>4. CASE PairingChanges
    BY <1>1, <2>1, <2>4 DEF PairingChanges, phone, ScalarsOK
  <2>5. CASE Commits
    BY <1>1, <2>1, <2>5 DEF Commits, phone, ScalarsOK
  <2>6. CASE TimePasses
    BY <1>1, <2>1, <2>6 DEF TimePasses, phone, ScalarsOK
  <2>7. QED
    BY <2>2, <2>3, <2>4, <2>5, <2>6
<1>3. PagesOK'
  BY <1>1, <1>2, ScreenInvIs DEF ScreenParts, PagesOK
<1>4. ShapeInv' /\ CaptureInv' /\ SendInv'
  BY <1>1, ScreenInvIs DEF ScreenParts, ShapeInv, CaptureInv, SendInv
<1>5. LoopInv' /\ RevealInv' /\ PageWhole'
  BY <1>1, ScreenInvIs DEF ScreenParts, LoopInv, Frozen, RevealInv, PageWhole, PrivateShown, Private
<1>6. ScreenParts'
  BY <1>1, <1>2, <1>3, <1>4, <1>5, ScreenInvIs DEF ScreenParts
<1>7. QED
  BY <1>6, PartsNext

-----------------------------------------------------------------------------
(* The capture and its session *)

\* A step of the capture and its session: the screen is not touched.
LEMMA CaptureMoves ==
    ASSUME ScreenInv,
           UNCHANGED <<link, sessions, pairing, store, idle, nav, ui, lvgl, page, permit,
                       next_shot, still, last>>,
           heard' \in Packet \cup {NoPacket}, cap' \in CapType, shot' \in ShotType,
           CaptureOf(cap', shot', lvgl.view), SessionOf(shot', heard', next_shot),
           w' \in {"poll", "tick", "capture", "send", "keys", "draw", "read", "render"},
           LoopInv'
    PROVE  ScreenInv'
<1>1. ShapeInv' /\ ScalarsOK' /\ PagesOK'
  BY ScreenInvIs DEF ScreenParts, ShapeInv, ScalarsOK, PagesOK
<1>2. RevealInv' /\ PageWhole'
  BY ScreenInvIs DEF ScreenParts, RevealInv, PageWhole, PrivateShown, Private
<1>3. CaptureInv' /\ SendInv'
  BY ScreenInvIs DEF ScreenParts, CaptureInv, SendInv
<1>4. ScreenParts'
  BY <1>1, <1>2, <1>3, ScreenInvIs DEF ScreenParts
<1>5. QED
  BY <1>4, PartsNext

LEMMA ShotExpiresStep ==
    ASSUME ScreenInv, ShotExpires
    PROVE  ScreenInv'
<1>1. shot \in ShotType /\ SendInv /\ CaptureOf(cap, shot, lvgl.view)
  BY ScreenInvIs DEF ScreenParts, ShapeInv, CaptureInv
<1>2. shot' \in ShotType /\ SessionOf(shot', heard, next_shot) /\ shot'.phase = shot.phase
  BY <1>1, LateSession DEF ShotExpires, SendInv
<1>3. CaptureOf(cap, shot', lvgl.view)
  BY <1>1, <1>2, CapturePhase
<1>4. LoopInv'
  BY <1>2, ScreenInvIs DEF ScreenParts, ShotExpires, LoopInv, Frozen, screen
<1>5. heard \in Packet \cup {NoPacket} /\ cap \in CapType
  BY ScreenInvIs DEF ScreenParts, ShapeInv
<1>6. QED
  BY <1>2, <1>3, <1>4, <1>5, ScreenInvIs, CaptureMoves
     DEF ScreenParts, ShotExpires, phone, world, screen

LEMMA ObserverStep ==
    ASSUME ScreenInv, StripExpires \/ Flush
    PROVE  ScreenInv'
<1>1. /\ cap \in CapType /\ shot \in ShotType /\ SendInv /\ CaptureOf(cap, shot, lvgl.view)
      /\ heard \in Packet \cup {NoPacket} /\ lvgl.view \in View
  BY ScreenInvIs DEF ScreenParts, ShapeInv, CaptureInv
<1>2. /\ cap.strip = "collecting"
      /\ (shot.phase = "CAPTURING" /\ lvgl.view \in Public) \/ cap.cleanup
  BY <1>1 DEF StripExpires, Flush, CaptureOf
<1>3. cap' \in CapType /\ cap'.cleanup = cap.cleanup /\ CaptureOf(cap', shot, lvgl.view)
  <2>1. CASE StripExpires
    <3>1. cap' = [cap EXCEPT !.late = TRUE]
      BY <2>1 DEF StripExpires
    <3>2. cap' \in CapType
      BY <1>1, <3>1 DEF CapType
    <3>3. /\ cap'.strip = cap.strip /\ cap'.stage = cap.stage /\ cap'.observer = cap.observer
          /\ cap'.mapped = cap.mapped /\ cap'.frame = cap.frame /\ cap'.cleanup = cap.cleanup
      BY <1>1, <3>1 DEF CapType
    <3>4. QED
      BY <1>1, <3>2, <3>3 DEF CaptureOf, Held
  <2>2. CASE Flush
    <3> DEFINE q == [cap EXCEPT !.stage = lvgl.view]
    <3>1. cap' = [q EXCEPT !.strip = "complete"]
      BY <2>2 DEF Flush
    <3>2. /\ q \in CapType /\ q.stage = lvgl.view /\ q.observer = cap.observer
          /\ q.frame = cap.frame /\ q.cleanup = cap.cleanup
      BY <1>1 DEF CapType
    <3> HIDE DEF q
    <3>3. cap' \in CapType
      BY <3>1, <3>2 DEF CapType
    <3>4. /\ cap'.stage = lvgl.view /\ cap'.observer = cap.observer
          /\ cap'.frame = cap.frame /\ cap'.cleanup = cap.cleanup
      BY <3>1, <3>2 DEF CapType
    <3>5. CASE shot.phase = "CAPTURING" /\ lvgl.view \in Public
      <4>1. CaptureOf(cap', shot, lvgl.view)
        BY <1>1, <3>4, <3>5 DEF CaptureOf, Held, Active, Sending, Public
      <4>2. QED
        BY <3>3, <3>4, <4>1
    <3>6. CASE cap.cleanup
      <4>1. shot.phase \notin Active
        BY <1>1, <3>6 DEF CaptureOf
      <4>2. lvgl.view # "none"
        BY <1>1 DEF View
      <4>3. CaptureOf(cap', shot, lvgl.view)
        BY <3>4, <3>6, <4>1, <4>2 DEF CaptureOf, Active
      <4>4. QED
        BY <3>3, <3>4, <4>3
    <3>7. QED
      BY <1>2, <3>5, <3>6
  <2>3. QED
    BY <2>1, <2>2
<1>4. UNCHANGED <<phone, world, screen, shot, next_shot, still, w, last>>
  BY DEF StripExpires, Flush
<1>5. LoopInv'
  BY <1>3, <1>4, ScreenInvIs DEF ScreenParts, LoopInv, Frozen, screen
<1>6. QED
  BY <1>1, <1>3, <1>4, <1>5, ScreenInvIs, CaptureMoves DEF ScreenParts, phone, world, screen, SendInv

\* What the steps of the capture start from.
LEMMA CaptureFacts ==
    ASSUME ScreenInv
    PROVE  /\ cap \in CapType /\ shot \in ShotType /\ heard \in Packet \cup {NoPacket}
           /\ next_shot \in Nat /\ CaptureOf(cap, shot, lvgl.view) /\ Sound(cap)
           /\ SessionOf(shot, heard, next_shot) /\ shot.session <= next_shot
           /\ heard # NoPacket => heard.session <= next_shot
<1>1. /\ cap \in CapType /\ shot \in ShotType /\ heard \in Packet \cup {NoPacket}
      /\ CaptureOf(cap, shot, lvgl.view) /\ SessionOf(shot, heard, next_shot)
      /\ next_shot \in 0 .. MaxShots
  BY ScreenInvIs DEF ScreenParts, ShapeInv, CaptureInv, SendInv
<1>2. next_shot \in Nat
  BY <1>1, Bounds
<1>3. QED
  BY <1>1, <1>2, CaptureSound DEF SessionOf

\* A session that failed, and a capture that is given back or is still to be.
LEMMA FailIs ==
    ASSUME NEW s \in ShotType, NEW c, Sound(c), NEW h, NEW n \in Nat, s.session <= n,
           h # NoPacket => h.session <= n, Fail(s, c), NEW view
    PROVE  /\ cap' \in CapType /\ shot' \in ShotType /\ shot'.phase = "FAILED"
           /\ CaptureOf(cap', shot', view) /\ SessionOf(shot', h, n)
<1>1. shot' = Failed(s) /\ cap' \in Releases(c)
  BY DEF Fail
<1>2. Over(shot', n) /\ shot'.phase = "FAILED" /\ shot'.phase \notin Active
  BY <1>1, FailedIs DEF Active, Sending
<1>3. cap' \in CapType /\ CaptureOf(cap', shot', view)
  BY <1>1, <1>2, ReleasesIs
<1>4. QED
  BY <1>2, <1>3, OverSession DEF Over

LEMMA TurnLoop ==
    ASSUME Turn
    PROVE  LoopInv' /\ w' \in {"poll", "keys"}
BY DEF Turn, LoopInv, Frozen

LEMMA TickStep ==
    ASSUME ScreenInv, Tick
    PROVE  ScreenInv'
<1>1. /\ cap \in CapType /\ shot \in ShotType /\ heard \in Packet \cup {NoPacket}
      /\ next_shot \in Nat /\ CaptureOf(cap, shot, lvgl.view) /\ Sound(cap)
      /\ SessionOf(shot, heard, next_shot) /\ shot.session <= next_shot
      /\ heard # NoPacket => heard.session <= next_shot
  BY CaptureFacts
<1>2. PICK c \in Retried :
         \/ Fail(shot, c) /\ Turn
         \/ /\ cap' = c /\ UNCHANGED shot
            /\ \/ shot.phase = "CAPTURING" /\ w' = "capture"
               \/ shot.phase \in Sending /\ w' = "send"
               \/ Turn
  BY DEF Tick
<1>3. UNCHANGED <<phone, world, screen, next_shot, still, last>>
  BY DEF Tick
<1>4. Sound(c) /\ CaptureOf(c, shot, lvgl.view)
  <2>1. CASE cap.cleanup
    <3>1. shot.phase \notin Active
      BY <1>1, <2>1 DEF CaptureOf
    <3>2. c \in Releases(cap)
      BY <1>2, <2>1 DEF Retried
    <3>3. c \in CapType /\ CaptureOf(c, shot, lvgl.view)
      BY <1>1, <3>1, <3>2, ReleasesIs
    <3>4. QED
      BY <3>3, CaptureSound
  <2>2. CASE ~cap.cleanup
    BY <1>1, <1>2, <2>2 DEF Retried
  <2>3. QED
    BY <2>1, <2>2
<1>5. CASE Fail(shot, c) /\ Turn
  <2>1. /\ cap' \in CapType /\ shot' \in ShotType
        /\ CaptureOf(cap', shot', lvgl.view) /\ SessionOf(shot', heard, next_shot)
    BY <1>1, <1>4, <1>5, FailIs
  <2>2. LoopInv' /\ w' \in {"poll", "keys"}
    BY <1>5, TurnLoop
  <2>3. QED
    BY <1>1, <1>3, <2>1, <2>2, CaptureMoves DEF phone, world, screen
<1>6. CASE cap' = c /\ UNCHANGED shot
  <2>1. cap' \in CapType /\ CaptureOf(cap', shot', lvgl.view)
    BY <1>4, <1>6 DEF Sound
  <2>2. LoopInv' /\ w' \in {"poll", "keys", "capture", "send"}
    <3>1. CASE Turn
      BY <3>1, TurnLoop
    <3>2. CASE \/ shot.phase = "CAPTURING" /\ w' = "capture"
               \/ shot.phase \in Sending /\ w' = "send"
      BY <1>6, <3>2 DEF LoopInv
    <3>3. QED
      BY <1>2, <1>5, <3>1, <3>2
  <2>3. QED
    BY <1>1, <1>3, <1>6, <2>1, <2>2, CaptureMoves DEF phone, world, screen
<1>7. QED
  BY <1>2, <1>5, <1>6

LEMMA CapturePollStep ==
    ASSUME ScreenInv, CapturePoll
    PROVE  ScreenInv'
<1>1. /\ cap \in CapType /\ shot \in ShotType /\ heard \in Packet \cup {NoPacket}
      /\ next_shot \in Nat /\ CaptureOf(cap, shot, lvgl.view) /\ Sound(cap)
      /\ SessionOf(shot, heard, next_shot) /\ shot.session <= next_shot
      /\ heard # NoPacket => heard.session <= next_shot
  BY CaptureFacts
<1>2. shot.phase = "CAPTURING" /\ lvgl.view \in Public /\ ~cap.cleanup /\ Len(cap.frame) < Strips
  <2>1. shot.phase = "CAPTURING"
    BY ScreenInvIs DEF ScreenParts, LoopInv, CapturePoll
  <2>2. QED
    BY <1>1, <2>1 DEF CaptureOf, Active
<1>3. UNCHANGED <<phone, world, screen, next_shot, still, last>>
  BY DEF CapturePoll
<1> DEFINE c == Written(cap)
<1>4. \/ UNCHANGED <<shot, cap>> /\ Turn
      \/ Fail(shot, Broken(cap)) /\ Turn
      \/ cap.strip = "complete" /\ More(c) /\ cap' = Armed(c) /\ UNCHANGED shot /\ Turn
      \/ cap.strip = "complete" /\ (\E d \in {Broken(c), Unmapped(c), Mapped(c)} : Fail(shot, d))
         /\ Turn
      \/ cap.strip = "complete" /\ ~More(c) /\ cap' = Mapped(c)
         /\ shot' = stock_shot_captured(shot) /\ w' = "send"
  BY Zenon DEF CapturePoll
<1>5. cap.strip = "complete" =>
        /\ c \in CapType /\ c.strip = "disarmed" /\ c.stage = cap.stage
        /\ c.observer = cap.observer /\ c.cleanup = cap.cleanup
        /\ Len(c.frame) = Len(cap.frame) + 1
        /\ Sound(c)
  <2> SUFFICES ASSUME cap.strip = "complete"
               PROVE  /\ c \in CapType /\ c.strip = "disarmed" /\ c.stage = cap.stage
                      /\ c.observer = cap.observer /\ c.cleanup = cap.cleanup
                      /\ Len(c.frame) = Len(cap.frame) + 1
                      /\ Sound(c)
    OBVIOUS
  <2>1. cap.stage \in Public
    BY <1>1, <1>2 DEF CaptureOf
  <2>2. /\ c \in CapType /\ c.strip = "disarmed" /\ c.stage = cap.stage
        /\ c.observer = cap.observer /\ c.cleanup = cap.cleanup
        /\ Len(c.frame) = Len(cap.frame) + 1
    BY <1>1, <2>1, WrittenIs
  <2> HIDE DEF c
  <2>3. Sound(c)
    BY <1>1, <2>2 DEF Sound
  <2>4. QED
    BY <2>2, <2>3
<1> HIDE DEF c
<1>6. CASE UNCHANGED <<shot, cap>> /\ Turn
  <2>1. LoopInv' /\ w' \in {"poll", "keys"}
    BY <1>6, TurnLoop
  <2>2. QED
    BY <1>1, <1>3, <1>6, <2>1, CaptureMoves DEF phone, world, screen
<1>7. CASE cap.strip = "complete" /\ More(c) /\ cap' = Armed(c) /\ UNCHANGED shot /\ Turn
  <2>1. /\ cap' \in CapType /\ cap'.strip = "collecting" /\ cap'.frame = c.frame
        /\ cap'.cleanup = c.cleanup /\ cap'.stage = "blank"
    BY <1>5, <1>7, ArmedIs
  <2>2. Len(cap'.frame) < Strips
    BY <1>7, <2>1 DEF More
  <2>3. CaptureOf(cap', shot', lvgl.view)
    BY <1>2, <1>5, <1>7, <2>1, <2>2 DEF CaptureOf, Active, Sending
  <2>4. LoopInv' /\ w' \in {"poll", "keys"}
    BY <1>7, TurnLoop
  <2>5. QED
    BY <1>1, <1>3, <1>7, <2>1, <2>3, <2>4, CaptureMoves DEF phone, world, screen
<1>8. CASE cap.strip = "complete" /\ ~More(c) /\ cap' = Mapped(c)
           /\ shot' = stock_shot_captured(shot) /\ w' = "send"
  <2>1. /\ cap' \in CapType /\ cap'.strip = "disarmed" /\ cap'.frame = c.frame
        /\ ~cap'.cleanup /\ cap'.stage = "none" /\ ~cap'.observer /\ cap'.mapped
    BY <1>2, <1>5, <1>8, MappedIs
  <2>2. Len(cap'.frame) = Strips
    <3>1. ~(Len(c.frame) < Strips)
      BY <1>8 DEF More
    <3>2. Len(cap.frame) \in Nat
      BY <1>1, LenProperties DEF CapType
    <3>3. QED
      BY <1>2, <1>5, <1>8, <2>1, <3>1, <3>2, Numbers
  <2>3. shot' \in ShotType /\ SessionOf(shot', heard, next_shot) /\ shot'.phase = "BEGIN"
    BY <1>1, <1>2, <1>8, CapturedIs
  <2>4. CaptureOf(cap', shot', lvgl.view)
    BY <2>1, <2>2, <2>3 DEF CaptureOf, Active, Sending, Held
  <2>5. LoopInv'
    BY <1>8, <2>3 DEF LoopInv, Sending
  <2>6. QED
    BY <1>1, <1>3, <1>8, <2>1, <2>3, <2>4, <2>5, CaptureMoves DEF phone, world, screen
<1>9. ASSUME NEW d, Sound(d), Fail(shot, d), Turn
      PROVE  ScreenInv'
  <2>1. /\ cap' \in CapType /\ shot' \in ShotType
        /\ CaptureOf(cap', shot', lvgl.view) /\ SessionOf(shot', heard, next_shot)
    BY <1>1, <1>9, FailIs
  <2>2. LoopInv' /\ w' \in {"poll", "keys"}
    BY <1>9, TurnLoop
  <2>3. QED
    BY <1>1, <1>3, <2>1, <2>2, CaptureMoves DEF phone, world, screen
<1>10. CASE Fail(shot, Broken(cap)) /\ Turn
  <2>1. Sound(Broken(cap))
    BY <1>1, BrokenIs
  <2>2. QED
    BY <1>9, <1>10, <2>1
<1>11. CASE cap.strip = "complete"
            /\ (\E d \in {Broken(c), Unmapped(c), Mapped(c)} : Fail(shot, d)) /\ Turn
  <2>1. PICK d \in {Broken(c), Unmapped(c), Mapped(c)} : Fail(shot, d)
    BY <1>11
  <2>2. Sound(c) /\ c \in CapType
    BY <1>5, <1>11
  <2>3. Sound(Broken(c)) /\ Sound(Unmapped(c))
    BY <2>2, BrokenIs, UnmappedIs
  <2>4. Sound(Mapped(c))
    BY <2>2, MappedIs DEF Sound
  <2>5. QED
    BY <1>9, <1>11, <2>1, <2>3, <2>4
<1>12. QED
  BY <1>4, <1>6, <1>7, <1>8, <1>10, <1>11

LEMMA SendStep ==
    ASSUME ScreenInv, Send
    PROVE  ScreenInv'
<1>1. /\ cap \in CapType /\ shot \in ShotType /\ heard \in Packet \cup {NoPacket}
      /\ next_shot \in Nat /\ CaptureOf(cap, shot, lvgl.view) /\ Sound(cap)
      /\ SessionOf(shot, heard, next_shot) /\ shot.session <= next_shot
      /\ heard # NoPacket => heard.session <= next_shot
  BY CaptureFacts
<1>2. shot.phase \in Sending
  BY ScreenInvIs DEF ScreenParts, LoopInv, Send
<1>3. UNCHANGED <<link, sessions, world, screen, next_shot, still, last>> /\ Turn
  BY DEF Send
<1>4. LoopInv' /\ w' \in {"poll", "keys"}
  BY <1>3, TurnLoop
<1>5. PICK capacity \in (IF Current /\ ~Touched THEN Capacities ELSE {0}) :
         LET p == stock_shot_packet(shot, capacity)
         IN  \/ Fail(shot, cap) /\ UNCHANGED heard
             \/ UNCHANGED <<shot, cap, heard>>
             \/ /\ capacity # 0 /\ p # NoPacket /\ heard' \in {heard, p}
                /\ shot' = Sent(shot, p) /\ UNCHANGED cap
  BY Zenon DEF Send, Sent
<1> DEFINE p == stock_shot_packet(shot, capacity)
<1> HIDE DEF p
<1>6. CASE Fail(shot, cap) /\ UNCHANGED heard
  <2>1. /\ cap' \in CapType /\ shot' \in ShotType
        /\ CaptureOf(cap', shot', lvgl.view) /\ SessionOf(shot', heard, next_shot)
    BY <1>1, <1>6, FailIs
  <2>2. QED
    BY <1>1, <1>3, <1>4, <1>6, <2>1, CaptureMoves DEF world, screen
<1>7. CASE UNCHANGED <<shot, cap, heard>>
  BY <1>1, <1>3, <1>4, <1>7, CaptureMoves DEF world, screen
<1>8. CASE /\ capacity # 0 /\ p # NoPacket /\ heard' \in {heard, p}
           /\ shot' = Sent(shot, p) /\ UNCHANGED cap
  <2>1. capacity \in Nat \ {0}
    BY <1>5, <1>8, PassportScreenAssumption
  <2>2. /\ p \in Packet /\ PacketOf(p, shot)
        /\ shot.packet # NoPacket => p = shot.packet
        /\ shot.awaiting => shot.retries < Retries
    BY <1>1, <1>2, <1>8, <2>1, PacketIs DEF p
  <2>3. SessionOf(shot', heard', next_shot)
    BY <1>1, <1>2, <1>8, <2>2, SentSession
  <2>4. shot' \in ShotType /\ shot'.phase = shot.phase
    BY <1>1, <1>8, <2>2, SentIs
  <2>5. CaptureOf(cap', shot', lvgl.view)
    BY <1>1, <1>8, <2>4, CapturePhase
  <2>6. heard' \in Packet \cup {NoPacket}
    BY <1>1, <1>8, <2>2
  <2>7. QED
    BY <1>1, <1>3, <1>4, <1>8, <2>3, <2>4, <2>5, <2>6, CaptureMoves DEF world, screen
<1>9. QED
  BY <1>5, <1>6, <1>7, <1>8 DEF p

-----------------------------------------------------------------------------
(* The poll *)

LEMMA PollLoop ==
    ASSUME w' \in {"poll", "tick"}
    PROVE  LoopInv'
BY DEF LoopInv

\* A step of the poll that leaves the pages alone.
LEMMA PollMoves ==
    ASSUME ScreenInv, UNCHANGED <<link, sessions, heard, pairing, store, idle>>,
           UNCHANGED <<nav, lvgl, page, permit>>, UiKeeps(ui, ui'),
           last' \in 0 .. sessions, w' \in {"poll", "tick"},
           cap' \in CapType, shot' \in ShotType, CaptureOf(cap', shot', lvgl.view),
           next_shot' \in 0 .. MaxShots, SessionOf(shot', heard, next_shot'), still'
    PROVE  ScreenInv'
<1>1. ScreenParts
  BY ScreenInvIs
<1>2. ShapeInv' /\ PagesOK'
  BY <1>1 DEF ScreenParts, ShapeInv, PagesOK, UiKeeps
<1>3. ScalarsOK'
  BY <1>1 DEF ScreenParts, ScalarsOK, CaptureInv
<1>4. RevealInv' /\ PageWhole'
  BY <1>1, PagesStay DEF ScreenParts
<1>5. CaptureInv' /\ SendInv'
  BY <1>1 DEF ScreenParts, CaptureInv, SendInv, UiKeeps
<1>6. ScreenParts'
  BY <1>1, <1>2, <1>3, <1>4, <1>5, PollLoop DEF ScreenParts
<1>7. QED
  BY <1>6, PartsNext

\* What a frame finds: the session it belongs to, or a new one.
LEMMA BaseIs ==
    ASSUME ScreenInv, NEW b \in Bases
    PROVE  /\ b.cap \in CapType /\ b.shot \in ShotType /\ Sound(b.cap)
           /\ CaptureOf(b.cap, b.shot, lvgl.view)
           /\ SessionOf(b.shot, heard, next_shot)
           /\ b.shot \in {shot, NoShot}
<1>1. /\ cap \in CapType /\ shot \in ShotType
      /\ next_shot \in Nat /\ CaptureOf(cap, shot, lvgl.view) /\ Sound(cap)
      /\ SessionOf(shot, heard, next_shot)
      /\ heard # NoPacket => heard.session <= next_shot
  BY CaptureFacts
<1>2. CASE NewSession
  <2>1. PICK c \in Releases(cap) : b = [cap |-> c, shot |-> NoShot]
    BY <1>2 DEF Bases
  <2>2. Over(NoShot, next_shot) /\ NoShot.phase \notin Active
    BY <1>1, NoShotIs DEF Over
  <2>3. c \in CapType /\ CaptureOf(c, NoShot, lvgl.view)
    BY <1>1, <2>2, ReleasesIs
  <2>4. SessionOf(NoShot, heard, next_shot) /\ NoShot \in ShotType
    BY <1>1, <2>2, OverSession DEF Over
  <2>5. Sound(c)
    BY <2>3, CaptureSound
  <2>6. b.cap = c /\ b.shot = NoShot
    BY <2>1
  <2>7. QED
    BY <2>3, <2>4, <2>5, <2>6
<1>3. CASE ~NewSession
  <2>1. b = [cap |-> cap, shot |-> shot]
    BY <1>3 DEF Bases
  <2>2. b.cap = cap /\ b.shot = shot
    BY <2>1
  <2>3. QED
    BY <1>1, <2>2
<1>4. QED
  BY <1>2, <1>3

LEMMA ReceivedIs ==
    ASSUME ScreenInv, Received
    PROVE  /\ UNCHANGED <<link, sessions, heard, pairing, store, idle>>
           /\ w' = "poll" /\ last' \in 0 .. sessions
<1>1. link \in 0 .. sessions
  BY ScreenInvIs DEF ScreenParts, ScalarsOK
<1>2. QED
  BY <1>1 DEF Received, phone, world

LEMMA TransferMarked ==
    ASSUME ScreenInv, ui' = [ui EXCEPT !.transfer = Transfer, !.dirty = @ \/ NewSession]
    PROVE  UiKeeps(ui, ui')
<1>1. ui \in UiType
  BY ScreenInvIs DEF ScreenParts, ShapeInv
<1>2. PICK t \in BOOLEAN : t = Transfer
  BY DEF Transfer
<1>3. PICK d \in BOOLEAN : d = (ui.dirty \/ NewSession)
  OBVIOUS
<1>4. ui' = Marked(ui, t, d)
  BY <1>2, <1>3 DEF Marked
<1>5. ui.dirty => d
  BY <1>3
<1>6. QED
  BY <1>1, <1>4, <1>5, MarkedIs

LEMMA CommandIs ==
    ASSUME NEW p \in Command
    PROVE  /\ p.op \in {"BAD", "START", "ACK", "DONE", "CANCEL"}
           /\ p.op = "START" => next_shot < MaxShots
           /\ p.op = "ACK" => /\ heard # NoPacket /\ p.session = heard.session
                              /\ p.sequence \in 0 .. heard.sequence
<1>1. CASE p \in {[op |-> "ACK", session |-> heard.session, sequence |-> n] :
                     n \in IF heard = NoPacket THEN {} ELSE 0 .. heard.sequence}
  BY <1>1
<1>2. CASE p \in {[op |-> op, session |-> heard.session] :
                     op \in IF heard = NoPacket THEN {} ELSE {"DONE", "CANCEL"}}
  BY <1>2
<1>3. CASE p \in {[op |-> op] :
                     op \in {"BAD"} \cup IF next_shot < MaxShots THEN {"START"} ELSE {}}
  BY <1>3
<1>4. QED
  BY <1>1, <1>2, <1>3 DEF Command

\* Only START asks for a capture.
LEMMA OnlyStartCaptures ==
    ASSUME NEW s \in ShotType, NEW h, NEW n, SessionOf(s, h, n), NEW p,
           p.op \in {"BAD", "ACK", "DONE", "CANCEL"}
    PROVE  ~Commanded(s, p, n).capture
<1>1. s.awaiting => ~Acked(s).capture
  BY AckedIs
<1>2. CASE p.op = "BAD"
  BY <1>2 DEF Commanded, stock_shot_command, Answer, Step
<1>3. CASE p.op = "ACK"
  BY <1>1, <1>3 DEF Commanded, stock_shot_command, Answer, Step, Ack
<1>4. CASE p.op \in {"DONE", "CANCEL"}
  BY <1>4 DEF Commanded, stock_shot_command, Answer, Step, EndShot
<1>5. QED
  BY <1>2, <1>3, <1>4

LEMMA ShotCommandStep ==
    ASSUME ScreenInv, NEW p \in Command, ShotCommand(p)
    PROVE  ScreenInv'
<1>1. /\ UNCHANGED <<link, sessions, heard, pairing, store, idle>>
      /\ w' = "poll" /\ last' \in 0 .. sessions
  BY ReceivedIs DEF ShotCommand
<1>2. UNCHANGED <<nav, lvgl, page, permit>> /\ UiKeeps(ui, ui')
  BY TransferMarked DEF ShotCommand
<1>3. /\ heard \in Packet \cup {NoPacket} /\ next_shot \in Nat
      /\ next_shot \in 0 .. MaxShots /\ still
      /\ heard # NoPacket => heard.session <= next_shot
      /\ ui.safe => lvgl.view \in Public
  BY CaptureFacts, ScreenInvIs DEF ScreenParts, CaptureInv
<1>4. /\ p.op \in {"BAD", "START", "ACK", "DONE", "CANCEL"}
      /\ p.op = "START" => next_shot < MaxShots
  BY CommandIs
<1> DEFINE number == IF p.op = "START" THEN next_shot + 1 ELSE next_shot
<1>5. PICK b \in Bases, capacity \in Capacities :
        LET a == Commanded(b.shot, p, next_shot)
        IN  IF p.op = "START" /\ (~Startable(b) \/ capacity = 0)
              THEN cap' = b.cap /\ shot' = b.shot /\ UNCHANGED <<next_shot, still>>
            ELSE /\ next_shot' = number
                 /\ \E c \in IF a.release THEN Releases(b.cap) ELSE {b.cap} :
                      IF ~a.capture THEN shot' = a.shot /\ cap' = c /\ UNCHANGED still
                      ELSE IF c.cleanup THEN Fail(a.shot, c) /\ UNCHANGED still
                      ELSE \/ shot' = a.shot /\ cap' = Started(c) /\ still' = TRUE
                           \/ \E d \in NotStarted(c) : Fail(a.shot, d) /\ UNCHANGED still
  BY Zenon DEF ShotCommand, Commanded
<1> DEFINE a == Commanded(b.shot, p, next_shot)
<1>6. /\ b.cap \in CapType /\ b.shot \in ShotType /\ Sound(b.cap)
      /\ CaptureOf(b.cap, b.shot, lvgl.view)
      /\ SessionOf(b.shot, heard, next_shot)
  BY BaseIs
<1>7. CommandLeaves(b.shot, heard, number, a)
  <2>1. number = IF p.op = "START" THEN next_shot + 1 ELSE next_shot
    OBVIOUS
  <2> HIDE DEF number
  <2>2. heard \in Packet \cup {NoPacket} /\ next_shot \in Nat
    BY <1>3
  <2>3. p.op \in {"BAD", "START", "ACK", "DONE", "CANCEL"}
    BY <1>4
  <2>4. b.shot \in ShotType /\ SessionOf(b.shot, heard, next_shot)
    BY <1>6
  <2>5. CommandLeaves(b.shot, heard, number, Commanded(b.shot, p, next_shot))
    BY <2>1, <2>2, <2>3, <2>4, CommandLeavesIs
  <2>6. QED
    BY <2>5
<1>8. a.capture => p.op = "START"
  BY <1>4, <1>6, OnlyStartCaptures
<1>9. number \in 0 .. MaxShots /\ number \in Nat /\ next_shot <= number
  BY <1>3, <1>4, Bounds
<1> HIDE DEF a, number
<1>10. CASE cap' = b.cap /\ shot' = b.shot /\ UNCHANGED <<next_shot, still>>
  BY <1>1, <1>2, <1>3, <1>6, <1>10, PollMoves
<1>11. ASSUME next_shot' = number, still', cap' \in CapType, shot' \in ShotType,
              CaptureOf(cap', shot', lvgl.view), SessionOf(shot', heard, number)
       PROVE  ScreenInv'
  BY <1>1, <1>2, <1>9, <1>11, PollMoves
<1>12. CASE ~(p.op = "START" /\ (~Startable(b) \/ capacity = 0))
  <2>1. next_shot' = number
    BY <1>5, <1>12 DEF number
  <2>2. PICK c \in (IF a.release THEN Releases(b.cap) ELSE {b.cap}) :
          IF ~a.capture THEN shot' = a.shot /\ cap' = c /\ UNCHANGED still
          ELSE IF c.cleanup THEN Fail(a.shot, c) /\ UNCHANGED still
          ELSE \/ shot' = a.shot /\ cap' = Started(c) /\ still' = TRUE
               \/ \E d \in NotStarted(c) : Fail(a.shot, d) /\ UNCHANGED still
    BY <1>5, <1>12 DEF a
  <2>3. a.shot \in ShotType /\ SessionOf(a.shot, heard, number) /\ a.shot.session <= number
    BY <1>7 DEF CommandLeaves, SessionOf
  <2>4. heard # NoPacket => heard.session <= number
    BY <2>3 DEF SessionOf
  <2>5. CASE ~a.capture
    <3>1. c \in CapType /\ CaptureOf(c, a.shot, lvgl.view)
      <4>1. CASE a.shot.phase \notin Active /\ a.release
        BY <1>6, <2>2, <4>1, ReleasesIs
      <4>2. CASE ~a.release
        <5>1. c = b.cap
          BY <2>2, <4>2
        <5>2. a.shot = b.shot \/ {b.shot.phase, a.shot.phase} \subseteq Sending
          BY <1>7, <4>2, <2>5 DEF CommandLeaves
        <5>3. QED
          BY <1>6, <5>1, <5>2, CapturePhase
      <4>3. QED
        BY <1>7, <2>5, <4>1, <4>2 DEF CommandLeaves
    <3>2. shot' = a.shot /\ cap' = c /\ UNCHANGED still
      BY <2>2, <2>5
    <3>3. QED
      BY <1>3, <1>11, <2>1, <2>3, <3>1, <3>2
  <2>6. CASE a.capture
    <3>1. /\ a.release /\ a.shot.phase = "CAPTURING" /\ b.shot.phase \notin Active
      BY <1>7, <2>6 DEF CommandLeaves, Sending
    <3>2. c \in Releases(b.cap)
      BY <2>2, <3>1
    <3>3. c \in CapType /\ CaptureOf(c, b.shot, lvgl.view) /\ (c.cleanup \/ c = NewCapture)
      BY <1>6, <3>1, <3>2, ReleasesIs
    <3>4. lvgl.view \in Public
      BY <1>3, <1>8, <1>12, <2>6 DEF Startable
    <3>5. ASSUME NEW d, Sound(d), Fail(a.shot, d), UNCHANGED still
          PROVE  ScreenInv'
      <4>1. /\ cap' \in CapType /\ shot' \in ShotType
            /\ CaptureOf(cap', shot', lvgl.view) /\ SessionOf(shot', heard, number)
        BY <1>9, <2>3, <2>4, <3>5, FailIs
      <4>2. QED
        BY <1>3, <1>11, <2>1, <3>5, <4>1
    <3>6. CASE c.cleanup
      <4>1. Fail(a.shot, c) /\ UNCHANGED still
        BY <2>2, <2>6, <3>6
      <4>2. QED
        BY <3>3, <3>5, <4>1, CaptureSound
    <3>7. CASE ~c.cleanup
      <4>1. c = NewCapture
        BY <3>3, <3>7
      <4>2. CASE shot' = a.shot /\ cap' = Started(c) /\ still' = TRUE
        <5>1. CaptureOf(cap', shot', lvgl.view) /\ cap' \in CapType
          BY <3>1, <3>4, <4>1, <4>2, StartedCaptures, StartedIs
        <5>2. QED
          BY <1>11, <2>1, <2>3, <4>2, <5>1
      <4>3. CASE \E d \in NotStarted(c) : Fail(a.shot, d) /\ UNCHANGED still
        <5>1. PICK d \in NotStarted(NewCapture) : Fail(a.shot, d) /\ UNCHANGED still
          BY <4>1, <4>3
        <5>2. QED
          BY <3>5, <5>1, NotStartedIs
      <4>4. QED
        BY <2>2, <2>6, <3>7, <4>2, <4>3
    <3>8. QED
      BY <3>6, <3>7
  <2>7. QED
    BY <2>5, <2>6
<1>13. QED
  BY <1>5, <1>10, <1>12

\* The screen shows nothing, for the phone's image is replaced.
LEMMA ImageForgotten ==
    ASSUME NEW u \in UiType, NEW t \in BOOLEAN, NEW d \in BOOLEAN, u.dirty => d
    PROVE  UiKeeps(u, [u EXCEPT !.transfer = t, !.image = FALSE, !.dirty = d])
<1> DEFINE q1 == [u EXCEPT !.transfer = t]
           q2 == [q1 EXCEPT !.image = FALSE]
           v == [q2 EXCEPT !.dirty = d]
<1>1. /\ q1 \in UiType /\ q1.revision = u.revision /\ q1.dimmed = u.dimmed
      /\ q1.safe = u.safe
  BY DEF UiType
<1> HIDE DEF q1
<1>2. /\ q2 \in UiType /\ q2.revision = u.revision /\ q2.dimmed = u.dimmed
      /\ q2.safe = u.safe
  BY <1>1 DEF UiType
<1> HIDE DEF q2
<1>3. /\ v \in UiType /\ v.revision = u.revision /\ v.dimmed = u.dimmed
      /\ v.safe = u.safe /\ v.dirty = d
  BY <1>2 DEF UiType
<1> HIDE DEF v
<1>4. v = [u EXCEPT !.transfer = t, !.image = FALSE, !.dirty = d]
  BY DEF v, q2, q1
<1>5. UiKeeps(u, v)
  BY <1>3 DEF UiKeeps
<1>6. QED
  BY <1>4, <1>5

LEMMA BlankIs ==
    /\ Shown("blank") \in [view : View, page : Pages] /\ Shown("blank").view = "blank"
    /\ Shown("blank").page = NoPage /\ "blank" \in Public
BY DEF Shown, View, Pages, Public

\* The screen goes blank while no strip is captured.
LEMMA BlankMoves ==
    ASSUME ScreenInv, UNCHANGED <<link, sessions, heard, pairing, store, idle, next_shot>>,
           UNCHANGED <<nav, page, permit>>, UiKeeps(ui, ui'), lvgl' = Shown("blank"),
           last' \in 0 .. sessions, still', cap' \in CapType, shot' \in ShotType,
           CaptureOf(cap', shot', lvgl.view), SessionOf(shot', heard, next_shot),
           shot'.phase # "CAPTURING", LoopInv',
           w' \in {"poll", "tick", "capture", "send", "keys", "draw", "read", "render"}
    PROVE  ScreenInv'
<1>1. ScreenParts
  BY ScreenInvIs
<1>2. lvgl'.view = "blank" /\ lvgl'.page = NoPage /\ lvgl' \in [view : View, page : Pages]
  BY BlankIs
<1>3. ShapeInv' /\ PagesOK'
  BY <1>1, <1>2 DEF ScreenParts, ShapeInv, PagesOK, UiKeeps
<1>4. ScalarsOK'
  BY <1>1 DEF ScreenParts, ScalarsOK, CaptureInv
<1>5. RevealInv' /\ PageWhole'
  BY <1>1, <1>2 DEF ScreenParts, RevealInv, PageWhole, PrivateShown, UiKeeps
<1>6. CaptureOf(cap', shot', lvgl'.view)
  BY CaptureAnyView
<1>7. CaptureInv' /\ SendInv'
  BY <1>1, <1>2, <1>6, BlankIs DEF ScreenParts, CaptureInv, SendInv
<1>8. ScreenParts'
  BY <1>1, <1>3, <1>4, <1>5, <1>7 DEF ScreenParts
<1>9. QED
  BY <1>8, PartsNext

LEMMA ImageBeginStep ==
    ASSUME ScreenInv, ImageBegin
    PROVE  ScreenInv'
<1>1. /\ UNCHANGED <<link, sessions, heard, pairing, store, idle>>
      /\ w' = "poll" /\ last' \in 0 .. sessions
  BY ReceivedIs DEF ImageBegin
<1>2. UNCHANGED <<nav, page, permit, next_shot>>
  BY DEF ImageBegin
<1>3. still /\ next_shot \in 0 .. MaxShots /\ ui \in UiType
  BY ScreenInvIs DEF ScreenParts, CaptureInv, ShapeInv
<1>4. PICK b \in Bases, begun \in BOOLEAN :
        /\ cap' = b.cap /\ shot' = b.shot
        /\ \/ /\ ImageAdmitted(b)
              /\ lvgl' = IF ui.image THEN Shown("blank") ELSE lvgl
              /\ IF ui.image THEN Redrawn(b.shot) ELSE UNCHANGED still
              /\ ui' = [ui EXCEPT !.transfer = begun, !.image = FALSE,
                                  !.dirty = @ \/ NewSession \/ ui.image]
           \/ /\ ui' = [ui EXCEPT !.transfer = Transfer, !.dirty = @ \/ NewSession]
              /\ UNCHANGED <<lvgl, still>>
  BY DEF ImageBegin
<1>5. /\ cap' \in CapType /\ shot' \in ShotType
      /\ CaptureOf(cap', shot', lvgl.view) /\ SessionOf(shot', heard, next_shot)
  BY <1>4, BaseIs
<1>6. CASE /\ ImageAdmitted(b)
           /\ lvgl' = IF ui.image THEN Shown("blank") ELSE lvgl
           /\ IF ui.image THEN Redrawn(b.shot) ELSE UNCHANGED still
           /\ ui' = [ui EXCEPT !.transfer = begun, !.image = FALSE,
                               !.dirty = @ \/ NewSession \/ ui.image]
  <2>1. shot'.phase # "CAPTURING"
    BY <1>4, <1>6 DEF ImageAdmitted
  <2>2. still'
    BY <1>3, <1>4, <1>6, <2>1 DEF Redrawn
  <2>3. UiKeeps(ui, ui')
    <3>1. PICK d \in BOOLEAN : d = (ui.dirty \/ NewSession \/ ui.image)
      OBVIOUS
    <3>2. ui.dirty => d
      BY <3>1
    <3>3. ui' = [ui EXCEPT !.transfer = begun, !.image = FALSE, !.dirty = d]
      BY <1>6, <3>1
    <3>4. QED
      BY <1>3, <3>2, <3>3, ImageForgotten
  <2>4. CASE ui.image
    BY <1>1, <1>2, <1>5, <1>6, <2>1, <2>2, <2>3, <2>4, PollLoop, BlankMoves
  <2>5. CASE ~ui.image
    BY <1>1, <1>2, <1>3, <1>5, <1>6, <2>2, <2>3, <2>5, PollMoves
  <2>6. QED
    BY <2>4, <2>5
<1>7. CASE /\ ui' = [ui EXCEPT !.transfer = Transfer, !.dirty = @ \/ NewSession]
           /\ UNCHANGED <<lvgl, still>>
  <2>1. UiKeeps(ui, ui')
    BY <1>7, TransferMarked
  <2>2. QED
    BY <1>1, <1>2, <1>3, <1>5, <1>7, <2>1, PollMoves
<1>8. QED
  BY <1>4, <1>6, <1>7

LEMMA ImageEndStep ==
    ASSUME ScreenInv, ImageEnd
    PROVE  ScreenInv'
<1>1. /\ UNCHANGED <<link, sessions, heard, pairing, store, idle>>
      /\ w' = "poll" /\ last' \in 0 .. sessions
  BY ReceivedIs DEF ImageEnd
<1>2. UNCHANGED <<lvgl, page, next_shot, still>>
  BY DEF ImageEnd
<1>3. ScreenParts
  BY ScreenInvIs
<1>4. PICK b \in Bases, ready \in BOOLEAN :
        /\ cap' = b.cap /\ shot' = b.shot
        /\ nav' = IF ready THEN [nav EXCEPT !.screen = "IMAGE", !.revealed = FALSE] ELSE nav
        /\ permit' = IF ready THEN 0 ELSE permit
        /\ ui' = [ui EXCEPT !.transfer = Transfer /\ ~ImageAdmitted(b),
                            !.dirty = @ \/ NewSession \/ ready]
  BY DEF ImageEnd
<1>5. /\ cap' \in CapType /\ shot' \in ShotType
      /\ CaptureOf(cap', shot', lvgl.view) /\ SessionOf(shot', heard, next_shot)
  BY <1>4, BaseIs
<1>6. UiKeeps(ui, ui') /\ (ready => ui'.dirty)
  <2>1. PICK t \in BOOLEAN : t = (Transfer /\ ~ImageAdmitted(b))
    BY DEF Transfer
  <2>2. PICK d \in BOOLEAN : d = (ui.dirty \/ NewSession \/ ready)
    OBVIOUS
  <2>3. (ui.dirty => d) /\ (ready => d)
    BY <2>2
  <2>4. ui' = Marked(ui, t, d)
    BY <1>4, <2>1, <2>2 DEF Marked
  <2>5. ui \in UiType
    BY <1>3 DEF ScreenParts, ShapeInv
  <2>6. QED
    BY <2>3, <2>4, <2>5, MarkedIs
<1>7. CASE ~ready
  <2>1. nav' = nav /\ permit' = permit
    BY <1>4, <1>7
  <2>2. still' /\ next_shot' \in 0 .. MaxShots
    BY <1>2, <1>3 DEF ScreenParts, CaptureInv
  <2>3. QED
    BY <1>1, <1>2, <1>5, <1>6, <2>1, <2>2, PollMoves
<1>8. CASE ready
  <2> DEFINE q == [nav EXCEPT !.screen = "IMAGE"]
  <2>1. q \in NavType /\ q.page = nav.page
    BY <1>3 DEF ScreenParts, ShapeInv, NavType, Screens
  <2>2. nav' = [q EXCEPT !.revealed = FALSE]
    BY <1>4, <1>8
  <2> HIDE DEF q
  <2>3. nav' \in NavType /\ nav'.page = nav.page /\ ~nav'.revealed
    BY <2>1, <2>2 DEF NavType
  <2>4. permit' = 0 /\ ui'.dirty
    BY <1>4, <1>6, <1>8
  <2>5. ShapeInv' /\ ScalarsOK'
    BY <1>1, <1>2, <1>3, <1>5, <1>6, <2>3 DEF ScreenParts, ShapeInv, ScalarsOK, UiKeeps
  <2>6. PagesOK'
    <3>1. store \in Nat
      BY <1>3, Bounds DEF ScreenParts, ScalarsOK
    <3>2. QED
      BY <1>1, <1>2, <1>3, <1>6, <2>3, <2>4, <3>1 DEF ScreenParts, PagesOK, UiKeeps
  <2>7. RevealInv' /\ PageWhole'
    BY <1>2, <1>3, <1>6, <2>3, <2>4 DEF ScreenParts, RevealInv, PageWhole, UiKeeps
  <2>8. CaptureInv' /\ SendInv'
    BY <1>1, <1>2, <1>3, <1>5, <1>6 DEF ScreenParts, CaptureInv, SendInv, UiKeeps
  <2>9. ScreenParts'
    BY <1>1, <1>2, <1>3, <2>5, <2>6, <2>7, <2>8, PollLoop DEF ScreenParts
  <2>10. QED
    BY <2>9, PartsNext
<1>9. QED
  BY <1>7, <1>8

LEMMA EndPollStep ==
    ASSUME ScreenInv, EndPoll
    PROVE  ScreenInv'
<1>1. /\ UNCHANGED <<link, sessions, heard, pairing, store, idle, next_shot, still>>
      /\ UNCHANGED <<nav, lvgl, page, permit>> /\ w' = "tick"
  BY DEF EndPoll, phone, world
<1>2. /\ cap \in CapType /\ shot \in ShotType
      /\ next_shot \in Nat /\ CaptureOf(cap, shot, lvgl.view) /\ Sound(cap)
      /\ SessionOf(shot, heard, next_shot)
      /\ heard # NoPacket => heard.session <= next_shot
  BY CaptureFacts
<1>3. /\ still /\ next_shot \in 0 .. MaxShots /\ ui \in UiType /\ pairing \in BOOLEAN
      /\ sessions \in Nat /\ last \in 0 .. sessions
  BY ScreenInvIs, Bounds DEF ScreenParts, CaptureInv, ShapeInv, ScalarsOK
<1> DEFINE q == [ui EXCEPT !.pairing = pairing]
<1>4. UiKeeps(ui, q)
  <2>1. q \in UiType
    BY <1>3 DEF UiType
  <2>2. q.revision = ui.revision /\ q.dimmed = ui.dimmed /\ q.safe = ui.safe
        /\ q.dirty = ui.dirty
    BY <1>3 DEF UiType
  <2>3. QED
    BY <2>1, <2>2 DEF UiKeeps
<1> HIDE DEF q
<1>5. CASE last # 0 /\ ~Current
  <2>1. shot' = NoShot /\ cap' \in Releases(cap) /\ last' = 0
    BY <1>5 DEF EndPoll
  <2>2. UiKeeps(ui, ui')
    <3>1. ui' = Marked(q, FALSE, TRUE)
      BY <1>5 DEF EndPoll, Marked, q
    <3>2. UiKeeps(q, ui')
      BY <1>4, <3>1, MarkedIs DEF UiKeeps
    <3>3. QED
      BY <1>4, <3>2 DEF UiKeeps
  <2>3. Over(NoShot, next_shot) /\ NoShot.phase \notin Active
    BY <1>2, NoShotIs DEF Over
  <2>4. cap' \in CapType /\ CaptureOf(cap', shot', lvgl.view)
    BY <1>2, <2>1, <2>3, ReleasesIs
  <2>5. SessionOf(shot', heard, next_shot) /\ shot' \in ShotType
    BY <1>2, <2>1, <2>3, OverSession DEF Over
  <2>6. last' \in 0 .. sessions
    BY <1>3, <2>1
  <2>7. QED
    BY <1>1, <1>3, <2>2, <2>4, <2>5, <2>6, PollMoves
<1>6. CASE ~(last # 0 /\ ~Current)
  <2>1. UNCHANGED <<shot, cap, last>> /\ ui' = q
    BY <1>6 DEF EndPoll, q
  <2>2. QED
    BY <1>1, <1>2, <1>3, <1>4, <2>1, PollMoves
<1>7. QED
  BY <1>5, <1>6

-----------------------------------------------------------------------------
(* Keys and clocks *)

\* A step of the screen while no strip is captured.
LEMMA PagesMove ==
    ASSUME ScreenInv, ~Frozen,
           UNCHANGED <<link, sessions, heard, pairing, store, cap, shot, next_shot, last>>,
           idle' \in 0 .. 2, nav' \in NavType, ui' \in UiType,
           lvgl' \in [view : View, page : Pages], page' \in Pages,
           PagesOK', RevealInv', PageWhole', still', ui'.safe => lvgl'.view \in Public, LoopInv',
           w' \in {"poll", "tick", "capture", "send", "keys", "draw", "read", "render"}
    PROVE  ScreenInv'
<1>1. ScreenParts
  BY ScreenInvIs
<1>2. ShapeInv' /\ ScalarsOK'
  BY <1>1 DEF ScreenParts, ShapeInv, ScalarsOK, CaptureInv
<1>3. CaptureOf(cap, shot, lvgl.view) /\ shot.phase # "CAPTURING"
  BY <1>1 DEF ScreenParts, CaptureInv, Frozen
<1>4. CaptureOf(cap', shot', lvgl'.view)
  BY <1>3, CaptureAnyView
<1>5. CaptureInv' /\ SendInv'
  BY <1>1, <1>4 DEF ScreenParts, CaptureInv, SendInv
<1>6. ScreenParts'
  BY <1>1, <1>2, <1>5 DEF ScreenParts
<1>7. QED
  BY <1>6, PartsNext

LEMMA CountsIs ==
    ASSUME NEW r \in 0 .. Len(Book)
    PROVE  Counts(r) \in Nat
<1>1. CASE r = 0
  BY <1>1 DEF Counts
<1>2. CASE r # 0
  <2>1. Book \in Seq(Seq(BOOLEAN)) /\ r \in 1 .. Len(Book)
    BY <1>2, Bounds, PassportScreenAssumption
  <2>2. Book[r] \in Seq(BOOLEAN)
    BY <2>1, ElementOfSeq
  <2>3. Len(Book[r]) \in Nat
    BY <2>2, LenProperties
  <2>4. QED
    BY <1>2, <2>3 DEF Counts
<1>3. QED
  BY <1>1, <1>2

\* A page number that a snapshot of count pages may have.
PageFits(n, count) == n \in NavType /\ (n.page = 0 \/ n.page < count)

LEMMA TurnedIs ==
    ASSUME NEW count \in Nat, NEW n, PageFits(n, count), NEW by \in Int, by = 1 \/ by = count - 1
    PROVE  PageFits(Turned(n, by, count), count) /\ Turned(n, by, count).revealed = n.revealed
<1>1. CASE count = 0
  BY <1>1 DEF Turned
<1>2. CASE count # 0
  <2>1. n.page + by \in Nat
    BY <1>2 DEF PageFits, NavType
  <2>2. (n.page + by) % count \in Nat /\ (n.page + by) % count < count
    BY <1>2, <2>1, Modulo
  <2> DEFINE k == (n.page + by) % count
  <2>3. Turned(n, by, count) = [n EXCEPT !.page = k]
    BY <1>2 DEF Turned
  <2> HIDE DEF k
  <2>4. [n EXCEPT !.page = k] \in NavType /\ [n EXCEPT !.page = k].page = k
        /\ [n EXCEPT !.page = k].revealed = n.revealed
    BY <2>2 DEF k, PageFits, NavType
  <2>5. QED
    BY <2>2, <2>3, <2>4 DEF PageFits, k
<1>3. QED
  BY <1>1, <1>2

LEMMA NavKeyIs ==
    ASSUME NEW count \in Nat, NEW n, PageFits(n, count), NEW key \in Key,
           NEW m \in passport_nav_key(n, key, count)
    PROVE  PageFits(m, count)
<1>1. \/ m = n
      \/ m = [screen |-> IF n.screen = "PAGE" THEN "CARD_MENU" ELSE "HOME", page |-> 0,
              revealed |-> FALSE]
      \/ \E to \in {"CARD_MENU", "IMAGE"} : m = [n EXCEPT !.screen = to]
      \/ m = [screen |-> "PAGE", page |-> 0, revealed |-> FALSE]
      \/ m = [n EXCEPT !.revealed = ~@]
      \/ m = Turned(n, count - 1, count)
      \/ m = Turned(n, 1, count)
  BY Zenon DEF passport_nav_key
<1>2. CASE m = [screen |-> IF n.screen = "PAGE" THEN "CARD_MENU" ELSE "HOME", page |-> 0,
                revealed |-> FALSE]
  BY <1>2 DEF PageFits, NavType, Screens
<1>3. CASE \E to \in {"CARD_MENU", "IMAGE"} : m = [n EXCEPT !.screen = to]
  <2>1. PICK to \in {"CARD_MENU", "IMAGE"} : m = [n EXCEPT !.screen = to]
    BY <1>3
  <2>2. m \in NavType /\ m.page = n.page
    BY <2>1 DEF PageFits, NavType, Screens
  <2>3. QED
    BY <2>2 DEF PageFits
<1>4. CASE m = [screen |-> "PAGE", page |-> 0, revealed |-> FALSE]
  BY <1>4 DEF PageFits, NavType, Screens
<1>5. CASE m = [n EXCEPT !.revealed = ~@]
  <2>1. PICK r \in BOOLEAN : r = ~n.revealed
    OBVIOUS
  <2>2. m = [n EXCEPT !.revealed = r]
    BY <1>5, <2>1
  <2>3. m \in NavType /\ m.page = n.page
    BY <2>2 DEF PageFits, NavType
  <2>4. QED
    BY <2>3 DEF PageFits
<1>6. CASE m = Turned(n, count - 1, count) \/ m = Turned(n, 1, count)
  BY <1>6, TurnedIs
<1>7. QED
  BY <1>1, <1>2, <1>3, <1>4, <1>5, <1>6

LEMMA HideIs ==
    ASSUME NEW n \in NavType
    PROVE  LET m == passport_nav_hide(n)
           IN  m \in NavType /\ ~m.revealed /\ m.page = n.page /\ m.screen = n.screen
<1> DEFINE m == [n EXCEPT !.revealed = FALSE]
<1>1. m \in NavType
  BY DEF NavType
<1>2. ~m.revealed /\ m.page = n.page /\ m.screen = n.screen
  BY DEF NavType
<1>3. QED
  BY <1>1, <1>2 DEF passport_nav_hide

LEMMA RestartedIs ==
    ASSUME NEW n \in NavType
    PROVE  Restarted(n) \in NavType /\ ~Restarted(n).revealed /\ Restarted(n).page = 0
<1> DEFINE m == passport_nav_hide(n)
           r == [m EXCEPT !.page = 0]
<1>1. m \in NavType /\ ~m.revealed
  BY HideIs
<1> HIDE DEF m
<1>2. r \in NavType
  BY <1>1 DEF NavType
<1>3. ~r.revealed /\ r.page = 0
  BY <1>1 DEF NavType
<1>4. QED
  BY <1>2, <1>3 DEF Restarted, m

\* A turn of the loop with the revision of the store, and what it makes of the
\* screen; when no redraw is asked for, the navigation is what it was.
TurnOK(t) ==
    /\ t \in [nav : NavType, ui : UiType, idle : 0 .. 2]
    /\ t.ui.revision = store /\ PageFits(t.nav, Counts(store))
    /\ t.nav.revealed => ~t.ui.dimmed
    /\ t.ui.safe = ui.safe
    /\ ~t.ui.dirty => t.nav = nav /\ ~ui.dirty /\ ui.revision = store

LEMMA NoticedIs ==
    ASSUME ScreenInv
    PROVE  TurnOK(Noticed) /\ (Noticed.nav.revealed => nav.revealed /\ ui.revision = store)
<1>1. ScreenParts
  BY ScreenInvIs
<1>2. /\ nav \in NavType /\ ui \in UiType /\ idle \in 0 .. 2 /\ store \in Nat
      /\ PageFits(nav, Counts(ui.revision)) /\ (nav.revealed => ~ui.dimmed)
  BY <1>1, Bounds DEF ScreenParts, ShapeInv, ScalarsOK, PagesOK, RevealInv, PageFits
<1>3. PICK new \in BOOLEAN : new = (store # ui.revision)
  OBVIOUS
<1>4. PICK asked \in BOOLEAN : asked = (ui.pairing /\ ~ui.was)
  OBVIOUS
<1>5. PICK dimmed \in BOOLEAN : dimmed = (ui.dimmed /\ ~asked)
  OBVIOUS
<1>6. PICK dark \in BOOLEAN : dark = (ui.dark /\ ~asked)
  OBVIOUS
<1>7. PICK dirty \in BOOLEAN : dirty = (ui.dirty \/ new \/ ui.pairing # ui.was)
  OBVIOUS
<1> DEFINE n == IF new THEN Restarted(nav) ELSE nav
           q1 == [ui EXCEPT !.revision = store]
           q2 == [q1 EXCEPT !.was = ui.pairing]
           q3 == [q2 EXCEPT !.dimmed = dimmed]
           q4 == [q3 EXCEPT !.dark = dark]
           u == [q4 EXCEPT !.dirty = dirty]
           i == IF asked THEN 0 ELSE idle
<1>8. /\ n \in NavType /\ PageFits(n, Counts(store)) /\ (n.revealed => nav.revealed /\ ~new)
      /\ (~new => n = nav)
  <2>1. CASE new
    BY <1>2, <2>1, RestartedIs DEF PageFits
  <2>2. CASE ~new
    BY <1>2, <1>3, <2>2
  <2>3. QED
    BY <2>1, <2>2
<1>9. q1 \in UiType /\ q1.revision = store /\ q1.safe = ui.safe
  BY <1>2 DEF UiType
<1> HIDE DEF q1
<1>10. q2 \in UiType /\ q2.revision = store /\ q2.safe = ui.safe
  BY <1>2, <1>9 DEF UiType
<1> HIDE DEF q2
<1>11. q3 \in UiType /\ q3.revision = store /\ q3.safe = ui.safe /\ q3.dimmed = dimmed
  BY <1>10 DEF UiType
<1> HIDE DEF q3
<1>12. q4 \in UiType /\ q4.revision = store /\ q4.safe = ui.safe /\ q4.dimmed = dimmed
  BY <1>11 DEF UiType
<1> HIDE DEF q4
<1>13. u \in UiType /\ u.revision = store /\ u.safe = ui.safe /\ u.dimmed = dimmed
       /\ u.dirty = dirty
  BY <1>12 DEF UiType
<1>14. u = [ui EXCEPT !.revision = store, !.was = ui.pairing, !.dimmed = dimmed,
                      !.dark = dark, !.dirty = dirty]
  BY DEF q4, q3, q2, q1
<1> HIDE DEF u
<1>15. Noticed = [nav |-> n, ui |-> u, idle |-> i]
  BY <1>3, <1>4, <1>5, <1>6, <1>7, <1>14 DEF Noticed
<1>16. i \in 0 .. 2
  BY <1>2
<1> HIDE DEF n, i
<1>17. Noticed.nav = n /\ Noticed.ui = u
       /\ Noticed \in [nav : NavType, ui : UiType, idle : 0 .. 2]
  BY <1>8, <1>13, <1>15, <1>16
<1>18. n.revealed => ~dimmed
  BY <1>2, <1>5, <1>8
<1>19. ~dirty => n = nav /\ ~ui.dirty /\ ui.revision = store
  BY <1>3, <1>7, <1>8
<1>20. TurnOK(Noticed)
  BY <1>8, <1>13, <1>17, <1>18, <1>19 DEF TurnOK
<1>21. QED
  BY <1>3, <1>8, <1>17, <1>20

\* A key that does not navigate.
With(t, v) == [t EXCEPT !.ui = v, !.idle = 0]

LEMMA WithIs ==
    ASSUME NEW t, TurnOK(t), NEW v \in UiType, v.revision = t.ui.revision, v.safe = t.ui.safe,
           v.dirty \/ v = t.ui, t.nav.revealed => ~v.dimmed
    PROVE  TurnOK(With(t, v))
<1> DEFINE q == [t EXCEPT !.ui = v]
           r == [q EXCEPT !.idle = 0]
<1>1. q \in [nav : NavType, ui : UiType, idle : 0 .. 2] /\ q.nav = t.nav /\ q.ui = v
  BY DEF TurnOK
<1> HIDE DEF q
<1>2. r \in [nav : NavType, ui : UiType, idle : 0 .. 2] /\ r.nav = t.nav /\ r.ui = v
  BY <1>1
<1>3. With(t, v) = r
  BY DEF With, r, q
<1> HIDE DEF r
<1>4. TurnOK(r)
  BY <1>2 DEF TurnOK
<1>5. QED
  BY <1>3, <1>4

\* A key asks for a redraw, but for one that answers a pairing question.
LEMMA PressedIs ==
    ASSUME ScreenInv, NEW t, TurnOK(t), NEW key \in Key, NEW r \in Pressed(t, key)
    PROVE  TurnOK(r)
<1> DEFINE u == [t.ui EXCEPT !.dirty = TRUE]
           bright == [u EXCEPT !.dimmed = FALSE]
           awake == [bright EXCEPT !.dark = FALSE]
           answered == [u EXCEPT !.reset = FALSE]
           asked == [u EXCEPT !.reset = TRUE]
<1>1. /\ u \in UiType /\ u.revision = t.ui.revision /\ u.safe = t.ui.safe /\ u.dirty
      /\ u.dimmed = t.ui.dimmed
  BY DEF TurnOK, UiType
<1>2. t.nav.revealed => ~t.ui.dimmed
  BY DEF TurnOK
<1>3. \/ r = t
      \/ r = [t EXCEPT !.ui = [u EXCEPT !.dimmed = FALSE, !.dark = FALSE], !.idle = 0]
      \/ r = [t EXCEPT !.idle = 0]
      \/ r = With(t, answered)
      \/ r = With(t, u)
      \/ r = With(t, asked)
      \/ /\ ~t.ui.dimmed
         /\ \E n \in passport_nav_key(t.nav, key, Counts(u.revision)) :
              r = [nav |-> n, ui |-> u, idle |-> 0]
  BY Zenon DEF Pressed, With
<1> HIDE DEF u
<1>4. /\ bright \in UiType /\ bright.revision = t.ui.revision /\ bright.safe = t.ui.safe
      /\ bright.dirty /\ ~bright.dimmed
  BY <1>1 DEF UiType
<1>5. awake = [u EXCEPT !.dimmed = FALSE, !.dark = FALSE]
  OBVIOUS
<1> HIDE DEF bright
<1>6. /\ awake \in UiType /\ awake.revision = t.ui.revision /\ awake.safe = t.ui.safe
      /\ awake.dirty /\ ~awake.dimmed
  BY <1>4 DEF UiType
<1>7. /\ answered \in UiType /\ answered.revision = t.ui.revision
      /\ answered.safe = t.ui.safe /\ answered.dirty /\ answered.dimmed = t.ui.dimmed
  BY <1>1 DEF UiType
<1>8. /\ asked \in UiType /\ asked.revision = t.ui.revision
      /\ asked.safe = t.ui.safe /\ asked.dirty /\ asked.dimmed = t.ui.dimmed
  BY <1>1 DEF UiType
<1> HIDE DEF awake, answered, asked
<1>9. TurnOK(With(t, awake)) /\ TurnOK(With(t, answered)) /\ TurnOK(With(t, asked))
      /\ TurnOK(With(t, u))
  BY <1>1, <1>2, <1>6, <1>7, <1>8, WithIs
<1>10. CASE r = [t EXCEPT !.ui = [u EXCEPT !.dimmed = FALSE, !.dark = FALSE], !.idle = 0]
  <2>1. r = With(t, awake)
    BY <1>5, <1>10 DEF With
  <2>2. QED
    BY <1>9, <2>1
<1>11. CASE r = [t EXCEPT !.idle = 0]
  <2>1. r \in [nav : NavType, ui : UiType, idle : 0 .. 2] /\ r.nav = t.nav /\ r.ui = t.ui
    BY <1>11 DEF TurnOK
  <2>2. QED
    BY <2>1 DEF TurnOK
<1>12. CASE /\ ~t.ui.dimmed
            /\ \E n \in passport_nav_key(t.nav, key, Counts(u.revision)) :
                 r = [nav |-> n, ui |-> u, idle |-> 0]
  <2>1. PICK n \in passport_nav_key(t.nav, key, Counts(u.revision)) :
               r = [nav |-> n, ui |-> u, idle |-> 0]
    BY <1>12
  <2>2. store \in 0 .. Len(Book)
    BY ScreenInvIs DEF ScreenParts, ScalarsOK
  <2>3. u.revision = store /\ PageFits(t.nav, Counts(store)) /\ Counts(store) \in Nat
    BY <1>1, <2>2, CountsIs DEF TurnOK
  <2>4. PageFits(n, Counts(store))
    BY <2>1, <2>3, NavKeyIs
  <2>5. r \in [nav : NavType, ui : UiType, idle : 0 .. 2] /\ r.nav = n /\ r.ui = u
    BY <1>1, <2>1, <2>4 DEF PageFits
  <2>6. QED
    BY <1>1, <1>12, <2>3, <2>4, <2>5 DEF TurnOK
<1>13. QED
  BY <1>3, <1>9, <1>10, <1>11, <1>12

\* The clock hides what was revealed before it dims.
LEMMA TimedIs ==
    ASSUME NEW t, TurnOK(t)
    PROVE  TurnOK(Timed(t)) /\ (Timed(t).nav.revealed => t.nav.revealed)
<1>1. PICK dim \in BOOLEAN : dim = (t.idle >= 1 /\ ~t.ui.dimmed)
  OBVIOUS
<1>2. PICK reset \in BOOLEAN : reset = (t.ui.reset /\ ~dim)
  OBVIOUS
<1>3. PICK dimmed \in BOOLEAN : dimmed = (t.ui.dimmed \/ dim)
  OBVIOUS
<1>4. PICK dirty \in BOOLEAN : dirty = (t.ui.dirty \/ dim)
  OBVIOUS
<1>5. PICK dark \in BOOLEAN : dark = (t.ui.dark \/ t.idle >= 2)
  OBVIOUS
<1> DEFINE n == IF dim THEN passport_nav_hide(t.nav) ELSE t.nav
           q1 == [t.ui EXCEPT !.reset = reset]
           q2 == [q1 EXCEPT !.dimmed = dimmed]
           q3 == [q2 EXCEPT !.dirty = dirty]
           u == [q3 EXCEPT !.dark = dark]
           r == [nav |-> n, ui |-> u, idle |-> t.idle]
<1>6. t.nav \in NavType /\ t.ui \in UiType /\ t.idle \in 0 .. 2 /\ PageFits(t.nav, Counts(store))
  BY DEF TurnOK
<1>7. /\ n \in NavType /\ PageFits(n, Counts(store)) /\ (n.revealed => t.nav.revealed /\ ~dim)
      /\ (~dim => n = t.nav)
  BY <1>6, HideIs DEF PageFits
<1>8. q1 \in UiType /\ q1.revision = t.ui.revision /\ q1.safe = t.ui.safe
  BY <1>6 DEF UiType
<1> HIDE DEF q1
<1>9. q2 \in UiType /\ q2.revision = t.ui.revision /\ q2.safe = t.ui.safe /\ q2.dimmed = dimmed
  BY <1>8 DEF UiType
<1> HIDE DEF q2
<1>10. q3 \in UiType /\ q3.revision = t.ui.revision /\ q3.safe = t.ui.safe
       /\ q3.dimmed = dimmed /\ q3.dirty = dirty
  BY <1>9 DEF UiType
<1> HIDE DEF q3
<1>11. u \in UiType /\ u.revision = t.ui.revision /\ u.safe = t.ui.safe
       /\ u.dimmed = dimmed /\ u.dirty = dirty
  BY <1>10 DEF UiType
<1> HIDE DEF u
<1>12. Timed(t) = r
  <2>1. u = [t.ui EXCEPT !.reset = @ /\ ~dim, !.dimmed = @ \/ dim, !.dirty = @ \/ dim,
                         !.dark = @ \/ t.idle >= 2]
    BY <1>1, <1>2, <1>3, <1>4, <1>5 DEF u, q3, q2, q1
  <2>2. QED
    BY <1>1, <2>1 DEF Timed
<1> HIDE DEF n
<1>13. r \in [nav : NavType, ui : UiType, idle : 0 .. 2] /\ r.nav = n /\ r.ui = u
  BY <1>6, <1>7, <1>11
<1> HIDE DEF r
<1>14. TurnOK(r)
  BY <1>3, <1>4, <1>7, <1>11, <1>13 DEF TurnOK
<1>15. QED
  BY <1>7, <1>12, <1>13, <1>14

LEMMA KeysStep ==
    ASSUME ScreenInv, NEW key \in Key, Keys(key)
    PROVE  ScreenInv'
<1>1. ScreenParts /\ ~Frozen
  BY ScreenInvIs DEF ScreenParts, LoopInv, Keys
<1>2. PICK pressed \in Pressed(Noticed, key), again \in {FALSE, Touched} :
        LET t == Timed(pressed)
        IN  /\ nav' = t.nav /\ idle' = t.idle
            /\ ui' = [t.ui EXCEPT !.dirty = @ \/ again]
            /\ permit' = IF ~t.nav.revealed THEN 0
                         ELSE IF Noticed.nav.revealed THEN permit ELSE store
  BY DEF Keys
<1> DEFINE t == Timed(pressed)
<1>3. /\ UNCHANGED <<link, sessions, heard, pairing, store, lvgl, page>>
      /\ UNCHANGED <<cap, shot, next_shot, still, last>>
      /\ w' = IF ~ui'.dirty \/ ui'.dark THEN "poll" ELSE "draw"
  BY DEF Keys, phone, capture
<1>4. TurnOK(Noticed) /\ (Noticed.nav.revealed => nav.revealed /\ ui.revision = store)
  BY NoticedIs
<1>5. TurnOK(t)
  BY <1>2, <1>4, PressedIs, TimedIs
<1> HIDE DEF t
<1>6. /\ t.nav \in NavType /\ t.ui \in UiType /\ t.idle \in 0 .. 2
      /\ t.ui.revision = store /\ PageFits(t.nav, Counts(store)) /\ t.ui.safe = ui.safe
      /\ (t.nav.revealed => ~t.ui.dimmed)
      /\ (~t.ui.dirty => t.nav = nav /\ ~ui.dirty /\ ui.revision = store)
  BY <1>5 DEF TurnOK
<1>7. PICK dirty \in BOOLEAN : dirty = (t.ui.dirty \/ again)
  OBVIOUS
<1>8. ui' = [t.ui EXCEPT !.dirty = dirty]
  BY <1>2, <1>7 DEF t
<1>9. /\ ui' \in UiType /\ ui'.revision = store /\ ui'.safe = ui.safe
      /\ ui'.dimmed = t.ui.dimmed /\ ui'.dirty = dirty
  BY <1>6, <1>8 DEF UiType
<1>10. nav' = t.nav /\ idle' = t.idle
       /\ permit' = IF ~t.nav.revealed THEN 0
                    ELSE IF Noticed.nav.revealed THEN permit ELSE store
  BY <1>2 DEF t
<1>11. store \in Nat /\ ui.revision \in 0 .. store /\ page \in Pages
       /\ lvgl \in [view : View, page : Pages] /\ (lvgl.view = "page" <=> lvgl.page # NoPage)
  BY <1>1, Bounds DEF ScreenParts, ScalarsOK, PagesOK, ShapeInv
<1>12. nav'.revealed => permit' = store
  BY <1>1, <1>4, <1>10 DEF ScreenParts, RevealInv
<1>13. PagesOK'
  BY <1>3, <1>6, <1>9, <1>10, <1>11, <1>12 DEF PagesOK, PageFits
<1>14. RevealInv'
  <2>1. page' # NoPage => page'[1] <= ui'.revision
    <3>1. page # NoPage => page[1] \in Nat
      BY <1>11 DEF Pages
    <3>2. page # NoPage => page[1] <= ui.revision
      BY <1>1 DEF ScreenParts, RevealInv
    <3>3. QED
      BY <1>3, <1>9, <1>11, <3>1, <3>2
  <2>2. IF nav'.revealed THEN permit' = ui'.revision /\ ~ui'.dimmed ELSE permit' = 0
    BY <1>6, <1>9, <1>10, <1>12
  <2>3. PrivateShown' /\ ~ui'.dirty => nav'.revealed /\ lvgl'.page[1] = ui'.revision
    <3>1. PrivateShown' = PrivateShown
      BY <1>3 DEF PrivateShown, Private
    <3>2. ~ui'.dirty => t.nav = nav /\ ~ui.dirty /\ ui.revision = store
      BY <1>6, <1>7, <1>9
    <3>3. QED
      BY <1>1, <1>3, <1>9, <1>10, <3>1, <3>2 DEF ScreenParts, RevealInv
  <2>4. QED
    BY <2>1, <2>2, <2>3 DEF RevealInv
<1>15. PageWhole' /\ still'
  BY <1>1, <1>3 DEF ScreenParts, PageWhole, CaptureInv
<1>16. ui'.safe => lvgl'.view \in Public
  BY <1>1, <1>3, <1>9 DEF ScreenParts, CaptureInv
<1>17. LoopInv' /\ w' \in {"poll", "draw"}
  BY <1>1, <1>3 DEF LoopInv, Frozen
<1>18. idle' \in 0 .. 2 /\ nav' \in NavType
  BY <1>6, <1>10
<1>19. QED
  BY <1>1, <1>3, <1>9, <1>11, <1>13, <1>14, <1>15, <1>16, <1>17, <1>18, PagesMove

-----------------------------------------------------------------------------
(* Drawing *)

LEMMA ClearedIs ==
    ASSUME ScreenInv, Cleared
    PROVE  UiKeeps(ui, ui') /\ lvgl' = Shown("blank") /\ (shot.phase # "CAPTURING" => still')
<1>1. ui \in UiType /\ still
  BY ScreenInvIs DEF ScreenParts, ShapeInv, CaptureInv
<1>2. ui' = [ui EXCEPT !.image = FALSE]
  BY DEF Cleared
<1>3. ui' \in UiType
  BY <1>1, <1>2 DEF UiType
<1>4. ui'.revision = ui.revision /\ ui'.dimmed = ui.dimmed /\ ui'.safe = ui.safe
      /\ ui'.dirty = ui.dirty
  BY <1>1, <1>2 DEF UiType
<1>5. QED
  BY <1>1, <1>3, <1>4 DEF UiKeeps, Cleared, Redrawn

\* A snapshot that is not there has no pages.
LEMMA NoPageYet ==
    ASSUME ScreenInv, ui.revision = 0
    PROVE  page = NoPage
<1>1. page \in Pages /\ (page # NoPage => page[1] <= 0)
  BY ScreenInvIs DEF ScreenParts, ShapeInv, RevealInv
<1>2. page # NoPage => page[1] \in Nat \ {0}
  BY <1>1 DEF Pages
<1>3. QED
  BY <1>1, <1>2

LEMMA DrawStep ==
    ASSUME ScreenInv, Draw
    PROVE  ScreenInv'
<1>1. ScreenParts /\ ~Frozen /\ ui.dirty
  BY ScreenInvIs DEF ScreenParts, LoopInv, Draw
<1>2. /\ UNCHANGED <<link, sessions, heard, pairing, store, idle>>
      /\ UNCHANGED <<nav, permit, cap, shot, next_shot, last>>
      /\ IF Clears THEN Cleared ELSE UNCHANGED <<lvgl, still, ui>>
      /\ page' = IF Reads THEN NoPage ELSE page
      /\ w' = IF Reads THEN "read" ELSE "render"
  BY DEF Draw, phone, world
<1>3. shot.phase # "CAPTURING" /\ still /\ ui \in UiType /\ page \in Pages
      /\ lvgl \in [view : View, page : Pages]
  BY <1>1 DEF ScreenParts, CaptureInv, ShapeInv, Frozen
<1>4. UiKeeps(ui, ui') /\ still' /\ ui'.dirty
  <2>1. CASE Clears
    BY <1>1, <1>2, <1>3, <2>1, ClearedIs DEF UiKeeps
  <2>2. CASE ~Clears
    BY <1>1, <1>2, <1>3, <2>2 DEF UiKeeps
  <2>3. QED
    BY <2>1, <2>2
<1>5. lvgl' = lvgl \/ lvgl' = Shown("blank")
  BY <1>2 DEF Cleared
<1>6. Reads => Clears /\ lvgl' = Shown("blank") /\ nav.screen = "PAGE"
  BY <1>2 DEF Reads, Clears, Cleared
<1>7. page' \in Pages /\ lvgl' \in [view : View, page : Pages]
  BY <1>2, <1>3, <1>5, BlankIs DEF Pages
<1>8. PagesOK'
  BY <1>1, <1>2, <1>4, <1>5, BlankIs DEF ScreenParts, PagesOK, UiKeeps
<1>9. PageWhole'
  BY <1>1, <1>2, <1>5, <1>6, BlankIs DEF ScreenParts, PageWhole
<1>10. RevealInv'
  BY <1>1, <1>2, <1>4 DEF ScreenParts, RevealInv, UiKeeps
<1>11. ui'.safe => lvgl'.view \in Public
  BY <1>1, <1>4, <1>5, BlankIs DEF ScreenParts, CaptureInv, UiKeeps
<1>12. LoopInv'
  <2>1. CASE Reads
    BY <1>1, <1>2, <1>4, <1>6, <2>1, BlankIs DEF LoopInv, Frozen
  <2>2. CASE ~Reads
    <3>1. nav'.screen = "PAGE" => page' = NoPage
      BY <1>2, <2>2, NoPageYet DEF Reads
    <3>2. QED
      BY <1>1, <1>2, <1>4, <2>2, <3>1 DEF LoopInv, Frozen
  <2>3. QED
    BY <2>1, <2>2
<1>13. w' \in {"read", "render"} /\ idle' \in 0 .. 2 /\ nav' \in NavType
  BY <1>1, <1>2 DEF ScreenParts, ScalarsOK, ShapeInv
<1>14. ui' \in UiType
  BY <1>4 DEF UiKeeps
<1>15. QED
  BY <1>1, <1>2, <1>4, <1>7, <1>8, <1>9, <1>10, <1>11, <1>12, <1>13, <1>14, PagesMove

LEMMA DrawMissedStep ==
    ASSUME ScreenInv, DrawMissed
    PROVE  ScreenInv'
<1>1. ScreenParts /\ ~Frozen /\ ui.dirty
  BY ScreenInvIs DEF ScreenParts, LoopInv, DrawMissed
<1>2. /\ UNCHANGED <<link, sessions, heard, pairing, store, idle>>
      /\ UNCHANGED <<nav, page, permit, cap, shot, next_shot, last>> /\ w' = "poll"
      /\ UNCHANGED <<lvgl, still, ui>> \/ Cleared
  BY DEF DrawMissed, phone, world
<1>3. /\ shot.phase # "CAPTURING" /\ still /\ cap \in CapType /\ shot \in ShotType
      /\ CaptureOf(cap, shot, lvgl.view) /\ SessionOf(shot, heard, next_shot)
      /\ last \in 0 .. sessions /\ ui \in UiType /\ next_shot \in 0 .. MaxShots
  BY <1>1 DEF ScreenParts, CaptureInv, SendInv, ShapeInv, ScalarsOK, Frozen
<1>4. CASE UNCHANGED <<lvgl, still, ui>>
  <2>1. UiKeeps(ui, ui')
    BY <1>3, <1>4 DEF UiKeeps
  <2>2. QED
    BY <1>2, <1>3, <1>4, <2>1, PollMoves
<1>5. CASE Cleared
  <2>1. UiKeeps(ui, ui') /\ lvgl' = Shown("blank") /\ still'
    BY <1>3, <1>5, ClearedIs
  <2>2. QED
    BY <1>2, <1>3, <2>1, PollLoop, BlankMoves
<1>6. QED
  BY <1>2, <1>4, <1>5

LEMMA ReadEndsStep ==
    ASSUME ScreenInv, ReadEnds
    PROVE  ScreenInv'
<1>1. ScreenParts /\ ~Frozen /\ ui.dirty /\ nav.screen = "PAGE" /\ lvgl.view = "blank"
      /\ page = NoPage
  BY ScreenInvIs DEF ScreenParts, LoopInv, ReadEnds
<1>2. /\ UNCHANGED <<link, sessions, heard, pairing, store, idle>>
      /\ UNCHANGED <<ui, lvgl, cap, shot, next_shot, still, last>>
      /\ \/ /\ w' = "poll" /\ nav' = passport_nav_hide(nav) /\ permit' = 0 /\ UNCHANGED page
         \/ w' = "render" /\ UNCHANGED <<page, nav, permit>>
         \/ /\ store = ui.revision /\ w' = "render" /\ nav.page < Counts(store)
            /\ page' = <<store, nav.page>> /\ UNCHANGED <<nav, permit>>
  BY DEF ReadEnds, phone, world, capture
<1>3. /\ nav \in NavType /\ ui \in UiType /\ lvgl \in [view : View, page : Pages]
      /\ page \in Pages /\ still /\ idle \in 0 .. 2 /\ store \in Nat
      /\ ui.safe => lvgl.view \in Public
  BY <1>1, Bounds DEF ScreenParts, ShapeInv, CaptureInv, ScalarsOK
<1>4. PageWhole' /\ ~PrivateShown'
  BY <1>1, <1>2 DEF PageWhole, PrivateShown
<1>5. CASE w' = "poll" /\ nav' = passport_nav_hide(nav) /\ permit' = 0 /\ UNCHANGED page
  <2>1. nav' \in NavType /\ ~nav'.revealed /\ nav'.page = nav.page
    BY <1>3, <1>5, HideIs
  <2>2. PagesOK'
    BY <1>1, <1>2, <1>3, <1>5, <2>1 DEF ScreenParts, PagesOK
  <2>3. RevealInv'
    BY <1>1, <1>2, <1>4, <1>5, <2>1 DEF RevealInv
  <2>4. QED
    BY <1>1, <1>2, <1>3, <1>4, <1>5, <2>1, <2>2, <2>3, PollLoop, PagesMove
<1>6. ASSUME w' = "render", UNCHANGED <<nav, permit>>, page' \in Pages,
             page' = NoPage \/ page'[1] = ui.revision
      PROVE  ScreenInv'
  <2>1. PagesOK'
    BY <1>1, <1>2, <1>6 DEF ScreenParts, PagesOK
  <2>2. RevealInv'
    <3>1. page' # NoPage => page'[1] <= ui'.revision
      BY <1>2, <1>3, <1>6 DEF UiType
    <3>2. QED
      BY <1>1, <1>2, <1>4, <1>6, <3>1 DEF ScreenParts, RevealInv
  <2>3. LoopInv'
    BY <1>1, <1>2, <1>6 DEF LoopInv, Frozen
  <2>4. QED
    BY <1>1, <1>2, <1>3, <1>4, <1>6, <2>1, <2>2, <2>3, PagesMove
<1>7. CASE w' = "render" /\ UNCHANGED <<page, nav, permit>>
  BY <1>1, <1>3, <1>6, <1>7
<1>8. CASE /\ store = ui.revision /\ w' = "render" /\ nav.page < Counts(store)
           /\ page' = <<store, nav.page>> /\ UNCHANGED <<nav, permit>>
  <2>1. store # 0
    BY <1>3, <1>8 DEF Counts, NavType
  <2>2. page' \in Pages
    BY <1>3, <1>8, <2>1 DEF Pages, NavType
  <2>3. page'[1] = ui.revision
    BY <1>8
  <2>4. QED
    BY <1>6, <1>8, <2>2, <2>3
<1>9. QED
  BY <1>2, <1>5, <1>7, <1>8

LEMMA RenderStep ==
    ASSUME ScreenInv, Render
    PROVE  ScreenInv'
<1>1. ScreenParts /\ ~Frozen /\ ui.dirty
      /\ (nav.screen = "PAGE" => page = NoPage \/ page[1] = ui.revision)
  BY ScreenInvIs DEF ScreenParts, LoopInv, Render
<1>2. PICK image \in BOOLEAN :
        /\ lvgl' = Drawn(image)
        /\ ui' = [ui EXCEPT !.image = image, !.dirty = FALSE,
                            !.safe = nav.screen # "PAGE" /\ ~ui.pairing /\ ~ui.reset]
  BY DEF Render
<1>3. /\ UNCHANGED <<link, sessions, heard, pairing, store, idle>>
      /\ UNCHANGED <<nav, permit, cap, shot, next_shot, last>> /\ w' = "poll"
      /\ page' = lvgl'.page /\ Redrawn(shot)
  BY DEF Render, phone, world
<1>4. /\ nav \in NavType /\ ui \in UiType /\ page \in Pages /\ idle \in 0 .. 2
      /\ shot.phase # "CAPTURING" /\ still
  BY <1>1 DEF ScreenParts, ShapeInv, CaptureInv, ScalarsOK, Frozen
<1>5. still'
  BY <1>3, <1>4 DEF Redrawn
<1>6. PICK safe \in BOOLEAN : safe = (nav.screen # "PAGE" /\ ~ui.pairing /\ ~ui.reset)
  OBVIOUS
<1>7. /\ ui' \in UiType /\ ui'.revision = ui.revision /\ ui'.dimmed = ui.dimmed
      /\ ui'.safe = safe
  <2> DEFINE q1 == [ui EXCEPT !.image = image]
             q2 == [q1 EXCEPT !.dirty = FALSE]
             v == [q2 EXCEPT !.safe = safe]
  <2>1. q1 \in UiType /\ q1.revision = ui.revision /\ q1.dimmed = ui.dimmed
    BY <1>4 DEF UiType
  <2> HIDE DEF q1
  <2>2. q2 \in UiType /\ q2.revision = ui.revision /\ q2.dimmed = ui.dimmed
    BY <2>1 DEF UiType
  <2> HIDE DEF q2
  <2>3. v \in UiType /\ v.revision = ui.revision /\ v.dimmed = ui.dimmed /\ v.safe = safe
    BY <2>2 DEF UiType
  <2> HIDE DEF v
  <2>4. ui' = v
    BY <1>2, <1>6 DEF v, q2, q1
  <2>5. QED
    BY <2>3, <2>4
<1>8. \/ /\ lvgl' = [view |-> "page", page |-> page] /\ page # NoPage /\ ~safe
         /\ nav.screen = "PAGE" /\ (~Private(page) \/ nav.revealed)
      \/ \E view \in View \ {"page"} : lvgl' = Shown(view) /\ (safe => view \in Public)
  <2>1. CASE ui.reset
    BY <1>2, <1>6, <2>1 DEF Drawn, View
  <2>2. CASE ~ui.reset /\ ui.pairing
    BY <1>2, <1>6, <2>2 DEF Drawn, View
  <2>3. CASE ~ui.reset /\ ~ui.pairing /\ nav.screen = "PAGE"
    <3>1. CASE page # NoPage /\ (~Private(page) \/ nav.revealed)
      <4>1. lvgl' = [view |-> "page", page |-> page]
        BY <1>2, <2>3, <3>1 DEF Drawn
      <4>2. QED
        BY <1>6, <2>3, <3>1, <4>1
    <3>2. CASE ~(page # NoPage /\ (~Private(page) \/ nav.revealed))
      <4>1. lvgl' = Shown("hidden") /\ ~safe
        BY <1>2, <1>6, <2>3, <3>2 DEF Drawn
      <4>2. "hidden" \in View \ {"page"}
        BY DEF View
      <4>3. QED
        BY <4>1, <4>2
    <3>3. QED
      BY <3>1, <3>2
  <2>4. CASE ~ui.reset /\ ~ui.pairing /\ nav.screen # "PAGE"
    BY <1>2, <1>6, <2>4 DEF Drawn, View, Public
  <2>5. QED
    BY <2>1, <2>2, <2>3, <2>4
<1>9. ASSUME lvgl' \in [view : View, page : Pages], lvgl'.view = "page" <=> lvgl'.page # NoPage,
             lvgl'.view = "page" => /\ lvgl'.page = page /\ ui.revision = page[1]
                                    /\ (Private(lvgl'.page) => nav.revealed),
             safe => lvgl'.view \in Public
      PROVE  ScreenInv'
  <2>1. PagesOK'
    BY <1>1, <1>3, <1>7, <1>9 DEF ScreenParts, PagesOK
  <2>2. page' \in Pages /\ PageWhole' /\ (page' # NoPage => page'[1] = ui.revision)
    BY <1>3, <1>9 DEF PageWhole
  <2>3. page' # NoPage => page'[1] <= ui'.revision
    BY <1>4, <1>7, <2>2 DEF UiType
  <2>4. RevealInv'
    BY <1>1, <1>3, <1>7, <1>9, <2>2, <2>3 DEF ScreenParts, RevealInv, PrivateShown, Private
  <2>5. QED
    BY <1>1, <1>3, <1>4, <1>5, <1>7, <1>9, <2>1, <2>2, <2>4, PollLoop, PagesMove
<1>10. CASE /\ lvgl' = [view |-> "page", page |-> page] /\ page # NoPage /\ ~safe
            /\ nav.screen = "PAGE" /\ (~Private(page) \/ nav.revealed)
  <2>1. lvgl'.view = "page" /\ lvgl'.page = page /\ lvgl' \in [view : View, page : Pages]
    BY <1>4, <1>10 DEF View
  <2>2. ui.revision = page[1]
    BY <1>1, <1>10
  <2>3. Private(lvgl'.page) => nav.revealed
    BY <1>10, <2>1
  <2>4. QED
    BY <1>9, <1>10, <2>1, <2>2, <2>3
<1>11. CASE \E view \in View \ {"page"} : lvgl' = Shown(view) /\ (safe => view \in Public)
  <2>1. PICK view \in View \ {"page"} : lvgl' = Shown(view) /\ (safe => view \in Public)
    BY <1>11
  <2>2. lvgl'.view = view /\ lvgl'.page = NoPage /\ lvgl' \in [view : View, page : Pages]
    BY <2>1 DEF Shown, Pages
  <2>3. QED
    BY <1>9, <2>1, <2>2
<1>12. QED
  BY <1>8, <1>10, <1>11

LEMMA RenderMissedStep ==
    ASSUME ScreenInv, RenderMissed
    PROVE  ScreenInv'
<1>1. /\ UNCHANGED <<link, sessions, heard, pairing, store, idle>>
      /\ UNCHANGED <<nav, ui, lvgl, page, permit, cap, shot, next_shot, still, last>>
      /\ w' = "poll"
  BY DEF RenderMissed, phone, world, screen, capture
<1>2. /\ still /\ cap \in CapType /\ shot \in ShotType
      /\ CaptureOf(cap, shot, lvgl.view) /\ SessionOf(shot, heard, next_shot)
      /\ last \in 0 .. sessions /\ ui \in UiType /\ next_shot \in 0 .. MaxShots
  BY ScreenInvIs DEF ScreenParts, CaptureInv, SendInv, ShapeInv, ScalarsOK
<1>3. UiKeeps(ui, ui')
  BY <1>1, <1>2 DEF UiKeeps
<1>4. QED
  BY <1>1, <1>2, <1>3, PollMoves

-----------------------------------------------------------------------------
(* The invariant *)

LEMMA ScreenInvInit == Init => ScreenInv
<1> SUFFICES ASSUME Init PROVE ScreenInv
  OBVIOUS
<1>1. Over(NoShot, 0) /\ NoShot.phase = "IDLE"
  BY NoShotIs
<1>2. shot \in ShotType /\ SendInv
  BY <1>1, OverSession DEF Init, SendInv, Over
<1>3. cap \in CapType /\ cap.strip = "disarmed" /\ cap.stage = "none" /\ ~cap.observer
  BY NewCaptureIs DEF Init
<1>4. CaptureInv
  BY <1>1, <1>3 DEF Init, CaptureInv, CaptureOf, Active, Sending, Held
<1>5. ShapeInv
  BY <1>2, <1>3, BlankIs DEF Init, ShapeInv, NavType, UiType, Screens, Pages
<1>6. ScalarsOK /\ next_shot \in 0 .. MaxShots
  <2>1. pairing = FALSE /\ still = TRUE /\ sessions = 0 /\ link = 0 /\ last = 0 /\ idle = 0
        /\ next_shot = 0 /\ store \in 0 .. Len(Book)
    BY DEF Init
  <2>2. {pairing, still} \subseteq BOOLEAN
    BY <2>1
  <2>3. QED
    BY <2>1, <2>2, Bounds DEF ScalarsOK
<1>7. PagesOK
  <2>1. store \in Nat
    BY Bounds DEF Init
  <2>2. QED
    BY <2>1, BlankIs DEF Init, PagesOK
<1>8. LoopInv /\ RevealInv /\ PageWhole
  BY BlankIs DEF Init, LoopInv, RevealInv, PageWhole, PrivateShown
<1>9. ScreenParts
  BY <1>2, <1>4, <1>5, <1>6, <1>7, <1>8 DEF ScreenParts, Init
<1>10. QED
  BY <1>9, ScreenInvIs

LEMMA ScreenInvStep == ScreenInv /\ [Next]_vars => ScreenInv'
<1> SUFFICES ASSUME ScreenInv, [Next]_vars
             PROVE  ScreenInv'
  OBVIOUS
<1>1. CASE SessionStarts \/ SessionEnds \/ PairingChanges \/ Commits \/ TimePasses
  BY <1>1, OthersStep
<1>2. CASE ShotExpires \/ StripExpires \/ Flush
  BY <1>2, ShotExpiresStep, ObserverStep
<1>3. CASE \E p \in Command : ShotCommand(p)
  BY <1>3, ShotCommandStep
<1>4. CASE ImageBegin \/ ImageEnd \/ EndPoll
  BY <1>4, ImageBeginStep, ImageEndStep, EndPollStep
<1>5. CASE Tick \/ CapturePoll \/ Send
  BY <1>5, TickStep, CapturePollStep, SendStep
<1>6. CASE \E key \in Key : Keys(key)
  BY <1>6, KeysStep
<1>7. CASE Draw \/ DrawMissed \/ ReadEnds \/ Render \/ RenderMissed
  BY <1>7, DrawStep, DrawMissedStep, ReadEndsStep, RenderStep, RenderMissedStep
<1>8. CASE UNCHANGED vars
  <2>1. UNCHANGED <<link, sessions, heard, pairing, store, idle>>
        /\ UNCHANGED <<nav, ui, lvgl, page, permit, cap, shot, next_shot, still, last, w>>
    BY <1>8 DEF vars, phone, world, screen, capture
  <2>2. cap \in CapType /\ shot \in ShotType /\ heard \in Packet \cup {NoPacket}
        /\ CaptureOf(cap, shot, lvgl.view) /\ SessionOf(shot, heard, next_shot)
        /\ LoopInv
        /\ w \in {"poll", "tick", "capture", "send", "keys", "draw", "read", "render"}
    BY CaptureFacts, ScreenInvIs DEF ScreenParts
  <2>3. LoopInv'
    BY <2>1, <2>2 DEF LoopInv, Frozen
  <2>4. QED
    BY <2>1, <2>2, <2>3, CaptureMoves
<1>9. QED
  BY <1>1, <1>2, <1>3, <1>4, <1>5, <1>6, <1>7, <1>8 DEF Next, Loop

LEMMA ScreenInvAlways == Spec => []ScreenInv
<1>1. Init => ScreenInv
  BY ScreenInvInit
<1>2. ScreenInv /\ [Next]_vars => ScreenInv'
  BY ScreenInvStep
<1>3. QED
  BY <1>1, <1>2, PTL DEF Spec

-----------------------------------------------------------------------------
(* What the phone heard *)

\* What a command of the phone changes keeps it at most a packet behind.
LEMMA CommandHeard ==
    ASSUME NEW m, Fits(m), ScreenInv, NEW s, s \in {shot, NoShot}, HeardBy(m, s, heard),
           SessionOf(s, heard, next_shot), s \in ShotType, NEW p \in Command
    PROVE  HeardBy(m, Commanded(s, p, next_shot).shot, heard)
<1>1. /\ p.op \in {"BAD", "START", "ACK", "DONE", "CANCEL"}
      /\ p.op = "ACK" => /\ heard # NoPacket /\ p.session = heard.session
                         /\ p.sequence \in 0 .. heard.sequence
  BY CommandIs
<1>2. heard \in Packet \cup {NoPacket} /\ next_shot \in Nat
  BY CaptureFacts
<1> DEFINE a == Commanded(s, p, next_shot)
<1>3. HeardBy(m, NoShot, heard)
  BY NoShotIs DEF HeardBy
<1>4. CASE a.shot = s
  BY <1>4
<1>5. CASE p.op = "ACK" /\ s.awaiting /\ p.session = s.session /\ p.sequence = s.sequence
           /\ a = Acked(s)
  <2>1. heard \in Packet /\ heard.session = s.session /\ s.sequence \in 0 .. heard.sequence
    BY <1>1, <1>2, <1>5
  <2>2. heard = s.packet
    BY <1>5, <2>1, AckedWasHeard
  <2>3. HeardBy(m, Acked(s).shot, heard)
    BY <1>5, <2>1, <2>2, AckedHeard
  <2>4. QED
    BY <1>5, <2>3
<1>6. CASE a.shot = NoShot
  BY <1>3, <1>6
<1>7. CASE a.shot = Numbered("CAPTURING", next_shot + 1)
  <2>1. Numbered("CAPTURING", next_shot + 1).phase = "CAPTURING"
    BY <1>2, NumberedShot DEF Phase
  <2>2. QED
    BY <1>7, <2>1 DEF HeardBy
<1>8. a.shot = s \/ a.shot = NoShot \/ a.shot = Numbered("CAPTURING", next_shot + 1)
      \/ /\ p.op = "ACK" /\ s.awaiting /\ p.session = s.session /\ p.sequence = s.sequence
         /\ a = Acked(s)
  <2>1. CASE p.op = "BAD"
    BY <2>1 DEF Commanded, stock_shot_command, Answer, Step
  <2>2. CASE p.op = "START"
    <3>1. a = StartShot(s, next_shot + 1)
      BY <2>2 DEF Commanded, stock_shot_command
    <3>2. \/ a = Answer(s, "0x1b") \/ a = Answer(s, "0x1c")
          \/ a = Step(Numbered("CAPTURING", next_shot + 1), "NONE", TRUE, TRUE)
      BY <3>1, Zenon DEF StartShot, Numbered
    <3> HIDE DEF a
    <3>3. QED
      BY <3>2 DEF Answer, Step
  <2>3. CASE p.op = "ACK"
    BY <2>3 DEF Commanded, stock_shot_command, Answer, Step, Ack
  <2>4. CASE p.op \in {"DONE", "CANCEL"}
    BY <2>4 DEF Commanded, stock_shot_command, Answer, Step, EndShot
  <2>5. QED
    BY <1>1, <2>1, <2>2, <2>3, <2>4
<1>9. QED
  BY <1>4, <1>5, <1>6, <1>7, <1>8

LEMMA QuietHeard ==
    ASSUME NEW m, NEW h, NEW s, s.phase \notin {"DATA", "END", "COMPLETE"}
    PROVE  HeardBy(m, s, h)
BY DEF HeardBy

\* What happens to the phone, step by step.
LEMMA HeardStep ==
    ASSUME NEW m, Fits(m), ScreenInv, HeardInv(m), [Next]_vars
    PROVE  HeardInv(m)' /\ (heard' = heard \/ Follows(heard, heard'))
<1>1. /\ shot \in ShotType /\ heard \in Packet \cup {NoPacket} /\ next_shot \in Nat
      /\ SessionOf(shot, heard, next_shot) /\ HeardBy(m, shot, heard)
  BY CaptureFacts DEF HeardInv
<1>2. SUFFICES HeardBy(m, shot', heard') /\ (heard' = heard \/ Follows(heard, heard'))
  BY DEF HeardInv, HeardBy, Behind
<1>3. HeardBy(m, NoShot, heard)
  BY NoShotIs, QuietHeard
<1>4. ASSUME NEW s \in ShotType, NEW c, Fail(s, c), UNCHANGED heard
      PROVE  HeardBy(m, shot', heard') /\ heard' = heard
  <2>1. s.session <= s.session /\ s.session \in Nat
    BY DEF ShotType
  <2>2. shot'.phase = "FAILED"
    BY <1>4, <2>1, FailedIs DEF Fail
  <2>3. QED
    BY <1>4, <2>2, QuietHeard
<1>5. CASE UNCHANGED <<shot, heard>>
  BY <1>1, <1>5
<1>6. CASE ShotExpires
  BY <1>1, <1>6, LateHeard DEF ShotExpires, phone
<1>7. CASE \E p \in Command : ShotCommand(p)
  <2>1. PICK p \in Command : ShotCommand(p)
    BY <1>7
  <2>2. UNCHANGED heard
    BY <2>1 DEF ShotCommand, Received, phone
  <2>3. PICK b \in Bases, capacity \in Capacities :
          LET a == Commanded(b.shot, p, next_shot)
          IN  \/ shot' = b.shot
              \/ shot' = a.shot
              \/ \E c : Fail(a.shot, c)
    BY <2>1, Zenon DEF ShotCommand, Commanded
  <2>4. /\ b.shot \in ShotType /\ b.shot \in {shot, NoShot}
        /\ SessionOf(b.shot, heard, next_shot)
    BY BaseIs
  <2>5. HeardBy(m, b.shot, heard)
    BY <1>1, <1>3, <2>4
  <2> DEFINE a == Commanded(b.shot, p, next_shot)
  <2>6. HeardBy(m, a.shot, heard)
    BY <2>4, <2>5, CommandHeard
  <2>7. a.shot \in ShotType
    <3>1. p.op \in {"BAD", "START", "ACK", "DONE", "CANCEL"}
      BY CommandIs
    <3>2. PICK k : k = IF p.op = "START" THEN next_shot + 1 ELSE next_shot
      OBVIOUS
    <3>3. CommandLeaves(b.shot, heard, k, a)
      BY <1>1, <2>4, <3>1, <3>2, CommandLeavesIs
    <3>4. QED
      BY <3>3 DEF CommandLeaves
  <2>8. QED
    BY <1>4, <2>2, <2>3, <2>5, <2>6, <2>7
<1>8. CASE ImageBegin \/ ImageEnd
  <2>1. PICK b \in Bases : shot' = b.shot
    BY <1>8 DEF ImageBegin, ImageEnd
  <2>2. UNCHANGED heard
    BY <1>8 DEF ImageBegin, ImageEnd, Received, phone
  <2>3. b.shot \in {shot, NoShot}
    BY BaseIs
  <2>4. QED
    BY <1>1, <1>3, <2>1, <2>2, <2>3
<1>9. CASE EndPoll
  <2>1. shot' \in {shot, NoShot} /\ UNCHANGED heard
    BY <1>9 DEF EndPoll, phone
  <2>2. QED
    BY <1>1, <1>3, <2>1
<1>10. CASE Tick
  <2>1. UNCHANGED heard
    BY <1>10 DEF Tick, phone
  <2>2. UNCHANGED shot \/ \E c : Fail(shot, c)
    BY <1>10 DEF Tick
  <2>3. QED
    BY <1>1, <1>4, <1>5, <2>1, <2>2
<1>11. CASE CapturePoll
  <2>1. UNCHANGED heard
    BY <1>11 DEF CapturePoll, phone
  <2>2. UNCHANGED shot \/ shot' = stock_shot_captured(shot) \/ \E c : Fail(shot, c)
    BY <1>11, Zenon DEF CapturePoll
  <2>3. CASE shot' = stock_shot_captured(shot)
    <3>1. shot.phase = "CAPTURING"
      BY <1>11, ScreenInvIs DEF ScreenParts, LoopInv, CapturePoll
    <3>2. shot'.phase = "BEGIN"
      BY <1>1, <2>3, <3>1, CapturedIs
    <3>3. QED
      BY <2>1, <3>2, QuietHeard
  <2>4. QED
    BY <1>1, <1>4, <1>5, <2>1, <2>2, <2>3
<1>12. CASE Send
  <2>1. shot.phase \in Sending
    BY <1>12, ScreenInvIs DEF ScreenParts, LoopInv, Send
  <2>2. PICK capacity \in (IF Current /\ ~Touched THEN Capacities ELSE {0}) :
           LET p == stock_shot_packet(shot, capacity)
           IN  \/ Fail(shot, cap) /\ UNCHANGED heard
               \/ UNCHANGED <<shot, cap, heard>>
               \/ /\ capacity # 0 /\ p # NoPacket /\ heard' \in {heard, p}
                  /\ shot' = Sent(shot, p) /\ UNCHANGED cap
    BY <1>12, Zenon DEF Send, Sent
  <2> DEFINE p == stock_shot_packet(shot, capacity)
  <2> HIDE DEF p
  <2>3. CASE Fail(shot, cap) /\ UNCHANGED heard
    BY <1>1, <1>4, <2>3
  <2>4. CASE UNCHANGED <<shot, cap, heard>>
    BY <1>5, <2>4
  <2>5. CASE /\ capacity # 0 /\ p # NoPacket /\ heard' \in {heard, p}
             /\ shot' = Sent(shot, p) /\ UNCHANGED cap
    <3>1. capacity \in Nat \ {0} /\ capacity >= m /\ MaxData >= m /\ m \in Nat
      BY <2>2, <2>5, PassportScreenAssumption, Numbers DEF Fits
    <3>2. /\ p \in Packet /\ PacketOf(p, shot)
          /\ shot.packet # NoPacket => p = shot.packet
          /\ shot.awaiting => shot.retries < Retries
          /\ shot.packet = NoPacket /\ shot.phase = "DATA" =>
                \/ p.pixels = capacity \/ p.pixels = MaxData
                \/ p.offset + p.pixels = FrameSize
      BY <1>1, <2>1, <2>5, <3>1, PacketIs DEF p
    <3>3. shot.packet = NoPacket /\ shot.phase = "DATA" =>
                \/ p.pixels >= m \/ p.offset + p.pixels = FrameSize
      BY <3>1, <3>2
    <3>4. HeardBy(m, shot', heard')
      BY <1>1, <2>1, <2>5, <3>2, <3>3, SentHeard
    <3>5. Follows(heard, p)
      BY <1>1, <2>1, <3>2, SentFollows
    <3>6. QED
      BY <2>5, <3>4, <3>5
  <2>6. QED
    BY <2>2, <2>3, <2>4, <2>5 DEF p
<1>13. CASE SessionStarts \/ SessionEnds \/ PairingChanges \/ Commits \/ TimePasses
            \/ StripExpires \/ Flush
  <2>1. UNCHANGED <<shot, heard>>
    BY <1>13 DEF SessionStarts, SessionEnds, PairingChanges, Commits, TimePasses,
                 StripExpires, Flush, phone, capture
  <2>2. QED
    BY <1>5, <2>1
<1>14. CASE (\E key \in Key : Keys(key)) \/ Draw \/ DrawMissed \/ ReadEnds \/ Render
            \/ RenderMissed \/ UNCHANGED vars
  <2>1. UNCHANGED <<shot, heard>>
    BY <1>14 DEF Keys, Draw, DrawMissed, ReadEnds, Render, RenderMissed, vars, phone, capture
  <2>2. QED
    BY <1>5, <2>1
<1>15. QED
  BY <1>6, <1>7, <1>8, <1>9, <1>10, <1>11, <1>12, <1>13, <1>14 DEF Next, Loop

LEMMA HeardInvAlways ==
    ASSUME NEW m, Fits(m)
    PROVE  Spec => []HeardInv(m)
<1>1. Init => HeardInv(m)
  BY NoShotIs, QuietHeard DEF Init, HeardInv
<1>2. ScreenInv /\ HeardInv(m) /\ [Next]_vars => HeardInv(m)'
  BY HeardStep
<1>3. QED
  BY <1>1, <1>2, ScreenInvAlways, PTL DEF Spec

-----------------------------------------------------------------------------
(* The properties *)

\* The state keeps its bounds: page numbers are of the snapshot that is shown,
\* offsets of the frame, and a packet is sent again no more often than allowed.
THEOREM TypeCorrect == Spec => []TypeOK
<1>1. ScreenInv => TypeOK
  BY DEF ScreenInv
<1>2. QED
  BY <1>1, ScreenInvAlways, PTL

\* A capture never copies a wallet page, a passkey or the reset question, and
\* nothing redraws the screen while its strips are copied: main.c does not go on
\* to keys and drawing before the capture is over.
THEOREM CapturesArePublic == Spec => []CaptureIsPublic
<1>1. ScreenInv => CaptureIsPublic
  <2> SUFFICES ASSUME ScreenInv PROVE CaptureIsPublic
    OBVIOUS
  <2>1. cap.frame \in Seq(Public) /\ still
    BY ScreenInvIs DEF ScreenParts, ShapeInv, CaptureInv, CapType
  <2>2. \A i \in DOMAIN cap.frame : cap.frame[i] \in Public
    BY <2>1, ElementOfSeq, LenProperties
  <2>3. QED
    BY <2>1, <2>2 DEF CaptureIsPublic, Public
<1>2. QED
  BY <1>1, ScreenInvAlways, PTL

\* What is private is on the screen only in the revision in which it was
\* revealed, and not after the screen was dimmed.
THEOREM RevealsHold == Spec => []RevealHolds
<1>1. ScreenInv => RevealHolds
  BY ScreenInvIs DEF ScreenParts, RevealInv, RevealHolds
<1>2. QED
  BY <1>1, ScreenInvAlways, PTL

\* LVGL never draws from the page buffer while the next page is read into it.
THEOREM PagesAreWhole == Spec => []PageWhole
<1>1. ScreenInv => PageWhole
  BY DEF ScreenInv
<1>2. QED
  BY <1>1, ScreenInvAlways, PTL

\* While a session sends, the whole frame is mapped, and it is over only when
\* the phone heard the END; LVGL's observer has its buffer until it is removed.
THEOREM SessionsAgree ==
    ASSUME NEW m, Fits(m)
    PROVE  Spec => []SessionAgrees
<1>1. ScreenInv /\ HeardInv(m) => SessionAgrees
  BY ScreenInvIs DEF ScreenParts, CaptureInv, CaptureOf, HeardInv, HeardBy, SessionAgrees,
                     Frozen
<1>2. QED
  BY <1>1, ScreenInvAlways, HeardInvAlways, PTL

\* The phone hears a frame from its BEGIN to its END, each pixel once and in
\* order, whatever is lost or acknowledged late.
THEOREM FramesAreInOrder ==
    ASSUME NEW m, Fits(m)
    PROVE  Spec => HeardInOrder
<1>1. ScreenInv /\ HeardInv(m) /\ [Next]_vars => [Follows(heard, heard')]_vars
  BY HeardStep DEF vars, phone, Follows
<1>2. QED
  BY <1>1, ScreenInvAlways, HeardInvAlways, PTL DEF Spec, HeardInOrder

=============================================================================
