----------------------------- MODULE ScreenShot -----------------------------
(***************************************************************************)
(* The screenshot session, main/stock_screenshot_session.c, as functions:  *)
(* one captured frame goes to the phone in packets, each sent again until  *)
(* the phone acknowledges it.                                              *)
(*                                                                         *)
(* Sizes count units of pixels; a packet's length is its pixels, as its    *)
(* header always fits.  s.late says that the deadline that counts in the   *)
(* phase has passed: the capture's, the acknowledgement's, and in COMPLETE *)
(* the time during which a DONE is welcome.                                *)
(***************************************************************************)
EXTENDS Integers

CONSTANTS FrameSize,   \* pixels of a screen
          MaxData,     \* most pixels a packet carries
          Retries,     \* how often a packet is sent again
          Width        \* sequence and packet numbers are modulo Width

ASSUME ScreenShotAssumption ==
    /\ {FrameSize, MaxData, Width} \subseteq Nat \ {0}
    /\ Retries \in Nat

Phase == {"IDLE", "CAPTURING", "BEGIN", "DATA", "END", "COMPLETE", "FAILED"}
Sending == {"BEGIN", "DATA", "END"}
Active == Sending \cup {"CAPTURING"}

NoPacket == [kind |-> "NONE"]

NoShot ==
    [phase |-> "IDLE", session |-> 0, sequence |-> 0, packets |-> 0, offset |-> 0,
     pixels |-> FALSE, packet |-> NoPacket, awaiting |-> FALSE, retries |-> 0, late |-> FALSE]

\* A command: START, ACK of a sequence number, DONE, CANCEL, or one not well
\* formed, and what a call leaves: the session and what the caller is to do.
Step(s, status, capture, release) ==
    [shot |-> s, status |-> status, capture |-> capture, release |-> release]
Silent(s) == Step(s, "NONE", FALSE, FALSE)
Answer(s, status) == Step(s, status, FALSE, FALSE)

StartShot(s, id) ==
    IF s.phase \in Active THEN Answer(s, "0x1b")
    ELSE IF id = 0 THEN Answer(s, "0x1c")
    ELSE Step([NoShot EXCEPT !.phase = "CAPTURING", !.session = id], "NONE", TRUE, TRUE)

\* The packet that awaits it is acknowledged.  What a frame that is all sent
\* leaves behind is never read again, except its number.
Acked(s) ==
    LET t == [s EXCEPT !.awaiting = FALSE, !.retries = 0, !.packet = NoPacket, !.late = FALSE,
                       !.sequence = (@ + 1) % Width]
        offset == s.offset + s.packet.pixels
    IN  IF s.phase = "END"
          THEN Step([NoShot EXCEPT !.phase = "COMPLETE", !.session = s.session], "OK", FALSE, TRUE)
        ELSE IF s.phase = "BEGIN" THEN Silent([t EXCEPT !.phase = "DATA"])
        ELSE Silent([t EXCEPT !.offset = offset, !.packets = (@ + 1) % Width,
                              !.phase = IF offset = FrameSize THEN "END" ELSE @])

\* Mutant: an acknowledgement counts whatever packet it is for.
AckAny(s, sequence) == IF s.awaiting THEN Acked(s) ELSE Answer(s, "0x12")

Ack(s, sequence) ==
    IF s.awaiting /\ sequence = s.sequence THEN Acked(s) ELSE Answer(s, "0x12")

EndShot(s, op) ==
    IF (s.phase = "COMPLETE" /\ ~s.late) \/ (op = "CANCEL" /\ s.phase \in Active)
      THEN Step(NoShot, "OK", FALSE, TRUE)
      ELSE Answer(s, "0x12")

stock_shot_command(s, p, id) ==
    CASE p.op = "BAD" -> Answer(s, "0x10")
      [] p.op = "START" -> StartShot(s, id)
      [] p.op \in {"ACK", "DONE", "CANCEL"} ->
            IF p.session = 0 \/ p.session # s.session THEN Answer(s, "0x12")
            ELSE IF p.op = "ACK" THEN Ack(s, p.sequence)
            ELSE EndShot(s, p.op)

\* stock_shot_captured, of a capture that is READY.
stock_shot_captured(s) == [s EXCEPT !.phase = "BEGIN", !.pixels = TRUE, !.late = FALSE]

Fresh(s, capacity) ==
    LET room == IF capacity < MaxData THEN capacity ELSE MaxData
        rest == FrameSize - s.offset
    IN  [kind |-> s.phase, session |-> s.session, sequence |-> s.sequence,
         offset |-> s.offset, packets |-> s.packets,
         pixels |-> IF s.phase # "DATA" THEN 0 ELSE IF room < rest THEN room ELSE rest]

\* stock_shot_packet: the packet to send now, if any.  One is kept until it is
\* acknowledged.
stock_shot_packet(s, capacity) ==
    IF s.awaiting /\ (~s.late \/ s.retries >= Retries) THEN NoPacket
    ELSE IF s.packet # NoPacket
      THEN IF s.packet.pixels > capacity THEN NoPacket ELSE s.packet
    ELSE Fresh(s, capacity)

stock_shot_mark_sent(s) ==
    [s EXCEPT !.retries = IF s.awaiting THEN @ + 1 ELSE @, !.awaiting = TRUE, !.late = FALSE]

\* stock_shot_poll: the capture or the phone took too long.
TimedOut(s) ==
    s.late /\ (s.phase = "CAPTURING" \/ (s.awaiting /\ s.retries >= Retries))

Failed(s) == [NoShot EXCEPT !.phase = "FAILED", !.session = s.session]
=============================================================================
