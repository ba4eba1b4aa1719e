---------------------------- MODULE StockTransfer ----------------------------
(***************************************************************************)
(* The chunked transfer of the stock protocol, main/stock_transfer.c, as   *)
(* functions: images (stock_content.c) and scores (stock_music.c) use it.  *)
(*                                                                         *)
(* stock_transfer_receive calls its sink in the middle.  A sink takes time *)
(* and can fail, so a call is two functions here: Ask says what the sink   *)
(* is asked for, or the reply when it is not asked, and Told what the      *)
(* transfer and the reply are after the sink's answer.                     *)
(*                                                                         *)
(* Lengths count units of data.  A message is a record                     *)
(*   op     BEGIN, DATA, END, OTHER (any other first byte)                 *)
(*   whole  FALSE for a BEGIN too short to hold its length                 *)
(*   n      the announced length (BEGIN) or the units it carries (DATA)    *)
(***************************************************************************)
EXTENDS Integers

Chunk == [op : {"BEGIN", "DATA", "END", "OTHER"}, whole : BOOLEAN, n : Nat]

Kind == {"IMAGE", "AUDIO"}
SinkResult == {"OK", "LIMIT", "IO", "INVALID"}
SinkCall == {"NONE", "BEGIN", "DATA", "END"}

\* The second byte of a reply: OK is 0 or 1, the rest are error codes.
Status == {"OK", "0x12", "0x13", "0x14", "0x15", "0x16", "0x18", "0x1b"}

TransferState == [active : BOOLEAN, declared : Nat, received : Nat]

NewTransfer == [active |-> FALSE, declared |-> 0, received |-> 0]

\* stock_transfer_reset
Reset(t) == NewTransfer

Stop(t) == [t EXCEPT !.active = FALSE]

\* What a call leaves: the transfer, the reply, whether the data is complete.
Result(t, status, completed) ==
    [transfer |-> t, status |-> status, completed |-> completed]

\* The sink is called with transfer t standing, or not at all.
Call(sink, t, status) == [sink |-> sink, transfer |-> t, status |-> status]

AskBegin(t, capacity, m) ==
    IF ~m.whole THEN Call("NONE", t, "0x12")
    ELSE IF m.n > capacity THEN Call("NONE", Stop(t), "0x15")
    ELSE Call("BEGIN", t, "OK")

AskData(t, kind, capacity, m) ==
    IF ~t.active THEN Call("NONE", t, "0x12")
    ELSE IF t.received > capacity \/ m.n > capacity - t.received
      THEN Call("NONE", Stop(t), IF kind = "IMAGE" THEN "0x16" ELSE "0x15")
    ELSE IF m.n = 0 THEN Call("NONE", t, "OK")
    ELSE Call("DATA", t, "OK")

AskEnd(t) ==
    IF ~t.active THEN Call("NONE", t, "0x12")
    ELSE IF t.received # t.declared THEN Call("NONE", Stop(t), "0x12")
    ELSE Call("END", Stop(t), "OK")

Ask(t, kind, capacity, m) ==
    CASE m.op = "BEGIN" -> AskBegin(t, capacity, m)
      [] m.op = "DATA"  -> AskData(t, kind, capacity, m)
      [] m.op = "END"   -> AskEnd(t)
      [] OTHER          -> Call("NONE", t, "0x12")

Told(t, kind, m, rc) ==
    CASE m.op = "BEGIN" /\ rc = "OK" ->
            Result([active |-> TRUE, declared |-> m.n, received |-> 0], "OK", FALSE)
      [] m.op = "BEGIN" /\ rc # "OK" ->
            Result(Stop(t), IF rc = "LIMIT" THEN "0x15" ELSE "0x16", FALSE)
      [] m.op = "DATA" /\ rc = "OK" ->
            Result([t EXCEPT !.received = @ + m.n], "OK", FALSE)
      [] m.op = "DATA" /\ rc # "OK" -> Result(Stop(t), "0x16", FALSE)
      [] m.op = "END" /\ rc = "OK" -> Result(t, "OK", TRUE)
      [] OTHER ->
            Result(t, IF kind = "AUDIO" /\ rc = "INVALID" THEN "0x13" ELSE "0x16", FALSE)
=============================================================================
