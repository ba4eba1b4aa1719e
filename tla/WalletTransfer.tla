--------------------------- MODULE WalletTransfer ---------------------------
(***************************************************************************)
(* The snapshot transfer protocol, main/wallet_transfer.c: what a message, *)
(* a completed store call, a lost link or a timeout does to the transfer,  *)
(* and which store action it asks for.  The functions are pure; their      *)
(* caller, WalletBle, keeps the transfer and talks to the store.           *)
(*                                                                         *)
(* Lengths and offsets count page records.  A message is a record          *)
(*   type   BEGIN, DATA, COMMIT, ABORT, OTHER (any other first byte)       *)
(*   whole  whether its byte length is right for its type (DATA: longer    *)
(*          than its five byte header)                                     *)
(*   at     the announced length (BEGIN) or the offset (DATA)              *)
(*   n      the records a DATA message carries                             *)
(* The crc32 of BEGIN only passes through to the store.                    *)
(***************************************************************************)
EXTENDS Integers

CONSTANT MaxLength      \* WALLET_MAX_SIZE, in page records

ASSUME MaxLengthAssumption == MaxLength \in Nat \ {0}

Message ==
    [type : {"BEGIN", "DATA", "COMMIT", "ABORT", "OTHER"},
     whole : BOOLEAN, at : Nat, n : Nat]

TransferState ==
    {"IDLE", "READY", "RECEIVING", "COMMITTED", "ERROR", "BUSY"}
TransferError ==
    {"NONE", "AUTH", "PROTOCOL", "SIZE", "OFFSET", "INCOMPLETE", "CRC",
     "STORAGE", "TIMEOUT"}
ActionType == {"NONE", "BEGIN", "DATA", "COMMIT", "ABORT"}

Transfer ==
    [state : TransferState, error : TransferError, received : 0 .. MaxLength,
     expected : 0 .. MaxLength, pending : ActionType, plen : Nat]

\* wallet_transfer_init
NewTransfer ==
    [state |-> "IDLE", error |-> "NONE", received |-> 0, expected |-> 0,
     pending |-> "NONE", plen |-> 0]

\* The transfer has a staged upload that messages may extend.
Open(t) == t.state \in {"READY", "RECEIVING"}

\* What a call leaves: the transfer, and the action its caller must take.
Outcome(t, action) == [transfer |-> t, action |-> action]

\* Mutant: a refused message leaves the transfer open.
failOpen(t, error, abort) ==
    Outcome([t EXCEPT !.error = error, !.pending = "NONE", !.plen = 0],
            IF abort THEN "ABORT" ELSE "NONE")

fail(t, error, abort) ==
    Outcome([t EXCEPT !.state = "ERROR", !.error = error,
                      !.pending = "NONE", !.plen = 0],
            IF abort THEN "ABORT" ELSE "NONE")

InputBegin(t, m) ==
    IF ~m.whole THEN fail(t, "PROTOCOL", FALSE)
    ELSE IF m.at \notin 1 .. MaxLength THEN fail(t, "SIZE", FALSE)
    ELSE IF Open(t) THEN fail(t, "PROTOCOL", TRUE)
    ELSE Outcome([t EXCEPT !.state = "BUSY", !.error = "NONE", !.received = 0,
                           !.expected = m.at, !.pending = "BEGIN"], "BEGIN")

InputData(t, m) ==
    IF ~m.whole \/ ~Open(t) THEN fail(t, "PROTOCOL", Open(t))
    ELSE IF m.at # t.received THEN fail(t, "OFFSET", TRUE)
    ELSE IF m.n > t.expected - t.received THEN fail(t, "SIZE", TRUE)
    ELSE Outcome([t EXCEPT !.pending = "DATA", !.plen = m.n], "DATA")

InputCommit(t, m) ==
    IF ~m.whole THEN fail(t, "PROTOCOL", TRUE)
    ELSE IF ~Open(t) THEN fail(t, "PROTOCOL", FALSE)
    ELSE IF t.received # t.expected THEN fail(t, "INCOMPLETE", TRUE)
    ELSE Outcome([t EXCEPT !.state = "BUSY", !.pending = "COMMIT"], "COMMIT")

InputAbort(t, m) ==
    IF m.whole THEN Outcome(NewTransfer, "ABORT") ELSE fail(t, "PROTOCOL", TRUE)

\* A store call is outstanding: the message is to be retried.
Retry(t) == t.pending # "NONE" \/ t.state = "BUSY"

wallet_transfer_input(t, authorized, m) ==
    CASE ~authorized -> fail(t, "AUTH", Open(t))
      [] authorized /\ Retry(t) -> Outcome(t, "NONE")
      [] authorized /\ ~Retry(t) ->
            CASE m.type = "BEGIN" -> InputBegin(t, m)
              [] m.type = "DATA" -> InputData(t, m)
              [] m.type = "COMMIT" -> InputCommit(t, m)
              [] m.type = "ABORT" -> InputAbort(t, m)
              [] OTHER -> fail(t, "PROTOCOL", Open(t))

\* The store call for action returned.
wallet_transfer_complete(t, action, success, error) ==
    IF action # t.pending THEN t
    ELSE IF ~success
      THEN [t EXCEPT !.pending = "NONE", !.plen = 0, !.state = "ERROR",
                     !.error = IF error = "NONE" THEN "STORAGE" ELSE error]
    ELSE LET u == [t EXCEPT !.pending = "NONE", !.error = "NONE"]
         IN  CASE action = "BEGIN" -> [u EXCEPT !.state = "READY"]
               [] action = "DATA" ->
                    [u EXCEPT !.state = "RECEIVING", !.plen = 0,
                              !.received = @ + t.plen]
               [] action = "COMMIT" -> [u EXCEPT !.state = "COMMITTED"]
               [] action = "ABORT" -> NewTransfer
               [] OTHER -> u

Unfinished(t) == Open(t) \/ t.state = "BUSY" \/ t.pending # "NONE"

\* Mutant: the store is told and the transfer goes on.
disconnectStoreOnly(t) == Outcome(t, IF Unfinished(t) THEN "ABORT" ELSE "NONE")

wallet_transfer_disconnect(t) ==
    IF Unfinished(t) THEN Outcome(NewTransfer, "ABORT") ELSE Outcome(t, "NONE")

wallet_transfer_timeout(t) ==
    IF Unfinished(t)
      THEN Outcome([t EXCEPT !.pending = "NONE", !.plen = 0,
                             !.state = "ERROR", !.error = "TIMEOUT"], "ABORT")
      ELSE Outcome(t, "NONE")
-----------------------------------------------------------------------------
(* Properties *)

\* A transfer never goes beyond the length it announced, and is BUSY, or has
\* bytes on their way, only for the store call that is outstanding.
TransferInv(t) ==
    /\ t \in Transfer /\ t.received <= t.expected
    /\ t.pending # "ABORT" /\ (t.state = "BUSY" <=> t.pending \in {"BEGIN", "COMMIT"})
    /\ t.pending = "DATA" => Open(t) /\ t.received + t.plen <= t.expected
=============================================================================
