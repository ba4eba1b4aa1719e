------------------------- MODULE WalletTransferProofs -------------------------
(* What wallet_transfer.c keeps true, whoever calls it: lemmas for the      *)
(* proofs about the device and about the phone.                             *)
EXTENDS WalletTransfer, TLAPS

USE MaxLengthAssumption

\* wallet_transfer_init
LEMMA NewTransferKept == TransferInv(NewTransfer) /\ ~Unfinished(NewTransfer)
BY DEF TransferInv, NewTransfer, Transfer, TransferState, TransferError, ActionType,
       Unfinished, Open

\* What is left of a transfer that is failed: the error, and no call.
LEMMA FailKept ==
    ASSUME NEW t, TransferInv(t), NEW e \in TransferError, NEW abort \in BOOLEAN
    PROVE  /\ TransferInv(fail(t, e, abort).transfer)
           /\ fail(t, e, abort).transfer.state = "ERROR"
           /\ fail(t, e, abort).transfer.pending = "NONE"
           /\ fail(t, e, abort).action \in {"ABORT", "NONE"}
BY DEF TransferInv, fail, Outcome, Transfer, TransferState, TransferError, ActionType, Open

\* What a message does: at most one store call is asked for, that of the
\* message's type, of a transfer that has none outstanding.
Input(t, authorized, m, r) ==
    /\ TransferInv(r.transfer)
    /\ \/ /\ r.action \in {"BEGIN", "DATA", "COMMIT"} /\ authorized
          /\ t.pending = "NONE" /\ r.transfer.pending = r.action /\ m.type = r.action
          /\ r.action # "BEGIN" =>
                /\ Open(t) /\ r.transfer.received = t.received
                /\ r.transfer.expected = t.expected
          /\ r.action = "BEGIN" => r.transfer.received = 0 /\ r.transfer.expected = m.at
          /\ r.action = "DATA" => m.at = t.received /\ r.transfer.plen = m.n
          /\ r.transfer.state # "COMMITTED"
       \/ r.action \in {"NONE", "ABORT"} /\ r.transfer.state = "ERROR"
            /\ r.transfer.pending = "NONE"
       \/ r.action = "ABORT" /\ r.transfer = NewTransfer
       \/ r.action = "NONE" /\ r.transfer = t /\ (authorized => Retry(t))

LEMMA InputKept ==
    ASSUME NEW t, TransferInv(t), NEW authorized \in BOOLEAN, NEW m \in Message
    PROVE  Input(t, authorized, m, wallet_transfer_input(t, authorized, m))
<1> DEFINE r == wallet_transfer_input(t, authorized, m)
<1> SUFFICES Input(t, authorized, m, r)
  OBVIOUS
<1>1. Open(t) \in BOOLEAN /\ {"PROTOCOL", "SIZE", "OFFSET", "INCOMPLETE", "AUTH"} \subseteq TransferError
  BY DEF Open, TransferError
<1>2. ASSUME NEW e \in TransferError, NEW abort \in BOOLEAN, r = fail(t, e, abort)
      PROVE  Input(t, authorized, m, r)
  BY <1>2, FailKept DEF Input
<1>3. CASE ~authorized
  BY <1>1, <1>2, <1>3 DEF wallet_transfer_input
<1>4. CASE authorized /\ Retry(t)
  BY <1>4 DEF wallet_transfer_input, Input, Outcome
<1>5. CASE authorized /\ ~Retry(t) /\ m.type = "BEGIN"
  <2>1. r = InputBegin(t, m)
    BY <1>5 DEF wallet_transfer_input
  <2>2. CASE m.whole /\ m.at \in 1 .. MaxLength /\ ~Open(t)
    <3>1. r = Outcome([t EXCEPT !.state = "BUSY", !.error = "NONE", !.received = 0,
                                !.expected = m.at, !.pending = "BEGIN"], "BEGIN")
      BY <2>1, <2>2 DEF InputBegin
    <3>2. r.action = "BEGIN" /\ r.transfer \in Transfer
          /\ r.transfer.state = "BUSY" /\ r.transfer.received = 0
          /\ r.transfer.expected = m.at /\ r.transfer.pending = "BEGIN"
      <4> DEFINE u == [t EXCEPT !.state = "BUSY", !.error = "NONE", !.received = 0,
                                !.expected = m.at, !.pending = "BEGIN"]
      <4>1. r.action = "BEGIN" /\ r.transfer = u
        BY <3>1 DEF Outcome
      <4>2. /\ u \in Transfer /\ u.state = "BUSY" /\ u.received = 0
            /\ u.expected = m.at /\ u.pending = "BEGIN"
        <5>1. m.at \in 0 .. MaxLength /\ 0 \in 0 .. MaxLength
          BY <2>2
        <5>2. QED
          BY <5>1 DEF TransferInv, Transfer, TransferState, TransferError, ActionType
      <4> HIDE DEF u, r
      <4>3. QED
        BY <4>1, <4>2
    <3>3. t.pending = "NONE"
      BY <1>5 DEF Retry
    <3> HIDE DEF r
    <3>4. TransferInv(r.transfer)
      BY <2>2, <3>2 DEF TransferInv
    <3>5. QED
      BY <1>5, <3>2, <3>3, <3>4 DEF Input
  <2>3. QED
    BY <1>1, <1>2, <2>1, <2>2 DEF InputBegin
<1>6. CASE authorized /\ ~Retry(t) /\ m.type = "DATA"
  <2>1. r = InputData(t, m)
    BY <1>6 DEF wallet_transfer_input
  <2>2. CASE m.whole /\ Open(t) /\ m.at = t.received /\ ~(m.n > t.expected - t.received)
    <3>1. r = Outcome([t EXCEPT !.pending = "DATA", !.plen = m.n], "DATA")
      BY <2>1, <2>2 DEF InputData
    <3>2. m.n \in Nat
      BY DEF Message
    <3>3. r.action = "DATA" /\ r.transfer \in Transfer
          /\ r.transfer.state = t.state /\ r.transfer.received = t.received
          /\ r.transfer.expected = t.expected /\ r.transfer.pending = "DATA"
          /\ r.transfer.plen = m.n
      <4> DEFINE u == [t EXCEPT !.pending = "DATA", !.plen = m.n]
      <4>1. r.action = "DATA" /\ r.transfer = u
        BY <3>1 DEF Outcome
      <4>2. /\ u \in Transfer /\ u.state = t.state /\ u.received = t.received
            /\ u.expected = t.expected /\ u.pending = "DATA" /\ u.plen = m.n
        BY <3>2 DEF TransferInv, Transfer, ActionType
      <4> HIDE DEF u, r
      <4>3. QED
        BY <4>1, <4>2
    <3>4. t.pending = "NONE" /\ t.state # "BUSY"
      BY <1>6 DEF Retry
    <3>5. t.received \in Nat /\ t.expected \in Nat /\ t.received <= t.expected
      BY DEF TransferInv, Transfer
    <3> HIDE DEF r
    <3>6. TransferInv(r.transfer)
      BY <2>2, <3>2, <3>3, <3>4, <3>5 DEF TransferInv, Open
    <3>7. QED
      BY <1>6, <2>2, <3>3, <3>4, <3>6 DEF Input, Open
  <2>3. QED
    BY <1>1, <1>2, <2>1, <2>2 DEF InputData
<1>7. CASE authorized /\ ~Retry(t) /\ m.type = "COMMIT"
  <2>1. r = InputCommit(t, m)
    BY <1>7 DEF wallet_transfer_input
  <2>2. CASE m.whole /\ Open(t) /\ t.received = t.expected
    <3>1. r = Outcome([t EXCEPT !.state = "BUSY", !.pending = "COMMIT"], "COMMIT")
      BY <2>1, <2>2 DEF InputCommit
    <3>2. r.action = "COMMIT" /\ r.transfer \in Transfer
          /\ r.transfer.state = "BUSY" /\ r.transfer.received = t.received
          /\ r.transfer.expected = t.expected /\ r.transfer.pending = "COMMIT"
      <4> DEFINE u == [t EXCEPT !.state = "BUSY", !.pending = "COMMIT"]
      <4>1. r.action = "COMMIT" /\ r.transfer = u
        BY <3>1 DEF Outcome
      <4>2. /\ u \in Transfer /\ u.state = "BUSY" /\ u.received = t.received
            /\ u.expected = t.expected /\ u.pending = "COMMIT"
        BY DEF TransferInv, Transfer, TransferState, ActionType
      <4> HIDE DEF u, r
      <4>3. QED
        BY <4>1, <4>2
    <3>3. t.pending = "NONE"
      BY <1>7 DEF Retry
    <3> HIDE DEF r
    <3>4. TransferInv(r.transfer)
      BY <3>2 DEF TransferInv
    <3>5. QED
      BY <1>7, <2>2, <3>2, <3>3, <3>4 DEF Input
  <2>3. QED
    BY <1>1, <1>2, <2>1, <2>2 DEF InputCommit
<1>8. CASE authorized /\ ~Retry(t) /\ m.type = "ABORT"
  <2>1. r = InputAbort(t, m)
    BY <1>8 DEF wallet_transfer_input
  <2>2. CASE m.whole
    BY <2>1, <2>2, NewTransferKept DEF InputAbort, Input, Outcome
  <2>3. QED
    BY <1>1, <1>2, <2>1, <2>2 DEF InputAbort
<1>9. CASE authorized /\ ~Retry(t) /\ m.type = "OTHER"
  BY <1>1, <1>2, <1>9 DEF wallet_transfer_input
<1>10. QED
  BY <1>3, <1>4, <1>5, <1>6, <1>7, <1>8, <1>9 DEF Message

\* u goes on where the store call that t had outstanding left it.
Continues(t, u) ==
    /\ t.pending \in {"BEGIN", "DATA"} /\ u.expected = t.expected
    /\ u.received = IF t.pending = "DATA" THEN t.received + t.plen ELSE t.received

\* What a store call that returns does: COMMITTED takes a commit that
\* succeeded, and a transfer goes on only when it did before.
LEMMA CompleteKept ==
    ASSUME NEW t, TransferInv(t), t.pending # "NONE", NEW success \in BOOLEAN,
           NEW error \in TransferError
    PROVE  LET u == wallet_transfer_complete(t, t.pending, success, error)
           IN  /\ TransferInv(u) /\ u.pending = "NONE"
               /\ u.state = "COMMITTED" => success /\ t.pending = "COMMIT"
               /\ Open(u) => success /\ Continues(t, u)
<1> DEFINE u == wallet_transfer_complete(t, t.pending, success, error)
           v == [t EXCEPT !.pending = "NONE", !.error = "NONE"]
<1> SUFFICES /\ TransferInv(u) /\ u.pending = "NONE"
             /\ u.state = "COMMITTED" => success /\ t.pending = "COMMIT"
             /\ Open(u) => success /\ Continues(t, u)
  OBVIOUS
<1>1. t.pending \in {"BEGIN", "DATA", "COMMIT"}
  BY DEF TransferInv, Transfer, ActionType
<1>2. CASE ~success
  BY <1>2 DEF wallet_transfer_complete, TransferInv, Transfer, TransferState,
         TransferError, ActionType, Open
<1>3. CASE success /\ t.pending = "BEGIN"
  <2>1. u = [v EXCEPT !.state = "READY"]
    BY <1>3 DEF wallet_transfer_complete
  <2>2. QED
    BY <1>3, <2>1 DEF TransferInv, Transfer, TransferState, TransferError, ActionType, Open,
           Continues
<1>4. CASE success /\ t.pending = "DATA"
  <2>1. u = [v EXCEPT !.state = "RECEIVING", !.plen = 0, !.received = @ + t.plen]
    BY <1>4 DEF wallet_transfer_complete
  <2>2. QED
    <3>1. /\ t.received \in Nat /\ t.plen \in Nat /\ t.expected \in 0 .. MaxLength
          /\ t.received + t.plen <= t.expected
      BY <1>4 DEF TransferInv, Transfer
    <3>2. t.received + t.plen \in 0 .. MaxLength
      BY <3>1
    <3>3. u \in Transfer
      <4>1. v \in Transfer /\ v.received = t.received
        BY DEF TransferInv, Transfer, TransferError, ActionType
      <4> HIDE DEF u, v
      <4>2. QED
        BY <2>1, <3>2, <4>1 DEF Transfer, TransferState
    <3>4. /\ u.state = "RECEIVING" /\ u.pending = "NONE" /\ u.expected = t.expected
          /\ u.received = t.received + t.plen
      BY <2>1 DEF TransferInv, Transfer
    <3> HIDE DEF u
    <3>5. QED
      BY <1>4, <3>1, <3>3, <3>4 DEF TransferInv, Continues
<1>5. CASE success /\ t.pending = "COMMIT"
  <2>1. u = [v EXCEPT !.state = "COMMITTED"]
    BY <1>5 DEF wallet_transfer_complete
  <2>2. QED
    BY <1>5, <2>1 DEF TransferInv, Transfer, TransferState, TransferError, ActionType, Open
<1>6. QED
  BY <1>1, <1>2, <1>3, <1>4, <1>5

\* A transfer that is given up is a new one, or had come to its end.
LEMMA DisconnectKept ==
    ASSUME NEW t, TransferInv(t)
    PROVE  LET u == wallet_transfer_disconnect(t).transfer
           IN  /\ TransferInv(u) /\ u.pending = "NONE" /\ ~Unfinished(u)
               /\ u \in {t, NewTransfer}
BY NewTransferKept DEF wallet_transfer_disconnect, Outcome, Unfinished, NewTransfer

\* After a timeout a transfer is in ERROR, or had come to its end.
LEMMA TimeoutKept ==
    ASSUME NEW t, TransferInv(t)
    PROVE  LET u == wallet_transfer_timeout(t).transfer
           IN  /\ TransferInv(u) /\ u.pending = "NONE" /\ ~Unfinished(u)
               /\ u = t \/ u.state = "ERROR"
<1>1. CASE Unfinished(t)
  BY <1>1 DEF wallet_transfer_timeout, Outcome, Unfinished, TransferInv, Transfer,
         TransferState, TransferError, ActionType, Open
<1>2. CASE ~Unfinished(t)
  BY <1>2 DEF wallet_transfer_timeout, Outcome, Unfinished
<1>3. QED
  BY <1>1, <1>2
=============================================================================
