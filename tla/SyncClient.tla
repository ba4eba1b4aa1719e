----------------------------- MODULE SyncClient -----------------------------
(***************************************************************************)
(* The phone's side of an upload, WalletBleClient.java with                *)
(* BleProtocol.java, against the device's transfer (WalletTransfer).       *)
(*                                                                         *)
(* The client lives on Android's main thread: every callback is posted to  *)
(* its handler and every delay is a task of that handler.  One request is  *)
(* outstanding at a time; after each acknowledged frame the client reads   *)
(* the device's status until it may go on.  close() removes what is posted *)
(* or delayed, but not what Android will post later; current(source) is    *)
(* there for that.                                                         *)
(*                                                                         *)
(* The device is its GATT access callback, its worker with the queue of    *)
(* messages, and its link; WalletBle has the whole of it.                  *)
(*                                                                         *)
(* A package is the number of the connection that sends it.  Its length    *)
(* counts DATA frames, and so do the offsets; how long a frame is follows  *)
(* from the MTU and is left out.  How long something has taken is left     *)
(* open, except that the wait for a BEGIN to show ends.                    *)
(***************************************************************************)
EXTENDS WalletTransfer, Sequences

CONSTANTS Lengths,   \* per connection: the lengths a package may have; bounds the connections
          NoStatus

ASSUME SyncClientAssumption == Lengths \in Seq(SUBSET (1 .. MaxLength))

MaxConnections == Len(Lengths)

VARIABLES
    c, tasks,        \* the client, and the tasks of its handler
    calls, air,      \* posted callbacks; requests that are not answered yet
    conns, word,     \* connections so far, and what the user was told of each
    link, bonded,    \* the link, its session; whether there is a bond
    t, by,           \* the device's transfer, and the connection that began it
    queue, call,     \* its messages, and the one its worker has a store call for
    gone, abort,     \* the DISCONNECTs that are queued; abort_pending
    durable,         \* the packages that were committed
    lost             \* ghost: the device has discarded the upload of the link that is up

client == <<c, tasks, conns, word>>
radio == <<calls, air, link, bonded>>
device == <<t, by, queue, call, gone, abort, durable, lost>>
vars == <<client, radio, device>>

\* What the user is told is "complete", "stopped", or "unsure": the result is
\* uncertain, or the device refuses and has to be looked at.

\* conn is gatt, 0 for null; len is 0 when frames is null; op is the request
\* that is outstanding, base the status that made the client ready.
NoClient ==
    [conn |-> 0, state |-> "IDLE", op |-> "NONE", len |-> 0, frame |-> 0,
     base |-> NoStatus, changed |-> FALSE, old |-> FALSE]

\* ended: the device has ended the session, the link is still there.
NoLink == [conn |-> 0, secure |-> FALSE, ended |-> FALSE]
NoCall == [conn |-> 0]

Init ==
    /\ c = NoClient /\ tasks = {} /\ calls = {} /\ air = {}
    /\ conns = 0 /\ word = [n \in 1 .. MaxConnections |-> "nothing"]
    /\ link = NoLink /\ bonded = FALSE
    /\ t = NewTransfer /\ by = 0 /\ queue = <<>> /\ call = NoCall
    /\ gone = {} /\ abort = FALSE /\ durable = {} /\ lost = FALSE

-----------------------------------------------------------------------------
(* BleProtocol.java *)

\* BEGIN, a DATA for each part, COMMIT.
Frame(i, len) ==
    [type |-> IF i = 0 THEN "BEGIN" ELSE IF i <= len THEN "DATA" ELSE "COMMIT",
     whole |-> TRUE, at |-> IF i = 0 THEN len ELSE IF i <= len THEN i - 1 ELSE 0,
     n |-> IF i \in 1 .. len THEN 1 ELSE 0]

Status(x) == [state |-> x.state, error |-> x.error, received |-> x.received,
              expected |-> x.expected]
Erroneous(s) == s.state = "ERROR" \/ s.error # "NONE"

\* Mutant: next, which does not ask what was sent.
nextAny(s, type, len, after) ==
    IF Erroneous(s) THEN "FAIL"
    ELSE IF s.state = "COMMITTED" THEN "DONE"
    ELSE IF s.state \in {"READY", "RECEIVING"} /\ s.received = after THEN "SEND_NEXT"
    ELSE "POLL"

nextForFrame(s, type, len, after) ==
    IF Erroneous(s) THEN "FAIL"
    ELSE IF type = "BEGIN" /\ s.state = "COMMITTED" THEN "POLL"
    ELSE IF s.received > len \/ s.expected > len THEN "FAIL"
    ELSE IF s.state = "BUSY" THEN "POLL"
    ELSE IF type = "BEGIN"
      THEN IF Open(s) /\ s.received = 0 /\ s.expected = len THEN "SEND_NEXT" ELSE "POLL"
    ELSE IF s.expected # len THEN "FAIL"
    ELSE IF type = "COMMIT"
      THEN IF s.state = "COMMITTED" /\ s.received = len THEN "DONE" ELSE "POLL"
    ELSE IF s.received > after THEN "FAIL"
    ELSE IF s.state = "RECEIVING" /\ s.received = after THEN "SEND_NEXT" ELSE "POLL"

\* BeginObservation: the status before the BEGIN may be an error still.
Repeats(s) == ~c.changed /\ s = c.base /\ Erroneous(s)

\* Mutant: the wait for another status has no end.
observeForever(s) ==
    IF Repeats(s) THEN "POLL" ELSE nextForFrame(s, "BEGIN", c.len, 0)
observe(s) ==
    IF Repeats(s) THEN IF c.old THEN "FAIL" ELSE "POLL"
    ELSE nextForFrame(s, "BEGIN", c.len, 0)

-----------------------------------------------------------------------------
(* WalletBleClient.java *)

Type == Frame(c.frame, c.len).type
commitUncertain == c.len # 0 /\ Type = "COMMIT"

\* Mutant: the frames are forgotten before they are asked.
VerdictLate == "stopped"
Verdict == IF commitUncertain THEN "unsure" ELSE "stopped"

\* close: what was posted or delayed is removed, and gatt closed: Android goes
\* no further, but a read or a write that is on its way over the link may still
\* be answered.
Closed(state, left) ==
    /\ c' = [NoClient EXCEPT !.state = state]
    /\ tasks' = left /\ calls' = {}
    /\ air' = {a \in air : a.op \in {"READ", "WRITE"} /\ a.conn = link.conn}

Told(w) == word' = IF c.conn = 0 THEN word ELSE [word EXCEPT ![c.conn] = w]

failure(w) == Closed("ERROR", {}) /\ Told(w)

\* A request that Android accepts.
Ask(op, msg) == air' = air \cup {[conn |-> c.conn, op |-> op, msg |-> msg]}

scan ==
    /\ conns < MaxConnections
    /\ Closed("SCANNING", {"scan"}) \/ Closed("ERROR", {})
    /\ UNCHANGED <<conns, word, link, bonded, device>>

\* 8 s later: there is something to select, or nothing; or the scan failed.
ScanEnds ==
    /\ "scan" \in tasks /\ c.state = "SCANNING" /\ tasks' = {}
    /\ c' \in {[c EXCEPT !.state = s] : s \in {"SELECT_DEVICE", "ERROR"}}
    /\ UNCHANGED <<conns, word, radio, device>>

connectSelected ==
    /\ c.state = "SELECT_DEVICE" /\ conns < MaxConnections
    /\ conns' = conns + 1 /\ calls' = {}
    /\ \/ /\ c' = [NoClient EXCEPT !.conn = conns', !.state = "CONNECTING"]
          /\ tasks' = {"timeout"}
          /\ air' = air \cup {[conn |-> conns', op |-> "CONNECT", msg |-> NoStatus]}
       \/ c' = [NoClient EXCEPT !.state = "ERROR"] /\ tasks' = {} /\ UNCHANGED air
    /\ UNCHANGED <<word, link, bonded, device>>

\* The user leaves the screen or gives up.
close ==
    /\ c.conn # 0 /\ Closed("IDLE", {})
    /\ UNCHANGED <<conns, word, link, bonded, device>>

current(source) == c.conn # 0 /\ source = c.conn

\* A posted callback runs.  The handler takes them in the order in which they
\* were posted: those of an earlier connection come first.
Handle(x, kind) ==
    /\ x \in calls /\ x.kind = kind /\ \A y \in calls : current(y.conn)
    /\ UNCHANGED <<conns, link, bonded, device>>
Rest(x) == calls' = calls \ {x} /\ UNCHANGED word
Keep == UNCHANGED tasks

DropStale(x) ==
    /\ x \in calls /\ ~current(x.conn) /\ calls' = calls \ {x}
    /\ UNCHANGED <<client, air, link, bonded, device>>

onDisconnected(x) == Handle(x, "DOWN") /\ failure(Verdict)

onConnected(x) ==
    /\ Handle(x, "UP")
    /\ \/ /\ c' = [c EXCEPT !.op = "DISCOVER", !.state = "CHECKING_CAPABILITY"]
          /\ Ask("DISCOVER", NoStatus) /\ Rest(x) /\ Keep
       \/ failure("stopped")

\* configureMtu: the request, or what follows it when Android refuses it.
configureMtu ==
    \/ /\ c' = [c EXCEPT !.op = "MTU", !.state = "AUTHENTICATING"]
       /\ Ask("MTU", NoStatus) /\ tasks' = tasks \ {"bond"}
    \/ /\ c' = [c EXCEPT !.op = "NONE", !.state = "AUTHENTICATING"]
       /\ tasks' = (tasks \ {"bond"}) \cup {"read"} /\ UNCHANGED air

onServicesDiscovered(x) ==
    /\ Handle(x, "DISCOVER")
    /\ IF c.op # "DISCOVER" THEN Rest(x) /\ Keep /\ UNCHANGED <<c, air>>
       ELSE IF x.ok /\ bonded THEN configureMtu /\ Rest(x)
       ELSE \/ /\ x.ok /\ Rest(x) /\ UNCHANGED air
               /\ c' = [c EXCEPT !.op = "NONE", !.state = "PAIRING"]
               /\ tasks' = tasks \cup {"bond"}
            \/ failure("stopped")

\* awaitBond looks again and again until there is a bond.
awaitBond ==
    /\ "bond" \in tasks /\ bonded /\ configureMtu
    /\ UNCHANGED <<calls, conns, word, link, bonded, device>>

onMtuChanged(x) ==
    /\ Handle(x, "MTU") /\ Rest(x) /\ UNCHANGED air
    /\ IF c.op # "MTU" THEN Keep /\ UNCHANGED c
       ELSE c' = [c EXCEPT !.op = "NONE"] /\ tasks' = tasks \cup {"read"}

\* The task of readStatusLater.
readStatus ==
    /\ "read" \in tasks
    /\ IF c.op # "NONE" THEN tasks' = tasks \ {"read"} /\ UNCHANGED <<c, air, calls, word>>
       ELSE \/ /\ c' = [c EXCEPT !.op = "READ"] /\ Ask("READ", NoStatus)
               /\ tasks' = tasks \ {"read"} /\ UNCHANGED <<calls, word>>
            \/ failure(Verdict)
    /\ UNCHANGED <<conns, link, bonded, device>>

\* writeFrame for the client r, of whom x may be the callback that runs.
writeFrame(r) ==
    /\ c' = [r EXCEPT !.op = "WRITE"] /\ Ask("WRITE", Frame(r.frame, r.len))

\* transfer: BEGIN is observed against that status.
transfer(len) ==
    /\ c.conn # 0 /\ c.base # NoStatus /\ c.len = 0 /\ len \in Lengths[c.conn]
    /\ LET r == [c EXCEPT !.len = len, !.frame = 0, !.state = "SENDING"]
       IN  \/ writeFrame(r) /\ tasks' = tasks \cup {"watchdog"} /\ UNCHANGED <<calls, word>>
           \/ failure("stopped")
    /\ UNCHANGED <<conns, link, bonded, device>>

onCharacteristicWrite(x) ==
    /\ Handle(x, "WRITE")
    /\ IF c.op # "WRITE" \/ c.len = 0 THEN Rest(x) /\ Keep /\ UNCHANGED <<c, air>>
       ELSE IF ~x.ok THEN failure(Verdict)
       ELSE /\ c' = [c EXCEPT !.op = "NONE"] /\ tasks' = tasks \cup {"read"}
            /\ Rest(x) /\ UNCHANGED air

\* What the client makes of a status while it sends.
Decided(s) ==
    IF Type = "BEGIN" THEN observe(s)
    ELSE nextForFrame(s, Type, c.len, IF Type = "DATA" THEN c.frame ELSE 0)

received(x) ==
    LET s == x.status
        r == [c EXCEPT !.op = "NONE", !.changed = @ \/ (Type = "BEGIN" /\ s # c.base)]
        next == [r EXCEPT !.frame = @ + 1, !.changed = FALSE, !.old = FALSE]
    IN  /\ Handle(x, "READ")
        /\ IF c.op # "READ" THEN Rest(x) /\ Keep /\ UNCHANGED <<c, air>>
           ELSE IF ~x.ok THEN failure(Verdict)
           ELSE IF c.len = 0
             THEN /\ c' = [c EXCEPT !.op = "NONE", !.base = s, !.state = "READY"]
                  /\ Rest(x) /\ Keep /\ UNCHANGED air
           ELSE CASE Decided(s) = "FAIL" -> failure("unsure")
                  [] Decided(s) = "DONE" ->
                        Closed("COMPLETE", {}) /\ Told("complete")
                  [] Decided(s) = "POLL" ->
                        /\ c' = r /\ tasks' = tasks \cup {"read"}
                        /\ Rest(x) /\ UNCHANGED air
                  [] Decided(s) = "SEND_NEXT" ->
                        \/ writeFrame(next) /\ Rest(x) /\ Keep
                        \/ failure(IF Frame(next.frame, c.len).type = "COMMIT"
                                     THEN "unsure" ELSE "stopped")

\* watchdog: nothing has moved for 25 s, or the deadline is over.
watchdog ==
    /\ "watchdog" \in tasks /\ c.len # 0 /\ failure(Verdict)
    /\ UNCHANGED <<conns, link, bonded, device>>

\* The 90 s of connectSelected.
timeout ==
    /\ "timeout" \in tasks /\ c.base = NoStatus /\ failure("stopped")
    /\ UNCHANGED <<conns, link, bonded, device>>

\* 10 s have passed since the BEGIN: asked only when there was an error before.
GrowsOld ==
    /\ c.len # 0 /\ Type = "BEGIN" /\ Erroneous(c.base) /\ ~c.old
    /\ c' = [c EXCEPT !.old = TRUE]
    /\ UNCHANGED <<tasks, conns, word, radio, device>>

-----------------------------------------------------------------------------
(* The link *)

Callback(conn, kind, ok, status) ==
    [conn |-> conn, kind |-> kind, ok |-> ok, status |-> status]

Connects(a) ==
    /\ a \in air /\ a.op = "CONNECT" /\ air' = air \ {a}
    /\ \/ /\ link = NoLink /\ link' = [NoLink EXCEPT !.conn = a.conn]
          /\ calls' = calls \cup {Callback(a.conn, "UP", TRUE, NoStatus)}
       \/ /\ calls' = calls \cup {Callback(a.conn, "DOWN", FALSE, NoStatus)}
          /\ UNCHANGED link
    /\ UNCHANGED <<client, bonded, device>>

Bonds ==
    /\ link # NoLink /\ ~bonded /\ bonded' = TRUE
    /\ UNCHANGED <<client, calls, air, link, device>>

\* Encryption, and the owner's check: work of the device's worker, that comes
\* after the DISCONNECTs that found room in its control queue.
Secures ==
    /\ link # NoLink /\ bonded /\ ~link.secure /\ ~link.ended
    /\ call = NoCall /\ gone = {}
    /\ link' = [link EXCEPT !.secure = TRUE]
    /\ UNCHANGED <<client, calls, air, bonded, device>>

\* The window is closed or the owner reset: the session ends, and then the link.
Closes ==
    /\ link # NoLink /\ ~link.ended
    /\ link' = [link EXCEPT !.secure = FALSE, !.ended = TRUE] /\ abort' = TRUE
    /\ UNCHANGED <<client, calls, air, bonded, t, by, queue, call, gone, durable, lost>>

\* The link goes, with the requests that the device has not answered.  A
\* DISCONNECT that finds the control queue full is dropped, and one after
\* Closes names a generation that is not the transfer's; then only
\* abort_pending is left of it.
Drops ==
    /\ link # NoLink /\ link' = NoLink
    /\ calls' = IF current(link.conn)
                  THEN calls \cup {Callback(link.conn, "DOWN", TRUE, NoStatus)} ELSE calls
    /\ air' = {a \in air : a.conn # link.conn}
    /\ \/ ~link.ended /\ gone' = gone \cup {link.conn}
       \/ UNCHANGED gone
    /\ abort' = TRUE /\ lost' = FALSE
    /\ UNCHANGED <<client, bonded, t, by, queue, call, durable>>

-----------------------------------------------------------------------------
(* The device *)

\* It answers a request: wallet_gatt_access for READ and WRITE.
Answers(a) ==
    /\ a \in air /\ a.op # "CONNECT" /\ a.conn = link.conn /\ air' = air \ {a}
    /\ \/ /\ a.op \in {"READ", "WRITE"} => link.secure
          /\ calls' = calls \cup {Callback(a.conn, a.op, TRUE,
                                           IF a.op = "READ" THEN Status(t) ELSE NoStatus)}
          /\ queue' = IF a.op = "WRITE" THEN Append(queue, [conn |-> a.conn, msg |-> a.msg])
                      ELSE queue
       \/ /\ calls' = calls \cup {Callback(a.conn, a.op, FALSE, NoStatus)}
          /\ UNCHANGED queue
    /\ UNCHANGED <<client, link, bonded, t, by, call, gone, abort, durable, lost>>

Worker == UNCHANGED <<client, radio>>
SessionValid(conn) == link.secure /\ link.conn = conn

\* execute_transfer up to the store call.
Takes ==
    LET m == Head(queue)
        r == wallet_transfer_input(t, TRUE, m.msg)
    IN  /\ call = NoCall /\ queue # <<>> /\ queue' = Tail(queue)
        /\ IF ~SessionValid(m.conn) THEN UNCHANGED <<t, by, call>>
           ELSE /\ t' = r.transfer
                /\ by' = IF r.action = "BEGIN" THEN m.conn ELSE by
                /\ call' = IF r.action \in {"BEGIN", "DATA", "COMMIT"}
                             THEN [conn |-> m.conn, action |-> r.action, marked |-> FALSE]
                             ELSE NoCall
        /\ UNCHANGED <<gone, abort, durable, lost>> /\ Worker

Completes(ok) ==
    /\ t' = wallet_transfer_complete(t, call.action, ok, "STORAGE") /\ call' = NoCall
    /\ UNCHANGED <<by, queue, gone, abort, lost>> /\ Worker

\* wallet_store_begin or wallet_store_write returns.
Stores ==
    /\ call # NoCall /\ call.action # "COMMIT"
    /\ \E ok \in BOOLEAN : Completes(ok /\ SessionValid(call.conn))
    /\ UNCHANGED durable

\* wallet_store_commit_guarded: after the last guard the marker is written,
\* whatever the link does; it may be written and reported as failed.
Guards ==
    /\ call # NoCall /\ call.action = "COMMIT" /\ ~call.marked
    /\ \/ /\ SessionValid(call.conn) /\ call' = [call EXCEPT !.marked = TRUE]
          /\ UNCHANGED <<t, by, queue, gone, abort, durable, lost>> /\ Worker
       \/ Completes(FALSE) /\ UNCHANGED durable

Marks ==
    /\ call # NoCall /\ call.action = "COMMIT" /\ call.marked
    /\ \/ durable' = durable \cup {call.conn} /\ Completes(TRUE)
       \/ durable' \in {durable, durable \cup {call.conn}} /\ Completes(FALSE)

\* The transfer is discarded, perhaps that of the link that is up.
Discards ==
    /\ t' = wallet_transfer_disconnect(t).transfer
    /\ lost' = (lost \/ (link.secure /\ by = link.conn))

\* The work for a disconnect, and a tick with abort_pending.
WorkDisconnect(n) ==
    /\ call = NoCall /\ n \in gone /\ gone' = gone \ {n}
    /\ IF by = n THEN Discards ELSE UNCHANGED <<t, lost>>
    /\ UNCHANGED <<by, queue, call, abort, durable>> /\ Worker

TickAborts ==
    /\ call = NoCall /\ abort /\ abort' = FALSE /\ Discards
    /\ UNCHANGED <<by, queue, call, gone, durable>> /\ Worker

\* 30 s without a request.
TickTimesOut ==
    /\ call = NoCall /\ link.secure /\ Open(t)
    /\ t' = wallet_transfer_timeout(t).transfer
    /\ UNCHANGED <<by, queue, call, gone, abort, durable, lost>> /\ Worker

-----------------------------------------------------------------------------

Handles ==
    \E x \in calls :
        \/ DropStale(x) \/ onDisconnected(x) \/ onConnected(x) \/ onServicesDiscovered(x)
        \/ onMtuChanged(x) \/ onCharacteristicWrite(x) \/ received(x)

Next ==
    \/ scan \/ ScanEnds \/ connectSelected \/ close \/ (\E len \in 1 .. MaxLength : transfer(len))
    \/ Handles \/ awaitBond \/ readStatus \/ watchdog \/ timeout \/ GrowsOld
    \/ (\E a \in air : Connects(a) \/ Answers(a)) \/ Bonds \/ Secures \/ Closes \/ Drops
    \/ Takes \/ Stores \/ Guards \/ Marks
    \/ (\E n \in gone : WorkDisconnect(n)) \/ TickAborts \/ TickTimesOut

Spec == Init /\ [][Next]_vars

\* The main thread and the device's worker run, requests are answered as long
\* as the link is up, and 10 s pass.  The client has a callback to handle or a
\* read to start, hence one condition for both.  The watchdog is not needed.
FairSpec ==
    /\ Spec
    /\ WF_vars(Handles \/ readStatus) /\ WF_vars(GrowsOld)
    /\ WF_vars(\E a \in air : Answers(a))
    /\ WF_vars(Takes \/ Stores \/ Guards \/ Marks)

-----------------------------------------------------------------------------
(* Properties *)

\* The user is told that a package is complete only when the device has made
\* this very package durable.
DoneIsCommitted == \A n \in DOMAIN word : word[n] = "complete" => n \in durable

\* When the user is told that the transfer was stopped, the device does not
\* have its package, and will not: otherwise the result is called uncertain.
StoppedIsStopped ==
    \A n \in DOMAIN word : word[n] = "stopped" => n \notin durable

\* A transfer comes to an end without the help of the watchdog, unless the
\* device has discarded it for an earlier link's sake.
Ends == (c.len # 0) ~> (c.len = 0 \/ lost)
-----------------------------------------------------------------------------
(* What the properties need to be inductive *)

DeviceStatus ==
    [state : TransferState, error : TransferError, received : 0 .. MaxLength,
     expected : 0 .. MaxLength]
Client ==
    [conn : 0 .. conns,
     state : {"IDLE", "SCANNING", "SELECT_DEVICE", "CONNECTING", "CHECKING_CAPABILITY",
              "AUTHENTICATING", "PAIRING", "READY", "SENDING", "COMPLETE", "ERROR"},
     op : {"NONE", "DISCOVER", "MTU", "READ", "WRITE"}, len : 0 .. MaxLength,
     frame : Nat, base : DeviceStatus \cup {NoStatus}, changed : BOOLEAN, old : BOOLEAN]
Request ==
    [conn : 1 .. conns, op : {"CONNECT", "DISCOVER", "MTU", "READ"}, msg : {NoStatus}]
        \cup [conn : 1 .. conns, op : {"WRITE"}, msg : Message]
Posted ==
    [conn : 1 .. conns, kind : {"UP", "DOWN", "DISCOVER", "MTU", "READ", "WRITE"},
     ok : BOOLEAN, status : DeviceStatus \cup {NoStatus}]
StoreCall == [conn : 1 .. conns, action : {"BEGIN", "DATA", "COMMIT"}, marked : BOOLEAN]

\* Every variable has its type, and no number of a connection that has not been.
TypeOK ==
    /\ conns \in 0 .. MaxConnections
    /\ word \in [1 .. MaxConnections -> {"nothing", "complete", "stopped", "unsure"}]
    /\ c \in Client /\ tasks \subseteq {"scan", "bond", "read", "watchdog", "timeout"}
    /\ calls \subseteq Posted /\ air \subseteq Request
    /\ link \in [conn : 0 .. conns, secure : BOOLEAN, ended : BOOLEAN] /\ bonded \in BOOLEAN
    /\ TransferInv(t) /\ by \in 0 .. conns
    /\ queue \in Seq([conn : 1 .. conns, msg : Message])
    /\ call \in {NoCall} \cup StoreCall
    /\ gone \subseteq 1 .. conns /\ durable \subseteq 1 .. conns
    /\ abort \in BOOLEAN /\ lost \in BOOLEAN

\* Nothing has come of the connection yet.
Fresh == c.op = "NONE" /\ c.base = NoStatus /\ c.len = 0 /\ {"bond", "read"} \cap tasks = {}

\* The client of a connection goes from one request to the next: the link, the
\* bond, the status, the transfer.
ClientInv ==
    /\ c.conn \in {0, conns}
    /\ c.conn = 0 => Fresh
    /\ c.state \in {"SCANNING", "SELECT_DEVICE"} => c.conn = 0
    /\ \A n \in DOMAIN word : n > conns \/ n = c.conn => word[n] = "nothing"
    /\ "bond" \in tasks => "read" \notin tasks
    /\ c.op # "NONE" => {"bond", "read"} \cap tasks = {}
    /\ c.base # NoStatus => "bond" \notin tasks /\ c.op \notin {"DISCOVER", "MTU"}
    /\ c.base = NoStatus => c.len = 0 /\ c.op # "WRITE"
    /\ c.base # NoStatus /\ c.len = 0 => c.op = "NONE" /\ "read" \notin tasks

\* One request at a time: what is in the air, or answered and posted, is the
\* one the client waits for.
Asked == {a \in air : a.conn = c.conn /\ a.op # "CONNECT"}
Answered == {x \in calls : x.conn = c.conn /\ x.kind \notin {"UP", "DOWN"}}
OneRequest ==
    /\ \A a \in Asked : a.op = c.op /\ (a.op = "WRITE" => a.msg = Frame(c.frame, c.len))
    /\ \A x \in Answered : x.kind = c.op
    /\ \A a, b \in Asked : a = b
    /\ \A x, y \in Answered : x = y
    /\ Asked = {} \/ Answered = {}

\* A client that has begun to talk has the link to itself.
Up == Callback(c.conn, "UP", TRUE, NoStatus)
LinkInv ==
    /\ link.conn = 0 => link = NoLink
    /\ \A a \in air : a.op = "CONNECT" => a.conn = c.conn /\ Fresh /\ Up \notin calls
    /\ \A x \in calls : x.conn = c.conn /\ x.kind = "UP" => x = Up /\ Fresh
    /\ c.conn # 0 /\ (~Fresh \/ Up \in calls) => link.conn \in {0, c.conn}

\* The worker's store call is the one the transfer waits for, and the session's.
DeviceInv ==
    /\ IF call = NoCall THEN t.pending = "NONE"
                        ELSE call.action = t.pending /\ call.conn = by
    /\ link.secure /\ call # NoCall => call.conn = link.conn
    /\ t.state = "COMMITTED" => by \in durable

\* Before its session a connection has nothing of it at the device.
Unheard(n) == \A i \in DOMAIN queue : queue[i].conn # n
NewLink == link.conn # 0 /\ ~link.secure /\ ~link.ended
ReadOk == {x \in Answered : x.kind = "READ" /\ x.ok}
NewLinkInv ==
    /\ \A a \in air : a.op = "CONNECT" => link.conn # a.conn /\ Unheard(a.conn)
    /\ NewLink =>
          /\ Unheard(link.conn)
          /\ \A a \in air : a.conn = link.conn => a.op # "WRITE"
          /\ c.conn = link.conn => c.base = NoStatus /\ ReadOk = {}

\* The BEGIN of n is queued, before what is at i.
BeginQueued(n, i) ==
    \E j \in 1 .. i - 1 : queue[j].conn = n /\ queue[j].msg.type = "BEGIN"

\* The client has had its BEGIN acknowledged; it goes on from there.
Begun == c.len # 0 /\ c.frame # 0
Acked ==
    /\ c.len # 0
    /\ c.frame # 0 \/ c.op # "WRITE" \/ \E x \in Answered : x.kind = "WRITE" /\ x.ok

\* An upload of an earlier connection may still be open when a session begins.
\* Then the session's own BEGIN is in the queue, before all else it has sent.
Stale == link.secure /\ Unfinished(t) /\ by # link.conn
StaleInv ==
    Stale =>
        /\ \A i \in DOMAIN queue :
              queue[i].conn = link.conn /\ queue[i].msg.type # "BEGIN" =>
                  BeginQueued(link.conn, i)
        /\ \A a \in air :
              a.conn = link.conn /\ a.op = "WRITE" /\ a.msg.type # "BEGIN" =>
                  BeginQueued(link.conn, Len(queue) + 1)
        /\ c.conn = link.conn /\ Acked => BeginQueued(link.conn, Len(queue) + 1)

\* From its BEGIN on a client sees no other package's commit.
Watching == Begun \/ \E x \in ReadOk : Open(x.status)
WatchInv ==
    /\ Watching /\ (t.state = "COMMITTED" \/ call # NoCall) => by = c.conn
    /\ \A x \in ReadOk :
          /\ x.status \in DeviceStatus
          /\ Begun /\ x.status.state = "COMMITTED" => c.conn \in durable

\* What n has asked the device to commit, or had committed, is uncertain.
CommitSent(n) ==
    \/ \E a \in air : a.conn = n /\ a.op = "WRITE" /\ a.msg.type = "COMMIT"
    \/ \E i \in DOMAIN queue : queue[i].conn = n /\ queue[i].msg.type = "COMMIT"
    \/ call.conn = n /\ call.action = "COMMIT"
    \/ n \in durable
CommitInv ==
    \A n \in 1 .. conns : CommitSent(n) =>
        word[n] # "stopped" /\ (c.conn = n => commitUncertain)

SyncInv ==
    /\ TypeOK /\ ClientInv /\ OneRequest /\ LinkInv /\ DeviceInv
    /\ NewLinkInv /\ StaleInv /\ WatchInv
    /\ CommitInv /\ DoneIsCommitted
=============================================================================
