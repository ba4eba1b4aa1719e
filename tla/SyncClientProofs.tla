--------------------------- MODULE SyncClientProofs ---------------------------
(* Proofs about SyncClient, for every value of its constants. *)
EXTENDS SyncClient, WalletTransferProofs, SequenceTheorems

USE SyncClientAssumption, MaxLengthAssumption

-----------------------------------------------------------------------------
(* Frames, and what the client makes of a status *)

\* A frame is a message of the transfer protocol.
LEMMA FrameIsMessage ==
    ASSUME NEW i \in Nat, NEW len \in 0 .. MaxLength
    PROVE  /\ Frame(i, len) \in Message
           /\ Frame(i, len).type = "BEGIN" <=> i = 0
           /\ Frame(i, len).type = "COMMIT" <=> i # 0 /\ i > len
BY DEF Frame, Message

\* BleProtocol.nextForFrame and BeginObservation have four answers.  An upload
\* goes on after its BEGIN only for a status that shows an open transfer, and
\* is done only for a status that shows a committed one, after its COMMIT.
LEMMA DecidedIs ==
    ASSUME NEW s
    PROVE  /\ Decided(s) \in {"FAIL", "DONE", "POLL", "SEND_NEXT"}
           /\ Decided(s) = "SEND_NEXT" /\ Type = "BEGIN" => Open(s)
           /\ Decided(s) = "DONE" => Type = "COMMIT" /\ s.state = "COMMITTED"
<1>1. CASE Type = "BEGIN"
  BY <1>1 DEF Decided, observe, nextForFrame
<1>2. CASE Type # "BEGIN"
  BY <1>2 DEF Decided, nextForFrame
<1>3. QED
  BY <1>1, <1>2

LEMMA RequestIs ==
    ASSUME TypeOK, NEW a \in air
    PROVE  /\ a \in Request /\ a.conn \in 1 .. conns /\ a.conn # 0
           /\ a.op \in {"CONNECT", "DISCOVER", "MTU", "READ", "WRITE"} /\ a.op # "NONE"
           /\ a.op = "WRITE" => a.msg \in Message
<1>1. a \in Request /\ conns \in Nat
  BY DEF TypeOK
<1>2. QED
  BY <1>1 DEF Request

LEMMA PostedIs ==
    ASSUME TypeOK, NEW x \in calls
    PROVE  /\ x \in Posted /\ x.conn \in 1 .. conns /\ x.conn # 0 /\ x.kind # "NONE"
           /\ x.kind \in {"UP", "DOWN", "DISCOVER", "MTU", "READ", "WRITE"}
<1>1. x \in Posted /\ conns \in Nat
  BY DEF TypeOK
<1>2. QED
  BY <1>1 DEF Posted

LEMMA QueuedIs ==
    ASSUME TypeOK, NEW i \in DOMAIN queue
    PROVE  queue[i].conn \in 1 .. conns /\ queue[i].msg \in Message
<1> DEFINE S == [conn : 1 .. conns, msg : Message]
<1>1. queue \in Seq(S)
  BY DEF TypeOK
<1> HIDE DEF S
<1>2. queue[i] \in S
  BY <1>1, LenProperties, ElementOfSeq
<1>3. QED
  BY <1>2 DEF S

-----------------------------------------------------------------------------
(* What most steps of the client have in common *)

\* A session is that of a link; a link that is gone has none.
LEMMA StaleIs ==
    ASSUME LinkInv, Stale
    PROVE  link.secure /\ link.conn # 0 /\ ~NewLink
BY DEF LinkInv, Stale, NoLink, NewLink

\* With the queue as it was, an upload that is stale was so before; what the
\* client has sent since then it has sent after its BEGIN.
LEMMA StaleKept ==
    ASSUME SyncInv, UNCHANGED queue, Stale' => Stale /\ link'.conn = link.conn,
           \A a \in air' : a.op = "WRITE" /\ a.msg.type # "BEGIN" =>
               a \in air \/ (a.conn = c.conn /\ Acked),
           Acked' => Acked /\ c'.conn = c.conn
    PROVE  StaleInv'
<1> SUFFICES ASSUME Stale'
             PROVE  /\ \A i \in DOMAIN queue :
                          queue[i].conn = link.conn /\ queue[i].msg.type # "BEGIN" =>
                              BeginQueued(link.conn, i)
                    /\ \A a \in air' :
                          a.conn = link.conn /\ a.op = "WRITE" /\ a.msg.type # "BEGIN" =>
                              BeginQueued(link.conn, Len(queue) + 1)
                    /\ c'.conn = link.conn /\ Acked' => BeginQueued(link.conn, Len(queue) + 1)
  BY DEF StaleInv, BeginQueued
<1>1. Stale /\ StaleInv
  BY DEF SyncInv
<1>2. QED
  BY <1>1 DEF StaleInv

\* The link of a client that has not talked yet: the queue holds no more than
\* it did, and the client does not write.
LEMMA NewLinkKept ==
    ASSUME SyncInv, link' = link,
           \A i \in DOMAIN queue' :
               \/ \E j \in DOMAIN queue : queue'[i] = queue[j]
               \/ queue'[i].conn = link.conn /\ link.secure,
           \A a \in air' :
               \/ a \in air
               \/ a.op # "CONNECT" /\ (a.op = "WRITE" => a.conn # link.conn \/ ~NewLink),
           NewLink /\ c'.conn = link.conn => c'.base = NoStatus /\ ReadOk' = {}
    PROVE  NewLinkInv'
<1>1. NewLinkInv
  BY DEF SyncInv
<1>2. \A n : Unheard(n) /\ (n # link.conn \/ ~link.secure) =>
               \A i \in DOMAIN queue' : queue'[i].conn # n
  BY DEF Unheard
<1>3. \A a \in air' : a.op = "CONNECT" =>
         link.conn # a.conn /\ \A i \in DOMAIN queue' : queue'[i].conn # a.conn
  BY <1>1, <1>2 DEF NewLinkInv
<1>4. NewLink =>
        /\ \A i \in DOMAIN queue' : queue'[i].conn # link.conn
        /\ \A a \in air' : a.conn = link.conn => a.op # "WRITE"
        /\ c'.conn = link.conn => c'.base = NoStatus /\ ReadOk' = {}
  BY <1>1, <1>2 DEF NewLinkInv, NewLink
<1>5. NewLink' <=> NewLink
  BY DEF NewLink
<1>6. QED
  BY <1>3, <1>4, <1>5 DEF NewLinkInv, Unheard

TaskName == {"scan", "bond", "read", "watchdog", "timeout"}

\* close: the connection and what was posted are forgotten.  The user may be
\* told that it is complete when it is durable, that it was stopped when no
\* COMMIT was sent.
LEMMA ClosedKept ==
    ASSUME SyncInv, UNCHANGED <<conns, link, bonded, device>>,
           NEW state \in {"IDLE", "SCANNING", "COMPLETE", "ERROR"},
           NEW left \in SUBSET {"scan"}, Closed(state, left),
           NEW w \in {"nothing", "complete", "stopped", "unsure"}, Told(w),
           w = "complete" => c.conn \in durable,
           w = "stopped" => ~commitUncertain
    PROVE  SyncInv'
<1>0. /\ TypeOK /\ ClientInv /\ OneRequest /\ LinkInv /\ DeviceInv
      /\ NewLinkInv /\ StaleInv /\ WatchInv /\ CommitInv /\ DoneIsCommitted
  BY DEF SyncInv
<1>1. /\ c' \in Client' /\ c'.conn = 0 /\ c'.len = 0 /\ c'.base = NoStatus /\ c'.op = "NONE"
      /\ c'.state = state
  <2>1. c' = [conn |-> 0, state |-> state, op |-> "NONE", len |-> 0, frame |-> 0,
              base |-> NoStatus, changed |-> FALSE, old |-> FALSE]
    BY DEF Closed, NoClient
  <2>2. 0 \in 0 .. conns' /\ 0 \in 0 .. MaxLength
    BY <1>0 DEF TypeOK
  <2>3. QED
    BY <2>1, <2>2 DEF Client
<1>2. /\ tasks' = left /\ calls' = {} /\ air' \subseteq air
      /\ \A a \in air' : a.op # "CONNECT"
  BY DEF Closed
<1>3. /\ c.conn \in 0 .. conns /\ conns \in 0 .. MaxConnections
      /\ MaxConnections \in Nat
  BY <1>0 DEF TypeOK, Client, MaxConnections
<1>4. /\ word' \in [1 .. MaxConnections -> {"nothing", "complete", "stopped", "unsure"}]
      /\ \A n \in 1 .. MaxConnections : word'[n] = IF n = c.conn THEN w ELSE word[n]
  <2>1. CASE c.conn = 0
    BY <1>0, <1>3, <2>1 DEF Told, TypeOK
  <2>2. CASE c.conn # 0
    <3>1. word' = [word EXCEPT ![c.conn] = w]
      BY <2>2 DEF Told
    <3>2. QED
      BY <1>0, <1>3, <3>1 DEF TypeOK
  <2>3. QED
    BY <2>1, <2>2
<1>5. TypeOK'
  <2>1. air' \subseteq Request' /\ calls' \subseteq Posted' /\ tasks' \subseteq TaskName
    BY <1>0, <1>2 DEF TypeOK, Request, TaskName
  <2>2. UNCHANGED <<conns, link, bonded, t, by, queue, call, gone, abort, durable, lost>>
    BY DEF device
  <2>3. QED
    BY <1>0, <1>1, <1>4, <2>1, <2>2 DEF TypeOK, StoreCall, TaskName
<1>6. ClientInv'
  BY <1>0, <1>1, <1>2, <1>4, <1>3 DEF ClientInv, TypeOK, Fresh
<1>7. OneRequest'
  <2>1. Asked' = {} /\ Answered' = {}
    BY <1>0, <1>1, <1>2 DEF Asked, Answered, TypeOK, Request
  <2>2. QED
    BY <2>1 DEF OneRequest
<1>8. LinkInv'
  BY <1>0, <1>1, <1>2 DEF LinkInv, device
<1>9. DeviceInv'
  BY <1>0 DEF DeviceInv, device
<1>10. WatchInv'
  BY <1>1, <1>2 DEF WatchInv, Watching, ReadOk, Begun, Answered
<1>11. CommitInv'
  <2> SUFFICES ASSUME NEW n \in 1 .. conns, CommitSent(n)'
               PROVE  word'[n] # "stopped" /\ c'.conn # n
    BY DEF CommitInv
  <2>1. CommitSent(n)
    BY <1>2 DEF CommitSent, device
  <2>2. QED
    BY <1>0, <1>1, <1>3, <1>4, <2>1 DEF CommitInv
<1>12. DoneIsCommitted'
  BY <1>0, <1>4 DEF DoneIsCommitted, TypeOK, device
<1>13. NewLinkInv' /\ StaleInv'
  <2>1. UNCHANGED <<link, queue, t, by>> /\ ReadOk' = {}
    BY <1>2 DEF device, ReadOk, Answered
  <2>2. (Stale' => Stale) /\ ~Acked'
    BY <1>1, <2>1 DEF Stale, Acked
  <2>3. StaleInv'
    BY <1>2, <2>1, <2>2, StaleKept
  <2>4. NewLinkInv'
    BY <1>1, <1>2, <2>1, NewLinkKept
  <2>5. QED
    BY <2>3, <2>4
<1>14. QED
  BY <1>5, <1>6, <1>7, <1>8, <1>9, <1>10, <1>11, <1>12, <1>13 DEF SyncInv

\* A step that leaves what the client waits for and what has been answered.
LEMMA QuietKept ==
    ASSUME SyncInv, UNCHANGED <<queue, t, by, call, durable>>, air' \subseteq air,
           c'.conn = c.conn, c'.len = c.len, c'.frame = c.frame, c'.op = c.op,
           c'.base = c.base, Answered' = Answered
    PROVE  /\ WatchInv' /\ ReadOk' = ReadOk /\ (Acked' <=> Acked)
           /\ link' = link \/ ~link'.secure => StaleInv'
           /\ link' = link => NewLinkInv'
<1>1. ReadOk' = ReadOk
  BY DEF ReadOk
<1>2. Begun' = Begun /\ (Watching' <=> Watching)
  BY <1>1 DEF Begun, Watching
<1>3. Acked' <=> Acked
  BY DEF Acked
<1>4. WatchInv'
  BY <1>1, <1>2 DEF SyncInv, WatchInv
<1>5. ASSUME link' = link \/ ~link'.secure PROVE StaleInv'
  <2>1. Stale' => Stale /\ link'.conn = link.conn
    BY <1>5 DEF Stale
  <2>2. QED
    BY <1>3, <2>1, StaleKept
<1>6. ASSUME link' = link PROVE NewLinkInv'
  <2>1. NewLink /\ c'.conn = link.conn => c'.base = NoStatus /\ ReadOk' = {}
    BY <1>1 DEF SyncInv, NewLinkInv
  <2>2. QED
    BY <1>6, <2>1, NewLinkKept
<1>7. QED
  BY <1>1, <1>3, <1>4, <1>5, <1>6

\* A step by which the client of a connection goes on: it has no request
\* outstanding any more, or a new one q instead.
LEMMA TurnKept ==
    ASSUME SyncInv, UNCHANGED <<conns, word, link, bonded, device>>, c.conn # 0,
           c' \in Client, c'.conn = c.conn, tasks' \subseteq TaskName, ClientInv',
           calls' \subseteq calls, ~Fresh \/ (Up \in calls /\ Up \notin calls'),
           Begun' => Watching, commitUncertain => commitUncertain',
           Acked' => Acked, c'.base = c.base \/ ReadOk # {},
           Asked = {}, Answered' = {}, NEW q,
           \/ air' = air
           \/ /\ air' = air \cup {q} /\ q \in Request /\ q.conn = c.conn
              /\ q.op = c'.op /\ q.op # "CONNECT"
              /\ q.op = "WRITE" =>
                    /\ q.msg = Frame(c'.frame, c'.len)
                    /\ q.msg.type = "COMMIT" => commitUncertain'
                    /\ q.msg.type # "BEGIN" => Acked
    PROVE  SyncInv'
<1>0. /\ TypeOK /\ ClientInv /\ OneRequest /\ LinkInv /\ DeviceInv
      /\ NewLinkInv /\ StaleInv /\ WatchInv /\ CommitInv /\ DoneIsCommitted
  BY DEF SyncInv
<1>1. TypeOK'
  <2>1. UNCHANGED <<conns, word, link, bonded, t, by, queue, call, gone, abort, durable, lost>>
    BY DEF device
  <2>2. air' \subseteq Request' /\ calls' \subseteq Posted'
    <3>1. Request' = Request /\ Posted' = Posted
      BY <2>1 DEF Request, Posted
    <3>2. QED
      BY <1>0, <3>1 DEF TypeOK
  <2>3. c' \in Client'
    BY <2>1 DEF Client
  <2>4. QED
    BY <1>0, <2>1, <2>2, <2>3 DEF TypeOK, StoreCall, TaskName
<1>2. OneRequest'
  <2>1. \A a \in Asked' :
           /\ air' = air \cup {q} /\ a = q /\ q.op = c'.op
           /\ q.op = "WRITE" => q.msg = Frame(c'.frame, c'.len)
    BY DEF Asked
  <2>2. QED
    BY <2>1 DEF OneRequest
<1>3. LinkInv'
  <2>1. \A a \in air : a.op # "CONNECT"
    BY <1>0 DEF LinkInv
  <2>2. \A a \in air' : a.op # "CONNECT"
    BY <2>1
  <2>3. Up' = Up
    BY DEF Up, Callback
  <2>4. \A x \in calls' : ~(x.conn = c.conn /\ x.kind = "UP")
    BY <1>0 DEF LinkInv
  <2>5. Up.conn = c.conn /\ Up.kind = "UP"
    BY DEF Up, Callback
  <2>6. link.conn \in {0, c.conn}
    BY <1>0 DEF LinkInv
  <2>7. QED
    BY <1>0, <2>2, <2>3, <2>4, <2>5, <2>6 DEF LinkInv, device
<1>4. DeviceInv'
  BY <1>0 DEF DeviceInv, device
<1>5. WatchInv'
  <2>1. ReadOk' = {} /\ (Watching' => Watching)
    BY DEF ReadOk, Watching
  <2>2. QED
    BY <1>0, <2>1 DEF WatchInv, device
<1>6. CommitInv'
  <2> SUFFICES ASSUME NEW n \in 1 .. conns, CommitSent(n)'
               PROVE  word[n] # "stopped" /\ (c.conn = n => commitUncertain')
    BY DEF CommitInv
  <2>1. CommitSent(n) \/ (c.conn = n /\ commitUncertain')
    BY DEF CommitSent, device
  <2>2. c.conn = n => word[n] = "nothing"
    BY <1>0 DEF ClientInv, TypeOK, Fresh
  <2>3. QED
    BY <1>0, <2>1, <2>2 DEF CommitInv
<1>7. DoneIsCommitted'
  BY <1>0 DEF DoneIsCommitted, device
<1>8. StaleInv'
  <2>1. UNCHANGED queue /\ (Stale' => Stale /\ link'.conn = link.conn)
    BY DEF device, Stale
  <2>2. \A a \in air' : a.op = "WRITE" /\ a.msg.type # "BEGIN" =>
               a \in air \/ (a.conn = c.conn /\ Acked)
    OBVIOUS
  <2>3. QED
    BY <2>1, <2>2, StaleKept
<1>9. NewLinkInv'
  <2>1. queue' = queue /\ ReadOk' = {}
    BY DEF device, ReadOk
  <2>2. ASSUME NewLink, c.conn = link.conn PROVE c'.base = NoStatus /\ c'.op # "WRITE"
    <3>1. c.base = NoStatus /\ ReadOk = {}
      BY <1>0, <2>2 DEF NewLinkInv
    <3>2. QED
      BY <3>1 DEF ClientInv
  <2>3. \A a \in air' :
           \/ a \in air
           \/ a.op # "CONNECT" /\ (a.op = "WRITE" => a.conn # link.conn \/ ~NewLink)
    BY <2>2
  <2>4. NewLink /\ c'.conn = link.conn => c'.base = NoStatus /\ ReadOk' = {}
    BY <2>1, <2>2
  <2>5. QED
    BY <2>1, <2>3, <2>4, NewLinkKept
<1>10. QED
  BY <1>1, <1>2, <1>3, <1>4, <1>5, <1>6, <1>7, <1>8, <1>9 DEF SyncInv

\* A step of the device's worker: it may make t the transfer of the link.
LEMMA DeviceKept ==
    ASSUME SyncInv, Worker, TransferInv(t'), DeviceInv', StaleInv',
           by' = by \/ (by' = link.conn /\ link.conn # 0),
           t'.state = "COMMITTED" \/ call' # NoCall =>
               \/ by' = link.conn /\ link.conn # 0
               \/ by' = by /\ (t.state = "COMMITTED" \/ call # NoCall),
           \A i \in DOMAIN queue' : \E j \in DOMAIN queue : queue'[i] = queue[j],
           queue' \in Seq([conn : 1 .. conns, msg : Message]),
           call' \in {NoCall} \cup StoreCall, gone' \subseteq gone,
           abort' \in BOOLEAN, lost' \in BOOLEAN,
           durable \subseteq durable', durable' \subseteq 1 .. conns,
           \A n \in 1 .. conns : CommitSent(n)' => CommitSent(n)
    PROVE  SyncInv'
<1>0. /\ TypeOK /\ ClientInv /\ OneRequest /\ LinkInv /\ DeviceInv
      /\ NewLinkInv /\ StaleInv /\ WatchInv /\ CommitInv /\ DoneIsCommitted
  BY DEF SyncInv
<1>1. UNCHANGED <<c, tasks, conns, word, calls, air, link, bonded>>
  BY DEF Worker, client, radio
<1>2. link.conn \in 0 .. conns
  BY <1>0 DEF TypeOK
<1>3. TypeOK'
  BY <1>0, <1>1, <1>2 DEF TypeOK, Client, Posted, Request, StoreCall
<1>4. ClientInv'
  BY <1>0, <1>1 DEF ClientInv, TypeOK, Fresh
<1>5. OneRequest'
  BY <1>0, <1>1 DEF OneRequest, Asked, Answered
<1>6. LinkInv'
  BY <1>0, <1>1 DEF LinkInv, Fresh, Up, Callback
<1>7. WatchInv'
  <2>1. Begun \/ Answered # {} => c.conn # 0 /\ ~Fresh
    BY <1>0, PostedIs DEF Begun, Answered, Fresh, OneRequest, ClientInv
  <2>2. Watching => link.conn \in {0, c.conn}
    BY <1>0, <2>1 DEF LinkInv, Watching, ReadOk
  <2>3. Watching /\ (t'.state = "COMMITTED" \/ call' # NoCall) => by' = c.conn
    BY <1>0, <2>2 DEF WatchInv
  <2>4. Watching' = Watching /\ ReadOk' = ReadOk /\ Begun' = Begun
    BY <1>1 DEF Watching, ReadOk, Begun, Answered
  <2>5. QED
    BY <1>0, <1>1, <2>3, <2>4 DEF WatchInv
<1>8. CommitInv'
  BY <1>0, <1>1 DEF CommitInv, commitUncertain, Type, TypeOK
<1>9. DoneIsCommitted'
  BY <1>0, <1>1 DEF DoneIsCommitted
<1>10. NewLinkInv'
  <2>1. NewLink /\ c'.conn = link.conn => c'.base = NoStatus /\ ReadOk' = {}
    BY <1>0, <1>1 DEF NewLinkInv, ReadOk, Answered
  <2>2. QED
    BY <1>1, <2>1, NewLinkKept
<1>11. QED
  BY <1>3, <1>4, <1>5, <1>6, <1>7, <1>8, <1>9, <1>10 DEF SyncInv

\* The worker's steps that leave the queue, and no upload open that was not.
LEMMA WorkerStale ==
    ASSUME SyncInv, Worker, UNCHANGED <<by, queue>>, Unfinished(t') => Unfinished(t)
    PROVE  StaleInv'
<1>1. UNCHANGED <<c, calls, air, link>>
  BY DEF Worker, client, radio
<1>2. (Stale' => Stale) /\ (Acked' <=> Acked)
  BY <1>1 DEF Stale, Acked, Answered
<1>3. QED
  BY <1>1, <1>2, StaleKept

-----------------------------------------------------------------------------
(* The client's steps *)

\* failure, and what the user is told by it.
LEMMA FailureKept ==
    ASSUME SyncInv, UNCHANGED <<conns, link, bonded, device>>,
           NEW w \in {"stopped", "unsure"}, failure(w), w = "stopped" => ~commitUncertain
    PROVE  SyncInv'
BY ClosedKept DEF failure

LEMMA VerdictIs ==
    Verdict \in {"stopped", "unsure"} /\ (Verdict = "stopped" => ~commitUncertain)
BY DEF Verdict

\* Who has no request outstanding has no answer posted.
LEMMA Idle ==
    ASSUME SyncInv, c.op = "NONE"
    PROVE  Asked = {} /\ Answered = {}
BY RequestIs, PostedIs DEF SyncInv, OneRequest, Asked, Answered

\* An answer for the client is the one it waits for, and the only one.
LEMMA TheAnswer ==
    ASSUME SyncInv, NEW x \in calls, current(x.conn), x.kind \notin {"UP", "DOWN"}
    PROVE  /\ c.op = x.kind /\ Asked = {} /\ Answered = {x} /\ ~Fresh /\ c.conn # 0
           /\ \A C : C = calls \ {x} => {y \in C : y.conn = c.conn /\ y.kind \notin {"UP", "DOWN"}} = {}
<1>1. x \in Answered /\ c.conn # 0
  BY DEF Answered, current
<1>2. c.op = x.kind /\ Asked = {} /\ Answered = {x}
  BY <1>1 DEF SyncInv, OneRequest
<1>3. ~Fresh
  BY <1>2 DEF SyncInv, TypeOK, Posted, Fresh
<1>4. QED
  BY <1>1, <1>2, <1>3 DEF Answered

LEMMA ScanStep ==
    ASSUME SyncInv, scan \/ close
    PROVE  SyncInv'
<1>1. word = IF c.conn = 0 THEN word ELSE [word EXCEPT ![c.conn] = "nothing"]
  BY DEF SyncInv, TypeOK, ClientInv, Client
<1>2. Told("nothing")
  BY <1>1 DEF scan, close, Told
<1>3. UNCHANGED <<conns, link, bonded, device>>
  BY DEF scan, close
<1>4. CASE scan
  BY <1>2, <1>3, <1>4, ClosedKept DEF scan
<1>5. CASE close
  BY <1>2, <1>3, <1>5, ClosedKept DEF close
<1>6. QED
  BY <1>4, <1>5

LEMMA ScanEndsStep ==
    ASSUME SyncInv, ScanEnds
    PROVE  SyncInv'
<1>0. /\ TypeOK /\ ClientInv /\ OneRequest /\ LinkInv /\ DeviceInv
      /\ NewLinkInv /\ StaleInv /\ WatchInv /\ CommitInv /\ DoneIsCommitted
  BY DEF SyncInv
<1>1. /\ c.conn = 0 /\ c' \in Client /\ c'.conn = 0 /\ c'.op = c.op /\ c'.base = c.base
      /\ c'.len = c.len /\ c'.frame = c.frame /\ tasks' = {}
      /\ UNCHANGED <<conns, word, calls, air, link, bonded, t, by, queue, call, gone, abort,
                     durable, lost>>
  <2>1. c \in Client /\ c.conn = 0
    BY <1>0 DEF ScanEnds, ClientInv, TypeOK
  <2>2. PICK state \in {"SELECT_DEVICE", "ERROR"} : c' = [c EXCEPT !.state = state]
    BY DEF ScanEnds
  <2>3. /\ c' \in Client /\ c'.conn = 0 /\ c'.op = c.op /\ c'.base = c.base
        /\ c'.len = c.len /\ c'.frame = c.frame
    BY <2>1, <2>2 DEF Client
  <2>4. QED
    BY <2>1, <2>3 DEF ScanEnds, radio, device
<1>2. TypeOK'
  BY <1>0, <1>1 DEF TypeOK, Client, Posted, Request, StoreCall
<1>3. ClientInv'
  BY <1>0, <1>1 DEF ClientInv, TypeOK, Fresh
<1>4. Asked = {} /\ Answered = {} /\ Asked' = {} /\ Answered' = {}
  BY <1>0, <1>1, RequestIs, PostedIs DEF Asked, Answered
<1>5. OneRequest'
  BY <1>0, <1>1, <1>4 DEF OneRequest
<1>6. LinkInv'
  BY <1>0, <1>1 DEF LinkInv, TypeOK, Request, Posted
<1>7. DeviceInv' /\ CommitInv' /\ DoneIsCommitted'
  BY <1>0, <1>1 DEF DeviceInv, CommitInv, DoneIsCommitted, CommitSent
<1>8. WatchInv' /\ StaleInv' /\ NewLinkInv'
  BY <1>1, <1>4, QuietKept
<1>9. QED
  BY <1>2, <1>3, <1>5, <1>6, <1>7, <1>8 DEF SyncInv

\* A new connection has a number that nothing refers to yet.
LEMMA ConnectStep ==
    ASSUME SyncInv, connectSelected
    PROVE  SyncInv'
<1>0. /\ TypeOK /\ ClientInv /\ OneRequest /\ LinkInv /\ DeviceInv
      /\ NewLinkInv /\ StaleInv /\ WatchInv /\ CommitInv /\ DoneIsCommitted
  BY DEF SyncInv
<1>1. /\ c.conn = 0 /\ conns' = conns + 1 /\ calls' = {} /\ conns' \in 1 .. MaxConnections
      /\ MaxConnections \in Nat /\ conns \in Nat
      /\ UNCHANGED <<word, link, bonded, t, by, queue, call, gone, abort, durable, lost>>
  BY <1>0 DEF connectSelected, TypeOK, ClientInv, device, MaxConnections
<1>2. PICK k \in {0, conns'} :
        /\ c' \in Client' /\ c'.conn = k /\ c'.len = 0 /\ c'.base = NoStatus /\ c'.op = "NONE"
        /\ c'.state \in {"CONNECTING", "ERROR"} /\ tasks' \subseteq {"timeout"}
        /\ air' = air \/ (k = conns' /\ air' = air \cup {[conn |-> k, op |-> "CONNECT", msg |-> NoStatus]})
  <2>1. 0 \in 0 .. MaxLength /\ 0 \in 0 .. conns' /\ conns' \in 0 .. conns'
    BY <1>1
  <2>2. CASE c' = [NoClient EXCEPT !.conn = conns', !.state = "CONNECTING"]
    <3>1. c' = [conn |-> conns', state |-> "CONNECTING", op |-> "NONE", len |-> 0, frame |-> 0,
                base |-> NoStatus, changed |-> FALSE, old |-> FALSE]
      BY <2>2 DEF NoClient
    <3>2. c' \in Client'
      BY <2>1, <3>1 DEF Client
    <3>3. QED
      BY <3>1, <3>2 DEF connectSelected, NoClient
  <2>3. CASE c' = [NoClient EXCEPT !.state = "ERROR"]
    <3>1. c' = [conn |-> 0, state |-> "ERROR", op |-> "NONE", len |-> 0, frame |-> 0,
                base |-> NoStatus, changed |-> FALSE, old |-> FALSE]
      BY <2>3 DEF NoClient
    <3>2. c' \in Client'
      BY <2>1, <3>1 DEF Client
    <3>3. QED
      BY <1>1, <3>1, <3>2 DEF connectSelected, NoClient
  <2>4. QED
    BY <2>2, <2>3 DEF connectSelected
<1>3. /\ \A a \in air : a.conn \in 1 .. conns /\ a.op # "CONNECT"
      /\ \A a \in air' : a.op # "CONNECT" => a \in air
      /\ \A a \in air' : a.op = "CONNECT" => a.conn = k
  BY <1>0, <1>1, <1>2, RequestIs DEF LinkInv
<1>4. TypeOK'
  <2>1. air' \subseteq Request'
    BY <1>0, <1>1, <1>2 DEF TypeOK, Request
  <2>2. \A i \in Nat : i \in 1 .. conns => i \in 1 .. conns'
    BY <1>1
  <2>3. queue \in Seq([conn : 1 .. conns', msg : Message])
    <3>1. [conn : 1 .. conns, msg : Message] \subseteq [conn : 1 .. conns', msg : Message]
      BY <1>1
    <3>2. QED
      BY <1>0, <3>1, SeqMonotonic DEF TypeOK
  <2>4. call \in {NoCall} \cup StoreCall'
    BY <1>0, <1>1 DEF TypeOK, StoreCall
  <2>5. /\ link \in [conn : 0 .. conns', secure : BOOLEAN, ended : BOOLEAN] /\ by \in 0 .. conns'
        /\ gone \subseteq 1 .. conns' /\ durable \subseteq 1 .. conns'
    BY <1>0, <1>1 DEF TypeOK
  <2>6. QED
    BY <1>0, <1>1, <1>2, <2>1, <2>3, <2>4, <2>5 DEF TypeOK
<1>5. ClientInv'
  BY <1>0, <1>1, <1>2 DEF ClientInv, TypeOK, Fresh
<1>6. Asked' = {} /\ Answered' = {}
  BY <1>1, <1>2, <1>3 DEF Asked, Answered
<1>7. OneRequest' /\ WatchInv'
  BY <1>2, <1>6 DEF OneRequest, WatchInv, Watching, ReadOk, Begun
<1>8. LinkInv'
  BY <1>0, <1>1, <1>2, <1>3 DEF LinkInv, Fresh
<1>9. DeviceInv'
  BY <1>0, <1>1 DEF DeviceInv
<1>10. CommitInv'
  <2> SUFFICES ASSUME NEW n \in 1 .. conns', CommitSent(n)'
               PROVE  word[n] # "stopped" /\ c'.conn # n
    BY <1>1 DEF CommitInv
  <2>1. CommitSent(n)
    BY <1>1, <1>3 DEF CommitSent
  <2>2. n \in 1 .. conns
    <3>1. \A i \in DOMAIN queue : queue[i].conn \in 1 .. conns
      BY <1>0, QueuedIs
    <3>2. call = NoCall \/ call.conn \in 1 .. conns
      BY <1>0 DEF TypeOK, StoreCall
    <3>3. call.conn = n => n \in 1 .. conns
      BY <3>2 DEF NoCall
    <3>4. QED
      BY <1>0, <1>3, <2>1, <3>1, <3>3 DEF CommitSent, TypeOK
  <2>3. QED
    BY <1>0, <1>1, <1>2, <2>1, <2>2 DEF CommitInv
<1>11. DoneIsCommitted'
  BY <1>0, <1>1 DEF DoneIsCommitted
<1>12. StaleInv'
  <2>1. ~Acked' /\ (Stale' => Stale /\ link'.conn = link.conn)
    BY <1>1, <1>2 DEF Acked, Stale
  <2>2. \A a \in air' : a.op = "WRITE" => a \in air
    BY <1>3
  <2>3. QED
    BY <1>1, <2>1, <2>2, StaleKept
<1>13. NewLinkInv'
  <2>1. link.conn \in 0 .. conns /\ \A i \in DOMAIN queue : queue[i].conn \in 1 .. conns
    BY <1>0, QueuedIs DEF TypeOK
  <2>2. link'.conn # conns' /\ \A i \in DOMAIN queue' : queue'[i].conn # conns'
    BY <1>1, <2>1
  <2>3. \A a \in air' : a.op = "CONNECT" => a.conn = conns'
    BY <1>2, <1>3
  <2>4. NewLink =>
          /\ \A i \in DOMAIN queue : queue[i].conn # link.conn
          /\ \A a \in air' : a.conn = link.conn => a.op # "WRITE"
    BY <1>0, <1>3 DEF NewLinkInv, Unheard
  <2>5. ReadOk' = {} /\ c'.base = NoStatus
    BY <1>2, <1>6 DEF ReadOk
  <2>6. NewLink' <=> NewLink
    BY <1>1 DEF NewLink
  <2>7. QED
    BY <1>1, <2>2, <2>3, <2>4, <2>5, <2>6 DEF NewLinkInv, Unheard
<1>14. QED
  BY <1>4, <1>5, <1>7, <1>8, <1>9, <1>10, <1>11, <1>12, <1>13 DEF SyncInv


\* A callback of a connection that was closed changes nothing.
LEMMA StaleStep ==
    ASSUME SyncInv, NEW x \in calls, DropStale(x)
    PROVE  SyncInv'
<1>0. /\ TypeOK /\ ClientInv /\ OneRequest /\ LinkInv /\ DeviceInv
      /\ NewLinkInv /\ StaleInv /\ WatchInv /\ CommitInv /\ DoneIsCommitted
  BY DEF SyncInv
<1>1. /\ calls' = calls \ {x}
      /\ UNCHANGED <<c, tasks, conns, word, air, link, bonded, t, by, queue, call, gone, abort,
                     durable, lost>>
      /\ c.conn = 0 \/ x.conn # c.conn
  BY DEF DropStale, client, device, current
<1>2. TypeOK' /\ ClientInv'
  BY <1>0, <1>1 DEF TypeOK, ClientInv, Client, Posted, Request, StoreCall, Fresh
<1>3. Asked' = Asked /\ Answered' = Answered
  BY <1>0, <1>1, PostedIs DEF Asked, Answered
<1>4. OneRequest'
  BY <1>0, <1>1, <1>3 DEF OneRequest
<1>5. LinkInv'
  BY <1>0, <1>1 DEF LinkInv, Fresh, Up, Callback
<1>6. DeviceInv' /\ CommitInv' /\ DoneIsCommitted'
  BY <1>0, <1>1 DEF DeviceInv, CommitInv, DoneIsCommitted, CommitSent, commitUncertain, Type
<1>7. WatchInv' /\ StaleInv' /\ NewLinkInv'
  BY <1>1, <1>3, QuietKept
<1>8. QED
  BY <1>2, <1>4, <1>5, <1>6, <1>7 DEF SyncInv

LEMMA DisconnectedStep ==
    ASSUME SyncInv, NEW x \in calls, onDisconnected(x)
    PROVE  SyncInv'
BY FailureKept, VerdictIs DEF onDisconnected, Handle

\* The client while nothing has come of its connection, or no transfer of it:
\* no COMMIT was sent, and none will be before the transfer begins.
LEMMA NotBegun ==
    ASSUME SyncInv, c.len = 0
    PROVE  ~commitUncertain /\ ~Begun /\ ~Acked
BY DEF commitUncertain, Begun, Acked

LEMMA ConnectedStep ==
    ASSUME SyncInv, NEW x \in calls, onConnected(x)
    PROVE  SyncInv'
<1>0. TypeOK /\ ClientInv /\ LinkInv
  BY DEF SyncInv
<1>1. x.conn = c.conn /\ c.conn # 0 /\ x.kind = "UP" /\ UNCHANGED <<conns, link, bonded, device>>
  BY DEF onConnected, Handle, current
<1>2. x = Up /\ Fresh /\ c.op = "NONE" /\ c.len = 0
  BY <1>0, <1>1 DEF LinkInv, Fresh
<1>3. CASE failure("stopped")
  BY <1>1, <1>2, <1>3, FailureKept, NotBegun
<1>4. CASE /\ c' = [c EXCEPT !.op = "DISCOVER", !.state = "CHECKING_CAPABILITY"]
           /\ Ask("DISCOVER", NoStatus) /\ Rest(x) /\ Keep
  <2> DEFINE q == [conn |-> c.conn, op |-> "DISCOVER", msg |-> NoStatus]
  <2>1. /\ c' \in Client /\ c'.conn = c.conn /\ c'.op = "DISCOVER" /\ c'.len = 0
        /\ c'.base = c.base /\ c'.state = "CHECKING_CAPABILITY"
    BY <1>0, <1>2, <1>4 DEF TypeOK, Client
  <2>2. tasks' = tasks /\ word' = word /\ calls' = calls \ {x} /\ air' = air \cup {q}
    BY <1>4 DEF Ask, Rest, Keep
  <2>3. Asked = {} /\ Answered = {}
    BY <1>2, Idle
  <2>4. Answered' = {}
    BY <2>1, <2>2, <2>3 DEF Answered
  <2>5. ClientInv'
    BY <1>0, <1>1, <1>2, <2>1, <2>2 DEF ClientInv, Fresh
  <2>6. q \in Request /\ q.conn = c.conn /\ q.op = "DISCOVER"
    BY <1>0, <1>1 DEF TypeOK, Client, Request
  <2> HIDE DEF q
  <2>7. tasks' \subseteq TaskName
    BY <1>0, <2>2 DEF TypeOK, TaskName
  <2>8. ~Begun' /\ ~Acked' /\ ~commitUncertain
    BY <1>2, <2>1 DEF Begun, Acked, commitUncertain
  <2>9. QED
    BY <1>1, <1>2, <2>1, <2>2, <2>3, <2>4, <2>5, <2>6, <2>7, <2>8, TurnKept
<1>5. QED
  BY <1>3, <1>4 DEF onConnected

\* configureMtu, for a client that has had no status yet.
LEMMA MtuStep ==
    ASSUME SyncInv, configureMtu, UNCHANGED <<conns, word, link, bonded, device>>,
           c.conn # 0, c.base = NoStatus, ~Fresh, "read" \notin tasks,
           calls' \subseteq calls, Asked = {},
           {y \in calls' : y.conn = c.conn /\ y.kind \notin {"UP", "DOWN"}} = {}
    PROVE  SyncInv'
<1>0. TypeOK /\ ClientInv
  BY DEF SyncInv
<1> DEFINE q == [conn |-> c.conn, op |-> "MTU", msg |-> NoStatus]
<1>1. c.len = 0
  BY <1>0 DEF ClientInv, Fresh
<1>2. PICK op \in {"MTU", "NONE"} :
        /\ c' = [c EXCEPT !.op = op, !.state = "AUTHENTICATING"]
        /\ op = "MTU" => air' = air \cup {q} /\ tasks' = tasks \ {"bond"}
        /\ op = "NONE" => air' = air /\ tasks' = (tasks \ {"bond"}) \cup {"read"}
  BY DEF configureMtu, Ask
<1>3. /\ c' \in Client /\ c'.conn = c.conn /\ c'.op = op /\ c'.len = 0
      /\ c'.base = NoStatus /\ c'.state = "AUTHENTICATING"
  BY <1>0, <1>1, <1>2 DEF TypeOK, Client
<1>4. Answered' = {}
  BY <1>3 DEF Answered
<1>5. ClientInv'
  BY <1>0, <1>2, <1>3 DEF ClientInv, Fresh
<1>6. q \in Request /\ q.conn = c.conn /\ q.op = "MTU"
  BY <1>0 DEF TypeOK, Client, Request
<1>7. tasks' \subseteq TaskName
  BY <1>0, <1>2 DEF TypeOK, TaskName
<1>8. ~Begun' /\ ~Acked' /\ ~commitUncertain
  BY <1>1, <1>3 DEF Begun, Acked, commitUncertain
<1> HIDE DEF q
<1>9. QED
  BY <1>2, <1>3, <1>4, <1>5, <1>6, <1>7, <1>8, TurnKept

LEMMA BondStep ==
    ASSUME SyncInv, awaitBond
    PROVE  SyncInv'
<1>0. TypeOK /\ ClientInv /\ LinkInv
  BY DEF SyncInv
<1>1. /\ "bond" \in tasks /\ configureMtu
      /\ UNCHANGED <<calls, conns, word, link, bonded, device>>
  BY DEF awaitBond
<1>2. c.base = NoStatus /\ ~Fresh /\ "read" \notin tasks /\ c.op = "NONE"
  BY <1>0, <1>1 DEF ClientInv, Fresh, TypeOK, Client
<1>3. Asked = {} /\ Answered = {}
  BY <1>2, Idle
<1>4. c.conn # 0
  BY <1>0, <1>1, <1>2 DEF ClientInv, Fresh
<1>5. QED
  BY <1>1, <1>2, <1>3, <1>4, MtuStep DEF Answered

LEMMA DiscoveredStep ==
    ASSUME SyncInv, NEW x \in calls, onServicesDiscovered(x)
    PROVE  SyncInv'
<1>0. TypeOK /\ ClientInv /\ LinkInv
  BY DEF SyncInv
<1>1. /\ x.conn = c.conn /\ current(x.conn) /\ c.conn # 0 /\ x.kind = "DISCOVER"
      /\ UNCHANGED <<conns, link, bonded, device>>
  BY DEF onServicesDiscovered, Handle, current
<1>2. /\ c.op = "DISCOVER" /\ Asked = {} /\ ~Fresh
      /\ \A C : C = calls \ {x} => {y \in C : y.conn = c.conn /\ y.kind \notin {"UP", "DOWN"}} = {}
  BY <1>1, TheAnswer
<1>3. c.base = NoStatus /\ c.len = 0 /\ "read" \notin tasks /\ "bond" \notin tasks
  BY <1>0, <1>2 DEF ClientInv
<1>4. CASE failure("stopped")
  BY <1>1, <1>3, <1>4, FailureKept, NotBegun
<1>5. CASE configureMtu /\ Rest(x)
  BY <1>1, <1>2, <1>3, <1>5, MtuStep DEF Rest
<1>6. CASE /\ Rest(x) /\ UNCHANGED air
           /\ c' = [c EXCEPT !.op = "NONE", !.state = "PAIRING"]
           /\ tasks' = tasks \cup {"bond"}
  <2>1. /\ c' \in Client /\ c'.conn = c.conn /\ c'.op = "NONE" /\ c'.len = 0
        /\ c'.base = NoStatus /\ c'.state = "PAIRING"
    BY <1>0, <1>3, <1>6 DEF TypeOK, Client
  <2>2. word' = word /\ calls' = calls \ {x} /\ air' = air
    BY <1>6 DEF Rest
  <2>3. Answered' = {}
    BY <1>2, <2>1, <2>2 DEF Answered
  <2>4. ClientInv'
    BY <1>0, <1>1, <1>3, <1>6, <2>1, <2>2 DEF ClientInv
  <2>5. tasks' \subseteq TaskName
    BY <1>0, <1>6 DEF TypeOK, TaskName
  <2>6. ~Begun' /\ ~Acked' /\ ~commitUncertain /\ c'.base = c.base
    BY <1>3, <2>1 DEF Begun, Acked, commitUncertain
  <2>7. QED
    BY <1>1, <1>2, <2>1, <2>2, <2>3, <2>4, <2>5, <2>6, TurnKept
<1>7. QED
  BY <1>2, <1>4, <1>5, <1>6 DEF onServicesDiscovered

\* After the MTU and after a frame the status is read: a task, no request.
LEMMA ReadLater ==
    ASSUME SyncInv, NEW x \in calls, current(x.conn), x.kind \notin {"UP", "DOWN"},
           UNCHANGED <<conns, link, bonded, device>>, Rest(x), UNCHANGED air,
           c' \in Client, c'.conn = c.conn, c'.op = "NONE", c'.len = c.len,
           c'.frame = c.frame, c'.base = c.base, c'.state = c.state,
           tasks' = tasks \cup {"read"}, c.op # "MTU" => c.len # 0, c.op = "WRITE" => x.ok
    PROVE  SyncInv'
<1>0. TypeOK /\ ClientInv /\ WatchInv
  BY DEF SyncInv
<1>1. /\ Asked = {} /\ ~Fresh /\ c.conn # 0 /\ c.op = x.kind
      /\ \A C : C = calls \ {x} => {y \in C : y.conn = c.conn /\ y.kind \notin {"UP", "DOWN"}} = {}
  BY TheAnswer
<1>2. word' = word /\ calls' = calls \ {x} /\ air' = air
  BY DEF Rest
<1>3. Answered' = {}
  BY <1>1, <1>2 DEF Answered
<1>4. c.op # "NONE"
  BY <1>0, <1>1, PostedIs
<1>5. ClientInv'
  BY <1>0, <1>2, <1>4 DEF ClientInv, Fresh
<1>6. tasks' \subseteq TaskName
  BY <1>0 DEF TypeOK, TaskName
<1>7. (Begun' => Watching) /\ (commitUncertain => commitUncertain')
  BY <1>0 DEF Watching, Begun, commitUncertain, Type
<1>8. Acked' => Acked
  <2>1. x \in Answered
    BY <1>1 DEF current, Answered
  <2>2. QED
    BY <1>1, <2>1 DEF Acked
<1>9. QED
  BY <1>1, <1>2, <1>8, <1>3, <1>5, <1>6, <1>7, TurnKept

LEMMA MtuChangedStep ==
    ASSUME SyncInv, NEW x \in calls, onMtuChanged(x)
    PROVE  SyncInv'
<1>0. TypeOK /\ ClientInv
  BY DEF SyncInv
<1>1. /\ x.kind = "MTU" /\ current(x.conn) /\ UNCHANGED <<conns, link, bonded, device>>
      /\ Rest(x) /\ UNCHANGED air
  BY DEF onMtuChanged, Handle
<1>2. c.op = "MTU"
  BY <1>1, TheAnswer
<1>3. c' = [c EXCEPT !.op = "NONE"] /\ tasks' = tasks \cup {"read"}
  BY <1>2 DEF onMtuChanged
<1>4. /\ c' \in Client /\ c'.conn = c.conn /\ c'.op = "NONE" /\ c'.len = c.len
      /\ c'.frame = c.frame /\ c'.base = c.base /\ c'.state = c.state
  BY <1>0, <1>3 DEF TypeOK, Client
<1>5. QED
  BY <1>1, <1>2, <1>3, <1>4, ReadLater

LEMMA WrittenStep ==
    ASSUME SyncInv, NEW x \in calls, onCharacteristicWrite(x)
    PROVE  SyncInv'
<1>0. TypeOK /\ ClientInv
  BY DEF SyncInv
<1>1. x.kind = "WRITE" /\ current(x.conn) /\ UNCHANGED <<conns, link, bonded, device>>
  BY DEF onCharacteristicWrite, Handle
<1>2. c.op = "WRITE"
  BY <1>1, TheAnswer
<1>3. c.len # 0
  BY <1>0, <1>2 DEF ClientInv, Fresh
<1>4. CASE failure(Verdict)
  BY <1>1, <1>4, FailureKept, VerdictIs
<1>5. CASE /\ c' = [c EXCEPT !.op = "NONE"] /\ tasks' = tasks \cup {"read"}
           /\ Rest(x) /\ UNCHANGED air /\ x.ok
  <2>1. /\ c' \in Client /\ c'.conn = c.conn /\ c'.op = "NONE" /\ c'.len = c.len
        /\ c'.frame = c.frame /\ c'.base = c.base /\ c'.state = c.state
    BY <1>0, <1>5 DEF TypeOK, Client
  <2>2. QED
    BY <1>1, <1>3, <1>5, <2>1, ReadLater
<1>6. QED
  BY <1>2, <1>3, <1>4, <1>5 DEF onCharacteristicWrite

LEMMA ReadStep ==
    ASSUME SyncInv, readStatus
    PROVE  SyncInv'
<1>0. TypeOK /\ ClientInv /\ WatchInv
  BY DEF SyncInv
<1>1. /\ "read" \in tasks /\ c.op = "NONE" /\ ~Fresh /\ c.conn # 0
      /\ UNCHANGED <<conns, link, bonded, device>>
  BY <1>0 DEF readStatus, ClientInv, Fresh
<1>2. CASE failure(Verdict)
  BY <1>1, <1>2, FailureKept, VerdictIs
<1>3. CASE /\ c' = [c EXCEPT !.op = "READ"] /\ Ask("READ", NoStatus)
           /\ tasks' = tasks \ {"read"} /\ UNCHANGED <<calls, word>>
  <2> DEFINE q == [conn |-> c.conn, op |-> "READ", msg |-> NoStatus]
  <2>1. /\ c' \in Client /\ c'.conn = c.conn /\ c'.op = "READ" /\ c'.len = c.len
        /\ c'.frame = c.frame /\ c'.base = c.base /\ c'.state = c.state
    BY <1>0, <1>3 DEF TypeOK, Client
  <2>2. Asked = {} /\ Answered = {}
    BY <1>1, Idle
  <2>3. Answered' = {}
    BY <1>3, <2>1, <2>2 DEF Answered
  <2>4. "bond" \notin tasks /\ (c.base # NoStatus => c.len # 0)
    BY <1>0, <1>1 DEF ClientInv
  <2>5. ClientInv'
    BY <1>0, <1>1, <1>3, <2>1, <2>4 DEF ClientInv, Fresh
  <2>6. air' = air \cup {q} /\ q \in Request /\ q.conn = c.conn /\ q.op = "READ"
    BY <1>0, <1>1, <1>3 DEF Ask, TypeOK, Client, Request
  <2> HIDE DEF q
  <2>7. tasks' \subseteq TaskName
    BY <1>0, <1>3 DEF TypeOK, TaskName
  <2>8. /\ (Begun' => Watching) /\ (Acked' => Acked)
        /\ (commitUncertain => commitUncertain')
    BY <1>0, <1>1, <2>1 DEF Watching, Begun, Acked, commitUncertain, Type
  <2>9. QED
    BY <1>1, <1>3, <2>1, <2>2, <2>3, <2>5, <2>6, <2>7, <2>8, TurnKept
<1>4. QED
  BY <1>1, <1>2, <1>3 DEF readStatus

LEMMA TransferStep ==
    ASSUME SyncInv, NEW len \in 1 .. MaxLength, transfer(len)
    PROVE  SyncInv'
<1>0. TypeOK /\ ClientInv
  BY DEF SyncInv
<1>1. /\ c.conn # 0 /\ c.base # NoStatus /\ c.len = 0 /\ c.op = "NONE" /\ "read" \notin tasks
      /\ "bond" \notin tasks /\ ~Fresh /\ UNCHANGED <<conns, link, bonded, device>>
  BY <1>0 DEF transfer, ClientInv, Fresh
<1>2. CASE failure("stopped")
  BY <1>1, <1>2, FailureKept, NotBegun
<1> DEFINE r == [c EXCEPT !.len = len, !.frame = 0, !.state = "SENDING"]
<1>3. CASE writeFrame(r) /\ tasks' = tasks \cup {"watchdog"} /\ UNCHANGED <<calls, word>>
  <2> DEFINE q == [conn |-> c.conn, op |-> "WRITE", msg |-> Frame(0, len)]
  <2>1. /\ r \in Client /\ r.conn = c.conn /\ r.len = len /\ r.frame = 0
        /\ r.base = c.base /\ r.state = "SENDING"
    <3>1. len \in 0 .. MaxLength /\ 0 \in Nat
      OBVIOUS
    <3>2. QED
      BY <1>0, <3>1 DEF TypeOK, Client
  <2>2. c' = [r EXCEPT !.op = "WRITE"] /\ air' = air \cup {q}
    BY <1>3, <2>1 DEF writeFrame, Ask
  <2> HIDE DEF r
  <2>3. /\ c' \in Client /\ c'.conn = c.conn /\ c'.op = "WRITE" /\ c'.len = len
        /\ c'.frame = 0 /\ c'.base = c.base /\ c'.state = "SENDING"
    BY <2>1, <2>2 DEF Client
  <2>4. Asked = {} /\ Answered = {}
    BY <1>1, Idle
  <2>5. Answered' = {}
    BY <1>3, <2>3, <2>4 DEF Answered
  <2>6. ClientInv'
    BY <1>0, <1>1, <1>3, <2>3 DEF ClientInv
  <2>7. /\ q \in Request /\ q.conn = c.conn /\ q.op = "WRITE" /\ q.msg.type = "BEGIN"
        /\ q.msg = Frame(c'.frame, c'.len)
    <3>1. Frame(0, len) \in Message /\ Frame(0, len).type = "BEGIN"
      BY FrameIsMessage
    <3>2. c.conn \in 1 .. conns
      BY <1>0, <1>1 DEF TypeOK, Client
    <3>3. QED
      BY <2>3, <3>1, <3>2 DEF Request
  <2> HIDE DEF q
  <2>8. tasks' \subseteq TaskName
    BY <1>0, <1>3 DEF TypeOK, TaskName
  <2>9. ~Begun' /\ ~Acked' /\ ~commitUncertain
    BY <1>1, <2>3, <2>5 DEF Begun, Acked, commitUncertain
  <2>10. QED
    BY <1>1, <1>3, <2>2, <2>3, <2>4, <2>5, <2>6, <2>7, <2>8, <2>9, TurnKept
<1>4. QED
  BY <1>2, <1>3 DEF transfer

\* The answer to a read, of a status the client makes something of.
LEMMA ReceivedStep ==
    ASSUME SyncInv, NEW x \in calls, received(x)
    PROVE  SyncInv'
<1>0. TypeOK /\ ClientInv /\ WatchInv /\ OneRequest
  BY DEF SyncInv
<1>1. /\ x.kind = "READ" /\ current(x.conn) /\ x.conn = c.conn
      /\ UNCHANGED <<conns, link, bonded, device>>
  BY DEF received, Handle, current
<1>2. /\ c.op = "READ" /\ Asked = {} /\ ~Fresh /\ c.conn # 0 /\ Answered = {x}
      /\ \A C : C = calls \ {x} => {y \in C : y.conn = c.conn /\ y.kind \notin {"UP", "DOWN"}} = {}
  BY <1>1, TheAnswer
<1>3. "bond" \notin tasks /\ "read" \notin tasks
  BY <1>0, <1>2 DEF ClientInv
<1>4. CASE ~x.ok
  <2>1. failure(Verdict)
    BY <1>2, <1>4 DEF received
  <2>2. QED
    BY <1>1, <2>1, FailureKept, VerdictIs
<1> DEFINE s == x.status
<1>5. x.ok => x \in ReadOk /\ s \in DeviceStatus
  BY <1>0, <1>1, <1>2 DEF WatchInv, ReadOk
<1>6. CASE x.ok /\ c.len = 0
  <2>1. /\ c' = [c EXCEPT !.op = "NONE", !.base = s, !.state = "READY"]
        /\ Rest(x) /\ Keep /\ UNCHANGED air
    BY <1>2, <1>6 DEF received
  <2>2. /\ c' \in Client /\ c'.conn = c.conn /\ c'.op = "NONE" /\ c'.len = 0
        /\ c'.state = "READY"
    BY <1>0, <1>5, <1>6, <2>1 DEF TypeOK, Client
  <2>3. word' = word /\ calls' = calls \ {x} /\ air' = air /\ tasks' = tasks
    BY <2>1 DEF Rest, Keep
  <2>4. Answered' = {}
    BY <1>2, <2>2, <2>3 DEF Answered
  <2>5. ClientInv'
    BY <1>0, <1>1, <1>2, <1>3, <2>2, <2>3 DEF ClientInv
  <2>6. tasks' \subseteq TaskName
    BY <1>0, <2>3 DEF TypeOK, TaskName
  <2>7. ~Begun' /\ ~Acked' /\ ~commitUncertain
    BY <1>6, <2>2 DEF Begun, Acked, commitUncertain
  <2>8. QED
    BY <1>1, <1>2, <1>5, <1>6, <2>2, <2>3, <2>4, <2>5, <2>6, <2>7, TurnKept
<1> DEFINE r == [c EXCEPT !.op = "NONE", !.changed = @ \/ (Type = "BEGIN" /\ s # c.base)]
           next == [r EXCEPT !.frame = @ + 1, !.changed = FALSE, !.old = FALSE]
<1>7. CASE x.ok /\ c.len # 0
  <2>1. /\ Decided(s) = "FAIL" => failure("unsure")
        /\ Decided(s) = "DONE" => Closed("COMPLETE", {}) /\ Told("complete")
        /\ Decided(s) = "POLL" =>
              c' = r /\ tasks' = tasks \cup {"read"} /\ Rest(x) /\ UNCHANGED air
        /\ Decided(s) = "SEND_NEXT" =>
              \/ writeFrame(next) /\ Rest(x) /\ Keep
              \/ failure(IF Frame(next.frame, c.len).type = "COMMIT" THEN "unsure" ELSE "stopped")
    BY <1>2, <1>7 DEF received
  <2>2. c \in Client /\ c.frame \in Nat /\ c.len \in 0 .. MaxLength
    BY <1>0 DEF TypeOK, Client
  <2>3. /\ r \in Client /\ r.conn = c.conn /\ r.len = c.len /\ r.frame = c.frame
        /\ r.base = c.base /\ r.state = c.state /\ r.op = "NONE"
    <3>1. (c.changed \/ (Type = "BEGIN" /\ s # c.base)) \in BOOLEAN
      OBVIOUS
    <3>2. PICK b \in BOOLEAN : r = [c EXCEPT !.op = "NONE", !.changed = b]
      BY <3>1
    <3> HIDE DEF r
    <3>3. QED
      BY <2>2, <3>2 DEF Client
  <2> HIDE DEF r
  <2>4. /\ next \in Client /\ next.conn = c.conn /\ next.len = c.len
        /\ next.frame = c.frame + 1 /\ next.base = c.base /\ next.state = c.state
    <3>1. c.frame + 1 \in Nat
      BY <2>2
    <3>2. QED
      BY <2>2, <2>3, <3>1 DEF Client
  <2> HIDE DEF next
  <2>5. CASE Decided(s) = "FAIL"
    BY <1>1, <2>1, <2>5, FailureKept
  <2>6. CASE Decided(s) = "DONE"
    <3>1. Type = "COMMIT" /\ s.state = "COMMITTED"
      BY <2>6, DecidedIs
    <3>2. Begun
      BY <1>7, <2>2, <3>1, FrameIsMessage DEF Type, Begun
    <3>3. c.conn \in durable
      BY <1>0, <1>5, <1>7, <3>1, <3>2 DEF WatchInv
    <3>4. QED
      BY <1>1, <2>1, <2>6, <3>3, ClosedKept
  <2>7. CASE Decided(s) = "POLL"
    <3>1. /\ c' \in Client /\ c'.conn = c.conn /\ c'.op = "NONE" /\ c'.len = c.len
          /\ c'.frame = c.frame /\ c'.base = c.base /\ c'.state = c.state
      BY <2>1, <2>3, <2>7
    <3>2. QED
      BY <1>1, <1>2, <1>7, <2>1, <2>7, <3>1, ReadLater
  <2>8. CASE Decided(s) = "SEND_NEXT"
    <3>1. Begun \/ Open(s)
      BY <1>7, <2>2, <2>8, DecidedIs, FrameIsMessage DEF Begun, Type
    <3>2. Watching /\ Acked
      BY <1>2, <1>5, <1>7, <3>1 DEF Watching, Acked
    <3>3. CASE failure(IF Frame(next.frame, c.len).type = "COMMIT" THEN "unsure" ELSE "stopped")
      <4>1. Frame(next.frame, c.len).type # "COMMIT" => ~commitUncertain
        BY <2>2, <2>4, FrameIsMessage DEF commitUncertain, Type
      <4>2. QED
        BY <1>1, <3>3, <4>1, FailureKept
    <3>4. CASE writeFrame(next) /\ Rest(x) /\ Keep
      <4> DEFINE q == [conn |-> c.conn, op |-> "WRITE", msg |-> Frame(c.frame + 1, c.len)]
      <4>1. c' = [next EXCEPT !.op = "WRITE"] /\ air' = air \cup {q}
        BY <2>4, <3>4 DEF writeFrame, Ask
      <4>2. /\ c' \in Client /\ c'.conn = c.conn /\ c'.op = "WRITE" /\ c'.len = c.len
            /\ c'.frame = c.frame + 1 /\ c'.base = c.base /\ c'.state = c.state
        BY <2>4, <4>1 DEF Client
      <4>3. word' = word /\ calls' = calls \ {x} /\ tasks' = tasks
        BY <3>4 DEF Rest, Keep
      <4>4. Answered' = {}
        BY <1>2, <4>2, <4>3 DEF Answered
      <4>5. ClientInv'
        BY <1>0, <1>1, <1>2, <1>3, <1>7, <4>2, <4>3 DEF ClientInv
      <4>6. Frame(c.frame + 1, c.len) \in Message
        BY <2>2, FrameIsMessage
      <4>7. /\ q \in Request /\ q.conn = c.conn /\ q.op = "WRITE"
            /\ q.msg = Frame(c.frame + 1, c.len)
        <5>1. c.conn \in 1 .. conns
          BY <1>0, <1>2 DEF TypeOK, Client
        <5>2. QED
          BY <4>6, <5>1 DEF Request
      <4> HIDE DEF q
      <4>8. q.msg = Frame(c'.frame, c'.len) /\ (q.msg.type = "COMMIT" => commitUncertain')
        BY <1>7, <4>2, <4>7 DEF commitUncertain, Type
      <4>9. commitUncertain => commitUncertain'
        BY <2>2, <4>2, FrameIsMessage DEF commitUncertain, Type
      <4>10. tasks' \subseteq TaskName
        BY <1>0, <4>3 DEF TypeOK, TaskName
      <4>11. QED
        BY <1>1, <1>2, <3>2, <4>1, <4>2, <4>3, <4>4, <4>5, <4>7, <4>8, <4>9, <4>10, TurnKept
    <3>5. QED
      BY <2>1, <2>8, <3>3, <3>4
  <2>9. QED
    BY <2>5, <2>6, <2>7, <2>8, DecidedIs
<1>8. QED
  BY <1>4, <1>6, <1>7

LEMMA TimeStep ==
    ASSUME SyncInv, watchdog \/ timeout
    PROVE  SyncInv'
<1>1. UNCHANGED <<conns, link, bonded, device>>
  BY DEF watchdog, timeout
<1>2. CASE watchdog
  BY <1>1, <1>2, FailureKept, VerdictIs DEF watchdog
<1>3. CASE timeout
  <2>1. c.len = 0
    BY <1>3 DEF timeout, SyncInv, ClientInv
  <2>2. QED
    BY <1>1, <1>3, <2>1, FailureKept, NotBegun DEF timeout
<1>4. QED
  BY <1>2, <1>3

LEMMA GrowsOldStep ==
    ASSUME SyncInv, GrowsOld
    PROVE  SyncInv'
<1>0. /\ TypeOK /\ ClientInv /\ OneRequest /\ LinkInv /\ DeviceInv
      /\ NewLinkInv /\ StaleInv /\ WatchInv /\ CommitInv /\ DoneIsCommitted
  BY DEF SyncInv
<1>1. /\ c' \in Client /\ c'.conn = c.conn /\ c'.op = c.op /\ c'.len = c.len
      /\ c'.frame = c.frame /\ c'.base = c.base /\ c'.state = c.state
  BY <1>0 DEF GrowsOld, TypeOK, Client
<1>2. UNCHANGED <<tasks, conns, word, calls, air, link, bonded, t, by, queue, call, gone,
                  abort, durable, lost>>
  BY DEF GrowsOld, radio, device
<1>3. TypeOK' /\ ClientInv'
  BY <1>0, <1>1, <1>2 DEF TypeOK, ClientInv, Client, Posted, Request, StoreCall, Fresh
<1>4. Asked' = Asked /\ Answered' = Answered
  BY <1>1, <1>2 DEF Asked, Answered
<1>5. OneRequest' /\ WatchInv' /\ StaleInv' /\ NewLinkInv'
  BY <1>0, <1>1, <1>2, <1>4, QuietKept DEF OneRequest
<1>6. LinkInv'
  BY <1>0, <1>1, <1>2 DEF LinkInv, Fresh, Up, Callback
<1>7. DeviceInv' /\ CommitInv' /\ DoneIsCommitted'
  BY <1>0, <1>1, <1>2 DEF DeviceInv, CommitInv, DoneIsCommitted, CommitSent, commitUncertain, Type
<1>8. QED
  BY <1>3, <1>5, <1>6, <1>7 DEF SyncInv

-----------------------------------------------------------------------------
(* The link's steps *)

LEMMA ConnectsStep ==
    ASSUME SyncInv, NEW a \in air, Connects(a)
    PROVE  SyncInv'
<1>0. /\ TypeOK /\ ClientInv /\ OneRequest /\ LinkInv /\ DeviceInv
      /\ NewLinkInv /\ StaleInv /\ WatchInv /\ CommitInv /\ DoneIsCommitted
  BY DEF SyncInv
<1>1. /\ a.op = "CONNECT" /\ a.conn = c.conn /\ Fresh /\ Up \notin calls
      /\ air' = air \ {a} /\ a.conn \in 1 .. conns /\ conns \in Nat
      /\ UNCHANGED <<c, tasks, conns, word, bonded, t, by, queue, call, gone, abort, durable, lost>>
  BY <1>0, RequestIs DEF Connects, LinkInv, client, device, TypeOK
<1>2. PICK x : /\ calls' = calls \cup {x} /\ x \in Posted /\ x.conn = c.conn
               /\ \/ /\ x = Up /\ link.conn = 0
                     /\ link' = [conn |-> c.conn, secure |-> FALSE, ended |-> FALSE]
                  \/ x.kind = "DOWN" /\ link' = link
  <2>1. CASE /\ link = NoLink /\ link' = [NoLink EXCEPT !.conn = a.conn]
             /\ calls' = calls \cup {Callback(a.conn, "UP", TRUE, NoStatus)}
    <3>1. Up \in Posted /\ Up.conn = c.conn
      BY <1>1 DEF Up, Callback, Posted
    <3>2. link.conn = 0 /\ link' = [conn |-> a.conn, secure |-> FALSE, ended |-> FALSE]
      BY <2>1 DEF NoLink
    <3>3. QED
      BY <1>1, <2>1, <3>1, <3>2 DEF Up
  <2>2. CASE calls' = calls \cup {Callback(a.conn, "DOWN", FALSE, NoStatus)} /\ link' = link
    <3> DEFINE x == Callback(a.conn, "DOWN", FALSE, NoStatus)
    <3>1. x \in Posted /\ x.conn = c.conn /\ x.kind = "DOWN"
      BY <1>1 DEF Callback, Posted
    <3>2. QED
      BY <2>2, <3>1
  <2>3. QED
    BY <2>1, <2>2 DEF Connects
<1>3. Up' = Up /\ Up.conn = c.conn /\ Up.kind = "UP" /\ Fresh'
  BY <1>1 DEF Up, Callback, Fresh
<1>4. link' \in [conn : 0 .. conns, secure : BOOLEAN, ended : BOOLEAN]
  <2>1. c.conn \in 0 .. conns /\ link \in [conn : 0 .. conns, secure : BOOLEAN, ended : BOOLEAN]
    BY <1>0 DEF TypeOK, Client
  <2>2. [conn |-> c.conn, secure |-> FALSE, ended |-> FALSE]
          \in [conn : 0 .. conns, secure : BOOLEAN, ended : BOOLEAN]
    BY <2>1
  <2>3. QED
    BY <1>2, <2>1, <2>2
<1>5. TypeOK' /\ ClientInv'
  BY <1>0, <1>1, <1>2, <1>4 DEF TypeOK, ClientInv, Client, Posted, Request, StoreCall, Fresh
<1>6. Asked' = Asked /\ Answered' = Answered
  BY <1>1, <1>2, <1>3 DEF Asked, Answered
<1>7. OneRequest' /\ WatchInv' /\ StaleInv'
  BY <1>0, <1>1, <1>2, <1>6, QuietKept DEF OneRequest
<1>8. \A b \in air' : b.op # "CONNECT" \/ Up \notin calls'
  <2>1. CASE x = Up
    <3>1. \A b \in air : b.op = "CONNECT" => b = a
      <4>1. \A b \in air : b.op = "CONNECT" => b.conn = c.conn /\ b \in Request
        BY <1>0, RequestIs DEF LinkInv
      <4>2. \A b \in Request : b.op = "CONNECT" =>
               b = [conn |-> b.conn, op |-> "CONNECT", msg |-> NoStatus]
        BY DEF Request
      <4>3. QED
        BY <1>1, <4>1, <4>2
    <3>2. QED
      BY <1>1, <3>1
  <2>2. CASE x.kind = "DOWN"
    BY <1>1, <1>2, <1>3, <2>2
  <2>3. QED
    BY <1>2, <2>1, <2>2
<1>9. LinkInv'
  <2>1. link'.conn = 0 => link' = NoLink
    BY <1>0, <1>1, <1>2 DEF LinkInv
  <2>2. \A b \in air' : b.op = "CONNECT" => b.conn = c.conn
    BY <1>0, <1>1 DEF LinkInv
  <2>3. \A y \in calls' : y.conn = c.conn /\ y.kind = "UP" => y = Up
    BY <1>0, <1>2, <1>3 DEF LinkInv
  <2>4. Up \in calls' => link'.conn = c.conn
    BY <1>1, <1>2, <1>3
  <2>5. QED
    BY <1>1, <1>3, <1>8, <2>1, <2>2, <2>3, <2>4 DEF LinkInv
<1>10. DeviceInv'
  <2>1. ~link'.secure \/ link' = link
    BY <1>2
  <2>2. QED
    BY <1>0, <1>1, <2>1 DEF DeviceInv
<1>11. CommitInv' /\ DoneIsCommitted'
  BY <1>0, <1>1 DEF CommitInv, DoneIsCommitted, CommitSent, commitUncertain, Type
<1>12. NewLinkInv'
  <2>1. CASE link' = link
    BY <1>1, <1>6, <2>1, QuietKept
  <2>2. CASE x = Up /\ link'.conn = c.conn
    <3>1. Asked' = {} /\ Answered' = {} /\ c.base = NoStatus
      BY <1>1, <1>6, Idle DEF Fresh
    <3>2. \A b \in air' : b.op # "CONNECT" /\ b.conn # c.conn
      BY <1>1, <1>2, <1>3, <1>8, <2>2, <3>1 DEF Asked
    <3>3. Unheard(c.conn)'
      BY <1>0, <1>1 DEF NewLinkInv, Unheard
    <3>4. QED
      BY <1>1, <2>2, <3>1, <3>2, <3>3 DEF NewLinkInv, ReadOk
  <2>3. QED
    BY <1>2, <2>1, <2>2
<1>13. QED
  BY <1>5, <1>7, <1>9, <1>10, <1>11, <1>12 DEF SyncInv

\* The session of a link begins, or ends before the link: of a connection that
\* has had no session the device has nothing yet.
LEMMA SecuresStep ==
    ASSUME SyncInv, Bonds \/ Secures \/ Closes
    PROVE  SyncInv'
<1>0. /\ TypeOK /\ ClientInv /\ OneRequest /\ LinkInv /\ DeviceInv
      /\ NewLinkInv /\ StaleInv /\ WatchInv /\ CommitInv /\ DoneIsCommitted
  BY DEF SyncInv
<1>1. /\ UNCHANGED <<c, tasks, conns, word, calls, air, t, by, queue, call, gone, durable, lost>>
      /\ bonded' \in BOOLEAN /\ abort' \in BOOLEAN
      /\ link = NoLink => link' = link
      /\ \/ link' = link
         \/ link' = [link EXCEPT !.secure = TRUE] /\ link # NoLink /\ Secures
         \/ link' = [link EXCEPT !.secure = FALSE, !.ended = TRUE]
  BY <1>0 DEF Bonds, Secures, Closes, client, device, TypeOK
<1>2. /\ link' \in [conn : 0 .. conns, secure : BOOLEAN, ended : BOOLEAN]
      /\ link'.conn = link.conn
      /\ \/ link' = link
         \/ link'.secure /\ NewLink /\ call = NoCall
         \/ ~link'.secure /\ link'.ended
  <2>1. link \in [conn : 0 .. conns, secure : BOOLEAN, ended : BOOLEAN]
    BY <1>0 DEF TypeOK
  <2>2. Secures /\ link # NoLink => NewLink /\ call = NoCall
    BY <1>0 DEF Secures, NewLink, LinkInv
  <2>3. QED
    BY <1>1, <2>1, <2>2
<1>3. TypeOK' /\ ClientInv'
  BY <1>0, <1>1, <1>2 DEF TypeOK, ClientInv, Client, Posted, Request, StoreCall, Fresh
<1>4. Asked' = Asked /\ Answered' = Answered
  BY <1>1 DEF Asked, Answered
<1>5. OneRequest' /\ WatchInv'
  BY <1>0, <1>1, <1>4, QuietKept DEF OneRequest
<1>6. LinkInv'
  BY <1>0, <1>1, <1>2 DEF LinkInv, Fresh, Up, Callback
<1>7. DeviceInv'
  BY <1>0, <1>1, <1>2 DEF DeviceInv
<1>8. CommitInv' /\ DoneIsCommitted'
  BY <1>0, <1>1 DEF CommitInv, DoneIsCommitted, CommitSent, commitUncertain, Type
<1>9. StaleInv'
  <2>1. CASE link' = link \/ ~link'.secure
    BY <1>1, <1>4, <2>1, QuietKept
  <2>2. CASE NewLink
    <3>1. c.conn = link.conn => ~Acked
      BY <1>0, <2>2 DEF NewLinkInv, ClientInv, Acked
    <3>2. Acked' <=> Acked
      BY <1>1, <1>4, QuietKept
    <3>3. /\ \A i \in DOMAIN queue' : queue'[i].conn # link'.conn
          /\ \A a \in air' : a.conn = link'.conn => a.op # "WRITE"
      BY <1>0, <1>1, <1>2, <2>2 DEF NewLinkInv, Unheard
    <3>4. QED
      BY <1>1, <1>2, <3>1, <3>2, <3>3 DEF StaleInv
  <2>3. QED
    BY <1>2, <2>1, <2>2
<1>10. NewLinkInv'
  <2>1. CASE link' = link
    BY <1>1, <1>4, <2>1, QuietKept
  <2>2. CASE link'.secure \/ link'.ended
    BY <1>0, <1>1, <1>2, <2>2 DEF NewLinkInv, NewLink, Unheard
  <2>3. QED
    BY <1>2, <2>1, <2>2
<1>11. QED
  BY <1>3, <1>5, <1>6, <1>7, <1>8, <1>9, <1>10 DEF SyncInv

LEMMA DropsStep ==
    ASSUME SyncInv, Drops
    PROVE  SyncInv'
<1>0. /\ TypeOK /\ ClientInv /\ OneRequest /\ LinkInv /\ DeviceInv
      /\ NewLinkInv /\ StaleInv /\ WatchInv /\ CommitInv /\ DoneIsCommitted
  BY DEF SyncInv
<1>1. /\ UNCHANGED <<c, tasks, conns, word, bonded, t, by, queue, call, durable>>
      /\ link # NoLink /\ link' = NoLink /\ link'.conn = 0 /\ ~link'.secure
      /\ air' \subseteq air /\ gone' \subseteq gone \cup {link.conn} /\ abort' = TRUE /\ lost' = FALSE
  BY DEF Drops, client, NoLink
<1>2. link.conn \in 1 .. conns /\ link.conn # 0 /\ conns \in Nat
  BY <1>0, <1>1 DEF TypeOK, LinkInv
<1>3. PICK x : /\ x \in Posted /\ x.kind = "DOWN"
               /\ calls' \subseteq calls \cup {x} /\ calls \subseteq calls'
  <2> DEFINE x == Callback(link.conn, "DOWN", TRUE, NoStatus)
  <2>1. x \in Posted /\ x.kind = "DOWN"
    BY <1>2 DEF Callback, Posted
  <2>2. calls' \subseteq calls \cup {x} /\ calls \subseteq calls'
    BY DEF Drops
  <2> HIDE DEF x
  <2>3. QED
    BY <2>1, <2>2
<1>4. TypeOK' /\ ClientInv'
  <2>1. link' \in [conn : 0 .. conns, secure : BOOLEAN, ended : BOOLEAN]
    BY <1>1, <1>2 DEF NoLink
  <2>2. calls' \subseteq Posted' /\ air' \subseteq Request' /\ c' \in Client' /\ gone' \subseteq 1 .. conns
    <3>1. Posted' = Posted /\ Request' = Request /\ Client' = Client
      BY <1>1 DEF Posted, Request, Client
    <3>2. QED
      BY <1>0, <1>1, <1>2, <1>3, <3>1 DEF TypeOK
  <2>3. TypeOK'
    BY <1>0, <1>1, <2>1, <2>2 DEF TypeOK, StoreCall
  <2>4. ClientInv'
    BY <1>0, <1>1 DEF ClientInv, Fresh
  <2>5. QED
    BY <2>3, <2>4
<1>5. Asked' \subseteq Asked /\ Answered' = Answered
  BY <1>1, <1>3 DEF Asked, Answered
<1>6. OneRequest' /\ WatchInv' /\ StaleInv'
  BY <1>0, <1>1, <1>5, QuietKept DEF OneRequest
<1>7. Up' = Up /\ (Up \in calls' <=> Up \in calls) /\ Fresh' = Fresh
  BY <1>1, <1>3 DEF Up, Callback, Fresh
<1>8. LinkInv'
  BY <1>0, <1>1, <1>3, <1>7 DEF LinkInv
<1>9. DeviceInv'
  BY <1>0, <1>1 DEF DeviceInv
<1>10. CommitInv' /\ DoneIsCommitted'
  BY <1>0, <1>1 DEF CommitInv, DoneIsCommitted, CommitSent, commitUncertain, Type
<1>11. NewLinkInv'
  <2>1. \A a \in air' : a.conn # 0
    BY <1>0, <1>1, RequestIs
  <2>2. QED
    BY <1>0, <1>1, <2>1 DEF NewLinkInv, NewLink, Unheard
<1>12. QED
  BY <1>4, <1>6, <1>8, <1>9, <1>10, <1>11 DEF SyncInv

-----------------------------------------------------------------------------
(* The device's steps *)

LEMMA QueueSteps ==
    ASSUME NEW T, NEW q \in Seq(T), NEW x \in T
    PROVE  /\ Append(q, x) \in Seq(T)
           /\ \A i \in DOMAIN Append(q, x) :
                 Append(q, x)[i] = x \/ \E j \in DOMAIN q : Append(q, x)[i] = q[j]
           /\ q # <<>> =>
                /\ 1 \in DOMAIN q /\ Head(q) = q[1] /\ Tail(q) \in Seq(T)
                /\ \A i \in DOMAIN Tail(q) : \E j \in DOMAIN q : Tail(q)[i] = q[j]
<1>1. Len(q) \in Nat /\ DOMAIN q = 1 .. Len(q)
  BY LenProperties
<1>2. /\ Append(q, x) \in Seq(T) /\ DOMAIN Append(q, x) = 1 .. Len(q) + 1
      /\ \A i \in 1 .. Len(q) : Append(q, x)[i] = q[i]
      /\ Append(q, x)[Len(q) + 1] = x
  BY AppendProperties, LenProperties
<1>3. ASSUME q # <<>>
      PROVE  /\ 1 \in DOMAIN q /\ Head(q) = q[1] /\ Tail(q) \in Seq(T)
             /\ \A i \in DOMAIN Tail(q) : \E j \in DOMAIN q : Tail(q)[i] = q[j]
  <2>1. Len(q) \in Nat \ {0}
    BY <1>3, EmptySeq
  <2>2. /\ Tail(q) \in Seq(T) /\ Len(Tail(q)) = Len(q) - 1
        /\ \A i \in 1 .. Len(Tail(q)) : Tail(q)[i] = q[i + 1]
    BY <1>3, HeadTailProperties
  <2>3. DOMAIN Tail(q) = 1 .. Len(Tail(q))
    BY <2>2, LenProperties
  <2>4. ASSUME NEW i \in DOMAIN Tail(q) PROVE \E j \in DOMAIN q : Tail(q)[i] = q[j]
    <3>1. i + 1 \in DOMAIN q /\ Tail(q)[i] = q[i + 1]
      BY <1>1, <2>1, <2>2, <2>3
    <3>2. QED
      BY <3>1
  <2>5. 1 \in DOMAIN q /\ Head(q) = q[1]
    BY <1>1, <2>1
  <2>6. QED
    BY <2>2, <2>4, <2>5
<1>4. ASSUME NEW i \in DOMAIN Append(q, x)
      PROVE  Append(q, x)[i] = x \/ \E j \in DOMAIN q : Append(q, x)[i] = q[j]
  <2>1. i = Len(q) + 1 \/ i \in DOMAIN q
    BY <1>1, <1>2
  <2>2. QED
    BY <1>1, <1>2, <2>1
<1>5. QED
  BY <1>2, <1>3, <1>4

\* A BEGIN that is queued stays so when a message is added, and when one is
\* taken that is another connection's.
LEMMA BeginStays ==
    ASSUME NEW T, queue \in Seq(T), NEW n, NEW i \in Nat
    PROVE  /\ \A x \in T : queue' = Append(queue, x) /\ i <= Len(queue) + 1 /\ BeginQueued(n, i) =>
                 BeginQueued(n, i)' /\ BeginQueued(n, Len(queue) + 1)'
           /\ queue # <<>> /\ queue' = Tail(queue) /\ queue[1].conn # n
                 /\ i <= Len(queue) /\ BeginQueued(n, i + 1) => BeginQueued(n, i)'
<1>1. Len(queue) \in Nat
  BY LenProperties
<1>2. ASSUME NEW x \in T, queue' = Append(queue, x), i <= Len(queue) + 1, BeginQueued(n, i)
      PROVE  BeginQueued(n, i)' /\ BeginQueued(n, Len(queue) + 1)'
  <2>1. PICK j \in 1 .. i - 1 : queue[j].conn = n /\ queue[j].msg.type = "BEGIN"
    BY <1>2 DEF BeginQueued
  <2>2. \A k \in 1 .. Len(queue) : queue'[k] = queue[k]
    BY <1>2, AppendProperties
  <2>3. queue'[j] = queue[j]
    BY <1>1, <1>2, <2>2
  <2>4. Len(queue)' = Len(queue) + 1
    BY <1>2, AppendProperties
  <2>5. j \in 1 .. (Len(queue)' + 1) - 1
    BY <1>1, <1>2, <2>4
  <2>6. QED
    BY <2>1, <2>3, <2>5 DEF BeginQueued
<1>3. ASSUME queue # <<>>, queue' = Tail(queue), queue[1].conn # n, i <= Len(queue),
             BeginQueued(n, i + 1)
      PROVE  BeginQueued(n, i)'
  <2>1. PICK j \in 1 .. (i + 1) - 1 : queue[j].conn = n /\ queue[j].msg.type = "BEGIN"
    BY <1>3 DEF BeginQueued
  <2>2. /\ Len(queue') = Len(queue) - 1
        /\ \A k \in 1 .. Len(queue') : queue'[k] = queue[k + 1]
    BY <1>3, HeadTailProperties
  <2>3. j - 1 \in 1 .. Len(queue') /\ j - 1 \in 1 .. i - 1 /\ (j - 1) + 1 = j
    BY <1>1, <1>3, <2>1, <2>2
  <2>4. queue'[j - 1] = queue[j]
    BY <2>2, <2>3
  <2>5. QED
    BY <2>1, <2>3, <2>4 DEF BeginQueued
<1>4. QED
  BY <1>2, <1>3

\* What a read answers is the transfer's status at that time.
LEMMA AnswersStep ==
    ASSUME SyncInv, NEW a \in air, Answers(a)
    PROVE  SyncInv'
<1>0. /\ TypeOK /\ ClientInv /\ OneRequest /\ LinkInv /\ DeviceInv
      /\ NewLinkInv /\ StaleInv /\ WatchInv /\ CommitInv /\ DoneIsCommitted
  BY DEF SyncInv
<1>1. /\ a \in Request /\ a.conn = link.conn /\ a.conn \in 1 .. conns /\ a.op # "CONNECT" /\ a.op # "NONE"
      /\ a.op \in {"DISCOVER", "MTU", "READ", "WRITE"} /\ air' = air \ {a}
      /\ UNCHANGED <<c, tasks, conns, word, link, bonded, t, by, call, gone, abort, durable, lost>>
  BY <1>0, RequestIs DEF Answers, client
<1> DEFINE m == [conn |-> a.conn, msg |-> a.msg]
           S == [conn : 1 .. conns, msg : Message]
<1>2. PICK x : /\ calls' = calls \cup {x} /\ x.conn = a.conn /\ x.kind = a.op
               /\ x.ok \in BOOLEAN
               /\ x.status = NoStatus \/ x.status = Status(t)
               /\ a.op \in {"READ", "WRITE"} /\ x.ok => link.secure
               /\ a.op = "READ" /\ x.ok => x.status = Status(t)
               /\ x = [conn |-> x.conn, kind |-> x.kind, ok |-> x.ok, status |-> x.status]
               /\ \/ queue' = queue /\ ~(a.op = "WRITE" /\ x.ok)
                  \/ a.op = "WRITE" /\ queue' = Append(queue, m) /\ link.secure
  <2>1. PICK ok \in BOOLEAN, st \in {NoStatus, Status(t)} :
           /\ calls' = calls \cup {Callback(a.conn, a.op, ok, st)}
           /\ a.op \in {"READ", "WRITE"} /\ ok => link.secure
           /\ a.op = "READ" /\ ok => st = Status(t)
           /\ \/ queue' = queue /\ ~(a.op = "WRITE" /\ ok)
              \/ a.op = "WRITE" /\ queue' = Append(queue, m) /\ link.secure
    BY <1>1 DEF Answers
  <2> DEFINE y == Callback(a.conn, a.op, ok, st)
  <2>2. /\ y.conn = a.conn /\ y.kind = a.op /\ y.ok = ok /\ y.status = st
        /\ y = [conn |-> y.conn, kind |-> y.kind, ok |-> y.ok, status |-> y.status]
    BY DEF Callback
  <2>3. calls' = calls \cup {y}
    BY <2>1
  <2> HIDE DEF y, m
  <2>4. QED
    BY <2>1, <2>2, <2>3
<1>3. Status(t) \in DeviceStatus
  BY <1>0 DEF TypeOK, TransferInv, Transfer, Status, DeviceStatus
<1>4. x \in Posted
  BY <1>1, <1>2, <1>3 DEF Posted
<1>5. queue \in Seq(S) /\ queue' \in Seq(S)
  <2>1. queue \in Seq(S)
    BY <1>0 DEF TypeOK
  <2>2. a.op = "WRITE" => m \in S
    BY <1>0, <1>1, RequestIs
  <2>3. queue' = queue \/ (a.op = "WRITE" /\ queue' = Append(queue, m))
    BY <1>2
  <2> HIDE DEF m, S
  <2>4. ASSUME m \in S PROVE Append(queue, m) \in Seq(S)
    BY <2>1, <2>4, AppendProperties
  <2>5. QED
    BY <2>1, <2>2, <2>3, <2>4
<1>6. TypeOK' /\ ClientInv'
  <2>1. calls' \subseteq Posted' /\ air' \subseteq Request' /\ c' \in Client'
    <3>1. Posted' = Posted /\ Request' = Request /\ Client' = Client
      BY <1>1 DEF Posted, Request, Client
    <3>2. QED
      BY <1>0, <1>1, <1>2, <1>4, <3>1 DEF TypeOK
  <2>2. TypeOK'
    BY <1>0, <1>1, <1>5, <2>1 DEF TypeOK, StoreCall
  <2>3. ClientInv'
    BY <1>0, <1>1 DEF ClientInv, Fresh
  <2>4. QED
    BY <2>2, <2>3
<1>7. Up' = Up /\ (Up \in calls' <=> Up \in calls) /\ Fresh' = Fresh
  BY <1>1, <1>2 DEF Up, Callback, Fresh
<1>8. OneRequest'
  <2>1. CASE a.conn = c.conn
    <3>1. a \in Asked /\ Asked = {a} /\ Answered = {} /\ c.op = a.op
      BY <1>0, <1>1, <2>1 DEF OneRequest, Asked
    <3>2. Asked' = {} /\ Answered' = {x}
      BY <1>1, <1>2, <2>1, <3>1 DEF Asked, Answered
    <3>3. QED
      BY <1>1, <1>2, <3>1, <3>2 DEF OneRequest
  <2>2. CASE a.conn # c.conn
    <3>1. Asked' = Asked /\ Answered' = Answered
      BY <1>1, <1>2, <2>2 DEF Asked, Answered
    <3>2. QED
      BY <1>0, <1>1, <3>1 DEF OneRequest
  <2>3. QED
    BY <2>1, <2>2
<1>9. LinkInv'
  BY <1>0, <1>1, <1>2, <1>7 DEF LinkInv
<1>10. DeviceInv' /\ DoneIsCommitted'
  BY <1>0, <1>1 DEF DeviceInv, DoneIsCommitted
<1>11. WatchInv'
  <2>1. \A y \in ReadOk' : y \in ReadOk \/ (y = x /\ a.op = "READ" /\ x.ok /\ a.conn = c.conn)
    BY <1>1, <1>2 DEF ReadOk, Answered
  <2>2. Status(t).state = t.state /\ (Open(Status(t)) => t.state # "COMMITTED")
    BY DEF Status, Open
  <2>3. link.secure /\ call # NoCall => by = link.conn
    BY <1>0 DEF DeviceInv
  <2>4. Begun' = Begun
    BY <1>1 DEF Begun
  <2>5. ASSUME Watching', t.state = "COMMITTED" \/ call # NoCall PROVE by = c.conn
    <3>1. CASE Watching
      BY <1>0, <2>5, <3>1 DEF WatchInv
    <3>2. CASE ~Watching
      <4>1. Open(x.status) /\ x.ok /\ a.op = "READ" /\ a.conn = c.conn
        BY <2>1, <2>4, <2>5, <3>2 DEF Watching
      <4>2. QED
        BY <1>1, <1>2, <2>2, <2>3, <2>5, <4>1
    <3>3. QED
      BY <3>1, <3>2
  <2>6. ASSUME NEW y \in ReadOk'
        PROVE  /\ y.status \in DeviceStatus
               /\ Begun /\ y.status.state = "COMMITTED" => c.conn \in durable
    <3>1. CASE y \in ReadOk
      BY <1>0, <3>1 DEF WatchInv
    <3>2. CASE y = x /\ a.op = "READ" /\ x.ok
      BY <1>0, <1>2, <1>3, <2>2, <3>2 DEF WatchInv, Watching, DeviceInv
    <3>3. QED
      BY <2>1, <3>1, <3>2
  <2>7. QED
    BY <1>1, <2>4, <2>5, <2>6 DEF WatchInv
<1>12. CommitInv'
  <2> SUFFICES ASSUME NEW n \in 1 .. conns, CommitSent(n)' PROVE CommitSent(n)
    BY <1>0, <1>1 DEF CommitInv, commitUncertain, Type
  <2>1. CASE queue' = queue
    BY <1>1, <2>1 DEF CommitSent
  <2>2. CASE a.op = "WRITE" /\ queue' = Append(queue, m)
    <3>1. m \in S /\ m.conn = a.conn /\ m.msg = a.msg
      BY <1>0, <1>1, <2>2, RequestIs
    <3> HIDE DEF m, S
    <3>2. \A i \in DOMAIN queue' : queue'[i] = m \/ \E j \in DOMAIN queue : queue'[i] = queue[j]
      BY <1>5, <2>2, <3>1, QueueSteps
    <3>3. QED
      BY <1>1, <2>2, <3>1, <3>2 DEF CommitSent
  <2>3. QED
    BY <1>2, <2>1, <2>2
<1>13. NewLinkInv'
  <2>1. \A i \in DOMAIN queue' :
           \/ \E j \in DOMAIN queue : queue'[i] = queue[j]
           \/ queue'[i].conn = link.conn /\ link.secure
    <3>1. CASE queue' = queue
      BY <3>1
    <3>2. CASE a.op = "WRITE" /\ queue' = Append(queue, m) /\ link.secure
      <4>1. m \in S /\ m.conn = link.conn
        BY <1>0, <1>1, <3>2, RequestIs
      <4> HIDE DEF m, S
      <4>2. QED
        BY <1>5, <3>2, <4>1, QueueSteps
    <3>3. QED
      BY <1>2, <3>1, <3>2
  <2>2. NewLink /\ c'.conn = link.conn => c'.base = NoStatus /\ ReadOk' = {}
    <3>1. NewLink => ReadOk' \subseteq ReadOk
      BY <1>1, <1>2 DEF NewLink, ReadOk, Answered
    <3>2. QED
      BY <1>0, <1>1, <3>1 DEF NewLinkInv
  <2>3. QED
    BY <1>1, <2>1, <2>2, NewLinkKept
<1>14. StaleInv'
  <2>1. Stale' <=> Stale
    BY <1>1 DEF Stale
  <2>2. CASE queue' = queue /\ ~(a.op = "WRITE" /\ x.ok)
    <3>1. Acked' => Acked
      BY <1>1, <1>2, <2>2 DEF Acked, Answered
    <3>2. QED
      BY <1>1, <2>1, <2>2, <3>1, StaleKept
  <2>3. CASE a.op = "WRITE" /\ queue' = Append(queue, m) /\ link.secure
    <3>1. m \in S /\ m.conn = link.conn /\ m.msg = a.msg
      BY <1>0, <1>1, <2>3, RequestIs
    <3>2. Len(queue) \in Nat /\ DOMAIN queue = 1 .. Len(queue)
      BY <1>5, LenProperties
    <3> HIDE DEF m, S
    <3>3. /\ Len(queue') = Len(queue) + 1 /\ DOMAIN queue' = 1 .. Len(queue) + 1
          /\ \A i \in 1 .. Len(queue) : queue'[i] = queue[i]
          /\ queue'[Len(queue) + 1] = m
      BY <1>5, <2>3, <3>1, AppendProperties, LenProperties
    <3>4. PICK n, k \in Nat : n = link.conn /\ k = Len(queue) + 1
      <4>1. link.conn \in Nat /\ Len(queue) + 1 \in Nat
        BY <1>0, <3>2 DEF TypeOK
      <4>2. QED
        BY <4>1
    <3>5. \A i \in Nat : i <= k /\ BeginQueued(n, i) =>
             BeginQueued(n, i)' /\ BeginQueued(n, Len(queue) + 1)'
      BY <1>5, <2>3, <3>1, <3>4, BeginStays
    <3>6. BeginQueued(n, k) => BeginQueued(n, k)' /\ BeginQueued(n, Len(queue) + 1)'
      BY <3>4, <3>5
    <3> SUFFICES ASSUME Stale
                 PROVE  /\ \A i \in DOMAIN queue' :
                              queue'[i].conn = n /\ queue'[i].msg.type # "BEGIN" =>
                                  BeginQueued(n, i)'
                        /\ \A b \in air' :
                              b.conn = n /\ b.op = "WRITE" /\ b.msg.type # "BEGIN" =>
                                  BeginQueued(n, Len(queue) + 1)'
                        /\ c.conn = n /\ Acked' => BeginQueued(n, Len(queue) + 1)'
      BY <1>1, <2>1, <3>4 DEF StaleInv, BeginQueued
    <3>7. ASSUME NEW i \in DOMAIN queue', queue'[i].conn = n, queue'[i].msg.type # "BEGIN"
          PROVE  BeginQueued(n, i)'
      <4>1. CASE i \in DOMAIN queue
        <5>1. queue[i].conn = n /\ queue[i].msg.type # "BEGIN"
          BY <3>2, <3>3, <3>7, <4>1
        <5>2. BeginQueued(n, i) /\ i \in Nat /\ i <= k
          BY <1>0, <3>2, <3>4, <4>1, <5>1 DEF StaleInv
        <5>3. QED
          BY <3>5, <5>2
      <4>2. CASE i = k
        <5>1. a.msg.type # "BEGIN" /\ a.conn = n
          BY <1>1, <3>1, <3>3, <3>4, <3>7, <4>2
        <5>2. BeginQueued(n, k)
          BY <1>0, <2>3, <3>4, <5>1 DEF StaleInv
        <5>3. QED
          BY <3>6, <4>2, <5>2
      <4>3. QED
        BY <3>2, <3>3, <3>4, <4>1, <4>2
    <3>8. ASSUME NEW b \in air', b.conn = n, b.op = "WRITE", b.msg.type # "BEGIN"
          PROVE  BeginQueued(n, Len(queue) + 1)'
      BY <1>0, <1>1, <3>4, <3>6, <3>8 DEF StaleInv
    <3>9. ASSUME c.conn = n, Acked' PROVE BeginQueued(n, Len(queue) + 1)'
      <4>1. CASE Acked
        BY <1>0, <3>4, <3>6, <3>9, <4>1 DEF StaleInv
      <4>2. CASE ~Acked
        <5>1. c.frame = 0 /\ c.len # 0
          BY <1>1, <3>9, <4>2 DEF Acked
        <5>2. a \in Asked
          BY <1>1, <3>4, <3>9 DEF Asked
        <5>3. m.msg.type = "BEGIN"
          BY <1>0, <2>3, <3>1, <5>1, <5>2 DEF OneRequest, Frame
        <5>4. k \in 1 .. (Len(queue') + 1) - 1 /\ queue'[k] = m /\ m.conn = n
          BY <3>1, <3>2, <3>3, <3>4
        <5>5. QED
          BY <5>3, <5>4 DEF BeginQueued
      <4>3. QED
        BY <4>1, <4>2
    <3>10. QED
      BY <3>7, <3>8, <3>9
  <2>4. QED
    BY <1>2, <2>2, <2>3
<1>15. QED
  BY <1>6, <1>8, <1>9, <1>10, <1>11, <1>12, <1>13, <1>14 DEF SyncInv

LEMMA TakesStep ==
    ASSUME SyncInv, Takes
    PROVE  SyncInv'
<1>0. TypeOK /\ LinkInv /\ DeviceInv /\ StaleInv
  BY DEF SyncInv
<1> DEFINE S == [conn : 1 .. conns, msg : Message]
           m == Head(queue)
           r == wallet_transfer_input(t, TRUE, m.msg)
<1>1. /\ call = NoCall /\ queue # <<>> /\ queue' = Tail(queue) /\ Worker
      /\ UNCHANGED <<gone, abort, durable, lost>>
  BY DEF Takes
<1>2. UNCHANGED <<c, tasks, conns, word, calls, air, link, bonded>>
  BY <1>1 DEF Worker, client, radio
<1>3. queue \in Seq(S)
  BY <1>0 DEF TypeOK
<1>4. /\ m = queue[1] /\ 1 \in DOMAIN queue /\ queue' \in Seq(S)
      /\ \A i \in DOMAIN queue' : \E j \in DOMAIN queue : queue'[i] = queue[j]
  <2> HIDE DEF S
  <2>1. queue[1] \in S
    BY <1>1, <1>3, EmptySeq, ElementOfSeq
  <2>2. QED
    BY <1>1, <1>3, <2>1, QueueSteps
<1>5. m.conn \in 1 .. conns /\ m.msg \in Message
  BY <1>0, <1>4, QueuedIs
<1>6. TransferInv(t) /\ t.pending = "NONE" /\ Input(t, TRUE, m.msg, r)
  BY <1>0, <1>1, <1>5, InputKept DEF TypeOK, DeviceInv
<1>7. CASE ~SessionValid(m.conn)
  <2>1. UNCHANGED <<t, by, call>>
    BY <1>7 DEF Takes
  <2>2. DeviceInv'
    BY <1>0, <1>1, <1>2, <2>1 DEF DeviceInv
  <2>3. \A n \in 1 .. conns : CommitSent(n)' => CommitSent(n)
    BY <1>1, <1>2, <1>4, <2>1 DEF CommitSent
  <2>4. StaleInv'
    <3> SUFFICES ASSUME Stale
                 PROVE  /\ \A i \in DOMAIN queue' :
                              queue'[i].conn = link.conn /\ queue'[i].msg.type # "BEGIN" =>
                                  BeginQueued(link.conn, i)'
                        /\ \A a \in air :
                              a.conn = link.conn /\ a.op = "WRITE" /\ a.msg.type # "BEGIN" =>
                                  BeginQueued(link.conn, Len(queue) + 1)'
                        /\ c.conn = link.conn /\ Acked => BeginQueued(link.conn, Len(queue) + 1)'
      BY <1>2, <2>1 DEF StaleInv, Stale, Acked, Answered
    <3> HIDE DEF m, S, r
    <3>1. PICK n, k \in Nat : n = link.conn /\ k = Len(queue)
      <4>1. link.conn \in Nat /\ Len(queue) \in Nat
        BY <1>0, <1>3, LenProperties DEF TypeOK
      <4>2. QED
        BY <4>1
    <3>2. DOMAIN queue = 1 .. k /\ k # 0
      BY <1>1, <1>3, <3>1, EmptySeq, LenProperties
    <3>3. /\ Len(queue') = k - 1 /\ DOMAIN queue' = 1 .. k - 1
          /\ \A i \in 1 .. k - 1 : queue'[i] = queue[i + 1]
      BY <1>1, <1>3, <1>4, <3>1, HeadTailProperties, LenProperties
    <3>4. queue[1].conn # n
      BY <1>4, <1>7, <3>1 DEF SessionValid, Stale
    <3>5. \A i \in Nat : i <= k /\ BeginQueued(n, i + 1) => BeginQueued(n, i)'
      BY <1>1, <1>3, <3>1, <3>4, BeginStays
    <3>6. BeginQueued(n, Len(queue) + 1) => BeginQueued(n, Len(queue) + 1)'
      <4>1. BeginQueued(n, k + 1) => BeginQueued(n, k)'
        BY <3>1, <3>5
      <4>2. Len(queue)' + 1 = k
        BY <3>3, <3>1
      <4>3. BeginQueued(n, k)' => BeginQueued(n, Len(queue) + 1)'
        BY <4>2 DEF BeginQueued
      <4>4. QED
        BY <3>1, <4>1, <4>3
    <3>7. ASSUME NEW i \in DOMAIN queue', queue'[i].conn = n, queue'[i].msg.type # "BEGIN"
          PROVE  BeginQueued(n, i)'
      <4>1. i \in Nat /\ i <= k /\ i + 1 \in DOMAIN queue /\ queue'[i] = queue[i + 1]
        BY <3>2, <3>3
      <4>2. BeginQueued(n, i + 1)
        BY <1>0, <3>1, <3>7, <4>1 DEF StaleInv
      <4>3. QED
        BY <3>5, <4>1, <4>2
    <3>8. BeginQueued(n, Len(queue) + 1)' => BeginQueued(link.conn, Len(queue) + 1)'
      BY <1>2, <3>1
    <3>9. \A i : BeginQueued(n, i)' => BeginQueued(link.conn, i)'
      BY <1>2, <3>1
    <3>10. QED
      BY <1>0, <3>1, <3>6, <3>7, <3>8, <3>9 DEF StaleInv
  <2>5. QED
    BY <1>0, <1>1, <1>4, <2>1, <2>2, <2>3, <2>4, DeviceKept DEF TypeOK
<1>8. CASE SessionValid(m.conn)
  <2>1. /\ t' = r.transfer
        /\ by' = IF r.action = "BEGIN" THEN m.conn ELSE by
        /\ call' = IF r.action \in {"BEGIN", "DATA", "COMMIT"}
                     THEN [conn |-> m.conn, action |-> r.action, marked |-> FALSE]
                     ELSE NoCall
    BY <1>8 DEF Takes
  <2>2. m.conn = link.conn /\ m.conn # 0
    BY <1>0, <1>5, <1>8 DEF SessionValid, LinkInv
  <2> HIDE DEF r, m
  <2>3. CASE r.action \in {"BEGIN", "DATA", "COMMIT"}
    <3>1. /\ TransferInv(t') /\ t'.pending = r.action /\ m.msg.type = r.action
          /\ r.action # "BEGIN" => Open(t)
          /\ t'.state # "COMMITTED"
      BY <1>6, <2>1, <2>3 DEF Input, TransferInv, Transfer, NewTransfer
    <3>2. /\ call' \in StoreCall /\ call' # NoCall
          /\ call'.conn = m.conn /\ call'.action = r.action
      <4>1. call' = [conn |-> m.conn, action |-> r.action, marked |-> FALSE]
        BY <2>1, <2>3
      <4>2. QED
        BY <1>5, <2>3, <4>1 DEF StoreCall, NoCall
    <3>3. by' = m.conn
      <4>1. CASE r.action = "BEGIN"
        BY <2>1, <4>1
      <4>2. CASE r.action # "BEGIN"
        <5>1. ~Stale
          <6>1. ~BeginQueued(link.conn, 1)
            BY DEF BeginQueued
          <6>2. QED
            BY <1>0, <1>4, <2>2, <3>1, <4>2, <6>1 DEF StaleInv, m
        <5>2. by = link.conn
          BY <1>8, <3>1, <4>2, <5>1 DEF Stale, SessionValid, Unfinished
        <5>3. QED
          BY <2>1, <2>2, <4>2, <5>2
      <4>3. QED
        BY <4>1, <4>2
    <3>4. DeviceInv'
      BY <1>1, <1>2, <2>2, <3>1, <3>2, <3>3 DEF DeviceInv
    <3>5. \A n \in 1 .. conns : CommitSent(n)' => CommitSent(n)
      BY <1>1, <1>2, <1>4, <3>1, <3>2 DEF CommitSent
    <3>6. by' = link.conn /\ link.conn # 0
      BY <2>2, <3>3
    <3>7. StaleInv'
      BY <1>2, <3>6 DEF StaleInv, Stale
    <3>8. QED
      BY <1>0, <1>1, <1>4, <3>1, <3>2, <3>4, <3>5, <3>6, <3>7, DeviceKept DEF TypeOK
  <2>4. CASE r.action \notin {"BEGIN", "DATA", "COMMIT"}
    <3>1. by' = by /\ call' = NoCall
      BY <2>1, <2>4
    <3>2. /\ TransferInv(t') /\ t'.pending = "NONE" /\ ~Unfinished(t')
          /\ t'.state = "COMMITTED" => t.state = "COMMITTED"
      <4>1. ~Retry(t)
        BY <1>6 DEF Retry, TransferInv
      <4>2. QED
        BY <1>6, <2>1, <2>4, <4>1, NewTransferKept DEF Input, Unfinished, Open, NewTransfer
    <3>3. DeviceInv'
      BY <1>0, <1>1, <1>2, <3>1, <3>2 DEF DeviceInv
    <3>4. \A n \in 1 .. conns : CommitSent(n)' => CommitSent(n)
      BY <1>1, <1>2, <1>4, <3>1 DEF CommitSent, NoCall
    <3>5. StaleInv'
      BY <3>2 DEF StaleInv, Stale
    <3>6. QED
      BY <1>0, <1>1, <1>4, <3>1, <3>2, <3>3, <3>4, <3>5, DeviceKept DEF TypeOK
  <2>5. QED
    BY <2>3, <2>4
<1>9. QED
  BY <1>7, <1>8

LEMMA CompletesStep ==
    ASSUME SyncInv, call # NoCall, NEW ok \in BOOLEAN, Completes(ok),
           durable' \in {durable, durable \cup {call.conn}},
           durable' # durable => call.action = "COMMIT",
           ok /\ call.action = "COMMIT" => call.conn \in durable'
    PROVE  SyncInv'
<1>0. TypeOK /\ DeviceInv
  BY DEF SyncInv
<1>1. /\ t' = wallet_transfer_complete(t, t.pending, ok, "STORAGE") /\ call' = NoCall
      /\ UNCHANGED <<by, queue, gone, abort, lost>> /\ Worker
      /\ t.pending = call.action /\ call.conn = by
  BY <1>0 DEF Completes, DeviceInv
<1>2. UNCHANGED <<c, tasks, conns, word, calls, air, link, bonded>>
  BY <1>1 DEF Worker, client, radio
<1>3. call \in StoreCall /\ call.conn \in 1 .. conns /\ t.pending \in {"BEGIN", "DATA", "COMMIT"}
  BY <1>0, <1>1 DEF TypeOK, StoreCall
<1>4. /\ TransferInv(t') /\ t'.pending = "NONE"
      /\ t'.state = "COMMITTED" => ok /\ t.pending = "COMMIT"
  <2>1. "STORAGE" \in TransferError /\ TransferInv(t) /\ t.pending # "NONE"
    BY <1>0, <1>3 DEF TransferError, TypeOK
  <2>2. QED
    BY <1>1, <2>1, CompleteKept
<1>5. Unfinished(t)
  BY <1>3 DEF Unfinished
<1>6. DeviceInv'
  BY <1>0, <1>1, <1>2, <1>4, <1>5 DEF DeviceInv
<1>7. \A n \in 1 .. conns : CommitSent(n)' => CommitSent(n)
  BY <1>1, <1>2 DEF CommitSent, NoCall
<1>8. StaleInv'
  BY <1>1, <1>5, WorkerStale
<1>9. QED
  BY <1>0, <1>1, <1>3, <1>4, <1>6, <1>7, <1>8, DeviceKept DEF TypeOK

\* The device's calls of its store.
LEMMA StoresStep ==
    ASSUME SyncInv, Stores \/ Guards \/ Marks
    PROVE  SyncInv'
<1>0. TypeOK /\ DeviceInv
  BY DEF SyncInv
<1>1. CASE Stores
  <2>1. PICK ok \in BOOLEAN : Completes(ok /\ SessionValid(call.conn))
    BY <1>1 DEF Stores
  <2>2. (ok /\ SessionValid(call.conn)) \in BOOLEAN
    OBVIOUS
  <2>3. PICK b \in BOOLEAN : Completes(b)
    BY <2>1, <2>2
  <2>4. QED
    BY <1>1, <2>3, CompletesStep DEF Stores
<1>2. CASE Marks
  <2>1. PICK ok \in BOOLEAN :
          /\ Completes(ok) /\ durable' \in {durable, durable \cup {call.conn}}
          /\ ok => call.conn \in durable'
    BY <1>2 DEF Marks
  <2>2. QED
    BY <1>2, <2>1, CompletesStep DEF Marks
<1>3. CASE Guards
  <2>1. CASE Completes(FALSE) /\ UNCHANGED durable
    BY <1>3, <2>1, CompletesStep DEF Guards
  <2>2. CASE /\ call' = [call EXCEPT !.marked = TRUE]
             /\ UNCHANGED <<t, by, queue, gone, abort, durable, lost>> /\ Worker
    <3>1. call # NoCall /\ call \in StoreCall
      BY <1>0, <1>3 DEF Guards, TypeOK
    <3>2. /\ call' \in StoreCall /\ call'.conn = call.conn /\ call'.action = call.action
          /\ call' # NoCall
      <4>1. call' \in StoreCall /\ call'.conn = call.conn /\ call'.action = call.action
        BY <2>2, <3>1 DEF StoreCall
      <4>2. call'.conn \in 1 .. conns /\ conns \in Nat
        BY <1>0, <4>1 DEF StoreCall, TypeOK
      <4>3. QED
        BY <4>1, <4>2 DEF NoCall
    <3>3. UNCHANGED <<c, tasks, conns, word, calls, air, link, bonded>>
      BY <2>2 DEF Worker, client, radio
    <3>4. DeviceInv'
      BY <1>0, <2>2, <3>1, <3>2, <3>3 DEF DeviceInv
    <3>5. \A n \in 1 .. conns : CommitSent(n)' => CommitSent(n)
      BY <2>2, <3>2, <3>3 DEF CommitSent
    <3>6. StaleInv'
      BY <2>2, WorkerStale
    <3>7. QED
      BY <1>0, <2>2, <3>1, <3>2, <3>4, <3>5, <3>6, DeviceKept DEF TypeOK
  <2>3. QED
    BY <1>3, <2>1, <2>2 DEF Guards
<1>4. QED
  BY <1>1, <1>2, <1>3

\* A transfer that is discarded or timed out.
LEMMA EndsStep ==
    ASSUME SyncInv, TickAborts \/ TickTimesOut \/ \E n \in gone : WorkDisconnect(n)
    PROVE  SyncInv'
<1>0. TypeOK /\ DeviceInv
  BY DEF SyncInv
<1>1. /\ Worker /\ UNCHANGED <<by, queue, call, durable>> /\ call = NoCall
      /\ gone' \subseteq gone /\ abort' \in BOOLEAN /\ lost' \in BOOLEAN
  BY <1>0 DEF TickAborts, TickTimesOut, WorkDisconnect, Discards, TypeOK
<1>2. UNCHANGED <<c, tasks, conns, word, calls, air, link, bonded>>
  BY <1>1 DEF Worker, client, radio
<1>3. TransferInv(t) /\ t.pending = "NONE"
  BY <1>0, <1>1 DEF TypeOK, DeviceInv
<1>4. \/ t' = wallet_transfer_disconnect(t).transfer
      \/ t' = wallet_transfer_timeout(t).transfer
      \/ t' = t /\ \E n \in gone : gone' = gone \ {n} /\ by # n
  BY DEF TickAborts, TickTimesOut, WorkDisconnect, Discards
<1>5. /\ TransferInv(t') /\ t'.pending = "NONE"
      /\ Unfinished(t') => t' = t /\ \E n \in gone : gone' = gone \ {n} /\ by # n
      /\ t'.state = "COMMITTED" => t.state = "COMMITTED"
  <2>1. NewTransfer.state # "COMMITTED"
    BY DEF NewTransfer
  <2>2. QED
    BY <1>3, <1>4, <2>1, DisconnectKept, TimeoutKept
<1>6. DeviceInv'
  BY <1>0, <1>1, <1>2, <1>5 DEF DeviceInv
<1>7. \A n \in 1 .. conns : CommitSent(n)' => CommitSent(n)
  BY <1>1, <1>2 DEF CommitSent
<1>8. StaleInv'
  BY <1>1, <1>5, WorkerStale
<1>9. QED
  BY <1>0, <1>1, <1>5, <1>6, <1>7, <1>8, DeviceKept DEF TypeOK

-----------------------------------------------------------------------------
(* Results *)

LEMMA SyncInvInit == Init => SyncInv
<1> SUFFICES ASSUME Init PROVE SyncInv
  OBVIOUS
<1>1. /\ c = NoClient /\ tasks = {} /\ calls = {} /\ air = {} /\ conns = 0
      /\ word = [n \in 1 .. MaxConnections |-> "nothing"] /\ link = NoLink /\ bonded = FALSE
      /\ t = NewTransfer /\ by = 0 /\ queue = <<>> /\ call = NoCall
      /\ gone = {} /\ abort = FALSE /\ durable = {} /\ lost = FALSE
  BY DEF Init
<1>2. /\ MaxConnections \in Nat /\ c \in Client /\ c.conn = 0 /\ c.op = "NONE"
      /\ c.base = NoStatus /\ c.len = 0 /\ c.frame = 0 /\ c.state = "IDLE"
  <2>1. 0 \in 0 .. conns /\ 0 \in 0 .. MaxLength
    BY <1>1
  <2>2. QED
    BY <1>1, <2>1 DEF NoClient, Client, MaxConnections
<1>3. queue \in Seq([conn : 1 .. conns, msg : Message]) /\ DOMAIN queue = {}
  BY <1>1, EmptySeq, LenProperties
<1>4. TransferInv(t) /\ ~Unfinished(t) /\ t.pending = "NONE" /\ t.state = "IDLE"
  BY <1>1, NewTransferKept DEF NewTransfer
<1>5. TypeOK
  <2>1. conns \in 0 .. MaxConnections /\ by \in 0 .. conns
    BY <1>1, <1>2
  <2>2. link \in [conn : 0 .. conns, secure : BOOLEAN, ended : BOOLEAN]
    BY <1>1 DEF NoLink
  <2>3. word \in [1 .. MaxConnections -> {"nothing", "complete", "stopped", "unsure"}]
    BY <1>1
  <2>4. QED
    BY <1>1, <1>2, <1>3, <1>4, <2>1, <2>2, <2>3 DEF TypeOK
<1>6. ClientInv
  BY <1>1, <1>2 DEF ClientInv, Fresh
<1>7. OneRequest /\ WatchInv /\ LinkInv /\ NewLinkInv /\ StaleInv
  BY <1>1, <1>2 DEF OneRequest, WatchInv, LinkInv, NewLinkInv, StaleInv, Asked, Answered, Begun,
       Watching, ReadOk, NewLink, Stale, NoLink
<1>8. DeviceInv
  BY <1>1, <1>4 DEF DeviceInv
<1>9. CommitInv /\ DoneIsCommitted
  BY <1>1 DEF CommitInv, DoneIsCommitted
<1>10. QED
  BY <1>5, <1>6, <1>7, <1>8, <1>9 DEF SyncInv

LEMMA SyncInvStep == SyncInv /\ [Next]_vars => SyncInv'
<1>1. ASSUME SyncInv, UNCHANGED vars PROVE SyncInv'
  <2>1. UNCHANGED <<c, tasks, conns, word, calls, air, link, bonded>> /\ UNCHANGED device
    BY <1>1 DEF vars, client, radio
  <2>2. UNCHANGED <<t, by, queue, call, gone, abort, durable, lost>> /\ Worker
    BY <1>1 DEF vars, device, Worker
  <2>3. DeviceInv' /\ \A n \in 1 .. conns : CommitSent(n)' => CommitSent(n)
    BY <1>1, <2>1, <2>2 DEF SyncInv, DeviceInv, CommitSent
  <2>4. QED
    BY <1>1, <2>2, <2>3, DeviceKept, WorkerStale DEF SyncInv, TypeOK
<1>2. ASSUME SyncInv, Handles PROVE SyncInv'
  BY <1>2, StaleStep, DisconnectedStep, ConnectedStep, DiscoveredStep, MtuChangedStep,
     WrittenStep, ReceivedStep DEF Handles
<1>3. QED
  BY <1>1, <1>2, ScanStep, ScanEndsStep, ConnectStep, TransferStep, BondStep, ReadStep,
     TimeStep, GrowsOldStep, ConnectsStep, AnswersStep, SecuresStep, DropsStep, TakesStep,
     StoresStep, EndsStep DEF Next

\* Everything the phone and the device know of each other, in every state.
LEMMA SyncInvAlways == Spec => []SyncInv
BY SyncInvInit, SyncInvStep, PTL DEF Spec

\* Types hold for ever; in particular the device's transfer never goes beyond
\* the length its BEGIN announced, whatever the phone sends and when.
THEOREM TypeCorrect == Spec => []TypeOK
<1>1. SyncInv => TypeOK
  BY DEF SyncInv
<1>2. QED
  BY <1>1, SyncInvAlways, PTL

\* The phone has one request outstanding at a time, and takes no callback for
\* the answer to another: WalletBleClient looks at its operation and at gatt.
THEOREM OneRequestAtATime == Spec => []OneRequest
<1>1. SyncInv => OneRequest
  BY DEF SyncInv
<1>2. QED
  BY <1>1, SyncInvAlways, PTL

\* The user is told that a package is complete only when the device has made
\* this very package durable, not one of an earlier connection.  That holds
\* also when the DISCONNECT of the earlier connection was dropped or names
\* another generation, so that the session starts with an upload still open
\* and the client may take its status for that of its own BEGIN.
THEOREM DoneMeansCommitted == Spec => []DoneIsCommitted
<1>1. SyncInv => DoneIsCommitted
  BY DEF SyncInv
<1>2. QED
  BY <1>1, SyncInvAlways, PTL

\* A transfer that the user was told was stopped is never committed: the phone
\* asks whether its COMMIT is out before it forgets the frames.
THEOREM StoppedStaysStopped == Spec => []StoppedIsStopped
<1>1. SyncInv => StoppedIsStopped
  <2> SUFFICES ASSUME SyncInv, NEW n \in DOMAIN word, word[n] = "stopped", n \in durable
               PROVE  FALSE
    BY DEF StoppedIsStopped
  <2>1. n \in 1 .. conns
    BY DEF SyncInv, TypeOK
  <2>2. QED
    BY <2>1 DEF SyncInv, CommitInv, CommitSent
<1>2. QED
  BY <1>1, SyncInvAlways, PTL
=============================================================================
