------------------------------ MODULE WalletBle ------------------------------
(***************************************************************************)
(* The owner-only snapshot link, main/wallet_ble.c.                        *)
(*                                                                         *)
(* Four threads of control share s_ble under a mutex: the NimBLE host task *)
(* (GAP and GATT callbacks and the control event), the worker that takes   *)
(* work from two bounded queues, the user interface, and a timer that      *)
(* queues ticks.  A callback or a critical section is one step.  A handler *)
(* that releases the mutex around flash or NVS work is several, so a link  *)
(* may come or go in the middle of it.                                     *)
(*                                                                         *)
(* The controller keeps one connection and the host one bond               *)
(* (CONFIG_BT_NIMBLE_MAX_CONNECTIONS and MAX_BONDS are 1), so all links    *)
(* have the same handle and only the generation tells them apart.  Time is *)
(* left out: a deadline may have passed whenever a tick looks at it.  The  *)
(* store is reduced to the staged upload and the outcome of each call;     *)
(* WalletStore has the rest of it.                                         *)
(***************************************************************************)
EXTENDS Sequences, WalletTransfer

CONSTANTS Peers,            \* the phones
          None,             \* no phone, no message
          StockMode,        \* stock_mode: the stock service shares the host
          Messages,         \* what a phone may write to the wallet service
          Passkeys,         \* random_passkey; 0 is the cleared passkey
          UiCalls,          \* what the user interface does
          QueueLength,      \* WALLET_BLE_QUEUE_LENGTH
          MaxGeneration,    \* bound: no link and no host reset from here on
          MaxCalls,         \* bound on open, close and reset calls
          Crashes,          \* whether power may fail
          HostFaults,       \* whether the host may reset itself or stop advertising
          Faults            \* whether NVS and the bond store may fail

ASSUME BleAssumption ==
    /\ None \notin Peers
    /\ Messages \subseteq Message
    /\ Passkeys \subseteq Nat \ {0}
    /\ UiCalls \subseteq {"render", "open", "close", "reset", "accept", "reject"}
    /\ QueueLength \in Nat \ {0}
    /\ MaxGeneration \in Nat
    /\ MaxCalls \in Nat
    /\ {StockMode, Crashes, HostFaults, Faults} \subseteq BOOLEAN

VARIABLES
    \* durable: the owner record in NVS and the peer of the bond
    nvs, bond,
    \* the NimBLE host and controller
    up, syncdue, adv, link,
    \* s_ble, its transfer and its two queues
    ble, transfer, queue, control_queue,
    \* the store's staged upload
    upload,
    \* where the worker and the user interface are, and their locals
    pc, work, enc, uwork,
    \* the pairing prompt on the screen
    shown,
    \* ghost: the phones whose passkey was released here since the last reset
    approved

durable == <<nvs, bond>>
host == <<up, syncdue, adv, link>>
queues == <<queue, control_queue>>
locals == <<pc, work, enc, uwork>>
vars == <<durable, host, ble, transfer, queues, upload, locals, shown, approved>>

NoConn == 0     \* WALLET_BLE_CONN_NONE
Handle == 1     \* the handle of every link
NoLink == [peer |-> None, sec |-> "plain", dying |-> FALSE]
NoConfirm == [gen |-> 0, key |-> 0, seen |-> 0]
NoUpload == [on |-> FALSE, expected |-> 0, written |-> 0]
NoPrompt == [pairing |-> FALSE, released |-> FALSE, key |-> 0]

\* A zeroed wallet_ble_work_t; the fields a type uses are set with EXCEPT.
Work(type) ==
    [type |-> type, gen |-> 0, ctl |-> 0, conn |-> NoConn, peer |-> None,
     ok |-> TRUE, key |-> 0, seen |-> 0, msg |-> None]
NoWork == Work("NONE")

\* init_common's s_ble: handles set to none, everything else zero.
ZeroBle ==
    [generation |-> 0, control_generation |-> 0, transfer_generation |-> 0,
     conn |-> NoConn, synced |-> FALSE, window |-> FALSE, connected |-> FALSE,
     secure |-> FALSE, owner |-> None, peer |-> None, recovery |-> FALSE,
     pairing |-> FALSE, released |-> FALSE, reset |-> FALSE, abort |-> FALSE,
     term |-> 0, confirm |-> NoConfirm, passkey |-> 0,
     event |-> FALSE, level4 |-> ~StockMode]

-----------------------------------------------------------------------------
(* Policy *)

wallet_ble_peer_allowed(window, present, match) ==
    window /\ (present => match)

wallet_ble_session_matches(gen, conn, secure, egen, econn) ==
    secure /\ gen = egen /\ conn = econn

wallet_ble_passkey_can_release(window, pairing, allowed) ==
    window /\ pairing /\ allowed

wallet_ble_advertising_allowed(b) ==
    /\ b.synced /\ ~b.connected /\ ~b.reset
    /\ StockMode \/ (b.window /\ ~b.recovery)

wallet_ble_connection_allowed(b, p) ==
    /\ ~b.reset
    /\ \/ StockMode
       \/ ~b.recovery /\ wallet_ble_peer_allowed(b.window, b.owner # None, b.owner = p)

wallet_ble_window_disconnect(explicit, connected, secure, pairing) ==
    connected /\ (explicit \/ (~secure /\ (~StockMode \/ pairing)))

-----------------------------------------------------------------------------
(* Shared pieces of the handlers *)

\* Mutant: one item too many.
FullOneOver(q) == Len(q) > QueueLength

\* xQueueSend without waiting: a full queue drops the item.
Full(q) == Len(q) >= QueueLength
Put(q, w) == IF Full(q) THEN q ELSE Append(q, w)

\* Mutant: the session stays secure when its link ends.
EndSessionSecure(b) ==
    [b EXCEPT !.connected = FALSE, !.pairing = FALSE,
              !.released = FALSE, !.generation = @ + 1]

\* The fields every end of a session clears, and its new generation.
EndSession(b) ==
    [b EXCEPT !.secure = FALSE, !.connected = FALSE, !.pairing = FALSE,
              !.released = FALSE, !.generation = @ + 1]

schedule_stock_control(b) == [b EXCEPT !.event = TRUE]

\* Mutant: only a connected session can be terminated.
terminate_connected(b, conn, gen) ==
    IF conn # NoConn /\ conn = b.conn /\ gen = b.generation /\ b.connected
      THEN schedule_stock_control([b EXCEPT !.term = gen])
      ELSE b

request_termination(b, conn, gen) ==
    IF conn # NoConn /\ conn = b.conn /\ gen = b.generation
      THEN schedule_stock_control([b EXCEPT !.term = gen])
      ELSE b

\* close_window(false): every caller passes false.
close_window(b) ==
    LET c == schedule_stock_control([b EXCEPT !.window = FALSE])
    IN  IF wallet_ble_window_disconnect(FALSE, b.connected, b.secure, b.pairing)
          THEN request_termination(c, b.conn, b.generation)
          ELSE c

\* start_advertising: whether the device advertises after it, given s_ble.  A
\* connectable advertisement needs the one connection to be free.
start_advertising(b) ==
    \/ adv
    \/ wallet_ble_advertising_allowed(b) /\ b.conn = NoConn /\ link = NoLink

Generation == IF ble.conn = Handle THEN ble.generation ELSE 0

Goto(task, label) == pc' = [pc EXCEPT ![task] = label]

-----------------------------------------------------------------------------
\* A device leaves the factory without an owner, or is in use with one.
Init ==
    /\ \E p \in Peers \cup {None} : nvs = p /\ bond = p /\ approved = {p} \ {None}
    /\ up = FALSE /\ syncdue = FALSE /\ adv = FALSE /\ link = NoLink
    /\ ble = ZeroBle /\ transfer = NewTransfer
    /\ queue = <<>> /\ control_queue = <<>>
    /\ upload = NoUpload
    /\ pc = [t \in {"worker", "ui"} |-> "idle"]
    /\ work = NoWork /\ enc = [peer |-> None, ok |-> FALSE, match |-> FALSE]
    /\ uwork = NoWork /\ shown = NoPrompt

\* init_common with load_owner.  A record that cannot be read, and a record
\* and a bond that do not come in pairs, fail closed; without the stock
\* service an unreadable record fails the initialization instead.
Boot(readable) ==
    LET owner == IF readable THEN nvs ELSE None
    IN  /\ ~up
        /\ readable \/ (Faults /\ StockMode)
        /\ up' = TRUE
        /\ syncdue' = TRUE
        /\ ble' = [ZeroBle EXCEPT !.owner = owner,
                       !.recovery = ~readable \/ ((owner = None) # (bond = None))]
        /\ UNCHANGED <<durable, adv, link, transfer, queues, upload, locals,
                       shown, approved>>

PowerFails ==
    /\ Crashes
    /\ up
    /\ up' = FALSE /\ syncdue' = FALSE /\ adv' = FALSE /\ link' = NoLink
    /\ ble' = ZeroBle /\ transfer' = NewTransfer
    /\ queue' = <<>> /\ control_queue' = <<>>
    /\ upload' = NoUpload
    /\ pc' = [t \in {"worker", "ui"} |-> "idle"]
    /\ work' = NoWork /\ enc' = [peer |-> None, ok |-> FALSE, match |-> FALSE]
    /\ uwork' = NoWork /\ shown' = NoPrompt
    /\ UNCHANGED <<durable, approved>>

-----------------------------------------------------------------------------
(* The NimBLE host task *)

HostStep == up /\ UNCHANGED <<nvs, up, transfer, upload, locals, shown>>

on_sync ==
    /\ HostStep
    /\ syncdue
    /\ syncdue' = FALSE
    /\ control_queue' = Put(control_queue, Work("SYNC"))
    /\ UNCHANGED <<bond, adv, link, ble, queue, approved>>

\* on_reset.  Every link is gone; the work keeps no generation a later
\* handler looks at.
on_reset ==
    /\ HostStep
    /\ HostFaults
    /\ ~syncdue
    /\ ble.generation < MaxGeneration
    /\ syncdue' = TRUE
    /\ adv' = FALSE
    /\ link' = NoLink
    /\ LET b == [EndSession(ble) EXCEPT !.synced = FALSE, !.conn = NoConn]
       IN  ble' = IF StockMode
                    THEN [b EXCEPT !.confirm = NoConfirm, !.term = 0,
                             !.level4 = b.window /\ ~b.recovery /\ ~b.reset]
                    ELSE b
    /\ control_queue' = Put(control_queue, Work("HOST_RESET"))
    /\ UNCHANGED <<bond, queue, approved>>

\* BLE_GAP_EVENT_CONNECT with status 0.
Connected(p) ==
    /\ HostStep
    /\ adv /\ link = NoLink
    /\ ble.generation < MaxGeneration
    /\ adv' = FALSE
    /\ IF ble.conn = NoConn /\ wallet_ble_connection_allowed(ble, p)
         THEN LET b == [EndSession(ble) EXCEPT !.conn = Handle, !.connected = TRUE,
                                               !.peer = p]
                  w == [Work("CONNECT") EXCEPT !.gen = b.generation,
                                               !.conn = Handle, !.peer = p]
              IN  /\ ble' = b
                  /\ control_queue' = Put(control_queue, w)
                  /\ link' = [peer |-> p, sec |-> "plain", dying |-> Full(control_queue)]
         ELSE /\ link' = [peer |-> p, sec |-> "plain", dying |-> TRUE]
              /\ UNCHANGED <<ble, control_queue>>
    /\ UNCHANGED <<bond, syncdue, queue, approved>>

\* Advertising ended without a link: a failed CONNECT or ADV_COMPLETE.
AdvertisingEnds ==
    /\ HostStep
    /\ HostFaults
    /\ adv
    /\ adv' = FALSE
    /\ \/ /\ queue' = Put(queue, Work("ADV_COMPLETE"))
          /\ UNCHANGED control_queue
       \/ /\ control_queue' = Put(control_queue, Work("ADV_COMPLETE"))
          /\ UNCHANGED queue
    /\ UNCHANGED <<bond, syncdue, link, ble, approved>>

\* BLE_GAP_EVENT_DISCONNECT
Disconnected ==
    /\ HostStep
    /\ link # NoLink
    /\ link' = NoLink
    /\ ble' = IF ble.conn = Handle
                THEN [EndSession(ble) EXCEPT !.abort = TRUE, !.conn = NoConn]
                ELSE ble
    /\ control_queue' =
          Put(control_queue, [Work("DISCONNECT") EXCEPT !.gen = Generation, !.conn = Handle])
    /\ UNCHANGED <<bond, syncdue, adv, queue, approved>>

\* BLE_GAP_EVENT_PASSKEY_ACTION: a phone without a bond asks to pair.
PasskeyAction ==
    LET allowed == /\ ble.connected /\ Generation # 0
                   /\ ~ble.recovery /\ ~ble.reset
                   /\ wallet_ble_peer_allowed(ble.window, ble.owner # None,
                                              ble.owner = ble.peer)
    IN  /\ HostStep
        /\ link # NoLink /\ link.sec = "plain" /\ bond # link.peer
        /\ ble.level4
        /\ ble' = [ble EXCEPT !.pairing = @ \/ allowed]
        /\ IF allowed
             THEN control_queue' = Put(control_queue,
                     [Work("PASSKEY") EXCEPT !.gen = Generation, !.conn = Handle])
             ELSE UNCHANGED control_queue
        /\ link' = IF allowed /\ ~Full(control_queue)
                     THEN [link EXCEPT !.sec = "asking"]
                     ELSE [link EXCEPT !.dying = TRUE]
        /\ UNCHANGED <<bond, syncdue, adv, queue, approved>>

\* BLE_GAP_EVENT_ENC_CHANGE
EncryptionWork(ok) ==
    control_queue' = Put(control_queue,
        [Work("ENCRYPTION") EXCEPT !.gen = Generation, !.conn = Handle, !.ok = ok])

\* The host stores the keys of a completed pairing, if it has room for them.
Paired ==
    /\ HostStep
    /\ link.sec = "keyed"
    /\ link' = [link EXCEPT !.sec = "secure"]
    /\ bond' = IF bond = None THEN link.peer ELSE bond
    /\ EncryptionWork(TRUE)
    /\ UNCHANGED <<syncdue, adv, ble, queue, approved>>

\* A bonded phone encrypts with its keys.
Encrypted ==
    /\ HostStep
    /\ link # NoLink /\ link.sec = "plain" /\ bond = link.peer
    /\ link' = [link EXCEPT !.sec = "secure"]
    /\ EncryptionWork(TRUE)
    /\ UNCHANGED <<bond, syncdue, adv, ble, queue, approved>>

EncryptionFails ==
    /\ HostStep
    /\ link.sec \in {"asking", "keyed"}
    /\ link' = [link EXCEPT !.sec = "plain"]
    /\ EncryptionWork(FALSE)
    /\ UNCHANGED <<bond, syncdue, adv, ble, queue, approved>>

\* stock_host_control: terminations and released passkeys reach the host.
stock_host_control ==
    LET current(gen) == gen # 0 /\ gen = ble.generation /\ ble.conn = Handle
        terminate == current(ble.term)
        confirm == /\ current(ble.confirm.gen)
                   /\ ble.connected /\ ble.window /\ ble.pairing /\ ble.released
                   /\ ~ble.reset /\ ~ble.recovery
                   /\ ble.confirm.key = ble.passkey
    IN  /\ HostStep
        /\ ble.event
        /\ ble' = [ble EXCEPT !.event = FALSE, !.term = 0, !.confirm = NoConfirm,
                      !.level4 = IF StockMode
                                   THEN ble.window /\ ~ble.recovery /\ ~ble.reset
                                   ELSE @]
        /\ IF terminate
             THEN /\ link' = IF link = NoLink THEN link ELSE [link EXCEPT !.dying = TRUE]
                  /\ UNCHANGED approved
             ELSE IF confirm /\ link.sec = "asking"
               THEN /\ link' = [link EXCEPT !.sec = "keyed"]
                    /\ approved' = approved \cup {link.peer}
               ELSE UNCHANGED <<link, approved>>
        /\ UNCHANGED <<bond, syncdue, adv, queues>>

\* wallet_gatt_access, a write: authorized and queued, or refused.
wallet_gatt_access(m) ==
    /\ HostStep
    /\ link # NoLink /\ link.sec = "secure"
    /\ ble.secure /\ ble.connected /\ ble.conn = Handle
    /\ ~Full(queue)
    /\ queue' = Append(queue, [Work("RX") EXCEPT !.gen = ble.generation,
                                                 !.conn = Handle, !.msg = m])
    /\ UNCHANGED <<bond, syncdue, adv, link, ble, control_queue, approved>>

on_tick ==
    /\ up
    /\ ~Full(queue)
    /\ queue' = Append(queue, Work("TICK"))
    /\ UNCHANGED <<durable, host, ble, transfer, control_queue, upload, locals,
                   shown, approved>>

-----------------------------------------------------------------------------
(* The user interface task *)

UiStep == up /\ UNCHANGED <<bond, up, syncdue, link, transfer, upload, work, enc, approved>>

\* The main loop draws the pairing prompt: whenever pairing or its release
\* changed, and whenever anything else makes the screen dirty.
UiRender ==
    /\ UiStep
    /\ "render" \in UiCalls
    /\ pc["ui"] = "idle"
    /\ shown' = [pairing |-> ble.pairing, released |-> ble.released,
                 key |-> IF ble.pairing THEN ble.passkey ELSE 0]
    /\ shown' # shown
    /\ UNCHANGED <<nvs, adv, ble, queues, pc, uwork>>

wallet_ble_open_pairing_window ==
    LET ctl == ble.control_generation + 1
    IN  /\ UiStep
        /\ "open" \in UiCalls /\ ctl <= MaxCalls
        /\ pc["ui"] = "idle"
        /\ ~ble.reset /\ ~Full(queue)
        /\ queue' = Append(queue, [Work("OPEN") EXCEPT !.ctl = ctl])
        /\ ble' = [ble EXCEPT !.control_generation = ctl]
        /\ UNCHANGED <<nvs, adv, control_queue, pc, uwork, shown>>

\* The critical section of close and reset: the session and the window end
\* at once, the rest is for UiRequest and the worker.
EndWindow(type) ==
    /\ UiStep
    /\ ble.control_generation < MaxCalls
    /\ pc["ui"] = "idle"
    /\ ble' = [EndSession(ble) EXCEPT !.window = FALSE, !.abort = TRUE,
                   !.control_generation = @ + 1,
                   !.reset = @ \/ type = "RESET_OWNER"]
    /\ uwork' = [Work(type) EXCEPT !.conn = ble.conn, !.gen = ble'.generation,
                                   !.ctl = ble'.control_generation]
    /\ Goto("ui", "request")
    /\ UNCHANGED <<nvs, adv, queues, shown>>

wallet_ble_close_pairing_window == "close" \in UiCalls /\ EndWindow("CLOSE")
wallet_ble_reset_owner == "reset" \in UiCalls /\ EndWindow("RESET_OWNER")

\* The rest of both calls.  A reset that finds the queue full and no link is
\* carried out here and now.
UiRequest ==
    /\ UiStep
    /\ pc["ui"] = "request"
    /\ ble' = request_termination(schedule_stock_control(ble), uwork.conn, uwork.gen)
    /\ control_queue' = Put(control_queue, uwork)
    /\ Goto("ui", IF /\ uwork.type = "RESET_OWNER" /\ uwork.conn = NoConn
                     /\ Full(control_queue) THEN "unpair" ELSE "idle")
    /\ uwork' = NoWork
    /\ UNCHANGED <<nvs, adv, queue, shown>>

\* wallet_ble_confirm_passkey, from the OK button while s_ble says pairing.
\* seen is a ghost: the key on the screen when the button was pressed.
wallet_ble_confirm_passkey(accept) ==
    /\ UiStep
    /\ (IF accept THEN "accept" ELSE "reject") \in UiCalls
    /\ pc["ui"] = "idle"
    /\ ble.pairing
    /\ accept => ~ble.released
    /\ ~Full(control_queue)
    /\ control_queue' = Append(control_queue,
          [Work("CONFIRM") EXCEPT !.gen = ble.generation, !.conn = ble.conn,
              !.key = ble.passkey, !.ok = accept, !.seen = shown.key])
    /\ UNCHANGED <<nvs, adv, ble, queue, pc, uwork, shown>>

-----------------------------------------------------------------------------
(* finish_owner_reset, on the worker or on the user interface *)

FinishStep(t, label) ==
    /\ up
    /\ pc[t] = label
    /\ UNCHANGED <<up, syncdue, transfer, queues, upload, work, enc,
                   uwork, shown>>

\* Mutant: no bond is deleted.
ResetUnpairNothing(t) ==
    /\ FinishStep(t, "unpair")
    /\ Goto(t, "erase")
    /\ UNCHANGED <<durable, adv, link, ble, approved>>

\* Unpair the owner and whoever has a bond, and verify that no bond is left.
\* ble_gap_unpair also ends a link with the phone it unpairs.
ResetUnpair(t) ==
    /\ FinishStep(t, "unpair")
    /\ link' = IF link # NoLink /\ link.peer \in {ble.owner, bond}
                 THEN [link EXCEPT !.dying = TRUE]
                 ELSE link
    /\ \/ bond' = None /\ Goto(t, "erase")
       \/ Faults /\ bond' \in {bond, None} /\ Goto(t, "failed")
    /\ UNCHANGED <<nvs, adv, ble, approved>>

\* erase_owner_record
ResetErase(t) ==
    /\ FinishStep(t, "erase")
    /\ \/ nvs' = None /\ Goto(t, "erased")
       \/ Faults /\ nvs' \in {nvs, None} /\ Goto(t, "failed")
    /\ UNCHANGED <<bond, adv, link, ble, approved>>

\* Mutant: s_ble keeps the owner.
ResetDoneKeepsOwner(t) ==
    /\ FinishStep(t, "erased")
    /\ ble' = schedule_stock_control([ble EXCEPT !.recovery = FALSE, !.reset = FALSE])
    /\ adv' = start_advertising(ble')
    /\ approved' = {}
    /\ Goto(t, "idle")
    /\ UNCHANGED <<durable, link>>

ResetDone(t) ==
    /\ FinishStep(t, "erased")
    /\ ble' = schedule_stock_control(
                 [ble EXCEPT !.owner = None, !.recovery = FALSE, !.reset = FALSE])
    /\ adv' = start_advertising(ble')
    /\ approved' = {}
    /\ Goto(t, "idle")
    /\ UNCHANGED <<durable, link>>

ResetFailed(t) ==
    /\ FinishStep(t, "failed")
    /\ ble' = schedule_stock_control(
                 IF StockMode THEN [ble EXCEPT !.recovery = TRUE, !.reset = FALSE] ELSE ble)
    /\ adv' = IF StockMode THEN start_advertising(ble') ELSE adv
    /\ Goto(t, "idle")
    /\ UNCHANGED <<durable, link, approved>>

-----------------------------------------------------------------------------
(* The worker: control work first, then, after waiting, data work *)

WorkerFrame == up /\ UNCHANGED <<up, syncdue, link, uwork, shown, approved>>

FromControl(type) ==
    /\ WorkerFrame
    /\ pc["worker"] = "idle"
    /\ control_queue # <<>> /\ Head(control_queue).type = type
    /\ control_queue' = Tail(control_queue)
    /\ UNCHANGED queue

FromQueue(type) ==
    /\ WorkerFrame
    /\ pc["worker"] = "wait"
    /\ queue # <<>> /\ Head(queue).type = type
    /\ queue' = Tail(queue)

\* wallet_worker_task: nothing in the control queue, wait for the other one.
WorkerPoll ==
    /\ WorkerFrame
    /\ pc["worker"] = "idle" /\ control_queue = <<>>
    /\ Goto("worker", "wait")
    /\ UNCHANGED <<durable, adv, ble, transfer, queues, upload, work, enc>>

WorkerTimeout ==
    /\ WorkerFrame
    /\ pc["worker"] = "wait" /\ queue = <<>>
    /\ Goto("worker", "idle")
    /\ UNCHANGED <<durable, adv, ble, transfer, queues, upload, work, enc>>

\* A handler of a link or window event ends without touching what is below.
LinkFrame == UNCHANGED <<durable, transfer, upload, enc, work>>

WorkSync ==
    /\ FromControl("SYNC")
    /\ \E ok \in IF Faults THEN BOOLEAN ELSE {TRUE} :
          /\ ble' = [ble EXCEPT !.synced = ok]
          /\ adv' = IF ok THEN start_advertising(ble') ELSE adv
    /\ LinkFrame /\ UNCHANGED pc

\* An OPEN that a later call overtook, or that a reset overtook, is void.  A
\* stock link that is already encrypted is looked at again.
WorkOpen ==
    /\ FromQueue("OPEN")
    /\ Goto("worker", "idle")
    /\ LinkFrame
    /\ IF Head(queue).ctl # ble.control_generation \/ ble.reset
         THEN UNCHANGED <<ble, adv, control_queue>>
         ELSE /\ ble' = schedule_stock_control([ble EXCEPT !.window = TRUE])
              /\ adv' = start_advertising(ble')
              /\ IF StockMode /\ ble.conn # NoConn /\ link # NoLink /\ link.sec = "secure"
                   THEN EncryptionWork(TRUE)
                   ELSE UNCHANGED control_queue

WorkClose ==
    /\ FromControl("CLOSE")
    /\ LET w == Head(control_queue)
       IN  IF w.ctl # ble.control_generation
             THEN UNCHANGED <<ble, adv>>
             ELSE /\ ble' = request_termination(close_window(ble), w.conn, w.gen)
                  /\ adv' = FALSE
    /\ LinkFrame /\ UNCHANGED pc

WorkConnect ==
    /\ FromControl("CONNECT")
    /\ LET w == Head(control_queue)
       IN  ble' = IF w.gen # ble.generation \/ w.conn # ble.conn THEN ble
                  ELSE IF wallet_ble_connection_allowed(ble, w.peer)
                    THEN [ble EXCEPT !.connected = TRUE, !.peer = w.peer]
                    ELSE request_termination(ble, w.conn, w.gen)
    /\ LinkFrame /\ UNCHANGED <<adv, pc>>

WorkPasskey ==
    /\ FromControl("PASSKEY")
    /\ LET w == Head(control_queue)
           allowed == /\ ~ble.recovery /\ ble.connected
                      /\ ble.generation = w.gen /\ ble.conn = w.conn
                      /\ wallet_ble_peer_allowed(ble.window, ble.owner # None,
                                                 ble.owner = ble.peer)
       IN  \/ /\ allowed
              /\ \E key \in Passkeys :
                    ble' = [ble EXCEPT !.passkey = key, !.pairing = TRUE,
                                       !.released = FALSE]
           \/ ~allowed /\ ble' = request_termination(ble, w.conn, w.gen)
    /\ LinkFrame /\ UNCHANGED <<adv, pc>>

WorkConfirm ==
    /\ FromControl("CONFIRM")
    /\ LET w == Head(control_queue)
           release == /\ w.ok
                      /\ ble.generation = w.gen /\ ble.conn = w.conn
                      /\ ble.passkey = w.key
                      /\ wallet_ble_passkey_can_release(ble.window, ble.pairing,
                            ble.connected /\ (ble.owner # None => ble.owner = ble.peer))
       IN  ble' = IF release
                    THEN schedule_stock_control(
                            [ble EXCEPT !.released = TRUE,
                                !.confirm = [gen |-> w.gen, key |-> w.key, seen |-> w.seen]])
                    ELSE request_termination(ble, w.conn, w.gen)
    /\ LinkFrame /\ UNCHANGED <<adv, pc>>

-----------------------------------------------------------------------------
(* BLE_WORK_ENCRYPTION: adopt the first owner, authorize the session *)

\* Mutant: a device that needs recovery takes an owner.
SessionOfAny(w, admitted) ==
    ble.generation = w.gen /\ ble.connected /\ admitted /\ ble.conn = w.conn

\* The event is of the session that is up, and nothing forbids it.
SessionOf(w, admitted) ==
    /\ ~ble.recovery
    /\ ble.generation = w.gen /\ ble.connected
    /\ admitted
    /\ ble.conn = w.conn

EncCheck ==
    /\ FromControl("ENCRYPTION")
    /\ LET w == Head(control_queue)
           raw == w.ok /\ link # NoLink /\ link.sec = "secure"
       IN  IF ~SessionOf(w, ble.window \/ ble.secure)
             THEN UNCHANGED <<pc, work, enc>>
             ELSE /\ work' = w
                  /\ enc' = [peer |-> link.peer, ok |-> raw,
                             match |-> ble.owner # None /\ ble.owner = link.peer]
                  /\ Goto("worker", IF raw /\ ble.owner = None THEN "save" ELSE "authorize")
    /\ UNCHANGED <<durable, adv, ble, transfer, upload>>

EncStep(label) ==
    /\ WorkerFrame
    /\ pc["worker"] = label
    /\ UNCHANGED <<bond, adv, transfer, queues, upload>>

\* Mutant: a failed save goes unnoticed.
EncSaveUnchecked ==
    /\ EncStep("save")
    /\ nvs' \in {nvs, enc.peer}
    /\ Goto("worker", "own")
    /\ UNCHANGED <<ble, work, enc>>

\* save_owner; a failure, which may have left the record, fails closed.
EncSave ==
    /\ EncStep("save")
    /\ \/ /\ nvs' = enc.peer
          /\ Goto("worker", "own")
          /\ UNCHANGED <<ble, enc>>
       \/ /\ Faults
          /\ nvs' \in {nvs, enc.peer}
          /\ ble' = [ble EXCEPT !.recovery = TRUE]
          /\ enc' = [enc EXCEPT !.ok = FALSE]
          /\ Goto("worker", "authorize")
    /\ UNCHANGED work

\* The session may have ended during the save: then the record goes again.
EncOwn ==
    LET current == SessionOf(work, ble.window)
    IN  /\ EncStep("own")
        /\ IF current
             THEN ble' = [ble EXCEPT !.owner = enc.peer] /\ UNCHANGED nvs
             ELSE /\ ble' = [ble EXCEPT !.recovery = TRUE]
                  /\ nvs' \in IF Faults THEN {nvs, None} ELSE {None}
        /\ enc' = [enc EXCEPT !.match = current]
        /\ Goto("worker", "authorize")
        /\ UNCHANGED work

EncAuthorize ==
    LET secure == /\ SessionOf(work, ble.window \/ ble.secure)
                  /\ enc.ok /\ enc.match
        b == [ble EXCEPT !.secure = secure, !.pairing = FALSE, !.released = FALSE]
    IN  /\ EncStep("authorize")
        /\ ble' = IF work.gen # ble.generation \/ work.conn # ble.conn THEN ble
                  ELSE IF secure THEN b
                  ELSE request_termination(b, work.conn, work.gen)
        /\ Goto("worker", "idle")
        /\ work' = NoWork
        /\ enc' = [peer |-> None, ok |-> FALSE, match |-> FALSE]
        /\ UNCHANGED nvs

-----------------------------------------------------------------------------
(* BLE_WORK_RX: execute_transfer, with the store's calls *)

\* commit_session_valid, and execute_transfer's own two checks.
SessionValid(w) ==
    wallet_ble_session_matches(ble.generation, ble.conn, ble.secure, w.gen, w.conn)

WorkRx ==
    LET w == Head(queue)
        r == wallet_transfer_input(transfer, TRUE, w.msg)
    IN  /\ FromQueue("RX")
        /\ IF ~SessionValid(w)
             THEN Goto("worker", "idle") /\ UNCHANGED <<transfer, ble, upload, work>>
             ELSE /\ transfer' = r.transfer
                  /\ ble' = [ble EXCEPT !.transfer_generation =
                                IF r.action = "BEGIN" THEN w.gen ELSE @]
                  /\ upload' = IF r.action = "ABORT" THEN NoUpload ELSE upload
                  /\ Goto("worker", CASE r.action \in {"BEGIN", "DATA"} -> "store"
                                      [] r.action = "COMMIT" -> "guard1"
                                      [] OTHER -> "idle")
                  /\ work' = IF r.action \in {"BEGIN", "DATA", "COMMIT"} THEN w ELSE work
        /\ UNCHANGED <<durable, adv, control_queue, enc>>

StoreStep(label) ==
    /\ WorkerFrame
    /\ pc["worker"] = label
    /\ UNCHANGED <<durable, adv, ble, queues, enc>>

\* The store call returned: complete the transfer if the session is still
\* the one that asked (a commit that is durable stands), else discard.
StoreReturns(ok, staged) ==
    LET action == work.msg.type
        success == ok /\ (SessionValid(work) \/ action = "COMMIT")
    IN  /\ \E error \in IF ok THEN {"AUTH"} ELSE {"CRC", "PROTOCOL", "STORAGE"} :
              transfer' = wallet_transfer_complete(transfer, action, success, error)
        /\ upload' = IF success THEN staged ELSE NoUpload
        /\ Goto("worker", "idle")
        /\ work' = NoWork

StoreBegin ==
    /\ StoreStep("store")
    /\ work.msg.type = "BEGIN"
    /\ \E ok \in BOOLEAN :
          StoreReturns(ok, [on |-> TRUE, expected |-> work.msg.at, written |-> 0])

StoreWrite ==
    /\ StoreStep("store")
    /\ work.msg.type = "DATA"
    /\ \E ok \in BOOLEAN :
          /\ ok => /\ upload.on
                   /\ work.msg.at = upload.written
                   /\ work.msg.n <= upload.expected - upload.written
          /\ StoreReturns(ok, [upload EXCEPT !.written = @ + work.msg.n])

\* wallet_store_commit_guarded: the staged package is whole and valid and the
\* session still there; the pointer is saved; the session is asked again; the
\* marker makes it durable.
CommitGuard(label, next) ==
    /\ StoreStep(label)
    /\ \/ /\ SessionValid(work)
          /\ upload.on /\ upload.written = upload.expected
          /\ Goto("worker", next)
          /\ UNCHANGED <<transfer, upload, work>>
       \/ StoreReturns(FALSE, NoUpload)

CommitMarker ==
    /\ StoreStep("marker")
    /\ \E ok \in BOOLEAN : StoreReturns(ok, NoUpload)

-----------------------------------------------------------------------------
(* The other work *)

WorkDisconnect ==
    LET w == Head(control_queue)
        r == wallet_transfer_disconnect(transfer)
        abort == ble.transfer_generation = w.gen /\ r.action = "ABORT"
    IN  /\ FromControl("DISCONNECT")
        /\ transfer' = IF abort THEN r.transfer ELSE transfer
        /\ upload' = IF abort THEN NoUpload ELSE upload
        /\ IF ble.reset
             THEN Goto("worker", "unpair") /\ UNCHANGED adv
             ELSE adv' = start_advertising(ble) /\ UNCHANGED pc
        /\ UNCHANGED <<durable, ble, enc, work>>

WorkAdvComplete ==
    /\ \/ FromControl("ADV_COMPLETE")
       \/ FromQueue("ADV_COMPLETE") /\ UNCHANGED control_queue
    /\ adv' = start_advertising(ble)
    /\ Goto("worker", "idle")
    /\ LinkFrame /\ UNCHANGED ble

\* process_tick's decisions about the store and about a pending reset, and
\* their mutants: a pending abort does not reach the store; the reset is
\* looked for while there is a link.
TickAbortsLate(late) == late
TickAborts(late) == late \/ ble.abort

ResetWithLink == ble.reset /\ ble.conn # NoConn
ResetWithoutLink == ble.reset /\ ble.conn = NoConn

\* process_tick: the window and the transfer may have run out of time.
WorkTick(expired, late) ==
    LET timed == IF late THEN wallet_transfer_timeout(transfer).transfer ELSE transfer
        b == [ble EXCEPT !.abort = FALSE]
    IN  /\ FromQueue("TICK")
        /\ expired => ble.window
        /\ late => ble.secure /\ (Open(transfer) \/ transfer.state = "BUSY")
        /\ transfer' = IF ble.abort THEN wallet_transfer_disconnect(timed).transfer ELSE timed
        /\ ble' = IF expired THEN close_window(b) ELSE b
        /\ upload' = IF TickAborts(late) THEN NoUpload ELSE upload
        /\ Goto("worker", IF ResetWithoutLink THEN "unpair" ELSE "idle")
        /\ adv' = IF StockMode
                    THEN IF ResetWithoutLink THEN adv ELSE start_advertising(ble')
                  ELSE adv /\ ~expired
        /\ UNCHANGED <<durable, control_queue, enc, work>>

WorkResetOwner ==
    LET w == Head(control_queue)
    IN  /\ FromControl("RESET_OWNER")
        /\ IF ~ble.reset \/ w.ctl # ble.control_generation
             THEN UNCHANGED <<ble, adv, pc>>
             ELSE /\ ble' = request_termination(close_window(ble), w.conn, w.gen)
                  /\ adv' = FALSE
                  /\ IF w.conn = NoConn THEN Goto("worker", "unpair") ELSE UNCHANGED pc
        /\ LinkFrame

WorkHostReset ==
    LET r == wallet_transfer_disconnect(transfer)
    IN  /\ FromControl("HOST_RESET")
        /\ transfer' = r.transfer
        /\ upload' = IF r.action = "ABORT" THEN NoUpload ELSE upload
        /\ UNCHANGED <<durable, adv, ble, enc, work, pc>>

-----------------------------------------------------------------------------
HostTask ==
    \/ on_sync \/ on_reset \/ AdvertisingEnds \/ Disconnected
    \/ \E p \in Peers : Connected(p)
    \/ PasskeyAction \/ Paired \/ Encrypted \/ EncryptionFails
    \/ stock_host_control
    \/ \E m \in Messages : wallet_gatt_access(m)

UiTask ==
    \/ UiRender
    \/ wallet_ble_open_pairing_window
    \/ wallet_ble_close_pairing_window
    \/ wallet_ble_reset_owner
    \/ UiRequest
    \/ \E accept \in BOOLEAN : wallet_ble_confirm_passkey(accept)

Finish(t) == ResetUnpair(t) \/ ResetErase(t) \/ ResetDone(t) \/ ResetFailed(t)

WorkerTask ==
    \/ WorkerPoll \/ WorkerTimeout
    \/ WorkSync \/ WorkOpen \/ WorkClose \/ WorkConnect
    \/ WorkPasskey \/ WorkConfirm
    \/ EncCheck \/ EncSave \/ EncOwn \/ EncAuthorize
    \/ WorkRx \/ StoreBegin \/ StoreWrite
    \/ CommitGuard("guard1", "guard2") \/ CommitGuard("guard2", "marker")
    \/ CommitMarker
    \/ WorkDisconnect \/ WorkAdvComplete
    \/ \E expired, late \in BOOLEAN : WorkTick(expired, late)
    \/ WorkResetOwner \/ WorkHostReset
    \/ Finish("worker")

Next ==
    \/ \E readable \in BOOLEAN : Boot(readable)
    \/ PowerFails
    \/ HostTask
    \/ UiTask
    \/ Finish("ui")
    \/ on_tick
    \/ WorkerTask

Spec == Init /\ [][Next]_vars

\* The worker, the host's own events and the one second timer go on, a link
\* that was told to end does end, and a call of the user interface returns.
\* Nothing obliges a phone, the user, NVS or the power supply.
Fairness ==
    /\ WF_vars(WorkerTask)
    /\ WF_vars(on_sync) /\ WF_vars(stock_host_control) /\ WF_vars(on_tick)
    /\ WF_vars(link.dying /\ Disconnected)
    /\ WF_vars(UiRequest) /\ WF_vars(Finish("ui"))

FairSpec == Spec /\ Fairness

-----------------------------------------------------------------------------
(* Properties *)

WorkType ==
    [type : {"NONE", "SYNC", "OPEN", "CLOSE", "CONNECT", "PASSKEY", "CONFIRM",
             "ENCRYPTION", "RX", "DISCONNECT", "ADV_COMPLETE", "TICK",
             "RESET_OWNER", "HOST_RESET"},
     gen : Nat, ctl : 0 .. MaxCalls, conn : {NoConn, Handle},
     peer : Peers \cup {None}, ok : BOOLEAN, key : Passkeys \cup {0},
     seen : Passkeys \cup {0}, msg : Messages \cup {None}]

BleType ==
    [generation : Nat, control_generation : 0 .. MaxCalls,
     transfer_generation : Nat, conn : {NoConn, Handle}, synced : BOOLEAN,
     window : BOOLEAN, connected : BOOLEAN, secure : BOOLEAN,
     owner : Peers \cup {None}, peer : Peers \cup {None}, recovery : BOOLEAN,
     pairing : BOOLEAN, released : BOOLEAN, reset : BOOLEAN, abort : BOOLEAN,
     term : Nat,
     confirm : [gen : Nat, key : Passkeys \cup {0}, seen : Passkeys \cup {0}],
     passkey : Passkeys \cup {0}, event : BOOLEAN, level4 : BOOLEAN]

WorkerLabel ==
    {"idle", "wait", "store", "guard1", "guard2", "marker", "save", "own",
     "authorize", "unpair", "erase", "erased", "failed"}
UiLabel == {"idle", "request", "unpair", "erase", "erased", "failed"}

\* Every variable has its type and neither queue outgrows its length.
TypeOK ==
    /\ {nvs, bond} \subseteq Peers \cup {None} /\ approved \subseteq Peers
    /\ {up, syncdue, adv} \subseteq BOOLEAN
    /\ link \in [peer : Peers \cup {None}, dying : BOOLEAN,
                 sec : {"plain", "asking", "keyed", "secure"}]
    /\ ble \in BleType /\ transfer \in Transfer
    /\ queue \in Seq(WorkType) /\ Len(queue) <= QueueLength
    /\ control_queue \in Seq(WorkType) /\ Len(control_queue) <= QueueLength
    /\ upload \in [on : BOOLEAN, expected : 0 .. MaxLength, written : 0 .. MaxLength]
    /\ pc["worker"] \in WorkerLabel /\ pc["ui"] \in UiLabel
    /\ work \in WorkType /\ uwork \in WorkType
    /\ enc \in [peer : Peers \cup {None}, ok : BOOLEAN, match : BOOLEAN]
    /\ shown \in [pairing : BOOLEAN, released : BOOLEAN, key : Passkeys \cup {0}]

\* Only the owner gets a data link: whatever raced the pairing, a session is
\* secure only on a live encrypted link of the phone that both s_ble and NVS
\* name as the owner, while no reset or recovery is pending.
SecureIsOwner ==
    ble.secure =>
        /\ ble.connected /\ ble.conn = Handle
        /\ link.sec = "secure"
        /\ link.peer = ble.owner
        /\ nvs = ble.owner
        /\ ~ble.recovery /\ ~ble.reset

\* No phone has a bond with the device or a data link to it unless its
\* passkey was released on the device after the last reset.
OwnerApproved ==
    /\ bond \in approved \cup {None}
    /\ ble.secure => link.peer \in approved

\* Between two pieces of work the transfer and the store agree: no call is
\* outstanding, and a transfer that admits DATA or COMMIT has a staged upload
\* of the announced length, written exactly up to the offset it expects.
UploadAgrees ==
    pc["worker"] \notin {"store", "guard1", "guard2", "marker"} =>
        /\ ~Retry(transfer)
        /\ Open(transfer) =>
              upload = [on |-> TRUE, expected |-> transfer.expected,
                        written |-> transfer.received]

\* A reset that ends well leaves nothing of the old owner behind, but for a
\* record whose save is still in flight.
ResetWipes ==
    [][up' /\ ble.reset /\ ~ble'.reset /\ ~ble'.recovery =>
          /\ bond' = None /\ ble'.owner = None
          /\ nvs' = None \/ pc["worker"] = "own"]_vars

\* wallet_ble.h: confirm_passkey(true) releases the displayed key.  Whenever a
\* key was on the screen, it is the key that the button released.
ReleasedKeyWasShown ==
    ble.confirm.seen # 0 => ble.confirm.seen = ble.confirm.key

\* A requested reset comes to its end, the link it has to wait for included.
ResetEnds == ble.reset ~> ~ble.reset

\* A link whose session was ended on the device goes away: nothing can hold
\* the only connection with a session that is dead.
DeadLinkGoes ==
    (ble.conn = Handle /\ ~ble.connected) ~> (ble.conn = NoConn)

\* What a dead session left staged is discarded, or a later one begins anew.
StaleUploadGoes ==
    (upload.on /\ ble.transfer_generation # ble.generation) ~>
        (~upload.on \/ ble.transfer_generation = ble.generation)

-----------------------------------------------------------------------------
(* What the properties need to be inductive *)

Finishing(t) == pc[t] \in {"unpair", "erase", "erased", "failed"}
Checking == pc["worker"] \in {"save", "own", "authorize"}
AtStore == pc["worker"] \in {"store", "guard1", "guard2", "marker"}

\* A reset that has been called and is not over, apart from what is queued.
Resetting ==
    \/ \E t \in {"worker", "ui"} : Finishing(t)
    \/ pc["ui"] = "request" /\ uwork.type = "RESET_OWNER"

\* A device that is switched off does nothing.
PowerInv ==
    /\ pc \in [{"worker", "ui"} -> WorkerLabel \cup UiLabel]
    /\ ~up => /\ link = NoLink /\ ble = ZeroBle /\ queue = <<>> /\ control_queue = <<>>
              /\ pc = [t \in {"worker", "ui"} |-> "idle"]

\* Nothing is of a generation that has not been; a window that was ended is
\* not opened again before the call that ended it returns.
AgeInv ==
    /\ \A i \in DOMAIN control_queue :
          /\ control_queue[i].gen <= ble.generation
          /\ control_queue[i].ctl <= ble.control_generation
          /\ control_queue[i].type = "CONNECT" /\ control_queue[i].gen = ble.generation
                /\ control_queue[i].conn = ble.conn => ble.connected
    /\ \A i \in DOMAIN queue :
          /\ queue[i].gen <= ble.generation /\ queue[i].ctl <= ble.control_generation
          /\ queue[i].type = "OPEN" /\ pc["ui"] # "idle" => queue[i].ctl < ble.control_generation
    /\ work.gen <= ble.generation /\ ble.confirm.gen <= ble.generation
    /\ uwork.gen <= ble.generation /\ uwork.ctl <= ble.control_generation

\* The session is that of the link; a call that ends it ends what it may do.
SessionInv ==
    /\ link = NoLink <=> link.peer = None
    /\ ble.conn = Handle => link # NoLink /\ ble.generation > 0
    /\ ble.connected => ble.conn = Handle
    /\ ble.reset \/ pc["ui"] # "idle" \/ Finishing("worker") => ~ble.window /\ ~ble.secure
    /\ ble.reset => ~ble.connected

\* A passkey reaches the host for a link that the worker has heard of after the
\* end of any other, and not while a reset is carried out.
Ended == \E i \in DOMAIN control_queue : control_queue[i].type = "DISCONNECT"
KeyInv ==
    /\ ble.conn = Handle => \A i, j \in DOMAIN control_queue :
          control_queue[i].type = "CONFIRM" /\ control_queue[i].gen = ble.generation /\ i < j =>
              control_queue[j].type # "DISCONNECT"
    /\ ble.conn = Handle /\ ble.confirm.gen = ble.generation => ~Ended
    /\ link.sec = "keyed" => ble.conn = Handle /\ ~Ended
    /\ \A i \in DOMAIN control_queue :
          control_queue[i].type = "RESET_OWNER" /\ control_queue[i].conn = NoConn
             /\ control_queue[i].ctl = ble.control_generation /\ ble.reset => ble.conn = NoConn
    /\ pc["ui"] = "request" => uwork.type \in {"CLOSE", "RESET_OWNER"}
    /\ pc["ui"] = "request" /\ uwork.conn = NoConn =>
          link.sec # "keyed" /\ (ble.reset => ble.conn = NoConn)
    /\ \A t \in {"worker", "ui"} : Finishing(t) => link.sec # "keyed"

\* From the encryption to the authorization: the owner is the one that NVS
\* names, and the phone is the one that was looked at.
OwnerInv ==
    /\ pc["worker"] \in {"save", "own"} => ble.owner = None /\ enc.ok /\ enc.peer # None
    /\ Checking /\ work.gen = ble.generation /\ ble.connected =>
          link.peer = enc.peer /\ (enc.ok => link.sec = "secure")
    /\ pc["worker"] = "own" /\ ble.window => nvs = enc.peer
    /\ pc["worker"] = "authorize" /\ enc.ok /\ enc.match
       /\ (ble.window \/ ble.secure) =>
          ble.owner = enc.peer /\ enc.peer # None
    /\ ble.owner # None /\ ~ble.recovery /\ ~ble.reset => nvs = ble.owner
    /\ Resetting /\ ble.owner # None => ble.reset \/ ble.recovery

\* The store call that is under way is the one the transfer waits for.
CallInv ==
    /\ TransferInv(transfer)
    /\ AtStore =>
          /\ work.msg \in Message /\ transfer.pending = work.msg.type
          /\ pc["worker"] = "store" <=> transfer.pending \in {"BEGIN", "DATA"}
          /\ transfer.pending = "BEGIN" =>
                transfer.received = 0 /\ transfer.expected = work.msg.at
          /\ transfer.pending = "DATA" =>
                /\ work.msg.at = transfer.received /\ work.msg.n = transfer.plen
                /\ upload = [on |-> TRUE, expected |-> transfer.expected,
                             written |-> transfer.received]
    /\ \A i \in DOMAIN queue : queue[i].type = "RX" => queue[i].msg \in Message

BleInv ==
    /\ TypeOK /\ PowerInv /\ AgeInv /\ SessionInv /\ KeyInv /\ OwnerInv /\ CallInv
    /\ SecureIsOwner /\ UploadAgrees

\* Unless a reset may fail and be given up (stock_mode): who is let in was
\* approved after the last one.
ApprovedInv ==
    /\ bond \in approved \cup {None}
    /\ link.sec = "keyed" => link.peer \in approved
    /\ link.sec = "secure" /\ ble.connected => link.peer \in approved
    /\ \A t \in {"worker", "ui"} :
          /\ pc[t] \in {"erase", "erased"} => bond = None
          /\ pc[t] = "failed" => Faults
    /\ Resetting =>
          /\ ~(ble.connected /\ link.sec = "secure")
          /\ ble.reset \/ (bond = None /\ link.sec # "keyed")

\* Unless NVS may fail: an erased record comes back for a moment at most.
WipeInv ==
    \A t \in {"worker", "ui"} : pc[t] = "erased" => nvs = None \/ pc["worker"] = "own"
=============================================================================
