# A TLA+ model of the passport wallet firmware

The repository holds the firmware of a small ESP32 passport card (`main/`,
`components/bsp/`) and the Android application that feeds it (`android/`).  The
card keeps a read-only snapshot of wallet pages that one owner phone uploads
over BLE, and a stock service (profile, images, music, screenshots) that any
phone may use.  These modules model the wallet half (the flash store, the
transfer protocol, the owner-only link and the Android client of it), the stock
service's transport, its images and profile, its screenshots, and the main loop
with its screens.  `PROJECT.json` lists every
component, run, mutant, mapped definition, hazard and theorem.

## Inventory

| component | state it keeps | operations | who it meets | what makes it correct |
|---|---|---|---|---|
| snapshot store, `wallet_store.c` | two flash banks with markers, NVS pointer, `s_store` | init, begin, write, guarded commit, abort, get_info, page read | BLE worker writes, main loop reads, power fails | a snapshot is replaced as a whole; what is read is whole and of one revision |
| transfer protocol, `wallet_transfer.c` | `wallet_transfer_t` | input, complete, disconnect, timeout | called by the BLE worker | offset and length agree with the store |
| owner link, `wallet_ble.c` | `s_ble`, two queues, owner record in NVS, bond in the host | GAP and GATT callbacks, 13 kinds of work, window, confirm, reset | NimBLE host task, worker, main loop, timer | only an approved owner has a data link; a reset leaves nothing; nothing hangs |
| package format, `wallet_core.c` | none | CRC, header and page checks | store | a package is accepted iff it is what was announced |
| stock service, `stock_ble.c`, `stock_protocol.c` | session number, queue of writes, queue of packets, frame parser | connect, disconnect, subscribe, write, poll, notify, transmit event | host task, main loop | a frame is assembled from unbroken writes of one link; a packet reaches the link it is for; nothing waits for ever |
| stock content, `stock_content.c`, `stock_transfer.c`, `stock_avatar.c` | image partitions, leases, transfer sequence | begin, chunk, commit, lease, release | stock worker, main loop | an image with a record is whole; what is on the screen is never erased |
| stock profile, `stock_profile*.c` | fields in RAM and NVS | set, save, load, reconcile | stock worker, main loop | RAM follows NVS after a failed save |
| music, `stock_music.c`, `stock_rtttl.c` | one playback task, stop generation | play, stop | stock worker, playback task | a stopped song does not go on; one owner of the codec |
| capture, `passport_capture.c`, `stock_screenshot*.c` | strip buffer, session, retained notification | start, strip, send, cancel | main loop, LVGL, host task | what a phone receives is one public view, in order; the screen thaws |
| screens, `main.c`, `passport_ui.c`, `passport_nav.c` | page, screen, dimming, notices, leases | keys, timers, redraw | everything above | a hidden page is shown only after it was confirmed; a buffer is not overwritten under the display |
| Android sync client, `WalletBleClient.java` | connection, deadline, operation in flight | connect, write, poll status, close | Android callbacks and handlers, the device | success means committed, stopped means not committed; a transfer ends |
| Android stock client, `StockTransferSession.java` | chunk, acknowledgement | start, ack, timeout | device | chunks in order, once each |
| Android data, `WalletRepository.java` | preferences file | load, compare and save | activities | no lost update |
| Android screens, import, provider, rendering; BSP drivers; hardware demos; build tools | | | | not modelled, see below |

Hard behaviours, in the order of their weight: power failure between any two
flash or NVS operations of a commit; page reads while the other bank is erased;
handlers that give up the mutex for an NVS save while links come and go with
the same handle; display reads under a partition that is about to be erased;
a commit, a pairing or the dimming of the screen between a key and the drawing it
asked for; saves whose outcome is unknown; callbacks of a client that has closed;
work items dropped by full queues; a reset requested from the
user interface while the worker adopts an owner; ticks and disconnects that
arrive after the next session has begun.

## Modules

| module | what it is |
|---|---|
| `AtomicSnapshot` | what the store promises: one durable snapshot that changes as a whole, a visible one that follows it, a restart that shows the durable one |
| `WalletStore` | `wallet_store.c`, step by step; its refinement to `AtomicSnapshot`; its inductive invariant |
| `WalletStoreProofs` | the theorems about `WalletStore` |
| `WalletTransfer`, `WalletTransferProofs` | `wallet_transfer.c`, pure operators; what each of them keeps and changes, as lemmas |
| `WalletBle` | `wallet_ble.c` composed with `WalletTransfer` and the staged part of the store; its inductive invariants |
| `WalletBleProofs` | the theorems about `WalletBle` |
| `StockBle` | `stock_ble.c` and `stock_stream_feed`, with the calls of `wallet_ble.c` and `main.c` |
| `StockBleProofs`, `StockFrameProofs` | the theorems about `StockBle` |
| `StockTransfer` | `stock_transfer.c`, pure operators |
| `StockContent` | `stock_content.c`, `stock_profile_nvs.c` and the main loop's part in them, with `StockTransfer`; its inductive invariant |
| `StockContentProofs` | the theorems about `StockContent` |
| `ScreenShot` | `stock_screenshot_session.c`, pure operators |
| `PassportScreen` | the main loop with `passport_nav.c`, `passport_ui.c` and `passport_capture.c`, with `ScreenShot`; its inductive invariant |
| `PassportScreenProofs` | the theorems about `PassportScreen`, and lemmas about the operators of `ScreenShot` |
| `SyncClient` | `WalletBleClient.java` and `BleProtocol.java` against the device's side of a transfer, with `WalletTransfer`; its inductive invariant |
| `SyncClientProofs` | the theorems about `SyncClient` |
| `MCWalletStore`, `MCWalletBle`, `MCStockContent`, `MCPassportScreen`, `MCSyncClient` | packages, phones, messages, frames, snapshots, lengths for TLC, and the symmetry of phones; `StockBle` needs numbers only |

An operator whose comment begins with "Mutant" is a broken variant of the
definition below it.  No specification uses it; `PROJECT.json` says which
property notices it.

### WalletStore

Variables `data`, `mark`, `ptr` are the durable state (package area and marker
of each bank, NVS pointer).  `up` to `written` are the fields of `s_store`;
`wpc`, `wbank`, `wpkg`, `wgen`, `result` are the worker's position in
`wallet_store_begin` or `wallet_store_commit_guarded`, its locals and its return
value; `mutex`, `rpc`, `rrev`, `rpage`, `rmeta`, `rpix` are a page read of the
main loop.  `rpkg` is a ghost, the package of the revision the reader holds.

A package area has one cell per page record.  A cell is the record of a
package, erased, or torn; `data[b][i] = p` says that cell *i* is record *i* of
package *p*.  Both CRCs of a package match exactly when all its cells are the
package's: CRC32 is taken to be free of collisions, and `WellFormed` stands for
the header and page checks.  One `write` programs one record: the code takes any
length, and a shorter write only adds intermediate states of the same kind.

Every flash and NVS operation is a step of its own (`BeginErase`, `Write`,
`CommitSave`, `CommitMark`), with a variant that fails and leaves any
mixture of old, new and torn; `Crash` can follow any step.  A marker either
reached the flash whole or does not decode (its own CRC, `decode_marker`).  The
critical sections of the code are single steps that need `mutex = "free"`; the
page read holds the mutex over three steps.  `commit`'s guard is a free
Boolean here; what it depends on is in `WalletBle`.

`MaxCommits` bounds the markers written in a behaviour, `GenLimit` stands for
2^32.  `LoadFaults` lets the pointer be unreadable at boot, `ReadFaults` a bank.

### WalletBle

`ble` is `s_ble` field by field (deadlines, `last_error`, the stock service's
cancel fields and `advertising`, which nothing reads, are left out); `queue` and
`control_queue` are its two queues; `pc`, `work`, `enc`, `uwork` are the
positions and locals of the worker and of a user interface call.  `nvs` and
`bond` are durable.  `up`, `syncdue`, `adv` and `link` are the host: one
connection with one handle, as `CONFIG_BT_NIMBLE_MAX_CONNECTIONS` and
`CONFIG_BT_NIMBLE_MAX_BONDS` say in `sdkconfig.defaults`.  A terminated link is
`dying` until its `Disconnected` comes.  `upload` is the staged part of the
store.  `approved` is a ghost: the phones whose passkey was released on the
device since the last reset; `seen` in a confirmation is a ghost too: the key
on the screen when OK was pressed.

Each callback of the host task is an action named after the event or the
function; each kind of work is a `Work...` action.  `BLE_WORK_ENCRYPTION` is
four steps (`EncCheck`, `EncSave`, `EncOwn`, `EncAuthorize`) because the mutex is
free around `save_owner`; `BLE_WORK_RX` is one step up to the store call and one
per return or guard; `finish_owner_reset` is four, on whichever task runs it.
Where a handler takes the mutex twice with nothing but memory in between, the
two sections are one step: `process_tick` and `close_window`, `EncCheck`,
`WorkOpen`, `WorkClose`, `WorkConfirm`, and `WorkResetOwner`, whose three sections
(`wallet_ble.c:896-904`) set `reset_pending` twice.

Not in the module: failures of `init_common` and its rollback, clock values (a
deadline may have passed whenever a tick looks at it), the generation's wrap
at 2^32, `wallet_ble_get_info` and status reads (they change nothing), the calls
into the stock service.  `close_window(true)` has no caller.

### StockBle

`s` is `s_ble`: the connection and session, `blocked` and `pending_error`, the two
subscriptions, and the two rings `queue` and `tx` as sequences.  `event` says that
`s_tx_event` is queued, `host` where the host task is in `tx_event`.  `w` is the main
loop: its position in `stock_ble_poll`, `received` and `notify`, and their locals.
`stream` is `s_stream`, `s_parser_session` and `s_last_received`; `last` is
`last_session` of `main.c`.  Two tasks share `s` under a spin lock, so a critical
section is a step: `notify` is three (`NotifyCheck`, `NotifyPut`, `NotifyEvent`),
with whatever the other task does between them; a poll is one for its start, one or more
for each write, and one for its end.  A callback of the host task is one step,
except `tx_event`, which takes the lock once per packet.

A write is its serial number, its time, its session and its link; what its bytes do
to the parser is chosen freely: nothing, part of a frame, the end of one, a bad
header, too long a payload.  The link in writes and packets is a ghost: the
code has one handle for every link and relies on the session.  `frame` is
the frame being dispatched, as the writes it was made of, and `sent` the packet being
sent, with the link it was written for.

Not in the module: `stock_ble_init`, `register` and `deinit`, which run while the
host is stopped; the `polling` flag, since one task polls; reads of the identity
and the status.  A handler answers at most once, `shot_tick` any number of
times per turn of the loop; what they do besides is in `StockContent` and `PassportScreen`.

### StockContent

One task, the main loop, does everything here, but four others look on: the BLE host
ends and begins sessions (`link`), LVGL's task reads the pixels the screen refers to
(`lvgl`), flash and NVS may fail, and the power may.  `w.pc` is where the loop is, and
`Crash` can come between any two of its steps.  The session guard before an operation is a
step of its own (`EraseAsk`, `WriteAsk`, `RecordAsk`, `SaveAsk`), so a phone can disappear
between the guard and the operation it allows, which then goes on without it:
`stock_content.h:74-76` says that it "may finish after disconnect".  An operation and the guard
after it are one step, since a session that ends under the operation has ended before
it for that guard.  `LateIsLast` says that such an operation is the last one of its session.  `c` is `content`, `image` and `avatar` are the leases
of `main.c`, `ui` what it takes to decide what to draw.  Each operation of
`image_begin`, `image_data`, `image_end` and of the guarded save is an action, with
a failing variant when `Faults`; a save that is cancelled or fails may be durable.

A partition is `none`, `whole` or `broken`: it has no JPG1 record, one of a whole image,
or one of something else.  Which of them a record makes of it follows from `c.up`, a
ghost: the span that was erased, what was written onto it and by which session.  An
erase removes the record with its first sector (`EraseRecord`) and the rest after it.
`profile` is a text that stands for the fields a command copies, and the two fields
that decide what is drawn.  `StockTransfer` has the chunk protocol, as operators that
say what a chunk asks of the sink and what the sink's answer makes of the transfer.

Not in the module: decoding and generating avatar pixels (`frame` says which avatar
imgframe holds whole), JSON text, the time a command sets, music, the status
bytes for a phone, and the capture, which refuses frames of both types while it lasts.

### ScreenShot and PassportScreen

`ScreenShot` is the session that sends a captured frame: `START`, acknowledgements,
`FINISH` and `CANCEL`, packets and their repetition, and the timeouts.  A frame is
`FrameSize` units, a packet carries up to `MaxData`, and sequence numbers have `Width`
values, as 16 bits have 2^16.

`PassportScreen` is a turn of the main loop (`poll`, `tick`, `capture`, `send`, `keys`,
`draw`, `read`, `render`), with a step wherever it waits for the display lock, reads
the store, or leaves what another task sees.  `nav` and `ui` are the locals of
`app_main`, `lvgl` what the screen refers to, `page` what the page buffer
holds for the screen or the drawing under way.  A
page is its revision and its number, and `Book` says which pages are private.
`permit` is a ghost, the revision in which the user revealed pages, 0 for none; `still`
is another, that nothing is drawn during a capture.  Next to the loop are a phone
that asks for screenshots and sends images, a pairing, a commit, the clock and
the display task (`Flush`), which copies a strip as it flushes it.  Each lock, strip
write, map and notification may fail.  The bound `Touched` separates two halves
that would multiply: with it keys, clock, pairing and commits move and packets do not
get through, so only the capture itself matters; without it a phone sends everything
it can and the rest stands still.

Not in the module: what a screen says besides its page, the categories apart from one,
the pairing window and the reset call (they are in `WalletBle`), music.

### SyncClient

`c` is the client's fields (`gatt`, `state`, `operation`, frames and position, baseline);
`closed` and `gatt == null` are the same thing here.  The client runs on one thread:
`calls` are the callbacks posted to its handler, `tasks` the delayed ones.  `air` are
the requests Android has accepted.  `close()` removes what is posted, but an answer
that is on its way is posted after it, and `current(source)` has to drop it
(`DropStale`).  Every request may be refused by Android, answered with an error or
never answered because the link drops.

The device side is the same transfer (`WalletTransfer`) and worker as in `WalletBle`,
reduced to what a client can see of it: the data queue, the store call in progress,
the work for a disconnect, `abort_pending` with its tick, the idle timeout.  The work for a new link follows the old
links' DISCONNECTs in the control queue, as far as they found room there (`Secures`).  But
`enqueue` may have dropped one (`wallet_ble.c:1049` does not look), and a window that
closes, or an owner that is reset, under the link (`Closes`) gives the session a new generation,
which the DISCONNECT then names and the transfer does not (`wallet_ble.c:874`).  In both
cases only the tick discards the upload (`TickAborts`), and the next session may begin
while it is open.  Resets of the host are left to `WalletBle`.  The callbacks of an earlier
connection come before those of a later one, as posts to one handler do.  A marker may be
written and reported as failed.  `durable` is what was committed, `word` what the
user was told of each connection.

Lengths count frames of DATA; the length of a frame follows from the MTU and is left out.
The watchdog and the 90 seconds of `connectSelected` may come at any time; the 10
seconds of `BeginObservation` are a flag.

## What the runs check

Every property has a mutant: a plausible bug in the mapped code under which
TLC finds the property violated by the same configuration.

| run | checks | instance |
|---|---|---|
| `store` | `TypeOK`, `PageOfSnapshot`, `AtomicReplacement` | packages of 2 records and of 1, 3 commits, pointer may be lost |
| `store_faults` | `ActiveIntact`, `PageOfSnapshot`, `CallsReturn` | banks may be unreadable at boot, one package too large, 2 commits, fair |
| `ble_owner` | `TypeOK`, `SecureIsOwner`, `OwnerApproved`, `ResetWipes` | 2 phones (symmetric), 2 accepted links, 2 window or reset calls, stock mode, power failure |
| `ble_faults` | `SecureIsOwner` | with NVS and bond store failures and every call, 2 accepted links (one handle) |
| `ble_upload` | `UploadAgrees`, `SecureIsOwner` | wallet-only mode, all kinds of messages, host resets, window closed under the session, 2 accepted links |
| `ble_live` | `UploadAgrees`, `StaleUploadGoes`, `ResetEnds`, `DeadLinkGoes` | 1 phone that begins uploads, 2 accepted links, queues of one, 2 calls, fair |
| `ble_prompt` | `ReleasedKeyWasShown`, violated | 1 phone, 1 link, 2 passkeys |
| `stock` | `TypeOK`, `FrameIntact`, `PacketToItsLink`, `NoLostWakeup`, `Unblocks`, `WritesTaken` | 2 links, 2 writes, 1 tick, queues of 1 and 2, fair |
| `content` | `TypeOK`, `ImageWhole`, `ShownIntact`, `ProfileAgrees`, `KeptUntilBegin`, `LateIsLast` | 2 sessions, partitions of 2 units, 13 frames right and wrong, faults and power failure |
| `screen` | `TypeOK`, `CaptureIsPublic`, `RevealHolds`, `PageWhole` | 2 snapshots with 3 pages, 1 session, 1 capture, keys, pairing, clock |
| `shot` | `SessionAgrees`, `HeardInOrder`, `Thaws` | 2 sessions, 2 captures of 2 strips in 2 packets, 1 repetition, fair |
| `sync` | `DoneIsCommitted`, `StoppedIsStopped`, `Ends` | 2 connections, packages of 2 frames and then of 1 or 2, fair |

Why the bounds are enough.  Two packages and three commits let each bank be the
active one, be overwritten and be recovered, with a stale reader two revisions
behind.  Two records per package are the least that a torn write, an
incomplete upload and a wrong offset need.  Two phones are an owner and a
stranger; more would be more strangers.  `MaxGeneration` bounds the links of `WalletBle`:
`s_ble.generation` rises with every connect, disconnect, host reset, window that closes under a
session and owner reset, and from `MaxGeneration` on no link is accepted and the host does not
reset itself.  With 3 there are up to two accepted links, the second with the first's handle, which
are the one an event belongs to and the one that is up when it is handled; `ble_prompt`
needs one link and has 2.  After a power failure the count begins anew.  Queues of one
(eight in the code; two in `ble_prompt`) overflow within these bounds,
which is the case that matters; with eight they could not.  Two control calls are
a call and the one that overtakes it.  The theorems about `WalletBle` hold for any number of
each.  The wrap of the store's generation is beyond the bounds of `store`:
the theorem `StoreIsAtomic` covers it.

In `stock` the second link reuses the handle of the first, a write can meet a
full queue in the middle of a frame, and one tick (`Idle` is one) is enough for a
partial frame to grow too old.  `SessionLimit` is above what the links and writes of a
run can use up, as 2^32 is.

In `content` a partition of two units is the least in which an image can be too short,
too long, or longer than what was erased; the second session is the one that
could continue the first one's transfer.  In `screen` the first snapshot has a public and a
private page and the second one private page, so a commit can put a private page where a
public one was, or another private one in place of a revealed one.  In `shot` two units
per packet and three per frame give a full packet and a shorter last one, and the second
capture is the one an old acknowledgement could be taken for.  In `sync` the second
package is as long as the first or shorter, so the status of an old upload that is still open
can equal the new one or exceed it, and two frames leave an upload that is half done; the
theorems about `SyncClient` cover every length, longer ones too.  In `ble_live`
the phone is bonded already or is not let in: the confirmation of a passkey ends nothing.

### What `sync` excepts

`Ends` says that a transfer ends without the watchdog, *unless* the device has
discarded it because of the link before (`lost`).  That happens: `abort_pending` is
cleared only by the one second tick, and the tick resets whatever transfer there is
(`wallet_ble.c:654`).  A client that has sent BEGIN then waits for a status that does not
come, and its watchdog ends the wait after 25 seconds.

### A sentence of `stock_content.h` that is not checked

`stock_content.h:57` says that JSON "persists before publishing".  `profile_command`
compares the command with the profile in memory (`stock_content.c:108`) and saves only a
difference.  After a save that failed although it reached NVS, a command that asks for
what is still in memory is answered with success and saves nothing, so a restart shows
other values.  `ProfileAgrees` holds outside saves until NVS has failed, and again when
the session is forgotten and `reconcile_profile` has read what is stored.

### The divergence `ble_prompt` shows

`wallet_ble.h` says that `confirm_passkey(true)` "releases the displayed six-digit
key".  Each PASSKEY work draws a new key (`wallet_ble.c:763`), but the main loop
redraws only when `pairing_pending` or `passkey_released` changes (`main.c:325`).
When a phone's first attempt fails and it asks again on the same link,
`pairing_pending` stays true, the old key stays on the screen, and OK releases
the new one, since `wallet_ble_confirm_passkey` reads the key that `s_ble`
holds at that moment.  The prompt is redrawn after the release and then
shows the key in use, so the phone's user can still type the right one.

### A sentence of `stock_ble.h` that the code keeps only in spirit

`stock_ble.h:51` says that after an overflow the service "rejects writes until worker
reports" it.  `stock_ble_poll` accepts writes again in its first critical section
(`stock_ble.c:348`) and reports after it (`stock_ble.c:355`); it cannot do otherwise,
since `notify` refuses a blocked service.  A write that comes in between is queued
in the new session and begins a new frame.  No property states the sentence as
written; `FrameIntact` states what it is for.

### Fairness

`store_faults` assumes that the worker runs when it can, strongly for its steps
since the main loop takes the mutex again and again: a FreeRTOS mutex goes to the
highest waiting task, so a waiter is not passed over for ever; and that a page
read that has begun goes on.

The BLE runs assume weak fairness of the worker task, of the host's sync and
control event, of the one second timer, of the disconnect of a link that was
told to terminate (the controller reports it, or its supervision timeout does),
and of a user interface call that has begun.  Nothing obliges a phone to connect,
encrypt or write, the user to press anything, or power to stay.

`stock` assumes that the main loop goes on, that a turn of it ends (strongly:
`shot_tick` may send one notification after another, but a turn sends a few), and
that the host task runs the event it was given.

`shot` assumes that the main loop goes on, that the 30 seconds of a capture and the 3
seconds of a strip or packet pass, and, strongly, that an attempt to release the capture
succeeds if attempts go on for ever: it needs the display lock within 100 ms, which
the display task holds while it draws.

`sync` assumes that Android's main thread runs what is posted and due, that a device whose
link is up answers, that its worker goes on, and that 10 seconds pass.  It assumes
nothing of the watchdog, the user, or the link.

## What is proved

`WalletStoreProofs` proves four theorems about `WalletStore`, for every set of packages, every
size, every bank length, every `GenLimit > 2` and every number of commits:

* `TypeCorrect`: `Spec => []TypeOK`.
* `ActiveAlwaysIntact`: `Spec => []ActiveIntact`, whatever fails.  The inductive
  invariant is `StoreInv`: besides the types it says that a staged upload
  lives in the inactive bank, that this bank has no marker until its own commit
  writes one (`StageInv`), and what each step of begin and commit has already
  established (`CallInv`).  `ActiveIntact` alone is not inductive: nothing in it
  keeps a write away from the active bank.
* `PagesOfSnapshot`: `Spec => []PageOfSnapshot`, assuming `MaxCommits < GenLimit`,
  that is, no wrap.  A reader holds a revision number and nothing else, so
  after 2^32 commits the same number could name another package; the
  assumption is the weakest the code allows.  `GenInv` (generations count
  commits) and `ReadInv` (a revision names one package) strengthen it.
* `StoreIsAtomic`: `Spec => Abs!Spec`, the refinement, assuming that banks are
  readable at boot and that the pointer is, too, unless the counter does not wrap.
  `RecoveryInv` adds `PtrInv`: when both banks hold a committed snapshot, the
  pointer names the newer one.  Each step of the store is shown to be a step of
  `AtomicSnapshot` or a stutter: a marker write is `Replace`, the publication
  is `Publish`, the erase of an in-doubt bank is `TakeBack`.

Without the assumption on banks `StoreIsAtomic` is false, and the code is why: one
failed read of the pointed-to bank at boot makes init fall back to the other bank
*and save the pointer to it*, so the older snapshot stays.

`StockBleProofs` and `StockFrameProofs` prove four theorems about `StockBle`, for all
queue lengths, every idle time and every number of links, writes and ticks:

* `TypeCorrect`: `Spec => []TypeOK`, the bounds of both queues among it.
* `EveryPacketAwaited`: `Spec => []NoLostWakeup`, which needs no more than the types:
  a packet is queued in the step before its event is posted, and `tx_event` looks at
  the queue once more when it is done.
* `PacketsToTheirLink`: `Spec => []PacketToItsLink`, assuming `NoWrap`, that is,
  fewer sessions than session numbers.  With a wrap a packet of a session 2^32
  sessions ago could pass for one of today's; the code accepts that, and so does the
  theorem.  The inductive invariant is `LinkInv`: whatever names the current session
  (a local of the main loop, a queued write or packet, the parser, `last_session`)
  is of the link that is up, and the service is not blocked (`HeldInv`); every session
  is paid for by a link or a write (`SessionInv`).  Each step keeps the session or
  begins a new one with empty queues (`SessionStep`).
* `FramesIntact`: `Spec => []FrameIntact`, under the same assumption.  `ChainInv` adds
  that the parser's writes, the write in the hands of the poll and the queued ones are
  consecutive up to the last write of all, as long as their session lasts.  A write
  that is turned away breaks the chain: it ends the session (`reject_locked`), or
  there was nobody to name it.

### The owner-only link

`WalletBleProofs` proves five theorems about `WalletBle`, for every set of phones,
passkeys and messages, every queue length and every number of links and calls:

* `TypeCorrect`, `SessionIsOwners` and `UploadsAgree`: `Spec => []` of `TypeOK`,
  `SecureIsOwner` and `UploadAgrees`, whatever fails, crashes or is reset, in both modes.
* `OwnersApproved`: `Spec => []OwnerApproved`, assuming that the stock service and
  failures of NVS or of the bond store do not come together (`~(StockMode /\ Faults)`).
* `ResetsWipe`: `Spec => ResetWipes`, assuming `~Faults`.

The inductive invariant of the first three is `BleInv`.  `SecureIsOwner` alone is not
inductive: `secure` is set from locals (`work`, `enc`) that were read before a save to NVS,
during which links, windows and resets come and go.  The parts of `BleInv` say what
makes those locals harmless:

* `AgeInv`: no piece of work and no local has a generation from the future, so a test
  `generation == s_ble.generation` means what it says; a window that was ended is not opened
  again before the call that ended it has returned.
* `SessionInv`: a session has a link, and whatever ends it (a reset, a close) leaves
  neither window nor `secure` while it goes on.
* `KeyInv`: a passkey is given to the host only for a link that the worker has been told
  of after the end of the one before.  It is an ordering fact about the control queue: behind a
  CONFIRM of this generation no DISCONNECT is waiting.
* `OwnerInv`: from `EncCheck` to `EncAuthorize` the phone that was looked at is the one
  on the link, and what was saved is what NVS holds, as long as the work is not stale.
* `PowerInv` (nothing survives without power) and `CallInv` (the store call that is under
  way is the one that the transfer waits for) complete it.

`TransferInv` and the lemmas of `WalletTransferProofs` give `UploadsAgree` its half: what
`wallet_transfer_input`, `complete`, `disconnect` and `timeout` make of a transfer.

`ApprovedInv` and `WipeInv` strengthen `BleInv` for the last two theorems: while a
reset is carried out no link is let in, the bond is gone before the record is
erased, and a call that stands at "failed" has met a failure.  The hypothesis of
`OwnersApproved` is needed: with `StockMode` and `Faults` TLC finds a behaviour in which a
reset is carried out twice, by the call and by the tick of the worker, which both see
`reset_pending`.  The call's run fails and is given up (`wallet_ble.c:505` clears
`reset_pending` in stock mode); a phone bonded long ago connects and encrypts, and the window
is opened; then the worker's run removes the bond and the record and forgets the approvals,
and the encrypted link, which is told to end but is still there, becomes the owner's.
The hazard at that line is listed without a property for this reason.  `ResetsWipe` needs
`~Faults`, since a store that cannot be erased keeps what it holds.

### Images and profile

`StockContentProofs` proves six theorems about `StockContent`, for every capacity, every set
of frames, every number of sessions, with and without faults and power failures:

* `TypeCorrect`, `ImagesWhole`, `ShownAlwaysIntact` and `ProfilesAgree`: `Spec => []` of
  `TypeOK`, `ImageWhole`, `ShownIntact` and `ProfileAgrees`.
* `ImagesKept`: `Spec => KeptUntilBegin`, and `LateStepsAreLast`: `Spec => LateIsLast`, action
  properties.  `KeptUntilBegin` says which frame an image goes for, and says nothing of the
  session: the erase a guard has allowed may run after it.  `LateIsLast` says what may.

`ContentInv` is inductive.  `ImageWhole` speaks of records and of `c.up`, and
needs to know how they were made: `UploadInv` says that while a transfer is open the counters of
the transfer, the content and the ghost agree and that nothing with a record is erased or
written; `CallInv` says what has been tested at each label of the loop, and that it still
holds although the session may be gone; `LeaseInv` says that a lease is of a whole image
and that the screen forgets it before it is unmapped; `ProfileInv` bounds the time in which memory and
NVS may differ.

### The Android client

`SyncClientProofs` proves four theorems about `SyncClient`, for every number of connections
and packages of every length:

* `TypeCorrect` and `OneRequestAtATime`: `Spec => []` of `TypeOK` and of `OneRequest`, which
  are checked here by proof only.
* `DoneMeansCommitted` and `StoppedStaysStopped`: `Spec => []` of `DoneIsCommitted` and
  `StoppedIsStopped`.

`SyncInv` is inductive.  The two sides talk through requests in the air, callbacks that are
posted, a queue and a store call; `SyncInv` follows a message through all of them.
`CommitInv` says that wherever a COMMIT is, its client has marked it uncertain and
has not told the user that it was stopped; `WatchInv` says that a status in an answer is about
the client's own package once it has begun; `DeviceInv` says whose store call the device waits for.
A session may begin while an earlier link's upload is open, and a client may read that upload's
status.  `NewLinkInv` says that before its session a connection has nothing at the
device, and `StaleInv` that as long as an earlier upload is open under a session, the session's
own BEGIN is in the queue ahead of everything else it has sent; the device refuses that BEGIN
and gives the old upload up, before another message can be taken for one of the old upload.

### The screen and its capture

`PassportScreenProofs` proves six theorems about `PassportScreen`, for every book of
snapshots and pages, frames of every length and number of strips, every set of capacities, with
and without `Touched`:

* `TypeCorrect`, `CapturesArePublic`, `RevealsHold` and `PagesAreWhole`: `Spec => []` of
  `TypeOK`, `CaptureIsPublic`, `RevealHolds` and `PageWhole`.
* `SessionsAgree`: `Spec => []SessionAgrees`, and `FramesAreInOrder`: `Spec => HeardInOrder`, an
  action property; both for every `m` with `Fits(m)`.

`ScreenInv` is inductive.  The loop decides in one step and draws in a later one, and
waits for the display lock in between; `LoopInv` says what still holds at each
label, above all that the loop does not reach keys or drawing while a capture is
frozen.  `RevealInv` binds the permission to the revision that the loop has, and what LVGL
shows to that permission unless a redraw is due.  `CaptureInv` says that a strip is
copied only from a public view for a session that is capturing, and who has to
remove LVGL's observer when it is left behind.  `SendInv` says that the packet that is kept
for repetition is the one the session is at.

`HeardInv(m)` adds that the phone is at most one packet behind, and holds only if a
sequence number cannot come round within a frame.  `Fits(m)` is that condition: every packet
of data but the last carries at least `m` pixels, and `FrameSize <= m * (Width - 2)`.  It is needed: with
`Width = 4`, `FrameSize = 3` and one pixel per packet TLC finds an acknowledgement of an
earlier packet that is taken for a later one, and `SessionAgrees` fails.  In the code a frame has
76800 pixels, sequence numbers 16 bits, and a packet carries `(capacity - 17) & ~1` bytes, two a
pixel (`stock_screenshot_session.c:53-54`).  A capacity of 21 bytes or more gives `m = 2` and at
most 38400 packets, so `Fits(2)` holds.  At 20 bytes, the least that `main.c:110` and `main.c:144`
admit and what a link has that never negotiated its MTU, a packet carries one pixel, the
sequence number and the packet count of END wrap, and the two theorems do not apply: an
acknowledgement would have to be 65536 packets late to be mistaken.

The assumptions on constants are named in the modules (`PackagesAssumption`,
`CounterAssumption`, `FaultsAssumption`, `StockBleAssumption`, `BleAssumption` and so on) and
evaluated by TLC in every run.  Every inductive invariant was checked by TLC on small
instances of the model before it was proved.

### What is only model-checked

* All liveness (`CallsReturn`, `StaleUploadGoes`, `ResetEnds`, `DeadLinkGoes`, `Unblocks`,
  `WritesTaken`, `Thaws`, `Ends`): liveness under fairness and `ENABLED` are out of the
  prover's reach.
* What a recursive definition computes for every input, since induction over data is out
  of its reach too.

## Plan

In this order; each item is a module, its MC module, its runs and its mutants.

1. `StockBle` as an implementation of an abstract link that delivers whole frames one
   way and packets the other, each to the link it is of.
2. `StockMusic`: playback task and stop generations; a stop ends the song and the
   codec has one user.
3. `StockSession` and `Repository` on the Android side.
4. Pure modules checked against reference definitions: frame assembly
   (`stock_protocol.c`), RTTTL, display strip rounding, page offsets.
5. BSP buttons (debounce, long press) and audio recovery.

Runs are kept few: a new component joins an existing run, or takes one that asks a
question of its own.

## Not modelled

Nine in ten lines of code under `src/` are one generated table,
`assets/fonts/card_font_18.c`: bitmaps of glyphs, which only LVGL reads.

Not planned: pixel drawing and layout, JPEG decoding, register-level drivers, the
hardware demos that are not in the wallet image, HTTP price lookups, key
derivation, and the build and release tools: they transform data or talk to
hardware and have no interleavings of their own.
