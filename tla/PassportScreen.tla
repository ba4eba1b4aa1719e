--------------------------- MODULE PassportScreen ---------------------------
(***************************************************************************)
(* The screen, its navigation and its capture: the main loop of main.c     *)
(* with passport_nav.c, passport_ui.c, passport_capture.c, and the session *)
(* that sends a captured frame (ScreenShot).                               *)
(*                                                                         *)
(* The loop is one task; w says where it is.  Next to it run LVGL's task,  *)
(* which flushes what the screen refers to, the BLE host, a phone that     *)
(* asks for screenshots and sends images, the wallet worker, which asks    *)
(* for a pairing and replaces the snapshot, and the clock.                 *)
(*                                                                         *)
(* A page belongs to a revision of the snapshot and is private or public.  *)
(* The five categories are one here.  What a screen says apart from its    *)
(* page is left out.                                                       *)
(***************************************************************************)
EXTENDS ScreenShot, Sequences

CONSTANTS Strips,        \* HEIGHT / STRIP: pieces of a capture
          Book,          \* the snapshots: of each page, whether it is private
          Capacities,    \* what the link may carry in a packet; 0: too little
          Touched,       \* bound: keys, clock, pairing, store and images move and
                         \* no packet gets through; otherwise they are still
          MaxSessions,   \* bound on the sessions of a behaviour
          MaxShots       \* bound on its captures

ASSUME PassportScreenAssumption ==
    /\ Strips \in Nat \ {0}
    /\ {MaxSessions, MaxShots} \subseteq Nat /\ MaxShots < Width
    /\ Capacities \subseteq Nat /\ Touched \in BOOLEAN
    /\ Book \in Seq(Seq(BOOLEAN))

VARIABLES
    link, sessions, heard,          \* the phone: its session, the packet it heard last
    pairing, store, idle,           \* the worker's question and revision; the clock
    nav, ui,                        \* navigation, and the other locals of app_main
    lvgl, page,                     \* what the screen refers to; the page buffer (Render)
    cap, shot, next_shot,           \* the capture and its session
    w, last,                        \* where the loop is, and last_session
    permit, still                   \* ghosts: what was revealed; no redraw in the capture

phone == <<link, sessions, heard>>
world == <<pairing, store, idle>>
screen == <<nav, ui, lvgl, page, permit>>
capture == <<cap, shot, next_shot, still>>
vars == <<phone, world, screen, capture, w, last>>

Screens == {"HOME", "CARD_MENU", "PAGE", "IMAGE"}
View == {"blank", "plain", "image", "page", "hidden", "pairing", "reset"}

NoPage == <<0, 0>>
Shown(view) == [view |-> view, page |-> NoPage]
Counts(revision) == IF revision = 0 THEN 0 ELSE Len(Book[revision])
Private(p) == Book[p[1]][p[2] + 1]

NewCapture ==
    [state |-> "IDLE", stage |-> "none", observer |-> FALSE, strip |-> "disarmed",
     mapped |-> FALSE, late |-> FALSE, frame |-> <<>>, cleanup |-> FALSE]

Init ==
    /\ link = 0 /\ sessions = 0 /\ heard = NoPacket
    /\ pairing = FALSE /\ store \in 0 .. Len(Book) /\ idle = 0
    /\ nav = [screen |-> "HOME", page |-> 0, revealed |-> FALSE]
    /\ ui = [revision |-> 0, pairing |-> FALSE, was |-> FALSE, reset |-> FALSE,
             dimmed |-> FALSE, dark |-> FALSE, dirty |-> TRUE, safe |-> FALSE,
             image |-> FALSE, transfer |-> FALSE]
    /\ lvgl = Shown("blank") /\ page = NoPage
    /\ cap = NewCapture /\ shot = NoShot /\ next_shot = 0
    /\ w = "poll" /\ last = 0 /\ permit = 0 /\ still = TRUE

-----------------------------------------------------------------------------
(* What goes on next to the loop *)

SessionStarts ==
    /\ link = 0 /\ sessions < MaxSessions
    /\ sessions' = sessions + 1 /\ link' = sessions'
    /\ UNCHANGED <<heard, world, screen, capture, w, last>>

SessionEnds ==
    /\ link # 0 /\ link' = 0
    /\ UNCHANGED <<sessions, heard, world, screen, capture, w, last>>

\* What the phone may send: an acknowledgement, perhaps a late one, of any
\* packet it heard, and the end of that frame.
Command ==
    {[op |-> "ACK", session |-> heard.session, sequence |-> n] :
        n \in IF heard = NoPacket THEN {} ELSE 0 .. heard.sequence}
    \cup {[op |-> op, session |-> heard.session] :
        op \in IF heard = NoPacket THEN {} ELSE {"DONE", "CANCEL"}}
    \cup {[op |-> op] : op \in {"BAD"} \cup IF next_shot < MaxShots THEN {"START"} ELSE {}}

\* A phone asks to be paired, or its attempt is over.  The loop asks for it only
\* while it polls, so that it changes only there.
PairingChanges ==
    /\ Touched /\ w = "poll" /\ pairing' = ~pairing
    /\ UNCHANGED <<phone, store, idle, screen, capture, w, last>>

\* An upload is committed (WalletStore).
Commits ==
    /\ Touched /\ store < Len(Book) /\ store' = store + 1
    /\ UNCHANGED <<phone, pairing, idle, screen, capture, w, last>>

\* Another 30 s, or then 60 s, without a key.  A turn reads the clock once, for
\* its keys.
TimePasses ==
    /\ Touched /\ w = "keys" /\ idle < 2 /\ idle' = idle + 1
    /\ UNCHANGED <<phone, pairing, store, screen, capture, w, last>>

\* A deadline passes: the session's, or the strip's.
ShotExpires ==
    /\ ~shot.late /\ (shot.phase \in {"CAPTURING", "COMPLETE"} \/ shot.awaiting)
    /\ shot' = [shot EXCEPT !.late = TRUE]
    /\ UNCHANGED <<phone, world, screen, cap, next_shot, still, w, last>>

StripExpires ==
    /\ cap.state = "BUSY" /\ cap.strip = "collecting" /\ ~cap.late
    /\ cap' = [cap EXCEPT !.late = TRUE]
    /\ UNCHANGED <<phone, world, screen, shot, next_shot, still, w, last>>

\* on_flush, in LVGL's task, of all of a strip.
Flush ==
    /\ cap.observer /\ cap.strip = "collecting"
    /\ cap' = [cap EXCEPT !.stage = lvgl.view, !.strip = "complete"]
    /\ UNCHANGED <<phone, world, screen, shot, next_shot, still, w, last>>

-----------------------------------------------------------------------------
(* passport_capture.c.  LVGL's lock may not be had in time. *)

Held(c) == c.stage # "none" \/ c.observer

\* What passport_capture_release leaves; release_capture tries again later,
\* and meanwhile only what it is to free matters.
Kept(c) ==
    [NewCapture EXCEPT !.stage = c.stage, !.observer = c.observer, !.strip = c.strip,
                       !.mapped = c.mapped, !.cleanup = TRUE]
Releases(c) == {NewCapture} \cup IF Held(c) THEN {Kept(c)} ELSE {}

Armed(c) == [c EXCEPT !.strip = "collecting", !.stage = "blank", !.late = FALSE]
Broken(c) == [c EXCEPT !.state = "ERROR", !.strip = "disarmed"]

\* passport_capture_start, of a capture that has been released.
Started(c) == Armed([c EXCEPT !.state = "BUSY", !.observer = TRUE])
NotStarted(c) ==
    {c, [c EXCEPT !.stage = "blank"], [Started(c) EXCEPT !.state = "ERROR", !.strip = "disarmed"]}

\* passport_capture_poll when a strip is complete: it is written to flash.
Written(c) == [c EXCEPT !.frame = Append(@, c.stage), !.strip = "disarmed"]
Mapped(c) ==
    [c EXCEPT !.state = "READY", !.observer = FALSE, !.stage = "none", !.mapped = TRUE]
Unmapped(c) ==
    [c EXCEPT !.state = "ERROR", !.observer = FALSE, !.stage = "none"]

-----------------------------------------------------------------------------
(* received, for the frames that matter here *)

Frozen == cap.cleanup \/ shot.phase = "CAPTURING"

\* What the screen refers to changes while the session is s.
Redrawn(s) == still' = (still /\ s.phase # "CAPTURING")

Current == last # 0 /\ link = last
Fail(s, c) == shot' = Failed(s) /\ cap' \in Releases(c)

\* A frame of a new session first ends the old one.
NewSession == last # 0 /\ last # link
Transfer == ui.transfer /\ ~NewSession
Bases ==
    IF NewSession THEN {[cap |-> c, shot |-> NoShot] : c \in Releases(cap)}
    ELSE {[cap |-> cap, shot |-> shot]}

Received ==
    /\ w = "poll" /\ link # 0 /\ last' = link
    /\ UNCHANGED <<phone, world, w>>

\* Mutant: what the screen shows is not asked.
StartableUnsafe(b) == ~pairing /\ ~b.cap.cleanup /\ ~Transfer
Startable(b) == ui.safe /\ ~pairing /\ ~b.cap.cleanup /\ ~Transfer

\* shot_command
ShotCommand(p) ==
    /\ Received
    /\ \E b \in Bases, capacity \in Capacities :
        LET id == next_shot + 1
            a == stock_shot_command(b.shot, p, IF p.op = "START" THEN id ELSE next_shot)
        IN  IF p.op = "START" /\ (~Startable(b) \/ capacity = 0)
              THEN cap' = b.cap /\ shot' = b.shot /\ UNCHANGED <<next_shot, still>>
            ELSE /\ next_shot' = IF p.op = "START" THEN id ELSE next_shot
                 /\ \E c \in IF a.release THEN Releases(b.cap) ELSE {b.cap} :
                      IF ~a.capture THEN shot' = a.shot /\ cap' = c /\ UNCHANGED still
                      ELSE IF c.cleanup THEN Fail(a.shot, c) /\ UNCHANGED still
                      ELSE \/ shot' = a.shot /\ cap' = Started(c) /\ still' = TRUE
                           \/ \E d \in NotStarted(c) : Fail(a.shot, d) /\ UNCHANGED still
    /\ ui' = [ui EXCEPT !.transfer = Transfer, !.dirty = @ \/ NewSession]
    /\ UNCHANGED <<nav, lvgl, page, permit>>

ImageAdmitted(b) == ~b.cap.cleanup /\ b.shot.phase # "CAPTURING"

\* BEGIN of an image: the screen forgets the one it shows.
ImageBegin ==
    /\ Touched /\ Received
    /\ \E b \in Bases, begun \in BOOLEAN :
        /\ cap' = b.cap /\ shot' = b.shot
        /\ \/ /\ ImageAdmitted(b)
              /\ lvgl' = IF ui.image THEN Shown("blank") ELSE lvgl
              /\ IF ui.image THEN Redrawn(b.shot) ELSE UNCHANGED still
              /\ ui' = [ui EXCEPT !.transfer = begun, !.image = FALSE,
                                  !.dirty = @ \/ NewSession \/ ui.image]
           \/ /\ ui.image \/ ~ImageAdmitted(b)
              /\ ui' = [ui EXCEPT !.transfer = Transfer, !.dirty = @ \/ NewSession]
              /\ UNCHANGED <<lvgl, still>>
    /\ UNCHANGED <<nav, page, permit, next_shot>>

\* Its END: a full screen image is shown.
ImageEnd ==
    /\ Touched /\ Received
    /\ \E b \in Bases, ready \in BOOLEAN :
        /\ cap' = b.cap /\ shot' = b.shot
        /\ ready => Transfer /\ ImageAdmitted(b)
        /\ nav' = IF ready THEN [nav EXCEPT !.screen = "IMAGE", !.revealed = FALSE] ELSE nav
        /\ permit' = IF ready THEN 0 ELSE permit
        /\ ui' = [ui EXCEPT !.transfer = Transfer /\ ~ImageAdmitted(b),
                            !.dirty = @ \/ NewSession \/ ready]
    /\ UNCHANGED <<lvgl, page, next_shot, still>>

\* The poll is over.  A session that has ended is forgotten, and
\* wallet_ble_get_info tells the rest of the turn of a pairing.
EndPoll ==
    /\ w = "poll" /\ w' = "tick"
    /\ IF last # 0 /\ ~Current
         THEN /\ shot' = NoShot /\ cap' \in Releases(cap) /\ last' = 0
              /\ ui' = [ui EXCEPT !.pairing = pairing, !.transfer = FALSE, !.dirty = TRUE]
         ELSE /\ ui' = [ui EXCEPT !.pairing = pairing]
              /\ UNCHANGED <<shot, cap, last>>
    /\ UNCHANGED <<phone, world, nav, lvgl, page, permit, next_shot, still>>

-----------------------------------------------------------------------------
(* shot_tick *)

\* The rendered view is kept until every strip is captured.
Turn == w' = IF cap'.cleanup \/ shot'.phase = "CAPTURING" THEN "poll" ELSE "keys"

\* Mutant: a release that failed is not tried again.
RetriedNever == {cap}
Retried == IF cap.cleanup THEN Releases(cap) ELSE {cap}

Tick ==
    /\ w = "tick"
    /\ \E c \in Retried :
         IF Current /\ TimedOut(shot)
           THEN Fail(shot, c) /\ Turn
           ELSE /\ cap' = c /\ UNCHANGED shot
                /\ IF Current /\ shot.phase = "CAPTURING" THEN w' = "capture"
                   ELSE IF Current /\ shot.phase \in Sending THEN w' = "send"
                   ELSE Turn
    /\ UNCHANGED <<phone, world, screen, next_shot, still, last>>

\* Mutant: the last strip is left out.
MoreOneShort(c) == Len(c.frame) + 1 < Strips

\* Strips are left when another one is on flash.
More(c) == Len(c.frame) < Strips

\* Between two strips the observer is kept, and armed for the next one.
CapturePoll ==
    /\ w = "capture"
    /\ LET c == Written(cap)
       IN  CASE cap.strip # "complete" ->
                  /\ IF cap.state = "ERROR" \/ cap.late
                       THEN Fail(shot, Broken(cap)) ELSE UNCHANGED <<shot, cap>>
                  /\ Turn
             [] cap.strip = "complete" /\ More(c) ->
                  /\ (cap' = Armed(c) /\ UNCHANGED shot) \/ Fail(shot, Broken(c))
                  /\ Turn
             [] cap.strip = "complete" /\ ~More(c) ->
                  \/ cap' = Mapped(c) /\ shot' = stock_shot_captured(shot) /\ w' = "send"
                  \/ (\E d \in {Broken(c), Unmapped(c), Mapped(c)} : Fail(shot, d)) /\ Turn
    /\ UNCHANGED <<phone, world, screen, next_shot, still, last>>

\* The packet may be refused, or be lost on its way to the phone.
Send ==
    /\ w = "send"
    /\ \E capacity \in IF Current /\ ~Touched THEN Capacities ELSE {0} :
         LET p == stock_shot_packet(shot, capacity)
         IN  IF capacity = 0 \/ (shot.packet # NoPacket /\ shot.packet.pixels > capacity)
               THEN Fail(shot, cap) /\ UNCHANGED heard
             ELSE IF p = NoPacket THEN UNCHANGED <<shot, cap, heard>>
             ELSE \/ Fail(shot, cap) /\ UNCHANGED heard
                  \/ /\ Current /\ heard' \in {heard, p}
                     /\ shot' = stock_shot_mark_sent([shot EXCEPT !.packet = p])
                     /\ UNCHANGED cap
    /\ Turn
    /\ UNCHANGED <<link, sessions, world, screen, next_shot, still, last>>

-----------------------------------------------------------------------------
(* Keys and clocks *)

passport_nav_hide(n) == [n EXCEPT !.revealed = FALSE]

Turned(n, by, count) == IF count = 0 THEN n ELSE [n EXCEPT !.page = (@ + by) % count]

\* What a key may make of the navigation; home_selection is left open.
passport_nav_key(n, key, count) ==
    CASE key = "BACK" ->
            {[screen |-> IF n.screen = "PAGE" THEN "CARD_MENU" ELSE "HOME",
              page |-> 0, revealed |-> FALSE]}
      [] key = "OK" /\ n.screen = "HOME" ->
            {[n EXCEPT !.screen = to] : to \in {"CARD_MENU", "IMAGE"}}
      [] key = "OK" /\ n.screen = "CARD_MENU" ->
            {[screen |-> "PAGE", page |-> 0, revealed |-> FALSE]}
      [] key = "OK" /\ n.screen = "PAGE" -> {[n EXCEPT !.revealed = ~@]}
      [] key = "UP" /\ n.screen = "PAGE" -> {Turned(n, count - 1, count)}
      [] key = "DOWN" /\ n.screen = "PAGE" -> {Turned(n, 1, count)}
      [] OTHER -> {n}

\* Mutant: the page number is kept.
RestartedKeepsPage(n) == passport_nav_hide(n)

\* Where a new revision leaves the navigation.
Restarted(n) == [passport_nav_hide(n) EXCEPT !.page = 0]

\* The start of a turn: a new revision hides, a change of the pairing wakes.
Noticed ==
    LET new == store # ui.revision
        asked == ui.pairing /\ ~ui.was
    IN  [nav |-> IF new THEN Restarted(nav) ELSE nav,
         ui |-> [ui EXCEPT !.revision = store, !.was = ui.pairing,
                           !.dimmed = @ /\ ~asked, !.dark = @ /\ ~asked,
                           !.dirty = @ \/ new \/ ui.pairing # ui.was],
         idle |-> IF asked THEN 0 ELSE idle]

\* A key wakes, answers a question, opens one, or navigates.
Pressed(t, key) ==
    LET u == [t.ui EXCEPT !.dirty = TRUE]
    IN  IF key = "NONE" THEN {t}
        ELSE IF t.ui.dimmed \/ t.ui.dark
          THEN {[t EXCEPT !.ui = [u EXCEPT !.dimmed = FALSE, !.dark = FALSE], !.idle = 0]}
        ELSE IF t.ui.pairing THEN {[t EXCEPT !.idle = 0]}
        ELSE IF t.ui.reset THEN {[t EXCEPT !.ui = [u EXCEPT !.reset = FALSE], !.idle = 0]}
        ELSE IF key = "UP_LONG" THEN {[t EXCEPT !.ui = u, !.idle = 0]}
        ELSE IF key = "DOWN_LONG" THEN {[t EXCEPT !.ui = [u EXCEPT !.reset = TRUE], !.idle = 0]}
        ELSE {[nav |-> n, ui |-> u, idle |-> 0] :
                n \in passport_nav_key(t.nav, key, Counts(u.revision))}

\* 30 s without a key hide and dim, 90 s darken.
Timed(t) ==
    LET dim == t.idle >= 1 /\ ~t.ui.dimmed
    IN  [nav |-> IF dim THEN passport_nav_hide(t.nav) ELSE t.nav,
         ui |-> [t.ui EXCEPT !.reset = @ /\ ~dim, !.dimmed = @ \/ dim, !.dirty = @ \/ dim,
                             !.dark = @ \/ t.idle >= 2],
         idle |-> t.idle]

Keys(key) ==
    /\ w = "keys" /\ (Touched \/ key = "NONE")
    /\ \E pressed \in Pressed(Noticed, key), again \in {FALSE, Touched} :
         LET t == Timed(pressed)
         IN  /\ nav' = t.nav /\ idle' = t.idle
             /\ ui' = [t.ui EXCEPT !.dirty = @ \/ again]
             /\ permit' = IF ~t.nav.revealed THEN 0
                          ELSE IF Noticed.nav.revealed THEN permit ELSE store
    /\ w' = IF ~ui'.dirty \/ ui'.dark THEN "poll" ELSE "draw"
    /\ UNCHANGED <<phone, pairing, store, lvgl, page, capture, last>>

-----------------------------------------------------------------------------
(* Drawing *)

\* Mutant: the screen keeps the page while its buffer is overwritten.
ClearsImage == ui.image

Clears == ui.image \/ nav.screen = "PAGE"
Cleared == lvgl' = Shown("blank") /\ Redrawn(shot) /\ ui' = [ui EXCEPT !.image = FALSE]
Reads == nav.screen = "PAGE" /\ ui.revision # 0

\* release_image.  Before a page is read into the buffer the screen forgets
\* it: wallet_store_read_page_at_revision begins.
Draw ==
    /\ w = "draw"
    /\ IF Clears THEN Cleared ELSE UNCHANGED <<lvgl, still, ui>>
    /\ page' = IF Reads THEN NoPage ELSE page
    /\ w' = IF Reads THEN "read" ELSE "render"
    /\ UNCHANGED <<phone, world, nav, permit, cap, shot, next_shot, last>>

DrawMissed ==
    /\ w = "draw" /\ Clears /\ w' = "poll"
    /\ \/ UNCHANGED <<lvgl, still, ui>>
       \/ ui.image /\ nav.screen = "PAGE" /\ Cleared
    /\ UNCHANGED <<phone, world, nav, page, permit, cap, shot, next_shot, last>>

\* Mutant: whatever revision is there is read.
ReadEndsAny ==
    /\ w = "read" /\ w' = "render"
    /\ page' = IF nav.page < Counts(store) THEN <<store, nav.page>> ELSE NoPage
    /\ UNCHANGED <<phone, world, nav, ui, lvgl, permit, capture, last>>

\* A commit raced the frame, or the page could not be read, or it is there.
ReadEnds ==
    /\ w = "read"
    /\ \/ /\ store # ui.revision /\ w' = "poll"
          /\ nav' = passport_nav_hide(nav) /\ permit' = 0 /\ UNCHANGED page
       \/ w' = "render" /\ UNCHANGED <<page, nav, permit>>
       \/ /\ store = ui.revision /\ w' = "render" /\ nav.page < Counts(store)
          /\ page' = <<store, nav.page>> /\ UNCHANGED <<nav, permit>>
    /\ UNCHANGED <<phone, world, ui, lvgl, capture, last>>

\* passport_ui_render of the view, with an image that could be had or not.  What
\* else the page buffer holds is not used again: the next drawing reads it anew.
Drawn(image) ==
    IF ui.reset THEN Shown("reset")
    ELSE IF ui.pairing THEN Shown("pairing")
    ELSE IF nav.screen = "PAGE"
      THEN IF page # NoPage /\ (~Private(page) \/ nav.revealed)
             THEN [view |-> "page", page |-> page] ELSE Shown("hidden")
    ELSE IF image THEN Shown("image") ELSE Shown("plain")

Render ==
    /\ w = "render" /\ w' = "poll"
    /\ \E image \in IF nav.screen \in {"HOME", "IMAGE"} THEN BOOLEAN ELSE {FALSE} :
         /\ lvgl' = Drawn(image)
         /\ ui' = [ui EXCEPT !.image = image, !.dirty = FALSE,
                             !.safe = nav.screen # "PAGE" /\ ~ui.pairing /\ ~ui.reset]
    /\ page' = lvgl'.page /\ Redrawn(shot)
    /\ UNCHANGED <<phone, world, nav, permit, cap, shot, next_shot, last>>

RenderMissed ==
    /\ w = "render" /\ w' = "poll"
    /\ UNCHANGED <<phone, world, screen, capture, last>>

Key == {"NONE", "OK", "BACK", "UP", "DOWN", "UP_LONG", "DOWN_LONG"}

Loop ==
    \/ (\E p \in Command : ShotCommand(p)) \/ ImageBegin \/ ImageEnd \/ EndPoll
    \/ Tick \/ CapturePoll \/ Send \/ \E key \in Key : Keys(key)
    \/ Draw \/ DrawMissed \/ ReadEnds \/ Render \/ RenderMissed

Next ==
    \/ SessionStarts \/ SessionEnds
    \/ PairingChanges \/ Commits \/ TimePasses \/ ShotExpires \/ StripExpires \/ Flush
    \/ Loop

Spec == Init /\ [][Next]_vars

\* The loop runs, a poll dispatches a bounded number of frames, LVGL gives its
\* lock back now and then, and deadlines pass.
Running ==
    \/ EndPoll \/ Tick \/ CapturePoll \/ Send \/ \E key \in Key : Keys(key)
    \/ Draw \/ DrawMissed \/ ReadEnds \/ Render \/ RenderMissed
FairSpec ==
    /\ Spec /\ WF_vars(Running) /\ SF_vars(Tick /\ ~cap'.cleanup)
    /\ WF_vars(ShotExpires) /\ WF_vars(StripExpires)

-----------------------------------------------------------------------------
(* Properties *)

TypeOK ==
    /\ link \in {0, sessions} /\ sessions \in 0 .. MaxSessions
    /\ last \in 0 .. sessions
    /\ {pairing, still} \subseteq BOOLEAN /\ store \in 0 .. Len(Book) /\ idle \in 0 .. 2
    /\ nav.screen \in Screens /\ nav.revealed \in BOOLEAN
    /\ ui.revision \in 0 .. store
    /\ nav.page = 0 \/ nav.page < Counts(ui.revision)
    /\ lvgl.view \in View /\ (lvgl.view = "page" <=> lvgl.page # NoPage)
    /\ permit \in 0 .. store /\ next_shot \in 0 .. MaxShots
    /\ cap.state \in {"IDLE", "BUSY", "READY", "ERROR"}
    /\ cap.strip \in {"disarmed", "collecting", "complete"}
    /\ shot.phase \in Phase /\ shot.offset \in 0 .. FrameSize /\ shot.retries \in 0 .. Retries
    /\ w \in {"poll", "tick", "capture", "send", "keys", "draw", "read", "render"}

\* A capture exposes no wallet page, passkey or reset question, and all of its
\* strips show one and the same drawing of the screen.
CaptureIsPublic ==
    /\ \A i \in DOMAIN cap.frame : cap.frame[i] \in {"blank", "plain", "image"}
    /\ shot.phase = "CAPTURING" => still

\* What the session reads is there: while it sends, the whole frame is mapped.
\* It is complete only when the phone has heard all of it.  LVGL's observer,
\* as long as it is installed, has its buffer, which is not forgotten.
SessionAgrees ==
    /\ shot.phase \in Sending => cap.mapped /\ Len(cap.frame) = Strips
    /\ shot.phase = "COMPLETE" => heard.kind = "END" /\ heard.session = shot.session
    /\ cap.observer => cap.stage # "none"
    /\ Held(cap) => Frozen

\* A private page is on the screen only because pages were revealed in this very
\* revision, and no more when the screen was dimmed after that, but for the time
\* in which the loop knows that it has to draw (ui.dirty).
PrivateShown == lvgl.view = "page" /\ Private(lvgl.page)
RevealHolds ==
    PrivateShown /\ ~ui.dirty => permit = lvgl.page[1] /\ permit = ui.revision /\ ~ui.dimmed

\* The screen never refers to the page buffer while it is being overwritten.
PageWhole == lvgl.view = "page" => page = lvgl.page

\* The phone hears a frame from its BEGIN to its END, each pixel once and in
\* order, except that a packet may be repeated.
Follows(p, q) ==
    \/ q = p
    \/ q.kind = "BEGIN" /\ q.session > (IF p = NoPacket THEN 0 ELSE p.session)
    \/ /\ p # NoPacket /\ q.session = p.session /\ q.sequence = (p.sequence + 1) % Width
       /\ q.offset = p.offset + p.pixels
       /\ q.kind = IF q.offset = FrameSize THEN "END" ELSE "DATA"
HeardInOrder == [][Follows(heard, heard')]_vars

\* The view is not frozen for ever.
Thaws == Frozen ~> ~Frozen

-----------------------------------------------------------------------------
(* The inductive invariant of the proofs (PassportScreenProofs) *)

Public == {"blank", "plain", "image"}
Pages == {NoPage} \cup (Nat \ {0}) \X Nat
Packet ==
    [kind : Sending, session : Nat \ {0}, sequence : Nat, offset : Nat, packets : Nat,
     pixels : Nat]

NavType == [screen : Screens, page : Nat, revealed : BOOLEAN]
UiType ==
    [revision : Nat, pairing : BOOLEAN, was : BOOLEAN, reset : BOOLEAN, dimmed : BOOLEAN,
     dark : BOOLEAN, dirty : BOOLEAN, safe : BOOLEAN, image : BOOLEAN, transfer : BOOLEAN]
CapType ==
    [state : {"IDLE", "BUSY", "READY", "ERROR"}, stage : View \cup {"none"},
     observer : BOOLEAN, strip : {"disarmed", "collecting", "complete"}, mapped : BOOLEAN,
     late : BOOLEAN, frame : Seq(Public), cleanup : BOOLEAN]
ShotType ==
    [phase : Phase, session : Nat, sequence : Nat, packets : Nat, offset : 0 .. FrameSize,
     pixels : BOOLEAN, packet : Packet \cup {NoPacket}, awaiting : BOOLEAN,
     retries : 0 .. Retries, late : BOOLEAN]

ShapeInv ==
    /\ nav \in NavType /\ ui \in UiType /\ cap \in CapType /\ shot \in ShotType
    /\ heard \in Packet \cup {NoPacket}
    /\ lvgl \in [view : View, page : Pages] /\ page \in Pages

\* Where the loop is tells what the session is in, and what a drawing has done.
LoopInv ==
    /\ w \in {"keys", "draw", "read", "render"} => ~Frozen
    /\ w = "capture" => shot.phase = "CAPTURING"
    /\ w = "send" => shot.phase \in Sending
    /\ w \in {"draw", "read", "render"} => ui.dirty
    /\ w = "read" => nav.screen = "PAGE" /\ lvgl.view = "blank" /\ page = NoPage
    /\ w = "render" /\ nav.screen = "PAGE" => page = NoPage \/ page[1] = ui.revision

\* What is revealed is of the revision the loop has, and the screen is bright.
RevealInv ==
    /\ page # NoPage => page[1] <= ui.revision
    /\ IF nav.revealed THEN permit = ui.revision /\ ~ui.dimmed ELSE permit = 0
    /\ PrivateShown /\ ~ui.dirty => nav.revealed /\ lvgl.page[1] = ui.revision

\* What LVGL's observer copies from a screen that shows view is public, and no
\* strip is without a session, except when a release could not be done.
CaptureOf(c, s, view) ==
    /\ s.phase = "CAPTURING" => view \in Public /\ Len(c.frame) < Strips
    /\ c.strip # "disarmed" => s.phase = "CAPTURING" \/ c.cleanup
    /\ c.strip = "complete" => c.stage \in Public \/ c.cleanup
    /\ s.phase \in Active => ~c.cleanup
    /\ s.phase \in Sending => c.mapped /\ Len(c.frame) = Strips
    /\ c.observer => c.stage # "none"
    /\ Held(c) => c.cleanup \/ s.phase = "CAPTURING"
CaptureInv ==
    /\ still /\ (ui.safe => lvgl.view \in Public)
    /\ CaptureOf(cap, shot, lvgl.view)

\* The packet that is kept is the one the session s is at; h is the packet
\* heard last, and n the last session's number.
PacketOf(p, s) ==
    /\ p.kind = s.phase /\ p.session = s.session /\ p.sequence = s.sequence
    /\ p.offset = s.offset /\ p.offset + p.pixels <= FrameSize
    /\ p.kind # "DATA" => p.pixels = 0
Older(h, s) == h = NoPacket \/ h.session < s.session
SessionOf(s, h, n) ==
    /\ s.session <= n /\ (h # NoPacket => h.session <= n)
    /\ s.awaiting <=> s.packet # NoPacket
    /\ s.awaiting => s.phase \in Sending /\ PacketOf(s.packet, s)
    /\ s.phase \in Active => s.session > 0
    /\ s.phase \in {"CAPTURING", "BEGIN"} => s.offset = 0 /\ s.sequence = 0
    /\ s.phase = "CAPTURING" => Older(h, s)
    /\ s.phase = "BEGIN" => Older(h, s) \/ h = s.packet
    /\ s.phase = "DATA" => s.offset < FrameSize
    /\ s.phase = "END" => s.offset = FrameSize
SendInv == SessionOf(shot, heard, next_shot)

\* While no sequence number is used twice, the phone is at most a packet behind.
Behind(h, s) ==
    /\ h # NoPacket /\ h.session = s.session
    /\ \/ h = s.packet
       \/ s.sequence = h.sequence + 1 /\ s.offset = h.offset + h.pixels
HeardBy(m, s, h) ==
    /\ s.phase \in {"DATA", "END"} => Behind(h, s) /\ 0 < s.sequence /\ s.sequence < Width
    /\ s.phase = "DATA" =>
         /\ m * (s.sequence - 1) <= s.offset
         /\ s.packet = NoPacket \/ s.packet.pixels >= m
              \/ s.packet.offset + s.packet.pixels = FrameSize
    /\ s.phase = "COMPLETE" => h.kind = "END" /\ h.session = s.session
HeardInv(m) == HeardBy(m, shot, heard)

\* Every packet of data carries m pixels or the rest, and no frame is so long
\* that a sequence number is used twice.
Fits(m) ==
    /\ m \in 1 .. MaxData /\ \A c \in Capacities : c = 0 \/ c >= m
    /\ FrameSize <= m * (Width - 2)

ScreenInv == TypeOK /\ ShapeInv /\ LoopInv /\ RevealInv /\ PageWhole /\ CaptureInv /\ SendInv
=============================================================================
