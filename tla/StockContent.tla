---------------------------- MODULE StockContent ----------------------------
(***************************************************************************)
(* The stock profile and the user's two images: main/stock_content.c and   *)
(* main/stock_profile_nvs.c, with the part of the main loop that feeds     *)
(* them (received), forgets a dead session, reconciles the profile, and    *)
(* draws what they hold (main.c), and the built-in avatars' frame          *)
(* (stock_avatar.c).                                                       *)
(*                                                                         *)
(* One task, the main loop, does all of this; w.pc says where it is.  Next *)
(* to it the BLE host ends and begins sessions at any time, which the loop *)
(* sees when it asks its session guard; LVGL's task reads the pixels that  *)
(* the screen refers to at any time; and the power may fail.               *)
(*                                                                         *)
(* A flash or NVS operation takes long, and the session may end before it, *)
(* under it or after it.  The guard before an operation is a step of its   *)
(* own (EraseAsk, WriteAsk, RecordAsk, SaveAsk), so that between the guard *)
(* and the operation it allows anything may happen.  The operation and the *)
(* guard after it are one step: a session that ends under the operation    *)
(* has, for that guard, ended before it.                                   *)
(*                                                                         *)
(* An image partition has no JPG1 record (or one of length 0, which nobody *)
(* maps), a record of a whole image, or of a broken one.  Which it is      *)
(* follows from the ghost c.up, what was erased and written of the         *)
(* partition that is being received, and for which announced length.       *)
(***************************************************************************)
EXTENDS StockTransfer

CONSTANTS Capacity,        \* units of image data in a partition
          Sector,          \* units in a flash sector
          Texts, Avatars,  \* values of a profile's texts; built-in avatars
          Frames,          \* what a phone may send
          None,
          PollLength,      \* STOCK_BLE_QUEUE_LENGTH: frames one poll dispatches
          MaxSessions,     \* bound on the sessions of a behaviour
          Faults           \* flash and NVS operations may fail

Mode == {"AVATAR", "FULLSCREEN"}
Profile == [text : Texts, mode : Mode, avatar : Avatars \cup {"custom"}]

\* stock_profile_defaults
Defaults ==
    [text |-> CHOOSE t \in Texts : TRUE, mode |-> "AVATAR",
     avatar |-> CHOOSE a \in Avatars : TRUE]

\* A profile command: the fields it names have a new value, the others "same".
\* text stands for every field but two.  bad: not JSON, or no known field.
Command ==
    [type : {"PROFILE"}, bad : BOOLEAN, text : Texts \cup {"same"},
     mode : Mode \cup {"same"}, avatar : Avatars \cup {"same", "unknown"}]
ImageFrame == [type : {"IMAGE"}, chunk : Chunk]
OtherFrame == [type : {"OTHER"}]

ASSUME StockContentAssumption ==
    /\ {Capacity, Sector, PollLength} \subseteq Nat \ {0}
    /\ MaxSessions \in Nat
    /\ "custom" \notin Avatars /\ Avatars # {} /\ Texts # {}
    /\ None \notin Mode \cup Avatars \cup Profile
    /\ Frames \subseteq Command \cup ImageFrame \cup OtherFrame
    /\ Faults \in BOOLEAN

VARIABLES
    link, sessions,   \* the session the phone has, 0 for none, and how many
    nvs, flash,       \* the stored profile, or None, and the partitions
    frame,            \* imgframe: the avatar decoded into it, None if not whole
    c,                \* content
    image,            \* main.c's image: the mode it has a lease of, or None
    avatar,           \* main.c's avatar_name, None without a lease
    lvgl,             \* the pixels the screen refers to
    ui,               \* nav.screen, dirty, and profile_ready
    w, last,          \* where the loop is, and last_session
    doubt             \* ghost: NVS failed since the profile was last loaded

stored == <<nvs, flash, frame>>
display == <<image, avatar, lvgl, ui>>
vars == <<link, sessions, stored, c, display, w, last, doubt>>

\* Nothing is known of what the partition holds.
Unknown == [span |-> 0, len |-> 0, total |-> 0, by |-> 0, clean |-> FALSE]
NoFrame == [type |-> "OTHER"]

\* What stock_content_init leaves when the profile was read.
NewContent(profile) ==
    [profile |-> profile, transfer |-> NewTransfer, mode |-> "AVATAR", written |-> 0,
     erased |-> 0, initialized |-> TRUE, session |-> 0, up |-> Unknown]

Work(pc) ==
    [pc |-> pc, f |-> NoFrame, session |-> 0, cand |-> None, status |-> "OK",
     event |-> "NONE", budget |-> PollLength]

Loaded(n) == IF n = None THEN Defaults ELSE n

Init ==
    /\ link = 0 /\ sessions = 0
    /\ nvs = None /\ flash = [m \in Mode |-> "none"] /\ frame = None
    /\ c = NewContent(Defaults)
    /\ image = None /\ avatar = None /\ lvgl = "blank"
    /\ ui = [screen |-> "HOME", dirty |-> TRUE, ready |-> FALSE]
    /\ w = Work("boot") /\ last = 0 /\ doubt = FALSE

-----------------------------------------------------------------------------
(* Sessions, and the power *)

SessionStarts ==
    /\ link = 0 /\ sessions < MaxSessions /\ ui.ready
    /\ sessions' = sessions + 1 /\ link' = sessions'
    /\ UNCHANGED <<stored, c, display, w, last, doubt>>

SessionEnds ==
    /\ link # 0 /\ link' = 0
    /\ UNCHANGED <<sessions, stored, c, display, w, last, doubt>>

\* Only what is stored survives.
Crash ==
    /\ link' = 0 /\ sessions' = 0
    /\ c' = NewContent(Defaults)
    /\ image' = None /\ avatar' = None /\ lvgl' = "blank"
    /\ ui' = [screen |-> "HOME", dirty |-> TRUE, ready |-> FALSE]
    /\ w' = Work("boot") /\ last' = 0 /\ doubt' = FALSE
    /\ UNCHANGED stored

-----------------------------------------------------------------------------
(* Pieces of the loop *)

At(pc) == w.pc = pc /\ UNCHANGED <<link, sessions>>
Goto(pc) == w' = [w EXCEPT !.pc = pc]
Reply(status, event) ==
    w' = [w EXCEPT !.pc = "reply", !.status = status, !.event = event, !.cand = None]

session_allowed == link = w.session

\* Mutant: the transfer outlives its session.
disconnectKeepsTransfer(r) == [r EXCEPT !.session = 0]

\* session 0 stands for session_known = false.
stock_content_disconnect(r) ==
    [r EXCEPT !.transfer = Reset(@), !.session = 0, !.written = 0, !.erased = 0,
              !.up = Unknown]

\* The counters and the mode of a transfer that is not active are never read:
\* a BEGIN sets them all.
Settled(r) ==
    IF r.transfer.active THEN r
    ELSE [stock_content_disconnect(r) EXCEPT !.session = r.session, !.mode = "AVATAR"]

\* Mutant: the profile in memory is left as it is.
reconcileNothing(r) == c' = r /\ doubt' = FALSE

\* The profile is what was saved, or the content is closed until a restart.
reconcile_profile(r) ==
    \/ c' = [r EXCEPT !.profile = Loaded(nvs)] /\ doubt' = FALSE
    \/ Faults /\ c' = [r EXCEPT !.initialized = FALSE] /\ doubt' = doubt

IsBegin(f) == f.type = "IMAGE" /\ f.chunk.op = "BEGIN"

\* app_main up to its loop: without the profile there is no service.
Boot ==
    /\ At("boot") /\ w' = Work("poll")
    /\ \/ c' = NewContent(Loaded(nvs)) /\ ui' = [ui EXCEPT !.ready = TRUE]
       \/ Faults /\ c' = [c EXCEPT !.initialized = FALSE] /\ UNCHANGED ui
    /\ UNCHANGED <<stored, image, avatar, lvgl, last, doubt>>

-----------------------------------------------------------------------------
(* received, and stock_content_handle_guarded *)

\* A frame of a new session first ends the old one.
Receive(f) ==
    /\ At("poll") /\ link # 0 /\ w.budget > 0
    /\ w' = [Work(IF IsBegin(f) /\ image # None THEN "clear" ELSE "handle")
             EXCEPT !.f = f, !.session = link, !.budget = w.budget - 1]
    /\ last' = link
    /\ IF last # 0 /\ last # link
         THEN reconcile_profile(stock_content_disconnect(c)) /\ ui' = [ui EXCEPT !.dirty = TRUE]
         ELSE UNCHANGED <<c, doubt, ui>>
    /\ UNCHANGED <<stored, image, avatar, lvgl>>

EndPoll ==
    /\ At("poll") /\ w' = Work("forget")
    /\ UNCHANGED <<stored, c, display, last, doubt>>

\* Mutant: the lease goes while the screen still refers to the image.
ReleaseClearNot ==
    /\ At("clear") /\ Goto("unmap")
    /\ UNCHANGED <<stored, c, display, last, doubt>>

\* release_image: the screen forgets the image, then the lease goes.
ReleaseClear ==
    /\ At("clear") /\ lvgl' = "blank" /\ Goto("unmap")
    /\ UNCHANGED <<stored, c, image, avatar, ui, last, doubt>>

\* LVGL's lock was not had in time: a BEGIN is refused, or a turn is over.
ReleaseMissed ==
    /\ At("clear")
    /\ w' = IF w.session # 0 THEN [Work("poll") EXCEPT !.budget = w.budget] ELSE Work("poll")
    /\ UNCHANGED <<stored, c, display, last, doubt>>

ReleaseUnmap ==
    /\ At("unmap") /\ image' = None /\ ui' = [ui EXCEPT !.dirty = TRUE]
    /\ Goto(IF w.session # 0 THEN "handle" ELSE "avatar")
    /\ UNCHANGED <<stored, c, avatar, lvgl, last, doubt>>

\* Mutant: a picture nobody has is stored.
ApplyUnchecked(p, f) ==
    [text |-> IF f.text = "same" THEN p.text ELSE f.text,
     mode |-> IF f.mode = "same" THEN p.mode ELSE f.mode,
     avatar |-> IF f.avatar = "same" THEN p.avatar ELSE f.avatar]

\* What a profile command makes of profile p.
Apply(p, f) ==
    [text |-> IF f.text = "same" THEN p.text ELSE f.text,
     mode |-> IF f.mode = "same" THEN p.mode ELSE f.mode,
     avatar |-> IF f.avatar \in Avatars THEN f.avatar ELSE p.avatar]

profile_command(r, f) ==
    LET cand == Apply(r.profile, f)
    IN  IF f.bad
          THEN \E status \in {"0x13", "0x14"} : Reply(status, "NONE") /\ c' = r
        ELSE IF f.mode # "same" /\ r.transfer.active
          THEN Reply("0x1b", "NONE") /\ c' = r
        ELSE IF cand # r.profile
          THEN w' = [w EXCEPT !.pc = "save", !.cand = cand] /\ c' = r
        ELSE Reply("OK", "PROFILE") /\ c' = r

\* Mutant: a BEGIN is received in the mode of the one before it.
image_frame_in_old_mode(r, m) ==
    LET ask  == Ask(r.transfer, "IMAGE", Capacity, m)
        next == [r EXCEPT !.transfer = ask.transfer]
    IN  /\ c' = IF ask.sink = "NONE" THEN Settled(next) ELSE next
        /\ CASE ask.sink = "NONE"  -> Reply(ask.status, "NONE")
             [] ask.sink = "BEGIN" -> Goto("erase")
             [] ask.sink = "DATA"  -> Goto("write")
             [] ask.sink = "END"   -> Goto("meta")

\* The receiving mode is fixed by a BEGIN, also by one that is then refused.
image_frame(r, m) ==
    IF m.op = "BEGIN" /\ m.whole /\ image = r.profile.mode
      THEN Reply("0x1b", "NONE") /\ c' = r
    ELSE LET mode == IF m.op = "BEGIN" /\ m.whole THEN r.profile.mode ELSE r.mode
             ask  == Ask(r.transfer, "IMAGE", Capacity, m)
             next == [r EXCEPT !.transfer = ask.transfer, !.mode = mode]
         IN  /\ c' = IF ask.sink = "NONE" THEN Settled(next) ELSE next
             /\ CASE ask.sink = "NONE"  -> Reply(ask.status, "NONE")
                  [] ask.sink = "BEGIN" -> Goto("erase")
                  [] ask.sink = "DATA"  -> Goto("write")
                  [] ask.sink = "END"   -> Goto("meta")

Handle ==
    /\ At("handle")
    /\ LET r == IF c.session = w.session THEN c
                ELSE [stock_content_disconnect(c) EXCEPT !.session = w.session]
       IN  IF ~c.initialized THEN Reply("0x16", "NONE") /\ UNCHANGED c
           ELSE IF ~session_allowed THEN Reply("0x12", "NONE") /\ c' = r
           ELSE CASE w.f.type = "PROFILE" -> profile_command(r, w.f)
                  [] w.f.type = "IMAGE"   -> image_frame(r, w.f.chunk)
                  [] w.f.type = "OTHER"   -> Reply("0x18", "NONE") /\ c' = r
    /\ UNCHANGED <<stored, display, last, doubt>>

\* The sink's answer to the transfer, and the reply unless a save follows.
SinkTold(rc, r) ==
    LET told == Told(r.transfer, "IMAGE", w.f.chunk, rc)
        next == [r EXCEPT !.transfer = told.transfer]
    IN  /\ c' = Settled(next)
        /\ IF told.completed /\ r.mode = "AVATAR"
             THEN w' = [w EXCEPT !.pc = "save", !.cand = [r.profile EXCEPT !.avatar = "custom"]]
             ELSE Reply(told.status, IF told.completed THEN "FULLSCREEN_READY" ELSE "NONE")

\* The sectors that an image of n units takes, in units.
Rounded(n) == ((n + Sector - 1) \div Sector) * Sector

-----------------------------------------------------------------------------
(* The image sink: a guard, a flash operation, and the guard after it *)

SinkAsk(pc, operation) ==
    /\ At(pc)
    /\ IF session_allowed THEN Goto(operation) /\ UNCHANGED c ELSE SinkTold("INVALID", c)
    /\ UNCHANGED <<stored, display, last, doubt>>

\* image_begin
EraseAsk == SinkAsk("erase", "erasing")

\* The first sector, with the JPG1 record, is erased first.
EraseRecord ==
    /\ At("erasing")
    /\ \/ /\ flash' = [flash EXCEPT ![c.mode] = "none"]
          /\ c' = [c EXCEPT !.up = Unknown] /\ Goto("erase_rest")
       \/ Faults /\ SinkTold("IO", c) /\ UNCHANGED flash
    /\ UNCHANGED <<nvs, frame, display, last, doubt>>

EraseRest ==
    /\ At("erase_rest")
    /\ \/ LET n == w.f.chunk.n
          IN  IF session_allowed
                THEN SinkTold("OK",
                        [c EXCEPT !.written = 0, !.erased = Rounded(n),
                                  !.up = [span |-> Rounded(n), len |-> 0, total |-> n,
                                          by |-> w.session, clean |-> TRUE]])
                ELSE SinkTold("INVALID", c)
       \/ Faults /\ SinkTold("IO", c)
    /\ UNCHANGED <<stored, display, last, doubt>>

\* image_data
WriteAsk ==
    /\ At("write")
    /\ LET full == c.written > c.erased \/ w.f.chunk.n > c.erased - c.written
       IN  CASE full -> SinkTold("LIMIT", c)
             [] ~full /\ ~session_allowed -> SinkTold("INVALID", c)
             [] ~full /\ session_allowed -> Goto("writing") /\ UNCHANGED c
    /\ UNCHANGED <<stored, display, last, doubt>>

\* n units are written after the first c.written ones: they are in place when
\* they continue what is there, on erased flash, in the session of the BEGIN.
Programmed(n) ==
    [c EXCEPT !.written = @ + n, !.up.len = c.written + n,
              !.up.clean = /\ @ /\ c.up.len = c.written /\ c.written + n <= c.up.span
                           /\ w.session = c.up.by]

\* Under a record they break its image.
Overwritten == [flash EXCEPT ![c.mode] = IF @ = "none" THEN @ ELSE "broken"]

\* A write that fails may have had its effect.
WriteData ==
    /\ At("writing")
    /\ \/ /\ flash' = Overwritten
          /\ IF session_allowed THEN SinkTold("OK", Programmed(w.f.chunk.n))
                                ELSE SinkTold("INVALID", c)
       \/ Faults /\ flash' \in {flash, Overwritten} /\ SinkTold("IO", c)
    /\ UNCHANGED <<nvs, frame, display, last, doubt>>

\* image_end
RecordAsk == SinkAsk("meta", "recording")

\* What a partition is when its record says the length c.written.
Recorded ==
    IF c.written = 0 THEN "none"
    ELSE IF c.up.clean /\ c.written = c.up.total /\ c.written = c.up.len
      THEN "whole" ELSE "broken"

WriteRecord ==
    /\ At("recording")
    /\ LET done == [flash EXCEPT ![c.mode] = Recorded]
       IN  \/ /\ flash' = done
              /\ SinkTold(IF session_allowed THEN "OK" ELSE "INVALID", c)
           \/ Faults /\ flash' \in {flash, done} /\ SinkTold("IO", c)
    /\ UNCHANGED <<nvs, frame, display, last, doubt>>

-----------------------------------------------------------------------------
(* stock_profile_nvs_save_guarded, and what its callers do with its result *)

Saved ==
    /\ c' = [c EXCEPT !.profile = w.cand]
    /\ Reply("OK", IF w.f.type = "PROFILE" THEN "PROFILE" ELSE "AVATAR_READY")
    /\ UNCHANGED doubt

NotSaved == Reply("0x16", "NONE") /\ UNCHANGED c
SaveFails == NotSaved /\ doubt' = TRUE
SaveCancelled == NotSaved /\ UNCHANGED doubt

\* The guards before, between and after nvs_flash_init and nvs_open, which
\* change nothing.
SaveAsk ==
    /\ At("save")
    /\ IF session_allowed THEN Goto("set") /\ UNCHANGED <<c, doubt>> ELSE SaveCancelled
    /\ UNCHANGED <<stored, display, last>>

\* Mutant: no guard between nvs_set_blob and nvs_commit.
SaveSetUnguarded ==
    /\ At("set")
    /\ nvs' \in {nvs, w.cand}
    /\ \/ Goto("commit") /\ UNCHANGED <<c, doubt>>
       \/ Faults /\ SaveFails
    /\ UNCHANGED <<flash, frame, display, last>>

\* nvs_set_blob, and the guard before nvs_commit.  The value may be stored
\* already after the first of them, also when it reports an error.
SaveSet ==
    /\ At("set")
    /\ nvs' \in {nvs, w.cand}
    /\ \/ session_allowed /\ Goto("commit") /\ UNCHANGED <<c, doubt>>
       \/ ~session_allowed /\ SaveCancelled
       \/ Faults /\ SaveFails
    /\ UNCHANGED <<flash, frame, display, last>>

SaveCommit ==
    /\ At("commit")
    /\ \/ nvs' = w.cand /\ IF session_allowed THEN Saved ELSE SaveCancelled
       \/ Faults /\ nvs' \in {nvs, w.cand} /\ SaveFails
    /\ UNCHANGED <<flash, frame, display, last>>

\* The last guard of the call, and the rest of received.
Finish ==
    /\ At("reply")
    /\ w' = [Work("poll") EXCEPT !.budget = w.budget]
    /\ IF session_allowed
         THEN /\ ui' = [ui EXCEPT !.dirty = @ \/ w.event # "NONE",
                                  !.screen = IF w.event = "FULLSCREEN_READY" THEN "IMAGE" ELSE @]
              /\ UNCHANGED <<c, doubt>>
         ELSE /\ reconcile_profile(stock_content_disconnect(c))
              /\ ui' = [ui EXCEPT !.dirty = TRUE]
    /\ UNCHANGED <<stored, image, avatar, lvgl, last>>

-----------------------------------------------------------------------------
(* The rest of a turn of the loop *)

Forget ==
    /\ At("forget") /\ Goto("keys")
    /\ IF last # 0 /\ link # last
         THEN /\ reconcile_profile(stock_content_disconnect(c))
              /\ last' = 0 /\ ui' = [ui EXCEPT !.dirty = TRUE]
         ELSE UNCHANGED <<c, doubt, last, ui>>
    /\ UNCHANGED <<stored, image, avatar, lvgl>>

\* A key may lead to any screen; the clock makes the screen dirty again.
Keys ==
    /\ At("keys")
    /\ \/ \E screen \in {"HOME", "IMAGE", "OTHER"} :
             ui' = [ui EXCEPT !.screen = screen, !.dirty = TRUE]
       \/ UNCHANGED ui
    /\ w' = IF ~ui'.dirty THEN Work("poll")
            ELSE [w EXCEPT !.pc = IF image # None THEN "clear" ELSE "avatar"]
    /\ UNCHANGED <<stored, c, image, avatar, lvgl, last, doubt>>

\* release_avatar, when the profile names another picture.
OtherAvatar == avatar # None /\ avatar # c.profile.avatar

KeepAvatar ==
    /\ At("avatar") /\ ~OtherAvatar /\ Goto("view")
    /\ UNCHANGED <<stored, c, display, last, doubt>>

ReleaseAvatar ==
    /\ At("avatar") /\ OtherAvatar /\ lvgl' = "blank" /\ Goto("unmap_avatar")
    /\ UNCHANGED <<stored, c, image, avatar, ui, last, doubt>>

ReleaseAvatarMissed ==
    /\ At("avatar") /\ OtherAvatar /\ w' = Work("poll")
    /\ UNCHANGED <<stored, c, display, last, doubt>>

ReleaseAvatarUnmap ==
    /\ At("unmap_avatar") /\ avatar' = None /\ Goto("view")
    /\ ui' = [ui EXCEPT !.dirty = TRUE]
    /\ UNCHANGED <<stored, c, image, lvgl, last, doubt>>

\* stock_avatar_prepare: imgframe is erased, decoded into and mapped, which
\* may fail on the way; a lease is kept from one frame to the next.
PrepareAvatar(name) ==
    \/ frame' = name /\ avatar' = name
    \/ Faults /\ frame' = None /\ avatar' = None
    \/ Faults /\ UNCHANGED <<frame, avatar>>

\* stock_content_image_acquire; main.c gives up a JPEG it cannot size.
Acquirable(m) ==
    /\ c.initialized
    /\ ~(c.transfer.active /\ c.mode = m)
    /\ flash[m] # "none"

View ==
    /\ At("view") /\ Goto("render")
    /\ LET m == IF ui.screen = "HOME" THEN "AVATAR" ELSE "FULLSCREEN"
           custom == m = "FULLSCREEN" \/ c.profile.avatar = "custom"
       IN  IF ~ui.ready \/ ui.screen = "OTHER" THEN UNCHANGED <<image, avatar, frame>>
           ELSE IF ~custom
             THEN /\ IF avatar = None THEN PrepareAvatar(c.profile.avatar)
                                      ELSE UNCHANGED <<avatar, frame>>
                  /\ UNCHANGED image
           ELSE /\ \/ Acquirable(m) /\ image' = m
                   \/ UNCHANGED image
                /\ UNCHANGED <<avatar, frame>>
    /\ UNCHANGED <<nvs, flash, c, lvgl, ui, last, doubt>>

Picture ==
    IF image # None THEN image
    ELSE IF ui.screen = "HOME" /\ ui.ready /\ avatar # None /\ c.profile.avatar # "custom"
      THEN "builtin" ELSE "plain"

RenderDone ==
    /\ At("render") /\ w' = Work("poll")
    /\ lvgl' = Picture /\ ui' = [ui EXCEPT !.dirty = FALSE]
    /\ UNCHANGED <<stored, c, image, avatar, last, doubt>>

RenderMissed ==
    /\ At("render") /\ w' = Work("poll") /\ image' = None
    /\ UNCHANGED <<stored, c, avatar, lvgl, ui, last, doubt>>

Loop ==
    \/ Boot \/ EndPoll \/ ReleaseClear \/ ReleaseMissed \/ ReleaseUnmap \/ Handle
    \/ EraseAsk \/ EraseRecord \/ EraseRest \/ WriteAsk \/ WriteData
    \/ RecordAsk \/ WriteRecord \/ SaveAsk \/ SaveSet \/ SaveCommit \/ Finish
    \/ Forget \/ Keys \/ View
    \/ KeepAvatar \/ ReleaseAvatar \/ ReleaseAvatarMissed \/ ReleaseAvatarUnmap
    \/ RenderDone \/ RenderMissed

Next ==
    \/ SessionStarts \/ SessionEnds \/ Crash
    \/ \E f \in Frames : Receive(f)
    \/ Loop

Spec == Init /\ [][Next]_vars

-----------------------------------------------------------------------------
(* Properties *)

WorkPc ==
    {"boot", "poll", "clear", "unmap", "handle", "erase", "erasing", "erase_rest", "write",
     "writing", "meta", "recording", "save", "set", "commit", "reply", "forget", "keys",
     "avatar", "unmap_avatar", "view", "render"}

Upload ==
    [span : 0 .. Rounded(Capacity), len : 0 .. Capacity, total : 0 .. Capacity,
     by : 0 .. MaxSessions, clean : BOOLEAN]
Content ==
    [profile : Profile, transfer : TransferState, mode : Mode,
     written : 0 .. Capacity, erased : 0 .. Rounded(Capacity),
     initialized : BOOLEAN, session : 0 .. MaxSessions, up : Upload]
LoopState ==
    [pc : WorkPc, f : Frames \cup {NoFrame}, session : 0 .. MaxSessions,
     cand : Profile \cup {None}, status : Status,
     event : {"NONE", "PROFILE", "AVATAR_READY", "FULLSCREEN_READY"},
     budget : 0 .. PollLength]

\* Every variable has its type: no counter of a transfer leaves the partition.
TypeOK ==
    /\ link \in {0, sessions} /\ sessions \in 0 .. MaxSessions
    /\ nvs \in Profile \cup {None}
    /\ flash \in [Mode -> {"none", "whole", "broken"}]
    /\ frame \in Avatars \cup {None}
    /\ c \in Content
    /\ image \in Mode \cup {None} /\ avatar \in Avatars \cup {None}
    /\ lvgl \in Mode \cup {"blank", "plain", "builtin"}
    /\ ui \in [screen : {"HOME", "IMAGE", "OTHER"}, dirty : BOOLEAN, ready : BOOLEAN]
    /\ w \in LoopState
    /\ last \in 0 .. MaxSessions /\ doubt \in BOOLEAN

\* An image with a JPG1 record is the whole of one transfer, of the length its
\* BEGIN announced, written in order by one session onto erased flash,
\* whatever failed and wherever the power did.
ImageWhole == \A m \in Mode : flash[m] # "broken"

\* What the screen refers to is mapped, and nothing has been erased or written
\* under it: LVGL may read it at any time.
ShownIntact ==
    /\ lvgl \in Mode => image = lvgl /\ flash[lvgl] = "whole"
    /\ lvgl = "builtin" => avatar # None /\ frame = avatar

\* Outside a save, the profile in memory is the stored one, so that an edit
\* of one field cannot bring back old values of others.  After a failed
\* save this holds again when the session has been forgotten.
Saving == w.pc \in {"boot", "commit", "reply"}
ProfileAgrees ==
    c.initialized /\ ~Saving /\ (last = 0 \/ ~doubt) => c.profile = Loaded(nvs)

\* A stored image changes only for a BEGIN that fits, while the profile shows
\* the images of its mode: what came before, of that transfer or of another,
\* takes no image away.
KeptUntilBegin ==
    [][\A m \in Mode : flash[m] # "none" /\ flash'[m] # flash[m] =>
            IsBegin(w.f) /\ w.f.chunk.n <= Capacity /\ c.profile.mode = m]_vars

\* What is stored for a session that has ended is the operation its last guard
\* allowed (stock_content.h: "It may finish after disconnect"), and the last
\* one: no write, record, set or commit follows, no event is published for
\* it, and the profile in memory is not changed.
LateIsLast ==
    [][link # w.session /\ <<nvs, flash>>' # <<nvs, flash>> =>
            /\ w'.pc = "erase_rest" \/ (w'.pc = "reply" /\ w'.event = "NONE")
            /\ c'.profile = c.profile]_vars

-----------------------------------------------------------------------------
(* What the properties need to be inductive *)

SavePc == {"save", "set", "commit"}
ErasePc == {"erase", "erasing", "erase_rest"}
RecordPc == {"meta", "recording"}
SinkPc == ErasePc \cup {"write", "writing"} \cup RecordPc
FramePc == {"handle", "reply"} \cup SavePc \cup SinkPc

Chunked(op) == w.f.type = "IMAGE" /\ w.f.chunk.op = op

\* The frame that is being handled is one of the session last seen, and asked
\* for the sink call that is under way.
CallInv ==
    /\ w.session <= sessions
    /\ w.session # 0 => last = w.session
    /\ w.pc \in FramePc => w.session # 0
    /\ w.pc = "forget" => w.session = 0
    /\ w.pc \in SinkPc => c.session = w.session
    /\ w.pc = "handle" /\ IsBegin(w.f) => image = None
    /\ w.pc \in ErasePc =>
          /\ Chunked("BEGIN") /\ w.f.chunk.n <= Capacity
          /\ image = None /\ c.mode = c.profile.mode
    /\ w.pc = "erase_rest" => flash[c.mode] = "none"
    /\ w.pc \in {"write", "writing"} =>
          /\ Chunked("DATA") /\ c.transfer.active
          /\ c.transfer.received + w.f.chunk.n <= Capacity
    /\ w.pc = "writing" => w.f.chunk.n <= c.erased - c.written
    /\ w.pc \in RecordPc =>
          /\ Chunked("END") /\ ~c.transfer.active
          /\ c.transfer.received = c.transfer.declared

\* From the erase of its sectors to its record: an upload is what its chunks
\* make of it, and nobody can see its partition.
Uploading == w.pc \in RecordPc \/ (c.transfer.active /\ w.pc \notin ErasePc)
UploadInv ==
    Uploading =>
        /\ c.written = c.transfer.received /\ c.erased = c.up.span
        /\ c.up.total = c.transfer.declared /\ c.up.by = c.session
        /\ c.up.len = c.written /\ c.up.clean
        /\ flash[c.mode] = "none" /\ image # c.mode

\* A lease is one of a whole image, and the screen forgets it first.
LeaseInv ==
    /\ image # None => flash[image] = "whole"
    /\ avatar # None => frame = avatar
    /\ w.pc \in {"unmap", "unmap_avatar"} => lvgl = "blank"
    /\ w.pc \in {"avatar", "unmap_avatar", "view"} => image = None
    /\ w.pc = "render" => lvgl \notin Mode

\* The profile in memory and the stored one differ only after a failed save,
\* until its session is forgotten, and under a save that is cancelled.
ProfileInv ==
    /\ w.pc \in SavePc => w.cand # None
    /\ c.initialized /\ w.pc \notin {"boot", "commit"} =>
          \/ c.profile = Loaded(nvs)
          \/ last # 0 /\ (doubt \/ (w.pc = "reply" /\ link # w.session))

ContentInv ==
    /\ TypeOK /\ CallInv /\ UploadInv /\ LeaseInv /\ ProfileInv
    /\ ImageWhole /\ ShownIntact
=============================================================================
