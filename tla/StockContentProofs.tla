-------------------------- MODULE StockContentProofs --------------------------
(* Proofs about StockContent, for every value of its constants. *)
EXTENDS StockContent, TLAPS

USE StockContentAssumption DEF ErasePc, RecordPc

-----------------------------------------------------------------------------
(* Sectors *)

\* What x \div s is, without division.
LEMMA Quotient ==
    ASSUME NEW x \in Nat, NEW s \in Nat \ {0}
    PROVE  x \div s \in Nat /\ (x \div s) * s <= x /\ x < (x \div s) * s + s
OBVIOUS

LEMMA ProductMonotone ==
    ASSUME NEW a \in Nat, NEW b \in Nat, NEW s \in Nat \ {0}, a + 1 <= b
    PROVE  a * s + s <= b * s
<1>1. PICK k \in Nat : b = a + 1 + k
  <2> WITNESS b - (a + 1) \in Nat
  <2> QED OBVIOUS
<1>2. b * s = a * s + s + k * s
  BY <1>1
<1>3. k * s >= 0
  OBVIOUS
<1>4. a * s \in Nat /\ b * s \in Nat /\ k * s \in Nat
  OBVIOUS
<1>5. QED
  BY <1>2, <1>3, <1>4

\* The sectors of an image that fits are in the partition: image_begin erases
\* no more than the rounded capacity.
LEMMA RoundedMonotone ==
    ASSUME NEW n \in 0 .. Capacity
    PROVE  Rounded(n) \in 0 .. Rounded(Capacity)
<1> DEFINE a == (n + Sector - 1) \div Sector
           b == (Capacity + Sector - 1) \div Sector
<1>1. /\ a \in Nat /\ a * Sector <= n + Sector - 1
      /\ b \in Nat /\ Capacity + Sector - 1 < b * Sector + Sector
  <2>1. n + Sector - 1 \in Nat /\ Capacity + Sector - 1 \in Nat
    OBVIOUS
  <2>2. QED
    BY <2>1, Quotient
<1>2. a * Sector \in Nat /\ b * Sector \in Nat
  BY <1>1
<1>3. Rounded(n) = a * Sector /\ Rounded(Capacity) = b * Sector
  BY DEF Rounded
<1> HIDE DEF a, b
<1>4. ~(b + 1 <= a)
  <2> SUFFICES ASSUME b + 1 <= a PROVE FALSE
    OBVIOUS
  <2>1. b * Sector + Sector <= a * Sector
    BY <1>1, ProductMonotone
  <2>2. QED
    BY <2>1, <1>1, <1>2
<1>5. a * Sector <= b * Sector
  <2>1. CASE a = b
    BY <2>1, <1>2
  <2>2. CASE a + 1 <= b
    <3>1. a * Sector + Sector <= b * Sector
      BY <2>2, <1>1, ProductMonotone
    <3>2. QED
      BY <3>1, <1>2
  <2>3. QED
    BY <1>1, <1>4, <2>1, <2>2
<1>6. QED
  BY <1>2, <1>3, <1>5

-----------------------------------------------------------------------------
(* Values and their types *)

LEMMA Zeros ==
    0 \in 0 .. Rounded(Capacity) /\ 0 \in 0 .. Capacity /\ 0 \in 0 .. MaxSessions
BY RoundedMonotone

LEMMA NewValues ==
    /\ Unknown \in Upload
    /\ NewTransfer \in TransferState /\ ~NewTransfer.active
    /\ Defaults \in Profile
    /\ \A n \in Profile \cup {None} : Loaded(n) \in Profile
    /\ \A n \in Profile : Loaded(n) = n /\ n # None
<1>1. Unknown \in Upload
  BY Zeros DEF Unknown, Upload
<1>2. NewTransfer \in TransferState /\ ~NewTransfer.active
  BY DEF NewTransfer, TransferState
<1>3. Defaults \in Profile
  BY DEF Defaults, Profile, Mode
<1>4. \A n \in Profile \cup {None} : Loaded(n) \in Profile
  BY <1>3 DEF Loaded
<1>5. \A n \in Profile : Loaded(n) = n /\ n # None
  BY DEF Loaded
<1>6. QED
  BY <1>1, <1>2, <1>3, <1>4, <1>5

LEMMA NewContentType ==
    ASSUME NEW p \in Profile
    PROVE  NewContent(p) \in Content
BY Zeros, NewValues DEF NewContent, Content, Mode

LEMMA WorkType ==
    ASSUME NEW pc \in WorkPc
    PROVE  Work(pc) \in LoopState
BY Zeros DEF Work, LoopState, Status

LEMMA Disconnected ==
    ASSUME NEW r \in Content
    PROVE  /\ stock_content_disconnect(r) \in Content
           /\ ~stock_content_disconnect(r).transfer.active
           /\ stock_content_disconnect(r).profile = r.profile
           /\ stock_content_disconnect(r).initialized = r.initialized
BY Zeros, NewValues DEF Content, stock_content_disconnect, Reset

LEMMA SettledIs ==
    ASSUME NEW r \in Content
    PROVE  /\ Settled(r) \in Content
           /\ Settled(r).profile = r.profile
           /\ Settled(r).initialized = r.initialized
           /\ Settled(r).session = r.session
           /\ Settled(r).transfer.active => r.transfer.active /\ Settled(r) = r
           /\ r.transfer.active => Settled(r) = r
<1>1. CASE r.transfer.active
  BY <1>1 DEF Settled
<1>2. CASE ~r.transfer.active
  <2> DEFINE d == stock_content_disconnect(r)
  <2>1. Settled(r) = [d EXCEPT !.session = r.session, !.mode = "AVATAR"]
    BY <1>2 DEF Settled
  <2>2. d \in Content /\ ~d.transfer.active
        /\ d.profile = r.profile /\ d.initialized = r.initialized
    BY Disconnected
  <2> HIDE DEF d
  <2>3. r.session \in 0 .. MaxSessions /\ "AVATAR" \in Mode
    BY DEF Content, Mode
  <2>4. Settled(r) \in Content /\ Settled(r).transfer = d.transfer
    BY <2>1, <2>2, <2>3 DEF Content
  <2>5. QED
    BY <1>2, <2>1, <2>2, <2>4 DEF Content
<1>3. QED
  BY <1>1, <1>2

\* What a frame is, by its type.
LEMMA FrameTypes ==
    ASSUME NEW f \in Frames \cup {NoFrame}
    PROVE  /\ f.type \in {"PROFILE", "IMAGE", "OTHER"}
           /\ f.type = "PROFILE" => f \in Command
           /\ f.type = "IMAGE" => f \in ImageFrame /\ f.chunk \in Chunk
BY DEF Command, ImageFrame, OtherFrame, NoFrame

LEMMA ApplyType ==
    ASSUME NEW p \in Profile, NEW f \in Command
    PROVE  Apply(p, f) \in Profile
BY DEF Apply, Profile, Command

-----------------------------------------------------------------------------
(* The transfer *)

LEMMA AskIs ==
    ASSUME NEW t \in TransferState, NEW m \in Chunk
    PROVE  LET ask == Ask(t, "IMAGE", Capacity, m)
           IN  /\ ask.transfer \in TransferState /\ ask.status \in Status
               /\ ask.sink \in SinkCall
               /\ ask.sink = "NONE" =>
                     \/ ask.transfer = t /\ ~(m.op = "BEGIN" /\ m.whole)
                     \/ ~ask.transfer.active
               /\ ask.sink = "BEGIN" =>
                     ask.transfer = t /\ m.op = "BEGIN" /\ m.whole /\ m.n <= Capacity
               /\ ask.sink = "DATA" =>
                     /\ ask.transfer = t /\ t.active /\ m.op = "DATA"
                     /\ t.received + m.n <= Capacity
               /\ ask.sink = "END" =>
                     /\ ask.transfer = Stop(t) /\ t.active /\ m.op = "END"
                     /\ t.received = t.declared
<1>0. Stop(t) \in TransferState /\ ~Stop(t).active
  BY DEF Stop, TransferState
<1>1. CASE m.op = "BEGIN"
  <2>1. Ask(t, "IMAGE", Capacity, m) = AskBegin(t, Capacity, m)
    BY <1>1 DEF Ask
  <2>2. CASE ~m.whole
    BY <2>1, <2>2 DEF AskBegin, Call, Status, SinkCall
  <2>3. CASE m.whole /\ m.n > Capacity
    BY <1>0, <2>1, <2>3 DEF AskBegin, Call, Status, SinkCall
  <2>4. CASE m.whole /\ ~(m.n > Capacity)
    BY <1>1, <2>1, <2>4 DEF AskBegin, Call, Status, SinkCall, Chunk
  <2>5. QED
    BY <2>2, <2>3, <2>4
<1>2. CASE m.op = "DATA"
  <2>1. Ask(t, "IMAGE", Capacity, m) = AskData(t, "IMAGE", Capacity, m)
    BY <1>2 DEF Ask
  <2> DEFINE over == t.received > Capacity \/ m.n > Capacity - t.received
  <2>2. CASE ~t.active
    BY <2>1, <2>2 DEF AskData, Call, Status, SinkCall
  <2>3. CASE t.active /\ over
    BY <1>0, <2>1, <2>3 DEF AskData, Call, Status, SinkCall
  <2>4. CASE t.active /\ ~over /\ m.n = 0
    BY <1>2, <2>1, <2>4 DEF AskData, Call, Status, SinkCall
  <2>5. CASE t.active /\ ~over /\ m.n # 0
    BY <1>2, <2>1, <2>5 DEF AskData, Call, Status, SinkCall, Chunk, TransferState
  <2>6. QED
    BY <2>2, <2>3, <2>4, <2>5
<1>3. CASE m.op = "END"
  BY <1>3 DEF Ask, AskEnd, Call, Stop, TransferState, Status, SinkCall
<1>4. CASE m.op = "OTHER"
  BY <1>4 DEF Ask, Call, Status, SinkCall
<1>5. QED
  BY <1>1, <1>2, <1>3, <1>4 DEF Chunk

\* What the sink's answer makes of the transfer.
Answered(t, m, rc) ==
    IF rc # "OK" THEN IF m.op = "END" THEN t ELSE Stop(t)
    ELSE IF m.op = "BEGIN" THEN [active |-> TRUE, declared |-> m.n, received |-> 0]
    ELSE IF m.op = "DATA" THEN [t EXCEPT !.received = @ + m.n] ELSE t

LEMMA ToldIs ==
    ASSUME NEW t \in TransferState, NEW m \in Chunk, NEW rc \in SinkResult,
           m.op # "OTHER"
    PROVE  /\ Told(t, "IMAGE", m, rc).transfer = Answered(t, m, rc)
           /\ Answered(t, m, rc) \in TransferState
           /\ Told(t, "IMAGE", m, rc).status \in Status
           /\ Told(t, "IMAGE", m, rc).completed = (m.op = "END" /\ rc = "OK")
<1>1. Told(t, "IMAGE", m, rc).transfer = Answered(t, m, rc)
  BY DEF Told, Answered, Result, Chunk, SinkResult
<1>2. Answered(t, m, rc) \in TransferState
  <2>1. Stop(t) \in TransferState
    BY DEF Stop, TransferState
  <2>2. [active |-> TRUE, declared |-> m.n, received |-> 0] \in TransferState
    BY DEF TransferState, Chunk
  <2>3. [t EXCEPT !.received = @ + m.n] \in TransferState
    BY DEF TransferState, Chunk
  <2>4. QED
    BY <2>1, <2>2, <2>3 DEF Answered
<1>3. Told(t, "IMAGE", m, rc).status \in Status
  BY DEF Told, Result, Status
<1>4. Told(t, "IMAGE", m, rc).completed = (m.op = "END" /\ rc = "OK")
  <2>1. CASE m.op = "END" /\ rc = "OK"
    BY <2>1 DEF Told, Result
  <2>2. CASE ~(m.op = "END" /\ rc = "OK")
    BY <2>2 DEF Told, Result, Chunk
  <2>3. QED
    BY <2>1, <2>2
<1>5. QED
  BY <1>1, <1>2, <1>3, <1>4

\* Where the loop goes after a sink call, and what it leaves.
LEMMA SinkToldIs ==
    ASSUME w \in LoopState, NEW r \in Content, NEW rc \in SinkResult,
           w.f.type = "IMAGE", w.f.chunk.op # "OTHER",
           w.f.chunk.op = "END" => ~r.transfer.active,
           SinkTold(rc, r)
    PROVE  /\ c' \in Content /\ w' \in LoopState
           /\ c'.profile = r.profile /\ c'.initialized = r.initialized
           /\ c'.session = r.session
           /\ w'.f = w.f /\ w'.session = w.session
           /\ w'.pc \in {"save", "reply"}
           /\ w'.pc = "save" => w'.cand # None
           /\ c'.transfer.active =>
                 /\ rc = "OK" /\ w.f.chunk.op # "END"
                 /\ c' = [r EXCEPT !.transfer = Answered(r.transfer, w.f.chunk, rc)]
<1> DEFINE m == w.f.chunk
           told == Told(r.transfer, "IMAGE", m, rc)
           next == [r EXCEPT !.transfer = told.transfer]
<1>1. m \in Chunk /\ r.transfer \in TransferState
  BY FrameTypes DEF LoopState, Content
<1>2. told.transfer = Answered(r.transfer, m, rc) /\ told.transfer \in TransferState
  BY <1>1, ToldIs
<1>3. told.status \in Status /\ told.completed = (m.op = "END" /\ rc = "OK")
  BY <1>1, ToldIs
<1>4. c' = Settled(next)
  BY DEF SinkTold
<1>5. next \in Content /\ next.transfer = told.transfer
      /\ next.profile = r.profile /\ next.initialized = r.initialized
      /\ next.session = r.session
  BY <1>2 DEF Content
<1>6. /\ c' \in Content
      /\ c'.profile = r.profile /\ c'.initialized = r.initialized
      /\ c'.session = r.session
      /\ c'.transfer.active => next.transfer.active /\ c' = next
  BY <1>4, <1>5, SettledIs
<1>7. next.transfer.active => rc = "OK" /\ m.op # "END"
  BY <1>1, <1>2, <1>5 DEF Answered, Stop, TransferState
<1>8. /\ w' \in LoopState /\ w'.f = w.f /\ w'.session = w.session
      /\ w'.pc \in {"save", "reply"}
      /\ w'.pc = "save" => w'.cand # None
  <2>1. CASE told.completed /\ r.mode = "AVATAR"
    <3>1. [r.profile EXCEPT !.avatar = "custom"] \in Profile
      BY DEF Content, Profile
    <3>2. w' = [w EXCEPT !.pc = "save", !.cand = [r.profile EXCEPT !.avatar = "custom"]]
      BY <2>1 DEF SinkTold
    <3>3. QED
      BY <3>1, <3>2, NewValues DEF LoopState, WorkPc
  <2>2. CASE ~(told.completed /\ r.mode = "AVATAR")
    <3>1. Reply(told.status, IF told.completed THEN "FULLSCREEN_READY" ELSE "NONE")
      BY <2>2 DEF SinkTold
    <3>2. QED
      BY <3>1, <1>3 DEF Reply, LoopState, WorkPc
  <2>3. QED
    BY <2>1, <2>2
<1>9. QED
  BY <1>2, <1>6, <1>7, <1>8


-----------------------------------------------------------------------------
(* Steps of the loop *)

LEMMA GotoIs ==
    ASSUME w \in LoopState, NEW pc \in WorkPc, Goto(pc)
    PROVE  /\ w' \in LoopState /\ w'.pc = pc /\ w'.f = w.f
           /\ w'.session = w.session /\ w'.cand = w.cand
BY DEF Goto, LoopState

LEMMA ReplyIs ==
    ASSUME w \in LoopState, NEW status \in Status,
           NEW event \in {"NONE", "PROFILE", "AVATAR_READY", "FULLSCREEN_READY"},
           Reply(status, event)
    PROVE  /\ w' \in LoopState /\ w'.pc = "reply" /\ w'.f = w.f
           /\ w'.session = w.session
BY DEF Reply, LoopState, WorkPc

\* A frame is done with, or a turn begins.
LEMMA WorkIs ==
    ASSUME w \in LoopState, NEW pc \in WorkPc,
           w' \in {Work(pc), [Work(pc) EXCEPT !.budget = w.budget]}
    PROVE  /\ w' \in LoopState /\ w'.pc = pc
           /\ w'.session = 0 /\ w'.f = NoFrame
<1>1. Work(pc) \in LoopState /\ Work(pc).pc = pc /\ Work(pc).session = 0
      /\ Work(pc).f = NoFrame
  BY WorkType DEF Work
<1>2. w.budget \in 0 .. PollLength
  BY DEF LoopState
<1>3. QED
  BY <1>1, <1>2 DEF LoopState

\* stock_content_disconnect and what follows it: no transfer is left, and the
\* profile is the stored one or the content is closed.
LEMMA Reconciled ==
    ASSUME NEW r \in Content, nvs \in Profile \cup {None}, doubt \in BOOLEAN,
           reconcile_profile(stock_content_disconnect(r))
    PROVE  /\ c' \in Content /\ ~c'.transfer.active /\ doubt' \in BOOLEAN
           /\ c'.initialized => c'.profile = Loaded(nvs)
<1> DEFINE d == stock_content_disconnect(r)
<1>1. d \in Content /\ ~d.transfer.active
  BY Disconnected
<1>2. Loaded(nvs) \in Profile
  BY NewValues
<1>3. \/ c' = [d EXCEPT !.profile = Loaded(nvs)] /\ doubt' = FALSE
      \/ c' = [d EXCEPT !.initialized = FALSE] /\ doubt' = doubt
  BY DEF reconcile_profile
<1> HIDE DEF d
<1>4. CASE c' = [d EXCEPT !.profile = Loaded(nvs)] /\ doubt' = FALSE
  BY <1>1, <1>2, <1>4 DEF Content
<1>5. CASE c' = [d EXCEPT !.initialized = FALSE] /\ doubt' = doubt
  BY <1>1, <1>5 DEF Content
<1>6. QED
  BY <1>3, <1>4, <1>5

-----------------------------------------------------------------------------
(* Whole frames *)

\* A frame is answered, and an upload goes on as it was or is over.
LEMMA FrameAnswered ==
    ASSUME ContentInv, w.pc = "handle", c' \in Content,
           c'.profile = c.profile, c'.initialized = c.initialized,
           c'.transfer.active => c' = c,
           NEW status \in Status,
           NEW event \in {"NONE", "PROFILE", "AVATAR_READY", "FULLSCREEN_READY"},
           Reply(status, event),
           UNCHANGED <<link, sessions, stored, display, last, doubt>>
    PROVE  ContentInv'
<1> USE DEF ContentInv, stored, display
<1>1. /\ w' \in LoopState /\ w'.pc = "reply" /\ w'.f = w.f
      /\ w'.session = w.session
  BY ReplyIs DEF TypeOK
<1>2. TypeOK'
  BY <1>1 DEF TypeOK
<1>3. CallInv'
  BY <1>1 DEF CallInv, FramePc, SavePc, SinkPc
<1>4. UploadInv'
  BY <1>1 DEF UploadInv, Uploading
<1>5. LeaseInv' /\ ShownIntact' /\ ImageWhole'
  BY <1>1 DEF LeaseInv, ShownIntact, ImageWhole
<1>6. ProfileInv'
  BY <1>1 DEF ProfileInv, CallInv, FramePc, SavePc
<1>7. QED
  BY <1>2, <1>3, <1>4, <1>5, <1>6

\* The sink has answered: the upload goes on, or it is over.  r is the content
\* with what the sink has done.
LEMMA SinkAnswered ==
    ASSUME ContentInv, w.pc \in SinkPc, NEW r \in Content,
           r.profile = c.profile, r.initialized = c.initialized, r.session = c.session,
           w.f.chunk.op = "END" => ~r.transfer.active,
           NEW rc \in SinkResult, SinkTold(rc, r),
           UNCHANGED <<link, sessions, nvs, frame, display, last, doubt>>,
           flash' \in [Mode -> {"none", "whole", "broken"}],
           ImageWhole', image # None => flash'[image] = "whole",
           c'.transfer.active => UploadInv'
    PROVE  ContentInv'
<1> USE DEF ContentInv, display
<1>1. w \in LoopState /\ c \in Content /\ w.f.type = "IMAGE" /\ w.f.chunk.op # "OTHER"
  BY DEF TypeOK, CallInv, SinkPc, Chunked
<1>2. /\ c' \in Content /\ w' \in LoopState
      /\ c'.profile = c.profile /\ c'.initialized = c.initialized
      /\ w'.f = w.f /\ w'.session = w.session
      /\ w'.pc \in {"save", "reply"}
      /\ w'.pc = "save" => w'.cand # None
  BY <1>1, SinkToldIs
<1>3. TypeOK'
  BY <1>2 DEF TypeOK
<1>4. CallInv'
  BY <1>2 DEF CallInv, FramePc, SavePc, SinkPc
<1>5. UploadInv'
  BY <1>2 DEF UploadInv, Uploading
<1>6. LeaseInv' /\ ShownIntact'
  BY <1>2 DEF LeaseInv, ShownIntact, TypeOK
<1>7. ProfileInv'
  BY <1>2 DEF ProfileInv, CallInv, FramePc, SavePc, SinkPc
<1>8. QED
  BY <1>3, <1>4, <1>5, <1>6, <1>7

\* The guard lets a flash operation begin.
LEMMA SinkAllowed ==
    ASSUME ContentInv, NEW pc \in {"erasing", "writing", "recording"}, Goto(pc),
           \/ w.pc = "erase" /\ pc = "erasing"
           \/ w.pc = "write" /\ pc = "writing" /\ w.f.chunk.n <= c.erased - c.written
           \/ w.pc = "meta" /\ pc = "recording",
           UNCHANGED <<link, sessions, stored, c, display, last, doubt>>
    PROVE  ContentInv'
<1> USE DEF ContentInv, stored, display
<1>1. /\ w' \in LoopState /\ w'.pc = pc /\ w'.f = w.f
      /\ w'.session = w.session
  BY GotoIs DEF TypeOK, WorkPc
<1>2. TypeOK'
  BY <1>1 DEF TypeOK
<1>3. CallInv'
  BY <1>1 DEF CallInv, FramePc, SavePc, SinkPc, Chunked, IsBegin
<1>4. UploadInv'
  BY <1>1 DEF UploadInv, Uploading
<1>5. LeaseInv' /\ ShownIntact' /\ ImageWhole'
  BY <1>1 DEF LeaseInv, ShownIntact, ImageWhole
<1>6. ProfileInv'
  BY <1>1 DEF ProfileInv, SavePc
<1>7. QED
  BY <1>2, <1>3, <1>4, <1>5, <1>6

\* The sink refuses, or fails without a trace: the upload is over.
LEMMA SinkRefused ==
    ASSUME ContentInv, w.pc \in SinkPc,
           NEW rc \in {"LIMIT", "IO", "INVALID"}, SinkTold(rc, c),
           UNCHANGED <<link, sessions, stored, display, last, doubt>>
    PROVE  ContentInv'
<1>1. /\ w \in LoopState /\ c \in Content /\ rc \in SinkResult
      /\ w.f.type = "IMAGE" /\ w.f.chunk.op # "OTHER"
      /\ w.f.chunk.op = "END" => ~c.transfer.active
  BY DEF ContentInv, TypeOK, CallInv, SinkPc, Chunked, SinkResult
<1>2. ~c'.transfer.active
  BY <1>1, SinkToldIs
<1>3. /\ flash' \in [Mode -> {"none", "whole", "broken"}] /\ ImageWhole'
      /\ image # None => flash'[image] = "whole"
  BY DEF ContentInv, TypeOK, ImageWhole, LeaseInv, stored
<1>4. QED
  BY <1>1, <1>2, <1>3, SinkAnswered DEF stored

\* A save goes on or is over.
LEMMA SaveGoes ==
    ASSUME ContentInv, w.pc \in SavePc,
           NEW pc \in {"set", "commit", "reply"}, w' \in LoopState, w'.pc = pc,
           w'.f = w.f, w'.session = w.session, pc # "reply" => w'.cand = w.cand,
           c' \in {c, [c EXCEPT !.profile = w.cand]},
           nvs' \in {nvs, w.cand}, doubt' \in BOOLEAN,
           pc = "set" => w.pc = "save" /\ UNCHANGED <<c, nvs, doubt>>,
           pc = "reply" => \/ c'.initialized => c'.profile = Loaded(nvs')
                           \/ doubt' \/ link # w.session,
           UNCHANGED <<link, sessions, flash, frame, display, last>>
    PROVE  ContentInv'
<1> USE DEF ContentInv, display
<1>1. /\ w \in LoopState /\ c \in Content /\ w.session # 0
      /\ last = w.session /\ w.cand \in Profile
  BY DEF TypeOK, CallInv, FramePc, SavePc, LoopState, ProfileInv
<1>2. /\ c' \in Content /\ c'.initialized = c.initialized /\ c'.transfer = c.transfer
      /\ c'.up = c.up /\ c'.written = c.written /\ c'.erased = c.erased
      /\ c'.mode = c.mode /\ c'.session = c.session
  BY <1>1 DEF Content
<1>3. TypeOK'
  BY <1>1, <1>2 DEF TypeOK
<1>4. CallInv'
  BY <1>1, <1>2 DEF CallInv, FramePc, SavePc, SinkPc
<1>5. UploadInv'
  BY <1>2 DEF UploadInv, Uploading, SavePc
<1>6. LeaseInv' /\ ShownIntact' /\ ImageWhole'
  BY DEF LeaseInv, ShownIntact, ImageWhole, SavePc
<1>7. ProfileInv'
  <2>1. CASE pc = "set"
    BY <1>1, <2>1 DEF ProfileInv, SavePc
  <2>2. CASE pc # "set"
    BY <1>1, <2>2, NewValues DEF ProfileInv, SavePc
  <2>3. QED
    BY <2>1, <2>2
<1>8. QED
  BY <1>3, <1>4, <1>5, <1>6, <1>7

\* A save that is cancelled or fails is answered so.
LEMMA SaveEnds ==
    ASSUME ContentInv, w.pc \in SavePc, NotSaved,
           nvs' \in {nvs, w.cand}, doubt' \in BOOLEAN, doubt' \/ link # w.session,
           UNCHANGED <<link, sessions, flash, frame, display, last>>
    PROVE  ContentInv'
<1>1. w \in LoopState
  BY DEF ContentInv, TypeOK
<1>2. w' \in LoopState /\ w'.pc = "reply" /\ w'.f = w.f /\ w'.session = w.session
      /\ UNCHANGED c
  BY <1>1, ReplyIs DEF NotSaved, Status
<1>3. QED
  BY <1>2, SaveGoes

-----------------------------------------------------------------------------
(* The inductive invariant *)

LEMMA ContentInvInit == Init => ContentInv
<1> SUFFICES ASSUME Init PROVE ContentInv
  OBVIOUS
<1>1. c \in Content /\ ~c.transfer.active
  BY NewValues, NewContentType DEF Init, NewContent
<1>2. w \in LoopState /\ w.pc = "boot" /\ w.session = 0
  BY WorkType DEF Init, Work, WorkPc
<1>3. TypeOK
  BY <1>1, <1>2, Zeros DEF Init, TypeOK
<1>4. CallInv /\ UploadInv /\ LeaseInv /\ ProfileInv
  BY <1>1, <1>2 DEF Init, CallInv, UploadInv, Uploading, LeaseInv, ProfileInv, FramePc,
     SavePc, SinkPc
<1>5. ImageWhole /\ ShownIntact
  BY DEF Init, ImageWhole, ShownIntact, Mode
<1>6. QED
  BY <1>3, <1>4, <1>5 DEF ContentInv

LEMMA ContentInvStep == ContentInv /\ [Next]_vars => ContentInv'
<1> SUFFICES ASSUME ContentInv, [Next]_vars PROVE ContentInv'
  OBVIOUS
<1>0. /\ TypeOK /\ w \in LoopState /\ c \in Content
      /\ c.mode \in Mode /\ sessions \in Nat /\ w.session \in Nat
  BY DEF ContentInv, TypeOK, Content, LoopState
<1> USE DEF ContentInv, At, stored, display
<1>1. ASSUME SessionStarts PROVE ContentInv'
  <2>1. TypeOK'
    BY <1>0, <1>1 DEF SessionStarts, TypeOK, WorkPc
  <2>2. CallInv'
    BY <1>0, <1>1 DEF SessionStarts, CallInv, FramePc, SavePc, SinkPc, Chunked, IsBegin, TypeOK
  <2>3. UploadInv'
    BY <1>0, <1>1 DEF SessionStarts, UploadInv, Uploading
  <2>4. LeaseInv' /\ ShownIntact' /\ ImageWhole'
    BY <1>0, <1>1 DEF SessionStarts, TypeOK, LeaseInv, ShownIntact, ImageWhole, Mode
  <2>5. ProfileInv'
    BY <1>0, <1>1 DEF SessionStarts, CallInv, ProfileInv, FramePc, SavePc, SinkPc
  <2>6. QED
    BY <2>1, <2>2, <2>3, <2>4, <2>5
<1>2. ASSUME SessionEnds PROVE ContentInv'
  <2>1. TypeOK'
    BY <1>0, <1>2 DEF SessionEnds, TypeOK, WorkPc
  <2>2. CallInv'
    BY <1>0, <1>2 DEF SessionEnds, CallInv, FramePc, SavePc, SinkPc, Chunked, IsBegin, TypeOK
  <2>3. UploadInv'
    BY <1>0, <1>2 DEF SessionEnds, UploadInv, Uploading
  <2>4. LeaseInv' /\ ShownIntact' /\ ImageWhole'
    BY <1>0, <1>2 DEF SessionEnds, TypeOK, LeaseInv, ShownIntact, ImageWhole, Mode
  <2>5. ProfileInv'
    BY <1>0, <1>2 DEF SessionEnds, CallInv, ProfileInv, FramePc, SavePc, SinkPc
  <2>6. QED
    BY <2>1, <2>2, <2>3, <2>4, <2>5
<1>3. ASSUME Crash PROVE ContentInv'
  <2>0. /\ w' \in LoopState /\ w'.pc = "boot" /\ w'.session = 0
        /\ c' \in Content /\ ~c'.transfer.active
    <3>1. w' = Work("boot") /\ c' = NewContent(Defaults)
      BY <1>3 DEF Crash
    <3>2. w' \in LoopState /\ w'.pc = "boot" /\ w'.session = 0
      BY <3>1, WorkType DEF Work, WorkPc
    <3>3. c' \in Content /\ ~c'.transfer.active
      BY <3>1, NewValues, NewContentType DEF NewContent
    <3>4. QED
      BY <3>2, <3>3
  <2>1. TypeOK'
    BY <1>0, <1>3, <2>0, Zeros DEF Crash, TypeOK, WorkPc
  <2>2. CallInv'
    BY <1>0, <1>3, <2>0 DEF Crash, CallInv, FramePc, SavePc, SinkPc, Chunked, IsBegin, TypeOK
  <2>3. UploadInv'
    BY <1>0, <1>3, <2>0 DEF Crash, UploadInv, Uploading
  <2>4. LeaseInv' /\ ShownIntact' /\ ImageWhole'
    BY <1>0, <1>3, <2>0 DEF Crash, TypeOK, LeaseInv, ShownIntact, ImageWhole, Mode
  <2>5. ProfileInv'
    BY <1>0, <1>3, <2>0 DEF Crash, CallInv, ProfileInv, FramePc, SavePc, SinkPc
  <2>6. QED
    BY <2>1, <2>2, <2>3, <2>4, <2>5
<1>4. ASSUME NEW f \in Frames, Receive(f) PROVE ContentInv'
  <2> DEFINE pc == IF IsBegin(f) /\ image # None THEN "clear" ELSE "handle"
  <2>1. /\ w' \in LoopState /\ w'.pc = pc /\ w'.f = f /\ w'.session = link
        /\ w.pc = "poll" /\ link # 0 /\ link = sessions
    <3>1. Work(pc) \in LoopState /\ w.budget - 1 \in 0 .. PollLength
      BY <1>0, <1>4, WorkType DEF Receive, LoopState, WorkPc
    <3>2. w' = [Work(pc) EXCEPT !.f = f, !.session = link, !.budget = w.budget - 1]
      BY <1>4 DEF Receive
    <3>3. w'.pc = pc /\ w'.f = f /\ w'.session = link
      BY <3>2 DEF Work
    <3>4. w.pc = "poll" /\ link # 0 /\ link = sessions /\ link \in 0 .. MaxSessions
      BY <1>0, <1>4 DEF Receive, TypeOK
    <3> HIDE DEF pc
    <3>5. QED
      BY <3>1, <3>2, <3>3, <3>4 DEF LoopState
  <2>2. /\ c' \in Content /\ doubt' \in BOOLEAN
        /\ c'.transfer.active => c' = c
        /\ \/ c'.initialized => c'.profile = Loaded(nvs)
           \/ c' = c /\ doubt' = doubt /\ (last # 0 => last = link)
        /\ ui' \in [screen : {"HOME", "IMAGE", "OTHER"}, dirty : BOOLEAN, ready : BOOLEAN]
    <3>1. CASE last # 0 /\ last # link
      <4>1. reconcile_profile(stock_content_disconnect(c)) /\ ui' = [ui EXCEPT !.dirty = TRUE]
        BY <1>4, <3>1 DEF Receive
      <4>2. QED
        BY <1>0, <4>1, Reconciled DEF TypeOK
    <3>2. CASE ~(last # 0 /\ last # link)
      BY <1>0, <1>4, <3>2 DEF Receive, TypeOK
    <3>3. QED
      BY <3>1, <3>2
  <2>3. TypeOK'
    BY <1>4, <2>1, <2>2 DEF Receive, TypeOK
  <2>4. CallInv'
    BY <1>0, <1>4, <2>1 DEF Receive, CallInv, FramePc, SavePc, SinkPc, IsBegin
  <2>5. UploadInv'
    BY <1>4, <2>1, <2>2 DEF Receive, UploadInv, Uploading
  <2>6. LeaseInv' /\ ShownIntact' /\ ImageWhole'
    BY <1>4, <2>1 DEF Receive, LeaseInv, ShownIntact, ImageWhole
  <2>7. ProfileInv'
    BY <1>4, <2>1, <2>2 DEF Receive, ProfileInv, SavePc
  <2>8. QED
    BY <2>3, <2>4, <2>5, <2>6, <2>7
<1>5. ASSUME Boot PROVE ContentInv'
  <2>0. /\ w' \in LoopState /\ w'.pc = "poll" /\ w'.session = 0
        /\ c' \in Content
        /\ c'.transfer.active =>
              /\ c.transfer.active
              /\ <<c'.transfer, c'.up, c'.written, c'.erased, c'.mode, c'.session>> =
                 <<c.transfer, c.up, c.written, c.erased, c.mode, c.session>>
        /\ c'.initialized => c'.profile = Loaded(nvs)
        /\ ui' = [ui EXCEPT !.ready = TRUE] \/ ui' = ui
    <3>1. w' = Work("poll")
      BY <1>5 DEF Boot
    <3>2. w' \in LoopState /\ w'.pc = "poll" /\ w'.session = 0
      BY <3>1, WorkType DEF Work, WorkPc
    <3>3. CASE c' = NewContent(Loaded(nvs)) /\ ui' = [ui EXCEPT !.ready = TRUE]
      BY <3>2, <3>3, NewValues, NewContentType DEF NewContent, TypeOK
    <3>4. CASE c' = [c EXCEPT !.initialized = FALSE] /\ ui' = ui
      BY <1>0, <3>2, <3>4 DEF Content
    <3>5. QED
      BY <1>5, <3>3, <3>4 DEF Boot
  <2>1. TypeOK'
    BY <1>0, <1>5, <2>0 DEF Boot, TypeOK, WorkPc
  <2>2. CallInv'
    BY <1>0, <1>5, <2>0 DEF Boot, CallInv, FramePc, SavePc, SinkPc, Chunked, IsBegin, TypeOK
  <2>3. UploadInv'
    BY <1>0, <1>5, <2>0 DEF Boot, UploadInv, Uploading
  <2>4. LeaseInv' /\ ShownIntact' /\ ImageWhole'
    BY <1>0, <1>5, <2>0 DEF Boot, TypeOK, LeaseInv, ShownIntact, ImageWhole, Mode
  <2>5. ProfileInv'
    BY <1>0, <1>5, <2>0 DEF Boot, CallInv, ProfileInv, FramePc, SavePc, SinkPc
  <2>6. QED
    BY <2>1, <2>2, <2>3, <2>4, <2>5
<1>6. ASSUME EndPoll PROVE ContentInv'
  <2>0. w' \in LoopState /\ w'.pc = "forget" /\ w'.session = 0
    BY <1>0, <1>6, WorkIs DEF EndPoll, WorkPc
  <2>1. TypeOK'
    BY <1>0, <1>6, <2>0 DEF EndPoll, TypeOK, WorkPc
  <2>2. CallInv'
    BY <1>0, <1>6, <2>0 DEF EndPoll, CallInv, FramePc, SavePc, SinkPc, Chunked, IsBegin, TypeOK
  <2>3. UploadInv'
    BY <1>0, <1>6, <2>0 DEF EndPoll, UploadInv, Uploading
  <2>4. LeaseInv' /\ ShownIntact' /\ ImageWhole'
    BY <1>0, <1>6, <2>0 DEF EndPoll, TypeOK, LeaseInv, ShownIntact, ImageWhole, Mode
  <2>5. ProfileInv'
    BY <1>0, <1>6, <2>0 DEF EndPoll, CallInv, ProfileInv, FramePc, SavePc, SinkPc
  <2>6. QED
    BY <2>1, <2>2, <2>3, <2>4, <2>5
<1>7. ASSUME ReleaseClear PROVE ContentInv'
  <2>0. w' \in LoopState /\ w'.pc = "unmap" /\ w'.f = w.f
        /\ w'.session = w.session /\ w'.cand = w.cand
    BY <1>0, <1>7, GotoIs DEF ReleaseClear, WorkPc
  <2>1. TypeOK'
    BY <1>0, <1>7, <2>0 DEF ReleaseClear, TypeOK, WorkPc
  <2>2. CallInv'
    BY <1>0, <1>7, <2>0 DEF ReleaseClear, CallInv, FramePc, SavePc, SinkPc, Chunked, IsBegin
  <2>3. UploadInv'
    BY <1>0, <1>7, <2>0 DEF ReleaseClear, UploadInv, Uploading
  <2>4. LeaseInv' /\ ShownIntact' /\ ImageWhole'
    BY <1>0, <1>7, <2>0 DEF ReleaseClear, TypeOK, LeaseInv, ShownIntact, ImageWhole, Mode
  <2>5. ProfileInv'
    BY <1>0, <1>7, <2>0 DEF ReleaseClear, CallInv, ProfileInv, FramePc, SavePc, SinkPc
  <2>6. QED
    BY <2>1, <2>2, <2>3, <2>4, <2>5
<1>8. ASSUME ReleaseMissed PROVE ContentInv'
  <2>0. w' \in LoopState /\ w'.pc = "poll" /\ w'.session = 0
    BY <1>0, <1>8, WorkIs DEF ReleaseMissed, WorkPc
  <2>1. TypeOK'
    BY <1>0, <1>8, <2>0 DEF ReleaseMissed, TypeOK, WorkPc
  <2>2. CallInv'
    BY <1>0, <1>8, <2>0 DEF ReleaseMissed, CallInv, FramePc, SavePc, SinkPc, Chunked, IsBegin, TypeOK
  <2>3. UploadInv'
    BY <1>0, <1>8, <2>0 DEF ReleaseMissed, UploadInv, Uploading
  <2>4. LeaseInv' /\ ShownIntact' /\ ImageWhole'
    BY <1>0, <1>8, <2>0 DEF ReleaseMissed, TypeOK, LeaseInv, ShownIntact, ImageWhole, Mode
  <2>5. ProfileInv'
    BY <1>0, <1>8, <2>0 DEF ReleaseMissed, CallInv, ProfileInv, FramePc, SavePc, SinkPc
  <2>6. QED
    BY <2>1, <2>2, <2>3, <2>4, <2>5
<1>9. ASSUME ReleaseUnmap PROVE ContentInv'
  <2>0. /\ w' \in LoopState /\ w'.pc \in {"handle", "avatar"} /\ w'.f = w.f
        /\ w'.session = w.session /\ w'.cand = w.cand
        /\ w'.pc = "handle" => w.session # 0
    <3>1. CASE w.session # 0
      BY <1>0, <1>9, <3>1, GotoIs DEF ReleaseUnmap, WorkPc
    <3>2. CASE w.session = 0
      BY <1>0, <1>9, <3>2, GotoIs DEF ReleaseUnmap, WorkPc
    <3>3. QED
      BY <3>1, <3>2
  <2>1. TypeOK'
    BY <1>0, <1>9, <2>0 DEF ReleaseUnmap, TypeOK, WorkPc
  <2>2. CallInv'
    BY <1>0, <1>9, <2>0 DEF ReleaseUnmap, CallInv, FramePc, SavePc, SinkPc, Chunked, IsBegin
  <2>3. UploadInv'
    BY <1>0, <1>9, <2>0 DEF ReleaseUnmap, UploadInv, Uploading, Mode
  <2>4. LeaseInv' /\ ShownIntact' /\ ImageWhole'
    BY <1>0, <1>9, <2>0 DEF ReleaseUnmap, TypeOK, LeaseInv, ShownIntact, ImageWhole, Mode
  <2>5. ProfileInv'
    BY <1>0, <1>9, <2>0 DEF ReleaseUnmap, CallInv, ProfileInv, FramePc, SavePc, SinkPc
  <2>6. QED
    BY <2>1, <2>2, <2>3, <2>4, <2>5
<1>10. ASSUME Handle PROVE ContentInv'
  <2> DEFINE r == IF c.session = w.session THEN c
                  ELSE [stock_content_disconnect(c) EXCEPT !.session = w.session]
  <2>1. /\ w.pc = "handle" /\ w.session # 0 /\ w.session \in 0 .. MaxSessions
        /\ IsBegin(w.f) => image = None
        /\ UNCHANGED <<link, sessions, stored, display, last, doubt>>
    BY <1>0, <1>10 DEF Handle, CallInv, FramePc, LoopState
  <2>2. /\ r \in Content /\ r.profile = c.profile /\ r.initialized = c.initialized
        /\ r.session = w.session /\ (r = c \/ ~r.transfer.active)
    <3>1. CASE c.session = w.session
      BY <1>0, <3>1
    <3>2. CASE c.session # w.session
      <4> DEFINE d == stock_content_disconnect(c)
      <4>1. d \in Content /\ ~d.transfer.active /\ d.profile = c.profile
            /\ d.initialized = c.initialized
        BY <1>0, Disconnected
      <4>2. r = [d EXCEPT !.session = w.session]
        BY <3>2
      <4> HIDE DEF d, r
      <4>3. QED
        BY <2>1, <4>1, <4>2 DEF Content
    <3>3. QED
      BY <3>1, <3>2
  <2>3. ASSUME NEW status \in Status, NEW event \in {"NONE", "PROFILE"},
               Reply(status, event), c' \in {c, r}
        PROVE  ContentInv'
    <3> HIDE DEF r
    <3>1. c' \in Content /\ c'.profile = c.profile /\ c'.initialized = c.initialized
          /\ (c'.transfer.active => c' = c)
      BY <1>0, <2>2, <2>3
    <3>2. QED
      BY <2>1, <2>3, <3>1, FrameAnswered
  <2>4. CASE ~c.initialized
    BY <1>10, <2>3, <2>4 DEF Handle, Status
  <2>5. CASE c.initialized /\ ~session_allowed
    BY <1>10, <2>3, <2>5 DEF Handle, Status
  <2>6. CASE c.initialized /\ session_allowed /\ w.f.type = "OTHER"
    BY <1>10, <2>3, <2>6 DEF Handle, Status
  <2>7. CASE c.initialized /\ session_allowed /\ w.f.type = "PROFILE"
    <3> DEFINE cand == Apply(r.profile, w.f)
    <3>1. profile_command(r, w.f) /\ w.f \in Command
      BY <1>0, <1>10, <2>7, FrameTypes DEF Handle, LoopState
    <3>2. cand \in Profile
      BY <2>2, <3>1, ApplyType DEF Content
    <3>3. CASE w.f.bad
      BY <2>3, <3>1, <3>3 DEF profile_command, Status
    <3>4. CASE ~w.f.bad /\ w.f.mode # "same" /\ r.transfer.active
      BY <2>3, <3>1, <3>4 DEF profile_command, Status
    <3>5. CASE ~w.f.bad /\ ~(w.f.mode # "same" /\ r.transfer.active) /\ cand = r.profile
      BY <2>3, <3>1, <3>5 DEF profile_command, Status
    <3>6. CASE ~w.f.bad /\ ~(w.f.mode # "same" /\ r.transfer.active) /\ cand # r.profile
      <4>1. w' = [w EXCEPT !.pc = "save", !.cand = cand] /\ c' = r
        BY <3>1, <3>6 DEF profile_command
      <4> HIDE DEF r, cand
      <4>2. w' \in LoopState /\ w'.pc = "save" /\ w'.f = w.f /\ w'.session = w.session
            /\ w'.cand # None
        BY <1>0, <3>2, <4>1, NewValues DEF LoopState, WorkPc
      <4>3. TypeOK'
        BY <2>1, <2>2, <4>1, <4>2 DEF TypeOK
      <4>4. CallInv'
        BY <2>1, <4>2 DEF CallInv, FramePc, SavePc, SinkPc
      <4>5. UploadInv'
        BY <2>1, <2>2, <4>1, <4>2 DEF UploadInv, Uploading
      <4>6. LeaseInv' /\ ShownIntact' /\ ImageWhole'
        BY <2>1, <4>2 DEF LeaseInv, ShownIntact, ImageWhole
      <4>7. ProfileInv'
        BY <2>1, <2>2, <4>1, <4>2 DEF ProfileInv
      <4>8. QED
        BY <4>3, <4>4, <4>5, <4>6, <4>7
    <3>7. QED
      BY <3>3, <3>4, <3>5, <3>6
  <2>8. CASE c.initialized /\ session_allowed /\ w.f.type = "IMAGE"
    <3> DEFINE m == w.f.chunk
               begin == m.op = "BEGIN" /\ m.whole
               mode == IF begin THEN r.profile.mode ELSE r.mode
               ask == Ask(r.transfer, "IMAGE", Capacity, m)
               next == [r EXCEPT !.transfer = ask.transfer, !.mode = mode]
    <3>1. image_frame(r, m) /\ m \in Chunk
      BY <1>0, <1>10, <2>8, FrameTypes DEF Handle, LoopState
    <3>2. CASE begin /\ image = r.profile.mode
      BY <2>3, <3>1, <3>2 DEF image_frame, Status
    <3>3. CASE ~(begin /\ image = r.profile.mode)
      <4>1. /\ c' = IF ask.sink = "NONE" THEN Settled(next) ELSE next
            /\ CASE ask.sink = "NONE"  -> Reply(ask.status, "NONE")
                 [] ask.sink = "BEGIN" -> Goto("erase")
                 [] ask.sink = "DATA"  -> Goto("write")
                 [] ask.sink = "END"   -> Goto("meta")
        BY <3>1, <3>3 DEF image_frame
      <4>2. r.transfer \in TransferState /\ mode \in Mode
        BY <2>2 DEF Content, Profile
      <4>3. /\ ask.transfer \in TransferState /\ ask.status \in Status
            /\ ask.sink \in SinkCall
            /\ ask.sink = "NONE" =>
                  \/ ask.transfer = r.transfer /\ ~begin
                  \/ ~ask.transfer.active
            /\ ask.sink = "BEGIN" => m.op = "BEGIN" /\ m.whole /\ m.n <= Capacity
            /\ ask.sink = "DATA" =>
                  /\ ask.transfer = r.transfer /\ r.transfer.active /\ m.op = "DATA"
                  /\ r.transfer.received + m.n <= Capacity
            /\ ask.sink = "END" =>
                  /\ ask.transfer = Stop(r.transfer) /\ r.transfer.active /\ m.op = "END"
                  /\ r.transfer.received = r.transfer.declared
        BY <3>1, <4>2, AskIs
      <4>4. /\ next \in Content /\ next.profile = c.profile /\ next.initialized = c.initialized
            /\ next.session = w.session /\ next.transfer = ask.transfer
            /\ next.mode = mode /\ next.up = r.up /\ next.written = r.written
            /\ next.erased = r.erased
        <5> HIDE DEF r, ask, mode
        <5>1. QED
          BY <2>2, <4>2, <4>3 DEF Content
      <4>5. CASE ask.sink = "NONE"
        <5>1. /\ Settled(next) \in Content /\ Settled(next).profile = next.profile
              /\ Settled(next).initialized = next.initialized
              /\ Settled(next).transfer.active => next.transfer.active /\ Settled(next) = next
          <6> HIDE DEF next
          <6>1. QED
            BY <4>4, SettledIs
        <5>2. c' = Settled(next) /\ Reply(ask.status, "NONE")
          BY <4>1, <4>5
        <5>3. next.transfer.active => next = r
          <6>1. ASSUME next.transfer.active PROVE ask.transfer = r.transfer /\ mode = r.mode
            BY <4>3, <4>4, <4>5, <6>1
          <6> HIDE DEF r, ask, mode
          <6>2. QED
            BY <2>2, <6>1 DEF Content
        <5>4. c' \in Content /\ c'.profile = c.profile /\ c'.initialized = c.initialized
              /\ (c'.transfer.active => c' = c)
          <6> HIDE DEF next, r
          <6>1. QED
            BY <2>2, <4>4, <5>1, <5>2, <5>3
        <5>5. QED
          BY <2>1, <4>3, <5>2, <5>4, FrameAnswered
      <4>6. ASSUME NEW pc \in {"erase", "write", "meta"}, Goto(pc), c' = next,
                   pc = "erase" => ask.sink = "BEGIN",
                   pc = "write" => ask.sink = "DATA",
                   pc = "meta" => ask.sink = "END"
            PROVE  ContentInv'
        <5>1. w' \in LoopState /\ w'.pc = pc /\ w'.f = w.f /\ w'.session = w.session
          BY <1>0, <4>6, GotoIs DEF WorkPc
        <5>2. pc # "erase" => r = c /\ c.transfer.active /\ mode = c.mode
                              /\ w.pc \notin ErasePc
          BY <2>1, <2>2, <4>3, <4>6
        <5>3. pc = "write" => c'.transfer = c.transfer
          BY <4>3, <4>4, <4>6, <5>2
        <5>4. pc = "meta" => /\ c'.transfer = Stop(c.transfer)
                             /\ c.transfer.received = c.transfer.declared
          <6> HIDE DEF r, ask, next, mode
          <6>1. QED
            BY <4>3, <4>4, <4>6, <5>2
        <5>5. pc = "meta" => /\ ~c'.transfer.active
                             /\ c'.transfer.received = c.transfer.received
                             /\ c'.transfer.declared = c.transfer.declared
          BY <1>0, <5>4 DEF Stop, Content, TransferState
        <5>6. pc # "erase" => /\ c'.up = c.up /\ c'.written = c.written /\ c'.erased = c.erased
                              /\ c'.mode = c.mode
          BY <4>4, <4>6, <5>2
        <5>7. c' \in Content /\ c'.profile = c.profile /\ c'.initialized = c.initialized
              /\ c'.session = w.session
          BY <4>4, <4>6
        <5>8. /\ pc = "erase" => m.op = "BEGIN" /\ m.n <= Capacity /\ c'.mode = c'.profile.mode
              /\ pc = "write" => m.op = "DATA" /\ c.transfer.received + m.n <= Capacity
              /\ pc = "meta" => m.op = "END"
          BY <2>2, <4>3, <4>4, <4>6, <5>2
        <5> HIDE DEF r, ask, next, mode, begin
        <5>9. TypeOK'
          BY <2>1, <5>1, <5>7 DEF TypeOK
        <5>10. CallInv'
          BY <2>1, <2>8, <5>1, <5>2, <5>3, <5>4, <5>5, <5>7, <5>8
             DEF CallInv, FramePc, SinkPc, Chunked, IsBegin
        <5>11. c'.session = c.session \/ pc = "erase"
          BY <2>2, <5>2, <5>7
        <5>12. UploadInv'
          BY <2>1, <5>1, <5>2, <5>3, <5>5, <5>6, <5>11 DEF UploadInv, Uploading
        <5>13. LeaseInv' /\ ShownIntact' /\ ImageWhole'
          BY <2>1, <5>1 DEF LeaseInv, ShownIntact, ImageWhole
        <5>14. ProfileInv'
          BY <2>1, <5>1, <5>7 DEF ProfileInv, SavePc
        <5>15. QED
          BY <5>9, <5>10, <5>12, <5>13, <5>14
      <4>7. QED
        BY <4>1, <4>3, <4>5, <4>6 DEF SinkCall
    <3>4. QED
      BY <3>2, <3>3
  <2>9. QED
    BY <1>0, <2>4, <2>5, <2>6, <2>7, <2>8, FrameTypes DEF LoopState
<1>11. ASSUME EraseAsk PROVE ContentInv'
  <2>1. w.pc = "erase" /\ w.pc \in SinkPc
        /\ UNCHANGED <<link, sessions, stored, display, last, doubt>>
    BY <1>11 DEF EraseAsk, SinkAsk, SinkPc
  <2>2. CASE session_allowed
    BY <1>11, <2>1, <2>2, SinkAllowed DEF EraseAsk, SinkAsk
  <2>3. CASE ~session_allowed
    BY <1>11, <2>1, <2>3, SinkRefused DEF EraseAsk, SinkAsk
  <2>4. QED
    BY <2>2, <2>3
<1>12. ASSUME EraseRecord PROVE ContentInv'
  <2>0. /\ w.pc = "erasing" /\ Chunked("BEGIN") /\ w.f.chunk \in Chunk /\ c.session = w.session
        /\ UNCHANGED <<link, sessions, nvs, frame, display, last, doubt>>
    BY <1>0, <1>12, FrameTypes DEF EraseRecord, CallInv, SinkPc, LoopState, Chunked
  <2> w.pc \in SinkPc
    BY <2>0 DEF SinkPc
  <2> flash \in [Mode -> {"none", "whole", "broken"}] /\ c.mode \in Mode /\ image \in Mode \cup {None}
    BY <1>0 DEF TypeOK, Content
  <2>1. ASSUME SinkTold("IO", c), UNCHANGED flash
        PROVE  ContentInv'
    BY <2>0, <2>1, SinkRefused
  <2>2. ASSUME flash' = [flash EXCEPT ![c.mode] = "none"], c' = [c EXCEPT !.up = Unknown],
               Goto("erase_rest")
        PROVE  ContentInv'
    <3>1. w' \in LoopState /\ w'.pc = "erase_rest" /\ w'.f = w.f /\ w'.session = w.session
      BY <1>0, <2>2, GotoIs DEF WorkPc
    <3>2. /\ c' \in Content /\ c'.mode = c.mode /\ c'.session = c.session
          /\ c'.profile = c.profile /\ c'.initialized = c.initialized
      BY <1>0, <2>2, NewValues DEF Content
    <3>3. image = None /\ w.f.chunk.n <= Capacity /\ c.mode = c.profile.mode
      BY <2>0 DEF CallInv
    <3>4. flash' \in [Mode -> {"none", "whole", "broken"}] /\ flash'[c.mode] = "none"
          /\ ImageWhole'
      BY <2>2 DEF ImageWhole
    <3>5. TypeOK'
      BY <2>0, <3>1, <3>2, <3>4 DEF TypeOK
    <3>6. CallInv'
      BY <2>0, <3>1, <3>2, <3>3, <3>4 DEF CallInv, FramePc, SinkPc, Chunked
    <3>7. UploadInv'
      BY <3>1 DEF UploadInv, Uploading
    <3>8. LeaseInv' /\ ShownIntact'
      BY <2>0, <3>1, <3>3 DEF LeaseInv, ShownIntact
    <3>9. ProfileInv'
      BY <2>0, <3>1, <3>2 DEF ProfileInv, SavePc
    <3>10. QED
      BY <3>4, <3>5, <3>6, <3>7, <3>8, <3>9
  <2>3. QED
    BY <1>12, <2>1, <2>2 DEF EraseRecord
<1>13. ASSUME EraseRest PROVE ContentInv'
  <2>0. /\ w.pc = "erase_rest" /\ Chunked("BEGIN") /\ w.f.chunk \in Chunk /\ c.session = w.session
        /\ UNCHANGED <<link, sessions, nvs, frame, display, last, doubt>>
    BY <1>0, <1>13, FrameTypes DEF EraseRest, CallInv, SinkPc, LoopState, Chunked
  <2> w.pc \in SinkPc
    BY <2>0 DEF SinkPc
  <2> flash \in [Mode -> {"none", "whole", "broken"}] /\ c.mode \in Mode /\ image \in Mode \cup {None}
    BY <1>0 DEF TypeOK, Content
  <2>1. ASSUME NEW rc \in {"INVALID", "IO"}, SinkTold(rc, c), UNCHANGED flash
        PROVE  ContentInv'
    BY <2>0, <2>1, SinkRefused
  <2> DEFINE n == w.f.chunk.n
             up == [span |-> Rounded(n), len |-> 0, total |-> n, by |-> w.session, clean |-> TRUE]
             r == [c EXCEPT !.written = 0, !.erased = Rounded(n), !.up = up]
  <2>2. ASSUME SinkTold("OK", r), UNCHANGED flash
        PROVE  ContentInv'
    <3>1. n \in 0 .. Capacity /\ Rounded(n) \in 0 .. Rounded(Capacity) /\ image = None
          /\ flash[c.mode] = "none"
      BY <2>0, RoundedMonotone DEF CallInv, Chunk
    <3>2. up \in Upload
      BY <1>0, <3>1, Zeros DEF Upload, LoopState
    <3>3. /\ r \in Content /\ r.profile = c.profile /\ r.initialized = c.initialized
          /\ r.session = c.session /\ r.mode = c.mode /\ r.written = 0
          /\ r.erased = Rounded(n) /\ r.up = up
      <4> HIDE DEF up
      <4>1. QED
        BY <1>0, <3>1, <3>2, Zeros DEF Content
    <3>4. ASSUME c'.transfer.active PROVE UploadInv'
      <4>1. c' = [r EXCEPT !.transfer = Answered(r.transfer, w.f.chunk, "OK")]
        BY <1>0, <2>0, <2>2, <3>3, <3>4, SinkToldIs DEF SinkResult, Chunked
      <4>2. Answered(r.transfer, w.f.chunk, "OK") =
               [active |-> TRUE, declared |-> n, received |-> 0]
        BY <2>0 DEF Answered, Chunked
      <4>3. /\ c'.written = 0 /\ c'.erased = Rounded(n) /\ c'.up = up
            /\ c'.session = c.session /\ c'.mode = c.mode
            /\ c'.transfer = [active |-> TRUE, declared |-> n, received |-> 0]
        <5> HIDE DEF up, r
        <5>1. QED
          BY <3>3, <4>1, <4>2 DEF Content
      <4>4. w'.pc \in {"save", "reply"}
        BY <1>0, <2>0, <2>2, <3>3, SinkToldIs DEF SinkResult, Chunked
      <4>5. QED
        BY <2>0, <2>2, <3>1, <4>3, <4>4 DEF UploadInv
    <3>5. ImageWhole' /\ (image # None => flash'[image] = "whole")
      BY <2>2, <3>1 DEF ImageWhole
    <3> HIDE DEF r
    <3>6. QED
      BY <2>0, <2>2, <3>3, <3>4, <3>5, SinkAnswered DEF SinkResult, Chunked
  <2>3. QED
    BY <1>13, <2>1, <2>2 DEF EraseRest
<1>14. ASSUME WriteAsk PROVE ContentInv'
  <2>1. /\ w.pc = "write" /\ w.pc \in SinkPc /\ Chunked("DATA") /\ w.f.chunk \in Chunk
        /\ UNCHANGED <<link, sessions, stored, display, last, doubt>>
    BY <1>0, <1>14, FrameTypes DEF WriteAsk, SinkPc, CallInv, LoopState, Chunked
  <2> DEFINE full == c.written > c.erased \/ w.f.chunk.n > c.erased - c.written
  <2>2. CASE full
    BY <1>14, <2>1, <2>2, SinkRefused DEF WriteAsk
  <2>3. CASE ~full /\ ~session_allowed
    BY <1>14, <2>1, <2>3, SinkRefused DEF WriteAsk
  <2>4. CASE ~full /\ session_allowed
    <3>1. w.f.chunk.n <= c.erased - c.written
      BY <1>0, <2>1, <2>4 DEF Chunk, Content
    <3>2. Goto("writing") /\ UNCHANGED c
      BY <1>14, <2>4 DEF WriteAsk
    <3>3. QED
      BY <2>1, <3>1, <3>2, SinkAllowed
  <2>5. QED
    BY <2>2, <2>3, <2>4
<1>15. ASSUME WriteData PROVE ContentInv'
  <2>0. /\ w.pc = "writing" /\ Chunked("DATA") /\ w.f.chunk \in Chunk /\ c.session = w.session
        /\ UNCHANGED <<link, sessions, nvs, frame, display, last, doubt>>
    BY <1>0, <1>15, FrameTypes DEF WriteData, CallInv, SinkPc, LoopState, Chunked
  <2> w.pc \in SinkPc
    BY <2>0 DEF SinkPc
  <2> flash \in [Mode -> {"none", "whole", "broken"}] /\ c.mode \in Mode /\ image \in Mode \cup {None}
    BY <1>0 DEF TypeOK, Content
  <2>1. /\ Uploading /\ c.written = c.transfer.received /\ c.erased = c.up.span
        /\ c.up.total = c.transfer.declared /\ c.up.by = c.session /\ c.up.clean
        /\ c.up.len = c.written /\ flash[c.mode] = "none" /\ image # c.mode
    BY <2>0 DEF CallInv, UploadInv, Uploading
  <2>2. Overwritten = flash
    BY <2>1 DEF Overwritten
  <2>3. ASSUME NEW rc \in {"INVALID", "IO"}, SinkTold(rc, c), UNCHANGED flash
        PROVE  ContentInv'
    BY <2>0, <2>3, SinkRefused
  <2> DEFINE n == w.f.chunk.n
             up == [c.up EXCEPT !.len = c.written + n, !.clean = TRUE]
             r == [c EXCEPT !.written = c.written + n, !.up = up]
  <2>4. ASSUME SinkTold("OK", Programmed(n)), UNCHANGED flash
        PROVE  ContentInv'
    <3>1. /\ c.written \in 0 .. Capacity /\ c.erased \in Nat /\ n \in Nat
          /\ c.written + n \in 0 .. Capacity /\ c.written + n <= c.erased
      <4>1. c.written \in 0 .. Capacity /\ c.erased \in 0 .. Rounded(Capacity) /\ n \in Nat
        BY <1>0, <2>0 DEF Content, Chunk
      <4>2. c.written + n <= Capacity /\ n <= c.erased - c.written
        BY <2>0, <2>1 DEF CallInv
      <4>3. QED
        BY <4>1, <4>2
    <3>2. c.up \in Upload
      BY <1>0 DEF Content
    <3>3. /\ up \in Upload /\ up.len = c.written + n /\ up.clean
          /\ up.span = c.up.span /\ up.total = c.up.total /\ up.by = c.up.by
      BY <3>1, <3>2 DEF Upload
    <3>4. Programmed(n) = r
      <4>1. /\ c.up.clean /\ c.up.len = c.written
            /\ c.written + n <= c.up.span /\ w.session = c.up.by
        BY <2>0, <2>1, <3>1
      <4>2. Programmed(n) =
               [c EXCEPT !.written = c.written + n, !.up.len = c.written + n, !.up.clean = TRUE]
        BY <4>1 DEF Programmed
      <4>3. QED
        BY <1>0, <4>2 DEF Content, Upload
    <3>5. /\ r \in Content /\ r.profile = c.profile /\ r.initialized = c.initialized
          /\ r.session = c.session /\ r.mode = c.mode /\ r.written = c.written + n
          /\ r.erased = c.erased /\ r.up = up /\ r.transfer = c.transfer
      <4> HIDE DEF up
      <4>1. QED
        BY <1>0, <3>1, <3>3 DEF Content
    <3> SinkTold("OK", r)
      BY <2>4, <3>4
    <3>6. ASSUME c'.transfer.active PROVE UploadInv'
      <4>1. c' = [r EXCEPT !.transfer = Answered(r.transfer, w.f.chunk, "OK")]
        BY <1>0, <2>0, <3>5, <3>6, SinkToldIs DEF SinkResult, Chunked
      <4>2. Answered(r.transfer, w.f.chunk, "OK") =
               [c.transfer EXCEPT !.received = c.transfer.received + n]
        BY <2>0, <3>5 DEF Answered, Chunked
      <4>3. /\ c'.written = c.written + n /\ c'.erased = c.erased /\ c'.up = up
            /\ c'.session = c.session /\ c'.mode = c.mode
            /\ c'.transfer = [c.transfer EXCEPT !.received = c.transfer.received + n]
        <5> HIDE DEF r, up
        <5>1. QED
          BY <3>5, <4>1, <4>2 DEF Content
      <4>4. c'.transfer.received = c.transfer.received + n
            /\ c'.transfer.declared = c.transfer.declared
        <5>1. c.transfer \in TransferState
          BY <1>0 DEF Content
        <5>2. QED
          BY <4>3, <5>1 DEF TransferState
      <4> HIDE DEF r, up
      <4>6. QED
        BY <2>0, <2>1, <2>4, <3>3, <4>3, <4>4 DEF UploadInv
    <3>7. ImageWhole' /\ (image # None => flash'[image] = "whole")
      BY <2>4 DEF ImageWhole, LeaseInv
    <3> HIDE DEF r, up
    <3>8. QED
      BY <2>0, <2>4, <3>5, <3>6, <3>7, SinkAnswered DEF SinkResult, Chunked
  <2>5. QED
    BY <1>15, <2>2, <2>3, <2>4 DEF WriteData
<1>16. ASSUME RecordAsk PROVE ContentInv'
  <2>1. w.pc = "meta" /\ w.pc \in SinkPc
        /\ UNCHANGED <<link, sessions, stored, display, last, doubt>>
    BY <1>16 DEF RecordAsk, SinkAsk, SinkPc
  <2>2. CASE session_allowed
    BY <1>16, <2>1, <2>2, SinkAllowed DEF RecordAsk, SinkAsk
  <2>3. CASE ~session_allowed
    BY <1>16, <2>1, <2>3, SinkRefused DEF RecordAsk, SinkAsk
  <2>4. QED
    BY <2>2, <2>3
<1>17. ASSUME WriteRecord PROVE ContentInv'
  <2>0. /\ w.pc = "recording" /\ Chunked("END") /\ w.f.chunk \in Chunk /\ c.session = w.session
        /\ UNCHANGED <<link, sessions, nvs, frame, display, last, doubt>>
    BY <1>0, <1>17, FrameTypes DEF WriteRecord, CallInv, SinkPc, LoopState, Chunked
  <2> w.pc \in SinkPc
    BY <2>0 DEF SinkPc
  <2> flash \in [Mode -> {"none", "whole", "broken"}] /\ c.mode \in Mode /\ image \in Mode \cup {None}
    BY <1>0 DEF TypeOK, Content
  <2>1. /\ Uploading /\ c.written = c.transfer.received /\ c.erased = c.up.span
        /\ c.up.total = c.transfer.declared /\ c.up.by = c.session /\ c.up.clean
        /\ flash[c.mode] = "none" /\ image # c.mode
    BY <2>0 DEF CallInv, UploadInv, Uploading
  <2>2. c.up.len = c.written /\ c.written = c.up.total
    <3>1. c.written \in Nat /\ c.up.len \in Nat
      BY <1>0 DEF Content, Upload
    <3>2. QED
      BY <2>0, <2>1, <3>1 DEF CallInv, UploadInv
  <2>3. Recorded \in {"none", "whole"}
    BY <2>1, <2>2 DEF Recorded
  <2> DEFINE done == [flash EXCEPT ![c.mode] = Recorded]
  <2>4. /\ done \in [Mode -> {"none", "whole", "broken"}]
        /\ \A m \in Mode : done[m] # "broken" /\ (m # c.mode => done[m] = flash[m])
        /\ image # None => done[image] = "whole" /\ flash[image] = "whole"
    BY <2>1, <2>3 DEF ImageWhole, LeaseInv
  <2>5. ASSUME NEW rc \in {"OK", "INVALID", "IO"}, SinkTold(rc, c), flash' \in {flash, done}
        PROVE  ContentInv'
    <3>1. ~c'.transfer.active
      BY <1>0, <2>0, <2>5, SinkToldIs DEF SinkResult, Chunked, CallInv
    <3>2. /\ flash' \in [Mode -> {"none", "whole", "broken"}] /\ ImageWhole'
          /\ image # None => flash'[image] = "whole"
      BY <2>4, <2>5 DEF ImageWhole
    <3>3. QED
      BY <1>0, <2>0, <2>5, <3>1, <3>2, SinkAnswered DEF SinkResult, Chunked, CallInv
  <2>6. QED
    BY <1>17, <2>5 DEF WriteRecord
<1>18. ASSUME SaveAsk PROVE ContentInv'
  <2>0. /\ w.pc = "save" /\ w.pc \in SavePc
        /\ UNCHANGED <<link, sessions, stored, display, last>>
    BY <1>18 DEF SaveAsk, SavePc
  <2>1. CASE session_allowed
    <3>1. Goto("set") /\ UNCHANGED <<c, doubt>>
      BY <1>18, <2>1 DEF SaveAsk
    <3>2. w' \in LoopState /\ w'.pc = "set" /\ w'.f = w.f /\ w'.session = w.session
          /\ w'.cand = w.cand
      BY <1>0, <3>1, GotoIs DEF WorkPc
    <3>3. QED
      BY <1>0, <2>0, <3>1, <3>2, SaveGoes DEF TypeOK
  <2>2. CASE ~session_allowed
    BY <1>0, <1>18, <2>0, <2>2, SaveEnds DEF SaveAsk, SaveCancelled, session_allowed, TypeOK
  <2>3. QED
    BY <2>1, <2>2
<1>19. ASSUME SaveSet PROVE ContentInv'
  <2>0. /\ w.pc \in SavePc /\ nvs' \in {nvs, w.cand}
        /\ UNCHANGED <<link, sessions, flash, frame, display, last>>
    BY <1>19 DEF SaveSet, SavePc
  <2>1. CASE Goto("commit") /\ UNCHANGED <<c, doubt>>
    <3>1. w' \in LoopState /\ w'.pc = "commit" /\ w'.f = w.f /\ w'.session = w.session
          /\ w'.cand = w.cand
      BY <1>0, <2>1, GotoIs DEF WorkPc
    <3>2. QED
      BY <1>0, <2>0, <2>1, <3>1, SaveGoes DEF TypeOK
  <2>2. CASE ~session_allowed /\ SaveCancelled
    BY <1>0, <2>0, <2>2, SaveEnds DEF SaveCancelled, session_allowed, TypeOK
  <2>3. CASE SaveFails
    BY <2>0, <2>3, SaveEnds DEF SaveFails
  <2>4. QED
    BY <1>19, <2>1, <2>2, <2>3 DEF SaveSet
<1>20. ASSUME SaveCommit PROVE ContentInv'
  <2>0. /\ w.pc \in SavePc /\ nvs' \in {nvs, w.cand} /\ w.cand \in Profile
        /\ UNCHANGED <<link, sessions, flash, frame, display, last>>
    BY <1>0, <1>20 DEF SaveCommit, SavePc, ProfileInv, LoopState
  <2>1. CASE nvs' = w.cand /\ Saved
    <3>1. w' \in LoopState /\ w'.pc = "reply" /\ w'.f = w.f /\ w'.session = w.session
      BY <1>0, <2>1, ReplyIs DEF Saved, Status
    <3>2. c' = [c EXCEPT !.profile = w.cand] /\ UNCHANGED doubt
      BY <2>1 DEF Saved
    <3>3. c'.profile = Loaded(nvs')
      BY <1>0, <2>0, <2>1, <3>2, NewValues DEF Content
    <3>4. QED
      BY <1>0, <2>0, <3>1, <3>2, <3>3, SaveGoes DEF TypeOK
  <2>2. CASE ~session_allowed /\ SaveCancelled
    BY <1>0, <2>0, <2>2, SaveEnds DEF SaveCancelled, session_allowed, TypeOK
  <2>3. CASE SaveFails
    BY <2>0, <2>3, SaveEnds DEF SaveFails
  <2>4. QED
    BY <1>20, <2>1, <2>2, <2>3 DEF SaveCommit
<1>21. ASSUME Finish PROVE ContentInv'
  <2>0. w' \in LoopState /\ w'.pc = "poll" /\ w'.session = 0
    BY <1>0, <1>21, WorkIs DEF Finish, WorkPc
  <2>1. /\ c' \in Content /\ doubt' \in BOOLEAN
        /\ c'.transfer.active => c' = c
        /\ (c'.initialized => c'.profile = Loaded(nvs)) \/ (c' = c /\ doubt' = doubt /\ session_allowed)
        /\ ui' \in [screen : {"HOME", "IMAGE", "OTHER"}, dirty : BOOLEAN, ready : BOOLEAN]
    <3>1. CASE ~session_allowed
      <4>1. reconcile_profile(stock_content_disconnect(c)) /\ ui' = [ui EXCEPT !.dirty = TRUE]
        BY <1>21, <3>1 DEF Finish
      <4>2. QED
        BY <1>0, <4>1, Reconciled DEF TypeOK
    <3>2. CASE ~(~session_allowed)
      <4>1. /\ UNCHANGED <<c, doubt>> /\ doubt \in BOOLEAN
            /\ ui \in [screen : {"HOME", "IMAGE", "OTHER"}, dirty : BOOLEAN, ready : BOOLEAN]
        BY <1>21, <3>2, <1>0 DEF Finish, TypeOK
      <4>2. PICK b \in BOOLEAN, screen \in {"HOME", "IMAGE", "OTHER"} :
               ui' = [ui EXCEPT !.dirty = b, !.screen = screen]
        <5>1. (ui.dirty \/ w.event # "NONE") \in BOOLEAN
          OBVIOUS
        <5>2. (IF w.event = "FULLSCREEN_READY" THEN "IMAGE" ELSE ui.screen)
                 \in {"HOME", "IMAGE", "OTHER"}
          BY <4>1
        <5>3. ui' = [ui EXCEPT !.dirty = (ui.dirty \/ w.event # "NONE"),
                               !.screen = IF w.event = "FULLSCREEN_READY" THEN "IMAGE" ELSE ui.screen]
          BY <1>21, <3>2 DEF Finish
        <5>4. QED
          BY <5>1, <5>2, <5>3
      <4>3. ui' \in [screen : {"HOME", "IMAGE", "OTHER"}, dirty : BOOLEAN, ready : BOOLEAN]
        BY <4>1, <4>2
      <4>4. QED
        BY <1>0, <3>2, <4>1, <4>3
    <3>3. QED
      BY <3>1, <3>2
  <2>2. TypeOK'
    BY <1>21, <2>0, <2>1 DEF Finish, TypeOK
  <2>3. CallInv'
    BY <1>0, <1>21, <2>0 DEF Finish, CallInv, FramePc, SavePc, SinkPc, TypeOK
  <2>4. UploadInv'
    BY <1>21, <2>0, <2>1 DEF Finish, UploadInv, Uploading
  <2>5. LeaseInv' /\ ShownIntact' /\ ImageWhole'
    BY <1>21, <2>0 DEF Finish, LeaseInv, ShownIntact, ImageWhole
  <2>6. ProfileInv'
    BY <1>21, <2>0, <2>1 DEF Finish, ProfileInv, SavePc, CallInv, FramePc, session_allowed
  <2>7. QED
    BY <2>2, <2>3, <2>4, <2>5, <2>6
<1>22. ASSUME Forget PROVE ContentInv'
  <2>0. w' \in LoopState /\ w'.pc = "keys" /\ w'.f = w.f
        /\ w'.session = w.session /\ w'.cand = w.cand
    BY <1>0, <1>22, GotoIs DEF Forget, WorkPc
  <2>1. /\ c' \in Content /\ doubt' \in BOOLEAN
        /\ c'.transfer.active => c' = c
        /\ (c'.initialized => c'.profile = Loaded(nvs)) \/ (c' = c /\ doubt' = doubt /\ last' = last)
        /\ ui' \in [screen : {"HOME", "IMAGE", "OTHER"}, dirty : BOOLEAN, ready : BOOLEAN]
    <3>1. CASE last # 0 /\ link # last
      <4>1. reconcile_profile(stock_content_disconnect(c)) /\ ui' = [ui EXCEPT !.dirty = TRUE]
        BY <1>22, <3>1 DEF Forget
      <4>2. QED
        BY <1>0, <4>1, Reconciled DEF TypeOK
    <3>2. CASE ~(last # 0 /\ link # last)
      BY <1>0, <1>22, <3>2 DEF Forget, TypeOK
    <3>3. QED
      BY <3>1, <3>2
  <2>8. last' \in {last, 0} /\ last' \in 0 .. MaxSessions
    BY <1>0, <1>22, Zeros DEF Forget, TypeOK
  <2>2. TypeOK'
    BY <1>22, <2>0, <2>1, <2>8 DEF Forget, TypeOK
  <2>3. CallInv'
    BY <1>0, <1>22, <2>0, <2>8 DEF Forget, CallInv, FramePc, SavePc, SinkPc, TypeOK
  <2>4. UploadInv'
    BY <1>22, <2>0, <2>1 DEF Forget, UploadInv, Uploading
  <2>5. LeaseInv' /\ ShownIntact' /\ ImageWhole'
    BY <1>22, <2>0 DEF Forget, LeaseInv, ShownIntact, ImageWhole
  <2>6. ProfileInv'
    BY <1>22, <2>0, <2>1 DEF Forget, ProfileInv, SavePc, CallInv, FramePc
  <2>7. QED
    BY <2>2, <2>3, <2>4, <2>5, <2>6
<1>23. ASSUME Keys PROVE ContentInv'
  <2>0. /\ w' \in LoopState /\ w'.pc \in {"poll", "clear", "avatar"}
        /\ w'.session \in {0, w.session}
        /\ w'.pc = "avatar" => image = None
        /\ ui' \in [screen : {"HOME", "IMAGE", "OTHER"}, dirty : BOOLEAN, ready : BOOLEAN]
        /\ w.pc = "keys" /\ UNCHANGED <<link, sessions, stored, c, image, avatar, lvgl, last, doubt>>
    <3>1. ui' \in [screen : {"HOME", "IMAGE", "OTHER"}, dirty : BOOLEAN, ready : BOOLEAN]
      BY <1>0, <1>23 DEF Keys, TypeOK
    <3>2. CASE ~ui'.dirty
      <4>1. w' = Work("poll")
        BY <1>23, <3>2 DEF Keys
      <4>2. QED
        BY <1>0, <1>23, <3>1, <4>1, WorkIs DEF Keys, WorkPc
    <3>3. CASE ui'.dirty
      <4> DEFINE pc == IF image # None THEN "clear" ELSE "avatar"
      <4>1. w' = [w EXCEPT !.pc = pc]
        BY <1>23, <3>3 DEF Keys
      <4>2. w' \in LoopState /\ w'.pc = pc /\ w'.session = w.session
        BY <1>0, <4>1 DEF LoopState, WorkPc
      <4>3. QED
        BY <1>23, <3>1, <4>2 DEF Keys
    <3>4. QED
      BY <3>2, <3>3
  <2>1. TypeOK'
    BY <2>0 DEF TypeOK
  <2>2. CallInv'
    <3>1. UNCHANGED <<sessions, last>>
      BY <2>0
    <3>2. w'.session <= sessions' /\ (w'.session # 0 => last' = w'.session)
      <4>1. w.session <= sessions /\ (w.session # 0 => last = w.session)
        BY DEF CallInv
      <4>2. w'.session = 0 \/ w'.session = w.session
        BY <2>0
      <4>3. QED
        BY <1>0, <3>1, <4>1, <4>2
    <3>3. w'.pc \in {"poll", "clear", "avatar"}
      BY <2>0
    <3>4. QED
      BY <3>2, <3>3 DEF CallInv, FramePc, SavePc, SinkPc
  <2>3. UploadInv'
    BY <2>0 DEF UploadInv, Uploading
  <2>4. LeaseInv' /\ ShownIntact' /\ ImageWhole'
    <3>1. UNCHANGED <<flash, frame, image, avatar, lvgl>>
      BY <2>0
    <3>2. w'.pc \in {"poll", "clear", "avatar"} /\ (w'.pc = "avatar" => image = None)
      BY <2>0
    <3>3. QED
      BY <3>1, <3>2 DEF LeaseInv, ShownIntact, ImageWhole
  <2>5. ProfileInv'
    BY <2>0 DEF ProfileInv, SavePc
  <2>6. QED
    BY <2>1, <2>2, <2>3, <2>4, <2>5
<1>24. ASSUME View PROVE ContentInv'
  <2>0. w' \in LoopState /\ w'.pc = "render" /\ w'.f = w.f
        /\ w'.session = w.session /\ w'.cand = w.cand
    BY <1>0, <1>24, GotoIs DEF View, WorkPc
  <2>1. /\ image' \in Mode \cup {None} /\ frame' \in Avatars \cup {None}
        /\ avatar' \in Avatars \cup {None}
        /\ image' # None => flash[image'] # "none" /\ ~(c.transfer.active /\ c.mode = image')
        /\ image = None
        /\ (avatar' = avatar /\ frame' = frame) \/ (avatar = None /\ avatar' \in {None, frame'})
    <3> DEFINE m == IF ui.screen = "HOME" THEN "AVATAR" ELSE "FULLSCREEN"
               custom == m = "FULLSCREEN" \/ c.profile.avatar = "custom"
    <3>1. image = None /\ avatar \in Avatars \cup {None} /\ frame \in Avatars \cup {None}
      BY <1>24, <1>0 DEF View, LeaseInv, TypeOK
    <3>2. CASE ~ui.ready \/ ui.screen = "OTHER"
      BY <1>24, <3>1, <3>2 DEF View
    <3>3. CASE ~(~ui.ready \/ ui.screen = "OTHER") /\ ~custom
      <4>1. c.profile.avatar \in Avatars
        BY <1>0, <3>3 DEF Content, Profile
      <4>2. /\ IF avatar = None THEN PrepareAvatar(c.profile.avatar) ELSE UNCHANGED <<avatar, frame>>
            /\ UNCHANGED image
        BY <1>24, <3>3 DEF View
      <4>3. QED
        BY <3>1, <4>1, <4>2 DEF PrepareAvatar
    <3>4. CASE ~(~ui.ready \/ ui.screen = "OTHER") /\ custom
      <4>1. /\ (Acquirable(m) /\ image' = m) \/ UNCHANGED image
            /\ UNCHANGED <<avatar, frame>>
        BY <1>24, <3>4 DEF View
      <4>2. QED
        BY <3>1, <4>1 DEF Acquirable, Mode
    <3>5. QED
      BY <3>2, <3>3, <3>4
  <2>2. w.pc = "view" /\ UNCHANGED <<link, sessions, nvs, flash, c, lvgl, ui, last, doubt>>
    BY <1>24 DEF View
  <2>3. TypeOK'
    BY <2>0, <2>1, <2>2 DEF TypeOK
  <2>4. CallInv'
    BY <2>0, <2>2 DEF CallInv, FramePc, SavePc, SinkPc
  <2>5. UploadInv'
    BY <2>0, <2>1, <2>2 DEF UploadInv, Uploading
  <2>6. LeaseInv'
    <3>1. image' # None => flash[image'] = "whole"
      BY <1>0, <2>1 DEF TypeOK, ImageWhole
    <3>2. avatar' # None => frame' = avatar'
      BY <2>1 DEF LeaseInv
    <3>3. lvgl \notin Mode
      BY <2>1 DEF ShownIntact
    <3>4. QED
      BY <2>0, <2>2, <3>1, <3>2, <3>3 DEF LeaseInv
  <2>7. ShownIntact' /\ ImageWhole'
    BY <2>1, <2>2 DEF ShownIntact, ImageWhole
  <2>8. ProfileInv'
    BY <2>0, <2>2 DEF ProfileInv, SavePc
  <2>9. QED
    BY <2>3, <2>4, <2>5, <2>6, <2>7, <2>8
<1>25. ASSUME KeepAvatar PROVE ContentInv'
  <2>0. w' \in LoopState /\ w'.pc = "view" /\ w'.f = w.f
        /\ w'.session = w.session /\ w'.cand = w.cand
    BY <1>0, <1>25, GotoIs DEF KeepAvatar, WorkPc
  <2>1. TypeOK'
    BY <1>0, <1>25, <2>0 DEF KeepAvatar, TypeOK, WorkPc
  <2>2. CallInv'
    BY <1>0, <1>25, <2>0 DEF KeepAvatar, CallInv, FramePc, SavePc, SinkPc, Chunked, IsBegin
  <2>3. UploadInv'
    BY <1>0, <1>25, <2>0 DEF KeepAvatar, UploadInv, Uploading
  <2>4. LeaseInv' /\ ShownIntact' /\ ImageWhole'
    BY <1>0, <1>25, <2>0 DEF KeepAvatar, TypeOK, LeaseInv, ShownIntact, ImageWhole, Mode
  <2>5. ProfileInv'
    BY <1>0, <1>25, <2>0 DEF KeepAvatar, CallInv, ProfileInv, FramePc, SavePc, SinkPc
  <2>6. QED
    BY <2>1, <2>2, <2>3, <2>4, <2>5
<1>26. ASSUME ReleaseAvatar PROVE ContentInv'
  <2>0. w' \in LoopState /\ w'.pc = "unmap_avatar" /\ w'.f = w.f
        /\ w'.session = w.session /\ w'.cand = w.cand
    BY <1>0, <1>26, GotoIs DEF ReleaseAvatar, WorkPc
  <2>1. TypeOK'
    BY <1>0, <1>26, <2>0 DEF ReleaseAvatar, TypeOK, WorkPc
  <2>2. CallInv'
    BY <1>0, <1>26, <2>0 DEF ReleaseAvatar, CallInv, FramePc, SavePc, SinkPc, Chunked, IsBegin
  <2>3. UploadInv'
    BY <1>0, <1>26, <2>0 DEF ReleaseAvatar, UploadInv, Uploading
  <2>4. LeaseInv' /\ ShownIntact' /\ ImageWhole'
    BY <1>0, <1>26, <2>0 DEF ReleaseAvatar, TypeOK, LeaseInv, ShownIntact, ImageWhole, Mode
  <2>5. ProfileInv'
    BY <1>0, <1>26, <2>0 DEF ReleaseAvatar, CallInv, ProfileInv, FramePc, SavePc, SinkPc
  <2>6. QED
    BY <2>1, <2>2, <2>3, <2>4, <2>5
<1>27. ASSUME ReleaseAvatarMissed PROVE ContentInv'
  <2>0. w' \in LoopState /\ w'.pc = "poll" /\ w'.session = 0
    BY <1>0, <1>27, WorkIs DEF ReleaseAvatarMissed, WorkPc
  <2>1. TypeOK'
    BY <1>0, <1>27, <2>0 DEF ReleaseAvatarMissed, TypeOK, WorkPc
  <2>2. CallInv'
    BY <1>0, <1>27, <2>0 DEF ReleaseAvatarMissed, CallInv, FramePc, SavePc, SinkPc, Chunked, IsBegin, TypeOK
  <2>3. UploadInv'
    BY <1>0, <1>27, <2>0 DEF ReleaseAvatarMissed, UploadInv, Uploading
  <2>4. LeaseInv' /\ ShownIntact' /\ ImageWhole'
    BY <1>0, <1>27, <2>0 DEF ReleaseAvatarMissed, TypeOK, LeaseInv, ShownIntact, ImageWhole, Mode
  <2>5. ProfileInv'
    BY <1>0, <1>27, <2>0 DEF ReleaseAvatarMissed, CallInv, ProfileInv, FramePc, SavePc, SinkPc
  <2>6. QED
    BY <2>1, <2>2, <2>3, <2>4, <2>5
<1>28. ASSUME ReleaseAvatarUnmap PROVE ContentInv'
  <2>0. w' \in LoopState /\ w'.pc = "view" /\ w'.f = w.f
        /\ w'.session = w.session /\ w'.cand = w.cand
    BY <1>0, <1>28, GotoIs DEF ReleaseAvatarUnmap, WorkPc
  <2>1. TypeOK'
    BY <1>0, <1>28, <2>0 DEF ReleaseAvatarUnmap, TypeOK, WorkPc
  <2>2. CallInv'
    BY <1>0, <1>28, <2>0 DEF ReleaseAvatarUnmap, CallInv, FramePc, SavePc, SinkPc, Chunked, IsBegin
  <2>3. UploadInv'
    BY <1>0, <1>28, <2>0 DEF ReleaseAvatarUnmap, UploadInv, Uploading
  <2>4. LeaseInv' /\ ShownIntact' /\ ImageWhole'
    BY <1>0, <1>28, <2>0 DEF ReleaseAvatarUnmap, TypeOK, LeaseInv, ShownIntact, ImageWhole, Mode
  <2>5. ProfileInv'
    BY <1>0, <1>28, <2>0 DEF ReleaseAvatarUnmap, CallInv, ProfileInv, FramePc, SavePc, SinkPc
  <2>6. QED
    BY <2>1, <2>2, <2>3, <2>4, <2>5
<1>29. ASSUME RenderDone PROVE ContentInv'
  <2>0. w' \in LoopState /\ w'.pc = "poll" /\ w'.session = 0
    BY <1>0, <1>29, WorkIs DEF RenderDone, WorkPc
  <2>1. /\ lvgl' \in Mode \cup {"blank", "plain", "builtin"}
        /\ lvgl' \in Mode => image = lvgl'
        /\ lvgl' = "builtin" => avatar # None
    BY <1>0, <1>29 DEF RenderDone, Picture, TypeOK, Mode
  <2>2. ui' = [ui EXCEPT !.dirty = FALSE] /\ UNCHANGED <<link, sessions, stored, c, image, avatar, last, doubt>>
    BY <1>29 DEF RenderDone
  <2>3. TypeOK'
    BY <2>0, <2>1, <2>2 DEF TypeOK
  <2>4. CallInv'
    BY <1>0, <2>0, <2>2 DEF CallInv, FramePc, SavePc, SinkPc, TypeOK
  <2>5. UploadInv'
    BY <1>29, <2>0, <2>2 DEF RenderDone, UploadInv, Uploading
  <2>6. LeaseInv'
    BY <2>0, <2>2 DEF LeaseInv
  <2>7. ShownIntact' /\ ImageWhole'
    BY <2>1, <2>2 DEF ShownIntact, ImageWhole, LeaseInv
  <2>8. ProfileInv'
    BY <1>29, <2>0, <2>2 DEF RenderDone, ProfileInv, SavePc
  <2>9. QED
    BY <2>3, <2>4, <2>5, <2>6, <2>7, <2>8
<1>30. ASSUME RenderMissed PROVE ContentInv'
  <2>0. w' \in LoopState /\ w'.pc = "poll" /\ w'.session = 0
    BY <1>0, <1>30, WorkIs DEF RenderMissed, WorkPc
  <2>1. TypeOK'
    BY <1>0, <1>30, <2>0 DEF RenderMissed, TypeOK, WorkPc
  <2>2. CallInv'
    BY <1>0, <1>30, <2>0 DEF RenderMissed, CallInv, FramePc, SavePc, SinkPc, Chunked, IsBegin, TypeOK
  <2>3. UploadInv'
    BY <1>0, <1>30, <2>0 DEF RenderMissed, UploadInv, Uploading, Mode
  <2>4. LeaseInv' /\ ShownIntact' /\ ImageWhole'
    BY <1>0, <1>30, <2>0 DEF RenderMissed, TypeOK, LeaseInv, ShownIntact, ImageWhole, Mode
  <2>5. ProfileInv'
    BY <1>0, <1>30, <2>0 DEF RenderMissed, CallInv, ProfileInv, FramePc, SavePc, SinkPc
  <2>6. QED
    BY <2>1, <2>2, <2>3, <2>4, <2>5
<1>31. CASE UNCHANGED vars
  BY <1>31 DEF vars, TypeOK, CallInv, UploadInv, Uploading, LeaseInv, ProfileInv, ImageWhole, ShownIntact, Chunked
<1>32. QED
  BY <1>1, <1>2, <1>3, <1>4, <1>5, <1>6, <1>7, <1>8, <1>9, <1>10, <1>11, <1>12, <1>13, <1>14, <1>15, <1>16, <1>17, <1>18, <1>19, <1>20, <1>21, <1>22, <1>23, <1>24, <1>25, <1>26, <1>27, <1>28, <1>29, <1>30, <1>31 DEF Next, Loop

\* The strengthened invariant holds in every state of the specification.
LEMMA ContentInvAlways == Spec => []ContentInv
BY ContentInvInit, ContentInvStep, PTL DEF Spec

-----------------------------------------------------------------------------
(* Results *)

\* Types hold for ever: the counters of a transfer, of its writes and of its
\* erased sectors never leave the partition, whatever the client declares.
THEOREM TypeCorrect == Spec => []TypeOK
<1>1. ContentInv => TypeOK
  BY DEF ContentInv
<1>2. QED
  BY <1>1, ContentInvAlways, PTL

\* An image that has its JPG1 record is whole: stock_content.c erases the
\* record first and writes it last, so no failed write, lost session or crash
\* leaves a record over part of an image.
THEOREM ImagesWhole == Spec => []ImageWhole
<1>1. ContentInv => ImageWhole
  BY DEF ContentInv
<1>2. QED
  BY <1>1, ContentInvAlways, PTL

\* What LVGL refers to stays mapped and unchanged: the loop blanks the screen
\* before it unmaps a lease, and unmaps it before an image is received.
THEOREM ShownAlwaysIntact == Spec => []ShownIntact
<1>1. ContentInv => ShownIntact
  BY DEF ContentInv
<1>2. QED
  BY <1>1, ContentInvAlways, PTL

\* Outside a save, the profile in memory is the stored one, unless a save has
\* failed in a session that has not been forgotten.
THEOREM ProfilesAgree == Spec => []ProfileAgrees
<1>1. ContentInv => ProfileAgrees
  BY DEF ContentInv, ProfileInv, ProfileAgrees, Saving
<1>2. QED
  BY <1>1, ContentInvAlways, PTL

\* What is stored is changed by five operations of the loop.
LEMMA StoreSteps ==
    ASSUME [Next]_vars, <<nvs, flash>>' # <<nvs, flash>>
    PROVE  \/ (EraseRecord \/ WriteData \/ WriteRecord) /\ UNCHANGED nvs
           \/ (SaveSet \/ SaveCommit) /\ UNCHANGED flash
<1>1. CASE \/ SessionStarts \/ SessionEnds \/ Crash \/ UNCHANGED vars
           \/ \E f \in Frames : Receive(f)
  BY <1>1 DEF SessionStarts, SessionEnds, Crash, Receive, vars, stored
<1>2. CASE \/ Boot \/ EndPoll \/ ReleaseClear \/ ReleaseMissed \/ ReleaseUnmap \/ Handle
           \/ EraseAsk \/ EraseRest \/ WriteAsk \/ RecordAsk \/ SaveAsk \/ Finish
  BY <1>2 DEF Boot, EndPoll, ReleaseClear, ReleaseMissed, ReleaseUnmap, Handle,
        EraseAsk, EraseRest, WriteAsk, RecordAsk, SinkAsk, SaveAsk, Finish, stored
<1>3. CASE \/ Forget \/ Keys \/ View
           \/ KeepAvatar \/ ReleaseAvatar \/ ReleaseAvatarMissed \/ ReleaseAvatarUnmap
           \/ RenderDone \/ RenderMissed
  BY <1>3 DEF Forget, Keys, View, KeepAvatar, ReleaseAvatar, ReleaseAvatarMissed,
        ReleaseAvatarUnmap, RenderDone, RenderMissed, stored
<1>4. CASE EraseRecord \/ WriteData \/ WriteRecord
  BY <1>4 DEF EraseRecord, WriteData, WriteRecord
<1>5. CASE SaveSet \/ SaveCommit
  BY <1>5 DEF SaveSet, SaveCommit
<1>6. QED
  BY <1>1, <1>2, <1>3, <1>4, <1>5 DEF Next, Loop

\* One partition is erased or gets its record at a time.
LEMMA FlashChanges ==
    ASSUME ContentInv, [Next]_vars,
           NEW m \in Mode, flash[m] # "none", flash'[m] # flash[m]
    PROVE  w.pc = "erasing" /\ c.mode = m
<1>1. CASE EraseRecord
  BY <1>1 DEF EraseRecord, At, ContentInv, TypeOK
<1>2. CASE WriteData
  <2>1. flash[c.mode] = "none"
    BY <1>2 DEF WriteData, At, ContentInv, CallInv, UploadInv, Uploading
  <2>2. Overwritten[m] = flash[m]
    BY <2>1 DEF Overwritten, ContentInv, TypeOK
  <2>3. QED
    BY <1>2, <2>2 DEF WriteData
<1>3. CASE WriteRecord
  <2>1. flash[c.mode] = "none"
    BY <1>3 DEF WriteRecord, At, ContentInv, UploadInv, Uploading
  <2>2. flash'[m] = flash[m]
    BY <1>3, <2>1 DEF WriteRecord, ContentInv, TypeOK
  <2>3. QED
    BY <2>2
<1>4. QED
  BY <1>1, <1>2, <1>3, StoreSteps

\* image_begin alone gives up a stored image, for a BEGIN that fits, of the
\* mode that the profile shows.
THEOREM ImagesKept == Spec => KeptUntilBegin
<1> DEFINE Kept ==
        \A m \in Mode : flash[m] # "none" /\ flash'[m] # flash[m] =>
            IsBegin(w.f) /\ w.f.chunk.n <= Capacity /\ c.profile.mode = m
<1>1. ContentInv /\ [Next]_vars => [Kept]_vars
  <2> SUFFICES ASSUME ContentInv, [Next]_vars,
                      NEW m \in Mode, flash[m] # "none", flash'[m] # flash[m]
               PROVE  IsBegin(w.f) /\ w.f.chunk.n <= Capacity /\ c.profile.mode = m
    OBVIOUS
  <2>1. w.pc = "erasing" /\ c.mode = m
    BY FlashChanges
  <2>2. QED
    BY <2>1 DEF ContentInv, CallInv, Chunked, IsBegin
<1>2. QED
  BY <1>1, ContentInvAlways, PTL DEF Spec, KeptUntilBegin

\* An operation that its last guard allowed may outlive the session: no other
\* follows it, nothing is published for it, and the profile in memory stays.
THEOREM LateStepsAreLast == Spec => LateIsLast
<1> DEFINE Late ==
        link # w.session /\ <<nvs, flash>>' # <<nvs, flash>> =>
            /\ w'.pc = "erase_rest" \/ (w'.pc = "reply" /\ w'.event = "NONE")
            /\ c'.profile = c.profile
<1>1. ContentInv /\ [Next]_vars => [Late]_vars
  <2> SUFFICES ASSUME ContentInv, [Next]_vars, link # w.session,
                      <<nvs, flash>>' # <<nvs, flash>>
               PROVE  /\ w'.pc = "erase_rest" \/ (w'.pc = "reply" /\ w'.event = "NONE")
                      /\ c'.profile = c.profile
    OBVIOUS
  <2>0. w \in LoopState /\ c \in Content /\ w.f \in Frames \cup {NoFrame} /\ ~session_allowed
    BY DEF ContentInv, TypeOK, LoopState, session_allowed
  <2>1. ASSUME w.pc \in SinkPc, NEW rc \in {"INVALID", "IO"}, SinkTold(rc, c)
        PROVE  w'.pc = "reply" /\ w'.event = "NONE" /\ c'.profile = c.profile
    <3>1. /\ w.f.type = "IMAGE" /\ w.f.chunk.op # "OTHER" /\ w.f.chunk \in Chunk
          /\ w.f.chunk.op = "END" => ~c.transfer.active
          /\ rc \in SinkResult /\ rc # "OK" /\ c.transfer \in TransferState
      BY <2>0, <2>1, FrameTypes DEF ContentInv, CallInv, SinkPc, Chunked, SinkResult, Content
    <3>2. c'.profile = c.profile
      BY <2>0, <2>1, <3>1, SinkToldIs
    <3>3. ~Told(c.transfer, "IMAGE", w.f.chunk, rc).completed
      <4>1. Told(c.transfer, "IMAGE", w.f.chunk, rc).completed
               = (w.f.chunk.op = "END" /\ rc = "OK")
        BY <3>1, ToldIs
      <4>2. QED
        BY <3>1, <4>1
    <3>4. Reply(Told(c.transfer, "IMAGE", w.f.chunk, rc).status, "NONE")
      BY <2>1, <3>3 DEF SinkTold
    <3>5. QED
      BY <2>0, <3>2, <3>4 DEF Reply, LoopState
  <2>2. ASSUME NotSaved
        PROVE  w'.pc = "reply" /\ w'.event = "NONE" /\ c'.profile = c.profile
    BY <2>0, <2>2 DEF NotSaved, Reply, LoopState
  <2>3. CASE EraseRecord
    <3>1. CASE Goto("erase_rest") /\ c' = [c EXCEPT !.up = Unknown]
      BY <2>0, <3>1, GotoIs DEF WorkPc, Content
    <3>2. CASE SinkTold("IO", c)
      BY <2>1, <2>3, <3>2 DEF EraseRecord, At, SinkPc
    <3>3. QED
      BY <2>3, <3>1, <3>2 DEF EraseRecord
  <2>4. CASE WriteData
    BY <2>0, <2>1, <2>4 DEF WriteData, At, SinkPc
  <2>5. CASE WriteRecord
    BY <2>0, <2>1, <2>5 DEF WriteRecord, At, SinkPc
  <2>6. CASE SaveSet
    BY <2>0, <2>2, <2>6 DEF SaveSet, SaveCancelled, SaveFails
  <2>7. CASE SaveCommit
    BY <2>0, <2>2, <2>7 DEF SaveCommit, SaveCancelled, SaveFails
  <2>8. QED
    BY <2>3, <2>4, <2>5, <2>6, <2>7, StoreSteps
<1>2. QED
  BY <1>1, ContentInvAlways, PTL DEF Spec, LateIsLast
=============================================================================
