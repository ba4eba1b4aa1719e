----------------------------- MODULE WalletStore -----------------------------
(***************************************************************************)
(* The wallet snapshot store, main/wallet_store.c: two flash banks, each   *)
(* with a package area and a commit marker, and an NVS pointer to the      *)
(* active bank.                                                            *)
(*                                                                         *)
(* Three threads of control meet here: the BLE worker, which runs begin,   *)
(* write, commit and abort one at a time; the user interface, which reads  *)
(* pages under the store mutex; and the power supply, which can fail       *)
(* between any two flash or NVS operations.  begin and commit do their     *)
(* flash work outside the mutex, so they are modelled step by step; a      *)
(* critical section without flash work in it is one step that needs the    *)
(* mutex to be free.                                                       *)
(*                                                                         *)
(* Flash area of a package: one cell per page record.  A cell holds the    *)
(* record of a package, is Blank (erased) or is Torn (neither).  A cell    *)
(* with package p at index i stands for the i-th record of p, so the two   *)
(* CRCs of a package match exactly when all its cells are p: CRC32 is      *)
(* taken to be collision free.                                             *)
(***************************************************************************)
EXTENDS Integers

CONSTANTS Packages,     \* the packages a phone may announce
          WellFormed,   \* those that validate_package accepts when intact
          Size,         \* the number of page records of each package
          MaxSize,      \* page records that fit before the marker
          None,         \* no package
          Blank, Torn,  \* cells that hold no record
          GenLimit,     \* 2^32 in the code: generations are uint32_t
          MaxCommits,   \* bound on the commits of one behaviour
          LoadFaults,   \* whether reading the NVS pointer at boot may fail
          ReadFaults    \* whether reading a bank at boot may fail

ASSUME PackagesAssumption ==
    /\ WellFormed \subseteq Packages
    /\ Size \in [Packages -> Nat]
    /\ MaxSize \in Nat \ {0}
    /\ None \notin Packages
    /\ Blank \notin Packages
    /\ Torn \notin Packages

ASSUME CounterAssumption ==
    /\ GenLimit \in Nat
    /\ GenLimit > 2
    /\ MaxCommits \in Nat

ASSUME FaultsAssumption == LoadFaults \in BOOLEAN /\ ReadFaults \in BOOLEAN

Banks == {0, 1}
NoBank == -1
Cells == Packages \cup {Blank, Torn}
Marker == [gen : 0 .. GenLimit - 1, pkg : Packages \cup {None}]

VARIABLES
    \* durable
    data,       \* the package area of each bank
    mark,       \* the marker of each bank; gen 0 is a marker that does not decode
    ptr,        \* the bank number in NVS, NoBank when there is none
    \* s_store, lost at power failure
    up,         \* initialized
    active,     \* active_bank
    info,       \* active_info, reduced to revision and package
    staging,
    sbank,      \* staging_bank
    expect,     \* expected_length and expected_crc: the announced package
    written,
    \* the store call the worker is in: where, its locals, its return value
    wpc, wbank, wpkg, wgen, result,
    \* the user interface's page read, and the mutex it holds while reading
    mutex, rpc, rrev, rpkg, rpage, rmeta, rpix,
    \* the number of markers written so far
    commits

flash == <<data, mark, ptr>>
stage == <<staging, sbank, expect, written>>
store == <<up, active, info, staging, sbank, expect, written>>
worker == <<wpc, wbank, wpkg, wgen, result>>
reader == <<mutex, rpc, rrev, rpkg, rpage, rmeta, rpix>>
vars == <<flash, store, worker, reader, commits>>

NoMarker == [gen |-> 0, pkg |-> None]

-----------------------------------------------------------------------------
(* Reading the flash *)

\* begin's and validate_package's length check.
Fits(p) == Size[p] \in 1 .. MaxSize

\* validate_package: header, both CRCs and every page record are right.
validate_package(b, p) ==
    /\ p \in WellFormed
    /\ Fits(p)
    /\ \A i \in 1 .. Size[p] : data[b][i] = p

\* validate_committed_bank
validate_committed_bank(b) ==
    /\ mark[b].gen # 0
    /\ validate_package(b, mark[b].pkg)

\* The newest of the committed banks in B; of two equal ones the first.
NewestOf(B) ==
    LET C == {b \in B : validate_committed_bank(b)}
    IN  IF C = {} THEN NoBank
        ELSE IF 0 \in C /\ (1 \in C => mark[1].gen <= mark[0].gen) THEN 0
        ELSE 1

\* wallet_store_init's choice when the banks in B could be read and p is the
\* pointer that was loaded (NoBank when there is none or it cannot be read).
Selected(B, p) ==
    IF p \in B /\ validate_committed_bank(p) THEN p ELSE NewestOf(B)

-----------------------------------------------------------------------------
(* What flash operations may leave behind *)

\* A cell after programming record c over old: an erased cell takes the
\* record; over anything else the result need not be the record.
Programmed(old, c) == IF old = Blank THEN {c} ELSE {c, Torn}

\* A cell after an operation towards c was cut short.
Interrupted(old, c) == {old, c, Torn}

\* The erase of bank b was cut short: any part of it happened.
PartlyErased(b) ==
    /\ \E area \in [1 .. MaxSize -> Cells] :
          /\ \A i \in 1 .. MaxSize : area[i] \in Interrupted(data[b][i], Blank)
          /\ data' = [data EXCEPT ![b] = area]
    /\ \E m \in {mark[b], NoMarker} : mark' = [mark EXCEPT ![b] = m]

-----------------------------------------------------------------------------
Init ==
    /\ data = [b \in Banks |-> [i \in 1 .. MaxSize |-> Blank]]
    /\ mark = [b \in Banks |-> NoMarker]
    /\ ptr = NoBank
    /\ up = FALSE
    /\ active = NoBank
    /\ info = NoMarker
    /\ staging = FALSE
    /\ sbank = 0
    /\ expect = None
    /\ written = 0
    /\ wpc = "idle" /\ wbank = 0 /\ wpkg = None /\ wgen = 0 /\ result = "none"
    /\ mutex = "free" /\ rpc = "idle" /\ rrev = 0 /\ rpkg = None
    /\ rpage = 1 /\ rmeta = Blank /\ rpix = Blank
    /\ commits = 0

\* wallet_store_init.  B is the set of banks that could be read, p the loaded
\* pointer; the save of a corrected pointer is best effort.
wallet_store_init(B, p) ==
    LET chosen == Selected(B, p)
    IN  /\ ~up
        /\ up' = TRUE
        /\ active' = chosen
        /\ info' = IF chosen = NoBank THEN NoMarker ELSE mark[chosen]
        /\ staging' = FALSE
        /\ IF chosen = NoBank \/ chosen = p
             THEN UNCHANGED ptr
             ELSE ptr' \in {ptr, chosen}
        /\ UNCHANGED <<data, mark, sbank, expect, written, worker, reader, commits>>

Boot ==
    \E B \in IF ReadFaults THEN SUBSET Banks ELSE {Banks},
       p \in IF LoadFaults THEN {ptr, NoBank} ELSE {ptr} :
       wallet_store_init(B, p)

-----------------------------------------------------------------------------
(* The worker's calls *)

\* The worker is between store calls.
Ready == up /\ wpc = "idle"

\* A call returns a code; its locals are gone.
Return(code) ==
    /\ wpc' = "idle"
    /\ wbank' = 0
    /\ wpkg' = None
    /\ wgen' = 0
    /\ result' = code

\* Mutant: no special case for a store without an active bank.
InactiveBankUnchecked == 1 - active

\* The bank an upload goes to.
InactiveBank == IF active = 0 THEN 1 ELSE 0

\* wallet_store_begin, up to the erase: choose the inactive bank.
BeginSelect(p) ==
    /\ Ready
    /\ IF Fits(p)
         THEN /\ mutex = "free"
              /\ wbank' = InactiveBank
              /\ wpkg' = p
              /\ staging' = FALSE
              /\ wpc' = "erase"
              /\ UNCHANGED result
         ELSE /\ result' = "NO_SPACE"
              /\ UNCHANGED <<wpc, wbank, wpkg, staging>>
    /\ UNCHANGED <<flash, up, active, info, sbank, expect, written, wgen,
                   reader, commits>>

\* The erase, without the mutex.
BeginErase ==
    /\ wpc = "erase"
    /\ data' = [data EXCEPT ![wbank] = [i \in 1 .. MaxSize |-> Blank]]
    /\ mark' = [mark EXCEPT ![wbank] = NoMarker]
    /\ wpc' = "stage"
    /\ UNCHANGED <<ptr, store, wbank, wpkg, wgen, result, reader, commits>>

BeginEraseFails ==
    /\ wpc = "erase"
    /\ PartlyErased(wbank)
    /\ Return("IO_ERROR")
    /\ UNCHANGED <<ptr, store, reader, commits>>

\* The end of wallet_store_begin: the upload is staged.
BeginStage ==
    /\ wpc = "stage"
    /\ mutex = "free"
    /\ staging' = TRUE
    /\ sbank' = wbank
    /\ expect' = wpkg
    /\ written' = 0
    /\ Return("OK")
    /\ UNCHANGED <<flash, up, active, info, reader, commits>>

\* wallet_store_write of one record of package c at an offset.
WriteAllowed(offset) ==
    /\ staging
    /\ offset = written
    /\ 1 <= Size[expect] - written

WriteRejected(offset) ==
    /\ Ready
    /\ mutex = "free"
    /\ ~WriteAllowed(offset)
    /\ result' = IF staging THEN "INVALID_ARG" ELSE "INVALID_STATE"
    /\ UNCHANGED <<flash, store, wpc, wbank, wpkg, wgen, reader, commits>>

Write(offset, c) ==
    /\ Ready
    /\ mutex = "free"
    /\ WriteAllowed(offset)
    /\ \E cell \in Programmed(data[sbank][written + 1], c) :
          data' = [data EXCEPT ![sbank][written + 1] = cell]
    /\ written' = written + 1
    /\ result' = "OK"
    /\ UNCHANGED <<mark, ptr, up, active, info, staging, sbank, expect,
                   wpc, wbank, wpkg, wgen, reader, commits>>

WriteFails(offset, c) ==
    /\ Ready
    /\ mutex = "free"
    /\ WriteAllowed(offset)
    /\ \E cell \in Interrupted(data[sbank][written + 1], c) :
          data' = [data EXCEPT ![sbank][written + 1] = cell]
    /\ result' = "IO_ERROR"
    /\ UNCHANGED <<mark, ptr, store, wpc, wbank, wpkg, wgen, reader, commits>>

-----------------------------------------------------------------------------
(* wallet_store_commit_guarded *)

\* revision + 1u in uint32_t, and 0 replaced by 1.
NextGeneration(r) ==
    LET g == (r + 1) % GenLimit
    IN  IF g = 0 THEN 1 ELSE g

\* Copy what is staged into locals.
CommitStart ==
    /\ Ready
    /\ mutex = "free"
    /\ commits < MaxCommits
    /\ IF staging /\ written = Size[expect]
         THEN /\ wbank' = sbank
              /\ wpkg' = expect
              /\ wgen' = NextGeneration(info.gen)
              /\ wpc' = "validate"
              /\ UNCHANGED result
         ELSE /\ result' = "INVALID_STATE"
              /\ UNCHANGED <<wpc, wbank, wpkg, wgen>>
    /\ UNCHANGED <<flash, store, reader, commits>>

\* A step of the commit that gives up with a code: the exit that clears
\* staging is DropStaging.
GiveUp(code) ==
    /\ wpc' = "drop"
    /\ result' = code

\* Mutant: the staged package is not read back.
CommitValidateNothing ==
    /\ wpc = "validate"
    /\ wpc' = "guard1"
    /\ UNCHANGED <<flash, store, wbank, wpkg, wgen, result, reader, commits>>

CommitValidate ==
    /\ wpc = "validate"
    /\ \/ /\ validate_package(wbank, wpkg)
          /\ wpc' = "guard1"
          /\ UNCHANGED result
       \/ /\ ~validate_package(wbank, wpkg)
          /\ \E code \in {"FORMAT_ERROR", "CRC_ERROR"} : GiveUp(code)
       \/ GiveUp("IO_ERROR")
    /\ UNCHANGED <<flash, store, wbank, wpkg, wgen, reader, commits>>

\* Mutant: the pointer is not saved before the marker is written.
CommitGuard1NoSave(valid) ==
    /\ wpc = "guard1"
    /\ IF valid THEN wpc' = "mark" /\ UNCHANGED result
                ELSE GiveUp("INVALID_STATE")
    /\ UNCHANGED <<flash, store, wbank, wpkg, wgen, reader, commits>>

\* The caller's guard, asked before the pointer is saved ...
CommitGuard1(valid) ==
    /\ wpc = "guard1"
    /\ IF valid THEN wpc' = "save" /\ UNCHANGED result
                ELSE GiveUp("INVALID_STATE")
    /\ UNCHANGED <<flash, store, wbank, wpkg, wgen, reader, commits>>

\* ... the NVS pointer ...
CommitSave ==
    /\ wpc = "save"
    /\ \/ /\ ptr' = wbank
          /\ wpc' = "guard2"
          /\ UNCHANGED result
       \/ /\ ptr' \in {ptr, wbank}
          /\ GiveUp("IO_ERROR")
    /\ UNCHANGED <<data, mark, store, wbank, wpkg, wgen, reader, commits>>

\* ... the guard again ...
CommitGuard2(valid) ==
    /\ wpc = "guard2"
    /\ IF valid THEN wpc' = "mark" /\ UNCHANGED result
                ELSE GiveUp("INVALID_STATE")
    /\ UNCHANGED <<flash, store, wbank, wpkg, wgen, reader, commits>>

\* ... and the marker, the durable commit point.
CommitMark ==
    /\ wpc = "mark"
    /\ mark' = [mark EXCEPT ![wbank] = [gen |-> wgen, pkg |-> wpkg]]
    /\ commits' = commits + 1
    /\ wpc' = "publish"
    /\ UNCHANGED <<data, ptr, store, wbank, wpkg, wgen, result, reader>>

\* A marker write that reports failure may still have reached the flash.
CommitMarkFails ==
    /\ wpc = "mark"
    /\ \/ /\ mark' = [mark EXCEPT ![wbank] = [gen |-> wgen, pkg |-> wpkg]]
          /\ commits' = commits + 1
       \/ UNCHANGED <<mark, commits>>
    /\ GiveUp("IO_ERROR")
    /\ UNCHANGED <<data, ptr, store, wbank, wpkg, wgen, reader>>

\* Activation of the new bank, under the mutex.
CommitPublish ==
    /\ wpc = "publish"
    /\ mutex = "free"
    /\ active' = wbank
    /\ info' = [gen |-> wgen, pkg |-> wpkg]
    /\ staging' = FALSE
    /\ Return("OK")
    /\ UNCHANGED <<flash, up, sbank, expect, written, reader, commits>>

DropStaging ==
    /\ wpc = "drop"
    /\ mutex = "free"
    /\ staging' = FALSE
    /\ Return(result)
    /\ UNCHANGED <<flash, up, active, info, sbank, expect, written, reader,
                   commits>>

\* wallet_store_abort
Abort ==
    /\ Ready
    /\ mutex = "free"
    /\ staging' = FALSE
    /\ expect' = None
    /\ written' = 0
    /\ UNCHANGED <<flash, up, active, info, sbank, worker, reader, commits>>

-----------------------------------------------------------------------------
(* The user interface: read the revision, later read a page of it *)

\* The user interface is done with its read, or gives it up.
UiLeave ==
    /\ rpc' = "idle" /\ rrev' = 0 /\ rpkg' = None
    /\ rpage' = 1 /\ rmeta' = Blank /\ rpix' = Blank
    /\ mutex' = "free"

\* wallet_store_get_info.  rpkg is a ghost: the package of that revision.
UiGetInfo ==
    /\ up
    /\ rpc = "idle"
    /\ mutex = "free"
    /\ rrev' = info.gen
    /\ rpkg' = info.pkg
    /\ rpc' = "info"
    /\ UNCHANGED <<flash, store, worker, mutex, rpage, rmeta, rpix, commits>>

\* Mutant: the revision the caller has is not compared.
UiReadLockAny ==
    /\ rpc = "info"
    /\ mutex = "free"
    /\ IF active # NoBank
         THEN /\ mutex' = "ui"
              /\ rpc' = "meta"
              /\ UNCHANGED <<rrev, rpkg, rpage, rmeta, rpix>>
         ELSE UiLeave
    /\ UNCHANGED <<flash, store, worker, commits>>

\* read_page up to its loop: take the mutex and compare revisions.
UiReadLock ==
    /\ rpc = "info"
    /\ mutex = "free"
    /\ IF rrev = info.gen /\ active # NoBank
         THEN /\ mutex' = "ui"
              /\ rpc' = "meta"
              /\ UNCHANGED <<rrev, rpkg, rpage, rmeta, rpix>>
         ELSE UiLeave
    /\ UNCHANGED <<flash, store, worker, commits>>

\* Mutant: the mutex is given back between metadata and pixels.
UiReadMetaUnlocked(i) ==
    /\ rpc = "meta"
    /\ i \in 1 .. Size[info.pkg]
    /\ rpage' = i
    /\ rmeta' = data[active][i]
    /\ rpc' = "pixels"
    /\ mutex' = "free"
    /\ UNCHANGED <<flash, store, worker, rrev, rpkg, rpix, commits>>

\* The loop over page records, up to the metadata of page i.
UiReadMeta(i) ==
    /\ rpc = "meta"
    /\ i \in 1 .. Size[info.pkg]
    /\ rpage' = i
    /\ rmeta' = data[active][i]
    /\ rpc' = "pixels"
    /\ UNCHANGED <<flash, store, worker, mutex, rrev, rpkg, rpix, commits>>

\* The pixels of that page; the mutex is given back.
UiReadPixels ==
    /\ rpc = "pixels"
    /\ rpix' = data[active][rpage]
    /\ rpc' = "shown"
    /\ mutex' = "free"
    /\ UNCHANGED <<flash, store, worker, rrev, rpkg, rpage, rmeta, commits>>

\* Mutant: an error exit of read_page keeps the mutex.
UiReadFailsLocked ==
    /\ rpc \in {"meta", "pixels"}
    /\ rpc' = "idle" /\ rrev' = 0 /\ rpkg' = None
    /\ rpage' = 1 /\ rmeta' = Blank /\ rpix' = Blank
    /\ UNCHANGED <<flash, store, worker, mutex, commits>>

\* Either read fails, or no page has that kind and ordinal.
UiReadFails ==
    /\ rpc \in {"meta", "pixels"}
    /\ UiLeave
    /\ UNCHANGED <<flash, store, worker, commits>>

UiNext ==
    /\ rpc = "shown"
    /\ UiLeave
    /\ UNCHANGED <<flash, store, worker, commits>>

-----------------------------------------------------------------------------
\* Power failure or reset: everything in RAM is lost.
Crash ==
    /\ up
    /\ up' = FALSE
    /\ active' = NoBank
    /\ info' = NoMarker
    /\ staging' = FALSE
    /\ sbank' = 0
    /\ expect' = None
    /\ written' = 0
    /\ Return("none")
    /\ UiLeave
    /\ UNCHANGED <<flash, commits>>

WorkerCall ==
    \/ \E p \in Packages : BeginSelect(p)
    \/ \E n \in 0 .. MaxSize : WriteRejected(n)
    \/ \E n \in 0 .. MaxSize, c \in Packages : Write(n, c) \/ WriteFails(n, c)
    \/ CommitStart
    \/ Abort

WorkerStep ==
    \/ BeginErase \/ BeginEraseFails \/ BeginStage
    \/ CommitValidate
    \/ \E valid \in BOOLEAN : CommitGuard1(valid) \/ CommitGuard2(valid)
    \/ CommitSave \/ CommitMark \/ CommitMarkFails \/ CommitPublish
    \/ DropStaging

UiStep ==
    \/ UiGetInfo \/ UiReadLock
    \/ \E i \in 1 .. MaxSize : UiReadMeta(i)
    \/ UiReadPixels \/ UiReadFails \/ UiNext

Next == Boot \/ Crash \/ WorkerCall \/ WorkerStep \/ UiStep

Spec == Init /\ [][Next]_vars

\* The worker task runs whenever it can; its waits for the mutex end because
\* FreeRTOS hands a mutex to its highest waiter; a page read, once it holds
\* the mutex, goes on.  Nothing obliges a phone, a user or the power supply.
FairSpec == Spec /\ SF_vars(WorkerStep) /\ WF_vars(UiStep)

-----------------------------------------------------------------------------
(* Properties *)

FlashType ==
    /\ data \in [Banks -> [1 .. MaxSize -> Cells]]
    /\ mark \in [Banks -> Marker]
    /\ ptr \in Banks \cup {NoBank}
    /\ commits \in 0 .. MaxCommits

StoreType ==
    /\ up \in BOOLEAN
    /\ active \in Banks \cup {NoBank}
    /\ info \in Marker
    /\ staging \in BOOLEAN
    /\ sbank \in Banks
    /\ expect \in Packages \cup {None}
    /\ written \in 0 .. MaxSize

CallType ==
    /\ wpc \in {"idle", "erase", "stage", "validate", "guard1", "save",
                "guard2", "mark", "publish", "drop"}
    /\ wbank \in Banks
    /\ wpkg \in Packages \cup {None}
    /\ wgen \in 0 .. GenLimit - 1
    /\ result \in {"none", "OK", "INVALID_ARG", "INVALID_STATE", "NO_SPACE",
                   "FORMAT_ERROR", "CRC_ERROR", "IO_ERROR"}

ReadType ==
    /\ mutex \in {"free", "ui"}
    /\ rpc \in {"idle", "info", "meta", "pixels", "shown"}
    /\ rrev \in 0 .. GenLimit - 1
    /\ rpkg \in Packages \cup {None}
    /\ rpage \in 1 .. MaxSize
    /\ rmeta \in Cells
    /\ rpix \in Cells

\* Every variable has its type; the offset of an upload never leaves the
\* package area.
TypeOK == FlashType /\ StoreType /\ CallType /\ ReadType

\* At every moment, the middle of an upload, an erase or a commit included,
\* the bank that page reads use holds the whole validated package that the
\* RAM copy of its description names, under its own marker.
ActiveIntact ==
    /\ active # NoBank => validate_committed_bank(active) /\ info = mark[active]
    /\ active = NoBank => info = NoMarker

\* A page that reached the screen has its metadata and its pixels from the
\* snapshot whose revision the user interface had read, whatever was
\* committed, erased or written meanwhile.
PageOfSnapshot ==
    rpc = "shown" => rmeta = rpkg /\ rpix = rpkg

\* What a restart with healthy flash and NVS would show.
Durable ==
    LET b == Selected(Banks, ptr)
    IN  IF b = NoBank THEN NoMarker ELSE mark[b]

\* The store is an atomically replaced snapshot: whatever fails and wherever
\* power is lost, the durable snapshot changes only from one whole package to
\* another at the marker write, a restart shows it, and readers follow it.
Abs == INSTANCE AtomicSnapshot WITH
           Offered <- {p \in WellFormed : Fits(p)},
           NoPackage <- None,
           RevLimit <- GenLimit,
           durable <- Durable,
           visible <- info,
           running <- up

AtomicReplacement == Abs!Spec

\* Every begin and commit returns: no exit of a page read or of a failed step
\* keeps the mutex or strands the worker.
CallsReturn == (wpc # "idle") ~> (wpc = "idle")

-----------------------------------------------------------------------------
(* The inductive invariant *)

\* Nothing is in RAM while the device is off.
OffInv ==
    ~up => active = NoBank /\ ~staging /\ wpc = "idle" /\ rpc = "idle"

\* The user interface holds the mutex while it reads, and there is a bank to
\* read then.
LockInv ==
    /\ rpc \in {"meta", "pixels"} <=> mutex = "ui"
    /\ mutex = "ui" => active # NoBank

\* A staged upload lives in the inactive bank, which has no marker until its
\* own commit writes one.
StageInv ==
    staging =>
        /\ sbank = InactiveBank
        /\ expect \in Packages
        /\ Fits(expect)
        /\ written <= Size[expect]
        /\ wpc \notin {"publish", "drop"} => mark[sbank].gen = 0

Committing == {"validate", "guard1", "save", "guard2", "mark", "publish"}

\* What a begin or commit in progress may rely on at each of its steps.
CallInv ==
    /\ wpc \in {"erase", "stage"} => ~staging
    /\ wpc \in {"erase", "stage"} \cup Committing =>
          /\ wbank = InactiveBank
          /\ wpkg \in Packages
          /\ Fits(wpkg)
    /\ wpc \in {"stage"} \cup (Committing \ {"publish"}) => mark[wbank].gen = 0
    /\ wpc \in Committing =>
          /\ staging
          /\ sbank = wbank
          /\ wgen = NextGeneration(info.gen)
          /\ commits < MaxCommits \/ wpc = "publish"
    /\ wpc \in Committing \ {"validate"} => validate_package(wbank, wpkg)
    /\ wpc \in {"guard2", "mark", "publish"} => ptr = wbank
    /\ wpc = "publish" => mark[wbank] = [gen |-> wgen, pkg |-> wpkg]

\* Generations count commits, as long as the counter does not wrap.
GenInv ==
    /\ \A b \in Banks : mark[b].gen <= commits
    /\ info.gen <= commits
    /\ wpc = "publish" => info.gen < commits

\* A revision the user interface has read names one package, and the page it
\* reads under the mutex is of that package.
ReadInv ==
    /\ rpc # "idle" =>
          /\ rrev <= info.gen
          /\ rrev = info.gen => rpkg = info.pkg
    /\ mutex = "ui" => rrev = info.gen
    /\ rpc = "pixels" => rmeta = rpkg /\ rpage \in 1 .. Size[info.pkg]

\* When both banks carry a snapshot the pointer decides between them, and it
\* names the newer one.
PtrInv ==
    /\ (\A b \in Banks : validate_committed_bank(b)) =>
          /\ ptr \in Banks
          /\ LoadFaults => mark[1 - ptr].gen < mark[ptr].gen
    /\ up /\ active = NoBank => ~validate_committed_bank(1)

StoreInv == TypeOK /\ ActiveIntact /\ OffInv /\ LockInv /\ StageInv /\ CallInv
CountInv == StoreInv /\ GenInv
PageInv == CountInv /\ ReadInv /\ PageOfSnapshot
RecoveryInv == StoreInv /\ (LoadFaults => GenInv) /\ PtrInv

=============================================================================
