------------------------- MODULE WalletStoreProofs -------------------------
(* Proofs about WalletStore, for every value of its constants. *)
EXTENDS WalletStore, TLAPS

USE PackagesAssumption, CounterAssumption, FaultsAssumption

\* uint32_t arithmetic of the next generation: it is never 0, it differs from
\* the one it follows, and it is the abstract revision's successor.
LEMMA NextGenerationType ==
    ASSUME NEW r \in 0 .. GenLimit - 1
    PROVE  /\ NextGeneration(r) \in 1 .. GenLimit - 1
           /\ NextGeneration(r) = IF r + 1 = GenLimit THEN 1 ELSE r + 1
<1>1. CASE r + 1 = GenLimit
  <2>1. (r + 1) % GenLimit = 0
    BY <1>1
  <2>2. QED
    BY <1>1, <2>1 DEF NextGeneration
<1>2. CASE r + 1 < GenLimit
  <2>1. (r + 1) % GenLimit = r + 1
    BY <1>2
  <2>2. QED
    BY <1>2, <2>1 DEF NextGeneration
<1>3. QED
  BY <1>1, <1>2

\* The bank wallet_store_init selects is one it found committed.
LEMMA SelectedCommitted ==
    ASSUME NEW B \in SUBSET Banks, NEW p
    PROVE  /\ Selected(B, p) \in Banks \cup {NoBank}
           /\ Selected(B, p) # NoBank => validate_committed_bank(Selected(B, p))
BY DEF Selected, NewestOf, Banks, NoBank

\* Values that actions assign have their types.
LEMMA SmallValues ==
    /\ 0 \in Banks /\ 1 \in Banks /\ InactiveBank \in Banks
    /\ NoBank \notin Banks
    /\ 0 \in 0 .. MaxSize /\ 1 \in 1 .. MaxSize
    /\ 0 \in 0 .. GenLimit - 1 /\ 0 \in 0 .. MaxCommits
    /\ Packages \cup {Blank, Torn} = Cells
    /\ NoMarker \in Marker
BY DEF Banks, NoBank, InactiveBank, Cells, Marker, NoMarker

LEMMA MarkerFields ==
    /\ \A m \in Marker : m.gen \in 0 .. GenLimit - 1 /\ m.pkg \in Packages \cup {None}
    /\ \A g \in 0 .. GenLimit - 1, q \in Packages :
          [gen |-> g, pkg |-> q] \in Marker
BY DEF Marker

\* Programming one cell of one bank keeps the type of the flash.
LEMMA CellType ==
    ASSUME NEW d \in [Banks -> [1 .. MaxSize -> Cells]], NEW b \in Banks,
           NEW i \in 1 .. MaxSize, NEW c \in Cells
    PROVE  [d EXCEPT ![b][i] = c] \in [Banks -> [1 .. MaxSize -> Cells]]
OBVIOUS

LEMMA InitStoreInv == Init => StoreInv
<1> SUFFICES ASSUME Init PROVE StoreInv
  OBVIOUS
<1>1. TypeOK
  <2>1. data \in [Banks -> [1 .. MaxSize -> Cells]]
    BY SmallValues DEF Init
  <2>2. mark \in [Banks -> Marker] /\ info \in Marker
    BY SmallValues DEF Init
  <2>3. QED
    BY <2>1, <2>2, SmallValues
       DEF Init, TypeOK, FlashType, StoreType, CallType, ReadType
<1>2. ActiveIntact /\ OffInv /\ LockInv
  BY DEF Init, ActiveIntact, OffInv, LockInv
<1>3. StageInv /\ CallInv
  BY DEF Init, StageInv, CallInv, Committing
<1>4. QED
  BY <1>1, <1>2, <1>3 DEF StoreInv

LEMMA StoreInvStep == StoreInv /\ [Next]_vars => StoreInv'
<1> SUFFICES ASSUME StoreInv, [Next]_vars PROVE StoreInv'
  OBVIOUS
<1> USE DEF StoreInv, TypeOK, flash, store, worker, reader, Ready, Return,
            UiLeave, GiveUp
<1>1. ASSUME NEW p \in Packages, BeginSelect(p) PROVE StoreInv'
  <2>1. TypeOK'
    <3>1. StoreType'
      BY <1>1 DEF BeginSelect, StoreType
    <3>2. CallType'
      BY <1>1, SmallValues DEF BeginSelect, CallType, StoreType
    <3>3. QED
      BY <1>1, <3>1, <3>2 DEF BeginSelect, FlashType, ReadType
  <2>2. ActiveIntact'
    BY <1>1 DEF BeginSelect, ActiveIntact, validate_committed_bank,
       validate_package
  <2>3. OffInv' /\ LockInv'
    BY <1>1 DEF BeginSelect, OffInv, LockInv
  <2>4. StageInv'
    BY <1>1 DEF BeginSelect, OffInv, StageInv, CallInv, Committing,
       InactiveBank, Fits, NoMarker, FlashType, StoreType, CallType, Banks,
       NoBank
  <2>5. CallInv'
    BY <1>1 DEF BeginSelect, OffInv, StageInv, CallInv, Committing,
       InactiveBank, Fits, NoMarker, FlashType, StoreType, CallType, Banks,
       NoBank, validate_package
  <2>6. QED
    BY <2>1, <2>2, <2>3, <2>4, <2>5
<1>2. ASSUME BeginErase PROVE StoreInv'
  <2>1. TypeOK'
    <3>1. FlashType'
      BY <1>2, SmallValues DEF BeginErase, FlashType, CallType
    <3>2. CallType'
      BY <1>2 DEF BeginErase, CallType
    <3>3. QED
      BY <1>2, <3>1, <3>2 DEF BeginErase, StoreType, ReadType
  <2>2. ActiveIntact'
    BY <1>2 DEF BeginErase, ActiveIntact, validate_committed_bank,
       validate_package, StageInv, CallInv, Committing, InactiveBank,
       FlashType, StoreType, Banks, NoBank
  <2>3. OffInv' /\ LockInv'
    BY <1>2 DEF BeginErase, OffInv, LockInv
  <2>4. StageInv'
    BY <1>2 DEF BeginErase, OffInv, StageInv, CallInv, Committing,
       InactiveBank, Fits, NoMarker, FlashType, StoreType, CallType, Banks,
       NoBank
  <2>5. CallInv'
    BY <1>2 DEF BeginErase, OffInv, StageInv, CallInv, Committing,
       InactiveBank, Fits, NoMarker, FlashType, StoreType, CallType, Banks,
       NoBank, validate_package
  <2>6. QED
    BY <2>1, <2>2, <2>3, <2>4, <2>5
<1>3. ASSUME BeginEraseFails PROVE StoreInv'
  <2>1. TypeOK'
    <3>1. FlashType'
      BY <1>3, SmallValues DEF BeginEraseFails, FlashType, PartlyErased,
         CallType
    <3>2. CallType'
      BY <1>3, SmallValues DEF BeginEraseFails, CallType
    <3>3. QED
      BY <1>3, <3>1, <3>2 DEF BeginEraseFails, StoreType, ReadType
  <2>2. ActiveIntact'
    BY <1>3 DEF BeginEraseFails, ActiveIntact, validate_committed_bank,
       validate_package, StageInv, CallInv, Committing, InactiveBank,
       FlashType, StoreType, Banks, NoBank, PartlyErased
  <2>3. OffInv' /\ LockInv'
    BY <1>3 DEF BeginEraseFails, OffInv, LockInv
  <2>4. StageInv'
    BY <1>3 DEF BeginEraseFails, OffInv, StageInv, CallInv, Committing,
       InactiveBank, Fits, PartlyErased, NoMarker, FlashType, StoreType,
       CallType, Banks, NoBank
  <2>5. CallInv'
    BY <1>3 DEF BeginEraseFails, OffInv, StageInv, CallInv, Committing,
       InactiveBank, Fits, PartlyErased, NoMarker, FlashType, StoreType,
       CallType, Banks, NoBank, validate_package
  <2>6. QED
    BY <2>1, <2>2, <2>3, <2>4, <2>5
<1>4. ASSUME BeginStage PROVE StoreInv'
  <2>1. TypeOK'
    <3>1. StoreType'
      BY <1>4, SmallValues DEF BeginStage, StoreType, CallType
    <3>2. CallType'
      BY <1>4, SmallValues DEF BeginStage, CallType
    <3>3. QED
      BY <1>4, <3>1, <3>2 DEF BeginStage, FlashType, ReadType
  <2>2. ActiveIntact'
    BY <1>4 DEF BeginStage, ActiveIntact, validate_committed_bank,
       validate_package
  <2>3. OffInv' /\ LockInv'
    BY <1>4 DEF BeginStage, OffInv, LockInv
  <2>4. StageInv'
    BY <1>4 DEF BeginStage, OffInv, StageInv, CallInv, Committing,
       InactiveBank, Fits, NoMarker, FlashType, StoreType, CallType, Banks,
       NoBank
  <2>5. CallInv'
    BY <1>4 DEF BeginStage, OffInv, StageInv, CallInv, Committing,
       InactiveBank, Fits, NoMarker, FlashType, StoreType, CallType, Banks,
       NoBank, validate_package
  <2>6. QED
    BY <2>1, <2>2, <2>3, <2>4, <2>5
<1>5. ASSUME NEW n \in 0 .. MaxSize, WriteRejected(n) PROVE StoreInv'
  <2>1. TypeOK'
    <3>1. CallType'
      BY <1>5 DEF WriteRejected, CallType
    <3>2. QED
      BY <1>5, <3>1 DEF WriteRejected, FlashType, StoreType, ReadType
  <2>2. ActiveIntact'
    BY <1>5 DEF WriteRejected, ActiveIntact, validate_committed_bank,
       validate_package
  <2>3. OffInv' /\ LockInv'
    BY <1>5 DEF WriteRejected, OffInv, LockInv
  <2>4. StageInv'
    BY <1>5 DEF WriteRejected, OffInv, StageInv, CallInv, Committing,
       InactiveBank, Fits, NoMarker, FlashType, StoreType, CallType, Banks,
       NoBank
  <2>5. CallInv'
    BY <1>5 DEF WriteRejected, OffInv, StageInv, CallInv, Committing,
       InactiveBank, Fits, NoMarker, FlashType, StoreType, CallType, Banks,
       NoBank, validate_package
  <2>6. QED
    BY <2>1, <2>2, <2>3, <2>4, <2>5
<1>6. ASSUME NEW n \in 0 .. MaxSize, NEW c \in Packages, Write(n, c) PROVE StoreInv'
  <2>1. TypeOK'
    <3>1. FlashType'
      BY <1>6, SmallValues, CellType DEF Write, WriteAllowed, Programmed,
         StageInv, Fits, FlashType, StoreType
    <3>2. StoreType'
      BY <1>6 DEF Write, WriteAllowed, StageInv, Fits, StoreType
    <3>3. CallType'
      BY <1>6 DEF Write, CallType
    <3>4. QED
      BY <1>6, <3>1, <3>2, <3>3 DEF Write, ReadType
  <2>2. ActiveIntact'
    BY <1>6 DEF Write, ActiveIntact, validate_committed_bank,
       validate_package, StageInv, CallInv, Committing, InactiveBank,
       FlashType, StoreType, Banks, NoBank, WriteAllowed
  <2>3. OffInv' /\ LockInv'
    BY <1>6 DEF Write, OffInv, LockInv
  <2>4. StageInv'
    BY <1>6 DEF Write, OffInv, StageInv, CallInv, Committing, InactiveBank,
       Fits, WriteAllowed, NoMarker, FlashType, StoreType, CallType, Banks,
       NoBank
  <2>5. CallInv'
    BY <1>6 DEF Write, OffInv, StageInv, CallInv, Committing, InactiveBank,
       Fits, WriteAllowed, NoMarker, FlashType, StoreType, CallType, Banks,
       NoBank, validate_package
  <2>6. QED
    BY <2>1, <2>2, <2>3, <2>4, <2>5
<1>7. ASSUME NEW n \in 0 .. MaxSize, NEW c \in Packages, WriteFails(n, c) PROVE StoreInv'
  <2>1. TypeOK'
    <3>1. FlashType'
      BY <1>7, SmallValues, CellType DEF WriteFails, WriteAllowed,
         Interrupted, StageInv, Fits, FlashType, StoreType
    <3>2. CallType'
      BY <1>7 DEF WriteFails, CallType
    <3>3. QED
      BY <1>7, <3>1, <3>2 DEF WriteFails, StoreType, ReadType
  <2>2. ActiveIntact'
    BY <1>7 DEF WriteFails, ActiveIntact, validate_committed_bank,
       validate_package, StageInv, CallInv, Committing, InactiveBank,
       FlashType, StoreType, Banks, NoBank, WriteAllowed
  <2>3. OffInv' /\ LockInv'
    BY <1>7 DEF WriteFails, OffInv, LockInv
  <2>4. StageInv'
    BY <1>7 DEF WriteFails, OffInv, StageInv, CallInv, Committing,
       InactiveBank, Fits, WriteAllowed, NoMarker, FlashType, StoreType,
       CallType, Banks, NoBank
  <2>5. CallInv'
    BY <1>7 DEF WriteFails, OffInv, StageInv, CallInv, Committing,
       InactiveBank, Fits, WriteAllowed, NoMarker, FlashType, StoreType,
       CallType, Banks, NoBank, validate_package
  <2>6. QED
    BY <2>1, <2>2, <2>3, <2>4, <2>5
<1>8. ASSUME CommitStart PROVE StoreInv'
  <2>1. TypeOK'
    <3>1. CallType'
      BY <1>8, NextGenerationType, MarkerFields DEF CommitStart, CallType,
         StoreType
    <3>2. QED
      BY <1>8, <3>1 DEF CommitStart, FlashType, StoreType, ReadType
  <2>2. ActiveIntact'
    BY <1>8 DEF CommitStart, ActiveIntact, validate_committed_bank,
       validate_package
  <2>3. OffInv' /\ LockInv'
    BY <1>8 DEF CommitStart, OffInv, LockInv
  <2>4. StageInv'
    BY <1>8 DEF CommitStart, OffInv, StageInv, CallInv, Committing,
       InactiveBank, Fits, NoMarker, FlashType, StoreType, CallType, Banks,
       NoBank
  <2>5. CallInv'
    BY <1>8 DEF CommitStart, OffInv, StageInv, CallInv, Committing,
       InactiveBank, Fits, NoMarker, FlashType, StoreType, CallType, Banks,
       NoBank, validate_package
  <2>6. QED
    BY <2>1, <2>2, <2>3, <2>4, <2>5
<1>9. ASSUME Abort PROVE StoreInv'
  <2>1. TypeOK'
    <3>1. StoreType'
      BY <1>9, SmallValues DEF Abort, StoreType
    <3>2. QED
      BY <1>9, <3>1 DEF Abort, FlashType, CallType, ReadType
  <2>2. ActiveIntact'
    BY <1>9 DEF Abort, ActiveIntact, validate_committed_bank,
       validate_package
  <2>3. OffInv' /\ LockInv'
    BY <1>9 DEF Abort, OffInv, LockInv
  <2>4. StageInv'
    BY <1>9 DEF Abort, OffInv, StageInv, CallInv, Committing, InactiveBank,
       Fits, NoMarker, FlashType, StoreType, CallType, Banks, NoBank
  <2>5. CallInv'
    BY <1>9 DEF Abort, OffInv, StageInv, CallInv, Committing, InactiveBank,
       Fits, NoMarker, FlashType, StoreType, CallType, Banks, NoBank,
       validate_package
  <2>6. QED
    BY <2>1, <2>2, <2>3, <2>4, <2>5
<1>10. ASSUME CommitValidate PROVE StoreInv'
  <2>1. TypeOK'
    <3>1. CallType'
      BY <1>10 DEF CommitValidate, CallType
    <3>2. QED
      BY <1>10, <3>1 DEF CommitValidate, FlashType, StoreType, ReadType
  <2>2. ActiveIntact'
    BY <1>10 DEF CommitValidate, ActiveIntact, validate_committed_bank,
       validate_package
  <2>3. OffInv' /\ LockInv'
    BY <1>10 DEF CommitValidate, OffInv, LockInv
  <2>4. StageInv'
    BY <1>10 DEF CommitValidate, OffInv, StageInv, CallInv, Committing,
       InactiveBank, Fits, NoMarker, FlashType, StoreType, CallType, Banks,
       NoBank
  <2>5. CallInv'
    BY <1>10 DEF CommitValidate, OffInv, StageInv, CallInv, Committing,
       InactiveBank, Fits, NoMarker, FlashType, StoreType, CallType, Banks,
       NoBank, validate_package
  <2>6. QED
    BY <2>1, <2>2, <2>3, <2>4, <2>5
<1>11. ASSUME NEW v \in BOOLEAN, CommitGuard1(v) PROVE StoreInv'
  <2>1. TypeOK'
    <3>1. CallType'
      BY <1>11 DEF CommitGuard1, CallType
    <3>2. QED
      BY <1>11, <3>1 DEF CommitGuard1, FlashType, StoreType, ReadType
  <2>2. ActiveIntact'
    BY <1>11 DEF CommitGuard1, ActiveIntact, validate_committed_bank,
       validate_package
  <2>3. OffInv' /\ LockInv'
    BY <1>11 DEF CommitGuard1, OffInv, LockInv
  <2>4. StageInv'
    BY <1>11 DEF CommitGuard1, OffInv, StageInv, CallInv, Committing,
       InactiveBank, Fits, NoMarker, FlashType, StoreType, CallType, Banks,
       NoBank
  <2>5. CallInv'
    BY <1>11 DEF CommitGuard1, OffInv, StageInv, CallInv, Committing,
       InactiveBank, Fits, NoMarker, FlashType, StoreType, CallType, Banks,
       NoBank, validate_package
  <2>6. QED
    BY <2>1, <2>2, <2>3, <2>4, <2>5
<1>12. ASSUME NEW v \in BOOLEAN, CommitGuard2(v) PROVE StoreInv'
  <2>1. TypeOK'
    <3>1. CallType'
      BY <1>12 DEF CommitGuard2, CallType
    <3>2. QED
      BY <1>12, <3>1 DEF CommitGuard2, FlashType, StoreType, ReadType
  <2>2. ActiveIntact'
    BY <1>12 DEF CommitGuard2, ActiveIntact, validate_committed_bank,
       validate_package
  <2>3. OffInv' /\ LockInv'
    BY <1>12 DEF CommitGuard2, OffInv, LockInv
  <2>4. StageInv'
    BY <1>12 DEF CommitGuard2, OffInv, StageInv, CallInv, Committing,
       InactiveBank, Fits, NoMarker, FlashType, StoreType, CallType, Banks,
       NoBank
  <2>5. CallInv'
    BY <1>12 DEF CommitGuard2, OffInv, StageInv, CallInv, Committing,
       InactiveBank, Fits, NoMarker, FlashType, StoreType, CallType, Banks,
       NoBank, validate_package
  <2>6. QED
    BY <2>1, <2>2, <2>3, <2>4, <2>5
<1>13. ASSUME CommitSave PROVE StoreInv'
  <2>1. TypeOK'
    <3>1. FlashType'
      BY <1>13 DEF CommitSave, FlashType, CallType
    <3>2. CallType'
      BY <1>13 DEF CommitSave, CallType
    <3>3. QED
      BY <1>13, <3>1, <3>2 DEF CommitSave, StoreType, ReadType
  <2>2. ActiveIntact'
    BY <1>13 DEF CommitSave, ActiveIntact, validate_committed_bank,
       validate_package
  <2>3. OffInv' /\ LockInv'
    BY <1>13 DEF CommitSave, OffInv, LockInv
  <2>4. StageInv'
    BY <1>13 DEF CommitSave, OffInv, StageInv, CallInv, Committing,
       InactiveBank, Fits, NoMarker, FlashType, StoreType, CallType, Banks,
       NoBank
  <2>5. CallInv'
    BY <1>13 DEF CommitSave, OffInv, StageInv, CallInv, Committing,
       InactiveBank, Fits, NoMarker, FlashType, StoreType, CallType, Banks,
       NoBank, validate_package
  <2>6. QED
    BY <2>1, <2>2, <2>3, <2>4, <2>5
<1>14. ASSUME CommitMark PROVE StoreInv'
  <2>1. TypeOK'
    <3>1. FlashType'
      BY <1>14, MarkerFields DEF CommitMark, FlashType, CallInv, Committing,
         CallType
    <3>2. CallType'
      BY <1>14 DEF CommitMark, CallType
    <3>3. QED
      BY <1>14, <3>1, <3>2 DEF CommitMark, StoreType, ReadType
  <2>2. ActiveIntact'
    BY <1>14 DEF CommitMark, ActiveIntact, validate_committed_bank,
       validate_package, StageInv, CallInv, Committing, InactiveBank,
       FlashType, StoreType, Banks, NoBank
  <2>3. OffInv' /\ LockInv'
    BY <1>14 DEF CommitMark, OffInv, LockInv
  <2>4. StageInv'
    BY <1>14 DEF CommitMark, OffInv, StageInv, CallInv, Committing,
       InactiveBank, Fits, NoMarker, FlashType, StoreType, CallType, Banks,
       NoBank
  <2>5. CallInv'
    BY <1>14 DEF CommitMark, OffInv, StageInv, CallInv, Committing,
       InactiveBank, Fits, NoMarker, FlashType, StoreType, CallType, Banks,
       NoBank, validate_package
  <2>6. QED
    BY <2>1, <2>2, <2>3, <2>4, <2>5
<1>15. ASSUME CommitMarkFails PROVE StoreInv'
  <2>1. TypeOK'
    <3>1. FlashType'
      <4>1. CASE UNCHANGED <<mark, commits>>
        BY <1>15, <4>1 DEF CommitMarkFails, FlashType
      <4>2. CASE ~ UNCHANGED <<mark, commits>>
        <5>1. [gen |-> wgen, pkg |-> wpkg] \in Marker
          BY <1>15, MarkerFields DEF CommitMarkFails, CallInv, Committing, CallType
        <5>2. QED
          BY <1>15, <4>2, <5>1
             DEF CommitMarkFails, FlashType, CallInv, Committing
      <4>3. QED
        BY <4>1, <4>2
    <3>2. CallType'
      BY <1>15 DEF CommitMarkFails, CallType
    <3>3. QED
      BY <1>15, <3>1, <3>2 DEF CommitMarkFails, StoreType, ReadType
  <2>2. ActiveIntact'
    BY <1>15 DEF CommitMarkFails, ActiveIntact, validate_committed_bank,
       validate_package, StageInv, CallInv, Committing, InactiveBank,
       FlashType, StoreType, Banks, NoBank
  <2>3. OffInv' /\ LockInv'
    BY <1>15 DEF CommitMarkFails, OffInv, LockInv
  <2>4. StageInv'
    BY <1>15 DEF CommitMarkFails, OffInv, StageInv, CallInv, Committing,
       InactiveBank, Fits, NoMarker, FlashType, StoreType, CallType, Banks,
       NoBank
  <2>5. CallInv'
    BY <1>15 DEF CommitMarkFails, OffInv, StageInv, CallInv, Committing,
       InactiveBank, Fits, NoMarker, FlashType, StoreType, CallType, Banks,
       NoBank, validate_package
  <2>6. QED
    BY <2>1, <2>2, <2>3, <2>4, <2>5
<1>16. ASSUME CommitPublish PROVE StoreInv'
  <2>1. TypeOK'
    <3>1. StoreType'
      BY <1>16, MarkerFields DEF CommitPublish, StoreType, CallInv,
         Committing, CallType
    <3>2. CallType'
      BY <1>16, SmallValues DEF CommitPublish, CallType
    <3>3. QED
      BY <1>16, <3>1, <3>2 DEF CommitPublish, FlashType, ReadType
  <2>2. ActiveIntact'
    <3>1. wgen \in 1 .. GenLimit - 1
      BY <1>16, NextGenerationType, MarkerFields
         DEF CommitPublish, CallInv, Committing, StoreType
    <3>2. wbank # NoBank
      BY SmallValues DEF CallType
    <3>3. QED
      BY <1>16, <3>1, <3>2
         DEF CommitPublish, ActiveIntact, CallInv, Committing,
             validate_committed_bank, validate_package
  <2>3. OffInv' /\ LockInv'
    BY <1>16 DEF CommitPublish, OffInv, LockInv, CallType, Banks, NoBank
  <2>4. StageInv'
    BY <1>16 DEF CommitPublish, OffInv, StageInv, CallInv, Committing,
       InactiveBank, Fits, NoMarker, FlashType, StoreType, CallType, Banks,
       NoBank
  <2>5. CallInv'
    BY <1>16 DEF CommitPublish, OffInv, StageInv, CallInv, Committing,
       InactiveBank, Fits, NoMarker, FlashType, StoreType, CallType, Banks,
       NoBank, validate_package
  <2>6. QED
    BY <2>1, <2>2, <2>3, <2>4, <2>5
<1>17. ASSUME DropStaging PROVE StoreInv'
  <2>1. TypeOK'
    <3>1. StoreType'
      BY <1>17 DEF DropStaging, StoreType
    <3>2. CallType'
      BY <1>17, SmallValues DEF DropStaging, CallType
    <3>3. QED
      BY <1>17, <3>1, <3>2 DEF DropStaging, FlashType, ReadType
  <2>2. ActiveIntact'
    BY <1>17 DEF DropStaging, ActiveIntact, validate_committed_bank,
       validate_package
  <2>3. OffInv' /\ LockInv'
    BY <1>17 DEF DropStaging, OffInv, LockInv
  <2>4. StageInv'
    BY <1>17 DEF DropStaging, OffInv, StageInv, CallInv, Committing,
       InactiveBank, Fits, NoMarker, FlashType, StoreType, CallType, Banks,
       NoBank
  <2>5. CallInv'
    BY <1>17 DEF DropStaging, OffInv, StageInv, CallInv, Committing,
       InactiveBank, Fits, NoMarker, FlashType, StoreType, CallType, Banks,
       NoBank, validate_package
  <2>6. QED
    BY <2>1, <2>2, <2>3, <2>4, <2>5
<1>18. ASSUME UiGetInfo PROVE StoreInv'
  <2>1. TypeOK'
    <3>1. ReadType'
      BY <1>18, MarkerFields DEF UiGetInfo, ReadType, StoreType
    <3>2. QED
      BY <1>18, <3>1 DEF UiGetInfo, FlashType, StoreType, CallType
  <2>2. ActiveIntact'
    BY <1>18 DEF UiGetInfo, ActiveIntact, validate_committed_bank,
       validate_package
  <2>3. OffInv' /\ LockInv'
    BY <1>18 DEF UiGetInfo, OffInv, LockInv
  <2>4. StageInv'
    BY <1>18 DEF UiGetInfo, OffInv, StageInv, CallInv, Committing,
       InactiveBank, Fits, NoMarker, FlashType, StoreType, CallType, Banks,
       NoBank
  <2>5. CallInv'
    BY <1>18 DEF UiGetInfo, OffInv, StageInv, CallInv, Committing,
       InactiveBank, Fits, NoMarker, FlashType, StoreType, CallType, Banks,
       NoBank, validate_package
  <2>6. QED
    BY <2>1, <2>2, <2>3, <2>4, <2>5
<1>19. ASSUME UiReadLock PROVE StoreInv'
  <2>1. TypeOK'
    <3>1. ReadType'
      BY <1>19, SmallValues DEF UiReadLock, ReadType
    <3>2. QED
      BY <1>19, <3>1 DEF UiReadLock, FlashType, StoreType, CallType
  <2>2. ActiveIntact'
    BY <1>19 DEF UiReadLock, ActiveIntact, validate_committed_bank,
       validate_package
  <2>3. OffInv' /\ LockInv'
    BY <1>19 DEF UiReadLock, OffInv, LockInv
  <2>4. StageInv'
    BY <1>19 DEF UiReadLock, OffInv, StageInv, CallInv, Committing,
       InactiveBank, Fits, NoMarker, FlashType, StoreType, CallType, Banks,
       NoBank
  <2>5. CallInv'
    BY <1>19 DEF UiReadLock, OffInv, StageInv, CallInv, Committing,
       InactiveBank, Fits, NoMarker, FlashType, StoreType, CallType, Banks,
       NoBank, validate_package
  <2>6. QED
    BY <2>1, <2>2, <2>3, <2>4, <2>5
<1>20. ASSUME NEW i \in 1 .. MaxSize, UiReadMeta(i) PROVE StoreInv'
  <2>1. TypeOK'
    <3>1. ReadType'
      BY <1>20 DEF UiReadMeta, ReadType, LockInv, FlashType, StoreType
    <3>2. QED
      BY <1>20, <3>1 DEF UiReadMeta, FlashType, StoreType, CallType
  <2>2. ActiveIntact'
    BY <1>20 DEF UiReadMeta, ActiveIntact, validate_committed_bank,
       validate_package
  <2>3. OffInv' /\ LockInv'
    BY <1>20 DEF UiReadMeta, OffInv, LockInv
  <2>4. StageInv'
    BY <1>20 DEF UiReadMeta, OffInv, StageInv, CallInv, Committing,
       InactiveBank, Fits, NoMarker, FlashType, StoreType, CallType, Banks,
       NoBank
  <2>5. CallInv'
    BY <1>20 DEF UiReadMeta, OffInv, StageInv, CallInv, Committing,
       InactiveBank, Fits, NoMarker, FlashType, StoreType, CallType, Banks,
       NoBank, validate_package
  <2>6. QED
    BY <2>1, <2>2, <2>3, <2>4, <2>5
<1>21. ASSUME UiReadPixels PROVE StoreInv'
  <2>1. TypeOK'
    <3>1. ReadType'
      BY <1>21 DEF UiReadPixels, ReadType, LockInv, FlashType, StoreType
    <3>2. QED
      BY <1>21, <3>1 DEF UiReadPixels, FlashType, StoreType, CallType
  <2>2. ActiveIntact'
    BY <1>21 DEF UiReadPixels, ActiveIntact, validate_committed_bank,
       validate_package
  <2>3. OffInv' /\ LockInv'
    BY <1>21 DEF UiReadPixels, OffInv, LockInv
  <2>4. StageInv'
    BY <1>21 DEF UiReadPixels, OffInv, StageInv, CallInv, Committing,
       InactiveBank, Fits, NoMarker, FlashType, StoreType, CallType, Banks,
       NoBank
  <2>5. CallInv'
    BY <1>21 DEF UiReadPixels, OffInv, StageInv, CallInv, Committing,
       InactiveBank, Fits, NoMarker, FlashType, StoreType, CallType, Banks,
       NoBank, validate_package
  <2>6. QED
    BY <2>1, <2>2, <2>3, <2>4, <2>5
<1>22. ASSUME UiReadFails PROVE StoreInv'
  <2>1. TypeOK'
    <3>1. ReadType'
      BY <1>22, SmallValues DEF UiReadFails, ReadType
    <3>2. QED
      BY <1>22, <3>1 DEF UiReadFails, FlashType, StoreType, CallType
  <2>2. ActiveIntact'
    BY <1>22 DEF UiReadFails, ActiveIntact, validate_committed_bank,
       validate_package
  <2>3. OffInv' /\ LockInv'
    BY <1>22 DEF UiReadFails, OffInv, LockInv
  <2>4. StageInv'
    BY <1>22 DEF UiReadFails, OffInv, StageInv, CallInv, Committing,
       InactiveBank, Fits, NoMarker, FlashType, StoreType, CallType, Banks,
       NoBank
  <2>5. CallInv'
    BY <1>22 DEF UiReadFails, OffInv, StageInv, CallInv, Committing,
       InactiveBank, Fits, NoMarker, FlashType, StoreType, CallType, Banks,
       NoBank, validate_package
  <2>6. QED
    BY <2>1, <2>2, <2>3, <2>4, <2>5
<1>23. ASSUME UiNext PROVE StoreInv'
  <2>1. TypeOK'
    <3>1. ReadType'
      BY <1>23, SmallValues DEF UiNext, ReadType
    <3>2. QED
      BY <1>23, <3>1 DEF UiNext, FlashType, StoreType, CallType
  <2>2. ActiveIntact'
    BY <1>23 DEF UiNext, ActiveIntact, validate_committed_bank,
       validate_package
  <2>3. OffInv' /\ LockInv'
    BY <1>23 DEF UiNext, OffInv, LockInv
  <2>4. StageInv'
    BY <1>23 DEF UiNext, OffInv, StageInv, CallInv, Committing,
       InactiveBank, Fits, NoMarker, FlashType, StoreType, CallType, Banks,
       NoBank
  <2>5. CallInv'
    BY <1>23 DEF UiNext, OffInv, StageInv, CallInv, Committing,
       InactiveBank, Fits, NoMarker, FlashType, StoreType, CallType, Banks,
       NoBank, validate_package
  <2>6. QED
    BY <2>1, <2>2, <2>3, <2>4, <2>5
<1>24. ASSUME Crash PROVE StoreInv'
  <2>1. TypeOK'
    <3>1. StoreType'
      BY <1>24, SmallValues DEF Crash, StoreType
    <3>2. CallType'
      BY <1>24, SmallValues DEF Crash, CallType
    <3>3. ReadType'
      BY <1>24, SmallValues DEF Crash, ReadType
    <3>4. QED
      BY <1>24, <3>1, <3>2, <3>3 DEF Crash, FlashType
  <2>2. ActiveIntact'
    BY <1>24 DEF Crash, ActiveIntact, validate_committed_bank,
       validate_package
  <2>3. OffInv' /\ LockInv'
    BY <1>24 DEF Crash, OffInv, LockInv
  <2>4. StageInv'
    BY <1>24 DEF Crash, OffInv, StageInv, CallInv, Committing, InactiveBank,
       Fits, NoMarker, FlashType, StoreType, CallType, Banks, NoBank
  <2>5. CallInv'
    BY <1>24 DEF Crash, OffInv, StageInv, CallInv, Committing, InactiveBank,
       Fits, NoMarker, FlashType, StoreType, CallType, Banks, NoBank,
       validate_package
  <2>6. QED
    BY <2>1, <2>2, <2>3, <2>4, <2>5
<1>25. ASSUME NEW B \in SUBSET Banks, NEW p \in {ptr, NoBank}, wallet_store_init(B, p) PROVE StoreInv'
  <2>1. TypeOK'
    <3>1. FlashType'
      BY <1>25, SelectedCommitted DEF wallet_store_init, FlashType
    <3>2. StoreType'
      BY <1>25, SelectedCommitted, SmallValues DEF wallet_store_init,
         StoreType, FlashType
    <3>3. QED
      BY <1>25, <3>1, <3>2 DEF wallet_store_init, CallType, ReadType
  <2>2. ActiveIntact'
    BY <1>25, SelectedCommitted DEF wallet_store_init, ActiveIntact,
       validate_committed_bank, validate_package
  <2>3. OffInv' /\ LockInv'
    BY <1>25 DEF wallet_store_init, OffInv, LockInv
  <2>4. StageInv'
    BY <1>25 DEF wallet_store_init, OffInv, StageInv, CallInv, Committing,
       InactiveBank, Fits, NoMarker, FlashType, StoreType, CallType, Banks,
       NoBank
  <2>5. CallInv'
    BY <1>25 DEF wallet_store_init, OffInv, StageInv, CallInv, Committing,
       InactiveBank, Fits, NoMarker, FlashType, StoreType, CallType, Banks,
       NoBank, validate_package
  <2>6. QED
    BY <2>1, <2>2, <2>3, <2>4, <2>5
<1>26. CASE UNCHANGED vars
  BY <1>26 DEF vars, FlashType, StoreType, CallType, ReadType, ActiveIntact,
     OffInv, LockInv, StageInv, CallInv, validate_committed_bank,
     validate_package, InactiveBank
<1>27. QED
  BY <1>1, <1>2, <1>3, <1>4, <1>5, <1>6, <1>7, <1>8, <1>9, <1>10, <1>11,
     <1>12, <1>13, <1>14, <1>15, <1>16, <1>17, <1>18, <1>19, <1>20, <1>21,
     <1>22, <1>23, <1>24, <1>25, <1>26 DEF Next, Boot, WorkerCall, WorkerStep,
     UiStep

LEMMA StoreInvariant == Spec => []StoreInv
BY InitStoreInv, StoreInvStep, PTL DEF Spec

\* Every variable keeps its type: no upload writes outside the package area
\* of its bank, whatever offsets the phone sends.
THEOREM TypeCorrect == Spec => []TypeOK
<1>1. StoreInv => TypeOK
  BY DEF StoreInv
<1>2. QED
  BY <1>1, StoreInvariant, PTL

\* No upload, failed commit, torn flash operation or restart ever leaves the
\* active bank without the whole package its description names.
THEOREM ActiveAlwaysIntact == Spec => []ActiveIntact
<1>1. StoreInv => ActiveIntact
  BY DEF StoreInv
<1>2. QED
  BY <1>1, StoreInvariant, PTL

-----------------------------------------------------------------------------
(* Generations and page reads, as long as the generation does not wrap *)

NoWrap == MaxCommits < GenLimit

LEMMA GenInvInit == Init => GenInv
BY DEF Init, GenInv, NoMarker, Banks

\* Generations never exceed the number of commits.
LEMMA GenInvStep ==
    ASSUME NoWrap, StoreInv, GenInv, [Next]_vars
    PROVE  GenInv'
<1> USE DEF flash, store, worker, reader
<1>0. /\ \A b \in Banks : mark[b].gen \in Nat
      /\ info \in Marker /\ info.gen \in 0 .. GenLimit - 1
      /\ commits \in 0 .. MaxCommits
  BY MarkerFields DEF StoreInv, TypeOK, FlashType, StoreType
<1>1. CASE CommitMark \/ CommitMarkFails
  <2>1. wbank \in Banks /\ wgen = NextGeneration(info.gen) /\ commits < MaxCommits
    BY <1>1 DEF StoreInv, TypeOK, CallType, CallInv, Committing, CommitMark,
                CommitMarkFails
  <2>2. wgen <= commits + 1
    BY <1>0, <2>1, NextGenerationType DEF NoWrap, GenInv
  <2>3. /\ info' = info
        /\ \/ mark' = mark /\ commits' = commits /\ wpc' = "drop"
           \/ /\ mark' = [mark EXCEPT ![wbank] = [gen |-> wgen, pkg |-> wpkg]]
              /\ commits' = commits + 1
    BY <1>1 DEF CommitMark, CommitMarkFails, GiveUp
  <2>4. mark \in [Banks -> Marker]
    BY DEF StoreInv, TypeOK, FlashType
  <2>5. \A b \in Banks : mark'[b].gen <= commits'
    BY <1>0, <2>1, <2>2, <2>3, <2>4 DEF GenInv
  <2>6. QED
    BY <1>0, <2>3, <2>5 DEF GenInv
<1>2. CASE CommitPublish
  <2>1. wgen = mark[wbank].gen /\ wbank \in Banks
    BY <1>2 DEF CommitPublish, StoreInv, CallInv, TypeOK, CallType
  <2>2. QED
    BY <1>2, <2>1 DEF CommitPublish, Return, GenInv
<1>3. CASE BeginErase \/ BeginEraseFails
  <2>1. /\ \A b \in Banks : mark'[b] = mark[b] \/ mark'[b] = NoMarker
        /\ info' = info /\ commits' = commits /\ wpc' # "publish"
    BY <1>3 DEF BeginErase, BeginEraseFails, PartlyErased, Return, StoreInv,
                TypeOK, FlashType
  <2>2. QED
    BY <1>0, <2>1 DEF GenInv, NoMarker
<1>4. CASE Boot
  <2>1. PICK B \in SUBSET Banks, p \in {ptr, NoBank} : wallet_store_init(B, p)
    BY <1>4 DEF Boot
  <2>2. QED
    BY <1>0, <2>1, SelectedCommitted
       DEF wallet_store_init, GenInv, NoMarker, StoreInv, OffInv
<1>5. CASE Crash
  BY <1>0, <1>5 DEF Crash, Return, GenInv, NoMarker
<1>6. CASE UNCHANGED <<mark, info, commits>> /\ (wpc' = "publish" => wpc = "publish")
  BY <1>6 DEF GenInv
<1>7. QED
  <2>1. \/ CommitMark \/ CommitMarkFails \/ CommitPublish \/ BeginErase
        \/ BeginEraseFails \/ Boot \/ Crash
        \/ UNCHANGED <<mark, info, commits>> /\ (wpc' = "publish" => wpc = "publish")
    BY DEF Next, Return, GiveUp, WorkerCall, WorkerStep, UiStep, vars, BeginSelect, BeginStage,
           WriteRejected, Write, WriteFails, CommitStart, Abort, CommitValidate,
           CommitGuard1, CommitGuard2, CommitSave, DropStaging, UiGetInfo,
           UiReadLock, UiReadMeta, UiReadPixels, UiReadFails, UiNext
  <2>2. QED
    BY <2>1, <1>1, <1>2, <1>3, <1>4, <1>5, <1>6

LEMMA PageInvInit == Init => PageInv
<1>1. Init => ReadInv /\ PageOfSnapshot
  BY DEF Init, ReadInv, PageOfSnapshot
<1>2. QED
  BY <1>1, InitStoreInv, GenInvInit DEF PageInv, CountInv

\* What the user interface has read stays true of the snapshot it read it
\* from; the steps that matter are the read itself and the activation of a
\* new bank between the revision and the page.
LEMMA PageInvStep ==
    ASSUME NoWrap, PageInv, [Next]_vars
    PROVE  PageInv'
<1> USE DEF flash, store, worker, reader
<1>0. StoreInv /\ GenInv /\ ReadInv /\ PageOfSnapshot
  BY DEF PageInv, CountInv
<1>1. StoreInv' /\ GenInv'
  BY <1>0, StoreInvStep, GenInvStep
<1>2. info \in Marker /\ info.gen \in 0 .. GenLimit - 1
  BY <1>0, MarkerFields DEF StoreInv, TypeOK, StoreType
<1>3. ASSUME mutex = "ui", NEW i \in 1 .. Size[info.pkg]
      PROVE  data[active][i] = info.pkg
  BY <1>0, <1>3 DEF StoreInv, LockInv, ActiveIntact, validate_committed_bank,
                    validate_package
<1>4. ReadInv' /\ PageOfSnapshot'
  <2>1. CASE UiGetInfo
    BY <1>2, <2>1 DEF UiGetInfo, ReadInv, PageOfSnapshot
  <2>2. CASE UiReadLock
    BY <1>0, <2>2 DEF UiReadLock, UiLeave, ReadInv, PageOfSnapshot
  <2>3. CASE \E i \in 1 .. MaxSize : UiReadMeta(i)
    <3>1. PICK i \in 1 .. MaxSize : UiReadMeta(i)
      BY <2>3
    <3>2. mutex = "ui" /\ i \in 1 .. Size[info.pkg]
      BY <1>0, <3>1 DEF UiReadMeta, StoreInv, LockInv
    <3>3. rmeta' = rpkg' /\ rpage' \in 1 .. Size[info'.pkg]
      BY <1>0, <1>3, <3>1, <3>2 DEF UiReadMeta, ReadInv
    <3>4. QED
      BY <1>0, <3>1, <3>3 DEF UiReadMeta, ReadInv, PageOfSnapshot
  <2>4. CASE UiReadPixels
    <3>1. mutex = "ui" /\ rpage \in 1 .. Size[info.pkg]
      BY <1>0, <2>4 DEF UiReadPixels, StoreInv, LockInv, ReadInv
    <3>2. rpix' = rpkg /\ rmeta = rpkg
      BY <1>0, <1>3, <2>4, <3>1 DEF UiReadPixels, ReadInv
    <3>3. QED
      BY <1>0, <2>4, <3>2 DEF UiReadPixels, ReadInv, PageOfSnapshot
  <2>5. CASE UiReadFails \/ UiNext \/ Crash
    BY <2>5 DEF UiReadFails, UiNext, Crash, UiLeave, ReadInv, PageOfSnapshot
  <2>6. CASE CommitPublish
    <3>1. wgen = NextGeneration(info.gen) /\ wgen = mark[wbank].gen /\ wbank \in Banks
      BY <1>0, <2>6 DEF CommitPublish, StoreInv, CallInv, Committing, TypeOK, CallType
    <3>2. info.gen < wgen
      <4>1. info.gen < commits /\ commits \in 0 .. MaxCommits
        BY <1>0, <2>6 DEF CommitPublish, GenInv, StoreInv, TypeOK, FlashType
      <4>2. info.gen + 1 < GenLimit
        BY <1>2, <4>1 DEF NoWrap
      <4>3. wgen = info.gen + 1
        <5>1. NextGeneration(info.gen) =
                 IF info.gen + 1 = GenLimit THEN 1 ELSE info.gen + 1
          BY <1>2, NextGenerationType
        <5>2. info.gen + 1 # GenLimit
          BY <1>2, <4>2
        <5>3. QED
          BY <3>1, <5>1, <5>2
      <4>4. QED
        BY <1>2, <4>3
    <3>3. rpc = rpc' /\ rpc \notin {"meta", "pixels"} /\ mutex' = "free"
      BY <1>0, <2>6 DEF CommitPublish, StoreInv, LockInv
    <3>4. rrev \in 0 .. GenLimit - 1
      BY <1>0 DEF StoreInv, TypeOK, ReadType
    <3>5. QED
      <4>1. UNCHANGED <<rpc, rrev, rpkg, rpage, rmeta, rpix>> /\ info'.gen = wgen
        BY <2>6 DEF CommitPublish
      <4>2. wgen \in Nat
        BY <1>0 DEF StoreInv, TypeOK, CallType
      <4>3. rpc # "idle" => rrev < info'.gen
        BY <1>0, <1>2, <3>2, <3>4, <4>1, <4>2 DEF ReadInv
      <4>4. QED
        BY <1>0, <3>3, <4>1, <4>2, <4>3, <3>4 DEF ReadInv, PageOfSnapshot
  <2>7. CASE Boot
    <3>1. PICK B \in SUBSET Banks, p \in {ptr, NoBank} : wallet_store_init(B, p)
      BY <2>7 DEF Boot
    <3>2. rpc' = "idle" /\ mutex' # "ui"
      BY <1>0, <3>1 DEF wallet_store_init, StoreInv, OffInv, LockInv
    <3>3. QED
      BY <3>2 DEF ReadInv, PageOfSnapshot
  <2>8. CASE UNCHANGED <<reader, info>>
    BY <1>0, <2>8 DEF ReadInv, PageOfSnapshot
  <2>9. QED
    <3>1. \/ UiGetInfo \/ UiReadLock \/ \E i \in 1 .. MaxSize : UiReadMeta(i)
          \/ UiReadPixels \/ UiReadFails \/ UiNext \/ Crash \/ CommitPublish
          \/ Boot \/ UNCHANGED <<reader, info>>
      BY DEF Next, WorkerCall, WorkerStep, UiStep, vars, BeginSelect, BeginErase,
             BeginEraseFails, BeginStage, WriteRejected, Write, WriteFails,
             CommitStart, Abort, CommitValidate, CommitGuard1, CommitGuard2,
             CommitSave, CommitMark, CommitMarkFails, DropStaging
    <3>2. QED
      BY <3>1, <2>1, <2>2, <2>3, <2>4, <2>5, <2>6, <2>7, <2>8
<1>5. QED
  BY <1>1, <1>4 DEF PageInv, CountInv

\* A page that reached the screen is, metadata and pixels, of the snapshot
\* whose revision the user interface had read, for as long as fewer commits
\* happen than there are generations.
THEOREM PagesOfSnapshot ==
    ASSUME NoWrap
    PROVE  Spec => []PageOfSnapshot
<1>1. PageInv /\ [Next]_vars => PageInv'
  BY PageInvStep
<1>2. PageInv => PageOfSnapshot
  BY DEF PageInv
<1>3. QED
  BY <1>1, <1>2, PageInvInit, PTL DEF Spec

-----------------------------------------------------------------------------
(* The store implements AtomicSnapshot when boot can read the banks, and when
   either boot can read the pointer or the generation does not wrap *)

HealthyBoot == ~ReadFaults /\ (LoadFaults => NoWrap)

\* The selection at boot in terms of which banks are committed.
LEMMA SelectedCases ==
    /\ \A p \in Banks : validate_committed_bank(p) => Selected(Banks, p) = p
    /\ \A p : (\A b \in Banks : ~validate_committed_bank(b)) =>
                 Selected(Banks, p) = NoBank
    /\ \A p, b : /\ b \in Banks
                 /\ validate_committed_bank(b)
                 /\ ~validate_committed_bank(1 - b)
                 => Selected(Banks, p) = b
BY DEF Selected, NewestOf, Banks, NoBank

\* While the inactive bank is not committed, a restart shows what readers see.
LEMMA DurableIsVisible ==
    RecoveryInv /\ up /\ ~validate_committed_bank(InactiveBank) => Durable = info
<1> SUFFICES ASSUME RecoveryInv, up, ~validate_committed_bank(InactiveBank)
             PROVE  Durable = info
  OBVIOUS
<1>1. active \in Banks \cup {NoBank}
  BY DEF RecoveryInv, StoreInv, TypeOK, StoreType
<1>2. CASE active = NoBank
  <2>1. \A b \in Banks : ~validate_committed_bank(b)
    BY <1>2 DEF RecoveryInv, PtrInv, InactiveBank, Banks, NoBank
  <2>2. QED
    BY <1>2, <2>1, SelectedCases DEF Durable, RecoveryInv, StoreInv, ActiveIntact
<1>3. CASE active \in Banks
  <2>1. validate_committed_bank(active) /\ info = mark[active] /\ active # NoBank
    BY <1>3, SmallValues DEF RecoveryInv, StoreInv, ActiveIntact
  <2>2. InactiveBank = 1 - active
    BY <1>3 DEF InactiveBank, Banks
  <2>3. Selected(Banks, ptr) = active
    BY <1>3, <2>1, <2>2, SelectedCases
  <2>4. QED
    BY <2>1, <2>3 DEF Durable
<1>4. QED
  BY <1>1, <1>2, <1>3

\* A step that changes neither what is committed nor the pointer does not
\* change what a restart shows.
LEMMA DurableKept ==
    ASSUME ptr' = ptr,
           \A b \in Banks : /\ validate_committed_bank(b)' <=> validate_committed_bank(b)
                            /\ validate_committed_bank(b) => mark'[b] = mark[b],
           mark \in [Banks -> Marker], mark' \in [Banks -> Marker]
    PROVE  Durable' = Durable
<1>1. CASE \A b \in Banks : validate_committed_bank(b)
  BY <1>1 DEF Durable, Selected, NewestOf, Banks, NoBank
<1>2. CASE \E b \in Banks : ~validate_committed_bank(b)
  BY <1>2 DEF Durable, Selected, NewestOf, Banks, NoBank
<1>3. QED
  BY <1>1, <1>2

\* An erase, whole or cut short, can only make a bank lose its snapshot.
LEMMA EraseOnlyLoses ==
    ASSUME StoreInv, BeginErase \/ BeginEraseFails
    PROVE  \A b \in Banks :
              validate_committed_bank(b)' =>
                 validate_committed_bank(b) /\ mark'[b] = mark[b]
<1>1. wbank \in Banks /\ data \in [Banks -> [1 .. MaxSize -> Cells]]
      /\ mark \in [Banks -> Marker]
  BY DEF StoreInv, TypeOK, FlashType, CallType
<1>2. CASE BeginErase
  BY <1>1, <1>2 DEF BeginErase, validate_committed_bank, validate_package, NoMarker
<1>3. CASE BeginEraseFails
  <2>1. PICK area \in [1 .. MaxSize -> Cells], m \in {mark[wbank], NoMarker} :
           /\ \A i \in 1 .. MaxSize : area[i] \in Interrupted(data[wbank][i], Blank)
           /\ data' = [data EXCEPT ![wbank] = area]
           /\ mark' = [mark EXCEPT ![wbank] = m]
    BY <1>3 DEF BeginEraseFails, PartlyErased
  <2>2. SUFFICES ASSUME NEW b \in Banks, validate_committed_bank(b)'
                 PROVE  validate_committed_bank(b) /\ mark'[b] = mark[b]
    OBVIOUS
  <2>3. CASE b # wbank
    BY <1>1, <2>1, <2>2, <2>3 DEF validate_committed_bank, validate_package
  <2>4. CASE b = wbank
    <3>1. m = mark[wbank] /\ mark'[b] = mark[b]
      BY <1>1, <2>1, <2>2, <2>4 DEF validate_committed_bank, NoMarker
    <3>2. ASSUME NEW i \in 1 .. Size[mark[b].pkg]
          PROVE  data[b][i] = mark[b].pkg
      <4>1. mark[b].pkg \in WellFormed /\ Fits(mark[b].pkg) /\ area[i] = mark[b].pkg
        BY <1>1, <2>1, <2>2, <2>4, <3>1, <3>2
           DEF validate_committed_bank, validate_package, Fits
      <4>2. i \in 1 .. MaxSize
        BY <3>2, <4>1 DEF Fits
      <4>3. QED
        BY <2>1, <2>4, <4>1, <4>2 DEF Interrupted
    <3>3. QED
      BY <2>2, <3>1, <3>2 DEF validate_committed_bank, validate_package, Fits
  <2>5. QED
    BY <2>3, <2>4
<1>4. QED
  BY <1>2, <1>3

\* Writing records into a bank without a marker commits nothing.
LEMMA WriteCommitsNothing ==
    ASSUME StoreInv, NEW n, NEW c \in Packages, Write(n, c) \/ WriteFails(n, c)
    PROVE  \A b \in Banks : validate_committed_bank(b)' <=> validate_committed_bank(b)
<1>1. /\ mark' = mark /\ mark[sbank].gen = 0 /\ sbank \in Banks
      /\ \A b \in Banks \ {sbank} : data'[b] = data[b]
  BY DEF StoreInv, TypeOK, FlashType, StoreType, StageInv, Write, WriteFails,
         WriteAllowed, Ready
<1>2. QED
  BY <1>1 DEF validate_committed_bank, validate_package

\* The steps that can change what is committed, the pointer, or what is
\* visible; every other step leaves all of it alone.
LEMMA OtherSteps ==
    ASSUME [Next]_vars
    PROVE  \/ BeginErase \/ BeginEraseFails
           \/ \E n \in 0 .. MaxSize, c \in Packages : Write(n, c) \/ WriteFails(n, c)
           \/ CommitSave \/ CommitMark \/ CommitMarkFails \/ CommitPublish
           \/ Boot \/ Crash
           \/ UNCHANGED <<data, mark, ptr, up, active, info>>
BY DEF Next, WorkerCall, WorkerStep, UiStep, vars, flash, store, worker, reader,
       BeginSelect, BeginStage, WriteRejected, CommitStart, Abort, CommitValidate,
       CommitGuard1, CommitGuard2, DropStaging, UiGetInfo, UiReadLock, UiReadMeta,
       UiReadPixels, UiReadFails, UiNext

\* The marker write commits the target bank and touches no other.
LEMMA MarkCommits ==
    ASSUME StoreInv, CommitMark \/ CommitMarkFails, NEW w, w = wbank,
           mark' = [mark EXCEPT ![wbank] = [gen |-> wgen, pkg |-> wpkg]]
    PROVE  /\ w \in Banks /\ w = InactiveBank /\ ptr' = ptr /\ ptr = w
           /\ ~validate_committed_bank(w)
           /\ validate_committed_bank(w)'
           /\ mark'[w] = [gen |-> wgen, pkg |-> wpkg]
           /\ mark'[1 - w] = mark[1 - w]
           /\ validate_committed_bank(1 - w)' <=> validate_committed_bank(1 - w)
           /\ wgen = NextGeneration(info.gen)
           /\ wpkg \in WellFormed /\ Fits(wpkg)
           /\ up /\ UNCHANGED <<up, active, info>>
<1>1. /\ w \in Banks /\ w = InactiveBank /\ ptr' = ptr /\ ptr = w
      /\ mark[w].gen = 0 /\ wgen = NextGeneration(info.gen)
      /\ validate_package(w, wpkg) /\ data' = data
      /\ UNCHANGED <<up, active, info>>
  BY DEF StoreInv, TypeOK, CallType, CallInv, Committing, CommitMark,
         CommitMarkFails, store
<1>2. wgen # 0
  BY <1>1, NextGenerationType, MarkerFields DEF StoreInv, TypeOK, StoreType
<1>3. mark \in [Banks -> Marker] /\ 1 - w \in Banks /\ 1 - w # w
  BY <1>1 DEF StoreInv, TypeOK, FlashType, Banks
<1>4. up
  BY DEF StoreInv, OffInv, CommitMark, CommitMarkFails
<1>5. mark'[w] = [gen |-> wgen, pkg |-> wpkg] /\ mark'[1 - w] = mark[1 - w]
  BY <1>3, <1>1
<1>6. validate_committed_bank(w)' /\ ~validate_committed_bank(w)
  BY <1>1, <1>2, <1>5 DEF validate_committed_bank, validate_package
<1>7. validate_committed_bank(1 - w)' <=> validate_committed_bank(1 - w)
  BY <1>1, <1>5 DEF validate_committed_bank, validate_package
<1>8. QED
  BY <1>1, <1>4, <1>5, <1>6, <1>7 DEF validate_package

LEMMA RecoveryInvInit == Init => RecoveryInv
<1>1. Init => PtrInv
  BY DEF Init, PtrInv, validate_committed_bank, NoMarker, Banks
<1>2. QED
  BY <1>1, InitStoreInv, GenInvInit DEF RecoveryInv

\* With healthy banks, boot's selection does not depend on whether the
\* pointer could be read.
LEMMA SelectionStable ==
    ASSUME RecoveryInv, NEW p \in {ptr, NoBank}, p = ptr \/ LoadFaults
    PROVE  Selected(Banks, p) = Selected(Banks, ptr)
<1>1. CASE \A b \in Banks : validate_committed_bank(b)
  <2>1. ptr \in Banks /\ (LoadFaults => mark[1 - ptr].gen < mark[ptr].gen)
    BY <1>1 DEF RecoveryInv, PtrInv
  <2>2. mark[0].gen \in Nat /\ mark[1].gen \in Nat
    BY MarkerFields, SmallValues DEF RecoveryInv, StoreInv, TypeOK, FlashType
  <2>3. QED
    BY <1>1, <2>1, <2>2 DEF Selected, NewestOf, Banks, NoBank
<1>2. CASE \E b \in Banks : ~validate_committed_bank(b)
  BY <1>2 DEF Selected, NewestOf, Banks, NoBank
<1>3. QED
  BY <1>1, <1>2

\* The pointer keeps deciding for the newer bank.
LEMMA RecoveryInvStep ==
    ASSUME HealthyBoot, RecoveryInv, [Next]_vars
    PROVE  RecoveryInv'
<1> USE DEF flash, store
<1>0. StoreInv /\ PtrInv /\ (LoadFaults => GenInv)
  BY DEF RecoveryInv
<1>1. StoreInv' /\ (LoadFaults => GenInv')
  BY <1>0, StoreInvStep, GenInvStep DEF HealthyBoot
<1>2. PtrInv'
  <2>1. CASE BeginErase \/ BeginEraseFails
    <3>1. UNCHANGED <<ptr, up, active>>
      BY <2>1 DEF BeginErase, BeginEraseFails
    <3>2. QED
      BY <1>0, <2>1, <3>1, EraseOnlyLoses DEF PtrInv, Banks
  <2>2. CASE \E n \in 0 .. MaxSize, c \in Packages : Write(n, c) \/ WriteFails(n, c)
    <3>1. PICK n \in 0 .. MaxSize, c \in Packages : Write(n, c) \/ WriteFails(n, c)
      BY <2>2
    <3>2. UNCHANGED <<mark, ptr, up, active>>
      BY <3>1 DEF Write, WriteFails
    <3>3. \A b \in Banks : validate_committed_bank(b)' <=> validate_committed_bank(b)
      BY <1>0, <3>1, WriteCommitsNothing
    <3>4. QED
      BY <1>0, <3>2, <3>3 DEF PtrInv, Banks
  <2>3. CASE CommitSave
    <3>1. mark[wbank].gen = 0 /\ wbank \in Banks /\ UNCHANGED <<data, mark, up, active>>
      BY <1>0, <2>3 DEF CommitSave, StoreInv, CallInv, Committing, TypeOK, CallType
    <3>2. QED
      BY <1>0, <3>1 DEF PtrInv, validate_committed_bank, validate_package
  <2>4. CASE CommitMark \/ CommitMarkFails
    <3>1. CASE mark' = [mark EXCEPT ![wbank] = [gen |-> wgen, pkg |-> wpkg]]
      <4>0. PICK w : w = wbank
        OBVIOUS
      <4>1. /\ w \in Banks /\ w = InactiveBank /\ ptr' = w
            /\ mark'[w] = [gen |-> wgen, pkg |-> wpkg]
            /\ mark'[1 - w] = mark[1 - w]
            /\ validate_committed_bank(1 - w)' <=> validate_committed_bank(1 - w)
            /\ wgen = NextGeneration(info.gen)
            /\ UNCHANGED <<up, active>> /\ up
        BY <1>0, <2>4, <3>1, <4>0, MarkCommits
      <4>2. ASSUME LoadFaults, validate_committed_bank(1 - w)
            PROVE  mark[1 - w].gen < wgen
        <5>1. active = 1 - w /\ active # NoBank
          BY <1>0, <4>1, <4>2, SmallValues
             DEF PtrInv, InactiveBank, Banks, NoBank, StoreInv, TypeOK, StoreType
        <5>2. mark[1 - w].gen = info.gen /\ info.gen \in 0 .. GenLimit - 1
          BY <1>0, <5>1, MarkerFields
             DEF StoreInv, ActiveIntact, TypeOK, StoreType
        <5>3. info.gen < MaxCommits
          BY <1>0, <2>4, <4>2, <5>2
             DEF GenInv, CommitMark, CommitMarkFails, StoreInv, CallInv, Committing,
                 TypeOK, FlashType
        <5>4. info.gen + 1 # GenLimit
          BY <4>2, <5>2, <5>3 DEF HealthyBoot, NoWrap
        <5>5. wgen = IF info.gen + 1 = GenLimit THEN 1 ELSE info.gen + 1
          BY <4>1, <5>2, NextGenerationType
        <5>6. QED
          BY <5>2, <5>4, <5>5
      <4>3. active' = NoBank => ~validate_committed_bank(1)'
        BY <1>0, <4>1 DEF PtrInv, InactiveBank, Banks, NoBank
      <4>4. (\A b \in Banks : validate_committed_bank(b)') =>
               (LoadFaults => mark'[1 - ptr'].gen < mark'[ptr'].gen)
        BY <4>1, <4>2 DEF Banks
      <4>5. QED
        BY <4>1, <4>3, <4>4 DEF PtrInv
    <3>2. CASE UNCHANGED mark
      <4>1. UNCHANGED <<data, mark, ptr, up, active>>
        BY <2>4, <3>2 DEF CommitMark, CommitMarkFails
      <4>2. QED
        BY <1>0, <4>1 DEF PtrInv, validate_committed_bank, validate_package
    <3>3. QED
      BY <2>4, <3>1, <3>2 DEF CommitMark, CommitMarkFails
  <2>5. CASE CommitPublish
    <3>1. UNCHANGED flash /\ active' # NoBank
      BY <1>0, <2>5, SmallValues DEF CommitPublish, StoreInv, TypeOK, CallType
    <3>2. QED
      BY <1>0, <3>1 DEF PtrInv, validate_committed_bank, validate_package
  <2>6. CASE Boot
    <3>1. PICK p \in {ptr, NoBank} :
             wallet_store_init(Banks, p) /\ (p = ptr \/ LoadFaults)
      BY <2>6 DEF Boot, HealthyBoot
    <3>2. Selected(Banks, p) = Selected(Banks, ptr)
      BY <3>1, SelectionStable
    <3>3. UNCHANGED <<data, mark>> /\ ptr' \in {ptr, Selected(Banks, ptr)}
          /\ active' = Selected(Banks, ptr)
      BY <3>1, <3>2 DEF wallet_store_init
    <3>4. \A b \in Banks : validate_committed_bank(b)' <=> validate_committed_bank(b)
      BY <3>3 DEF validate_committed_bank, validate_package
    <3>5. active' = NoBank => ~validate_committed_bank(1)
      BY <3>3, SelectedCases, SmallValues DEF Selected, NewestOf, Banks, NoBank
    <3>6. (\A b \in Banks : validate_committed_bank(b)) => ptr' = ptr
      BY <1>0, <3>3, SelectedCases DEF PtrInv
    <3>7. QED
      BY <1>0, <3>3, <3>4, <3>5, <3>6, SmallValues DEF PtrInv
  <2>7. CASE Crash
    BY <1>0, <2>7 DEF Crash, PtrInv, validate_committed_bank, validate_package
  <2>8. CASE UNCHANGED <<data, mark, ptr, up, active, info>>
    BY <1>0, <2>8 DEF PtrInv, validate_committed_bank, validate_package
  <2>9. QED
    BY <2>1, <2>2, <2>3, <2>4, <2>5, <2>6, <2>7, <2>8, OtherSteps
<1>3. QED
  BY <1>1, <1>2 DEF RecoveryInv

LEMMA RefinementInit == Init => Abs!Init
<1> SUFFICES ASSUME Init PROVE Abs!Init
  OBVIOUS
<1>1. \A b \in Banks : ~validate_committed_bank(b)
  BY DEF Init, validate_committed_bank, NoMarker
<1>2. Durable = NoMarker
  BY <1>1, SelectedCases DEF Durable
<1>3. QED
  BY <1>2 DEF Init, Abs!Init, Abs!Empty, NoMarker

\* Every step of the store is a step of the atomic snapshot or none: the
\* marker write replaces, an erase takes an unpublished replacement back.
LEMMA RefinementStep ==
    ASSUME HealthyBoot, RecoveryInv, RecoveryInv', [Next]_vars
    PROVE  [Abs!Next]_(Abs!vars)
<1> USE DEF flash, store
<1>0. StoreInv /\ PtrInv
  BY DEF RecoveryInv
<1>1. mark \in [Banks -> Marker] /\ mark' \in [Banks -> Marker]
  BY DEF RecoveryInv, StoreInv, TypeOK, FlashType
<1>2. (RecoveryInv /\ up /\ ~validate_committed_bank(InactiveBank) => Durable = info)'
  BY DurableIsVisible, PTL
<1>3. CASE BeginErase \/ BeginEraseFails
  <2>1. UNCHANGED <<ptr, up, active, info>> /\ up
    BY <1>0, <1>3 DEF BeginErase, BeginEraseFails, StoreInv, OffInv
  <2>2. CASE \A b \in Banks : validate_committed_bank(b)' <=> validate_committed_bank(b)
    <3>1. Durable' = Durable
      BY <1>0, <1>1, <1>3, <2>1, <2>2, DurableKept, EraseOnlyLoses
    <3>2. QED
      BY <2>1, <3>1 DEF Abs!vars
  <2>3. CASE \E b \in Banks : ~(validate_committed_bank(b)' <=> validate_committed_bank(b))
    <3>1. PICK b \in Banks : validate_committed_bank(b) /\ ~validate_committed_bank(b)'
      BY <1>0, <1>3, <2>3, EraseOnlyLoses
    <3>2. b = wbank
      <4>1. b # wbank => mark'[b] = mark[b] /\ data'[b] = data[b]
        BY <1>0, <1>3
           DEF BeginErase, BeginEraseFails, PartlyErased, StoreInv, TypeOK, FlashType
      <4>2. QED
        BY <3>1, <4>1 DEF validate_committed_bank, validate_package
    <3>3. b = InactiveBank /\ InactiveBank' = InactiveBank
      BY <1>0, <1>3, <2>1, <3>2
         DEF StoreInv, CallInv, BeginErase, BeginEraseFails, InactiveBank
    <3>4. ~validate_committed_bank(InactiveBank)'
      BY <1>3, <3>1, <3>3 DEF validate_committed_bank, validate_package
    <3>5. Durable' = info
      BY <1>2, <2>1, <3>4
    <3>6. QED
      BY <2>1, <3>5 DEF Abs!Next, Abs!TakeBack
  <2>4. QED
    BY <2>2, <2>3
<1>4. CASE \E n \in 0 .. MaxSize, c \in Packages : Write(n, c) \/ WriteFails(n, c)
  <2>1. PICK n \in 0 .. MaxSize, c \in Packages : Write(n, c) \/ WriteFails(n, c)
    BY <1>4
  <2>2. UNCHANGED <<mark, ptr, up, active, info>>
    BY <2>1 DEF Write, WriteFails
  <2>3. Durable' = Durable
    BY <1>0, <1>1, <2>1, <2>2, WriteCommitsNothing, DurableKept
  <2>4. QED
    BY <2>2, <2>3 DEF Abs!vars
<1>5. CASE CommitSave
  <2>1. /\ mark[wbank].gen = 0 /\ wbank = InactiveBank
        /\ up /\ UNCHANGED <<data, mark, up, active, info>>
    BY <1>0, <1>5 DEF CommitSave, StoreInv, OffInv, CallInv, Committing
  <2>2. ~validate_committed_bank(InactiveBank)
    BY <2>1 DEF validate_committed_bank
  <2>3. ~validate_committed_bank(InactiveBank)'
    BY <2>1 DEF validate_committed_bank, InactiveBank
  <2>4. Durable = info /\ Durable' = info
    BY <1>2, <2>1, <2>2, <2>3, DurableIsVisible
  <2>5. QED
    BY <2>1, <2>4 DEF Abs!vars
<1>6. CASE CommitMark \/ CommitMarkFails
  <2>1. CASE mark' = [mark EXCEPT ![wbank] = [gen |-> wgen, pkg |-> wpkg]]
    <3>0. PICK w : w = wbank
      OBVIOUS
    <3>1. /\ w \in Banks /\ w = InactiveBank /\ ptr' = w
          /\ ~validate_committed_bank(w) /\ validate_committed_bank(w)'
          /\ mark'[w] = [gen |-> wgen, pkg |-> wpkg]
          /\ wgen = NextGeneration(info.gen)
          /\ wpkg \in WellFormed /\ Fits(wpkg)
          /\ up /\ UNCHANGED <<up, active, info>>
      BY <1>0, <1>6, <2>1, <3>0, MarkCommits
    <3>2. Durable = info
      BY <3>1, DurableIsVisible
    <3>3. Durable' = [gen |-> wgen, pkg |-> wpkg]
      BY <3>1, SmallValues DEF Durable, Selected
    <3>4. wgen = Abs!Successor(info.gen)
      BY <1>0, <3>1, NextGenerationType, MarkerFields
         DEF Abs!Successor, StoreInv, TypeOK, StoreType
    <3>5. Abs!Replace(wpkg)
      BY <3>1, <3>2, <3>3, <3>4 DEF Abs!Replace
    <3>6. QED
      BY <3>1, <3>5 DEF Abs!Next
  <2>2. CASE UNCHANGED mark
    <3>1. UNCHANGED <<data, mark, ptr, up, info>>
      BY <1>6, <2>2 DEF CommitMark, CommitMarkFails
    <3>2. Durable' = Durable
      BY <1>1, <3>1, DurableKept DEF validate_committed_bank, validate_package
    <3>3. QED
      BY <3>1, <3>2 DEF Abs!vars
  <2>3. QED
    BY <1>6, <2>1, <2>2 DEF CommitMark, CommitMarkFails
<1>7. CASE CommitPublish
  <2>1. /\ wbank \in Banks /\ ptr = wbank /\ mark[wbank] = [gen |-> wgen, pkg |-> wpkg]
        /\ validate_package(wbank, wpkg) /\ wgen = NextGeneration(info.gen)
        /\ up /\ UNCHANGED <<flash, up>> /\ info' = [gen |-> wgen, pkg |-> wpkg]
    BY <1>0, <1>7
       DEF CommitPublish, StoreInv, OffInv, CallInv, Committing, TypeOK, CallType
  <2>2. wgen # 0
    BY <1>0, <2>1, NextGenerationType, MarkerFields DEF StoreInv, TypeOK, StoreType
  <2>3. validate_committed_bank(wbank)
    BY <2>1, <2>2 DEF validate_committed_bank
  <2>4. Durable = info'
    BY <2>1, <2>3, SmallValues DEF Durable, Selected
  <2>5. Durable' = Durable
    BY <1>1, <2>1, DurableKept DEF validate_committed_bank, validate_package
  <2>6. QED
    BY <2>1, <2>4, <2>5 DEF Abs!Next, Abs!Publish
<1>8. CASE Boot
  <2>1. PICK p \in {ptr, NoBank} :
           wallet_store_init(Banks, p) /\ (p = ptr \/ LoadFaults)
    BY <1>8 DEF Boot, HealthyBoot
  <2>2. Selected(Banks, p) = Selected(Banks, ptr)
    BY <2>1, SelectionStable
  <2>3. /\ UNCHANGED <<data, mark>> /\ ptr' \in {ptr, Selected(Banks, ptr)}
        /\ info' = Durable /\ ~up /\ up'
        /\ Selected(Banks, ptr) = NoBank => ptr' = ptr
    BY <2>1, <2>2 DEF wallet_store_init, Durable
  <2>4. Durable' = Durable
    <3>1. CASE ptr' = ptr
      BY <1>1, <2>3, <3>1, DurableKept DEF validate_committed_bank, validate_package
    <3>2. CASE ptr' = Selected(Banks, ptr) /\ Selected(Banks, ptr) # NoBank
      <4>1. PICK b : b = Selected(Banks, ptr)
        OBVIOUS
      <4>2. b \in Banks /\ validate_committed_bank(b)
        BY <3>2, <4>1, SelectedCommitted
      <4>3. validate_committed_bank(b)'
        BY <2>3, <4>2 DEF validate_committed_bank, validate_package
      <4>4. Durable' = mark[b]
        BY <2>3, <3>2, <4>1, <4>2, <4>3, SmallValues DEF Durable, Selected
      <4>5. QED
        BY <3>2, <4>1, <4>4 DEF Durable
    <3>3. QED
      BY <2>3, <3>1, <3>2
  <2>5. QED
    BY <2>3, <2>4 DEF Abs!Next, Abs!Start
<1>9. CASE Crash
  <2>1. UNCHANGED flash /\ ~up' /\ info' = NoMarker
    BY <1>9 DEF Crash
  <2>2. Durable' = Durable
    BY <1>1, <2>1, DurableKept DEF validate_committed_bank, validate_package
  <2>3. up' = FALSE
    BY <1>9 DEF Crash
  <2>4. QED
    BY <2>1, <2>2, <2>3 DEF Abs!Next, Abs!Stop, Abs!Empty, NoMarker
<1>10. CASE UNCHANGED <<data, mark, ptr, up, active, info>>
  <2>1. Durable' = Durable
    BY <1>1, <1>10, DurableKept DEF validate_committed_bank, validate_package
  <2>2. QED
    BY <1>10, <2>1 DEF Abs!vars
<1>11. QED
  BY <1>3, <1>4, <1>5, <1>6, <1>7, <1>8, <1>9, <1>10, OtherSteps

\* The two banks, the marker and the pointer together behave as one snapshot
\* that is replaced atomically, through every flash or NVS failure and every
\* loss of power, provided boot can read the banks.
THEOREM StoreIsAtomic ==
    ASSUME HealthyBoot
    PROVE  Spec => AtomicReplacement
<1>1. RecoveryInv /\ [Next]_vars => RecoveryInv'
  BY RecoveryInvStep
<1>2. RecoveryInv /\ RecoveryInv' /\ [Next]_vars => [Abs!Next]_(Abs!vars)
  BY RefinementStep
<1>3. QED
  BY <1>1, <1>2, RecoveryInvInit, RefinementInit, PTL
     DEF Spec, AtomicReplacement, Abs!Spec

=============================================================================
