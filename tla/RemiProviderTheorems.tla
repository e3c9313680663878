------------------------ MODULE RemiProviderTheorems ------------------------
(***************************************************************************)
(* The theorems about RemiProvider: its safety properties hold for all     *)
(* values of the constants, and it keeps the promise of FilesetMigration.  *)
(***************************************************************************)
EXTENDS RemiProviderControl

-----------------------------------------------------------------------------
(* The invariant on control is inductive                                   *)

LEMMA InitControl ==
  ASSUME Init, NEW m \in Migrations
  PROVE  ControlInv(m)
  <1>1. /\ DOMAIN Plan[m] = 1..Len(Plan[m]) /\ Len(Plan[m]) \in Nat
        /\ \A n \in DOMAIN Plan[m] : <<m, n>> \in Requests
    BY PlanDomain, RequestPairs
  <1>2. QED
    BY <1>1 DEF Init, ControlInv, StartInv, WriteInv, MmapInv, EndInv, MutexInv, OperationInv,
                StartRuns, WriteWaits, WriteTaken, MmapRuns, EndRuns, Published

LEMMA NextControl ==
  ASSUME TypeOK, \A m \in Migrations : ControlInv(m), [Next]_vars
  PROVE  \A m \in Migrations : ControlInv(m)'
  <1> SUFFICES ASSUME NEW m \in Migrations
               PROVE  ControlInv(m)'
    OBVIOUS
  <1>1. CASE Application \/ UNCHANGED vars
    BY <1>1, ApplicationSameControl, SameControlInv
  <1>2. ASSUME NEW o \in Migrations, o # m, MigrationStep(o)
        PROVE  ControlInv(m)'
    BY <1>2, OthersSameControl, SameControlInv
  <1>3. CASE SenderStep(m)
    BY <1>3, CallStartControl, CallMmapControl, CallWriteControl, CallEndControl,
       ReturnControl, LoseCallControl DEF SenderStep, Sender
  <1>4. CASE StartHandler(m)
    BY <1>4, MigrateStartCheckControl, MigrateStartBeforeControl,
       MigrateStartCallbackControl, MigrateStartOpenControl DEF StartHandler
  <1>5. CASE MmapHandler(m)
    BY <1>5, MigrateMmapLookupControl, MigrateMmapMapControl, MigrateMmapPullControl,
       MigrateMmapSyncControl DEF MmapHandler
  <1>6. CASE EndHandler(m)
    BY <1>6, MigrateEndLookupControl, MigrateEndCloseControl, MigrateEndAnswerControl,
       MigrateEndEraseControl DEF EndHandler
  <1>7. ASSUME NEW n \in DOMAIN Plan[m], WriteHandler(m, n)
        PROVE  ControlInv(m)'
    BY <1>7, MigrateWriteLookupControl, MigrateWriteAckControl, MigrateWriteDataControl
       DEF WriteHandler
  <1>8. QED
    BY <1>1, <1>2, <1>3, <1>4, <1>5, <1>6, <1>7, NextCases DEF MigrationStep

-----------------------------------------------------------------------------
(* The invariant on the files                                              *)

\* The file of a piece is one of the targets.
LEMMA PieceFileInTargets ==
  ASSUME NEW m \in Migrations, NEW n,
         \/ mode[m] = "mmap" /\ n \in PieceNumbers(m)
         \/ mode[m] # "mmap" /\ n \in DOMAIN Plan[m] /\ InRange(m, n)
  PROVE  PieceFile(m, n) \in Targets(m)
  <1>1. DOMAIN Sizes[m] = DOMAIN Target[m]
    BY ShapeAssumption
  <1>2. QED
    BY <1>1 DEF PieceFile, Targets, PieceNumbers, InRange

\* What is stored adds to the pieces of m and leaves other files alone.
LEMMA StoreEffect ==
  ASSUME NEW m \in Migrations, NEW P, NEW S, Store(m, P, S)
  PROVE  /\ \A p \in Paths \ P : content'[p] = content[p]
         /\ \A p \in Paths : \A n : <<m, n>> \in content[p] => <<m, n>> \in content'[p]
         /\ \A p \in Paths \cap P : \A n :
              <<m, n>> \in S /\ PieceFile(m, n) = p => <<m, n>> \in content'[p]
  BY DEF Store

\* What m has been through is not undone, and its method is fixed.
LEMMA PastStays ==
  ASSUME TypeOK, \A m \in Migrations : ControlInv(m), [Next]_vars
  PROVE  /\ mode' = mode
         /\ \A m \in Migrations :
              startPc[m] \in {"broken", "opened"} => startPc'[m] = startPc[m]
  <1> USE DEF TypeOK, vars, senderVars, handlerVars
  <1>1. CASE Application \/ UNCHANGED vars
    BY <1>1 DEF Application, RegisterClass, DeregisterClass
  <1>2. ASSUME NEW o \in Migrations, SenderStep(o)
        PROVE  /\ mode' = mode
               /\ \A m \in Migrations : startPc'[m] = startPc[m] \/ startPc[m] = "none"
    <2>1. phase[o] = "idle" => startPc[o] = "none"
      BY DEF ControlInv, StartInv
    <2>2. QED
      BY <1>2, <2>1 DEF SenderStep, Sender, CallStart, CallMmap, CallWrite, CallEnd, Return,
                        LoseCall
  <1>3. ASSUME NEW o \in Migrations, StartHandler(o)
        PROVE  /\ mode' = mode
               /\ \A m \in Migrations :
                    \/ startPc'[m] = startPc[m]
                    \/ startPc[m] \in {"called", "checked", "calling", "accepted"}
    BY <1>3 DEF StartHandler, MigrateStartCheck, MigrateStartBefore, MigrateStartCallback,
                MigrateStartOpen
  <1>4. ASSUME NEW o \in Migrations, MmapHandler(o)
        PROVE  mode' = mode /\ startPc' = startPc
    BY <1>4 DEF MmapHandler, MigrateMmapLookup, MigrateMmapMap, MigrateMmapPull,
                MigrateMmapSync
  <1>5. ASSUME NEW o \in Migrations, EndHandler(o)
        PROVE  mode' = mode /\ startPc' = startPc
    BY <1>5 DEF EndHandler, MigrateEndLookup, MigrateEndClose, MigrateEndAnswer,
                MigrateEndErase
  <1>6. ASSUME NEW o \in Migrations, NEW n \in DOMAIN Plan[o], WriteHandler(o, n)
        PROVE  mode' = mode /\ startPc' = startPc
    BY <1>6 DEF WriteHandler, MigrateWriteLookup, MigrateWriteAck, MigrateWriteData
  <1>7. QED
    BY <1>1, <1>2, <1>3, <1>4, <1>5, <1>6, NextCases

LEMMA ExclusiveStays ==
  ASSUME TypeOK, \A m \in Migrations : ControlInv(m), [Next]_vars,
         NEW m \in Migrations, Exclusive(m)'
  PROVE  Exclusive(m)
  BY PastStays DEF Exclusive, Targets

\* Nothing new is claimed of the files of m.
NoNewClaim(m) ==
  /\ startPc'[m] = "opened" => startPc[m] = "opened"
  /\ bulkPc'[m] \in {"pulled", "synced"} => bulkPc[m] \in {"pulled", "synced"}
  /\ \A n \in DOMAIN Plan[m] :
       writePc'[<<m, n>>] = "written" => writePc[<<m, n>>] = "written"

\* The pieces of m stay in its files.
PiecesStay(m) ==
  \A p \in Targets(m) : \A n : <<m, n>> \in content[p] => <<m, n>> \in content'[p]

\* A step that claims nothing new of m, and leaves its pieces where they are,
\* preserves what is known of its files.
LEMMA ContentKept ==
  ASSUME TypeOK, NEW m \in Migrations, ControlInv(m), ContentInv(m), mode' = mode,
         exists \subseteq exists', NoNewClaim(m),
         Exclusive(m)' => Exclusive(m) /\ PiecesStay(m)
  PROVE  ContentInv(m)'
  <1>1. /\ PieceNumbers(m)' = PieceNumbers(m)
        /\ \A n : PieceFile(m, n)' = PieceFile(m, n)
        /\ Targets(m)' = Targets(m)
    BY DEF PieceNumbers, PieceFile, Targets
  <1>2. ASSUME startPc'[m] = "opened"
        PROVE  Targets(m) \subseteq exists'
    BY <1>2 DEF NoNewClaim, ContentInv
  <1>3. ASSUME Exclusive(m)', mode[m] # "mmap", NEW n \in DOMAIN Plan[m],
               writePc'[<<m, n>>] = "written"
        PROVE  <<m, n>> \in content'[PieceFile(m, n)]
    <2>1. writePc[<<m, n>>] = "written"
      BY <1>3 DEF NoNewClaim
    <2>2. <<m, n>> \in content[PieceFile(m, n)]
      BY <1>3, <2>1 DEF ContentInv
    <2>3. InRange(m, n)
      BY <2>1 DEF ControlInv, WriteInv, WriteTaken
    <2>4. PieceFile(m, n) \in Targets(m)
      BY <1>3, <2>3, PieceFileInTargets
    <2>5. QED
      BY <1>3, <2>2, <2>4 DEF PiecesStay
  <1>4. ASSUME Exclusive(m)', bulkPc'[m] \in {"pulled", "synced"},
               NEW n \in PieceNumbers(m)
        PROVE  <<m, n>> \in content'[PieceFile(m, n)]
    <2>1. bulkPc[m] \in {"pulled", "synced"}
      BY <1>4 DEF NoNewClaim
    <2>2. mode[m] = "mmap" /\ <<m, n>> \in content[PieceFile(m, n)]
      BY <1>4, <2>1 DEF ContentInv, Intact, ControlInv, MmapInv
    <2>3. PieceFile(m, n) \in Targets(m)
      BY <1>4, <2>2, PieceFileInTargets
    <2>4. QED
      BY <1>4, <2>2, <2>3 DEF PiecesStay
  <1>5. QED
    BY <1>1, <1>2, <1>3, <1>4 DEF ContentInv, Intact

\* Whatever another migration does to its own files, it had opened one of them.
LEMMA OthersStay ==
  ASSUME NEW m \in Migrations, NEW o \in Migrations, o # m,
         \A p \in Targets(m) \ Targets(o) : content'[p] = content[p],
         startPc'[o] \in {"broken", "opened"}, Exclusive(m)'
  PROVE  PiecesStay(m)
  <1>1. Targets(o) \cap Targets(m) = {}
    BY DEF Exclusive, Targets
  <1>2. QED
    BY <1>1 DEF PiecesStay

\* A step that touches no file, and finishes neither a write nor a pull of m,
\* nor opens its files.
LEMMA QuietStep ==
  ASSUME TypeOK, \A m \in Migrations : ControlInv(m), [Next]_vars,
         NEW m \in Migrations, ContentInv(m), UNCHANGED diskVars, NoNewClaim(m)
  PROVE  ContentInv(m)'
  BY PastStays, ExclusiveStays, ContentKept DEF PiecesStay, diskVars

\* No migration but the one that steps has anything new claimed of it.
LEMMA OthersClaimNothing ==
  ASSUME TypeOK, NEW m \in Migrations, NEW o \in Migrations, o # m, MigrationStep(o)
  PROVE  NoNewClaim(m)
  BY OthersSameControl DEF NoNewClaim, SameControl

LEMMA SenderContent ==
  ASSUME TypeOK, \A m \in Migrations : ControlInv(m), [Next]_vars,
         NEW o \in Migrations, SenderStep(o), NEW m \in Migrations, ContentInv(m)
  PROVE  ContentInv(m)'
  <1>1. UNCHANGED diskVars
    BY DEF SenderStep, Sender, CallStart, CallMmap, CallWrite, CallEnd, Return, LoseCall
  <1>2. \A n \in DOMAIN Plan[m] : <<m, n>> \in Requests
    BY RequestPairs
  <1>3. NoNewClaim(m)
    BY <1>2 DEF SenderStep, Sender, CallStart, CallMmap, CallWrite, CallEnd, Return,
                LoseCall, NoNewClaim, TypeOK, handlerVars
  <1>4. QED
    BY <1>1, <1>3, QuietStep

LEMMA EndContent ==
  ASSUME TypeOK, \A m \in Migrations : ControlInv(m), [Next]_vars,
         NEW o \in Migrations, EndHandler(o), NEW m \in Migrations, ContentInv(m)
  PROVE  ContentInv(m)'
  <1>1. UNCHANGED diskVars /\ NoNewClaim(m)
    BY DEF EndHandler, MigrateEndLookup, MigrateEndClose, MigrateEndAnswer, MigrateEndErase,
           NoNewClaim, TypeOK, diskVars
  <1>2. QED
    BY <1>1, QuietStep

LEMMA StartContent ==
  ASSUME TypeOK, \A m \in Migrations : ControlInv(m), [Next]_vars,
         NEW o \in Migrations, StartHandler(o), NEW m \in Migrations, ContentInv(m)
  PROVE  ContentInv(m)'
  <1>1. CASE MigrateStartCheck(o) \/ MigrateStartBefore(o) \/ MigrateStartCallback(o)
    <2>1. UNCHANGED diskVars /\ NoNewClaim(m)
      BY <1>1 DEF MigrateStartCheck, MigrateStartBefore, MigrateStartCallback, NoNewClaim,
                  TypeOK, diskVars
    <2>2. QED
      BY <2>1, QuietStep
  <1>2. CASE MigrateStartOpen(o)
    <2>1. /\ startPc'[o] \in {"broken", "opened"}
          /\ exists \subseteq exists'
          /\ startPc'[o] = "opened" => Targets(o) \subseteq exists'
          /\ bulkPc' = bulkPc /\ writePc' = writePc
      BY <1>2 DEF MigrateStartOpen, Create, TypeOK
    <2>2. PICK P : P \subseteq Targets(o) /\ Create(P)
      BY <1>2, TargetsArePaths DEF MigrateStartOpen
    <2>3. CASE o = m
      <3>1. /\ \A n \in DOMAIN Plan[m] : writePc'[<<m, n>>] = "none"
            /\ bulkPc'[m] = "none"
        <4>1. startPc[m] # "opened" /\ ControlInv(m)
          BY <1>2, <2>3 DEF MigrateStartOpen
        <4>2. sent[m] = 0 /\ bulkPc[m] = "none"
          BY <4>1 DEF ControlInv, StartInv
        <4>3. QED
          BY <4>1, <4>2, <2>1, PlanDomain DEF ControlInv, WriteInv
      <3>2. Targets(m)' = Targets(m)
        BY DEF Targets
      <3>3. QED
        BY <2>1, <2>3, <3>1, <3>2 DEF ContentInv
    <2>4. CASE o # m
      <3>1. NoNewClaim(m)
        BY <2>4, OthersClaimNothing DEF MigrationStep
      <3>2. \A p \in Targets(m) \ Targets(o) : content'[p] = content[p]
        BY <2>2, TargetsArePaths DEF Create
      <3>3. QED
        BY <2>1, <2>4, <3>1, <3>2, OthersStay, ExclusiveStays, PastStays, ContentKept
    <2>5. QED
      BY <2>3, <2>4
  <1>3. QED
    BY <1>1, <1>2 DEF StartHandler

\* Storing to the files of another migration o leaves those of m alone.
LEMMA OthersStore ==
  ASSUME TypeOK, \A m \in Migrations : ControlInv(m), [Next]_vars,
         NEW o \in Migrations, MigrationStep(o), NEW m \in Migrations, o # m, ContentInv(m),
         NEW P, NEW S, P \subseteq Targets(o), Store(o, P, S),
         startPc[o] = "opened", UNCHANGED exists
  PROVE  ContentInv(m)'
  <1>1. NoNewClaim(m)
    BY OthersClaimNothing
  <1>2. \A p \in Targets(m) \ Targets(o) : content'[p] = content[p]
    BY StoreEffect, TargetsArePaths
  <1>3. startPc'[o] = "opened"
    BY PastStays
  <1>4. QED
    BY <1>1, <1>2, <1>3, OthersStay, ExclusiveStays, PastStays, ContentKept

LEMMA MmapContent ==
  ASSUME TypeOK, \A m \in Migrations : ControlInv(m), [Next]_vars,
         NEW o \in Migrations, MmapHandler(o), NEW m \in Migrations, ContentInv(m)
  PROVE  ContentInv(m)'
  <1>1. CASE MigrateMmapLookup(o) \/ MigrateMmapSync(o)
    <2>1. UNCHANGED diskVars /\ NoNewClaim(m)
      BY <1>1 DEF MigrateMmapLookup, MigrateMmapSync, NoNewClaim, TypeOK, diskVars
    <2>2. QED
      BY <2>1, QuietStep
  <1>2. CASE MigrateMmapMap(o) \/ MigrateMmapPull(o)
    <2>1. PICK S : Store(o, Targets(o), S)
      BY <1>2 DEF MigrateMmapMap, MigrateMmapPull
    <2>2. startPc[o] = "opened" /\ mode[o] = "mmap"
      BY <1>2 DEF MigrateMmapMap, MigrateMmapPull, ControlInv, StartInv, MmapInv
    <2>3. UNCHANGED exists
      BY <1>2 DEF MigrateMmapMap, MigrateMmapPull
    <2>4. CASE o # m
      BY <2>1, <2>2, <2>3, <2>4, OthersStore DEF MigrationStep
    <2>5. CASE o = m /\ MigrateMmapMap(o)
      <3>1. NoNewClaim(m) /\ PiecesStay(m)
        BY <2>5, <2>1, StoreEffect, TargetsArePaths
           DEF MigrateMmapMap, NoNewClaim, PiecesStay, TypeOK
      <3>2. QED
        BY <2>3, <3>1, ExclusiveStays, PastStays, ContentKept
    <2>6. CASE o = m /\ MigrateMmapPull(o)
      <3>1. /\ startPc' = startPc /\ writePc' = writePc /\ mode' = mode
            /\ \/ bulkPc'[m] = "short"
               \/ Store(m, Targets(m), {<<m, i>> : i \in PieceNumbers(m)})
        BY <2>6 DEF MigrateMmapPull, TypeOK
      <3>2. CASE bulkPc'[m] = "short"
        <4>1. NoNewClaim(m) /\ PiecesStay(m)
          BY <2>1, <2>6, <3>1, <3>2, StoreEffect, TargetsArePaths DEF NoNewClaim, PiecesStay
        <4>2. QED
          BY <2>3, <4>1, ExclusiveStays, PastStays, ContentKept
      <3>3. CASE Store(m, Targets(m), {<<m, i>> : i \in PieceNumbers(m)})
        <4>1. ASSUME NEW i \in PieceNumbers(m)
              PROVE  <<m, i>> \in content'[PieceFile(m, i)]
          <5>1. PieceFile(m, i) \in Paths \cap Targets(m)
            BY <2>2, <2>6, PieceFileInTargets, TargetsArePaths
          <5>2. QED
            BY <3>3, <5>1, StoreEffect
        <4>2. /\ PieceNumbers(m)' = PieceNumbers(m) /\ Targets(m)' = Targets(m)
              /\ \A i : PieceFile(m, i)' = PieceFile(m, i)
          BY <3>1 DEF PieceNumbers, PieceFile, Targets
        <4>3. QED
          BY <2>2, <2>3, <2>6, <3>1, <4>1, <4>2 DEF ContentInv, Intact
      <3>4. QED
        BY <3>1, <3>2, <3>3
    <2>7. QED
      BY <1>2, <2>4, <2>5, <2>6
  <1>3. QED
    BY <1>1, <1>2 DEF MmapHandler

LEMMA WriteContent ==
  ASSUME TypeOK, \A m \in Migrations : ControlInv(m), [Next]_vars,
         NEW o \in Migrations, NEW n \in DOMAIN Plan[o], WriteHandler(o, n),
         NEW m \in Migrations, ContentInv(m)
  PROVE  ContentInv(m)'
  <1>0. /\ <<o, n>> \in Requests
        /\ \A k \in DOMAIN Plan[m] : <<m, k>> \in Requests
    BY RequestPairs
  <1>1. CASE MigrateWriteLookup(o, n) \/ MigrateWriteAck(o, n)
    <2>1. UNCHANGED diskVars /\ NoNewClaim(m)
      BY <1>0, <1>1 DEF MigrateWriteLookup, MigrateWriteAck, NoNewClaim, TypeOK, diskVars
    <2>2. QED
      BY <2>1, QuietStep
  <1>2. CASE MigrateWriteData(o, n)
    <2>1. writePc[<<o, n>>] = "acked" /\ UNCHANGED exists
      BY <1>2 DEF MigrateWriteData
    <2>2. startPc[o] = "opened" /\ mode[o] # "mmap" /\ InRange(o, n)
      <3>1. StartInv(o) /\ WriteInv(o)
        BY DEF ControlInv
      <3>2. n >= 1 /\ n \in Nat /\ sent[o] \in Nat
        BY PlanDomain DEF TypeOK
      <3>3. InRange(o, n) /\ ~(n > sent[o])
        BY <2>1, <3>1 DEF WriteInv, WriteTaken
      <3>4. sent[o] # 0
        BY <3>2, <3>3
      <3>5. QED
        BY <3>1, <3>3, <3>4 DEF StartInv, WriteInv
    <2>3. PieceFile(o, n) \in Targets(o)
      BY <2>2, PieceFileInTargets
    <2>4. PICK S : /\ Store(o, {PieceFile(o, n)}, S)
                   /\ writePc'[<<o, n>>] = "written" => S = {<<o, n>>}
      BY <1>0, <1>2 DEF MigrateWriteData, TypeOK
    <2>5. CASE o # m
      BY <2>1, <2>2, <2>3, <2>4, <2>5, OthersStore DEF MigrationStep
    <2>6. CASE o = m
      <3>1. /\ startPc' = startPc /\ bulkPc' = bulkPc /\ mode' = mode
            /\ \A k \in DOMAIN Plan[m] : k # n => writePc'[<<m, k>>] = writePc[<<m, k>>]
        BY <1>0, <1>2, <2>6 DEF MigrateWriteData, TypeOK, senderVars
      <3>2. \A i : PieceFile(m, i)' = PieceFile(m, i)
        BY <3>1 DEF PieceFile
      <3>3. ASSUME Exclusive(m)', NEW k \in DOMAIN Plan[m], writePc'[<<m, k>>] = "written"
            PROVE  <<m, k>> \in content'[PieceFile(m, k)]
        <4>1. CASE k = n
          BY <2>3, <2>4, <2>6, <3>3, <4>1, StoreEffect, TargetsArePaths
        <4>2. CASE k # n
          <5>1. writePc[<<m, k>>] = "written" /\ Exclusive(m)
            BY <3>1, <3>3, <4>2, ExclusiveStays
          <5>2. InRange(m, k) /\ <<m, k>> \in content[PieceFile(m, k)]
            BY <2>2, <2>6, <5>1 DEF ContentInv, ControlInv, WriteInv, WriteTaken
          <5>3. PieceFile(m, k) \in Paths
            BY <2>2, <2>6, <5>2, PieceFileInTargets, TargetsArePaths
          <5>4. QED
            BY <2>4, <2>6, <5>2, <5>3, StoreEffect
        <4>3. QED
          BY <4>1, <4>2
      <3>4. bulkPc[m] = "none" /\ Targets(m)' = Targets(m)
        BY <2>2, <2>6 DEF ControlInv, MmapInv, Targets
      <3>5. QED
        BY <2>1, <3>1, <3>2, <3>3, <3>4 DEF ContentInv
    <2>7. QED
      BY <2>5, <2>6
  <1>3. QED
    BY <1>1, <1>2 DEF WriteHandler

LEMMA NextContent ==
  ASSUME TypeOK, \A m \in Migrations : ControlInv(m), \A m \in Migrations : ContentInv(m),
         [Next]_vars
  PROVE  \A m \in Migrations : ContentInv(m)'
  <1> SUFFICES ASSUME NEW m \in Migrations
               PROVE  ContentInv(m)'
    OBVIOUS
  <1>1. CASE Application \/ UNCHANGED vars
    <2>1. UNCHANGED diskVars /\ NoNewClaim(m)
      BY <1>1, ApplicationSameControl DEF Application, RegisterClass, DeregisterClass, vars,
         NoNewClaim, SameControl
    <2>2. QED
      BY <2>1, QuietStep
  <1>2. QED
    BY <1>1, NextCases, SenderContent, StartContent, WriteContent, MmapContent, EndContent

-----------------------------------------------------------------------------
(* Theorems                                                                *)

LEMMA InitIInv == Init => IInv
  <1> SUFFICES ASSUME Init
               PROVE  IInv
    OBVIOUS
  <1>1. \A m \in Migrations : ContentInv(m)
    BY PlanDomain, RequestPairs DEF Init, ContentInv
  <1>2. QED
    BY <1>1, InitTypeOK, InitControl DEF IInv

LEMMA NextIInv == IInv /\ [Next]_vars => IInv'
  BY NextTypeOK, NextControl, NextContent DEF IInv

\* The invariant holds in every reachable state.
THEOREM InvariantHolds == Spec => []IInv
  BY InitIInv, NextIInv, PTL DEF Spec

\* A handler that uses an operation through the bare pointer it read from the
\* map never finds it destroyed by another handler.
THEOREM NoDanglingOpHolds == Spec => []NoDanglingOp
  <1>1. IInv => NoDanglingOp
    BY DEF IInv, ControlInv, OperationInv, NoDanglingOp, UsesOp
  <1>2. QED
    BY <1>1, InvariantHolds, PTL

\* No descriptor is closed under a write that was answered early, nor under a
\* mapping or a transfer.
THEOREM DescriptorsOutliveWritesHolds == Spec => []DescriptorsOutliveWrites
  <1>1. ASSUME IInv, NEW m \in Migrations, NEW n \in DOMAIN Plan[m],
               writePc[<<m, n>>] = "acked"
        PROVE  m_fds[m]
    <2>1. StartInv(m) /\ WriteInv(m) /\ EndInv(m) /\ MutexInv(m) /\ OperationInv(m)
      BY <1>1 DEF IInv, ControlInv
    <2>2. n \in Nat /\ n >= 1 /\ sent[m] \in Nat
      BY <1>1, PlanDomain DEF IInv, TypeOK
    <2>3. sent[m] # 0
      BY <1>1, <2>1, <2>2 DEF WriteInv
    <2>4. endPc[m] \in {"none", "called", "located"}
      BY <1>1, <2>1 DEF OperationInv, Published, IInv, TypeOK
    <2>5. QED
      BY <2>1, <2>3, <2>4 DEF StartInv, OperationInv
  <1>2. ASSUME IInv, NEW m \in Migrations, bulkPc[m] \in {"located", "mapped", "pulled"}
        PROVE  m_fds[m]
    BY <1>2 DEF IInv, ControlInv, StartInv, MmapInv, OperationInv, MmapRuns
  <1>3. IInv => DescriptorsOutliveWrites
    BY <1>1, <1>2 DEF DescriptorsOutliveWrites
  <1>4. QED
    BY <1>3, InvariantHolds, PTL

\* The "after" callback sees the whole fileset.
THEOREM PublishedCompleteHolds == Spec => []PublishedComplete
  <1>1. ASSUME IInv, NEW m \in Migrations, Published(m)
        PROVE  Landed(m) = PieceNumbers(m)
    <2>1. EndInv(m) /\ OperationInv(m)
      BY <1>1 DEF IInv, ControlInv
    <2>2. CASE mode[m] = "mmap"
      BY <1>1, <2>1, <2>2 DEF EndInv, Published, Landed
    <2>3. CASE mode[m] # "mmap"
      <3>1. \A n \in DOMAIN Plan[m] : writePc[<<m, n>>] = "written"
        BY <1>1, <2>1, <2>3 DEF EndInv, OperationInv, Published, WriteTaken
      <3>2. QED
        BY <2>3, <3>1 DEF Landed, PieceNumbers
    <2>4. QED
      BY <2>2, <2>3
  <1>2. IInv => PublishedComplete
    BY <1>1 DEF PublishedComplete
  <1>3. QED
    BY <1>2, InvariantHolds, PTL

\* At most one request of a migration waits behind the one being written.
THEOREM OneBehindHolds == Spec => []OneBehind
  <1>1. ASSUME IInv, NEW m \in Migrations, NEW i \in DOMAIN Plan[m], NEW j \in DOMAIN Plan[m],
               i < j, ~WriteAtRest(writePc[<<m, i>>]), ~WriteAtRest(writePc[<<m, j>>])
        PROVE  j = i + 1 /\ writePc[<<m, i>>] = "acked" /\ writePc[<<m, j>>] # "acked"
    <2>1. WriteInv(m) /\ MutexInv(m) /\ sent[m] \in Nat /\ i \in Nat /\ j \in Nat
      BY <1>1, PlanDomain DEF IInv, ControlInv, TypeOK
    <2>2. /\ writePc[<<m, i>>] \in {"called", "located", "acked"}
          /\ writePc[<<m, j>>] \in {"called", "located", "acked"}
      BY <1>1, RequestPairs DEF IInv, TypeOK, WriteAtRest
    <2>3. i <= sent[m] /\ j <= sent[m]
      BY <2>1, <2>2 DEF WriteInv
    <2>4. writePc[<<m, i>>] = "acked"
      BY <1>1, <2>1, <2>2, <2>3 DEF WriteInv, WriteWaits
    <2>5. i = sent[m] - 1 /\ writePc[<<m, j>>] # "acked"
      BY <1>1, <2>1, <2>3, <2>4 DEF MutexInv
    <2>6. QED
      BY <1>1, <2>1, <2>3, <2>4, <2>5
  <1>2. IInv => OneBehind
    BY <1>1 DEF OneBehind
  <1>3. QED
    BY <1>2, InvariantHolds, PTL

\* A success that was reported is backed by the bytes on the destination.
THEOREM SuccessIsDurableHolds == Spec => []SuccessIsDurable
  <1>1. ASSUME IInv, NEW m \in Migrations, phase[m] = "returned", reply[m] = REMI_SUCCESS,
               Exclusive(m)
        PROVE  Intact(m)
    <2>1. EndInv(m) /\ OperationInv(m) /\ ContentInv(m)
      BY <1>1 DEF IInv, ControlInv
    <2>2. endPc[m] \in {"answered", "erased"}
      BY <1>1, <2>1 DEF EndInv
    <2>3. CASE mode[m] = "mmap"
      BY <1>1, <2>1, <2>2, <2>3 DEF EndInv, ContentInv
    <2>4. CASE mode[m] # "mmap"
      <3>1. \A n \in DOMAIN Plan[m] : writePc[<<m, n>>] = "written"
        BY <2>1, <2>2, <2>4 DEF EndInv, OperationInv, Published, WriteTaken
      <3>2. QED
        BY <1>1, <2>1, <2>4, <3>1 DEF ContentInv, Intact, PieceNumbers
    <2>5. QED
      BY <2>3, <2>4
  <1>2. IInv => SuccessIsDurable
    BY <1>1 DEF SuccessIsDurable
  <1>3. QED
    BY <1>2, InvariantHolds, PTL

\* A call that was answered by migrate_end, or turned away by migrate_start,
\* leaves neither an operation nor an open descriptor.
THEOREM NothingLeftBehindHolds == Spec => []NothingLeftBehind
  <1>1. IInv => NothingLeftBehind
    BY DEF IInv, ControlInv, StartInv, OperationInv, NothingLeftBehind, AtRest
  <1>2. QED
    BY <1>1, InvariantHolds, PTL

-----------------------------------------------------------------------------
(* Files that were there before                                            *)

PreexistingInv == Preexisting \subseteq exists /\ PreexistingUntouched

LEMMA NextPreexisting ==
  ASSUME IInv, PreexistingInv, [Next]_vars
  PROVE  PreexistingInv'
  <1> USE DEF PreexistingInv, PreexistingUntouched
  <1>0. TypeOK
    BY DEF IInv
  <1>1. \A m \in Migrations : Targets(m)' = Targets(m)
    BY DEF Targets
  <1>2. CASE Application \/ UNCHANGED vars
    BY <1>1, <1>2 DEF Application, RegisterClass, DeregisterClass, vars, diskVars, handlerVars
  <1>3. ASSUME NEW o \in Migrations, SenderStep(o)
        PROVE  PreexistingInv'
    BY <1>0, <1>1, <1>3 DEF SenderStep, Sender, CallStart, CallMmap, CallWrite, CallEnd,
       Return, LoseCall, TypeOK, diskVars, handlerVars
  <1>4. ASSUME NEW o \in Migrations, StartHandler(o)
        PROVE  PreexistingInv'
    BY <1>0, <1>1, <1>4 DEF StartHandler, MigrateStartCheck, MigrateStartBefore,
       MigrateStartCallback, MigrateStartOpen, FileExists, Create, TypeOK, diskVars
  <1>5. ASSUME NEW o \in Migrations,
               \/ MmapHandler(o) \/ EndHandler(o)
               \/ \E n \in DOMAIN Plan[o] : WriteHandler(o, n)
        PROVE  PreexistingInv'
    BY <1>1, <1>5 DEF MmapHandler, MigrateMmapLookup, MigrateMmapMap, MigrateMmapPull,
       MigrateMmapSync, EndHandler, MigrateEndLookup, MigrateEndClose, MigrateEndAnswer,
       MigrateEndErase, WriteHandler, MigrateWriteLookup, MigrateWriteAck, MigrateWriteData,
       diskVars
  <1>6. QED
    BY <1>2, <1>3, <1>4, <1>5, NextCases

\* No migration creates a file that was there before any of them.
THEOREM PreexistingUntouchedHolds == Spec => []PreexistingUntouched
  <1>1. Init => PreexistingInv
    BY DEF Init, PreexistingInv, PreexistingUntouched
  <1>2. PreexistingInv => PreexistingUntouched
    BY DEF PreexistingInv
  <1>3. QED
    BY <1>1, <1>2, NextPreexisting, InvariantHolds, PTL DEF Spec

=============================================================================
