-------------------------- MODULE RemiProviderTypes -------------------------
(***************************************************************************)
(* Type correctness of RemiProvider, for all values of its constants: any  *)
(* number of migrations, files, chunks and classes, under any of the       *)
(* transfer methods.                                                       *)
(***************************************************************************)
EXTENDS RemiProviderInvariant, TLAPS

-----------------------------------------------------------------------------
(* The constants                                                           *)

\* The requests of a migration are numbered from one.
LEMMA PlanDomain ==
  ASSUME NEW m \in Migrations
  PROVE  /\ Len(Plan[m]) \in Nat
         /\ DOMAIN Plan[m] = 1..Len(Plan[m])
         /\ DOMAIN Plan[m] \subseteq Nat
  BY ShapeAssumption

\* A pair is a request of its migration, and every request is such a pair.
LEMMA RequestPairs ==
  /\ \A m \in Migrations : \A n \in DOMAIN Plan[m] : <<m, n>> \in Requests
  /\ \A r \in Requests : \E m \in Migrations : \E n \in DOMAIN Plan[m] : r = <<m, n>>
  BY DEF Requests

\* The pieces of a migration are numbered.
LEMMA PieceNumbersNat ==
  ASSUME NEW m \in Migrations
  PROVE  PieceNumbers(m) \subseteq Nat
  <1>1. DOMAIN Sizes[m] = 1..Len(Sizes[m]) /\ Len(Sizes[m]) \in Nat
    BY ShapeAssumption
  <1>2. QED
    BY <1>1, PlanDomain DEF PieceNumbers

-----------------------------------------------------------------------------
(* Type correctness                                                        *)

\* Writing pieces to files keeps the type of content.
LEMMA StoreType ==
  ASSUME NEW m \in Migrations, NEW P, NEW S \in SUBSET (Migrations \X Nat),
         content \in [Paths -> SUBSET (Migrations \X Nat)],
         Store(m, P, S)
  PROVE  content' \in [Paths -> SUBSET (Migrations \X Nat)]
  <1>1. ASSUME NEW p \in Paths
        PROVE  (IF p \in P
                  THEN {q \in content[p] : q[1] = m} \cup {q \in S : PieceFile(m, q[2]) = p}
                  ELSE content[p]) \in SUBSET (Migrations \X Nat)
    <2>1. content[p] \in SUBSET (Migrations \X Nat)
      OBVIOUS
    <2>2. QED
      BY <2>1
  <1>2. QED
    BY <1>1 DEF Store

\* Creating files keeps the type of content.
LEMMA CreateType ==
  ASSUME NEW P, P \subseteq Paths, exists \subseteq Paths,
         content \in [Paths -> SUBSET (Migrations \X Nat)],
         Create(P)
  PROVE  /\ exists' \subseteq Paths
         /\ content' \in [Paths -> SUBSET (Migrations \X Nat)]
  BY DEF Create

\* The targets of a migration are files.
LEMMA TargetsArePaths ==
  ASSUME NEW m \in Migrations
  PROVE  /\ Targets(m) \subseteq Paths
         /\ \A i \in DOMAIN Target[m] : {Target[m][j] : j \in 1..(i - 1)} \subseteq Targets(m)
  <1>1. DOMAIN Target[m] = 1..Len(Target[m]) /\ Len(Target[m]) \in Nat
    BY ShapeAssumption
  <1>2. \A i \in DOMAIN Target[m] : Target[m][i] \in Paths
    BY <1>1, ShapeAssumption
  <1>3. QED
    BY <1>1, <1>2 DEF Targets

\* operator[] keeps the type of the registry.
LEMMA SubscriptType ==
  ASSUME NEW k \in Classes, Subscript(k),
         m_migration_classes
           \in [Classes -> [known : BOOLEAN, before : BOOLEAN, after : BOOLEAN]]
  PROVE  m_migration_classes'
           \in [Classes -> [known : BOOLEAN, before : BOOLEAN, after : BOOLEAN]]
  <1>1. m_migration_classes[k] \in [known : BOOLEAN, before : BOOLEAN, after : BOOLEAN]
    OBVIOUS
  <1>2. [m_migration_classes[k] EXCEPT !.known = TRUE]
          \in [known : BOOLEAN, before : BOOLEAN, after : BOOLEAN]
    BY <1>1
  <1>3. QED
    BY <1>2 DEF Subscript

LEMMA InitTypeOK == Init => TypeOK
  BY ShapeAssumption DEF Init, TypeOK, NoClass, Codes, ReplyCodes

\* The data of requests and the pieces of a pull are pieces of migrations.
LEMMA PiecesType ==
  ASSUME NEW m \in Migrations
  PROVE  /\ \A n \in DOMAIN Plan[m] : {<<m, n>>} \subseteq Migrations \X Nat
         /\ {<<m, i>> : i \in PieceNumbers(m)} \subseteq Migrations \X Nat
  BY PlanDomain, PieceNumbersNat

\* The steps of the sender of m.
SenderStep(m) == CallStart(m) \/ Sender(m) \/ LoseCall(m)

LEMMA SenderTypeOK ==
  ASSUME TypeOK, NEW m \in Migrations, SenderStep(m)
  PROVE  TypeOK'
  <1> USE DEF TypeOK, Respond, Codes, ReplyCodes, vars, senderVars, handlerVars, opVars,
              registryVars, diskVars
  <1>1. CASE CallStart(m)
    BY <1>1 DEF CallStart
  <1>2. CASE CallMmap(m)
    BY <1>2 DEF CallMmap
  <1>3. CASE CallWrite(m)
    <2>1. sent[m] + 1 \in DOMAIN Plan[m]
      BY <1>3, PlanDomain DEF CallWrite
    <2>2. QED
      BY <1>3, <2>1, RequestPairs DEF CallWrite
  <1>4. CASE CallEnd(m)
    BY <1>4 DEF CallEnd
  <1>5. CASE Return(m)
    BY <1>5 DEF Return
  <1>6. CASE LoseCall(m)
    BY <1>6 DEF LoseCall
  <1>7. QED
    BY <1>1, <1>2, <1>3, <1>4, <1>5, <1>6 DEF SenderStep, Sender

LEMMA StartTypeOK ==
  ASSUME TypeOK, NEW m \in Migrations, StartHandler(m)
  PROVE  TypeOK'
  <1> USE DEF TypeOK, Respond, Codes, ReplyCodes, senderVars, handlerVars, opVars,
              registryVars, diskVars
  <1>0. ClassOf[m] \in Classes
    BY ShapeAssumption
  <1>1. CASE MigrateStartCheck(m)
    BY <1>1 DEF MigrateStartCheck
  <1>2. CASE MigrateStartBefore(m)
    BY <1>0, <1>2, SubscriptType DEF MigrateStartBefore
  <1>3. CASE MigrateStartCallback(m)
    BY <1>3 DEF MigrateStartCallback
  <1>4. CASE MigrateStartOpen(m)
    <2>1. PICK P : P \subseteq Paths /\ Create(P)
      BY <1>4, TargetsArePaths DEF MigrateStartOpen
    <2>2. exists' \subseteq Paths /\ content' \in [Paths -> SUBSET (Migrations \X Nat)]
      BY <2>1, CreateType
    <2>3. QED
      BY <1>4, <2>2 DEF MigrateStartOpen
  <1>5. QED
    BY <1>1, <1>2, <1>3, <1>4 DEF StartHandler

LEMMA WriteTypeOK ==
  ASSUME TypeOK, NEW m \in Migrations, NEW n \in DOMAIN Plan[m], WriteHandler(m, n)
  PROVE  TypeOK'
  <1> USE DEF TypeOK, Respond, Codes, ReplyCodes, senderVars, handlerVars, opVars,
              registryVars, diskVars
  <1>0. <<m, n>> \in Requests
    BY RequestPairs
  <1>1. CASE MigrateWriteLookup(m, n)
    BY <1>0, <1>1 DEF MigrateWriteLookup
  <1>2. CASE MigrateWriteAck(m, n)
    <2>1. m_mutex' \in [Migrations -> BOOLEAN] /\ m_op_in_progress' \subseteq Migrations
      BY <1>2 DEF MigrateWriteAck, Lock, Erase
    <2>2. /\ reply' \in [Migrations -> Codes]
          /\ writePc' \in [Requests -> {"none", "called", "located", "acked", "written",
                                        "short", "rejected"}]
      BY <1>0, <1>2 DEF MigrateWriteAck
    <2>3. QED
      BY <1>2, <2>1, <2>2 DEF MigrateWriteAck
  <1>3. CASE MigrateWriteData(m, n)
    <2>1. content' \in [Paths -> SUBSET (Migrations \X Nat)]
      BY <1>3, StoreType, PiecesType DEF MigrateWriteData
    <2>2. QED
      BY <1>0, <1>3, <2>1 DEF MigrateWriteData, Unlock, RecordError
  <1>4. QED
    BY <1>1, <1>2, <1>3 DEF WriteHandler

LEMMA MmapTypeOK ==
  ASSUME TypeOK, NEW m \in Migrations, MmapHandler(m)
  PROVE  TypeOK'
  <1> USE DEF TypeOK, Respond, Codes, ReplyCodes, senderVars, handlerVars, opVars,
              registryVars, diskVars
  <1>1. CASE MigrateMmapLookup(m)
    BY <1>1 DEF MigrateMmapLookup
  <1>2. CASE MigrateMmapMap(m)
    <2>1. content' \in [Paths -> SUBSET (Migrations \X Nat)]
      BY <1>2, StoreType DEF MigrateMmapMap
    <2>2. QED
      BY <1>2, <2>1 DEF MigrateMmapMap, Erase
  <1>3. CASE MigrateMmapPull(m)
    <2>1. content' \in [Paths -> SUBSET (Migrations \X Nat)]
      BY <1>3, StoreType, PiecesType DEF MigrateMmapPull
    <2>2. QED
      BY <1>3, <2>1 DEF MigrateMmapPull
  <1>4. CASE MigrateMmapSync(m)
    BY <1>4 DEF MigrateMmapSync, Erase
  <1>5. QED
    BY <1>1, <1>2, <1>3, <1>4 DEF MmapHandler

LEMMA EndTypeOK ==
  ASSUME TypeOK, NEW m \in Migrations, EndHandler(m)
  PROVE  TypeOK'
  <1> USE DEF TypeOK, Respond, Codes, ReplyCodes, senderVars, handlerVars, opVars,
              registryVars, diskVars
  <1>0. ClassOf[m] \in Classes
    BY ShapeAssumption
  <1>1. CASE MigrateEndLookup(m)
    BY <1>1 DEF MigrateEndLookup
  <1>2. CASE MigrateEndClose(m)
    <2>1. /\ m_migration_classes' = m_migration_classes \/ Subscript(ClassOf[m])
          /\ endPc' \in [Migrations -> {"none", "called", "located", "calling", "silent",
                                        "answered", "erased", "failed"}]
          /\ m_error[m] \in {REMI_SUCCESS, REMI_ERR_IO}
      BY <1>2 DEF MigrateEndClose
    <2>2. m_migration_classes'
            \in [Classes -> [known : BOOLEAN, before : BOOLEAN, after : BOOLEAN]]
      BY <1>0, <2>1, SubscriptType
    <2>3. /\ m_mutex' \in [Migrations -> BOOLEAN] /\ m_fds' \in [Migrations -> BOOLEAN]
          /\ m_op_in_progress' \subseteq Migrations
      BY <1>2 DEF MigrateEndClose, CloseFds, Erase, Lock
    <2>4. reply' \in [Migrations -> Codes]
      BY <1>2, <2>1 DEF MigrateEndClose
    <2>5. QED
      BY <1>2, <2>1, <2>2, <2>3, <2>4 DEF MigrateEndClose
  <1>3. CASE MigrateEndAnswer(m)
    BY <1>3 DEF MigrateEndAnswer, Unlock
  <1>4. CASE MigrateEndErase(m)
    BY <1>4 DEF MigrateEndErase, Erase
  <1>5. QED
    BY <1>1, <1>2, <1>3, <1>4 DEF EndHandler

LEMMA ApplicationTypeOK ==
  ASSUME TypeOK, Application
  PROVE  TypeOK'
  <1> USE DEF TypeOK, senderVars, handlerVars, opVars, registryVars, diskVars
  <1>1. ASSUME NEW k \in Classes, NEW cb \in Callbacks, RegisterClass(k, cb)
        PROVE  TypeOK'
    BY <1>1, ShapeAssumption DEF RegisterClass
  <1>2. ASSUME NEW k \in Classes, DeregisterClass(k)
        PROVE  TypeOK'
    BY <1>2 DEF DeregisterClass, NoClass
  <1>3. QED
    BY <1>1, <1>2 DEF Application

\* Which steps there are.
LEMMA NextCases ==
  ASSUME [Next]_vars
  PROVE  \/ \E m \in Migrations :
              \/ SenderStep(m) \/ StartHandler(m) \/ MmapHandler(m) \/ EndHandler(m)
              \/ \E n \in DOMAIN Plan[m] : WriteHandler(m, n)
         \/ Application
         \/ UNCHANGED vars
  BY DEF Next, SenderStep, Terminated

LEMMA NextTypeOK == TypeOK /\ [Next]_vars => TypeOK'
  <1> SUFFICES ASSUME TypeOK, [Next]_vars
               PROVE  TypeOK'
    OBVIOUS
  <1>1. CASE UNCHANGED vars
    BY <1>1 DEF TypeOK, vars, senderVars, handlerVars, opVars, registryVars, diskVars
  <1>2. QED
    BY <1>1, NextCases, SenderTypeOK, StartTypeOK, WriteTypeOK, MmapTypeOK, EndTypeOK,
       ApplicationTypeOK

\* Every variable has its type in every reachable state.
THEOREM TypeCorrect == Spec => []TypeOK
  BY InitTypeOK, NextTypeOK, PTL DEF Spec
=============================================================================
