------------------------- MODULE RemiProviderControl ------------------------
(***************************************************************************)
(* The control part of the invariant of RemiProvider is inductive.  The    *)
(* migrations do not disturb each other's control state, so a step matters *)
(* to its own migration only.                                              *)
(***************************************************************************)
EXTENDS RemiProviderTypes

-----------------------------------------------------------------------------
(* The invariant on control                                                *)

\* A step of the sender or of a handler of m.
MigrationStep(m) ==
  \/ SenderStep(m) \/ StartHandler(m) \/ MmapHandler(m) \/ EndHandler(m)
  \/ \E n \in DOMAIN Plan[m] : WriteHandler(m, n)

\* Nothing that ControlInv(m) speaks of has changed.
SameControl(m) ==
  /\ mode'[m] = mode[m] /\ phase'[m] = phase[m] /\ sent'[m] = sent[m] /\ reply'[m] = reply[m]
  /\ startPc'[m] = startPc[m] /\ bulkPc'[m] = bulkPc[m] /\ endPc'[m] = endPc[m]
  /\ \A n \in DOMAIN Plan[m] : writePc'[<<m, n>>] = writePc[<<m, n>>]
  /\ m \in m_op_in_progress' <=> m \in m_op_in_progress
  /\ m_mutex'[m] = m_mutex[m] /\ m_error'[m] = m_error[m] /\ m_fds'[m] = m_fds[m]

LEMMA SameControlInv ==
  ASSUME TypeOK, NEW m \in Migrations, ControlInv(m), SameControl(m)
  PROVE  ControlInv(m)'
  <1> USE DEF SameControl, StartRuns, WriteWaits, WriteTaken, MmapRuns, EndRuns
  <1>0. DOMAIN Plan[m] = 1..Len(Plan[m]) /\ Len(Plan[m]) \in Nat
    BY PlanDomain
  <1>1. StartInv(m)'
    BY DEF ControlInv, StartInv
  <1>a. sent[m] \in Nat /\ (HasError(m)' <=> HasError(m))
    BY DEF TypeOK, HasError
  <1>b. \A n \in DOMAIN Plan[m] : InRange(m, n)' <=> InRange(m, n)
    BY DEF InRange
  <1>2. WriteInv(m)'
    <2>1. WriteInv(m)
      BY DEF ControlInv
    <2>2. \A n \in DOMAIN Plan[m] :
            /\ writePc'[<<m, n>>] = "none" <=> n > sent'[m]
            /\ WriteWaits(m, n)' =>
                 n = sent'[m] /\ phase'[m] \in {"write", "lost"} /\ reply'[m] = "PENDING"
            /\ WriteTaken(m, n)' => InRange(m, n)'
            /\ writePc'[<<m, n>>] = "short" => HasError(m)'
      BY <1>a, <1>b, <2>1 DEF WriteInv
    <2>3. phase[m] = "write" => sent[m] \in DOMAIN Plan[m]
      BY <1>0, <1>a, <2>1 DEF WriteInv
    <2>4. phase'[m] = "write" =>
            /\ mode'[m] # "mmap" /\ endPc'[m] = "none" /\ sent'[m] > 0
            /\ reply'[m] = "PENDING" => WriteWaits(m, sent[m])'
            /\ reply'[m] = REMI_SUCCESS => WriteTaken(m, sent[m])'
      BY <2>1, <2>3 DEF WriteInv
    <2>5. QED
      BY <2>1, <2>2, <2>4 DEF WriteInv
  <1>3. MmapInv(m)'
    BY DEF ControlInv, MmapInv
  <1>4. EndInv(m)'
    BY DEF ControlInv, EndInv
  <1>5. MutexInv(m)'
    <2>1. MutexInv(m) /\ WriteInv(m)
      BY DEF ControlInv
    <2>2. sent[m] \in DOMAIN Plan[m] \/ sent[m] = 0
      BY <1>0, <1>a, <2>1 DEF WriteInv
    <2>3. QED
      BY <1>0, <1>a, <2>1, <2>2 DEF MutexInv, WriteInv
  <1>6. OperationInv(m)'
    <2>1. OperationInv(m) /\ WriteInv(m)
      BY DEF ControlInv
    <2>2. sent[m] \in DOMAIN Plan[m] \/ sent[m] = 0
      BY <1>0, <1>a, <2>1 DEF WriteInv
    <2>3. QED
      BY <1>a, <2>1, <2>2 DEF OperationInv, Published
  <1>7. QED
    BY <1>1, <1>2, <1>3, <1>4, <1>5, <1>6 DEF ControlInv

\* The migrations do not touch each other's control state.
LEMMA OthersSameControl ==
  ASSUME TypeOK, NEW m \in Migrations, NEW o \in Migrations, o # m, MigrationStep(o)
  PROVE  SameControl(m)
  <1> USE DEF TypeOK, SameControl, Respond, vars, senderVars, handlerVars, opVars
  <1>0. \A n \in DOMAIN Plan[m] : <<m, n>> \in Requests
    BY RequestPairs
  <1>1. CASE SenderStep(o)
    BY <1>0, <1>1 DEF SenderStep, CallStart, Sender, CallMmap, CallWrite, CallEnd, Return,
                      LoseCall
  <1>2. CASE StartHandler(o)
    BY <1>0, <1>2 DEF StartHandler, MigrateStartCheck, MigrateStartBefore,
                      MigrateStartCallback, MigrateStartOpen
  <1>3. CASE MmapHandler(o)
    BY <1>0, <1>3 DEF MmapHandler, MigrateMmapLookup, MigrateMmapMap, MigrateMmapPull,
                      MigrateMmapSync, Erase
  <1>4. CASE EndHandler(o)
    BY <1>0, <1>4 DEF EndHandler, MigrateEndLookup, MigrateEndClose, MigrateEndAnswer,
                      MigrateEndErase, Erase, Lock, Unlock, CloseFds
  <1>5. ASSUME NEW n \in DOMAIN Plan[o], WriteHandler(o, n)
        PROVE  SameControl(m)
    BY <1>0, <1>5 DEF WriteHandler, MigrateWriteLookup, MigrateWriteAck, MigrateWriteData,
                      Erase, Lock, Unlock, RecordError
  <1>6. QED
    BY <1>1, <1>2, <1>3, <1>4, <1>5 DEF MigrationStep

\* Nor does the application.
LEMMA ApplicationSameControl ==
  ASSUME NEW m \in Migrations, Application \/ UNCHANGED vars
  PROVE  SameControl(m)
  BY DEF Application, RegisterClass, DeregisterClass, SameControl, vars, senderVars,
         handlerVars, opVars


-----------------------------------------------------------------------------
(* Each action preserves the invariant on control of its own migration: the *)
(* first step says what the action does to the state of m, the others follow *)
(* from it without the definition of the action.                            *)

SamePlace(m) == mode'[m] = mode[m] /\ phase'[m] = phase[m] /\ sent'[m] = sent[m]
SameWrites(m) == \A k \in DOMAIN Plan[m] : writePc'[<<m, k>>] = writePc[<<m, k>>]
OtherWritesSame(m, n) ==
  \A k \in DOMAIN Plan[m] : k # n => writePc'[<<m, k>>] = writePc[<<m, k>>]
SameStart(m) == startPc'[m] = startPc[m]
SameMmap(m) == bulkPc'[m] = bulkPc[m]
SameEnd(m) == endPc'[m] = endPc[m]
SameInMap(m) == m \in m_op_in_progress' <=> m \in m_op_in_progress
SameMutex(m) == m_mutex'[m] = m_mutex[m]
SameFds(m) == m_fds'[m] = m_fds[m]
SameError(m) == m_error'[m] = m_error[m]
SameOp(m) == SameInMap(m) /\ SameMutex(m) /\ SameError(m) /\ SameFds(m)
SameReply(m) == reply'[m] = reply[m]
SaysYes(m) == reply'[m] = REMI_SUCCESS
SaysNo(m) == reply'[m] \notin {"PENDING", REMI_SUCCESS}

Parts(m) ==
  /\ StartInv(m) /\ WriteInv(m) /\ MmapInv(m)
  /\ EndInv(m) /\ MutexInv(m) /\ OperationInv(m)

LEMMA CallStartControl ==
  ASSUME TypeOK, NEW m \in Migrations, ControlInv(m), CallStart(m)
  PROVE  ControlInv(m)'
  <1> USE DEF SamePlace, SameWrites, OtherWritesSame, SameStart, SameMmap, SameEnd, SameInMap,
              SameMutex, SameFds, SameError, SameOp, SameReply, SaysYes, SaysNo
  <1>0. /\ DOMAIN Plan[m] = 1..Len(Plan[m]) /\ Len(Plan[m]) \in Nat /\ sent[m] \in Nat
        /\ \A k \in DOMAIN Plan[m] : <<m, k>> \in Requests
    BY PlanDomain, RequestPairs DEF TypeOK
  <1>1. /\ phase[m] = "idle" /\ phase'[m] = "start" /\ startPc'[m] = "called"
        /\ mode'[m] = mode[m] /\ sent'[m] = sent[m] /\ SameReply(m)
        /\ SameWrites(m) /\ SameMmap(m) /\ SameEnd(m) /\ SameOp(m)
    BY DEF TypeOK, opVars, CallStart
  <1>2. Parts(m) /\ REMI_SUCCESS # "PENDING"
    BY DEF ControlInv, Parts, REMI_SUCCESS
  <1>3. StartInv(m)'
    BY <1>1, <1>2 DEF StartInv, StartRuns, Parts
  <1>4. WriteInv(m)'
    BY <1>1, <1>2 DEF StartInv, WriteInv, WriteWaits, WriteTaken, Parts
  <1>5. MmapInv(m)'
    BY <1>1, <1>2 DEF MmapInv, MmapRuns, Parts
  <1>6. EndInv(m)'
    BY <1>1, <1>2 DEF EndInv, EndRuns, Parts
  <1>7. MutexInv(m)'
    BY <1>0, <1>1, <1>2 DEF WriteInv, MutexInv, WriteWaits, Parts
  <1>8. OperationInv(m)'
    BY <1>1, <1>2 DEF OperationInv, Published, Parts
  <1>9. QED
    BY <1>3, <1>4, <1>5, <1>6, <1>7, <1>8 DEF ControlInv

LEMMA CallMmapControl ==
  ASSUME TypeOK, NEW m \in Migrations, ControlInv(m), CallMmap(m)
  PROVE  ControlInv(m)'
  <1> USE DEF SamePlace, SameWrites, OtherWritesSame, SameStart, SameMmap, SameEnd, SameInMap,
              SameMutex, SameFds, SameError, SameOp, SameReply, SaysYes, SaysNo
  <1>0. /\ DOMAIN Plan[m] = 1..Len(Plan[m]) /\ Len(Plan[m]) \in Nat /\ sent[m] \in Nat
        /\ \A k \in DOMAIN Plan[m] : <<m, k>> \in Requests
    BY PlanDomain, RequestPairs DEF TypeOK
  <1>1. /\ phase[m] = "start" /\ reply[m] = REMI_SUCCESS /\ mode[m] = "mmap"
        /\ phase'[m] = "mmap" /\ bulkPc'[m] = "called" /\ reply'[m] = "PENDING"
        /\ mode'[m] = mode[m] /\ sent'[m] = sent[m]
        /\ SameStart(m) /\ SameWrites(m) /\ SameEnd(m) /\ SameOp(m)
    BY DEF TypeOK, Respond, opVars, CallMmap
  <1>2. Parts(m) /\ REMI_SUCCESS # "PENDING"
    BY DEF ControlInv, Parts, REMI_SUCCESS
  <1>3. StartInv(m)'
    BY <1>1, <1>2 DEF StartInv, StartRuns, Parts
  <1>4. WriteInv(m)'
    BY <1>1, <1>2 DEF WriteInv, WriteWaits, WriteTaken, Parts
  <1>5. MmapInv(m)'
    BY <1>1, <1>2 DEF StartInv, MmapInv, MmapRuns, Parts
  <1>6. EndInv(m)'
    BY <1>1, <1>2 DEF EndInv, EndRuns, Parts
  <1>7. MutexInv(m)'
    BY <1>1, <1>2 DEF WriteInv, MutexInv, Parts
  <1>8. OperationInv(m)'
    BY <1>1, <1>2 DEF StartInv, OperationInv, Published, Parts
  <1>9. QED
    BY <1>3, <1>4, <1>5, <1>6, <1>7, <1>8 DEF ControlInv

LEMMA CallWriteControl ==
  ASSUME TypeOK, NEW m \in Migrations, ControlInv(m), CallWrite(m)
  PROVE  ControlInv(m)'
  <1> USE DEF SamePlace, SameWrites, OtherWritesSame, SameStart, SameMmap, SameEnd, SameInMap,
              SameMutex, SameFds, SameError, SameOp, SameReply, SaysYes, SaysNo
  <1>0. /\ DOMAIN Plan[m] = 1..Len(Plan[m]) /\ Len(Plan[m]) \in Nat /\ sent[m] \in Nat
        /\ \A k \in DOMAIN Plan[m] : <<m, k>> \in Requests
    BY PlanDomain, RequestPairs DEF TypeOK
  <1>w. sent[m] + 1 \in DOMAIN Plan[m]
    BY <1>0 DEF CallWrite, TypeOK
  <1>1. /\ mode[m] # "mmap" /\ sent[m] < Len(Plan[m])
        /\ \/ phase[m] = "start" /\ reply[m] = REMI_SUCCESS
           \/ phase[m] = "write" /\ reply[m] # "PENDING"
        /\ mode'[m] = mode[m] /\ phase'[m] = "write" /\ sent'[m] = sent[m] + 1
        /\ reply'[m] = "PENDING"
        /\ writePc'[<<m, sent[m] + 1>>] = "called" /\ OtherWritesSame(m, sent[m] + 1)
        /\ SameStart(m) /\ SameMmap(m) /\ SameEnd(m) /\ SameOp(m)
    BY <1>0, <1>w DEF TypeOK, Respond, opVars, CallWrite, NextChunk
  <1>2. Parts(m) /\ REMI_SUCCESS # "PENDING"
    BY DEF ControlInv, Parts, REMI_SUCCESS
  <1>3. StartInv(m)'
    BY <1>1, <1>2 DEF StartInv, StartRuns, Parts
  <1>4. WriteInv(m)'
    BY <1>0, <1>1, <1>2 DEF StartInv, WriteInv, MutexInv, OperationInv, WriteWaits,
       WriteTaken, HasError, Parts
  <1>5. MmapInv(m)'
    BY <1>1, <1>2 DEF MmapInv, MmapRuns, Parts
  <1>6. EndInv(m)'
    BY <1>1, <1>2 DEF EndInv, EndRuns, Parts
  <1>7. MutexInv(m)'
    BY <1>0, <1>1, <1>2 DEF StartInv, WriteInv, MmapInv, MutexInv, OperationInv, Published,
       WriteWaits, WriteTaken, MmapRuns, Parts
  <1>8. OperationInv(m)'
    <2>1. startPc[m] = "opened" /\ endPc[m] = "none"
      BY <1>1, <1>2 DEF Parts, StartInv, WriteInv
    <2>2. writePc[<<m, sent[m] + 1>>] = "none"
      BY <1>0, <1>w, <1>2 DEF Parts, WriteInv
    <2>3. ASSUME NEW k \in DOMAIN Plan[m], writePc'[<<m, k>>] = "rejected"
          PROVE  /\ m \notin m_op_in_progress'
                 /\ \A j \in DOMAIN Plan[m] :
                      j > k => writePc'[<<m, j>>] \in {"none", "called", "rejected"}
      BY <1>0, <1>w, <1>1, <1>2, <2>2, <2>3 DEF Parts, OperationInv
    <2>4. ASSUME NEW k \in DOMAIN Plan[m], writePc'[<<m, k>>] \in {"located", "acked"}
          PROVE  m \in m_op_in_progress'
      BY <1>0, <1>w, <1>1, <1>2, <2>4 DEF Parts, OperationInv
    <2>5. sent'[m] > 0 /\ writePc'[<<m, sent'[m]>>] = "called"
      BY <1>0, <1>1
    <2>6. QED
      BY <1>1, <1>2, <2>1, <2>3, <2>4, <2>5 DEF Parts, OperationInv, Published
  <1>9. QED
    BY <1>3, <1>4, <1>5, <1>6, <1>7, <1>8 DEF ControlInv

LEMMA CallEndControl ==
  ASSUME TypeOK, NEW m \in Migrations, ControlInv(m), CallEnd(m)
  PROVE  ControlInv(m)'
  <1> USE DEF SamePlace, SameWrites, OtherWritesSame, SameStart, SameMmap, SameEnd, SameInMap,
              SameMutex, SameFds, SameError, SameOp, SameReply, SaysYes, SaysNo
  <1>0. /\ DOMAIN Plan[m] = 1..Len(Plan[m]) /\ Len(Plan[m]) \in Nat /\ sent[m] \in Nat
        /\ \A k \in DOMAIN Plan[m] : <<m, k>> \in Requests
    BY PlanDomain, RequestPairs DEF TypeOK
  <1>1. /\ reply[m] = REMI_SUCCESS
        /\ \/ phase[m] = "mmap"
           \/ phase[m] \in {"start", "write"} /\ mode[m] # "mmap" /\ sent[m] = Len(Plan[m])
        /\ phase'[m] = "end" /\ endPc'[m] = "called" /\ reply'[m] = "PENDING"
        /\ mode'[m] = mode[m] /\ sent'[m] = sent[m]
        /\ SameStart(m) /\ SameWrites(m) /\ SameMmap(m) /\ SameOp(m)
    BY DEF TypeOK, Respond, opVars, CallEnd
  <1>2. Parts(m) /\ REMI_SUCCESS # "PENDING"
    BY DEF ControlInv, Parts, REMI_SUCCESS
  <1>3. StartInv(m)'
    BY <1>1, <1>2 DEF StartInv, StartRuns, Parts
  <1>4. WriteInv(m)'
    BY <1>1, <1>2 DEF WriteInv, WriteWaits, WriteTaken, HasError, Parts
  <1>5. MmapInv(m)'
    BY <1>1, <1>2 DEF MmapInv, MmapRuns, Parts
  <1>a. ASSUME mode[m] # "mmap", NEW n \in DOMAIN Plan[m]
        PROVE  WriteTaken(m, n)
    <2>1. sent[m] \in DOMAIN Plan[m] /\ n <= sent[m] /\ phase[m] \in {"start", "write"}
      BY <1>0, <1>1, <1>2, <1>a DEF Parts, MmapInv
    <2>2. WriteTaken(m, sent[m])
      BY <1>1, <1>2, <2>1 DEF Parts, StartInv, WriteInv
    <2>3. writePc[<<m, n>>] # "none" /\ ~WriteWaits(m, n)
      BY <1>0, <1>2, <2>1, <1>1 DEF Parts, WriteInv, WriteWaits
    <2>4. writePc[<<m, n>>] # "rejected"
      BY <1>0, <1>2, <2>1, <2>2 DEF Parts, OperationInv, WriteTaken
    <2>5. QED
      BY <1>0, <2>3, <2>4 DEF TypeOK, WriteWaits, WriteTaken
  <1>6. EndInv(m)'
    BY <1>1, <1>2, <1>a DEF MmapInv, EndInv, WriteTaken, EndRuns, Parts
  <1>7. MutexInv(m)'
    BY <1>0, <1>1, <1>2 DEF WriteInv, MutexInv, WriteWaits, Parts
  <1>8. OperationInv(m)'
    BY <1>1, <1>2 DEF StartInv, WriteInv, MmapInv, OperationInv, Published, WriteTaken,
       Parts
  <1>9. QED
    BY <1>3, <1>4, <1>5, <1>6, <1>7, <1>8 DEF ControlInv

LEMMA ReturnControl ==
  ASSUME TypeOK, NEW m \in Migrations, ControlInv(m), Return(m)
  PROVE  ControlInv(m)'
  <1> USE DEF SamePlace, SameWrites, OtherWritesSame, SameStart, SameMmap, SameEnd, SameInMap,
              SameMutex, SameFds, SameError, SameOp, SameReply, SaysYes, SaysNo
  <1>0. /\ DOMAIN Plan[m] = 1..Len(Plan[m]) /\ Len(Plan[m]) \in Nat /\ sent[m] \in Nat
        /\ \A k \in DOMAIN Plan[m] : <<m, k>> \in Requests
    BY PlanDomain, RequestPairs DEF TypeOK
  <1>1. /\ reply[m] # "PENDING"
        /\ \/ phase[m] \in {"start", "mmap", "write"} /\ reply[m] # REMI_SUCCESS
           \/ phase[m] = "end"
        /\ mode'[m] = mode[m] /\ phase'[m] = "returned" /\ sent'[m] = sent[m] /\ SameReply(m)
        /\ SameStart(m) /\ SameWrites(m) /\ SameMmap(m) /\ SameEnd(m) /\ SameOp(m)
    BY DEF TypeOK, handlerVars, opVars, Return
  <1>2. Parts(m) /\ REMI_SUCCESS # "PENDING"
    BY DEF ControlInv, Parts, REMI_SUCCESS
  <1>3. StartInv(m)'
    BY <1>1, <1>2 DEF StartInv, StartRuns, Parts
  <1>4. WriteInv(m)'
    BY <1>1, <1>2 DEF WriteInv, WriteWaits, WriteTaken, HasError, Parts
  <1>5. MmapInv(m)'
    BY <1>1, <1>2 DEF MmapInv, MmapRuns, Parts
  <1>6. EndInv(m)'
    BY <1>1, <1>2 DEF EndInv, WriteTaken, EndRuns, Parts
  <1>7. MutexInv(m)'
    BY <1>0, <1>1, <1>2 DEF WriteInv, MutexInv, WriteWaits, Parts
  <1>8. OperationInv(m)'
    BY <1>0, <1>1, <1>2 DEF WriteInv, OperationInv, Published, Parts
  <1>9. QED
    BY <1>3, <1>4, <1>5, <1>6, <1>7, <1>8 DEF ControlInv

LEMMA LoseCallControl ==
  ASSUME TypeOK, NEW m \in Migrations, ControlInv(m), LoseCall(m)
  PROVE  ControlInv(m)'
  <1> USE DEF SamePlace, SameWrites, OtherWritesSame, SameStart, SameMmap, SameEnd, SameInMap,
              SameMutex, SameFds, SameError, SameOp, SameReply, SaysYes, SaysNo
  <1>0. /\ DOMAIN Plan[m] = 1..Len(Plan[m]) /\ Len(Plan[m]) \in Nat /\ sent[m] \in Nat
        /\ \A k \in DOMAIN Plan[m] : <<m, k>> \in Requests
    BY PlanDomain, RequestPairs DEF TypeOK
  <1>1. /\ phase[m] \in {"start", "mmap", "write", "end"} /\ phase'[m] = "lost"
        /\ mode'[m] = mode[m] /\ sent'[m] = sent[m] /\ SameReply(m)
        /\ SameStart(m) /\ SameWrites(m) /\ SameMmap(m) /\ SameEnd(m) /\ SameOp(m)
    BY DEF TypeOK, handlerVars, opVars, LoseCall
  <1>2. Parts(m) /\ REMI_SUCCESS # "PENDING"
    BY DEF ControlInv, Parts, REMI_SUCCESS
  <1>3. StartInv(m)'
    BY <1>1, <1>2 DEF StartInv, StartRuns, Parts
  <1>4. WriteInv(m)'
    BY <1>1, <1>2 DEF WriteInv, WriteWaits, WriteTaken, HasError, Parts
  <1>5. MmapInv(m)'
    BY <1>1, <1>2 DEF MmapInv, MmapRuns, Parts
  <1>6. EndInv(m)'
    BY <1>1, <1>2 DEF EndInv, WriteTaken, EndRuns, Parts
  <1>7. MutexInv(m)'
    BY <1>0, <1>1, <1>2 DEF WriteInv, MutexInv, WriteWaits, Parts
  <1>8. OperationInv(m)'
    BY <1>0, <1>1, <1>2 DEF WriteInv, MutexInv, OperationInv, Published, Parts
  <1>9. QED
    BY <1>3, <1>4, <1>5, <1>6, <1>7, <1>8 DEF ControlInv

LEMMA MigrateStartCheckControl ==
  ASSUME TypeOK, NEW m \in Migrations, ControlInv(m), MigrateStartCheck(m)
  PROVE  ControlInv(m)'
  <1> USE DEF SamePlace, SameWrites, OtherWritesSame, SameStart, SameMmap, SameEnd, SameInMap,
              SameMutex, SameFds, SameError, SameOp, SameReply, SaysYes, SaysNo
  <1>0. /\ DOMAIN Plan[m] = 1..Len(Plan[m]) /\ Len(Plan[m]) \in Nat /\ sent[m] \in Nat
        /\ \A k \in DOMAIN Plan[m] : <<m, k>> \in Requests
    BY PlanDomain, RequestPairs DEF TypeOK
  <1>1. /\ startPc[m] = "called" /\ SamePlace(m)
        /\ \/ startPc'[m] = "rejected" /\ SaysNo(m)
           \/ startPc'[m] = "checked" /\ SameReply(m)
        /\ SameWrites(m) /\ SameMmap(m) /\ SameEnd(m) /\ SameOp(m)
    BY DEF TypeOK, Respond, opVars, MigrateStartCheck, REMI_SUCCESS, REMI_ERR_UNKNOWN_CLASS,
       REMI_ERR_FILE_EXISTS
  <1>2. Parts(m) /\ REMI_SUCCESS # "PENDING"
    BY DEF ControlInv, Parts, REMI_SUCCESS
  <1>3. StartInv(m)'
    BY <1>1, <1>2 DEF StartInv, StartRuns, Parts
  <1>4. WriteInv(m)'
    BY <1>1, <1>2 DEF StartInv, WriteInv, WriteWaits, WriteTaken, Parts
  <1>5. MmapInv(m)'
    BY <1>1, <1>2 DEF StartInv, MmapInv, MmapRuns, Parts
  <1>6. EndInv(m)'
    BY <1>1, <1>2 DEF StartInv, EndInv, EndRuns, Parts
  <1>7. MutexInv(m)'
    BY <1>0, <1>1, <1>2 DEF WriteInv, MutexInv, WriteWaits, Parts
  <1>8. OperationInv(m)'
    BY <1>1, <1>2 DEF OperationInv, Published, Parts
  <1>9. QED
    BY <1>3, <1>4, <1>5, <1>6, <1>7, <1>8 DEF ControlInv

LEMMA MigrateStartBeforeControl ==
  ASSUME TypeOK, NEW m \in Migrations, ControlInv(m), MigrateStartBefore(m)
  PROVE  ControlInv(m)'
  <1> USE DEF SamePlace, SameWrites, OtherWritesSame, SameStart, SameMmap, SameEnd, SameInMap,
              SameMutex, SameFds, SameError, SameOp, SameReply, SaysYes, SaysNo
  <1>0. /\ DOMAIN Plan[m] = 1..Len(Plan[m]) /\ Len(Plan[m]) \in Nat /\ sent[m] \in Nat
        /\ \A k \in DOMAIN Plan[m] : <<m, k>> \in Requests
    BY PlanDomain, RequestPairs DEF TypeOK
  <1>1. /\ startPc[m] = "checked" /\ SamePlace(m)
        /\ \/ startPc'[m] = "rejected" /\ SaysNo(m)
           \/ startPc'[m] = "calling" /\ SameReply(m)
        /\ SameWrites(m) /\ SameMmap(m) /\ SameEnd(m) /\ SameOp(m)
    BY DEF TypeOK, Respond, opVars, MigrateStartBefore, REMI_SUCCESS, REMI_ERR_USER
  <1>2. Parts(m) /\ REMI_SUCCESS # "PENDING"
    BY DEF ControlInv, Parts, REMI_SUCCESS
  <1>3. StartInv(m)'
    BY <1>1, <1>2 DEF StartInv, StartRuns, Parts
  <1>4. WriteInv(m)'
    BY <1>1, <1>2 DEF StartInv, WriteInv, WriteWaits, WriteTaken, Parts
  <1>5. MmapInv(m)'
    BY <1>1, <1>2 DEF StartInv, MmapInv, MmapRuns, Parts
  <1>6. EndInv(m)'
    BY <1>1, <1>2 DEF StartInv, EndInv, EndRuns, Parts
  <1>7. MutexInv(m)'
    BY <1>0, <1>1, <1>2 DEF WriteInv, MutexInv, WriteWaits, Parts
  <1>8. OperationInv(m)'
    BY <1>1, <1>2 DEF OperationInv, Published, Parts
  <1>9. QED
    BY <1>3, <1>4, <1>5, <1>6, <1>7, <1>8 DEF ControlInv

LEMMA MigrateStartCallbackControl ==
  ASSUME TypeOK, NEW m \in Migrations, ControlInv(m), MigrateStartCallback(m)
  PROVE  ControlInv(m)'
  <1> USE DEF SamePlace, SameWrites, OtherWritesSame, SameStart, SameMmap, SameEnd, SameInMap,
              SameMutex, SameFds, SameError, SameOp, SameReply, SaysYes, SaysNo
  <1>0. /\ DOMAIN Plan[m] = 1..Len(Plan[m]) /\ Len(Plan[m]) \in Nat /\ sent[m] \in Nat
        /\ \A k \in DOMAIN Plan[m] : <<m, k>> \in Requests
    BY PlanDomain, RequestPairs DEF TypeOK
  <1>1. /\ startPc[m] = "calling" /\ SamePlace(m)
        /\ \/ startPc'[m] = "refused" /\ SaysNo(m)
           \/ startPc'[m] = "accepted" /\ SameReply(m)
        /\ SameWrites(m) /\ SameMmap(m) /\ SameEnd(m) /\ SameOp(m)
    BY DEF TypeOK, Respond, opVars, MigrateStartCallback, REMI_SUCCESS, REMI_ERR_USER
  <1>2. Parts(m) /\ REMI_SUCCESS # "PENDING"
    BY DEF ControlInv, Parts, REMI_SUCCESS
  <1>3. StartInv(m)'
    BY <1>1, <1>2 DEF StartInv, StartRuns, Parts
  <1>4. WriteInv(m)'
    BY <1>1, <1>2 DEF StartInv, WriteInv, WriteWaits, WriteTaken, Parts
  <1>5. MmapInv(m)'
    BY <1>1, <1>2 DEF StartInv, MmapInv, MmapRuns, Parts
  <1>6. EndInv(m)'
    BY <1>1, <1>2 DEF StartInv, EndInv, EndRuns, Parts
  <1>7. MutexInv(m)'
    BY <1>0, <1>1, <1>2 DEF WriteInv, MutexInv, WriteWaits, Parts
  <1>8. OperationInv(m)'
    BY <1>1, <1>2 DEF OperationInv, Published, Parts
  <1>9. QED
    BY <1>3, <1>4, <1>5, <1>6, <1>7, <1>8 DEF ControlInv

LEMMA MigrateStartOpenControl ==
  ASSUME TypeOK, NEW m \in Migrations, ControlInv(m), MigrateStartOpen(m)
  PROVE  ControlInv(m)'
  <1> USE DEF SamePlace, SameWrites, OtherWritesSame, SameStart, SameMmap, SameEnd, SameInMap,
              SameMutex, SameFds, SameError, SameOp, SameReply, SaysYes, SaysNo
  <1>0. /\ DOMAIN Plan[m] = 1..Len(Plan[m]) /\ Len(Plan[m]) \in Nat /\ sent[m] \in Nat
        /\ \A k \in DOMAIN Plan[m] : <<m, k>> \in Requests
    BY PlanDomain, RequestPairs DEF TypeOK
  <1>1. /\ startPc[m] = "accepted" /\ SamePlace(m)
        /\ \/ startPc'[m] = "opened" /\ SaysYes(m) /\ m \in m_op_in_progress' /\ m_fds'[m]
           \/ startPc'[m] = "broken" /\ SaysNo(m) /\ SameInMap(m) /\ SameFds(m)
        /\ SameWrites(m) /\ SameMmap(m) /\ SameEnd(m) /\ SameMutex(m) /\ SameError(m)
    BY DEF TypeOK, Respond, MigrateStartOpen, REMI_SUCCESS, REMI_ERR_IO
  <1>2. Parts(m) /\ REMI_SUCCESS # "PENDING"
    BY DEF ControlInv, Parts, REMI_SUCCESS
  <1>3. StartInv(m)'
    BY <1>1, <1>2 DEF StartInv, StartRuns, Parts
  <1>4. WriteInv(m)'
    BY <1>1, <1>2 DEF StartInv, WriteInv, WriteWaits, WriteTaken, Parts
  <1>5. MmapInv(m)'
    BY <1>1, <1>2 DEF StartInv, MmapInv, MmapRuns, Parts
  <1>6. EndInv(m)'
    BY <1>1, <1>2 DEF StartInv, EndInv, StartRuns, EndRuns, Parts
  <1>7. MutexInv(m)'
    BY <1>0, <1>1, <1>2 DEF WriteInv, MutexInv, WriteWaits, Parts
  <1>8. OperationInv(m)'
    BY <1>1, <1>2 DEF StartInv, WriteInv, OperationInv, Parts
  <1>9. QED
    BY <1>3, <1>4, <1>5, <1>6, <1>7, <1>8 DEF ControlInv

LEMMA MigrateWriteLookupControl ==
  ASSUME TypeOK, NEW m \in Migrations, NEW n \in DOMAIN Plan[m],
         ControlInv(m), MigrateWriteLookup(m, n)
  PROVE  ControlInv(m)'
  <1> USE DEF SamePlace, SameWrites, OtherWritesSame, SameStart, SameMmap, SameEnd, SameInMap,
              SameMutex, SameFds, SameError, SameOp, SameReply, SaysYes, SaysNo
  <1>0. /\ DOMAIN Plan[m] = 1..Len(Plan[m]) /\ Len(Plan[m]) \in Nat /\ sent[m] \in Nat
        /\ \A k \in DOMAIN Plan[m] : <<m, k>> \in Requests
    BY PlanDomain, RequestPairs DEF TypeOK
  <1>1. /\ writePc[<<m, n>>] = "called" /\ SamePlace(m) /\ OtherWritesSame(m, n)
        /\ \/ m \notin m_op_in_progress /\ writePc'[<<m, n>>] = "rejected" /\ SaysNo(m)
           \/ m \in m_op_in_progress /\ writePc'[<<m, n>>] = "located" /\ SameReply(m)
        /\ SameStart(m) /\ SameMmap(m) /\ SameEnd(m) /\ SameOp(m)
    BY <1>0 DEF TypeOK, Respond, opVars, MigrateWriteLookup, REMI_SUCCESS,
       REMI_ERR_INVALID_OPID
  <1>2. Parts(m) /\ REMI_SUCCESS # "PENDING"
    BY DEF ControlInv, Parts, REMI_SUCCESS
  <1>3. StartInv(m)'
    BY <1>1, <1>2 DEF StartInv, WriteInv, StartRuns, Parts
  <1>4. WriteInv(m)'
    BY <1>1, <1>2 DEF WriteInv, WriteWaits, WriteTaken, HasError, Parts
  <1>5. MmapInv(m)'
    BY <1>1, <1>2 DEF WriteInv, MmapInv, MmapRuns, Parts
  <1>6. EndInv(m)'
    BY <1>1, <1>2 DEF EndInv, OperationInv, WriteTaken, EndRuns, Parts
  <1>7. MutexInv(m)'
    BY <1>1, <1>2 DEF WriteInv, MutexInv, OperationInv, WriteWaits, WriteTaken, Parts
  <1>8. OperationInv(m)'
    <2>1. n = sent[m] /\ \A k \in DOMAIN Plan[m] : k > n => writePc[<<m, k>>] = "none"
      BY <1>0, <1>1, <1>2 DEF Parts, WriteInv, WriteWaits
    <2>2. ASSUME NEW k \in DOMAIN Plan[m], writePc'[<<m, k>>] = "rejected"
          PROVE  /\ m \notin m_op_in_progress'
                 /\ \A j \in DOMAIN Plan[m] :
                      j > k => writePc'[<<m, j>>] \in {"none", "called", "rejected"}
      BY <1>0, <1>1, <1>2, <2>1, <2>2 DEF Parts, OperationInv
    <2>3. ASSUME NEW k \in DOMAIN Plan[m], writePc'[<<m, k>>] \in {"located", "acked"}
          PROVE  m \in m_op_in_progress'
      BY <1>1, <1>2, <2>3 DEF Parts, OperationInv
    <2>4. endPc[m] = "none"
      BY <1>1, <1>2 DEF Parts, EndInv, WriteInv, WriteTaken
    <2>5. QED
      BY <1>1, <1>2, <2>1, <2>2, <2>3, <2>4 DEF Parts, OperationInv, Published
  <1>9. QED
    BY <1>3, <1>4, <1>5, <1>6, <1>7, <1>8 DEF ControlInv

LEMMA MigrateWriteAckControl ==
  ASSUME TypeOK, NEW m \in Migrations, NEW n \in DOMAIN Plan[m],
         ControlInv(m), MigrateWriteAck(m, n)
  PROVE  ControlInv(m)'
  <1> USE DEF SamePlace, SameWrites, OtherWritesSame, SameStart, SameMmap, SameEnd, SameInMap,
              SameMutex, SameFds, SameError, SameOp, SameReply, SaysYes, SaysNo
  <1>0. /\ DOMAIN Plan[m] = 1..Len(Plan[m]) /\ Len(Plan[m]) \in Nat /\ sent[m] \in Nat
        /\ \A k \in DOMAIN Plan[m] : <<m, k>> \in Requests
    BY PlanDomain, RequestPairs DEF TypeOK
  <1>1. /\ writePc[<<m, n>>] = "located" /\ ~m_mutex[m] /\ SamePlace(m) /\ OtherWritesSame(m, n)
        /\ \/ /\ writePc'[<<m, n>>] = "rejected" /\ SaysNo(m)
             /\ m \notin m_op_in_progress' /\ SameMutex(m)
           \/ /\ InRange(m, n) /\ writePc'[<<m, n>>] = "acked" /\ SaysYes(m)
             /\ SameInMap(m) /\ m_mutex'[m]
        /\ SameStart(m) /\ SameMmap(m) /\ SameEnd(m) /\ SameError(m) /\ SameFds(m)
    BY <1>0 DEF TypeOK, Respond, MigrateWriteAck, Available, Lock, Erase, REMI_SUCCESS,
       REMI_ERR_IO
  <1>2. Parts(m) /\ REMI_SUCCESS # "PENDING"
    BY DEF ControlInv, Parts, REMI_SUCCESS
  <1>3. StartInv(m)'
    BY <1>1, <1>2 DEF StartInv, OperationInv, StartRuns, Parts
  <1>4. WriteInv(m)'
    BY <1>1, <1>2 DEF WriteInv, WriteWaits, WriteTaken, HasError, Parts
  <1>5. MmapInv(m)'
    BY <1>1, <1>2 DEF WriteInv, MmapInv, WriteWaits, MmapRuns, Parts
  <1>6. EndInv(m)'
    BY <1>1, <1>2 DEF WriteInv, EndInv, WriteWaits, WriteTaken, EndRuns, Parts
  <1>7. MutexInv(m)'
    BY <1>1, <1>2 DEF WriteInv, MutexInv, WriteWaits, Parts
  <1>8. OperationInv(m)'
    BY <1>1, <1>2 DEF WriteInv, MmapInv, EndInv, MutexInv, OperationInv, Published,
       WriteWaits, WriteTaken, HasError, Parts
  <1>9. QED
    BY <1>3, <1>4, <1>5, <1>6, <1>7, <1>8 DEF ControlInv

LEMMA MigrateWriteDataControl ==
  ASSUME TypeOK, NEW m \in Migrations, NEW n \in DOMAIN Plan[m],
         ControlInv(m), MigrateWriteData(m, n)
  PROVE  ControlInv(m)'
  <1> USE DEF SamePlace, SameWrites, OtherWritesSame, SameStart, SameMmap, SameEnd, SameInMap,
              SameMutex, SameFds, SameError, SameOp, SameReply, SaysYes, SaysNo
  <1>0. /\ DOMAIN Plan[m] = 1..Len(Plan[m]) /\ Len(Plan[m]) \in Nat /\ sent[m] \in Nat
        /\ \A k \in DOMAIN Plan[m] : <<m, k>> \in Requests
    BY PlanDomain, RequestPairs DEF TypeOK
  <1>1. /\ writePc[<<m, n>>] = "acked" /\ SamePlace(m) /\ SameReply(m) /\ OtherWritesSame(m, n)
        /\ \/ writePc'[<<m, n>>] = "written" /\ SameError(m)
           \/ writePc'[<<m, n>>] = "short" /\ m_error'[m] # REMI_SUCCESS
        /\ ~m_mutex'[m] /\ SameInMap(m) /\ SameFds(m)
        /\ SameStart(m) /\ SameMmap(m) /\ SameEnd(m)
    BY <1>0 DEF TypeOK, senderVars, MigrateWriteData, Unlock, RecordError, REMI_SUCCESS,
       REMI_ERR_IO
  <1>2. Parts(m) /\ REMI_SUCCESS # "PENDING"
    BY DEF ControlInv, Parts, REMI_SUCCESS
  <1>3. StartInv(m)'
    BY <1>1, <1>2 DEF StartInv, StartRuns, Parts
  <1>4. WriteInv(m)'
    BY <1>0, <1>1, <1>2 DEF WriteInv, MmapInv, WriteWaits, WriteTaken, HasError, Parts
  <1>5. MmapInv(m)'
    BY <1>1, <1>2 DEF MmapInv, MmapRuns, Parts
  <1>6. EndInv(m)'
    BY <1>1, <1>2 DEF EndInv, WriteTaken, EndRuns, Parts
  <1>7. MutexInv(m)'
    BY <1>1, <1>2 DEF MutexInv, OperationInv, Published, Parts
  <1>8. OperationInv(m)'
    BY <1>1, <1>2 DEF OperationInv, Published, Parts
  <1>9. QED
    BY <1>3, <1>4, <1>5, <1>6, <1>7, <1>8 DEF ControlInv

LEMMA MigrateMmapLookupControl ==
  ASSUME TypeOK, NEW m \in Migrations, ControlInv(m), MigrateMmapLookup(m)
  PROVE  ControlInv(m)'
  <1> USE DEF SamePlace, SameWrites, OtherWritesSame, SameStart, SameMmap, SameEnd, SameInMap,
              SameMutex, SameFds, SameError, SameOp, SameReply, SaysYes, SaysNo
  <1>0. /\ DOMAIN Plan[m] = 1..Len(Plan[m]) /\ Len(Plan[m]) \in Nat /\ sent[m] \in Nat
        /\ \A k \in DOMAIN Plan[m] : <<m, k>> \in Requests
    BY PlanDomain, RequestPairs DEF TypeOK
  <1>1. /\ bulkPc[m] = "called" /\ SamePlace(m)
        /\ \/ bulkPc'[m] = "failed" /\ SaysNo(m)
           \/ m \in m_op_in_progress /\ bulkPc'[m] = "located" /\ SameReply(m)
        /\ SameStart(m) /\ SameWrites(m) /\ SameEnd(m) /\ SameOp(m)
    BY DEF TypeOK, Respond, opVars, MigrateMmapLookup, REMI_SUCCESS, REMI_ERR_INVALID_OPID
  <1>2. Parts(m) /\ REMI_SUCCESS # "PENDING"
    BY DEF ControlInv, Parts, REMI_SUCCESS
  <1>3. StartInv(m)'
    BY <1>1, <1>2 DEF StartInv, StartRuns, Parts
  <1>4. WriteInv(m)'
    BY <1>1, <1>2 DEF WriteInv, MmapInv, WriteWaits, WriteTaken, Parts
  <1>5. MmapInv(m)'
    BY <1>1, <1>2 DEF MmapInv, MmapRuns, Parts
  <1>6. EndInv(m)'
    BY <1>1, <1>2 DEF MmapInv, EndInv, EndRuns, Parts
  <1>7. MutexInv(m)'
    BY <1>0, <1>1, <1>2 DEF WriteInv, MutexInv, WriteWaits, Parts
  <1>8. OperationInv(m)'
    BY <1>1, <1>2 DEF OperationInv, Published, Parts
  <1>9. QED
    BY <1>3, <1>4, <1>5, <1>6, <1>7, <1>8 DEF ControlInv

LEMMA MigrateMmapMapControl ==
  ASSUME TypeOK, NEW m \in Migrations, ControlInv(m), MigrateMmapMap(m)
  PROVE  ControlInv(m)'
  <1> USE DEF SamePlace, SameWrites, OtherWritesSame, SameStart, SameMmap, SameEnd, SameInMap,
              SameMutex, SameFds, SameError, SameOp, SameReply, SaysYes, SaysNo
  <1>0. /\ DOMAIN Plan[m] = 1..Len(Plan[m]) /\ Len(Plan[m]) \in Nat /\ sent[m] \in Nat
        /\ \A k \in DOMAIN Plan[m] : <<m, k>> \in Requests
    BY PlanDomain, RequestPairs DEF TypeOK
  <1>1. /\ bulkPc[m] = "located" /\ SamePlace(m)
        /\ \/ bulkPc'[m] = "failed" /\ SaysNo(m) /\ m \notin m_op_in_progress'
           \/ bulkPc'[m] = "mapped" /\ SameReply(m) /\ SameInMap(m)
        /\ SameStart(m) /\ SameWrites(m) /\ SameEnd(m) /\ SameMutex(m) /\ SameError(m) /\ SameFds(m)
    BY DEF TypeOK, Respond, MigrateMmapMap, Erase, REMI_SUCCESS, REMI_ERR_IO
  <1>2. Parts(m) /\ REMI_SUCCESS # "PENDING"
    BY DEF ControlInv, Parts, REMI_SUCCESS
  <1>3. StartInv(m)'
    BY <1>1, <1>2 DEF StartInv, StartRuns, Parts
  <1>4. WriteInv(m)'
    BY <1>1, <1>2 DEF WriteInv, MmapInv, WriteWaits, WriteTaken, Parts
  <1>5. MmapInv(m)'
    BY <1>1, <1>2 DEF MmapInv, MmapRuns, Parts
  <1>6. EndInv(m)'
    BY <1>1, <1>2 DEF MmapInv, EndInv, EndRuns, Parts
  <1>7. MutexInv(m)'
    BY <1>0, <1>1, <1>2 DEF WriteInv, MutexInv, WriteWaits, Parts
  <1>8. OperationInv(m)'
    BY <1>1, <1>2 DEF WriteInv, MmapInv, EndInv, OperationInv, Parts
  <1>9. QED
    BY <1>3, <1>4, <1>5, <1>6, <1>7, <1>8 DEF ControlInv

LEMMA MigrateMmapPullControl ==
  ASSUME TypeOK, NEW m \in Migrations, ControlInv(m), MigrateMmapPull(m)
  PROVE  ControlInv(m)'
  <1> USE DEF SamePlace, SameWrites, OtherWritesSame, SameStart, SameMmap, SameEnd, SameInMap,
              SameMutex, SameFds, SameError, SameOp, SameReply, SaysYes, SaysNo
  <1>0. /\ DOMAIN Plan[m] = 1..Len(Plan[m]) /\ Len(Plan[m]) \in Nat /\ sent[m] \in Nat
        /\ \A k \in DOMAIN Plan[m] : <<m, k>> \in Requests
    BY PlanDomain, RequestPairs DEF TypeOK
  <1>1. /\ bulkPc[m] = "mapped" /\ SamePlace(m)
        /\ \/ bulkPc'[m] = "short" /\ SaysNo(m)
           \/ bulkPc'[m] = "pulled" /\ SameReply(m)
        /\ SameStart(m) /\ SameWrites(m) /\ SameEnd(m) /\ SameOp(m)
    BY DEF TypeOK, Respond, opVars, MigrateMmapPull, REMI_SUCCESS, REMI_ERR_MIGRATION
  <1>2. Parts(m) /\ REMI_SUCCESS # "PENDING"
    BY DEF ControlInv, Parts, REMI_SUCCESS
  <1>3. StartInv(m)'
    BY <1>1, <1>2 DEF StartInv, StartRuns, Parts
  <1>4. WriteInv(m)'
    BY <1>1, <1>2 DEF WriteInv, MmapInv, WriteWaits, WriteTaken, Parts
  <1>5. MmapInv(m)'
    BY <1>1, <1>2 DEF MmapInv, MmapRuns, Parts
  <1>6. EndInv(m)'
    BY <1>1, <1>2 DEF MmapInv, EndInv, EndRuns, Parts
  <1>7. MutexInv(m)'
    BY <1>1, <1>2 DEF WriteInv, MmapInv, MutexInv, Parts
  <1>8. OperationInv(m)'
    BY <1>1, <1>2 DEF OperationInv, Published, Parts
  <1>9. QED
    BY <1>3, <1>4, <1>5, <1>6, <1>7, <1>8 DEF ControlInv

LEMMA MigrateMmapSyncControl ==
  ASSUME TypeOK, NEW m \in Migrations, ControlInv(m), MigrateMmapSync(m)
  PROVE  ControlInv(m)'
  <1> USE DEF SamePlace, SameWrites, OtherWritesSame, SameStart, SameMmap, SameEnd, SameInMap,
              SameMutex, SameFds, SameError, SameOp, SameReply, SaysYes, SaysNo
  <1>0. /\ DOMAIN Plan[m] = 1..Len(Plan[m]) /\ Len(Plan[m]) \in Nat /\ sent[m] \in Nat
        /\ \A k \in DOMAIN Plan[m] : <<m, k>> \in Requests
    BY PlanDomain, RequestPairs DEF TypeOK
  <1>1. /\ bulkPc[m] = "pulled" /\ SamePlace(m)
        /\ \/ bulkPc'[m] = "failed" /\ SaysNo(m) /\ m \notin m_op_in_progress'
           \/ bulkPc'[m] = "synced" /\ SaysYes(m) /\ SameInMap(m)
        /\ SameStart(m) /\ SameWrites(m) /\ SameEnd(m) /\ SameMutex(m) /\ SameError(m) /\ SameFds(m)
    BY DEF TypeOK, Respond, MigrateMmapSync, Erase, REMI_SUCCESS, REMI_ERR_IO
  <1>2. Parts(m) /\ REMI_SUCCESS # "PENDING"
    BY DEF ControlInv, Parts, REMI_SUCCESS
  <1>3. StartInv(m)'
    BY <1>1, <1>2 DEF StartInv, StartRuns, Parts
  <1>4. WriteInv(m)'
    BY <1>1, <1>2 DEF WriteInv, MmapInv, WriteWaits, WriteTaken, Parts
  <1>5. MmapInv(m)'
    BY <1>1, <1>2 DEF MmapInv, MmapRuns, Parts
  <1>6. EndInv(m)'
    BY <1>1, <1>2 DEF MmapInv, EndInv, MmapRuns, EndRuns, Parts
  <1>7. MutexInv(m)'
    BY <1>0, <1>1, <1>2 DEF WriteInv, MutexInv, WriteWaits, Parts
  <1>8. OperationInv(m)'
    BY <1>1, <1>2 DEF WriteInv, MmapInv, EndInv, OperationInv, Parts
  <1>9. QED
    BY <1>3, <1>4, <1>5, <1>6, <1>7, <1>8 DEF ControlInv

LEMMA MigrateEndLookupControl ==
  ASSUME TypeOK, NEW m \in Migrations, ControlInv(m), MigrateEndLookup(m)
  PROVE  ControlInv(m)'
  <1> USE DEF SamePlace, SameWrites, OtherWritesSame, SameStart, SameMmap, SameEnd, SameInMap,
              SameMutex, SameFds, SameError, SameOp, SameReply, SaysYes, SaysNo
  <1>0. /\ DOMAIN Plan[m] = 1..Len(Plan[m]) /\ Len(Plan[m]) \in Nat /\ sent[m] \in Nat
        /\ \A k \in DOMAIN Plan[m] : <<m, k>> \in Requests
    BY PlanDomain, RequestPairs DEF TypeOK
  <1>1. /\ endPc[m] = "called" /\ SamePlace(m)
        /\ \/ m \notin m_op_in_progress /\ endPc'[m] = "failed" /\ SaysNo(m)
           \/ m \in m_op_in_progress /\ endPc'[m] = "located" /\ SameReply(m)
        /\ SameStart(m) /\ SameWrites(m) /\ SameMmap(m) /\ SameOp(m)
    BY DEF TypeOK, Respond, opVars, MigrateEndLookup, REMI_SUCCESS, REMI_ERR_INVALID_OPID
  <1>2. Parts(m) /\ REMI_SUCCESS # "PENDING"
    BY DEF ControlInv, Parts, REMI_SUCCESS
  <1>3. StartInv(m)'
    BY <1>1, <1>2 DEF StartInv, StartRuns, Parts
  <1>4. WriteInv(m)'
    BY <1>1, <1>2 DEF WriteInv, OperationInv, WriteWaits, WriteTaken, HasError, Parts
  <1>5. MmapInv(m)'
    BY <1>1, <1>2 DEF MmapInv, MmapRuns, Parts
  <1>6. EndInv(m)'
    BY <1>1, <1>2 DEF EndInv, WriteTaken, EndRuns, Parts
  <1>7. MutexInv(m)'
    BY <1>0, <1>1, <1>2 DEF WriteInv, MutexInv, WriteWaits, Parts
  <1>8. OperationInv(m)'
    <2>1. endPc'[m] = "failed" => m \notin m_op_in_progress'
      BY <1>1
    <2>2. ASSUME NEW k \in DOMAIN Plan[m], endPc'[m] = "failed"
          PROVE  writePc'[<<m, k>>] # "acked"
      BY <1>1, <1>2, <2>2 DEF Parts, OperationInv
    <2>3. QED
      BY <1>1, <1>2, <2>1, <2>2 DEF Parts, OperationInv, Published
  <1>9. QED
    BY <1>3, <1>4, <1>5, <1>6, <1>7, <1>8 DEF ControlInv

LEMMA MigrateEndCloseControl ==
  ASSUME TypeOK, NEW m \in Migrations, ControlInv(m), MigrateEndClose(m)
  PROVE  ControlInv(m)'
  <1> USE DEF SamePlace, SameWrites, OtherWritesSame, SameStart, SameMmap, SameEnd, SameInMap,
              SameMutex, SameFds, SameError, SameOp, SameReply, SaysYes, SaysNo
  <1>0. /\ DOMAIN Plan[m] = 1..Len(Plan[m]) /\ Len(Plan[m]) \in Nat /\ sent[m] \in Nat
        /\ \A k \in DOMAIN Plan[m] : <<m, k>> \in Requests
    BY PlanDomain, RequestPairs DEF TypeOK
  <1>1. /\ endPc[m] = "located" /\ ~m_mutex[m] /\ ~m_fds'[m] /\ SamePlace(m)
        /\ \/ /\ endPc'[m] = "failed" /\ SaysNo(m)
             /\ m \notin m_op_in_progress' /\ SameMutex(m)
           \/ /\ ~HasError(m) /\ endPc'[m] \in {"calling", "silent"} /\ SameReply(m)
             /\ m_mutex'[m] /\ SameInMap(m)
        /\ SameStart(m) /\ SameWrites(m) /\ SameMmap(m) /\ SameError(m)
    BY DEF TypeOK, Respond, MigrateEndClose, Available, Lock, Erase, CloseFds, HasError,
       REMI_ERR_IO
  <1>2. Parts(m) /\ REMI_SUCCESS # "PENDING"
    BY DEF ControlInv, Parts, REMI_SUCCESS
  <1>3. StartInv(m)'
    BY <1>1, <1>2 DEF StartInv, StartRuns, Parts
  <1>4. WriteInv(m)'
    BY <1>1, <1>2 DEF WriteInv, EndInv, WriteWaits, WriteTaken, HasError, Parts
  <1>5. MmapInv(m)'
    BY <1>1, <1>2 DEF MmapInv, MmapRuns, Parts
  <1>6. EndInv(m)'
    BY <1>1, <1>2 DEF EndInv, WriteTaken, EndRuns, Parts
  <1>7. MutexInv(m)'
    BY <1>1, <1>2 DEF MutexInv, Parts
  <1>8. OperationInv(m)'
    <2>1. ASSUME NEW k \in DOMAIN Plan[m]
          PROVE  writePc[<<m, k>>] \notin {"located", "acked", "rejected"}
      BY <1>1, <1>2, <2>1 DEF Parts, EndInv, MutexInv, WriteInv, WriteTaken
    <2>2. ASSUME NEW k \in DOMAIN Plan[m], ~HasError(m)
          PROVE  writePc[<<m, k>>] \in {"none", "written"}
      BY <1>1, <1>2, <2>2, <2>1 DEF Parts, EndInv, WriteInv, WriteTaken
    <2>3. bulkPc[m] \notin {"located", "mapped", "pulled"} /\ startPc[m] = "opened"
      BY <1>1, <1>2 DEF Parts, MmapInv, StartInv, MmapRuns
    <2>4. QED
      BY <1>1, <1>2, <2>1, <2>2, <2>3 DEF Parts, OperationInv, Published
  <1>9. QED
    BY <1>3, <1>4, <1>5, <1>6, <1>7, <1>8 DEF ControlInv

LEMMA MigrateEndAnswerControl ==
  ASSUME TypeOK, NEW m \in Migrations, ControlInv(m), MigrateEndAnswer(m)
  PROVE  ControlInv(m)'
  <1> USE DEF SamePlace, SameWrites, OtherWritesSame, SameStart, SameMmap, SameEnd, SameInMap,
              SameMutex, SameFds, SameError, SameOp, SameReply, SaysYes, SaysNo
  <1>0. /\ DOMAIN Plan[m] = 1..Len(Plan[m]) /\ Len(Plan[m]) \in Nat /\ sent[m] \in Nat
        /\ \A k \in DOMAIN Plan[m] : <<m, k>> \in Requests
    BY PlanDomain, RequestPairs DEF TypeOK
  <1>1. /\ endPc[m] \in {"calling", "silent"} /\ endPc'[m] = "answered" /\ SamePlace(m)
        /\ reply'[m] # "PENDING" /\ ~m_mutex'[m]
        /\ SameStart(m) /\ SameWrites(m) /\ SameMmap(m)
        /\ SameInMap(m) /\ SameError(m) /\ SameFds(m)
    BY DEF TypeOK, Respond, MigrateEndAnswer, Unlock, REMI_SUCCESS, REMI_ERR_USER
  <1>2. Parts(m) /\ REMI_SUCCESS # "PENDING"
    BY DEF ControlInv, Parts, REMI_SUCCESS
  <1>3. StartInv(m)'
    BY <1>1, <1>2 DEF StartInv, StartRuns, Parts
  <1>4. WriteInv(m)'
    BY <1>1, <1>2 DEF WriteInv, OperationInv, Published, WriteWaits, WriteTaken, Parts
  <1>5. MmapInv(m)'
    BY <1>1, <1>2 DEF MmapInv, MmapRuns, Parts
  <1>6. EndInv(m)'
    BY <1>1, <1>2 DEF EndInv, WriteTaken, EndRuns, Parts
  <1>7. MutexInv(m)'
    BY <1>1, <1>2 DEF MutexInv, OperationInv, Published, Parts
  <1>8. OperationInv(m)'
    BY <1>1, <1>2 DEF OperationInv, Published, Parts
  <1>9. QED
    BY <1>3, <1>4, <1>5, <1>6, <1>7, <1>8 DEF ControlInv

LEMMA MigrateEndEraseControl ==
  ASSUME TypeOK, NEW m \in Migrations, ControlInv(m), MigrateEndErase(m)
  PROVE  ControlInv(m)'
  <1> USE DEF SamePlace, SameWrites, OtherWritesSame, SameStart, SameMmap, SameEnd, SameInMap,
              SameMutex, SameFds, SameError, SameOp, SameReply, SaysYes, SaysNo
  <1>0. /\ DOMAIN Plan[m] = 1..Len(Plan[m]) /\ Len(Plan[m]) \in Nat /\ sent[m] \in Nat
        /\ \A k \in DOMAIN Plan[m] : <<m, k>> \in Requests
    BY PlanDomain, RequestPairs DEF TypeOK
  <1>1. /\ endPc[m] = "answered" /\ endPc'[m] = "erased" /\ SamePlace(m) /\ SameReply(m)
        /\ SameStart(m) /\ SameWrites(m) /\ SameMmap(m)
        /\ m \notin m_op_in_progress' /\ SameMutex(m) /\ SameError(m) /\ SameFds(m)
    BY DEF TypeOK, senderVars, MigrateEndErase, Erase
  <1>2. Parts(m) /\ REMI_SUCCESS # "PENDING"
    BY DEF ControlInv, Parts, REMI_SUCCESS
  <1>3. StartInv(m)'
    BY <1>1, <1>2 DEF StartInv, StartRuns, Parts
  <1>4. WriteInv(m)'
    BY <1>1, <1>2 DEF WriteInv, WriteWaits, WriteTaken, HasError, Parts
  <1>5. MmapInv(m)'
    BY <1>1, <1>2 DEF MmapInv, MmapRuns, Parts
  <1>6. EndInv(m)'
    BY <1>1, <1>2 DEF EndInv, WriteTaken, EndRuns, Parts
  <1>7. MutexInv(m)'
    BY <1>1, <1>2 DEF MutexInv, OperationInv, Published, Parts
  <1>8. OperationInv(m)'
    BY <1>1, <1>2 DEF MmapInv, EndInv, OperationInv, Published, Parts
  <1>9. QED
    BY <1>3, <1>4, <1>5, <1>6, <1>7, <1>8 DEF ControlInv

=============================================================================
