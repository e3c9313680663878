---------------------- MODULE RemiProviderRefinement -----------------------
(***************************************************************************)
(* RemiProvider implements FilesetMigration: what the caller of            *)
(* remi_fileset_migrate is told agrees with what became of its fileset.    *)
(* And it keeps its side of MigrationSession.                              *)
(***************************************************************************)
EXTENDS RemiProviderTheorems

-----------------------------------------------------------------------------
(* What an answer tells                                                    *)

Failed(m) == reply[m] \notin {"PENDING", REMI_SUCCESS}

\* The code of the last answer tells how far the fileset got; only callbacks
\* answer REMI_ERR_USER; and no write is carried out once the call returned.
AnswerInv(m) ==
  /\ phase[m] = "start" /\ Failed(m) => startPc[m] # "opened"
  /\ phase[m] = "mmap" => mode[m] = "mmap"
  /\ phase[m] \in {"mmap", "write"} => reply[m] # REMI_ERR_USER
  /\ phase[m] = "write" /\ Failed(m) => writePc[<<m, sent[m]>>] = "rejected"
  /\ phase[m] = "end" /\ Failed(m) =>
       IF reply[m] = REMI_ERR_USER THEN Published(m) ELSE endPc[m] = "failed"
  /\ phase[m] = "returned" =>
       reply[m] # "PENDING" /\ \A n \in DOMAIN Plan[m] : writePc[<<m, n>>] # "acked"

LEMMA InitAnswer ==
  ASSUME Init, NEW m \in Migrations
  PROVE  AnswerInv(m)
  BY DEF Init, AnswerInv

LEMMA SameAnswer ==
  ASSUME IInv, NEW m \in Migrations, AnswerInv(m), SameControl(m)
  PROVE  AnswerInv(m)'
  <1>1. DOMAIN Plan[m] = 1..Len(Plan[m]) /\ Len(Plan[m]) \in Nat /\ sent[m] \in Nat
    BY PlanDomain DEF IInv, TypeOK
  <1>2. phase[m] = "write" => sent[m] \in DOMAIN Plan[m]
    BY <1>1 DEF IInv, ControlInv, WriteInv
  <1>3. QED
    BY <1>2 DEF AnswerInv, SameControl, Failed, Published

\* The steps of the sender.
LEMMA SenderAnswer ==
  ASSUME IInv, NEW m \in Migrations, AnswerInv(m), SenderStep(m)
  PROVE  AnswerInv(m)'
  <1> USE DEF vars, senderVars, handlerVars, opVars, Failed
  <1>0. TypeOK /\ StartInv(m) /\ WriteInv(m) /\ MutexInv(m) /\ EndInv(m) /\ OperationInv(m)
    BY DEF IInv, ControlInv
  <1>1. CASE CallStart(m) \/ CallMmap(m) \/ CallWrite(m) \/ CallEnd(m)
    <2>1. /\ reply'[m] = "PENDING" /\ phase'[m] \in {"start", "mmap", "write", "end"}
          /\ phase'[m] = "mmap" => mode'[m] = "mmap"
      BY <1>0, <1>1 DEF CallStart, CallMmap, CallWrite, CallEnd, Respond, StartInv, TypeOK
    <2>2. QED
      BY <2>1 DEF AnswerInv, REMI_ERR_USER
  <1>2. CASE LoseCall(m)
    BY <1>0, <1>2 DEF LoseCall, AnswerInv, TypeOK
  <1>3. CASE Return(m)
    <2>1. phase'[m] = "returned" /\ UNCHANGED <<reply, writePc>> /\ reply[m] # "PENDING"
      BY <1>0, <1>3 DEF Return, TypeOK
    <2>2. ASSUME NEW n \in DOMAIN Plan[m], writePc[<<m, n>>] = "acked"
          PROVE  FALSE
      <3>1. n \in Nat /\ n > 0 /\ sent[m] \in Nat
        BY <1>0, PlanDomain DEF TypeOK
      <3>2. n <= sent[m] /\ ~(WriteWaits(m, sent[m]))
        BY <1>0, <2>1, <2>2, <3>1, PlanDomain DEF WriteInv, WriteWaits
      <3>3. n = sent[m]
        BY <1>0, <2>2, <3>2 DEF MutexInv
      <3>4. phase[m] # "write"
        BY <1>3, <2>1, <2>2, <3>3 DEF AnswerInv, Return
      <3>5. phase[m] \notin {"start", "mmap"}
        BY <1>0, <2>2, <3>1, <3>2 DEF StartInv, WriteInv, AnswerInv
      <3>6. phase[m] = "end"
        BY <1>3, <3>4, <3>5 DEF Return
      <3>7. endPc[m] \in {"failed", "answered", "erased"} \/ Published(m)
        BY <1>0, <2>1, <3>6 DEF EndInv, AnswerInv
      <3>8. QED
        BY <1>0, <2>2, <3>7 DEF OperationInv, Published
    <2>3. QED
      BY <2>1, <2>2 DEF AnswerInv
  <1>4. QED
    BY <1>1, <1>2, <1>3 DEF SenderStep, Sender

\* The handlers answer.
LEMMA StartAnswer ==
  ASSUME IInv, NEW m \in Migrations, AnswerInv(m), StartHandler(m)
  PROVE  AnswerInv(m)'
  <1>0. TypeOK /\ StartInv(m)
    BY DEF IInv, ControlInv
  <1>1. /\ phase[m] \in {"start", "lost"} /\ reply[m] = "PENDING"
        /\ phase'[m] = phase[m] /\ startPc'[m] # startPc[m]
        /\ startPc'[m] = "opened" => reply'[m] = REMI_SUCCESS
    BY <1>0 DEF StartHandler, MigrateStartCheck, MigrateStartBefore, MigrateStartCallback,
       MigrateStartOpen, Respond, TypeOK, StartInv, StartRuns
  <1>2. QED
    BY <1>1 DEF AnswerInv, Failed

LEMMA WriteAnswer ==
  ASSUME IInv, NEW m \in Migrations, AnswerInv(m), NEW n \in DOMAIN Plan[m], WriteHandler(m, n)
  PROVE  AnswerInv(m)'
  <1>0. TypeOK /\ WriteInv(m) /\ sent[m] \in Nat /\ <<m, n>> \in Requests
    BY RequestPairs DEF IInv, ControlInv, TypeOK
  <1>1. CASE MigrateWriteLookup(m, n) \/ MigrateWriteAck(m, n)
    <2>1. /\ n = sent[m] /\ phase[m] \in {"write", "lost"} /\ phase'[m] = phase[m]
          /\ sent'[m] = sent[m] /\ mode'[m] = mode[m]
      BY <1>0, <1>1 DEF MigrateWriteLookup, MigrateWriteAck, WriteInv, WriteWaits
    <2>2. \/ reply'[m] = reply[m] /\ reply[m] = "PENDING"
          \/ reply'[m] = REMI_SUCCESS
          \/ reply'[m] # REMI_ERR_USER /\ writePc'[<<m, n>>] = "rejected"
      BY <1>0, <1>1 DEF MigrateWriteLookup, MigrateWriteAck, WriteInv, WriteWaits, Respond, TypeOK,
         REMI_ERR_USER, REMI_ERR_IO, REMI_ERR_INVALID_OPID
    <2>3. QED
      BY <2>1, <2>2 DEF AnswerInv, Failed, REMI_ERR_USER, REMI_SUCCESS
  <1>2. CASE MigrateWriteData(m, n)
    <2>1. /\ UNCHANGED <<mode, phase, reply, sent, startPc, endPc>>
          /\ writePc[<<m, n>>] = "acked" /\ writePc'[<<m, n>>] # "acked"
          /\ \A k \in DOMAIN Plan[m] : k # n => writePc'[<<m, k>>] = writePc[<<m, k>>]
      BY <1>0, <1>2, RequestPairs DEF MigrateWriteData, senderVars, TypeOK
    <2>2. phase[m] = "write" => sent[m] \in DOMAIN Plan[m]
      BY <1>0, PlanDomain DEF WriteInv
    <2>3. QED
      BY <2>1, <2>2 DEF AnswerInv, Failed, Published
  <1>3. QED
    BY <1>1, <1>2 DEF WriteHandler

LEMMA MmapAnswer ==
  ASSUME IInv, NEW m \in Migrations, AnswerInv(m), MmapHandler(m)
  PROVE  AnswerInv(m)'
  <1>0. TypeOK /\ MmapInv(m)
    BY DEF IInv, ControlInv
  <1>1. /\ phase[m] \in {"mmap", "lost"} /\ phase'[m] = phase[m] /\ reply[m] = "PENDING"
        /\ mode'[m] = mode[m]
    BY <1>0 DEF MmapHandler, MigrateMmapLookup, MigrateMmapMap, MigrateMmapPull,
       MigrateMmapSync, MmapInv, MmapRuns
  <1>2. reply'[m] # REMI_ERR_USER
    BY <1>0, <1>1 DEF MmapHandler, MigrateMmapLookup, MigrateMmapMap, MigrateMmapPull,
       MigrateMmapSync, Respond, TypeOK, REMI_ERR_USER, REMI_ERR_IO, REMI_ERR_INVALID_OPID,
       REMI_ERR_MIGRATION, REMI_SUCCESS
  <1>3. QED
    BY <1>1, <1>2 DEF AnswerInv

LEMMA EndAnswer ==
  ASSUME IInv, NEW m \in Migrations, AnswerInv(m), EndHandler(m)
  PROVE  AnswerInv(m)'
  <1>0. TypeOK /\ EndInv(m)
    BY DEF IInv, ControlInv
  <1>1. CASE MigrateEndLookup(m) \/ MigrateEndClose(m) \/ MigrateEndAnswer(m)
    <2>1. phase[m] \in {"end", "lost"} /\ phase'[m] = phase[m] /\ reply[m] = "PENDING"
      BY <1>0, <1>1 DEF MigrateEndLookup, MigrateEndClose, MigrateEndAnswer, EndInv, EndRuns
    <2>2. \/ reply'[m] = "PENDING"
          \/ endPc'[m] = "failed" /\ reply'[m] # REMI_ERR_USER
          \/ endPc'[m] = "answered" /\ reply'[m] \in {REMI_SUCCESS, REMI_ERR_USER}
      BY <1>0, <1>1, <2>1 DEF MigrateEndLookup, MigrateEndClose, MigrateEndAnswer, Respond, TypeOK,
         REMI_ERR_USER, REMI_ERR_IO, REMI_ERR_INVALID_OPID, REMI_SUCCESS
    <2>3. QED
      BY <2>1, <2>2 DEF AnswerInv, Failed, Published
  <1>2. CASE MigrateEndErase(m)
    <2>1. /\ endPc[m] = "answered" /\ endPc'[m] = "erased"
          /\ UNCHANGED <<mode, phase, reply, sent, startPc, writePc>>
      BY <1>0, <1>2 DEF MigrateEndErase, senderVars, TypeOK
    <2>2. QED
      BY <1>0, <2>1 DEF AnswerInv, Failed, Published, EndInv
  <1>3. QED
    BY <1>1, <1>2 DEF EndHandler

PromiseInv == IInv /\ \A m \in Migrations : AnswerInv(m)

LEMMA NextAnswer ==
  ASSUME PromiseInv, [Next]_vars
  PROVE  PromiseInv'
  <1>0. IInv /\ TypeOK /\ IInv'
    BY NextIInv DEF PromiseInv, IInv
  <1>1. SUFFICES ASSUME NEW m \in Migrations
                 PROVE  AnswerInv(m)'
    BY <1>0 DEF PromiseInv
  <1>2. AnswerInv(m)
    BY DEF PromiseInv
  <1>3. CASE Application \/ UNCHANGED vars
    BY <1>0, <1>2, <1>3, ApplicationSameControl, SameAnswer
  <1>4. ASSUME NEW o \in Migrations, MigrationStep(o)
        PROVE  AnswerInv(m)'
    <2>1. CASE o = m
      BY <1>0, <1>2, <1>4, <2>1, SenderAnswer, StartAnswer, WriteAnswer, MmapAnswer, EndAnswer
         DEF MigrationStep
    <2>2. CASE o # m
      BY <1>0, <1>2, <1>4, <2>2, OthersSameControl, SameAnswer
    <2>3. QED
      BY <2>1, <2>2
  <1>5. QED
    BY <1>3, <1>4, NextCases DEF MigrationStep

-----------------------------------------------------------------------------
(* A step of a migration, seen from FilesetMigration                       *)

Missing(m) == PieceNumbers(m) \ Landed(m)

StageStays(m) == Stage(m)' = Stage(m)
MissingStays(m) == Missing(m)' = Missing(m)
OutcomeStays(m) == Outcome(m)' = Outcome(m)
ViewStays(m) == StageStays(m) /\ MissingStays(m) /\ OutcomeStays(m)

Opens(m) ==
  /\ Stage(m) = "new" /\ Stage(m)' = "open" /\ Outcome(m) = "none"
  /\ MissingStays(m) /\ OutcomeStays(m)

Lands(m) ==
  /\ Stage(m) = "open" /\ Outcome(m) = "none"
  /\ Missing(m)' \subseteq Missing(m)
  /\ StageStays(m) /\ OutcomeStays(m)

Publishes(m) ==
  /\ Stage(m) = "open" /\ Stage(m)' = "published" /\ Outcome(m) = "none"
  /\ Missing(m) = {}
  /\ MissingStays(m) /\ OutcomeStays(m)

Tells(m) ==
  /\ Outcome(m) = "none"
  /\ \/ Outcome(m)' = "success" /\ Stage(m) = "published"
     \/ Outcome(m)' = "refused" /\ Stage(m) \in {"new", "published"}
     \/ Outcome(m)' = "failure" /\ Stage(m) \in {"new", "open"}
  /\ StageStays(m) /\ MissingStays(m)

LEMMA SameView ==
  ASSUME NEW m \in Migrations, SameControl(m)
  PROVE  ViewStays(m)
  <1> USE DEF SameControl
  <1>1. Stage(m)' = Stage(m)
    BY DEF Stage, Published
  <1>2. Outcome(m)' = Outcome(m)
    BY DEF Outcome
  <1>3. PieceNumbers(m)' = PieceNumbers(m) /\ Landed(m)' = Landed(m)
    BY DEF PieceNumbers, Landed
  <1>4. QED
    BY <1>1, <1>2, <1>3 DEF ViewStays, StageStays, MissingStays, OutcomeStays, Missing

\* The sender makes its calls unseen, and tells the caller what came of them.
LEMMA SenderView ==
  ASSUME PromiseInv, NEW m \in Migrations, SenderStep(m)
  PROVE  ViewStays(m) \/ Tells(m)
  <1> USE DEF vars, senderVars, handlerVars, opVars
  <1>0. /\ TypeOK /\ StartInv(m) /\ WriteInv(m) /\ MmapInv(m) /\ EndInv(m) /\ AnswerInv(m)
        /\ \A n \in DOMAIN Plan[m] : <<m, n>> \in Requests
    BY RequestPairs DEF PromiseInv, IInv, ControlInv
  <1>1. StageStays(m) /\ MissingStays(m)
    <2>1. /\ startPc'[m] = "opened" <=> startPc[m] = "opened"
          /\ Published(m)' <=> Published(m)
          /\ bulkPc'[m] = "synced" <=> bulkPc[m] = "synced"
          /\ mode'[m] = mode[m]
      BY <1>0 DEF SenderStep, Sender, CallStart, CallMmap, CallWrite, CallEnd, Return, LoseCall,
                  TypeOK, Published, StartInv, MmapInv, EndInv
    <2>2. \A n \in DOMAIN Plan[m] :
            writePc'[<<m, n>>] = "written" <=> writePc[<<m, n>>] = "written"
      <3>1. CASE CallWrite(m)
        <4>1. sent[m] + 1 \in DOMAIN Plan[m] /\ sent[m] + 1 > sent[m]
          BY <1>0, <3>1, PlanDomain DEF CallWrite, TypeOK
        <4>2. writePc[<<m, sent[m] + 1>>] = "none"
          BY <1>0, <4>1 DEF WriteInv
        <4>3. writePc' = [writePc EXCEPT ![<<m, sent[m] + 1>>] = "called"]
          BY <3>1 DEF CallWrite
        <4>4. QED
          BY <1>0, <4>2, <4>3 DEF TypeOK
      <3>2. CASE ~CallWrite(m)
        BY <3>2 DEF SenderStep, Sender, CallStart, CallMmap, CallEnd, Return, LoseCall
      <3>3. QED
        BY <3>1, <3>2
    <2>3. Landed(m)' = Landed(m) /\ PieceNumbers(m)' = PieceNumbers(m)
      BY <2>1, <2>2 DEF Landed, PieceNumbers
    <2>4. QED
      BY <2>1, <2>3 DEF StageStays, MissingStays, Stage, Missing
  <1>2. CASE CallStart(m) \/ CallMmap(m) \/ CallWrite(m) \/ CallEnd(m) \/ LoseCall(m)
    <2>1. phase[m] # "returned" /\ phase'[m] # "returned"
      BY <1>0, <1>2 DEF CallStart, CallMmap, CallWrite, CallEnd, LoseCall, TypeOK
    <2>2. QED
      BY <1>1, <2>1 DEF ViewStays, OutcomeStays, Outcome
  <1>3. CASE Return(m)
    <2>1. /\ phase[m] \in {"start", "mmap", "write", "end"} /\ phase'[m] = "returned"
          /\ reply'[m] = reply[m] /\ reply[m] # "PENDING"
          /\ phase[m] # "end" => reply[m] # REMI_SUCCESS
      BY <1>0, <1>3 DEF Return, TypeOK
    <2>2. Outcome(m) = "none"
      BY <2>1 DEF Outcome
    <2>3. CASE reply[m] = REMI_SUCCESS
      <3>1. Stage(m) = "published" /\ Outcome(m)' = "success"
        BY <1>0, <2>1, <2>3 DEF EndInv, Published, Stage, Outcome
      <3>2. QED
        BY <1>1, <2>2, <3>1 DEF Tells
    <2>4. CASE reply[m] = REMI_ERR_USER
      <3>1. Outcome(m)' = "refused"
        BY <2>1, <2>4 DEF Outcome, REMI_ERR_USER, REMI_SUCCESS
      <3>2. Stage(m) \in {"new", "published"}
        BY <1>0, <2>1, <2>4 DEF AnswerInv, Failed, Stage, REMI_ERR_USER, REMI_SUCCESS
      <3>3. QED
        BY <1>1, <2>2, <3>1, <3>2 DEF Tells
    <2>5. CASE reply[m] \notin {REMI_SUCCESS, REMI_ERR_USER}
      <3>1. Outcome(m)' = "failure"
        BY <2>1, <2>5 DEF Outcome
      <3>2. ~Published(m)
        BY <1>0, <2>1, <2>5 DEF AnswerInv, Failed, Published, StartInv, WriteInv, MmapInv
      <3>3. QED
        BY <1>1, <2>2, <3>1, <3>2 DEF Tells, Stage
    <2>6. QED
      BY <2>3, <2>4, <2>5
  <1>4. QED
    BY <1>2, <1>3 DEF SenderStep, Sender

LEMMA StartView ==
  ASSUME PromiseInv, NEW m \in Migrations, StartHandler(m)
  PROVE  ViewStays(m) \/ Opens(m)
  <1>0. TypeOK /\ StartInv(m)
    BY DEF PromiseInv, IInv, ControlInv
  <1>1. UNCHANGED <<mode, phase, writePc, bulkPc, endPc>>
    BY DEF StartHandler, MigrateStartCheck, MigrateStartBefore, MigrateStartCallback,
           MigrateStartOpen
  <1>2. /\ startPc[m] # "opened" /\ endPc[m] = "none"
        /\ phase[m] # "returned"
    BY <1>0 DEF StartHandler, MigrateStartCheck, MigrateStartBefore, MigrateStartCallback,
                MigrateStartOpen, StartInv, StartRuns
  <1>3. MissingStays(m) /\ OutcomeStays(m) /\ Outcome(m) = "none"
    BY <1>1, <1>2 DEF MissingStays, Missing, PieceNumbers, Landed, OutcomeStays, Outcome
  <1>4. Stage(m) = "new" /\ Stage(m)' \in {"new", "open"}
    BY <1>1, <1>2 DEF Stage, Published
  <1>5. QED
    BY <1>3, <1>4 DEF ViewStays, StageStays, Opens

LEMMA WriteView ==
  ASSUME PromiseInv, NEW m \in Migrations, NEW n \in DOMAIN Plan[m], WriteHandler(m, n)
  PROVE  ViewStays(m) \/ Lands(m)
  <1>0. /\ TypeOK /\ StartInv(m) /\ WriteInv(m) /\ OperationInv(m) /\ AnswerInv(m)
        /\ sent[m] \in Nat /\ n \in Nat /\ n > 0
        /\ \A k \in DOMAIN Plan[m] : <<m, k>> \in Requests
    BY PlanDomain, RequestPairs DEF PromiseInv, IInv, ControlInv, TypeOK
  <1>1. UNCHANGED <<mode, phase, startPc, bulkPc, endPc>>
    BY DEF WriteHandler, MigrateWriteLookup, MigrateWriteAck, MigrateWriteData, senderVars
  <1>2. StageStays(m)
    BY <1>1 DEF StageStays, Stage, Published
  <1>3. CASE MigrateWriteLookup(m, n) \/ MigrateWriteAck(m, n)
    <2>1. phase[m] # "returned"
      BY <1>0, <1>3 DEF MigrateWriteLookup, MigrateWriteAck, WriteInv, WriteWaits
    <2>2. \A k \in DOMAIN Plan[m] :
            writePc'[<<m, k>>] = "written" <=> writePc[<<m, k>>] = "written"
      BY <1>0, <1>3 DEF MigrateWriteLookup, MigrateWriteAck, TypeOK
    <2>3. MissingStays(m)
      BY <1>1, <2>2 DEF MissingStays, Missing, PieceNumbers, Landed
    <2>4. OutcomeStays(m)
      BY <1>1, <2>1 DEF OutcomeStays, Outcome
    <2>5. QED
      BY <1>2, <2>3, <2>4 DEF ViewStays
  <1>4. CASE MigrateWriteData(m, n)
    <2>1. writePc[<<m, n>>] = "acked" /\ UNCHANGED reply
      BY <1>4 DEF MigrateWriteData, senderVars
    <2>2. phase[m] # "returned"
      BY <1>0, <2>1 DEF AnswerInv
    <2>3. Outcome(m) = "none" /\ OutcomeStays(m)
      BY <1>1, <2>2 DEF OutcomeStays, Outcome
    <2>4. Stage(m) = "open"
      <3>1. n <= sent[m]
        BY <1>0, <2>1 DEF WriteInv
      <3>2. startPc[m] = "opened"
        BY <1>0, <3>1 DEF StartInv
      <3>3. ~Published(m)
        BY <1>0, <2>1 DEF OperationInv
      <3>4. QED
        BY <3>2, <3>3 DEF Stage
    <2>5. \A k \in DOMAIN Plan[m] :
            writePc[<<m, k>>] = "written" => writePc'[<<m, k>>] = "written"
      BY <1>0, <1>4 DEF MigrateWriteData, TypeOK
    <2>6. Missing(m)' \subseteq Missing(m)
      BY <1>1, <2>5 DEF Missing, PieceNumbers, Landed
    <2>7. QED
      BY <1>2, <2>3, <2>4, <2>6 DEF Lands
  <1>5. QED
    BY <1>3, <1>4 DEF WriteHandler

LEMMA MmapView ==
  ASSUME PromiseInv, NEW m \in Migrations, MmapHandler(m)
  PROVE  ViewStays(m) \/ Lands(m)
  <1>0. TypeOK /\ StartInv(m) /\ MmapInv(m)
    BY DEF PromiseInv, IInv, ControlInv
  <1>1. UNCHANGED <<mode, phase, startPc, writePc, endPc>>
    BY DEF MmapHandler, MigrateMmapLookup, MigrateMmapMap, MigrateMmapPull, MigrateMmapSync
  <1>2. /\ bulkPc[m] \notin {"none", "synced"} /\ phase[m] # "returned"
        /\ endPc[m] = "none" /\ mode[m] = "mmap"
    BY <1>0 DEF MmapHandler, MigrateMmapLookup, MigrateMmapMap, MigrateMmapPull,
                MigrateMmapSync, MmapInv, MmapRuns
  <1>3. Stage(m) = "open" /\ StageStays(m)
    BY <1>0, <1>1, <1>2 DEF StartInv, Stage, StageStays, Published
  <1>4. Outcome(m) = "none" /\ OutcomeStays(m)
    BY <1>1, <1>2 DEF Outcome, OutcomeStays
  <1>5. Missing(m)' \subseteq Missing(m)
    BY <1>1, <1>2 DEF Missing, PieceNumbers, Landed
  <1>6. QED
    BY <1>3, <1>4, <1>5 DEF Lands

LEMMA EndView ==
  ASSUME PromiseInv, NEW m \in Migrations, EndHandler(m)
  PROVE  ViewStays(m) \/ Publishes(m)
  <1>0. TypeOK /\ StartInv(m) /\ WriteInv(m) /\ MutexInv(m) /\ EndInv(m)
    BY DEF PromiseInv, IInv, ControlInv
  <1>1. UNCHANGED <<mode, phase, startPc, writePc, bulkPc>> /\ startPc[m] = "opened"
    BY <1>0 DEF EndHandler, MigrateEndLookup, MigrateEndClose, MigrateEndAnswer,
                MigrateEndErase, senderVars, StartInv
  <1>2. MissingStays(m)
    BY <1>1 DEF MissingStays, Missing, PieceNumbers, Landed
  <1>3. CASE MigrateEndLookup(m) \/ MigrateEndClose(m) \/ MigrateEndAnswer(m)
    <2>1. phase[m] # "returned"
      BY <1>0, <1>3 DEF MigrateEndLookup, MigrateEndClose, MigrateEndAnswer, EndInv, EndRuns
    <2>2. Outcome(m) = "none" /\ OutcomeStays(m)
      BY <1>1, <2>1 DEF Outcome, OutcomeStays
    <2>3. CASE Published(m)' <=> Published(m)
      BY <1>1, <1>2, <2>2, <2>3 DEF ViewStays, StageStays, Stage
    <2>4. CASE ~(Published(m)' <=> Published(m))
      <3>1. ~Published(m) /\ Published(m)'
        BY <1>0, <1>3, <2>4 DEF MigrateEndLookup, MigrateEndClose, MigrateEndAnswer, TypeOK,
           Published
      <3>2. Missing(m) = {}
        <4>1. endPc[m] = "located" /\ Available(m) /\ ~HasError(m)
          BY <1>0, <1>3, <3>1 DEF MigrateEndLookup, MigrateEndClose, MigrateEndAnswer, TypeOK,
             Published
        <4>2. CASE mode[m] = "mmap"
          BY <1>0, <4>1, <4>2 DEF EndInv, Missing, Landed
        <4>3. CASE mode[m] # "mmap"
          <5>1. \A n \in DOMAIN Plan[m] : writePc[<<m, n>>] = "written"
            BY <1>0, <4>1, <4>3 DEF EndInv, WriteTaken, WriteInv, MutexInv, Available
          <5>2. QED
            BY <4>3, <5>1 DEF Missing, PieceNumbers, Landed
        <4>4. QED
          BY <4>2, <4>3
      <3>3. QED
        BY <1>1, <1>2, <2>2, <3>1, <3>2 DEF Publishes, Stage
    <2>5. QED
      BY <2>3, <2>4
  <1>4. CASE MigrateEndErase(m)
    BY <1>0, <1>1, <1>2, <1>4 DEF MigrateEndErase, senderVars, ViewStays, StageStays, Stage,
       Published, OutcomeStays, Outcome, TypeOK
  <1>5. QED
    BY <1>3, <1>4 DEF EndHandler

-----------------------------------------------------------------------------
(* The same steps in the terms of FilesetMigration                         *)

LEMMA InitPromise ==
  ASSUME Init
  PROVE  Abstract!PromiseInit
  <1>1. \A m \in Migrations : Stage(m) = "new" /\ Outcome(m) = "none"
    BY DEF Init, Stage, Outcome, Published
  <1>2. ASSUME NEW m \in Migrations
        PROVE  PieceNumbers(m) \subseteq Nat
    <2>1. Sizes[m] \in Seq(Nat) /\ Plan[m] \in Seq(WriteRequest)
      BY ShapeAssumption
    <2>2. DOMAIN Sizes[m] \subseteq Nat /\ DOMAIN Plan[m] \subseteq Nat
      BY <2>1
    <2>3. QED
      BY <2>2 DEF PieceNumbers
  <1>3. QED
    BY <1>1, <1>2 DEF Abstract!PromiseInit

LEMMA ViewsStay ==
  ASSUME \A m \in Migrations : ViewStays(m)
  PROVE  UNCHANGED Abstract!promiseVars
  BY DEF Abstract!promiseVars, ViewStays, StageStays, MissingStays, OutcomeStays, Missing

\* One migration moves and the others look the same.
LEMMA OneMoves ==
  ASSUME NEW o \in Migrations,
         \A m \in Migrations : m # o => ViewStays(m),
         Opens(o) \/ Lands(o) \/ Publishes(o) \/ Tells(o)
  PROVE  Abstract!PromiseNext
  <1> USE DEF ViewStays, StageStays, MissingStays, OutcomeStays, Missing
  <1>1. CASE Opens(o)
    <2>1. Abstract!Open(o)
      BY <1>1 DEF Opens, Abstract!Open
    <2>2. QED
      BY <2>1 DEF Abstract!PromiseNext
  <1>2. CASE Lands(o)
    <2>1. Abstract!Land(o)
      BY <1>2 DEF Lands, Abstract!Land
    <2>2. QED
      BY <2>1 DEF Abstract!PromiseNext
  <1>3. CASE Publishes(o)
    <2>1. Abstract!Publish(o)
      BY <1>3 DEF Publishes, Abstract!Publish
    <2>2. QED
      BY <2>1 DEF Abstract!PromiseNext
  <1>4. CASE Tells(o)
    <2>1. Abstract!Succeed(o) \/ Abstract!Refuse(o) \/ Abstract!Fail(o)
      BY <1>4 DEF Tells, Abstract!Succeed, Abstract!Refuse, Abstract!Fail, Abstract!Tell
    <2>2. QED
      BY <2>1 DEF Abstract!PromiseNext
  <1>5. QED
    BY <1>1, <1>2, <1>3, <1>4

LEMMA NextPromise ==
  ASSUME PromiseInv, [Next]_vars
  PROVE  [Abstract!PromiseNext]_(Abstract!promiseVars)
  <1>0. IInv /\ TypeOK
    BY DEF PromiseInv, IInv
  <1>1. CASE Application \/ UNCHANGED vars
    BY <1>0, <1>1, ApplicationSameControl, SameView, ViewsStay
  <1>2. ASSUME NEW o \in Migrations, MigrationStep(o)
        PROVE  [Abstract!PromiseNext]_(Abstract!promiseVars)
    <2>1. \A m \in Migrations : m # o => ViewStays(m)
      BY <1>0, <1>2, OthersSameControl, SameView
    <2>2. ViewStays(o) \/ Opens(o) \/ Lands(o) \/ Publishes(o) \/ Tells(o)
      BY <1>2, SenderView, StartView, WriteView, MmapView, EndView DEF MigrationStep
    <2>3. QED
      BY <2>1, <2>2, ViewsStay, OneMoves
  <1>3. QED
    BY <1>1, <1>2, NextCases DEF MigrationStep

\* What the caller of remi_fileset_migrate is told agrees with what happened:
\* success only for a fileset that was taken over whole, a refusal only when a
\* callback refused (or is not there), failure only for a fileset that never
\* will be taken over.
THEOREM KeepsPromiseHolds == Spec => KeepsPromise
  <1>1. Init => PromiseInv /\ Abstract!PromiseInit
    BY InitIInv, InitAnswer, InitPromise DEF PromiseInv
  <1>2. PromiseInv /\ [Next]_vars => PromiseInv'
    BY NextAnswer
  <1>3. PromiseInv /\ [Next]_vars => [Abstract!PromiseNext]_(Abstract!promiseVars)
    BY NextPromise
  <1>4. QED
    BY <1>1, <1>2, <1>3, PTL DEF Spec, KeepsPromise, Abstract!Promise

-----------------------------------------------------------------------------
(* Each RPC is answered at most once, by a code that its caller expects    *)

Moves(m) == Session(m)!SessionNext
Idles(m) == UNCHANGED Session(m)!sessionVars

\* MigrationSession has the codes of RemiCommon, too.
LEMMA SameCodes ==
  ASSUME NEW m \in Migrations
  PROVE  /\ Session(m)!REMI_SUCCESS = REMI_SUCCESS
         /\ Session(m)!Answers = Answers
         /\ DOMAIN Answers = {"start", "mmap", "write", "end"}
  <1>1. Session(m)!Answers = Answers
    BY DEF Session!Answers, Answers, Session!REMI_SUCCESS, REMI_SUCCESS,
           Session!REMI_ERR_UNKNOWN_CLASS, REMI_ERR_UNKNOWN_CLASS,
           Session!REMI_ERR_FILE_EXISTS, REMI_ERR_FILE_EXISTS, Session!REMI_ERR_USER,
           REMI_ERR_USER, Session!REMI_ERR_IO, REMI_ERR_IO, Session!REMI_ERR_INVALID_OPID,
           REMI_ERR_INVALID_OPID, Session!REMI_ERR_MIGRATION, REMI_ERR_MIGRATION
  <1>2. QED
    BY <1>1 DEF Answers, Session!REMI_SUCCESS, REMI_SUCCESS

LEMMA SameSession ==
  ASSUME NEW m \in Migrations, SameControl(m)
  PROVE  Idles(m)
  BY DEF SameControl, Idles, Session!sessionVars

\* A handler leaves the session alone, or answers the pending call.
AnswerStep(m) ==
  /\ UNCHANGED <<mode, phase, sent>>
  /\ \/ reply'[m] = reply[m]
     \/ /\ reply[m] = "PENDING"
        /\ \/ phase[m] = "lost"
           \/ phase[m] \in DOMAIN Answers /\ reply'[m] \in Answers[phase[m]]

LEMMA AnswerStepMoves ==
  ASSUME NEW m \in Migrations, AnswerStep(m)
  PROVE  Moves(m) \/ Idles(m)
  <1>1. CASE reply'[m] = reply[m]
    BY <1>1 DEF AnswerStep, Idles, Session!sessionVars
  <1>2. CASE reply'[m] # reply[m]
    <2>1. Session(m)!Answer
      BY <1>2, SameCodes DEF AnswerStep, Session!Answer
    <2>2. QED
      BY <2>1 DEF Moves, Session!SessionNext
  <1>3. QED
    BY <1>1, <1>2

LEMMA SenderMoves ==
  ASSUME IInv, NEW m \in Migrations, SenderStep(m)
  PROVE  Moves(m)
  <1>0. TypeOK /\ StartInv(m) /\ MmapInv(m) /\ Len(Plan[m]) \in Nat
    BY PlanDomain DEF IInv, ControlInv
  <1>1. CASE CallStart(m)
    <2>1. Session(m)!Begin
      BY <1>0, <1>1 DEF CallStart, Session!Begin, Session!Outside, StartInv, TypeOK
    <2>2. QED
      BY <2>1 DEF Moves, Session!SessionNext
  <1>2. CASE CallMmap(m) \/ CallWrite(m) \/ CallEnd(m)
    <2>1. Session(m)!CallNext
      <3> USE SameCodes DEF Session!CallNext, Session!Call, Respond, TypeOK
      <3>1. CASE CallMmap(m)
        BY <1>0, <3>1 DEF CallMmap
      <3>2. CASE CallWrite(m)
        BY <1>0, <3>2 DEF CallWrite, NextChunk
      <3>3. CASE CallEnd(m)
        BY <1>0, <3>3 DEF CallEnd, MmapInv
      <3>4. QED
        BY <1>2, <3>1, <3>2, <3>3
    <2>2. QED
      BY <2>1 DEF Moves, Session!SessionNext
  <1>3. CASE Return(m)
    <2>1. Session(m)!Return
      BY <1>0, <1>3, SameCodes DEF Return, Session!Return, TypeOK
    <2>2. QED
      BY <2>1 DEF Moves, Session!SessionNext
  <1>4. CASE LoseCall(m)
    <2>1. Session(m)!Lose
      BY <1>0, <1>4, SameCodes DEF LoseCall, Session!Lose, TypeOK
    <2>2. QED
      BY <2>1 DEF Moves, Session!SessionNext
  <1>5. QED
    BY <1>1, <1>2, <1>3, <1>4 DEF SenderStep, Sender

LEMMA StartMoves ==
  ASSUME IInv, NEW m \in Migrations, StartHandler(m)
  PROVE  AnswerStep(m)
  <1>0. TypeOK /\ StartInv(m)
    BY DEF IInv, ControlInv
  <1>1. phase[m] \in {"start", "lost"} /\ reply[m] = "PENDING"
    BY <1>0 DEF StartHandler, MigrateStartCheck, MigrateStartBefore, MigrateStartCallback,
       MigrateStartOpen, StartInv, StartRuns
  <1>2. QED
    BY <1>0, <1>1 DEF StartHandler, MigrateStartCheck, MigrateStartBefore,
       MigrateStartCallback, MigrateStartOpen, Respond, AnswerStep, Answers, TypeOK

LEMMA WriteMoves ==
  ASSUME IInv, NEW m \in Migrations, NEW n \in DOMAIN Plan[m], WriteHandler(m, n)
  PROVE  AnswerStep(m)
  <1>0. TypeOK /\ WriteInv(m)
    BY DEF IInv, ControlInv
  <1>1. CASE MigrateWriteLookup(m, n) \/ MigrateWriteAck(m, n)
    <2>1. phase[m] \in {"write", "lost"} /\ reply[m] = "PENDING"
      BY <1>0, <1>1 DEF MigrateWriteLookup, MigrateWriteAck, WriteInv, WriteWaits
    <2>2. QED
      BY <1>0, <1>1, <2>1 DEF MigrateWriteLookup, MigrateWriteAck, Respond, AnswerStep,
         Answers, TypeOK
  <1>2. CASE MigrateWriteData(m, n)
    BY <1>2 DEF MigrateWriteData, senderVars, AnswerStep
  <1>3. QED
    BY <1>1, <1>2 DEF WriteHandler

LEMMA MmapMoves ==
  ASSUME IInv, NEW m \in Migrations, MmapHandler(m)
  PROVE  AnswerStep(m)
  <1>0. TypeOK /\ MmapInv(m)
    BY DEF IInv, ControlInv
  <1>1. phase[m] \in {"mmap", "lost"} /\ reply[m] = "PENDING"
    BY <1>0 DEF MmapHandler, MigrateMmapLookup, MigrateMmapMap, MigrateMmapPull,
       MigrateMmapSync, MmapInv, MmapRuns
  <1>2. QED
    BY <1>0, <1>1 DEF MmapHandler, MigrateMmapLookup, MigrateMmapMap, MigrateMmapPull,
       MigrateMmapSync, Respond, AnswerStep, Answers, TypeOK

LEMMA EndMoves ==
  ASSUME IInv, NEW m \in Migrations, EndHandler(m)
  PROVE  AnswerStep(m)
  <1>0. TypeOK /\ EndInv(m)
    BY DEF IInv, ControlInv
  <1>1. CASE MigrateEndLookup(m) \/ MigrateEndClose(m) \/ MigrateEndAnswer(m)
    <2>1. phase[m] \in {"end", "lost"} /\ reply[m] = "PENDING"
      BY <1>0, <1>1 DEF MigrateEndLookup, MigrateEndClose, MigrateEndAnswer, EndInv, EndRuns
    <2>2. QED
      BY <1>0, <1>1, <2>1 DEF MigrateEndLookup, MigrateEndClose, MigrateEndAnswer, Respond,
         HasError, AnswerStep, Answers, TypeOK
  <1>2. CASE MigrateEndErase(m)
    BY <1>2 DEF MigrateEndErase, senderVars, AnswerStep
  <1>3. QED
    BY <1>1, <1>2 DEF EndHandler

LEMMA NextMoves ==
  ASSUME IInv, [Next]_vars, NEW m \in Migrations
  PROVE  [Session(m)!SessionNext]_(Session(m)!sessionVars)
  <1>0. TypeOK
    BY DEF IInv
  <1>1. CASE Application \/ UNCHANGED vars
    BY <1>0, <1>1, ApplicationSameControl, SameSession DEF Idles
  <1>2. ASSUME NEW o \in Migrations, MigrationStep(o)
        PROVE  Moves(m) \/ Idles(m)
    <2>1. CASE o = m
      BY <1>2, <2>1, SenderMoves, StartMoves, WriteMoves, MmapMoves, EndMoves, AnswerStepMoves
         DEF MigrationStep
    <2>2. CASE o # m
      BY <1>0, <1>2, <2>2, OthersSameControl, SameSession
    <2>3. QED
      BY <2>1, <2>2
  <1>3. QED
    BY <1>1, <1>2, NextCases DEF MigrationStep, Moves, Idles

\* The calls come in the order in which RemiClient makes them, and each is
\* answered at most once, by a code that its caller expects.
THEOREM KeepsSessionHolds == Spec => KeepsSession
  <1>1. Init => \A m \in Migrations : Session(m)!SessionInit
    BY DEF Init, Session!SessionInit
  <1>2. IInv /\ [Next]_vars => [\A m \in Migrations :
           [Session(m)!SessionNext]_(Session(m)!sessionVars)]_vars
    BY NextMoves
  <1>3. QED
    BY <1>1, <1>2, InvariantHolds, PTL DEF Spec, KeepsSession
=============================================================================
