---------------------------- MODULE RemiProvider ----------------------------
(***************************************************************************)
(* The migration protocol of REMI: the four RPC handlers of the provider   *)
(* (remi-server.cpp), its registry of migration classes, the files it      *)
(* writes, and the senders as the provider sees them (the calls that       *)
(* remi-client.cpp makes, in the order in which it makes them).            *)
(*                                                                         *)
(* Each RPC is served by a user-level thread (ULT) of its own.  A handler  *)
(* is cut at the points where another ULT may run in between: the two      *)
(* mutexes, the user's callbacks, the I/O, the bulk transfer and the       *)
(* answer.  A handler may be running long after its answer was received.   *)
(*                                                                         *)
(* An operation identifier is a random UUID, so an operation is named by   *)
(* the migration that created it.                                          *)
(***************************************************************************)
EXTENDS RemiCommon, Naturals, Sequences

CONSTANTS
  Migrations,       \* calls of remi_fileset_migrate, one per fileset
  Modes,            \* the transfer methods in use, a subset of AllModes
  Classes,          \* class_key: the pair <name, provider id> of a class
  Callbacks,        \* which callbacks an application registers with a class
  ClassOf,          \* ClassOf[m]: the class of the fileset of m
  Paths,            \* files of the destination, root and name put together
  Preexisting,      \* the files that are there before any migration
  Target,           \* Target[m]: the files of m, in the order of m_files
  Sizes,            \* Sizes[m]: their sizes, in the same order
  Plan,             \* Plan[m]: the migrate_write requests of m, in order
  MaxRegistryCalls  \* bound: how often classes are (de)registered

AllModes == {"mmap", "sequential", "pipelined"}

\* A request writes up to offset end (writeOffset + data.size()) in a file.
WriteRequest == [file : Nat, end : Nat]

Targets(m) == {Target[m][i] : i \in DOMAIN Target[m]}

\* Files are named by a std::set, so a migration has each of them once; the
\* provider receives one size for each file.
ASSUME ShapeAssumption ==
  /\ Modes \subseteq AllModes
  /\ Callbacks \subseteq [before : BOOLEAN, after : BOOLEAN]
  /\ ClassOf \in [Migrations -> Classes]
  /\ Preexisting \subseteq Paths
  /\ Target \in [Migrations -> Seq(Paths)]
  /\ Sizes \in [Migrations -> Seq(Nat)]
  /\ Plan \in [Migrations -> Seq(WriteRequest)]
  /\ MaxRegistryCalls \in Nat
  /\ \A m \in Migrations :
       /\ Len(Sizes[m]) = Len(Target[m])
       /\ \A i, j \in DOMAIN Target[m] : Target[m][i] = Target[m][j] => i = j

\* tl::engine::expose of no segment at all is outside the model.
ASSUME MmapAssumption ==
  \A m \in Migrations :
    "mmap" \in Modes => \E i \in DOMAIN Sizes[m] : Sizes[m][i] > 0

VARIABLES
  (* the senders *)
  mode,                 \* mode[m]: how m transfers its data
  phase,                \* phase[m]: the RPC that the sender of m is in
  sent,                 \* sent[m]: how many migrate_write requests m issued
  reply,                \* reply[m]: the answer to its last RPC, or "PENDING"
  (* the handlers: where the ULT that serves each RPC is *)
  startPc, writePc, bulkPc, endPc,
  (* the provider *)
  m_op_in_progress,     \* the operations of the map of pending operations
  m_mutex,              \* m_mutex[m]: the mutex of operation m is held
  m_error,              \* m_error[m]: the error recorded in operation m
  m_fds,                \* m_fds[m]: the descriptors of operation m are open
  m_migration_classes,  \* the registered classes and their callbacks
  registryCalls,
  (* the file system of the destination *)
  exists,               \* the files that exist
  content               \* content[p]: the pieces whose bytes are all in p

senderVars   == <<mode, phase, sent, reply>>
handlerVars  == <<startPc, writePc, bulkPc, endPc>>
opVars       == <<m_op_in_progress, m_mutex, m_error, m_fds>>
registryVars == <<m_migration_classes, registryCalls>>
diskVars     == <<exists, content>>
vars == <<senderVars, handlerVars, opVars, registryVars, diskVars>>

Requests == UNION {{<<m, n>> : n \in DOMAIN Plan[m]} : m \in Migrations}

\* What m transfers: the data of each request, or with mmap each file that is
\* not empty.
PieceNumbers(m) ==
  IF mode[m] = "mmap" THEN {i \in DOMAIN Sizes[m] : Sizes[m][i] > 0}
                      ELSE DOMAIN Plan[m]

InRange(m, n) ==
  /\ Plan[m][n].file \in DOMAIN Target[m]
  /\ Plan[m][n].end <= Sizes[m][Plan[m][n].file]

PieceFile(m, n) ==
  Target[m][IF mode[m] = "mmap" THEN n ELSE Plan[m][n].file]

Respond(m, code) == reply' = [reply EXCEPT ![m] = code]

\* Variants, each of which differs from the definition that follows it by one
\* slip: no wait for the mutex, no lock, no unlock, an error that is not looked
\* at, not recorded or replaced by a byte count, descriptors not closed, an
\* operation not erased.
NoWait(m) == TRUE
LockDropped(m) == UNCHANGED m_mutex
UnlockForgotten(m) == UNCHANGED m_mutex
NeverError(m) == FALSE
ErrorIgnored(m) == UNCHANGED m_error
RecordByteCount(m) == m_error' = [m_error EXCEPT ![m] = "BYTES"]
FdsKept(m) == UNCHANGED m_fds
EraseForgotten(m) == UNCHANGED m_op_in_progress

\* The mutex of an operation.
Available(m) == ~m_mutex[m]
Lock(m) == m_mutex' = [m_mutex EXCEPT ![m] = TRUE]
Unlock(m) == m_mutex' = [m_mutex EXCEPT ![m] = FALSE]

HasError(m) == m_error[m] # REMI_SUCCESS
RecordError(m) == m_error' = [m_error EXCEPT ![m] = REMI_ERR_IO]
CloseFds(m) == m_fds' = [m_fds EXCEPT ![m] = FALSE]
Erase(m) == m_op_in_progress' = m_op_in_progress \ {m}

\* A variant that looks at the first of the target files only.
FirstFileExists(m) == Target[m] # <<>> /\ Target[m][1] \in exists

\* access() finds one of the target files.
FileExists(m) == Targets(m) \cap exists # {}

\* std::unordered_map::operator[]: a class that is absent is inserted.
Subscript(k) ==
  m_migration_classes' = [m_migration_classes EXCEPT ![k].known = TRUE]

\* Once m wrote to p, nothing is said of the bytes others had put there.
Store(m, P, S) ==
  content' = [p \in Paths |->
                IF p \in P
                  THEN {q \in content[p] : q[1] = m} \cup {q \in S : PieceFile(m, q[2]) = p}
                  ELSE content[p]]

\* open with O_CREAT | O_TRUNC
Create(P) ==
  /\ exists' = exists \cup P
  /\ content' = [p \in Paths |-> IF p \in P THEN {} ELSE content[p]]

NoClass == [known |-> FALSE, before |-> FALSE, after |-> FALSE]

Init ==
  /\ mode \in [Migrations -> Modes]
  /\ phase = [m \in Migrations |-> "idle"]
  /\ sent = [m \in Migrations |-> 0]
  /\ reply = [m \in Migrations |-> "PENDING"]
  /\ startPc = [m \in Migrations |-> "none"]
  /\ writePc = [r \in Requests |-> "none"]
  /\ bulkPc = [m \in Migrations |-> "none"]
  /\ endPc = [m \in Migrations |-> "none"]
  /\ m_op_in_progress = {}
  /\ m_mutex = [m \in Migrations |-> FALSE]
  /\ m_error = [m \in Migrations |-> REMI_SUCCESS]
  /\ m_fds = [m \in Migrations |-> FALSE]
  /\ m_migration_classes = [k \in Classes |-> NoClass]
  /\ registryCalls = 0
  /\ exists = Preexisting
  /\ content = [p \in Paths |-> {}]

-----------------------------------------------------------------------------
(* The sender: one RPC at a time, the next one issued on the answer.       *)

CallStart(m) ==
  /\ phase[m] = "idle"
  /\ phase' = [phase EXCEPT ![m] = "start"]
  /\ startPc' = [startPc EXCEPT ![m] = "called"]
  /\ UNCHANGED <<mode, sent, reply, writePc, bulkPc, endPc>>
  /\ UNCHANGED <<opVars, registryVars, diskVars>>

CallMmap(m) ==
  /\ phase[m] = "start"
  /\ reply[m] = REMI_SUCCESS
  /\ mode[m] = "mmap"
  /\ phase' = [phase EXCEPT ![m] = "mmap"]
  /\ bulkPc' = [bulkPc EXCEPT ![m] = "called"]
  /\ Respond(m, "PENDING")
  /\ UNCHANGED <<mode, sent, startPc, writePc, endPc>>
  /\ UNCHANGED <<opVars, registryVars, diskVars>>

\* A variant in which the next chunk does not wait for the answer to the last.
NextChunkAtOnce(m) ==
  \/ reply[m] \in {"PENDING", REMI_SUCCESS}
  \/ mode[m] = "sequential"

\* The loop without ABT-IO ("sequential") sends the next chunk whatever the
\* answer to the last one; the loop with ABT-IO ("pipelined") stops at an error.
NextChunk(m) ==
  /\ reply[m] # "PENDING"
  /\ reply[m] = REMI_SUCCESS \/ mode[m] = "sequential"

CallWrite(m) ==
  /\ mode[m] # "mmap"
  /\ \/ phase[m] = "start" /\ reply[m] = REMI_SUCCESS
     \/ phase[m] = "write" /\ NextChunk(m)
  /\ sent[m] < Len(Plan[m])
  /\ phase' = [phase EXCEPT ![m] = "write"]
  /\ sent' = [sent EXCEPT ![m] = @ + 1]
  /\ writePc' = [writePc EXCEPT ![<<m, sent[m] + 1>>] = "called"]
  /\ Respond(m, "PENDING")
  /\ UNCHANGED <<mode, startPc, bulkPc, endPc>>
  /\ UNCHANGED <<opVars, registryVars, diskVars>>

CallEnd(m) ==
  /\ reply[m] = REMI_SUCCESS
  /\ \/ phase[m] = "mmap"
     \/ phase[m] \in {"start", "write"} /\ mode[m] # "mmap" /\ sent[m] = Len(Plan[m])
  /\ phase' = [phase EXCEPT ![m] = "end"]
  /\ endPc' = [endPc EXCEPT ![m] = "called"]
  /\ Respond(m, "PENDING")
  /\ UNCHANGED <<mode, sent, startPc, writePc, bulkPc>>
  /\ UNCHANGED <<opVars, registryVars, diskVars>>

\* remi_fileset_migrate returns the answer to the last RPC it made.
Return(m) ==
  /\ reply[m] # "PENDING"
  /\ \/ phase[m] \in {"start", "mmap"} /\ reply[m] # REMI_SUCCESS
     \/ /\ phase[m] = "write" /\ reply[m] # REMI_SUCCESS
        /\ mode[m] = "pipelined" \/ sent[m] = Len(Plan[m])
     \/ phase[m] = "end"
  /\ phase' = [phase EXCEPT ![m] = "returned"]
  /\ UNCHANGED <<mode, sent, reply>>
  /\ UNCHANGED <<handlerVars, opVars, registryVars, diskVars>>

\* The RPC fails and the exception leaves remi_fileset_migrate, or the sender
\* is gone: it makes no further call, and the provider is not told.
LoseCall(m) ==
  /\ phase[m] \in {"start", "mmap", "write", "end"}
  /\ phase' = [phase EXCEPT ![m] = "lost"]
  /\ UNCHANGED <<mode, sent, reply>>
  /\ UNCHANGED <<handlerVars, opVars, registryVars, diskVars>>

-----------------------------------------------------------------------------
(* remi_provider::migrate_start                                            *)

MigrateStartCheck(m) ==
  /\ startPc[m] = "called"
  /\ \/ /\ ~m_migration_classes[ClassOf[m]].known
        /\ Respond(m, REMI_ERR_UNKNOWN_CLASS)
        /\ startPc' = [startPc EXCEPT ![m] = "rejected"]
     \/ /\ m_migration_classes[ClassOf[m]].known
        /\ FileExists(m)
        /\ Respond(m, REMI_ERR_FILE_EXISTS)
        /\ startPc' = [startPc EXCEPT ![m] = "rejected"]
     \/ /\ m_migration_classes[ClassOf[m]].known
        /\ ~FileExists(m)
        /\ startPc' = [startPc EXCEPT ![m] = "checked"]
        /\ UNCHANGED reply
  /\ UNCHANGED <<mode, phase, sent, writePc, bulkPc, endPc>>
  /\ UNCHANGED <<opVars, registryVars, diskVars>>

\* The status is 1 until the "before" callback sets it, so a class without
\* such a callback is refused as if its callback had said no.
MigrateStartBefore(m) ==
  /\ startPc[m] = "checked"
  /\ Subscript(ClassOf[m])
  /\ \/ /\ m_migration_classes[ClassOf[m]].before
        /\ startPc' = [startPc EXCEPT ![m] = "calling"]
        /\ UNCHANGED reply
     \/ /\ ~m_migration_classes[ClassOf[m]].before
        /\ Respond(m, REMI_ERR_USER)
        /\ startPc' = [startPc EXCEPT ![m] = "rejected"]
  /\ UNCHANGED <<mode, phase, sent, writePc, bulkPc, endPc, registryCalls>>
  /\ UNCHANGED <<opVars, diskVars>>

\* The "before" callback returns zero, or anything else.
MigrateStartCallback(m) ==
  /\ startPc[m] = "calling"
  /\ \/ /\ startPc' = [startPc EXCEPT ![m] = "accepted"]
        /\ UNCHANGED reply
     \/ /\ Respond(m, REMI_ERR_USER)
        /\ startPc' = [startPc EXCEPT ![m] = "refused"]
  /\ UNCHANGED <<mode, phase, sent, writePc, bulkPc, endPc>>
  /\ UNCHANGED <<opVars, registryVars, diskVars>>

\* All the files are opened and the operation stored, or the i-th open fails
\* and the files before it stay behind, empty and closed.
MigrateStartOpen(m) ==
  /\ startPc[m] = "accepted"
  /\ \/ /\ Create(Targets(m))
        /\ m_op_in_progress' = m_op_in_progress \cup {m}
        /\ m_fds' = [m_fds EXCEPT ![m] = TRUE]
        /\ Respond(m, REMI_SUCCESS)
        /\ startPc' = [startPc EXCEPT ![m] = "opened"]
     \/ /\ \E i \in DOMAIN Target[m] : Create({Target[m][j] : j \in 1..(i - 1)})
        /\ Respond(m, REMI_ERR_IO)
        /\ startPc' = [startPc EXCEPT ![m] = "broken"]
        /\ UNCHANGED <<m_op_in_progress, m_fds>>
  /\ UNCHANGED <<mode, phase, sent, writePc, bulkPc, endPc, m_mutex, m_error>>
  /\ UNCHANGED registryVars

-----------------------------------------------------------------------------
(* remi_provider::migrate_write                                            *)

MigrateWriteLookup(m, n) ==
  /\ writePc[<<m, n>>] = "called"
  /\ \/ /\ m \notin m_op_in_progress
        /\ Respond(m, REMI_ERR_INVALID_OPID)
        /\ writePc' = [writePc EXCEPT ![<<m, n>>] = "rejected"]
     \/ /\ m \in m_op_in_progress
        /\ writePc' = [writePc EXCEPT ![<<m, n>>] = "located"]
        /\ UNCHANGED reply
  /\ UNCHANGED <<mode, phase, sent, startPc, bulkPc, endPc>>
  /\ UNCHANGED <<opVars, registryVars, diskVars>>

\* With the mutex of the operation: a request out of range drops the operation
\* (its descriptors stay open); any other is answered before it is carried out.
MigrateWriteAck(m, n) ==
  /\ writePc[<<m, n>>] = "located"
  /\ Available(m)
  /\ \/ /\ ~InRange(m, n)
        /\ Erase(m)
        /\ Respond(m, REMI_ERR_IO)
        /\ writePc' = [writePc EXCEPT ![<<m, n>>] = "rejected"]
        /\ UNCHANGED m_mutex
     \/ /\ InRange(m, n)
        /\ Lock(m)
        /\ Respond(m, REMI_SUCCESS)
        /\ writePc' = [writePc EXCEPT ![<<m, n>>] = "acked"]
        /\ UNCHANGED m_op_in_progress
  /\ UNCHANGED <<mode, phase, sent, startPc, bulkPc, endPc, m_error, m_fds>>
  /\ UNCHANGED <<registryVars, diskVars>>

\* pwrite writes everything, or falls short and the operation remembers it.
\* On a closed descriptor it can only fail.
MigrateWriteData(m, n) ==
  /\ writePc[<<m, n>>] = "acked"
  /\ \/ /\ m_fds[m]
        /\ Store(m, {PieceFile(m, n)}, {<<m, n>>})
        /\ writePc' = [writePc EXCEPT ![<<m, n>>] = "written"]
        /\ UNCHANGED m_error
     \/ /\ Store(m, {PieceFile(m, n)}, {})
        /\ writePc' = [writePc EXCEPT ![<<m, n>>] = "short"]
        /\ RecordError(m)
  /\ Unlock(m)
  /\ UNCHANGED <<startPc, bulkPc, endPc, m_op_in_progress, m_fds, exists>>
  /\ UNCHANGED <<senderVars, registryVars>>

-----------------------------------------------------------------------------
(* remi_provider::migrate_mmap, which does not take the operation's mutex  *)

MigrateMmapLookup(m) ==
  /\ bulkPc[m] = "called"
  /\ \/ /\ m \notin m_op_in_progress
        /\ Respond(m, REMI_ERR_INVALID_OPID)
        /\ bulkPc' = [bulkPc EXCEPT ![m] = "failed"]
     \/ /\ m \in m_op_in_progress
        /\ bulkPc' = [bulkPc EXCEPT ![m] = "located"]
        /\ UNCHANGED reply
  /\ UNCHANGED <<mode, phase, sent, startPc, writePc, endPc>>
  /\ UNCHANGED <<opVars, registryVars, diskVars>>

\* ftruncate gives each file its size, or fails and the operation is dropped.
MigrateMmapMap(m) ==
  /\ bulkPc[m] = "located"
  /\ Store(m, Targets(m), {})
  /\ \/ /\ bulkPc' = [bulkPc EXCEPT ![m] = "mapped"]
        /\ UNCHANGED <<reply, m_op_in_progress>>
     \/ /\ bulkPc' = [bulkPc EXCEPT ![m] = "failed"]
        /\ Erase(m)
        /\ Respond(m, REMI_ERR_IO)
  /\ UNCHANGED <<mode, phase, sent, startPc, writePc, endPc>>
  /\ UNCHANGED <<m_mutex, m_error, m_fds, registryVars, exists>>

\* The pull moves everything, or less; then the operation is left as it is.  An
\* exception of the transfer ends the handler where it stands and answers nothing:
\* in Spec a handler that takes no further step, which Fairness rules out.
MigrateMmapPull(m) ==
  /\ bulkPc[m] = "mapped"
  /\ \/ /\ Store(m, Targets(m), {<<m, i>> : i \in PieceNumbers(m)})
        /\ bulkPc' = [bulkPc EXCEPT ![m] = "pulled"]
        /\ UNCHANGED reply
     \/ /\ Store(m, Targets(m), {})
        /\ bulkPc' = [bulkPc EXCEPT ![m] = "short"]
        /\ Respond(m, REMI_ERR_MIGRATION)
  /\ UNCHANGED <<mode, phase, sent, startPc, writePc, endPc, exists>>
  /\ UNCHANGED <<opVars, registryVars>>

MigrateMmapSync(m) ==
  /\ bulkPc[m] = "pulled"
  /\ \/ /\ bulkPc' = [bulkPc EXCEPT ![m] = "synced"]
        /\ Respond(m, REMI_SUCCESS)
        /\ UNCHANGED m_op_in_progress
     \/ /\ bulkPc' = [bulkPc EXCEPT ![m] = "failed"]
        /\ Erase(m)
        /\ Respond(m, REMI_ERR_IO)
  /\ UNCHANGED <<mode, phase, sent, startPc, writePc, endPc>>
  /\ UNCHANGED <<m_mutex, m_error, m_fds, registryVars, diskVars>>

-----------------------------------------------------------------------------
(* remi_provider::migrate_end                                              *)

MigrateEndLookup(m) ==
  /\ endPc[m] = "called"
  /\ \/ /\ m \notin m_op_in_progress
        /\ Respond(m, REMI_ERR_INVALID_OPID)
        /\ endPc' = [endPc EXCEPT ![m] = "failed"]
     \/ /\ m \in m_op_in_progress
        /\ endPc' = [endPc EXCEPT ![m] = "located"]
        /\ UNCHANGED reply
  /\ UNCHANGED <<mode, phase, sent, startPc, writePc, bulkPc>>
  /\ UNCHANGED <<opVars, registryVars, diskVars>>

\* With the mutex, the descriptors are closed.  A recorded error ends the
\* operation; otherwise the class of the fileset is found, or inserted, and
\* its "after" callback called if it has one.
MigrateEndClose(m) ==
  /\ endPc[m] = "located"
  /\ Available(m)
  /\ CloseFds(m)
  /\ \/ /\ HasError(m)
        /\ Erase(m)
        /\ Respond(m, m_error[m])
        /\ endPc' = [endPc EXCEPT ![m] = "failed"]
        /\ UNCHANGED <<m_mutex, m_migration_classes>>
     \/ /\ ~HasError(m)
        /\ Lock(m)
        /\ Subscript(ClassOf[m])
        /\ endPc' = [endPc EXCEPT ![m] =
             IF m_migration_classes[ClassOf[m]].after THEN "calling" ELSE "silent"]
        /\ UNCHANGED <<reply, m_op_in_progress>>
  /\ UNCHANGED <<mode, phase, sent, startPc, writePc, bulkPc, m_error>>
  /\ UNCHANGED <<registryCalls, diskVars>>

\* The callback, if any, returns; the answer is sent and the mutex released.
MigrateEndAnswer(m) ==
  /\ \/ endPc[m] = "calling" /\ \E code \in {REMI_SUCCESS, REMI_ERR_USER} : Respond(m, code)
     \/ endPc[m] = "silent" /\ Respond(m, REMI_SUCCESS)
  /\ Unlock(m)
  /\ endPc' = [endPc EXCEPT ![m] = "answered"]
  /\ UNCHANGED <<mode, phase, sent, startPc, writePc, bulkPc>>
  /\ UNCHANGED <<m_op_in_progress, m_error, m_fds, registryVars, diskVars>>

MigrateEndErase(m) ==
  /\ endPc[m] = "answered"
  /\ Erase(m)
  /\ endPc' = [endPc EXCEPT ![m] = "erased"]
  /\ UNCHANGED <<startPc, writePc, bulkPc, m_mutex, m_error, m_fds>>
  /\ UNCHANGED <<senderVars, registryVars, diskVars>>

-----------------------------------------------------------------------------
(* The application: a call that is refused (the class is there already, or *)
(* is not there) changes nothing.                                          *)

RegisterClass(k, cb) ==
  /\ registryCalls < MaxRegistryCalls
  /\ ~m_migration_classes[k].known
  /\ m_migration_classes' = [m_migration_classes EXCEPT
       ![k] = [known |-> TRUE, before |-> cb.before, after |-> cb.after]]
  /\ registryCalls' = registryCalls + 1
  /\ UNCHANGED <<senderVars, handlerVars, opVars, diskVars>>

DeregisterClass(k) ==
  /\ registryCalls < MaxRegistryCalls
  /\ m_migration_classes[k].known
  /\ m_migration_classes' = [m_migration_classes EXCEPT ![k] = NoClass]
  /\ registryCalls' = registryCalls + 1
  /\ UNCHANGED <<senderVars, handlerVars, opVars, diskVars>>

-----------------------------------------------------------------------------

WriteAtRest(pc) == pc \in {"none", "written", "short", "rejected"}

\* Nobody has anything left to do for m.
AtRest(m) ==
  /\ phase[m] \in {"returned", "lost"}
  /\ startPc[m] \in {"rejected", "refused", "broken", "opened"}
  /\ \A n \in DOMAIN Plan[m] : WriteAtRest(writePc[<<m, n>>])
  /\ bulkPc[m] \in {"none", "failed", "short", "synced"}
  /\ endPc[m] \in {"none", "failed", "erased"}

Terminated ==
  /\ \A m \in Migrations : AtRest(m)
  /\ UNCHANGED vars

Sender(m) ==
  \/ CallMmap(m) \/ CallWrite(m) \/ CallEnd(m) \/ Return(m)

StartHandler(m) ==
  \/ MigrateStartCheck(m) \/ MigrateStartBefore(m)
  \/ MigrateStartCallback(m) \/ MigrateStartOpen(m)

WriteHandler(m, n) ==
  \/ MigrateWriteLookup(m, n) \/ MigrateWriteAck(m, n) \/ MigrateWriteData(m, n)

MmapHandler(m) ==
  \/ MigrateMmapLookup(m) \/ MigrateMmapMap(m) \/ MigrateMmapPull(m) \/ MigrateMmapSync(m)

EndHandler(m) ==
  \/ MigrateEndLookup(m) \/ MigrateEndClose(m) \/ MigrateEndAnswer(m) \/ MigrateEndErase(m)

Application ==
  \E k \in Classes :
    \/ \E cb \in Callbacks : RegisterClass(k, cb)
    \/ DeregisterClass(k)

Next ==
  \/ \E m \in Migrations :
       \/ CallStart(m) \/ Sender(m) \/ LoseCall(m)
       \/ StartHandler(m) \/ MmapHandler(m) \/ EndHandler(m)
       \/ \E n \in DOMAIN Plan[m] : WriteHandler(m, n)
  \/ Application
  \/ Terminated

Spec == Init /\ [][Next]_vars

\* Argobots runs every ULT of the pool that is ready, callbacks return, bulk
\* transfers move something without an exception, and a sender that gets its
\* answer goes on.  Nothing makes a migration begin, an
\* RPC fail, or an application (de)register a class.
Fairness ==
  \A m \in Migrations :
    /\ WF_vars(Sender(m))
    /\ WF_vars(StartHandler(m))
    /\ WF_vars(MmapHandler(m))
    /\ WF_vars(EndHandler(m))
    /\ \A n \in DOMAIN Plan[m] : WF_vars(WriteHandler(m, n))

FairSpec == Spec /\ Fairness

-----------------------------------------------------------------------------
(* Properties                                                              *)

Codes == ReplyCodes \cup {"PENDING"}

\* Each variable has its type.
TypeOK ==
  /\ mode \in [Migrations -> Modes]
  /\ phase \in [Migrations -> {"idle", "start", "mmap", "write", "end", "returned", "lost"}]
  /\ sent \in [Migrations -> Nat]
  /\ reply \in [Migrations -> Codes]
  /\ startPc \in [Migrations -> {"none", "called", "checked", "calling", "accepted",
                                 "rejected", "refused", "broken", "opened"}]
  /\ writePc \in [Requests -> {"none", "called", "located", "acked", "written", "short",
                               "rejected"}]
  /\ bulkPc \in [Migrations -> {"none", "called", "located", "mapped", "pulled", "short",
                                "synced", "failed"}]
  /\ endPc \in [Migrations -> {"none", "called", "located", "calling", "silent", "answered",
                               "erased", "failed"}]
  /\ m_op_in_progress \subseteq Migrations
  /\ m_mutex \in [Migrations -> BOOLEAN]
  /\ m_error \in [Migrations -> {REMI_SUCCESS, REMI_ERR_IO}]
  /\ m_fds \in [Migrations -> BOOLEAN]
  /\ m_migration_classes \in [Classes -> [known : BOOLEAN, before : BOOLEAN, after : BOOLEAN]]
  /\ registryCalls \in Nat
  /\ exists \subseteq Paths
  /\ content \in [Paths -> SUBSET (Migrations \X Nat)]

\* The handler has read the operation out of the map and still uses it.
UsesOp(m) ==
  \/ \E n \in DOMAIN Plan[m] : writePc[<<m, n>>] \in {"located", "acked"}
  \/ bulkPc[m] \in {"located", "mapped", "pulled"}
  \/ endPc[m] \in {"located", "calling", "silent", "answered"}

\* A handler releases the map's mutex and keeps a bare pointer to the operation
\* (op = it->second.get()).  No other handler may erase the operation, which
\* destroys it, while that pointer is in use.
NoDanglingOp == \A m \in Migrations : UsesOp(m) => m \in m_op_in_progress

\* migrate_write answers before it writes, so the sender may already be in
\* migrate_end: the descriptors that migrate_end closes must not be the ones of
\* a pwrite, a mapping or a transfer that is still to come.
DescriptorsOutliveWrites ==
  \A m \in Migrations :
    \/ \E n \in DOMAIN Plan[m] : writePc[<<m, n>>] = "acked"
    \/ bulkPc[m] \in {"located", "mapped", "pulled"}
    => m_fds[m]

\* The pieces of m whose transfer is over and done.
Landed(m) ==
  IF mode[m] = "mmap"
    THEN IF bulkPc[m] = "synced" THEN PieceNumbers(m) ELSE {}
    ELSE {n \in DOMAIN Plan[m] : writePc[<<m, n>>] = "written"}

\* migrate_end has taken the fileset over.
Published(m) == endPc[m] \in {"calling", "silent", "answered", "erased"}

\* The "after" callback of a class sees the whole fileset: when it is called
\* every write has been carried out in full, the one answered early included,
\* and no error has been forgotten on the way.
PublishedComplete ==
  \A m \in Migrations : Published(m) => Landed(m) = PieceNumbers(m)

\* At most two requests of a migration are with the provider, and the later
\* one waits behind the pwrite of the earlier one.
OneBehind ==
  \A m \in Migrations : \A i, j \in DOMAIN Plan[m] :
    /\ i < j
    /\ ~WriteAtRest(writePc[<<m, i>>])
    /\ ~WriteAtRest(writePc[<<m, j>>])
    => j = i + 1 /\ writePc[<<m, i>>] = "acked" /\ writePc[<<m, j>>] # "acked"

\* No other migration opened a file of m.
Exclusive(m) ==
  \A o \in Migrations \ {m} :
    Targets(o) \cap Targets(m) # {} => startPc[o] \notin {"broken", "opened"}

Intact(m) ==
  \A n \in PieceNumbers(m) : <<m, n>> \in content[PieceFile(m, n)]

\* When remi_fileset_migrate returns REMI_SUCCESS (upon which the source may be
\* removed) all the bytes are in the files of the destination, and they stay
\* there whatever other migrations of the same files are turned away.
SuccessIsDurable ==
  \A m \in Migrations :
    phase[m] = "returned" /\ reply[m] = REMI_SUCCESS /\ Exclusive(m) => Intact(m)

\* A caller that got its answer from migrate_end, or was turned away by
\* migrate_start, leaves no operation and no open descriptor at the provider.
NothingLeftBehind ==
  \A m \in Migrations :
    /\ AtRest(m) /\ phase[m] = "returned"
    /\ endPc[m] # "none" \/ startPc[m] # "opened"
    => m \notin m_op_in_progress /\ ~m_fds[m]

\* A file that was there before REMI started is never created anew, not even
\* by a migration one of whose other files fails to open.
PreexistingUntouched ==
  \A m \in Migrations :
    startPc[m] \in {"checked", "calling", "accepted", "broken", "opened"}
      => Targets(m) \cap Preexisting = {}

\* A call of remi_fileset_migrate returns, with whatever result, unless one of
\* its RPCs fails: no handler waits forever for the mutex of an operation.
EveryCallReturns ==
  \A m \in Migrations : phase[m] = "start" ~> phase[m] \in {"returned", "lost"}

\* An operation leaves the map, unless its sender was lost or was told of a
\* short transfer: these two are never reclaimed.
OpsAreReclaimed ==
  \A m \in Migrations :
    m \in m_op_in_progress
      ~> m \notin m_op_in_progress \/ phase[m] = "lost" \/ bulkPc[m] = "short"

\* The protocol keeps the promise of FilesetMigration.
Stage(m) ==
  IF Published(m) THEN "published" ELSE IF startPc[m] = "opened" THEN "open" ELSE "new"

Outcome(m) ==
  IF phase[m] # "returned" THEN "none"
  ELSE IF reply[m] = REMI_SUCCESS THEN "success"
  ELSE IF reply[m] = REMI_ERR_USER THEN "refused" ELSE "failure"

Abstract == INSTANCE FilesetMigration WITH
  stage   <- [m \in Migrations |-> Stage(m)],
  missing <- [m \in Migrations |-> PieceNumbers(m) \ Landed(m)],
  outcome <- [m \in Migrations |-> Outcome(m)]

\* What the caller is told agrees with what happened: success only for a
\* fileset that was taken over whole, failure only for one that never will be.
KeepsPromise == Abstract!Promise

\* Each RPC is answered once and by a code that its caller expects, and the
\* calls come in the order that RemiClient makes them in.
Session(m) == INSTANCE MigrationSession WITH
  mode <- mode[m], phase <- phase[m], sent <- sent[m], total <- Len(Plan[m]),
  reply <- reply[m]

KeepsSession ==
  /\ \A m \in Migrations : Session(m)!SessionInit
  /\ [][\A m \in Migrations : [Session(m)!SessionNext]_(Session(m)!sessionVars)]_vars

-----------------------------------------------------------------------------
(* Claims of the documentation that the code does not meet                 *)

\* "check if any of the target files already exist (we don't want to
\* overwrite)": opening the files of a migration truncates no file.
NeverOverwrites ==
  [][\A m \in Migrations : MigrateStartOpen(m) => Targets(m) \cap exists = {}]_vars

\* A class that was deregistered, or never registered, is in the registry only
\* once the application registers it.
ClassesComeFromRegister ==
  [][\A k \in Classes :
       ~m_migration_classes[k].known /\ m_migration_classes'[k].known
         => \E cb \in Callbacks : RegisterClass(k, cb)]_vars

\* A migration is aborted with REMI_ERR_USER only by a callback that returned a
\* value other than zero, so not by a class that has no callback to call.
UserErrorOnlyFromCallback ==
  \A m \in Migrations :
    phase[m] = "returned" /\ reply[m] = REMI_ERR_USER => startPc[m] # "rejected"
=============================================================================
