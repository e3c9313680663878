------------------------------ MODULE RemiClient ------------------------------
(***************************************************************************)
(* remi_fileset_migrate (remi-client.cpp): one caller migrates one         *)
(* fileset, perhaps several times.  The call takes the members of the      *)
(* fileset out while the first RPCs are made, reads the source files chunk *)
(* by chunk into one buffer or two, and may remove the source at the end.  *)
(*                                                                         *)
(* The provider is the environment: it answers as MigrationSession allows. *)
(* Bytes are told apart by where in the source they come from.  mmap       *)
(* reports a failure as MAP_FAILED, for which the code does not look (it   *)
(* looks for NULL); what is then exposed is undefined, and mappings        *)
(* succeed here.                                                           *)
(***************************************************************************)
EXTENDS RemiCommon, Naturals, Sequences, FiniteSets, SequencesExt

CONSTANTS
  Files,        \* the names of the files
  Registered,   \* those registered with the fileset one by one
  InDirectory,  \* those that may lie in the directories registered with it
  Size,         \* Size[f]: the size of the file
  XferSize,     \* m_xfer_size, which remi_fileset_set_xfer_size keeps above 0
  OwnRoot,      \* the root the fileset was created with
  RemoteRoots,
  InitialDisk,  \* the files of the client's host: <<root, name>>
  SameHost,     \* the provider's files are on the client's host, too
  Modes,
  Faults,       \* what may go wrong: a read falls "short", a file may "appear"
                \* in a directory, an RPC may "throw"
  MaxCalls      \* bound: how often remi_fileset_migrate is called

Roots == {OwnRoot} \cup RemoteRoots

ASSUME ClientAssumption ==
  /\ IsFiniteSet(Files)
  /\ Registered \subseteq Files /\ InDirectory \subseteq Files
  /\ Size \in [Files -> Nat]
  /\ XferSize \in Nat \ {0}
  /\ InitialDisk \subseteq Roots \X Files
  /\ Modes \subseteq {"mmap", "sequential", "pipelined"}
  /\ SameHost \in BOOLEAN
  /\ MaxCalls \in Nat

VARIABLES
  m_root, m_files, m_directories,  \* the fileset; of the directories we keep
                                   \* the names that may lie in them
  tmp,                   \* the members that were moved out: <<>> or a triple
  disk,                  \* the files of the client's host
  mode, remote_root, remove_source,  \* the arguments of the call
  files,                 \* the files it migrates, in order
  opened,                \* those whose descriptor (or mapping) the call keeps open
  pc,                    \* where the call is; "idle" outside
  phase, reply,          \* the RPC it waits for and the answer, as in MigrationSession
  requests,              \* the migrate_write requests it made
  i,                     \* the file that is being opened or sent
  current_chunk_offset,  \* where the next read begins
  remaining_size,        \* how much of the file is not read yet
  position,              \* where the descriptor of file i stands: read() moves it
  current_buffer, previous_buffer, previous_chunk_offset, can_stop,
  result, calls

filesetVars == <<m_root, m_files, m_directories, tmp>>
argVars     == <<mode, remote_root, remove_source, files>>
offsetVars  == <<i, current_chunk_offset, remaining_size>>
bufferVars  == <<current_buffer, previous_buffer, previous_chunk_offset, can_stop>>
loopVars    == <<offsetVars, bufferVars, position>>
endVars     == <<disk, result, calls>>
vars == <<filesetVars, argVars, opened, pc, phase, reply, requests, loopVars, endVars>>

\* What a buffer holds: `got' bytes of a file from an offset on, and behind them,
\* up to `size', what it held before.
NoBuffer == [file |-> 0, offset |-> 0, size |-> 0, got |-> 0]

\* A read may fail or fall short; the code does not look at what it returns.
Read(n, offset, size) ==
  {[file |-> n, offset |-> offset, size |-> size, got |-> got] :
     got \in IF "short" \in Faults THEN 0 .. size ELSE {size}}

\* Variant: every chunk has the full size.
FullChunk(remaining) == XferSize

ChunkSize(remaining) == IF remaining < XferSize THEN remaining ELSE XferSize

SizeOf(n) == IF n \in DOMAIN files THEN Size[files[n]] ELSE 0

\* remi_fileset_walkthrough: the files registered, and those that are in the
\* directories at this moment.
Walkthrough == m_files \cup {f \in m_directories : <<m_root, f>> \in disk}

\* The members are moved out, and the fileset describes the files at the
\* destination instead; later they are put back.
MoveOut(names, root) ==
  /\ tmp' = <<m_root, m_files, m_directories>>
  /\ m_root' = root
  /\ m_files' = names
  /\ m_directories' = {}

PutBack ==
  /\ m_root' = tmp[1] /\ m_files' = tmp[2] /\ m_directories' = tmp[3]
  /\ tmp' = <<>>

\* The return of remi_fileset_migrate.
ReturnWith(code) == pc' = "idle" /\ phase' = "returned" /\ result' = code

\* cleanup() closes the descriptors (unmaps the segments) kept so far.
Cleanup == opened' = {}

\* Variant: the answer to the last RPC is taken for that to the new one.
IssueStale(rpc) == phase' = rpc /\ UNCHANGED reply

Issue(rpc) == phase' = rpc /\ reply' = "PENDING"

\* Variant: waits for a success.
AnsweredWell == reply = REMI_SUCCESS

Answered == reply # "PENDING"

Send(n, offset, buffer) ==
  requests' = Append(requests, [file |-> n, offset |-> offset, data |-> buffer])

\* Variant: the offset is not set back.
StartFileAtChunk(n) ==
  /\ i' = n
  /\ UNCHANGED current_chunk_offset /\ position' = 0
  /\ remaining_size' = SizeOf(n)

\* The first chunk of file n is yet to be read, from a fresh descriptor.
StartFile(n) ==
  /\ i' = n
  /\ current_chunk_offset' = 0 /\ position' = 0
  /\ remaining_size' = SizeOf(n)

Init ==
  /\ m_root = OwnRoot /\ m_files = Registered /\ m_directories = InDirectory
  /\ tmp = <<>>
  /\ disk = InitialDisk
  /\ mode \in Modes /\ remote_root \in RemoteRoots /\ remove_source = FALSE
  /\ files = <<>> /\ opened = {} /\ pc = "idle" /\ phase = "idle" /\ reply = "PENDING"
  /\ requests = <<>>
  /\ i = 0 /\ current_chunk_offset = 0 /\ remaining_size = 0 /\ position = 0
  /\ current_buffer = NoBuffer /\ previous_buffer = NoBuffer
  /\ previous_chunk_offset = 0 /\ can_stop = FALSE
  /\ result = REMI_SUCCESS /\ calls = 0

-----------------------------------------------------------------------------
(* Up to the answer to migrate_start                                       *)

\* A null handle, fileset or root, or a root that is not absolute.
InvalidArgument ==
  /\ pc = "idle" /\ calls < MaxCalls
  /\ result' = REMI_ERR_INVALID_ARG
  /\ calls' = calls + 1
  /\ UNCHANGED <<filesetVars, argVars, opened, pc, phase, reply, requests, loopVars, disk>>

\* Lists the files to migrate.
MigrateStart(md, root, remove) ==
  /\ pc = "idle" /\ calls < MaxCalls
  /\ mode' = md /\ remote_root' = root /\ remove_source' = remove
  /\ files' = SetToSeq(Walkthrough)
  /\ pc' = "open" /\ i' = 1 /\ opened' = {} /\ requests' = <<>>
  /\ calls' = calls + 1
  /\ UNCHANGED <<filesetVars, phase, reply, current_chunk_offset, remaining_size, position>>
  /\ UNCHANGED <<bufferVars, disk, result>>

Opening == pc = "open" /\ i <= Len(files)

\* With mmap an empty file is closed again, and any other is mapped and then
\* closed.
OpenFile ==
  /\ Opening /\ <<m_root, files[i]>> \in disk
  /\ opened' = IF mode = "mmap" /\ SizeOf(i) = 0 THEN opened ELSE opened \cup {i}
  /\ i' = i + 1
  /\ UNCHANGED <<filesetVars, argVars, pc, phase, reply, requests, current_chunk_offset>>
  /\ UNCHANGED <<remaining_size, position, bufferVars, endVars>>

\* Variant: the files opened before stay open.
OpenFailsLeaving(code) ==
  /\ Opening
  /\ ReturnWith(code) /\ UNCHANGED opened
  /\ UNCHANGED <<filesetVars, argVars, reply, requests, loopVars, disk, calls>>

\* A file is not there or cannot be opened (REMI_ERR_UNKNOWN_FILE), or fstat of
\* it fails and it is closed with the others (REMI_ERR_IO).
OpenFails(code) ==
  /\ Opening
  /\ Cleanup /\ ReturnWith(code)
  /\ UNCHANGED <<filesetVars, argVars, reply, requests, loopVars, disk, calls>>

\* All are open: the fileset describes the destination for migrate_start.
Opened ==
  /\ pc = "open" /\ i > Len(files)
  /\ MoveOut(ToSet(files), remote_root)
  /\ pc' = "start" /\ Issue("start")
  /\ UNCHANGED <<argVars, opened, requests, loopVars, endVars>>

\* Refused: the members that were moved out are not put back.
StartRefused ==
  /\ pc = "start" /\ reply \notin {"PENDING", REMI_SUCCESS}
  /\ Cleanup /\ ReturnWith(reply)
  /\ tmp' = <<>>
  /\ UNCHANGED <<m_root, m_files, m_directories, argVars, reply, requests, loopVars>>
  /\ UNCHANGED <<disk, calls>>

StartMmap ==
  /\ pc = "start" /\ reply = REMI_SUCCESS /\ mode = "mmap"
  /\ pc' = "mmap" /\ Issue("mmap")
  /\ UNCHANGED <<filesetVars, argVars, opened, requests, loopVars, endVars>>

MmapAnswered ==
  /\ pc = "mmap" /\ Answered
  /\ PutBack
  /\ \/ /\ reply = REMI_SUCCESS
        /\ pc' = "end" /\ Issue("end")
        /\ UNCHANGED <<opened, result>>
     \/ /\ reply # REMI_SUCCESS
        /\ Cleanup /\ ReturnWith(reply)
        /\ UNCHANGED reply
  /\ UNCHANGED <<argVars, requests, loopVars, disk, calls>>

StartWrites ==
  /\ pc = "start" /\ reply = REMI_SUCCESS /\ mode # "mmap"
  /\ PutBack
  /\ StartFile(1)
  /\ pc' = "file"
  /\ current_buffer' = NoBuffer /\ previous_buffer' = NoBuffer
  /\ UNCHANGED <<argVars, opened, phase, reply, requests, previous_chunk_offset, can_stop>>
  /\ UNCHANGED endVars

-----------------------------------------------------------------------------
(* Without ABT-IO: read a chunk, send it, wait                             *)

\* read() goes on where the descriptor stands, not at the chunk's offset.
SequentialChunk ==
  /\ pc = "file" /\ mode = "sequential" /\ i <= Len(files)
  /\ \/ /\ remaining_size = 0
        /\ StartFile(i + 1)
        /\ UNCHANGED <<pc, phase, reply, requests, previous_buffer>>
     \/ /\ remaining_size # 0
        /\ previous_buffer' \in Read(i, position, ChunkSize(remaining_size))
        /\ position' = position + previous_buffer'.got
        /\ Send(i, current_chunk_offset, previous_buffer')
        /\ pc' = "answer" /\ Issue("write")
        /\ UNCHANGED offsetVars
  /\ UNCHANGED <<filesetVars, argVars, opened, current_buffer, previous_chunk_offset>>
  /\ UNCHANGED <<can_stop, endVars>>

\* Whatever the answer, the loop goes on.
SequentialAnswered ==
  /\ pc = "answer" /\ Answered
  /\ current_chunk_offset' = current_chunk_offset + ChunkSize(remaining_size)
  /\ remaining_size' = remaining_size - ChunkSize(remaining_size)
  /\ pc' = "file"
  /\ UNCHANGED <<filesetVars, argVars, opened, phase, reply, requests, i, position>>
  /\ UNCHANGED <<bufferVars, endVars>>

-----------------------------------------------------------------------------
(* With ABT-IO: read a chunk while the previous one is sent                *)

FirstChunk ==
  /\ pc = "file" /\ mode = "pipelined" /\ i <= Len(files)
  /\ LET size == ChunkSize(remaining_size) IN
       /\ previous_buffer' \in Read(i, current_chunk_offset, size)
       /\ current_buffer' = previous_buffer
       /\ previous_chunk_offset' = current_chunk_offset
       /\ current_chunk_offset' = current_chunk_offset + size
       /\ remaining_size' = remaining_size - size
  /\ can_stop' = FALSE
  /\ pc' = "issue"
  /\ UNCHANGED <<filesetVars, argVars, opened, phase, reply, requests, i, position, endVars>>

IssueChunk ==
  /\ pc = "issue"
  /\ Send(i, previous_chunk_offset, previous_buffer)
  /\ pc' = "overlap" /\ Issue("write")
  /\ UNCHANGED <<filesetVars, argVars, opened, loopVars, endVars>>

\* Variant: takes a last chunk that is not full for the end of the file.
NoFullChunkLeft == remaining_size < XferSize

AllRead == remaining_size = 0

OverlappedRead ==
  /\ pc = "overlap"
  /\ \/ /\ AllRead
        /\ can_stop' = TRUE
        /\ UNCHANGED current_buffer
     \/ /\ ~AllRead
        /\ current_buffer' \in Read(i, current_chunk_offset, ChunkSize(remaining_size))
        /\ UNCHANGED can_stop
  /\ pc' = "wait"
  /\ UNCHANGED <<filesetVars, argVars, opened, phase, reply, requests, offsetVars>>
  /\ UNCHANGED <<previous_buffer, previous_chunk_offset, position, endVars>>

\* Variant: the buffers stay where they are.
SwapForgotten == UNCHANGED <<previous_buffer, current_buffer>>

\* The buffer that was read becomes the one to send.
Swap ==
  /\ previous_buffer' = current_buffer
  /\ current_buffer' = previous_buffer

\* Variant: the offset of the chunk to send stays behind.
AdvanceReadOnly ==
  /\ UNCHANGED previous_chunk_offset
  /\ current_chunk_offset' = current_chunk_offset + current_buffer.size
  /\ remaining_size' = remaining_size - current_buffer.size

Advance ==
  /\ previous_chunk_offset' = current_chunk_offset
  /\ current_chunk_offset' = current_chunk_offset + current_buffer.size
  /\ remaining_size' = remaining_size - current_buffer.size

ChunkAnswered ==
  /\ pc = "wait" /\ Answered
  /\ \/ /\ reply # REMI_SUCCESS
        /\ Cleanup /\ ReturnWith(reply)
        /\ UNCHANGED loopVars
     \/ /\ reply = REMI_SUCCESS /\ can_stop
        /\ StartFile(i + 1)
        /\ pc' = "file"
        /\ UNCHANGED <<opened, phase, bufferVars, result>>
     \/ /\ reply = REMI_SUCCESS /\ ~can_stop
        /\ Swap
        /\ Advance
        /\ pc' = "issue"
        /\ UNCHANGED <<opened, phase, i, can_stop, position, result>>
  /\ UNCHANGED <<filesetVars, argVars, reply, requests, disk, calls>>

-----------------------------------------------------------------------------
(* The end of the call                                                     *)

LoopDone ==
  /\ pc = "file" /\ i > Len(files)
  /\ \/ /\ reply = REMI_SUCCESS
        /\ pc' = "end" /\ Issue("end")
        /\ UNCHANGED <<opened, result>>
     \/ /\ reply # REMI_SUCCESS
        /\ Cleanup /\ ReturnWith(reply)
        /\ UNCHANGED reply
  /\ UNCHANGED <<filesetVars, argVars, requests, loopVars, disk, calls>>

\* The files that were migrated are removed, then the directories with all
\* that is in them by now (removeRec).
Removed ==
  {m_root} \X ({files[k] : k \in DOMAIN files} \cup m_directories)

\* Variant: the answer is not looked at.
RemoveAnyway == remove_source

RemoveSource == remove_source /\ reply = REMI_SUCCESS

EndAnswered ==
  /\ pc = "end" /\ Answered
  /\ Cleanup /\ ReturnWith(reply)
  /\ disk' = IF RemoveSource THEN disk \ Removed ELSE disk
  /\ UNCHANGED <<filesetVars, argVars, reply, requests, loopVars, calls>>

-----------------------------------------------------------------------------
(* The environment                                                         *)

Waiting == pc \in {"start", "mmap", "answer", "overlap", "wait", "end"}

\* What migrate_start finds and does at the destination shows on the client's
\* host if it is the same.
Destination == {m_root} \X m_files

Created ==
  IF SameHost /\ phase = "start"
    THEN /\ reply' = REMI_SUCCESS => Destination \cap disk = {}
         /\ reply' = REMI_ERR_FILE_EXISTS => Destination \cap disk # {}
         /\ disk' = IF reply' = REMI_SUCCESS THEN disk \cup Destination ELSE disk
    ELSE UNCHANGED disk

Answer ==
  /\ Waiting /\ reply = "PENDING"
  /\ reply' \in Answers[phase]
  /\ Created
  /\ UNCHANGED <<filesetVars, argVars, opened, pc, phase, requests, loopVars>>
  /\ UNCHANGED <<result, calls>>

\* The exception leaves remi_fileset_migrate: nothing is closed or put back.
Throw ==
  /\ "throw" \in Faults
  /\ Waiting /\ reply = "PENDING"
  /\ pc' = "idle" /\ phase' = "lost" /\ tmp' = <<>>
  /\ UNCHANGED <<m_root, m_files, m_directories, argVars, opened, reply, requests>>
  /\ UNCHANGED <<loopVars, endVars>>

\* Another process creates a file in a directory of the fileset.
Appear(f) ==
  /\ "appear" \in Faults
  /\ <<OwnRoot, f>> \notin disk
  /\ disk' = disk \cup {<<OwnRoot, f>>}
  /\ UNCHANGED <<filesetVars, argVars, opened, pc, phase, reply, requests, loopVars>>
  /\ UNCHANGED <<result, calls>>

-----------------------------------------------------------------------------

Call ==
  \/ OpenFile \/ Opened \/ StartRefused \/ StartMmap \/ MmapAnswered \/ StartWrites
  \/ SequentialChunk \/ SequentialAnswered
  \/ FirstChunk \/ IssueChunk \/ OverlappedRead \/ ChunkAnswered
  \/ LoopDone \/ EndAnswered
  \/ \E code \in {REMI_ERR_UNKNOWN_FILE, REMI_ERR_IO} : OpenFails(code)

Application ==
  \/ \E md \in Modes, root \in RemoteRoots, remove \in BOOLEAN : MigrateStart(md, root, remove)
  \/ InvalidArgument

Terminated == pc = "idle" /\ calls = MaxCalls /\ UNCHANGED vars

Next ==
  \/ Application \/ Call \/ Answer \/ Throw
  \/ \E f \in InDirectory : Appear(f)
  \/ Terminated

Spec == Init /\ [][Next]_vars

\* The caller's thread runs, and each RPC is answered (or throws).
FairSpec == Spec /\ WF_vars(Call) /\ WF_vars(Answer)

-----------------------------------------------------------------------------
(* Properties                                                              *)

Buffers == {b \in [file : Nat, offset : Nat, size : Nat, got : Nat] : b.got <= b.size}

\* Each variable has its type.
TypeOK ==
  /\ m_root \in Roots /\ m_files \subseteq Files /\ m_directories \subseteq Files
  /\ tmp \in {<<>>} \cup (Roots \X (SUBSET Files) \X (SUBSET Files))
  /\ disk \subseteq Roots \X Files
  /\ mode \in Modes /\ remote_root \in RemoteRoots /\ remove_source \in BOOLEAN
  /\ files \in Seq(Files)
  /\ opened \subseteq Nat
  /\ pc \in {"idle", "open", "start", "mmap", "file", "answer", "issue", "overlap", "wait", "end"}
  /\ phase \in {"idle", "start", "mmap", "write", "end", "returned", "lost"}
  /\ reply \in ReplyCodes \cup {"PENDING"}
  /\ requests \in Seq([file : Nat, offset : Nat, data : Buffers])
  /\ i \in Nat /\ current_chunk_offset \in Nat /\ remaining_size \in Nat /\ position \in Nat
  /\ current_buffer \in Buffers /\ previous_buffer \in Buffers
  /\ previous_chunk_offset \in Nat /\ can_stop \in BOOLEAN
  /\ result \in ReplyCodes \cup {REMI_ERR_UNKNOWN_FILE, REMI_ERR_INVALID_ARG}
  /\ calls \in Nat

\* Where a request ends in its file.
EndOf(r) == r.offset + r.data.size

\* The requests of a call tile the files: each takes up where the one before
\* ended, or begins a later file when the one before ended its own.  None goes
\* beyond the end of its file or is longer than the transfer size, so the
\* provider has no reason to reject one.
Tiled ==
  \A k \in DOMAIN requests :
    LET r == requests[k] IN
      /\ r.file \in DOMAIN files
      /\ EndOf(r) <= SizeOf(r.file) /\ r.data.size <= XferSize
      /\ \/ r.offset = 0
         \/ k > 1 /\ requests[k - 1].file = r.file /\ EndOf(requests[k - 1]) = r.offset
      /\ k > 1 /\ r.offset = 0 =>
           requests[k - 1].file < r.file
             /\ EndOf(requests[k - 1]) = SizeOf(requests[k - 1].file)

\* The requests reach the end of every file that is not empty.
AllSent ==
  \A n \in DOMAIN files :
    SizeOf(n) > 0 =>
      \E k \in DOMAIN requests : requests[k].file = n /\ EndOf(requests[k]) = SizeOf(n)

\* migrate_end, which publishes the fileset, is called only when all was sent.
EndMeansSent == phase = "end" /\ mode # "mmap" => AllSent

\* The request carries the bytes that it names, and nothing else.
Exact(r) ==
  r.data.file = r.file /\ r.data.offset = r.offset /\ r.data.got = r.data.size

\* The read for the request failed or fell short.
Short(r) == r.data.got < r.data.size

\* The two buffers are swapped and resized, never mixed up, and read() keeps up
\* with the offsets: a request carries exactly the bytes that it names, except
\* that, with ABT-IO, one whose own read fell short does not, nor, without, do
\* this one and those after it in its file, which take the bytes from where the
\* short read left the descriptor.
DataMatches ==
  \A k \in DOMAIN requests :
    LET r == requests[k] IN
      /\ r.data.file = r.file
      /\ mode # "sequential" => r.data.offset = r.offset
      /\ \/ Exact(r) \/ Short(r)
         \/ /\ mode = "sequential"
            /\ \E j \in 1 .. k - 1 : requests[j].file = r.file /\ Short(requests[j])

\* A call that returns, at whichever file or RPC, has closed every descriptor and
\* unmapped every segment that it kept.
NothingLeftOpen == pc = "idle" /\ phase # "lost" => opened = {}

\* Nothing of the source is removed before the destination has taken over the
\* fileset, for which it was sent whole, and unless the caller asked for it.
SourceOutlivesTransfer ==
  [][disk \subseteq disk'
     \/ /\ remove_source /\ phase = "end" /\ reply = REMI_SUCCESS
        /\ mode # "mmap" => AllSent]_vars

\* How many requests a file takes: the loop with ABT-IO sends one for an empty
\* file too.
Chunks(n) ==
  IF SizeOf(n) = 0 /\ mode = "pipelined" THEN 1
  ELSE (SizeOf(n) + XferSize - 1) \div XferSize

TotalChunks[n \in Nat] == IF n = 0 THEN 0 ELSE TotalChunks[n - 1] + Chunks(n)

Contract == INSTANCE MigrationSession WITH
  sent <- Len(requests), total <- TotalChunks[Len(files)]

\* The calls are made as MigrationSession has them, and migrate_end only after
\* as many requests as the sizes of the files call for.
KeepsSession == Contract!SessionSpec

\* Every call of remi_fileset_migrate returns: both loops terminate.
MigrateReturns == pc # "idle" ~> pc = "idle"

-----------------------------------------------------------------------------
(* Claims of the documentation that the code does not meet                 *)

\* "If flag is set to REMI_REMOVE_SOURCE, the original files will be
\* destroyed": none but those below the root the application gave.
RemovesOnlyOriginals ==
  [][\A x \in disk \ disk' : x[1] = OwnRoot]_vars

\* "All the files of the local fileset will be transfered": what a successful
\* call sent are the bytes of the files.
SuccessMeansTransferred ==
  phase = "returned" /\ pc = "idle" /\ result = REMI_SUCCESS
    => \A k \in DOMAIN requests : Exact(requests[k])
=============================================================================
