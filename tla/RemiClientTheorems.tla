------------------------ MODULE RemiClientTheorems -------------------------
(***************************************************************************)
(* The theorems about RemiClient: for files of any sizes and any transfer  *)
(* size, the requests of a call tile the files and carry the right bytes,  *)
(* migrate_end is called only when all was sent, and the calls are those   *)
(* of MigrationSession.                                                    *)
(***************************************************************************)
EXTENDS RemiClientInvariant, FiniteSetTheorems, WellFoundedInduction, TLAPS

-----------------------------------------------------------------------------
(* Helpers                                                                 *)

LEMMA SetToSeqType ==
  ASSUME NEW S, IsFiniteSet(S)
  PROVE  SetToSeq(S) \in Seq(S)
  <1>1. Cardinality(S) \in Nat /\ ExistsBijection(1..Cardinality(S), S)
    BY FS_CardinalityType
  <1>2. PICK f : f \in [1..Cardinality(S) -> S] /\ IsInjective(f)
    BY <1>1 DEF ExistsBijection, Bijection, Injection
  <1>3. SetToSeq(S) \in [1..Cardinality(S) -> S]
    BY <1>2 DEF SetToSeq
  <1>4. QED
    BY <1>1, <1>3

\* The files that are walked through are files, and so is their sequence.
LEMMA WalkthroughType ==
  ASSUME TypeOK
  PROVE  Walkthrough \subseteq Files /\ SetToSeq(Walkthrough) \in Seq(Files)
  <1>1. Walkthrough \subseteq Files
    BY DEF TypeOK, Walkthrough
  <1>2. IsFiniteSet(Walkthrough)
    BY <1>1, ClientAssumption, FS_Subset
  <1>3. SetToSeq(Walkthrough) \in Seq(Walkthrough)
    BY <1>2, SetToSeqType
  <1>4. QED
    BY <1>1, <1>3

LEMMA SizeOfType ==
  ASSUME TypeOK
  PROVE  \A n : SizeOf(n) \in Nat
  BY ClientAssumption DEF TypeOK, SizeOf

LEMMA ChunkSizeType ==
  ASSUME NEW remaining \in Nat
  PROVE  /\ ChunkSize(remaining) \in Nat /\ ChunkSize(remaining) <= XferSize
         /\ ChunkSize(remaining) <= remaining
         /\ remaining > 0 => ChunkSize(remaining) > 0
         /\ ChunkSize(remaining) < remaining => ChunkSize(remaining) > 0
  BY ClientAssumption DEF ChunkSize

\* What a read returns.
LEMMA ReadType ==
  ASSUME NEW n \in Nat, NEW offset \in Nat, NEW size \in Nat, NEW buffer \in Read(n, offset, size)
  PROVE  /\ buffer \in Buffers /\ buffer.file = n /\ buffer.offset = offset /\ buffer.size = size
         /\ buffer.got \in Nat /\ buffer.got <= size
  <1> DEFINE B(got) == [file |-> n, offset |-> offset, size |-> size, got |-> got]
             G      == IF "short" \in Faults THEN 0 .. size ELSE {size}
  <1>1. PICK got \in G : buffer = B(got)
    BY Zenon DEF Read
  <1>2. got \in Nat /\ got <= size
    BY <1>1
  <1>3. QED
    BY <1>1, <1>2 DEF Buffers

-----------------------------------------------------------------------------
(* Types                                                                   *)

LEMMA InitType ==
  ASSUME Init
  PROVE  TypeOK
  <1>1. NoBuffer \in Buffers
    BY DEF NoBuffer, Buffers
  <1>2. REMI_SUCCESS \in ReplyCodes
    BY DEF ReplyCodes
  <1>3. OwnRoot \in Roots /\ disk \subseteq Roots \X Files
    BY ClientAssumption DEF Init, Roots
  <1>4. remove_source \in BOOLEAN /\ can_stop \in BOOLEAN
    BY Zenon DEF Init
  <1>5. m_files \subseteq Files /\ m_directories \subseteq Files
    BY ClientAssumption DEF Init
  <1>6. QED
    BY <1>1, <1>2, <1>3, <1>4, <1>5 DEF Init, TypeOK

\* The parts of the invariant that say what a step finds in the variables.
StepAssumed == TypeOK /\ OpenInv /\ CallInv /\ ReadInv /\ PipelinedInv

LEMMA BeginType ==
  ASSUME StepAssumed, Application
  PROVE  TypeOK'
  <1> USE DEF filesetVars, argVars, offsetVars, bufferVars, loopVars, endVars
  <1>1. ASSUME NEW md \in Modes, NEW root \in RemoteRoots, NEW remove \in BOOLEAN,
               MigrateStart(md, root, remove)
        PROVE  TypeOK'
    <2>1. Walkthrough \subseteq Files /\ files' \in Seq(Files)
      BY <1>1, WalkthroughType DEF StepAssumed, MigrateStart
    <2>2. requests' \in Seq([file : Nat, offset : Nat, data : Buffers])
      BY <1>1 DEF MigrateStart
    <2>3. QED
      BY <1>1, <2>1, <2>2 DEF StepAssumed, TypeOK, MigrateStart
  <1>2. CASE InvalidArgument
    BY <1>2 DEF StepAssumed, TypeOK, InvalidArgument
  <1>3. QED
    BY <1>1, <1>2 DEF Application

LEMMA EnvironmentType ==
  ASSUME StepAssumed, Answer \/ Throw \/ \E f \in InDirectory : Appear(f)
  PROVE  TypeOK'
  <1> USE DEF filesetVars, argVars, offsetVars, bufferVars, loopVars, endVars, StepAssumed
  <1>1. CASE Answer
    <2>1. phase \in {"start", "mmap", "write", "end"}
      BY <1>1 DEF Answer, Waiting, CallInv
    <2>2. reply' \in ReplyCodes
      BY <1>1, <2>1 DEF Answer, Answers, ReplyCodes
    <2>3. disk' \subseteq Roots \X Files
      BY <1>1 DEF Answer, Created, Destination, TypeOK
    <2>4. QED
      BY <1>1, <2>2, <2>3 DEF Answer, TypeOK
  <1>2. CASE Throw
    BY <1>2 DEF Throw, TypeOK
  <1>3. ASSUME NEW f \in InDirectory, Appear(f)
        PROVE  TypeOK'
    BY <1>3, ClientAssumption DEF Appear, TypeOK, Roots
  <1>4. QED
    BY <1>1, <1>2, <1>3

LEMMA CallType ==
  ASSUME StepAssumed, Call
  PROVE  TypeOK'
  <1> USE DEF filesetVars, argVars, offsetVars, bufferVars, loopVars, endVars, StepAssumed
  <1>0. remaining_size \in Nat /\ ChunkSize(remaining_size) \in Nat
        /\ remaining_size - ChunkSize(remaining_size) \in Nat
    BY ChunkSizeType DEF TypeOK
  <1>a. CASE OpenFile
    <2>1. i' \in Nat /\ opened' \subseteq Nat
      BY <1>a DEF OpenFile, TypeOK
    <2>2. QED
      BY <1>a, <2>1 DEF OpenFile, TypeOK
  <1>b. ASSUME NEW code \in {REMI_ERR_UNKNOWN_FILE, REMI_ERR_IO}, OpenFails(code)
        PROVE  TypeOK'
    BY <1>b DEF OpenFails, ReturnWith, Cleanup, ReplyCodes, TypeOK
  <1>c. CASE Opened
    <2>1. files \in Seq(Files)
      BY DEF TypeOK
    <2>2. ToSet(files) \subseteq Files
      BY <2>1 DEF ToSet
    <2>3. QED
      BY <1>c, <2>2 DEF Opened, MoveOut, Issue, TypeOK, Roots
  <1>1. CASE StartRefused
    BY <1>1 DEF StartRefused, ReturnWith, Cleanup, TypeOK
  <1>2. CASE StartMmap
    BY <1>2 DEF StartMmap, Issue, TypeOK
  <1>3. CASE MmapAnswered
    <2>1. tmp \in Roots \X (SUBSET Files) \X (SUBSET Files)
      BY <1>3 DEF MmapAnswered, CallInv, TypeOK
    <2>2. QED
      BY <1>3, <2>1 DEF MmapAnswered, Answered, PutBack, ReturnWith, Cleanup, Issue, TypeOK
  <1>4. CASE StartWrites
    <2>1. tmp \in Roots \X (SUBSET Files) \X (SUBSET Files)
      BY <1>4 DEF StartWrites, CallInv, TypeOK
    <2>2. remaining_size' \in Nat
      BY <1>4, SizeOfType DEF StartWrites, StartFile
    <2>3. NoBuffer \in Buffers
      BY DEF NoBuffer, Buffers
    <2>4. QED
      BY <1>4, <2>1, <2>2, <2>3 DEF StartWrites, StartFile, PutBack, TypeOK
  <1>5. CASE SequentialChunk
    <2>1. CASE remaining_size = 0
      BY <1>5, <2>1, SizeOfType DEF SequentialChunk, StartFile, TypeOK
    <2>2. CASE remaining_size # 0
      <3>1. previous_buffer' \in Buffers /\ position' \in Nat
        BY <1>0, <1>5, <2>2, ReadType DEF SequentialChunk, TypeOK
      <3>2. requests' \in Seq([file : Nat, offset : Nat, data : Buffers])
        <4>1. [file |-> i, offset |-> current_chunk_offset, data |-> previous_buffer']
                \in [file : Nat, offset : Nat, data : Buffers]
          BY <3>1 DEF TypeOK
        <4>2. requests' = Append(requests, [file |-> i, offset |-> current_chunk_offset,
                                            data |-> previous_buffer'])
          BY <1>5, <2>2 DEF SequentialChunk, Send
        <4>3. QED
          BY <4>1, <4>2 DEF TypeOK
      <3>3. QED
        BY <1>5, <2>2, <3>1, <3>2 DEF SequentialChunk, Issue, TypeOK
    <2>3. QED
      BY <2>1, <2>2
  <1>6. CASE SequentialAnswered
    <2>1. current_chunk_offset' \in Nat /\ remaining_size' \in Nat
      BY <1>0, <1>6 DEF SequentialAnswered, TypeOK
    <2>2. QED
      BY <1>6, <2>1 DEF SequentialAnswered, TypeOK
  <1>7. CASE FirstChunk
    <2>1. previous_buffer' \in Buffers
      BY <1>0, <1>7, ReadType DEF FirstChunk, TypeOK
    <2>2. can_stop' \in BOOLEAN
      BY <1>7, Zenon DEF FirstChunk
    <2>3. QED
      BY <1>0, <1>7, <2>1, <2>2 DEF FirstChunk, TypeOK
  <1>8. CASE IssueChunk
    BY <1>8 DEF IssueChunk, Send, Issue, TypeOK
  <1>9. CASE OverlappedRead
    <2>1. current_buffer' \in Buffers
      BY <1>0, <1>9, ReadType DEF OverlappedRead, AllRead, TypeOK
    <2>2. QED
      BY <1>9, <2>1 DEF OverlappedRead, TypeOK
  <1>10. CASE ChunkAnswered
    <2>1. CASE reply # REMI_SUCCESS
      BY <1>10, <2>1 DEF ChunkAnswered, Answered, ReturnWith, Cleanup, TypeOK
    <2>2. CASE reply = REMI_SUCCESS /\ can_stop
      <3>1. /\ i' \in Nat /\ remaining_size' \in Nat
            /\ current_chunk_offset' = 0 /\ position' = 0
        <4>1. StartFile(i + 1)
          BY <1>10, <2>2 DEF ChunkAnswered
        <4>2. i + 1 \in Nat
          BY DEF TypeOK
        <4>3. QED
          BY <4>1, <4>2, SizeOfType DEF StartFile, TypeOK
      <3>2. QED
        BY <1>10, <2>2, <3>1 DEF ChunkAnswered, TypeOK
    <2>3. CASE reply = REMI_SUCCESS /\ ~can_stop
      <3>1. current_buffer.size = ChunkSize(remaining_size)
        BY <1>10, <2>3 DEF ChunkAnswered, PipelinedInv, Holds
      <3>2. /\ previous_chunk_offset' \in Nat /\ current_chunk_offset' \in Nat
            /\ remaining_size' \in Nat
        BY <1>0, <1>10, <2>3, <3>1 DEF ChunkAnswered, Advance, TypeOK
      <3>3. QED
        BY <1>10, <2>3, <3>2 DEF ChunkAnswered, Swap, TypeOK
    <2>4. QED
      BY <2>1, <2>2, <2>3 DEF TypeOK
  <1>11. CASE LoopDone
    BY <1>11 DEF LoopDone, CallInv, ReadInv, ReturnWith, Cleanup, Issue, TypeOK
  <1>12. CASE EndAnswered
    BY <1>12 DEF EndAnswered, Answered, ReturnWith, Cleanup, Removed, TypeOK
  <1>13. QED
    BY <1>a, <1>b, <1>c, <1>1, <1>2, <1>3, <1>4, <1>5, <1>6, <1>7, <1>8, <1>9, <1>10, <1>11,
       <1>12 DEF Call

-----------------------------------------------------------------------------
(* Requests                                                                *)

Request == [file : Nat, offset : Nat, data : Buffers]

LEMMA LastRequestType ==
  ASSUME TypeOK, requests # <<>>
  PROVE  LastRequest \in Request
  <1>1. requests \in Seq(Request)
    BY DEF TypeOK, Request
  <1>2. QED
    BY <1>1 DEF LastRequest

\* What a new request adds and what it leaves as it was.
LEMMA Appended ==
  ASSUME TypeOK, NEW r \in Request, requests' = Append(requests, r), files' = files
  PROVE  /\ DOMAIN requests = 1..Len(requests) /\ Len(requests) \in Nat
         /\ DOMAIN requests' = 1..(Len(requests) + 1)
         /\ requests'[Len(requests) + 1] = r
         /\ \A k \in DOMAIN requests : requests'[k] = requests[k]
         /\ LastRequest' = r /\ requests' # <<>>
         /\ \A n : SizeOf(n)' = SizeOf(n)
         /\ \A n : SentBefore(n) => SentBefore(n)'
  <1>1. requests \in Seq(Request)
    BY DEF TypeOK, Request
  <1>2. /\ DOMAIN requests = 1..Len(requests) /\ Len(requests) \in Nat
        /\ DOMAIN requests' = 1..(Len(requests) + 1) /\ Len(requests') = Len(requests) + 1
        /\ requests'[Len(requests) + 1] = r
        /\ \A k \in DOMAIN requests : requests'[k] = requests[k]
        /\ requests' # <<>>
    BY <1>1
  <1>3. \A n : SizeOf(n)' = SizeOf(n)
    BY DEF SizeOf
  <1>4. \A n : SentBefore(n) => SentBefore(n)'
    BY <1>2, <1>3 DEF SentBefore
  <1>5. QED
    BY <1>2, <1>3, <1>4 DEF LastRequest

\* A request that takes up where the last one ended keeps the requests tiled.
LEMMA SendTiles ==
  ASSUME TypeOK, Tiled, DataMatches,
         NEW n \in DOMAIN files, NEW offset \in Nat, NEW buffer \in Buffers,
         Send(n, offset, buffer), UNCHANGED <<mode, files>>,
         SentTo(n, offset),
         buffer.file = n,
         buffer.offset = offset \/ (mode = "sequential" /\ ShortRead(n)),
         buffer.size <= XferSize, offset + buffer.size <= SizeOf(n)
  PROVE  Tiled' /\ DataMatches'
  <1> DEFINE r == [file |-> n, offset |-> offset, data |-> buffer]
  <1>1. r \in Request /\ requests' = Append(requests, r)
    BY DEF Request, Send, TypeOK
  <1>2. /\ DOMAIN requests = 1..Len(requests) /\ Len(requests) \in Nat
        /\ DOMAIN requests' = 1..(Len(requests) + 1)
        /\ requests'[Len(requests) + 1] = r
        /\ \A k \in DOMAIN requests : requests'[k] = requests[k]
        /\ \A f : SizeOf(f)' = SizeOf(f)
    BY <1>1, Appended
  <1>3. requests # <<>> => Len(requests) \in DOMAIN requests
    BY <1>2 DEF TypeOK
  <1>4. DataMatches'
    <2> SUFFICES ASSUME NEW k \in DOMAIN requests'
                 PROVE  /\ requests'[k].data.file = requests'[k].file
                        /\ mode # "sequential" => requests'[k].data.offset = requests'[k].offset
                        /\ \/ Exact(requests'[k]) \/ Short(requests'[k])
                           \/ /\ mode = "sequential"
                              /\ \E j \in 1 .. k - 1 :
                                   requests'[j].file = requests'[k].file /\ Short(requests'[j])
      BY DEF DataMatches, Exact, Short
    <2>1. CASE k \in DOMAIN requests
      <3>1. requests'[k] = requests[k] /\ \A j \in 1 .. k - 1 : requests'[j] = requests[j]
        BY <1>2, <2>1
      <3>2. /\ requests[k].data.file = requests[k].file
            /\ mode # "sequential" => requests[k].data.offset = requests[k].offset
            /\ \/ Exact(requests[k]) \/ Short(requests[k])
               \/ /\ mode = "sequential"
                  /\ \E j \in 1 .. k - 1 :
                       requests[j].file = requests[k].file /\ Short(requests[j])
        BY <2>1 DEF DataMatches
      <3>3. QED
        BY <3>1, <3>2
    <2>2. CASE k = Len(requests) + 1
      <3>1. requests'[k] = r
        BY <1>2, <2>2
      <3>2. ASSUME ShortRead(n)
            PROVE  \E j \in 1 .. k - 1 : requests'[j].file = n /\ Short(requests'[j])
        <4>1. PICK j \in DOMAIN requests : requests[j].file = n /\ Short(requests[j])
          BY <3>2 DEF ShortRead
        <4>2. j \in 1 .. k - 1 /\ requests'[j] = requests[j]
          BY <1>2, <2>2
        <4>3. QED
          BY <4>1, <4>2
      <3>3. r.file = n /\ r.offset = offset /\ r.data = buffer
        OBVIOUS
      <3>4. buffer.offset = offset => Exact(r) \/ Short(r)
        BY <3>3 DEF Exact, Short, Buffers
      <3>5. QED
        BY <3>1, <3>2, <3>3, <3>4
    <2>3. QED
      BY <1>2, <2>1, <2>2
  <1>5. Tiled'
    <2> SUFFICES ASSUME NEW k \in DOMAIN requests'
                 PROVE  /\ requests'[k].file \in DOMAIN files
                        /\ EndOf(requests'[k]) <= SizeOf(requests'[k].file)
                        /\ requests'[k].data.size <= XferSize
                        /\ \/ requests'[k].offset = 0
                           \/ /\ k > 1 /\ requests'[k - 1].file = requests'[k].file
                              /\ EndOf(requests'[k - 1]) = requests'[k].offset
                        /\ k > 1 /\ requests'[k].offset = 0 =>
                             /\ requests'[k - 1].file < requests'[k].file
                             /\ EndOf(requests'[k - 1]) = SizeOf(requests'[k - 1].file)
      BY <1>2 DEF Tiled
    <2>1. CASE k \in DOMAIN requests
      <3>1. requests'[k] = requests[k] /\ (k > 1 => requests'[k - 1] = requests[k - 1])
        BY <1>2, <2>1
      <3>2. QED
        BY <2>1, <3>1 DEF Tiled
    <2>2. CASE k = Len(requests) + 1
      <3>1. requests'[k] = r
        BY <1>2, <2>2
      <3>2. k > 1 => requests # <<>> /\ requests'[k - 1] = LastRequest
        BY <1>2, <2>2 DEF LastRequest
      <3>3. requests # <<>> => k > 1
        BY <1>2, <1>3, <2>2
      <3>4. QED
        BY <3>1, <3>2, <3>3 DEF SentTo, EndOf
    <2>3. QED
      BY <1>2, <2>1, <2>2
  <1>6. QED
    BY <1>4, <1>5

\* Without a new request nothing changes.
LEMMA NothingSent ==
  ASSUME UNCHANGED <<requests, files>>
  PROVE  /\ Tiled => Tiled'
         /\ UNCHANGED mode /\ DataMatches => DataMatches'
         /\ LastRequest' = LastRequest
         /\ \A n : SizeOf(n)' = SizeOf(n)
         /\ \A n : SentBefore(n) => SentBefore(n)'
         /\ \A n, offset : SentTo(n, offset) => SentTo(n, offset)'
         /\ \A n : ShortRead(n) => ShortRead(n)'
         /\ AllSent => AllSent'
  <1>1. \A n : SizeOf(n)' = SizeOf(n)
    BY DEF SizeOf
  <1>2. QED
    BY <1>1 DEF Tiled, DataMatches, LastRequest, SentBefore, SentTo, ShortRead, AllSent

\* After the last chunk of a file the next one may begin.
LEMMA FileDone ==
  ASSUME TypeOK, NEW n \in Nat, SentBefore(n),
         SizeOf(n) > 0 =>
           requests # <<>> /\ LastRequest.file = n /\ EndOf(LastRequest) = SizeOf(n)
  PROVE  SentBefore(n + 1)
  <1>1. requests # <<>> => Len(requests) \in DOMAIN requests
    BY DEF TypeOK
  <1>2. SUFFICES ASSUME NEW f \in DOMAIN files, f < n + 1, SizeOf(f) > 0
                 PROVE  \E k \in DOMAIN requests :
                          requests[k].file = f /\ EndOf(requests[k]) = SizeOf(f)
    BY DEF SentBefore
  <1>3. f \in Nat
    BY DEF TypeOK
  <1>4. CASE f < n
    BY <1>2, <1>4 DEF SentBefore
  <1>5. CASE f = n
    BY <1>1, <1>2, <1>5 DEF LastRequest
  <1>6. QED
    BY <1>2, <1>3, <1>4, <1>5

-----------------------------------------------------------------------------
(* The place of the call                                                   *)

LEMMA CallInvStep ==
  ASSUME IInv, [Next]_vars
  PROVE  CallInv' /\ NothingLeftOpen'
  <1> USE DEF IInv, CallInv, NothingLeftOpen, Cleanup, vars, filesetVars, argVars, offsetVars,
              bufferVars, loopVars, endVars
  <1>1. CASE Application
    BY <1>1 DEF Application, MigrateStart, InvalidArgument
  <1>0. CASE OpenFile \/ Opened \/ \E code \in {REMI_ERR_UNKNOWN_FILE, REMI_ERR_IO} : OpenFails(code)
    BY <1>0 DEF OpenFile, Opened, OpenFails, Opening, ReturnWith, MoveOut, Issue, OpenInv
  <1>2. CASE Answer \/ (\E f \in InDirectory : Appear(f)) \/ Terminated \/ UNCHANGED vars
    <2>1. UNCHANGED <<files, mode, requests, tmp, pc, phase, opened>>
      BY <1>2 DEF Answer, Appear, Terminated
    <2>2. pc = "file" => UNCHANGED reply
      BY <1>2 DEF Answer, Appear, Terminated, Waiting
    <2>3. AllSent => AllSent'
      BY <2>1, NothingSent
    <2>4. QED
      BY <2>1, <2>2, <2>3
  <1>3. CASE Throw
    BY <1>3 DEF Throw
  <1>4. CASE StartRefused \/ StartMmap \/ MmapAnswered \/ StartWrites
    BY <1>4 DEF StartRefused, StartMmap, MmapAnswered, StartWrites, Issue, ReturnWith, Answered,
                PutBack, REMI_SUCCESS
  <1>5. CASE SequentialChunk \/ SequentialAnswered
    BY <1>5 DEF SequentialChunk, SequentialAnswered, Issue, Answered
  <1>6. CASE FirstChunk \/ IssueChunk \/ OverlappedRead \/ ChunkAnswered
    BY <1>6 DEF FirstChunk, IssueChunk, OverlappedRead, ChunkAnswered, Issue, ReturnWith,
                Answered, REMI_SUCCESS
  <1>7. CASE LoopDone
    <2>1. Len(files) \in Nat /\ DOMAIN files = 1..Len(files) /\ i = Len(files) + 1
      BY <1>7 DEF LoopDone, TypeOK, ReadInv, InLoop
    <2>2. AllSent
      BY <1>7, <2>1 DEF LoopDone, SequentialInv, SentTo, SentBefore, AllSent
    <2>3. UNCHANGED <<files, mode, requests>>
      BY <1>7 DEF LoopDone
    <2>4. AllSent'
      BY <2>2, <2>3, NothingSent
    <2>5. QED
      BY <1>7, <2>4 DEF LoopDone, Issue, ReturnWith
  <1>8. CASE EndAnswered
    BY <1>8 DEF EndAnswered, ReturnWith
  <1>9. QED
    BY <1>0, <1>1, <1>2, <1>3, <1>4, <1>5, <1>6, <1>7, <1>8 DEF Next, Call

-----------------------------------------------------------------------------
(* The loops                                                               *)

LoopInv == ReadInv /\ SequentialInv /\ PipelinedInv

\* Outside the loops nothing is said of their variables.
LEMMA OutsideLoops ==
  ASSUME pc' \in {"idle", "open", "start", "mmap", "end"}
  PROVE  LoopInv'
  BY DEF LoopInv, ReadInv, InLoop, SequentialInv, PipelinedInv

\* The steps of the call before migrate_start.
Preparing ==
  OpenFile \/ Opened \/ \E code \in {REMI_ERR_UNKNOWN_FILE, REMI_ERR_IO} : OpenFails(code)

LEMMA PreparingStep ==
  ASSUME Preparing
  PROVE  /\ UNCHANGED <<mode, files, requests>>
         /\ pc' \in {"idle", "open", "start"}
  BY DEF Preparing, OpenFile, Opening, Opened, OpenFails, ReturnWith, argVars

LEMMA LoopsLeftAlone ==
  ASSUME LoopInv, UNCHANGED <<pc, mode, files, requests, loopVars>>
  PROVE  LoopInv'
  <1> USE DEF loopVars, offsetVars, bufferVars
  <1>1. UNCHANGED <<LastRequest, SizeOf(i)>>
    BY NothingSent
  <1>2. /\ SentTo(i, current_chunk_offset) => SentTo(i, current_chunk_offset)'
        /\ SentTo(i, previous_chunk_offset) => SentTo(i, previous_chunk_offset)'
        /\ SentBefore(i) => SentBefore(i)'
    BY NothingSent
  <1>3. ReadInv'
    BY <1>1 DEF LoopInv, ReadInv, InLoop
  <1>4. SequentialInv'
    BY <1>1, <1>2 DEF LoopInv, SequentialInv, LastSent, ChunkSize
  <1>5. PipelinedInv'
    BY <1>1, <1>2 DEF LoopInv, PipelinedInv, LastSent, Holds, ChunkSize
  <1>6. QED
    BY <1>3, <1>4, <1>5 DEF LoopInv

LEMMA StartWritesStep ==
  ASSUME IInv, StartWrites
  PROVE  LoopInv'
  <1> USE DEF IInv
  <1>1. /\ pc' = "file" /\ i' = 1 /\ current_chunk_offset' = 0
        /\ remaining_size' = SizeOf(1) /\ UNCHANGED <<mode, files, requests>>
        /\ mode # "mmap" /\ requests = <<>>
    BY DEF StartWrites, StartFile, argVars, CallInv
  <1>2. SizeOf(1)' = SizeOf(1) /\ SizeOf(1) \in Nat
    BY <1>1, SizeOfType, NothingSent
  <1>3. files \in Seq(Files) /\ Len(files) \in Nat
    BY DEF TypeOK
  <1>4. SentTo(1, 0)'
    BY <1>1, <1>3 DEF SentTo, SentBefore
  <1>5. QED
    BY <1>1, <1>2, <1>3, <1>4 DEF LoopInv, ReadInv, InLoop, SequentialInv, PipelinedInv

\* The next file begins when the one before was sent to its end.
LEMMA NextFileStep ==
  ASSUME IInv, NEW n \in DOMAIN files, n = i, StartFile(i + 1), pc' = "file", mode # "mmap",
         UNCHANGED <<mode, files, requests>>,
         SentBefore(n),
         requests # <<>> =>
           LastRequest.file <= n /\ EndOf(LastRequest) = SizeOf(LastRequest.file),
         SizeOf(n) > 0 => requests # <<>> /\ LastRequest.file = n
  PROVE  LoopInv'
  <1> USE DEF IInv
  <1>1. n \in Nat /\ n > 0 /\ n <= Len(files) /\ Len(files) \in Nat
    BY DEF TypeOK
  <1>2. i' = n + 1 /\ current_chunk_offset' = 0 /\ remaining_size' = SizeOf(n + 1)
    BY DEF StartFile
  <1>3. SentBefore(n + 1)
    BY <1>1, FileDone
  <1>4. requests # <<>> => LastRequest.file \in Nat
    BY LastRequestType DEF Request
  <1>5. SentTo(n + 1, 0)
    BY <1>1, <1>3, <1>4 DEF SentTo
  <1>6. SentTo(n + 1, 0)'
    BY <1>5, NothingSent
  <1>7. SizeOf(n + 1)' = SizeOf(n + 1) /\ SizeOf(n + 1) \in Nat
    BY SizeOfType, NothingSent
  <1>8. QED
    BY <1>1, <1>2, <1>6, <1>7 DEF LoopInv, ReadInv, InLoop, SequentialInv, PipelinedInv

LEMMA SequentialChunkStep ==
  ASSUME IInv, SequentialChunk
  PROVE  LoopInv' /\ Tiled' /\ DataMatches'
  <1> USE DEF IInv, argVars, offsetVars
  <1>0. /\ pc = "file" /\ mode = "sequential" /\ i \in DOMAIN files
        /\ UNCHANGED <<files, mode>>
        /\ SentTo(i, current_chunk_offset)
        /\ current_chunk_offset + remaining_size = SizeOf(i)
        /\ position = current_chunk_offset \/ ShortRead(i)
    BY DEF SequentialChunk, SequentialInv, PositionInv, ReadInv, InLoop, TypeOK
  <1>1. CASE remaining_size = 0
    <2>1. StartFile(i + 1) /\ UNCHANGED <<pc, requests>>
      BY <1>1 DEF SequentialChunk
    <2>2. PICK n \in DOMAIN files : n = i
      BY <1>0
    <2>3. current_chunk_offset = SizeOf(n) /\ current_chunk_offset \in Nat
      BY <1>0, <1>1, <2>2, SizeOfType DEF TypeOK
    <2>4. requests # <<>> => LastRequest.file \in Nat
      BY LastRequestType DEF Request
    <2>5. requests # <<>> =>
            LastRequest.file <= n /\ EndOf(LastRequest) = SizeOf(LastRequest.file)
      BY <1>0, <2>2, <2>3, <2>4 DEF SentTo, TypeOK
    <2>6. SentBefore(n) /\ (SizeOf(n) > 0 => requests # <<>> /\ LastRequest.file = n)
      BY <1>0, <2>2, <2>3 DEF SentTo
    <2>7. LoopInv'
      BY <1>0, <2>1, <2>2, <2>5, <2>6, NextFileStep
    <2>8. QED
      BY <1>0, <2>1, <2>7, NothingSent
  <1>2. CASE remaining_size # 0
    <2> DEFINE size == ChunkSize(remaining_size)
    <2>1. /\ size \in Nat /\ size <= XferSize /\ size <= remaining_size
          /\ remaining_size > 0
      BY <1>2, ChunkSizeType DEF TypeOK
    <2>2. /\ previous_buffer' \in Read(i, position, size)
          /\ Send(i, current_chunk_offset, previous_buffer')
          /\ pc' = "answer" /\ UNCHANGED offsetVars
      BY <1>2 DEF SequentialChunk
    <2>3. PICK n \in DOMAIN files, offset \in Nat, buffer \in Buffers :
            n = i /\ offset = current_chunk_offset /\ buffer = previous_buffer'
      BY <1>0, <2>1, <2>2, ReadType DEF TypeOK
    <2>4. /\ buffer.file = n /\ buffer.size = size
          /\ buffer.offset = offset \/ (mode = "sequential" /\ ShortRead(n))
      BY <1>0, <2>1, <2>2, <2>3, ReadType DEF TypeOK
    <2>5. n \in Nat /\ SizeOf(n) \in Nat /\ offset + remaining_size = SizeOf(n)
      BY <1>0, <2>3, SizeOfType DEF TypeOK
    <2>6. Tiled' /\ DataMatches'
      BY <1>0, <2>1, <2>2, <2>3, <2>4, <2>5, SendTiles DEF TypeOK
    <2> DEFINE r == [file |-> n, offset |-> offset, data |-> buffer]
    <2>7. r \in Request /\ requests' = Append(requests, r)
      BY <2>2, <2>3, <2>5 DEF Send, Request
    <2>8. /\ LastRequest' = r /\ requests' # <<>> /\ SentBefore(n)'
          /\ SizeOf(n)' = SizeOf(n)
      BY <1>0, <2>3, <2>7, Appended DEF SentTo
    <2>9. EndOf(r) = offset + size
      BY <2>4 DEF EndOf
    <2>10. size' = size
      BY <2>2 DEF ChunkSize
    <2>11. /\ i' = n /\ current_chunk_offset' = offset /\ remaining_size' = remaining_size
      BY <2>2, <2>3
    <2>12. LastSent(current_chunk_offset, current_chunk_offset + size)'
      BY <2>8, <2>9, <2>10, <2>11 DEF LastSent
    <2>13. LoopInv'
      BY <1>0, <2>1, <2>2, <2>5, <2>8, <2>11, <2>12
         DEF LoopInv, ReadInv, InLoop, SequentialInv, PipelinedInv, TypeOK
    <2>14. QED
      BY <2>6, <2>13
  <1>3. QED
    BY <1>1, <1>2

LEMMA SequentialAnsweredStep ==
  ASSUME IInv, SequentialAnswered
  PROVE  LoopInv'
  <1> USE DEF IInv, argVars, offsetVars, bufferVars
  <1> DEFINE size == ChunkSize(remaining_size)
  <1>1. /\ size \in Nat /\ size <= remaining_size /\ size > 0 /\ remaining_size \in Nat
        /\ current_chunk_offset \in Nat
    BY ChunkSizeType DEF SequentialAnswered, SequentialInv, TypeOK
  <1>2. /\ pc' = "file" /\ UNCHANGED <<mode, files, requests, i>>
        /\ current_chunk_offset' = current_chunk_offset + size
        /\ remaining_size' = remaining_size - size
    BY DEF SequentialAnswered
  <1>3. /\ mode = "sequential" /\ i \in Nat /\ i > 0 /\ i <= Len(files) + 1
        /\ LastSent(current_chunk_offset, current_chunk_offset + size)
        /\ current_chunk_offset + remaining_size = SizeOf(i)
    BY DEF SequentialAnswered, SequentialInv, ReadInv, InLoop, TypeOK
  <1>4. PICK n \in Nat, offset \in Nat : n = i /\ offset = current_chunk_offset + size
    <2>1. current_chunk_offset + size \in Nat
      BY <1>1
    <2>2. QED
      BY <1>3, <2>1, Zenon
  <1>5. SentTo(n, offset)
    BY <1>1, <1>3, <1>4 DEF LastSent, SentTo
  <1>6. SentTo(n, offset)' /\ SizeOf(n)' = SizeOf(n)
    BY <1>2, <1>5, NothingSent
  <1>7. QED
    BY <1>1, <1>2, <1>3, <1>4, <1>6 DEF LoopInv, ReadInv, InLoop, SequentialInv, PipelinedInv

LEMMA FirstChunkStep ==
  ASSUME IInv, FirstChunk
  PROVE  LoopInv'
  <1> USE DEF IInv, argVars, offsetVars, bufferVars
  <1> DEFINE size == ChunkSize(remaining_size)
  <1>1. /\ size \in Nat /\ size <= XferSize /\ size <= remaining_size
        /\ size < remaining_size => size > 0
        /\ remaining_size \in Nat
    BY ChunkSizeType DEF TypeOK
  <1>2. /\ pc' = "issue" /\ UNCHANGED <<mode, files, requests, i>> /\ can_stop' = FALSE
        /\ previous_buffer' \in Read(i, current_chunk_offset, size)
        /\ previous_chunk_offset' = current_chunk_offset
        /\ current_chunk_offset' = current_chunk_offset + size
        /\ remaining_size' = remaining_size - size
    BY DEF FirstChunk
  <1>3. /\ mode = "pipelined" /\ i \in Nat /\ i > 0 /\ i <= Len(files)
        /\ current_chunk_offset = 0 /\ remaining_size = SizeOf(i)
        /\ SentTo(i, 0)
    BY <1>1 DEF FirstChunk, SequentialInv, PipelinedInv, ReadInv, InLoop, TypeOK
  <1>4. previous_buffer'.file = i /\ previous_buffer'.offset = 0 /\ previous_buffer'.size = size
    BY <1>1, <1>2, <1>3, ReadType
  <1>5. PICK n \in Nat : n = i
    BY <1>3
  <1>6. SentTo(n, 0)' /\ SizeOf(n)' = SizeOf(n)
    BY <1>2, <1>3, <1>5, NothingSent
  <1>7. QED
    BY <1>1, <1>2, <1>3, <1>4, <1>5, <1>6
       DEF LoopInv, ReadInv, InLoop, SequentialInv, PipelinedInv, Holds

LEMMA IssueChunkStep ==
  ASSUME IInv, IssueChunk
  PROVE  LoopInv' /\ Tiled' /\ DataMatches'
  <1> USE DEF IInv, argVars, loopVars, offsetVars, bufferVars
  <1>1. /\ mode = "pipelined" /\ ~can_stop /\ i \in DOMAIN files /\ i > 0 /\ i <= Len(files)
        /\ current_chunk_offset + remaining_size = SizeOf(i)
        /\ remaining_size > 0 => current_chunk_offset > 0
        /\ SentTo(i, previous_chunk_offset)
        /\ previous_chunk_offset <= current_chunk_offset
        /\ current_chunk_offset - previous_chunk_offset <= XferSize
        /\ Holds(previous_buffer, previous_chunk_offset,
                 current_chunk_offset - previous_chunk_offset)
    BY DEF IssueChunk, PipelinedInv, ReadInv, InLoop, TypeOK
  <1>2. /\ Send(i, previous_chunk_offset, previous_buffer)
        /\ pc' = "overlap" /\ UNCHANGED <<files, mode, loopVars>>
    BY DEF IssueChunk
  <1>3. PICK n \in DOMAIN files, offset \in Nat, buffer \in Buffers :
          n = i /\ offset = previous_chunk_offset /\ buffer = previous_buffer
    BY <1>1 DEF TypeOK
  <1>4. /\ buffer.file = n /\ buffer.offset = offset
        /\ offset + buffer.size = current_chunk_offset /\ buffer.size <= XferSize
        /\ n \in Nat
    BY <1>1, <1>3 DEF Holds, TypeOK
  <1>5. offset + buffer.size <= SizeOf(n)
    BY <1>1, <1>3, <1>4, SizeOfType DEF TypeOK
  <1>6. Tiled' /\ DataMatches'
    BY <1>1, <1>2, <1>3, <1>4, <1>5, SendTiles
  <1> DEFINE r == [file |-> n, offset |-> offset, data |-> buffer]
  <1>7. r \in Request /\ requests' = Append(requests, r)
    BY <1>2, <1>3, <1>4 DEF Send, Request
  <1>8. /\ LastRequest' = r /\ requests' # <<>> /\ SentBefore(n)'
        /\ SizeOf(n)' = SizeOf(n)
    BY <1>1, <1>2, <1>3, <1>7, Appended DEF SentTo
  <1>9. LastSent(previous_chunk_offset, current_chunk_offset)'
    BY <1>2, <1>3, <1>4, <1>8 DEF LastSent, EndOf
  <1>10. LoopInv'
    BY <1>1, <1>2, <1>3, <1>8, <1>9 DEF LoopInv, ReadInv, InLoop, SequentialInv, PipelinedInv
  <1>11. QED
    BY <1>6, <1>10

LEMMA OverlappedReadStep ==
  ASSUME IInv, OverlappedRead
  PROVE  LoopInv'
  <1> USE DEF IInv, argVars, offsetVars
  <1>1. /\ pc' = "wait" /\ mode = "pipelined" /\ i \in Nat /\ i > 0 /\ i <= Len(files)
        /\ UNCHANGED <<mode, files, requests, offsetVars, previous_chunk_offset>>
        /\ current_chunk_offset + remaining_size = SizeOf(i)
        /\ remaining_size > 0 => current_chunk_offset > 0
        /\ LastSent(previous_chunk_offset, current_chunk_offset)
        /\ ~can_stop
    BY DEF OverlappedRead, PipelinedInv, ReadInv, InLoop, TypeOK
  <1>2. PICK n \in Nat : n = i
    BY <1>1
  <1>3. LastRequest' = LastRequest /\ SizeOf(n)' = SizeOf(n) /\ SentBefore(n)'
    BY <1>1, <1>2, NothingSent DEF LastSent
  <1>4. LastSent(previous_chunk_offset, current_chunk_offset)'
    BY <1>1, <1>2, <1>3 DEF LastSent
  <1>5. ReadInv' /\ SequentialInv'
    BY <1>1, <1>2, <1>3 DEF ReadInv, InLoop, SequentialInv
  <1>6. CASE AllRead
    <2>1. can_stop' /\ remaining_size = 0
      BY <1>6 DEF OverlappedRead, AllRead
    <2>2. QED
      BY <1>1, <1>4, <1>5, <2>1 DEF LoopInv, PipelinedInv
  <1>7. CASE ~AllRead
    <2>1. /\ current_buffer' \in Read(i, current_chunk_offset, ChunkSize(remaining_size))
          /\ remaining_size \in Nat /\ remaining_size > 0 /\ ~can_stop'
      BY <1>1, <1>7 DEF OverlappedRead, AllRead, TypeOK
    <2>2. Holds(current_buffer', current_chunk_offset, ChunkSize(remaining_size))
      BY <2>1, ChunkSizeType, ReadType DEF Holds, TypeOK
    <2>3. Holds(current_buffer, current_chunk_offset, ChunkSize(remaining_size))'
      BY <1>1, <2>2 DEF Holds, ChunkSize
    <2>4. QED
      BY <1>1, <1>4, <1>5, <2>1, <2>3 DEF LoopInv, PipelinedInv
  <1>8. QED
    BY <1>6, <1>7

LEMMA ChunkAnsweredStep ==
  ASSUME IInv, ChunkAnswered
  PROVE  LoopInv'
  <1> USE DEF IInv, argVars, loopVars, offsetVars, bufferVars
  <1>1. /\ mode = "pipelined" /\ i \in DOMAIN files /\ i > 0 /\ i <= Len(files)
        /\ current_chunk_offset + remaining_size = SizeOf(i)
        /\ LastSent(previous_chunk_offset, current_chunk_offset)
        /\ UNCHANGED <<mode, files, requests>>
        /\ remaining_size > 0 => current_chunk_offset > 0
    BY DEF ChunkAnswered, PipelinedInv, ReadInv, InLoop, TypeOK
  <1>2. PICK n \in DOMAIN files : n = i /\ n \in Nat
    BY <1>1 DEF TypeOK
  <1>3. CASE reply # REMI_SUCCESS
    BY <1>3, OutsideLoops DEF ChunkAnswered, ReturnWith
  <1>4. CASE reply = REMI_SUCCESS /\ can_stop
    <2>1. StartFile(i + 1) /\ pc' = "file" /\ remaining_size = 0
      BY <1>4 DEF ChunkAnswered, PipelinedInv
    <2>2. /\ SentBefore(n) /\ requests # <<>> /\ LastRequest.file = n
          /\ EndOf(LastRequest) = SizeOf(n)
      BY <1>1, <1>2, <2>1, SizeOfType DEF LastSent, TypeOK
    <2>3. QED
      BY <1>1, <1>2, <2>1, <2>2, NextFileStep
  <1>5. CASE reply = REMI_SUCCESS /\ ~can_stop
    <2> DEFINE size == ChunkSize(remaining_size)
    <2>1. /\ pc' = "issue" /\ Swap /\ Advance /\ i' = i /\ ~can_stop'
          /\ remaining_size > 0 /\ Holds(current_buffer, current_chunk_offset, size)
      BY <1>5 DEF ChunkAnswered, PipelinedInv
    <2>2. /\ size \in Nat /\ size <= XferSize /\ size <= remaining_size /\ size > 0
          /\ remaining_size \in Nat /\ current_chunk_offset \in Nat
      BY <2>1, ChunkSizeType DEF TypeOK
    <2>3. /\ previous_buffer' = current_buffer /\ previous_chunk_offset' = current_chunk_offset
          /\ current_chunk_offset' = current_chunk_offset + size
          /\ remaining_size' = remaining_size - size
      BY <2>1 DEF Swap, Advance, Holds
    <2>4. PICK offset \in Nat : offset = current_chunk_offset /\ offset > 0
      BY <1>1, <2>1, <2>2
    <2>5. SentTo(n, offset)
      BY <1>1, <1>2, <2>4 DEF LastSent, SentTo
    <2>6. SentTo(n, offset)' /\ SizeOf(n)' = SizeOf(n)
      BY <1>1, <2>5, NothingSent
    <2>7. SentTo(i, previous_chunk_offset)'
      BY <1>2, <2>1, <2>3, <2>4, <2>6
    <2>8. Holds(previous_buffer, previous_chunk_offset,
                current_chunk_offset - previous_chunk_offset)'
      BY <2>1, <2>2, <2>3 DEF Holds
    <2>9. QED
      BY <1>1, <1>2, <2>1, <2>2, <2>3, <2>4, <2>6, <2>7, <2>8
         DEF LoopInv, ReadInv, InLoop, SequentialInv, PipelinedInv
  <1>6. QED
    BY <1>3, <1>4, <1>5

-----------------------------------------------------------------------------
(* How many requests there are                                             *)

\* Induction over a set of numbers.
LEMMA Induction ==
  ASSUME NEW S \in SUBSET Nat, 0 \in S, \A n \in S : n + 1 \in S
  PROVE  S = Nat
  <1> DEFINE R == OpToRel(<, Nat)
  <1>1. \A x, y \in Nat : y < x => <<y, x>> \in R
    BY DEF OpToRel
  <1> HIDE DEF R
  <1>2. IsWellFoundedOn(R, Nat)
    BY NatLessThanWellFounded DEF R
  <1>3. SUFFICES ASSUME Nat \ S # {} PROVE FALSE
    OBVIOUS
  <1>4. PICK x \in Nat \ S : \A y \in Nat \ S : ~ (<<y, x>> \in R)
    BY <1>2, <1>3, WFMin
  <1>5. x # 0 /\ x - 1 \in Nat
    BY <1>4
  <1>6. <<x - 1, x>> \in R
    BY <1>1, <1>4, <1>5
  <1>7. x - 1 \in S
    BY <1>4, <1>5, <1>6
  <1>8. (x - 1) + 1 \in S
    BY <1>7
  <1>9. QED
    BY <1>4, <1>5, <1>8

\* The sums of the first values of g, which a recursive function computes.
SumStep(f, g, n) == IF n = 0 THEN 0 ELSE f[n - 1] + g[n]

Sums(f, g, m) == \A k \in 0 .. m : f[k] = SumStep(f, g, k)

LEMMA SumsSame ==
  ASSUME NEW g, NEW m \in Nat, NEW f, NEW h, Sums(f, g, m), Sums(h, g, m)
  PROVE  \A k \in 0 .. m : f[k] = h[k]
  <1> DEFINE S == {k \in Nat : k <= m => f[k] = h[k]}
  <1>1. 0 \in S
    <2>1. 0 \in 0 .. m
      OBVIOUS
    <2>2. f[0] = 0 /\ h[0] = 0
      BY <2>1 DEF Sums, SumStep
    <2>3. QED
      BY <2>2
  <1>2. ASSUME NEW k \in S
        PROVE  k + 1 \in S
    <2>1. SUFFICES ASSUME k + 1 <= m
                   PROVE  f[k + 1] = h[k + 1]
      OBVIOUS
    <2>2. k + 1 \in 0 .. m /\ k + 1 # 0 /\ (k + 1) - 1 = k /\ f[k] = h[k]
      BY <2>1
    <2>3. f[k + 1] = f[k] + g[k + 1] /\ h[k + 1] = h[k] + g[k + 1]
      BY <2>2 DEF Sums, SumStep
    <2>4. QED
      BY <2>2, <2>3
  <1>3. S = Nat
    <2>1. S \in SUBSET Nat
      OBVIOUS
    <2> HIDE DEF S
    <2>2. QED
      BY <1>1, <1>2, <2>1, Induction
  <1>4. QED
    BY <1>3

LEMMA SumsUpTo ==
  ASSUME NEW g \in [Nat -> Nat], NEW m \in Nat
  PROVE  \E f \in [0 .. m -> Nat] : Sums(f, g, m)
  <1> DEFINE S == {n \in Nat : \E f \in [0 .. n -> Nat] : Sums(f, g, n)}
  <1>1. 0 \in S
    <2> DEFINE f == [k \in 0 .. 0 |-> 0]
    <2>1. f \in [0 .. 0 -> Nat] /\ Sums(f, g, 0)
      BY DEF Sums, SumStep
    <2> HIDE DEF f
    <2>2. QED
      BY <2>1
  <1>2. ASSUME NEW n \in S
        PROVE  n + 1 \in S
    <2>1. PICK e \in [0 .. n -> Nat] : Sums(e, g, n)
      OBVIOUS
    <2> DEFINE last == e[n] + g[n + 1]
               f    == [k \in 0 .. n + 1 |-> IF k \in 0 .. n THEN e[k] ELSE last]
    <2>2. n \in Nat /\ last \in Nat /\ \A k \in 0 .. n : e[k] \in Nat
      <3>1. n \in Nat /\ n \in 0 .. n /\ n + 1 \in Nat
        OBVIOUS
      <3>2. e[n] \in Nat
        BY <3>1
      <3>3. g[n + 1] \in Nat
        BY <3>1
      <3>4. \A a, b \in Nat : a + b \in Nat
        OBVIOUS
      <3>5. last \in Nat
        BY <3>2, <3>3, <3>4, Zenon
      <3>6. \A k \in 0 .. n : e[k] \in Nat
        OBVIOUS
      <3>7. QED
        BY <3>1, <3>5, <3>6
    <2> HIDE DEF last
    <2>3. f \in [0 .. n + 1 -> Nat]
      BY <2>2
    <2>4. f[n + 1] = last /\ \A k \in 0 .. n : f[k] = e[k]
      <3>1. n + 1 \in 0 .. n + 1 /\ ~ (n + 1 \in 0 .. n) /\ \A k \in 0 .. n : k \in 0 .. n + 1
        BY <2>2
      <3>2. QED
        BY <3>1
    <2> HIDE DEF f
    <2>5. ASSUME NEW k \in 0 .. n + 1
          PROVE  f[k] = SumStep(f, g, k)
      <3>1. CASE k = n + 1
        <4>1. k # 0 /\ k - 1 = n /\ n \in 0 .. n
          BY <2>2, <3>1
        <4>2. f[k] = e[n] + g[k]
          BY <2>4, <3>1 DEF last
        <4>3. QED
          BY <2>4, <4>1, <4>2 DEF SumStep
      <3>2. CASE k \in 0 .. n
        <4>1. f[k] = SumStep(e, g, k)
          BY <2>1, <2>4, <3>2 DEF Sums
        <4>2. k = 0 \/ k - 1 \in 0 .. n
          BY <3>2
        <4>3. SumStep(f, g, k) = SumStep(e, g, k)
          BY <2>4, <4>2 DEF SumStep
        <4>4. QED
          BY <4>1, <4>3
      <3>3. QED
        BY <3>1, <3>2
    <2>6. n + 1 \in Nat /\ Sums(f, g, n + 1)
      BY <2>2, <2>5 DEF Sums
    <2>7. QED
      BY <2>3, <2>6
  <1>3. S = Nat
    <2>1. S \in SUBSET Nat
      OBVIOUS
    <2> HIDE DEF S
    <2>2. QED
      BY <1>1, <1>2, <2>1, Induction
  <1>4. QED
    BY <1>3

LEMMA SumsExist ==
  ASSUME NEW g \in [Nat -> Nat]
  PROVE  \E f \in [Nat -> Nat] : \A n \in Nat : f[n] = SumStep(f, g, n)
  <1> DEFINE h == [m \in Nat |-> CHOOSE f \in [0 .. m -> Nat] : Sums(f, g, m)]
             f == [n \in Nat |-> h[n][n]]
  <1>1. \A m \in Nat : h[m] \in [0 .. m -> Nat] /\ Sums(h[m], g, m)
    BY SumsUpTo
  <1> HIDE DEF h
  <1>2. f \in [Nat -> Nat] /\ \A n \in Nat : f[n] = h[n][n]
    BY <1>1
  <1> HIDE DEF f
  <1>3. ASSUME NEW n \in Nat
        PROVE  f[n] = SumStep(f, g, n)
    <2>0. n \in 0 .. n
      OBVIOUS
    <2>1. f[n] = SumStep(h[n], g, n)
      BY <1>1, <1>2, <2>0 DEF Sums
    <2>2. CASE n = 0
      BY <2>1, <2>2 DEF SumStep
    <2>3. CASE n # 0
      <3>1. PICK m \in Nat : n = m + 1 /\ n - 1 = m
        <4>1. n - 1 \in Nat /\ n = (n - 1) + 1
          BY <2>3
        <4>2. QED
          BY <4>1
      <3>2. m \in 0 .. m /\ \A k \in 0 .. m : k \in 0 .. n
        BY <3>1
      <3>3. Sums(h[n], g, m) /\ Sums(h[m], g, m)
        BY <1>1, <3>2 DEF Sums
      <3>4. h[n][m] = h[m][m]
        BY <3>2, <3>3, SumsSame
      <3>5. f[n] = h[n][m] + g[n]
        BY <2>1, <2>3, <3>1 DEF SumStep
      <3>6. QED
        BY <1>2, <2>3, <3>1, <3>4, <3>5 DEF SumStep
    <2>4. QED
      BY <2>2, <2>3
  <1>4. QED
    BY <1>2, <1>3

\* What the recursive function of the model computes.
IsTotal(f, g) ==
  f \in [Nat -> Nat] /\ f[0] = 0 /\ \A n \in Nat \ {0} : f[n] = f[n - 1] + g[n]

LEMMA TotalsAre ==
  ASSUME NEW g \in [Nat -> Nat],
         NEW f, f = [n \in Nat |-> IF n = 0 THEN 0 ELSE f[n - 1] + g[n]]
  PROVE  IsTotal(f, g)
  <1>1. \A n \in Nat : f[n] = SumStep(f, g, n)
    BY DEF SumStep
  <1>2. PICK h \in [Nat -> Nat] : \A n \in Nat : h[n] = SumStep(h, g, n)
    BY SumsExist
  <1>3. ASSUME NEW n \in Nat
        PROVE  f[n] \in Nat
    <2>1. Sums(f, g, n) /\ Sums(h, g, n) /\ n \in 0 .. n
      BY <1>1, <1>2 DEF Sums
    <2>2. f[n] = h[n]
      BY <2>1, SumsSame
    <2>3. QED
      BY <1>2, <2>2
  <1>4. f \in [Nat -> Nat]
    BY <1>3
  <1>5. f[0] = 0 /\ \A n \in Nat \ {0} : f[n] = f[n - 1] + g[n]
    BY <1>1 DEF SumStep
  <1>6. QED
    BY <1>4, <1>5 DEF IsTotal

LEMMA TotalsSame ==
  ASSUME NEW g, NEW f, NEW h, IsTotal(f, g), IsTotal(h, g)
  PROVE  f = h
  <1>1. ASSUME NEW n \in Nat
        PROVE  f[n] = h[n]
    <2>1. Sums(f, g, n) /\ Sums(h, g, n) /\ n \in 0 .. n
      BY DEF Sums, SumStep, IsTotal
    <2>2. QED
      BY <2>1, SumsSame
  <1>2. QED
    BY <1>1 DEF IsTotal

LEMMA TotalsGrow ==
  ASSUME NEW g \in [Nat -> Nat], NEW f, IsTotal(f, g), NEW n \in Nat, NEW m \in Nat, n <= m
  PROVE  f[n] <= f[m]
  <1> DEFINE S == {k \in Nat : f[n] <= f[n + k]}
  <1>1. \A k \in Nat : f[k] \in Nat /\ g[k] \in Nat
    BY DEF IsTotal
  <1>2. 0 \in S
    BY <1>1
  <1>3. ASSUME NEW k \in S
        PROVE  k + 1 \in S
    <2>1. (n + k) + 1 \in Nat \ {0} /\ ((n + k) + 1) - 1 = n + k /\ (n + k) + 1 = n + (k + 1)
      OBVIOUS
    <2>2. f[(n + k) + 1] = f[n + k] + g[(n + k) + 1]
      BY <2>1 DEF IsTotal
    <2>3. f[n] <= f[n + k] /\ n + k \in Nat
      OBVIOUS
    <2> DEFINE j == n + k
    <2>4. /\ f[j + 1] = f[j] + g[j + 1] /\ f[n] <= f[j]
          /\ j \in Nat /\ j + 1 \in Nat /\ j + 1 = n + (k + 1)
      BY <2>1, <2>2, <2>3
    <2> HIDE DEF j
    <2>5. f[n] <= f[j + 1]
      BY <1>1, <2>4
    <2>6. QED
      BY <2>4, <2>5
  <1>4. S = Nat
    <2>1. S \in SUBSET Nat
      OBVIOUS
    <2> HIDE DEF S
    <2>2. QED
      BY <1>2, <1>3, <2>1, Induction
  <1>5. PICK k \in Nat : n + k = m
    <2>1. m - n \in Nat /\ n + (m - n) = m
      OBVIOUS
    <2>2. QED
      BY <2>1
  <1>6. k \in S
    BY <1>4
  <1>7. QED
    BY <1>5, <1>6

-----------------------------------------------------------------------------
(* How many requests a file takes                                          *)

LEMMA RequestsLeft ==
  /\ Requests(0) = 0
  /\ \A s \in Nat : Requests(s) \in Nat
  /\ \A s \in Nat \ {0} : Requests(s) = Requests(s - ChunkSize(s)) + 1
  <1> DEFINE X == XferSize
  <1>1. X \in Nat \ {0}
    BY ClientAssumption
  <1>2. \A s : Requests(s) = (s + X - 1) \div X
    BY DEF Requests
  <1>3. \A s : ChunkSize(s) = IF s < X THEN s ELSE X
    BY DEF ChunkSize
  <1> HIDE DEF X
  <1>4. ASSUME NEW a \in Nat
        PROVE  a \div X \in Nat /\ (a + X) \div X = (a \div X) + 1
    BY <1>1
  <1>5. ASSUME NEW a \in Nat, a < X
        PROVE  a \div X = 0
    BY <1>1, <1>5
  <1>6. Requests(0) = 0
    <2>1. 0 + X - 1 = X - 1 /\ X - 1 \in Nat /\ X - 1 < X
      BY <1>1
    <2>2. QED
      BY <1>2, <1>5, <2>1
  <1>7. ASSUME NEW s \in Nat
        PROVE  Requests(s) \in Nat
    <2>1. s + X - 1 \in Nat
      BY <1>1
    <2>2. QED
      BY <1>2, <1>4, <2>1
  <1>8. ASSUME NEW s \in Nat \ {0}
        PROVE  Requests(s) = Requests(s - ChunkSize(s)) + 1
    <2>1. CASE s < X
      <3>1. s - ChunkSize(s) = 0
        BY <1>3, <2>1
      <3>2. s - 1 \in Nat /\ s - 1 < X /\ s + X - 1 = (s - 1) + X
        BY <1>1, <2>1
      <3>3. (s + X - 1) \div X = ((s - 1) \div X) + 1
        BY <1>4, <3>2
      <3>4. QED
        BY <1>2, <1>5, <1>6, <3>1, <3>2, <3>3
    <2>2. CASE ~ (s < X)
      <3>1. ChunkSize(s) = X /\ s - X \in Nat
        BY <1>1, <1>3, <2>2
      <3>2. (s - X) + X - 1 \in Nat /\ s + X - 1 = ((s - X) + X - 1) + X
        BY <1>1, <3>1
      <3>3. (s + X - 1) \div X = (((s - X) + X - 1) \div X) + 1
        BY <1>4, <3>2
      <3>4. QED
        BY <1>2, <3>1, <3>3
    <2>3. QED
      BY <2>1, <2>2
  <1>9. QED
    BY <1>6, <1>7, <1>8

\* The totals of the model are sums, before a step and after it.
LEMMA TotalChunksAre ==
  ASSUME \A n \in Nat : Chunks(n) \in Nat
  PROVE  IsTotal(TotalChunks, [n \in Nat |-> Chunks(n)])
  <1> DEFINE g == [n \in Nat |-> Chunks(n)]
             F(f) == [n \in Nat |-> IF n = 0 THEN 0 ELSE f[n - 1] + Chunks(n)]
  <1>1. g \in [Nat -> Nat]
    OBVIOUS
  <1>2. TotalChunks = F(TotalChunks)
    BY DEF TotalChunks
  <1>3. QED
    BY <1>1, <1>2, TotalsAre

LEMMA ChunksType ==
  ASSUME TypeOK
  PROVE  \A n \in Nat : SizeOf(n) \in Nat /\ Chunks(n) \in Nat
  <1>1. \A n : SizeOf(n) \in Nat
    BY SizeOfType
  <1>2. \A n \in Nat : Chunks(n) = 1 \/ Chunks(n) = Requests(SizeOf(n))
    BY DEF Chunks, Requests
  <1>3. QED
    BY <1>1, <1>2, RequestsLeft

LEMMA TotalsHold ==
  ASSUME TypeOK
  PROVE  /\ TotalChunks[0] = 0
         /\ \A n \in Nat : TotalChunks[n] \in Nat
         /\ \A n \in Nat \ {0} : TotalChunks[n] = TotalChunks[n - 1] + Chunks(n)
         /\ \A n, m \in Nat : n <= m => TotalChunks[n] <= TotalChunks[m]
  <1> DEFINE g == [n \in Nat |-> Chunks(n)]
  <1>1. IsTotal(TotalChunks, g) /\ g \in [Nat -> Nat]
    BY ChunksType, TotalChunksAre
  <1>2. \A n, m \in Nat : n <= m => TotalChunks[n] <= TotalChunks[m]
    <2> HIDE DEF g
    <2>1. QED
      BY <1>1, TotalsGrow
  <1>3. QED
    BY <1>1, <1>2 DEF IsTotal

\* A step that keeps the files and the method keeps the totals.
LEMMA TotalsKept ==
  ASSUME TypeOK, UNCHANGED <<mode, files>>
  PROVE  TotalChunks' = TotalChunks /\ \A n : SizeOf(n)' = SizeOf(n)
  <1>1. \A n : SizeOf(n)' = SizeOf(n)
    BY DEF SizeOf
  <1>2. \A n : Chunks(n)' = Chunks(n)
    BY <1>1 DEF Chunks
  <1> DEFINE g    == [n \in Nat |-> Chunks(n)]
             F(f) == [n \in Nat |-> IF n = 0 THEN 0 ELSE f[n - 1] + g[n]]
  <1>3. IsTotal(TotalChunks, g) /\ g \in [Nat -> Nat]
    BY ChunksType, TotalChunksAre
  <1>4. TotalChunks' = [n \in Nat |-> IF n = 0 THEN 0 ELSE TotalChunks'[n - 1] + Chunks(n)']
    BY DEF TotalChunks
  <1>5. TotalChunks' = F(TotalChunks')
    BY <1>2, <1>4
  <1> HIDE DEF g
  <1>6. IsTotal(TotalChunks', g)
    BY <1>3, <1>5, TotalsAre
  <1>7. QED
    BY <1>1, <1>3, <1>6, TotalsSame

\* The same, of the totals after a step.
LEMMA TotalsAfter ==
  ASSUME TypeOK'
  PROVE  \A n \in Nat : TotalChunks'[n] \in Nat
  <1>1. \A n : SizeOf(n)' \in Nat
    BY ClientAssumption DEF TypeOK, SizeOf
  <1>2. \A n \in Nat : Chunks(n)' = 1 \/ Chunks(n)' = Requests(SizeOf(n)')
    BY DEF Chunks, Requests
  <1>3. \A n \in Nat : Chunks(n)' \in Nat
    BY <1>1, <1>2, RequestsLeft
  <1> DEFINE g    == [n \in Nat |-> Chunks(n)']
             F(f) == [n \in Nat |-> IF n = 0 THEN 0 ELSE f[n - 1] + g[n]]
  <1>4. g \in [Nat -> Nat]
    BY <1>3
  <1>5. TotalChunks' = [n \in Nat |-> IF n = 0 THEN 0 ELSE TotalChunks'[n - 1] + Chunks(n)']
    BY DEF TotalChunks
  <1>6. TotalChunks' = F(TotalChunks')
    BY <1>5
  <1> HIDE DEF g
  <1>7. IsTotal(TotalChunks', g)
    BY <1>4, <1>6, TotalsAre
  <1>8. QED
    BY <1>7 DEF IsTotal

\* What a file adds to the total.
LEMMA ChunksOf ==
  ASSUME TypeOK, NEW n \in Nat
  PROVE  /\ mode = "sequential" => Chunks(n) = Requests(SizeOf(n))
         /\ SizeOf(n) # 0 => Chunks(n) = Requests(SizeOf(n))
         /\ SizeOf(n) = 0 /\ mode = "pipelined" => Chunks(n) = 1
  BY DEF Chunks, Requests

\* The next file begins when the requests are as many as those up to it take.
LEMMA CountNextFile ==
  ASSUME TypeOK, NEW n \in Nat, i' = n + 1, remaining_size' = SizeOf(n + 1), pc' = "file",
         UNCHANGED <<mode, files>>,
         Len(requests') = TotalChunks[n],
         phase' \in {"start", "write"}, phase' = "start" => reply' = REMI_SUCCESS,
         mode = "pipelined" => reply' = REMI_SUCCESS
  PROVE  CountInv'
  <1>1. TotalChunks' = TotalChunks /\ SizeOf(n + 1)' = SizeOf(n + 1)
    BY TotalsKept
  <1>2. (n + 1) - 1 = n
    OBVIOUS
  <1>3. Len(requests') + Requests(remaining_size') = TotalChunks'[i' - 1] + Requests(SizeOf(n + 1)')
    BY <1>1, <1>2
  <1>4. QED
    BY <1>3 DEF CountInv, Requests

LEMMA StartWritesCount ==
  ASSUME IInv, StartWrites
  PROVE  CountInv'
  <1>1. /\ pc' = "file" /\ i' = 1 /\ remaining_size' = SizeOf(1)
        /\ UNCHANGED <<mode, files, requests, reply, phase>>
        /\ phase = "start" /\ reply = REMI_SUCCESS /\ requests = <<>>
    BY DEF StartWrites, StartFile, argVars, IInv, CallInv
  <1>2. TypeOK /\ TotalChunks[0] = 0
    BY TotalsHold DEF IInv
  <1>3. Len(requests') = TotalChunks[0] /\ i' = 0 + 1 /\ remaining_size' = SizeOf(0 + 1)
    BY <1>1, <1>2
  <1>4. QED
    BY <1>1, <1>2, <1>3, CountNextFile

\* The numbers that the counts of file n are made of, while it is sent.
Sending(n) ==
  /\ n = i /\ n - 1 \in Nat
  /\ Len(requests) \in Nat /\ remaining_size \in Nat
  /\ TotalChunks[n] = TotalChunks[n - 1] + Chunks(n)
  /\ TotalChunks[n] \in Nat /\ TotalChunks[n - 1] \in Nat
  /\ Requests(remaining_size) \in Nat
  /\ Requests(SizeOf(n)) \in Nat /\ Chunks(n) \in Nat

LEMMA CountAt ==
  ASSUME IInv, pc \in {"file", "answer", "issue", "overlap", "wait"}, i <= Len(files)
  PROVE  \E n \in Nat \ {0} : Sending(n)
  <1>1. i \in Nat \ {0} /\ Len(requests) \in Nat /\ remaining_size \in Nat /\ TypeOK
    BY DEF IInv, TypeOK, ReadInv, InLoop
  <1>2. PICK n \in Nat \ {0} : n = i
    BY <1>1
  <1>3. n - 1 \in Nat
    OBVIOUS
  <1>4. TotalChunks[n] = TotalChunks[n - 1] + Chunks(n)
    BY <1>1, TotalsHold
  <1>5. TotalChunks[n] \in Nat /\ TotalChunks[n - 1] \in Nat
    BY <1>1, <1>3, TotalsHold
  <1>6. Requests(remaining_size) \in Nat
    BY <1>1, RequestsLeft
  <1>7. Requests(SizeOf(n)) \in Nat /\ Chunks(n) \in Nat
    BY <1>1, RequestsLeft, ChunksType
  <1>8. QED
    BY <1>1, <1>2, <1>3, <1>4, <1>5, <1>6, <1>7 DEF Sending

LEMMA SequentialChunkCount ==
  ASSUME IInv, SequentialChunk
  PROVE  CountInv'
  <1> USE DEF Sending, argVars, offsetVars
  <1>1. /\ pc = "file" /\ mode = "sequential" /\ i <= Len(files) /\ UNCHANGED <<mode, files>>
    BY DEF SequentialChunk
  <1>2. PICK n \in Nat \ {0} : Sending(n)
    BY <1>1, CountAt
  <1>3. Len(requests) + Requests(remaining_size) = TotalChunks[n]
    <2>1. Len(requests) + Requests(remaining_size) = TotalChunks[n - 1] + Requests(SizeOf(n))
      BY <1>1, <1>2 DEF IInv, CountInv
    <2>2. Chunks(n) = Requests(SizeOf(n))
      BY <1>1, ChunksOf DEF IInv
    <2>3. QED
      BY <1>2, <2>1, <2>2
  <1>4. CASE remaining_size = 0
    <2>1. /\ i' = n + 1 /\ remaining_size' = SizeOf(n + 1) /\ pc' = "file"
          /\ UNCHANGED <<requests, phase, reply>>
      BY <1>1, <1>2, <1>4 DEF SequentialChunk, StartFile
    <2>2. Len(requests') = TotalChunks[n]
      <3>1. Requests(remaining_size) = 0
        BY <1>4, RequestsLeft
      <3>2. QED
        BY <1>2, <1>3, <2>1, <3>1
    <2>3. phase \in {"start", "write"} /\ (phase = "start" => reply = REMI_SUCCESS)
      BY <1>1 DEF IInv, CountInv
    <2>4. QED
      BY <1>1, <2>1, <2>2, <2>3, CountNextFile DEF IInv
  <1>5. CASE remaining_size # 0
    <2>1. /\ i' = n /\ remaining_size' = remaining_size /\ pc' = "answer"
          /\ Len(requests') = Len(requests) + 1
      BY <1>1, <1>2, <1>5 DEF SequentialChunk, Send, IInv, TypeOK
    <2>2. TotalChunks' = TotalChunks
      BY <1>1, TotalsKept DEF IInv
    <2>3. Len(requests') + Requests(remaining_size') = TotalChunks'[i'] + 1
      BY <1>2, <1>3, <2>1, <2>2
    <2>4. QED
      BY <2>1, <2>3 DEF CountInv, Requests
  <1>6. QED
    BY <1>4, <1>5

LEMMA SequentialAnsweredCount ==
  ASSUME IInv, SequentialAnswered
  PROVE  CountInv'
  <1> USE DEF Sending, argVars, offsetVars, bufferVars
  <1>1. /\ pc = "answer" /\ pc' = "file" /\ i <= Len(files)
        /\ UNCHANGED <<mode, files, requests, i>>
        /\ mode = "sequential" /\ phase = "write" /\ UNCHANGED phase
        /\ remaining_size' = remaining_size - ChunkSize(remaining_size)
        /\ remaining_size \in Nat \ {0}
    BY DEF SequentialAnswered, IInv, ReadInv, InLoop, SequentialInv, CallInv, TypeOK
  <1>2. PICK n \in Nat \ {0} : Sending(n)
    BY <1>1, CountAt
  <1>3. Len(requests) + Requests(remaining_size) = TotalChunks[n] + 1
    BY <1>1, <1>2 DEF IInv, CountInv
  <1>4. /\ Requests(remaining_size) = Requests(remaining_size') + 1
        /\ Requests(remaining_size') \in Nat
    <2>1. remaining_size' \in Nat
      BY <1>1, ChunkSizeType
    <2>2. QED
      BY <1>1, <2>1, RequestsLeft
  <1>5. Chunks(n) = Requests(SizeOf(n))
    BY <1>1, ChunksOf DEF IInv
  <1>6. TotalChunks' = TotalChunks /\ SizeOf(n)' = SizeOf(n)
    BY <1>1, TotalsKept DEF IInv
  <1>7. Len(requests) + Requests(remaining_size') = TotalChunks[n - 1] + Requests(SizeOf(n))
    BY <1>2, <1>3, <1>4, <1>5
  <1>8. /\ Len(requests') + Requests(remaining_size') = TotalChunks'[i' - 1] + Requests(SizeOf(n)')
        /\ i' = n
    BY <1>1, <1>2, <1>6, <1>7
  <1>9. QED
    BY <1>1, <1>8 DEF CountInv, Requests

LEMMA FirstChunkCount ==
  ASSUME IInv, FirstChunk
  PROVE  CountInv'
  <1> USE DEF Sending, argVars, offsetVars, bufferVars
  <1>1. /\ pc = "file" /\ pc' = "issue" /\ i <= Len(files)
        /\ UNCHANGED <<mode, files, requests, i, phase, reply>>
        /\ mode = "pipelined"
        /\ remaining_size' = remaining_size - ChunkSize(remaining_size)
        /\ remaining_size \in Nat /\ remaining_size = SizeOf(i)
    BY DEF FirstChunk, IInv, ReadInv, InLoop, PipelinedInv, TypeOK
  <1>2. PICK n \in Nat \ {0} : Sending(n)
    BY <1>1, CountAt
  <1>3. Len(requests) = TotalChunks[n - 1]
    <2>1. Len(requests) + Requests(remaining_size) = TotalChunks[n - 1] + Requests(SizeOf(n))
      BY <1>1, <1>2 DEF IInv, CountInv
    <2>2. QED
      BY <1>1, <1>2, <2>1
  <1>4. phase \in {"start", "write"} /\ reply = REMI_SUCCESS
    BY <1>1 DEF IInv, CountInv
  <1>5. Requests(remaining_size') \in Nat /\ 1 + Requests(remaining_size') = Chunks(n)
    <2>1. CASE remaining_size = 0
      <3>1. remaining_size' = 0
        BY <1>1, <2>1, ChunkSizeType
      <3>2. Chunks(n) = 1
        BY <1>1, <1>2, <2>1, ChunksOf DEF IInv
      <3>3. QED
        BY <3>1, <3>2, RequestsLeft
    <2>2. CASE remaining_size # 0
      <3>1. remaining_size' \in Nat /\ remaining_size \in Nat \ {0}
        BY <1>1, <2>2, ChunkSizeType
      <3>2. Requests(remaining_size) = Requests(remaining_size') + 1
        BY <1>1, <3>1, RequestsLeft
      <3>3. Chunks(n) = Requests(remaining_size)
        BY <1>1, <1>2, <2>2, ChunksOf DEF IInv
      <3>4. Requests(remaining_size') \in Nat
        BY <3>1, RequestsLeft
      <3>5. QED
        BY <3>2, <3>3, <3>4
    <2>3. QED
      BY <2>1, <2>2
  <1>6. TotalChunks' = TotalChunks
    BY <1>1, TotalsKept DEF IInv
  <1>7. Len(requests) + 1 + Requests(remaining_size') = TotalChunks[n]
    BY <1>2, <1>3, <1>5
  <1>8. Len(requests') + 1 + Requests(remaining_size') = TotalChunks'[i']
    BY <1>1, <1>2, <1>6, <1>7
  <1>9. QED
    BY <1>1, <1>4, <1>8 DEF CountInv, Requests

LEMMA IssueChunkCount ==
  ASSUME IInv, IssueChunk
  PROVE  CountInv'
  <1> USE DEF argVars, loopVars, offsetVars
  <1>1. /\ pc = "issue" /\ pc' = "overlap" /\ UNCHANGED <<mode, files, i, remaining_size>>
        /\ Len(requests') = Len(requests) + 1
    BY DEF IssueChunk, Send, IInv, TypeOK
  <1>2. TotalChunks' = TotalChunks
    BY <1>1, TotalsKept DEF IInv
  <1>3. Len(requests') + Requests(remaining_size') = TotalChunks'[i']
    BY <1>1, <1>2 DEF IInv, CountInv
  <1>4. QED
    BY <1>1, <1>3 DEF CountInv, Requests

LEMMA ChunkAnsweredCount ==
  ASSUME IInv, ChunkAnswered
  PROVE  CountInv'
  <1> USE DEF Sending, argVars, loopVars, offsetVars, bufferVars
  <1>1. /\ pc = "wait" /\ i <= Len(files) /\ phase = "write" /\ remaining_size \in Nat
        /\ UNCHANGED <<mode, files, requests, reply>>
    BY DEF ChunkAnswered, IInv, ReadInv, CallInv, TypeOK
  <1>2. PICK n \in Nat \ {0} : Sending(n)
    BY <1>1, CountAt
  <1>3. Len(requests) + Requests(remaining_size) = TotalChunks[n]
    BY <1>1, <1>2 DEF IInv, CountInv
  <1>4. CASE reply # REMI_SUCCESS
    BY <1>4 DEF ChunkAnswered, ReturnWith, CountInv
  <1>5. CASE reply = REMI_SUCCESS /\ can_stop
    <2>1. /\ i' = n + 1 /\ remaining_size' = SizeOf(n + 1) /\ pc' = "file" /\ UNCHANGED phase
          /\ remaining_size = 0
      BY <1>1, <1>2, <1>5 DEF ChunkAnswered, StartFile, IInv, PipelinedInv
    <2>2. Len(requests') = TotalChunks[n]
      <3>1. Requests(remaining_size) = 0
        BY <2>1, RequestsLeft
      <3>2. QED
        BY <1>1, <1>2, <1>3, <3>1
    <2>3. QED
      BY <1>1, <1>5, <2>1, <2>2, CountNextFile DEF IInv
  <1>6. CASE reply = REMI_SUCCESS /\ ~can_stop
    <2>1. /\ pc' = "issue" /\ i' = i /\ UNCHANGED phase /\ remaining_size \in Nat \ {0}
          /\ remaining_size' = remaining_size - ChunkSize(remaining_size)
      BY <1>1, <1>6 DEF ChunkAnswered, Advance, IInv, PipelinedInv, Holds
    <2>2. remaining_size' \in Nat
      BY <2>1, ChunkSizeType
    <2>3. /\ Requests(remaining_size) = Requests(remaining_size') + 1
          /\ Requests(remaining_size') \in Nat
      BY <2>1, <2>2, RequestsLeft
    <2>4. TotalChunks' = TotalChunks
      BY <1>1, TotalsKept DEF IInv
    <2>5. Len(requests) + 1 + Requests(remaining_size') = TotalChunks[n]
      BY <1>2, <1>3, <2>3
    <2>6. Len(requests') + 1 + Requests(remaining_size') = TotalChunks'[i']
      BY <1>1, <1>2, <2>1, <2>4, <2>5
    <2>7. QED
      BY <1>1, <1>6, <2>1, <2>6 DEF CountInv, Requests
  <1>7. QED
    BY <1>4, <1>5, <1>6

\* A step that makes no request and reads nothing.
LEMMA CountKept ==
  ASSUME TypeOK, CountInv, UNCHANGED <<mode, files, requests, i, remaining_size>>,
         \/ UNCHANGED <<pc, phase, reply>>
         \/ pc' \in {"answer", "overlap", "wait"} /\ UNCHANGED pc
         \/ pc = "overlap" /\ pc' = "wait"
  PROVE  CountInv'
  <1>1. TotalChunks' = TotalChunks /\ \A n : SizeOf(n)' = SizeOf(n)
    BY TotalsKept
  <1>2. PICK n : n = i
    OBVIOUS
  <1>3. SizeOf(n)' = SizeOf(n)
    BY <1>1
  <1>4. QED
    BY <1>1, <1>2, <1>3 DEF CountInv, Requests

\* The requests made and those still to make add up after each step.
LEMMA CountStep ==
  ASSUME IInv, [Next]_vars
  PROVE  CountInv'
  <1> USE DEF argVars, loopVars, offsetVars
  <1>1. CASE (\E md \in Modes, root \in RemoteRoots, remove \in BOOLEAN :
                MigrateStart(md, root, remove))
             \/ Preparing \/ Throw \/ StartRefused \/ StartMmap \/ MmapAnswered \/ LoopDone
             \/ EndAnswered
    <2>1. pc' \in {"idle", "open", "start", "mmap", "end"}
      BY <1>1, PreparingStep DEF MigrateStart, Throw, StartRefused, StartMmap, MmapAnswered,
                                 LoopDone, EndAnswered, ReturnWith
    <2>2. QED
      BY <2>1 DEF CountInv
  <1>2. CASE InvalidArgument \/ (\E f \in InDirectory : Appear(f)) \/ Terminated \/ UNCHANGED vars
    <2>1. UNCHANGED <<pc, phase, reply, mode, files, requests, i, remaining_size>>
      BY <1>2 DEF InvalidArgument, Appear, Terminated, vars
    <2>2. QED
      BY <2>1, CountKept DEF IInv
  <1>3. CASE Answer
    <2>1. UNCHANGED <<pc, phase, mode, files, requests, i, remaining_size>> /\ Waiting
      BY <1>3 DEF Answer
    <2>2. CASE pc \in {"answer", "overlap", "wait"}
      BY <2>1, <2>2, CountKept DEF IInv
    <2>3. CASE pc \in {"start", "mmap", "end"}
      BY <2>1, <2>3 DEF CountInv
    <2>4. QED
      BY <2>1, <2>2, <2>3 DEF Waiting
  <1>4. CASE OverlappedRead
    BY <1>4, CountKept DEF OverlappedRead, IInv
  <1>5. CASE \/ StartWrites \/ SequentialChunk \/ SequentialAnswered
             \/ FirstChunk \/ IssueChunk \/ ChunkAnswered
    BY <1>5, StartWritesCount, SequentialChunkCount, SequentialAnsweredCount, FirstChunkCount,
       IssueChunkCount, ChunkAnsweredCount
  <1>6. QED
    BY <1>1, <1>2, <1>3, <1>4, <1>5 DEF Next, Application, Call, Preparing

-----------------------------------------------------------------------------
(* The files that are opened                                               *)

LEMMA OpenStep ==
  ASSUME IInv, [Next]_vars
  PROVE  OpenInv'
  <1> USE DEF argVars, loopVars, offsetVars
  <1>0. /\ TypeOK /\ OpenInv /\ i \in Nat /\ Len(files) \in Nat
        /\ pc = "open" => phase \in {"idle", "returned", "lost"}
    BY DEF IInv, TypeOK, CallInv
  <1>1. ASSUME NEW md \in Modes, NEW root \in RemoteRoots, NEW remove \in BOOLEAN,
               MigrateStart(md, root, remove)
        PROVE  OpenInv'
    <2>1. files' \in Seq(Files)
      BY <1>0, <1>1, WalkthroughType DEF MigrateStart
    <2>2. i' = 1 /\ opened' = {} /\ requests' = <<>> /\ Len(files') \in Nat
      BY <1>1, <2>1 DEF MigrateStart
    <2>3. QED
      BY <2>2 DEF OpenInv
  <1>2. CASE OpenFile
    <2>1. /\ i \in 1 .. Len(files) /\ i' = i + 1 /\ UNCHANGED <<files, requests>>
          /\ opened' \subseteq opened \cup {i} /\ opened \subseteq 1 .. i - 1 /\ requests = <<>>
      BY <1>0, <1>2 DEF OpenFile, Opening, OpenInv
    <2>2. opened' \subseteq 1 .. i' - 1 /\ i' \in 1 .. Len(files) + 1
      BY <1>0, <2>1
    <2>3. QED
      BY <2>1, <2>2 DEF OpenInv
  <1>3. CASE \/ Answer \/ InvalidArgument \/ (\E f \in InDirectory : Appear(f)) \/ Terminated
             \/ UNCHANGED vars
    <2>1. UNCHANGED <<pc, i, files, requests, opened>>
      BY <1>3 DEF Answer, InvalidArgument, Appear, Terminated, vars
    <2>2. QED
      BY <1>0, <2>1 DEF OpenInv
  <1>4. CASE Throw \/ (Call /\ ~OpenFile)
    <2>1. pc' # "open"
      BY <1>4 DEF Throw, Call, Opened, OpenFails, StartRefused, StartMmap, MmapAnswered,
                  StartWrites, SequentialChunk, SequentialAnswered, FirstChunk, IssueChunk,
                  OverlappedRead, ChunkAnswered, LoopDone, EndAnswered, ReturnWith
    <2>2. QED
      BY <2>1 DEF OpenInv
  <1>5. QED
    BY <1>1, <1>2, <1>3, <1>4 DEF Next, Application

-----------------------------------------------------------------------------
(* Where the descriptor stands                                             *)

LEMMA SequentialChunkPosition ==
  ASSUME IInv, SequentialChunk
  PROVE  PositionInv'
  <1> USE DEF argVars, offsetVars
  <1>1. CASE remaining_size = 0
    <2>1. position' = 0 /\ current_chunk_offset' = 0 /\ UNCHANGED pc /\ pc = "file"
      BY <1>1 DEF SequentialChunk, StartFile
    <2>2. QED
      BY <2>1 DEF PositionInv
  <1>2. CASE remaining_size # 0
    <2> DEFINE size == ChunkSize(remaining_size)
    <2>1. TypeOK /\ i \in Nat /\ position \in Nat /\ current_chunk_offset \in Nat /\ size \in Nat
      BY ChunkSizeType DEF IInv, TypeOK
    <2>2. /\ previous_buffer' \in Read(i, position, size)
          /\ position' = position + previous_buffer'.got
          /\ Send(i, current_chunk_offset, previous_buffer')
          /\ pc' = "answer" /\ UNCHANGED <<offsetVars, files>>
      BY <1>2 DEF SequentialChunk
    <2>3. PICK buffer \in Buffers : buffer = previous_buffer'
      BY <2>1, <2>2, ReadType
    <2>4. buffer.size = size /\ buffer.got \in Nat /\ buffer.got <= size
      BY <2>1, <2>2, <2>3, ReadType
    <2> DEFINE r == [file |-> i, offset |-> current_chunk_offset, data |-> buffer]
    <2>5. r \in Request /\ requests' = Append(requests, r)
      BY <2>1, <2>2, <2>3 DEF Send, Request
    <2>6. /\ DOMAIN requests' = 1 .. (Len(requests) + 1) /\ Len(requests) \in Nat
          /\ requests'[Len(requests) + 1] = r
          /\ DOMAIN requests = 1 .. Len(requests)
          /\ \A k \in DOMAIN requests : requests'[k] = requests[k]
      BY <2>1, <2>2, <2>5, Appended
    <2>7. i' = i /\ current_chunk_offset' = current_chunk_offset /\ size' = size
      BY <2>2 DEF ChunkSize
    <2>8. CASE ShortRead(i)
      <3>1. PICK k \in DOMAIN requests : requests[k].file = i /\ Short(requests[k])
        BY <2>8 DEF ShortRead
      <3>2. k \in DOMAIN requests' /\ requests'[k] = requests[k]
        BY <2>6
      <3>3. ShortRead(i)'
        BY <2>7, <3>1, <3>2 DEF ShortRead
      <3>4. QED
        BY <2>2, <3>3 DEF PositionInv
    <2>9. CASE ~ShortRead(i)
      <3>1. position = current_chunk_offset
        BY <2>9 DEF SequentialChunk, IInv, PositionInv
      <3>2. CASE buffer.got = size
        <4>1. position' = current_chunk_offset' + size'
          BY <2>1, <2>2, <2>3, <2>7, <3>1, <3>2
        <4>2. QED
          BY <2>2, <4>1 DEF PositionInv
      <3>3. CASE buffer.got # size
        <4>1. r.file = i /\ Short(r)
          BY <2>1, <2>4, <3>3 DEF Short
        <4>2. Len(requests) + 1 \in DOMAIN requests'
          BY <2>6
        <4>3. ShortRead(i)'
          BY <2>6, <2>7, <4>1, <4>2 DEF ShortRead
        <4>4. QED
          BY <2>2, <4>3 DEF PositionInv
      <3>4. QED
        BY <3>2, <3>3
    <2>10. QED
      BY <2>8, <2>9
  <1>3. QED
    BY <1>1, <1>2

LEMMA PositionStep ==
  ASSUME IInv, [Next]_vars
  PROVE  PositionInv'
  <1> USE DEF argVars, loopVars, offsetVars, bufferVars
  <1>0. TypeOK /\ PositionInv
    BY DEF IInv
  <1>1. CASE SequentialChunk
    BY <1>1, SequentialChunkPosition
  <1>2. CASE SequentialAnswered
    <2>1. /\ pc' = "file" /\ UNCHANGED <<files, requests, i, position>>
          /\ current_chunk_offset' = current_chunk_offset + ChunkSize(remaining_size)
          /\ position = current_chunk_offset + ChunkSize(remaining_size) \/ ShortRead(i)
      BY <1>0, <1>2 DEF SequentialAnswered, PositionInv
    <2>2. ShortRead(i) => ShortRead(i)'
      BY <2>1 DEF ShortRead
    <2>3. QED
      BY <2>1, <2>2 DEF PositionInv
  <1>3. CASE StartWrites \/ ChunkAnswered
    <2>1. pc' # "answer" /\ (pc' = "file" => position' = 0 /\ current_chunk_offset' = 0)
      BY <1>3 DEF StartWrites, ChunkAnswered, StartFile, ReturnWith
    <2>2. QED
      BY <2>1 DEF PositionInv
  <1>4. CASE \/ Answer \/ InvalidArgument \/ (\E f \in InDirectory : Appear(f)) \/ Terminated
             \/ OpenFile \/ UNCHANGED vars
    <2>1. UNCHANGED <<pc, mode, files, requests>> /\ (UNCHANGED loopVars \/ pc = "open")
      BY <1>4 DEF Answer, InvalidArgument, Appear, Terminated, OpenFile, Opening, vars
    <2>2. ShortRead(i) /\ UNCHANGED i => ShortRead(i)'
      BY <2>1 DEF ShortRead
    <2>3. QED
      BY <1>0, <2>1, <2>2 DEF PositionInv, ChunkSize
  <1>5. CASE \/ Throw \/ Opened \/ StartRefused \/ StartMmap \/ MmapAnswered \/ FirstChunk
             \/ IssueChunk \/ OverlappedRead \/ LoopDone \/ EndAnswered
             \/ (\E code \in {REMI_ERR_UNKNOWN_FILE, REMI_ERR_IO} : OpenFails(code))
             \/ (\E md \in Modes, root \in RemoteRoots, remove \in BOOLEAN :
                   MigrateStart(md, root, remove))
    <2>1. pc' \notin {"file", "answer"}
      BY <1>5 DEF Throw, Opened, OpenFails, StartRefused, StartMmap, MmapAnswered, FirstChunk,
                  IssueChunk, OverlappedRead, LoopDone, EndAnswered, ReturnWith, MigrateStart
    <2>2. QED
      BY <2>1 DEF PositionInv
  <1>6. QED
    BY <1>1, <1>2, <1>3, <1>4, <1>5 DEF Next, Application, Call

-----------------------------------------------------------------------------
(* The invariant                                                           *)

LEMMA InitInv ==
  ASSUME Init
  PROVE  IInv
  <1>1. requests = <<>> /\ pc = "idle" /\ phase = "idle" /\ opened = {}
    BY DEF Init
  <1>2. QED
    BY <1>1, InitType, OutsideLoops DEF IInv, Tiled, DataMatches, NothingLeftOpen, OpenInv,
       CallInv, LoopInv, ReadInv, InLoop, SequentialInv, PipelinedInv, PositionInv, CountInv

LEMMA NextType ==
  ASSUME IInv, [Next]_vars
  PROVE  TypeOK'
  <1>1. StepAssumed
    BY DEF IInv, StepAssumed
  <1>2. CASE UNCHANGED vars
    BY <1>1, <1>2 DEF StepAssumed, TypeOK, vars, filesetVars, argVars, offsetVars, bufferVars,
                      loopVars, endVars
  <1>3. QED
    BY <1>1, <1>2, BeginType, EnvironmentType, CallType DEF Next, Terminated

LEMMA NextLoops ==
  ASSUME IInv, [Next]_vars
  PROVE  LoopInv' /\ Tiled' /\ DataMatches'
  <1> USE DEF argVars, loopVars
  <1>0. LoopInv /\ Tiled /\ DataMatches
    BY DEF IInv, LoopInv
  <1>1. ASSUME NEW md \in Modes, NEW root \in RemoteRoots, NEW remove \in BOOLEAN,
               MigrateStart(md, root, remove)
        PROVE  LoopInv' /\ Tiled' /\ DataMatches'
    <2>1. requests' = <<>> /\ pc' = "open"
      BY <1>1 DEF MigrateStart
    <2>2. QED
      BY <2>1, OutsideLoops DEF Tiled, DataMatches
  <1>2. CASE InvalidArgument \/ Answer \/ (\E f \in InDirectory : Appear(f)) \/ Terminated
             \/ UNCHANGED vars
    <2>1. UNCHANGED <<pc, mode, files, requests, loopVars>>
      BY <1>2 DEF InvalidArgument, Answer, Appear, Terminated, vars
    <2>2. QED
      BY <1>0, <2>1, LoopsLeftAlone, NothingSent
  <1>3. CASE \/ Preparing \/ Throw \/ StartRefused \/ StartMmap \/ MmapAnswered \/ LoopDone
             \/ EndAnswered
    <2>1. UNCHANGED <<mode, files, requests>> /\ pc' \in {"idle", "open", "start", "mmap", "end"}
      BY <1>3, PreparingStep DEF Throw, StartRefused, StartMmap, MmapAnswered, LoopDone, EndAnswered, ReturnWith
    <2>2. QED
      BY <1>0, <2>1, OutsideLoops, NothingSent
  <1>4. CASE StartWrites \/ SequentialAnswered \/ FirstChunk \/ OverlappedRead \/ ChunkAnswered
    <2>1. UNCHANGED <<mode, files, requests>>
      BY <1>4 DEF StartWrites, SequentialAnswered, FirstChunk, OverlappedRead, ChunkAnswered
    <2>2. LoopInv'
      BY <1>4, StartWritesStep, SequentialAnsweredStep, FirstChunkStep, OverlappedReadStep,
         ChunkAnsweredStep
    <2>3. QED
      BY <1>0, <2>1, <2>2, NothingSent
  <1>5. CASE SequentialChunk \/ IssueChunk
    BY <1>5, SequentialChunkStep, IssueChunkStep
  <1>6. QED
    BY <1>1, <1>2, <1>3, <1>4, <1>5 DEF Next, Application, Call, Preparing

\* At every place of the loops, the requests made so far end where the chunk to
\* send begins, and the chunk to send ends where the read goes on.
THEOREM InvariantHolds == Spec => []IInv
  <1>1. Init => IInv
    BY InitInv
  <1>2. IInv /\ [Next]_vars => IInv'
    BY NextType, CallInvStep, NextLoops, OpenStep, PositionStep, CountStep DEF IInv, LoopInv
  <1>3. QED
    BY <1>1, <1>2, PTL DEF Spec

-----------------------------------------------------------------------------
(* The theorems                                                            *)

\* The variables have their types: no offset or size of the loops underflows.
THEOREM TypeCorrect == Spec => []TypeOK
  BY InvariantHolds, PTL DEF IInv

\* The requests of a call tile the files of remi_fileset_migrate.
THEOREM TiledHolds == Spec => []Tiled
  BY InvariantHolds, PTL DEF IInv

\* Each request carries the bytes of the place that it names, however the two
\* buffers were swapped and resized, except where the read() for it fell short
\* or, without ABT-IO, an earlier one of its file did: these are the requests of
\* remi_fileset_migrate, and no others, that may carry something else.
THEOREM DataMatchesHolds == Spec => []DataMatches
  BY InvariantHolds, PTL DEF IInv

\* migrate_end is called only when every byte of every file was sent.
THEOREM EndMeansSentHolds == Spec => []EndMeansSent
  <1>1. IInv => EndMeansSent
    BY DEF IInv, CallInv, EndMeansSent
  <1>2. QED
    BY <1>1, InvariantHolds, PTL

\* A call that returns leaves nothing open.
THEOREM NothingLeftOpenHolds == Spec => []NothingLeftOpen
  BY InvariantHolds, PTL DEF IInv

\* The source is removed only after migrate_end was answered with a success,
\* for a fileset that was sent whole, and on demand.
THEOREM SourceOutlivesTransferHolds == Spec => SourceOutlivesTransfer
  <1> USE DEF filesetVars, argVars, loopVars, endVars, vars
  <1> DEFINE Kept == \/ disk \subseteq disk'
                     \/ /\ remove_source /\ phase = "end" /\ reply = REMI_SUCCESS
                        /\ mode # "mmap" => AllSent
  <1>1. IInv /\ [Next]_vars => [Kept]_vars
    <2> SUFFICES ASSUME IInv, Next
                 PROVE  Kept
      OBVIOUS
    <2>1. CASE EndAnswered
      BY <2>1 DEF EndAnswered, RemoveSource, IInv, CallInv
    <2>2. CASE Answer
      BY <2>2 DEF Answer, Created
    <2>3. ASSUME NEW f \in InDirectory, Appear(f)
          PROVE  Kept
      BY <2>3 DEF Appear
    <2>4. CASE Call /\ ~EndAnswered
      BY <2>4 DEF Call, OpenFile, Opened, OpenFails, StartRefused, StartMmap, MmapAnswered, StartWrites, SequentialChunk,
                  SequentialAnswered, FirstChunk, IssueChunk, OverlappedRead, ChunkAnswered, LoopDone
    <2>5. CASE Application \/ Throw \/ Terminated
      BY <2>5 DEF Application, MigrateStart, InvalidArgument, Throw, Terminated
    <2>6. QED
      BY <2>1, <2>2, <2>3, <2>4, <2>5 DEF Next
  <1>2. QED
    BY <1>1, InvariantHolds, PTL DEF Spec, SourceOutlivesTransfer

-----------------------------------------------------------------------------
(* The contract                                                            *)

\* MigrationSession has the codes of RemiCommon, too.
LEMMA SameCodes ==
  /\ Contract!REMI_SUCCESS = REMI_SUCCESS
  /\ Contract!Answers = Answers
  /\ DOMAIN Answers = {"start", "mmap", "write", "end"}
  <1>1. Contract!Answers = Answers
    BY DEF Contract!Answers, Answers, Contract!REMI_SUCCESS, REMI_SUCCESS,
           Contract!REMI_ERR_UNKNOWN_CLASS, REMI_ERR_UNKNOWN_CLASS,
           Contract!REMI_ERR_FILE_EXISTS, REMI_ERR_FILE_EXISTS, Contract!REMI_ERR_USER,
           REMI_ERR_USER, Contract!REMI_ERR_IO, REMI_ERR_IO, Contract!REMI_ERR_INVALID_OPID,
           REMI_ERR_INVALID_OPID, Contract!REMI_ERR_MIGRATION, REMI_ERR_MIGRATION
  <1>2. QED
    BY <1>1 DEF Answers, Contract!REMI_SUCCESS, REMI_SUCCESS

\* How many requests there are is settled when the call begins.
LEMMA TotalKept ==
  ASSUME TypeOK, UNCHANGED <<mode, files>>
  PROVE  UNCHANGED <<mode, TotalChunks[Len(files)]>>
  BY TotalsKept

LEMMA SessionIdles ==
  ASSUME TypeOK, UNCHANGED <<mode, files, phase, reply, requests>>
  PROVE  UNCHANGED Contract!sessionVars
  BY TotalKept DEF Contract!sessionVars

\* What the call decides before the first RPC.
LEMMA PrepareMoves ==
  ASSUME IInv, IInv',
         \/ \E md \in Modes, root \in RemoteRoots, remove \in BOOLEAN : MigrateStart(md, root, remove)
         \/ \E code \in {REMI_ERR_UNKNOWN_FILE, REMI_ERR_IO} : OpenFails(code)
  PROVE  Contract!Prepare
  <1>1. phase \in {"idle", "returned", "lost"} /\ phase' \in {phase, "returned"} /\ UNCHANGED reply
    BY DEF MigrateStart, OpenFails, Opening, ReturnWith, IInv, CallInv
  <1>2. requests' = <<>>
    BY DEF MigrateStart, OpenFails, Opening, IInv, OpenInv
  <1>3. Len(files') \in Nat
    BY DEF IInv, TypeOK
  <1>4. TotalChunks'[Len(files')] \in Nat
    BY <1>3, TotalsAfter DEF IInv
  <1>5. QED
    BY <1>1, <1>2, <1>4 DEF Contract!Prepare, Contract!Outside

LEMMA BeginMoves ==
  ASSUME IInv, IInv', Opened
  PROVE  Contract!Begin
  <1>1. phase \in {"idle", "returned", "lost"}
    BY DEF Opened, IInv, CallInv
  <1>2. phase' = "start" /\ reply' = "PENDING" /\ Len(requests') = 0
    BY DEF Opened, Issue, IInv, OpenInv
  <1>3. Len(files') \in Nat
    BY DEF IInv, TypeOK
  <1>4. TotalChunks'[Len(files')] \in Nat
    BY <1>3, TotalsAfter DEF IInv
  <1>5. QED
    BY <1>1, <1>2, <1>4 DEF Contract!Begin, Contract!Outside

LEMMA AnswerMoves ==
  ASSUME IInv, Answer
  PROVE  Contract!Answer
  <1>1. UNCHANGED <<mode, phase, requests, TotalChunks[Len(files)]>>
    BY TotalKept DEF Answer, argVars, IInv
  <1>2. /\ phase \in {"start", "mmap", "write", "end"}
        /\ reply = "PENDING" /\ reply' \in Answers[phase]
    BY DEF Answer, Waiting, IInv, CallInv
  <1>3. QED
    BY <1>1, <1>2, SameCodes DEF Contract!Answer

LEMMA ThrowMoves ==
  ASSUME IInv, Throw
  PROVE  Contract!Lose
  <1>1. UNCHANGED <<mode, reply, requests, TotalChunks[Len(files)]>>
    BY TotalKept DEF Throw, argVars, IInv
  <1>2. phase \in {"start", "mmap", "write", "end"} /\ phase' = "lost"
    BY DEF Throw, Waiting, IInv, CallInv
  <1>3. QED
    BY <1>1, <1>2, SameCodes DEF Contract!Lose

\* The ways out of the call.
LEMMA ReturnMoves ==
  ASSUME IInv,
         \/ StartRefused \/ EndAnswered
         \/ (MmapAnswered \/ ChunkAnswered \/ LoopDone) /\ reply # REMI_SUCCESS
  PROVE  Contract!Return
  <1>1. UNCHANGED <<mode, files, reply, requests>> /\ phase' = "returned"
    BY DEF StartRefused, EndAnswered, MmapAnswered, ChunkAnswered, LoopDone, ReturnWith, argVars
  <1>2. UNCHANGED <<mode, reply, requests, TotalChunks[Len(files)]>>
    BY <1>1, TotalKept DEF IInv
  <1>3. /\ phase \in {"start", "mmap", "write", "end"} /\ reply # "PENDING"
        /\ phase = "end" \/ reply # REMI_SUCCESS
    BY DEF StartRefused, EndAnswered, MmapAnswered, ChunkAnswered, LoopDone, Answered, IInv,
           CallInv, CountInv
  <1>4. QED
    BY <1>1, <1>2, <1>3, SameCodes DEF Contract!Return

LEMMA MmapCalls ==
  ASSUME IInv, StartMmap \/ (MmapAnswered /\ reply = REMI_SUCCESS)
  PROVE  Contract!CallNext
  <1>1. /\ UNCHANGED <<mode, files, requests>> /\ mode = "mmap"
        /\ reply = REMI_SUCCESS /\ reply' = "PENDING"
    BY DEF StartMmap, MmapAnswered, Issue, argVars, IInv, CallInv
  <1>2. \/ phase = "start" /\ phase' = "mmap"
        \/ phase = "mmap" /\ phase' = "end"
    BY DEF StartMmap, MmapAnswered, Issue, ReturnWith, IInv, CallInv
  <1>3. UNCHANGED TotalChunks[Len(files)]
    BY <1>1, TotalKept DEF IInv
  <1>4. QED
    BY <1>1, <1>2, <1>3, SameCodes DEF Contract!CallNext, Contract!Call

\* Before a request is made, there are fewer than the total.
LEMMA RequestsRemain ==
  ASSUME IInv, i <= Len(files),
         \/ pc = "file" /\ mode = "sequential" /\ remaining_size # 0
         \/ pc = "issue"
  PROVE  Len(requests) < TotalChunks[Len(files)]
  <1> USE DEF Sending
  <1>1. PICK n \in Nat \ {0} : Sending(n)
    BY CountAt
  <1>2. Len(files) \in Nat
    BY DEF IInv, TypeOK
  <1>3. /\ TotalChunks[Len(files)] \in Nat
        /\ TotalChunks[n] <= TotalChunks[Len(files)]
    BY <1>1, <1>2, TotalsHold DEF IInv
  <1>4. CASE pc = "issue"
    <2>1. Len(requests) + 1 + Requests(remaining_size) = TotalChunks[n]
      BY <1>1, <1>4 DEF IInv, CountInv
    <2>2. QED
      BY <1>1, <1>3, <2>1
  <1>5. CASE pc = "file" /\ mode = "sequential" /\ remaining_size # 0
    <2>1. Len(requests) + Requests(remaining_size) = TotalChunks[n - 1] + Requests(SizeOf(n))
      BY <1>1, <1>5 DEF IInv, CountInv
    <2>2. Chunks(n) = Requests(SizeOf(n))
      BY <1>5, ChunksOf DEF IInv
    <2>3. Requests(remaining_size) > 0
      <3>1. remaining_size \in Nat \ {0}
        BY <1>1, <1>5
      <3>2. remaining_size - ChunkSize(remaining_size) \in Nat
        BY <3>1, ChunkSizeType
      <3>3. /\ Requests(remaining_size) = Requests(remaining_size - ChunkSize(remaining_size)) + 1
            /\ Requests(remaining_size - ChunkSize(remaining_size)) \in Nat
        BY <3>1, <3>2, RequestsLeft
      <3>4. QED
        BY <3>3
    <2>4. QED
      BY <1>1, <1>3, <2>1, <2>2, <2>3
  <1>6. QED
    BY <1>4, <1>5

LEMMA WriteCalls ==
  ASSUME IInv, IssueChunk \/ (SequentialChunk /\ remaining_size # 0)
  PROVE  Contract!CallNext
  <1>1. /\ UNCHANGED <<mode, files>> /\ mode # "mmap" /\ i <= Len(files)
        /\ Len(requests') = Len(requests) + 1 /\ phase' = "write" /\ reply' = "PENDING"
    BY DEF IssueChunk, SequentialChunk, Send, Issue, argVars, IInv, ReadInv, InLoop, TypeOK
  <1>2. Len(requests) < TotalChunks[Len(files)]
    BY <1>1, RequestsRemain DEF IssueChunk, SequentialChunk
  <1>3. \/ phase \in {"start", "write"} /\ reply = REMI_SUCCESS
        \/ phase = "write" /\ reply # "PENDING" /\ mode = "sequential"
    BY DEF IssueChunk, SequentialChunk, IInv, CallInv, CountInv
  <1>4. UNCHANGED TotalChunks[Len(files)]
    BY <1>1, TotalKept DEF IInv
  <1>5. QED
    BY <1>1, <1>2, <1>3, <1>4, SameCodes DEF Contract!CallNext, Contract!Call

LEMMA EndCalls ==
  ASSUME IInv, LoopDone, reply = REMI_SUCCESS
  PROVE  Contract!CallNext
  <1>1. /\ UNCHANGED <<mode, files, requests>> /\ mode # "mmap"
        /\ phase' = "end" /\ reply' = "PENDING"
    BY DEF LoopDone, Issue, argVars, IInv, ReadInv, InLoop, ReturnWith
  <1>2. phase \in {"start", "write"}
    BY DEF LoopDone, IInv, CountInv
  <1>3. Len(requests) = TotalChunks[Len(files)]
    <2>0. Len(files) \in Nat
      BY DEF IInv, TypeOK
    <2>1. PICK n \in Nat : n = Len(files)
      BY <2>0, Zenon
    <2>2. i = n + 1 /\ (n + 1) - 1 = n
      BY <2>1 DEF LoopDone, IInv, ReadInv, InLoop, TypeOK
    <2>3. SizeOf(n + 1) = 0
      BY <2>1 DEF SizeOf, IInv, TypeOK
    <2>4. remaining_size = 0
      <3>1. current_chunk_offset + remaining_size = 0
        BY <2>2, <2>3 DEF LoopDone, IInv, ReadInv, InLoop
      <3>2. QED
        BY <3>1 DEF IInv, TypeOK
    <2>5. Len(requests) + Requests(remaining_size) = TotalChunks[n] + Requests(SizeOf(n + 1))
      BY <2>2 DEF LoopDone, IInv, CountInv
    <2>6. Len(requests) \in Nat /\ TotalChunks[n] \in Nat
      BY TotalsHold DEF IInv, TypeOK
    <2>7. Requests(remaining_size) = 0 /\ Requests(SizeOf(n + 1)) = 0
      BY <2>3, <2>4, RequestsLeft
    <2>8. QED
      BY <2>1, <2>5, <2>6, <2>7
  <1>4. UNCHANGED TotalChunks[Len(files)]
    BY <1>1, TotalKept DEF IInv
  <1>5. QED
    BY <1>1, <1>2, <1>3, <1>4, SameCodes DEF Contract!CallNext, Contract!Call

\* Every step is one of the contract, or leaves it alone.
LEMMA NextMoves ==
  ASSUME IInv, IInv', [Next]_vars
  PROVE  [Contract!SessionNext]_(Contract!sessionVars)
  <1> USE DEF Contract!SessionNext
  <1>0. TypeOK
    BY DEF IInv
  <1>1. CASE \/ Opened
             \/ \E md \in Modes, root \in RemoteRoots, remove \in BOOLEAN :
                  MigrateStart(md, root, remove)
             \/ \E code \in {REMI_ERR_UNKNOWN_FILE, REMI_ERR_IO} : OpenFails(code)
    BY <1>1, BeginMoves, PrepareMoves
  <1>2. CASE InvalidArgument \/ OpenFile \/ (\E f \in InDirectory : Appear(f)) \/ Terminated \/ UNCHANGED vars
             \/ StartWrites \/ SequentialAnswered \/ FirstChunk \/ OverlappedRead
             \/ (SequentialChunk /\ remaining_size = 0) \/ (ChunkAnswered /\ reply = REMI_SUCCESS)
    <2>1. UNCHANGED <<mode, files, phase, reply, requests>>
      BY <1>2 DEF InvalidArgument, OpenFile, Appear, Terminated, vars, StartWrites, SequentialAnswered,
                  FirstChunk, OverlappedRead, SequentialChunk, ChunkAnswered, argVars
    <2>2. QED
      BY <1>0, <2>1, SessionIdles
  <1>3. CASE Answer \/ Throw
    BY <1>3, AnswerMoves, ThrowMoves
  <1>4. CASE \/ StartRefused \/ EndAnswered
             \/ (MmapAnswered \/ ChunkAnswered \/ LoopDone) /\ reply # REMI_SUCCESS
    BY <1>4, ReturnMoves
  <1>5. CASE \/ StartMmap \/ IssueChunk \/ (SequentialChunk /\ remaining_size # 0)
             \/ (MmapAnswered \/ LoopDone) /\ reply = REMI_SUCCESS
    BY <1>5, MmapCalls, WriteCalls, EndCalls
  <1>6. QED
    BY <1>1, <1>2, <1>3, <1>4, <1>5 DEF Next, Application, Call

\* The calls are made in the order that MigrationSession has them, and migrate_end
\* only after as many requests as the sizes of the files call for.
THEOREM KeepsSessionHolds == Spec => KeepsSession
  <1>1. Init => Contract!SessionInit
    BY DEF Init, Contract!SessionInit
  <1>2. IInv /\ IInv' /\ [Next]_vars => [Contract!SessionNext]_(Contract!sessionVars)
    BY NextMoves
  <1>3. QED
    BY <1>1, <1>2, InvariantHolds, PTL DEF Spec, KeepsSession, Contract!SessionSpec
=============================================================================
