------------------------ MODULE RemiClientInvariant -------------------------
(***************************************************************************)
(* The inductive invariant of RemiClient: at each place of the two loops,  *)
(* how far the requests are and what the buffers hold.                     *)
(***************************************************************************)
EXTENDS RemiClient

LastRequest == requests[Len(requests)]

\* The files before the n-th were sent to their end.
SentBefore(n) ==
  \A f \in DOMAIN files :
    f < n /\ SizeOf(f) > 0 =>
      \E k \in DOMAIN requests : requests[k].file = f /\ EndOf(requests[k]) = SizeOf(f)

\* So was the n-th, up to an offset.
SentTo(n, offset) ==
  /\ SentBefore(n)
  /\ offset > 0 =>
       requests # <<>> /\ LastRequest.file = n /\ EndOf(LastRequest) = offset
  /\ offset = 0 /\ requests # <<>> =>
       LastRequest.file < n /\ EndOf(LastRequest) = SizeOf(LastRequest.file)

\* The last request is for the file that is being sent, from an offset on and
\* up to another.
LastSent(from, to) ==
  /\ SentBefore(i)
  /\ requests # <<>>
  /\ LastRequest.file = i /\ LastRequest.offset = from /\ EndOf(LastRequest) = to

\* A buffer was read from the file that is being sent, at an offset.
Holds(buffer, offset, size) ==
  buffer.file = i /\ buffer.offset = offset /\ buffer.size = size

InLoop == pc \in {"file", "answer", "issue", "overlap", "wait"}

\* What is read and what is not read make up the file.
ReadInv ==
  /\ InLoop => mode # "mmap" /\ i > 0 /\ i <= Len(files) + 1
  /\ pc \in {"answer", "issue", "overlap", "wait"} => i <= Len(files)
  /\ InLoop => current_chunk_offset + remaining_size = SizeOf(i)

SequentialInv ==
  /\ pc = "file" => SentTo(i, current_chunk_offset)
  /\ pc = "answer" =>
       /\ mode = "sequential" /\ remaining_size > 0
       /\ LastSent(current_chunk_offset, current_chunk_offset + ChunkSize(remaining_size))

\* The buffer to send is one chunk behind the read.
PipelinedInv ==
  /\ pc = "file" /\ mode = "pipelined" => current_chunk_offset = 0
  /\ pc \in {"issue", "overlap", "wait"} =>
       /\ mode = "pipelined"
       /\ remaining_size > 0 => current_chunk_offset > 0
  /\ pc = "issue" =>
       /\ ~can_stop
       /\ SentTo(i, previous_chunk_offset)
       /\ previous_chunk_offset <= current_chunk_offset
       /\ current_chunk_offset - previous_chunk_offset <= XferSize
       /\ Holds(previous_buffer, previous_chunk_offset,
                current_chunk_offset - previous_chunk_offset)
  /\ pc \in {"overlap", "wait"} => LastSent(previous_chunk_offset, current_chunk_offset)
  /\ pc = "overlap" => ~can_stop
  /\ pc = "wait" =>
       IF can_stop
         THEN remaining_size = 0
         ELSE /\ remaining_size > 0
              /\ Holds(current_buffer, current_chunk_offset, ChunkSize(remaining_size))

\* A read of file n fell short.
ShortRead(n) == \E k \in DOMAIN requests : requests[k].file = n /\ Short(requests[k])

\* Without ABT-IO the descriptor stands where the next chunk begins, unless a
\* read of the file fell short.
PositionInv ==
  /\ pc = "file" /\ mode = "sequential" =>
       position = current_chunk_offset \/ ShortRead(i)
  /\ pc = "answer" =>
       position = current_chunk_offset + ChunkSize(remaining_size) \/ ShortRead(i)

\* While the files are opened, those kept are among the ones gone through.
OpenInv ==
  pc = "open" => /\ i \in 1 .. Len(files) + 1 /\ opened \subseteq 1 .. i - 1
                 /\ requests = <<>>

\* The RPC that the call waits for, and what it left when it is over.
CallInv ==
  /\ pc \in {"idle", "open"} <=> phase \in {"idle", "returned", "lost"}
  /\ pc \in {"start", "mmap", "end"} => phase = pc
  /\ pc \in {"answer", "overlap", "wait"} => phase = "write"
  /\ phase = "end" => pc = "end"
  /\ pc = "file" => reply # "PENDING"
  /\ pc = "start" => requests = <<>>
  /\ pc \in {"start", "mmap"} => tmp # <<>>
  /\ pc = "mmap" => mode = "mmap"
  /\ pc = "end" /\ mode # "mmap" => AllSent

\* How many requests so many bytes take.
Requests(size) == (size + XferSize - 1) \div XferSize

\* The requests made and those still to make for the file that is being sent are
\* as many as the sizes of the files up to it call for.  The loop goes on after a
\* failure only without ABT-IO.
CountInv ==
  /\ pc \in {"file", "issue"} =>
       phase \in {"start", "write"} /\ (phase = "start" \/ pc = "issue" => reply = REMI_SUCCESS)
  /\ pc = "file" =>
       /\ mode = "pipelined" => reply = REMI_SUCCESS
       /\ Len(requests) + Requests(remaining_size) = TotalChunks[i - 1] + Requests(SizeOf(i))
  /\ pc = "answer" => Len(requests) + Requests(remaining_size) = TotalChunks[i] + 1
  /\ pc = "issue" => Len(requests) + 1 + Requests(remaining_size) = TotalChunks[i]
  /\ pc \in {"overlap", "wait"} => Len(requests) + Requests(remaining_size) = TotalChunks[i]

\* The parts above hold together, and each step preserves them together.
IInv ==
  /\ TypeOK /\ Tiled /\ DataMatches /\ NothingLeftOpen
  /\ OpenInv /\ CallInv /\ ReadInv /\ SequentialInv /\ PipelinedInv /\ PositionInv /\ CountInv
=============================================================================
