------------------------ MODULE RemiProviderInvariant -----------------------
(***************************************************************************)
(* The inductive invariant of RemiProvider.  Its parts say, for one        *)
(* migration, what the position of each actor tells about the others.      *)
(***************************************************************************)
EXTENDS RemiProvider

StartRuns(m) == startPc[m] \in {"called", "checked", "calling", "accepted"}
WriteWaits(m, n) == writePc[<<m, n>>] \in {"called", "located"}
WriteTaken(m, n) == writePc[<<m, n>>] \in {"acked", "written", "short"}
MmapRuns(m) == bulkPc[m] \in {"called", "located", "mapped", "pulled"}
EndRuns(m) == endPc[m] \in {"called", "located", "calling", "silent"}

\* Where the sender is tells which RPCs were made, and its last answer how far
\* the handler of the last RPC is.
StartInv(m) ==
  /\ startPc[m] = "none" <=> phase[m] = "idle"
  /\ phase[m] = "idle" => reply[m] = "PENDING"
  /\ StartRuns(m) => phase[m] \in {"start", "lost"} /\ reply[m] = "PENDING"
  /\ phase[m] = "start" =>
       /\ sent[m] = 0 /\ bulkPc[m] = "none" /\ endPc[m] = "none"
       /\ reply[m] = "PENDING" => StartRuns(m)
       /\ reply[m] = REMI_SUCCESS => startPc[m] = "opened"
  /\ phase[m] \in {"mmap", "write", "end"} => startPc[m] = "opened"
  /\ startPc[m] # "opened" =>
       /\ sent[m] = 0 /\ bulkPc[m] = "none" /\ endPc[m] = "none"
       /\ m \notin m_op_in_progress /\ ~m_fds[m]

WriteInv(m) ==
  /\ sent[m] <= Len(Plan[m])
  /\ mode[m] = "mmap" => sent[m] = 0
  /\ \A n \in DOMAIN Plan[m] :
       /\ writePc[<<m, n>>] = "none" <=> n > sent[m]
       /\ WriteWaits(m, n) =>
            n = sent[m] /\ phase[m] \in {"write", "lost"} /\ reply[m] = "PENDING"
       /\ WriteTaken(m, n) => InRange(m, n)
       /\ writePc[<<m, n>>] = "short" => HasError(m)
  /\ phase[m] = "write" =>
       /\ mode[m] # "mmap" /\ endPc[m] = "none" /\ sent[m] > 0
       /\ reply[m] = "PENDING" => WriteWaits(m, sent[m])
       /\ reply[m] = REMI_SUCCESS => WriteTaken(m, sent[m])

MmapInv(m) ==
  /\ bulkPc[m] # "none" => mode[m] = "mmap"
  /\ MmapRuns(m) =>
       phase[m] \in {"mmap", "lost"} /\ reply[m] = "PENDING" /\ endPc[m] = "none"
  /\ phase[m] = "mmap" =>
       /\ endPc[m] = "none"
       /\ reply[m] = "PENDING" => MmapRuns(m)
       /\ reply[m] = REMI_SUCCESS => bulkPc[m] = "synced"

EndInv(m) ==
  /\ endPc[m] # "none" =>
       /\ phase[m] \in {"end", "returned", "lost"}
       /\ mode[m] = "mmap" => bulkPc[m] = "synced"
       /\ mode[m] # "mmap" => \A n \in DOMAIN Plan[m] : WriteTaken(m, n)
  /\ EndRuns(m) => phase[m] \in {"end", "lost"} /\ reply[m] = "PENDING"
  /\ phase[m] = "end" =>
       /\ endPc[m] # "none"
       /\ reply[m] = "PENDING" => EndRuns(m)
       /\ reply[m] = REMI_SUCCESS => endPc[m] \in {"answered", "erased"}
  /\ phase[m] = "returned" /\ reply[m] = REMI_SUCCESS => endPc[m] \in {"answered", "erased"}

\* The mutex of the operation has at most one holder, and a request that is
\* being carried out has at most its successor behind it.
MutexInv(m) ==
  /\ \A n \in DOMAIN Plan[m] :
       writePc[<<m, n>>] = "acked" =>
         /\ m_mutex[m]
         /\ n = sent[m] \/ (n = sent[m] - 1 /\ WriteWaits(m, sent[m]))
         /\ \A k \in DOMAIN Plan[m] : writePc[<<m, k>>] = "acked" => k = n
  /\ endPc[m] \in {"calling", "silent"} => m_mutex[m]

\* Who uses the operation finds it; a request that was turned away dooms all
\* those after it; migrate_end takes over only when everything is written.
OperationInv(m) ==
  /\ bulkPc[m] \in {"located", "mapped", "pulled"} => m \in m_op_in_progress
  /\ endPc[m] \in {"called", "located", "calling", "silent", "answered"}
       => m \in m_op_in_progress
  /\ startPc[m] = "opened" /\ m \notin m_op_in_progress =>
       \/ bulkPc[m] = "failed" \/ endPc[m] \in {"failed", "erased"}
       \/ sent[m] > 0 /\ writePc[<<m, sent[m]>>] \in {"called", "rejected"}
  /\ \A n \in DOMAIN Plan[m] :
       writePc[<<m, n>>] \in {"located", "acked"} => m \in m_op_in_progress
  /\ \A n \in DOMAIN Plan[m] :
       writePc[<<m, n>>] = "rejected" =>
         /\ m \notin m_op_in_progress
         /\ \A k \in DOMAIN Plan[m] :
              k > n => writePc[<<m, k>>] \in {"none", "called", "rejected"}
  /\ endPc[m] \in {"failed", "erased"} => m \notin m_op_in_progress
  /\ endPc[m] = "failed" => \A n \in DOMAIN Plan[m] : writePc[<<m, n>>] # "acked"
  /\ Published(m) => \A n \in DOMAIN Plan[m] : writePc[<<m, n>>] \in {"none", "written"}
  /\ startPc[m] = "opened" => (m_fds[m] <=> endPc[m] \in {"none", "called", "located"})

\* A piece that was written is in its file unless another migration created
\* the file again.
ContentInv(m) ==
  /\ startPc[m] = "opened" => Targets(m) \subseteq exists
  /\ Exclusive(m) =>
       /\ mode[m] # "mmap" => \A n \in DOMAIN Plan[m] :
            writePc[<<m, n>>] = "written" => <<m, n>> \in content[PieceFile(m, n)]
       /\ bulkPc[m] \in {"pulled", "synced"} => Intact(m)

ControlInv(m) ==
  /\ StartInv(m) /\ WriteInv(m) /\ MmapInv(m) /\ EndInv(m)
  /\ MutexInv(m) /\ OperationInv(m)

\* The parts above hold together, and each step preserves them together.
IInv ==
  /\ TypeOK
  /\ \A m \in Migrations : ControlInv(m)
  /\ \A m \in Migrations : ContentInv(m)
=============================================================================
