-------------------------- MODULE MigrationSession --------------------------
(***************************************************************************)
(* The contract between the two sides of a migration: which RPC may follow *)
(* which answer, and what each RPC may be answered.  The client relies on  *)
(* the answers, the provider on the order of the calls; RemiClient and     *)
(* RemiProvider are each shown to keep their side of it, so that each may  *)
(* be read without the other.                                              *)
(***************************************************************************)
EXTENDS RemiCommon, Naturals

VARIABLES
  mode,   \* the transfer method
  phase,  \* the RPC the session is in; "idle", "returned" or "lost" outside
  sent,   \* how many migrate_write requests were issued
  total,  \* how many there are to issue
  reply   \* the answer to the last RPC, "PENDING" until it comes

sessionVars == <<mode, phase, sent, total, reply>>

SessionInit == phase = "idle" /\ reply = "PENDING"

Outside == {"idle", "returned", "lost"}

\* Before the first RPC a call of remi_fileset_migrate decides what to send, and
\* it may return there; an earlier call may have gone before it.
Prepare ==
  /\ phase \in Outside /\ phase' \in {phase, "returned"}
  /\ sent' = 0 /\ total' \in Nat
  /\ UNCHANGED reply

\* The first RPC.
Begin ==
  /\ phase \in Outside
  /\ phase' = "start" /\ sent' = 0 /\ reply' = "PENDING"
  /\ total' \in Nat

Answer ==
  /\ reply = "PENDING"
  /\ phase \in DOMAIN Answers => reply' \in Answers[phase]
  /\ phase \in DOMAIN Answers \cup {"lost"}
  /\ UNCHANGED <<mode, phase, sent, total>>

Call(next, n) ==
  /\ phase' = next /\ sent' = n /\ reply' = "PENDING"
  /\ UNCHANGED <<mode, total>>

\* Without ABT-IO ("sequential") the answers in the middle are not looked at.
CallNext ==
  \/ /\ mode = "mmap"
     /\ reply = REMI_SUCCESS
     /\ \/ phase = "start" /\ Call("mmap", sent)
        \/ phase = "mmap" /\ Call("end", sent)
  \/ /\ mode # "mmap" /\ sent < total
     /\ \/ phase \in {"start", "write"} /\ reply = REMI_SUCCESS
        \/ phase = "write" /\ reply # "PENDING" /\ mode = "sequential"
     /\ Call("write", sent + 1)
  \/ /\ mode # "mmap" /\ sent = total
     /\ phase \in {"start", "write"} /\ reply = REMI_SUCCESS
     /\ Call("end", sent)

Return ==
  /\ phase \in DOMAIN Answers /\ reply # "PENDING"
  /\ phase = "end" \/ reply # REMI_SUCCESS
  /\ phase' = "returned"
  /\ UNCHANGED <<mode, sent, total, reply>>

Lose ==
  /\ phase \in DOMAIN Answers
  /\ phase' = "lost"
  /\ UNCHANGED <<mode, sent, total, reply>>

SessionNext == Prepare \/ Begin \/ Answer \/ CallNext \/ Return \/ Lose

SessionSpec == SessionInit /\ [][SessionNext]_sessionVars
=============================================================================
