------------------------ MODULE RemiLifecycleInvariant -----------------------
(***************************************************************************)
(* The inductive invariant of RemiLifecycle.                               *)
(***************************************************************************)
EXTENDS RemiLifecycle

\* The members of S, each once, in some order.
Lists(s, S) ==
  /\ \A i \in DOMAIN s : s[i] \in S
  /\ \A i, j \in DOMAIN s : s[i] = s[j] => i = j
  /\ \A x \in S : \E i \in DOMAIN s : s[i] = x

LiveOf(mid) == {p \in Live : provider[p].mid = mid}

\* A provider that is alive has its finalize callback, once, in its instance.
FinalizerInv == \A mid \in Mids : Lists(finalizers[mid], LiveOf(mid))

\* Providers that share an id at this moment know of each other.
RivalInv ==
  \A p, q \in Live : p # q /\ provider[p].id = provider[q].id => q \in rivals[p]

\* A provider that is alive and was never rivalled is in the table.
EntryInv ==
  \A p \in Live : rivals[p] = {} =>
    /\ provider[p].id \in DOMAIN s_registered_providers
    /\ s_registered_providers[provider[p].id] = p

\* User arguments belong to at most one class, of a provider that is alive.
OwnerInv ==
  \A p, q \in Providers :
    \A k \in DOMAIN m_migration_classes[p], l \in DOMAIN m_migration_classes[q] :
      m_migration_classes[p][k] \in UserArgs =>
        /\ p \in Live
        /\ m_migration_classes[p][k] \in taken
        /\ m_migration_classes[p][k] = m_migration_classes[q][l] => p = q /\ k = l

\* Only those that come with a free function are freed.
FreeInv == \A a \in UserArgs \ HasFree : freed[a] = 0

\* A callback whose class was not taken away runs with the arguments of a class
\* that is still there, in an instance that is not being finalized.
RunInv ==
  \A p \in Providers, a \in UserArgs : <<p, a>> \in running \ withdrawn =>
    /\ p \in Live /\ margo[provider[p].mid] = "up"
    /\ \E k \in DOMAIN m_migration_classes[p] : m_migration_classes[p][k] = a

\* A handle points to a client that was made.
HandleInv ==
  \A h \in Handles : handle[h].state = "live" => client[handle[h].m_client].state # "none"

\* The parts above hold together, and each step preserves them together.
ServerInv ==
  /\ TableNeverDangles /\ EntryInv /\ RivalInv
  /\ DestroyedOnce /\ FinalizerInv
  /\ UserArgsFreedOnce /\ OwnerInv /\ FreeInv /\ RunInv

ClientInv == HandlesCounted /\ HandleInv

IInv == TypeOK /\ ServerInv /\ ClientInv
=============================================================================
