------------------------ MODULE RemiLifecycleTheorems ------------------------
(***************************************************************************)
(* Proofs about RemiLifecycle, for any number of Margo instances,          *)
(* providers, ids, classes, user arguments, clients, handles and           *)
(* references.                                                             *)
(***************************************************************************)
EXTENDS RemiLifecycleInvariant, SequenceTheorems, FiniteSetTheorems, WellFoundedInduction, TLAPS

-----------------------------------------------------------------------------
(* Maps                                                                    *)

\* Inserting or replacing an entry.
LEMMA InsertEntry ==
  ASSUME NEW D, NEW R, NEW f \in Tables(D, R), NEW k \in D, NEW r \in R
  PROVE  With(f, k, r) \in Tables(D, R)
  <1>1. PICK K \in SUBSET D : f \in [K -> R]
    BY DEF Tables
  <1>2. With(f, k, r) \in [K \cup {k} -> R]
    BY <1>1 DEF With
  <1>3. K \cup {k} \in SUBSET D
    BY <1>1
  <1>4. QED
    BY <1>2, <1>3 DEF Tables

\* Erasing an entry.
LEMMA EraseEntry ==
  ASSUME NEW D, NEW R, NEW f \in Tables(D, R), NEW k
  PROVE  Without(f, k) \in Tables(D, R)
  <1>1. PICK K \in SUBSET D : f \in [K -> R]
    BY DEF Tables
  <1>2. Without(f, k) \in [K \ {k} -> R]
    BY <1>1 DEF Without
  <1>3. K \ {k} \in SUBSET D
    BY <1>1
  <1>4. QED
    BY <1>2, <1>3 DEF Tables

\* What a map holds.
LEMMA TableEntries ==
  ASSUME NEW D, NEW R, NEW f \in Tables(D, R)
  PROVE  DOMAIN f \subseteq D /\ \A x \in DOMAIN f : f[x] \in R
  BY DEF Tables

LEMMA EmptyTable == \A D, R : <<>> \in Tables(D, R) /\ DOMAIN <<>> = {}
  <1> TAKE D, R
  <1>1. <<>> \in [{} -> R] /\ {} \in SUBSET D
    OBVIOUS
  <1>2. QED
    BY <1>1 DEF Tables

-----------------------------------------------------------------------------
(* Lists                                                                   *)

\* A set of natural numbers that is not empty has a least member, and Min picks
\* it.
LEMMA LeastMember ==
  ASSUME NEW S \in SUBSET Nat, S # {}
  PROVE  Min(S) \in S /\ \A n \in S : Min(S) <= n
  <1> DEFINE R == OpToRel(<, Nat)
  <1>1. \A x, y \in Nat : y < x => <<y, x>> \in R
    BY DEF OpToRel
  <1> HIDE DEF R
  <1>2. IsWellFoundedOn(R, Nat)
    BY NatLessThanWellFounded DEF R
  <1>3. PICK x \in S : \A y \in S : ~ (<<y, x>> \in R)
    BY <1>2, WFMin
  <1>4. \A y \in S : x <= y
    <2>1. \A y \in S : ~ (y < x)
      BY <1>1, <1>3
    <2>2. QED
      BY <2>1
  <1>5. QED
    BY <1>4 DEF Min

\* Removing a member of a list.
LEMMA ListsRemoveAt ==
  ASSUME NEW P, NEW s \in Seq(P), NEW S, Lists(s, S), NEW i \in DOMAIN s
  PROVE  RemoveAt(s, i) \in Seq(P) /\ Lists(RemoveAt(s, i), S \ {s[i]})
  <1> DEFINE a == SubSeq(s, 1, i - 1)
             b == SubSeq(s, i + 1, Len(s))
             t == RemoveAt(s, i)
  <1>1. i \in Nat /\ 1 <= i /\ i <= Len(s) /\ Len(s) \in Nat /\ DOMAIN s = 1 .. Len(s)
    OBVIOUS
  <1>2. a \in Seq(P) /\ Len(a) = i - 1 /\ \A j \in 1 .. i - 1 : a[j] = s[j]
    BY <1>1, SubSeqProperties
  <1>3. b \in Seq(P) /\ Len(b) = Len(s) - i /\ \A j \in 1 .. Len(s) - i : b[j] = s[i + j]
    BY <1>1, SubSeqProperties
  <1> HIDE DEF a, b
  <1>4. t = a \o b
    BY DEF t, a, b, RemoveAt
  <1> HIDE DEF t
  <1>5. /\ t \in Seq(P) /\ Len(t) = Len(s) - 1
        /\ \A j \in 1 .. Len(s) - 1 : t[j] = IF j < i THEN s[j] ELSE s[j + 1]
    <2>1. /\ t \in Seq(P) /\ Len(t) = Len(a) + Len(b)
          /\ \A j \in 1 .. Len(a) + Len(b) : t[j] = IF j <= Len(a) THEN a[j] ELSE b[j - Len(a)]
      BY <1>2, <1>3, <1>4, ConcatProperties
    <2>2. ASSUME NEW j \in 1 .. Len(s) - 1
          PROVE  t[j] = IF j < i THEN s[j] ELSE s[j + 1]
      <3>1. CASE j < i
        BY <1>1, <1>2, <1>3, <2>1, <3>1
      <3>2. CASE j >= i
        <4>1. j - Len(a) \in 1 .. Len(s) - i /\ i + (j - Len(a)) = j + 1
          BY <1>1, <1>2, <3>2
        <4>2. t[j] = b[j - Len(a)]
          BY <1>1, <1>2, <1>3, <2>1, <3>2
        <4>3. QED
          BY <1>1, <1>3, <3>2, <4>1, <4>2
      <3>3. QED
        BY <1>1, <3>1, <3>2
    <2>3. QED
      BY <1>1, <1>2, <1>3, <2>1, <2>2
  <1>6. DOMAIN t = 1 .. Len(s) - 1
    BY <1>5
  <1>7. \A j \in DOMAIN t : t[j] \in S \ {s[i]}
    BY <1>1, <1>5, <1>6 DEF Lists
  <1>8. ASSUME NEW j \in DOMAIN t, NEW k \in DOMAIN t, t[j] = t[k]
        PROVE  j = k
    <2> DEFINE up(n) == IF n < i THEN n ELSE n + 1
    <2>1. up(j) \in DOMAIN s /\ up(k) \in DOMAIN s
      BY <1>1, <1>6
    <2>2. s[up(j)] = s[up(k)]
      BY <1>1, <1>5, <1>6, <1>8
    <2>3. up(j) = up(k)
      BY <2>1, <2>2 DEF Lists
    <2>4. QED
      BY <1>1, <1>6, <2>3
  <1>9. ASSUME NEW x \in S \ {s[i]}
        PROVE  \E j \in DOMAIN t : t[j] = x
    <2>1. PICK j \in DOMAIN s : s[j] = x
      BY DEF Lists
    <2>2. CASE j < i
      BY <1>1, <1>5, <1>6, <2>1, <2>2
    <2>3. CASE j > i
      <3>1. j - 1 \in DOMAIN t /\ t[j - 1] = s[j]
        BY <1>1, <1>5, <1>6, <2>1, <2>3
      <3>2. QED
        BY <2>1, <3>1
    <2>4. QED
      BY <1>1, <2>1, <2>2, <2>3
  <1>10. QED
    BY <1>5, <1>7, <1>8, <1>9 DEF Lists, t

LEMMA ListsRemoveFirst ==
  ASSUME NEW P, NEW s \in Seq(P), NEW S, Lists(s, S), NEW x \in S
  PROVE  RemoveFirst(s, x) \in Seq(P) /\ Lists(RemoveFirst(s, x), S \ {x})
  <1> DEFINE I == {i \in 1 .. Len(s) : s[i] = x}
  <1>1. I \in SUBSET Nat /\ I # {} /\ DOMAIN s = 1 .. Len(s)
    BY DEF Lists
  <1>2. Min(I) \in DOMAIN s /\ s[Min(I)] = x
    BY <1>1, LeastMember
  <1>3. RemoveFirst(s, x) = RemoveAt(s, Min(I))
    BY <1>1 DEF RemoveFirst, SelectInSeq
  <1> HIDE DEF I
  <1>4. QED
    BY <1>2, <1>3, ListsRemoveAt

LEMMA ListsFront ==
  ASSUME NEW P, NEW s \in Seq(P), NEW S, Lists(s, S), s # <<>>
  PROVE  /\ Last(s) \in S
         /\ Front(s) \in Seq(P) /\ Lists(Front(s), S \ {Last(s)})
  <1>1. Len(s) \in Nat /\ Len(s) > 0 /\ DOMAIN s = 1 .. Len(s)
    BY EmptySeq
  <1>2. /\ Front(s) \in Seq(P) /\ Len(Front(s)) = Len(s) - 1
        /\ \A j \in 1 .. Len(s) - 1 : Front(s)[j] = s[j]
    BY <1>1, SubSeqProperties DEF Front
  <1>3. DOMAIN Front(s) = 1 .. Len(s) - 1
    BY <1>2
  <1>4. QED
    BY <1>1, <1>2, <1>3 DEF Lists, Last

LEMMA ListsAppend ==
  ASSUME NEW P, NEW s \in Seq(P), NEW S, Lists(s, S), NEW x \in P, x \notin S
  PROVE  Append(s, x) \in Seq(P) /\ Lists(Append(s, x), S \cup {x})
  <1>1. /\ Append(s, x) \in Seq(P) /\ Len(Append(s, x)) = Len(s) + 1
        /\ \A i \in 1 .. Len(s) : Append(s, x)[i] = s[i]
        /\ Append(s, x)[Len(s) + 1] = x
    BY AppendProperties
  <1>2. DOMAIN s = 1 .. Len(s) /\ DOMAIN Append(s, x) = 1 .. Len(s) + 1 /\ Len(s) \in Nat
    BY <1>1
  <1>3. QED
    BY <1>1, <1>2 DEF Lists

-----------------------------------------------------------------------------
(* Type correctness                                                        *)

\* A provider that is alive has an instance, an id and an ABT-IO instance.
LEMMA LiveProvider ==
  ASSUME TypeOK, NEW p \in Live
  PROVE  /\ p \in Providers
         /\ provider[p] \in [state : {"live", "deleted"}, mid : Mids, id : Ids, m_abtio : Abtio]
  BY DEF TypeOK, ProviderRecord, Live

\* The finalize callback that remi_provider_destroy pops, and the one that Margo
\* runs next.
LEMMA PopFinalizerList ==
  ASSUME TypeOK, FinalizerInv, NEW p \in Live
  PROVE  LET mid == provider[p].mid IN
           /\ RemoveFirst(finalizers[mid], p) \in Seq(Providers)
           /\ Lists(RemoveFirst(finalizers[mid], p), LiveOf(mid) \ {p})
  <1> DEFINE mid == provider[p].mid
  <1>1. mid \in Mids
    BY LiveProvider
  <1>2. p \in LiveOf(mid)
    BY DEF LiveOf
  <1>3. finalizers[mid] \in Seq(Providers) /\ Lists(finalizers[mid], LiveOf(mid))
    BY <1>1 DEF TypeOK, FinalizerInv
  <1> HIDE DEF mid
  <1>4. /\ RemoveFirst(finalizers[mid], p) \in Seq(Providers)
        /\ Lists(RemoveFirst(finalizers[mid], p), LiveOf(mid) \ {p})
    BY <1>2, <1>3, ListsRemoveFirst
  <1>5. QED
    BY <1>4 DEF mid

LEMMA LastFinalizer ==
  ASSUME TypeOK, FinalizerInv, NEW mid \in Mids, finalizers[mid] # <<>>
  PROVE  LET p == Last(finalizers[mid]) IN
           /\ p \in Live /\ provider[p].mid = mid
           /\ Front(finalizers[mid]) \in Seq(Providers)
           /\ Lists(Front(finalizers[mid]), LiveOf(mid) \ {p})
  <1>1. finalizers[mid] \in Seq(Providers) /\ Lists(finalizers[mid], LiveOf(mid))
    BY DEF TypeOK, FinalizerInv
  <1>2. /\ Last(finalizers[mid]) \in LiveOf(mid)
        /\ Front(finalizers[mid]) \in Seq(Providers)
        /\ Lists(Front(finalizers[mid]), LiveOf(mid) \ {Last(finalizers[mid])})
    BY <1>1, ListsFront
  <1>3. QED
    BY <1>2 DEF LiveOf

\* Deleting a provider that is alive.
LEMMA DeleteType ==
  ASSUME TypeOK, NEW p \in Live, OnFinalize(p)
  PROVE  /\ provider' \in [Providers -> ProviderRecord]
         /\ s_registered_providers' \in Tables(Ids, Providers)
         /\ m_migration_classes' \in [Providers -> Tables(Classes, UserArgs \cup {NoArgs})]
         /\ freed' \in [UserArgs -> Nat]
         /\ deletes' \in [Providers -> Nat]
  <1>1. provider' \in [Providers -> ProviderRecord]
    <2>1. [provider[p] EXCEPT !.state = "deleted"] \in ProviderRecord
      BY LiveProvider DEF ProviderRecord
    <2>2. provider' = [provider EXCEPT ![p] = [provider[p] EXCEPT !.state = "deleted"]]
      BY DEF OnFinalize
    <2>3. QED
      BY <2>1, <2>2 DEF TypeOK
  <1>2. s_registered_providers' \in Tables(Ids, Providers)
    BY EraseEntry DEF OnFinalize, Erase, TypeOK
  <1>3. m_migration_classes' \in [Providers -> Tables(Classes, UserArgs \cup {NoArgs})]
    BY EmptyTable DEF OnFinalize, TypeOK
  <1>4. freed' \in [UserArgs -> Nat]
    BY DEF OnFinalize, FreeClasses, FreeAll, TypeOK
  <1>5. deletes' \in [Providers -> Nat]
    <2>1. p \in Providers
      BY LiveProvider
    <2>2. QED
      BY <2>1 DEF OnFinalize, TypeOK
  <1>6. QED
    BY <1>1, <1>2, <1>3, <1>4, <1>5

LEMMA InitTypeOK == Init => TypeOK
  <1> SUFFICES ASSUME Init PROVE TypeOK
    OBVIOUS
  <1>1. s_registered_providers \in Tables(Ids, Providers)
    BY EmptyTable DEF Init
  <1>2. m_migration_classes \in [Providers -> Tables(Classes, UserArgs \cup {NoArgs})]
    BY EmptyTable DEF Init
  <1>3. finalizers \in [Mids -> Seq(Providers)]
    BY DEF Init
  <1>4. QED
    BY <1>1, <1>2, <1>3 DEF Init, TypeOK, ProviderRecord, ClientRecord, HandleRecord

LEMMA ProviderTypeOK ==
  ASSUME TypeOK, FinalizerInv, ProviderCalls
  PROVE  TypeOK'
  <1> USE DEF registryVars, tableVars, callbackVars, clientVars
  <1>1. ASSUME NEW p \in Providers, NEW mid \in Mids, NEW id \in Ids, NEW io \in Abtio,
               ProviderRegister(p, mid, id, io)
        PROVE  TypeOK'
    <2>1. provider' \in [Providers -> ProviderRecord]
      BY <1>1 DEF ProviderRegister, TypeOK, ProviderRecord
    <2>2. s_registered_providers' \in Tables(Ids, Providers)
      BY <1>1, InsertEntry DEF ProviderRegister, TypeOK
    <2>3. finalizers' \in [Mids -> Seq(Providers)]
      BY <1>1, AppendProperties DEF ProviderRegister, TypeOK
    <2>4. rivals' \in [Providers -> SUBSET Providers]
      BY <1>1 DEF ProviderRegister, TypeOK, Live
    <2>5. QED
      BY <1>1, <2>1, <2>2, <2>3, <2>4 DEF ProviderRegister, TypeOK
  <1>2. ASSUME NEW p \in Providers, ProviderDestroy(p)
        PROVE  TypeOK'
    <2>1. p \in Live /\ provider[p].mid \in Mids
      BY <1>2, LiveProvider DEF ProviderDestroy
    <2>2. RemoveFirst(finalizers[provider[p].mid], p) \in Seq(Providers)
      BY <2>1, PopFinalizerList
    <2>3. finalizers' \in [Mids -> Seq(Providers)]
      BY <1>2, <2>1, <2>2 DEF ProviderDestroy, PopFinalizer, TypeOK
    <2>4. QED
      BY <1>2, <2>1, <2>3, DeleteType DEF ProviderDestroy, TypeOK
  <1>3. ASSUME NEW p \in Providers, NEW io \in Abtio, ProviderSetAbtio(p, io)
        PROVE  TypeOK'
    <2>1. [provider[p] EXCEPT !.m_abtio = io] \in ProviderRecord
      BY <1>3, LiveProvider DEF ProviderSetAbtio, ProviderRecord
    <2>2. provider' = [provider EXCEPT ![p] = [provider[p] EXCEPT !.m_abtio = io]]
      BY <1>3 DEF ProviderSetAbtio
    <2>3. QED
      BY <1>3, <2>1, <2>2 DEF ProviderSetAbtio, TypeOK
  <1>4. QED
    BY <1>1, <1>2, <1>3 DEF ProviderCalls

LEMMA ClassTypeOK ==
  ASSUME TypeOK, ClassCalls \/ Handlers
  PROVE  TypeOK'
  <1> USE DEF registryVars, tableVars, callbackVars, clientVars
  <1> DEFINE R == UserArgs \cup {NoArgs}
  <1>1. ASSUME NEW p \in Providers, NEW key \in Classes, NEW r \in R,
               m_migration_classes' = [m_migration_classes EXCEPT ![p] = With(@, key, r)]
        PROVE  m_migration_classes' \in [Providers -> Tables(Classes, R)]
    BY <1>1, InsertEntry DEF TypeOK
  <1>2. ASSUME NEW p \in Providers, NEW key \in Classes, NEW args \in UserArgs,
               RegisterClass(p, key, args)
        PROVE  TypeOK'
    <2>1. m_migration_classes' \in [Providers -> Tables(Classes, R)]
      BY <1>1, <1>2 DEF RegisterClass
    <2>2. taken' \subseteq UserArgs
      BY <1>2 DEF RegisterClass, TypeOK
    <2>3. UNCHANGED <<tableVars, freed, margo, callbackVars, clientVars>>
      BY <1>2 DEF RegisterClass
    <2>4. QED
      BY <2>1, <2>2, <2>3 DEF TypeOK
  <1>3. ASSUME NEW p \in Providers, NEW key \in Classes, DeregisterClass(p, key)
        PROVE  TypeOK'
    <2>1. m_migration_classes' \in [Providers -> Tables(Classes, R)]
      BY <1>3, EraseEntry DEF DeregisterClass, TypeOK
    <2>2. freed' \in [UserArgs -> Nat]
      BY <1>3 DEF DeregisterClass, FreeAll, TypeOK
    <2>3. QED
      BY <1>3, <2>1, <2>2 DEF DeregisterClass, TypeOK
  <1>4. ASSUME NEW p \in Providers, NEW key \in Classes, PhantomClass(p, key)
        PROVE  TypeOK'
    BY <1>1, <1>4 DEF PhantomClass, TypeOK
  <1>5. ASSUME NEW p \in Providers, NEW key \in Classes, CallbackBegin(p, key)
        PROVE  TypeOK'
    <2>1. m_migration_classes[p][key] \in UserArgs
      BY <1>5, TableEntries DEF CallbackBegin, TypeOK
    <2>2. running' \subseteq Providers \X UserArgs /\ withdrawn \subseteq running'
      BY <1>5, <2>1 DEF CallbackBegin, TypeOK
    <2>3. UNCHANGED <<tableVars, registryVars, margo, withdrawn, clientVars>>
      BY <1>5 DEF CallbackBegin
    <2>4. QED
      BY <2>2, <2>3 DEF TypeOK
  <1>6. ASSUME NEW p \in Providers, NEW args \in UserArgs, CallbackEnd(p, args)
        PROVE  TypeOK'
    BY <1>6 DEF CallbackEnd, TypeOK
  <1>7. QED
    BY <1>2, <1>3, <1>4, <1>5, <1>6 DEF ClassCalls, Handlers

LEMMA MargoTypeOK ==
  ASSUME TypeOK, FinalizerInv, Margo
  PROVE  TypeOK'
  <1> USE DEF registryVars, tableVars, callbackVars, clientVars
  <1>1. ASSUME NEW mid \in Mids, MargoFinalize(mid) \/ MargoDown(mid)
        PROVE  TypeOK'
    BY <1>1 DEF MargoFinalize, MargoDown, TypeOK
  <1>2. ASSUME NEW mid \in Mids, FinalizeProvider(mid)
        PROVE  TypeOK'
    <2>1. /\ Last(finalizers[mid]) \in Live
          /\ Front(finalizers[mid]) \in Seq(Providers)
      BY <1>2, LastFinalizer DEF FinalizeProvider
    <2>2. finalizers' \in [Mids -> Seq(Providers)]
      BY <1>2, <2>1 DEF FinalizeProvider, TypeOK
    <2>3. QED
      BY <1>2, <2>1, <2>2, DeleteType DEF FinalizeProvider, TypeOK
  <1>3. QED
    BY <1>1, <1>2 DEF Margo

-----------------------------------------------------------------------------
(* Clients and provider handles                                            *)

\* The records of a client that was made and of a handle that is alive.
LEMMA LiveClient ==
  ASSUME TypeOK, NEW c \in Clients, client[c].state # "none"
  PROVE  client[c] \in [state : {"live", "freed"}, m_num_providers : Nat, m_abtio : Abtio]
  BY DEF TypeOK, ClientRecord

LEMMA LiveHandle ==
  ASSUME TypeOK, NEW h \in Handles, handle[h].state = "live"
  PROVE  handle[h] \in [state : {"live", "freed"}, m_client : Clients, m_ref_count : Nat]
  BY DEF TypeOK, HandleRecord

LEMMA HandlesFinite ==
  ASSUME NEW c
  PROVE  IsFiniteSet(HandlesOf(c)) /\ Cardinality(HandlesOf(c)) \in Nat
  <1>1. HandlesOf(c) \in SUBSET Handles
    BY DEF HandlesOf
  <1>2. QED
    BY <1>1, LifecycleAssumption, FS_Subset, FS_CardinalityType

LEMMA ClientStep ==
  ASSUME TypeOK, ClientInv, NEW c \in Clients,
         \/ \E io \in Abtio : ClientInit(c, io) \/ ClientSetAbtio(c, io)
         \/ ClientFinalize(c)
  PROVE  TypeOK' /\ ClientInv'
  <1>1. /\ UNCHANGED <<serverVars, handle, held>>
        /\ \A d : HandlesOf(d)' = HandlesOf(d)
    BY DEF ClientInit, ClientSetAbtio, ClientFinalize, HandlesOf
  <1>2. ASSUME client[c].state = "none",
               NEW h \in Handles, handle[h].state = "live"
        PROVE  handle[h].m_client # c
    BY <1>2 DEF ClientInv, HandleInv
  <1>3. /\ client' \in [Clients -> ClientRecord]
        /\ \A d \in Clients \ {c} : client'[d] = client[d]
        /\ client'[c].state # "none"
        /\ client'[c].state = "live" => client'[c].m_num_providers = Cardinality(HandlesOf(c))
    <2>1. ASSUME NEW io \in Abtio, ClientInit(c, io)
          PROVE  <1>3!:
      <3>1. HandlesOf(c) = {}
        <4>1. client[c].state = "none"
          BY <2>1 DEF ClientInit
        <4>2. QED
          BY <1>2, <4>1 DEF HandlesOf
      <3>2. QED
        BY <2>1, <3>1, FS_EmptySet DEF ClientInit, TypeOK, ClientRecord
    <2>2. ASSUME NEW io \in Abtio, ClientSetAbtio(c, io)
          PROVE  <1>3!:
      <3>1. client' = [client EXCEPT ![c] = [client[c] EXCEPT !.m_abtio = io]]
        BY <2>2 DEF ClientSetAbtio
      <3>2. /\ [client[c] EXCEPT !.m_abtio = io] \in ClientRecord
            /\ [client[c] EXCEPT !.m_abtio = io].state = "live"
            /\ [client[c] EXCEPT !.m_abtio = io].m_num_providers = client[c].m_num_providers
        BY <2>2, LiveClient DEF ClientSetAbtio, ClientRecord
      <3>3. QED
        BY <2>2, <3>1, <3>2 DEF ClientSetAbtio, TypeOK, ClientInv, HandlesCounted
    <2>3. CASE ClientFinalize(c)
      <3>1. client' = [client EXCEPT ![c] = [client[c] EXCEPT !.state = "freed"]]
        BY <2>3 DEF ClientFinalize
      <3>2. /\ [client[c] EXCEPT !.state = "freed"] \in ClientRecord
            /\ [client[c] EXCEPT !.state = "freed"].state = "freed"
            /\ [client[c] EXCEPT !.state = "freed"].m_num_providers = client[c].m_num_providers
        BY <2>3, LiveClient DEF ClientFinalize, ClientRecord
      <3>3. QED
        BY <2>3, <3>1, <3>2 DEF ClientFinalize, TypeOK, ClientInv, HandlesCounted
    <2>4. QED
      BY <2>1, <2>2, <2>3
  <1>4. TypeOK'
    BY <1>1, <1>3 DEF TypeOK, serverVars, tableVars, registryVars, callbackVars
  <1>5. HandlesCounted'
    BY <1>1, <1>3 DEF ClientInv, HandlesCounted
  <1>6. HandleInv'
    BY <1>1, <1>2, <1>3, LiveHandle DEF ClientInv, HandleInv
  <1>7. QED
    BY <1>4, <1>5, <1>6 DEF ClientInv

LEMMA HandleCreateStep ==
  ASSUME TypeOK, ClientInv, NEW c \in Clients, NEW h \in Handles, HandleCreate(c, h)
  PROVE  TypeOK' /\ ClientInv'
  <1> DEFINE made == [client[c] EXCEPT !.m_num_providers = @ + 1]
  <1>1. /\ made \in ClientRecord /\ made.state = "live"
        /\ made.m_num_providers = client[c].m_num_providers + 1
        /\ client[c].m_num_providers \in Nat
    BY LiveClient DEF HandleCreate, ClientRecord
  <1>2. client' = [client EXCEPT ![c] = made]
    BY DEF HandleCreate
  <1> HIDE DEF made
  <1>3. /\ client' \in [Clients -> ClientRecord]
        /\ \A d \in Clients \ {c} : client'[d] = client[d]
        /\ client'[c] = made
    BY <1>1, <1>2 DEF TypeOK
  <1>4. /\ handle' = [handle EXCEPT ![h] = [state |-> "live", m_client |-> c, m_ref_count |-> 1]]
        /\ held' = [held EXCEPT ![h] = 1]
        /\ handle[h].state = "none"
        /\ client[c].state = "live"
        /\ UNCHANGED serverVars
    BY DEF HandleCreate
  <1>5. /\ handle' \in [Handles -> HandleRecord] /\ held' \in [Handles -> Nat]
        /\ \A g \in Handles \ {h} : handle'[g] = handle[g] /\ held'[g] = held[g]
        /\ handle'[h] = [state |-> "live", m_client |-> c, m_ref_count |-> 1] /\ held'[h] = 1
    BY <1>4 DEF TypeOK, HandleRecord
  <1>6. TypeOK'
    BY <1>3, <1>4, <1>5 DEF TypeOK, serverVars, tableVars, registryVars, callbackVars
  <1>7. /\ h \notin HandlesOf(c)
        /\ HandlesOf(c)' = HandlesOf(c) \cup {h}
        /\ \A d \in Clients \ {c} : HandlesOf(d)' = HandlesOf(d)
    BY <1>4, <1>5 DEF HandlesOf
  <1>8. Cardinality(HandlesOf(c)') = Cardinality(HandlesOf(c)) + 1
    BY <1>7, HandlesFinite, FS_AddElement
  <1>9. HandlesCounted'
    <2>1. \A g \in Handles :
            IF held'[g] > 0 THEN handle'[g].state = "live" /\ handle'[g].m_ref_count = held'[g]
                            ELSE handle'[g].state # "live"
      BY <1>5 DEF ClientInv, HandlesCounted
    <2>2. \A d \in Clients :
            client'[d].state = "live" => client'[d].m_num_providers = Cardinality(HandlesOf(d)')
      BY <1>1, <1>3, <1>4, <1>7, <1>8 DEF ClientInv, HandlesCounted
    <2>3. QED
      BY <2>1, <2>2 DEF HandlesCounted
  <1>10. HandleInv'
    BY <1>1, <1>3, <1>5, LiveHandle DEF ClientInv, HandleInv
  <1>11. QED
    BY <1>6, <1>9, <1>10 DEF ClientInv

LEMMA HandleRefIncrStep ==
  ASSUME TypeOK, ClientInv, NEW h \in Handles, HandleRefIncr(h)
  PROVE  TypeOK' /\ ClientInv'
  <1> DEFINE more == [handle[h] EXCEPT !.m_ref_count = @ + 1]
  <1>1. held[h] \in Nat /\ held[h] > 0 /\ UNCHANGED <<serverVars, client>>
    BY LifecycleAssumption DEF HandleRefIncr, TypeOK
  <1>2. handle[h].state = "live" /\ handle[h].m_ref_count = held[h]
    BY <1>1 DEF ClientInv, HandlesCounted
  <1>3. /\ more \in HandleRecord /\ more.state = "live"
        /\ more.m_client = handle[h].m_client
        /\ more.m_ref_count = held[h] + 1
    BY <1>2, LiveHandle DEF HandleRecord
  <1>4. handle' = [handle EXCEPT ![h] = more] /\ held' = [held EXCEPT ![h] = @ + 1]
    BY DEF HandleRefIncr
  <1> HIDE DEF more
  <1>5. /\ handle' \in [Handles -> HandleRecord] /\ held' \in [Handles -> Nat]
        /\ \A g \in Handles \ {h} : handle'[g] = handle[g] /\ held'[g] = held[g]
        /\ handle'[h] = more /\ held'[h] = held[h] + 1
    BY <1>1, <1>3, <1>4 DEF TypeOK
  <1>6. TypeOK'
    BY <1>1, <1>5 DEF TypeOK, serverVars, tableVars, registryVars, callbackVars
  <1>7. \A d : HandlesOf(d)' = HandlesOf(d)
    BY <1>2, <1>3, <1>5 DEF HandlesOf
  <1>8. HandlesCounted'
    <2>1. \A g \in Handles :
            IF held'[g] > 0 THEN handle'[g].state = "live" /\ handle'[g].m_ref_count = held'[g]
                            ELSE handle'[g].state # "live"
      BY <1>1, <1>3, <1>5 DEF ClientInv, HandlesCounted
    <2>2. QED
      BY <1>1, <1>7, <2>1 DEF ClientInv, HandlesCounted
  <1>9. HandleInv'
    BY <1>1, <1>2, <1>3, <1>5 DEF ClientInv, HandleInv
  <1>10. QED
    BY <1>6, <1>8, <1>9 DEF ClientInv

LEMMA HandleReleaseStep ==
  ASSUME TypeOK, ClientInv, NEW h \in Handles, HandleRelease(h)
  PROVE  TypeOK' /\ ClientInv'
  <1> DEFINE gone == [handle[h] EXCEPT !.state = "freed", !.m_ref_count = 0]
             less == [handle[h] EXCEPT !.m_ref_count = @ - 1]
  <1>1. /\ held[h] \in Nat /\ held[h] > 0 /\ held' = [held EXCEPT ![h] = @ - 1]
        /\ UNCHANGED serverVars
    BY DEF HandleRelease, TypeOK
  <1>2. handle[h].state = "live" /\ handle[h].m_ref_count = held[h]
    BY <1>1 DEF ClientInv, HandlesCounted
  <1>3. PICK c \in Clients :
          c = handle[h].m_client /\ client[c].state # "none" /\ h \in HandlesOf(c)
    BY <1>2, LiveHandle DEF ClientInv, HandleInv, HandlesOf
  <1> DEFINE fewer == IF client[c].state = "live"
                        THEN [client[c] EXCEPT !.m_num_providers = @ - 1] ELSE client[c]
  <1>4. /\ held' \in [Handles -> Nat] /\ held'[h] = held[h] - 1
        /\ \A g \in Handles \ {h} : held'[g] = held[g]
    BY <1>1 DEF TypeOK
  <1>5. CASE NoReferenceLeft(h)
    <2>1. held[h] = 1
      BY <1>1, <1>2, <1>5 DEF NoReferenceLeft
    <2>2. /\ handle' = [handle EXCEPT ![h] = gone]
          /\ IF client[c].state = "live"
               THEN client' = [client EXCEPT ![c].m_num_providers = @ - 1]
               ELSE client' = client
      BY <1>3, <1>5 DEF HandleRelease
    <2>3. gone \in HandleRecord /\ gone.state = "freed"
      BY <1>2, LiveHandle DEF HandleRecord
    <2>4. IsFiniteSet(HandlesOf(c)) /\ Cardinality(HandlesOf(c)) \in Nat
      BY HandlesFinite
    <2>5. /\ Cardinality(HandlesOf(c) \ {h}) = Cardinality(HandlesOf(c)) - 1
          /\ Cardinality(HandlesOf(c) \ {h}) \in Nat
      <3>1. Cardinality(HandlesOf(c) \ {h}) = Cardinality(HandlesOf(c)) - 1
        BY <1>3, <2>4, FS_RemoveElement
      <3>2. QED
        BY <2>4, <3>1, FS_Subset, FS_CardinalityType
    <2>6. client[c].state = "live" => client[c].m_num_providers = Cardinality(HandlesOf(c))
      BY <1>3 DEF ClientInv, HandlesCounted
    <2>7. /\ fewer \in ClientRecord /\ fewer.state # "none"
          /\ fewer.state = "live" => fewer.m_num_providers = Cardinality(HandlesOf(c) \ {h})
      <3>1. CASE client[c].state = "live"
        BY <1>3, <2>5, <2>6, <3>1, LiveClient DEF ClientRecord
      <3>2. CASE client[c].state # "live"
        BY <1>3, <3>2 DEF TypeOK
      <3>3. QED
        BY <3>1, <3>2
    <2>15. client' = [client EXCEPT ![c] = fewer]
      <3>1. CASE client[c].state = "live"
        BY <2>2, <3>1
      <3>2. CASE client[c].state # "live"
        BY <2>2, <3>2 DEF TypeOK
      <3>3. QED
        BY <3>1, <3>2
    <2> HIDE DEF gone, fewer, less
    <2>8. /\ handle' \in [Handles -> HandleRecord] /\ handle'[h] = gone
          /\ \A g \in Handles \ {h} : handle'[g] = handle[g]
      BY <2>2, <2>3 DEF TypeOK
    <2>9. /\ client' \in [Clients -> ClientRecord] /\ client'[c] = fewer
          /\ \A d \in Clients \ {c} : client'[d] = client[d]
      BY <1>3, <2>7, <2>15 DEF TypeOK
    <2>10. TypeOK'
      BY <1>1, <1>4, <2>8, <2>9 DEF TypeOK, serverVars, tableVars, registryVars, callbackVars
    <2>11. /\ HandlesOf(c)' = HandlesOf(c) \ {h}
           /\ \A d \in Clients \ {c} : HandlesOf(d)' = HandlesOf(d)
      BY <1>3, <2>3, <2>8 DEF HandlesOf
    <2>12. HandlesCounted'
      <3>1. \A g \in Handles :
              IF held'[g] > 0 THEN handle'[g].state = "live" /\ handle'[g].m_ref_count = held'[g]
                              ELSE handle'[g].state # "live"
        BY <1>4, <2>1, <2>3, <2>8 DEF ClientInv, HandlesCounted
      <3>2. \A d \in Clients :
              client'[d].state = "live" => client'[d].m_num_providers = Cardinality(HandlesOf(d)')
        BY <2>7, <2>9, <2>11 DEF ClientInv, HandlesCounted
      <3>3. QED
        BY <3>1, <3>2 DEF HandlesCounted
    <2>13. HandleInv'
      BY <2>3, <2>7, <2>8, <2>9, LiveHandle DEF ClientInv, HandleInv
    <2>14. QED
      BY <2>10, <2>12, <2>13 DEF ClientInv
  <1>6. CASE ~NoReferenceLeft(h)
    <2>1. held[h] > 1
      BY <1>1, <1>2, <1>6 DEF NoReferenceLeft
    <2>2. handle' = [handle EXCEPT ![h] = less] /\ UNCHANGED client
      BY <1>6 DEF HandleRelease
    <2>3. /\ less \in HandleRecord /\ less.state = "live"
          /\ less.m_client = handle[h].m_client
          /\ less.m_ref_count = held[h] - 1
      BY <1>1, <1>2, <2>1, LiveHandle DEF HandleRecord
    <2> HIDE DEF gone, fewer, less
    <2>4. /\ handle' \in [Handles -> HandleRecord] /\ handle'[h] = less
          /\ \A g \in Handles \ {h} : handle'[g] = handle[g]
      BY <2>2, <2>3 DEF TypeOK
    <2>5. TypeOK'
      BY <1>1, <1>4, <2>2, <2>4 DEF TypeOK, serverVars, tableVars, registryVars, callbackVars
    <2>6. \A d : HandlesOf(d)' = HandlesOf(d)
      BY <1>2, <2>3, <2>4 DEF HandlesOf
    <2>7. HandlesCounted'
      <3>1. \A g \in Handles :
              IF held'[g] > 0 THEN handle'[g].state = "live" /\ handle'[g].m_ref_count = held'[g]
                              ELSE handle'[g].state # "live"
        BY <1>1, <1>4, <2>1, <2>3, <2>4 DEF ClientInv, HandlesCounted
      <3>2. QED
        BY <2>2, <2>6, <3>1 DEF ClientInv, HandlesCounted
    <2>8. HandleInv'
      BY <1>2, <2>2, <2>3, <2>4 DEF ClientInv, HandleInv
    <2>9. QED
      BY <2>5, <2>7, <2>8 DEF ClientInv
  <1>7. QED
    BY <1>5, <1>6

LEMMA ClientCallsStep ==
  ASSUME TypeOK, ClientInv, ClientCalls
  PROVE  TypeOK' /\ ClientInv' /\ UNCHANGED serverVars
  <1>1. TypeOK' /\ ClientInv'
    BY ClientStep, HandleCreateStep, HandleRefIncrStep, HandleReleaseStep DEF ClientCalls
  <1>2. UNCHANGED serverVars
    BY DEF ClientCalls, ClientInit, ClientSetAbtio, ClientFinalize, HandleCreate,
           HandleRefIncr, HandleRelease
  <1>3. QED
    BY <1>1, <1>2

\* What is done at the providers leaves the clients as they are.
LEMMA ClientFrame ==
  ASSUME ClientInv, UNCHANGED clientVars
  PROVE  ClientInv'
  BY DEF ClientInv, HandlesCounted, HandleInv, HandlesOf, clientVars

-----------------------------------------------------------------------------
(* The table of providers, and the finalize callbacks                      *)

\* What the other steps leave alone.
LEMMA TableFrame ==
  ASSUME ServerInv, UNCHANGED tableVars
  PROVE  TableNeverDangles' /\ EntryInv' /\ RivalInv' /\ FinalizerInv'
  BY DEF ServerInv, TableNeverDangles, EntryInv, RivalInv, FinalizerInv, Lists, LiveOf, Live,
         tableVars

LEMMA ClassFrame ==
  ASSUME ServerInv, UNCHANGED registryVars, Live \subseteq Live'
  PROVE  UserArgsFreedOnce' /\ OwnerInv' /\ FreeInv'
  <1>1. \A p \in Providers : Owned(p)' = Owned(p)
    BY DEF Owned, registryVars
  <1>2. QED
    BY <1>1 DEF ServerInv, UserArgsFreedOnce, OwnerInv, FreeInv, registryVars

LEMMA ServerFrame ==
  ASSUME ServerInv, UNCHANGED serverVars
  PROVE  ServerInv'
  <1>1. /\ UNCHANGED tableVars /\ UNCHANGED registryVars
        /\ UNCHANGED <<provider, deletes, margo, running, withdrawn, m_migration_classes>>
    BY DEF serverVars, tableVars, registryVars, callbackVars
  <1>2. Live' = Live
    BY <1>1 DEF Live
  <1>3. DestroyedOnce' /\ RunInv'
    BY <1>1, <1>2 DEF ServerInv, DestroyedOnce, RunInv
  <1>4. QED
    BY <1>1, <1>2, <1>3, TableFrame, ClassFrame DEF ServerInv

LEMMA RegisterStep ==
  ASSUME TypeOK, ServerInv,
         NEW p \in Providers, NEW mid \in Mids, NEW id \in Ids, NEW io \in Abtio,
         ProviderRegister(p, mid, id, io)
  PROVE  ServerInv'
  <1> DEFINE peers == {q \in Live : provider[q].id = id}
  <1>1. /\ margo[mid] = "up" /\ provider[p].state = "none" /\ p \notin Live
        /\ UNCHANGED <<margo, deletes, running, withdrawn, registryVars>>
        /\ s_registered_providers' = With(s_registered_providers, id, p)
        /\ finalizers' = [finalizers EXCEPT ![mid] = Append(@, p)]
        /\ \A q \in peers : provider[q].mid # mid
    BY DEF ProviderRegister, callbackVars, Live
  <1>2. /\ \A q \in Providers \ {p} : provider'[q] = provider[q]
        /\ provider'[p].state = "live" /\ provider'[p].mid = mid /\ provider'[p].id = id
    BY DEF ProviderRegister, TypeOK
  <1>3. Live' = Live \cup {p}
    BY <1>2 DEF Live
  <1>4. \A q \in Live : provider'[q] = provider[q]
    BY <1>1, <1>2 DEF Live
  <1>5. /\ rivals'[p] = peers
        /\ \A q \in peers : rivals'[q] = rivals[q] \cup {p}
        /\ \A q \in Live \ peers : rivals'[q] = rivals[q]
    BY <1>1 DEF ProviderRegister, Live
  <1>6. /\ DOMAIN s_registered_providers' = DOMAIN s_registered_providers \cup {id}
        /\ s_registered_providers'[id] = p
        /\ \A i \in DOMAIN s_registered_providers \ {id} :
             s_registered_providers'[i] = s_registered_providers[i]
    BY <1>1 DEF With
  <1>7. TableNeverDangles'
    BY <1>2, <1>3, <1>4, <1>6 DEF ServerInv, TableNeverDangles
  <1>8. RivalInv'
    BY <1>1, <1>2, <1>3, <1>4, <1>5 DEF ServerInv, RivalInv
  <1>9. EntryInv'
    <2>1. SUFFICES ASSUME NEW q \in Live', rivals'[q] = {}
                   PROVE  /\ provider'[q].id \in DOMAIN s_registered_providers'
                          /\ s_registered_providers'[provider'[q].id] = q
      BY DEF EntryInv
    <2>2. CASE q = p
      BY <1>2, <1>6, <2>2
    <2>3. CASE q # p
      <3>1. q \in Live /\ q \notin peers
        BY <1>3, <1>5, <2>1, <2>3
      <3>2. provider[q].id # id /\ rivals[q] = {} /\ provider'[q] = provider[q]
        BY <1>4, <1>5, <2>1, <3>1
      <3>3. QED
        BY <1>6, <3>1, <3>2 DEF ServerInv, EntryInv
    <2>4. QED
      BY <2>2, <2>3
  <1>10. FinalizerInv'
    <2>1. /\ LiveOf(mid)' = LiveOf(mid) \cup {p}
          /\ \A m \in Mids \ {mid} : LiveOf(m)' = LiveOf(m)
      BY <1>2, <1>3, <1>4 DEF LiveOf
    <2>2. finalizers[mid] \in Seq(Providers) /\ Lists(finalizers[mid], LiveOf(mid))
      BY DEF TypeOK, ServerInv, FinalizerInv
    <2>3. Lists(Append(finalizers[mid], p), LiveOf(mid) \cup {p})
      BY <1>1, <2>2, ListsAppend DEF LiveOf
    <2>4. /\ finalizers'[mid] = Append(finalizers[mid], p)
          /\ \A m \in Mids \ {mid} : finalizers'[m] = finalizers[m]
      BY <1>1 DEF TypeOK
    <2>5. ASSUME NEW m \in Mids
          PROVE  Lists(finalizers'[m], LiveOf(m)')
      BY <2>1, <2>3, <2>4 DEF ServerInv, FinalizerInv
    <2>6. QED
      BY <2>5 DEF FinalizerInv, Lists
  <1>11. DestroyedOnce'
    <2>1. deletes[p] = 0
      BY <1>1 DEF ServerInv, DestroyedOnce
    <2>2. QED
      BY <1>1, <1>2, <1>3, <1>4, <2>1 DEF ServerInv, DestroyedOnce
  <1>12. RunInv'
    BY <1>1, <1>2, <1>3, <1>4 DEF ServerInv, RunInv, registryVars
  <1>13. QED
    BY <1>1, <1>3, <1>7, <1>8, <1>9, <1>10, <1>11, <1>12, ClassFrame DEF ServerInv

LEMMA SetAbtioStep ==
  ASSUME TypeOK, ServerInv, NEW p \in Providers, NEW io \in Abtio, ProviderSetAbtio(p, io)
  PROVE  ServerInv'
  <1>1. /\ p \in Live
        /\ UNCHANGED <<s_registered_providers, finalizers, deletes, rivals, margo, running>>
        /\ UNCHANGED registryVars /\ UNCHANGED <<m_migration_classes, withdrawn>>
    BY DEF ProviderSetAbtio, registryVars, callbackVars
  <1>2. \A q \in Providers :
          /\ provider'[q].state = provider[q].state
          /\ q \in Live => provider'[q].id = provider[q].id /\ provider'[q].mid = provider[q].mid
    <2>1. provider' = [provider EXCEPT ![p] = [provider[p] EXCEPT !.m_abtio = io]]
      BY DEF ProviderSetAbtio
    <2>2. /\ [provider[p] EXCEPT !.m_abtio = io].state = provider[p].state
          /\ [provider[p] EXCEPT !.m_abtio = io].id = provider[p].id
          /\ [provider[p] EXCEPT !.m_abtio = io].mid = provider[p].mid
      BY <1>1, LiveProvider
    <2>3. QED
      BY <2>1, <2>2 DEF TypeOK
  <1>3. Live' = Live /\ \A m : LiveOf(m)' = LiveOf(m)
    BY <1>2 DEF Live, LiveOf
  <1>4. Live \subseteq Providers
    BY DEF Live
  <1>5. TableNeverDangles' /\ EntryInv' /\ RivalInv'
    BY <1>1, <1>2, <1>3, <1>4 DEF ServerInv, TableNeverDangles, EntryInv, RivalInv
  <1>6. FinalizerInv'
    BY <1>1, <1>3 DEF ServerInv, FinalizerInv, Lists
  <1>7. DestroyedOnce' /\ RunInv'
    BY <1>1, <1>2, <1>3, <1>4 DEF ServerInv, DestroyedOnce, RunInv
  <1>8. QED
    BY <1>1, <1>3, <1>5, <1>6, <1>7, ClassFrame DEF ServerInv

\* Deleting a provider whose callbacks, if any runs, count as withdrawn, with its
\* finalize callback taken off.
LEMMA DeleteStep ==
  ASSUME TypeOK, ServerInv, NEW p \in Live, OnFinalize(p),
         \A a \in UserArgs : <<p, a>> \in running => <<p, a>> \in withdrawn',
         withdrawn \subseteq withdrawn',
         NEW mid, mid = provider[p].mid,
         Lists(finalizers'[mid], LiveOf(mid) \ {p}),
         \A m \in Mids \ {mid} : finalizers'[m] = finalizers[m],
         UNCHANGED <<margo, taken, rivals, running>>
  PROVE  ServerInv'
  <1> DEFINE gone == [provider[p] EXCEPT !.state = "deleted"]
  <1>1. /\ p \in Providers
        /\ gone.state = "deleted" /\ gone.mid = provider[p].mid /\ gone.id = provider[p].id
    BY LiveProvider
  <1>2. provider' = [provider EXCEPT ![p] = gone]
    BY DEF OnFinalize
  <1> HIDE DEF gone
  <1>3. provider'[p] = gone /\ \A q \in Providers \ {p} : provider'[q] = provider[q]
    BY <1>1, <1>2 DEF TypeOK
  <1>4. Live' = Live \ {p} /\ Live \subseteq Providers
    BY <1>1, <1>3 DEF Live
  <1>5. /\ DOMAIN s_registered_providers' = DOMAIN s_registered_providers \ {provider[p].id}
        /\ \A i \in DOMAIN s_registered_providers \ {provider[p].id} :
             s_registered_providers'[i] = s_registered_providers[i]
    BY DEF OnFinalize, Erase, Without
  <1>6. TableNeverDangles'
    BY <1>3, <1>4, <1>5 DEF ServerInv, TableNeverDangles
  <1>7. RivalInv'
    BY <1>3, <1>4 DEF ServerInv, RivalInv
  <1>8. EntryInv'
    <2>1. SUFFICES ASSUME NEW q \in Live', rivals[q] = {}
                   PROVE  /\ provider'[q].id \in DOMAIN s_registered_providers'
                          /\ s_registered_providers'[provider'[q].id] = q
      BY DEF EntryInv
    <2>2. q \in Live /\ q # p /\ provider'[q] = provider[q]
      BY <1>3, <1>4
    <2>3. provider[q].id # provider[p].id
      BY <2>1, <2>2 DEF ServerInv, RivalInv
    <2>4. QED
      BY <1>5, <2>1, <2>2, <2>3 DEF ServerInv, EntryInv
  <1>9. FinalizerInv'
    <2>1. /\ LiveOf(mid)' = LiveOf(mid) \ {p}
          /\ \A m \in Mids \ {mid} : LiveOf(m)' = LiveOf(m)
      BY <1>3, <1>4 DEF LiveOf
    <2>2. ASSUME NEW m \in Mids
          PROVE  Lists(finalizers'[m], LiveOf(m)')
      BY <2>1 DEF ServerInv, FinalizerInv
    <2>3. QED
      BY <2>2 DEF FinalizerInv, Lists
  <1>10. DestroyedOnce'
    <2>1. provider[p].state = "live"
      BY DEF Live
    <2>2. deletes[p] = 0
      BY <1>1, <2>1 DEF ServerInv, DestroyedOnce
    <2>3. deletes'[p] = 1 /\ \A q \in Providers \ {p} : deletes'[q] = deletes[q]
      BY <1>1, <2>2 DEF OnFinalize, TypeOK
    <2>4. QED
      BY <1>1, <1>3, <1>4, <2>3 DEF ServerInv, DestroyedOnce
  <1>11. /\ m_migration_classes'[p] = <<>>
         /\ \A q \in Providers \ {p} : m_migration_classes'[q] = m_migration_classes[q]
         /\ DOMAIN m_migration_classes'[p] = {}
    BY <1>1, EmptyTable DEF OnFinalize, TypeOK
  <1>12. OwnerInv'
    BY <1>4, <1>11 DEF ServerInv, OwnerInv
  <1>13. /\ Owned(p)' = {}
         /\ \A q \in Providers \ {p} : Owned(q)' = Owned(q)
         /\ \A a \in UserArgs : freed'[a] = IF a \in Owned(p) THEN freed[a] + 1 ELSE freed[a]
    BY <1>11 DEF OnFinalize, FreeClasses, FreeAll, Owned
  <1>14. UserArgsFreedOnce'
    <2>1. SUFFICES ASSUME NEW a \in HasFree
                   PROVE  freed'[a] = IF a \in taken /\ \A q \in Providers : a \notin Owned(q)'
                                        THEN 1 ELSE 0
      BY DEF UserArgsFreedOnce
    <2>2. a \in UserArgs /\ freed[a] = IF a \in taken /\ \A q \in Providers : a \notin Owned(q)
                                        THEN 1 ELSE 0
      BY LifecycleAssumption DEF ServerInv, UserArgsFreedOnce
    <2>3. CASE a \in Owned(p)
      <3>1. a \in taken /\ \A q \in Providers \ {p} : a \notin Owned(q)
        BY <1>1, <2>2, <2>3 DEF ServerInv, OwnerInv, Owned
      <3>2. freed[a] = 0
        BY <1>1, <2>2, <2>3
      <3>3. QED
        BY <1>13, <2>2, <2>3, <3>1, <3>2
    <2>4. CASE a \notin Owned(p)
      BY <1>13, <2>2, <2>4
    <2>5. QED
      BY <2>3, <2>4
  <1>15. FreeInv'
    BY <1>13 DEF ServerInv, FreeInv, Owned
  <1>16. RunInv'
    <2>1. SUFFICES ASSUME NEW q \in Providers, NEW a \in UserArgs,
                          <<q, a>> \in running, <<q, a>> \notin withdrawn'
                   PROVE  /\ q \in Live' /\ margo[provider'[q].mid] = "up"
                          /\ \E k \in DOMAIN m_migration_classes'[q] : m_migration_classes'[q][k] = a
      BY DEF RunInv
    <2>2. q # p
      BY <2>1
    <2>3. QED
      BY <1>3, <1>4, <1>11, <2>1, <2>2 DEF ServerInv, RunInv
  <1>17. QED
    BY <1>6, <1>7, <1>8, <1>9, <1>10, <1>12, <1>14, <1>15, <1>16 DEF ServerInv

LEMMA DestroyStep ==
  ASSUME TypeOK, ServerInv, NEW p \in Providers, ProviderDestroy(p)
  PROVE  ServerInv'
  <1> DEFINE mid == provider[p].mid
  <1>1. /\ p \in Live /\ PopFinalizer(p) /\ OnFinalize(p)
        /\ withdrawn' = withdrawn \cup {r \in running : r[1] = p}
        /\ UNCHANGED <<margo, taken, rivals, running>>
    BY DEF ProviderDestroy
  <1>6. /\ \A a \in UserArgs : <<p, a>> \in running => <<p, a>> \in withdrawn'
        /\ withdrawn \subseteq withdrawn'
    BY <1>1
  <1>2. mid \in Mids
    BY <1>1, LiveProvider
  <1>3. Lists(RemoveFirst(finalizers[mid], p), LiveOf(mid) \ {p})
    BY <1>1, PopFinalizerList DEF ServerInv
  <1>4. /\ finalizers'[mid] = RemoveFirst(finalizers[mid], p)
        /\ \A m \in Mids \ {mid} : finalizers'[m] = finalizers[m]
    BY <1>1, <1>2 DEF PopFinalizer, TypeOK
  <1> HIDE DEF mid
  <1>5. QED
    BY <1>1, <1>3, <1>4, <1>6, DeleteStep DEF mid

LEMMA MargoStep ==
  ASSUME TypeOK, ServerInv, Margo
  PROVE  ServerInv'
  <1>1. ASSUME NEW mid \in Mids, NEW s \in {"finalizing", "down"},
               margo' = [margo EXCEPT ![mid] = s],
               UNCHANGED <<tableVars, registryVars, callbackVars>>,
               s = "down" => LiveOf(mid) = {},
               \A p \in LiveOf(mid), a \in UserArgs : <<p, a>> \notin running \ withdrawn
        PROVE  ServerInv'
    <2>1. /\ UNCHANGED tableVars /\ UNCHANGED registryVars
          /\ UNCHANGED <<provider, deletes, running, withdrawn, m_migration_classes>>
      BY <1>1 DEF tableVars, registryVars, callbackVars
    <2>2. Live' = Live
      BY <2>1 DEF Live
    <2>3. margo'[mid] = s /\ \A m \in Mids \ {mid} : margo'[m] = margo[m]
      BY <1>1 DEF TypeOK
    <2>4. \A p \in Live : p \in Providers /\ provider[p].mid \in Mids
      BY LiveProvider
    <2>5. DestroyedOnce'
      <3>1. ASSUME NEW p \in Live
            PROVE  margo'[provider[p].mid] # "down"
        <4>1. CASE provider[p].mid = mid
          BY <1>1, <2>3, <4>1 DEF LiveOf
        <4>2. CASE provider[p].mid # mid
          BY <2>3, <2>4, <4>2 DEF ServerInv, DestroyedOnce
        <4>3. QED
          BY <4>1, <4>2
      <3>2. QED
        BY <2>1, <2>2, <3>1 DEF ServerInv, DestroyedOnce
    <2>6. RunInv'
      <3>1. SUFFICES ASSUME NEW p \in Providers, NEW a \in UserArgs,
                            <<p, a>> \in running \ withdrawn
                     PROVE  /\ p \in Live /\ margo'[provider[p].mid] = "up"
                            /\ \E k \in DOMAIN m_migration_classes[p] :
                                 m_migration_classes[p][k] = a
        BY <2>1, <2>2 DEF RunInv
      <3>2. /\ p \in Live /\ margo[provider[p].mid] = "up"
            /\ \E k \in DOMAIN m_migration_classes[p] : m_migration_classes[p][k] = a
        BY <3>1 DEF ServerInv, RunInv
      <3>3. provider[p].mid # mid
        BY <1>1, <3>1, <3>2 DEF LiveOf
      <3>4. QED
        BY <2>3, <2>4, <3>2, <3>3
    <2>7. QED
      BY <2>1, <2>2, <2>5, <2>6, TableFrame, ClassFrame DEF ServerInv
  <1>2. ASSUME NEW mid \in Mids, margo[mid] = "finalizing"
        PROVE  \A p \in LiveOf(mid), a \in UserArgs : <<p, a>> \notin running \ withdrawn
    BY <1>2 DEF ServerInv, RunInv, LiveOf, Live
  <1>3. ASSUME NEW mid \in Mids, MargoFinalize(mid)
        PROVE  ServerInv'
    <2>1. \A p \in LiveOf(mid), a \in UserArgs : <<p, a>> \notin running \ withdrawn
      BY <1>3 DEF MargoFinalize, LiveOf
    <2>2. /\ margo' = [margo EXCEPT ![mid] = "finalizing"]
          /\ UNCHANGED <<tableVars, registryVars, callbackVars>>
      BY <1>3 DEF MargoFinalize
    <2>3. QED
      BY <1>1, <2>1, <2>2
  <1>4. ASSUME NEW mid \in Mids, MargoDown(mid)
        PROVE  ServerInv'
    <2>1. /\ margo[mid] = "finalizing" /\ finalizers[mid] = <<>>
          /\ margo' = [margo EXCEPT ![mid] = "down"]
          /\ UNCHANGED <<tableVars, registryVars, callbackVars>>
      BY <1>4 DEF MargoDown
    <2>2. LiveOf(mid) = {}
      <3>1. Lists(<<>>, LiveOf(mid))
        BY <2>1 DEF ServerInv, FinalizerInv
      <3>2. QED
        BY <3>1 DEF Lists
    <2>3. QED
      BY <1>1, <2>1, <2>2
  <1>5. ASSUME NEW mid \in Mids, FinalizeProvider(mid)
        PROVE  ServerInv'
    <2> DEFINE p == Last(finalizers[mid])
    <2>1. /\ margo[mid] = "finalizing" /\ finalizers[mid] # <<>> /\ OnFinalize(p)
          /\ finalizers' = [finalizers EXCEPT ![mid] = Front(@)]
          /\ UNCHANGED <<margo, taken, rivals, running, withdrawn>>
      BY <1>5 DEF FinalizeProvider, callbackVars
    <2>2. /\ p \in Live /\ provider[p].mid = mid
          /\ Lists(Front(finalizers[mid]), LiveOf(mid) \ {p})
      BY <2>1, LastFinalizer DEF ServerInv
    <2>3. /\ finalizers'[mid] = Front(finalizers[mid])
          /\ \A m \in Mids \ {mid} : finalizers'[m] = finalizers[m]
      BY <2>1 DEF TypeOK
    <2> HIDE DEF p
    <2>4. /\ \A a \in UserArgs : <<p, a>> \in running => <<p, a>> \in withdrawn'
          /\ withdrawn \subseteq withdrawn'
      BY <1>2, <2>1, <2>2 DEF LiveOf
    <2>5. QED
      BY <2>1, <2>2, <2>3, <2>4, DeleteStep
  <1>6. QED
    BY <1>3, <1>4, <1>5 DEF Margo

-----------------------------------------------------------------------------
(* Migration classes and their user arguments                              *)

\* The classes of p change at one key, and nothing else that the invariant of
\* the table is about does.
LEMMA ClassStep ==
  ASSUME TypeOK, ServerInv, ClassCalls \/ Handlers
  PROVE  TableNeverDangles' /\ EntryInv' /\ RivalInv' /\ FinalizerInv' /\ DestroyedOnce'
  <1>1. UNCHANGED tableVars /\ UNCHANGED margo
    BY DEF ClassCalls, Handlers, RegisterClass, DeregisterClass, PhantomClass, CallbackBegin,
           CallbackEnd
  <1>2. UNCHANGED <<provider, deletes>> /\ Live' = Live
    BY <1>1 DEF tableVars, Live
  <1>3. DestroyedOnce'
    BY <1>1, <1>2 DEF ServerInv, DestroyedOnce
  <1>4. QED
    BY <1>1, <1>3, TableFrame

LEMMA InsertClassStep ==
  ASSUME TypeOK, ServerInv, NEW p \in Live, NEW key \in Classes, NEW args \in UserArgs \cup {NoArgs},
         key \notin DOMAIN m_migration_classes[p], args \notin taken,
         m_migration_classes' = [m_migration_classes EXCEPT ![p] = With(@, key, args)],
         taken' = taken \cup ({args} \cap UserArgs),
         UNCHANGED <<freed, tableVars, margo, callbackVars>>
  PROVE  UserArgsFreedOnce' /\ OwnerInv' /\ FreeInv' /\ RunInv'
  <1>1. /\ p \in Providers /\ Live' = Live
        /\ UNCHANGED <<freed, provider, margo, running, withdrawn>>
    BY DEF tableVars, callbackVars, Live
  <1>2. /\ m_migration_classes'[p] = With(m_migration_classes[p], key, args)
        /\ \A q \in Providers \ {p} : m_migration_classes'[q] = m_migration_classes[q]
    BY <1>1 DEF TypeOK
  <1>3. /\ DOMAIN m_migration_classes'[p] = DOMAIN m_migration_classes[p] \cup {key}
        /\ m_migration_classes'[p][key] = args
        /\ \A k \in DOMAIN m_migration_classes[p] :
             m_migration_classes'[p][k] = m_migration_classes[p][k]
    BY <1>2 DEF With
  <1>4. ASSUME NEW q \in Providers, NEW k \in DOMAIN m_migration_classes'[q],
               m_migration_classes'[q][k] \in UserArgs
        PROVE  \/ q = p /\ k = key /\ m_migration_classes'[q][k] = args /\ args \notin taken
               \/ /\ k \in DOMAIN m_migration_classes[q]
                  /\ m_migration_classes'[q][k] = m_migration_classes[q][k]
                  /\ m_migration_classes[q][k] \in taken
    <2>1. CASE q = p /\ k = key
      BY <1>3, <2>1
    <2>2. CASE ~(q = p /\ k = key)
      <3>1. /\ k \in DOMAIN m_migration_classes[q]
            /\ m_migration_classes'[q][k] = m_migration_classes[q][k]
        BY <1>2, <1>3, <2>2
      <3>2. m_migration_classes[q][k] \in taken
        BY <1>4, <3>1 DEF ServerInv, OwnerInv
      <3>3. QED
        BY <3>1, <3>2
    <2>3. QED
      BY <2>1, <2>2
  <1>5. OwnerInv'
    <2>1. SUFFICES ASSUME NEW q \in Providers, NEW k \in DOMAIN m_migration_classes'[q],
                          NEW r \in Providers, NEW l \in DOMAIN m_migration_classes'[r],
                          m_migration_classes'[q][k] \in UserArgs
                   PROVE  /\ q \in Live
                          /\ m_migration_classes'[q][k] \in taken'
                          /\ m_migration_classes'[q][k] = m_migration_classes'[r][l]
                               => q = r /\ k = l
      BY <1>1 DEF OwnerInv
    <2>2. q \in Live
      BY <1>4, <2>1 DEF ServerInv, OwnerInv
    <2>3. m_migration_classes'[q][k] \in taken'
      BY <1>4, <2>1
    <2>4. ASSUME m_migration_classes'[q][k] = m_migration_classes'[r][l]
          PROVE  q = r /\ k = l
      <3>1. m_migration_classes'[r][l] \in UserArgs
        BY <2>1, <2>4
      <3>2. CASE q = p /\ k = key /\ m_migration_classes'[q][k] = args /\ args \notin taken
        BY <1>4, <2>4, <3>1, <3>2
      <3>3. CASE /\ k \in DOMAIN m_migration_classes[q]
                 /\ m_migration_classes'[q][k] = m_migration_classes[q][k]
                 /\ m_migration_classes[q][k] \in taken
        <4>1. /\ l \in DOMAIN m_migration_classes[r]
              /\ m_migration_classes'[r][l] = m_migration_classes[r][l]
          BY <1>4, <2>4, <3>1, <3>3
        <4>2. QED
          BY <2>1, <2>4, <3>3, <4>1 DEF ServerInv, OwnerInv
      <3>4. QED
        BY <1>4, <2>1, <3>2, <3>3
    <2>5. QED
      BY <2>2, <2>3, <2>4
  <1>6. /\ Owned(p)' = Owned(p) \cup ({args} \cap HasFree)
        /\ \A q \in Providers \ {p} : Owned(q)' = Owned(q)
    BY <1>1, <1>2, <1>3 DEF Owned
  <1>7. UserArgsFreedOnce'
    <2>1. SUFFICES ASSUME NEW a \in HasFree
                   PROVE  freed[a] = IF a \in taken' /\ \A q \in Providers : a \notin Owned(q)'
                                       THEN 1 ELSE 0
      BY <1>1 DEF UserArgsFreedOnce
    <2>2. a \in UserArgs /\ freed[a] = IF a \in taken /\ \A q \in Providers : a \notin Owned(q)
                                        THEN 1 ELSE 0
      BY LifecycleAssumption DEF ServerInv, UserArgsFreedOnce
    <2>3. CASE a = args
      BY <1>1, <1>6, <2>2, <2>3
    <2>4. CASE a # args
      BY <1>1, <1>6, <2>2, <2>4
    <2>5. QED
      BY <2>3, <2>4
  <1>8. FreeInv'
    BY <1>1 DEF ServerInv, FreeInv
  <1>9. RunInv'
    BY <1>1, <1>2, <1>3 DEF ServerInv, RunInv
  <1>10. QED
    BY <1>5, <1>7, <1>8, <1>9

LEMMA DeregisterClassStep ==
  ASSUME TypeOK, ServerInv, NEW p \in Providers, NEW key \in Classes, DeregisterClass(p, key)
  PROVE  UserArgsFreedOnce' /\ OwnerInv' /\ FreeInv' /\ RunInv'
  <1> DEFINE args == m_migration_classes[p][key]
  <1>1. /\ p \in Live /\ key \in DOMAIN m_migration_classes[p]
        /\ withdrawn' = withdrawn \cup (running \cap {<<p, args>>})
        /\ UNCHANGED <<taken, provider, margo, running>> /\ Live' = Live
    BY DEF DeregisterClass, Usable, tableVars, Live
  <1>2. /\ m_migration_classes'[p] = Without(m_migration_classes[p], key)
        /\ \A q \in Providers \ {p} : m_migration_classes'[q] = m_migration_classes[q]
    BY DEF DeregisterClass, TypeOK
  <1>3. /\ DOMAIN m_migration_classes'[p] = DOMAIN m_migration_classes[p] \ {key}
        /\ \A k \in DOMAIN m_migration_classes[p] \ {key} :
             m_migration_classes'[p][k] = m_migration_classes[p][k]
    BY <1>2 DEF Without
  <1>4. \A q \in Providers : \A k \in DOMAIN m_migration_classes'[q] :
          /\ k \in DOMAIN m_migration_classes[q]
          /\ m_migration_classes'[q][k] = m_migration_classes[q][k]
    BY <1>2, <1>3
  <1>5. OwnerInv'
    BY <1>1, <1>4 DEF ServerInv, OwnerInv
  <1>6. /\ args \in UserArgs => /\ args \in taken
                               /\ \A q \in Providers : \A k \in DOMAIN m_migration_classes[q] :
                                    m_migration_classes[q][k] = args => q = p /\ k = key
    BY <1>1 DEF ServerInv, OwnerInv
  <1>7. ASSUME NEW a \in UserArgs, NEW q \in Providers
        PROVE  a \in Owned(q)' <=> a \in Owned(q) /\ a # args
    <2>1. ASSUME a \in Owned(q)'
          PROVE  a \in Owned(q) /\ a # args
      <3>1. PICK k \in DOMAIN m_migration_classes'[q] :
              a = m_migration_classes'[q][k] /\ a \in HasFree
        BY <2>1 DEF Owned
      <3>2. k \in DOMAIN m_migration_classes[q] /\ a = m_migration_classes[q][k]
        BY <1>4, <3>1
      <3>3. ~(q = p /\ k = key)
        BY <1>3
      <3>4. QED
        BY <1>6, <3>1, <3>2, <3>3 DEF Owned
    <2>2. ASSUME a \in Owned(q), a # args
          PROVE  a \in Owned(q)'
      <3>1. PICK k \in DOMAIN m_migration_classes[q] :
              a = m_migration_classes[q][k] /\ a \in HasFree
        BY <2>2 DEF Owned
      <3>2. /\ k \in DOMAIN m_migration_classes'[q]
            /\ m_migration_classes'[q][k] = m_migration_classes[q][k]
        BY <1>2, <1>3, <2>2, <3>1
      <3>3. QED
        BY <3>1, <3>2 DEF Owned
    <2>3. QED
      BY <2>1, <2>2
  <1>8. \A a \in UserArgs :
          freed'[a] = IF a = args /\ a \in HasFree THEN freed[a] + 1 ELSE freed[a]
    BY DEF DeregisterClass, FreeAll
  <1> HIDE DEF args
  <1>9. UserArgsFreedOnce'
    <2>1. SUFFICES ASSUME NEW a \in HasFree
                   PROVE  freed'[a] = IF a \in taken /\ \A q \in Providers : a \notin Owned(q)'
                                        THEN 1 ELSE 0
      BY <1>1 DEF UserArgsFreedOnce
    <2>2. a \in UserArgs /\ freed[a] = IF a \in taken /\ \A q \in Providers : a \notin Owned(q)
                                        THEN 1 ELSE 0
      BY LifecycleAssumption DEF ServerInv, UserArgsFreedOnce
    <2>3. CASE a = args
      <3>1. a \in Owned(p)
        BY <1>1, <2>3 DEF Owned, args
      <3>2. freed[a] = 0
        BY <2>2, <3>1
      <3>3. QED
        BY <1>6, <1>7, <1>8, <2>2, <2>3, <3>2
    <2>4. CASE a # args
      BY <1>7, <1>8, <2>2, <2>4
    <2>5. QED
      BY <2>3, <2>4
  <1>10. FreeInv'
    BY <1>8 DEF ServerInv, FreeInv
  <1>11. RunInv'
    <2>1. SUFFICES ASSUME NEW q \in Providers, NEW a \in UserArgs,
                          <<q, a>> \in running, <<q, a>> \notin withdrawn'
                   PROVE  /\ q \in Live /\ margo[provider[q].mid] = "up"
                          /\ \E k \in DOMAIN m_migration_classes'[q] :
                               m_migration_classes'[q][k] = a
      BY <1>1 DEF RunInv
    <2>2. q \in Live /\ margo[provider[q].mid] = "up"
      BY <1>1, <2>1 DEF ServerInv, RunInv
    <2>3. PICK k \in DOMAIN m_migration_classes[q] : m_migration_classes[q][k] = a
      BY <1>1, <2>1 DEF ServerInv, RunInv
    <2>4. ~(q = p /\ k = key)
      BY <1>1, <2>1, <2>3 DEF args
    <2>5. QED
      BY <1>2, <1>3, <2>2, <2>3, <2>4
  <1>12. QED
    BY <1>5, <1>9, <1>10, <1>11

LEMMA CallbackStep ==
  ASSUME TypeOK, ServerInv,
         \E p \in Providers : \/ \E key \in Classes : CallbackBegin(p, key)
                              \/ \E args \in UserArgs : CallbackEnd(p, args)
  PROVE  UserArgsFreedOnce' /\ OwnerInv' /\ FreeInv' /\ RunInv'
  <1>1. UNCHANGED <<tableVars, registryVars, margo, clientVars>>
    BY DEF CallbackBegin, CallbackEnd
  <1>2. /\ UNCHANGED registryVars
        /\ UNCHANGED <<provider, margo, m_migration_classes>> /\ Live' = Live
    BY <1>1 DEF tableVars, registryVars, Live
  <1>3. ASSUME NEW p \in Providers, NEW a \in UserArgs, 
               <<p, a>> \in running' \ withdrawn', <<p, a>> \notin running \ withdrawn
        PROVE  /\ p \in Live /\ margo[provider[p].mid] = "up"
               /\ \E k \in DOMAIN m_migration_classes[p] : m_migration_classes[p][k] = a
    <2>1. PICK q \in Providers, key \in Classes : CallbackBegin(q, key)
      <3>1. ASSUME NEW q \in Providers, NEW args \in UserArgs, CallbackEnd(q, args)
            PROVE  FALSE
        BY <1>3, <3>1 DEF CallbackEnd
      <3>2. QED
        BY <3>1
    <2>2. /\ q \in Live /\ margo[provider[q].mid] = "up" /\ key \in DOMAIN m_migration_classes[q]
          /\ running' = running \cup {<<q, m_migration_classes[q][key]>>}
          /\ UNCHANGED withdrawn
      BY <2>1 DEF CallbackBegin, Usable
    <2>3. p = q /\ a = m_migration_classes[q][key]
      BY <1>3, <2>2
    <2>4. QED
      BY <2>2, <2>3
  <1>4. RunInv'
    BY <1>2, <1>3 DEF ServerInv, RunInv
  <1>5. QED
    BY <1>2, <1>4, ClassFrame

LEMMA ClassesStep ==
  ASSUME TypeOK, ServerInv, ClassCalls \/ Handlers
  PROVE  ServerInv'
  <1>1. ASSUME NEW p \in Providers, NEW key \in Classes, NEW args \in UserArgs,
               RegisterClass(p, key, args)
        PROVE  UserArgsFreedOnce' /\ OwnerInv' /\ FreeInv' /\ RunInv'
    <2>1. /\ p \in Live /\ args \notin taken /\ key \notin DOMAIN m_migration_classes[p]
          /\ m_migration_classes' = [m_migration_classes EXCEPT ![p] = With(@, key, args)]
          /\ taken' = taken \cup ({args} \cap UserArgs)
          /\ UNCHANGED <<freed, tableVars, margo, callbackVars>>
      BY <1>1 DEF RegisterClass, Usable
    <2>2. QED
      BY <2>1, InsertClassStep
  <1>2. ASSUME NEW p \in Providers, NEW key \in Classes, PhantomClass(p, key)
        PROVE  UserArgsFreedOnce' /\ OwnerInv' /\ FreeInv' /\ RunInv'
    <2>1. NoArgs \notin UserArgs /\ NoArgs \notin taken
      BY LifecycleAssumption DEF TypeOK
    <2>2. /\ p \in Live /\ key \notin DOMAIN m_migration_classes[p]
          /\ m_migration_classes' = [m_migration_classes EXCEPT ![p] = With(@, key, NoArgs)]
          /\ taken' = taken \cup ({NoArgs} \cap UserArgs)
          /\ UNCHANGED <<freed, tableVars, margo, callbackVars>>
      BY <1>2, <2>1 DEF PhantomClass, Usable
    <2>3. QED
      BY <2>1, <2>2, InsertClassStep
  <1>3. UserArgsFreedOnce' /\ OwnerInv' /\ FreeInv' /\ RunInv'
    BY <1>1, <1>2, DeregisterClassStep, CallbackStep DEF ClassCalls, Handlers
  <1>4. QED
    BY <1>3, ClassStep DEF ServerInv

-----------------------------------------------------------------------------
(* The invariant                                                           *)

LEMMA InitServerInv == Init => ServerInv
  <1> SUFFICES ASSUME Init PROVE ServerInv
    OBVIOUS
  <1>1. Live = {} /\ \A mid : LiveOf(mid) = {}
    BY DEF Init, Live, LiveOf
  <1>2. DOMAIN s_registered_providers = {} /\ \A p \in Providers : DOMAIN m_migration_classes[p] = {}
    BY EmptyTable DEF Init
  <1>3. TableNeverDangles /\ EntryInv /\ RivalInv
    BY <1>1, <1>2 DEF TableNeverDangles, EntryInv, RivalInv
  <1>4. FinalizerInv
    <2>1. Lists(<<>>, {})
      BY EmptyTable DEF Lists
    <2>2. QED
      BY <1>1, <2>1 DEF FinalizerInv, Init
  <1>5. DestroyedOnce
    BY <1>1 DEF DestroyedOnce, Init
  <1>6. UserArgsFreedOnce /\ FreeInv
    BY LifecycleAssumption DEF UserArgsFreedOnce, FreeInv, Init
  <1>7. OwnerInv /\ RunInv
    BY <1>2 DEF OwnerInv, RunInv, Init
  <1>8. QED
    BY <1>3, <1>4, <1>5, <1>6, <1>7 DEF ServerInv

LEMMA InitClientInv == Init => ClientInv
  <1> SUFFICES ASSUME Init PROVE ClientInv
    OBVIOUS
  <1>1. QED
    BY DEF Init, ClientInv, HandlesCounted, HandleInv

LEMMA StepInv ==
  ASSUME IInv, [Next]_vars
  PROVE  IInv'
  <1>1. TypeOK /\ ServerInv /\ ClientInv /\ FinalizerInv
    BY DEF IInv, ServerInv
  <1>2. CASE ProviderCalls
    <2>1. UNCHANGED clientVars
      BY <1>2 DEF ProviderCalls, ProviderRegister, ProviderDestroy, ProviderSetAbtio
    <2>2. ServerInv'
      BY <1>1, <1>2, RegisterStep, DestroyStep, SetAbtioStep DEF ProviderCalls
    <2>3. QED
      BY <1>1, <1>2, <2>1, <2>2, ProviderTypeOK, ClientFrame DEF IInv
  <1>3. CASE ClassCalls \/ Handlers
    <2>1. UNCHANGED clientVars
      BY <1>3 DEF ClassCalls, Handlers, RegisterClass, DeregisterClass, PhantomClass,
                  CallbackBegin, CallbackEnd
    <2>2. QED
      BY <1>1, <1>3, <2>1, ClassTypeOK, ClassesStep, ClientFrame DEF IInv
  <1>4. CASE Margo
    <2>1. UNCHANGED clientVars
      BY <1>4 DEF Margo, MargoFinalize, FinalizeProvider, MargoDown
    <2>2. QED
      BY <1>1, <1>4, <2>1, MargoTypeOK, MargoStep, ClientFrame DEF IInv
  <1>5. CASE ClientCalls
    BY <1>1, <1>5, ClientCallsStep, ServerFrame DEF IInv
  <1>6. CASE UNCHANGED vars
    <2>1. UNCHANGED serverVars /\ UNCHANGED clientVars
      BY <1>6 DEF vars
    <2>2. TypeOK'
      BY <1>1, <2>1 DEF TypeOK, serverVars, tableVars, registryVars, callbackVars, clientVars
    <2>3. QED
      BY <1>1, <2>1, <2>2, ServerFrame, ClientFrame DEF IInv
  <1>7. QED
    BY <1>2, <1>3, <1>4, <1>5, <1>6 DEF Next, Terminated

\* The inductive invariant holds at all times: the table, the finalize callbacks
\* and the classes of the providers fit the providers that are alive, and the
\* counts of clients and handles fit the references that are held.
THEOREM InvariantHolds == Spec => []IInv
  <1>1. Init => IInv
    BY InitTypeOK, InitServerInv, InitClientInv DEF IInv
  <1>2. IInv /\ [Next]_vars => IInv'
    BY StepInv
  <1>3. QED
    BY <1>1, <1>2, PTL DEF Spec

\* Each variable has its type.
THEOREM TypeCorrect == Spec => []TypeOK
  <1>1. IInv => TypeOK
    BY DEF IInv
  <1>2. QED
    BY <1>1, InvariantHolds, PTL

\* s_registered_providers never points to a provider that was deleted, nor to
\* one of another id.
THEOREM TableSound == Spec => []TableNeverDangles
  <1>1. IInv => TableNeverDangles
    BY DEF IInv, ServerInv
  <1>2. QED
    BY <1>1, InvariantHolds, PTL

\* remi_provider_registered finds each provider that no other instance rivalled.
THEOREM RegisteredFinds == Spec => []FoundUnlessRivalled
  <1>1. IInv => FoundUnlessRivalled
    BY DEF IInv, ServerInv, EntryInv, FoundUnlessRivalled, Registered
  <1>2. QED
    BY <1>1, InvariantHolds, PTL

\* remi_on_finalize runs once for each provider, by the time Margo is down.
THEOREM DeletedOnce == Spec => []DestroyedOnce
  <1>1. IInv => DestroyedOnce
    BY DEF IInv, ServerInv
  <1>2. QED
    BY <1>1, InvariantHolds, PTL

\* The user arguments of a class are freed once, when the class goes.
THEOREM FreedOnce == Spec => []UserArgsFreedOnce
  <1>1. IInv => UserArgsFreedOnce
    BY DEF IInv, ServerInv
  <1>2. QED
    BY <1>1, InvariantHolds, PTL

\* A callback's user arguments and provider outlive it, unless the application
\* deregisters its class or destroys its provider meanwhile: no step of Margo, of
\* another handler or of another provider takes them away.
THEOREM CallbackSafe == Spec => []CallbackArgumentsAlive
  <1>1. ASSUME IInv, NEW r \in running \ withdrawn
        PROVE  freed[r[2]] = 0 /\ r[1] \in Live
    <2>1. PICK p \in Providers, a \in UserArgs : r = <<p, a>>
      BY <1>1 DEF IInv, TypeOK
    <2>2. PICK k \in DOMAIN m_migration_classes[p] : m_migration_classes[p][k] = a
      BY <1>1, <2>1 DEF IInv, ServerInv, RunInv
    <2>3. p \in Live
      BY <1>1, <2>1 DEF IInv, ServerInv, RunInv
    <2>4. freed[a] = 0
      <3>1. CASE a \in HasFree
        <4>1. a \in Owned(p)
          BY <2>2, <3>1 DEF Owned
        <4>2. QED
          BY <1>1, <3>1, <4>1 DEF IInv, ServerInv, UserArgsFreedOnce
      <3>2. CASE a \notin HasFree
        BY <1>1, <3>2 DEF IInv, ServerInv, FreeInv
      <3>3. QED
        BY <3>1, <3>2
    <2>5. QED
      BY <2>1, <2>3, <2>4
  <1>2. IInv => CallbackArgumentsAlive
    BY <1>1 DEF CallbackArgumentsAlive
  <1>3. QED
    BY <1>2, InvariantHolds, PTL

\* A handle lives as long as there is a reference to it, finalized client or not,
\* and its client counts it as long as both live.
THEOREM CountsRight == Spec => []HandlesCounted
  <1>1. IInv => HandlesCounted
    BY DEF IInv, ClientInv
  <1>2. QED
    BY <1>1, InvariantHolds, PTL
=============================================================================
