---------------------------- MODULE RemiLifecycle ----------------------------
(***************************************************************************)
(* How providers (remi-server.cpp), clients and provider handles           *)
(* (remi-client.cpp) are made and freed, by an application or by Bedrock   *)
(* components (remi-bedrock.cpp), with the migration classes of a provider *)
(* and the user arguments that these own.                                  *)
(*                                                                         *)
(* The application calls on objects that it did not free.  It may          *)
(* deregister a class or destroy a provider while a callback of it runs,   *)
(* and finalize a client before it releases the handles: the code checks   *)
(* none of these. What a handler of a deleted provider then does, and what *)
(* becomes of the count in a client that was freed, is undefined and not   *)
(* followed.  Margo refuses two providers of one id in an instance, waits  *)
(* for the handlers before it runs the finalize callbacks, and runs these  *)
(* last in, first out.                                                     *)
(***************************************************************************)
EXTENDS RemiCommon, Naturals, Sequences, FiniteSets, SequencesExt

CONSTANTS
  Mids,          \* the Margo instances of the process
  Ids,           \* provider ids
  Providers, Clients, Handles,   \* the objects that may be allocated
  Components,    \* the providers that Bedrock makes and destroys
  Classes,       \* the keys of migration classes
  UserArgs,      \* the user arguments, each given with at most one class
  HasFree,       \* those that come with a free function
  Abtio,         \* ABT-IO instances
  MaxRefs        \* bound: the references to a handle

NoArgs == "none"

ASSUME LifecycleAssumption ==
  /\ Components \subseteq Providers
  /\ IsFiniteSet(Handles)
  /\ HasFree \subseteq UserArgs /\ NoArgs \notin UserArgs
  /\ MaxRefs \in Nat \ {0}

VARIABLES
  provider,               \* [state, mid, id, m_abtio]
  s_registered_providers, \* the table: a function from ids
  finalizers,             \* per instance, the providers whose callback was pushed
  margo,                  \* per instance: "up", "finalizing" or "down"
  m_migration_classes,    \* per provider: a function from keys to user arguments
  taken,                  \* the user arguments that a class came to own
  freed,                  \* how often the free function was called on each
  deletes,                \* how often each provider was deleted
  rivals,                 \* history: who had the id of each while both were alive
  running,                \* the callbacks that run: <<provider, user arguments>>
  withdrawn,              \* history: those whose class the application took away
  client,                 \* [state, m_num_providers, m_abtio]
  handle,                 \* [state, m_client, m_ref_count]
  held                    \* the references to each handle that the application has

registryVars == <<m_migration_classes, taken, freed>>
tableVars    == <<provider, s_registered_providers, finalizers, deletes, rivals>>
callbackVars == <<running, withdrawn>>
serverVars   == <<tableVars, registryVars, margo, callbackVars>>
clientVars   == <<client, handle, held>>
vars == <<serverVars, clientVars>>

-----------------------------------------------------------------------------

Live == {p \in Providers : provider[p].state = "live"}

With(f, k, r) == [x \in DOMAIN f \cup {k} |-> IF x = k THEN r ELSE f[x]]

Without(f, k) == [x \in DOMAIN f \ {k} |-> f[x]]

\* The arguments on which a provider's classes have a free function.
Owned(p) == {m_migration_classes[p][k] : k \in DOMAIN m_migration_classes[p]} \cap HasFree

FreeAll(args) == freed' = [a \in UserArgs |-> IF a \in args THEN freed[a] + 1 ELSE freed[a]]

Init ==
  /\ provider = [p \in Providers |-> [state |-> "none"]]
  /\ s_registered_providers = <<>>
  /\ finalizers = [mid \in Mids |-> <<>>]
  /\ margo = [mid \in Mids |-> "up"]
  /\ m_migration_classes = [p \in Providers |-> <<>>]
  /\ taken = {} /\ freed = [a \in UserArgs |-> 0]
  /\ deletes = [p \in Providers |-> 0] /\ rivals = [p \in Providers |-> {}]
  /\ running = {} /\ withdrawn = {}
  /\ client = [c \in Clients |-> [state |-> "none"]]
  /\ handle = [h \in Handles |-> [state |-> "none"]]
  /\ held = [h \in Handles |-> 0]

-----------------------------------------------------------------------------
(* Providers                                                               *)

\* The constructor enters the provider in the table by its id alone, whatever
\* its instance; then the finalize callback is pushed.
ProviderRegister(p, mid, id, abtio) ==
  LET peers == {q \in Live : provider[q].id = id} IN
    /\ margo[mid] = "up" /\ provider[p].state = "none"
    /\ \A q \in peers : provider[q].mid # mid
    /\ provider' = [provider EXCEPT ![p] =
         [state |-> "live", mid |-> mid, id |-> id, m_abtio |-> abtio]]
    /\ s_registered_providers' = With(s_registered_providers, id, p)
    /\ finalizers' = [finalizers EXCEPT ![mid] = Append(@, p)]
    /\ rivals' = [q \in Providers |-> IF q = p THEN peers
                                      ELSE IF q \in peers THEN rivals[q] \cup {p}
                                      ELSE rivals[q]]
    /\ UNCHANGED <<registryVars, margo, deletes, callbackVars, clientVars>>

\* Variant: the destructor leaves the table alone.
EraseForgotten(p) == UNCHANGED s_registered_providers

\* ~remi_provider erases the entry of its id, whoever it points to.
Erase(p) == s_registered_providers' = Without(s_registered_providers, provider[p].id)

\* Variant: the user arguments are left to the application.
FreeNothing(p) == UNCHANGED freed

FreeClasses(p) == FreeAll(Owned(p))

\* remi_on_finalize: frees what the classes own and deletes the provider.
OnFinalize(p) ==
  /\ FreeClasses(p)
  /\ m_migration_classes' = [m_migration_classes EXCEPT ![p] = <<>>]
  /\ Erase(p)
  /\ provider' = [provider EXCEPT ![p].state = "deleted"]
  /\ deletes' = [deletes EXCEPT ![p] = @ + 1]

\* Variant: the callback is left to run at finalization.
PopForgotten(p) == UNCHANGED finalizers

PopFinalizer(p) ==
  finalizers' = [finalizers EXCEPT ![provider[p].mid] = RemoveFirst(@, p)]

\* Called by the application or by the destructor of RemiReceiverComponent,
\* also while callbacks of the provider run.
ProviderDestroy(p) ==
  /\ p \in Live /\ margo[provider[p].mid] = "up"
  /\ PopFinalizer(p)
  /\ OnFinalize(p)
  /\ withdrawn' = withdrawn \cup {r \in running : r[1] = p}
  /\ UNCHANGED <<margo, taken, rivals, running, clientVars>>

ProviderSetAbtio(p, abtio) ==
  /\ p \in Live /\ margo[provider[p].mid] = "up"
  /\ provider' = [provider EXCEPT ![p].m_abtio = abtio]
  /\ UNCHANGED <<s_registered_providers, finalizers, deletes, rivals, registryVars>>
  /\ UNCHANGED <<margo, callbackVars, clientVars>>

\* Bedrock destroys its components before; Margo waits for the handlers.
MargoFinalize(mid) ==
  /\ margo[mid] = "up"
  /\ \A p \in Components \cap Live : provider[p].mid # mid
  /\ \A r \in running : provider[r[1]].mid # mid
  /\ margo' = [margo EXCEPT ![mid] = "finalizing"]
  /\ UNCHANGED <<tableVars, registryVars, callbackVars, clientVars>>

FinalizeProvider(mid) ==
  /\ margo[mid] = "finalizing" /\ finalizers[mid] # <<>>
  /\ finalizers' = [finalizers EXCEPT ![mid] = Front(@)]
  /\ OnFinalize(Last(finalizers[mid]))
  /\ UNCHANGED <<margo, taken, rivals, callbackVars, clientVars>>

MargoDown(mid) ==
  /\ margo[mid] = "finalizing" /\ finalizers[mid] = <<>>
  /\ margo' = [margo EXCEPT ![mid] = "down"]
  /\ UNCHANGED <<tableVars, registryVars, callbackVars, clientVars>>

\* remi_provider_registered: the instance it is asked about is not looked at.
Registered(id) ==
  IF id \in DOMAIN s_registered_providers
    THEN LET p == s_registered_providers[id] IN
           [flag |-> TRUE, provider |-> p, abtio |-> provider[p].m_abtio]
    ELSE [flag |-> FALSE]

-----------------------------------------------------------------------------
(* Migration classes and their user arguments                              *)

Usable(p) == p \in Live /\ margo[provider[p].mid] = "up"

\* Variant: a class that is there is replaced, and its arguments freed.
ReplaceClass(p, key, args) ==
  /\ Usable(p) /\ args \notin taken
  /\ FreeAll(IF key \in DOMAIN m_migration_classes[p]
               THEN {m_migration_classes[p][key]} \cap HasFree ELSE {})
  /\ m_migration_classes' = [m_migration_classes EXCEPT ![p] = With(@, key, args)]
  /\ taken' = taken \cup {args}
  /\ UNCHANGED <<tableVars, margo, callbackVars, clientVars>>

\* REMI_ERR_CLASS_EXISTS leaves the arguments with the application.
RegisterClass(p, key, args) ==
  /\ Usable(p) /\ args \notin taken
  /\ key \notin DOMAIN m_migration_classes[p]
  /\ m_migration_classes' = [m_migration_classes EXCEPT ![p] = With(@, key, args)]
  /\ taken' = taken \cup {args}
  /\ UNCHANGED <<tableVars, freed, margo, callbackVars, clientVars>>

\* Frees the arguments also when a callback runs with them.
DeregisterClass(p, key) ==
  /\ Usable(p) /\ key \in DOMAIN m_migration_classes[p]
  /\ withdrawn' = withdrawn \cup (running \cap {<<p, m_migration_classes[p][key]>>})
  /\ FreeAll({m_migration_classes[p][key]} \cap HasFree)
  /\ m_migration_classes' = [m_migration_classes EXCEPT ![p] = Without(@, key)]
  /\ UNCHANGED <<tableVars, taken, margo, running, clientVars>>

\* A handler whose class was deregistered inserts it again, all null.
PhantomClass(p, key) ==
  /\ Usable(p) /\ key \notin DOMAIN m_migration_classes[p]
  /\ m_migration_classes' = [m_migration_classes EXCEPT ![p] = With(@, key, NoArgs)]
  /\ UNCHANGED <<tableVars, taken, freed, margo, callbackVars, clientVars>>

\* One callback stands for all that run at once with the same arguments.
CallbackBegin(p, key) ==
  /\ Usable(p) /\ key \in DOMAIN m_migration_classes[p]
  /\ m_migration_classes[p][key] # NoArgs
  /\ running' = running \cup {<<p, m_migration_classes[p][key]>>}
  /\ UNCHANGED <<tableVars, registryVars, margo, withdrawn, clientVars>>

CallbackEnd(p, args) ==
  /\ <<p, args>> \in running
  /\ running' = running \ {<<p, args>>}
  /\ withdrawn' = withdrawn \ {<<p, args>>}
  /\ UNCHANGED <<tableVars, registryVars, margo, clientVars>>

-----------------------------------------------------------------------------
(* Clients and provider handles                                            *)

ClientInit(c, abtio) ==
  /\ client[c].state = "none"
  /\ client' = [client EXCEPT ![c] = [state |-> "live", m_num_providers |-> 0,
                                      m_abtio |-> abtio]]
  /\ UNCHANGED <<serverVars, handle, held>>

HandlesOf(c) == {h \in Handles : handle[h].state = "live" /\ handle[h].m_client = c}

\* m_num_providers is not looked at: handles may be left.  Also called by the
\* destructor of RemiSenderComponent.
ClientFinalize(c) ==
  /\ client[c].state = "live"
  /\ client' = [client EXCEPT ![c].state = "freed"]
  /\ UNCHANGED <<serverVars, handle, held>>

ClientSetAbtio(c, abtio) ==
  /\ client[c].state = "live"
  /\ client' = [client EXCEPT ![c].m_abtio = abtio]
  /\ UNCHANGED <<serverVars, handle, held>>

\* The provider answers with its identity, or there is none such and the new
\* handle is deleted (REMI_ERR_UNKNOWN_PR, which leaves all as it was).
HandleCreate(c, h) ==
  /\ client[c].state = "live" /\ handle[h].state = "none"
  /\ \E p \in Live : margo[provider[p].mid] = "up"
  /\ handle' = [handle EXCEPT ![h] = [state |-> "live", m_client |-> c, m_ref_count |-> 1]]
  /\ client' = [client EXCEPT ![c].m_num_providers = @ + 1]
  /\ held' = [held EXCEPT ![h] = 1]
  /\ UNCHANGED serverVars

HandleRefIncr(h) ==
  /\ held[h] \in 1 .. MaxRefs - 1
  /\ handle' = [handle EXCEPT ![h].m_ref_count = @ + 1]
  /\ held' = [held EXCEPT ![h] = @ + 1]
  /\ UNCHANGED <<serverVars, client>>

\* Variant: compares before it counts down.
LastReference(h) == handle[h].m_ref_count - 1 = 1

NoReferenceLeft(h) == handle[h].m_ref_count - 1 = 0

\* The last release counts down in the client, freed or not.
HandleRelease(h) ==
  LET c == handle[h].m_client IN
    /\ held[h] > 0
    /\ held' = [held EXCEPT ![h] = @ - 1]
    /\ IF NoReferenceLeft(h)
         THEN /\ IF client[c].state = "live"
                   THEN client' = [client EXCEPT ![c].m_num_providers = @ - 1]
                   ELSE UNCHANGED client
              /\ handle' = [handle EXCEPT ![h].state = "freed", ![h].m_ref_count = 0]
         ELSE /\ handle' = [handle EXCEPT ![h].m_ref_count = @ - 1]
              /\ UNCHANGED client
    /\ UNCHANGED serverVars

-----------------------------------------------------------------------------

ProviderCalls ==
  \/ \E p \in Providers, mid \in Mids, id \in Ids, io \in Abtio : ProviderRegister(p, mid, id, io)
  \/ \E p \in Providers : ProviderDestroy(p)
  \/ \E p \in Providers, io \in Abtio : ProviderSetAbtio(p, io)

ClassCalls ==
  \E p \in Providers, key \in Classes :
    \/ \E args \in UserArgs : RegisterClass(p, key, args)
    \/ DeregisterClass(p, key)

Handlers ==
  \E p \in Providers :
    \/ \E key \in Classes : PhantomClass(p, key) \/ CallbackBegin(p, key)
    \/ \E args \in UserArgs : CallbackEnd(p, args)

Margo == \E mid \in Mids : MargoFinalize(mid) \/ FinalizeProvider(mid) \/ MargoDown(mid)

ClientCalls ==
  \/ \E c \in Clients : ClientFinalize(c) \/ \E h \in Handles : HandleCreate(c, h)
  \/ \E c \in Clients, io \in Abtio : ClientInit(c, io) \/ ClientSetAbtio(c, io)
  \/ \E h \in Handles : HandleRefIncr(h) \/ HandleRelease(h)

Terminated == (\A mid \in Mids : margo[mid] = "down") /\ UNCHANGED vars

Next == ProviderCalls \/ ClassCalls \/ Handlers \/ Margo \/ ClientCalls \/ Terminated

Spec == Init /\ [][Next]_vars

-----------------------------------------------------------------------------
(* Properties                                                              *)

ProviderRecord ==
  [state : {"none"}] \cup [state : {"live", "deleted"}, mid : Mids, id : Ids, m_abtio : Abtio]

ClientRecord ==
  [state : {"none"}] \cup [state : {"live", "freed"}, m_num_providers : Nat, m_abtio : Abtio]

HandleRecord ==
  [state : {"none"}] \cup [state : {"live", "freed"}, m_client : Clients, m_ref_count : Nat]

\* The maps from some of D to R.
Tables(D, R) == UNION {[K -> R] : K \in SUBSET D}

\* Each variable has its type.
TypeOK ==
  /\ provider \in [Providers -> ProviderRecord]
  /\ s_registered_providers \in Tables(Ids, Providers)
  /\ finalizers \in [Mids -> Seq(Providers)]
  /\ margo \in [Mids -> {"up", "finalizing", "down"}]
  /\ m_migration_classes \in [Providers -> Tables(Classes, UserArgs \cup {NoArgs})]
  /\ taken \subseteq UserArgs /\ freed \in [UserArgs -> Nat]
  /\ deletes \in [Providers -> Nat] /\ rivals \in [Providers -> SUBSET Providers]
  /\ running \subseteq Providers \X UserArgs /\ withdrawn \subseteq running
  /\ client \in [Clients -> ClientRecord]
  /\ handle \in [Handles -> HandleRecord]
  /\ held \in [Handles -> Nat]

\* The table never points to a provider that was deleted, although instances
\* overwrite and erase each other's entries.
TableNeverDangles ==
  \A id \in DOMAIN s_registered_providers :
    s_registered_providers[id] \in Live /\ provider[s_registered_providers[id]].id = id

\* remi_provider_registered finds a provider, with its ABT-IO instance, unless
\* an instance beside its own has had one of the same id in its lifetime.
FoundUnlessRivalled ==
  \A p \in Live :
    rivals[p] = {} => Registered(provider[p].id) =
                        [flag |-> TRUE, provider |-> p, abtio |-> provider[p].m_abtio]

\* Each provider is deleted once, by the application, by its component or by
\* Margo, and is gone when its instance is.
DestroyedOnce ==
  \A p \in Providers :
    /\ deletes[p] = IF provider[p].state = "deleted" THEN 1 ELSE 0
    /\ p \in Live => margo[provider[p].mid] # "down"

\* The free function is called on the user arguments of a class once, when the
\* class goes: by deregistration, with its provider or with Margo.
UserArgsFreedOnce ==
  \A a \in HasFree :
    freed[a] = IF a \in taken /\ \A p \in Providers : a \notin Owned(p) THEN 1 ELSE 0

\* Only the application takes a class away under a callback of it: as long as
\* it neither deregisters the class nor destroys the provider, the callback
\* runs with user arguments that were not freed, in a provider that was not
\* deleted, whatever else is registered, destroyed or finalized meanwhile.
CallbackArgumentsAlive ==
  \A r \in running \ withdrawn : freed[r[2]] = 0 /\ r[1] \in Live

\* The counts agree with what the application holds: a handle lives as long as
\* someone has a reference to it, also when its client was finalized before,
\* and its client counts it as long as both live.
HandlesCounted ==
  /\ \A h \in Handles :
       IF held[h] > 0 THEN handle[h].state = "live" /\ handle[h].m_ref_count = held[h]
                      ELSE handle[h].state # "live"
  /\ \A c \in Clients :
       client[c].state = "live" => client[c].m_num_providers = Cardinality(HandlesOf(c))
=============================================================================
