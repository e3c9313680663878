# A verification project for REMI

REMI (mochi-remi) moves *filesets* (a root directory and a set of files below
it) from one node to another.  A client calls `remi_fileset_migrate`; a
provider on the other node creates the files, receives their bytes and calls
the callbacks that an application registered for the *migration class* of the
fileset.  This directory holds TLA+ models of that code, the TLC runs that
check them and proofs that TLAPS checks.  Paths below are those of the
repository; `remi-server.cpp` and the like are in its `src/` directory.

## 1. Inventory

| component | state | operations | what makes it hard |
|---|---|---|---|
| provider handlers (`remi-server.cpp` 79-404) | map of pending operations, and per operation a mutex, an error, open descriptors; files of the destination | `migrate_start`, `migrate_mmap`, `migrate_write`, `migrate_end` | every RPC is a user-level thread; answers are sent before the work is done; callbacks, I/O and transfers in the middle |
| migration classes (`remi-server.cpp` 488-546) | map from (name, provider id) to callbacks, user arguments, free function | register, deregister; looked up by handlers | used by handlers without a lock, inserted by `operator[]`, freed while in use |
| client: migration (`remi-client.cpp` 162-503) | the fileset's root and files (swapped during the call), descriptors or mappings, two buffers | `remi_fileset_migrate`: memory-mapped, with and without ABT-IO | early returns and exceptions half-way, pipelined reads and sends, removal of the source |
| fileset (`remi-fileset.cpp`) | class, provider id, root, files, directories, metadata, transfer size | register, deregister, set, get, foreach, walkthrough, compute_size | sequential; names and directories, uninitialised provider id |
| file system helpers (`fs-util.hpp`) | none | `mkdirs`, `listFiles`, `removeRec` | what one lists and the other removes; system calls that fail, and nobody told |
| provider lifecycle (`remi-server.cpp` 398-486) | table of providers by id, finalize callbacks | register, destroy, registered | destroyed while handlers run; one table for all Margo instances |
| client and handles (`remi-client.cpp` 27-141) | number of handles, reference counts | init, finalize, create, ref_incr, release | the client freed before its handles |
| Bedrock component (`remi-bedrock.cpp`) | a provider or a client | constructed, destroyed | none of its own |
| devices (`remi_set_device`) | none | does nothing | nothing |

Interaction: one call of `remi_fileset_migrate` makes the RPCs `migrate_start`,
then `migrate_mmap` or a series of `migrate_write`, then `migrate_end`, each
after the answer to the one before.  The provider links them by an operation
id (a random UUID).  Handlers share the map of operations (one mutex), each
operation (a mutex of its own), the class registry (no mutex) and the file
system, with which other processes and other migrations interfere.

Behaviours that a test would hardly reach: `migrate_write` answers *before* it
writes, so the sender runs ahead of the I/O and may be in `migrate_end` while
the last `pwrite` is still to come; two migrations of the same files; a class
that changes while it is in use; an RPC that is lost after the provider has
done its part; a step that fails after others succeeded; a fileset whose
members are swapped while the call is under way.  The file `PROJECT.json` lists
these hazards at their lines, with the properties that cover them.

What makes each part correct:

* *provider*: no handler touches an operation, or a descriptor, that another
  handler released; a fileset is published (its "after" callback called) only
  when it is whole; a caller that is told of a success has its bytes on the
  destination; nothing is left behind by a call that was answered.
* *registry*: a class is known from its registration to its deregistration.
* *client*: the chunks cover each file exactly; they carry the bytes they
  claim; the source is removed only when the destination has taken over; the
  fileset is what it was after the call; the call returns.
* *fileset and helpers*: what is listed is what exists, and what is removed is
  what was sent; where the code does not see to that, we say exactly where.
* *lifecycle*: nothing is freed while it is used, by id or by reference.

## 2. Plan

| order | module | state |
|---|---|---|
| 1 | `RemiProvider`: handlers, registry, destination's files, senders | done, proved |
| 2 | `FilesetMigration`: what a migration promises | done, `RemiProvider` proved to implement it |
| 3 | `RemiClient`: the whole of `remi_fileset_migrate` | done, proved |
| 4 | `MigrationSession`: the contract between client and provider | done, both sides proved to keep it |
| 5 | `RemiFileset`: the fileset API over a tree of directories, with `mkdirs`, `listFiles` and `removeRec` | done, proved |
| 6 | `RemiLifecycle`: providers, handles, clients, the table and the finalize callbacks, the user arguments of a class | done, proved |
| 7 | proofs: the types, the table, the user arguments and the counts of `RemiLifecycle`; what `RemiFileset` lists and removes; the client's side of `MigrationSession` | done |
| 8 | proofs: `SizeCountsEachOnce` and `RefusedForCause` of `RemiFileset` | done |

What is left is out of the prover's reach (section 7) or has no state to model
(section 8).

## 3. The modules

| module | models |
|---|---|
| `RemiCommon` | the result codes, and which codes each RPC may be answered |
| `RemiProvider` | the provider, its registry and files, the senders seen from the provider |
| `FilesetMigration` | abstract specification: pieces land, the fileset is published, the caller is told |
| `MigrationSession` | abstract specification: the order of the calls and the answers |
| `RemiClient` | `remi_fileset_migrate` and the fileset it swaps; the provider is its environment |
| `RemiFileset` | the fileset, the walk through it, its size, `mkdirs` and `removeRec`, on a tree that others change |
| `RemiLifecycle` | providers, clients, handles, classes: who frees what, and when |
| `MCRemiProvider`, `MCRemiClient`, `MCRemiFileset`, `MCRemiLifecycle` | small instances for TLC |
| `RemiProviderInvariant`, `RemiClientInvariant`, `RemiFilesetInvariant`, `RemiLifecycleInvariant` | the inductive invariants |
| `RemiProviderTypes`, `RemiProviderControl`, `RemiProviderTheorems`, `RemiProviderRefinement`, `RemiClientTheorems`, `RemiFilesetPaths`, `RemiFilesetTheorems`, `RemiLifecycleTheorems` | the proofs |

The two halves of the system are put together by the contract rather than by a
product: `RemiProvider` is checked against `MigrationSession` with its handlers
in full and the sender reduced to its calls, `RemiClient` with the caller in
full and the provider reduced to its answers.  Each half assumes of the other
no more than the contract says (`KeepsSession` of either module).

### RemiProvider

A migration `m` is one call of `remi_fileset_migrate` for one fileset.  An
operation id is a random UUID; ids are taken as distinct, so an operation is
named by its migration.

| variable | code |
|---|---|
| `startPc`, `writePc`, `bulkPc`, `endPc` | where the ULT of each RPC is |
| `m_op_in_progress` | the keys of the map of that name |
| `m_mutex`, `m_error`, `m_fds` | the members of `operation`; `m_fds` says whether the descriptors are open |
| `m_migration_classes` | the map of that name: is the key in it, has the class a "before", an "after" callback |
| `exists`, `content` | the destination's files; `content[p]` are the pieces (requests or mapped files) all of whose bytes are in `p` |
| `mode`, `phase`, `sent`, `reply` | the sender: method, current RPC, chunks sent, last answer |

| actions | code (`remi-server.cpp`) |
|---|---|
| `MigrateStartCheck`, `Before`, `Callback`, `Open` | 94-168: class lookup and `access()`; `operator[]`; the callback; `open` of every file and insertion of the operation |
| `MigrateMmapLookup`, `Map`, `Pull`, `Sync` | 225-318: lookup; `ftruncate`, `mmap`; bulk pull; `msync` |
| `MigrateWriteLookup`, `Ack`, `Data` | 320-396: lookup; lock, range check, answer; `pwrite`, record of a short write, unlock |
| `MigrateEndLookup`, `Close`, `Answer`, `Erase` | 170-223: lookup; lock, close, recorded error, class; callback, answer, unlock; erase |
| `RegisterClass`, `DeregisterClass` | 488-546 |
| `CallStart`, `CallMmap`, `CallWrite`, `CallEnd`, `Return`, `LoseCall` | the calls of `remi-client.cpp` 216-503 |

A handler is cut where another ULT may run in between: at the two mutexes, the
callbacks, the I/O, the transfer and the answer.  What it does between two such
points is one step.  In particular an access to the class registry is one step,
although the map has no mutex (with several execution streams the accesses
race, which is undefined and has no state to model), and so are the opens of
one `migrate_start`, of which any may fail (the files before it stay behind).

`Store` is pessimistic: once a migration has written to a file, nothing is said
any more of the bytes that another migration had put there, so a property of
`content` never relies on two writers leaving each other alone.

The lookups of `migrate_mmap` and `migrate_end` may find no operation; with
senders that behave as `remi-client.cpp` does they always find it (an operation
is erased only by a call whose answer makes the sender stop, or, for a request
out of range, by one after which no answer is a success), which is part of what
`IInv` proves.  Requests out of range (`~InRange`) come from a foreign sender
only: `Tiled` of `RemiClient` says that the client issues none.

### FilesetMigration and MigrationSession

`FilesetMigration` is the promise to the application: pieces land, the fileset
is published when none is missing, the caller is told of a success only after
that and of a failure only if it never will be.  `RemiProvider` maps to it by
`Stage`, `PieceNumbers(m) \ Landed(m)` and `Outcome` (`KeepsPromise`).  A piece
has *landed* when its write is over and done, which is later than its answer.

`MigrationSession` is one session: after which answer which call may follow,
and what each call may be answered.  Before the first RPC a call decides what to send
and may return there (`Prepare`).  The loop without ABT-IO does not look at
the answers in the middle; the loop with ABT-IO stops at the first error.

### RemiClient

| actions | code (`remi-client.cpp`) |
|---|---|
| `InvalidArgument` | 172-177: the arguments are refused |
| `MigrateStart` | 162-192: the walkthrough |
| `OpenFile`, `OpenFails` | 236-272 and 350-370: file by file, open, `fstat`, map; on a failure, clean up and return |
| `Opened` | 274-289 and 372-384: members moved out, `migrate_start` |
| `StartRefused` | 290-297, 386-391: the early return after a refusal |
| `StartMmap`, `MmapAnswered` | 299-317: `migrate_mmap`, members put back |
| `StartWrites` | 392-410: members put back, the loop over the files |
| `SequentialChunk`, `SequentialAnswered` | 404-419: read, send, wait |
| `FirstChunk`, `IssueChunk`, `OverlappedRead`, `ChunkAnswered` | 430-479: the read of a chunk overlaps the sending of the previous one |
| `LoopDone`, `EndAnswered` | 483-503 and 194-213: `migrate_end`, clean up, removal of the source |
| `Answer`, `Throw`, `Appear` | environment: an answer within the contract, an exception, a new file in a directory |

A buffer is described by the place in the source its bytes come from and by how
many of them the read got (`got`), so sending the wrong buffer, the right one at
the wrong offset, or one that is only partly filled shows (`DataMatches`).
`position` is where the descriptor stands: without ABT-IO the code calls `read`,
which goes on there, and counts the offset that it sends separately. `opened`
are the files whose descriptor or mapping the call keeps. A `std::set` has the
files in the order of their names; names are plain values here, so `SetToSeq`
puts them in some fixed order. `disk` holds the files of the client's host;
`SameHost` says that the provider's files are on it, too. `Faults` selects what
may go wrong. `*status` is left out.

### RemiFileset

`RemiClient` takes the names in a fileset for what they stand for, and the
whole directory for one set of files.  This module has what lies between a name
and a file.  A path is the sequence of the pieces that the code concatenates, so
that `path + d_name` with a slash missing makes another name (`<<"d", "x">>`,
which is how the constants write the entry `dx`); `Canonical` is how the system
takes a path.  A fileset is read and removed by one caller, one directory at a
time (`readdir` gives the entries that were there when it was opened, in any
order), while another process adds and deletes entries.

| variable | code |
|---|---|
| `live`, `m_root`, `m_files`, `m_directories`, `m_metadata`, `m_xfer_size`, `m_provider_id` | the fileset (`REMI_FILESET_NULL` if not `live`) |
| `disk`, `there` | the entries of the source's host; directories and files of the destination |
| `frames` | the stack of the recursion: per call its argument and what its loop has still to visit |
| `files` | the set that `remi_fileset_walkthrough` fills |
| `seen`, `steady` | history: entries that were there at some moment, at every moment, of the call |
| `unlisted`, `unread`, `unremoved` | history: what `opendir` failed on in `listFiles` and in `removeRec`, what `remove` failed on |

| actions | code |
|---|---|
| `Create`, `Free`, `SetRoot`, `SetXferSize`, `SetProviderId`, `Register...`, `Deregister...`, `NullFileset` | `remi-fileset.cpp` 20-277 |
| `StartWalk`, `ListDirectory`, `ListNothing`, `ListedDirectory` | `remi-fileset.cpp` 220-240, `fs-util.hpp` 32-46 |
| `StartSizes`, `AddFileSize`, `SizesDone` | `remi-fileset.cpp` 279-344 |
| `OpenSource`, `Refused`, `RefusedOnFailure`, `Transfer` | the migration in three steps: `remi-client.cpp` 350-391, `remi-server.cpp` 105-155 with `mkdirs` (`fs-util.hpp` 16-30) |
| `RemoveFile`, `SweepDirectory`, `SweepNothing`, `SweptDirectory`, `MoveDone` | `remi-client.cpp` 202-211, `fs-util.hpp` 48-61 |
| `Appear`, `Vanish` | another process |

Directories and files come in the order of their names in the code, in any
order here; the files that were sent are removed before any directory, as in
the code.  An entry that comes back has the kind it had.

Any `opendir`, `open`, `fstat`, `mkdir` or `remove` may fail although there is
what it asks for (`Fail`): descriptors or memory have run out, a permission is
missing, a device is busy.  `ListNothing` and `SweepNothing` are the two
recursions when `opendir` fails; `TryRemove` is `remove`, whose result nobody
looks at; `RefusedOnFailure` leaves at the destination what was made before the
failure.  `Untyped` are the entries for which `readdir` gives `DT_UNKNOWN`, as some
file systems do: `listFiles` neither lists nor enters them, `removeRec` removes
them (`Type`, `ListedTypes`, `SweptTypes`).

### RemiLifecycle

| variable | code |
|---|---|
| `provider`, `client`, `handle` | the objects, their members, and whether they are allocated |
| `s_registered_providers` | the table of that name |
| `finalizers`, `margo` | Margo's stack of finalize callbacks, and how far its finalization is |
| `m_migration_classes`, `taken`, `freed` | which class owns which user arguments; calls of the free function |
| `running` | callbacks under way |
| `held` | the references of the application |
| `deletes`, `rivals` | history |

| actions | code |
|---|---|
| `ProviderRegister`, `ProviderDestroy`, `ProviderSetAbtio`, and `Registered` | `remi-server.cpp` 398-486; `remi-bedrock.cpp` 18-36 |
| `MargoFinalize`, `FinalizeProvider`, `MargoDown` | Margo (external), `remi-server.cpp` 416-424 |
| `RegisterClass`, `DeregisterClass`, `PhantomClass` | `remi-server.cpp` 510-546; `operator[]` of the handlers |
| `CallbackBegin`, `CallbackEnd` | the callbacks of `migrate_start` and `migrate_end` |
| `ClientInit`, `ClientFinalize`, `ClientSetAbtio` | `remi-client.cpp` 58-89; `remi-bedrock.cpp` 94-109 |
| `HandleCreate`, `HandleRefIncr`, `HandleRelease` | `remi-client.cpp` 91-136 |

The code checks nothing of the order in which these are called.  The application
of the model uses nothing it freed itself, but it may deregister a class or
destroy a provider while a callback of it runs, and finalize a client before it
releases the handles: no header forbids it.  `withdrawn` remembers the callbacks
under which the application took the class or the provider away.  What a handler
does with a provider that is gone, and what becomes of the count in a client
that was freed, is undefined and not followed.  Of Margo the model takes that two
providers of one instance have different ids, that finalization waits for the
handlers, and that callbacks run last in, first out; of Bedrock, that it destroys
its components before Margo finalizes.

### Variants

Definitions whose comment says "variant" (`NoWait`, `ErrorIgnored`,
`AdvanceReadOnly`, ...) are not used by any specification.  Each differs from
the definition after it by one slip that the code could have; putting it in the
place of that definition makes TLC find the property named with it in
`PROJECT.json` ("mutants") violated.  This is how we know that each property
can fail.

## 4. Runs

`tlc -config <cfg> <module>`; distinct states in parentheses.

| run | module, cfg | checks and shows |
|---|---|---|
| `provider_safety` (210,356) | `MCRemiProvider`, `ProviderSafety` | two migrations sharing a file, three methods, I/O errors, a request out of range, refusals, lost senders, a changing registry: `NoDanglingOp`, `DescriptorsOutliveWrites`, `PublishedComplete`, `OneBehind`, `SuccessIsDurable`, `NothingLeftBehind`, `KeepsPromise`, `KeepsSession`, and `IInv`, the inductive invariant of the proofs |
| `provider_liveness` (36,207) | `MCRemiProvider`, `ProviderLiveness` | one migration, and another that names a file of the first and one that was there before: `EveryCallReturns`, `OpsAreReclaimed`, `PreexistingUntouched` |
| `client_safety` (210,909) | `MCRemiClient`, `ClientSafety` | two calls on one fileset, with failing opens, short reads, refusals, exceptions: `Tiled`, `EndMeansSent`, `DataMatches`, `NothingLeftOpen`, `SourceOutlivesTransfer`, `KeepsSession`, `MigrateReturns`, and `IInv`, the inductive invariant of the proofs |
| `fileset_safety` (149,911) | `MCRemiFileset`, `FilesetSafety` | any three operations and one call on a fileset, another process that adds or deletes an entry, types that `readdir` does not tell, a system call that fails: `ListingFaithful`, `SizeCountsEachOnce`, `RefusedForCause`, `RemovalConfined`, `NothingUnseenLost`, `SweptClean`, `CallReturns`, and `IInv`, the inductive invariant of the proofs |
| `lifecycle_safety` (458,766) | `MCRemiLifecycle`, `LifecycleSafety` | two providers of one id in two instances, one of them a component of Bedrock; a client with its handle: `TableNeverDangles`, `FoundUnlessRivalled`, `DestroyedOnce`, `UserArgsFreedOnce`, `CallbackArgumentsAlive`, `HandlesCounted`, and `IInv`, the inductive invariant of the proofs |
| `provider_overwrite` | `MCRemiProvider`, `ProviderOverwrite` | refutes `NeverOverwrites` |
| `provider_phantom_class` | `MCRemiProvider`, `ProviderPhantomClass` | refutes `ClassesComeFromRegister` |
| `provider_null_callback` | `MCRemiProvider`, `ProviderNullCallback` | refutes `UserErrorOnlyFromCallback` |
| `client_retry` | `MCRemiClient`, `ClientRetry` | refutes `RemovesOnlyOriginals` |
| `client_short_read` | `MCRemiClient`, `ClientShortRead` | refutes `SuccessMeansTransferred` |
| `fileset_bare_name` | `MCRemiFileset`, `FilesetBareName` | refutes `DirectoriesMigrateWhole`, in two ways at once: the file `d/x` is listed as `dx`, and `d/.h` is not listed at all |
| `fileset_unreadable` | `MCRemiFileset`, `FilesetUnreadable` | refutes `RemovedOnlyIfSent` |

Deadlock is checked in all of them: `Terminated` lets a state stutter only when
every migration is at rest (provider), the calls are used up (client, fileset) or
every Margo instance is down (lifecycle).

### Bounds

* *Two migrations.* Migrations meet in the registry and in files they share;
  each has its own operation, and the handlers of one do not touch the control
  state of another (`OthersSameControl`, proved). Two are enough for one to
  create a file while the other is anywhere in its own start.
* *Requests* (`SharedPlan`). The first migration has three, over two files. The
  early answer lets one request wait behind the one being written; a third shows
  that no more do, and the second file that the pieces of different files are
  kept apart. The second migration begins with a request past the end of its
  file: the operation goes, and without ABT-IO the sender goes on with a request
  that covers the file. By bulk transfer, where the plan plays no part, it can
  succeed.
* *`MaxRegistryCalls`* is 1 or 2: register, deregister under way. What a second
  registration would do, a class that comes back by itself does as well. One
  class is enough: nothing relates two of them.
* *`MaxCalls`* is 2 for the client: a call and its retry.
* *Client sizes* 5, 0 and 2 with a transfer size of 2: several chunks, a last
  chunk that is not full, an empty file, an exact multiple.
* *The tree* (`MCRemiFileset`) has two levels of directories, a file on each, a
  file in a hidden directory, an entry that is neither file nor directory, a
  file and a directory with a file whose types `readdir` does not tell, and a
  file that is not there yet; `/w` at the destination is a file that stands
  where a directory is asked for. Three operations make a fileset with two
  members (`/d/x` and `f`; two of `d/`, `d/s/` and the hidden `d/.q/`; or one of
  each) or one whose root was changed. Then there is one call, of any kind; what
  a refused one does to the next is the subject of `client_safety` and
  `client_retry`. The refuted claims have a smaller tree, with a file `dx`
  beside the directory `d`.
* *One change* of the tree by another process and *one failing system call* are
  placed anywhere between and at the steps of a call. A second one adds states
  but none that the first could not disturb.
* *Two providers, one id, two instances*: an instance holds one provider of an
  id, so these are the rivals, one the application's and one a component's;
  either can come after the other is gone. Entries of different ids do not touch
  each other. Two classes are there so that one can change under a callback of
  the other; `a1` has a free function and `a2` has none. A second client or
  handle would only repeat what the first does, except in the count of a
  client's handles, which `CountsRight` proves for any number.
* The liveness run (`BarredPlan`) has the first migration of the safety run, by
  itself but for one that is turned away or never gets that far: the handlers of
  an operation wait only for each other, and what two migrations do to a common
  file is the subject of `provider_safety`.

The theorems of section 6 hold for every number of migrations, files, requests,
classes, providers, clients, handles, instances and calls, for every size of
files and chunks, and for every tree of directories, every fileset over it and
any number of changes that others make to it, so for them the bounds do not
matter.

### Fairness

`RemiProvider`: weak fairness of each handler and of the steps a sender takes
on an answer.  Argobots runs every ready ULT of a pool, a ULT that waits for a
mutex becomes ready when it is released, `pwrite`, bulk transfers and callbacks
return, and Mercury delivers an answer to a caller that still waits.  (A handler
that a bulk transfer leaves by an exception, at `remi-server.cpp:296`, takes no
further step and answers nothing; `Spec`, and so every safety property, allows
that, fairness excludes it.)  Only one
ULT of an operation can wait for its mutex while another holds it
(`OneBehind`), so weak fairness is enough.  Nothing makes a migration begin, an
RPC fail, or the application change the registry: `CallStart`, `LoseCall` and
`Application` have no fairness.  `EveryCallReturns` counts a lost call as
over, since the code has no timeout that would tell.

`RemiClient`: weak fairness of the caller's steps and of the answers.
`RemiFileset`: weak fairness of the caller's steps; the other process has none,
and its changes are bounded (directories made faster than they are read could
keep the recursion going).  The open of a FIFO waits for a writer; one is taken to
come.  `RemiLifecycle` states no liveness.

### Findings

* *Check then open* (`remi-server.cpp:145`).  The existence of the target files
  is checked before the user's callback, the files are opened with `O_TRUNC`
  after it.  Two migrations of a common file can both pass; the later open
  truncates what the earlier one made ("we don't want to overwrite",
  `remi-server.cpp:114-115`).  `SuccessIsDurable` is therefore stated for
  migrations whose files no other migration opened.
* *A class that comes back* (`remi-server.cpp:206`).  `operator[]` inserts a
  class that was deregistered under way, without callbacks; it then cannot be
  registered again.  TLC's shortest trace has the deregistration between the
  two lookups of `migrate_start`, which takes a second execution stream; the
  same happens in `migrate_end`, long after the start, with one.
* *No "before" callback* (`remi-server.cpp:103`).  The status starts at 1: a
  class without that callback refuses every migration with `REMI_ERR_USER`.
* *Retry after a refusal* (`remi-client.cpp:293`).  The members that were moved
  out of the fileset are not put back: it keeps the remote root, and a retry
  reads, and with `REMI_REMOVE_SOURCE` removes, files below it on the client's
  own host.
* *Short reads* (`remi-client.cpp:414`).  What `read` and `abt_io_pread` return
  is not looked at; stale bytes are sent and the call succeeds.  Without ABT-IO
  the later chunks of the file are shifted as well, because `read` goes on where
  the short one left the descriptor.
* *A directory without its slash* (`fs-util.hpp:42`).  `listFiles` opens
  `root + "/" + path` but names its entries `path + d_name`: for a directory
  registered as `d` the file `d/x` is listed as `dx`.  If there is a `dx` beside
  the directory it is sent in its place, and with `REMI_REMOVE_SOURCE` removed;
  otherwise the migration fails.  `removeRec` goes astray in the same way.
  `examples/client-dir.c` registers names as they are typed.
* *Names with a dot* (`fs-util.hpp:37`).  They are passed over, although "all the
  files and subdirectories in this directory will be migrated"
  (`remi-common.h:199-200`).  The trace of `fileset_bare_name` shows it as well.
* *A directory that cannot be opened* (`fs-util.hpp:35`).  `listFiles` passes it
  over and the call goes on; if `removeRec` can open it later (line 49), the files
  in it are removed, unsent, with `REMI_SUCCESS`.  A file whose type `readdir` does
  not tell needs no failure for that: `listFiles` passes it over (line 41),
  `removeRec` removes it (line 55).

## 5. What the properties say

The properties stand at the end of their modules, each with a comment.  Those
of `RemiProvider` relate handlers of different RPCs (`NoDanglingOp`,
`DescriptorsOutliveWrites`, `OneBehind`), the handlers and the disk
(`PublishedComplete`, `PreexistingUntouched`), the caller and the disk
(`SuccessIsDurable`), or the caller and what is left at the provider
(`NothingLeftBehind`, `OpsAreReclaimed`).  `OpsAreReclaimed` names the two
cases in which the code never reclaims an operation: its sender was lost, or
was told of a short bulk transfer.

`DataMatches` of `RemiClient` says of each request that its bytes are those of the
place it names unless a read fell short, and which requests a short read spoils:
its own, and without ABT-IO those after it in the file.  `NothingLeftOpen` covers
the returns from the middle of the opening loop, and excludes calls left by an
exception: these keep their descriptors and mappings.

Those of `RemiFileset` compare what one recursion lists, what another removes
and what the transfer delivered, over a tree that changed in between
(`steady` and `seen` bound what a caller may expect).  `WellNamed` excludes roots
and directories given without their slash, which the code accepts and then
takes for something else.

What the code drops silently is named in the properties and not left out of the
model.  `Listable` are the files that `listFiles` can find: not those whose name, or
a directory on the way, begins with a dot, nor those whose type, or that of a
directory on the way, `readdir` does not tell.  `Missed` is what lies below a
directory that could not be opened.  `ListingFaithful` says that nothing else is
missed.  `NothingUnseenLost` speaks of files that were there when the call began
(the code does remove, unsent, what turned up later) and says that such a file
is lost in these two cases at most; `RemovedOnlyIfSent`, which does not allow for
them, is refuted.

`SweptClean` allows for what `removeRec` does not look at, which keeps its
directories alive (`Obstacles`), and for what it failed to remove (`Stuck`).  Some
cases of it came out of its proof.  A hidden directory that is registered itself
*is* removed, but perhaps after the removal of the directory around it had failed
on it, so `Obstacles` counts what was there when the call began; so it does with a
directory that `removeRec` takes for a file, which is removed if it is empty by
then; and of something registered as a directory that is none nothing is said,
since `remove` of its name with a slash fails.
`SizeCountsEachOnce` and `RefusedForCause` got their conditions from their proofs,
too.  The code tells files by their names, not by what the names lead to, so a
file registered as `d/x` and as `d//x` is counted and sent twice: `PlainNames`
excludes such spellings.  And a directory registered as a *file* is opened at the
source and made as a file at the destination, where it blocks the files below
it: `RefusedForCause` excludes that, a root without its slash, and system
calls that fail.  A size is exact only if each directory could be opened;
`remi_fileset_compute_size` reports success with less when one could not.  `TypeOK` holds
that the transfer size is never zero, which `ClientAssumption` of `RemiClient`
supposes.

Those of `RemiLifecycle` relate objects to whoever may free them.
`CallbackArgumentsAlive` says that nothing takes the arguments or the provider from
under a callback but the application itself, by deregistering that class or
destroying that provider (`withdrawn`): not a registration, a handler that inserts
a class, another provider of the same id, or Margo.  No property forbids the
application to do so: `remi-server.h:132` speaks of the free function as one called
"when the provider is destroyed" and does not say how deregistration calls it at
once, nor that a callback may still be running.
`FoundUnlessRivalled` excludes providers that shared their id with one of another
Margo instance in their lifetime: the table has one entry for both, and the
destruction of either removes it.

## 6. Proofs

TLAPS proves, for all values of the constants that meet the assumptions below:

| theorem | module |
|---|---|
| `TypeCorrect`: `Spec => []TypeOK` | `RemiProviderTypes` |
| `InvariantHolds`: `Spec => []IInv` | `RemiProviderTheorems` |
| `NoDanglingOpHolds`, `DescriptorsOutliveWritesHolds`, `PublishedCompleteHolds`, `OneBehindHolds`, `SuccessIsDurableHolds`, `NothingLeftBehindHolds`, `PreexistingUntouchedHolds` | `RemiProviderTheorems` |
| `KeepsPromiseHolds`: the provider implements `FilesetMigration` | `RemiProviderRefinement` |
| `KeepsSessionHolds`: the provider keeps `MigrationSession` | `RemiProviderRefinement` |
| `InvariantHolds`: `Spec => []IInv`, and `TypeCorrect` | `RemiClientTheorems` |
| `TiledHolds`, `DataMatchesHolds`, `EndMeansSentHolds`, `NothingLeftOpenHolds`, `SourceOutlivesTransferHolds` | `RemiClientTheorems` |
| `KeepsSessionHolds`: the client keeps `MigrationSession` | `RemiClientTheorems` |
| `InvariantHolds`: `Spec => []IInv`, and `TypeCorrect` | `RemiFilesetTheorems` |
| `WalkFaithful`: `ListingFaithful`; `RemovalStaysInside`: `RemovalConfined`; `NothingLost`: `NothingUnseenLost`; `SweepComplete`: `SweptClean`; `SizeExact`: `SizeCountsEachOnce`; `RefusalCaused`: `RefusedForCause` | `RemiFilesetTheorems` |
| `InvariantHolds`: `Spec => []IInv`, and `TypeCorrect` | `RemiLifecycleTheorems` |
| `TableSound`: `TableNeverDangles`; `RegisteredFinds`: `FoundUnlessRivalled`; `DeletedOnce`: `DestroyedOnce`; `FreedOnce`: `UserArgsFreedOnce`; `CallbackSafe`: `CallbackArgumentsAlive`; `CountsRight`: `HandlesCounted` | `RemiLifecycleTheorems` |

`ShapeAssumption` is what the code's data structures guarantee: a name occurs
once in a `std::set`, and the client sends one size for each file.
`MmapAssumption` leaves out the memory-mapped migration of filesets all of whose
files are empty, whose bulk handle has no segment. `ClientAssumption` says that
there are finitely many files, that sizes are natural numbers and that the
transfer size is not zero (`remi_fileset_set_xfer_size` refuses zero, and
`TypeCorrect` of `RemiFilesetTheorems` shows that no operation makes it zero).
`FilesetAssumption` and `TreeAssumption` say that the arguments are strings,
that there are finitely many entries, each with a name and a directory that is
there before it, that the destination has a root, and that a slash is not a dot.
`LifecycleAssumption` says that there are finitely many handles and that "no
user arguments" are none. TLC evaluates them on every run.

*The provider.*  None of the safety properties is inductive: that a `pwrite` finds
its descriptor open, say, depends on `migrate_end` not having passed its lock,
hence on the sender having waited for the answer, hence on who holds the mutex.
`IInv` ties these together.  It is `TypeOK`, and for each migration

* `ControlInv(m)`: what the place of the sender tells about each handler
  (`StartInv`, `WriteInv`, `MmapInv`, `EndInv`), who holds the mutex
  (`MutexInv`), and when the operation is in the map, its error recorded and its
  descriptors open (`OperationInv`);
* `ContentInv(m)`: a piece that was written is in its file unless another
  migration created that file again.

`RemiProviderControl` proves that `ControlInv` is inductive: a step of another
migration, or of the application, changes nothing it speaks of
(`OthersSameControl`, `ApplicationSameControl`, `SameControlInv`); then one
lemma per action, whose first step says what the action does to the state of
`m` and whose others take the parts of the invariant one by one.
`RemiProviderTheorems` adds `ContentInv` and derives the properties.

*What the provider implements.*  Each step of a migration is a step of
`FilesetMigration` or leaves its view of that migration alone: `migrate_start`
opens, the writes and the transfer land pieces, the step of `migrate_end` that
takes the lock publishes, the sender's return tells.  `IInv` does not say what
a failure means, so `RemiProviderRefinement` strengthens it by `AnswerInv`: the
code of the last answer tells how far the fileset got, `REMI_ERR_USER` comes
from the two callbacks' places only, and no write is under way once the call
has returned (a chunk that is not there yet could otherwise land after the
caller was told).  For `MigrationSession`, `IInv` is enough: it says in which
RPC the sender is, and that it has no answer yet, whenever a handler answers.

*The client.* That the requests tile the files is not inductive either: it
depends on what the variables of the loops hold between two requests. `IInv` of
`RemiClientInvariant` says so place by place. What was read and what is left to
read make up the file (`ReadInv`); the requests made so far reach exactly the
offset from which the next is read (`SequentialInv`) or, with two buffers, the
offset of the chunk that waits to be sent, which ends where the read goes on
(`PipelinedInv`). The delicate point is a chunk of size zero: an empty file is
sent as one empty chunk by the loop with ABT-IO, and no other chunk is empty,
because what is left to read is positive only after a full chunk
(`remaining_size > 0 => current_chunk_offset > 0`). What each buffer got is not
part of this; it enters by `PositionInv`, which ties the descriptor to the
offset as long as no read of the file fell short (`ShortRead`), and from which
`DataMatches` follows request by request. `OpenInv` says which files are open
while the loop opens them. `SendTiles` shows that a request that takes up where
the last one ended keeps the tiling, `FileDone` and `NextFileStep` that the next
file may begin; then there is one lemma per step of the loops.

That the client keeps `MigrationSession` needs the number of its requests, for
the contract lets `migrate_end` follow only the last of them.  `CountInv` says at
each place of the loops that the requests made and those that the bytes left of
the current file still take are as many as the sizes up to that file call for.
`TotalChunks`, which the contract counts by, is a recursive function; that it
sums up the chunks file by file is shown by induction over the number of files
(`TotalChunksAre`, `TotalsHold`), and `RequestsLeft` has the one fact about
division that the loops need: a chunk taken off leaves one request less.

*The fileset.* What the walk lists and what the sweep removes are properties of
two recursions over a tree that changes. `IInv` of `RemiFilesetInvariant` says,
for a recursion that is under way: the entries have their directories, also
those that stayed since the call began (`TreeInv`); what was found was
registered or seen (`SoundInv`); what can be found and was not lies in a
directory that some call has still to enter, or could not open (`CompleteInv`);
each call is in a directory that was registered or is visible in one
(`FrameInv`); and every entry that the sweep came by is still to be removed, or
has nothing left in it but what an obstacle holds or could not be removed
(`SweptInv`). None of this is visible in the result, and `ListingFaithful` and
`SweptClean` follow from it only when the stack is empty. `ArrivedInv` adds that
the sweep begins with every file at the destination.

That a size is exact needs more than that the walk is: no file may be found
under two names, or it would be counted twice.  `NamesInv` says that no name that
is registered or found begins with a slash, and that the walk keeps the spelling
of the names it starts from; `PlainNamesDiffer` then says that two names lead to
two entries.  `SizeInv` says what part of the sum is there at each file;
`TotalSizeFacts` that a sum over a finite set does not depend on which member is
taken first.

That a refusal has a cause is a matter of the order in which `mkdirs` and the
loop of `migrate_start` make things.  `MkdirsMakes` follows `mkdirs` slash by slash:
what stands at a slash lies in what stood at an earlier one (`LeadsHere`), so all
of the way is made unless a file blocks it, and nothing off the way is.
`OpensAll` follows the loop over the files: what an earlier file left behind can
block a later one only if one of the two lies in the other, and `OpenInv` says
that this cannot be, for both were opened at the source, where nothing lies in a
file.  `WithinRoot` carries that over from one root to the other.

Most of the proof is about paths, in `RemiFilesetPaths`.  `Canonical`, `LastSlash`
and the loops of `mkdirs` are folds or recursive functions over a path;
`UpToFacts`, `Joined`, `LeadsOn`, `ChildPath`, `VisibleChild` and `Descend` say what
a path that is put together piece by piece leads to, each by an induction over
its length.  A last lemma on each part of the invariant (`SoundStep`,
`CompleteStep`, `FrameStep`, `CleaningStep`, `NamesStep`, `SizedStep`, `OpenStep`) has
one step per action.

*The lifecycle.* Whether a provider is destroyed twice depends on the table, on
the stack of finalize callbacks and on who else used its id. `IInv` of
`RemiLifecycleInvariant` ties them together: the finalize callbacks of an
instance are those of its live providers, each once (`FinalizerInv`); providers
that share an id know of each other (`RivalInv`); one that shared it with nobody
is in the table (`EntryInv`); user arguments have at most one owner, which is
alive (`OwnerInv`), and are freed only if they have a free function (`FreeInv`);
a callback's class is still there unless the application took it away
(`RunInv`); a handle's client was made (`HandleInv`). That a provider is
destroyed once, for example, follows from `FinalizerInv`: a callback that is
gone from the stack cannot run again.

*Induction.*  The library's induction theorems take an operator as a parameter,
which the installed provers cannot instantiate.  Where a proof needs induction it
is one over a set of numbers, or of subsets of a finite set (`Induction`,
`SubsetInduction`), shown from the well-foundedness of the natural numbers, and
applied to a set that the proof writes down.

## 7. What is model-checked only

Liveness: `EveryCallReturns`, `OpsAreReclaimed`, `MigrateReturns`, `CallReturns`.
It is out of the prover's reach: TLAPS does not support fairness.

## 8. What is not modelled

* The getters and `foreach` loops of the fileset API, which change nothing; a
  callback of theirs that edits the fileset it is called for.
* The pool of a provider, to which it keeps a reference that dangles
  (`remi-server.cpp:433`): undefined whatever happens later.
* What a handler does with a provider that was destroyed under it, and what the
  release of a handle writes into a client that was freed: undefined.  That these
  states are reached is in the model (section 3, `RemiLifecycle`).
* Data races proper: the registry's map has no mutex, and the error paths of
  `migrate_write` and `migrate_end` free a mutex that a guard still holds.
  These are undefined whatever the interleaving and have no state to model.
* `mmap` failing: `MAP_FAILED` is compared with `NULL`, so neither the return of
  `REMI_ERR_ALLOCATION` nor the cleanup before it (`remi-client.cpp:262-265`,
  `remi-server.cpp:279-286`) is ever reached, and what the transport does with such
  an address is not in this repository.
* A `readdir` that fails half-way through a directory; a symbolic link to a
  directory in place of a directory (the entry `l` stands for a link to a file, a
  device and the like).
* `remi_set_device`, which does nothing; how Bedrock finds the dependencies of a
  component and when it destroys it; `mkdirs` of an empty name (a remote root of
  `/`), which reads before the start of a string.
* Modes of files, and sizes that change during a call (a file that became shorter
  is a short read); `*status`.
