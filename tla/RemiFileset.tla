----------------------------- MODULE RemiFileset -----------------------------
(***************************************************************************)
(* A fileset over a tree of directories: the operations that change it     *)
(* (remi-fileset.cpp), what a walk through it finds (listFiles), its size, *)
(* the directories made at the destination (mkdirs), and what the removal  *)
(* of the source deletes (removeRec), while another process adds and       *)
(* deletes entries and the system calls may fail.  The RPCs of a           *)
(* migration, which RemiClient and RemiProvider have in full, are one step *)
(* here.                                                                   *)
(*                                                                         *)
(* A path is the sequence of the pieces that the code concatenates: names  *)
(* and slashes.  <<"/", "r", "/", "dx">> is /r/dx when "dx" is one piece;  *)
(* <<"/", "r", "/", "d", "x">> is the same as the code makes it by putting *)
(* "x" behind "d".  The constants write every path in pieces of one kind.  *)
(***************************************************************************)
EXTENDS RemiCommon, Naturals, Sequences, FiniteSets, SequencesExt, FiniteSetsExt

CONSTANTS
  Kind,          \* Kind[e] is "dir", "reg" or "other", for each entry there may be
  Size,          \* Size[e]: what fstat says of it
  Untyped,       \* the entries that readdir gives the type DT_UNKNOWN
  InitialDisk,   \* the entries of the source's host
  InitialThere,  \* the destination's: [dirs, files]
  Dotted,        \* the pieces that begin with a dot
  Roots, RemoteRoots, FileNames, DirNames, XferSizes, ProviderIds,  \* arguments
  Lengths,       \* Lengths[k]: that of the metadata key k
  ValueLengths,  \* a metadata value is told by its length
  MaxEdits,      \* bounds: operations on the fileset, calls, and entries that
  MaxCalls,      \* another process adds or deletes, system calls that fail
  MaxChanges,
  MaxFailures

Paths == Roots \cup RemoteRoots \cup FileNames \cup DirNames \cup DOMAIN Kind

ASSUME FilesetAssumption ==
  /\ Kind \in [DOMAIN Kind -> {"dir", "reg", "other"}]
  /\ Size \in [DOMAIN Kind -> Nat] /\ Untyped \subseteq DOMAIN Kind
  /\ \A p \in Paths : p \in Seq(STRING)
  /\ <<>> \in InitialDisk /\ InitialDisk \subseteq DOMAIN Kind /\ Kind[<<>>] = "dir"
  /\ XferSizes \subseteq Nat /\ ValueLengths \subseteq Nat
  /\ Lengths \in [DOMAIN Lengths -> Nat]
  /\ MaxEdits \in Nat /\ MaxCalls \in Nat /\ MaxChanges \in Nat /\ MaxFailures \in Nat

VARIABLES
  live,           \* FALSE: the fileset is REMI_FILESET_NULL
  m_root, m_files, m_directories, m_metadata, m_xfer_size, m_provider_id,
  disk,           \* the entries of the source's host
  there,          \* the directories and files of the destination's
  pc,             \* "idle", "walk", "size", "open" or "sweep"
  task,           \* what the walk is for: "size", "full size", "copy", "move"
  remote_root,
  frames,         \* the directories being read: see Frame
  files,          \* the set of names that the walk has found
  size, ret,
  seen, steady,   \* history: the entries that were there at some moment, and
                  \* at every moment, since the call began, REMI's doings aside
  unlisted,       \* history: the directories that the call could not open to
  unread,         \* list them, or to remove what is in them, and
  unremoved,      \* the entries that it could not remove
  edits, calls, changes, failures

memberVars == <<m_root, m_files, m_directories, m_metadata, m_xfer_size, m_provider_id>>
filesetVars == <<live, memberVars>>
callVars  == <<pc, task, remote_root, frames, files, size, calls>>
worldVars == <<disk, there, seen, steady, changes>>
faultVars == <<unlisted, unread, unremoved, failures>>
vars == <<filesetVars, callVars, worldVars, faultVars, ret, edits>>

-----------------------------------------------------------------------------
(* Paths                                                                   *)

Slash == "/"

EndsInSlash(p) == p # <<>> /\ Last(p) = Slash

\* The entry a path leads to: repeated and final slashes do not count.
Canonical(p) ==
  LET upTo[k \in 0 .. Len(p)] ==
        IF k = 0 THEN <<>>
        ELSE IF p[k] = Slash /\ (k = Len(p) \/ p[k + 1] = Slash) THEN upTo[k - 1]
        ELSE Append(upTo[k - 1], p[k])
  IN  upTo[Len(p)]

LastSlash(p) == SelectLastInSeq(p, LAMBDA t : t = Slash)

Parent(e) == SubSeq(e, 1, LastSlash(e) - 1)

Base(e) == SubSeq(e, LastSlash(e) + 1, Len(e))

\* Entries have a directory, which is there before them, and a name.
ASSUME TreeAssumption ==
  /\ IsFiniteSet(DOMAIN Kind)
  /\ Slash \in STRING \ Dotted
  /\ \A e \in DOMAIN Kind \ {<<>>} : LastSlash(e) # 0 /\ ~EndsInSlash(e)
  /\ \A e \in InitialDisk \ {<<>>} : Parent(e) \in InitialDisk /\ Kind[Parent(e)] = "dir"
  /\ InitialThere \in [dirs : SUBSET Seq(STRING), files : SUBSET Seq(STRING)]
  /\ InitialThere.dirs \cap InitialThere.files = {} /\ <<>> \in InitialThere.dirs

\* Variant: nothing is left out.
HiddenNever(e) == FALSE

\* if(f->d_name[0] == '.') continue
Hidden(e) == Base(e)[1] \in Dotted

\* Variant: the name is kept as given.
AsGiven(p) == p

\* while(filename[i] == '/') i += 1
Strip(p) ==
  LET first == SelectInSeq(p, LAMBDA t : t # Slash)
  IN  IF first = 0 THEN <<>> ELSE SubSeq(p, first, Len(p))

\* remi_fileset_create and remi_fileset_migrate see to a final slash.
WithSlash(root) == IF EndsInSlash(root) THEN root ELSE Append(root, Slash)

-----------------------------------------------------------------------------
(* The file system                                                         *)

IsDir(p) == Canonical(p) \in disk /\ Kind[Canonical(p)] = "dir"

\* A final slash insists on a directory.
Exists(p) == Canonical(p) \in disk /\ (EndsInSlash(p) => IsDir(p))

\* open() without O_CREAT follows a link and opens a device or a directory.
CanOpen(p) == Exists(p)

\* What d_type tells.  Some file systems do not tell.
Type == [e \in DOMAIN Kind |-> IF e \in Untyped THEN "unknown" ELSE Kind[e]]

\* The directory and the name of each entry there may be.
ParentOf == [e \in DOMAIN Kind \ {<<>>} |-> Parent(e)]
BaseOf == [e \in DOMAIN Kind \ {<<>>} |-> Base(e)]

Children(e) == {x \in disk \ {<<>>} : ParentOf[x] = e}

\* The names of some type that a loop of readdir finds in a directory.
Entries(p, type) ==
  IF IsDir(p) THEN {BaseOf[x] : x \in {y \in Children(Canonical(p)) :
                                        ~Hidden(y) /\ Type[y] = type}}
              ELSE {}

\* remove(): unlinks, or deletes a directory that is empty.
Unlink(p) ==
  disk' = IF Exists(p) /\ Children(Canonical(p)) = {} THEN disk \ {Canonical(p)} ELSE disk

\* One mkdir at the destination: without effect where the parent is missing or
\* the name is taken.
Mkdir(tree, e) ==
  IF e \notin tree.dirs \cup tree.files /\ Parent(e) \in tree.dirs
    THEN [tree EXCEPT !.dirs = @ \cup {e}] ELSE tree

\* Variant: the last directory is not made.
MkdirsAbove(tree, dir) ==
  FoldLeft(LAMBDA t, k : IF dir[k] = Slash THEN Mkdir(t, Canonical(SubSeq(dir, 1, k - 1))) ELSE t,
           tree, [k \in 1 .. Len(dir) |-> k])

\* The directory at each slash after the first character, then the whole.
Mkdirs(tree, dir) ==
  Mkdir(FoldLeft(LAMBDA t, k : IF k > 1 /\ dir[k] = Slash
                                 THEN Mkdir(t, Canonical(SubSeq(dir, 1, k - 1))) ELSE t,
                 tree, [k \in 1 .. Len(dir) |-> k]),
        Canonical(dir))

\* The loop of migrate_start over the files: directories, then the file itself;
\* it stops at the first one that cannot be opened.
OpenOne(state, p) ==
  LET tree == Mkdirs(state.tree, Parent(p))
      ok   == Parent(Canonical(p)) \in tree.dirs /\ Canonical(p) \notin tree.dirs
  IN  IF ~state.ok THEN state
      ELSE [ok |-> ok,
            tree |-> IF ok THEN [tree EXCEPT !.files = @ \cup {Canonical(p)}] ELSE tree]

OpenAll(paths) == FoldLeft(OpenOne, [ok |-> TRUE, tree |-> there], SetToSeq(paths))

\* A system call fails although there is what it asks for: descriptors or memory
\* have run out, a permission is missing, a device is busy or broken.
Fail == failures < MaxFailures /\ failures' = failures + 1

-----------------------------------------------------------------------------
(* Operations on the fileset                                               *)

DefaultXferSize == 1048576

Init ==
  /\ live = FALSE
  /\ m_root = <<>> /\ m_files = {} /\ m_directories = {} /\ m_metadata = <<>>
  /\ m_xfer_size = DefaultXferSize /\ m_provider_id \in ProviderIds
  /\ disk = InitialDisk /\ there = InitialThere
  /\ pc = "idle" /\ task = "size" /\ remote_root = <<>> /\ frames = <<>> /\ files = {}
  /\ size = 0 /\ ret = REMI_SUCCESS
  /\ seen = {} /\ steady = {}
  /\ unlisted = {} /\ unread = {} /\ unremoved = {}
  /\ edits = 0 /\ calls = 0 /\ changes = 0 /\ failures = 0

Edit ==
  /\ pc = "idle" /\ edits < MaxEdits
  /\ edits' = edits + 1
  /\ UNCHANGED <<callVars, worldVars, faultVars>>

\* The provider id is not set: it is whatever was in memory.
Create(root) ==
  /\ Edit /\ ~live
  /\ IF root[1] = Slash
       THEN /\ live' = TRUE /\ ret' = REMI_SUCCESS
            /\ m_root' = WithSlash(root)
            /\ m_provider_id' \in ProviderIds
            /\ m_files' = {} /\ m_directories' = {} /\ m_metadata' = <<>>
            /\ m_xfer_size' = DefaultXferSize
       ELSE ret' = REMI_ERR_INVALID_ARG /\ UNCHANGED filesetVars

Free ==
  /\ Edit /\ live
  /\ live' = FALSE /\ ret' = REMI_SUCCESS
  /\ UNCHANGED memberVars

\* Every operation but create and free refuses REMI_FILESET_NULL.
NullFileset ==
  /\ Edit /\ ~live
  /\ ret' = REMI_ERR_INVALID_ARG
  /\ UNCHANGED filesetVars

\* Neither is the root absolute nor does it end in a slash, unless the caller
\* sees to it.
SetRoot(root) ==
  /\ Edit /\ live
  /\ m_root' = root /\ ret' = REMI_SUCCESS
  /\ UNCHANGED <<live, m_files, m_directories, m_metadata, m_xfer_size, m_provider_id>>

\* Variant: any size will do.
SetAnyXferSize(n) ==
  /\ Edit /\ live
  /\ m_xfer_size' = n /\ ret' = REMI_SUCCESS
  /\ UNCHANGED <<live, m_root, m_files, m_directories, m_metadata, m_provider_id>>

SetXferSize(n) ==
  /\ Edit /\ live
  /\ IF n = 0 THEN ret' = REMI_ERR_INVALID_ARG /\ UNCHANGED m_xfer_size
              ELSE ret' = REMI_SUCCESS /\ m_xfer_size' = n
  /\ UNCHANGED <<live, m_root, m_files, m_directories, m_metadata, m_provider_id>>

SetProviderId(id) ==
  /\ Edit /\ live
  /\ m_provider_id' = id /\ ret' = REMI_SUCCESS
  /\ UNCHANGED <<live, m_root, m_files, m_directories, m_metadata, m_xfer_size>>

RegisterFile(name) ==
  /\ Edit /\ live
  /\ m_files' = m_files \cup {Strip(name)} /\ ret' = REMI_SUCCESS
  /\ UNCHANGED <<live, m_root, m_directories, m_metadata, m_xfer_size, m_provider_id>>

DeregisterFile(name) ==
  /\ Edit /\ live
  /\ ret' = IF Strip(name) \in m_files THEN REMI_SUCCESS ELSE REMI_ERR_UNKNOWN_FILE
  /\ m_files' = m_files \ {Strip(name)}
  /\ UNCHANGED <<live, m_root, m_directories, m_metadata, m_xfer_size, m_provider_id>>

RegisterDirectory(name) ==
  /\ Edit /\ live
  /\ m_directories' = m_directories \cup {Strip(name)} /\ ret' = REMI_SUCCESS
  /\ UNCHANGED <<live, m_root, m_files, m_metadata, m_xfer_size, m_provider_id>>

DeregisterDirectory(name) ==
  /\ Edit /\ live
  /\ ret' = IF Strip(name) \in m_directories THEN REMI_SUCCESS ELSE REMI_ERR_UNKNOWN_FILE
  /\ m_directories' = m_directories \ {Strip(name)}
  /\ UNCHANGED <<live, m_root, m_files, m_metadata, m_xfer_size, m_provider_id>>

\* A value that is there for the key is replaced.
RegisterMetadata(key, length) ==
  /\ Edit /\ live
  /\ m_metadata' = [k \in DOMAIN m_metadata \cup {key} |->
                      IF k = key THEN length ELSE m_metadata[k]]
  /\ ret' = REMI_SUCCESS
  /\ UNCHANGED <<live, m_root, m_files, m_directories, m_xfer_size, m_provider_id>>

DeregisterMetadata(key) ==
  /\ Edit /\ live
  /\ ret' = IF key \in DOMAIN m_metadata THEN REMI_SUCCESS ELSE REMI_ERR_UNKNOWN_META
  /\ m_metadata' = [k \in DOMAIN m_metadata \ {key} |-> m_metadata[k]]
  /\ UNCHANGED <<live, m_root, m_files, m_directories, m_xfer_size, m_provider_id>>

Operation ==
  \/ Free \/ NullFileset
  \/ \E root \in Roots : Create(root) \/ SetRoot(root)
  \/ \E n \in XferSizes : SetXferSize(n)
  \/ \E id \in ProviderIds : SetProviderId(id)
  \/ \E name \in FileNames : RegisterFile(name) \/ DeregisterFile(name)
  \/ \E name \in DirNames : RegisterDirectory(name) \/ DeregisterDirectory(name)
  \/ \E key \in DOMAIN Lengths :
       DeregisterMetadata(key) \/ \E n \in ValueLengths : RegisterMetadata(key, n)

-----------------------------------------------------------------------------
(* The walk: remi_fileset_walkthrough and listFiles                        *)

\* One call of the recursion: the path it was called with and what readdir
\* still has to give it, as paths.  The lowest frame holds what the caller loops
\* over.  The frames are a stack; a directory is read as a whole when opened,
\* and its entries come in any order.
Frame(path, dirs, others) == [path |-> path, dirs |-> dirs, others |-> others]

top == IF frames = <<>> THEN Frame(<<>>, {}, {}) ELSE Last(frames)

PopFrom(field, p) == [frames EXCEPT ![Len(frames)][field] = @ \ {p}]

Under(path, names) == {path \o n : n \in names}

\* A directory that is entered gets a slash.
AsDirs(paths) == {Append(p, Slash) : p \in paths}

Finished == Len(frames) = 1 /\ top.dirs = {} /\ top.others = {}

StartWalk(t) ==
  /\ pc = "idle" /\ live /\ calls < MaxCalls
  /\ task' = t /\ calls' = calls + 1
  /\ pc' = "walk"
  /\ files' = m_files
  /\ frames' = <<Frame(<<>>, m_directories, {})>>
  /\ seen' = disk /\ steady' = disk
  /\ unlisted' = {} /\ unread' = {} /\ unremoved' = {}
  /\ UNCHANGED <<filesetVars, remote_root, size, disk, there, changes, failures, ret, edits>>

\* Variant: whatever is not a directory is listed.
NotDirectories == {"reg", "other"}

ListedTypes == {"reg"}

\* Variant: subdirectories are not entered.
ListFlat(p) ==
  LET dir == m_root \o <<Slash>> \o p IN
    /\ pc = "walk" /\ p \in top.dirs
    /\ files' = files \cup UNION {Under(p, Entries(dir, k)) : k \in {"reg"}}
    /\ frames' = Append(PopFrom("dirs", p), Frame(p, {}, {}))
    /\ UNCHANGED <<filesetVars, pc, task, remote_root, size, calls, worldVars, faultVars, ret, edits>>

\* listFiles(root, p): opens root + "/" + p, but names what it finds p + name.
ListDirectory(p) ==
  LET dir == m_root \o <<Slash>> \o p IN
    /\ pc = "walk" /\ p \in top.dirs
    /\ files' = files \cup UNION {Under(p, Entries(dir, k)) : k \in ListedTypes}
    /\ frames' = Append(PopFrom("dirs", p), Frame(p, AsDirs(Under(p, Entries(dir, "dir"))), {}))
    /\ UNCHANGED <<filesetVars, pc, task, remote_root, size, calls, worldVars, faultVars, ret, edits>>

\* opendir fails: nothing is found, and nobody is told.
ListNothing(p) ==
  LET dir == m_root \o <<Slash>> \o p IN
    /\ pc = "walk" /\ p \in top.dirs
    /\ IsDir(dir) /\ Fail
    /\ unlisted' = unlisted \cup {Canonical(dir)}
    /\ frames' = Append(PopFrom("dirs", p), Frame(p, {}, {}))
    /\ UNCHANGED <<filesetVars, pc, task, remote_root, files, size, calls, worldVars>>
    /\ UNCHANGED <<unread, unremoved, ret, edits>>

\* The loop of readdir of the innermost call is over.
ListedDirectory ==
  /\ pc = "walk" /\ Len(frames) > 1 /\ top.dirs = {}
  /\ frames' = Front(frames)
  /\ UNCHANGED <<filesetVars, pc, task, remote_root, files, size, calls, worldVars, faultVars, ret, edits>>

\* Variant: tries again until it works.
RetryOnError(code) ==
  /\ ret' = code
  /\ pc' = IF code = REMI_SUCCESS THEN "idle" ELSE "walk"
  /\ frames' = <<Frame(<<>>, m_directories, {})>> /\ files' = m_files
  /\ UNCHANGED <<seen, steady>>

ReturnWith(code) ==
  /\ pc' = "idle" /\ ret' = code
  /\ frames' = <<>> /\ files' = {} /\ seen' = {} /\ steady' = {}

-----------------------------------------------------------------------------
(* remi_fileset_compute_size                                               *)

StartSizes ==
  /\ pc = "walk" /\ Finished /\ task \in {"size", "full size"}
  /\ pc' = "size" /\ size' = 0
  /\ frames' = <<Frame(<<>>, {}, Under(m_root, files))>>
  /\ UNCHANGED <<filesetVars, task, remote_root, files, calls, worldVars, faultVars, ret, edits>>

\* add_file_size: after a failure, of open or of fstat, the rest is skipped.
AddFileSize(p) ==
  /\ pc = "size" /\ p \in top.others
  /\ \/ /\ CanOpen(p)
        /\ size' = size + Size[Canonical(p)]
        /\ frames' = PopFrom("others", p)
        /\ UNCHANGED <<pc, files, seen, steady, ret, failures>>
     \/ /\ IF CanOpen(p) THEN Fail ELSE UNCHANGED failures
        /\ ReturnWith(REMI_ERR_IO)
        /\ UNCHANGED size
  /\ UNCHANGED <<filesetVars, task, remote_root, calls, disk, there, changes, edits>>
  /\ UNCHANGED <<unlisted, unread, unremoved>>

\* add_metadata_size: strlen(key) + strlen(value) + 2
MetadataSize ==
  MapThenSumSet(LAMBDA k : Lengths[k] + m_metadata[k] + 2, DOMAIN m_metadata)

SizesDone ==
  /\ pc = "size" /\ Finished
  /\ size' = IF task = "full size" THEN size + MetadataSize ELSE size
  /\ ReturnWith(REMI_SUCCESS)
  /\ UNCHANGED <<filesetVars, task, remote_root, calls, disk, there, changes, faultVars, edits>>

-----------------------------------------------------------------------------
(* The migration                                                           *)

\* The provider refused: the fileset is left as it was sent.
KeptAsSent(root) ==
  /\ m_root' = root /\ m_files' = files /\ m_directories' = {}
  /\ UNCHANGED <<live, m_metadata, m_xfer_size, m_provider_id>>

SourcePaths == Under(m_root, files)

\* The files are opened and fstat tells their sizes, or one of the calls fails.
OpenSource ==
  /\ pc = "walk" /\ Finished /\ task \in {"copy", "move"}
  /\ \/ /\ \A p \in SourcePaths : CanOpen(p)
        /\ pc' = "open"
        /\ UNCHANGED <<frames, files, seen, steady, ret, failures>>
     \/ /\ \E p \in SourcePaths : ~CanOpen(p)
        /\ ReturnWith(REMI_ERR_UNKNOWN_FILE)
        /\ UNCHANGED failures
     \/ /\ SourcePaths # {} /\ Fail
        /\ \E code \in {REMI_ERR_UNKNOWN_FILE, REMI_ERR_IO} : ReturnWith(code)
  /\ UNCHANGED <<filesetVars, task, remote_root, size, calls, disk, there, changes, edits>>
  /\ UNCHANGED <<unlisted, unread, unremoved>>

\* What the loop has made when a call on the way of p fails, and with it open():
\* the files before p, in any order, and directories up to some slash.
Interrupted(paths, p) ==
  {Mkdirs(OpenAll(made).tree, SubSeq(p, 1, k)) :
     made \in {q \in SUBSET (paths \ {p}) : OpenAll(q).ok},
     k \in {j \in 0 .. Len(p) - 1 : j = 0 \/ p[j + 1] = Slash}}

\* migrate_start refuses: the class or a callback, a target that is there, or
\* one that cannot be opened, after directories and files were made for others.
Refused(given) ==
  LET root == WithSlash(given)
      targets == Under(root, files)
      present == {Canonical(p) : p \in targets} \cap (there.dirs \cup there.files) # {}
  IN /\ pc = "open"
     /\ \/ /\ ReturnWith(REMI_ERR_USER)
           /\ UNCHANGED there
        \/ /\ present
           /\ ReturnWith(REMI_ERR_FILE_EXISTS)
           /\ UNCHANGED there
        \/ /\ ~present /\ ~OpenAll(targets).ok
           /\ ReturnWith(REMI_ERR_IO)
           /\ there' = OpenAll(targets).tree
     /\ remote_root' = root
     /\ KeptAsSent(root)
     /\ UNCHANGED <<task, size, calls, disk, changes, faultVars, edits>>

\* Or mkdir or open() fails at the destination.
RefusedOnFailure(given) ==
  LET root == WithSlash(given)
      targets == Under(root, files)
  IN /\ pc = "open" /\ Fail
     /\ {Canonical(p) : p \in targets} \cap (there.dirs \cup there.files) = {}
     /\ \E p \in targets : there' \in Interrupted(targets, p)
     /\ ReturnWith(REMI_ERR_IO)
     /\ remote_root' = root
     /\ KeptAsSent(root)
     /\ UNCHANGED <<task, size, calls, disk, changes, unlisted, unread, unremoved, edits>>

\* The files are made at the destination; then the transfer succeeds or fails.
Transfer(given) ==
  LET root == WithSlash(given)
      targets == Under(root, files)
  IN /\ pc = "open"
     /\ {Canonical(p) : p \in targets} \cap (there.dirs \cup there.files) = {}
     /\ OpenAll(targets).ok
     /\ there' = OpenAll(targets).tree
     /\ remote_root' = root
     /\ \/ /\ task = "move"
           /\ pc' = "sweep"
           /\ frames' = <<Frame(<<>>, Under(m_root, m_directories), SourcePaths)>>
           /\ UNCHANGED <<files, seen, steady, ret>>
        \/ /\ task = "copy"
           /\ ReturnWith(REMI_SUCCESS)
        \/ ReturnWith(REMI_ERR_MIGRATION)
     /\ UNCHANGED <<filesetVars, task, size, calls, disk, changes, faultVars, edits>>

-----------------------------------------------------------------------------
(* The removal of the source: the files that were sent, then removeRec     *)

\* Whatever readdir does not say to be a directory.
SweptTypes == {"reg", "other", "unknown"}

\* Nobody looks at the result of remove().
TryRemove(p) ==
  \/ Unlink(p) /\ UNCHANGED <<unremoved, failures>>
  \/ /\ Exists(p) /\ Children(Canonical(p)) = {} /\ Fail
     /\ unremoved' = unremoved \cup {Canonical(p)}
     /\ UNCHANGED disk

RemoveFile(p) ==
  /\ pc = "sweep" /\ p \in top.others
  /\ TryRemove(p)
  /\ frames' = PopFrom("others", p)
  /\ UNCHANGED <<filesetVars, pc, task, remote_root, files, size, calls>>
  /\ UNCHANGED <<there, seen, steady, changes, unlisted, unread, ret, edits>>

\* removeRec(p): opens p and goes on with p + name.
SweepDirectory(p) ==
  /\ pc = "sweep" /\ p \in top.dirs
  /\ Len(frames) = 1 => top.others = {}
  /\ frames' = Append(PopFrom("dirs", p),
                      Frame(p, AsDirs(Under(p, Entries(p, "dir"))),
                            UNION {Under(p, Entries(p, k)) : k \in SweptTypes}))
  /\ UNCHANGED <<filesetVars, pc, task, remote_root, files, size, calls, worldVars, faultVars, ret, edits>>

\* opendir fails: p itself is removed all the same, if it is empty.
SweepNothing(p) ==
  /\ pc = "sweep" /\ p \in top.dirs
  /\ Len(frames) = 1 => top.others = {}
  /\ IsDir(p) /\ Fail
  /\ unread' = unread \cup {Canonical(p)}
  /\ frames' = Append(PopFrom("dirs", p), Frame(p, {}, {}))
  /\ UNCHANGED <<filesetVars, pc, task, remote_root, files, size, calls, worldVars>>
  /\ UNCHANGED <<unlisted, unremoved, ret, edits>>

\* Variant: what is given is not removed itself.
LeaveDirectory(p) == UNCHANGED <<disk, unremoved, failures>>

RemoveDirectory(p) == TryRemove(p)

SweptDirectory ==
  /\ pc = "sweep" /\ Len(frames) > 1 /\ top.dirs = {} /\ top.others = {}
  /\ RemoveDirectory(top.path)
  /\ frames' = Front(frames)
  /\ UNCHANGED <<filesetVars, pc, task, remote_root, files, size, calls>>
  /\ UNCHANGED <<there, seen, steady, changes, unlisted, unread, ret, edits>>

MoveDone ==
  /\ pc = "sweep" /\ Finished
  /\ ReturnWith(REMI_SUCCESS)
  /\ UNCHANGED <<filesetVars, task, remote_root, size, calls, disk, there, changes, faultVars, edits>>

-----------------------------------------------------------------------------
(* Another process on the source's host                                    *)

Appear(e) ==
  /\ changes < MaxChanges
  /\ e \notin disk /\ ParentOf[e] \in disk /\ Kind[ParentOf[e]] = "dir"
  /\ disk' = disk \cup {e}
  /\ seen' = IF pc = "idle" THEN {} ELSE seen \cup {e}
  /\ steady' = steady \ {e}
  /\ changes' = changes + 1
  /\ UNCHANGED <<filesetVars, callVars, there, faultVars, ret, edits>>

Vanish(e) ==
  /\ changes < MaxChanges
  /\ e \in disk /\ Children(e) = {}
  /\ disk' = disk \ {e} /\ steady' = steady \ {e}
  /\ changes' = changes + 1
  /\ UNCHANGED <<filesetVars, callVars, there, seen, faultVars, ret, edits>>

-----------------------------------------------------------------------------

Call ==
  \/ \E p \in top.dirs : ListDirectory(p) \/ ListNothing(p) \/ SweepDirectory(p) \/ SweepNothing(p)
  \/ \E p \in top.others : AddFileSize(p) \/ RemoveFile(p)
  \/ ListedDirectory \/ StartSizes \/ SizesDone
  \/ OpenSource \/ SweptDirectory \/ MoveDone
  \/ \E root \in RemoteRoots : Refused(root) \/ RefusedOnFailure(root) \/ Transfer(root)

Others == \E e \in DOMAIN Kind \ {<<>>} : Appear(e) \/ Vanish(e)

Terminated == pc = "idle" /\ (calls = MaxCalls \/ edits = MaxEdits) /\ UNCHANGED vars

Next ==
  \/ Operation
  \/ \E t \in {"size", "full size", "copy", "move"} : StartWalk(t)
  \/ Call
  \/ Others
  \/ Terminated

Spec == Init /\ [][Next]_vars

\* The caller's thread runs.
FairSpec == Spec /\ WF_vars(Call)

-----------------------------------------------------------------------------
(* Properties                                                              *)

\* Each variable has its type.  The transfer size is never zero, on which the
\* loops of remi_fileset_migrate rely (ClientAssumption of RemiClient).
TypeOK ==
  /\ live \in BOOLEAN
  /\ m_root \in Seq(STRING)
  /\ \A n \in m_files \cup m_directories \cup files : n \in Seq(STRING)
  /\ DOMAIN m_metadata \subseteq DOMAIN Lengths
  /\ \A k \in DOMAIN m_metadata : m_metadata[k] \in ValueLengths
  /\ m_xfer_size \in Nat \ {0} /\ m_provider_id \in ProviderIds
  /\ disk \subseteq DOMAIN Kind /\ seen \subseteq DOMAIN Kind /\ steady \subseteq seen
  /\ DOMAIN there = {"dirs", "files"} /\ there.dirs \cap there.files = {}
  /\ pc \in {"idle", "walk", "size", "open", "sweep"}
  /\ task \in {"size", "full size", "copy", "move"}
  /\ remote_root \in Seq(STRING)
  /\ \A k \in DOMAIN frames : DOMAIN frames[k] = {"path", "dirs", "others"}
  /\ size \in Nat
  /\ unlisted \cup unread \cup unremoved \subseteq DOMAIN Kind
  /\ edits \in 0 .. MaxEdits /\ calls \in 0 .. MaxCalls
  /\ changes \in 0 .. MaxChanges /\ failures \in 0 .. MaxFailures

\* The names are such that root + name leads to what is meant.  The code sees
\* to it in neither remi_fileset_set_root nor remi_fileset_register_directory.
WellNamed ==
  EndsInSlash(m_root) /\ \A d \in m_directories : d = <<>> \/ EndsInSlash(d)

\* The names are spelled plainly: no doubled slash, and a final one for directories
\* only.  The code takes two spellings of a name for two names.
PlainNames ==
  /\ \A n \in m_files : Canonical(n) = n
  /\ \A d \in m_directories : d = <<>> \/ d = Append(Canonical(d), Slash)

\* Nobody else touched the tree while the call was under way.
Quiet == seen = steady

Named(names) == {Canonical(m_root \o n) : n \in names}

Within(e, d) == IsStrictPrefix(Append(d, Slash), e)

\* A directory that readdir does not say to be one is not entered.
Opaque == {e \in Untyped : Kind[e] = "dir"}

\* Below a directory, with no name that begins with a dot on the way, and no
\* directory that is not entered.
Visible(e, d) ==
  /\ Within(e, d)
  /\ \A k \in Len(d) + 2 .. Len(e) : /\ e[k - 1] = Slash => e[k] \notin Dotted
                                     /\ e[k] = Slash => SubSeq(e, 1, k - 1) \notin Untyped

Contents(entries) == {e \in entries : \E d \in Named(m_directories) : Visible(e, d)}

Regular(entries) == {e \in entries : Kind[e] = "reg"}

\* What listFiles can find: the regular files that readdir says to be some.
Listable(entries) == {e \in Contents(entries) : Type[e] = "reg"}

\* Somewhere below a directory that could not be opened to list it.
Missed(e) == \E d \in unlisted : Within(e, d)

\* What the walk finds are the files registered; every regular file that was in
\* a registered directory all the time, but for files and directories whose name
\* begins with a dot or whose type readdir does not tell, and for what lies below
\* a directory that could not be opened; and none that never was there, however
\* the directories overlap and the tree changes meanwhile.
ListingFaithful ==
  pc = "walk" /\ Finished /\ WellNamed =>
    /\ \A e \in Listable(steady) : e \in Named(files) \/ Missed(e)
    /\ Named(files) \subseteq Named(m_files) \cup Listable(seen)

TotalSize(entries) == MapThenSumSet(LAMBDA e : Size[e], entries)

\* compute_size counts each file that can be found once, although it may have
\* been registered, with and without a first slash, and also lie in several
\* registered directories, provided that each directory could be opened: it
\* reports success with less when one could not.
SizeCountsEachOnce ==
  [][pc = "size" /\ pc' = "idle" /\ ret' = REMI_SUCCESS
       /\ Quiet /\ unlisted = {} /\ WellNamed /\ PlainNames =>
       size' = TotalSize(Named(m_files) \cup Listable(steady))
               + IF task = "full size" THEN MetadataSize ELSE 0]_vars

\* Unless a system call fails for a reason of its own, migrate_start can open a
\* file at the destination except where a file stands in place of one of its
\* directories: mkdirs makes all that are missing.  A directory registered as a
\* file is another matter: it is opened here, and made as a file there.
RefusedForCause ==
  [][pc = "open" /\ ret' = REMI_ERR_IO /\ pc' = "idle" /\ failures' = failures
       /\ EndsInSlash(m_root) /\ (\A p \in SourcePaths : Kind[Canonical(p)] # "dir") =>
       \E n \in files, f \in there.files : Within(Canonical(remote_root' \o n), f)]_vars

\* What REMI itself removes, now.
Doomed == IF changes' = changes THEN disk \ disk' ELSE {}

\* REMI removes nothing but the files and directories that were registered, and
\* what readdir shows in these directories.
RemovalConfined ==
  [][WellNamed => Doomed \subseteq Named(m_files \cup m_directories) \cup Contents(disk)]_vars

\* A regular file that was there when the call began is removed only if it was
\* sent, and has arrived under its name; or if listFiles passed it over, for want
\* of a type or because a directory could not be opened, where removeRec does not.
NothingUnseenLost ==
  [][WellNamed =>
       \A e \in Regular(Doomed \cap steady) :
         \/ \E n \in files : Canonical(m_root \o n) = e
                             /\ Canonical(remote_root \o n) \in there.files
         \/ e \in Untyped \/ Missed(e)]_vars

\* What was not removed because a system call failed.
Stuck == unremoved \cup {e \in seen : \E d \in unread : e = d \/ Within(e, d)}

\* What keeps the directories around it from being removed: what removeRec does
\* not look at, that is, entries with a dot and what is in a directory that it
\* does not take for one; and what it failed to remove.  A directory that was
\* registered, or that readdir does not say to be one, may be removed later.
Obstacles ==
  {h \in disk \cup (seen \cap Named(m_directories)) : h \notin Contents(seen)}
    \cup (seen \cap Opaque) \cup Stuck

\* After the move nothing is left of the registered directories but what removeRec
\* does not look at, what it failed to remove, and the directories around that, if
\* nobody else interfered.
SweptClean ==
  pc = "sweep" /\ Finished /\ Quiet /\ WellNamed =>
    \A e \in disk :
      e \in Contents(disk) \ Opaque \/ (e \in Named(m_directories) /\ Kind[e] = "dir") =>
        e \in Stuck \/ \E h \in Obstacles : Within(h, e)

\* Every call returns: the two recursions end.  (The open of a FIFO waits for a
\* writer; one is taken to come.)
CallReturns == pc # "idle" ~> pc = "idle"

-----------------------------------------------------------------------------
(* Claims of the documentation that the code does not meet                 *)

\* "When migrating the fileset, all the files and subdirectories in this
\* directory will be migrated": the regular files below a registered directory
\* that stay there are listed by their names, if no system call fails.
DirectoriesMigrateWhole ==
  pc = "sweep" /\ Quiet /\ unlisted = {} =>
    \A e \in Regular(steady) :
      (\E d \in Named(m_directories) : Within(e, d)) => e \in Named(files)

\* "All the files of the local fileset will be transfered": at least those that
\* the move then destroys.
RemovedOnlyIfSent ==
  [][WellNamed => Regular(Doomed \cap steady) \subseteq Named(files)]_vars
=============================================================================
