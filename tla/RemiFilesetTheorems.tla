------------------------- MODULE RemiFilesetTheorems ------------------------
(***************************************************************************)
(* Proofs about RemiFileset, for every tree, fileset and interference.     *)
(***************************************************************************)
EXTENDS RemiFilesetPaths

-----------------------------------------------------------------------------
(* What readdir finds                                                      *)

\* What a loop of readdir finds: the children of some type that are not hidden.
Found(p, kind) ==
  {x \in disk \ {<<>>} : /\ IsDir(p) /\ Parent(x) = Canonical(p)
                         /\ ~Hidden(x) /\ Type[x] = kind}

LEMMA TypeIs ==
  ASSUME NEW x \in DOMAIN Kind
  PROVE  /\ Type[x] = "dir" <=> Kind[x] = "dir" /\ x \notin Untyped
         /\ Type[x] = "reg" <=> Kind[x] = "reg" /\ x \notin Untyped
         /\ Type[x] \in {"dir", "reg", "other", "unknown"}
  BY FilesetAssumption DEF Type

LEMMA EntriesAre ==
  ASSUME disk \subseteq DOMAIN Kind, NEW p, NEW kind
  PROVE  Entries(p, kind) = {Base(x) : x \in Found(p, kind)}
  <1>1. \A x \in disk \ {<<>>} : ParentOf[x] = Parent(x) /\ BaseOf[x] = Base(x)
    BY DEF ParentOf, BaseOf
  <1> HIDE DEF ParentOf, BaseOf
  <1>2. QED
    BY <1>1 DEF Entries, Children, Found

LEMMA EntriesType ==
  ASSUME disk \subseteq DOMAIN Kind, NEW p, NEW kind
  PROVE  Entries(p, kind) \in SUBSET Text /\ IsFiniteSet(Entries(p, kind))
  <1>1. Found(p, kind) \in SUBSET (DOMAIN Kind \ {<<>>})
    BY DEF Found
  <1>2. \A x \in Found(p, kind) : Base(x) \in Text
    BY <1>1, EntryParts
  <1>3. IsFiniteSet(Found(p, kind))
    BY <1>1, TreeAssumption, FS_Subset
  <1> DEFINE f == [x \in Found(p, kind) |-> Base(x)]
  <1>4. IsFiniteSet({f[x] : x \in Found(p, kind)})
    <2> HIDE DEF f
    <2>1. QED
      BY <1>3, ImageFinite
  <1>5. QED
    BY <1>2, <1>4, EntriesAre

-----------------------------------------------------------------------------
(* The stack of directories                                                *)

FrameType == frames \in Seq(FrameRecord)

LEMMA TopIs ==
  ASSUME FrameType, frames # <<>>
  PROVE  /\ Len(frames) \in Nat \ {0} /\ DOMAIN frames = 1 .. Len(frames)
         /\ \A k \in 1 .. Len(frames) : frames[k] \in FrameRecord
         /\ top = frames[Len(frames)] /\ top \in FrameRecord
  <1>1. Len(frames) \in Nat \ {0} /\ DOMAIN frames = 1 .. Len(frames)
    BY EmptySeq DEF FrameType
  <1>2. \A k \in 1 .. Len(frames) : frames[k] \in FrameRecord
    BY DEF FrameType
  <1>3. top = frames[Len(frames)]
    BY DEF top, Last
  <1>4. QED
    BY <1>1, <1>2, <1>3

LEMMA TopNotEmpty ==
  ASSUME top.dirs # {} \/ top.others # {}
  PROVE  frames # <<>>
  BY DEF top, Frame

LEMMA PopDirs ==
  ASSUME FrameType, frames # <<>>, NEW p
  PROVE  LET fs == PopFrom("dirs", p) IN
           /\ fs \in Seq(FrameRecord) /\ Len(fs) = Len(frames)
           /\ \A k \in 1 .. Len(frames) :
                /\ fs[k].path = frames[k].path /\ fs[k].others = frames[k].others
                /\ fs[k].dirs = IF k = Len(frames) THEN frames[k].dirs \ {p} ELSE frames[k].dirs
  <1> DEFINE n == Len(frames)
             fs == PopFrom("dirs", p)
             r == [top EXCEPT !.dirs = @ \ {p}]
  <1>1. /\ n \in Nat \ {0} /\ DOMAIN frames = 1 .. n /\ top = frames[n] /\ top \in FrameRecord
        /\ \A k \in 1 .. n : frames[k] \in FrameRecord
    BY TopIs
  <1>2. fs = [frames EXCEPT ![n] = r]
    BY <1>1 DEF PopFrom
  <1>3. /\ r \in FrameRecord /\ r.path = top.path /\ r.others = top.others
        /\ r.dirs = top.dirs \ {p}
    BY <1>1 DEF FrameRecord
  <1> HIDE DEF r, fs
  <1>4. fs \in Seq(FrameRecord) /\ Len(fs) = n
    BY <1>1, <1>2, <1>3 DEF FrameType
  <1>5. \A k \in 1 .. n : fs[k] = IF k = n THEN r ELSE frames[k]
    BY <1>1, <1>2
  <1>6. QED
    BY <1>1, <1>3, <1>4, <1>5 DEF fs

LEMMA PopOthers ==
  ASSUME FrameType, frames # <<>>, NEW p
  PROVE  LET fs == PopFrom("others", p) IN
           /\ fs \in Seq(FrameRecord) /\ Len(fs) = Len(frames)
           /\ \A k \in 1 .. Len(frames) :
                /\ fs[k].path = frames[k].path /\ fs[k].dirs = frames[k].dirs
                /\ fs[k].others = IF k = Len(frames) THEN frames[k].others \ {p}
                                                     ELSE frames[k].others
  <1> DEFINE n == Len(frames)
             fs == PopFrom("others", p)
             r == [top EXCEPT !.others = @ \ {p}]
  <1>1. /\ n \in Nat \ {0} /\ DOMAIN frames = 1 .. n /\ top = frames[n] /\ top \in FrameRecord
        /\ \A k \in 1 .. n : frames[k] \in FrameRecord
    BY TopIs
  <1>2. fs = [frames EXCEPT ![n] = r]
    BY <1>1 DEF PopFrom
  <1>3. /\ r \in FrameRecord /\ r.path = top.path /\ r.dirs = top.dirs
        /\ r.others = top.others \ {p}
    BY <1>1 DEF FrameRecord
  <1> HIDE DEF r, fs
  <1>4. fs \in Seq(FrameRecord) /\ Len(fs) = n
    BY <1>1, <1>2, <1>3 DEF FrameType
  <1>5. \A k \in 1 .. n : fs[k] = IF k = n THEN r ELSE frames[k]
    BY <1>1, <1>2
  <1>6. QED
    BY <1>1, <1>3, <1>4, <1>5 DEF fs

\* The call of listFiles or removeRec on one of the directories that are left.
Extended(gs, fs, f) ==
  \A k \in DOMAIN fs :
    \/ fs[k] = f /\ k > 1
    \/ /\ k \in DOMAIN gs /\ fs[k].path = gs[k].path
       /\ fs[k].others = gs[k].others /\ fs[k].dirs \subseteq gs[k].dirs

Pushed(fs, p, f) ==
  /\ fs \in Seq(FrameRecord) /\ fs # <<>>
  /\ Len(frames) + 1 \in DOMAIN fs /\ fs[Len(frames) + 1] = f
  /\ \A k \in DOMAIN frames : \A s \in frames[k].dirs :
       s = p \/ (k \in DOMAIN fs /\ s \in fs[k].dirs)
  /\ Extended(frames, fs, f)

\* The same in full.
PushedOn(gs, fs, p, f) ==
  /\ DOMAIN fs = 1 .. Len(gs) + 1 /\ Len(fs) = Len(gs) + 1 /\ fs[Len(gs) + 1] = f
  /\ \A k \in 1 .. Len(gs) :
       /\ fs[k].path = gs[k].path /\ fs[k].others = gs[k].others
       /\ fs[k].dirs = IF k = Len(gs) THEN gs[k].dirs \ {p} ELSE gs[k].dirs

LEMMA Push ==
  ASSUME FrameType, frames # <<>>, NEW p, NEW f \in FrameRecord,
         NEW fs, fs = Append(PopFrom("dirs", p), f)
  PROVE  Pushed(fs, p, f) /\ PushedOn(frames, fs, p, f)
  <1> DEFINE gs == PopFrom("dirs", p)
             n  == Len(frames)
  <1>1. gs \in Seq(FrameRecord) /\ Len(gs) = n
    BY PopDirs
  <1>2. n \in Nat \ {0} /\ DOMAIN frames = 1 .. n
    BY TopIs
  <1>3. \A k \in 1 .. n :
          /\ gs[k].path = frames[k].path /\ gs[k].others = frames[k].others
          /\ gs[k].dirs = IF k = n THEN frames[k].dirs \ {p} ELSE frames[k].dirs
    BY PopDirs
  <1>4. fs = Append(gs, f)
    OBVIOUS
  <1> HIDE DEF gs, n
  <1>5. /\ fs \in Seq(FrameRecord) /\ Len(fs) = n + 1
        /\ \A k \in 1 .. n : fs[k] = gs[k]
        /\ fs[n + 1] = f
    <2> DEFINE hs == Append(gs, f)
    <2>1. /\ hs \in Seq(FrameRecord) /\ Len(hs) = n + 1
          /\ \A k \in 1 .. n : hs[k] = gs[k]
          /\ hs[n + 1] = f
      BY <1>1, <1>2, AppendProperties
    <2>2. fs = hs
      BY <1>4
    <2> HIDE DEF hs
    <2>3. QED
      BY <2>1, <2>2
  <1>6. fs # <<>> /\ DOMAIN fs = 1 .. n + 1
    BY <1>2, <1>5, EmptySeq
  <1>7. n + 1 \in 1 .. n + 1 /\ \A k \in 1 .. n : k \in 1 .. n + 1
    BY <1>2
  <1>8. \A k \in 1 .. n + 1 : (k = n + 1 /\ k > 1) \/ k \in 1 .. n
    BY <1>2
  <1>9. ASSUME NEW k \in 1 .. n, NEW s \in frames[k].dirs, s # p
        PROVE  s \in fs[k].dirs
    BY <1>3, <1>5, <1>9
  <1>10. \A k \in 1 .. n : fs[k].dirs \subseteq frames[k].dirs
    BY <1>3, <1>5
  <1>11. \A k \in 1 .. n : fs[k].path = frames[k].path /\ fs[k].others = frames[k].others
    BY <1>3, <1>5
  <1>12. \A k \in DOMAIN frames : \A s \in frames[k].dirs :
           s = p \/ (k \in DOMAIN fs /\ s \in fs[k].dirs)
    BY <1>2, <1>6, <1>7, <1>9
  <1>13. \A k \in DOMAIN fs :
           \/ fs[k] = f /\ k > 1
           \/ /\ k \in DOMAIN frames /\ fs[k].path = frames[k].path
              /\ fs[k].others = frames[k].others /\ fs[k].dirs \subseteq frames[k].dirs
    BY <1>2, <1>5, <1>6, <1>8, <1>10, <1>11
  <1>14. Pushed(fs, p, f)
    BY <1>5, <1>6, <1>7, <1>12, <1>13 DEF n, Pushed, Extended
  <1>15. PushedOn(frames, fs, p, f)
    <2>1. \A k \in 1 .. n :
            /\ fs[k].path = frames[k].path /\ fs[k].others = frames[k].others
            /\ fs[k].dirs = IF k = n THEN frames[k].dirs \ {p} ELSE frames[k].dirs
      BY <1>3, <1>5
    <2>2. QED
      BY <1>5, <1>6, <2>1 DEF n, PushedOn
  <1>16. QED
    BY <1>14, <1>15

LEMMA Pop ==
  ASSUME FrameType, Len(frames) > 1
  PROVE  /\ Front(frames) \in Seq(FrameRecord) /\ Front(frames) # <<>>
         /\ DOMAIN Front(frames) = 1 .. Len(frames) - 1
         /\ \A k \in 1 .. Len(frames) - 1 : Front(frames)[k] = frames[k]
  <1> DEFINE n == Len(frames)
             fs == Front(frames)
  <1>1. n \in Nat /\ frames \in Seq(FrameRecord)
    BY DEF FrameType
  <1>2. 1 \in 1 .. n + 1 /\ n - 1 \in 1 - 1 .. n /\ n - 1 - 1 + 1 = n - 1
    BY <1>1
  <1>3. fs = SubSeq(frames, 1, n - 1)
    BY DEF Front
  <1>4. fs \in Seq(FrameRecord) /\ Len(fs) = n - 1 /\ \A k \in 1 .. n - 1 : fs[k] = frames[1 + k - 1]
    BY <1>1, <1>2, <1>3, SubSeqProperties
  <1>5. \A k \in 1 .. n - 1 : 1 + k - 1 = k
    BY <1>1
  <1> HIDE DEF fs, n
  <1>6. \A k \in 1 .. n - 1 : fs[k] = frames[k]
    BY <1>4, <1>5
  <1>7. DOMAIN fs = 1 .. n - 1 /\ fs # <<>>
    BY <1>1, <1>4, EmptySeq DEF n
  <1>8. QED
    BY <1>4, <1>6, <1>7 DEF fs, n

LEMMA Single ==
  ASSUME NEW f \in FrameRecord
  PROVE  /\ <<f>> \in Seq(FrameRecord) /\ <<f>> # <<>>
         /\ DOMAIN <<f>> = 1 .. 1 /\ Len(<<f>>) = 1 /\ <<f>>[1] = f
  OBVIOUS

-----------------------------------------------------------------------------
(* Types                                                                   *)

FilesetTypes ==
  /\ live \in BOOLEAN /\ m_root \in Text
  /\ m_files \in SUBSET Text /\ IsFiniteSet(m_files) /\ m_directories \in SUBSET Text
  /\ DOMAIN m_metadata \subseteq DOMAIN Lengths /\ IsFiniteSet(DOMAIN m_metadata)
  /\ \A k \in DOMAIN m_metadata : m_metadata[k] \in ValueLengths
  /\ m_xfer_size \in Nat \ {0} /\ m_provider_id \in ProviderIds

WorldTypes ==
  /\ disk \subseteq DOMAIN Kind /\ seen \subseteq DOMAIN Kind /\ steady \subseteq seen
  /\ (pc = "idle" => seen = {}) /\ there \in Trees
  /\ changes \in 0 .. MaxChanges

CallTypes ==
  /\ pc \in {"idle", "walk", "size", "open", "sweep"}
  /\ task \in {"size", "full size", "copy", "move"}
  /\ remote_root \in Text
  /\ files \in SUBSET Text /\ IsFiniteSet(files)
  /\ FrameType /\ (pc # "idle" => frames # <<>>)
  /\ size \in Nat
  /\ calls \in 0 .. MaxCalls

Types == FilesetTypes /\ WorldTypes /\ CallTypes /\ edits \in 0 .. MaxEdits

FaultTypes ==
  /\ unlisted \subseteq DOMAIN Kind /\ unread \subseteq DOMAIN Kind /\ unremoved \subseteq DOMAIN Kind
  /\ failures \in 0 .. MaxFailures

LEMMA TypesAre == Types /\ FaultTypes <=> TypeOK /\ MoreTypes
  <1>1. ASSUME Types, FaultTypes
        PROVE  TypeOK /\ MoreTypes
    <2>1. \A k \in DOMAIN frames : DOMAIN frames[k] = {"path", "dirs", "others"}
      <3>1. \A f \in FrameRecord : DOMAIN f = {"path", "dirs", "others"}
        BY DEF FrameRecord
      <3>2. frames \in Seq(FrameRecord)
        BY <1>1 DEF Types, CallTypes, FrameType
      <3>3. \A k \in DOMAIN frames : frames[k] \in FrameRecord
        BY <3>2
      <3>4. QED
        BY <3>1, <3>3
    <2>2. DOMAIN there = {"dirs", "files"} /\ there.dirs \cap there.files = {}
      BY <1>1 DEF Types, WorldTypes, Trees
    <2>3. TypeOK
      BY <1>1, <2>1, <2>2
      DEF Types, FilesetTypes, WorldTypes, CallTypes, FaultTypes, TypeOK, Text, Piece
    <2>4. MoreTypes
      BY <1>1 DEF Types, FilesetTypes, WorldTypes, CallTypes, MoreTypes, FrameType, Trees
    <2>5. QED
      BY <2>3, <2>4
  <1>2. ASSUME TypeOK, MoreTypes
        PROVE  Types /\ FaultTypes
    <2>1. FilesetTypes
      BY <1>2 DEF FilesetTypes, TypeOK, MoreTypes, Text, Piece
    <2>2. WorldTypes
      BY <1>2 DEF WorldTypes, TypeOK, MoreTypes, Trees
    <2>3. CallTypes
      BY <1>2 DEF CallTypes, TypeOK, MoreTypes, FrameType, Text, Piece
    <2>4. QED
      BY <1>2, <2>1, <2>2, <2>3 DEF Types, FaultTypes, TypeOK
  <1>3. QED
    BY <1>1, <1>2

LEMMA FrameIs ==
  ASSUME NEW p \in Text, NEW dirs \in SUBSET Text, NEW others \in SUBSET Text
  PROVE  /\ Frame(p, dirs, others) \in FrameRecord
         /\ Frame(p, dirs, others).path = p
         /\ Frame(p, dirs, others).dirs = dirs
         /\ Frame(p, dirs, others).others = others
  BY DEF Frame, FrameRecord

LEMMA DefaultIs == DefaultXferSize \in Nat \ {0}
  BY SMT DEF DefaultXferSize

LEMMA InitTypes ==
  ASSUME Init
  PROVE  Types
  <1>1. <<>> \in Text
    BY SlashText
  <1>2. FilesetTypes
    <2>1. IsFiniteSet({})
      BY FS_EmptySet
    <2>2. DOMAIN m_metadata = {} /\ m_files = {} /\ m_directories = {} /\ m_root = <<>>
      BY DEF Init
    <2>3. m_xfer_size \in Nat \ {0} /\ m_provider_id \in ProviderIds /\ live \in BOOLEAN
      BY DefaultIs DEF Init
    <2>4. QED
      BY <1>1, <2>1, <2>2, <2>3 DEF FilesetTypes
  <1>3. WorldTypes
    BY FilesetAssumption, TreeAssumption DEF Init, WorldTypes, Trees, Text, Piece
  <1>4. CallTypes
    BY <1>1, FilesetAssumption, FS_EmptySet DEF Init, CallTypes, FrameType
  <1>5. QED
    BY <1>2, <1>3, <1>4, FilesetAssumption DEF Init, Types

LEMMA EditTypes ==
  ASSUME Types, Edit, FilesetTypes'
  PROVE  Types'
  <1>1. WorldTypes'
    BY DEF Types, WorldTypes, Edit, worldVars, callVars
  <1>2. CallTypes'
    BY DEF Types, CallTypes, Edit, callVars, FrameType
  <1>3. edits' \in 0 .. MaxEdits
    BY FilesetAssumption DEF Types, Edit
  <1>4. QED
    BY <1>1, <1>2, <1>3 DEF Types

LEMMA OperationTypes ==
  ASSUME Types, Operation
  PROVE  Types'
  <1>1. Edit
    BY DEF Operation, Free, NullFileset, Create, SetRoot, SetXferSize, SetProviderId,
           RegisterFile, DeregisterFile, RegisterDirectory, DeregisterDirectory,
           RegisterMetadata, DeregisterMetadata
  <1>2. SUFFICES FilesetTypes'
    BY <1>1, EditTypes
  <1>3. FilesetTypes
    BY DEF Types
  <1>4. CASE Free \/ NullFileset
    BY <1>3, <1>4 DEF Free, NullFileset, FilesetTypes, filesetVars, memberVars
  <1>5. ASSUME NEW root \in Roots, Create(root)
        PROVE  FilesetTypes'
    <2>1. root \in Text /\ WithSlash(root) \in Text
      BY ArgumentsText, WithSlashFacts
    <2>2. IsFiniteSet({}) /\ DOMAIN <<>> = {}
      BY FS_EmptySet
    <2>3. QED
      BY <1>3, <1>5, <2>1, <2>2, DefaultIs DEF Create, FilesetTypes, filesetVars, memberVars
  <1>6. ASSUME NEW root \in Roots, SetRoot(root)
        PROVE  FilesetTypes'
    BY <1>3, <1>6, ArgumentsText DEF SetRoot, FilesetTypes
  <1>7. ASSUME NEW n \in XferSizes, SetXferSize(n)
        PROVE  FilesetTypes'
    BY <1>3, <1>7, FilesetAssumption DEF SetXferSize, FilesetTypes
  <1>8. ASSUME NEW id \in ProviderIds, SetProviderId(id)
        PROVE  FilesetTypes'
    BY <1>3, <1>8 DEF SetProviderId, FilesetTypes
  <1>9. ASSUME NEW name \in FileNames, RegisterFile(name) \/ DeregisterFile(name)
        PROVE  FilesetTypes'
    <2>1. Strip(name) \in Text
      BY ArgumentsText, StripText
    <2>2. IsFiniteSet(m_files \cup {Strip(name)}) /\ IsFiniteSet(m_files \ {Strip(name)})
      BY <1>3, FS_AddElement, FS_RemoveElement DEF FilesetTypes
    <2>3. QED
      BY <1>3, <1>9, <2>1, <2>2 DEF RegisterFile, DeregisterFile, FilesetTypes
  <1>10. ASSUME NEW name \in DirNames, RegisterDirectory(name) \/ DeregisterDirectory(name)
         PROVE  FilesetTypes'
    <2>1. Strip(name) \in Text
      BY ArgumentsText, StripText
    <2>2. QED
      BY <1>3, <1>10, <2>1 DEF RegisterDirectory, DeregisterDirectory, FilesetTypes
  <1>11. ASSUME NEW key \in DOMAIN Lengths, NEW n \in ValueLengths, RegisterMetadata(key, n)
         PROVE  FilesetTypes'
    <2>1. IsFiniteSet(DOMAIN m_metadata \cup {key})
      BY <1>3, FS_AddElement DEF FilesetTypes
    <2>2. QED
      BY <1>3, <1>11, <2>1 DEF RegisterMetadata, FilesetTypes
  <1>12. ASSUME NEW key \in DOMAIN Lengths, DeregisterMetadata(key)
         PROVE  FilesetTypes'
    <2>1. IsFiniteSet(DOMAIN m_metadata \ {key})
      BY <1>3, FS_RemoveElement DEF FilesetTypes
    <2>2. QED
      BY <1>3, <1>12, <2>1 DEF DeregisterMetadata, FilesetTypes
  <1>13. QED
    BY <1>4, <1>5, <1>6, <1>7, <1>8, <1>9, <1>10, <1>11, <1>12 DEF Operation

\* What a call leaves alone has its types.
LEMMA CallTypesStep ==
  ASSUME Types, UNCHANGED edits, FilesetTypes', WorldTypes', CallTypes'
  PROVE  Types'
  BY DEF Types

LEMMA ReturnTypes ==
  ASSUME Types, NEW code, ReturnWith(code)
  PROVE  /\ pc' = "idle" /\ files' \in SUBSET Text /\ IsFiniteSet(files')
         /\ FrameType' /\ seen' = {} /\ steady' = {}
  BY FS_EmptySet DEF ReturnWith, FrameType

LEMMA ListDirectoryTypes ==
  ASSUME Types, NEW p \in top.dirs, ListDirectory(p)
  PROVE  Types'
  <1> DEFINE dir == m_root \o <<Slash>> \o p
             found == Under(p, Entries(dir, "reg"))
             below == AsDirs(Under(p, Entries(dir, "dir")))
  <1>1. frames # <<>> /\ FrameType /\ disk \subseteq DOMAIN Kind
    BY TopNotEmpty DEF Types, CallTypes, WorldTypes
  <1>2. p \in Text
    BY <1>1, TopIs DEF FrameRecord
  <1>3. found \in SUBSET Text /\ IsFiniteSet(found)
    <2>1. Entries(dir, "reg") \in SUBSET Text /\ IsFiniteSet(Entries(dir, "reg"))
      BY <1>1, EntriesType
    <2>2. QED
      BY <1>2, <2>1, UnderText, UnderFinite
  <1>4. below \in SUBSET Text
    BY <1>1, <1>2, EntriesType, UnderText, AsDirsText
  <1> HIDE DEF found, below, dir
  <1>5. files' = files \cup found /\ frames' = Append(PopFrom("dirs", p), Frame(p, below, {}))
    BY DEF ListDirectory, ListedTypes, found, below, dir
  <1>6. files' \in SUBSET Text /\ IsFiniteSet(files')
    BY <1>3, <1>5, FS_Union DEF Types, CallTypes
  <1>7. FrameType' /\ frames' # <<>>
    <2>1. Frame(p, below, {}) \in FrameRecord
      BY <1>2, <1>4, FrameIs
    <2>2. QED
      BY <1>1, <1>5, <2>1, Push DEF FrameType, Pushed
  <1>8. QED
    BY <1>6, <1>7 DEF ListDirectory, Types, FilesetTypes, WorldTypes, CallTypes, filesetVars,
                      memberVars, worldVars

LEMMA NothingTypes ==
  ASSUME Types, NEW p \in top.dirs, ListNothing(p) \/ SweepNothing(p)
  PROVE  Types'
  <1>1. frames # <<>> /\ FrameType
    BY TopNotEmpty DEF Types, CallTypes
  <1>2. p \in Text
    BY <1>1, TopIs DEF FrameRecord
  <1>3. frames' = Append(PopFrom("dirs", p), Frame(p, {}, {}))
    BY DEF ListNothing, SweepNothing
  <1>4. FrameType' /\ frames' # <<>>
    <2>1. Frame(p, {}, {}) \in FrameRecord
      BY <1>2, FrameIs
    <2>2. QED
      BY <1>1, <1>3, <2>1, Push DEF FrameType, Pushed
  <1>5. UNCHANGED <<filesetVars, pc, task, remote_root, files, size, calls, worldVars, edits>>
    BY DEF ListNothing, SweepNothing
  <1>6. QED
    BY <1>4, <1>5 DEF Types, FilesetTypes, WorldTypes, CallTypes, filesetVars, memberVars, worldVars

LEMMA SweepDirectoryTypes ==
  ASSUME Types, NEW p \in top.dirs, SweepDirectory(p)
  PROVE  Types'
  <1> DEFINE others == UNION {Under(p, Entries(p, k)) : k \in SweptTypes}
             below == AsDirs(Under(p, Entries(p, "dir")))
  <1>1. frames # <<>> /\ FrameType /\ disk \subseteq DOMAIN Kind
    BY TopNotEmpty DEF Types, CallTypes, WorldTypes
  <1>2. p \in Text
    BY <1>1, TopIs DEF FrameRecord
  <1>3. \A k : Under(p, Entries(p, k)) \in SUBSET Text
    BY <1>1, <1>2, EntriesType, UnderText
  <1>4. others \in SUBSET Text /\ below \in SUBSET Text
    BY <1>3, AsDirsText
  <1> HIDE DEF others, below
  <1>5. frames' = Append(PopFrom("dirs", p), Frame(p, below, others))
    BY DEF SweepDirectory, others, below
  <1>6. FrameType' /\ frames' # <<>>
    <2>1. Frame(p, below, others) \in FrameRecord
      BY <1>2, <1>4, FrameIs
    <2>2. QED
      BY <1>1, <1>5, <2>1, Push DEF FrameType, Pushed
  <1>7. QED
    BY <1>6 DEF SweepDirectory, Types, FilesetTypes, WorldTypes, CallTypes, filesetVars,
                memberVars, worldVars

LEMMA SourceText ==
  ASSUME Types
  PROVE  /\ SourcePaths \in SUBSET Text /\ Under(m_root, m_directories) \in SUBSET Text
  BY UnderText DEF SourcePaths, Types, FilesetTypes, CallTypes

LEMMA CountUp ==
  ASSUME NEW n \in Nat, NEW i \in 0 .. n, i < n
  PROVE  i + 1 \in 0 .. n
  OBVIOUS

LEMMA WalkTypes ==
  ASSUME Types, \/ \E t \in {"size", "full size", "copy", "move"} : StartWalk(t)
                \/ ListedDirectory \/ StartSizes
  PROVE  Types'
  <1>1. <<>> \in Text /\ {} \in SUBSET Text /\ m_directories \in SUBSET Text
    BY SlashText DEF Types, FilesetTypes
  <1>2. ASSUME NEW t \in {"size", "full size", "copy", "move"}, StartWalk(t)
        PROVE  Types'
    <2>1. Frame(<<>>, m_directories, {}) \in FrameRecord
      BY <1>1, FrameIs
    <2>2. FrameType' /\ frames' # <<>>
      BY <1>2, <2>1, Single DEF StartWalk, FrameType
    <2>3. calls' \in 0 .. MaxCalls
      <3>1. calls \in 0 .. MaxCalls /\ calls < MaxCalls /\ calls' = calls + 1
        BY <1>2 DEF StartWalk, Types, CallTypes
      <3>2. MaxCalls \in Nat
        BY FilesetAssumption
      <3>3. QED
        BY <3>1, <3>2, CountUp, Zenon
    <2>4. CallTypes'
      BY <1>2, <2>2, <2>3 DEF StartWalk, Types, FilesetTypes, CallTypes
    <2>5. FilesetTypes' /\ WorldTypes' /\ UNCHANGED edits
      BY <1>2 DEF StartWalk, Types, FilesetTypes, WorldTypes, filesetVars, memberVars
    <2>6. QED
      BY <2>4, <2>5, CallTypesStep
  <1>3. CASE ListedDirectory
    <2>1. FrameType' /\ frames' # <<>>
      BY <1>3, Pop DEF ListedDirectory, Types, CallTypes, FrameType
    <2>2. QED
      BY <1>3, <2>1 DEF ListedDirectory, Types, FilesetTypes, WorldTypes, CallTypes, filesetVars,
                        memberVars, worldVars
  <1>4. CASE StartSizes
    <2>1. Frame(<<>>, {}, SourcePaths) \in FrameRecord
      BY <1>1, SourceText, FrameIs
    <2>2. FrameType' /\ frames' # <<>>
      BY <1>4, <2>1, Single DEF StartSizes, FrameType, SourcePaths
    <2>3. QED
      BY <1>4, <2>2 DEF StartSizes, Types, FilesetTypes, WorldTypes, CallTypes, filesetVars,
                        memberVars, worldVars
  <1>5. QED
    BY <1>2, <1>3, <1>4

LEMMA SizeTypes ==
  ASSUME Types, SizesDone \/ \E p \in top.others : AddFileSize(p)
  PROVE  Types'
  <1>1. CASE SizesDone
    <2>1. MetadataSize \in Nat
      BY MetadataSizeType DEF Types, FilesetTypes
    <2>2. size' \in Nat
      <3>1. size \in Nat /\ (size' = size \/ size' = size + MetadataSize)
        BY <1>1 DEF SizesDone, Types, CallTypes
      <3>2. QED
        BY <2>1, <3>1
    <2>3. ReturnWith(REMI_SUCCESS)
      BY <1>1 DEF SizesDone
    <2>4. QED
      BY <1>1, <2>2, <2>3, ReturnTypes
      DEF SizesDone, Types, FilesetTypes, WorldTypes, CallTypes, filesetVars, memberVars
  <1>2. ASSUME NEW p \in top.others, AddFileSize(p)
        PROVE  Types'
    <2>1. frames # <<>> /\ FrameType
      BY TopNotEmpty DEF Types, CallTypes
    <2>2. CASE ReturnWith(REMI_ERR_IO) /\ UNCHANGED size
      BY <1>2, <2>2, ReturnTypes
      DEF AddFileSize, Types, FilesetTypes, WorldTypes, CallTypes, filesetVars, memberVars
    <2>3. CASE /\ CanOpen(p)
               /\ size' = size + Size[Canonical(p)]
               /\ frames' = PopFrom("others", p)
               /\ UNCHANGED <<pc, files, seen, steady, ret, failures>>
      <3>1. Size[Canonical(p)] \in Nat
        BY <2>3, FilesetAssumption DEF CanOpen, Exists, Types, WorldTypes
      <3>2. size' \in Nat
        <4>1. size \in Nat
          BY DEF Types, CallTypes
        <4>2. QED
          BY <2>3, <3>1, <4>1
      <3>3. FrameType' /\ frames' # <<>>
        <4>1. frames' \in Seq(FrameRecord) /\ Len(frames') = Len(frames)
          BY <2>1, <2>3, PopOthers
        <4>2. Len(frames) # 0
          BY <2>1, TopIs
        <4>3. frames' # <<>>
          BY <4>1, <4>2
        <4>4. QED
          BY <4>1, <4>3 DEF FrameType
      <3>4. QED
        BY <1>2, <2>3, <3>2, <3>3
        DEF AddFileSize, Types, FilesetTypes, WorldTypes, CallTypes, filesetVars, memberVars
    <2>4. QED
      BY <1>2, <2>2, <2>3 DEF AddFileSize
  <1>3. QED
    BY <1>1, <1>2

LEMMA TargetsText ==
  ASSUME Types, NEW given \in RemoteRoots
  PROVE  /\ WithSlash(given) \in Text
         /\ Under(WithSlash(given), files) \in SUBSET Text
         /\ OpenAll(Under(WithSlash(given), files)) \in States
         /\ OpenAll(Under(WithSlash(given), files)).ok =>
              \A p \in Under(WithSlash(given), files) :
                Canonical(p) \in OpenAll(Under(WithSlash(given), files)).tree.files
  <1> DEFINE root == WithSlash(given)
             targets == Under(root, files)
  <1>1. root \in Text
    BY ArgumentsText, WithSlashFacts
  <1>2. targets \in SUBSET Text /\ IsFiniteSet(targets)
    BY <1>1, UnderText, UnderFinite DEF Types, CallTypes
  <1>3. there \in Trees
    BY DEF Types, WorldTypes
  <1> HIDE DEF targets
  <1>4. QED
    BY <1>1, <1>2, <1>3, OpenAllFacts DEF targets

\* What an interrupted loop leaves at the destination.
LEMMA InterruptedTrees ==
  ASSUME Types, NEW given \in RemoteRoots, NEW p \in Under(WithSlash(given), files),
         NEW t \in Interrupted(Under(WithSlash(given), files), p)
  PROVE  t \in Trees
  <1> DEFINE targets == Under(WithSlash(given), files)
  <1>1. targets \in SUBSET Text /\ IsFiniteSet(targets) /\ there \in Trees
    <2>1. WithSlash(given) \in Text
      BY ArgumentsText, WithSlashFacts
    <2>2. QED
      BY <2>1, UnderText, UnderFinite DEF Types, CallTypes, WorldTypes
  <1> HIDE DEF targets
  <1>2. p \in Text /\ Len(p) \in Nat
    BY <1>1, TextFacts DEF targets
  <1>3. PICK made \in SUBSET targets, k \in 0 .. Len(p) :
               t = Mkdirs(OpenAll(made).tree, SubSeq(p, 1, k))
    <2>1. t \in Interrupted(targets, p)
      BY DEF targets
    <2>2. PICK made \in {q \in SUBSET (targets \ {p}) : OpenAll(q).ok},
               k \in {j \in 0 .. Len(p) - 1 : j = 0 \/ p[j + 1] = Slash} :
               t = Mkdirs(OpenAll(made).tree, SubSeq(p, 1, k))
      BY <2>1 DEF Interrupted
    <2>3. k \in 0 .. Len(p)
      BY <1>2
    <2>4. made \in SUBSET targets
      OBVIOUS
    <2>5. QED
      BY <2>2, <2>3, <2>4
  <1>4. made \in SUBSET Text /\ IsFiniteSet(made)
    BY <1>1, FS_Subset
  <1>5. OpenAll(made) \in States
    BY <1>1, <1>4, OpenAllFacts
  <1>6. OpenAll(made).tree \in Trees
    BY <1>5 DEF States
  <1>7. SubSeq(p, 1, k) \in Text
    BY <1>2, PrefixText
  <1>8. Mkdirs(OpenAll(made).tree, SubSeq(p, 1, k)) \in Grown(OpenAll(made).tree)
    BY <1>6, <1>7, MkdirsGrows
  <1>9. QED
    BY <1>3, <1>8 DEF Grown

LEMMA MigrationTypes ==
  ASSUME Types, \/ OpenSource \/ MoveDone
                \/ \E given \in RemoteRoots : Refused(given) \/ RefusedOnFailure(given) \/ Transfer(given)
  PROVE  Types'
  <1>1. CASE OpenSource
    <2>1. CASE \E code : ReturnWith(code)
      <3>1. PICK code : ReturnWith(code)
        BY <2>1
      <3>2. QED
        BY <1>1, <3>1, ReturnTypes
        DEF OpenSource, Types, FilesetTypes, WorldTypes, CallTypes, filesetVars, memberVars
    <2>2. CASE pc' = "open" /\ UNCHANGED <<frames, files, seen, steady, ret>>
      BY <1>1, <2>2
      DEF OpenSource, Types, FilesetTypes, WorldTypes, CallTypes, FrameType, filesetVars, memberVars
    <2>3. QED
      BY <1>1, <2>1, <2>2 DEF OpenSource
  <1>2. CASE MoveDone
    <2>1. ReturnWith(REMI_SUCCESS)
      BY <1>2 DEF MoveDone
    <2>2. QED
      BY <1>2, <2>1, ReturnTypes
      DEF MoveDone, Types, FilesetTypes, WorldTypes, CallTypes, filesetVars, memberVars
  <1>3. ASSUME NEW given \in RemoteRoots, Refused(given)
        PROVE  Types'
    <2> DEFINE root == WithSlash(given)
    <2>1. root \in Text /\ OpenAll(Under(root, files)) \in States
      BY TargetsText
    <2> HIDE DEF root
    <2>2. there' \in Trees
      BY <1>3, <2>1 DEF Refused, Types, WorldTypes, States, root
    <2>3. PICK code : ReturnWith(code)
      BY <1>3 DEF Refused
    <2>4. FilesetTypes'
      <3>1. m_root' = root /\ m_files' = files /\ m_directories' = {}
            /\ UNCHANGED <<live, m_metadata, m_xfer_size, m_provider_id>>
        BY <1>3 DEF Refused, KeptAsSent, root
      <3>2. QED
        BY <2>1, <3>1 DEF Types, FilesetTypes, CallTypes
    <2>5. remote_root' = root /\ UNCHANGED <<task, size, calls, disk, changes, edits>>
      BY <1>3 DEF Refused, root
    <2>6. QED
      BY <2>1, <2>2, <2>3, <2>4, <2>5, ReturnTypes DEF Types, WorldTypes, CallTypes
  <1>6. ASSUME NEW given \in RemoteRoots, RefusedOnFailure(given)
        PROVE  Types'
    <2> DEFINE root == WithSlash(given)
    <2>1. root \in Text
      BY TargetsText
    <2>2. there' \in Trees
      <3>1. PICK p \in Under(root, files) : there' \in Interrupted(Under(root, files), p)
        BY <1>6 DEF RefusedOnFailure
      <3>2. QED
        BY <3>1, InterruptedTrees
    <2> HIDE DEF root
    <2>3. ReturnWith(REMI_ERR_IO)
      BY <1>6 DEF RefusedOnFailure
    <2>4. FilesetTypes'
      <3>1. m_root' = root /\ m_files' = files /\ m_directories' = {}
            /\ UNCHANGED <<live, m_metadata, m_xfer_size, m_provider_id>>
        BY <1>6 DEF RefusedOnFailure, KeptAsSent, root
      <3>2. QED
        BY <2>1, <3>1 DEF Types, FilesetTypes, CallTypes
    <2>5. remote_root' = root /\ UNCHANGED <<task, size, calls, disk, changes, edits>>
      BY <1>6 DEF RefusedOnFailure, root
    <2>6. QED
      BY <2>1, <2>2, <2>3, <2>4, <2>5, ReturnTypes DEF Types, WorldTypes, CallTypes
  <1>4. ASSUME NEW given \in RemoteRoots, Transfer(given)
        PROVE  Types'
    <2> DEFINE root == WithSlash(given)
    <2>1. root \in Text /\ OpenAll(Under(root, files)) \in States
      BY TargetsText
    <2> HIDE DEF root
    <2>2. there' \in Trees
      BY <1>4, <2>1 DEF Transfer, States, root
    <2>3. /\ remote_root' = root
          /\ UNCHANGED <<filesetVars, task, size, calls, disk, changes, edits>>
      BY <1>4 DEF Transfer, root
    <2>4. CASE \E code : ReturnWith(code)
      <3>1. PICK code : ReturnWith(code)
        BY <2>4
      <3>2. QED
        BY <2>1, <2>2, <2>3, <3>1, ReturnTypes
        DEF Types, FilesetTypes, WorldTypes, CallTypes, filesetVars, memberVars
    <2>5. CASE /\ pc' = "sweep"
               /\ frames' = <<Frame(<<>>, Under(m_root, m_directories), SourcePaths)>>
               /\ UNCHANGED <<files, seen, steady, ret>>
      <3>1. Frame(<<>>, Under(m_root, m_directories), SourcePaths) \in FrameRecord
        BY SlashText, SourceText, FrameIs
      <3>2. FrameType' /\ frames' # <<>>
        BY <2>5, <3>1, Single DEF FrameType
      <3>3. QED
        BY <2>1, <2>2, <2>3, <2>5, <3>2
        DEF Types, FilesetTypes, WorldTypes, CallTypes, filesetVars, memberVars
    <2>6. QED
      BY <1>4, <2>4, <2>5 DEF Transfer
  <1>5. QED
    BY <1>1, <1>2, <1>3, <1>4, <1>6

LEMMA RemovalTypes ==
  ASSUME Types, SweptDirectory \/ \E p \in top.others : RemoveFile(p)
  PROVE  Types'
  <1>1. ASSUME NEW p, TryRemove(p)
        PROVE  disk' \subseteq disk
    BY <1>1 DEF TryRemove, Unlink
  <1>2. CASE SweptDirectory
    <2>1. FrameType' /\ frames' # <<>>
      BY <1>2, Pop DEF SweptDirectory, Types, CallTypes, FrameType
    <2>2. disk' \subseteq disk
      BY <1>1, <1>2 DEF SweptDirectory, RemoveDirectory
    <2>3. QED
      BY <1>2, <2>1, <2>2 DEF SweptDirectory, Types, FilesetTypes, WorldTypes, CallTypes,
                              filesetVars, memberVars
  <1>3. ASSUME NEW p \in top.others, RemoveFile(p)
        PROVE  Types'
    <2>1. frames # <<>> /\ FrameType
      BY TopNotEmpty DEF Types, CallTypes
    <2>2. frames' = PopFrom("others", p)
      BY <1>3 DEF RemoveFile
    <2>3. frames' \in Seq(FrameRecord) /\ Len(frames') = Len(frames)
      BY <2>1, <2>2, PopOthers
    <2>4. Len(frames) # 0
      BY <2>1, TopIs
    <2>5. frames' # <<>>
      BY <2>3, <2>4
    <2>6. disk' \subseteq disk
      BY <1>1, <1>3 DEF RemoveFile
    <2>7. QED
      BY <1>3, <2>3, <2>5, <2>6 DEF RemoveFile, Types, FilesetTypes, WorldTypes, CallTypes,
                                    FrameType, filesetVars, memberVars
  <1>4. QED
    BY <1>2, <1>3

LEMMA OthersTypes ==
  ASSUME Types, Others
  PROVE  Types'
  <1>1. PICK e \in DOMAIN Kind \ {<<>>} : Appear(e) \/ Vanish(e)
    BY DEF Others
  <1>2. changes' \in 0 .. MaxChanges
    <2>1. changes \in 0 .. MaxChanges /\ changes < MaxChanges /\ changes' = changes + 1
      BY <1>1 DEF Appear, Vanish, Types, WorldTypes
    <2>2. MaxChanges \in Nat
      BY FilesetAssumption
    <2>3. QED
      BY <2>1, <2>2
  <1>3. /\ disk' \subseteq DOMAIN Kind /\ seen' \subseteq DOMAIN Kind /\ steady' \subseteq seen'
        /\ (pc = "idle" => seen' = {})
        /\ UNCHANGED <<filesetVars, callVars, there, ret, edits>>
    <2>1. CASE Vanish(e)
      BY <1>1, <2>1 DEF Vanish, Types, WorldTypes
    <2>2. CASE Appear(e)
      BY <1>1, <2>2 DEF Appear, Types, WorldTypes
    <2>3. QED
      BY <1>1, <2>1, <2>2
  <1>4. QED
    BY <1>2, <1>3 DEF Types, FilesetTypes, WorldTypes, CallTypes, FrameType, filesetVars,
                      memberVars, callVars

LEMMA TypesStep ==
  ASSUME Types, [Next]_vars
  PROVE  Types'
  <1>1. CASE UNCHANGED vars
    BY <1>1 DEF vars, Types, FilesetTypes, WorldTypes, CallTypes, FrameType, filesetVars,
                memberVars, callVars, worldVars
  <1>2. CASE Call
    BY <1>2, ListDirectoryTypes, SweepDirectoryTypes, NothingTypes, WalkTypes, SizeTypes,
       MigrationTypes, RemovalTypes DEF Call
  <1>3. CASE \E t \in {"size", "full size", "copy", "move"} : StartWalk(t)
    BY <1>3, WalkTypes
  <1>4. QED
    BY <1>1, <1>2, <1>3, OperationTypes, OthersTypes DEF Next, Terminated

\* A call does not forget what has failed.
Remembered ==
  unlisted \subseteq unlisted' /\ unread \subseteq unread' /\ unremoved \subseteq unremoved'

LEMMA FaultsStep ==
  ASSUME Types, FaultTypes, [Next]_vars
  PROVE  FaultTypes' /\ (pc # "idle" => Remembered)
  <1> DEFINE Kept3 == UNCHANGED <<unlisted, unread, unremoved>>
  <1>1. ASSUME Fail
        PROVE  failures' \in 0 .. MaxFailures
    <2>1. failures \in 0 .. MaxFailures /\ failures < MaxFailures /\ failures' = failures + 1
      BY <1>1 DEF Fail, FaultTypes
    <2>2. QED
      BY <2>1, FilesetAssumption
  <1>2. ASSUME Kept3, failures' = failures \/ Fail
        PROVE  FaultTypes' /\ Remembered
    BY <1>1, <1>2 DEF FaultTypes, Remembered
  <1>3. CASE UNCHANGED vars
    BY <1>2, <1>3 DEF vars, faultVars
  <1>4. CASE Operation
    BY <1>2, <1>4 DEF Operation, Free, NullFileset, Create, SetRoot, SetXferSize, SetProviderId,
                  RegisterFile, DeregisterFile, RegisterDirectory, DeregisterDirectory,
                  RegisterMetadata, DeregisterMetadata, Edit, faultVars
  <1>5. CASE \E t \in {"size", "full size", "copy", "move"} : StartWalk(t)
    BY <1>5 DEF StartWalk, FaultTypes
  <1>6. CASE Others
    BY <1>2, <1>6 DEF Others, Appear, Vanish, faultVars
  <1>7. ASSUME NEW p, ListNothing(p) \/ SweepNothing(p)
        PROVE  FaultTypes' /\ Remembered
    <2>1. Fail
      BY <1>7 DEF ListNothing, SweepNothing
    <2>2. CASE ListNothing(p)
      BY <1>1, <2>1, <2>2 DEF ListNothing, IsDir, Types, WorldTypes, FaultTypes, Remembered
    <2>3. CASE SweepNothing(p)
      BY <1>1, <2>1, <2>3 DEF SweepNothing, IsDir, Types, WorldTypes, FaultTypes, Remembered
    <2>4. QED
      BY <1>7, <2>2, <2>3
  <1>8. ASSUME NEW p, TryRemove(p), UNCHANGED <<unlisted, unread>>
        PROVE  FaultTypes' /\ Remembered
    BY <1>1, <1>2, <1>8 DEF TryRemove, Exists, Types, WorldTypes, FaultTypes, Remembered
  <1>9. ASSUME NEW p, RemoveFile(p)
        PROVE  FaultTypes' /\ Remembered
    BY <1>8, <1>9 DEF RemoveFile
  <1>10. CASE SweptDirectory
    BY <1>8, <1>10 DEF SweptDirectory, RemoveDirectory
  <1>11. ASSUME NEW p, ListDirectory(p) \/ SweepDirectory(p) \/ AddFileSize(p)
         PROVE  FaultTypes' /\ Remembered
    BY <1>2, <1>11 DEF ListDirectory, SweepDirectory, AddFileSize, faultVars
  <1>12. ASSUME NEW root, Refused(root) \/ RefusedOnFailure(root) \/ Transfer(root)
         PROVE  FaultTypes' /\ Remembered
    BY <1>2, <1>12 DEF Refused, RefusedOnFailure, Transfer, faultVars
  <1>13. CASE ListedDirectory \/ StartSizes \/ SizesDone \/ OpenSource \/ MoveDone
    BY <1>2, <1>13 DEF ListedDirectory, StartSizes, SizesDone, OpenSource, MoveDone, faultVars
  <1>14. CASE Call
    BY <1>7, <1>9, <1>10, <1>11, <1>12, <1>13, <1>14, Zenon DEF Call
  <1>15. ASSUME \E t \in {"size", "full size", "copy", "move"} : StartWalk(t)
         PROVE  pc = "idle"
    BY <1>15 DEF StartWalk
  <1>16. QED
    BY <1>3, <1>4, <1>5, <1>6, <1>14, <1>15 DEF Next, Terminated

-----------------------------------------------------------------------------
(* The tree                                                                *)

\* How a call goes on.
Onward == \/ pc' = pc
          \/ pc' = "idle"
          \/ pc = "walk" /\ pc' \in {"size", "open"}
          \/ pc = "open" /\ pc' = "sweep"

\* The steps of a call that remove nothing.
LEMMA CallKeepsDisk ==
  ASSUME Call
  PROVE  \/ SweptDirectory
         \/ \E p \in top.others : RemoveFile(p)
         \/ UNCHANGED disk /\ pc' = "idle"
         \/ UNCHANGED <<disk, seen, steady>> /\ Onward
  <1>1. ASSUME NEW p \in top.dirs,
               ListDirectory(p) \/ ListNothing(p) \/ SweepDirectory(p) \/ SweepNothing(p)
        PROVE  UNCHANGED <<disk, seen, steady>> /\ Onward
    BY <1>1 DEF ListDirectory, ListNothing, SweepDirectory, SweepNothing, worldVars, Onward
  <1>2. ASSUME NEW p \in top.others, AddFileSize(p)
        PROVE  UNCHANGED disk /\ (pc' = "idle" \/ (UNCHANGED <<seen, steady>> /\ Onward))
    BY <1>2 DEF AddFileSize, ReturnWith, Onward
  <1>3. CASE ListedDirectory \/ StartSizes \/ SizesDone
    BY <1>3 DEF ListedDirectory, StartSizes, SizesDone, ReturnWith, worldVars, Onward
  <1>4. CASE OpenSource \/ MoveDone
    BY <1>4 DEF OpenSource, MoveDone, ReturnWith, Onward
  <1>5. ASSUME NEW root \in RemoteRoots, Refused(root) \/ RefusedOnFailure(root)
        PROVE  UNCHANGED disk /\ pc' = "idle"
    BY <1>5 DEF Refused, RefusedOnFailure, ReturnWith
  <1>6. ASSUME NEW root \in RemoteRoots, Transfer(root)
        PROVE  UNCHANGED disk /\ (pc' = "idle" \/ (UNCHANGED <<seen, steady>> /\ Onward))
    BY <1>6 DEF Transfer, ReturnWith, Onward
  <1>7. QED
    BY <1>1, <1>2, <1>3, <1>4, <1>5, <1>6 DEF Call

Rooted == \A e \in disk \ {<<>>} : ParentOf[e] \in disk /\ Kind[ParentOf[e]] = "dir"

LEMMA RootedStep ==
  ASSUME Rooted, NEW d, Children(d) = {}, disk' \in {disk, disk \ {d}}
  PROVE  Rooted' /\ disk' \subseteq disk
  BY DEF Rooted, Children

LEMMA UnlinkIs ==
  ASSUME NEW p, TryRemove(p)
  PROVE  \/ disk' = disk
         \/ disk' = disk \ {Canonical(p)} /\ Children(Canonical(p)) = {} /\ Exists(p)
  BY DEF TryRemove, Unlink

LEMMA RemovalKeepsTree ==
  ASSUME TreeInv, SweptDirectory \/ \E p \in top.others : RemoveFile(p)
  PROVE  TreeInv'
  <1>1. PICK p : TryRemove(p) /\ pc = "sweep" /\ UNCHANGED <<pc, seen, steady>>
    BY DEF SweptDirectory, RemoveFile, RemoveDirectory
  <1>2. Rooted' /\ disk' \subseteq disk
    BY <1>1, UnlinkIs, RootedStep DEF TreeInv, Rooted
  <1>3. QED
    BY <1>1, <1>2 DEF TreeInv, Rooted

LEMMA OthersKeepTree ==
  ASSUME Types, TreeInv, Others
  PROVE  TreeInv'
  <1>1. PICK e \in DOMAIN Kind \ {<<>>} : Appear(e) \/ Vanish(e)
    BY DEF Others
  <1>2. pc' = pc
    BY <1>1 DEF Appear, Vanish, callVars
  <1>3. CASE Appear(e)
    <2>1. /\ e \notin disk /\ ParentOf[e] \in disk /\ Kind[ParentOf[e]] = "dir"
          /\ disk' = disk \cup {e} /\ steady' = steady \ {e}
          /\ seen' = IF pc = "idle" THEN {} ELSE seen \cup {e}
      BY <1>3 DEF Appear
    <2>2. Rooted'
      BY <2>1 DEF Rooted, TreeInv
    <2>3. pc' # "idle" => disk' \subseteq seen'
      BY <1>2, <2>1 DEF TreeInv
    <2>4. ASSUME pc \in {"walk", "size", "open"}
          PROVE  steady' = steady /\ steady' \subseteq disk'
      BY <2>1, <2>4 DEF TreeInv
    <2>5. QED
      BY <1>2, <2>2, <2>3, <2>4 DEF Rooted, TreeInv
  <1>4. CASE Vanish(e)
    <2>1. /\ Children(e) = {} /\ disk' = disk \ {e} /\ steady' = steady \ {e} /\ seen' = seen
      BY <1>4 DEF Vanish
    <2>2. Rooted' /\ disk' \subseteq disk
      BY <2>1, RootedStep DEF TreeInv, Rooted
    <2>3. ASSUME pc = "walk", NEW x \in steady' \ {<<>>}
          PROVE  ParentOf[x] \in steady'
      <3>1. x \in steady /\ x \in disk /\ ParentOf[x] \in steady
        BY <2>1, <2>3 DEF TreeInv
      <3>2. ParentOf[x] # e
        BY <2>1, <2>3, <3>1 DEF Children
      <3>3. QED
        BY <2>1, <3>1, <3>2
    <2>4. QED
      BY <1>2, <2>1, <2>2, <2>3 DEF Rooted, TreeInv
  <1>5. QED
    BY <1>1, <1>3, <1>4

LEMMA TreeStep ==
  ASSUME Types, TreeInv, [Next]_vars
  PROVE  TreeInv'
  <1>1. CASE UNCHANGED vars
    BY <1>1 DEF vars, callVars, worldVars, TreeInv
  <1>2. CASE Operation
    <2>1. Edit
      BY <1>2 DEF Operation, Free, NullFileset, Create, SetRoot, SetXferSize, SetProviderId,
                  RegisterFile, DeregisterFile, RegisterDirectory, DeregisterDirectory,
                  RegisterMetadata, DeregisterMetadata
    <2>2. QED
      BY <2>1 DEF Edit, callVars, worldVars, TreeInv
  <1>3. CASE \E t \in {"size", "full size", "copy", "move"} : StartWalk(t)
    BY <1>3 DEF StartWalk, TreeInv
  <1>4. CASE Call
    <2>1. CASE UNCHANGED disk /\ pc' = "idle"
      BY <2>1 DEF TreeInv
    <2>2. CASE UNCHANGED <<disk, seen, steady>> /\ Onward
      BY <2>2 DEF TreeInv, Onward
    <2>3. QED
      BY <1>4, <2>1, <2>2, CallKeepsDisk, RemovalKeepsTree
  <1>5. QED
    BY <1>1, <1>2, <1>3, <1>4, OthersKeepTree DEF Next, Terminated

-----------------------------------------------------------------------------
(* What is listed                                                          *)

\* Behind a path that ends in a slash, the names that readdir gives lead to the
\* entries that they are the names of.
LEMMA Listing ==
  ASSUME disk \subseteq DOMAIN Kind, NEW r \in Text, NEW p \in Text, EndsInSlash(r \o p),
         NEW dir, Canonical(dir) = Canonical(r \o p), NEW kind
  PROVE  LET names == Under(p, Entries(dir, kind)) IN
         /\ \A x \in Found(dir, kind) :
              /\ x \in DOMAIN Kind \ {<<>>} /\ Parent(x) = Canonical(r \o p)
              /\ p \o Base(x) \in Text /\ p \o Base(x) \in names
              /\ Canonical(r \o (p \o Base(x))) = x
              /\ Append(p \o Base(x), Slash) \in AsDirs(names)
              /\ Canonical(r \o Append(p \o Base(x), Slash)) = x
              /\ EndsInSlash(r \o Append(p \o Base(x), Slash))
         /\ \A n \in names : \E x \in Found(dir, kind) : n = p \o Base(x)
         /\ \A n \in AsDirs(names) : \E x \in Found(dir, kind) : n = Append(p \o Base(x), Slash)
  <1> DEFINE names == Under(p, Entries(dir, kind))
  <1>1. names = {p \o Base(x) : x \in Found(dir, kind)}
    BY EntriesAre DEF Under
  <1>2. AsDirs(names) = {Append(n, Slash) : n \in names}
    BY DEF AsDirs
  <1> HIDE DEF names
  <1>3. ASSUME NEW x \in Found(dir, kind)
        PROVE  /\ x \in DOMAIN Kind \ {<<>>} /\ Parent(x) = Canonical(r \o p)
               /\ p \o Base(x) \in Text /\ p \o Base(x) \in names
               /\ Canonical(r \o (p \o Base(x))) = x
               /\ Append(p \o Base(x), Slash) \in AsDirs(names)
               /\ Canonical(r \o Append(p \o Base(x), Slash)) = x
               /\ EndsInSlash(r \o Append(p \o Base(x), Slash))
    <2>1. x \in DOMAIN Kind \ {<<>>} /\ Parent(x) = Canonical(r \o p)
      BY DEF Found
    <2>2. Base(x) \in Text /\ r \o p \in Text
      BY <2>1, EntryParts, JoinFacts
    <2> DEFINE n == p \o Base(x)
    <2>3. n \in Text /\ r \o n = (r \o p) \o Base(x) /\ r \o n \in Text
      BY <2>2, JoinFacts, JoinAssociates
    <2>4. Canonical(r \o n) = x
      BY <2>1, <2>2, <2>3, ChildPath
    <2>5. r \o Append(n, Slash) = Append(r \o n, Slash)
      BY <2>3, JoinSlash
    <2>6. Canonical(r \o Append(n, Slash)) = x /\ EndsInSlash(r \o Append(n, Slash))
      BY <2>3, <2>4, <2>5, FinalSlash, AppendEnds
    <2>7. QED
      BY <1>1, <1>2, <2>1, <2>3, <2>4, <2>6
  <1>4. \A n \in names : \E x \in Found(dir, kind) : n = p \o Base(x)
    BY <1>1
  <1>5. \A n \in AsDirs(names) : \E x \in Found(dir, kind) : n = Append(p \o Base(x), Slash)
    BY <1>2, <1>4
  <1>6. QED
    BY <1>3, <1>4, <1>5, Zenon DEF names

LEMMA NamedText ==
  ASSUME Types
  PROVE  /\ Named(m_directories) \in SUBSET Text
         /\ \A d \in m_directories : m_root \o d \in Text
         /\ \A n \in files : m_root \o n \in Text
  <1>1. m_root \in Text /\ m_directories \in SUBSET Text /\ files \in SUBSET Text
    BY DEF Types, FilesetTypes, CallTypes
  <1>2. \A d \in m_directories : m_root \o d \in Text /\ Canonical(m_root \o d) \in Text
    BY <1>1, JoinFacts, CanonicalIs
  <1>3. QED
    BY <1>1, <1>2, JoinFacts DEF Named

LEMMA ReachedDirectory ==
  ASSUME Types, WellNamed, NEW d \in m_directories
  PROVE  m_root \o d \in Text /\ Reached(m_root \o d)
  <1>1. /\ m_root \in Text /\ d \in Text /\ m_root \o d \in Text
        /\ EndsInSlash(m_root) /\ (d = <<>> \/ EndsInSlash(d))
    BY NamedText DEF Types, FilesetTypes, WellNamed
  <1>2. EndsInSlash(m_root \o d)
    <2>1. CASE d = <<>>
      <3>1. m_root \o d = m_root
        BY <1>1, <2>1 DEF Text
      <3>2. QED
        BY <1>1, <3>1
    <2>2. CASE EndsInSlash(d)
      <3> DEFINE p == m_root \o d
      <3>1. Len(d) # 0 /\ d[Len(d)] = Slash /\ Len(d) \in Nat /\ Len(m_root) \in Nat
        BY <1>1, <2>2, EndsInSlashIs, TextFacts
      <3>2. /\ p \in Text /\ Len(p) = Len(m_root) + Len(d)
            /\ \A k \in 1 .. Len(d) : p[Len(m_root) + k] = d[k]
        BY <1>1, JoinFacts
      <3> HIDE DEF p
      <3>3. Len(p) # 0 /\ p[Len(p)] = Slash
        BY <3>1, <3>2
      <3>4. EndsInSlash(p)
        BY <3>2, <3>3, EndsInSlashIs
      <3>5. QED
        BY <3>4 DEF p
    <2>3. QED
      BY <1>1, <2>1, <2>2
  <1>3. QED
    BY <1>1, <1>2 DEF Reached, Named

\* What is found in a directory that was reached lies in a registered one.
LEMMA FoundBelow ==
  ASSUME Types, NEW q, Reached(q), NEW dir, Canonical(dir) = Canonical(q), NEW kind,
         NEW x \in Found(dir, kind)
  PROVE  Below(x)
  <1>1. x \in DOMAIN Kind \ {<<>>} /\ Parent(x) = Canonical(q) /\ ~Hidden(x)
    BY DEF Found, Types, WorldTypes
  <1>2. PICK d \in Named(m_directories) :
          Canonical(q) = d \/ (Visible(Canonical(q), d) /\ Canonical(q) \notin Untyped)
    BY DEF Reached, Below
  <1>3. Visible(x, d)
    BY <1>1, <1>2, NamedText, VisibleChild
  <1>4. QED
    BY <1>3 DEF Below

-----------------------------------------------------------------------------
(* The walk, entry by entry                                                *)

Kept == UNCHANGED <<m_root, m_files, m_directories>>

Registered(e) == \E n \in m_files : Canonical(m_root \o n) = e

Listed(e) == \E n \in files : Canonical(m_root \o n) = e

ToList(e) == Below(e) /\ Type[e] = "reg"

Pending(e) == \E k \in DOMAIN frames : \E p \in frames[k].dirs : Visible(e, Canonical(m_root \o p))

Sound ==
  pc # "idle" => \A n \in files : LET c == Canonical(m_root \o n)
                                  IN  Registered(c) \/ (c \in seen /\ ToList(c))

Complete ==
  /\ pc = "walk" => \A e \in steady : ToList(e) => Listed(e) \/ Missed(e) \/ Pending(e)
  /\ pc \in {"size", "open", "sweep"} => \A e \in steady : ToList(e) => Listed(e) \/ Missed(e)

LEMMA SoundAre == Sound <=> SoundInv
  <1>1. \A c : c \in Named(m_files) <=> Registered(c)
    BY DEF Named, Registered
  <1>2. \A c : c \in Listable(seen) <=> c \in seen /\ ToList(c)
    BY DEF Listable, Contents, ToList, Below
  <1>3. \A c : c \in Named(files) <=> \E n \in files : c = Canonical(m_root \o n)
    BY DEF Named
  <1>4. SoundInv <=> (pc # "idle" => \A c \in Named(files) : Registered(c) \/ (c \in seen /\ ToList(c)))
    BY <1>1, <1>2 DEF SoundInv
  <1>5. QED
    BY <1>3, <1>4 DEF Sound

LEMMA CompleteAre == Complete <=> CompleteInv
  <1>1. \A c : c \in Named(files) <=> Listed(c)
    BY DEF Named, Listed
  <1>2. \A c : c \in Listable(steady) <=> c \in steady /\ ToList(c)
    BY DEF Listable, Contents, ToList, Below
  <1>3. QED
    BY <1>1, <1>2 DEF Complete, CompleteInv, Pending

LEMMA KeptSame ==
  ASSUME Kept
  PROVE  /\ \A e : (Below(e)' <=> Below(e)) /\ (ToList(e)' <=> ToList(e))
         /\ \A e : Registered(e)' <=> Registered(e)
         /\ \A p : Reached(p)' <=> Reached(p)
         /\ WellNamed' <=> WellNamed
  <1>1. m_root' = m_root /\ m_files' = m_files /\ m_directories' = m_directories
    BY DEF Kept
  <1>2. Named(m_directories)' = Named(m_directories)
    BY <1>1 DEF Named
  <1>3. \A e : Below(e)' <=> Below(e)
    BY <1>2 DEF Below
  <1>4. \A e : Registered(e)' <=> Registered(e)
    BY <1>1 DEF Registered
  <1>5. \A p : Reached(p)' <=> Reached(p)
    BY <1>2, <1>3 DEF Reached
  <1>6. WellNamed' <=> WellNamed
    BY <1>1 DEF WellNamed
  <1>7. QED
    BY <1>3, <1>4, <1>5, <1>6 DEF ToList

\* The steps of a call that is under way and goes on, but listFiles and those of
\* the removal: what they do to the frames.
Quietly ==
  /\ Kept /\ UNCHANGED <<files, seen, steady, remote_root, there>>
  /\ pc # "idle" /\ pc' # "idle"

LEMMA CallSteps ==
  ASSUME Call, pc' # "idle"
  PROVE  \/ \E p \in top.dirs : ListDirectory(p)
         \/ \E p \in top.dirs : ListNothing(p)
         \/ \E p \in top.dirs : SweepDirectory(p) \/ SweepNothing(p)
         \/ \E p \in top.others : RemoveFile(p)
         \/ \E p \in top.others : AddFileSize(p) /\ pc = "size" /\ pc' = "size" /\ Quietly
         \/ SweptDirectory
         \/ ListedDirectory
         \/ StartSizes
         \/ OpenSource /\ pc = "walk" /\ Finished /\ pc' = "open" /\ Quietly
         \/ \E root \in RemoteRoots : Transfer(root)
  <1>1. ~SizesDone /\ ~MoveDone /\ \A root : ~Refused(root) /\ ~RefusedOnFailure(root)
    BY DEF SizesDone, MoveDone, Refused, RefusedOnFailure, ReturnWith
  <1>2. ASSUME NEW p \in top.others, AddFileSize(p)
        PROVE  pc = "size" /\ pc' = "size" /\ Quietly
    BY <1>2 DEF AddFileSize, ReturnWith, Quietly, Kept, filesetVars, memberVars
  <1>3. ASSUME OpenSource
        PROVE  pc = "walk" /\ Finished /\ pc' = "open" /\ Quietly
    BY <1>3 DEF OpenSource, ReturnWith, Quietly, Kept, filesetVars, memberVars
  <1>4. QED
    BY <1>1, <1>2, <1>3 DEF Call

LEMMA KeptInCall ==
  ASSUME [Next]_vars, pc' # "idle"
  PROVE  Kept
  <1>1. CASE Operation
    <2>1. Edit /\ pc' = pc /\ pc = "idle"
      BY <1>1 DEF Operation, Free, NullFileset, Create, SetRoot, SetXferSize, SetProviderId,
                  RegisterFile, DeregisterFile, RegisterDirectory, DeregisterDirectory,
                  RegisterMetadata, DeregisterMetadata, Edit, callVars
    <2>2. QED
      BY <2>1
  <1>2. CASE Call
    BY <1>2, CallSteps DEF ListDirectory, ListNothing, SweepDirectory, SweepNothing, RemoveFile,
       SweptDirectory, ListedDirectory, StartSizes, Transfer, Quietly, Kept, filesetVars, memberVars
  <1>3. QED
    BY <1>1, <1>2 DEF Next, StartWalk, Others, Appear, Vanish, Terminated, vars, Kept,
                      filesetVars, memberVars

LEMMA OpenedDirectory ==
  ASSUME Types, WellNamed, NEW p \in Text
  PROVE  Canonical(m_root \o <<Slash>> \o p) = Canonical(m_root \o p)
  BY DoubleSlash DEF Types, FilesetTypes, WellNamed

\* What listFiles finds in one directory.
LEMMA ListDirectoryFinds ==
  ASSUME Types, WellNamed, FrameInv, NEW p \in top.dirs, ListDirectory(p)
  PROVE  LET dir == m_root \o <<Slash>> \o p
             q   == m_root \o p
             new == AsDirs(Under(p, Entries(dir, "dir")))
         IN  /\ p \in Text /\ q \in Text /\ Reached(q) /\ Canonical(dir) = Canonical(q)
             /\ files' = files \cup Under(p, Entries(dir, "reg"))
             /\ frames # <<>> /\ FrameType
             /\ frames' = Append(PopFrom("dirs", p), Frame(p, new, {}))
             /\ Frame(p, new, {}) \in FrameRecord
             /\ Frame(p, new, {}).dirs = new
  <1> DEFINE dir == m_root \o <<Slash>> \o p
             q   == m_root \o p
             new == AsDirs(Under(p, Entries(dir, "dir")))
  <1>1. frames # <<>> /\ FrameType
    BY TopNotEmpty DEF Types, CallTypes
  <1>2. p \in Text
    BY <1>1, TopIs DEF FrameRecord
  <1>3. q \in Text /\ Canonical(dir) = Canonical(q)
    BY <1>2, JoinFacts, OpenedDirectory DEF Types, FilesetTypes
  <1>4. Reached(q)
    <2>1. /\ Len(frames) \in DOMAIN frames /\ p \in frames[Len(frames)].dirs
      BY <1>1, TopIs
    <2>2. pc = "walk"
      BY DEF ListDirectory
    <2>3. QED
      BY <2>1, <2>2 DEF FrameInv
  <1>5. /\ files' = files \cup Under(p, Entries(dir, "reg"))
        /\ frames' = Append(PopFrom("dirs", p), Frame(p, new, {}))
    BY DEF ListDirectory, ListedTypes
  <1>6. new \in SUBSET Text
    BY <1>2, EntriesType, UnderText, AsDirsText DEF Types, WorldTypes
  <1>7. Frame(p, new, {}) \in FrameRecord /\ Frame(p, new, {}).dirs = new
    BY <1>2, <1>6, FrameIs
  <1>8. QED
    BY <1>1, <1>2, <1>3, <1>4, <1>5, <1>7

\* What remains to be done when listFiles cannot open a directory.
LEMMA ListNothingFinds ==
  ASSUME Types, WellNamed, FrameInv, NEW p \in top.dirs, ListNothing(p)
  PROVE  LET q == m_root \o p
         IN  /\ p \in Text /\ q \in Text /\ Reached(q)
             /\ Canonical(q) \in unlisted'
             /\ frames # <<>> /\ FrameType
             /\ frames' = Append(PopFrom("dirs", p), Frame(p, {}, {}))
             /\ Frame(p, {}, {}) \in FrameRecord
             /\ Frame(p, {}, {}).dirs = {}
  <1> DEFINE dir == m_root \o <<Slash>> \o p
             q   == m_root \o p
  <1>1. frames # <<>> /\ FrameType
    BY TopNotEmpty DEF Types, CallTypes
  <1>2. p \in Text
    BY <1>1, TopIs DEF FrameRecord
  <1>3. q \in Text /\ Canonical(dir) = Canonical(q)
    BY <1>2, JoinFacts, OpenedDirectory DEF Types, FilesetTypes
  <1>4. Reached(q)
    <2>1. /\ Len(frames) \in DOMAIN frames /\ p \in frames[Len(frames)].dirs
      BY <1>1, TopIs
    <2>2. pc = "walk"
      BY DEF ListNothing
    <2>3. QED
      BY <2>1, <2>2 DEF FrameInv
  <1>5. Canonical(dir) \in unlisted' /\ frames' = Append(PopFrom("dirs", p), Frame(p, {}, {}))
    BY DEF ListNothing
  <1>6. Frame(p, {}, {}) \in FrameRecord /\ Frame(p, {}, {}).dirs = {}
    BY <1>2, FrameIs
  <1>7. QED
    BY <1>1, <1>2, <1>3, <1>4, <1>5, <1>6

LEMMA SoundStep ==
  ASSUME Types, TreeInv, WellNamed, FrameInv, Sound, [Next]_vars, pc' # "idle"
  PROVE  Sound'
  <1>1. Kept
    BY KeptInCall
  <1>2. m_root' = m_root
    BY <1>1 DEF Kept
  <1>3. ASSUME files' = files, seen \subseteq seen', pc # "idle"
        PROVE  Sound'
    BY <1>1, <1>2, <1>3, KeptSame DEF Sound
  <1>4. ASSUME NEW t, StartWalk(t)
        PROVE  Sound'
    <2>1. files' = m_files
      BY <1>4 DEF StartWalk
    <2>2. ASSUME NEW n \in m_files
          PROVE  Registered(Canonical(m_root \o n))'
      BY <1>1, <1>2 DEF Registered, Kept
    <2>3. QED
      BY <1>2, <2>1, <2>2 DEF Sound
  <1>5. ASSUME NEW p \in top.dirs, ListDirectory(p)
        PROVE  Sound'
    <2> DEFINE dir == m_root \o <<Slash>> \o p
               q == m_root \o p
               names == Under(p, Entries(dir, "reg"))
    <2>1. /\ p \in Text /\ q \in Text /\ Reached(q) /\ Canonical(dir) = Canonical(q)
          /\ files' = files \cup names /\ seen' = seen /\ pc # "idle"
      BY <1>5, ListDirectoryFinds DEF ListDirectory, worldVars
    <2>2. EndsInSlash(q) /\ disk \subseteq DOMAIN Kind /\ m_root \in Text
      BY <2>1 DEF Reached, Types, WorldTypes, FilesetTypes
    <2>3. ASSUME NEW n \in names
          PROVE  LET c == Canonical(m_root \o n) IN c \in seen /\ ToList(c)
      <3>1. PICK x \in Found(dir, "reg") : n = p \o Base(x)
        <4> HIDE DEF dir
        <4>1. QED
          BY <2>1, <2>2, Listing DEF names
      <3>2. Canonical(m_root \o n) = x
        <4> HIDE DEF dir
        <4>1. QED
          BY <2>1, <2>2, <3>1, Listing
      <3>3. x \in disk /\ Type[x] = "reg"
        BY DEF Found
      <3>4. Below(x)
        <4> HIDE DEF dir, q
        <4>1. QED
          BY <2>1, FoundBelow
      <3>5. x \in seen
        BY <2>1, <3>3 DEF TreeInv
      <3>6. QED
        BY <3>2, <3>3, <3>4, <3>5 DEF ToList
    <2> HIDE DEF names
    <2>4. QED
      BY <1>1, <1>2, <2>1, <2>3, KeptSame DEF Sound
  <1>6. CASE Call
    <2>1. CASE Quietly
      BY <1>3, <2>1 DEF Quietly
    <2>2. CASE \/ SweptDirectory \/ ListedDirectory \/ StartSizes
               \/ \E root \in RemoteRoots : Transfer(root)
               \/ \E p \in top.dirs : ListNothing(p)
               \/ \E p \in top.dirs : SweepDirectory(p) \/ SweepNothing(p)
               \/ \E p \in top.others : RemoveFile(p)
      <3>1. files' = files /\ seen' = seen /\ pc # "idle"
        BY <2>2 DEF SweptDirectory, ListedDirectory, StartSizes, Transfer, ListNothing,
                    SweepDirectory, SweepNothing, RemoveFile, ReturnWith, worldVars
      <3>2. QED
        BY <1>3, <3>1
    <2>3. QED
      BY <1>5, <1>6, <2>1, <2>2, CallSteps
  <1>7. CASE Operation
    <2>1. pc' = "idle"
      BY <1>7 DEF Operation, Free, NullFileset, Create, SetRoot, SetXferSize, SetProviderId,
                  RegisterFile, DeregisterFile, RegisterDirectory, DeregisterDirectory,
                  RegisterMetadata, DeregisterMetadata, Edit, callVars
    <2>2. QED
      BY <2>1
  <1>8. CASE Others
    <2>1. files' = files /\ seen \subseteq seen' /\ pc # "idle"
      BY <1>8 DEF Others, Appear, Vanish, callVars
    <2>2. QED
      BY <1>3, <2>1
  <1>9. CASE UNCHANGED vars
    BY <1>3, <1>9 DEF vars, callVars, worldVars
  <1>10. QED
    BY <1>4, <1>6, <1>7, <1>8, <1>9 DEF Next, Terminated

\* The directory that is entered has the entries that are still to be listed, or
\* has the directories that they lie in.
LEMMA EnteredDirectory ==
  ASSUME Types, TreeInv, pc = "walk", NEW dir, NEW c \in Text, Canonical(dir) = c,
         NEW e \in steady, Visible(e, c), Type[e] = "reg"
  PROVE  \/ e \in Found(dir, "reg")
         \/ \E x \in Found(dir, "dir") : Visible(e, x)
  <1>1. steady \in SUBSET DOMAIN Kind /\ steady \subseteq disk
    BY DEF Types, WorldTypes, TreeInv
  <1>2. Closed(steady)
    BY <1>1 DEF TreeInv, Closed, ParentOf
  <1>3. /\ c \in steady /\ Kind[c] = "dir"
        /\ \E x \in steady \ {<<>>} : /\ Parent(x) = c /\ ~Hidden(x)
                                      /\ \/ x = e
                                         \/ Kind[x] = "dir" /\ x \notin Untyped /\ Visible(e, x)
    BY <1>1, <1>2, Descend
  <1>4. IsDir(dir)
    BY <1>1, <1>3 DEF IsDir
  <1>5. PICK x \in steady \ {<<>>} : /\ Parent(x) = c /\ ~Hidden(x)
                                     /\ \/ x = e
                                        \/ Kind[x] = "dir" /\ x \notin Untyped /\ Visible(e, x)
    BY <1>3
  <1>6. x \in disk \ {<<>>} /\ (x = e \/ (Type[x] = "dir" /\ Visible(e, x)))
    BY <1>1, <1>5, TypeIs
  <1>7. QED
    BY <1>4, <1>5, <1>6 DEF Found

LEMMA CompleteStep ==
  ASSUME Types, TreeInv, WellNamed, FrameInv, Complete, [Next]_vars, pc' # "idle",
         pc # "idle" => Remembered
  PROVE  Complete'
  <1>1. Kept
    BY KeptInCall
  <1>2. m_root' = m_root
    BY <1>1 DEF Kept
  <1>3. ASSUME NEW e, files \subseteq files'
        PROVE  Listed(e) => Listed(e)'
    BY <1>2, <1>3 DEF Listed
  <1>15. pc # "idle" => \A e : Missed(e) => Missed(e)'
    BY DEF Remembered, Missed
  <1>4. ASSUME files' = files, steady' \subseteq steady, pc # "idle",
               \/ pc' = "walk" /\ frames' = frames /\ pc = "walk"
               \/ pc \in {"size", "open", "sweep"} /\ pc' \in {"size", "open", "sweep"}
        PROVE  Complete'
    BY <1>1, <1>2, <1>3, <1>4, <1>15, KeptSame DEF Complete, Pending
  <1>5. ASSUME NEW t, StartWalk(t)
        PROVE  Complete'
    <2>1. frames' = <<Frame(<<>>, m_directories, {})>> /\ pc' = "walk"
      BY <1>5 DEF StartWalk
    <2>2. 1 \in DOMAIN frames' /\ frames'[1].dirs = m_directories
      BY <2>1 DEF Frame
    <2>3. ASSUME NEW e, ToList(e)
          PROVE  Pending(e)'
      <3>1. PICK d \in m_directories : Visible(e, Canonical(m_root \o d))
        BY <2>3 DEF ToList, Below, Named
      <3>2. QED
        BY <1>2, <2>2, <3>1 DEF Pending
    <2>4. QED
      BY <1>1, <2>1, <2>3, KeptSame DEF Complete
  <1>6. ASSUME NEW p \in top.dirs, ListDirectory(p)
        PROVE  Complete'
    <2> DEFINE dir == m_root \o <<Slash>> \o p
               q == m_root \o p
               c == Canonical(q)
               new == AsDirs(Under(p, Entries(dir, "dir")))
               f == Frame(p, new, {})
               n == Len(frames)
    <2>1. /\ p \in Text /\ q \in Text /\ Reached(q) /\ Canonical(dir) = Canonical(q)
          /\ files' = files \cup Under(p, Entries(dir, "reg"))
          /\ frames # <<>> /\ FrameType
          /\ frames' = Append(PopFrom("dirs", p), f)
          /\ f \in FrameRecord /\ f.dirs = new
      BY <1>6, ListDirectoryFinds
    <2>2. EndsInSlash(q) /\ disk \subseteq DOMAIN Kind /\ m_root \in Text /\ c \in Text
      BY <2>1, CanonicalIs DEF Reached, Types, WorldTypes, FilesetTypes
    <2>3. pc = "walk" /\ pc' = "walk" /\ steady' = steady
      BY <1>6 DEF ListDirectory, worldVars
    <2> HIDE DEF dir, f
    <2>4. /\ n + 1 \in DOMAIN frames' /\ frames'[n + 1] = f
          /\ \A k \in DOMAIN frames : \A s \in frames[k].dirs :
               s = p \/ (k \in DOMAIN frames' /\ s \in frames'[k].dirs)
      BY <2>1, Push DEF Pushed
    <2>6. ASSUME NEW e \in steady, Visible(e, c), Type[e] = "reg"
          PROVE  Listed(e)' \/ Pending(e)'
      <3>1. CASE e \in Found(dir, "reg")
        <4>1. p \o Base(e) \in files' /\ Canonical(m_root \o (p \o Base(e))) = e
          BY <2>1, <2>2, <3>1, Listing
        <4>2. QED
          BY <1>2, <4>1 DEF Listed
      <3>2. CASE \E x \in Found(dir, "dir") : Visible(e, x)
        <4>1. PICK x \in Found(dir, "dir") : Visible(e, x)
          BY <3>2
        <4> DEFINE s == Append(p \o Base(x), Slash)
        <4>2. s \in new /\ Canonical(m_root \o s) = x
          BY <2>1, <2>2, Listing
        <4>3. n + 1 \in DOMAIN frames' /\ s \in frames'[n + 1].dirs
          BY <2>1, <2>4, <4>2
        <4> HIDE DEF s
        <4>4. QED
          BY <1>2, <4>1, <4>2, <4>3 DEF Pending
      <3>3. QED
        BY <2>1, <2>2, <2>3, <2>6, <3>1, <3>2, EnteredDirectory
    <2>7. ASSUME NEW e \in steady, ToList(e), Pending(e)
          PROVE  Listed(e)' \/ Pending(e)'
      <3>1. PICK k \in DOMAIN frames : \E s \in frames[k].dirs : Visible(e, Canonical(m_root \o s))
        BY <2>7 DEF Pending
      <3>2. PICK s \in frames[k].dirs : Visible(e, Canonical(m_root \o s))
        BY <3>1
      <3>3. CASE s = p
        BY <2>6, <2>7, <3>2, <3>3 DEF ToList
      <3>4. CASE s # p
        <4>1. k \in DOMAIN frames' /\ s \in frames'[k].dirs
          BY <2>4, <3>4
        <4>2. QED
          BY <1>2, <3>2, <4>1 DEF Pending
      <3>5. QED
        BY <3>3, <3>4
    <2>8. \A e \in steady : ToList(e) => Listed(e)' \/ Missed(e)' \/ Pending(e)'
      <3>1. files \subseteq files'
        BY <2>1
      <3>2. QED
        BY <1>3, <1>15, <2>3, <2>7, <3>1 DEF Complete
    <2>9. QED
      BY <1>1, <2>3, <2>8, KeptSame DEF Complete
  <1>16. ASSUME NEW p \in top.dirs, ListNothing(p)
         PROVE  Complete'
    <2> DEFINE q == m_root \o p
               f == Frame(p, {}, {})
    <2>1. /\ p \in Text /\ q \in Text /\ Canonical(q) \in unlisted'
          /\ frames # <<>> /\ FrameType
          /\ frames' = Append(PopFrom("dirs", p), f) /\ f \in FrameRecord
      BY <1>16, ListNothingFinds
    <2>2. pc = "walk" /\ pc' = "walk" /\ steady' = steady /\ files' = files
      BY <1>16 DEF ListNothing, worldVars
    <2> HIDE DEF f
    <2>3. \A k \in DOMAIN frames : \A s \in frames[k].dirs :
            s = p \/ (k \in DOMAIN frames' /\ s \in frames'[k].dirs)
      BY <2>1, Push DEF Pushed
    <2>4. ASSUME NEW e \in steady, Pending(e)
          PROVE  Missed(e)' \/ Pending(e)'
      <3>1. PICK k \in DOMAIN frames : \E s \in frames[k].dirs : Visible(e, Canonical(m_root \o s))
        BY <2>4 DEF Pending
      <3>2. PICK s \in frames[k].dirs : Visible(e, Canonical(m_root \o s))
        BY <3>1
      <3>3. CASE s = p
        <4>1. Within(e, Canonical(q))
          BY <3>2, <3>3 DEF Visible
        <4>2. QED
          BY <2>1, <4>1 DEF Missed
      <3>4. CASE s # p
        <4>1. k \in DOMAIN frames' /\ s \in frames'[k].dirs
          BY <2>3, <3>4
        <4>2. QED
          BY <1>2, <3>2, <4>1 DEF Pending
      <3>5. QED
        BY <3>3, <3>4
    <2>5. \A e \in steady : ToList(e) => Listed(e)' \/ Missed(e)' \/ Pending(e)'
      BY <1>3, <1>15, <2>2, <2>4 DEF Complete
    <2>6. QED
      BY <1>1, <2>2, <2>5, KeptSame DEF Complete
  <1>7. CASE ListedDirectory
    <2>1. /\ pc = "walk" /\ pc' = "walk" /\ Len(frames) > 1 /\ top.dirs = {}
          /\ frames' = Front(frames) /\ files' = files /\ steady' = steady
      BY <1>7 DEF ListedDirectory, worldVars
    <2>2. FrameType /\ frames # <<>>
      BY <2>1 DEF Types, CallTypes
    <2>3. /\ DOMAIN frames' = 1 .. Len(frames) - 1
          /\ \A k \in 1 .. Len(frames) - 1 : frames'[k] = frames[k]
      BY <2>1, <2>2, Pop
    <2>4. ASSUME NEW e, Pending(e)
          PROVE  Pending(e)'
      <3>1. PICK k \in 1 .. Len(frames) :
              \E p \in frames[k].dirs : Visible(e, Canonical(m_root \o p))
        BY <2>2, <2>4, TopIs DEF Pending
      <3>2. k # Len(frames) /\ Len(frames) \in Nat
        BY <2>1, <2>2, <3>1, TopIs
      <3>3. k \in DOMAIN frames' /\ frames'[k] = frames[k]
        BY <2>3, <3>2
      <3>4. QED
        BY <1>2, <3>1, <3>3 DEF Pending
    <2>5. QED
      BY <1>1, <1>3, <1>15, <2>1, <2>4, KeptSame DEF Complete
  <1>8. ASSUME pc = "walk", Finished, pc' \in {"size", "open"}, files' = files, steady' = steady
        PROVE  Complete'
    <2>1. \A e : ~Pending(e)
      <3>1. FrameType /\ frames # <<>> /\ Len(frames) = 1 /\ top.dirs = {}
        BY <1>8 DEF Types, CallTypes, Finished
      <3>2. DOMAIN frames = 1 .. 1 /\ frames[1].dirs = {}
        BY <3>1, TopIs
      <3>3. QED
        BY <3>2 DEF Pending
    <2>2. QED
      BY <1>1, <1>3, <1>8, <1>15, <2>1, KeptSame DEF Complete
  <1>9. CASE Call
    <2>1. CASE OpenSource /\ pc = "walk" /\ Finished /\ pc' = "open" /\ Quietly
      BY <1>8, <2>1 DEF Quietly
    <2>2. CASE StartSizes
      BY <1>8, <2>2 DEF StartSizes, worldVars
    <2>3. CASE pc = "size" /\ pc' = "size" /\ Quietly
      BY <1>4, <2>3 DEF Quietly
    <2>4. CASE \/ SweptDirectory \/ \E root \in RemoteRoots : Transfer(root)
               \/ \E p \in top.dirs : SweepDirectory(p) \/ SweepNothing(p)
               \/ \E p \in top.others : RemoveFile(p)
      <3>1. /\ files' = files /\ steady' = steady
            /\ pc \in {"open", "sweep"} /\ pc' = "sweep"
        BY <2>4 DEF SweptDirectory, Transfer, SweepDirectory, SweepNothing, RemoveFile, ReturnWith,
                    worldVars
      <3>2. QED
        BY <1>4, <3>1
    <2>5. QED
      BY <1>6, <1>7, <1>9, <1>16, <2>1, <2>2, <2>3, <2>4, CallSteps
  <1>10. CASE Operation
    <2>1. pc' = "idle"
      BY <1>10 DEF Operation, Free, NullFileset, Create, SetRoot, SetXferSize, SetProviderId,
                   RegisterFile, DeregisterFile, RegisterDirectory, DeregisterDirectory,
                   RegisterMetadata, DeregisterMetadata, Edit, callVars
    <2>2. QED
      BY <2>1
  <1>11. ASSUME pc' = pc, files' = files, frames' = frames, steady' \subseteq steady
         PROVE  Complete'
    <2>1. pc \in {"walk", "size", "open", "sweep"}
      BY <1>11 DEF Types, CallTypes
    <2>2. QED
      BY <1>4, <1>11, <2>1
  <1>12. CASE Others
    <2>1. pc' = pc /\ files' = files /\ frames' = frames /\ steady' \subseteq steady
      BY <1>12 DEF Others, Appear, Vanish, callVars
    <2>2. QED
      BY <1>11, <2>1
  <1>13. CASE UNCHANGED vars
    BY <1>11, <1>13 DEF vars, callVars, worldVars
  <1>14. QED
    BY <1>5, <1>9, <1>10, <1>12, <1>13 DEF Next, Terminated

-----------------------------------------------------------------------------
(* Where the walk and the sweep are                                        *)

\* What readdir gives in a directory that was reached lies in a registered one.
LEMMA ReadBelow ==
  ASSUME Types, NEW r \in Text, NEW p \in Text, Reached(r \o p),
         NEW dir, Canonical(dir) = Canonical(r \o p), NEW kind
  PROVE  LET names == Under(p, Entries(dir, kind)) IN
           /\ \A n \in names : Below(Canonical(r \o n))
           /\ kind = "dir" => \A n \in AsDirs(names) : Reached(r \o n)
  <1> DEFINE names == Under(p, Entries(dir, kind))
  <1>1. disk \subseteq DOMAIN Kind /\ EndsInSlash(r \o p)
    BY DEF Types, WorldTypes, Reached
  <1>2. ASSUME NEW x \in Found(dir, kind)
        PROVE  Below(x)
    <2> DEFINE q == r \o p
    <2>1. Reached(q) /\ Canonical(dir) = Canonical(q)
      OBVIOUS
    <2> HIDE DEF q
    <2>2. QED
      BY <2>1, FoundBelow
  <1>3. ASSUME NEW n \in names
        PROVE  Below(Canonical(r \o n))
    <2>1. PICK x \in Found(dir, kind) : n = p \o Base(x)
      <3>1. Entries(dir, kind) = {Base(x) : x \in Found(dir, kind)}
        BY <1>1, EntriesAre
      <3>2. QED
        BY <3>1 DEF Under
    <2>2. Canonical(r \o (p \o Base(x))) = x
      BY <1>1, Listing
    <2>3. QED
      BY <1>2, <2>1, <2>2
  <1>4. ASSUME kind = "dir", NEW n \in AsDirs(names)
        PROVE  Reached(r \o n)
    <2>1. PICK x \in Found(dir, kind) : n = Append(p \o Base(x), Slash)
      BY <1>1, Listing
    <2>2. /\ Canonical(r \o Append(p \o Base(x), Slash)) = x
          /\ EndsInSlash(r \o Append(p \o Base(x), Slash))
      BY <1>1, Listing
    <2>3. x \in DOMAIN Kind /\ Type[x] = "dir"
      BY <1>1, <1>4 DEF Found
    <2>4. x \notin Untyped
      BY <2>3, TypeIs
    <2>5. QED
      BY <1>2, <2>1, <2>2, <2>4 DEF Reached
  <1>5. QED
    BY <1>3, <1>4

LEMMA NothingJoined ==
  ASSUME NEW p \in Text
  PROVE  <<>> \o p = p
  BY DEF Text

\* The same for any stack, registered directories D and paths S that were sent.
InOne(e, D) == \E d \in D : Visible(e, d)

Into(p, D) ==
  /\ EndsInSlash(p)
  /\ Canonical(p) \in D \/ (InOne(Canonical(p), D) /\ Canonical(p) \notin Untyped)

Walking(fs, r, D) == \A k \in DOMAIN fs : \A p \in fs[k].dirs : Into(r \o p, D)

Sweeping(fs, S, D) ==
  /\ \A k \in DOMAIN fs : \A p \in fs[k].dirs : Into(p, D)
  /\ fs[1].others \subseteq S
  /\ \A k \in DOMAIN fs \ {1} :
       Into(fs[k].path, D) /\ \A p \in fs[k].others : InOne(Canonical(p), D)

Framed ==
  /\ pc = "walk" => Walking(frames, m_root, Named(m_directories))
  /\ pc = "sweep" => Sweeping(frames, SourcePaths, Named(m_directories))

LEMMA InOneIs ==
  /\ \A e : InOne(e, Named(m_directories)) <=> Below(e)
  /\ \A p : Into(p, Named(m_directories)) <=> Reached(p)
  BY DEF InOne, Below, Into, Reached

LEMMA FramedAre == Framed <=> FrameInv
  <1> DEFINE D == Named(m_directories)
  <1>1. /\ \A e : InOne(e, D) <=> Below(e)
        /\ \A p : Into(p, D) <=> Reached(p)
    BY InOneIs
  <1> HIDE DEF D
  <1>2. Walking(frames, m_root, D) <=>
          \A k \in DOMAIN frames : \A p \in frames[k].dirs : Reached(m_root \o p)
    BY <1>1 DEF Walking
  <1>3. Sweeping(frames, SourcePaths, D) <=>
          /\ \A k \in DOMAIN frames : \A p \in frames[k].dirs : Reached(p)
          /\ frames[1].others \subseteq SourcePaths
          /\ \A k \in DOMAIN frames \ {1} :
               Reached(frames[k].path) /\ \A p \in frames[k].others : Below(Canonical(p))
    BY <1>1 DEF Sweeping
  <1>4. QED
    BY <1>2, <1>3 DEF Framed, FrameInv, D

\* A stack with less in it.
LEMMA LessFramed ==
  ASSUME NEW gs, NEW fs, NEW D,
         \A k \in DOMAIN fs :
           /\ k \in DOMAIN gs /\ fs[k].path = gs[k].path
           /\ fs[k].others \subseteq gs[k].others /\ fs[k].dirs \subseteq gs[k].dirs
  PROVE  /\ \A r : Walking(gs, r, D) => Walking(fs, r, D)
         /\ \A S : Sweeping(gs, S, D) /\ 1 \in DOMAIN fs => Sweeping(fs, S, D)
  <1>1. ASSUME NEW r, Walking(gs, r, D)
        PROVE  Walking(fs, r, D)
    BY <1>1 DEF Walking
  <1>2. ASSUME NEW S, Sweeping(gs, S, D), 1 \in DOMAIN fs
        PROVE  Sweeping(fs, S, D)
    BY <1>2 DEF Sweeping
  <1>3. QED
    BY <1>1, <1>2

\* A stack with one more directory.
LEMMA MoreWalking ==
  ASSUME NEW gs, NEW fs, NEW D, NEW f, NEW r, Extended(gs, fs, f),
         Walking(gs, r, D), \A p \in f.dirs : Into(r \o p, D)
  PROVE  Walking(fs, r, D)
  BY DEF Walking, Extended

LEMMA MoreSweeping ==
  ASSUME NEW gs, NEW fs, NEW D, NEW f, NEW S, 1 \in DOMAIN fs, Extended(gs, fs, f),
         Sweeping(gs, S, D), \A p \in f.dirs : Into(p, D),
         Into(f.path, D), \A p \in f.others : InOne(Canonical(p), D)
  PROVE  Sweeping(fs, S, D)
  <1>1. ~ (1 > 1)
    OBVIOUS
  <1>2. fs[1].others = gs[1].others
    BY <1>1 DEF Extended
  <1>3. QED
    BY <1>2 DEF Sweeping, Extended

\* The lowest frame is there.
LEMMA FirstFrame ==
  ASSUME NEW fs \in Seq(FrameRecord), fs # <<>>
  PROVE  1 \in DOMAIN fs
  <1>1. Len(fs) \in Nat /\ Len(fs) # 0 /\ DOMAIN fs = 1 .. Len(fs)
    BY EmptySeq
  <1>2. QED
    BY <1>1

\* The walk begins with the directories that were registered.
LEMMA StartFramed ==
  ASSUME Types, WellNamed, NEW fs, fs = <<Frame(<<>>, m_directories, {})>>
  PROVE  Walking(fs, m_root, Named(m_directories))
  <1>1. \A d \in m_directories : Into(m_root \o d, Named(m_directories))
    BY ReachedDirectory, InOneIs
  <1>2. DOMAIN fs = {1} /\ fs[1].dirs = m_directories
    BY DEF Frame
  <1>3. QED
    BY <1>1, <1>2 DEF Walking

\* So does the sweep, and with the files that were sent.
LEMMA SweepFramed ==
  ASSUME Types, WellNamed, NEW fs,
         fs = <<Frame(<<>>, Under(m_root, m_directories), SourcePaths)>>
  PROVE  Sweeping(fs, SourcePaths, Named(m_directories))
  <1>1. \A p \in Under(m_root, m_directories) : Into(p, Named(m_directories))
    BY ReachedDirectory, InOneIs DEF Under
  <1>2. /\ DOMAIN fs = {1} /\ fs[1].dirs = Under(m_root, m_directories)
        /\ fs[1].others = SourcePaths
    BY DEF Frame
  <1>3. QED
    BY <1>1, <1>2 DEF Sweeping

LEMMA ListFramed ==
  ASSUME Types, WellNamed, FrameInv, NEW p \in top.dirs, ListDirectory(p)
  PROVE  Walking(frames', m_root, Named(m_directories))
  <1> DEFINE D == Named(m_directories)
             dir == m_root \o <<Slash>> \o p
             new == AsDirs(Under(p, Entries(dir, "dir")))
             f == Frame(p, new, {})
             fs == frames'
  <1>1. /\ p \in Text /\ Reached(m_root \o p) /\ Canonical(dir) = Canonical(m_root \o p)
        /\ frames # <<>> /\ FrameType
        /\ fs = Append(PopFrom("dirs", p), f)
        /\ f \in FrameRecord /\ f.dirs = new
    BY ListDirectoryFinds
  <1>2. m_root \in Text /\ pc = "walk"
    BY DEF Types, FilesetTypes, ListDirectory
  <1>3. \A n \in new : Into(m_root \o n, D)
    <2> HIDE DEF dir
    <2>1. \A n \in new : Reached(m_root \o n)
      BY <1>1, <1>2, ReadBelow
    <2>2. QED
      BY <2>1, InOneIs
  <1>4. Walking(frames, m_root, D)
    BY <1>2, FramedAre DEF Framed
  <1> HIDE DEF dir, f, fs, D, new
  <1>5. Pushed(fs, p, f)
    BY <1>1, Push
  <1>6. 1 \in DOMAIN fs /\ 1 \in DOMAIN frames
    BY <1>1, <1>5, FirstFrame DEF FrameType, Pushed
  <1>7. Walking(fs, m_root, D)
    BY <1>1, <1>3, <1>4, <1>5, MoreWalking DEF Pushed
  <1>8. QED
    BY <1>7 DEF fs, D

LEMMA SweepDirectoryFramed ==
  ASSUME Types, WellNamed, FrameInv, NEW p \in top.dirs, SweepDirectory(p)
  PROVE  Sweeping(frames', SourcePaths, Named(m_directories))
  <1> DEFINE D == Named(m_directories)
             new == AsDirs(Under(p, Entries(p, "dir")))
             others == UNION {Under(p, Entries(p, k)) : k \in SweptTypes}
             f == Frame(p, new, others)
             fs == frames'
             S == SourcePaths
  <1>1. frames # <<>> /\ FrameType
    BY TopNotEmpty DEF Types, CallTypes
  <1>2. p \in Text
    BY <1>1, TopIs DEF FrameRecord
  <1>3. pc = "sweep" /\ fs = Append(PopFrom("dirs", p), f)
    BY DEF SweepDirectory
  <1>4. Sweeping(frames, S, D)
    BY <1>3, FramedAre DEF Framed
  <1>5. Into(p, D) /\ Reached(p)
    <2>1. Len(frames) \in DOMAIN frames /\ p \in frames[Len(frames)].dirs
      BY <1>1, TopIs
    <2>2. QED
      BY <1>4, <2>1, InOneIs DEF Sweeping
  <1>6. <<>> \in Text /\ <<>> \o p = p
    BY <1>2, NothingJoined, SlashText
  <1>7. ASSUME NEW k
        PROVE  /\ Under(p, Entries(p, k)) \in SUBSET Text
               /\ \A n \in Under(p, Entries(p, k)) : Below(Canonical(<<>> \o n))
               /\ k = "dir" => \A n \in AsDirs(Under(p, Entries(p, k))) : Reached(<<>> \o n)
    <2>1. disk \subseteq DOMAIN Kind
      BY DEF Types, WorldTypes
    <2>2. Under(p, Entries(p, k)) \in SUBSET Text
      BY <1>2, <2>1, EntriesType, UnderText
    <2>3. \A n \in Under(p, Entries(p, k)) : Below(Canonical(<<>> \o n))
      BY <1>2, <1>5, <1>6, ReadBelow
    <2>4. k = "dir" => \A n \in AsDirs(Under(p, Entries(p, k))) : Reached(<<>> \o n)
      BY <1>2, <1>5, <1>6, ReadBelow
    <2>5. QED
      BY <2>2, <2>3, <2>4
  <1>8. new \in SUBSET Text /\ others \in SUBSET Text
    BY <1>7, AsDirsText
  <1>9. \A n \in new : Into(n, D)
    <2>1. ASSUME NEW n \in new
          PROVE  Reached(n)
      <3>1. n \in Text /\ Reached(<<>> \o n)
        BY <1>7, <1>8
      <3>2. QED
        BY <3>1, NothingJoined
    <2>2. QED
      BY <2>1, InOneIs
  <1>10. \A n \in others : InOne(Canonical(n), D)
    <2>1. ASSUME NEW n \in others
          PROVE  Below(Canonical(n))
      <3>1. n \in Text /\ Below(Canonical(<<>> \o n))
        BY <1>7, <1>8
      <3>2. QED
        BY <3>1, NothingJoined
    <2>2. QED
      BY <2>1, InOneIs
  <1> HIDE DEF new, others, S, D
  <1>11. f \in FrameRecord /\ f.path = p /\ f.dirs = new /\ f.others = others
    BY <1>2, <1>8, FrameIs
  <1> HIDE DEF f, fs
  <1>12. Pushed(fs, p, f)
    BY <1>1, <1>3, <1>11, Push
  <1>13. 1 \in DOMAIN fs /\ 1 \in DOMAIN frames
    BY <1>1, <1>12, FirstFrame DEF FrameType, Pushed
  <1>14. Sweeping(fs, S, D)
    BY <1>4, <1>5, <1>9, <1>10, <1>11, <1>12, <1>13, MoreSweeping DEF Pushed
  <1>15. QED
    BY <1>14 DEF fs, S, D

\* A directory that cannot be opened leads no further.
LEMMA NothingFramed ==
  ASSUME Types, WellNamed, FrameInv, NEW p \in top.dirs, ListNothing(p) \/ SweepNothing(p)
  PROVE  /\ pc = "walk" => Walking(frames', m_root, Named(m_directories))
         /\ pc = "sweep" => Sweeping(frames', SourcePaths, Named(m_directories))
  <1> DEFINE D == Named(m_directories)
             f == Frame(p, {}, {})
             fs == frames'
             S == SourcePaths
  <1>1. frames # <<>> /\ FrameType
    BY TopNotEmpty DEF Types, CallTypes
  <1>2. p \in Text /\ Len(frames) \in DOMAIN frames /\ p \in frames[Len(frames)].dirs
    BY <1>1, TopIs DEF FrameRecord
  <1>3. fs = Append(PopFrom("dirs", p), f)
    BY DEF ListNothing, SweepNothing
  <1>4. /\ pc = "walk" => Walking(frames, m_root, D)
        /\ pc = "sweep" => Sweeping(frames, S, D)
    BY FramedAre DEF Framed
  <1>5. f \in FrameRecord /\ f.path = p /\ f.dirs = {} /\ f.others = {}
    BY <1>2, FrameIs
  <1> HIDE DEF S, D, f, fs
  <1>6. Pushed(fs, p, f)
    BY <1>1, <1>3, <1>5, Push
  <1>7. 1 \in DOMAIN fs
    BY <1>6, FirstFrame DEF Pushed
  <1>8. pc = "walk" => Walking(fs, m_root, D)
    BY <1>4, <1>5, <1>6, MoreWalking DEF Pushed
  <1>9. ASSUME pc = "sweep"
        PROVE  Sweeping(fs, S, D)
    <2>1. Sweeping(frames, S, D) /\ Into(p, D)
      BY <1>2, <1>4, <1>9 DEF Sweeping
    <2>2. QED
      BY <1>5, <1>6, <1>7, <2>1, MoreSweeping DEF Pushed
  <1>10. QED
    BY <1>8, <1>9 DEF fs, S, D

LEMMA FrameStep ==
  ASSUME Types, WellNamed, FrameInv, [Next]_vars, pc' # "idle"
  PROVE  Framed'
  <1> DEFINE D == Named(m_directories)
             fs == frames'
  <1>1. Kept
    BY KeptInCall
  <1>2. m_root' = m_root /\ D' = D
    BY <1>1 DEF Kept, Named
  <1>3. files' = files => SourcePaths' = SourcePaths
    BY <1>2 DEF SourcePaths
  <1>4. /\ pc = "walk" => Walking(frames, m_root, D)
        /\ pc = "sweep" => Sweeping(frames, SourcePaths, D)
        /\ FrameType /\ (pc # "idle" => frames # <<>>)
    BY FramedAre DEF Framed, Types, CallTypes
  <1>5. ASSUME /\ pc' = "walk" => Walking(fs, m_root, D)
               /\ pc' = "sweep" => files' = files /\ Sweeping(fs, SourcePaths, D)
        PROVE  Framed'
    BY <1>2, <1>3, <1>5 DEF Framed
  <1> HIDE DEF D
  <1>6. ASSUME pc' = pc, files' = files, fs = frames
        PROVE  Framed'
    BY <1>4, <1>5, <1>6
  <1> HIDE DEF fs
  <1>7. ASSUME NEW t, StartWalk(t)
        PROVE  Framed'
    <2>1. pc' = "walk" /\ fs = <<Frame(<<>>, m_directories, {})>>
      BY <1>7 DEF StartWalk, fs
    <2>2. Walking(fs, m_root, D)
      BY <2>1, StartFramed DEF D
    <2>3. QED
      BY <1>5, <2>1, <2>2
  <1>8. ASSUME NEW p \in top.dirs, ListDirectory(p)
        PROVE  Framed'
    <2>1. pc' = "walk"
      BY <1>8 DEF ListDirectory
    <2>2. Walking(fs, m_root, D)
      BY <1>8, ListFramed DEF D, fs
    <2>3. QED
      BY <1>5, <2>1, <2>2
  <1>9. ASSUME NEW p \in top.dirs, SweepDirectory(p)
        PROVE  Framed'
    <2>1. pc' = "sweep" /\ files' = files
      BY <1>9 DEF SweepDirectory
    <2>2. Sweeping(fs, SourcePaths, D)
      BY <1>9, SweepDirectoryFramed DEF D, fs
    <2>3. QED
      BY <1>5, <2>1, <2>2
  <1>10. ASSUME pc' = pc, files' = files, pc # "idle", fs \in Seq(FrameRecord), fs # <<>>,
                \A k \in DOMAIN fs :
                  /\ k \in DOMAIN frames /\ fs[k].path = frames[k].path
                  /\ fs[k].others \subseteq frames[k].others /\ fs[k].dirs \subseteq frames[k].dirs
         PROVE  Framed'
    <2>1. 1 \in DOMAIN fs
      BY <1>10, FirstFrame
    <2>2. pc = "walk" => Walking(fs, m_root, D)
      BY <1>4, <1>10, LessFramed
    <2>3. pc = "sweep" => Sweeping(fs, SourcePaths, D)
      BY <1>4, <1>10, <2>1, LessFramed
    <2>4. QED
      BY <1>5, <1>10, <2>2, <2>3
  <1>11. CASE ListedDirectory \/ SweptDirectory
    <2>1. /\ pc' = pc /\ files' = files /\ pc # "idle" /\ Len(frames) > 1
          /\ fs = Front(frames)
      BY <1>11 DEF ListedDirectory, SweptDirectory, fs
    <2>2. /\ fs \in Seq(FrameRecord) /\ fs # <<>> /\ DOMAIN fs = 1 .. Len(frames) - 1
          /\ \A k \in 1 .. Len(frames) - 1 : fs[k] = frames[k]
      BY <1>4, <2>1, Pop
    <2>3. \A k \in 1 .. Len(frames) - 1 : k \in DOMAIN frames
      <3>1. Len(frames) \in Nat /\ DOMAIN frames = 1 .. Len(frames)
        BY <1>4, <2>1, TopIs
      <3>2. QED
        BY <3>1
    <2>4. QED
      BY <1>10, <2>1, <2>2, <2>3
  <1>12. ASSUME NEW p \in top.others, RemoveFile(p)
         PROVE  Framed'
    <2>1. pc' = pc /\ files' = files /\ pc # "idle" /\ fs = PopFrom("others", p)
      BY <1>12 DEF RemoveFile, fs
    <2>2. /\ fs \in Seq(FrameRecord) /\ Len(fs) = Len(frames)
          /\ \A k \in 1 .. Len(frames) :
               /\ fs[k].path = frames[k].path /\ fs[k].dirs = frames[k].dirs
               /\ fs[k].others = IF k = Len(frames) THEN frames[k].others \ {p}
                                                    ELSE frames[k].others
      BY <1>4, <2>1, PopOthers
    <2>3. Len(frames) \in Nat \ {0} /\ DOMAIN frames = 1 .. Len(frames)
      BY <1>4, <2>1, TopIs
    <2>4. fs # <<>> /\ DOMAIN fs = DOMAIN frames
      BY <2>2, <2>3
    <2>5. \A k \in DOMAIN fs :
            /\ k \in DOMAIN frames /\ fs[k].path = frames[k].path
            /\ fs[k].others \subseteq frames[k].others /\ fs[k].dirs \subseteq frames[k].dirs
      BY <2>2, <2>3, <2>4
    <2>6. QED
      BY <1>10, <2>1, <2>2, <2>4, <2>5
  <1>13. ASSUME NEW root, Transfer(root)
         PROVE  Framed'
    <2>1. /\ pc' = "sweep" /\ files' = files
          /\ fs = <<Frame(<<>>, Under(m_root, m_directories), SourcePaths)>>
      BY <1>13 DEF Transfer, ReturnWith, fs
    <2>2. Sweeping(fs, SourcePaths, D)
      BY <2>1, SweepFramed DEF D
    <2>3. QED
      BY <1>5, <2>1, <2>2
  <1>14. CASE Call
    <2>1. CASE StartSizes \/ (pc' = "size" \/ pc' = "open")
      BY <1>5, <2>1 DEF StartSizes
    <2>2. ASSUME NEW p \in top.dirs, ListNothing(p) \/ SweepNothing(p)
          PROVE  Framed'
      <3>1. pc' = pc /\ files' = files
        BY <2>2 DEF ListNothing, SweepNothing
      <3>2. /\ pc = "walk" => Walking(fs, m_root, D)
            /\ pc = "sweep" => Sweeping(fs, SourcePaths, D)
        BY <2>2, NothingFramed DEF D, fs
      <3>3. QED
        BY <1>5, <3>1, <3>2
    <2>3. QED
      BY <1>8, <1>9, <1>11, <1>12, <1>13, <1>14, <2>1, <2>2, CallSteps
  <1>15. CASE Operation
    <2>1. pc' = "idle"
      BY <1>15 DEF Operation, Free, NullFileset, Create, SetRoot, SetXferSize, SetProviderId,
                   RegisterFile, DeregisterFile, RegisterDirectory, DeregisterDirectory,
                   RegisterMetadata, DeregisterMetadata, Edit, callVars
    <2>2. QED
      BY <2>1
  <1>16. CASE Others \/ UNCHANGED vars
    <2>1. pc' = pc /\ files' = files /\ fs = frames
      BY <1>16 DEF Others, Appear, Vanish, vars, callVars, fs
    <2>2. QED
      BY <1>6, <2>1 DEF fs
  <1>17. QED
    BY <1>7, <1>14, <1>15, <1>16 DEF Next, Terminated

-----------------------------------------------------------------------------
(* What has arrived                                                        *)

LEMMA ArrivedStep ==
  ASSUME Types, ArrivedInv, [Next]_vars, pc' # "idle"
  PROVE  ArrivedInv'
  <1>1. ASSUME pc' = "sweep" => pc = "sweep" /\ UNCHANGED <<files, remote_root, there>>
        PROVE  ArrivedInv'
    BY <1>1 DEF ArrivedInv
  <1>2. ASSUME NEW given \in RemoteRoots, Transfer(given)
        PROVE  ArrivedInv'
    <2> DEFINE root == WithSlash(given)
    <2>1. /\ files' = files /\ remote_root' = root
          /\ OpenAll(Under(root, files)).ok /\ there' = OpenAll(Under(root, files)).tree
      BY <1>2 DEF Transfer, ReturnWith
    <2>2. \A p \in Under(root, files) : Canonical(p) \in there'.files
      BY <2>1, TargetsText
    <2> HIDE DEF root
    <2>3. \A n \in files : Canonical(root \o n) \in there'.files
      BY <2>2 DEF Under
    <2>4. QED
      BY <2>1, <2>3 DEF ArrivedInv
  <1>3. CASE Call
    <2>1. CASE \E p \in top.dirs : ListDirectory(p) \/ ListNothing(p)
      BY <1>1, <2>1 DEF ListDirectory, ListNothing
    <2>2. CASE \/ \E p \in top.dirs : SweepDirectory(p) \/ SweepNothing(p)
               \/ \E p \in top.others : RemoveFile(p)
               \/ SweptDirectory
      BY <1>1, <2>2 DEF SweepDirectory, SweepNothing, RemoveFile, SweptDirectory, worldVars
    <2>3. CASE ListedDirectory \/ StartSizes \/ pc' = "size" \/ pc' = "open"
      BY <1>1, <2>3 DEF ListedDirectory, StartSizes
    <2>4. QED
      BY <1>2, <1>3, <2>1, <2>2, <2>3, CallSteps
  <1>4. CASE Operation
    <2>1. pc' = "idle"
      BY <1>4 DEF Operation, Free, NullFileset, Create, SetRoot, SetXferSize, SetProviderId,
                  RegisterFile, DeregisterFile, RegisterDirectory, DeregisterDirectory,
                  RegisterMetadata, DeregisterMetadata, Edit, callVars
    <2>2. QED
      BY <2>1
  <1>5. CASE \E t \in {"size", "full size", "copy", "move"} : StartWalk(t)
    BY <1>1, <1>5 DEF StartWalk
  <1>6. CASE Others \/ UNCHANGED vars
    BY <1>1, <1>6 DEF Others, Appear, Vanish, vars, callVars, worldVars
  <1>7. QED
    BY <1>3, <1>4, <1>5, <1>6 DEF Next, Terminated

-----------------------------------------------------------------------------
(* The names that are found                                                *)

LEMMA StripRelative ==
  ASSUME NEW p \in Text
  PROVE  Relative(Strip(p))
  <1> DEFINE I == {i \in 1 .. Len(p) : p[i] # Slash}
             first == SelectInSeq(p, LAMBDA t : t # Slash)
  <1>1. Len(p) \in Nat
    BY TextFacts
  <1>2. first = IF I # {} THEN Min(I) ELSE 0
    BY DEF SelectInSeq
  <1>3. Strip(p) = IF first = 0 THEN <<>> ELSE SubSeq(p, first, Len(p))
    BY DEF Strip
  <1> HIDE DEF first
  <1>4. CASE first = 0
    BY <1>3, <1>4 DEF Relative
  <1>5. CASE first # 0
    <2>1. I \in SUBSET Nat /\ I # {}
      BY <1>2, <1>5
    <2>2. first \in I
      <3> HIDE DEF I
      <3>1. QED
        BY <1>2, <2>1, LeastMember
    <2>3. first \in 1 .. Len(p) /\ p[first] # Slash
      BY <2>2
    <2>4. first \in 1 .. Len(p) + 1 /\ Len(p) \in first - 1 .. Len(p) /\ 1 \in 1 .. Len(p) - first + 1
      BY <1>1, <2>3
    <2> DEFINE q == SubSeq(p, first, Len(p))
    <2>5. \A k \in 1 .. Len(p) - first + 1 : q[k] = p[first + k - 1]
      BY <2>4, SubText
    <2>6. first + 1 - 1 = first
      BY <2>3
    <2>7. q[1] = p[first]
      BY <2>4, <2>5, <2>6
    <2>8. Strip(p) = q
      BY <1>3, <1>5
    <2> HIDE DEF q
    <2>9. QED
      BY <2>3, <2>7, <2>8 DEF Relative
  <1>6. QED
    BY <1>4, <1>5

\* What readdir shows in a directory is spelled as plainly as the directory.
LEMMA ListedPlain ==
  ASSUME disk \subseteq DOMAIN Kind, NEW p \in Text, Relative(p), NEW dir, NEW kind
  PROVE  LET names == Under(p, Entries(dir, kind)) IN
         /\ \A n \in names : Relative(n) /\ (PlainDirectory(p) => Canonical(n) = n)
         /\ \A n \in AsDirs(names) : Relative(n) /\ (PlainDirectory(p) => PlainDirectory(n))
  <1> DEFINE names == Under(p, Entries(dir, kind))
  <1>1. ASSUME NEW b \in Entries(dir, kind)
        PROVE  b \in Text /\ Len(b) # 0 /\ \A i \in 1 .. Len(b) : b[i] # Slash
    <2>1. PICK x \in Found(dir, kind) : b = Base(x)
      BY EntriesAre
    <2>2. x \in DOMAIN Kind \ {<<>>}
      BY DEF Found
    <2>3. PICK l : /\ l \in 1 .. Len(x) - 1 /\ x \in Text
                   /\ Base(x) \in Text /\ Len(Base(x)) = Len(x) - l
                   /\ \A k \in 1 .. Len(x) - l : Base(x)[k] = x[l + k] /\ x[l + k] # Slash
      BY <2>2, EntryParts
    <2>4. Len(b) # 0
      BY <2>1, <2>3, TextFacts
    <2>5. QED
      BY <2>1, <2>3, <2>4
  <1>2. ASSUME NEW b \in Entries(dir, kind)
        PROVE  /\ Relative(p \o b) /\ (PlainDirectory(p) => Canonical(p \o b) = p \o b)
               /\ Relative(Append(p \o b, Slash))
               /\ PlainDirectory(p) => PlainDirectory(Append(p \o b, Slash))
    BY <1>1, PlainBelow
  <1>3. \A n \in names : Relative(n) /\ (PlainDirectory(p) => Canonical(n) = n)
    BY <1>2 DEF Under
  <1>4. \A n \in AsDirs(names) : Relative(n) /\ (PlainDirectory(p) => PlainDirectory(n))
    BY <1>2 DEF AsDirs, Under
  <1>5. QED
    BY <1>3, <1>4

\* The names on the stack, for any stack.
Spelled(fs, plain) ==
  \A k \in DOMAIN fs : \A p \in fs[k].dirs : Relative(p) /\ (plain => PlainDirectory(p))

LEMMA OperationNames ==
  ASSUME Types, NamesInv, Operation
  PROVE  NamesInv'
  <1>1. Edit /\ pc' = "idle"
    BY DEF Operation, Free, NullFileset, Create, SetRoot, SetXferSize, SetProviderId,
           RegisterFile, DeregisterFile, RegisterDirectory, DeregisterDirectory,
           RegisterMetadata, DeregisterMetadata, Edit, callVars
  <1>2. \A n \in m_files \cup m_directories : Relative(n)
    BY DEF NamesInv
  <1>3. \A name \in FileNames \cup DirNames : Relative(Strip(name))
    BY ArgumentsText, StripRelative
  <1>4. \A n \in m_files' \cup m_directories' : Relative(n)
    <2>1. ASSUME NEW root, Create(root)
          PROVE  \A n \in m_files' \cup m_directories' : Relative(n)
      BY <1>2, <2>1 DEF Create, filesetVars, memberVars
    <2>2. ASSUME NEW name \in FileNames, RegisterFile(name) \/ DeregisterFile(name)
          PROVE  \A n \in m_files' \cup m_directories' : Relative(n)
      BY <1>2, <1>3, <2>2 DEF RegisterFile, DeregisterFile
    <2>3. ASSUME NEW name \in DirNames, RegisterDirectory(name) \/ DeregisterDirectory(name)
          PROVE  \A n \in m_files' \cup m_directories' : Relative(n)
      BY <1>2, <1>3, <2>3 DEF RegisterDirectory, DeregisterDirectory
    <2>4. CASE UNCHANGED <<m_files, m_directories>>
      BY <1>2, <2>4
    <2>5. QED
      BY <2>1, <2>2, <2>3, <2>4 DEF Operation, Free, NullFileset, SetRoot, SetXferSize,
         SetProviderId, RegisterMetadata, DeregisterMetadata, filesetVars, memberVars
  <1>5. QED
    BY <1>1, <1>4 DEF NamesInv, Relative

\* Neither what is registered nor what is found begins with a slash, and it is
\* spelled plainly where what is registered is.
LEMMA NamesStep ==
  ASSUME Types, NamesInv, [Next]_vars
  PROVE  NamesInv'
  <1> DEFINE fs == frames'
  <1>1. \A n \in m_files \cup m_directories : Relative(n)
    BY DEF NamesInv
  <1>2. /\ pc # "idle" => /\ m_files \subseteq files /\ \A n \in files : Relative(n)
                          /\ PlainNames => \A n \in files : Canonical(n) = n
        /\ pc = "walk" => Spelled(frames, PlainNames)
    BY DEF NamesInv, Spelled
  <1>3. PlainNames => /\ \A n \in m_files : Canonical(n) = n
                      /\ \A d \in m_directories : PlainDirectory(d)
    BY DEF PlainNames, PlainDirectory
  <1>4. CASE Operation
    BY <1>4, OperationNames
  <1>5. ASSUME pc' = "idle", ~Operation
        PROVE  NamesInv'
    <2>1. \/ UNCHANGED <<m_files, m_directories>>
          \/ pc # "idle" /\ m_files' = files /\ m_directories' = {}
      <3>1. ASSUME NEW root, Refused(root) \/ RefusedOnFailure(root)
            PROVE  pc # "idle" /\ m_files' = files /\ m_directories' = {}
        BY <3>1 DEF Refused, RefusedOnFailure, KeptAsSent
      <3>2. QED
        BY <1>5, <3>1 DEF Next, Call, Others, Terminated, StartWalk, ListDirectory, ListNothing,
           SweepDirectory, SweepNothing, AddFileSize, RemoveFile, ListedDirectory, StartSizes,
           SizesDone, OpenSource, SweptDirectory, MoveDone, Transfer, Appear, Vanish, vars,
           filesetVars, memberVars
    <2>2. \A n \in m_files' \cup m_directories' : Relative(n)
      BY <1>1, <1>2, <2>1
    <2>3. QED
      BY <1>5, <2>2 DEF NamesInv, Relative
  <1>6. ASSUME pc' # "idle",
               /\ m_files \subseteq files' /\ \A n \in files' : Relative(n)
               /\ PlainNames => \A n \in files' : Canonical(n) = n,
               pc' = "walk" => Spelled(fs, PlainNames)
        PROVE  NamesInv'
    <2>1. m_files' = m_files /\ m_directories' = m_directories
      BY <1>6, KeptInCall DEF Kept
    <2>2. PlainNames' <=> PlainNames
      BY <2>1 DEF PlainNames
    <2>3. QED
      BY <1>1, <1>6, <2>1, <2>2 DEF NamesInv, Spelled, Relative, PlainDirectory
  <1> HIDE DEF fs
  <1>7. ASSUME pc' # "idle", pc # "idle", files' = files, pc' = "walk" => Spelled(fs, PlainNames)
        PROVE  NamesInv'
    BY <1>2, <1>6, <1>7
  <1>8. ASSUME NEW t, StartWalk(t)
        PROVE  NamesInv'
    <2>1. pc' = "walk" /\ files' = m_files /\ fs = <<Frame(<<>>, m_directories, {})>>
      BY <1>8 DEF StartWalk, fs
    <2>2. DOMAIN fs = {1} /\ fs[1].dirs = m_directories
      BY <2>1 DEF Frame
    <2>3. Spelled(fs, PlainNames)
      BY <1>1, <1>3, <2>2 DEF Spelled
    <2>4. QED
      BY <1>1, <1>3, <1>6, <2>1, <2>3
  <1>9. ASSUME NEW p \in top.dirs, ListDirectory(p), pc' # "idle"
        PROVE  NamesInv'
    <2> DEFINE dir == m_root \o <<Slash>> \o p
               new == AsDirs(Under(p, Entries(dir, "dir")))
               found == Under(p, Entries(dir, "reg"))
               f == Frame(p, new, {})
    <2>1. /\ pc = "walk" /\ files' = files \cup found
          /\ fs = Append(PopFrom("dirs", p), f)
      BY <1>9 DEF ListDirectory, ListedTypes, fs
    <2>2. frames # <<>> /\ FrameType /\ disk \subseteq DOMAIN Kind
      BY TopNotEmpty DEF Types, CallTypes, WorldTypes
    <2>3. p \in Text /\ Len(frames) \in DOMAIN frames /\ p \in frames[Len(frames)].dirs
      BY <2>2, TopIs DEF FrameRecord
    <2>4. Relative(p) /\ (PlainNames => PlainDirectory(p))
      BY <1>2, <2>1, <2>3 DEF Spelled
    <2>5. /\ \A n \in found : Relative(n) /\ (PlainNames => Canonical(n) = n)
          /\ \A n \in new : Relative(n) /\ (PlainNames => PlainDirectory(n))
      <3> HIDE DEF dir
      <3>1. QED
        BY <2>2, <2>3, <2>4, ListedPlain
    <2>6. new \in SUBSET Text
      BY <2>2, <2>3, EntriesType, UnderText, AsDirsText
    <2> HIDE DEF new, found
    <2>7. f \in FrameRecord /\ f.dirs = new
      BY <2>3, <2>6, FrameIs
    <2> HIDE DEF f
    <2>8. Extended(frames, fs, f)
      BY <2>1, <2>2, <2>7, Push DEF Pushed
    <2>9. Spelled(fs, PlainNames)
      BY <1>2, <2>1, <2>5, <2>7, <2>8 DEF Spelled, Extended
    <2>10. QED
      BY <1>2, <1>6, <1>9, <2>1, <2>5, <2>9
  <1>10. CASE ListedDirectory /\ pc' # "idle"
    <2>1. pc = "walk" /\ pc' = "walk" /\ files' = files /\ Len(frames) > 1 /\ fs = Front(frames)
      BY <1>10 DEF ListedDirectory, fs
    <2>2. FrameType /\ frames # <<>>
      BY <2>1 DEF Types, CallTypes
    <2>3. /\ DOMAIN fs = 1 .. Len(frames) - 1 /\ \A k \in 1 .. Len(frames) - 1 : fs[k] = frames[k]
          /\ Len(frames) \in Nat /\ DOMAIN frames = 1 .. Len(frames)
      BY <2>1, <2>2, Pop, TopIs
    <2>4. \A k \in DOMAIN fs : k \in DOMAIN frames /\ fs[k] = frames[k]
      BY <2>3
    <2>5. Spelled(fs, PlainNames)
      BY <1>2, <2>1, <2>4 DEF Spelled
    <2>6. QED
      BY <1>7, <2>1, <2>5
  <1>14. ASSUME NEW p \in top.dirs, ListNothing(p), pc' # "idle"
         PROVE  NamesInv'
    <2> DEFINE f == Frame(p, {}, {})
    <2>1. pc = "walk" /\ files' = files /\ fs = Append(PopFrom("dirs", p), f)
      BY <1>14 DEF ListNothing, fs
    <2>2. frames # <<>> /\ FrameType
      BY TopNotEmpty DEF Types, CallTypes
    <2>3. p \in Text
      BY <2>2, TopIs DEF FrameRecord
    <2>4. f \in FrameRecord /\ f.dirs = {}
      BY <2>3, FrameIs
    <2> HIDE DEF f
    <2>5. Extended(frames, fs, f)
      BY <2>1, <2>2, <2>4, Push DEF Pushed
    <2>6. Spelled(fs, PlainNames)
      BY <1>2, <2>1, <2>4, <2>5 DEF Spelled, Extended
    <2>7. QED
      BY <1>7, <1>14, <2>1, <2>6
  <1>11. CASE Call /\ pc' # "idle"
    <2>1. CASE \/ \E p \in top.dirs : SweepDirectory(p) \/ SweepNothing(p)
               \/ \E p \in top.others : RemoveFile(p)
               \/ SweptDirectory
               \/ \E root \in RemoteRoots : Transfer(root)
      BY <1>7, <1>11, <2>1
      DEF SweepDirectory, SweepNothing, RemoveFile, SweptDirectory, Transfer, ReturnWith
    <2>2. CASE \/ \E p \in top.others : AddFileSize(p) /\ pc = "size" /\ pc' = "size" /\ Quietly
               \/ OpenSource /\ pc = "walk" /\ Finished /\ pc' = "open" /\ Quietly
      BY <1>7, <1>11, <2>2 DEF Quietly
    <2>3. CASE StartSizes
      BY <1>7, <1>11, <2>3 DEF StartSizes
    <2>4. QED
      BY <1>9, <1>10, <1>11, <1>14, <2>1, <2>2, <2>3, CallSteps
  <1>12. CASE (Others \/ UNCHANGED vars) /\ pc' # "idle"
    <2>1. pc' = pc /\ files' = files /\ fs = frames
      BY <1>12 DEF Others, Appear, Vanish, vars, callVars, fs
    <2>2. QED
      BY <1>2, <1>7, <1>12, <2>1
  <1>13. QED
    BY <1>4, <1>5, <1>8, <1>11, <1>12 DEF Next, Terminated

-----------------------------------------------------------------------------
(* The sizes that have been added                                          *)

Sized ==
  pc = "size" =>
    /\ DOMAIN frames = {1} /\ Len(frames) = 1 /\ frames[1].others \subseteq SourcePaths
    /\ WellNamed /\ PlainNames => Counted \subseteq DOMAIN Kind /\ size = TotalSize(Counted)

LEMMA SizedIs ==
  ASSUME Types
  PROVE  Sized <=> SizeInv
  <1>1. ASSUME pc = "size", Len(frames) = 1
        PROVE  DOMAIN frames = {1}
    <2>1. FrameType /\ frames # <<>>
      BY <1>1 DEF Types, CallTypes
    <2>2. DOMAIN frames = 1 .. 1
      BY <1>1, <2>1, TopIs
    <2>3. QED
      BY <2>2
  <1>2. QED
    BY <1>1 DEF Sized, SizeInv

\* One more file, other than those before, has been counted.
LEMMA AddFileSizeCounts ==
  ASSUME Types, NamesInv, Sized, NEW p \in top.others, AddFileSize(p), pc' # "idle"
  PROVE  /\ pc = "size" /\ pc' = "size" /\ Len(frames') = 1 /\ DOMAIN frames' = {1}
         /\ frames'[1].others = frames[1].others \ {p} /\ frames[1].others \subseteq SourcePaths
         /\ p \in SourcePaths /\ Canonical(p) \in DOMAIN Kind
         /\ size' = size + Size[Canonical(p)]
         /\ WellNamed /\ PlainNames =>
              /\ Named(files) \ {Canonical(q) : q \in frames'[1].others} = Counted \cup {Canonical(p)}
              /\ Canonical(p) \notin Counted
  <1>1. /\ pc = "size" /\ pc' = "size" /\ CanOpen(p) /\ size' = size + Size[Canonical(p)]
        /\ frames' = PopFrom("others", p)
    BY DEF AddFileSize, ReturnWith
  <1>2. DOMAIN frames = {1} /\ Len(frames) = 1 /\ frames[1].others \subseteq SourcePaths
    BY <1>1 DEF Sized
  <1>3. FrameType /\ frames # <<>> /\ top = frames[1]
    BY <1>1, <1>2, TopIs DEF Types, CallTypes
  <1>4. Len(frames') = 1 /\ DOMAIN frames' = {1} /\ frames'[1].others = frames[1].others \ {p}
    <2> DEFINE fs == PopFrom("others", p)
    <2>1. fs \in Seq(FrameRecord) /\ Len(fs) = Len(frames)
      BY <1>3, PopOthers
    <2>2. 1 \in 1 .. Len(frames)
      BY <1>2
    <2>3. fs[1].others = frames[1].others \ {p}
      BY <1>2, <1>3, <2>2, PopOthers
    <2> HIDE DEF fs
    <2>4. DOMAIN fs = 1 .. 1
      BY <1>2, <2>1
    <2>5. QED
      BY <1>1, <1>2, <2>1, <2>3, <2>4 DEF fs
  <1>5. p \in SourcePaths
    BY <1>2, <1>3
  <1>6. Canonical(p) \in DOMAIN Kind
    BY <1>1 DEF CanOpen, Exists, Types, WorldTypes
  <1>7. ASSUME WellNamed, PlainNames, NEW q \in SourcePaths, NEW t \in SourcePaths,
               Canonical(q) = Canonical(t)
        PROVE  q = t
    <2>1. PICK n \in files : q = m_root \o n
      BY DEF SourcePaths, Under
    <2>2. PICK m \in files : t = m_root \o m
      BY DEF SourcePaths, Under
    <2>3. m_root \in Text /\ files \in SUBSET Text /\ EndsInSlash(m_root)
      BY <1>7 DEF Types, FilesetTypes, CallTypes, WellNamed
    <2>4. Plain(n) /\ Plain(m)
      BY <1>1, <1>7 DEF NamesInv, Plain
    <2>5. n = m
      BY <1>7, <2>1, <2>2, <2>3, <2>4, PlainNamesDiffer
    <2>6. QED
      BY <2>1, <2>2, <2>5
  <1>8. ASSUME WellNamed, PlainNames
        PROVE  /\ Named(files) \ {Canonical(q) : q \in frames'[1].others} = Counted \cup {Canonical(p)}
               /\ Canonical(p) \notin Counted
    <2> DEFINE c == Canonical(p)
               A == Named(files)
               B == {Canonical(q) : q \in frames[1].others}
    <2>1. c \in A
      BY <1>5 DEF SourcePaths, Under, Named
    <2>2. c \in B
      BY <1>3
    <2>3. {Canonical(q) : q \in frames[1].others \ {p}} = B \ {c}
      BY <1>2, <1>5, <1>7, <1>8
    <2>4. Counted = A \ B
      BY DEF Counted
    <2> HIDE DEF A, B, c
    <2>5. A \ (B \ {c}) = (A \ B) \cup {c}
      BY <2>1, <2>2
    <2>6. QED
      BY <1>4, <2>2, <2>3, <2>4, <2>5 DEF A, B, c
  <1>9. QED
    BY <1>1, <1>2, <1>4, <1>5, <1>6, <1>8

LEMMA SizedStep ==
  ASSUME Types, NamesInv, Sized, [Next]_vars
  PROVE  Sized'
  <1> DEFINE fs == frames'
             A == Named(files)
             done == A \ {Canonical(p) : p \in fs[1].others}
  <1>1. SUFFICES ASSUME pc' = "size"
                 PROVE  Sized'
    BY DEF Sized
  <1>2. Kept /\ (WellNamed' <=> WellNamed)
    BY <1>1, KeptInCall, KeptSame
  <1>3. PlainNames' <=> PlainNames
    BY <1>2 DEF Kept, PlainNames
  <1>4. ASSUME files' = files, DOMAIN fs = {1}, Len(fs) = 1, fs[1].others \subseteq SourcePaths,
               WellNamed /\ PlainNames => done \subseteq DOMAIN Kind /\ size' = TotalSize(done)
        PROVE  Sized'
    <2>1. m_root' = m_root
      BY <1>2 DEF Kept
    <2>2. SourcePaths' = SourcePaths /\ Counted' = done
      BY <1>4, <2>1 DEF SourcePaths, Counted, Named
    <2> HIDE DEF done
    <2>3. TotalSize(Counted') = TotalSize(done)
      BY <2>2
    <2>4. QED
      BY <1>2, <1>3, <1>4, <2>2, <2>3 DEF Sized, fs
  <1>5. ASSUME NEW p \in top.others, AddFileSize(p)
        PROVE  Sized'
    <2>1. /\ pc = "size" /\ Len(fs) = 1 /\ DOMAIN fs = {1}
          /\ fs[1].others \subseteq SourcePaths
          /\ Canonical(p) \in DOMAIN Kind /\ size' = size + Size[Canonical(p)]
          /\ WellNamed /\ PlainNames => done = Counted \cup {Canonical(p)} /\ Canonical(p) \notin Counted
      BY <1>1, <1>5, AddFileSizeCounts
    <2>2. files' = files
      BY <1>1, <1>5 DEF AddFileSize, ReturnWith
    <2>3. ASSUME WellNamed, PlainNames
          PROVE  done \subseteq DOMAIN Kind /\ size' = TotalSize(done)
      <3>1. Counted \in SUBSET DOMAIN Kind /\ size = TotalSize(Counted)
        BY <2>1, <2>3 DEF Sized
      <3>2. done = Counted \cup {Canonical(p)} /\ Canonical(p) \in DOMAIN Kind \ Counted
        BY <2>1, <2>3
      <3> HIDE DEF done
      <3>3. TotalSize(done) = TotalSize(Counted) + Size[Canonical(p)]
        BY <3>1, <3>2, TotalSizeFacts
      <3>4. QED
        BY <2>1, <3>1, <3>2, <3>3
    <2> HIDE DEF done, fs
    <2>4. QED
      BY <1>4, <2>1, <2>2, <2>3
  <1>6. CASE StartSizes
    <2>1. size' = 0 /\ files' = files /\ fs = <<Frame(<<>>, {}, SourcePaths)>>
      BY <1>6 DEF StartSizes, SourcePaths
    <2>2. DOMAIN fs = {1} /\ Len(fs) = 1 /\ fs[1].others = SourcePaths
      BY <2>1 DEF Frame
    <2>3. A = {Canonical(p) : p \in SourcePaths}
      BY DEF Named, SourcePaths, Under
    <2>4. done = {}
      BY <2>2, <2>3
    <2> HIDE DEF done, fs
    <2>5. done \subseteq DOMAIN Kind /\ size' = TotalSize(done)
      BY <2>1, <2>4, TotalSizeFacts
    <2>6. QED
      BY <1>4, <2>1, <2>2, <2>5
  <1>7. ASSUME pc = "size", UNCHANGED <<files, size, frames>>
        PROVE  Sized'
    <2>1. done = Counted
      BY <1>7 DEF Counted
    <2>2. QED
      BY <1>4, <1>7, <2>1 DEF Sized
  <1>8. CASE Call
    <2>1. ~ (\E p \in top.dirs : ListDirectory(p) \/ ListNothing(p)) /\ ~ListedDirectory
          /\ ~ (\E p \in top.dirs : SweepDirectory(p) \/ SweepNothing(p))
          /\ ~SweptDirectory /\ ~ (\E p \in top.others : RemoveFile(p))
          /\ ~OpenSource /\ ~ (\E root : Transfer(root))
      BY <1>1 DEF ListDirectory, ListNothing, SweepDirectory, SweepNothing, ListedDirectory,
                  SweptDirectory, RemoveFile, OpenSource, Transfer, ReturnWith
    <2>2. QED
      BY <1>1, <1>5, <1>6, <1>8, <2>1, CallSteps
  <1>9. CASE Operation
    <2>1. pc' = "idle"
      BY <1>9 DEF Operation, Free, NullFileset, Create, SetRoot, SetXferSize, SetProviderId,
                  RegisterFile, DeregisterFile, RegisterDirectory, DeregisterDirectory,
                  RegisterMetadata, DeregisterMetadata, Edit, callVars
    <2>2. QED
      BY <1>1, <2>1
  <1>10. CASE \E t \in {"size", "full size", "copy", "move"} : StartWalk(t)
    BY <1>1, <1>10 DEF StartWalk
  <1>11. CASE Others \/ UNCHANGED vars
    BY <1>1, <1>7, <1>11 DEF Others, Appear, Vanish, vars, callVars
  <1>12. QED
    BY <1>8, <1>9, <1>10, <1>11 DEF Next, Terminated

\* When all have been counted, what has been found are the files registered and
\* those that were in a registered directory all the time.
LEMMA AllCounted ==
  ASSUME Types, SoundInv, CompleteInv, NamesInv, Sized, [Next]_vars,
         pc = "size", pc' = "idle", ret' = REMI_SUCCESS, Quiet, unlisted = {}, WellNamed, PlainNames
  PROVE  size' = TotalSize(Named(m_files) \cup Listable(steady))
                 + IF task = "full size" THEN MetadataSize ELSE 0
  <1> DEFINE A == Named(m_files) \cup Listable(steady)
  <1>1. ~Operation /\ ~Others /\ ~UNCHANGED vars
    BY DEF Operation, Free, NullFileset, Create, SetRoot, SetXferSize, SetProviderId,
           RegisterFile, DeregisterFile, RegisterDirectory, DeregisterDirectory,
           RegisterMetadata, DeregisterMetadata, Edit, Others, Appear, Vanish, vars, callVars
  <1>2. Call
    BY <1>1 DEF Next, StartWalk, Terminated
  <1>3. ~ (\E p \in top.others : AddFileSize(p))
    BY DEF AddFileSize, ReturnWith, REMI_SUCCESS, REMI_ERR_IO
  <1>4. SizesDone
    BY <1>2, <1>3 DEF Call, ListDirectory, ListNothing, SweepDirectory, SweepNothing, RemoveFile,
       ListedDirectory, StartSizes, OpenSource, SweptDirectory, MoveDone, Refused,
       RefusedOnFailure, Transfer
  <1>5. Finished /\ size' = IF task = "full size" THEN size + MetadataSize ELSE size
    BY <1>4 DEF SizesDone
  <1>6. size \in Nat /\ size = TotalSize(Counted)
    BY DEF Types, CallTypes, Sized
  <1>7. frames[1].others = {}
    <2>1. FrameType /\ frames # <<>>
      BY DEF Types, CallTypes
    <2>2. QED
      BY <1>5, <2>1, TopIs DEF Finished
  <1>8. Counted = Named(files)
    BY <1>7 DEF Counted
  <1>9. Named(files) = A
    <2>1. Named(files) \subseteq A
      BY DEF SoundInv, Quiet
    <2>2. Listable(steady) \subseteq Named(files)
      BY DEF CompleteInv, Missed
    <2>3. Named(m_files) \subseteq Named(files)
      BY DEF NamesInv, Named
    <2>4. QED
      BY <2>1, <2>2, <2>3
  <1>10. size = TotalSize(A)
    BY <1>6, <1>8, <1>9
  <1> HIDE DEF A
  <1>11. size' = TotalSize(A) + IF task = "full size" THEN MetadataSize ELSE 0
    <2>1. size + 0 = size
      BY <1>6
    <2>2. QED
      BY <1>5, <1>10, <2>1
  <1>12. QED
    BY <1>11 DEF A

-----------------------------------------------------------------------------
(* What the provider opens                                                 *)

\* The files that were opened at the source can be opened at the destination.
LEMMA OpenThere ==
  ASSUME Types, OpenInv, pc = "open", EndsInSlash(m_root),
         \A p \in SourcePaths : Kind[Canonical(p)] # "dir",
         NEW r \in Text, EndsInSlash(r),
         {Canonical(p) : p \in Under(r, files)} \cap (there.dirs \cup there.files) = {},
         \A n \in files, f \in there.files : ~Within(Canonical(r \o n), f)
  PROVE  OpenAll(Under(r, files)).ok
  <1> DEFINE T == Under(r, files)
  <1>1. /\ T \in SUBSET Text /\ IsFiniteSet(T) /\ there \in Trees /\ m_root \in Text
        /\ files \in SUBSET Text
    BY UnderText, UnderFinite DEF Types, FilesetTypes, WorldTypes, CallTypes
  <1>2. \A p \in T : \E n \in files : p = r \o n
    BY DEF Under
  <1>3. \A n \in files : m_root \o n \in SourcePaths
    BY DEF SourcePaths, Under
  <1>4. ASSUME NEW n \in files
        PROVE  ~EndsInSlash(r \o n)
    <2>1. ~EndsInSlash(m_root \o n)
      BY <1>3 DEF OpenInv
    <2>2. n \in Text
      BY <1>1
    <2>3. QED
      BY <1>1, <2>1, <2>2, EndsBehind
  <1>5. ASSUME NEW n \in files, NEW m \in files, Within(Canonical(r \o n), Canonical(r \o m))
        PROVE  FALSE
    <2>1. n \in Text /\ m \in Text
      BY <1>1
    <2>2. Within(Canonical(m_root \o n), Canonical(m_root \o m))
      BY <1>1, <1>5, <2>1, WithinRoot
    <2>3. QED
      BY <1>3, <2>2 DEF OpenInv
  <1>6. NothingInTheWay(T)
    <2>1. ASSUME NEW p \in T
          PROVE  /\ ~EndsInSlash(p) /\ Canonical(p) \notin there.dirs
                 /\ \A f \in there.files : ~Within(Canonical(p), f)
      BY <1>2, <1>4
    <2>2. \A p, q \in T : ~Within(Canonical(p), Canonical(q))
      BY <1>2, <1>5
    <2> HIDE DEF T
    <2>3. QED
      BY <2>1, <2>2 DEF NothingInTheWay
  <1>7. QED
    BY <1>1, <1>6, OpensAll

LEMMA OpenStep ==
  ASSUME Types, TreeInv, OpenInv, [Next]_vars
  PROVE  OpenInv'
  <1>1. SUFFICES ASSUME pc' = "open"
                 PROVE  OpenInv'
    BY DEF OpenInv
  <1>2. ASSUME pc = "open", files' = files
        PROVE  OpenInv'
    <2>1. m_root' = m_root
      BY <1>1, KeptInCall DEF Kept
    <2>2. SourcePaths' = SourcePaths
      BY <1>2, <2>1 DEF SourcePaths, Under
    <2>3. QED
      BY <1>2, <2>2 DEF OpenInv
  <1>3. CASE OpenSource
    <2>1. \A p \in SourcePaths : CanOpen(p)
      BY <1>1, <1>3 DEF OpenSource, ReturnWith
    <2>2. m_root' = m_root /\ files' = files
      BY <1>1, <1>3 DEF OpenSource, ReturnWith, filesetVars, memberVars
    <2>3. SourcePaths' = SourcePaths
      BY <2>2 DEF SourcePaths, Under
    <2>4. disk \in SUBSET DOMAIN Kind /\ SourcePaths \in SUBSET Text
      BY SourceText DEF Types, WorldTypes
    <2>5. Closed(disk)
      BY <2>4 DEF TreeInv, Closed, ParentOf
    <2>6. \A p \in SourcePaths : /\ Canonical(p) \in disk /\ Canonical(p) \in DOMAIN Kind
                                 /\ (EndsInSlash(p) => Kind[Canonical(p)] = "dir")
      BY <2>1, <2>4 DEF CanOpen, Exists, IsDir
    <2>7. ASSUME NEW p \in SourcePaths, NEW q \in SourcePaths, Within(Canonical(p), Canonical(q))
          PROVE  Kind[Canonical(q)] = "dir"
      <3>1. Canonical(q) \in Text /\ Canonical(p) \in disk
        BY <2>4, <2>6, CanonicalIs
      <3>2. QED
        BY <2>4, <2>5, <2>7, <3>1, WithinTree
    <2>8. QED
      BY <2>3, <2>6, <2>7 DEF OpenInv
  <1>4. CASE Call /\ ~OpenSource
    BY <1>1, <1>4, CallSteps DEF ListDirectory, ListNothing, SweepDirectory, SweepNothing,
       RemoveFile, SweptDirectory, ListedDirectory, StartSizes, Transfer, ReturnWith
  <1>5. CASE Operation
    <2>1. pc' = "idle"
      BY <1>5 DEF Operation, Free, NullFileset, Create, SetRoot, SetXferSize, SetProviderId,
                  RegisterFile, DeregisterFile, RegisterDirectory, DeregisterDirectory,
                  RegisterMetadata, DeregisterMetadata, Edit, callVars
    <2>2. QED
      BY <1>1, <2>1
  <1>6. CASE Others \/ UNCHANGED vars
    BY <1>1, <1>2, <1>6 DEF Others, Appear, Vanish, vars, callVars
  <1>7. QED
    BY <1>1, <1>3, <1>4, <1>5, <1>6 DEF Next, StartWalk, Terminated

\* What refuses a file is a file.
LEMMA RefusalHasCause ==
  ASSUME Types, FaultTypes, OpenInv, [Next]_vars, pc = "open", ret' = REMI_ERR_IO, pc' = "idle",
         failures' = failures, EndsInSlash(m_root), \A p \in SourcePaths : Kind[Canonical(p)] # "dir"
  PROVE  \E n \in files, f \in there.files : Within(Canonical(remote_root' \o n), f)
  <1>1. ~Operation /\ ~Others /\ ~UNCHANGED vars
    BY DEF Operation, Free, NullFileset, Create, SetRoot, SetXferSize, SetProviderId,
           RegisterFile, DeregisterFile, RegisterDirectory, DeregisterDirectory,
           RegisterMetadata, DeregisterMetadata, Edit, Others, Appear, Vanish, vars, callVars
  <1>2. Call
    BY <1>1 DEF Next, StartWalk, Terminated
  <1>3. ASSUME NEW given \in RemoteRoots, Transfer(given)
        PROVE  FALSE
    BY <1>3 DEF Transfer, ReturnWith, REMI_SUCCESS, REMI_ERR_IO, REMI_ERR_MIGRATION
  <1>9. ASSUME NEW given \in RemoteRoots, RefusedOnFailure(given)
        PROVE  FALSE
    <2>1. failures \in Nat /\ failures' = failures + 1
      BY <1>9, FilesetAssumption DEF RefusedOnFailure, Fail, FaultTypes
    <2>2. QED
      BY <2>1
  <1>4. PICK given \in RemoteRoots : Refused(given)
    BY <1>2, <1>3, <1>9 DEF Call, ListDirectory, ListNothing, SweepDirectory, SweepNothing,
       RemoveFile, AddFileSize, ListedDirectory, StartSizes, SizesDone, OpenSource,
       SweptDirectory, MoveDone
  <1> DEFINE r == WithSlash(given)
  <1>5. r \in Text /\ EndsInSlash(r)
    BY ArgumentsText, WithSlashFacts
  <1>6. remote_root' = r
    BY <1>4 DEF Refused
  <1>7. /\ {Canonical(p) : p \in Under(r, files)} \cap (there.dirs \cup there.files) = {}
        /\ ~OpenAll(Under(r, files)).ok
    BY <1>4 DEF Refused, ReturnWith, REMI_ERR_IO, REMI_ERR_USER, REMI_ERR_FILE_EXISTS
  <1> HIDE DEF r
  <1>8. QED
    BY <1>5, <1>6, <1>7, OpenThere

-----------------------------------------------------------------------------
(* What the sweep leaves                                                   *)

HeldEntries == {e \in DOMAIN Kind : Held(e)}

\* The same for any stack, registered directories D and entries K, of which some,
\* those in H, are held.
Cleared(x, K, H) == \A e \in K : e = x \/ (Visible(e, x) /\ e \notin Opaque) => e \in H

InFrame(fs, k, x) ==
  \/ Kind[x] # "dir" /\ \E p \in fs[k].others : Canonical(p) = x /\ ~EndsInSlash(p)
  \/ /\ Kind[x] = "dir"
     /\ \/ \E p \in fs[k].dirs : Canonical(p) = x
        \/ k + 1 \in DOMAIN fs /\ Canonical(fs[k + 1].path) = x

Clearing(fs, D, K, H) ==
  /\ Len(fs) > 1 => fs[1].others = {}
  /\ \A d \in K \cap D : Kind[d] = "dir" => InFrame(fs, 1, d) \/ (fs[1].others = {} /\ Cleared(d, K, H))
  /\ \A k \in DOMAIN fs \ {1} : \A x \in K \ {<<>>} :
       Parent(x) = Canonical(fs[k].path) /\ ~Hidden(x) /\ x \notin Opaque => InFrame(fs, k, x) \/ Cleared(x, K, H)

Cleaning ==
  pc = "sweep" /\ Quiet => Clearing(frames, Named(m_directories), disk, HeldEntries)

LEMMA CleaningIs ==
  ASSUME disk \subseteq DOMAIN Kind
  PROVE  Cleaning <=> SweptInv
  <1>1. \A x : Swept(x) <=> Cleared(x, disk, HeldEntries)
    BY DEF Swept, Cleared, HeldEntries
  <1>2. \A k, x : Awaited(k, x) <=> InFrame(frames, k, x)
    BY DEF Awaited, InFrame
  <1>3. \A x \in disk \ {<<>>} : ParentOf[x] = Parent(x)
    BY DEF ParentOf
  <1>4. QED
    BY <1>1, <1>2, <1>3 DEF Cleaning, Clearing, SweptInv

LEMMA ClearedStays ==
  ASSUME NEW K, NEW L \in SUBSET K, NEW H, NEW P, H \subseteq P, NEW x, Cleared(x, K, H)
  PROVE  Cleared(x, L, P)
  BY DEF Cleared

\* The more is held, the less there is to do.
LEMMA ClearingStays ==
  ASSUME NEW fs, NEW D, NEW K, NEW H, NEW P, H \subseteq P, Clearing(fs, D, K, H)
  PROVE  Clearing(fs, D, K, P)
  <1>1. \A x : Cleared(x, K, H) => Cleared(x, K, P)
    BY ClearedStays
  <1>2. QED
    BY <1>1 DEF Clearing

\* An entry is in its directory, and so is what is in the entry.
LEMMA WithinParent ==
  ASSUME NEW y \in DOMAIN Kind \ {<<>>}
  PROVE  /\ Within(y, Parent(y))
         /\ \A h \in Text : Within(h, y) => Within(h, Parent(y))
  <1> DEFINE l == LastSlash(y)
             u == Parent(y)
  <1>1. /\ y \in Text /\ l \in 1 .. Len(y) - 1 /\ y[l] = Slash /\ Len(y) \in Nat
        /\ u \in Text /\ Len(u) = l - 1 /\ \A k \in 1 .. l - 1 : u[k] = y[k]
    BY EntryParts, TextFacts
  <1> HIDE DEF l, u
  <1>2. Within(y, u)
    <2>1. Len(y) >= Len(u) + 2 /\ Len(u) + 1 = l
      BY <1>1
    <2>2. \A k \in 1 .. Len(u) : y[k] = u[k]
      BY <1>1
    <2>3. y[Len(u) + 1] = Slash
      BY <1>1, <2>1
    <2>4. QED
      BY <1>1, <2>1, <2>2, <2>3, WithinIs
  <1>3. ASSUME NEW h \in Text, Within(h, y)
        PROVE  Within(h, u)
    <2>1. /\ Len(h) >= Len(y) + 2 /\ Len(h) \in Nat
          /\ \A k \in 1 .. Len(y) : h[k] = y[k]
      BY <1>1, <1>3, WithinIs, TextFacts
    <2>2. Len(h) >= Len(u) + 2 /\ Len(u) + 1 = l /\ l \in 1 .. Len(y)
      BY <1>1, <2>1
    <2>3. \A k \in 1 .. Len(u) : k \in 1 .. Len(y) /\ k \in 1 .. l - 1
      BY <1>1
    <2>4. \A k \in 1 .. Len(u) : h[k] = u[k]
      BY <1>1, <2>1, <2>3
    <2>5. h[Len(u) + 1] = Slash
      BY <1>1, <2>1, <2>2
    <2>6. QED
      BY <1>1, <2>2, <2>4, <2>5, WithinIs
  <1>4. QED
    BY <1>2, <1>3 DEF u

\* What has a dot is visible from nowhere.
LEMMA HiddenNowhere ==
  ASSUME NEW y \in DOMAIN Kind \ {<<>>}, Hidden(y), NEW d \in Text
  PROVE  ~Visible(y, d)
  <1> DEFINE l == LastSlash(y)
  <1>1. /\ y \in Text /\ l \in 1 .. Len(y) - 1 /\ y[l] = Slash /\ Len(y) \in Nat /\ Len(d) \in Nat
        /\ \A k \in 1 .. Len(y) - l : Base(y)[k] = y[l + k]
        /\ \A k \in 1 .. Len(y) : y[k] = Slash => k <= l
    BY EntryParts, TextFacts, LastSlashIs
  <1> HIDE DEF l
  <1>2. y[l + 1] \in Dotted
    <2>1. 1 \in 1 .. Len(y) - l
      BY <1>1
    <2>2. Base(y)[1] = y[l + 1]
      BY <1>1, <2>1
    <2>3. QED
      BY <2>2 DEF Hidden
  <1>3. SUFFICES ASSUME Visible(y, d)
                 PROVE  FALSE
    OBVIOUS
  <1>4. /\ Len(y) >= Len(d) + 2 /\ y[Len(d) + 1] = Slash
        /\ \A k \in Len(d) + 2 .. Len(y) : y[k - 1] = Slash => y[k] \notin Dotted
    BY <1>1, <1>3, VisibleIs
  <1>5. Len(d) + 1 <= l
    <2>1. Len(d) + 1 \in 1 .. Len(y)
      BY <1>1, <1>4
    <2>2. QED
      BY <1>1, <1>4, <2>1
  <1>6. l + 1 \in Len(d) + 2 .. Len(y) /\ (l + 1) - 1 = l
    BY <1>1, <1>5
  <1>7. y[(l + 1) - 1] = Slash
    BY <1>1, <1>6
  <1>8. QED
    BY <1>2, <1>4, <1>6, <1>7

\* Nothing is in what is not a directory.
LEMMA NothingInside ==
  ASSUME NEW K \in SUBSET DOMAIN Kind, Closed(K), NEW x \in Text, Kind[x] # "dir", NEW e \in K
  PROVE  ~Visible(e, x)
  BY Descend

\* A directory whose contents were swept: what is left of it is held.
LEMMA ClearedUp ==
  ASSUME NEW K \in SUBSET DOMAIN Kind, Closed(K), NEW c \in Text,
         NEW L \in SUBSET K, NEW H, NEW P, H \subseteq P,
         \A x \in K \ {<<>>} : Parent(x) = c /\ ~Hidden(x) /\ x \notin Opaque => Cleared(x, K, H),
         \A y \in L \ {<<>>} : Hidden(y) \/ y \in Opaque \/ y \in P => Parent(y) \in P,
         c \in L => c \in P \/ \E y \in L \ {<<>>} : Parent(y) = c
  PROVE  Cleared(c, L, P)
  <1>1. SUFFICES ASSUME NEW e \in L, e = c \/ (Visible(e, c) /\ e \notin Opaque)
                 PROVE  e \in P
    BY DEF Cleared
  <1>2. CASE e = c /\ c \notin P
    <2>1. PICK y \in L \ {<<>>} : Parent(y) = c
      BY <1>2
    <2>2. Hidden(y) \/ y \in Opaque \/ y \in H
      BY <2>1 DEF Cleared
    <2>3. QED
      BY <1>2, <2>1, <2>2
  <1>3. CASE Visible(e, c) /\ e \notin Opaque
    <2>1. PICK x \in K \ {<<>>} : /\ Parent(x) = c /\ ~Hidden(x)
                                  /\ \/ x = e
                                     \/ Kind[x] = "dir" /\ x \notin Untyped /\ Visible(e, x)
      BY <1>3, Descend
    <2>2. x \notin Opaque
      BY <1>3, <2>1 DEF Opaque
    <2>3. Cleared(x, K, H)
      BY <2>1, <2>2
    <2>4. e \in H
      BY <1>3, <2>1, <2>3 DEF Cleared
    <2>5. QED
      BY <2>4
  <1>4. QED
    BY <1>1, <1>2, <1>3

\* While the sweep goes on, what is held stays held: the obstacles that are removed
\* were registered.
LEMMA HeldStays ==
  ASSUME Kept, Remembered, seen' = seen, disk \subseteq seen, NEW c,
         \/ disk' = disk
         \/ disk' = disk \ {c} /\ (Below(c) \/ c \in Named(m_directories))
  PROVE  HeldEntries \subseteq HeldEntries'
  <1>1. Named(m_directories)' = Named(m_directories)
    BY DEF Kept, Named
  <1>2. Contents(seen)' = Contents(seen)
    BY <1>1 DEF Contents
  <1>3. Below(c) /\ c \in seen => c \in Contents(seen)
    BY DEF Below, Contents
  <1>4. Stuck \subseteq Stuck'
    BY DEF Stuck, Remembered
  <1>5. ASSUME NEW h \in Obstacles
        PROVE  h \in Obstacles'
    <2>1. CASE h \in Stuck \/ h \in seen \cap Opaque
      BY <1>4, <2>1 DEF Obstacles
    <2>2. CASE h \in disk \cup (seen \cap Named(m_directories)) /\ h \notin Contents(seen)
      <3>1. h \in disk' \/ h \in seen \cap Named(m_directories)
        BY <1>3, <2>2
      <3>2. QED
        BY <1>1, <1>2, <2>2, <3>1 DEF Obstacles
    <2>3. QED
      BY <1>5, <2>1, <2>2 DEF Obstacles
  <1>6. QED
    BY <1>4, <1>5 DEF HeldEntries, Held

\* What cannot be seen, or is held itself, holds the directory around it.
LEMMA HeldUp ==
  ASSUME Types, Kept, FaultTypes', seen' = seen, disk' \subseteq disk, disk \subseteq seen, Rooted',
         NEW y \in disk' \ {<<>>}, Hidden(y) \/ y \in Opaque \/ y \in HeldEntries'
  PROVE  Parent(y) \in HeldEntries'
  <1>1. Named(m_directories)' = Named(m_directories) /\ Named(m_directories) \in SUBSET Text
    BY NamedText DEF Kept, Named
  <1>2. y \in DOMAIN Kind \ {<<>>} /\ y \in seen /\ Parent(y) \in DOMAIN Kind
    BY DEF Types, WorldTypes, Rooted, ParentOf
  <1>3. Within(y, Parent(y)) /\ \A h \in Text : Within(h, y) => Within(h, Parent(y))
    BY <1>2, WithinParent
  <1>4. Obstacles' \in SUBSET Text
    <2>1. \A e \in DOMAIN Kind : e \in Text
      BY FilesetAssumption DEF Paths, Text, Piece
    <2>2. Obstacles' \in SUBSET DOMAIN Kind
      BY DEF Obstacles, Stuck, Types, WorldTypes, FaultTypes
    <2>3. QED
      BY <2>1, <2>2
  <1>5. CASE y \in Obstacles'
    BY <1>2, <1>3, <1>5 DEF HeldEntries, Held
  <1>6. CASE Hidden(y)
    <2>1. y \notin Contents(seen)'
      BY <1>1, <1>2, <1>6, HiddenNowhere DEF Contents
    <2>2. QED
      BY <1>5, <2>1 DEF Obstacles
  <1>7. CASE y \in Opaque
    BY <1>2, <1>5, <1>7 DEF Obstacles
  <1>8. CASE y \in HeldEntries'
    <2>1. y \in Stuck' \/ \E h \in Obstacles' : Within(h, y)
      BY <1>8 DEF HeldEntries, Held
    <2>2. CASE y \in Stuck'
      BY <1>5, <2>2 DEF Obstacles
    <2>3. CASE \E h \in Obstacles' : Within(h, y)
      BY <1>2, <1>3, <1>4, <2>3 DEF HeldEntries, Held
    <2>4. QED
      BY <2>1, <2>2, <2>3
  <1>9. QED
    BY <1>6, <1>7, <1>8

\* remove() of what readdir gave as a file, unless it fails.
LEMMA FileGoes ==
  ASSUME Rooted, disk \subseteq DOMAIN Kind, NEW p, TryRemove(p), ~EndsInSlash(p),
         Kind[Canonical(p)] # "dir"
  PROVE  Canonical(p) \notin disk' \/ Canonical(p) \in unremoved'
  <1>1. CASE Canonical(p) \in disk
    <2>1. Exists(p)
      BY <1>1 DEF Exists
    <2>2. Children(Canonical(p)) = {}
      BY DEF Children, Rooted
    <2>3. QED
      BY <2>1, <2>2 DEF TryRemove, Unlink
  <1>2. CASE Canonical(p) \notin disk
    BY <1>2, UnlinkIs
  <1>3. QED
    BY <1>1, <1>2

\* The sweep begins with all registered directories.
LEMMA ClearingBegins ==
  ASSUME NEW fs, DOMAIN fs = {1}, Len(fs) = 1, fs[1].dirs = Under(m_root, m_directories),
         NEW K, NEW H
  PROVE  Clearing(fs, Named(m_directories), K, H)
  <1>1. ASSUME NEW d \in Named(m_directories), Kind[d] = "dir"
        PROVE  InFrame(fs, 1, d)
    <2>1. PICK n \in m_directories : d = Canonical(m_root \o n)
      BY DEF Named
    <2>2. m_root \o n \in fs[1].dirs
      BY DEF Under
    <2>3. QED
      BY <1>1, <2>1, <2>2 DEF InFrame
  <1>2. ~ (1 > 1) /\ DOMAIN fs \ {1} = {}
    OBVIOUS
  <1>3. QED
    BY <1>1, <1>2 DEF Clearing

LEMMA Depths ==
  \A n \in Nat \ {0} : 1 \in 1 .. n /\ (n # 1 => n > 1) /\ \A k \in 1 .. n : k # 1 => n # 1
  OBVIOUS

\* A file of the innermost call is removed.
LEMMA ClearingFile ==
  ASSUME NEW gs, NEW fs, NEW D, NEW K, NEW L \in SUBSET K, NEW H, NEW P, NEW p,
         Len(gs) \in Nat \ {0}, Len(fs) = Len(gs),
         DOMAIN gs = 1 .. Len(gs), DOMAIN fs = 1 .. Len(gs),
         p \in gs[Len(gs)].others,
         \A k \in 1 .. Len(gs) :
           /\ fs[k].path = gs[k].path /\ fs[k].dirs = gs[k].dirs
           /\ fs[k].others = IF k = Len(gs) THEN gs[k].others \ {p} ELSE gs[k].others,
         ~EndsInSlash(p) /\ Kind[Canonical(p)] # "dir" =>
           Canonical(p) \notin L \/ Cleared(Canonical(p), L, P),
         Len(gs) > 1 => H \subseteq P,
         Clearing(gs, D, K, H)
  PROVE  Clearing(fs, D, L, P)
  <1> DEFINE n == Len(gs)
  <1>1. 1 \in 1 .. n /\ (n # 1 => n > 1) /\ \A k \in 1 .. n : k # 1 => n # 1
    BY Depths
  <1>2. /\ n > 1 => gs[1].others = {}
        /\ \A d \in K \cap D : Kind[d] = "dir" => InFrame(gs, 1, d) \/ (gs[1].others = {} /\ Cleared(d, K, H))
        /\ \A k \in 1 .. n \ {1} : \A x \in K \ {<<>>} :
             Parent(x) = Canonical(gs[k].path) /\ ~Hidden(x) /\ x \notin Opaque => InFrame(gs, k, x) \/ Cleared(x, K, H)
    BY DEF Clearing
  <1>3. n > 1 => fs[1].others = {}
    BY <1>1, <1>2
  <1>4. ASSUME NEW k \in 1 .. n, NEW x \in L, InFrame(gs, k, x), Kind[x] = "dir" \/ ~Cleared(x, L, P)
        PROVE  InFrame(fs, k, x)
    <2>1. CASE Kind[x] = "dir"
      <3>1. k + 1 \in DOMAIN fs => fs[k + 1].path = gs[k + 1].path
        OBVIOUS
      <3>2. QED
        BY <1>4, <2>1, <3>1 DEF InFrame
    <2>2. CASE Kind[x] # "dir"
      <3>1. PICK q \in gs[k].others : Canonical(q) = x /\ ~EndsInSlash(q)
        BY <1>4, <2>2 DEF InFrame
      <3>2. q # p
        BY <1>4, <2>2, <3>1
      <3>3. q \in fs[k].others
        BY <3>1, <3>2
      <3>4. QED
        BY <2>2, <3>1, <3>3 DEF InFrame
    <2>3. QED
      BY <2>1, <2>2
  <1>5. ASSUME n > 1, NEW x, Cleared(x, K, H)
        PROVE  Cleared(x, L, P)
    BY <1>5, ClearedStays
  <1>6. ASSUME NEW d \in L \cap D, Kind[d] = "dir"
        PROVE  InFrame(fs, 1, d) \/ (fs[1].others = {} /\ Cleared(d, L, P))
    <2>1. CASE InFrame(gs, 1, d)
      BY <1>1, <1>4, <1>6, <2>1
    <2>2. CASE gs[1].others = {} /\ Cleared(d, K, H)
      <3>1. n > 1
        BY <1>1, <2>2
      <3>2. QED
        BY <1>3, <1>5, <2>2, <3>1
    <2>3. QED
      BY <1>2, <1>6, <2>1, <2>2
  <1>7. ASSUME NEW k \in 1 .. n \ {1}, NEW x \in L \ {<<>>},
               Parent(x) = Canonical(fs[k].path), ~Hidden(x), x \notin Opaque
        PROVE  InFrame(fs, k, x) \/ Cleared(x, L, P)
    <2>1. k \in 1 .. n /\ k # 1
      OBVIOUS
    <2>2. fs[k].path = gs[k].path
      BY <2>1
    <2>3. n > 1
      BY <1>1, <2>1
    <2>4. QED
      BY <1>2, <1>4, <1>5, <1>7, <2>1, <2>2, <2>3
  <1>8. QED
    BY <1>3, <1>6, <1>7 DEF Clearing

\* removeRec calls itself: what readdir finds is what it has to remove.
LEMMA ClearingEntered ==
  ASSUME NEW gs, NEW fs, NEW D, NEW K, NEW H, NEW p, NEW f,
         Len(gs) \in Nat \ {0}, DOMAIN gs = 1 .. Len(gs), PushedOn(gs, fs, p, f), f.path = p,
         p \in gs[Len(gs)].dirs, Len(gs) = 1 => gs[1].others = {},
         \A x \in K \ {<<>>} : Parent(x) = Canonical(p) /\ ~Hidden(x) /\ x \notin Opaque =>
           \/ Kind[x] = "dir" /\ \E q \in f.dirs : Canonical(q) = x
           \/ Kind[x] # "dir" /\ \E q \in f.others : Canonical(q) = x /\ ~EndsInSlash(q)
           \/ Cleared(x, K, H),
         Clearing(gs, D, K, H)
  PROVE  Clearing(fs, D, K, H)
  <1> DEFINE n == Len(gs)
             m == n + 1
  <1>1. n \in Nat /\ 1 \in 1 .. n /\ (n # 1 => n > 1) /\ n + 1 \in 1 .. n + 1 /\ n \in 1 .. n
        /\ (\A k \in 1 .. n + 1 : k \in 1 .. n \/ k = n + 1)
        /\ (\A k \in 1 .. n : k \in 1 .. n + 1)
    <2>1. n \in Nat \ {0}
      OBVIOUS
    <2> HIDE DEF n
    <2>2. QED
      BY <2>1
  <1>2. /\ n > 1 => gs[1].others = {}
        /\ \A d \in K \cap D : Kind[d] = "dir" => InFrame(gs, 1, d) \/ (gs[1].others = {} /\ Cleared(d, K, H))
        /\ \A k \in 1 .. n \ {1} : \A x \in K \ {<<>>} :
             Parent(x) = Canonical(gs[k].path) /\ ~Hidden(x) /\ x \notin Opaque => InFrame(gs, k, x) \/ Cleared(x, K, H)
    BY DEF Clearing
  <1>3. /\ DOMAIN fs = 1 .. m /\ fs[m] = f
        /\ \A k \in 1 .. n :
             /\ fs[k].path = gs[k].path /\ fs[k].others = gs[k].others
             /\ fs[k].dirs = IF k = n THEN gs[k].dirs \ {p} ELSE gs[k].dirs
    BY DEF PushedOn
  <1>4. fs[1].others = {}
    BY <1>1, <1>2, <1>3
  <1>5. ASSUME NEW k \in 1 .. n, NEW x, InFrame(gs, k, x)
        PROVE  InFrame(fs, k, x)
    <2>1. CASE Kind[x] # "dir"
      BY <1>3, <1>5, <2>1 DEF InFrame
    <2>2. CASE Kind[x] = "dir" /\ k = n /\ Canonical(p) = x
      <3>1. n + 1 \in DOMAIN fs /\ fs[n + 1].path = p
        BY <1>1, <1>3
      <3>2. QED
        BY <2>2, <3>1 DEF InFrame
    <2>3. CASE Kind[x] = "dir" /\ \E q \in gs[k].dirs : Canonical(q) = x /\ (k # n \/ q # p)
      <3>1. \E q \in fs[k].dirs : Canonical(q) = x
        BY <1>3, <2>3
      <3>2. QED
        BY <2>3, <3>1 DEF InFrame
    <2>4. CASE Kind[x] = "dir" /\ k + 1 \in DOMAIN gs /\ Canonical(gs[k + 1].path) = x
      <3>1. k + 1 \in DOMAIN fs /\ fs[k + 1].path = gs[k + 1].path
        BY <1>1, <1>3, <2>4
      <3>2. QED
        BY <2>4, <3>1 DEF InFrame
    <2>5. QED
      BY <1>5, <2>1, <2>2, <2>3, <2>4 DEF InFrame
  <1>6. ASSUME NEW d \in K \cap D, Kind[d] = "dir"
        PROVE  InFrame(fs, 1, d) \/ (fs[1].others = {} /\ Cleared(d, K, H))
    BY <1>1, <1>2, <1>4, <1>5, <1>6
  <1>7. ASSUME NEW k \in 1 .. m \ {1}, NEW x \in K \ {<<>>},
               Parent(x) = Canonical(fs[k].path), ~Hidden(x), x \notin Opaque
        PROVE  InFrame(fs, k, x) \/ Cleared(x, K, H)
    <2>1. CASE k \in 1 .. n
      <3>1. k \in 1 .. n \ {1} /\ Parent(x) = Canonical(gs[k].path)
        BY <1>3, <1>7, <2>1
      <3>2. QED
        BY <1>2, <1>5, <1>7, <3>1
    <2>2. CASE k = m
      <3>1. fs[k] = f /\ Parent(x) = Canonical(p)
        BY <1>3, <1>7, <2>2
      <3>2. QED
        BY <1>7, <3>1 DEF InFrame
    <2>3. QED
      BY <1>1, <2>1, <2>2
  <1>8. QED
    BY <1>3, <1>4, <1>6, <1>7 DEF Clearing

\* The innermost call returns.
LEMMA ClearingLeft ==
  ASSUME NEW gs, NEW fs, NEW D, NEW K, NEW L \in SUBSET K, NEW H, NEW P, H \subseteq P,
         Len(gs) \in Nat, Len(gs) > 1, DOMAIN gs = 1 .. Len(gs),
         DOMAIN fs = 1 .. Len(gs) - 1, \A k \in 1 .. Len(gs) - 1 : fs[k] = gs[k],
         LET c == Canonical(gs[Len(gs)].path) IN Kind[c] = "dir" => Cleared(c, L, P),
         Clearing(gs, D, K, H)
  PROVE  Clearing(fs, D, L, P)
  <1> DEFINE n == Len(gs)
             l == n - 1
             c == Canonical(gs[n].path)
  <1>1. n \in Nat /\ 1 \in 1 .. l /\ (\A k \in 1 .. l : k \in 1 .. n)
        /\ (\A k \in 1 .. l : k + 1 \in 1 .. n /\ (k + 1 # n => k + 1 \in 1 .. l))
    OBVIOUS
  <1>2. /\ gs[1].others = {}
        /\ \A d \in K \cap D : Kind[d] = "dir" => InFrame(gs, 1, d) \/ (gs[1].others = {} /\ Cleared(d, K, H))
        /\ \A k \in 1 .. n \ {1} : \A x \in K \ {<<>>} :
             Parent(x) = Canonical(gs[k].path) /\ ~Hidden(x) /\ x \notin Opaque => InFrame(gs, k, x) \/ Cleared(x, K, H)
    BY DEF Clearing
  <1>3. /\ DOMAIN fs = 1 .. l /\ \A k \in 1 .. l : fs[k] = gs[k]
        /\ Kind[c] = "dir" => Cleared(c, L, P)
    OBVIOUS
  <1> HIDE DEF l, c
  <1>4. fs[1].others = {}
    BY <1>1, <1>2, <1>3
  <1>5. ASSUME NEW k \in 1 .. l, NEW x, InFrame(gs, k, x)
        PROVE  InFrame(fs, k, x) \/ Cleared(x, L, P)
    <2>1. fs[k] = gs[k]
      BY <1>3
    <2>2. CASE Kind[x] # "dir" \/ \E q \in gs[k].dirs : Canonical(q) = x
      BY <1>5, <2>1, <2>2 DEF InFrame
    <2>3. CASE Kind[x] = "dir" /\ Canonical(gs[k + 1].path) = x
      <3>1. CASE k + 1 = n
        BY <1>3, <2>3, <3>1 DEF c
      <3>2. CASE k + 1 # n
        <4>1. k + 1 \in DOMAIN fs /\ fs[k + 1] = gs[k + 1]
          BY <1>1, <1>3, <3>2
        <4>2. QED
          BY <2>3, <4>1 DEF InFrame
      <3>3. QED
        BY <3>1, <3>2
    <2>4. QED
      BY <1>5, <2>2, <2>3 DEF InFrame
  <1>6. \A x : Cleared(x, K, H) => Cleared(x, L, P)
    BY ClearedStays
  <1>7. \A d \in L \cap D :
          Kind[d] = "dir" => InFrame(fs, 1, d) \/ (fs[1].others = {} /\ Cleared(d, L, P))
    BY <1>1, <1>2, <1>4, <1>5, <1>6
  <1>8. \A k \in 1 .. l \ {1} : \A x \in L \ {<<>>} :
          Parent(x) = Canonical(fs[k].path) /\ ~Hidden(x) /\ x \notin Opaque => InFrame(fs, k, x) \/ Cleared(x, L, P)
    BY <1>1, <1>2, <1>3, <1>5, <1>6
  <1>9. QED
    BY <1>3, <1>4, <1>7, <1>8 DEF Clearing

\* The name of an entry does not end in a slash.
LEMMA NameEnds ==
  ASSUME NEW p \in Text, NEW x \in DOMAIN Kind \ {<<>>}
  PROVE  ~EndsInSlash(p \o Base(x))
  <1> DEFINE b == Base(x)
             q == p \o b
  <1>1. b \in Text /\ Len(b) \in Nat \ {0} /\ \A k \in 1 .. Len(b) : b[k] # Slash
    <2> DEFINE l == LastSlash(x)
    <2>1. /\ x \in Text /\ l \in 1 .. Len(x) - 1 /\ b \in Text /\ Len(b) = Len(x) - l
          /\ \A k \in 1 .. Len(x) - l : b[k] = x[l + k] /\ x[l + k] # Slash
      BY EntryParts
    <2>2. Len(x) \in Nat
      BY <2>1, TextFacts
    <2> HIDE DEF l, b
    <2>3. Len(b) \in Nat \ {0}
      BY <2>1, <2>2
    <2>4. \A k \in 1 .. Len(b) : b[k] # Slash
      BY <2>1
    <2>5. QED
      BY <2>1, <2>3, <2>4
  <1> HIDE DEF b
  <1>2. Len(p) \in Nat
    BY TextFacts
  <1>3. /\ q \in Text /\ Len(q) = Len(p) + Len(b)
        /\ \A k \in 1 .. Len(b) : q[Len(p) + k] = b[k]
    BY <1>1, JoinFacts
  <1> HIDE DEF q
  <1>4. q[Len(p) + Len(b)] # Slash
    <2>1. Len(b) \in 1 .. Len(b)
      BY <1>1
    <2>2. q[Len(p) + Len(b)] = b[Len(b)]
      BY <1>3, <2>1
    <2>3. QED
      BY <1>1, <2>1, <2>2
  <1>5. q[Len(q)] # Slash
    BY <1>3, <1>4
  <1>6. ~EndsInSlash(q)
    BY <1>3, <1>5, EndsInSlashIs
  <1>7. QED
    BY <1>6 DEF q, b

LEMMA SweepDirectoryCleaning ==
  ASSUME Types, TreeInv, Framed, NEW p \in top.dirs, SweepDirectory(p),
         NEW D, D = Named(m_directories), NEW H, Clearing(frames, D, disk, H)
  PROVE  Clearing(frames', D, disk, H)
  <1> DEFINE new == AsDirs(Under(p, Entries(p, "dir")))
             others == UNION {Under(p, Entries(p, k)) : k \in SweptTypes}
             f == Frame(p, new, others)
             fs == frames'
  <1>1. frames # <<>> /\ FrameType /\ disk \subseteq DOMAIN Kind
    BY TopNotEmpty DEF Types, CallTypes, WorldTypes
  <1>2. /\ p \in Text /\ p \in frames[Len(frames)].dirs
        /\ Len(frames) \in Nat \ {0} /\ DOMAIN frames = 1 .. Len(frames)
        /\ top = frames[Len(frames)]
    BY <1>1, TopIs DEF FrameRecord
  <1>3. /\ pc = "sweep" /\ fs = Append(PopFrom("dirs", p), f)
        /\ Len(frames) = 1 => frames[1].others = {}
    BY <1>2 DEF SweepDirectory
  <1>4. EndsInSlash(p) /\ EndsInSlash(<<>> \o p) /\ <<>> \o p = p /\ <<>> \in Text
    <2>1. Len(frames) \in DOMAIN frames
      BY <1>1, TopIs
    <2>2. Into(p, Named(m_directories))
      BY <1>2, <1>3, <2>1 DEF Framed, Sweeping
    <2>3. QED
      BY <1>2, <2>2, NothingJoined, SlashText DEF Into
  <1>5. new \in SUBSET Text /\ others \in SUBSET Text
    <2>1. \A k : Under(p, Entries(p, k)) \in SUBSET Text
      BY <1>1, <1>2, EntriesType, UnderText
    <2>2. QED
      BY <2>1, AsDirsText
  <1>6. ASSUME NEW x \in disk \ {<<>>}, Parent(x) = Canonical(p), ~Hidden(x), x \notin Opaque
        PROVE  \/ Kind[x] = "dir" /\ \E q \in new : Canonical(q) = x
               \/ Kind[x] # "dir" /\ \E q \in others : Canonical(q) = x /\ ~EndsInSlash(q)
    <2> DEFINE n == p \o Base(x)
               k == Type[x]
    <2>1. IsDir(p)
      BY <1>1, <1>6 DEF TreeInv, IsDir, ParentOf
    <2>2. x \in Found(p, k) /\ x \in DOMAIN Kind \ {<<>>}
      BY <1>1, <1>6, <2>1 DEF Found
    <2>3. IF Kind[x] = "dir" THEN k = "dir" ELSE k \in {"reg", "other", "unknown"}
      BY <1>6, <2>2, TypeIs DEF Opaque
    <2>4. /\ n \in Text /\ n \in Under(p, Entries(p, k))
          /\ Append(n, Slash) \in AsDirs(Under(p, Entries(p, k)))
          /\ Canonical(<<>> \o n) = x /\ Canonical(<<>> \o Append(n, Slash)) = x
      <3> DEFINE r == <<>>
      <3>1. r \in Text /\ EndsInSlash(r \o p) /\ Canonical(p) = Canonical(r \o p)
        BY <1>4
      <3> HIDE DEF r
      <3>2. /\ n \in Text /\ n \in Under(p, Entries(p, k))
            /\ Append(n, Slash) \in AsDirs(Under(p, Entries(p, k)))
            /\ Canonical(r \o n) = x /\ Canonical(r \o Append(n, Slash)) = x
        BY <1>1, <1>2, <2>2, <3>1, Listing
      <3>3. QED
        BY <3>2 DEF r
    <2>5. ~EndsInSlash(n)
      BY <1>2, <2>2, NameEnds
    <2> HIDE DEF n
    <2>6. Append(n, Slash) \in Text
      BY <2>4, SlashText, AppendFacts
    <2>7. Canonical(n) = x /\ Canonical(Append(n, Slash)) = x
      BY <2>4, <2>6, NothingJoined
    <2>8. Kind[x] = "dir" => Append(n, Slash) \in new
      BY <2>3, <2>4
    <2>9. Kind[x] # "dir" => n \in others
      BY <2>3, <2>4 DEF SweptTypes
    <2>10. QED
      BY <2>5, <2>7, <2>8, <2>9
  <1> HIDE DEF new, others
  <1>7. f \in FrameRecord /\ f.path = p /\ f.dirs = new /\ f.others = others
    BY <1>2, <1>5, FrameIs
  <1> HIDE DEF f, fs
  <1>8. PushedOn(frames, fs, p, f)
    BY <1>1, <1>3, <1>7, Push
  <1>9. \A x \in disk \ {<<>>} : Parent(x) = Canonical(p) /\ ~Hidden(x) /\ x \notin Opaque =>
          \/ Kind[x] = "dir" /\ \E q \in f.dirs : Canonical(q) = x
          \/ Kind[x] # "dir" /\ \E q \in f.others : Canonical(q) = x /\ ~EndsInSlash(q)
          \/ Cleared(x, disk, H)
    BY <1>6, <1>7
  <1>10. Clearing(fs, D, disk, H)
    BY <1>2, <1>3, <1>7, <1>8, <1>9, ClearingEntered
  <1>11. QED
    BY <1>10 DEF fs

\* removeRec calls itself for a directory that it cannot open.
LEMMA SweepNothingCleaning ==
  ASSUME Types, TreeInv, Framed, Kept, Remembered, NEW p \in top.dirs, SweepNothing(p),
         NEW D, D = Named(m_directories), Clearing(frames, D, disk, HeldEntries)
  PROVE  Clearing(frames', D, disk', HeldEntries')
  <1> DEFINE f == Frame(p, {}, {})
             fs == frames'
             c == Canonical(p)
             P == HeldEntries'
  <1>1. frames # <<>> /\ FrameType /\ disk \subseteq DOMAIN Kind
    BY TopNotEmpty DEF Types, CallTypes, WorldTypes
  <1>2. /\ p \in Text /\ p \in frames[Len(frames)].dirs
        /\ Len(frames) \in Nat \ {0} /\ DOMAIN frames = 1 .. Len(frames)
        /\ top = frames[Len(frames)]
    BY <1>1, TopIs DEF FrameRecord
  <1>3. /\ pc = "sweep" /\ fs = Append(PopFrom("dirs", p), f)
        /\ Len(frames) = 1 => frames[1].others = {}
        /\ c \in unread' /\ disk' = disk /\ seen' = seen
    BY <1>2 DEF SweepNothing, worldVars
  <1>4. disk \subseteq seen
    BY <1>3 DEF TreeInv
  <1>5. HeldEntries \subseteq P
    BY <1>3, <1>4, HeldStays
  <1>6. ASSUME NEW e \in disk, Within(e, c)
        PROVE  e \in P
    BY <1>1, <1>3, <1>4, <1>6 DEF HeldEntries, Held, Stuck
  <1>7. ASSUME NEW x \in disk \ {<<>>}, Parent(x) = c
        PROVE  Cleared(x, disk, P)
    <2>1. x \in DOMAIN Kind \ {<<>>} /\ \A e \in disk : e \in Text
      BY <1>1, FilesetAssumption DEF Paths, Text, Piece
    <2>2. Within(x, c) /\ \A e \in disk : Within(e, x) => Within(e, c)
      BY <1>7, <2>1, WithinParent
    <2>3. QED
      BY <1>6, <2>2 DEF Cleared, Visible
  <1> HIDE DEF c
  <1>8. f \in FrameRecord /\ f.path = p
    BY <1>2, FrameIs
  <1> HIDE DEF f, fs, P
  <1>9. PushedOn(frames, fs, p, f)
    BY <1>1, <1>3, <1>8, Push
  <1>10. Clearing(frames, D, disk, P)
    BY <1>5, ClearingStays
  <1>11. \A x \in disk \ {<<>>} : Parent(x) = Canonical(p) /\ ~Hidden(x) /\ x \notin Opaque =>
           \/ Kind[x] = "dir" /\ \E q \in f.dirs : Canonical(q) = x
           \/ Kind[x] # "dir" /\ \E q \in f.others : Canonical(q) = x /\ ~EndsInSlash(q)
           \/ Cleared(x, disk, P)
    BY <1>7 DEF c
  <1>12. Clearing(fs, D, disk, P)
    BY <1>2, <1>3, <1>8, <1>9, <1>10, <1>11, ClearingEntered
  <1>13. QED
    BY <1>3, <1>12 DEF fs, P

LEMMA RemoveFileCleaning ==
  ASSUME Types, TreeInv, TreeInv', Framed, Kept, Remembered, NEW p \in top.others, RemoveFile(p),
         NEW D, D = Named(m_directories), Clearing(frames, D, disk, HeldEntries)
  PROVE  Clearing(frames', D, disk', HeldEntries')
  <1> DEFINE n == Len(frames)
             fs == frames'
  <1>1. frames # <<>> /\ FrameType /\ disk \subseteq DOMAIN Kind
    BY TopNotEmpty DEF Types, CallTypes, WorldTypes
  <1>2. /\ n \in Nat \ {0} /\ DOMAIN frames = 1 .. n /\ p \in frames[n].others
    BY <1>1, TopIs
  <1>3. pc = "sweep" /\ TryRemove(p) /\ fs = PopFrom("others", p) /\ seen' = seen
    BY DEF RemoveFile
  <1>4. /\ fs \in Seq(FrameRecord) /\ Len(fs) = n
        /\ \A k \in 1 .. n :
             /\ fs[k].path = frames[k].path /\ fs[k].dirs = frames[k].dirs
             /\ fs[k].others = IF k = n THEN frames[k].others \ {p} ELSE frames[k].others
    BY <1>1, <1>3, PopOthers
  <1>5. DOMAIN fs = 1 .. n
    BY <1>4
  <1>6. disk' \subseteq disk /\ (disk' = disk \/ disk' = disk \ {Canonical(p)})
    BY <1>3, UnlinkIs
  <1>7. ASSUME ~EndsInSlash(p), Kind[Canonical(p)] # "dir", Canonical(p) \in disk'
        PROVE  Cleared(Canonical(p), disk', HeldEntries')
    <2>1. Canonical(p) \in unremoved' /\ Canonical(p) \in DOMAIN Kind
      BY <1>1, <1>3, <1>6, <1>7, FileGoes DEF TreeInv, Rooted
    <2>2. Canonical(p) \in HeldEntries'
      BY <2>1 DEF HeldEntries, Held, Stuck
    <2>3. Closed(disk) /\ Canonical(p) \in Text
      <3>1. Canonical(p) \in Text
        BY <2>1, FilesetAssumption DEF Paths, Text, Piece
      <3>2. QED
        BY <1>1, <3>1 DEF TreeInv, Closed, ParentOf
    <2>4. \A e \in disk : ~Visible(e, Canonical(p))
      BY <1>1, <1>7, <2>3, NothingInside
    <2>5. QED
      BY <1>6, <2>2, <2>4 DEF Cleared
  <1>8. ASSUME n > 1
        PROVE  HeldEntries \subseteq HeldEntries'
    <2>1. n \in DOMAIN frames \ {1}
      BY <1>2, <1>8
    <2>2. Below(Canonical(p))
      BY <1>2, <1>3, <2>1, InOneIs DEF Framed, Sweeping
    <2>3. disk \subseteq seen
      BY <1>3 DEF TreeInv
    <2>4. QED
      BY <1>3, <1>6, <2>2, <2>3, HeldStays
  <1> HIDE DEF fs
  <1> DEFINE L == disk'
             P == HeldEntries'
  <1>9. /\ L \in SUBSET disk /\ (n > 1 => HeldEntries \subseteq P)
        /\ ~EndsInSlash(p) /\ Kind[Canonical(p)] # "dir" =>
             Canonical(p) \notin L \/ Cleared(Canonical(p), L, P)
    BY <1>6, <1>7, <1>8
  <1> HIDE DEF L, P
  <1>10. Clearing(fs, D, L, P)
    BY <1>2, <1>4, <1>5, <1>9, ClearingFile
  <1>11. QED
    BY <1>10 DEF fs, L, P

LEMMA SweptDirectoryCleaning ==
  ASSUME Types, FaultTypes', TreeInv, TreeInv', Framed, Kept, Remembered, SweptDirectory,
         NEW D, D = Named(m_directories), Clearing(frames, D, disk, HeldEntries)
  PROVE  Clearing(frames', D, disk', HeldEntries')
  <1> DEFINE n == Len(frames)
             fs == frames'
             p == frames[n].path
             c == Canonical(p)
  <1>1. /\ pc = "sweep" /\ n > 1 /\ fs = Front(frames) /\ seen' = seen
        /\ TryRemove(top.path) /\ top.dirs = {} /\ top.others = {}
    BY DEF SweptDirectory, RemoveDirectory
  <1>2. frames # <<>> /\ FrameType /\ disk \subseteq DOMAIN Kind
    BY <1>1 DEF Types, CallTypes, WorldTypes
  <1>3. /\ n \in Nat \ {0} /\ DOMAIN frames = 1 .. n /\ top = frames[n] /\ p \in Text
    BY <1>2, TopIs DEF FrameRecord
  <1>4. TryRemove(p) /\ frames[n].dirs = {} /\ frames[n].others = {}
    BY <1>1, <1>3
  <1>5. DOMAIN fs = 1 .. n - 1 /\ \A k \in 1 .. n - 1 : fs[k] = frames[k]
    BY <1>1, <1>2, Pop
  <1>6. n \in DOMAIN frames \ {1} /\ n + 1 \notin DOMAIN frames
    BY <1>1, <1>3
  <1>7. EndsInSlash(p) /\ (Below(c) \/ c \in Named(m_directories))
    <2>1. Into(p, Named(m_directories))
      BY <1>1, <1>6 DEF Framed, Sweeping
    <2>2. QED
      BY <2>1, InOneIs DEF Into
  <1> HIDE DEF fs, p
  <1>8. disk' \subseteq disk /\ (disk' = disk \/ disk' = disk \ {c})
    BY <1>4, UnlinkIs
  <1>9. disk \subseteq seen /\ Closed(disk)
    BY <1>1, <1>2 DEF TreeInv, Closed, ParentOf
  <1>10. HeldEntries \subseteq HeldEntries'
    BY <1>1, <1>7, <1>8, <1>9, HeldStays
  <1>11. \A x \in disk \ {<<>>} : Parent(x) = c /\ ~Hidden(x) /\ x \notin Opaque => Cleared(x, disk, HeldEntries)
    <2>1. \A x : ~InFrame(frames, n, x)
      BY <1>4, <1>6 DEF InFrame
    <2>2. QED
      BY <1>6, <2>1 DEF Clearing, p
  <1>12. \A y \in disk' \ {<<>>} :
           Hidden(y) \/ y \in Opaque \/ y \in HeldEntries' => Parent(y) \in HeldEntries'
    BY <1>1, <1>8, <1>9, HeldUp DEF TreeInv, Rooted
  <1>13. ASSUME Kind[c] = "dir", c \in disk'
         PROVE  c \in HeldEntries' \/ \E y \in disk' \ {<<>>} : Parent(y) = c
    <2>1. Exists(p)
      BY <1>7, <1>8, <1>13 DEF Exists, IsDir
    <2>2. CASE Children(c) # {} /\ disk' = disk
      <3>1. PICK y \in disk \ {<<>>} : ParentOf[y] = c
        BY <2>2 DEF Children
      <3>2. Parent(y) = c
        BY <1>2, <3>1 DEF ParentOf
      <3>3. QED
        BY <2>2, <3>2
    <2>3. CASE c \in unremoved'
      BY <1>2, <1>8, <1>13, <2>3 DEF HeldEntries, Held, Stuck
    <2>4. QED
      BY <1>4, <1>13, <2>1, <2>2, <2>3 DEF TryRemove, Unlink
  <1>14. c \in Text
    BY <1>3, CanonicalIs
  <1> DEFINE L == disk'
             P == HeldEntries'
  <1>15. /\ L \in SUBSET disk /\ HeldEntries \subseteq P
         /\ \A y \in L \ {<<>>} : Hidden(y) \/ y \in Opaque \/ y \in P => Parent(y) \in P
         /\ Kind[c] = "dir" /\ c \in L => c \in P \/ \E y \in L \ {<<>>} : Parent(y) = c
    BY <1>8, <1>10, <1>12, <1>13
  <1> HIDE DEF c, L, P
  <1>16. Kind[c] = "dir" => Cleared(c, L, P)
    <2>1. disk \in SUBSET DOMAIN Kind
      BY <1>2
    <2>2. QED
      BY <1>9, <1>11, <1>14, <1>15, <2>1, ClearedUp
  <1>17. Clearing(fs, D, L, P)
    <2>1. Kind[Canonical(frames[Len(frames)].path)] = "dir" =>
            Cleared(Canonical(frames[Len(frames)].path), L, P)
      BY <1>16 DEF c, p
    <2>2. QED
      BY <1>1, <1>3, <1>5, <1>15, <2>1, ClearingLeft
  <1>18. QED
    BY <1>17 DEF fs, L, P

\* What is left of the registered directories is still to be swept, or an
\* obstacle holds it.
LEMMA CleaningStep ==
  ASSUME Types, FaultTypes', TreeInv, TreeInv', WellNamed, Framed, Cleaning, [Next]_vars,
         pc' # "idle", pc # "idle" => Remembered
  PROVE  Cleaning'
  <1> DEFINE D == Named(m_directories)
  <1>1. Kept
    BY KeptInCall
  <1>2. D' = D
    BY <1>1 DEF Kept, Named
  <1>3. ASSUME UNCHANGED <<seen, steady>>, pc = "sweep", Quiet',
               Clearing(frames, D, disk, HeldEntries) => Clearing(frames', D, disk', HeldEntries')
        PROVE  Clearing(frames', D', disk', HeldEntries')
    <2>1. Quiet
      BY <1>3 DEF Quiet
    <2>2. QED
      BY <1>2, <1>3, <2>1 DEF Cleaning
  <1>4. SUFFICES ASSUME pc' = "sweep", Quiet'
                 PROVE  Clearing(frames', D', disk', HeldEntries')
    BY DEF Cleaning
  <1> HIDE DEF D
  <1>14. ASSUME UNCHANGED <<disk, seen, unread, unremoved>>
         PROVE  HeldEntries' = HeldEntries
    <2>1. Stuck' = Stuck
      BY <1>14 DEF Stuck
    <2>2. Obstacles' = Obstacles
      BY <1>2, <1>14, <2>1 DEF Obstacles, Contents, D
    <2>3. QED
      BY <2>1, <2>2 DEF HeldEntries, Held
  <1>5. ASSUME NEW p \in top.dirs, SweepDirectory(p)
        PROVE  Clearing(frames', D', disk', HeldEntries')
    <2>1. UNCHANGED <<seen, steady, disk, unread, unremoved>> /\ pc = "sweep"
      BY <1>5 DEF SweepDirectory, worldVars, faultVars
    <2>2. HeldEntries' = HeldEntries
      BY <1>14, <2>1
    <2>3. Clearing(frames, D, disk, HeldEntries) => Clearing(frames', D, disk, HeldEntries)
      BY <1>5, SweepDirectoryCleaning DEF D
    <2>4. QED
      BY <1>3, <1>4, <2>1, <2>2, <2>3
  <1>15. ASSUME NEW p \in top.dirs, SweepNothing(p)
         PROVE  Clearing(frames', D', disk', HeldEntries')
    <2>1. UNCHANGED <<seen, steady>> /\ pc = "sweep"
      BY <1>15 DEF SweepNothing, worldVars
    <2>2. Clearing(frames, D, disk, HeldEntries) => Clearing(frames', D, disk', HeldEntries')
      BY <1>1, <1>15, <2>1, SweepNothingCleaning DEF D
    <2>3. QED
      BY <1>3, <1>4, <2>1, <2>2
  <1>6. ASSUME NEW p \in top.others, RemoveFile(p)
        PROVE  Clearing(frames', D', disk', HeldEntries')
    <2>1. UNCHANGED <<seen, steady>> /\ pc = "sweep"
      BY <1>6 DEF RemoveFile
    <2>2. Clearing(frames, D, disk, HeldEntries) => Clearing(frames', D, disk', HeldEntries')
      BY <1>1, <1>6, <2>1, RemoveFileCleaning DEF D
    <2>3. QED
      BY <1>3, <1>4, <2>1, <2>2
  <1>7. CASE SweptDirectory
    <2>1. UNCHANGED <<seen, steady>> /\ pc = "sweep"
      BY <1>7 DEF SweptDirectory
    <2>2. Clearing(frames, D, disk, HeldEntries) => Clearing(frames', D, disk', HeldEntries')
      BY <1>1, <1>7, <2>1, SweptDirectoryCleaning DEF D
    <2>3. QED
      BY <1>3, <1>4, <2>1, <2>2
  <1>8. ASSUME NEW root, Transfer(root)
        PROVE  Clearing(frames', D', disk', HeldEntries')
    <2> DEFINE fs == frames'
               K == disk'
               H == HeldEntries'
    <2>1. fs = <<Frame(<<>>, Under(m_root, m_directories), SourcePaths)>>
      BY <1>4, <1>8 DEF Transfer, ReturnWith
    <2>2. DOMAIN fs = {1} /\ Len(fs) = 1 /\ fs[1].dirs = Under(m_root, m_directories)
      BY <2>1 DEF Frame
    <2> HIDE DEF fs, K, H
    <2>3. Clearing(fs, Named(m_directories), K, H)
      BY <2>2, ClearingBegins
    <2>4. QED
      BY <1>2, <2>3 DEF D, fs, K, H
  <1>9. CASE Call
    <2>1. ~ (\E p \in top.dirs : ListDirectory(p) \/ ListNothing(p)) /\ ~ListedDirectory /\ ~StartSizes
      BY <1>4 DEF ListDirectory, ListNothing, ListedDirectory, StartSizes
    <2>2. QED
      BY <1>4, <1>5, <1>6, <1>7, <1>8, <1>9, <1>15, <2>1, CallSteps
  <1>10. CASE Operation
    <2>1. pc' = "idle"
      BY <1>10 DEF Operation, Free, NullFileset, Create, SetRoot, SetXferSize, SetProviderId,
                   RegisterFile, DeregisterFile, RegisterDirectory, DeregisterDirectory,
                   RegisterMetadata, DeregisterMetadata, Edit, callVars
    <2>2. QED
      BY <2>1
  <1>11. CASE \E t \in {"size", "full size", "copy", "move"} : StartWalk(t)
    BY <1>4, <1>11 DEF StartWalk
  <1>12. CASE UNCHANGED vars
    <2>1. UNCHANGED <<seen, steady, disk, frames, unread, unremoved>> /\ pc = "sweep"
      BY <1>4, <1>12 DEF vars, callVars, worldVars, faultVars
    <2>2. HeldEntries' = HeldEntries
      BY <1>14, <2>1
    <2>3. QED
      BY <1>3, <1>4, <2>1, <2>2
  <1>13. CASE Others
    <2>1. PICK e : Appear(e) \/ Vanish(e)
      BY <1>13 DEF Others
    <2>2. pc = "sweep" /\ disk \subseteq seen /\ e \notin steady'
      BY <1>4, <2>1 DEF Appear, Vanish, callVars, TreeInv
    <2>3. e \in seen'
      BY <2>1, <2>2 DEF Appear, Vanish
    <2>4. QED
      BY <1>4, <2>2, <2>3 DEF Quiet
  <1>16. QED
    BY <1>9, <1>10, <1>11, <1>12, <1>13 DEF Next, Terminated

-----------------------------------------------------------------------------
(* The invariant                                                           *)

\* IInv, entry by entry.
Inv ==
  /\ Types /\ FaultTypes /\ TreeInv /\ NamesInv /\ Sized /\ OpenInv
  /\ WellNamed => Sound /\ Complete /\ Framed /\ Cleaning
  /\ ArrivedInv

LEMMA InvAre == Inv <=> IInv
  <1>1. Types => (Cleaning <=> SweptInv)
    BY CleaningIs DEF Types, WorldTypes
  <1>2. QED
    BY <1>1, TypesAre, SizedIs, SoundAre, CompleteAre, FramedAre DEF Inv, IInv

LEMMA Initially ==
  ASSUME Init
  PROVE  Inv
  <1>1. pc = "idle"
    BY DEF Init
  <1>2. Types /\ FaultTypes
    <2>1. FaultTypes
      BY FilesetAssumption DEF Init, FaultTypes
    <2>2. QED
      BY <2>1, InitTypes
  <1>3. TreeInv
    <2>1. disk = InitialDisk /\ disk \subseteq DOMAIN Kind
      BY FilesetAssumption DEF Init
    <2>2. \A e \in disk \ {<<>>} : ParentOf[e] = Parent(e)
      BY <2>1 DEF ParentOf
    <2>3. \A e \in disk \ {<<>>} : Parent(e) \in disk /\ Kind[Parent(e)] = "dir"
      BY <2>1, TreeAssumption
    <2>4. QED
      BY <1>1, <2>2, <2>3 DEF TreeInv
  <1>4. NamesInv /\ Sized /\ OpenInv
    BY <1>1 DEF Init, NamesInv, Sized, OpenInv
  <1>5. QED
    BY <1>1, <1>2, <1>3, <1>4 DEF Inv, Sound, Complete, Framed, Cleaning, ArrivedInv

LEMMA InvStep ==
  ASSUME Inv, [Next]_vars
  PROVE  Inv'
  <1>1. /\ Types' /\ FaultTypes' /\ TreeInv' /\ NamesInv' /\ Sized' /\ OpenInv'
        /\ pc # "idle" => Remembered
    BY TypesStep, FaultsStep, TreeStep, NamesStep, SizedStep, OpenStep DEF Inv
  <1>2. CASE pc' = "idle"
    BY <1>1, <1>2 DEF Inv, Sound, Complete, Framed, Cleaning, ArrivedInv
  <1>3. CASE pc' # "idle"
    <2>1. WellNamed' <=> WellNamed
      BY <1>3, KeptInCall, KeptSame
    <2>2. ArrivedInv'
      BY <1>3, ArrivedStep DEF Inv
    <2>3. ASSUME WellNamed
          PROVE  Sound' /\ Complete' /\ Framed' /\ Cleaning'
      <3>1. Sound /\ Complete /\ Framed /\ FrameInv /\ Cleaning /\ Types /\ TreeInv
        BY <2>3, FramedAre DEF Inv
      <3>2. QED
        BY <1>1, <1>3, <2>3, <3>1, SoundStep, CompleteStep, FrameStep, CleaningStep
    <2>4. QED
      BY <1>1, <2>1, <2>2, <2>3 DEF Inv
  <1>4. QED
    BY <1>2, <1>3

LEMMA Invariant == Spec => []Inv
  BY Initially, InvStep, PTL DEF Spec

\* The inductive invariant of the walk through a fileset and of the removal of
\* the source, for every tree, fileset and interference.
THEOREM InvariantHolds == Spec => []IInv
  BY Invariant, InvAre, PTL

\* Each variable has its type; in particular the transfer size is never zero and
\* the destination never has a directory and a file by the same name.
THEOREM TypeCorrect == Spec => []TypeOK
  <1>1. IInv => TypeOK
    BY DEF IInv
  <1>2. QED
    BY <1>1, InvariantHolds, PTL

\* What remi_fileset_walkthrough finds are the files registered, every regular
\* file that was in a registered directory all the time, but for those whose name
\* or type makes listFiles leave them out and what lies below a directory that it
\* could not open, and none that never was there.
THEOREM WalkFaithful == Spec => []ListingFaithful
  <1>1. ASSUME Inv, pc = "walk", Finished, WellNamed, NEW e \in Listable(steady)
        PROVE  e \in Named(files) \/ Missed(e)
    <2>1. FrameType /\ frames # <<>> /\ Len(frames) = 1 /\ top.dirs = {}
      BY <1>1 DEF Inv, Types, CallTypes, Finished
    <2>2. DOMAIN frames = 1 .. 1 /\ frames[1].dirs = {}
      BY <2>1, TopIs
    <2>3. Listed(e) \/ Missed(e)
      BY <1>1, <2>2 DEF Inv, Complete, Pending, Listable, Contents, ToList, Below
    <2>4. QED
      BY <2>3 DEF Listed, Named
  <1>2. ASSUME Inv, pc = "walk", WellNamed
        PROVE  Named(files) \subseteq Named(m_files) \cup Listable(seen)
    BY <1>2, SoundAre DEF Inv, SoundInv
  <1>3. Inv => ListingFaithful
    BY <1>1, <1>2 DEF ListingFaithful
  <1>4. QED
    BY <1>3, Invariant, PTL

\* What a step of REMI deletes is what remove() was called with: a file that was
\* sent, an entry that removeRec found, or the directory it was called with.
LEMMA DoomedIs ==
  ASSUME Inv, WellNamed, [Next]_vars, NEW e \in Doomed
  PROVE  /\ pc = "sweep" /\ e \in disk
         /\ \/ \E n \in files : e = Canonical(m_root \o n)
            \/ Below(e)
            \/ e \in Named(m_directories) /\ Kind[e] = "dir"
  <1>1. e \in disk /\ e \notin disk' /\ changes' = changes
    BY DEF Doomed
  <1>2. Types /\ Framed /\ FrameType /\ (pc # "idle" => frames # <<>>)
    BY DEF Inv, Types, CallTypes
  <1>3. SweptDirectory \/ \E p \in top.others : RemoveFile(p)
    <2>1. ~Operation
      <3>1. Operation => disk' = disk
        BY DEF Operation, Free, NullFileset, Create, SetRoot, SetXferSize, SetProviderId,
               RegisterFile, DeregisterFile, RegisterDirectory, DeregisterDirectory,
               RegisterMetadata, DeregisterMetadata, Edit, worldVars
      <3>2. QED
        BY <1>1, <3>1
    <2>2. ~Others
      <3>1. changes \in Nat
        BY <1>2, FilesetAssumption DEF Types, WorldTypes
      <3>2. Others => changes' = changes + 1
        BY DEF Others, Appear, Vanish
      <3>3. QED
        BY <1>1, <3>1, <3>2
    <2>3. QED
      BY <1>1, <2>1, <2>2, CallKeepsDisk DEF Next, StartWalk, Terminated, vars, worldVars
  <1>4. pc = "sweep" /\ frames # <<>>
    BY <1>2, <1>3 DEF SweptDirectory, RemoveFile
  <1>5. Sweeping(frames, SourcePaths, Named(m_directories))
    BY <1>2, <1>4 DEF Framed
  <1>6. /\ Len(frames) \in Nat \ {0} /\ Len(frames) \in DOMAIN frames
        /\ top = frames[Len(frames)]
    BY <1>2, <1>4, TopIs
  <1>7. ASSUME NEW p, TryRemove(p)
        PROVE  e = Canonical(p) /\ Exists(p)
    BY <1>1, <1>7, UnlinkIs
  <1>8. ASSUME NEW p \in top.others, RemoveFile(p)
        PROVE  Below(e) \/ \E n \in files : e = Canonical(m_root \o n)
    <2>1. e = Canonical(p)
      BY <1>7, <1>8 DEF RemoveFile
    <2>2. CASE Len(frames) = 1
      BY <1>5, <1>6, <2>1, <2>2 DEF Sweeping, SourcePaths, Under
    <2>3. CASE Len(frames) # 1
      BY <1>5, <1>6, <2>1, <2>3, InOneIs DEF Sweeping
    <2>4. QED
      BY <2>2, <2>3
  <1>9. CASE SweptDirectory
    <2>1. Len(frames) # 1 /\ TryRemove(top.path)
      BY <1>6, <1>9 DEF SweptDirectory, RemoveDirectory
    <2>2. Into(top.path, Named(m_directories))
      BY <1>5, <1>6, <2>1 DEF Sweeping
    <2>3. EndsInSlash(top.path) /\ (e \in Named(m_directories) \/ Below(e))
      BY <1>7, <2>1, <2>2, InOneIs DEF Into
    <2>4. Kind[e] = "dir"
      BY <1>7, <2>1, <2>3 DEF Exists, IsDir
    <2>5. QED
      BY <1>1, <1>4, <2>3, <2>4
  <1>10. QED
    BY <1>1, <1>3, <1>4, <1>8, <1>9

\* The removal of the source deletes nothing but the files and directories that
\* were registered, and what readdir shows in these directories.
THEOREM RemovalStaysInside == Spec => RemovalConfined
  <1>1. ASSUME Inv, [Next]_vars, WellNamed, NEW e \in Doomed
        PROVE  e \in Named(m_files \cup m_directories) \cup Contents(disk)
    <2>1. /\ pc = "sweep" /\ e \in disk
          /\ \/ \E n \in files : e = Canonical(m_root \o n)
             \/ Below(e)
             \/ e \in Named(m_directories)
      BY <1>1, DoomedIs
    <2>2. Below(e) => e \in Contents(disk)
      BY <2>1 DEF Below, Contents
    <2>3. CASE \E n \in files : e = Canonical(m_root \o n)
      BY <1>1, <2>1, <2>2, <2>3 DEF Inv, Sound, Registered, ToList, Named
    <2>4. QED
      BY <2>1, <2>2, <2>3 DEF Named
  <1>2. Inv /\ [Next]_vars =>
          [WellNamed => Doomed \subseteq Named(m_files \cup m_directories) \cup Contents(disk)]_vars
    BY <1>1
  <1>3. QED
    BY <1>2, Invariant, PTL DEF Spec, RemovalConfined

\* A regular file that was there when the call began is deleted only if it was
\* sent and has arrived under its name, or if listFiles could not find it: its type
\* was not known, or a directory around it could not be opened.
THEOREM NothingLost == Spec => NothingUnseenLost
  <1>1. ASSUME Inv, [Next]_vars, WellNamed, NEW e \in Regular(Doomed \cap steady)
        PROVE  \/ \E n \in files : Canonical(m_root \o n) = e
                                     /\ Canonical(remote_root \o n) \in there.files
               \/ e \in Untyped \/ Missed(e)
    <2>1. e \in Doomed /\ e \in steady /\ Kind[e] = "reg"
      BY DEF Regular
    <2>2. /\ pc = "sweep"
          /\ \/ \E n \in files : e = Canonical(m_root \o n)
             \/ Below(e)
      BY <1>1, <2>1, DoomedIs
    <2>3. e \in Untyped \/ Type[e] = "reg"
      BY <1>1, <2>1, TypeIs DEF Inv, Types, WorldTypes
    <2>4. Below(e) => e \in Untyped \/ Missed(e) \/ Listed(e)
      BY <1>1, <2>1, <2>2, <2>3 DEF Inv, Complete, ToList
    <2>5. ASSUME NEW n \in files, Canonical(m_root \o n) = e
          PROVE  Canonical(remote_root \o n) \in there.files
      BY <1>1, <2>2 DEF Inv, ArrivedInv
    <2>6. QED
      BY <2>2, <2>4, <2>5 DEF Listed
  <1>2. Inv /\ [Next]_vars =>
          [WellNamed =>
             \A e \in Regular(Doomed \cap steady) :
               \/ \E n \in files : Canonical(m_root \o n) = e
                                   /\ Canonical(remote_root \o n) \in there.files
               \/ e \in Untyped \/ Missed(e)]_vars
    BY <1>1
  <1>3. QED
    BY <1>2, Invariant, PTL DEF Spec, NothingUnseenLost

\* After the move nothing is left of the registered directories but what removeRec
\* does not look at, what it failed to remove, and the directories around that:
\* for every tree and every failure, if nobody interferes.
THEOREM SweepComplete == Spec => []SweptClean
  <1>1. ASSUME Inv, pc = "sweep", Finished, Quiet, WellNamed,
               NEW e \in disk,
               e \in Contents(disk) \ Opaque \/ (e \in Named(m_directories) /\ Kind[e] = "dir")
        PROVE  e \in Stuck \/ \E h \in Obstacles : Within(h, e)
    <2>1. FrameType /\ frames # <<>> /\ Len(frames) = 1 /\ top.dirs = {} /\ disk \in SUBSET DOMAIN Kind
      BY <1>1 DEF Inv, Types, CallTypes, WorldTypes, Finished
    <2>2. DOMAIN frames = 1 .. 1 /\ frames[1].dirs = {} /\ 1 + 1 \notin DOMAIN frames
      BY <2>1, TopIs
    <2>3. ASSUME NEW d \in disk \cap Named(m_directories), Kind[d] = "dir"
          PROVE  Cleared(d, disk, HeldEntries)
      <3>1. ~InFrame(frames, 1, d)
        BY <2>2, <2>3 DEF InFrame
      <3>2. Cleaning
        BY <1>1 DEF Inv
      <3>3. QED
        BY <1>1, <2>3, <3>1, <3>2 DEF Cleaning, Clearing
    <2>4. CASE e \in Named(m_directories) /\ Kind[e] = "dir"
      BY <2>3, <2>4 DEF Cleared, HeldEntries, Held
    <2>5. CASE e \in Contents(disk) \ Opaque
      <3>1. PICK d \in Named(m_directories) : Visible(e, d)
        BY <2>5 DEF Contents
      <3>2. Closed(disk)
        BY <1>1, <2>1 DEF Inv, TreeInv, Closed, ParentOf
      <3>3. d \in disk /\ Kind[d] = "dir"
        <4>1. d \in Text
          BY <1>1, NamedText DEF Inv
        <4>2. QED
          BY <2>1, <3>1, <3>2, <4>1, Descend
      <3>4. QED
        BY <2>3, <2>5, <3>1, <3>3 DEF Cleared, HeldEntries, Held
    <2>6. QED
      BY <1>1, <2>4, <2>5
  <1>2. Inv => SweptClean
    BY <1>1 DEF SweptClean
  <1>3. QED
    BY <1>2, Invariant, PTL

\* remi_fileset_compute_size counts each file that can be found once, although it
\* may have been registered and also lie in several registered directories, if all
\* of them could be opened.
THEOREM SizeExact == Spec => SizeCountsEachOnce
  <1>1. ASSUME Inv, [Next]_vars, pc = "size", pc' = "idle", ret' = REMI_SUCCESS,
               Quiet, unlisted = {}, WellNamed, PlainNames
        PROVE  size' = TotalSize(Named(m_files) \cup Listable(steady))
                       + IF task = "full size" THEN MetadataSize ELSE 0
    BY <1>1, AllCounted, SoundAre, CompleteAre DEF Inv
  <1>2. Inv /\ [Next]_vars =>
          [pc = "size" /\ pc' = "idle" /\ ret' = REMI_SUCCESS
             /\ Quiet /\ unlisted = {} /\ WellNamed /\ PlainNames =>
             size' = TotalSize(Named(m_files) \cup Listable(steady))
                     + IF task = "full size" THEN MetadataSize ELSE 0]_vars
    BY <1>1
  <1>3. QED
    BY <1>2, Invariant, PTL DEF Spec, SizeCountsEachOnce

\* migrate_start can make every file that the source could open, in whatever
\* order, unless a file stands at the destination where one of its directories
\* should be, or a system call fails: mkdirs makes all that are missing.
THEOREM RefusalCaused == Spec => RefusedForCause
  <1>1. ASSUME Inv, [Next]_vars, pc = "open", ret' = REMI_ERR_IO, pc' = "idle",
               failures' = failures, EndsInSlash(m_root), \A p \in SourcePaths : Kind[Canonical(p)] # "dir"
        PROVE  \E n \in files, f \in there.files : Within(Canonical(remote_root' \o n), f)
    BY <1>1, RefusalHasCause DEF Inv
  <1>2. Inv /\ [Next]_vars =>
          [pc = "open" /\ ret' = REMI_ERR_IO /\ pc' = "idle" /\ failures' = failures
             /\ EndsInSlash(m_root) /\ (\A p \in SourcePaths : Kind[Canonical(p)] # "dir") =>
             \E n \in files, f \in there.files : Within(Canonical(remote_root' \o n), f)]_vars
    BY <1>1
  <1>3. QED
    BY <1>2, Invariant, PTL DEF Spec, RefusedForCause
=============================================================================
