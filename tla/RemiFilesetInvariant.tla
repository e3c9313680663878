------------------------ MODULE RemiFilesetInvariant ------------------------
(***************************************************************************)
(* The inductive invariant of RemiFileset.                                 *)
(***************************************************************************)
EXTENDS RemiFileset

Piece == STRING

Text == Seq(Piece)

FrameRecord == [path : Text, dirs : SUBSET Text, others : SUBSET Text]

\* The types that TypeOK leaves open, and what is finite.
MoreTypes ==
  /\ frames \in Seq(FrameRecord) /\ (pc # "idle" => frames # <<>>) /\ (pc = "idle" => seen = {})
  /\ there \in [dirs : SUBSET Text, files : SUBSET Text] /\ <<>> \in there.dirs
  /\ IsFiniteSet(m_files) /\ IsFiniteSet(files) /\ IsFiniteSet(DOMAIN m_metadata)

Below(e) == \E d \in Named(m_directories) : Visible(e, d)

\* The paths of the registered directories, and of those that are found in them.
Reached(p) ==
  /\ EndsInSlash(p)
  /\ LET d == Canonical(p) IN d \in Named(m_directories) \/ (Below(d) /\ d \notin Untyped)

\* The entries have their directories, also those that stayed during a walk.
TreeInv ==
  /\ \A e \in disk \ {<<>>} : ParentOf[e] \in disk /\ Kind[ParentOf[e]] = "dir"
  /\ pc # "idle" => disk \subseteq seen
  /\ pc \in {"walk", "size", "open"} => steady \subseteq disk
  /\ pc = "walk" => \A e \in steady \ {<<>>} : ParentOf[e] \in steady

\* Nothing is found but what was registered, or was seen in a registered
\* directory.
SoundInv ==
  pc # "idle" => Named(files) \subseteq Named(m_files) \cup Listable(seen)

\* The walk has found each file that stayed and that it can find, or is still to
\* enter a directory that it lies in, or has failed to.
CompleteInv ==
  /\ pc = "walk" => \A e \in Listable(steady) :
       \/ e \in Named(files) \/ Missed(e)
       \/ \E k \in DOMAIN frames : \E p \in frames[k].dirs : Visible(e, Canonical(m_root \o p))
  /\ pc \in {"size", "open", "sweep"} =>
       \A e \in Listable(steady) : e \in Named(files) \/ Missed(e)

\* The walk and the sweep stay in the registered directories.
FrameInv ==
  /\ pc = "walk" => \A k \in DOMAIN frames : \A p \in frames[k].dirs : Reached(m_root \o p)
  /\ pc = "sweep" =>
       /\ \A k \in DOMAIN frames : \A p \in frames[k].dirs : Reached(p)
       /\ frames[1].others \subseteq SourcePaths
       /\ \A k \in DOMAIN frames \ {1} :
            Reached(frames[k].path) /\ \A p \in frames[k].others : Below(Canonical(p))

\* Nothing is left of an entry, and of what readdir shows in it, but what an
\* obstacle holds or could not be removed.
Held(e) == e \in Stuck \/ \E h \in Obstacles : Within(h, e)

Swept(x) == \A e \in disk : e = x \/ (Visible(e, x) /\ e \notin Opaque) => Held(e)

\* The k-th call of the sweep has still to remove it, or has called itself for it.
Awaited(k, x) ==
  \/ Kind[x] # "dir" /\ \E p \in frames[k].others : Canonical(p) = x /\ ~EndsInSlash(p)
  \/ /\ Kind[x] = "dir"
     /\ \/ \E p \in frames[k].dirs : Canonical(p) = x
        \/ k + 1 \in DOMAIN frames /\ Canonical(frames[k + 1].path) = x

\* Each registered directory, and each entry that readdir shows in one that is
\* being swept, is still to be swept or has been.
SweptInv ==
  pc = "sweep" /\ Quiet =>
    /\ Len(frames) > 1 => frames[1].others = {}
    /\ \A d \in disk \cap Named(m_directories) :
         Kind[d] = "dir" => Awaited(1, d) \/ (frames[1].others = {} /\ Swept(d))
    /\ \A k \in DOMAIN frames \ {1} : \A x \in disk \ {<<>>} :
         ParentOf[x] = Canonical(frames[k].path) /\ ~Hidden(x) /\ x \notin Opaque =>
           Awaited(k, x) \/ Swept(x)

\* What a move removes has arrived.
ArrivedInv ==
  pc = "sweep" => \A n \in files : Canonical(remote_root \o n) \in there.files

\* Neither what is registered nor what is found begins with a slash.
Relative(n) == n = <<>> \/ n[1] # Slash

PlainDirectory(d) == d = <<>> \/ d = Append(Canonical(d), Slash)

NamesInv ==
  /\ \A n \in m_files \cup m_directories : Relative(n)
  /\ pc # "idle" =>
       /\ m_files \subseteq files /\ \A n \in files : Relative(n)
       /\ PlainNames => \A n \in files : Canonical(n) = n
  /\ pc = "walk" => \A k \in DOMAIN frames : \A p \in frames[k].dirs :
       Relative(p) /\ (PlainNames => PlainDirectory(p))

\* The files whose sizes have been added.
Counted == Named(files) \ {Canonical(p) : p \in frames[1].others}

SizeInv ==
  pc = "size" =>
    /\ Len(frames) = 1 /\ frames[1].others \subseteq SourcePaths
    /\ WellNamed /\ PlainNames => Counted \subseteq DOMAIN Kind /\ size = TotalSize(Counted)

\* What was opened is an entry, a directory if its name ends in a slash or if
\* something else that was opened lies in it.
OpenInv ==
  pc = "open" =>
    /\ \A p \in SourcePaths :
         Canonical(p) \in DOMAIN Kind /\ (EndsInSlash(p) => Kind[Canonical(p)] = "dir")
    /\ \A p, q \in SourcePaths :
         Within(Canonical(p), Canonical(q)) => Kind[Canonical(q)] = "dir"

IInv ==
  /\ TypeOK /\ MoreTypes /\ TreeInv /\ NamesInv /\ SizeInv /\ OpenInv
  /\ WellNamed => SoundInv /\ CompleteInv /\ FrameInv /\ SweptInv
  /\ ArrivedInv
=============================================================================
