---------------------------- MODULE MCRemiClient ----------------------------
(***************************************************************************)
(* A small instance of RemiClient: three files, one of them empty and one  *)
(* in a directory, whose sizes are no multiple of the transfer size.       *)
(***************************************************************************)
EXTENDS RemiClientInvariant

CONSTANTS f1, f2, f3, src, dst1, dst2

MCRegistered == {f1, f2}
MCSize       == f1 :> 5 @@ f2 :> 0 @@ f3 :> 2

\* f3 may turn up later.
SourceOnly == {src} \X {f1, f2}

\* The client's host also has the files of another fileset, below dst1.
SharedDisk == {src, dst1} \X {f1, f2}
=============================================================================
