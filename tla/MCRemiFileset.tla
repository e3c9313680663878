---------------------------- MODULE MCRemiFileset ----------------------------
(***************************************************************************)
(* A small tree for RemiFileset.                                           *)
(*   /r/d/x, /r/d/s/y   files in a directory and in its subdirectory       *)
(*   /r/d/.q/h          a file in a hidden directory                       *)
(*   /r/d/l             neither file nor directory                         *)
(*   /r/d/u, /r/d/t/v   a file, and a directory with a file, whose type    *)
(*                      readdir does not tell                              *)
(*   /r/d/n             a file that is not there in the beginning          *)
(***************************************************************************)
EXTENDS RemiFilesetInvariant, TLC

R == <<"/", "r">>
D == R \o <<"/", "d">>
S == D \o <<"/", "s">>
Q == D \o <<"/", ".", "q">>
T == D \o <<"/", "t">>
X == D \o <<"/", "x">>
Y == S \o <<"/", "y">>
H == Q \o <<"/", "h">>
L == D \o <<"/", "l">>
U == D \o <<"/", "u">>
V == T \o <<"/", "v">>
N == D \o <<"/", "n">>

MCKind == [e \in {<<>>, R, D, S, Q, T} |-> "dir"] @@ [e \in {X, Y, H, U, V, N} |-> "reg"]
            @@ L :> "other"
MCSize == [e \in DOMAIN MCKind |-> IF e = X THEN 2 ELSE IF e = Y THEN 3 ELSE 5]
MCUntyped == {U, T}
MCDisk == DOMAIN MCKind \ {N}
MCThere == [dirs |-> {<<>>}, files |-> {<<"/", "w">>}]

MCRoots       == {R, <<"r">>}
MCRemoteRoots == {<<"/", "q">>, <<"/", "w">>}
MCFileNames   == {<<"/", "d", "/", "x">>, <<"f">>}
MCDirNames    == {<<"/", "d", "/">>, <<"d", "/", "s", "/">>, <<"d", "/", ".", "q", "/">>}
MCLengths     == [k \in {"k"} |-> 1]

\* For the claims that fail: a directory with a file and a hidden file, and a file
\* whose name begins with that of the directory.
HX == D \o <<"/", ".", "h">>
DX == R \o <<"/", "d", "x">>

MCSmallKind  == [e \in {<<>>, R, D} |-> "dir"] @@ [e \in {X, HX, DX} |-> "reg"]
MCSmallSize  == [e \in DOMAIN MCSmallKind |-> 1]
MCSmallDisk  == DOMAIN MCSmallKind
MCPlainNames == {<<"d", "/">>}
MCBareNames  == {<<"d">>}
=============================================================================
