--------------------------- MODULE MCRemiProvider ---------------------------
(***************************************************************************)
(* Small instances of RemiProvider: two filesets of one class.             *)
(***************************************************************************)
EXTENDS RemiProviderInvariant, TLC

CONSTANTS m1, m2, c1, a, b, d

Both       == [before |-> TRUE, after |-> TRUE]
OnlyBefore == [before |-> TRUE, after |-> FALSE]
Neither    == [before |-> FALSE, after |-> FALSE]

MCCallbacks     == {Both, OnlyBefore}
MCNoneCallbacks == {Both, Neither}
MCBoth          == {Both}

MCClassOf == [m \in Migrations |-> c1]

\* The filesets share b; the first has more than one chunk in a file.  The second
\* issues a request past the end of its file and, sequentially or with two chunks
\* on their way, goes on with one that covers the file (remi-client.cpp issues none
\* out of range; another sender of the RPC might).
SharedTarget == m1 :> <<a, b>> @@ m2 :> <<b>>
SharedSizes  == m1 :> <<2, 1>> @@ m2 :> <<2>>
SharedPlan   == m1 :> << [file |-> 1, end |-> 1], [file |-> 1, end |-> 2],
                         [file |-> 2, end |-> 1] >>
             @@ m2 :> << [file |-> 1, end |-> 3], [file |-> 1, end |-> 2] >>

\* The smallest filesets that still have a shared file and two chunks.
SmallPlan    == m1 :> << [file |-> 1, end |-> 2], [file |-> 2, end |-> 1] >>
             @@ m2 :> << [file |-> 1, end |-> 2] >>

\* Filesets with a in common, of which the second has also d, which is there
\* before.
BarredTarget == m1 :> <<a, b>> @@ m2 :> <<a, d>>
BarredSizes  == m1 :> <<2, 1>> @@ m2 :> <<2, 1>>
BarredPlan   == m1 :> SharedPlan[m1] @@ m2 :> << [file |-> 1, end |-> 2] >>
=============================================================================
