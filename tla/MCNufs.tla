------------------------------- MODULE MCNufs -------------------------------
(***************************************************************************)
(* Instances of Nufs for TLC.                                              *)
(***************************************************************************)
EXTENDS Nufs

\* Three names in the root, so that a rename there has a neighbour, and a name
\* below one of them, for renames into and out of a directory.
TreePaths == {<<"a">>, <<"b">>, <<"c">>, <<"a", "b">>}

\* Two files in the root.
FlatPaths == {<<"a">>, <<"b">>}

=============================================================================
