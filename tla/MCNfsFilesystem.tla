-------------------------- MODULE MCNfsFilesystem --------------------------
EXTENDS NfsFilesystem, TLC

CONSTANTS a, b, x, f1, f2

\* Two names, either of which may be a directory with a name in it.
MCPaths == {<<a>>, <<b>>, <<a, x>>, <<b, x>>}
\* Each file has a number of its own, or the second gets the one of the first.
NewNumbers == f1 :> 1 @@ f2 :> 2
UsedNumbers == f1 :> 1 @@ f2 :> 1
MCSymmetry ==
    {p @@ q @@ r : p \in Permutations(Conn), q \in Permutations(File), r \in Permutations({a, b})}

=============================================================================
