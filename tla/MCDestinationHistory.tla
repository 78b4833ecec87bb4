------------------------ MODULE MCDestinationHistory ------------------------
\* Instances of DestinationHistory for TLC.
EXTENDS DestinationHistory

\* No definition tells teachers, dakos, duties or requests apart.
Symmetry == Permutations(Teachers) \union Permutations(Dakos)
            \union Permutations(Duties) \union Permutations(Requests)
=============================================================================
