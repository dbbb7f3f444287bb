----------------------------- MODULE MCOrderTerms -----------------------------
EXTENDS OrderTerms, TLC

CONSTANTS chair, table, rui, home, garden

TwoLines == 1..2
OneInBrazil == ("BR" :> 1) @@ ("EU" :> 0)
Symmetry == Permutations({chair, table}) \cup Permutations({home, garden})

=============================================================================
