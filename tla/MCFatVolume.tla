---------------------------- MODULE MCFatVolume ----------------------------
(* Small instances of FatVolume for TLC. *)
EXTENDS FatVolumeInv, TLC

CONSTANTS none, a, ab, ac    \* names

\* The fewest names with a proper prefix among them; and one more, for which the
\* table may be full.
MCNames     == {none, a, ab}
MCMoreNames == MCNames \cup {ac}

Prefixes(names) ==
    {<<n, n>> : n \in names} \cup {<<none, n>> : n \in names} \cup {<<a, n>> : n \in names \ {none}}

MCPrefixOf     == Prefixes(MCNames)
MCMorePrefixOf == Prefixes(MCMoreNames)

\* Two File objects do not differ, nor do two names of which a is a proper prefix.
MoreSymmetry ==
    {handles @@ names : handles \in Permutations(Handles), names \in Permutations({ab, ac})}

\* Where exploration stops (the states that violate it are still checked).
NoFaultYet == fault = {}

=============================================================================
