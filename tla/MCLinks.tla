------------------------------ MODULE MCLinks ------------------------------
EXTENDS ChainHops, TLC

CONSTANTS u1, u2

\* REALITY_SNI is set beside a REALITY_DEST of its own.
MCEnvDest == <<"front.example", 443>>
MCNoDest == <<>>
MCNoCandidates == <<>>
MCManualTargets == {<<<<"www.site.example", 443>>, "www.site.example">>,
                    <<<<"www.site.example", 443>>, "cdn.site.example">>}

\* Display names that meet a group's name and each other's suffixes.
MCDisplays == {NoName, Name("AUTO"), Suffixed(Name("AUTO"), 2)}
Symmetric == Permutations(Users)
=============================================================================
