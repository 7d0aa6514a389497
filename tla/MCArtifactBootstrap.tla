------------------------ MODULE MCArtifactBootstrap ------------------------
EXTENDS ArtifactBootstrap, TLC

CONSTANTS a, b, o, c1, c2

MCInside == {a, b}
MCOutside == {o}
MCContents == {c1, c2}
Symmetry == Permutations({c1, c2}) \cup Permutations({a, b})
=============================================================================
