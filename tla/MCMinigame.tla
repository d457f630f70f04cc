----------------------------- MODULE MCMinigame -----------------------------
EXTENDS Minigame, TLC
CONSTANTS ann, bob
\* The game treats its players alike.
PlayerSymmetry == Permutations({ann, bob})
FewPoints == {0}
MCPoints == {0, 1}
Everyone == Handlers
\* Failures of a submission and of the accept are the other runs'.
OnlyDeadlines == Deadlines
=============================================================================
