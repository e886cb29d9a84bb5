------------------------ MODULE MCListenHandles ------------------------
EXTENDS ListenHandles, TLC

\* Two handles of one bot: the second is the name it was given later.
CONSTANTS h1, h2, b1

MCBotOf == [h \in Handles |-> b1]

Symmetry == Permutations(Handles) \cup Permutations(Runs) \cup Permutations(Listeners)
=============================================================================
