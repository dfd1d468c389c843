------------------------------- MODULE MCIpc -------------------------------
EXTENDS Ipc

CONSTANTS s1, c1, c2, time, f1, f2

OneServer == [s \in {s1} |-> time]
ClientSymmetry == Permutations(Clients) \cup Permutations(Frames)
=============================================================================
