-------------------------- MODULE MCPageAllocator --------------------------
EXTENDS PageAllocator

\* Pages, aligned pages and sections: runs with the alignment of their length.
AllRequests == {[num |-> 1, align |-> 1], [num |-> 1, align |-> 2],
                [num |-> 2, align |-> 2], [num |-> 3, align |-> 1]}
=============================================================================
