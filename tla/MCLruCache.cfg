\* Three keys in a cache of two: every put of the third evicts.  Two nodes more
\* than the cache holds, for the node that put allocates before it erases.
SPECIFICATION CacheSpec
CONSTANTS
    NoNode = NoNode
    Key = {k1, k2, k3}
    Node = {n1, n2, n3, n4}
    MaxSize = 2
    MaxUses = 5
INVARIANTS CacheInv
PROPERTIES ImplementsRecency
