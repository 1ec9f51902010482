\* Four ids, one of them without a name.  The cache is full with three, the
\* first batch of a full cache has two of them and the second the third.
SPECIFICATION FairSpec
CONSTANTS
    Id = {i1, i2, i3, i4}
    Unnamed = {i4}
    MaxSize = 2
    BatchSize = 0
    MaxObserved = 4
INVARIANTS AggregatorInv
PROPERTIES EventuallyReported
