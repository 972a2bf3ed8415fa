SPECIFICATION FairSpec
CONSTANT Workers = {w1, w2}
PROPERTY PoolsClosed
