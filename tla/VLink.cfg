SPECIFICATION FairSpec
CONSTANTS
    Producers = {t1, t2}
    NumQueues = 2
    Cap = 2
    Buckets = 2
    ReadBatch = 2
    DrainMax = 2
    PipeSize = 9
INVARIANT TypeOK RxBytesMatch NoStrandedInput NoStrandedOutput
PROPERTY OutputServed InputServed
