CONSTANTS
    Pids = {p1, p2}
    NoPid = NoPid
    MaxGeneration = 3
SPECIFICATION FairSpec
INVARIANTS SampleOfGeneration MetricsOfWorker
PROPERTY MetricsArrive
CHECK_DEADLOCK FALSE
