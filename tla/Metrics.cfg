CONSTANTS
    Cap = 3
    Sample = {1, 2, 3}
    MaxSamples = 5
    Second = 2
    MaxTime = 6
    MaxWrites = 3
SPECIFICATION MetricsSpec
INVARIANTS
    TypeOK
    RingHoldsNewest
    PercentilesAreNearestRank
PROPERTY RatesCountTheirWindow
