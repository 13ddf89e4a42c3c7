\* Two interrupted appends and two ends of the process, with a prune after
\* each, on a log that has room for two records.
SPECIFICATION Spec
CONSTANTS
    Jobs = {a, b}
    None = None
    Stamps = {0, 1}
    MaxRecords = 2
    MaxBytes = 3
    MaxAppends = 4
    MaxFaults = 2
    MaxEnds = 2
SYMMETRY Interchangeable
INVARIANT AppendedStays
PROPERTY StartsWithinLimits
PROPERTY KeepsJournal
CHECK_DEADLOCK FALSE
