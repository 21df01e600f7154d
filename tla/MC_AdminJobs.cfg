SPECIFICATION FairSpec
CONSTANTS
    Keys = {a, b}
    MaxJobs = 1
    Outcomes = {"completed"}
    Streams = {s}
    Afters = {0, 3}
    Followed = {1}
    MaxStarts = 3
    MaxProgress = 1
INVARIANT TypeOK NoMissedChange OverlapOnlyAfterCancel RunningJobsStay
PROPERTY EndIsFinal StreamsEnd
