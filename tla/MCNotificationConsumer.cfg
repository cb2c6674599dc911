SPECIFICATION FairSpec
CONSTANTS
    MaxEvents = 2
    MaxStatements = 2
INVARIANTS
    TypeOK
    AtMostOnce
    RecordedBeforeGone
    LostOnlyByFault
    InOrderUnlessRequeued
PROPERTIES
    DeliversAtMostOnce
    EventuallySettled
