\* Export: two tasks, one of which was sent its prompt twice, five spans, one PUT of any field.
SPECIFICATION Spec
CONSTANTS
    r1 = r1
    a1 = a1
    a2 = a2
    c1 = c1
    r2 = r2
    t1 = t1
    t2 = t2
    Spans = {r1, a1, a2, c1, r2}
    NoSpan = NoSpan
    TraceOf <- MCTraceOf
    Kind <- MCKind
    Parent <- MCParent
    Listing <- MCListing
    Base <- MCBase
    Updates <- MCUpdates
    None = None
    MaxPuts = 1
INVARIANT PublishedWhole
INVARIANT PublicOnlyIfAsked
INVARIANT ReportComplete
INVARIANT CountedAgree
PROPERTY ExportEnds
CHECK_DEADLOCK FALSE
