CONSTANTS
    Page = 2
    Objects <- Everything
    IdentSpan = 1
    WordLen = 2
SPECIFICATION Spec
INVARIANTS
    SegmentsAreMapped
    SealedExactly
    WrittenBeforeSealed
    CountsAreExact
    ViewsAgree
    KernelVmasAgree
    AddressesTranslate
    SilentAuditIsSound
    ReplayIsTheLoad
    WritersAreFound
    RowsAreFound
CHECK_DEADLOCK FALSE
