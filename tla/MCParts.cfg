SPECIFICATION Spec
CONSTANTS
    PathCases <- PathTable
    FormatCases <- FormatTable
    HandlerCases <- HandlersTable
    MeantCases <- MeantTable
    CastCases <- CastsTable
INVARIANTS
    MailboxSound
    SignalsSound
    WalkMeetsFile
    PoolSound
    TransferIsTheCall
    PathsSound
    FilesSound
    TypedIsRead
    ExceptionsSound
    FormatSound
    PlatformSound
    UserMemorySound
    CxxRuntimeSound
CHECK_DEADLOCK FALSE
