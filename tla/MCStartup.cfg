SPECIFICATION Spec
CONSTANTS
    Inputs <- MCInputs
    Names <- MCNames
    TextOf <- MCRender
    Readable <- MCLegible
    Escaped <- MCEscaped
    MeantBy <- MCMeaning
    JsonParse <- MCParse
    FindIn <- MCFind
INVARIANTS
    TypeOK
    SettingsRead
    Configured
    LogsWhereConfigured
    StopsForCause
    OptionsAsDocumented
    PagesFound
CHECK_DEADLOCK FALSE
