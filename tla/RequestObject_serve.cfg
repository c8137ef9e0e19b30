SPECIFICATION Spec
CONSTANTS
    FillUnit = 10
    Disposition <- MCDisposition
    Forms <- FormsServe
    Queries <- MCQueries
    PostMax = 60
    MaxRequests = 2
    ShortBlocks = {0, 3}
    Charsets = {"none", "utf-8", "ISO-8859-1"}
    Encodings = {"utf-8"}
    Types = {"image/png"}
    EnvGroup <- MCEnvGroup
    UploadToVar = TRUE
    MaxCommands = 3
INVARIANTS
    TypeOK
    FormFaithful
    BufferIsNextData
    VarSources
    TmpFilesGone
    ScopeRestores
    TextInCharset
    EnvOverrideKept
