SPECIFICATION Spec
CONSTANTS
    FillUnit = 10
    Disposition <- MCDisposition
    Forms <- FormsLong
    Queries <- MCQueries
    PostMax = 60
    MaxRequests = 1
    ShortBlocks = {}
    Charsets = {"none", "utf-8", "ISO-8859-1"}
    Encodings = {"utf-8"}
    Types = {"image/png"}
    EnvGroup <- MCEnvGroup
    UploadToVar = TRUE
    MaxCommands = 1
INVARIANT UploadsWhole
