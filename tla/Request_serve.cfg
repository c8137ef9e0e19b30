SPECIFICATION Spec
CONSTANTS
  Interps = {root, vh}
  Root = root
  Separate = TRUE
  CacheSize = 2
  Files = {page, part}
  TclFiles = {part}
  Encodings = {}
  MaxVersion = 1
  EditedFiles = {part}
  Places <- UserOrPlain
  None = None
  UserHosts = {root, vh}
  ScriptSets <- SomeScripts
  Codes = {c1}
CONSTRAINT OneCacheUsed
INVARIANTS TypeOK HeadersFirst NothingCarriedOver ScriptsInOrder CacheAccounting PagesFresh
