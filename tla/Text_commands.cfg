SPECIFICATION Spec
CONSTANTS
    Chars = {"<", "?", ">", "=", "x", "$"}
    MaxTemplate = 6
    Items = {"i", "j", "k"}
    MaxList = 3
    Patterns <- MCPatterns
    Bytes <- MCBytes
    MaxBytes = 3
    Fields <- MCFields
INVARIANTS TemplateFaithful ListMeaning EscapesUndone
