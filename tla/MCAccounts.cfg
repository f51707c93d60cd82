\* Two applications, lists of at most two entries.
SPECIFICATION Spec
CONSTANTS
    IDs <- MCIDs
    Names <- MCNames
    Typed <- MCTyped
    Empty <- MCEmpty
    MaxEntries = 2
    None = None
INVARIANTS
    TypeOK
    ReplaceWithRefreshes
    NicknameSurvives
    RoleWasUsed
PROPERTIES
    FreshAliasIsUnique
    ClashesComeFromTheList
