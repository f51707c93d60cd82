SPECIFICATION Spec
CONSTANTS
    IDs <- MCIDs
    Names <- MCNames
    Typed <- MCTyped
    Empty <- MCEmpty
    MaxEntries = 2
    None = None
INVARIANT NicknameRefersToItsAccount
