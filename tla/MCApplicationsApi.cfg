\* Two commands at once, lists of up to three pages.
SPECIFICATION FairSpec
CHECK_DEADLOCK FALSE
CONSTANTS
    x = x
    y = y
    Calls = {x, y}
    Apps = {1, 2, 3}
    Aws = {1, 3}
    PageSize = 1
    Nameless <- MCNameless
    None = None
INVARIANT TypeOK
PROPERTIES
    CacheKeepsPromise
    HandlerReturns
