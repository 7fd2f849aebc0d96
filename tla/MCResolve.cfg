SPECIFICATION Spec
CONSTANTS
    Items = {i1, i2, i3, i4, i5}
    Dropped = {i5}
    PAGE_SIZE = 2
    Limits = {1, 3}
    MaxPages = 2
    SEARCH_PAGE_SIZE = 2
    Titles <- MCTitles
    Categories <- MCCategories
    Games = 2
    Aliases <- MCAliases
    Editions = {"Gold Edition", "Deluxe"}
    FullEditions = {"Gold Edition"}
    Parentheticals = {"(2013)"}
    TestBuilds = {"Beta"}
    Budgets = {0, 1, 3}
INVARIANTS
    SettledReadOnce
    NeverCut
    TwinNeverTaken
    HitNeedsNoSearch
CHECK_DEADLOCK FALSE
