SPECIFICATION Spec
CONSTANTS
    Results <- MCResults
    InputMax = 3
    PageMaxItems = 9
    UiMax = 72
    Padding = 6
    MaxText = 4
INVARIANTS
    WindowShowsItems
