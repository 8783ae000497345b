CONSTANTS
    o1 = o1
    o2 = o2
    o3 = o3
    Opportunities = {o1, o2, o3}
    ClaimLimit = 2
    MaxSuggestions = 1
    MaxFaults = 2
SPECIFICATION FairSpec
PROPERTIES
    SuggestionsAnswered
