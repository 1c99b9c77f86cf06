\* Two calls of any kind, two songs in batches of two, one failure or death;
\* two plans and their applies with one failure or death; three refresh tokens.
CONSTANTS
    c1 = c1
    c2 = c2
    s1 = s1
    s2 = s2
    Songs = {s1,s2}
    Calls = {c1,c2}
    BatchSize = 2
    MaxFaults = 1
    Origins = {"nowhere","pb","pb+db","everywhere"}
    Ops = {"create","count","status","song","toggle","artistCount","artistList"}
    Typed = {0,2}
    PartOf <- Titles
    FillImpreciseDates = FALSE
    SeenTracks <- Tracks
    SeenSongs <- Listed
    Favorites <- Lists
    OldSongs <- Old
    PageSize = 2
    Hands <- Approvals
    MaxPlans = 2
    MaxHarms = 1
    Served <- ServedPages
    Limits = {0,1,3}
    MaxRetries = 1
    MaxTokens = 3
SPECIFICATION PartSpec
SYMMETRY Symmetry
INVARIANTS CatalogIsSound  ProposalsAreSound ClientIsSound
PROPERTIES HealsOnClick 
CHECK_DEADLOCK FALSE
