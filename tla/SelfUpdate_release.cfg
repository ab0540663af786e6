CONSTANTS
    Code <- MCCode
    Body <- MCBody
    Version <- MCVersion
    HubVersion <- MCHub
    Options = {}
    MaxOps = 2
    MaxTrouble = 2
    AllowDowngrade = FALSE
SPECIFICATION MCSpec
INVARIANTS WayBack OnlyReleases
PROPERTIES NeverBack FleetFollows
CHECK_DEADLOCK FALSE
