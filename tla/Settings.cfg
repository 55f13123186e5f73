SPECIFICATION FairSettings
CONSTANTS
    p1 = p1
    Handsets <- OnePhone
    Switches <- Offered
    Home = "Home"
    Away = "Away"
    MaxCalls = 2
    MaxTaps = 3
    MaxTrips = 1
    MaxFaults = 1
PROPERTIES
    KeptIsNewest
    SettingsSettle
