\* Two stages stand for the five of a request.
SPECIFICATION StartupSpec
CONSTANTS
    Configs <- MCConfigs
    Documents <- MCDocuments
    Routable <- MCRoutable
    MaxProducts = 3
    MaxScale = 2
    Stages = 2
INVARIANTS
    FetchIsAnswered
    ServesWhatIsListed
PROPERTIES
    StartupEnds
