SPECIFICATION FairSpec
CONSTANTS
    location = location
    other = other
    c1 = c1
    c2 = c2
    big = big
    Modules <- MCModules
    NoModule = NoModule
    Configs <- MCConfigs
    NoHash = NoHash
    Default = c1
    Proper <- MCProper
    Shadowed <- MCShadowed
    TooBig <- MCTooBig
    MaxChanges = 2
    MaxFaults = 1
INVARIANTS TypeOK RecordedAlone InStep WholeOnly FilesTrue
PROPERTIES CloudFollows
