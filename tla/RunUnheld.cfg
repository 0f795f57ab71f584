SPECIFICATION Spec
CONSTANTS
    None = "nobody"
    Drivers = {"first", "second"}
    Starter = "first"
    Found = {}
    MaxWaves = 1
    MaxDeaths = 0
    MaxResumes = 3
INVARIANT OneDriver
PROPERTY NothingStartsAfterStop
