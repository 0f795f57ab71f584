SPECIFICATION Spec
CONSTANTS
    None = "nobody"
    Drivers = {"p", "q"}
    Starter = "nobody"
    Found = {"BLOCKED", "STOPPED"}
    MaxWaves = 2
    MaxDeaths = 1
    MaxResumes = 2
INVARIANT OneDriver
PROPERTIES RefusedWhileDriven DriverEnds
