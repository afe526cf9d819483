SPECIFICATION SurfacesSpec
CONSTANTS
    a = a
    b = b
    Absent = Absent
    Procs <- MCProcs
    Names <- MCNames
    Secrets <- MCSecrets
    Races <- MCRaces
    Manifests <- TriedManifests
    CronItems <- TriedItems
    MaxYards = 2
    MaxFaults = 1
SYMMETRY Symmetry
CHECK_DEADLOCK FALSE
INVARIANTS SurfacesAgree AcceptedMeansSomething FaultsAreLocated CredentialsAreKept CommandsDoAsTold
