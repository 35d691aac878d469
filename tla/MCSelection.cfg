SPECIFICATION Spec
CONSTANTS
    p1 = p1
    p2 = p2
    m1 = m1
    plain = plain
    proxied = proxied
    broken = broken
    Providers = {p1, p2}
    Models = {m1}
    CredIDs = {1, 2, 3}
    Home <- MCHome
    InitTable <- MCInitTable
    Bodies <- MCBodies
    Patches <- MCPatches
    Settings = {plain, proxied, broken}
    InitSettings <- MCInitSettings
    Buildable = {plain, proxied}
    Accepted = {proxied, broken}
    Admins = {a1, a2}
    Nobody = Nobody
    MaxFaults = 1
    MaxChanges = 2
    Requests = {r1}
    Policies <- MCPolicies
    Catalog <- MCCatalog
    MaxPicks = 3
INVARIANTS
    RoutingInv
    CredentialsLive
    ClientsLive
    WeightsRespected
    RotationFair
SYMMETRY Symmetries
