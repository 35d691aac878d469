SPECIFICATION FairSpec
CONSTANTS
    Above128K = 1
    Above200K = 2
    Above256K = 3
    Above272K = 4
    Above512K = 5
    openai = openai
    other = other
    m1 = m1
    large = large
    Plain0 = Plain0
    Known = {openai}
    Models = {m1}
    VirtualKeys = {v1}
    Selectors = {Plain0, large}
    Feeds <- MCFeeds
    Overrides <- MCOverrides
    Admins = {a1, a2}
    Nobody = Nobody
    MaxFaults = 1
    MaxOps = 2
INVARIANTS
    CatalogInv
    OverridesLive
PROPERTY
    StoredBecomesLive
