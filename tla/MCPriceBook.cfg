SPECIFICATION PriceSpec
CONSTANTS
    Above128K = 2
    Above200K = 3
    Above256K = 4
    Above272K = 5
    Above512K = 6
    Offers <- MCOffers
INVARIANTS
    BestFieldBilled
    TokensBilledOnce
