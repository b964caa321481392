SPECIFICATION Spec
CONSTANTS
    sword = sword
    pet = pet
    cheap = cheap
    dear = dear
    other = other
    Workers = {w1, w2}
    Retries = 2
    ItemKeys = {sword, pet}
    Offers = {cheap, dear, other}
    ItemOf <- MCItemOf
    PriceOf <- MCPriceOf
    HouseAt <- MCHouseAt
    NoOffer = NoOffer
    NoVersion = NoVersion
INVARIANTS
    NothingInherited
SYMMETRY Symmetry
CHECK_DEADLOCK FALSE
