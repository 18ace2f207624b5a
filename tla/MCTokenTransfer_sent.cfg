CONSTANTS
    Token = Token
    Other = Other
    MaxAmount = 3
    PageLimit = 2
    Amounts = {0, 1, 2, 3}
    Listings <- MCListings
SPECIFICATION Spec
INVARIANT ChosenAreTransferred
