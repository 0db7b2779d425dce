SPECIFICATION Spec
CONSTANTS
    Home = {"h1", "h2"}
    Key = {1, 2, 3}
    Loyal = {1}
    Table <- const_Table
    GenesisTable <- const_Genesis
    FirstCoins <- const_Coins
    FirstTx = 4
    OldHome = {"h2"}
    OldCat = 4
    OldTable <- const_OldTable
    Need = 2
    MaxFaults = 1
    MaxSpent = 3
INVARIANT HeadStaysReadable
