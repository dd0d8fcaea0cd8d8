CONSTANTS
    u1 = u1
    u2 = u2
    TokenCode = TokenCode
    Garbage = Garbage
    NoAccount = NoAccount
    NotLoaded = NotLoaded
    NoContract = NoContract
    ZeroHash = ZeroHash
    EmptyAddress = EmptyAddress
    NoMethod = NoMethod
    NoBlock = NoBlock
    MinimumGasPrice = 18
    MaxHeight = 3
    MaxBlockTxs = 2
    CrashSites = {"call", "commit"}
    Addresses <- MCAddresses
    StorageKeys <- MCStorageKeys
    GasToken <- MCGasToken
    Decodable <- MCDecodable
    Functions <- MCFunctions
    Size <- MCSize
    Txs <- MCTxs

SPECIFICATION Spec

INVARIANT FeeNeverOverdraws
INVARIANT InfoNamesStoredBlock
PROPERTY NonceBumpedOnce
PROPERTY PostStateIsCommitted
PROPERTY FailedTxOnlyChargesFee
PROPERTY FeeMatchesReceipt
