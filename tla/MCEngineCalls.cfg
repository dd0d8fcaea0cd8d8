CONSTANTS
    cA = cA
    cB = cB
    pP = pP
    nN = nN
    s = s
    dD = dD
    k1 = k1
    k2 = k2
    k3 = k3
    aX = aX
    aY = aY
    aZ = aZ
    aW = aW
    NoBind = NoBind
    NoResult = NoResult
    Contracts = {cA, cB}
    Plain = {pP}
    Absent = {nN}
    Sender = s
    Keys = {k1, k2, k3}
    Vals = {1}
    Aliases = {aX, aY, aZ, aW}
    MaxEngineCallDepth = 2
    MaxArgBytes = 3
    AddressLength = 3
    VersionByte = 1
    Crc16 <- MCCrc16
    Blake2b <- MCBlake2b
    Creator <- MCCreator
    Program <- MCPrograms
    Params <- MCParams
    Calls <- MCEngineCallsSet

SPECIFICATION FairSpec

CHECK_DEADLOCK FALSE

INVARIANT TypeOK
INVARIANT EventsBubbleInOrder
INVARIANT HeaderEncodingCanonical
PROPERTY IgniteRefinesSpec
PROPERTY IgniteTerminates
