CONSTANTS
    Keys <- MCKeys
    Values <- MCValues

SPECIFICATION TrieSpec

INVARIANT TrieTypeOK
INVARIANT GetMatchesContent
INVARIANT RootHashIsCanonical
