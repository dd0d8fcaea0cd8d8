CONSTANTS
    r1 = r1
    r2 = r2
    Reqs <- MCReqs
    MaxHeight = 2
    DeployHeight = 1
    TxHeight = 1
    Latest = Latest
    None = None
SYMMETRY MCSymmetry
SPECIFICATION Spec
\* The server idles once both requests are answered and the node is done.
CHECK_DEADLOCK FALSE
INVARIANT ApiNeverFatal
