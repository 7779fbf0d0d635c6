CONSTANTS
    Clients = {c1, c2}
    NoClient = NoClient
    DHCP_POOL_START = 127
    DHCP_POOL_END = 129
    WordBits = 32
    Pools <- MCPoolsOne
    Locals <- MCLocals
    Requests <- MCRequests
    InformingClients = {c1, c2}
SPECIFICATION Spec
SYMMETRY Stations
INVARIANT NoDoubleLease
