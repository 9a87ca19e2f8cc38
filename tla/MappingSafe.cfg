\* Two clients and a relay, one name to give, three connections; half a word
\* holds the products of two primes of KeySize.  The first server's modulus
\* fits into the clients' words and the second's does not; a client or relay
\* with the second peer's modulus, 10, cannot read the character 12.
SPECIFICATION FairSpec
CONSTANTS
    Word = 20
    KeySize = 32
    RandMax = 5
    Codes = {2, 4, 12}
    ServerDraws <- MCServerDraws
    PeerDraws <- MCPeerDraws
    Clients = {c1, c2}
    Relays = {r1}
    Names = {u1}
    Predefined = {}
    MaxConns = 3
    Length = 1
    NotFound = NotFound
    Unread = Unread
    Garbled = Garbled
    Nothing = Nothing
    None = None
INVARIANTS TypeOK GarbledOnlyAcrossKinds DroppedOnlyOnOverflow SameNameOnlyOnOverlap SavedIsCurrent
PROPERTIES NamesServed 
CHECK_DEADLOCK FALSE
