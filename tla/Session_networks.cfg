\* All clients on RMI or all on sockets.
SPECIFICATION FairSpec
CONSTANTS
    a = a
    b = b
    c = c
    green = green
    blue = blue
    pink = pink
    Client = {a, b, c}
    Network = {{}, {a, b, c}}
    Colour = {green, blue, pink}
    Wishes <- MCWishes
    NoColour = NoColour
    NoOne = NoOne
    MinPlayer = 2
    MaxPlayer = 3
\* A token whose user is gone cannot be logged out: the server may end up stuck.
CHECK_DEADLOCK FALSE
INVARIANTS
    TypeOK
    ServerAgrees
    ColoursHeld
PROPERTIES
    GoneLeaves
    LobbyStarts
