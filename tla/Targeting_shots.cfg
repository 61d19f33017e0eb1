SPECIFICATION Spec
CONSTANTS
    you = you
    foe = foe
    other = other
    cp = cp
    blue = blue
    red = red
    green = green
    white = white
    yellow = yellow
    off = off
    idle = idle
    Length = 4
    Width = 3
    Excluded = {8}
    Room <- MCRoom
    Door <- MCDoor
    Player = {you, foe, other}
    Point = {cp}
    Shooter = you
    Spot <- MCSpot
    Nowhere = off
    Weapon <- MCWeapon
    ActionOf <- MCActionOf
    Idle = idle
SYMMETRY OtherSymmetry
INVARIANTS
    TypeOK
    ShotsAsRuled
    SightAgrees
PROPERTIES
    AsForeseen
