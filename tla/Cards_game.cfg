SPECIFICATION Spec
CONSTANTS
    PowerUp = {p1, p2, p3, p4, p5}
    AmmoCard = {a1, a2, a3}
    Weapon = {w1, w2, w3}
    Bonus = {a1}
    Player = {ann, bob}
    NoOne = NoOne
    Tile = {spawn, yard, hall}
    Spawn = {spawn}
    SpawnSlots = 2
    MaxPup = 2
    MaxWeapon = 1
SYMMETRY CardSymmetry
INVARIANTS
    TypeOK
    CardsConserved
    LimitsKept
    DrawSucceeds
    Restocked
