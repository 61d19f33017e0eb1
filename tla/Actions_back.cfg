SPECIFICATION Spec
CHECK_DEADLOCK FALSE
CONSTANTS
    red = red
    blue = blue
    newton = newton
    scope = scope
    grenade = grenade
    rocket = rocket
    shotgun = shotgun
    Colour <- MCColour
    Card <- MCCard
    ColourOf <- MCColourOf
    MaxAmmo = 1
    Weapon <- MCWeapon
    ReloadCost <- MCReloadCost
    Mode <- MCMode
    ModeCost <- MCModeCost
    Needs <- MCNeeds
    Excludes <- MCExcludes
    Template <- MCTemplate
    Scope <- MCScope
    Usable <- MCUsable
INVARIANTS
    EffectsComplete
