SPECIFICATION ClientSpec
CONSTANTS
    MaxQuestion = 2
    Depth <- MCDepth
    MaxFlight = 2
    MaxStack = 2
    PowerUpChoices <- MCPowerUpChoices
INVARIANTS
    NotDeaf
PROPERTIES
    Shown
