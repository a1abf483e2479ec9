SPECIFICATION Spec
CONSTANTS
    Client = {c1}
    Item <- MCItem
    TypeOf <- MCTypeOf
    MaxCountOf <- MCMaxCountOf
    NotDroppable = {"material"}
    Food <- MCFood
    Bags = {"bag"}
    Boxes <- MCBoxes
    MaxOpened = 1
    Resets = {"reset"}
    Material = "material"
    Shop <- MCShop
    Crafts <- MCCrafts
    Harvest <- MCHarvest
    Upgrade = {"damage", "health"}
    Counts = {1, 2}
    Half = 2048
    MaxGain = 8
    MaxHeld = 2
    MaxMoney = 1
    MaxLevel = 2
    MaxDrops = 1
INVARIANTS
    TypeOK
    CountsInRange
    OneWorn
    PetFollows
    PointsKept
PROPERTIES
    NothingForFree
CHECK_DEADLOCK FALSE
