SPECIFICATION SeedingSpec
CONSTANTS
    None = None
    u1 = u1
    d1 = d1
    s1 = s1
    Identifier = {u1, core}
    ServiceId = {s1}
    DescriptorId = {d1}
    Version = {1}
    Window <- OneWindow
    Class = {"data-element", "model"}
    Subject = {}
    Terms = {}
    Source = {x1}
    Seeder = {r1, r2}
    Dataset <- MCDataset
    SeedVersion = 1
    SeedWindow <- SeedStart
    CoreId = core
    CoreSource = x1
    Taken = {u1, d1, s1, core}
    MaxLog = 9
    MaxCrash = 2
INVARIANTS
    SeededMeansPopulated
    OneRequestSeeds
    RegisteredOnce
PROPERTIES
    SeedsEnd
CHECK_DEADLOCK FALSE
