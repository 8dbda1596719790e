SPECIFICATION Spec
CONSTANTS
    Seeds <- SeedsDef
    Mutated <- MutatedDef
    NCells = 10
    MaxEntries = 2
    MaxStages = 3
INVARIANTS TypeOK CellsPartition RegionsFitFile
PROPERTIES ListSpec
