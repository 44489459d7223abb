CONSTANTS
    AddressSpace <- MCAddressSpace
    Files <- MCAllFiles
    Replacements <- MCReplacements
    GridSize = 4
    CellValues = 1024
SPECIFICATION Spec
INVARIANTS
    ReadsStayInside
    MetadataBelongToPixels
    GainsFromOwnPlane
    ListAppliedInOrder
