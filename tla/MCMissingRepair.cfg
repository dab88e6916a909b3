SPECIFICATION Spec
CONSTANT MaxLength = 8
INVARIANTS
    RepairedAsPromised
    IndicesInside
