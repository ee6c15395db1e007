SPECIFICATION Spec
CONSTANTS
  Names = {x, y}
  MaxScopes = 3
  MaxBindings = 4
  MaxBlocks = 4
INVARIANTS ResolutionIsLexical ClosuresShareVariables
