SPECIFICATION Spec
CONSTANTS
  Handles = {h1, h2, h3}
  Nobody = Nobody
  Styles <- TwoStyles
  MaxSlots = 3
INVARIANTS HandlesOwnTheirSlots MisroutedIsMarked DrawsAtHome
PROPERTIES ImplementsStrokes JoinsOnlyTheNewest
SYMMETRY Symmetry
