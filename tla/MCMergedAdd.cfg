SPECIFICATION Spec
CONSTANTS
  Handles = {h1, h2, h3}
  Nobody = Nobody
  Styles <- TwoStyles
  MaxSlots = 3
PROPERTIES MergedAddContinues
