\* Two users edit, move, insert and delete the same two rows; an admin has one
\* save of the theme out at a time, and other admins save theirs.
CONSTANTS
  p1 = p1
  p2 = p2
  k1 = k1
  k2 = k2
  x = x
  Null = Null
  NoRow = NoRow
  Empty = ""
  Keys <- TwoKeys
  Cols <- OneCol
  Text <- ThreeTexts
  InField <- WithoutBreaks
  Trimmed <- WithoutSpace
  Clients <- TwoClients
  None = None
  Presets <- TwoPresets
  Vars <- OneVar
  Colors <- TwoColors
  PRESETS <- Palette
  MaxSaves = 1
SYMMETRY Symmetry
SPECIFICATION EditorsSpec
INVARIANTS TypeOK PickersShowPainted SavedStyleIsStored GridTypeOK
PROPERTY EditKeepsOtherColumns
