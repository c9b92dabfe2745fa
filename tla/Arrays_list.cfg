SPECIFICATION Spec
CONSTANTS
  Value = {v1, v2}
  Places <- MCPlaces
  Raised = Raised
  Garbage = Garbage
  Avoid = {"growth", "longSlice"}
  MaxBuilt = 1
  MaxArrays = 2
  MaxIterators = 2
  MaxLength = 3
  MaxChanges = 2
INVARIANTS TypeOK CursorInside
PROPERTIES IsList
SYMMETRY MCSymmetry
VIEW MCView
