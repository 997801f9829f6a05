CONSTANTS
  NewMemes <- MCNewMemes
  Retyped <- MCRetyped
  Templates <- MCTemplates
  MaxId = 2
  MaxLength = 3
SPECIFICATION Spec
INVARIANTS
  CutMessageKeepsUri
  FormRoundTrip
  EditKeepsMeme
  
