CONSTANTS
  Words <- MCWords
  Quoted <- MCQuoted
  MaxStatements = 3
  MaxTokens = 2
  NumberOf <- MCNumberOf
SPECIFICATION Spec
INVARIANTS
  TypeOK
  PrintsWhatWasRead
  
  
