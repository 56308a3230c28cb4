\* Every pure function on every input of the bounded sets.
SPECIFICATION Spec
CONSTANTS
  Names <- MCNames
  Class <- MCClass
  IntHalf <- MCIntHalf
  Words <- MCWords
  Documents <- MCDocuments
  Expressions <- MCExpressions
  Lexings <- MCLexings
  Patterns <- MCPatterns
  Strings <- MCStrings
  Requested <- MCRequested
  Responses <- MCResponses
  Loggings <- MCLoggings
INVARIANTS PathsFound PathsParsed GlobMatches VariablesFaithful LogRedacted
