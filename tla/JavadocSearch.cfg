SPECIFICATION Spec
CONSTANTS
  Index <- MCIndex
  Term <- MCTerm
  Lower <- MCLower
  Small <- MCSmall
  Undefined <- MCUndefined
  Limit = 2
INVARIANTS
  TypeOK
  MenuAnswersTerm
  MenuExplains
  SelectLeadsToPage
  WatermarkNotSearched
