SPECIFICATION Spec
CONSTANTS
  Group <- Groups
  Name <- Names
  Headers <- AllHeaders
  MaxLines = 5
INVARIANTS NoMisuse SizeCovers GroupsAreSections LogAgrees WalkSkipsDeprecated
CHECK_DEADLOCK FALSE
