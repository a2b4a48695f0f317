CONSTANTS
  Support <- MCSupport
  Comparators <- MCComparators
  BadAddrs <- MCBadAddrs
  BadRegexes <- MCBadRegexes
  Scripts <- MCScripts
SPECIFICATION Spec
INVARIANTS
  RequireGate
CHECK_DEADLOCK FALSE
