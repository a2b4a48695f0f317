CONSTANTS
  Support <- MCSupport
  Comparators <- MCComparators
  BadAddrs <- MCBadAddrs
  BadRegexes <- MCBadRegexes
  Scripts <- MCScripts
SPECIFICATION Spec
INVARIANT
  NoSilentSubstitution
CHECK_DEADLOCK FALSE
