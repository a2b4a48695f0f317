CONSTANTS
  Flags = {"f1", "f2"}
  MarkFlags <- MCMarkFlags
  Addrs = {"me", "alias", "friend", "daemon"}
  SysAddrs = {"daemon"}
  Null = Null
  Crash = Crash
  Junk <- MCJunk
  Scripts <- PairScripts
  Messages <- XMessages
  Hosts <- FullHosts

SPECIFICATION Spec

INVARIANT
  FallbackKeep
