CONSTANTS
  Flags = {"f1", "f2"}
  MarkFlags <- MCMarkFlags
  Addrs = {"me", "alias", "friend", "daemon"}
  SysAddrs = {"daemon"}
  Null = Null
  Crash = Crash
  Junk <- MCJunk
  Scripts <- EvalScripts
  Messages <- VacationMessages
  Hosts <- EvalHosts

SPECIFICATION Spec

INVARIANT
  NoCrash
