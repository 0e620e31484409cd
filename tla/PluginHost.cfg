SPECIFICATION Spec
CONSTANTS
  Hosts <- MCHosts
  Callers = {c1, c2}
  cmd = cmd
  box = box
  srv = srv
  Modules = {cmd, box, srv}
  p2 = p2
  p3 = p3
  Ports = {p2, p3}
  NoPort = NoPort
  gin = gin
  web = web
  api = api
  Mode <- MCMode
  ConfigPort <- MCConfigPort
  RemoteId <- MCRemoteId
  ConfigId <- MCConfigId
  MaxAttempts = 2
  MaxProcs = 2
  MaxCalls = 3
  Nobody = Nobody
INVARIANT StartedOncePerConnection
INVARIANT ContainersEndWithTheHost
PROPERTY CallsReturn
CHECK_DEADLOCK FALSE
