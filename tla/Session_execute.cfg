CONSTANTS
  c1 = c1  c2 = c2
  Nothing = Nothing
  Conns <- TwoConns
  Logins <- SomeLogins
  Authority <- Users
  ProxyUser <- Guest
  Commands <- SomeCommands
  Sends <- Told
  Databases = {"db", "information_schema"}
  Placeholders <- Marks
  Results <- SomeResults
  SeqSize = 4
  MaxColumns = 2
  MaxRows = 1
  MaxPrepares = 2
SPECIFICATION Spec
PROPERTY ToldIdIsKnown
CHECK_DEADLOCK FALSE
