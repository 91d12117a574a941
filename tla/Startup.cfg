SPECIFICATION Spec
CONSTANTS
  CommandLines <- MCCommandLines
  Documents <- MCDocuments
  Supported <- MCSupported
  Unwritable <- MCUnwritable
  SizeLimit = 1000
  PortNumber <- MCPortNumber
  Matches <- MCMatches
  Payloads <- MCPayloads
  MaxCreated = 2
INVARIANTS
  TypeOK
  ConfiguredAsWritten
  LoggedTextDenotesPayload
CHECK_DEADLOCK FALSE
