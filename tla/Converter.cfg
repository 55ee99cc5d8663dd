CONSTANTS
  Names = {m1, m2}
  Extensions <- MCExtensions
  MaxRows = 3
  MaxRestarts = 1
  MaxFfmpeg = 2
  MaxConnections = 1
SPECIFICATION FairSpec
INVARIANTS
  ConvertsAviFilesOnly
  OneWriterPerOutput
  OfferedOutputAtRest
PROPERTIES
  EveryVideoOffered
