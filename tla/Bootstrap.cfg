SPECIFICATION FairSpec
CONSTANTS
  Processes = {p1, p2}
  Services = {"retrieval"}
  Tables <- MCTables
  ChunkTable = "document_chunks"
  ConfigTable = "provider_configs"
  Columns <- MCColumns
  TableOf <- MCTableOf
  Native <- MCNative
  OldSchemas <- MCOldSchemas
  Providers <- MCProviders
  Upgradable <- MCUpgradable
  OnStartup = TRUE
  MaxEdits = 1
  MaxFaults = 2
INVARIANT TypeOK
INVARIANT SchemaReady
PROPERTY RouterComplete
PROPERTY NoEndlessRetry
CHECK_DEADLOCK FALSE
