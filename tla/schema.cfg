SPECIFICATION SchemaSpec
CONSTANTS
  MaxMigrations = 4
INVARIANTS
  NothingRefused
  WholeVersions
CHECK_DEADLOCK FALSE
