\* Every engine; statements may be refused, but not a rollback to a savepoint.
SPECIFICATION Spec
CONSTANTS
    Engines = {"sqlserver", "postgres", "mysql", "sqlite", "db2", "oracle", "snowflake"}
    Asks <- MCAsks
    Names <- MCNames
    MaxWrites = 3
    MaxBegins = 2
    MaxScopes = 3
    Refusals = {"unknown", "isolation", "access", "lock", "manual", "create", "release"}
    ReuseNames = FALSE
    MaxIdentifierLen = 2
    MaxU32 = 4095
    None = None
INVARIANTS
    SettingsInForce
PROPERTY
    ScopesNest
CHECK_DEADLOCK FALSE
