--------------------------- MODULE MCStoredExpiry ---------------------------
EXTENDS StoredExpiry, SqliteNames

\* Cleanup of a SQL store finds its expiry index: whatever the quoted parts of
\* the table's name contain, migrate creates it on the table, in its schema
\* (index_target).
IndexFollowsTable == backend = "sql" => Misplaced = {}
=============================================================================
