--------------------------- MODULE MCDatabasePool ---------------------------
EXTENDS DatabasePool

CONSTANTS world, map, w1, w2

MCCallers == {world, map}
MCWorkers == {w1, w2}
=============================================================================
