--------------------------- MODULE MCPieceLevel ----------------------------
EXTENDS PieceLevel

CONSTANTS seeder, reader, t1, t2

MCHostOf == [t \in {t1, t2} |-> reader]
=============================================================================
