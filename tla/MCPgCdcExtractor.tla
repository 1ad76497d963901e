------------------------- MODULE MCPgCdcExtractor -------------------------
(* The PostgreSQL CDC extractor for TLC: two relations as model values. *)
EXTENDS PgCdcExtractor

CONSTANTS r1, r2

MCRels == {r1, r2}

=============================================================================
