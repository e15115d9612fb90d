--------------------------- MODULE MCDatabaseManager ---------------------------
(* The reference-counted connection with a few threads and one more handle    *)
(* than threads, so that a stale handle can never be mistaken for a new one.  *)
EXTENDS DatabaseManager

CONSTANTS t1, t2, t3, h1, h2, h3, h4

MCThread == {t1, t2, t3}
MCHandle == {h1, h2, h3, h4}
=============================================================================
