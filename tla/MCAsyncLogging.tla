--------------------------- MODULE MCAsyncLogging ---------------------------
(***************************************************************************)
(* Small instances of AsyncLogging.                                        *)
(***************************************************************************)
EXTENDS AsyncLogging

CONSTANTS r1, r2
=============================================================================
