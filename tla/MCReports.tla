------------------------------ MODULE MCReports ------------------------------
(***************************************************************************)
(* Small instances of the report pages.                                    *)
(***************************************************************************)
EXTENDS Reports

\* One filter of the crawl log, which shows the first row only.
MCPredicates == {{1}}
=============================================================================
