---- MODULE MCCatalog ----
EXTENDS Catalog

\* A database that is the demo's, one with only half of it, and one with tables that
\* have the same names and nothing else in common with it.
MCHolds == [r \in Root |-> CASE r = "talks"   -> {"moments", "segments"}
                             [] r = "half"    -> {"moments"}
                             [] r = "theirs"  -> Name
                             [] OTHER         -> {}]
====
