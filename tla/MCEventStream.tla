--------------------------- MODULE MCEventStream ---------------------------
\* One task, one browser: no symmetry.
EXTENDS EventStream
=============================================================================
