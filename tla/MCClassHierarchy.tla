--------------------------- MODULE MCClassHierarchy ---------------------------
EXTENDS ClassHierarchy
=============================================================================
