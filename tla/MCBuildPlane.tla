----------------------------- MODULE MCBuildPlane -----------------------------
\* BuildPlane on a small instance.
EXTENDS BuildPlane
CONSTANTS k1, k2
===============================================================================
