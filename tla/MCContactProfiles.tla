------------------------- MODULE MCContactProfiles -------------------------
\* Instance of ContactProfiles for TLC.
EXTENDS ContactProfiles
=============================================================================
