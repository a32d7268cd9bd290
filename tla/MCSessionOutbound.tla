------------------------- MODULE MCSessionOutbound --------------------------
EXTENDS SessionOutbound
=============================================================================
