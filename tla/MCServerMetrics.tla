--------------------------- MODULE MCServerMetrics ---------------------------
EXTENDS ServerMetrics
=============================================================================
