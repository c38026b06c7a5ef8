------------------------- MODULE MCGracefulShutdown -------------------------
EXTENDS GracefulShutdown, TLC

CONSTANTS r1, r2

MCRequests == {r1, r2}

=============================================================================
