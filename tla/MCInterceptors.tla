--------------------------- MODULE MCInterceptors ---------------------------
EXTENDS Interceptors, TLC

CONSTANTS c1, c2

MCCalls == {c1, c2}

=============================================================================
