--------------------------- MODULE MCSemaphorePool ---------------------------
EXTENDS SemaphorePool

MCTasks == 1..N

=============================================================================
