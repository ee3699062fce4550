-------------------------- MODULE MCCircuitBreaker --------------------------
EXTENDS BreakerHistory

=============================================================================
