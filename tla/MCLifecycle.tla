---------------------------- MODULE MCLifecycle -----------------------------
EXTENDS Lifecycle

CONSTANTS a, b

MCName == {a, b}
=============================================================================
