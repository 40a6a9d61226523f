------------------------- MODULE MCHelperLifecycle -------------------------
\* TLC instance of HelperLifecycle: two pieces of evidence, two exit statuses
\* and four diagnostics, of which a behaviour reports at most three.
EXTENDS HelperLifecycle
============================================================================
