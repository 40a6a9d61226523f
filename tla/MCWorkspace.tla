---------------------------- MODULE MCWorkspace ----------------------------
\* A TLC instance of Workspace in which every process may be killed.
EXTENDS Workspace

Everyone == Processes
============================================================================
