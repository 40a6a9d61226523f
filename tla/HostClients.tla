---------------------------- MODULE HostClients ----------------------------
\* The clients of one remote host, each with one operation at a time.
EXTENDS Naturals, FiniteSets

CONSTANTS Clients, None

ASSUME ClientsAssumption == None \notin Clients
=============================================================================
