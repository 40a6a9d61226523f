---------------------------- MODULE MCSharedHost ----------------------------
(***************************************************************************)
(* TLC instance of HelperInstallation and AddressLease.  The two share     *)
(* nothing on the host but the order in which a client goes through them,  *)
(* so that one instance checks each among clients that do only that one.   *)
(***************************************************************************)
EXTENDS HelperInstallation, AddressLease

VARIABLE half    \* the half considered: install or lease

Init == half \in {"install", "lease"} /\ InstallInit /\ LeaseInit

Next ==
  \/ half = "install" /\ InstallNext /\ UNCHANGED <<half, leaseVars>>
  \/ half = "lease" /\ LeaseNext /\ UNCHANGED <<half, installVars>>

Spec == Init /\ [][Next]_<<half, installVars, leaseVars>>

LiveSpec == Spec /\ InstallFairness /\ LeaseFairness

\* Other programs use the last port of every address.
LastPort == Addresses \X {2}
=============================================================================
