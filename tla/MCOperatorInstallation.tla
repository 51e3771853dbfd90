----------------------- MODULE MCOperatorInstallation -----------------------
(***************************************************************************)
(* An instance of OperatorInstallation: the operator that deploys the      *)
(* broker and the one that joins it, on the cluster of the broker.         *)
(***************************************************************************)
EXTENDS OperatorInstallation

CONSTANTS deployBroker, joinBroker

Both == {deployBroker, joinBroker}

LighthouseAccounts == {"agent", "coredns"}

OneOther == {"router"}
=============================================================================
