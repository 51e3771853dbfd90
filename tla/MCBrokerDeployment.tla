------------------------- MODULE MCBrokerDeployment -------------------------
(***************************************************************************)
(* Instances of BrokerDeployment: a space of 32 addresses and a handful of *)
(* configurations a user may move between.                                 *)
(***************************************************************************)
EXTENDS BrokerDeployment

MCSpace == 32

MCSizes == {1, 2, 4, 8, 16, 32}

Config(enabled, ip, n) ==
    [enabled |-> enabled, range |-> [ip |-> ip, size |-> 16], size |-> n]

Enabled == Config(TRUE, 16, 4)
Disabled == Config(FALSE, 16, 4)
TooLarge == Config(TRUE, 16, 9)
LargerClusters == Config(TRUE, 16, 8)

AllEnabled == {Enabled, LargerClusters}
OnOffAndBad == {Enabled, LargerClusters, Disabled, TooLarge}
OnAndOff == {Enabled, Disabled}

NoSteps == {}
Reported == Requests \ {"ledger", "status"}
LedgerOnly == {"ledger"}
=============================================================================
