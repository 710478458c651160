------------------------ MODULE MCInstanceLifecycle ------------------------
(* Small instances of InstanceLifecycle for TLC. *)
EXTENDS InstanceLifecycle, TLC

CONSTANTS i1, i2, c1, c2

OneInstance == {i1}
TwoInstances == {i1, i2}

OwnName == [i \in Instances |-> i]
OneName == [i \in Instances |-> "lobby"]
AllTcp == [i \in Instances |-> "tcp"]

NoPort == {}
OnePort == {1}
TwoPorts == {1, 2}

OneClient == {c1}
TwoClients == {c1, c2}

PortKinds == {"create", "configure", "archive", "unarchive"}
AllKinds == PowerKinds \cup RecordKinds

\* Clients are alike, and so are instances under each of the namings above.
Alike == Permutations(Clients) \cup Permutations(Instances)
=============================================================================
