---------------------------- MODULE MCMapUpdater ----------------------------
EXTENDS MapUpdater

CONSTANTS w1, w2, azeroth, raid, r1, r2

MCWorkers == {w1, w2}
MCContinents == {azeroth}
MCDungeons == {raid}
MCInstances == {r1, r2}
MCParentOf == [i \in MCInstances |-> raid]
=============================================================================
