------------------------------ MODULE MCEOPSI -------------------------------
(* Small instances of EOPSI. *)
EXTENDS EOPSIPhases

CONSTANTS alice, bob, carol, cloud, m1, m2, m3

\* The map of the parties orders them by id.
MCRank == [p \in Parties |->
  IF p = alice THEN 1 ELSE IF p = bob THEN 2 ELSE IF p = carol THEN 3 ELSE 4]

\* Any two clients have a common element, and each has one of its own.
MCData == [c \in Clients |->
  IF c = alice THEN {1, 2} ELSE IF c = bob THEN {1, 3} ELSE {1, 2, 3, 4}]

\* Secrets of three bytes, as in the simulation.
MCSecretLen == [c \in Clients |-> 3]

\* The default secret has twelve bytes; a secret below 256 has one.
MCSecretLenDefault == [c \in Clients |-> IF c = alice THEN 1 ELSE 12]

MCNoPairs == {}

\* Some of the pairs a request of bob to alice needs; AuthenticateAll gives all.
MCFewPairs == {<<alice, bob>>, <<alice, cloud>>, <<cloud, alice>>, <<cloud, bob>>}

MCAllPromises == PromiseNames
MCNoPromises == {}
MCNotFresh == PromiseNames \ {"fresh"}
MCNotFits == PromiseNames \ {"secretFits"}
=============================================================================
