-------------------------- MODULE MCNotifications --------------------------
(* Instances of Notifications: one user, who may want silence from hour 1  *)
(* to hour 0 of a day of two.                                              *)
EXTENDS Notifications

CONSTANTS user1, dev1, temp

MCNight == {[start |-> 1, end |-> 0]}
MCOwner == [d \in Devices |-> user1]
============================================================================
