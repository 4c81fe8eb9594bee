---------------------------- MODULE MCContainers ----------------------------
(* Instances of Containers for TLC. *)
EXTENDS Containers

\* In one bucket all keys collide; in nine, 0 and 9 do.  The value of 0 changes.
SomePairs == {KeyValue(0, "u"), KeyValue(0, "v"), KeyValue(9, "u"),
              KeyValue(4, "u"), KeyValue(6, "u")}
=============================================================================
