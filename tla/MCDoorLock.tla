---------------------------- MODULE MCDoorLock ----------------------------
(* Model checking of DoorLock: the cfg files choose the door, its type and the delay; *)
(* threads stand for the key thread and the cmd thread, which both open the lock.     *)
EXTENDS DoorLock
=============================================================================
