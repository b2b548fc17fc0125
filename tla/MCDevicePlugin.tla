--------------------------- MODULE MCDevicePlugin ---------------------------
(* Two successive plugin pods of a node with two devices. *)
EXTENDS DevicePlugin
=============================================================================
