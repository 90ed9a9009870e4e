---------------------------- MODULE MCDeviceCommands ----------------------------
(* TLC instance of DeviceCommands: two captures and a reboot of one device, a   *)
(* plain command to another.                                                    *)
EXTENDS DeviceCommands, TLC

CONSTANTS c1, c2, b1, k1, d1, d2

Kinds == c1 :> "capture" @@ c2 :> "capture" @@ b1 :> "reboot" @@ k1 :> "command"
Targets == c1 :> d1 @@ c2 :> d1 @@ b1 :> d1 @@ k1 :> d2
================================================================================
