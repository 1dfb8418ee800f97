---------------------------- MODULE MCIpcBridge ----------------------------
(***************************************************************************)
(* Instances of IpcBridge for TLC: a few starts of KiCad and a few tool    *)
(* calls, with the worlds that the configurations name.                    *)
(***************************************************************************)
EXTENDS IpcBridge
=============================================================================
