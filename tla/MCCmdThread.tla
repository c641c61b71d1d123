----------------------------- MODULE MCCmdThread -----------------------------
(* CmdThread for TLC: an ioctl and a timer race each other, the thread and  *)
(* the open and unload paths.                                               *)
EXTENDS CmdThread

MCCallers == {"ioctl", "timer"}
AllKinds == [c \in MCCallers |-> IF c = "ioctl" THEN {"chplan", "disconnect"} ELSE {"ps", "reset"}]
=============================================================================
