----------------------------- MODULE MCPwrCtrl -----------------------------
(* Two callers against the check, a reset and a suspend.                    *)
EXTENDS PwrCtrl
====
