----------------------------- MODULE MCThreadPool ------------------------------
(***************************************************************************)
(* Instances of ThreadPool for TLC: every use of the code.                 *)
(***************************************************************************)
EXTENDS ThreadPool

MCModes == {m \in ModeType : m.late => m.waits /\ ~m.checked}
=============================================================================
