-------------------------- MODULE MCSettingDialog --------------------------
(* Instances of SettingDialog for TLC: the buttons of the run.  Of commands  *)
(* that differ only in the name of a coil one is enough.                     *)
EXTENDS SettingDialog

DialogButtons == {"GOGOGO", "Set", "Ret", "Escape", "MotorParaApply",
                  "MotorParaApply_2", "MotorTest", "EditSpeed", "TEST2", "TEST3",
                  "TEST4"}

=============================================================================
