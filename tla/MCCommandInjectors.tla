------------------------- MODULE MCCommandInjectors -------------------------
(* Instances of CommandInjectors for TLC. *)
EXTENDS CommandInjectors, TLC

CONSTANTS reboot, cmd, ipmitool, process, sw, c1, c2, c3

KindAll == (reboot :> "reboot") @@ (cmd :> "cmd") @@ (ipmitool :> "ipmitool")
           @@ (process :> "process") @@ (sw :> "sw")
TargetsTwo == [j \in Job |-> IF KindAll[j] \in {"process", "sw"} THEN 1 ELSE 2]
CommandsTwo == [j \in Job |-> IF KindAll[j] \in {"cmd", "sw"} THEN 2 ELSE 1]
Alike == Permutations(Call)
=============================================================================
