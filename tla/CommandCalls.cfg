SPECIFICATION Spec
CONSTANTS
    c1 = c1
    c2 = c2
    c3 = c3
    reboot = reboot
    cmd = cmd
    ipmitool = ipmitool
    process = process
    sw = sw
    Call = {c1, c2, c3}
    NoJob = NoJob
    Job = {reboot, cmd, ipmitool, process, sw}
    Kind <- KindAll
    Targets <- TargetsTwo
    Commands <- CommandsTwo
SYMMETRY Alike
INVARIANTS
    TrueMeansDone
    FailureIsLocal
    PoolMadeOnce
