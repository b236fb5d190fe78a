--------------------------- MODULE MCCaseExecutor ---------------------------
(* Instances of CaseExecutor for TLC. *)
EXTENDS CaseExecutor, TLC

CONSTANTS m, n, k, p

\* Two network cases, one of them naming its device, and a pod stop.
NamedEth0 == (m :> NoDevice) @@ (n :> Eth0) @@ (k :> Container) @@ (ClearCommand :> Eth0)

TimingMixed == (m :> "none") @@ (n :> "bad") @@ (k :> "sound")
MatchOne == (m :> {p}) @@ (n :> {p}) @@ (k :> {p})
TargetsAlone == (m :> 1) @@ (n :> 1) @@ (k :> 1)
LoopOnce == (m :> 1) @@ (n :> 1) @@ (k :> 1)
=============================================================================
