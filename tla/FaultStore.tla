------------------------------ MODULE FaultStore ------------------------------
(***************************************************************************)
(* chaos/state/manager.py: StateManager over FileFaultRepository.  Every   *)
(* call reads the whole JSON file, changes the copy and writes the whole   *)
(* file back, with no lock: open('w') truncates the file, the data follow  *)
(* in a later write, and whoever reads a file that does not parse sees an  *)
(* empty store.                                                            *)
(*                                                                         *)
(* The callers are the case threads, each with the fault it injects        *)
(* (record_fault, then mark_recovered or mark_failed), and processes that  *)
(* run clear_all.  A record is reduced to its status.                      *)
(***************************************************************************)
EXTENDS Naturals

CONSTANTS Case,       \* case threads; a thread also names its fault
          Cleaner,    \* processes that run clear_all
          NoCase,
          MaxFailures \* bound on crashes and failed writes

ASSUME StoreAssumption ==
    /\ NoCase \notin Case /\ Case \cap Cleaner = {}
    /\ MaxFailures \in Nat

VARIABLES file,     \* the records last written
          shape,    \* of the file: "empty" (or absent), "valid" or "garbled" JSON
          pc,       \* where each caller stands in its call
          target,   \* the fault its call is about
          buffer,   \* the records its call has loaded and changed
          todo,     \* faults a cleaner has still to update
          wish,     \* the status each case last asked for
          ok,       \* cases whose last call returned True
          failures, \* crashes and failed writes so far
          overlap   \* history: a call has begun while another was under way

vars == <<file, shape, pc, target, buffer, todo, wish, ok, failures, overlap>>

Caller == Case \cup Cleaner
Status == {"running", "recovered", "failed"}
Empty == [f \in Case |-> "none"]

Init ==
    /\ file = Empty /\ shape = "empty"
    /\ pc = [p \in Caller |-> "idle"]
    /\ target = [p \in Caller |-> NoCase]
    /\ buffer = [p \in Caller |-> Empty]
    /\ todo = [q \in Cleaner |-> {}]
    /\ wish = Empty /\ ok = {}
    /\ failures = 0 /\ overlap = FALSE

\* _load_records: anything that does not parse is an empty store.
Loaded == IF shape = "valid" THEN file ELSE Empty

Idle(p) == pc[p] \in {"idle", "done", "dead"}

Quiet == \A p \in Caller : Idle(p)

Begins(p) == pc[p] = "idle" /\ overlap' = (overlap \/ ~Quiet)

Goes(p, place) == pc' = [pc EXCEPT ![p] = place]

-----------------------------------------------------------------------------
(* Calls *)

RecordFault(c) ==
    /\ Begins(c) /\ wish[c] = "none"
    /\ wish' = [wish EXCEPT ![c] = "running"] /\ ok' = ok \ {c}
    /\ target' = [target EXCEPT ![c] = c]
    /\ Goes(c, "load")
    /\ UNCHANGED <<file, shape, buffer, todo, failures>>

MarkRecovered(c) ==
    /\ Begins(c) /\ wish[c] = "running"
    /\ wish' = [wish EXCEPT ![c] = "recovered"] /\ ok' = ok \ {c}
    /\ target' = [target EXCEPT ![c] = c]
    /\ Goes(c, "load")
    /\ UNCHANGED <<file, shape, buffer, todo, failures>>

\* mark_failed loads the file twice, once to get the record and once to save it.
MarkFailed(c) ==
    /\ Begins(c) /\ wish[c] = "running"
    /\ wish' = [wish EXCEPT ![c] = "failed"] /\ ok' = ok \ {c}
    /\ target' = [target EXCEPT ![c] = c]
    /\ Goes(c, "get")
    /\ UNCHANGED <<file, shape, buffer, todo, failures>>

\* Mutant: get_active_faults without its filter on the status.
ClearAllRecords(q) ==
    /\ Begins(q)
    /\ todo' = [todo EXCEPT ![q] = {f \in Case : Loaded[f] # "none"}]
    /\ Goes(q, "next")
    /\ UNCHANGED <<file, shape, target, buffer, wish, ok, failures>>

\* clear_all works on a snapshot of the active faults.
ClearAll(q) ==
    /\ Begins(q)
    /\ todo' = [todo EXCEPT ![q] = {f \in Case : Loaded[f] = "running"}]
    /\ Goes(q, "next")
    /\ UNCHANGED <<file, shape, target, buffer, wish, ok, failures>>

ClearNext(q) ==
    /\ pc[q] = "next"
    /\ \/ /\ todo[q] = {}
          /\ Goes(q, "done")
          /\ UNCHANGED <<target, todo>>
       \/ \E f \in todo[q] :
             /\ target' = [target EXCEPT ![q] = f]
             /\ todo' = [todo EXCEPT ![q] = @ \ {f}]
             /\ Goes(q, "load")
    /\ UNCHANGED <<file, shape, buffer, wish, ok, failures, overlap>>

-----------------------------------------------------------------------------
(* Steps of a call *)

\* What the call writes for its fault.
Wanted(p) == IF p \in Cleaner THEN "recovered" ELSE wish[p]

\* update_status refuses a fault that has no record; save does not look.
Updates(p) == Wanted(p) = "recovered"

Returns(p) == Goes(p, IF p \in Cleaner THEN "next" ELSE "idle")

Get(c) ==
    /\ pc[c] = "get"
    /\ IF Loaded[c] = "none" THEN Returns(c) ELSE Goes(c, "load")
    /\ UNCHANGED <<file, shape, target, buffer, todo, wish, ok, failures, overlap>>

\* Mutant: save starts from an empty list.
LoadNothing(p) ==
    /\ pc[p] = "load"
    /\ IF Updates(p) /\ Loaded[target[p]] = "none"
       THEN Returns(p) /\ UNCHANGED buffer
       ELSE /\ buffer' = [buffer EXCEPT ![p] = [Empty EXCEPT ![target[p]] = Wanted(p)]]
            /\ Goes(p, "truncate")
    /\ UNCHANGED <<file, shape, target, todo, wish, ok, failures, overlap>>

Load(p) ==
    /\ pc[p] = "load"
    /\ IF Updates(p) /\ Loaded[target[p]] = "none"
       THEN Returns(p) /\ UNCHANGED buffer
       ELSE /\ buffer' = [buffer EXCEPT ![p] = [Loaded EXCEPT ![target[p]] = Wanted(p)]]
            /\ Goes(p, "truncate")
    /\ UNCHANGED <<file, shape, target, todo, wish, ok, failures, overlap>>

Truncate(p) ==
    /\ pc[p] = "truncate"
    /\ shape' = "empty"
    /\ Goes(p, "write")
    /\ UNCHANGED <<file, target, buffer, todo, wish, ok, failures, overlap>>

\* The data go to the start of the file.  If another call wrote its own there
\* since the truncation, what is longer than this call's data stays behind them.
Write(p) ==
    /\ pc[p] = "write"
    /\ file' = buffer[p]
    /\ shape' \in IF shape = "empty" THEN {"valid"} ELSE {"valid", "garbled"}
    /\ ok' = ok \cup ({p} \cap Case)
    /\ buffer' = [buffer EXCEPT ![p] = Empty]
    /\ Returns(p)
    /\ UNCHANGED <<target, todo, wish, failures, overlap>>

\* The write raised half way: _save_records returns False.
WriteFails(p) ==
    /\ failures < MaxFailures
    /\ pc[p] = "write"
    /\ failures' = failures + 1
    /\ shape' = "garbled"
    /\ buffer' = [buffer EXCEPT ![p] = Empty]
    /\ Returns(p)
    /\ UNCHANGED <<file, target, todo, wish, ok, overlap>>

\* The process of the cases, or one that clears, is killed; a case that has begun
\* is not taken up again.
Crash ==
    /\ failures < MaxFailures
    /\ failures' = failures + 1
    /\ \E S \in {Case} \cup {{q} : q \in Cleaner} :
          pc' = [p \in Caller |-> IF p \in S /\ (p \in Cleaner \/ wish[p] # "none")
                                  THEN "dead" ELSE pc[p]]
    /\ UNCHANGED <<file, shape, target, buffer, todo, wish, ok, overlap>>

Next ==
    \/ \E c \in Case : RecordFault(c) \/ MarkRecovered(c) \/ MarkFailed(c) \/ Get(c)
    \/ \E q \in Cleaner : ClearAll(q) \/ ClearNext(q)
    \/ \E p \in Caller : Load(p) \/ Truncate(p) \/ Write(p) \/ WriteFails(p)
    \/ Crash

Spec == Init /\ [][Next]_vars

-----------------------------------------------------------------------------
(* Properties *)

Cleared == {q \in Cleaner : pc[q] # "idle"}

\* Calls that do not overlap and do not fail leave the file as they said: a call
\* that returned True is what the next reader finds, unless clear_all came after.
StoredAsTold ==
    Quiet /\ failures = 0 /\ ~overlap =>
        \A c \in ok : \/ Loaded[c] = wish[c]
                      \/ wish[c] = "running" /\ Loaded[c] = "recovered" /\ Cleared # {}

\* The fault a call is writing counts as written once the file is truncated.
Saving == {p \in Caller : pc[p] = "write"}

Log == INSTANCE FaultLog
    WITH Fault <- Case,
         mishaps <- failures,
         log <- IF Saving # {} THEN buffer[CHOOSE p \in Saving : TRUE] ELSE Loaded

logVars == Log!vars

\* As long as calls do not overlap the file is a FaultLog: every call does what
\* the log allows, and a crash or a failed write costs nothing or everything.
ImplementsLog == Log!Init /\ [][~overlap' => Log!Next]_logVars
=============================================================================
