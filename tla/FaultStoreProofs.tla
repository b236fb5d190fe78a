---------------------------- MODULE FaultStoreProofs ----------------------------
(***************************************************************************)
(* Proofs about FaultStore, for every number of case threads, processes    *)
(* that clear, crashes and failed writes: while calls do not overlap the   *)
(* file implements FaultLog.                                               *)
(***************************************************************************)
EXTENDS FaultStore, TLAPS

Calling == {"get", "load", "truncate", "write"}
Busy(p) == pc[p] \in Calling \cup {"next"}

StatusOrNone == Status \cup {"none"}
Records == [Case -> StatusOrNone]

Types ==
    /\ file \in Records /\ shape \in {"empty", "valid", "garbled"}
    /\ pc \in [Caller -> Calling \cup {"idle", "next", "done", "dead"}]
    /\ target \in [Caller -> Case \cup {NoCase}]
    /\ buffer \in [Caller -> Records]
    /\ todo \in [Cleaner -> SUBSET Case]
    /\ wish \in Records /\ ok \subseteq Case
    /\ failures \in Nat /\ overlap \in BOOLEAN

\* What a call is about.
CallsKnown ==
    /\ \A c \in Case : /\ pc[c] \notin {"next", "done"}
                       /\ pc[c] \in Calling => target[c] = c /\ wish[c] # "none"
                       /\ pc[c] = "get" => wish[c] = "failed"
    /\ \A q \in Cleaner : /\ pc[q] # "get"
                          /\ pc[q] \in Calling => target[q] \in Case

\* What the readers of the file are about to find: the log of the refinement.
View == IF Saving # {} THEN buffer[CHOOSE p \in Saving : TRUE] ELSE Loaded

Alone == \A p, q \in Caller : Busy(p) /\ Busy(q) => p = q

\* A fault that is not recorded yet has no record.
Unseen ==
    \A c \in Case :
        wish[c] = "none" \/ (wish[c] = "running" /\ pc[c] \in {"load", "truncate"})
            => View[c] = "none"

\* What a call has loaded is still true when it writes.
Prepared ==
    \A p \in Caller :
        /\ pc[p] = "truncate" => /\ buffer[p] = [Loaded EXCEPT ![target[p]] = Wanted(p)]
                                 /\ Updates(p) => Loaded[target[p]] # "none"
        /\ pc[p] \in {"load", "truncate"} /\ Wanted(p) = "failed" => Loaded[target[p]] # "none"
        /\ pc[p] = "write" => shape = "empty" /\ buffer[p][target[p]] = Wanted(p)

InTurn == ~overlap => Alone /\ Unseen /\ Prepared

\* What a clear_all has before it is running, and what returned True is in the log.
ToldSoFar ==
    ~overlap /\ failures = 0 =>
        /\ \A c \in ok : /\ pc[c] = "idle"
                         /\ \/ View[c] = wish[c]
                            \/ wish[c] = "running" /\ View[c] = "recovered" /\ Cleared # {}
        /\ \A q \in Cleaner : Busy(q) =>
              /\ \A f \in todo[q] : View[f] = "running"
              /\ pc[q] \in {"load", "truncate"} => View[target[q]] = "running"
                                                   /\ target[q] \notin todo[q]

SInv == Types /\ CallsKnown /\ InTurn /\ ToldSoFar

-----------------------------------------------------------------------------
(* The view *)

\* The view while nobody, or one caller, is between truncation and write.
LEMMA ViewIs ==
    /\ Saving = {} => View = Loaded
    /\ \A p \in Caller : Saving = {p} => View = buffer[p]
  BY DEF View

LEMMA NextViewIs ==
    /\ Saving' = {} => View' = Loaded'
    /\ \A p \in Caller : Saving' = {p} => View' = buffer'[p]
  BY DEF View

\* A caller that is busy alone.
LEMMA AloneSaves ==
    ASSUME SInv, ~overlap, NEW p \in Caller, Busy(p)
    PROVE  /\ \A q \in Caller : q # p => ~Busy(q)
           /\ pc[p] = "write" => Saving = {p} /\ View = buffer[p]
           /\ pc[p] # "write" => Saving = {} /\ View = Loaded
<1>1. \A q \in Caller : q # p => ~Busy(q)
  BY DEF SInv, InTurn, Alone
<1>2. \A q \in Caller : pc[q] = "write" => q = p
  BY <1>1 DEF Busy, Calling
<1>3. Saving = IF pc[p] = "write" THEN {p} ELSE {}
  BY <1>2 DEF Saving
<1>4. QED
  BY <1>1, <1>3, ViewIs

\* Nobody is busy where a call begins that overlaps with none.
LEMMA BeginsAlone ==
    ASSUME SInv, NEW p \in Caller, Begins(p), ~overlap'
    PROVE  /\ ~overlap /\ pc[p] = "idle" /\ \A q \in Caller : ~Busy(q)
           /\ Saving = {} /\ View = Loaded
<1>1. Quiet /\ ~overlap /\ pc[p] = "idle"
  BY DEF Begins
<1>2. \A q \in Caller : ~Busy(q) /\ pc[q] # "write"
  BY <1>1 DEF Quiet, Idle, Busy, Calling
<1>3. Saving = {}
  BY <1>2 DEF Saving
<1>4. QED
  BY <1>1, <1>2, <1>3, ViewIs

LEMMA LoadedIsRecords == ASSUME Types PROVE Loaded \in Records /\ Empty \in Records
  BY DEF Types, Loaded, Empty, Records, StatusOrNone

-----------------------------------------------------------------------------
(* The actions *)

\* What a step may do to the log.
LogStep ==
    \/ View' = View /\ failures' = failures
    \/ \E f \in Case : View[f] = "none" /\ View' = [View EXCEPT ![f] = "running"]
                       /\ failures' = failures
    \/ \E f \in Case, s \in {"recovered", "failed"} :
          View[f] # "none" /\ View' = [View EXCEPT ![f] = s] /\ failures' = failures
    \/ failures' = failures + 1 /\ View' \in {View, Empty}

Kept == CallsKnown' /\ InTurn' /\ ToldSoFar' /\ (~overlap' => LogStep)

\* A case begins a call.
LEMMA CaseBegins ==
    ASSUME SInv, NEW c \in Case, RecordFault(c) \/ MarkRecovered(c) \/ MarkFailed(c) PROVE Kept
<1>1. PICK asked \in Status, place \in {"load", "get"} :
          /\ wish[c] = IF asked = "running" THEN "none" ELSE "running"
          /\ wish' = [wish EXCEPT ![c] = asked]
          /\ place = IF asked = "failed" THEN "get" ELSE "load"
          /\ pc' = [pc EXCEPT ![c] = place]
  BY DEF RecordFault, MarkRecovered, MarkFailed, Goes, Status
<1>2. /\ Begins(c) /\ ok' = ok \ {c} /\ target' = [target EXCEPT ![c] = c]
      /\ UNCHANGED <<file, shape, buffer, todo, failures>>
  BY DEF RecordFault, MarkRecovered, MarkFailed
<1>3. /\ c \in Caller /\ c \notin Cleaner /\ Case \subseteq Caller /\ Cleaner \subseteq Caller
      /\ wish'[c] = asked /\ pc'[c] = place /\ target'[c] = c
      /\ \A p \in Caller : p # c => pc'[p] = pc[p] /\ target'[p] = target[p]
      /\ \A d \in Case : d # c => wish'[d] = wish[d]
  BY <1>1, <1>2, StoreAssumption DEF SInv, Types, Caller, Records
<1>4. CallsKnown'
  BY <1>1, <1>3 DEF SInv, CallsKnown, Calling, Status
<1>5. SUFFICES ASSUME ~overlap' PROVE InTurn' /\ ToldSoFar' /\ LogStep
  BY <1>4 DEF Kept, InTurn, ToldSoFar
<1>6. /\ ~overlap /\ \A q \in Caller : ~Busy(q)
      /\ Saving = {} /\ View = Loaded
  BY <1>2, <1>3, <1>5, BeginsAlone
<1>7. Saving' = {} /\ Loaded' = Loaded
  BY <1>1, <1>2, <1>3, <1>6 DEF Saving, Loaded
<1>8. View' = View
  BY <1>6, <1>7, NextViewIs
<1>9. \A p \in Caller : p # c => ~Busy(p)' /\ pc'[p] \notin Calling \cup {"next"}
  BY <1>3, <1>6 DEF Busy
<1>10. Alone'
  BY <1>9 DEF Alone
<1>11. Unseen'
  <2>1. Unseen
    BY <1>6 DEF SInv, InTurn
  <2>2. ASSUME wish'[c] = "none" \/ wish'[c] = "running" PROVE View[c] = "none"
    BY <1>1, <1>3, <2>1, <2>2 DEF Unseen, Status
  <2>3. ASSUME NEW d \in Case, d # c,
               wish'[d] = "none" \/ (wish'[d] = "running" /\ pc'[d] \in {"load", "truncate"})
        PROVE  View[d] = "none"
    BY <1>3, <1>9, <2>1, <2>3 DEF Unseen, Calling
  <2>4. QED
    BY <1>8, <2>2, <2>3 DEF Unseen
<1>12. Prepared'
  <2>1. Wanted(c)' = asked /\ Unseen
    BY <1>3, <1>6 DEF Wanted, SInv, InTurn
  <2>2. asked = "failed" => place = "get"
    BY <1>1
  <2>3. QED
    BY <1>1, <1>3, <1>9, <2>1, <2>2 DEF Prepared, Calling
<1>13. ToldSoFar'
  <2>1. Cleared' = Cleared
    BY <1>3 DEF Cleared
  <2>2. ASSUME failures' = 0, NEW d \in ok'
        PROVE  /\ pc'[d] = "idle"
               /\ \/ View'[d] = wish'[d]
                  \/ wish'[d] = "running" /\ View'[d] = "recovered" /\ Cleared' # {}
    <3>1. d \in ok /\ d # c /\ d \in Case /\ failures = 0
      BY <1>2, <2>2 DEF SInv, Types
    <3>2. QED
      BY <1>3, <1>6, <1>8, <2>1, <3>1 DEF SInv, ToldSoFar
  <2>3. \A q \in Cleaner : ~Busy(q)'
    BY <1>3, <1>9
  <2>4. QED
    BY <2>2, <2>3 DEF ToldSoFar
<1>14. QED
  BY <1>2, <1>8, <1>10, <1>11, <1>12, <1>13 DEF InTurn, LogStep

\* clear_all takes its snapshot while nobody writes.
LEMMA ClearBegins == ASSUME SInv, NEW q \in Cleaner, ClearAll(q) PROVE Kept
<1>1. /\ Begins(q) /\ pc' = [pc EXCEPT ![q] = "next"]
      /\ todo' = [todo EXCEPT ![q] = {f \in Case : Loaded[f] = "running"}]
      /\ UNCHANGED <<file, shape, target, buffer, wish, ok, failures>>
  BY DEF ClearAll, Goes
<1>2. /\ q \in Caller /\ q \notin Case /\ Case \subseteq Caller /\ Cleaner \subseteq Caller
      /\ pc'[q] = "next" /\ todo'[q] = {f \in Case : Loaded[f] = "running"}
      /\ \A p \in Caller : p # q => pc'[p] = pc[p]
  BY <1>1, StoreAssumption DEF SInv, Types, Caller
<1>3. CallsKnown'
  BY <1>1, <1>2 DEF SInv, CallsKnown, Calling
<1>4. SUFFICES ASSUME ~overlap' PROVE InTurn' /\ ToldSoFar' /\ LogStep
  BY <1>3 DEF Kept, InTurn, ToldSoFar
<1>5. /\ ~overlap /\ \A p \in Caller : ~Busy(p)
      /\ Saving = {} /\ View = Loaded
  BY <1>1, <1>2, <1>4, BeginsAlone
<1>6. Saving' = {} /\ Loaded' = Loaded
  BY <1>1, <1>2, <1>5 DEF Saving, Loaded
<1>7. View' = View
  BY <1>5, <1>6, NextViewIs
<1>8. \A p \in Caller : p # q => ~Busy(p)'
  BY <1>2, <1>5 DEF Busy
<1>9. \A p \in Caller : pc'[p] \notin Calling
  BY <1>2, <1>8 DEF Busy, Calling
<1>10. Alone' /\ Prepared'
  BY <1>8, <1>9 DEF Alone, Prepared, Calling
<1>11. Unseen'
  BY <1>1, <1>2, <1>5, <1>7, <1>9 DEF Unseen, SInv, InTurn, Calling
<1>12. ToldSoFar'
  <2>1. Cleared \subseteq Cleared'
    BY <1>2 DEF Cleared
  <2>2. ASSUME failures' = 0, NEW d \in ok'
        PROVE  /\ pc'[d] = "idle"
               /\ \/ View'[d] = wish'[d]
                  \/ wish'[d] = "running" /\ View'[d] = "recovered" /\ Cleared' # {}
    <3>1. d \in ok /\ d # q /\ d \in Case /\ failures = 0
      BY <1>1, <1>2, <2>2 DEF SInv, Types
    <3>2. QED
      BY <1>1, <1>2, <1>5, <1>7, <2>1, <3>1 DEF SInv, ToldSoFar
  <2>3. \A f \in todo'[q] : View'[f] = "running"
    BY <1>2, <1>5, <1>7
  <2>4. \A p \in Cleaner : p # q => ~Busy(p)'
    BY <1>2, <1>8
  <2>5. QED
    BY <1>2, <2>2, <2>3, <2>4 DEF ToldSoFar
<1>13. QED
  BY <1>1, <1>7, <1>10, <1>11, <1>12 DEF InTurn, LogStep

\* The next fault of a snapshot is running still.
LEMMA ClearGoesOn == ASSUME SInv, NEW q \in Cleaner, ClearNext(q) PROVE Kept
<1>1. /\ pc[q] = "next" /\ UNCHANGED <<file, shape, buffer, wish, ok, failures, overlap>>
      /\ \/ pc' = [pc EXCEPT ![q] = "done"] /\ UNCHANGED <<target, todo>>
         \/ \E f \in todo[q] : /\ target' = [target EXCEPT ![q] = f]
                               /\ todo' = [todo EXCEPT ![q] = @ \ {f}]
                               /\ pc' = [pc EXCEPT ![q] = "load"]
  BY DEF ClearNext, Goes
<1>2. /\ q \in Caller /\ q \notin Case /\ Case \subseteq Caller /\ Cleaner \subseteq Caller
      /\ \A p \in Caller : p # q => pc'[p] = pc[p] /\ target'[p] = target[p]
      /\ \/ pc'[q] = "done"
         \/ pc'[q] = "load" /\ target'[q] \in todo[q] /\ todo'[q] = todo[q] \ {target'[q]}
      /\ \A p \in Cleaner : p # q => todo'[p] = todo[p]
      /\ todo[q] \subseteq Case
  BY <1>1, StoreAssumption DEF SInv, Types, Caller
<1>3. CallsKnown'
  BY <1>1, <1>2 DEF SInv, CallsKnown, Calling
<1>4. SUFFICES ASSUME ~overlap' PROVE InTurn' /\ ToldSoFar' /\ LogStep
  BY <1>3 DEF Kept, InTurn, ToldSoFar
<1>5. /\ ~overlap /\ \A p \in Caller : p # q => ~Busy(p)
      /\ Saving = {} /\ View = Loaded
  BY <1>1, <1>2, <1>4, AloneSaves DEF Busy
<1>6. Saving' = {} /\ Loaded' = Loaded
  BY <1>1, <1>2, <1>5 DEF Saving, Loaded
<1>7. View' = View
  BY <1>5, <1>6, NextViewIs
<1>8. \A p \in Caller : p # q => ~Busy(p)' /\ pc'[p] \notin Calling
  BY <1>2, <1>5 DEF Busy
<1>9. Wanted(q)' = "recovered"
  BY DEF Wanted
<1>10. Alone' /\ Prepared'
  BY <1>2, <1>8, <1>9 DEF Alone, Prepared, Calling
<1>11. Unseen'
  BY <1>1, <1>2, <1>5, <1>7, <1>8 DEF Unseen, SInv, InTurn, Calling
<1>12. ToldSoFar'
  <2>1. Cleared' # {}
    BY <1>2 DEF Cleared
  <2>2. ASSUME failures' = 0, NEW d \in ok'
        PROVE  /\ pc'[d] = "idle"
               /\ \/ View'[d] = wish'[d]
                  \/ wish'[d] = "running" /\ View'[d] = "recovered" /\ Cleared' # {}
    <3>1. d \in ok /\ d # q /\ d \in Case /\ failures = 0
      BY <1>1, <1>2, <2>2 DEF SInv, Types
    <3>2. QED
      BY <1>1, <1>2, <1>5, <1>7, <2>1, <3>1 DEF SInv, ToldSoFar
  <2>3. failures' = 0 => \A f \in todo[q] : View'[f] = "running"
    BY <1>1, <1>5, <1>7 DEF SInv, ToldSoFar, Busy
  <2>4. \A p \in Cleaner : p # q => ~Busy(p)'
    BY <1>2, <1>8
  <2>5. QED
    BY <1>2, <2>2, <2>3, <2>4 DEF ToldSoFar, Busy, Calling
<1>13. QED
  BY <1>1, <1>7, <1>10, <1>11, <1>12 DEF InTurn, LogStep

\* mark_failed finds out whether there is a record.
LEMMA GetKeeps == ASSUME SInv, NEW c \in Case, Get(c) PROVE Kept
<1>1. /\ pc[c] = "get"
      /\ UNCHANGED <<file, shape, target, buffer, todo, wish, ok, failures, overlap>>
      /\ \E there \in {"idle", "load"} : /\ pc' = [pc EXCEPT ![c] = there]
                                         /\ there = "load" => Loaded[c] # "none"
  BY StoreAssumption DEF Get, Goes, Returns
<1>2. /\ c \in Caller /\ c \notin Cleaner /\ Case \subseteq Caller /\ Cleaner \subseteq Caller
      /\ \A p \in Caller : p # c => pc'[p] = pc[p]
      /\ pc'[c] = "idle" \/ (pc'[c] = "load" /\ Loaded[c] # "none")
      /\ target[c] = c /\ wish[c] = "failed"
  BY <1>1, StoreAssumption DEF SInv, Types, Caller, CallsKnown, Calling
<1>3. CallsKnown'
  BY <1>1, <1>2 DEF SInv, CallsKnown, Calling
<1>4. SUFFICES ASSUME ~overlap' PROVE InTurn' /\ ToldSoFar' /\ LogStep
  BY <1>3 DEF Kept, InTurn, ToldSoFar
<1>5. /\ ~overlap /\ \A p \in Caller : p # c => ~Busy(p)
      /\ Saving = {} /\ View = Loaded
  BY <1>1, <1>2, <1>4, AloneSaves DEF Busy, Calling
<1>6. Saving' = {} /\ Loaded' = Loaded
  BY <1>1, <1>2, <1>5 DEF Saving, Loaded
<1>7. View' = View
  BY <1>5, <1>6, NextViewIs
<1>8. \A p \in Caller : p # c => ~Busy(p)' /\ pc'[p] \notin Calling
  BY <1>2, <1>5 DEF Busy
<1>9. Wanted(c)' = "failed"
  BY <1>1, <1>2 DEF Wanted
<1>10. Alone' /\ Prepared'
  BY <1>1, <1>2, <1>6, <1>8, <1>9 DEF Alone, Prepared, Calling
<1>11. Unseen'
  BY <1>1, <1>2, <1>5, <1>7, <1>8 DEF Unseen, SInv, InTurn, Calling
<1>12. ToldSoFar'
  <2>1. Cleared' = Cleared
    BY <1>2 DEF Cleared
  <2>2. ASSUME failures' = 0, NEW d \in ok'
        PROVE  /\ pc'[d] = "idle"
               /\ \/ View'[d] = wish'[d]
                  \/ wish'[d] = "running" /\ View'[d] = "recovered" /\ Cleared' # {}
    <3>1. d \in ok /\ d \in Case /\ failures = 0
      BY <1>1, <2>2 DEF SInv, Types
    <3>2. pc[d] = "idle"
      BY <1>5, <3>1 DEF SInv, ToldSoFar
    <3>3. QED
      BY <1>1, <1>2, <1>5, <1>7, <2>1, <3>1, <3>2 DEF SInv, ToldSoFar
  <2>4. \A p \in Cleaner : ~Busy(p)'
    BY <1>2, <1>8
  <2>5. QED
    BY <2>2, <2>4 DEF ToldSoFar
<1>13. QED
  BY <1>1, <1>7, <1>10, <1>11, <1>12 DEF InTurn, LogStep

\* Where a call goes when it returns.
LEMMA ReturnsWhere ==
    ASSUME Types, NEW p \in Caller, Returns(p)
    PROVE  /\ p \in Case => pc' = [pc EXCEPT ![p] = "idle"]
           /\ p \in Cleaner => pc' = [pc EXCEPT ![p] = "next"]
           /\ pc'[p] = IF p \in Cleaner THEN "next" ELSE "idle"
           /\ \A q \in Caller : q # p => pc'[q] = pc[q]
  BY StoreAssumption DEF Returns, Goes, Types, Caller

\* A call loads the file, or finds nothing to update.
LEMMA LoadKeeps == ASSUME SInv, NEW p \in Caller, Load(p) PROVE Kept
<1>1. /\ pc[p] = "load" /\ Busy(p)
      /\ UNCHANGED <<file, shape, target, todo, wish, ok, failures, overlap>>
      /\ \/ Updates(p) /\ Loaded[target[p]] = "none" /\ Returns(p) /\ UNCHANGED buffer
         \/ /\ ~(Updates(p) /\ Loaded[target[p]] = "none")
            /\ buffer' = [buffer EXCEPT ![p] = [Loaded EXCEPT ![target[p]] = Wanted(p)]]
            /\ pc' = [pc EXCEPT ![p] = "truncate"]
  BY DEF Load, Goes, Busy, Calling
<1>2. /\ \A q \in Caller : q # p => pc'[q] = pc[q] /\ buffer'[q] = buffer[q]
      /\ \/ pc'[p] = IF p \in Cleaner THEN "next" ELSE "idle"
         \/ /\ pc'[p] = "truncate"
            /\ Updates(p) => Loaded[target[p]] # "none"
            /\ buffer'[p] = [Loaded EXCEPT ![target[p]] = Wanted(p)]
      /\ Case \subseteq Caller /\ Cleaner \subseteq Caller /\ Case \cap Cleaner = {}
  <2>1. CASE Returns(p) /\ UNCHANGED buffer
    BY <2>1, ReturnsWhere, StoreAssumption DEF SInv, Caller
  <2>2. CASE /\ ~(Updates(p) /\ Loaded[target[p]] = "none")
             /\ buffer' = [buffer EXCEPT ![p] = [Loaded EXCEPT ![target[p]] = Wanted(p)]]
             /\ pc' = [pc EXCEPT ![p] = "truncate"]
    BY <2>2, StoreAssumption DEF SInv, Types, Caller
  <2>3. QED
    BY <1>1, <2>1, <2>2
<1>3. CallsKnown'
  BY <1>1, <1>2 DEF SInv, CallsKnown, Calling, Caller
<1>4. SUFFICES ASSUME ~overlap' PROVE InTurn' /\ ToldSoFar' /\ LogStep
  BY <1>3 DEF Kept, InTurn, ToldSoFar
<1>5. /\ ~overlap /\ \A q \in Caller : q # p => ~Busy(q)
      /\ Saving = {} /\ View = Loaded
  BY <1>1, <1>4, AloneSaves
<1>6. Saving' = {} /\ Loaded' = Loaded
  <2>1. pc'[p] # "write"
    BY <1>2
  <2>2. \A q \in Caller : pc'[q] # "write"
    BY <1>2, <1>5, <2>1 DEF Saving
  <2>3. QED
    BY <1>1, <2>2 DEF Saving, Loaded
<1>7. View' = View
  BY <1>5, <1>6, NextViewIs
<1>8. \A q \in Caller : q # p => ~Busy(q)' /\ pc'[q] \notin Calling
  BY <1>2, <1>5 DEF Busy
<1>9. Wanted(p)' = Wanted(p) /\ (Updates(p)' <=> Updates(p)) /\ target' = target
  BY <1>1 DEF Wanted, Updates
<1>10. Alone'
  BY <1>8 DEF Alone
<1>11. Prepared'
  <2>1. Prepared
    BY <1>5 DEF SInv, InTurn
  <2>2. Wanted(p) = "failed" => Loaded[target[p]] # "none"
    BY <1>1, <2>1 DEF Prepared
  <2>3. \A q \in Caller : q # p => pc'[q] \notin {"load", "truncate", "write"}
    BY <1>8 DEF Calling
  <2>4. pc'[p] \notin {"load", "write"}
    BY <1>2
  <2>5. pc'[p] = "truncate" => /\ buffer'[p] = [Loaded' EXCEPT ![target'[p]] = Wanted(p)']
                               /\ Updates(p)' => Loaded'[target'[p]] # "none"
                               /\ Wanted(p)' = "failed" => Loaded'[target'[p]] # "none"
    BY <1>2, <1>6, <1>9, <2>2
  <2>6. QED
    BY <2>3, <2>4, <2>5 DEF Prepared
<1>12. Unseen'
  BY <1>1, <1>2, <1>5, <1>7, <1>8 DEF Unseen, SInv, InTurn, Calling
<1>13. ToldSoFar'
  <2>1. Cleared' = Cleared
    BY <1>1, <1>2 DEF Cleared
  <2>2. ASSUME failures' = 0, NEW d \in ok'
        PROVE  /\ pc'[d] = "idle"
               /\ \/ View'[d] = wish'[d]
                  \/ wish'[d] = "running" /\ View'[d] = "recovered" /\ Cleared' # {}
    <3>1. d \in ok /\ d \in Case /\ failures = 0
      BY <1>1, <2>2 DEF SInv, Types
    <3>2. pc[d] = "idle"
      BY <1>5, <3>1 DEF SInv, ToldSoFar
    <3>3. QED
      BY <1>1, <1>2, <1>5, <1>7, <2>1, <3>1, <3>2 DEF SInv, ToldSoFar
  <2>3. ASSUME failures' = 0, NEW q \in Cleaner, Busy(q)'
        PROVE  /\ \A f \in todo'[q] : View'[f] = "running"
               /\ pc'[q] \in {"load", "truncate"} => View'[target'[q]] = "running"
                                                     /\ target'[q] \notin todo'[q]
    <3>1. q = p
      BY <1>2, <1>8, <2>3
    <3>2. QED
      BY <1>1, <1>5, <1>7, <2>3, <3>1 DEF SInv, ToldSoFar
  <2>4. QED
    BY <2>2, <2>3 DEF ToldSoFar
<1>14. QED
  BY <1>1, <1>7, <1>10, <1>11, <1>12, <1>13 DEF InTurn, LogStep

\* The truncation is where a call changes the log.
LEMMA TruncateKeeps == ASSUME SInv, NEW p \in Caller, Truncate(p) PROVE Kept
<1>1. /\ pc[p] = "truncate" /\ Busy(p) /\ shape' = "empty" /\ pc' = [pc EXCEPT ![p] = "write"]
      /\ UNCHANGED <<file, target, buffer, todo, wish, ok, failures, overlap>>
  BY DEF Truncate, Goes, Busy, Calling
<1>2. /\ pc'[p] = "write" /\ \A q \in Caller : q # p => pc'[q] = pc[q]
      /\ Case \subseteq Caller /\ Cleaner \subseteq Caller /\ Case \cap Cleaner = {}
      /\ target[p] \in Case
  BY <1>1, StoreAssumption DEF SInv, Types, Caller, CallsKnown, Calling
<1>3. CallsKnown'
  BY <1>1, <1>2 DEF SInv, CallsKnown, Calling
<1>4. SUFFICES ASSUME ~overlap' PROVE InTurn' /\ ToldSoFar' /\ LogStep
  BY <1>3 DEF Kept, InTurn, ToldSoFar
<1>5. /\ ~overlap /\ \A q \in Caller : q # p => ~Busy(q)
      /\ Saving = {} /\ View = Loaded
  BY <1>1, <1>4, AloneSaves
<1>6. Saving' = {p}
  BY <1>2, <1>5 DEF Saving
<1>7. /\ buffer[p] = [Loaded EXCEPT ![target[p]] = Wanted(p)]
      /\ Updates(p) => Loaded[target[p]] # "none"
      /\ Wanted(p) = "failed" => Loaded[target[p]] # "none"
  BY <1>1, <1>5 DEF SInv, InTurn, Prepared
<1>8. View' = [View EXCEPT ![target[p]] = Wanted(p)]
  BY <1>1, <1>5, <1>6, <1>7, NextViewIs
<1>9. View \in Records /\ Wanted(p) \in Status
  <2>1. View \in Records
    BY <1>5, LoadedIsRecords DEF SInv
  <2>2. p \in Case => target[p] = p /\ wish[p] # "none" /\ wish[p] \in StatusOrNone
    BY <1>1 DEF SInv, CallsKnown, Calling, Types, Records
  <2>3. QED
    BY <1>2, <2>1, <2>2 DEF Wanted, Status, StatusOrNone, Caller
<1>10. View'[target[p]] = Wanted(p) /\ \A f \in Case : f # target[p] => View'[f] = View[f]
  BY <1>2, <1>8, <1>9 DEF Records
<1>11. \A q \in Caller : q # p => ~Busy(q)' /\ pc'[q] \notin Calling
  BY <1>2, <1>5 DEF Busy
<1>12. Wanted(p)' = Wanted(p) /\ target' = target /\ buffer' = buffer
  BY <1>1 DEF Wanted
<1>13. Wanted(p) = "running" => p \in Case /\ target[p] = p /\ View[p] = "none"
  <2>1. ASSUME Wanted(p) = "running" PROVE p \in Case /\ target[p] = p /\ wish[p] = "running"
    BY <1>1, <1>2, <2>1 DEF Wanted, Caller, SInv, CallsKnown, Calling
  <2>2. QED
    BY <1>1, <1>5, <2>1 DEF SInv, InTurn, Unseen
<1>14. LogStep
  BY <1>1, <1>2, <1>5, <1>7, <1>8, <1>9, <1>13 DEF LogStep, Status, Updates
<1>15. Alone'
  BY <1>11 DEF Alone
<1>16. Prepared'
  <2>1. buffer[p][target[p]] = Wanted(p)
    BY <1>2, <1>5, <1>7, <1>9 DEF Records
  <2>2. QED
    BY <1>1, <1>2, <1>11, <1>12, <2>1 DEF Prepared, Calling
<1>17. Unseen'
  <2>1. ASSUME NEW c \in Case,
               wish'[c] = "none" \/ (wish'[c] = "running" /\ pc'[c] \in {"load", "truncate"})
        PROVE  View'[c] = "none"
    <3>1. c # p /\ wish[c] = "none"
      BY <1>1, <1>2, <1>11, <2>1 DEF Calling, SInv, CallsKnown
    <3>2. View[c] = "none"
      BY <1>5, <3>1 DEF SInv, InTurn, Unseen
    <3>3. c # target[p]
      BY <1>5, <1>7, <1>9, <1>13, <3>1, <3>2 DEF Updates, Status
    <3>4. QED
      BY <1>10, <3>2, <3>3
  <2>2. QED
    BY <2>1 DEF Unseen
<1>18. ToldSoFar'
  <2>1. Cleared' = Cleared
    BY <1>1, <1>2 DEF Cleared
  <2>2. ASSUME failures' = 0, NEW d \in ok'
        PROVE  /\ pc'[d] = "idle"
               /\ \/ View'[d] = wish'[d]
                  \/ wish'[d] = "running" /\ View'[d] = "recovered" /\ Cleared' # {}
    <3>1. d \in ok /\ d \in Case /\ failures = 0
      BY <1>1, <2>2 DEF SInv, Types
    <3>2. /\ pc[d] = "idle" /\ d # p
          /\ \/ View[d] = wish[d]
             \/ wish[d] = "running" /\ View[d] = "recovered" /\ Cleared # {}
      BY <1>1, <1>5, <3>1 DEF SInv, ToldSoFar
    <3>3. CASE d # target[p]
      BY <1>1, <1>2, <1>10, <2>1, <3>1, <3>2, <3>3
    <3>4. CASE d = target[p]
      <4>1. p \in Cleaner
        BY <1>1, <3>2, <3>4 DEF SInv, CallsKnown, Calling, Caller
      <4>2. View[d] = "running" /\ Wanted(p) = "recovered" /\ Cleared # {}
        BY <1>1, <1>5, <3>1, <3>4, <4>1 DEF SInv, ToldSoFar, Wanted, Cleared
      <4>3. QED
        BY <1>1, <1>2, <1>10, <2>1, <3>1, <3>2, <3>4, <4>2
    <3>5. QED
      BY <3>3, <3>4
  <2>3. ASSUME failures' = 0, NEW q \in Cleaner, Busy(q)'
        PROVE  /\ \A f \in todo'[q] : View'[f] = "running"
               /\ pc'[q] \notin {"load", "truncate"}
    <3>1. q = p
      BY <1>2, <1>11, <2>3
    <3>2. \A f \in todo[q] : f \in Case /\ View[f] = "running" /\ f # target[q]
      BY <1>1, <1>5, <2>3, <3>1 DEF SInv, ToldSoFar, Types
    <3>3. QED
      BY <1>1, <1>2, <1>10, <3>1, <3>2
  <2>4. QED
    BY <2>2, <2>3 DEF ToldSoFar
<1>19. QED
  BY <1>14, <1>15, <1>16, <1>17, <1>18 DEF InTurn

\* The write puts in the file what the truncation announced.
LEMMA WriteKeeps == ASSUME SInv, NEW p \in Caller, Write(p) PROVE Kept
<1>1. /\ pc[p] = "write" /\ Busy(p) /\ file' = buffer[p] /\ Returns(p)
      /\ shape' \in IF shape = "empty" THEN {"valid"} ELSE {"valid", "garbled"}
      /\ ok' = ok \cup ({p} \cap Case) /\ buffer' = [buffer EXCEPT ![p] = Empty]
      /\ UNCHANGED <<target, todo, wish, failures, overlap>>
  BY DEF Write, Busy, Calling
<1>2. /\ pc'[p] = IF p \in Cleaner THEN "next" ELSE "idle"
      /\ \A q \in Caller : q # p => pc'[q] = pc[q]
      /\ Case \subseteq Caller /\ Cleaner \subseteq Caller /\ Case \cap Cleaner = {}
      /\ Caller = Case \cup Cleaner
  BY <1>1, ReturnsWhere, StoreAssumption DEF SInv, Caller
<1>3. CallsKnown'
  BY <1>1, <1>2 DEF SInv, CallsKnown, Calling
<1>4. SUFFICES ASSUME ~overlap' PROVE InTurn' /\ ToldSoFar' /\ LogStep
  BY <1>3 DEF Kept, InTurn, ToldSoFar
<1>5. /\ ~overlap /\ \A q \in Caller : q # p => ~Busy(q)
      /\ Saving = {p} /\ View = buffer[p]
      /\ shape = "empty" /\ buffer[p][target[p]] = Wanted(p)
  BY <1>1, <1>4, AloneSaves DEF SInv, InTurn, Prepared
<1>6. \A q \in Caller : q # p => ~Busy(q)' /\ pc'[q] \notin Calling
  BY <1>2, <1>5 DEF Busy
<1>7. Saving' = {} /\ Loaded' = buffer[p]
  BY <1>1, <1>2, <1>5, <1>6 DEF Saving, Loaded, Calling
<1>8. View' = View
  BY <1>5, <1>7, NextViewIs
<1>9. Alone' /\ Prepared'
  BY <1>2, <1>6 DEF Alone, Prepared, Calling
<1>10. Unseen'
  BY <1>1, <1>2, <1>5, <1>6, <1>8 DEF Unseen, SInv, InTurn, Calling
<1>11. ToldSoFar'
  <2>1. Cleared' = Cleared
    BY <1>1, <1>2 DEF Cleared
  <2>2. ASSUME failures' = 0, NEW d \in ok'
        PROVE  /\ pc'[d] = "idle"
               /\ \/ View'[d] = wish'[d]
                  \/ wish'[d] = "running" /\ View'[d] = "recovered" /\ Cleared' # {}
    <3>1. CASE d = p
      <4>1. d \in Case
        BY <1>1, <2>2, <3>1 DEF SInv, Types
      <4>2. target[p] = p /\ Wanted(p) = wish[p] /\ pc'[p] = "idle"
        BY <1>1, <1>2, <3>1, <4>1 DEF SInv, CallsKnown, Calling, Wanted
      <4>3. QED
        BY <1>1, <1>5, <1>8, <3>1, <4>2
    <3>2. CASE d # p
      <4>1. d \in ok /\ d \in Case /\ failures = 0
        BY <1>1, <2>2, <3>2 DEF SInv, Types
      <4>2. QED
        BY <1>1, <1>2, <1>5, <1>8, <2>1, <3>2, <4>1 DEF SInv, ToldSoFar
    <3>3. QED
      BY <3>1, <3>2
  <2>3. ASSUME failures' = 0, NEW q \in Cleaner, Busy(q)'
        PROVE  /\ \A f \in todo'[q] : View'[f] = "running"
               /\ pc'[q] \notin {"load", "truncate"}
    <3>1. q = p
      BY <1>2, <1>6, <2>3
    <3>2. QED
      BY <1>1, <1>2, <1>5, <1>8, <2>3, <3>1 DEF SInv, ToldSoFar
  <2>4. QED
    BY <2>2, <2>3 DEF ToldSoFar
<1>12. QED
  BY <1>1, <1>8, <1>9, <1>10, <1>11 DEF InTurn, LogStep

\* A write that fails loses everything.
LEMMA WriteFailsKeeps == ASSUME SInv, NEW p \in Caller, WriteFails(p) PROVE Kept
<1>1. /\ pc[p] = "write" /\ Busy(p) /\ shape' = "garbled" /\ Returns(p)
      /\ failures' = failures + 1
      /\ UNCHANGED <<file, target, todo, wish, ok, overlap>>
  BY DEF WriteFails, Busy, Calling
<1>2. /\ pc'[p] = IF p \in Cleaner THEN "next" ELSE "idle"
      /\ \A q \in Caller : q # p => pc'[q] = pc[q]
      /\ Case \subseteq Caller /\ Cleaner \subseteq Caller /\ Case \cap Cleaner = {}
  BY <1>1, ReturnsWhere, StoreAssumption DEF SInv, Caller
<1>3. CallsKnown'
  BY <1>1, <1>2 DEF SInv, CallsKnown, Calling, Caller
<1>4. failures' # 0
  BY <1>1 DEF SInv, Types
<1>5. SUFFICES ASSUME ~overlap' PROVE InTurn' /\ LogStep
  BY <1>3, <1>4 DEF Kept, InTurn, ToldSoFar
<1>6. \A q \in Caller : q # p => ~Busy(q)
  BY <1>1, <1>5, AloneSaves
<1>7. \A q \in Caller : q # p => ~Busy(q)' /\ pc'[q] \notin Calling
  BY <1>2, <1>6 DEF Busy
<1>8. Saving' = {} /\ Loaded' = Empty
  BY <1>1, <1>2, <1>7 DEF Saving, Loaded, Calling
<1>9. View' = Empty
  BY <1>8, NextViewIs
<1>10. Alone' /\ Prepared' /\ Unseen'
  BY <1>2, <1>7, <1>9 DEF Alone, Prepared, Unseen, Calling, Empty
<1>11. QED
  BY <1>1, <1>9, <1>10 DEF InTurn, LogStep

\* A crash in the middle of a write loses everything, any other nothing.
LEMMA CrashKeeps == ASSUME SInv, Crash PROVE Kept
<1>1. /\ \A p \in Caller : pc'[p] = pc[p] \/ pc'[p] = "dead"
      /\ failures' = failures + 1
      /\ UNCHANGED <<file, shape, target, buffer, todo, wish, ok, overlap>>
  <2>1. PICK S \in {Case} \cup {{q} : q \in Cleaner} :
           pc' = [p \in Caller |-> IF p \in S /\ (p \in Cleaner \/ wish[p] # "none")
                                   THEN "dead" ELSE pc[p]]
    BY DEF Crash
  <2>2. QED
    BY <2>1 DEF Crash
<1>2. CallsKnown'
  BY <1>1 DEF SInv, CallsKnown, Calling, Caller
<1>3. failures' # 0
  BY <1>1 DEF SInv, Types
<1>4. SUFFICES ASSUME ~overlap' PROVE InTurn' /\ LogStep
  BY <1>2, <1>3 DEF Kept, InTurn, ToldSoFar
<1>5. ~overlap /\ Alone /\ Unseen /\ Prepared
  BY <1>1, <1>4 DEF SInv, InTurn
<1>6. Loaded' = Loaded /\ Saving' \subseteq Saving
  BY <1>1 DEF Loaded, Saving
<1>7. View' \in {View, Empty}
  <2>1. CASE Saving = {}
    BY <1>6, <2>1, ViewIs, NextViewIs
  <2>2. ASSUME NEW p \in Saving PROVE View' \in {View, Empty}
    <3>1. p \in Caller /\ pc[p] = "write" /\ Busy(p)
      BY <2>2 DEF Saving, Busy, Calling
    <3>2. Saving = {p} /\ View = buffer[p] /\ shape = "empty"
      BY <1>5, <3>1, AloneSaves DEF Prepared
    <3>3. Loaded' = Empty
      BY <1>6, <3>2 DEF Loaded
    <3>4. Saving' = {} \/ Saving' = {p}
      BY <1>6, <3>2
    <3>5. QED
      BY <1>1, <3>1, <3>2, <3>3, <3>4, NextViewIs
  <2>3. QED
    BY <2>1, <2>2
<1>8. Alone'
  BY <1>1, <1>5 DEF Alone, Busy, Calling
<1>9. Unseen'
  <2>1. \A c \in Case : c \in Caller /\ Empty[c] = "none"
    BY DEF Caller, Empty
  <2>2. QED
    BY <1>1, <1>5, <1>7, <2>1 DEF Unseen
<1>10. Prepared'
  <2>1. \A p \in Caller : Wanted(p)' = Wanted(p) /\ (Updates(p)' <=> Updates(p))
    BY <1>1 DEF Wanted, Updates
  <2>2. QED
    BY <1>1, <1>5, <1>6, <2>1 DEF Prepared
<1>11. QED
  BY <1>1, <1>7, <1>8, <1>9, <1>10 DEF InTurn, LogStep

-----------------------------------------------------------------------------
(* The invariant *)

LEMMA TypesKept == ASSUME SInv, Next PROVE Types'
<1> USE DEF SInv
<1>1. ASSUME NEW c \in Case, RecordFault(c) \/ MarkRecovered(c) \/ MarkFailed(c) PROVE Types'
  <2>1. pc' \in [Caller -> Calling \cup {"idle", "next", "done", "dead"}]
    BY <1>1 DEF RecordFault, MarkRecovered, MarkFailed, Goes, Types, Calling
  <2>2. target' \in [Caller -> Case \cup {NoCase}] /\ ok' \subseteq Case
    BY <1>1 DEF RecordFault, MarkRecovered, MarkFailed, Types
  <2>3. wish' \in Records
    BY <1>1 DEF RecordFault, MarkRecovered, MarkFailed, Types, Records, StatusOrNone, Status
  <2>4. overlap' \in BOOLEAN
    BY <1>1 DEF RecordFault, MarkRecovered, MarkFailed, Begins, Types
  <2>5. UNCHANGED <<file, shape, buffer, todo, failures>>
    BY <1>1 DEF RecordFault, MarkRecovered, MarkFailed
  <2>6. QED
    BY <2>1, <2>2, <2>3, <2>4, <2>5 DEF Types
<1>2. ASSUME NEW c \in Case, Get(c) PROVE Types'
  BY <1>2 DEF Get, Returns, Goes, Types, Calling
<1>3. ASSUME NEW q \in Cleaner, ClearAll(q) PROVE Types'
  BY <1>3 DEF ClearAll, Begins, Goes, Types
<1>4. ASSUME NEW q \in Cleaner, ClearNext(q) PROVE Types'
  BY <1>4 DEF ClearNext, Goes, Types, Calling
<1>5. ASSUME NEW p \in Caller, Load(p) PROVE Types'
  <2>1. Wanted(p) \in StatusOrNone
    BY DEF Wanted, Types, Records, StatusOrNone, Status, Caller
  <2>2. [Loaded EXCEPT ![target[p]] = Wanted(p)] \in Records
    BY <2>1, LoadedIsRecords DEF Records
  <2>3. pc' \in [Caller -> Calling \cup {"idle", "next", "done", "dead"}]
    BY <1>5 DEF Load, Returns, Goes, Types, Calling
  <2>4. buffer' \in [Caller -> Records]
    BY <1>5, <2>2 DEF Load, Types
  <2>5. QED
    BY <1>5, <2>3, <2>4 DEF Load, Types
<1>6. ASSUME NEW p \in Caller, Truncate(p) PROVE Types'
  BY <1>6 DEF Truncate, Goes, Types, Calling
<1>7. ASSUME NEW p \in Caller, Write(p) \/ WriteFails(p) PROVE Types'
  <2>1. pc' \in [Caller -> Calling \cup {"idle", "next", "done", "dead"}]
    BY <1>7 DEF Write, WriteFails, Returns, Goes, Types
  <2>2. buffer' \in [Caller -> Records] /\ file' \in Records
    BY <1>7, LoadedIsRecords DEF Write, WriteFails, Types
  <2>3. QED
    BY <1>7, <2>1, <2>2 DEF Write, WriteFails, Types
<1>8. CASE Crash
  BY <1>8 DEF Crash, Types
<1>9. QED
  BY <1>1, <1>2, <1>3, <1>4, <1>5, <1>6, <1>7, <1>8 DEF Next

\* Every step keeps the invariant and does to the log what a FaultLog allows.
LEMMA StoreStep == ASSUME SInv, [Next]_vars PROVE SInv' /\ (~overlap' => LogStep)
<1>1. ASSUME Next PROVE Kept /\ Types'
  BY <1>1, TypesKept, CaseBegins, ClearBegins, ClearGoesOn, GetKeeps, LoadKeeps, TruncateKeeps,
     WriteKeeps, WriteFailsKeeps, CrashKeeps DEF Next
<1>2. ASSUME UNCHANGED vars PROVE SInv' /\ LogStep
  <2>1. Saving' = Saving /\ Loaded' = Loaded /\ Cleared' = Cleared
    BY <1>2 DEF vars, Saving, Loaded, Cleared
  <2>2. View' = View
    BY <1>2, <2>1 DEF vars, View
  <2>3. Types' /\ CallsKnown'
    BY <1>2 DEF vars, SInv, Types, CallsKnown
  <2>4. InTurn'
    BY <1>2, <2>1, <2>2 DEF vars, SInv, InTurn, Alone, Busy, Unseen, Prepared, Wanted, Updates
  <2>5. ToldSoFar'
    BY <1>2, <2>1, <2>2 DEF vars, SInv, ToldSoFar, Busy
  <2>6. QED
    BY <1>2, <2>2, <2>3, <2>4, <2>5 DEF SInv, LogStep, vars
<1>3. QED
  BY <1>1, <1>2 DEF Kept, SInv

\* The first state has no record and no call.
LEMMA StoreInit == Init => SInv /\ View = Empty
<1> SUFFICES ASSUME Init PROVE SInv /\ View = Empty
  OBVIOUS
<1>1. \A p \in Caller : pc[p] = "idle" /\ ~Busy(p)
  BY DEF Init, Busy, Calling
<1>2. Saving = {} /\ Loaded = Empty
  BY <1>1 DEF Init, Saving, Loaded
<1>3. View = Empty
  BY <1>2, ViewIs
<1>4. Types
  BY DEF Init, Types, Records, StatusOrNone, Empty
<1>5. CallsKnown
  BY <1>1 DEF CallsKnown, Calling, Caller
<1>6. InTurn
  BY <1>1, <1>3 DEF InTurn, Alone, Unseen, Prepared, Empty
<1>7. ToldSoFar
  BY <1>1 DEF ToldSoFar, Init, Caller
<1>8. QED
  BY <1>3, <1>4, <1>5, <1>6, <1>7 DEF SInv

LEMMA StoreInvariant == Spec => []SInv
  BY StoreInit, StoreStep, PTL DEF Spec

-----------------------------------------------------------------------------
(* Theorems *)

\* What a call that returned True wrote is what the next reader finds (StateManager),
\* for any number of cases and processes that clear, if none overlap.
THEOREM KeepsWhatItTold == Spec => []StoredAsTold
<1>1. SInv => StoredAsTold
  <2> SUFFICES ASSUME SInv, Quiet, failures = 0, ~overlap, NEW c \in ok
               PROVE  \/ Loaded[c] = wish[c]
                      \/ wish[c] = "running" /\ Loaded[c] = "recovered" /\ Cleared # {}
    BY DEF StoredAsTold
  <2>1. Saving = {}
    BY DEF Quiet, Idle, Saving
  <2>2. View = Loaded
    BY <2>1, ViewIs
  <2>3. QED
    BY <2>2 DEF SInv, ToldSoFar
<1>2. QED
  BY <1>1, StoreInvariant, PTL

\* The store (FileFaultRepository) implements FaultLog as long as calls do not overlap,
\* crashes and failed writes included.
THEOREM KeepsTheLog == Spec => ImplementsLog
<1>1. Init => Log!Init
  BY StoreInit DEF Init, Log!Init, Log!Empty, Empty, View
<1>2. ASSUME SInv, [Next]_vars PROVE [~overlap' => Log!Next]_logVars
  <2>1. ASSUME ~overlap', LogStep PROVE Log!Next \/ UNCHANGED logVars
    <3>1. CASE View' = View /\ failures' = failures
      BY <3>1 DEF logVars, Log!vars, View
    <3>2. CASE \E f \in Case : View[f] = "none" /\ View' = [View EXCEPT ![f] = "running"]
                               /\ failures' = failures
      BY <3>2 DEF Log!Next, Log!Record, View
    <3>3. CASE \E f \in Case, s \in {"recovered", "failed"} :
                  View[f] # "none" /\ View' = [View EXCEPT ![f] = s] /\ failures' = failures
      BY <3>3 DEF Log!Next, Log!Settle, View
    <3>4. CASE failures' = failures + 1 /\ View' \in {View, Empty}
      BY <3>4 DEF Log!Next, Log!Mishap, Log!Empty, Empty, View
    <3>5. QED
      BY <2>1, <3>1, <3>2, <3>3, <3>4 DEF LogStep
  <2>2. QED
    BY <1>2, <2>1, StoreStep
<1>3. QED
  BY <1>1, <1>2, StoreInvariant, PTL DEF Spec, ImplementsLog

=============================================================================
