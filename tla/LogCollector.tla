----------------------------- MODULE LogCollector -----------------------------
(***************************************************************************)
(* chaos/utils/log_collector.py: the logs of a day, of every node, in one   *)
(* archive.  A collection packs each directory of a node into a directory  *)
(* under /tmp of that node, packs that directory into the archive of the   *)
(* node, and copies the archives of all nodes to the first.  Most commands *)
(* may fail without ending it, and what it leaves under /tmp is there when *)
(* the next collection runs.                                               *)
(***************************************************************************)
EXTENDS Integers, Sequences

CONSTANTS Node,       \* Seq: the environments, in the order of the configuration
          Dir,        \* the directories below the base directory
          Name,       \* [Dir -> ...]: the name of a directory in an archive: '/' became '_'
          LogFile,    \* records: node, dir, the day named, the day last changed, and
                      \* whether that was at its midnight
          Date,       \* the dates asked for: a day <<year, month, day>>, and which of
                      \* month and day are written without their leading zero
          Malformed,  \* and what is not a date
          NoTar,      \* a node without an archive
          MaxCalls, MaxCrashes \* bounds

NodeSet == {Node[k] : k \in DOMAIN Node}

Leap(y) == (y % 4 = 0 /\ y % 100 # 0) \/ y % 400 = 0
DaysIn(y, m) == IF m = 2 THEN (IF Leap(y) THEN 29 ELSE 28)
                ELSE IF m \in {4, 6, 9, 11} THEN 30 ELSE 31

Valid == {t \in Nat \X Nat \X Nat : t[2] \in 1..12 /\ t[3] \in 1..DaysIn(t[1], t[2])}

Before(s, t) == \/ s[1] < t[1]
                \/ s[1] = t[1] /\ s[2] < t[2]
                \/ s[1] = t[1] /\ s[2] = t[2] /\ s[3] < t[3]

ASSUME LogAssumption ==
    /\ Node \in Seq(NodeSet) /\ Len(Node) > 0
    /\ \A j, k \in DOMAIN Node : Node[j] = Node[k] => j = k
    /\ \A t \in Date :
           /\ t.day \in Valid /\ t.short \subseteq {"month", "day"}
           /\ "month" \in t.short => t.day[2] < 10
           /\ "day" \in t.short => t.day[3] < 10
    /\ \A f \in LogFile :
           /\ f.node \in NodeSet /\ f.dir \in Dir
           /\ f.named \in Valid \cup {<<>>}
           /\ f.modified \in Valid /\ f.midnight \in BOOLEAN
    /\ Malformed \notin Date
    /\ MaxCalls \in Nat /\ MaxCrashes \in Nat

VARIABLES pc,
          call,    \* the number of the collection
          date,    \* the date it is asked for
          i,       \* the node it is at, then the archive it copies
          todo,    \* directories of that node not packed yet
          temp,    \* /tmp/log_collect/<node>: the packed directories in it
          tar,     \* /tmp/log_collect/<node>.tar: what is in it, or NoTar
          got,     \* collected_archives: nodes with an archive
          final,   \* the node archives in the directory to be packed last
          crashes,
          left,    \* history: <<node, call>> whose packed directories were left there
          blank,   \* history: nodes whose directories were not listed
          missed,  \* history: nodes given up, or not copied
          skipped  \* history: directories where a command failed, <<node, dir>>

vars == <<pc, call, date, i, todo, temp, tar, got, final, crashes,
          left, blank, missed, skipped>>

disks == <<temp, tar, left>>
told == <<blank, missed, skipped>>

Init ==
    /\ pc = "idle"
    /\ call = 0
    /\ date = Malformed
    /\ i = 0
    /\ todo = {}
    /\ temp = [n \in NodeSet |-> {}]
    /\ tar = [n \in NodeSet |-> NoTar]
    /\ got = <<>>
    /\ final = [n \in NodeSet |-> NoTar]
    /\ crashes = 0
    /\ left = {}
    /\ blank = {} /\ missed = {} /\ skipped = {}

-----------------------------------------------------------------------------
(* The files of a day *)

\* Mutant: the last of February is the 28th in every year.
NextDayPlain(t) ==
    IF t[3] < (IF t[2] = 2 THEN 28 ELSE DaysIn(t[1], t[2])) THEN <<t[1], t[2], t[3] + 1>>
    ELSE IF t[2] = 12 THEN <<t[1] + 1, 1, 1>>
    ELSE <<t[1], t[2] + 1, 1>>

\* The day where the window of modification times ends.
NextDay(t) ==
    LET y == t[1]
        m == t[2]
        d == t[3]
    IN  IF d < 28 THEN <<y, m, d + 1>>
        ELSE IF m \in {1, 3, 5, 7, 8, 10, 12} /\ d = 31
             THEN IF m = 12 THEN <<y + 1, 1, 1>> ELSE <<y, m + 1, 1>>
        ELSE IF m \in {4, 6, 9, 11} /\ d = 30 THEN <<y, m + 1, 1>>
        ELSE IF m = 2 /\ (IF Leap(y) THEN d = 29 ELSE d = 28) THEN <<y, 3, 1>>
        ELSE <<y, m, d + 1>>

\* The names that hold the text of the date: rotated files write every zero, so a text
\* without the day's is the beginning of ten days, and one without the month's of none.
NameMatches(f, t) ==
    /\ "month" \notin t.short
    /\ f.named # <<>> /\ f.named[1] = t.day[1] /\ f.named[2] = t.day[2]
    /\ IF "day" \in t.short THEN f.named[3] \div 10 = t.day[3] ELSE f.named[3] = t.day[3]

\* Changed after the midnight of the day, and not after the midnight that ends it.
InWindow(f, t) ==
    IF f.midnight
    THEN Before(t, f.modified) /\ ~Before(NextDay(t), f.modified)
    ELSE ~Before(f.modified, t) /\ Before(f.modified, NextDay(t))

\* The files with the date in their name; if there are none, or the search for them is
\* not answered, those changed in its day.
FindLogFiles(n, d, t, answered) ==
    LET files  == {f \in LogFile : f.node = n /\ f.dir = d}
        byName == {f \in files : NameMatches(f, t)}
    IN  IF answered /\ byName # {} THEN byName ELSE {f \in files : InWindow(f, t.day)}

-----------------------------------------------------------------------------
(* A node *)

here == Node[i]

\* collect_all_logs begins.
Collect(t) ==
    /\ pc \in {"idle", "true", "false"}
    /\ call < MaxCalls
    /\ pc' = "node"
    /\ call' = call + 1
    /\ date' = t
    /\ i' = 1
    /\ got' = <<>>
    /\ final' = [n \in NodeSet |-> NoTar]
    /\ blank' = {} /\ missed' = {} /\ skipped' = {}
    /\ UNCHANGED <<todo, temp, tar, crashes, left>>

\* The pool raises: collect_all_logs catches it, and nothing is collected.
NoExecutor ==
    /\ pc \in {"node", "copy"}
    /\ pc' = "false"
    /\ UNCHANGED <<call, date, i, todo, disks, got, final, crashes, told>>

\* collect_single_node gives None: no connection, a malformed day, or no mkdir.
GiveUpNode ==
    /\ pc = "node" /\ i <= Len(Node)
    /\ missed' = missed \cup {here}
    /\ i' = i + 1
    /\ UNCHANGED <<pc, call, date, todo, disks, got, final, crashes, blank, skipped>>

\* _create_temp_dir, then _get_sub_directories: no directory, or no answer, and
\* collect_logs returns True before there is an archive.
ListNothing ==
    /\ pc = "node" /\ i <= Len(Node)
    /\ date # Malformed
    /\ blank' = blank \cup {here}
    /\ got' = Append(got, here)
    /\ i' = i + 1
    /\ UNCHANGED <<pc, call, date, todo, disks, final, crashes, missed, skipped>>

ListDirectories ==
    /\ pc = "node" /\ i <= Len(Node)
    /\ date # Malformed
    /\ todo' = {f.dir : f \in {g \in LogFile : g.node = here}}
    /\ todo' # {}
    /\ pc' = "pack"
    /\ UNCHANGED <<call, date, i, disks, got, final, crashes, told>>

Packed(d, files) == [name |-> Name[d], date |-> date, dir |-> d, by |-> call,
                     files |-> files]

\* _process_sub_directory: the archive of a directory replaces the one of its name.
PackDirectory(d) ==
    /\ pc = "pack" /\ d \in todo
    /\ todo' = todo \ {d}
    /\ \E answered \in BOOLEAN :
           LET files == FindLogFiles(here, d, date, answered)
           IN  /\ skipped' = IF answered THEN skipped ELSE skipped \cup {<<here, d>>}
               /\ temp' = [temp EXCEPT ![here] =
                      IF files = {} THEN @
                      ELSE {a \in @ : a.name # Name[d] \/ a.date # date}
                               \cup {Packed(d, files)}]
    /\ UNCHANGED <<pc, call, date, i, tar, got, final, crashes, left, blank, missed>>

\* Mutant: a directory that fails ends the node's list.
SkipTheRest(d) ==
    /\ pc = "pack" /\ d \in todo
    /\ todo' = {}
    /\ skipped' = skipped \cup {<<here, d>>}
    /\ UNCHANGED <<pc, call, date, i, disks, got, final, crashes, blank, missed>>

\* Neither search is answered, and the directory passes for one without files; or tar
\* fails, a warning.
SkipDirectory(d) ==
    /\ pc = "pack" /\ d \in todo
    /\ todo' = todo \ {d}
    /\ skipped' = skipped \cup {<<here, d>>}
    /\ UNCHANGED <<pc, call, date, i, disks, got, final, crashes, blank, missed>>

\* Mutant: the packed directories stay.
ArchiveAndKeep ==
    /\ pc = "pack" /\ todo = {}
    /\ tar' = [tar EXCEPT ![here] = temp[here]]
    /\ pc' = "node"
    /\ got' = Append(got, here)
    /\ i' = i + 1
    /\ UNCHANGED <<call, date, todo, temp, final, crashes, left, told>>

\* _create_node_archive, then _cleanup_temp_files.
ArchiveNode ==
    /\ pc = "pack" /\ todo = {}
    /\ tar' = [tar EXCEPT ![here] = temp[here]]
    /\ temp' = [temp EXCEPT ![here] = {}]
    /\ pc' = "node"
    /\ got' = Append(got, here)
    /\ i' = i + 1
    /\ UNCHANGED <<call, date, todo, final, crashes, left, told>>

\* The same, but rm fails and nobody looks.
ArchiveNodeOnly ==
    /\ pc = "pack" /\ todo = {}
    /\ tar' = [tar EXCEPT ![here] = temp[here]]
    /\ left' = left \cup {<<here, call>>}
    /\ pc' = "node"
    /\ got' = Append(got, here)
    /\ i' = i + 1
    /\ UNCHANGED <<call, date, todo, temp, final, crashes, told>>

\* tar fails: the node has no archive, and what was packed stays.
ArchiveNodeFails ==
    /\ pc = "pack" /\ todo = {}
    /\ left' = left \cup {<<here, call>>}
    /\ missed' = missed \cup {here}
    /\ pc' = "node"
    /\ i' = i + 1
    /\ UNCHANGED <<call, date, todo, temp, tar, got, final, crashes, blank, skipped>>

-----------------------------------------------------------------------------
(* _aggregate_to_first_node *)

Aggregate ==
    /\ pc = "node" /\ i > Len(Node)
    /\ IF got = <<>> THEN pc' = "false" ELSE pc' \in {"copy", "false"} \* no connection
    /\ i' = 1
    /\ UNCHANGED <<call, date, todo, disks, got, final, crashes, told>>

\* cp of the first node's archive, _transfer_file of another's.
CopyArchive ==
    /\ pc = "copy" /\ i <= Len(got)
    /\ tar[got[i]] # NoTar
    /\ final' = [final EXCEPT ![got[i]] = tar[got[i]]]
    /\ i' = i + 1
    /\ UNCHANGED <<pc, call, date, todo, disks, got, crashes, told>>

\* It fails, or there is no archive: the result is not looked at.
CopyNothing ==
    /\ pc = "copy" /\ i <= Len(got)
    /\ missed' = missed \cup {got[i]}
    /\ i' = i + 1
    /\ UNCHANGED <<pc, call, date, todo, disks, got, final, crashes, blank, skipped>>

\* The last tar; then rm -f of the first node's archive, which may fail.
PackFinal ==
    /\ pc = "copy" /\ i > Len(got)
    /\ pc' = "true"
    /\ tar' \in {tar, [tar EXCEPT ![got[1]] = NoTar]}
    /\ UNCHANGED <<call, date, i, todo, temp, got, final, crashes, left, told>>

PackFinalFails ==
    /\ pc = "copy" /\ i > Len(got)
    /\ pc' = "false"
    /\ UNCHANGED <<call, date, i, todo, disks, got, final, crashes, told>>

\* The process dies.
Crash ==
    /\ pc \in {"node", "pack", "copy"}
    /\ crashes < MaxCrashes
    /\ crashes' = crashes + 1
    /\ left' = IF pc = "pack" THEN left \cup {<<here, call>>} ELSE left
    /\ pc' = "idle"
    /\ todo' = {}
    /\ UNCHANGED <<call, date, i, temp, tar, got, final, told>>

Terminated ==
    /\ pc \in {"idle", "true", "false"}
    /\ call = MaxCalls
    /\ UNCHANGED vars

Next ==
    \/ \E t \in Date \cup {Malformed} : Collect(t)
    \/ NoExecutor \/ GiveUpNode \/ ListNothing \/ ListDirectories
    \/ \E d \in Dir : PackDirectory(d) \/ SkipDirectory(d)
    \/ ArchiveNode \/ ArchiveNodeOnly \/ ArchiveNodeFails
    \/ Aggregate \/ CopyArchive \/ CopyNothing \/ PackFinal \/ PackFinalFails
    \/ Crash
    \/ Terminated

Spec == Init /\ [][Next]_vars

-----------------------------------------------------------------------------
(* Properties *)

Archive == [name : {Name[d] : d \in Dir}, date : Date, dir : Dir, by : 1..MaxCalls,
            files : SUBSET LogFile]

\* Type invariant.
TypeOK ==
    /\ pc \in {"idle", "node", "pack", "copy", "true", "false"}
    /\ call \in 0..MaxCalls
    /\ date \in Date \cup {Malformed}
    /\ i \in 0..(Len(Node) + 1)
    /\ todo \subseteq Dir
    /\ temp \in [NodeSet -> SUBSET Archive]
    /\ tar \in [NodeSet -> (SUBSET Archive) \cup {NoTar}]
    /\ got \in Seq(NodeSet) /\ Len(got) <= Len(Node)
    /\ final \in [NodeSet -> (SUBSET Archive) \cup {NoTar}]
    /\ crashes \in 0..MaxCrashes
    /\ left \subseteq NodeSet \X (1..MaxCalls)
    /\ blank \subseteq NodeSet /\ missed \subseteq NodeSet
    /\ skipped \subseteq NodeSet \X Dir

Kept(n) == IF final[n] = NoTar THEN {} ELSE final[n]

\* What an earlier collection packed is in the archive of this one only if that
\* collection did not clean up at the node, or if this one could not list the node's
\* directories and took the archive it found there.
StaleArchivesHaveACause ==
    pc = "true" =>
        \A n \in NodeSet : \A a \in Kept(n) :
            a.by = call \/ n \in blank \/ <<n, a.by>> \in left

\* The day after, by the calendar.
Tomorrow(t) ==
    IF t[3] < DaysIn(t[1], t[2]) THEN <<t[1], t[2], t[3] + 1>>
    ELSE IF t[2] < 12 THEN <<t[1], t[2] + 1, 1>> ELSE <<t[1] + 1, 1, 1>>

\* After a collection for a date in full that returned True, every directory with a
\* file of that day, by its name or changed in its course, is in the archive, packed by
\* this collection, but for the nodes and directories where a command failed and those
\* that another directory of the same name has replaced.
TrueMeansAllPacked ==
    pc = "true" /\ date # Malformed /\ date.short = {} =>
        \A n \in NodeSet \ (missed \cup blank) : \A f \in LogFile :
            /\ f.node = n /\ <<n, f.dir>> \notin skipped
            /\ f.named = date.day \/ (f.modified = date.day /\ ~f.midnight)
            => \E a \in Kept(n) : a.by = call /\ a.name = Name[f.dir] /\ a.date = date

\* An archive holds files of its directory that have its day in their name, or were
\* changed on it, at the end of a month, a leap February and a year too.  As the code
\* has it the midnight that ends the day belongs to it, and a date without the zero
\* of the day, which validation accepts, takes names of ten days of its month.
ArchivesHoldTheirDay ==
    \A n \in NodeSet : \A a \in temp[n] : \A f \in a.files :
        /\ f.node = n /\ f.dir = a.dir
        /\ \/ f.named = a.date.day
           \/ f.modified = a.date.day /\ ~f.midnight
           \/ f.modified = Tomorrow(a.date.day) /\ f.midnight
           \/ /\ a.date.short = {"day"} /\ f.named # <<>>
              /\ f.named[1] = a.date.day[1] /\ f.named[2] = a.date.day[2]
=============================================================================
