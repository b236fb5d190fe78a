-------------------------- MODULE LogCollectorProofs --------------------------
(***************************************************************************)
(* Proofs about LogCollector, for any number of nodes, directories, files  *)
(* and collections.                                                        *)
(***************************************************************************)
EXTENDS LogCollector, TLAPS

-----------------------------------------------------------------------------
(* The window of a day *)

LEMMA DaysPositive == ASSUME NEW y \in Nat, NEW m \in 1..12 PROVE DaysIn(y, m) \in 28..31
  BY DEF DaysIn

LEMMA BeforeLater ==
    ASSUME NEW s \in Valid, NEW t \in Valid, ~Before(s, t), s # t
    PROVE  Before(t, s)
<1>1. s = <<s[1], s[2], s[3]>> /\ t = <<t[1], t[2], t[3]>>
  BY DEF Valid
<1>2. \A k \in 1..3 : s[k] \in Int /\ t[k] \in Int
  <2>1. s[1] \in Int /\ s[2] \in Int /\ s[3] \in Int /\ t[1] \in Int /\ t[2] \in Int /\ t[3] \in Int
    BY DEF Valid
  <2>2. QED
    BY <2>1
<1>3. s[1] # t[1] \/ s[2] # t[2] \/ s[3] # t[3]
  BY <1>1
<1>4. QED
  BY <1>2, <1>3 DEF Before

\* The branches of _find_log_files for the end of a month give the day after by the
\* calendar, in every month of every year, and nothing comes between a day and that one:
\* the window of find takes what changed on the day after its midnight, or at the next.
THEOREM WindowIsTheDay ==
    ASSUME NEW t \in Valid
    PROVE  /\ NextDay(t) = Tomorrow(t) /\ NextDay(t) \in Valid
           /\ \A s \in Valid : ~Before(s, t) /\ Before(s, NextDay(t)) <=> s = t
           /\ \A s \in Valid : Before(t, s) /\ ~Before(NextDay(t), s) <=> s = NextDay(t)
<1> DEFINE y == t[1]
           m == t[2]
           d == t[3]
           D == DaysIn(y, m)
<1>1. y \in Nat /\ m \in 1..12 /\ D \in 28..31 /\ d \in 1..D
  BY DaysPositive DEF Valid
<1>2. NextDay(t) = IF d < D THEN <<y, m, d + 1>>
                   ELSE IF m < 12 THEN <<y, m + 1, 1>> ELSE <<y + 1, 1, 1>>
  BY <1>1 DEF NextDay, DaysIn
<1>3. NextDay(t) \in Valid
  <2>1. CASE d < D
    BY <1>1, <1>2, <2>1 DEF Valid
  <2>2. CASE d = D /\ m < 12
    BY <1>1, <1>2, <2>2, DaysPositive DEF Valid
  <2>3. CASE d = D /\ m = 12
    BY <1>1, <1>2, <2>3, DaysPositive DEF Valid
  <2>4. QED
    BY <1>1, <2>1, <2>2, <2>3
<1>4. ASSUME NEW s \in Valid PROVE ~Before(s, t) /\ Before(s, NextDay(t)) <=> s = t
  <2>1. /\ s[1] \in Nat /\ s[2] \in 1..12 /\ s[3] \in 1..DaysIn(s[1], s[2])
        /\ s = <<s[1], s[2], s[3]>> /\ t = <<y, m, d>>
    BY DEF Valid
  <2>2. s = t => ~Before(s, t) /\ Before(s, NextDay(t))
    BY <1>1, <1>2, <2>1 DEF Before
  <2>3. ASSUME s # t, ~Before(s, t), Before(s, NextDay(t)) PROVE FALSE
    <3>1. Before(t, s)
      BY <2>3, BeforeLater
    <3>2. CASE d < D
      BY <1>1, <1>2, <2>1, <2>3, <3>1, <3>2 DEF Before
    <3>3. CASE d = D /\ m < 12
      <4>1. s[1] = y /\ s[2] = m /\ s[3] > d
        BY <1>1, <1>2, <2>1, <2>3, <3>1, <3>3 DEF Before
      <4>2. QED
        BY <1>1, <2>1, <3>3, <4>1
    <3>4. CASE d = D /\ m = 12
      <4>1. s[1] = y /\ s[2] = m /\ s[3] > d
        BY <1>1, <1>2, <2>1, <2>3, <3>1, <3>4 DEF Before
      <4>2. QED
        BY <1>1, <2>1, <3>4, <4>1
    <3>5. QED
      BY <1>1, <3>2, <3>3, <3>4
  <2>4. QED
    BY <2>2, <2>3
<1>5. NextDay(t) = Tomorrow(t)
  BY <1>1, <1>2 DEF Tomorrow
<1>6. Before(t, NextDay(t)) /\ t # NextDay(t) /\ ~Before(NextDay(t), NextDay(t))
  BY <1>1, <1>2, <1>3 DEF Before, Valid
<1>7. ASSUME NEW s \in Valid PROVE Before(t, s) /\ ~Before(NextDay(t), s) <=> s = NextDay(t)
  <2>1. s = NextDay(t) => Before(t, s) /\ ~Before(NextDay(t), s)
    BY <1>6
  <2>2. ASSUME s # NextDay(t), Before(t, s), ~Before(NextDay(t), s) PROVE FALSE
    <3>1. Before(s, NextDay(t))
      BY <1>3, <2>2, BeforeLater
    <3>2. ~Before(s, t)
      BY <2>2 DEF Before, Valid
    <3>3. s = t
      BY <1>4, <3>1, <3>2
    <3>4. QED
      BY <2>2, <3>3 DEF Before, Valid
  <2>3. QED
    BY <2>1, <2>2
<1>8. QED
  BY <1>3, <1>4, <1>5, <1>7

-----------------------------------------------------------------------------
(* The invariant *)

Types ==
    /\ pc \in {"idle", "node", "pack", "copy", "true", "false"}
    /\ call \in Nat /\ i \in Nat
    /\ date \in Date \cup {Malformed}
    /\ DOMAIN temp = NodeSet /\ DOMAIN tar = NodeSet /\ DOMAIN final = NodeSet
    /\ got \in Seq(NodeSet)
    /\ pc \in {"node", "pack"} => i \in 1..(Len(Node) + 1)
    /\ pc = "pack" => i <= Len(Node) /\ date \in Date
    /\ pc = "copy" => i \in 1..(Len(got) + 1)

\* a was packed at n by this collection, or by one that did not clean up there.
Explained(n, a) == a.by = call \/ <<n, a.by>> \in left

Got == {got[k] : k \in 1..Len(got)}

\* What lies in the directory of a node was left there, unless it is being packed.
TempExplained ==
    \A n \in NodeSet : \A a \in temp[n] :
        <<n, a.by>> \in left \/ (a.by = call /\ pc = "pack" /\ n = here)

\* The archive of a node, and its copy, are as good as that directory was.
TarExplained ==
    pc \in {"node", "pack", "copy"} =>
        \A n \in Got \ blank : \A a \in tar[n] : Explained(n, a)

FinalExplained ==
    pc \in {"node", "pack", "copy", "true"} =>
        \A n \in NodeSet \ blank :
            final[n] # NoTar => n \in Got /\ \A a \in final[n] : Explained(n, a)

\* Every node so far was given up, listed nothing, or has an archive; every archive so
\* far was copied or given up.
NodesVisited ==
    /\ pc \in {"node", "pack"} =>
           \A k \in 1..Len(Node) : k < i => Node[k] \in missed \cup blank \cup Got
    /\ pc \in {"copy", "true"} => NodeSet \subseteq missed \cup blank \cup Got

\* With a file whose name matches or that changed in the window, a directory is packed.
Wanted(f, n, d) ==
    f.node = n /\ f.dir = d /\ (NameMatches(f, date) \/ InWindow(f, date.day))

Packs(archives, n, d) ==
    <<n, d>> \notin skipped /\ (\E f \in LogFile : Wanted(f, n, d)) =>
        \E a \in archives : a.by = call /\ a.name = Name[d] /\ a.date = date

DirsPacked ==
    /\ pc = "pack" => \A d \in Dir \ todo : Packs(temp[here], here, d)
    /\ pc \in {"node", "pack", "copy"} =>
           \A n \in Got \ blank, d \in Dir : Packs(tar[n], n, d)

TarsCopied ==
    /\ pc = "copy" => \A k \in 1..Len(got) : k < i =>
           \/ got[k] \in missed
           \/ final[got[k]] # NoTar /\ final[got[k]] = tar[got[k]]
    /\ pc = "true" => TrueMeansAllPacked

LInv ==
    /\ Types /\ TempExplained /\ TarExplained /\ FinalExplained
    /\ NodesVisited /\ DirsPacked /\ TarsCopied /\ ArchivesHoldTheirDay

LEMMA LogsInit == Init => LInv
  BY LogAssumption
     DEF Init, LInv, Types, TempExplained, TarExplained, FinalExplained, NodesVisited,
         DirsPacked, TarsCopied, ArchivesHoldTheirDay

LEMMA StutterPacked ==
    ASSUME UNCHANGED vars, TrueMeansAllPacked PROVE TrueMeansAllPacked'
<1>1. \A n \in NodeSet : Kept(n)' = Kept(n)
  BY DEF vars, Kept
<1>2. pc' = pc /\ missed' = missed /\ blank' = blank /\ skipped' = skipped /\ date' = date
      /\ call' = call
  BY DEF vars
<1>3. QED
  BY <1>1, <1>2 DEF TrueMeansAllPacked

LEMMA StutterStep == ASSUME LInv, UNCHANGED vars PROVE LInv'
<1>1. /\ pc' = pc /\ i' = i /\ date' = date /\ call' = call /\ left' = left
      /\ temp' = temp /\ tar' = tar /\ got' = got /\ Got' = Got /\ here' = here
      /\ final' = final /\ blank' = blank /\ missed' = missed /\ skipped' = skipped
      /\ todo' = todo
  BY DEF vars, Got, here
<1>2. Types' /\ NodesVisited' /\ ArchivesHoldTheirDay'
  BY <1>1 DEF LInv, Types, NodesVisited, ArchivesHoldTheirDay
<1>3. TempExplained' /\ TarExplained' /\ FinalExplained'
  BY <1>1 DEF LInv, TempExplained, TarExplained, FinalExplained, Explained
<1>4. DirsPacked'
  BY <1>1 DEF LInv, DirsPacked, Packs, Wanted
<1>5. TarsCopied'
  BY <1>1, StutterPacked DEF LInv, TarsCopied
<1>6. QED
  BY <1>2, <1>3, <1>4, <1>5 DEF LInv

\* Beginning, giving up and dying.
LEMMA EdgeStep ==
    ASSUME LInv, (\E t \in Date \cup {Malformed} : Collect(t)) \/ NoExecutor \/ Crash
                 \/ UNCHANGED vars
    PROVE  LInv'
<1> USE LogAssumption
    DEF LInv, Types, TempExplained, TarExplained, FinalExplained, NodesVisited, DirsPacked,
        TarsCopied, ArchivesHoldTheirDay, Explained, Got, Packs, Wanted, here, disks, told
<1>1. ASSUME NEW t \in Date \cup {Malformed}, Collect(t) PROVE LInv'
  BY <1>1 DEF Collect
<1>2. CASE NoExecutor
  BY <1>2 DEF NoExecutor
<1>3. CASE Crash
  BY <1>3 DEF Crash
<1>4. CASE UNCHANGED vars
  BY <1>4, StutterStep
<1>5. QED
  BY <1>1, <1>2, <1>3, <1>4

LEMMA HereIsANode == ASSUME i \in 1..Len(Node) PROVE here \in NodeSet
  BY DEF here, NodeSet

\* A node more is given up, lists nothing, or has an archive.
LEMMA Visited ==
    ASSUME Types, NodesVisited, pc \in {"node", "pack"}, i <= Len(Node), i' = i + 1,
           missed \subseteq missed', blank \subseteq blank', Got \subseteq Got',
           here \in missed' \cup blank' \cup Got', pc' = "node"
    PROVE  NodesVisited'
<1>1. Len(Node) \in Nat /\ i \in 1..Len(Node)
  BY LogAssumption DEF Types
<1>2. ASSUME NEW k \in 1..Len(Node), k < i'
      PROVE  Node[k] \in missed' \cup blank' \cup Got'
  <2>1. CASE k = i
    BY <2>1 DEF here
  <2>2. CASE k < i
    BY <1>1, <2>2 DEF NodesVisited
  <2>3. QED
    BY <1>1, <1>2, <2>1, <2>2
<1>3. QED
  BY <1>2 DEF NodesVisited

\* got grows by the node it is at.
LEMMA GotGrows ==
    ASSUME Types, pc \in {"node", "pack"}, i <= Len(Node), got' = Append(got, here)
    PROVE  got' \in Seq(NodeSet) /\ Got' = Got \cup {here}
<1>1. here \in NodeSet /\ got \in Seq(NodeSet)
  BY HereIsANode DEF Types
<1>2. got' \in Seq(NodeSet) /\ Len(got') = Len(got) + 1 /\ got'[Len(got) + 1] = here
  BY <1>1
<1>3. \A k \in 1..Len(got) : got'[k] = got[k]
  BY <1>1
<1>4. Len(got) \in Nat
  BY <1>1
<1>5. Got' = {got'[k] : k \in 1..(Len(got) + 1)}
  BY <1>2 DEF Got
<1>6. QED
  BY <1>2, <1>3, <1>4, <1>5 DEF Got

\* Coming to a node.
LEMMA NodeStep ==
    ASSUME LInv, GiveUpNode \/ ListNothing \/ ListDirectories
    PROVE  LInv'
<1> USE DEF LInv
<1>1. CASE GiveUpNode
  <2>1. /\ pc = "node" /\ pc' = "node" /\ i <= Len(Node) /\ i' = i + 1 /\ date' = date
        /\ call' = call /\ left' = left /\ temp' = temp /\ tar' = tar /\ got' = got
        /\ final' = final /\ blank' = blank /\ skipped' = skipped /\ todo' = todo
        /\ missed' = missed \cup {here} /\ Got' = Got
    BY <1>1 DEF GiveUpNode, disks, Got
  <2>2. Types'
    BY LogAssumption, <2>1 DEF Types
  <2>3. TempExplained' /\ TarExplained' /\ FinalExplained'
    BY <2>1 DEF TempExplained, TarExplained, FinalExplained, Explained
  <2>4. NodesVisited'
    BY <2>1, Visited
  <2>5. DirsPacked' /\ TarsCopied' /\ ArchivesHoldTheirDay'
    BY <2>1 DEF DirsPacked, Packs, Wanted, TarsCopied, ArchivesHoldTheirDay
  <2>6. QED
    BY <2>2, <2>3, <2>4, <2>5
<1>2. CASE ListNothing
  <2>1. /\ pc = "node" /\ pc' = "node" /\ i <= Len(Node) /\ i' = i + 1 /\ date' = date
        /\ call' = call /\ left' = left /\ temp' = temp /\ tar' = tar
        /\ got' = Append(got, here) /\ final' = final /\ blank' = blank \cup {here}
        /\ skipped' = skipped /\ todo' = todo /\ missed' = missed
    BY <1>2 DEF ListNothing, disks
  <2>2. got' \in Seq(NodeSet) /\ Got' = Got \cup {here}
    BY <2>1, GotGrows
  <2>3. Types'
    BY LogAssumption, <2>1, <2>2 DEF Types
  <2>4. TempExplained' /\ TarExplained' /\ FinalExplained'
    BY <2>1, <2>2 DEF TempExplained, TarExplained, FinalExplained, Explained
  <2>5. NodesVisited'
    BY <2>1, <2>2, Visited
  <2>6. DirsPacked' /\ TarsCopied' /\ ArchivesHoldTheirDay'
    BY <2>1, <2>2 DEF DirsPacked, Packs, Wanted, TarsCopied, ArchivesHoldTheirDay
  <2>7. QED
    BY <2>3, <2>4, <2>5, <2>6
<1>3. CASE ListDirectories
  <2>1. /\ pc = "node" /\ pc' = "pack" /\ i <= Len(Node) /\ i' = i /\ date' = date
        /\ date # Malformed /\ call' = call /\ left' = left /\ temp' = temp /\ tar' = tar
        /\ got' = got /\ final' = final /\ blank' = blank /\ skipped' = skipped
        /\ missed' = missed /\ Got' = Got /\ here' = here
        /\ todo' = {f.dir : f \in {g \in LogFile : g.node = here}}
    BY <1>3 DEF ListDirectories, disks, told, Got, here
  <2>2. Types'
    BY LogAssumption, <2>1 DEF Types
  <2>3. TempExplained' /\ TarExplained' /\ FinalExplained'
    BY <2>1 DEF TempExplained, TarExplained, FinalExplained, Explained
  <2>4. NodesVisited'
    BY <2>1 DEF NodesVisited
  <2>5. \A d \in Dir \ todo', f \in LogFile : ~(f.node = here /\ f.dir = d)
    BY <2>1
  <2>6. DirsPacked'
    BY <2>1, <2>5 DEF DirsPacked, Packs, Wanted
  <2>7. TarsCopied' /\ ArchivesHoldTheirDay'
    BY <2>1 DEF TarsCopied, ArchivesHoldTheirDay
  <2>8. QED
    BY <2>2, <2>3, <2>4, <2>6, <2>7
<1>4. QED
  BY <1>1, <1>2, <1>3

\* What ArchivesHoldTheirDay allows in an archive for t.
OfDate(f, t) ==
    \/ f.named = t.day
    \/ f.modified = t.day /\ ~f.midnight
    \/ f.modified = Tomorrow(t.day) /\ f.midnight
    \/ t.short = {"day"} /\ f.named # <<>> /\ f.named[1] = t.day[1] /\ f.named[2] = t.day[2]

\* A name with the text of the date has its day, or is of its month.
LEMMA NameIsOfDate ==
    ASSUME NEW t \in Date, NEW f \in LogFile, NameMatches(f, t)
    PROVE  OfDate(f, t)
<1>1. /\ "month" \notin t.short /\ f.named # <<>> /\ f.named[1] = t.day[1]
      /\ f.named[2] = t.day[2]
  BY DEF NameMatches
<1>2. CASE "day" \in t.short
  <2>1. t.short = {"day"}
    BY <1>1, <1>2, LogAssumption
  <2>2. QED
    BY <1>1, <2>1 DEF OfDate
<1>3. CASE "day" \notin t.short
  <2>1. f.named[3] = t.day[3]
    BY <1>3 DEF NameMatches
  <2>2. f.named = <<f.named[1], f.named[2], f.named[3]>>
        /\ t.day = <<t.day[1], t.day[2], t.day[3]>>
    BY <1>1, LogAssumption DEF Valid
  <2>3. QED
    BY <1>1, <2>1, <2>2 DEF OfDate
<1>4. QED
  BY <1>2, <1>3

\* What find -newermt takes changed on the day, or at the midnight that ends it.
LEMMA WindowIsOfDate ==
    ASSUME NEW t \in Date, NEW f \in LogFile
    PROVE  InWindow(f, t.day) <=> \/ f.modified = t.day /\ ~f.midnight
                                  \/ f.modified = Tomorrow(t.day) /\ f.midnight
<1>1. t.day \in Valid /\ f.modified \in Valid /\ f.midnight \in BOOLEAN
  BY LogAssumption
<1>2. /\ NextDay(t.day) = Tomorrow(t.day)
      /\ ~Before(f.modified, t.day) /\ Before(f.modified, NextDay(t.day))
            <=> f.modified = t.day
      /\ Before(t.day, f.modified) /\ ~Before(NextDay(t.day), f.modified)
            <=> f.modified = NextDay(t.day)
  BY <1>1, WindowIsTheDay
<1>3. QED
  BY <1>1, <1>2 DEF InWindow

LEMMA FoundIsOfDate ==
    ASSUME NEW n, NEW d, NEW t \in Date, NEW answered \in BOOLEAN,
           NEW f \in FindLogFiles(n, d, t, answered)
    PROVE  f.node = n /\ f.dir = d /\ OfDate(f, t)
<1>1. f \in LogFile /\ f.node = n /\ f.dir = d /\ (NameMatches(f, t) \/ InWindow(f, t.day))
  BY DEF FindLogFiles
<1>2. QED
  BY <1>1, NameIsOfDate, WindowIsOfDate DEF OfDate

\* A file of the day asked for in full is one that the searches look for.
LEMMA DayIsWanted ==
    ASSUME date \in Date, date.short = {}, NEW f \in LogFile,
           f.named = date.day \/ (f.modified = date.day /\ ~f.midnight)
    PROVE  Wanted(f, f.node, f.dir)
<1>1. CASE f.named = date.day
  <2>1. f.named \in Valid
    BY <1>1, LogAssumption
  <2>2. f.named # <<>>
    BY <2>1 DEF Valid
  <2>3. QED
    BY <1>1, <2>2 DEF Wanted, NameMatches
<1>2. CASE f.modified = date.day /\ ~f.midnight
  BY <1>2, WindowIsOfDate DEF Wanted
<1>3. QED
  BY <1>1, <1>2

\* A directory of the node is packed, or given up.
LEMMA PackStep ==
    ASSUME LInv, NEW d \in Dir, PackDirectory(d) \/ SkipDirectory(d)
    PROVE  LInv'
<1> USE DEF LInv
<1>1. CASE SkipDirectory(d)
  <2>1. /\ pc = "pack" /\ pc' = pc /\ i' = i /\ date' = date
        /\ call' = call /\ left' = left /\ temp' = temp /\ tar' = tar
        /\ got' = got /\ final' = final /\ blank' = blank /\ missed' = missed
        /\ Got' = Got /\ here' = here
        /\ todo' = todo \ {d} /\ skipped' = skipped \cup {<<here, d>>}
    BY <1>1 DEF SkipDirectory, disks, Got, here
  <2>2. Types' /\ NodesVisited'
    BY <2>1 DEF Types, NodesVisited
  <2>3. TempExplained' /\ TarExplained' /\ FinalExplained'
    BY <2>1 DEF TempExplained, TarExplained, FinalExplained, Explained
  <2>4. DirsPacked'
    BY <2>1 DEF DirsPacked, Packs, Wanted
  <2>5. TarsCopied' /\ ArchivesHoldTheirDay'
    BY <2>1 DEF TarsCopied, ArchivesHoldTheirDay
  <2>6. QED
    BY <2>2, <2>3, <2>4, <2>5
<1>2. CASE PackDirectory(d)
  <2>1. PICK answered \in BOOLEAN :
           LET files == FindLogFiles(here, d, date, answered)
           IN  /\ skipped' = IF answered THEN skipped ELSE skipped \cup {<<here, d>>}
               /\ temp' = [temp EXCEPT ![here] =
                      IF files = {} THEN @
                      ELSE {a \in @ : a.name # Name[d] \/ a.date # date}
                               \cup {Packed(d, files)}]
    BY <1>2 DEF PackDirectory
  <2> DEFINE F == FindLogFiles(here, d, date, answered)
             A == {a \in temp[here] : a.name # Name[d] \/ a.date # date} \cup {Packed(d, F)}
  <2>2. /\ pc = "pack" /\ pc' = pc /\ i' = i /\ date' = date
        /\ call' = call /\ left' = left /\ tar' = tar
        /\ got' = got /\ final' = final /\ blank' = blank /\ missed' = missed
        /\ Got' = Got /\ here' = here /\ todo' = todo \ {d}
    BY <1>2 DEF PackDirectory, Got, here
  <2>3. skipped \subseteq skipped' /\ (answered \/ <<here, d>> \in skipped')
    BY <2>1
  <2>4. temp' = [temp EXCEPT ![here] = IF F = {} THEN temp[here] ELSE A]
    BY <2>1
  <2>5. here \in NodeSet /\ DOMAIN temp = NodeSet /\ date \in Date
    BY <2>2, HereIsANode, LogAssumption DEF Types
  <2>6. temp'[here] = (IF F = {} THEN temp[here] ELSE A)
        /\ \A n \in NodeSet : n # here => temp'[n] = temp[n]
    BY <2>5, <2>4
  <2>7. Types' /\ NodesVisited'
    BY <2>2, <2>5, <2>4 DEF Types, NodesVisited
  <2>8. Packed(d, F).by = call /\ Packed(d, F).name = Name[d] /\ Packed(d, F).date = date
        /\ Packed(d, F).dir = d /\ Packed(d, F).files = F
    BY DEF Packed
  <2>9. TempExplained'
    BY <2>2, <2>5, <2>6, <2>8 DEF TempExplained
  <2>10. ASSUME answered, NEW f \in LogFile, Wanted(f, here, d) PROVE F # {}
    BY <2>10 DEF Wanted, FindLogFiles
  <2>11. TarExplained' /\ FinalExplained'
    BY <2>2 DEF TarExplained, FinalExplained, Explained
  <2>12. DirsPacked'
    <3> HIDE DEF F
    <3>1. ASSUME NEW e \in Dir \ todo', <<here, e>> \notin skipped',
                 NEW f \in LogFile, Wanted(f, here, e)
          PROVE  \E a \in temp'[here] : a.by = call /\ a.name = Name[e] /\ a.date = date
      <4>1. CASE e = d
        <5>1. F # {}
          BY <2>10, <2>3, <3>1, <4>1
        <5>2. QED
          BY <2>6, <2>8, <4>1, <5>1
      <4>2. CASE e # d
        <5>1. PICK a \in temp[here] : a.by = call /\ a.name = Name[e] /\ a.date = date
          BY <2>2, <2>3, <3>1, <4>2 DEF DirsPacked, Packs
        <5>2. CASE a \in temp'[here]
          BY <5>1, <5>2
        <5>3. CASE a \notin temp'[here]
          BY <2>6, <2>8, <5>1, <5>3
        <5>4. QED
          BY <5>2, <5>3
      <4>3. QED
        BY <4>1, <4>2
    <3>2. \A e \in Dir \ todo' : Packs(temp[here], here, e)'
      BY <2>2, <3>1 DEF Packs, Wanted
    <3>3. \A n \in Got \ blank, e \in Dir : Packs(tar[n], n, e)'
      BY <2>2, <2>3 DEF DirsPacked, Packs, Wanted
    <3>4. QED
      BY <2>2, <3>2, <3>3 DEF DirsPacked
  <2>13. TarsCopied'
    BY <2>2 DEF TarsCopied
  <2>14. ArchivesHoldTheirDay'
    <3>1. \A f \in F : f.node = here /\ f.dir = d /\ OfDate(f, date)
      BY <2>5, FoundIsOfDate
    <3> HIDE DEF F
    <3>2. ASSUME NEW n \in NodeSet, NEW a \in temp'[n], NEW f \in a.files
          PROVE  f.node = n /\ f.dir = a.dir /\ OfDate(f, a.date)
      <4>1. CASE a \in temp[n]
        BY <4>1, <3>2 DEF ArchivesHoldTheirDay, OfDate
      <4>2. CASE a \notin temp[n]
        <5>1. n = here /\ a = Packed(d, F)
          BY <2>6, <3>2, <4>2
        <5>2. QED
          BY <2>8, <3>1, <3>2, <5>1
      <4>3. QED
        BY <4>1, <4>2
    <3>3. QED
      BY <3>2 DEF ArchivesHoldTheirDay, OfDate
  <2>15. QED
    BY <2>7, <2>9, <2>11, <2>12, <2>13, <2>14
<1>3. QED
  BY <1>1, <1>2

\* The archive of the node.
LEMMA ArchiveStep ==
    ASSUME LInv, ArchiveNode \/ ArchiveNodeOnly
    PROVE  LInv'
<1> USE DEF LInv
<1>1. /\ pc = "pack" /\ pc' = "node" /\ i <= Len(Node) /\ i' = i + 1 /\ date' = date
      /\ todo = {} /\ call' = call /\ got' = Append(got, here) /\ final' = final
      /\ blank' = blank /\ missed' = missed /\ skipped' = skipped /\ todo' = todo
      /\ tar' = [tar EXCEPT ![here] = temp[here]]
      /\ left \subseteq left'
      /\ \/ temp' = [temp EXCEPT ![here] = {}]
         \/ temp' = temp /\ left' = left \cup {<<here, call>>}
  BY DEF ArchiveNode, ArchiveNodeOnly, told, Types
<1>2. got' \in Seq(NodeSet) /\ Got' = Got \cup {here}
  BY <1>1, GotGrows
<1>3. here \in NodeSet /\ DOMAIN temp = NodeSet /\ DOMAIN tar = NodeSet
  BY <1>1, HereIsANode, LogAssumption DEF Types
<1>4. Types'
  BY <1>1, <1>2, LogAssumption DEF Types
<1>5. tar'[here] = temp[here] /\ \A n \in NodeSet : n # here => tar'[n] = tar[n]
  BY <1>1, <1>3
<1>6. TempExplained'
  <2>1. \A n \in NodeSet : \A a \in temp'[n] : a \in temp[n]
    BY <1>1, <1>3
  <2>2. \A n \in NodeSet : \A a \in temp'[n] : <<n, a.by>> \in left'
    BY <1>1, <1>3, <2>1 DEF TempExplained
  <2>3. QED
    BY <2>2 DEF TempExplained
<1>7. Got \subseteq NodeSet
  BY DEF Types, Got
<1>8. TarExplained'
  BY <1>1, <1>2, <1>3, <1>5, <1>7 DEF TarExplained, TempExplained, Explained
<1>9. FinalExplained'
  BY <1>1, <1>2 DEF FinalExplained, Explained
<1>10. NodesVisited'
  BY <1>1, <1>2, Visited
<1>11. DirsPacked'
  <2>1. \A d \in Dir : Packs(temp[here], here, d)
    BY <1>1 DEF DirsPacked
  <2>2. \A n \in (Got \cup {here}) \ blank, d \in Dir : Packs(tar'[n], n, d)
    BY <1>1, <1>5, <1>7, <2>1 DEF DirsPacked
  <2>3. \A n \in Got' \ blank', d \in Dir : Packs(tar[n], n, d)'
    BY <1>1, <1>2, <2>2 DEF Packs, Wanted
  <2>4. QED
    BY <1>1, <2>3 DEF DirsPacked
<1>12. TarsCopied'
  BY <1>1 DEF TarsCopied
<1>13. ArchivesHoldTheirDay'
  BY <1>1, <1>3 DEF ArchivesHoldTheirDay
<1>14. QED
  BY <1>4, <1>6, <1>8, <1>9, <1>10, <1>11, <1>12, <1>13

LEMMA NoArchiveStep ==
    ASSUME LInv, ArchiveNodeFails
    PROVE  LInv'
<1> USE DEF LInv
<1>1. /\ pc = "pack" /\ pc' = "node" /\ i <= Len(Node) /\ i' = i + 1 /\ date' = date
      /\ todo' = todo /\ call' = call /\ got' = got /\ Got' = Got /\ final' = final
      /\ blank' = blank /\ missed' = missed \cup {here} /\ skipped' = skipped
      /\ tar' = tar /\ temp' = temp /\ left' = left \cup {<<here, call>>}
  BY DEF ArchiveNodeFails, Got, Types
<1>2. Types'
  BY <1>1, LogAssumption DEF Types
<1>3. TempExplained' /\ TarExplained' /\ FinalExplained'
  BY <1>1 DEF TempExplained, TarExplained, FinalExplained, Explained
<1>4. NodesVisited'
  BY <1>1, Visited
<1>5. DirsPacked' /\ TarsCopied' /\ ArchivesHoldTheirDay'
  BY <1>1 DEF DirsPacked, Packs, Wanted, TarsCopied, ArchivesHoldTheirDay
<1>6. QED
  BY <1>2, <1>3, <1>4, <1>5

\* From the nodes to the first of them.
LEMMA CopyStep ==
    ASSUME LInv, Aggregate \/ CopyArchive \/ CopyNothing
    PROVE  LInv'
<1> USE DEF LInv
<1>1. CASE Aggregate
  <2>1. /\ pc = "node" /\ pc' \in {"copy", "false"} /\ i > Len(Node) /\ i' = 1 /\ date' = date
        /\ call' = call /\ got' = got /\ Got' = Got /\ final' = final /\ left' = left
        /\ blank' = blank /\ missed' = missed /\ skipped' = skipped
        /\ tar' = tar /\ temp' = temp
    BY <1>1 DEF Aggregate, Got, disks, told
  <2>2. Types'
    BY <2>1 DEF Types
  <2>3. TempExplained' /\ TarExplained' /\ FinalExplained'
    BY <2>1 DEF TempExplained, TarExplained, FinalExplained, Explained
  <2>4. NodesVisited'
    BY <2>1, LogAssumption DEF NodesVisited, Types, NodeSet
  <2>5. DirsPacked' /\ TarsCopied' /\ ArchivesHoldTheirDay'
    BY <2>1 DEF DirsPacked, Packs, Wanted, TarsCopied, ArchivesHoldTheirDay
  <2>6. QED
    BY <2>2, <2>3, <2>4, <2>5
<1>2. CASE CopyArchive
  <2>1. /\ pc = "copy" /\ pc' = pc /\ i <= Len(got) /\ i' = i + 1 /\ date' = date
        /\ call' = call /\ got' = got /\ Got' = Got /\ left' = left
        /\ blank' = blank /\ missed' = missed /\ skipped' = skipped
        /\ tar' = tar /\ temp' = temp /\ tar[got[i]] # NoTar
        /\ final' = [final EXCEPT ![got[i]] = tar[got[i]]]
    BY <1>2 DEF CopyArchive, Got, disks, told
  <2>2. got[i] \in Got /\ got[i] \in NodeSet /\ i \in Nat /\ Len(got) \in Nat
    BY <2>1 DEF Got, Types
  <2>3. Types'
    BY <2>1, <2>2 DEF Types
  <2>4. final'[got[i]] = tar[got[i]]
        /\ \A n \in NodeSet : n # got[i] => final'[n] = final[n]
    BY <2>1, <2>2 DEF Types
  <2>5. TempExplained' /\ TarExplained'
    BY <2>1 DEF TempExplained, TarExplained, Explained
  <2>6. FinalExplained'
    BY <2>1, <2>2, <2>4 DEF FinalExplained, TarExplained, Explained
  <2>7. NodesVisited' /\ DirsPacked' /\ ArchivesHoldTheirDay'
    BY <2>1 DEF NodesVisited, DirsPacked, Packs, Wanted, ArchivesHoldTheirDay
  <2>8. ASSUME NEW k \in 1..Len(got), k < i + 1, got[k] \notin missed
        PROVE  final'[got[k]] # NoTar /\ final'[got[k]] = tar[got[k]]
    <3>1. CASE got[k] = got[i]
      BY <2>1, <2>4, <3>1
    <3>2. CASE got[k] # got[i]
      <4>1. k < i /\ got[k] \in NodeSet
        BY <2>2, <2>8, <3>2 DEF Types
      <4>2. final[got[k]] # NoTar /\ final[got[k]] = tar[got[k]]
        BY <2>1, <2>8, <4>1 DEF TarsCopied
      <4>3. QED
        BY <2>4, <3>2, <4>1, <4>2
    <3>3. QED
      BY <3>1, <3>2
  <2>9. TarsCopied'
    BY <2>1, <2>8 DEF TarsCopied
  <2>10. QED
    BY <2>3, <2>5, <2>6, <2>7, <2>9
<1>3. CASE CopyNothing
  <2>1. /\ pc = "copy" /\ pc' = pc /\ i <= Len(got) /\ i' = i + 1 /\ date' = date
        /\ call' = call /\ got' = got /\ Got' = Got /\ left' = left
        /\ blank' = blank /\ missed' = missed \cup {got[i]} /\ skipped' = skipped
        /\ tar' = tar /\ temp' = temp /\ final' = final
    BY <1>3 DEF CopyNothing, Got, disks
  <2>2. i \in Nat /\ Len(got) \in Nat
    BY DEF Types
  <2>3. Types'
    BY <2>1, <2>2 DEF Types
  <2>4. TempExplained' /\ TarExplained' /\ FinalExplained' /\ ArchivesHoldTheirDay'
    BY <2>1 DEF TempExplained, TarExplained, FinalExplained, Explained, ArchivesHoldTheirDay
  <2>5. NodesVisited' /\ DirsPacked'
    BY <2>1 DEF NodesVisited, DirsPacked, Packs, Wanted
  <2>6. ASSUME NEW k \in 1..Len(got), k < i + 1, got[k] \notin missed'
        PROVE  final[got[k]] # NoTar /\ final[got[k]] = tar[got[k]]
    <3>1. k # i
      BY <2>1, <2>6
    <3>2. k < i
      BY <2>2, <2>6, <3>1
    <3>3. QED
      BY <2>1, <2>6, <3>2 DEF TarsCopied
  <2>7. TarsCopied'
    BY <2>1, <2>6 DEF TarsCopied
  <2>8. QED
    BY <2>3, <2>4, <2>5, <2>7
<1>4. QED
  BY <1>1, <1>2, <1>3

\* The last archive.
LEMMA FinalStep ==
    ASSUME LInv, PackFinal \/ PackFinalFails
    PROVE  LInv'
<1> USE DEF LInv
<1>1. /\ pc = "copy" /\ pc' \in {"true", "false"} /\ i > Len(got) /\ i' = i /\ date' = date
      /\ call' = call /\ got' = got /\ Got' = Got /\ left' = left
      /\ blank' = blank /\ missed' = missed /\ skipped' = skipped
      /\ temp' = temp /\ final' = final
      /\ DOMAIN tar' = NodeSet
  BY DEF PackFinal, PackFinalFails, Got, disks, told, Types
<1>2. Types'
  BY <1>1 DEF Types
<1>3. TempExplained' /\ TarExplained' /\ FinalExplained' /\ ArchivesHoldTheirDay'
  BY <1>1 DEF TempExplained, TarExplained, FinalExplained, Explained, ArchivesHoldTheirDay
<1>4. NodesVisited' /\ DirsPacked'
  BY <1>1 DEF NodesVisited, DirsPacked
<1>5. ASSUME NEW n \in NodeSet \ (missed \cup blank), NEW d \in Dir
      PROVE  Packs(Kept(n), n, d)
  <2>1. n \in Got \ blank
    BY <1>1 DEF NodesVisited
  <2>2. PICK k \in 1..Len(got) : got[k] = n
    BY <2>1 DEF Got
  <2>3. k < i
    BY <1>1 DEF Types
  <2>4. final[n] # NoTar /\ final[n] = tar[n]
    BY <1>1, <2>2, <2>3 DEF TarsCopied
  <2>5. Packs(tar[n], n, d)
    BY <1>1, <2>1 DEF DirsPacked
  <2>6. QED
    BY <2>4, <2>5 DEF Kept
<1>6. ASSUME date # Malformed, date.short = {}, NEW n \in NodeSet \ (missed \cup blank),
             NEW f \in LogFile, f.node = n, <<n, f.dir>> \notin skipped,
             f.named = date.day \/ (f.modified = date.day /\ ~f.midnight)
      PROVE  \E a \in Kept(n) : a.by = call /\ a.name = Name[f.dir] /\ a.date = date
  <2>1. date \in Date /\ f.dir \in Dir
    BY <1>6, LogAssumption DEF Types
  <2>2. Wanted(f, n, f.dir)
    BY <1>6, <2>1, DayIsWanted
  <2>3. QED
    BY <1>5, <1>6, <2>1, <2>2 DEF Packs
<1>7. TrueMeansAllPacked'
  <2>1. \A n \in NodeSet : Kept(n)' = Kept(n)
    BY <1>1 DEF Kept
  <2>2. QED
    BY <1>1, <1>6, <2>1 DEF TrueMeansAllPacked
<1>8. TarsCopied'
  BY <1>1, <1>7 DEF TarsCopied
<1>9. QED
  BY <1>2, <1>3, <1>4, <1>8

LEMMA LogsNext == LInv /\ [Next]_vars => LInv'
<1> SUFFICES ASSUME LInv, [Next]_vars PROVE LInv'
  OBVIOUS
<1>1. CASE UNCHANGED vars \/ Terminated
  BY <1>1, EdgeStep DEF Terminated
<1>2. CASE Next
  BY <1>2, <1>1, EdgeStep, NodeStep, PackStep, ArchiveStep, NoArchiveStep, CopyStep, FinalStep
     DEF Next
<1>3. QED
  BY <1>1, <1>2

THEOREM LogsInvariant == Spec => []LInv
  BY LogsInit, LogsNext, PTL DEF Spec

-----------------------------------------------------------------------------
(* The properties *)

\* A collection for a date in full that returned True has packed every directory with a
\* file of that day where no command failed, whatever those before it left under /tmp.
THEOREM TrueIsAllPacked == Spec => []TrueMeansAllPacked
<1>1. LInv => TrueMeansAllPacked
  BY DEF LInv, TarsCopied, TrueMeansAllPacked
<1>2. QED
  BY <1>1, LogsInvariant, PTL

\* An archive of an earlier collection is in the result only where that collection did
\* not clean up, or where this one listed nothing.
THEOREM StaleIsExplained == Spec => []StaleArchivesHaveACause
<1>1. LInv => StaleArchivesHaveACause
  BY DEF LInv, FinalExplained, Explained, StaleArchivesHaveACause, Kept
<1>2. QED
  BY <1>1, LogsInvariant, PTL

\* What an archive may hold besides the files of its day, for all dates there are.
THEOREM DaysAreKept == Spec => []ArchivesHoldTheirDay
<1>1. LInv => ArchivesHoldTheirDay
  BY DEF LInv
<1>2. QED
  BY <1>1, LogsInvariant, PTL
=============================================================================
