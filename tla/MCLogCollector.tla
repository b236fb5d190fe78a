---------------------------- MODULE MCLogCollector ----------------------------
(* Instances of LogCollector for TLC. *)
EXTENDS LogCollector

\* Directories a/b and a_b of the first node get one name.
TwoNodes == <<"n1", "n2">>
Flat == [d \in Dir |-> IF d = "a/b" THEN "a_b" ELSE d]

Leap28 == <<2024, 2, 28>>
Leap29 == <<2024, 2, 29>>
NewYear == <<2024, 12, 31>>

Log(n, d, name, time, midnight) ==
    [node |-> n, dir |-> d, named |-> name, modified |-> time, midnight |-> midnight]

SomeFiles ==
    {Log("n1", "a/b", Leap28, Leap29, FALSE), Log("n1", "a_b", <<>>, Leap29, FALSE),
     Log("n1", "a_b", <<>>, Leap28, FALSE), Log("n1", "a_b", <<>>, Leap29, TRUE),
     Log("n2", "c", <<>>, Leap28, FALSE), Log("n2", "c", <<>>, NewYear, FALSE)}

\* 2024-02-28, 2024-02-29 and 2024-02-2.
SomeDates == {[day |-> Leap28, short |-> {}], [day |-> Leap29, short |-> {}],
              [day |-> <<2024, 2, 2>>, short |-> {"day"}]}
=============================================================================
