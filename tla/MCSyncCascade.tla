--------------------------- MODULE MCSyncCascade ---------------------------
(* Instances of SyncCascade: a scenario has a list of changes, and its       *)
(* requests are all those of one or two of them.                             *)
EXTENDS SyncCascade

CONSTANTS d1, m1, m2, m3, s1, s2, e1, a1, c1, c2, g1, t1

Put(t, k, v) == [t |-> t, key |-> k, put |-> TRUE, val |-> v]
Del(t, k)    == [t |-> t, key |-> k, put |-> FALSE, val |-> Nothing]

\* The order of two changes matters only within a table.  A client may delete a
\* key twice in one request.
UpTo2(C) ==
    {<<C[i]>> : i \in DOMAIN C} \cup
    {<<C[p[1]], C[p[2]]>> :
        p \in {q \in (DOMAIN C) \X (DOMAIN C) :
                 \/ C[q[1]].t = C[q[2]].t /\ C[q[1]].key # C[q[2]].key
                 \/ q[1] = q[2] /\ ~C[q[1]].put
                 \/ q[1] < q[2] /\ C[q[1]].t # C[q[2]].t}}

\* Modes with a session, its event and its rollups.
StreakRequests == UpTo2(<<
    Put(Modes, m1, Nothing), Put(Modes, m2, Nothing),
    Del(Modes, m1), Del(Modes, m2),
    Put(Sess, s1, m1), Put(Sess, s1, m2), Del(Sess, s1),
    Put(Events, e1, <<s1, m1>>), Put(Events, e1, <<s1, m2>>),
    Put(Rolls, <<s1, 1>>, 1), Put(Rolls, <<s1, 1>>, 2), Put(Rolls, <<s1, 2>>, 2),
    Del(Rolls, <<s1, 1>>)>>)

\* Two sessions whose rollups fall on one day.
SumRequests == UpTo2(<<
    Put(Modes, m3, Nothing), Del(Modes, m3),
    Put(Sess, s1, m3), Put(Sess, s2, m3), Del(Sess, s1), Del(Sess, s2),
    Put(Rolls, <<s1, 1>>, 1), Put(Rolls, <<s1, 1>>, 2),
    Put(Rolls, <<s2, 1>>, 1), Put(Rolls, <<s2, 1>>, 2),
    Del(Rolls, <<s1, 1>>), Del(Rolls, <<s2, 1>>)>>)

\* The tables of the configuration: blocked apps, a schedule, and two
\* records, c1 and c2, of the NFC chip g1.
ConfigRequests == UpTo2(<<
    Put(Modes, m1, Nothing), Put(Modes, m2, Nothing),
    Del(Modes, m1), Del(Modes, m2),
    Put(Apps, <<m1, a1>>, Nothing), Put(Apps, <<m2, a1>>, Nothing),
    Del(Apps, <<m1, a1>>), Del(Apps, <<m2, a1>>),
    Put(Scheds, t1, m1), Put(Scheds, t1, m2), Del(Scheds, t1),
    Put(Chips, c1, g1), Del(Chips, c1), Put(Chips, c2, g1)>>)

Scenarios   == <<StreakRequests, SumRequests, ConfigRequests>>
AllRequests == StreakRequests \cup SumRequests \cup ConfigRequests

VARIABLE scenario  \* the list of changes a behaviour draws its requests from

MCInit == Init /\ scenario \in DOMAIN Scenarios

MCNext ==
    /\ Next
    /\ \A d \in Device : pending'[d] \in Scenarios[scenario] \cup {Nothing}
    /\ UNCHANGED scenario

MCSpec == MCInit /\ [][MCNext]_<<vars, scenario>>

\* Every list treats m1 and m2 alike.
MCSymmetry == Permutations({m1, m2})

=============================================================================
