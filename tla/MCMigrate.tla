----------------------------- MODULE MCMigrate -----------------------------
EXTENDS Migrate, TLC

CONSTANTS p1, p2, p3, d1, d2, m1, m2, m3, m4

TwoDbs == {d1, d2}

\* One process migrates two databases.
TwoCalls == {m1, m3}
SameVersion == [c \in TwoCalls |-> 1]
OneProcess == {p1}
New == [d \in TwoDbs |-> 0]
AloneProcessOf == [c \in TwoCalls |-> p1]
AloneDbOf == [c \in TwoCalls |-> IF c = m3 THEN d2 ELSE d1]

\* Version 2 is rolled out over version 1: two processes of it upgrade the
\* installed database d1, the first one also migrates the new database d2,
\* and a process of version 1 is still started.
FourCalls == {m1, m2, m3, m4}
ThreeProcesses == {p1, p2, p3}
RollProcessOf == (m1 :> p1) @@ (m2 :> p2) @@ (m3 :> p3) @@ (m4 :> p1)
RollDbOf == [c \in FourCalls |-> IF c = m4 THEN d2 ELSE d1]
RollVersion == [c \in FourCalls |-> IF c = m3 THEN 1 ELSE 2]
RollInstalled == (d1 :> 1) @@ (d2 :> 0)
============================================================================
