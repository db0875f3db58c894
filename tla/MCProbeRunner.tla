--------------------------- MODULE MCProbeRunner ----------------------------
EXTENDS ProbeRunner

CONSTANTS a, u              \* target keys

Check(k, probe, interval, ft, rt) ==
    [key |-> k, probe |-> probe, interval |-> interval, ft |-> ft, rt |-> rt]

\* A target that two records share, and one with a k8s probe, which the other
\* bundle lacks.
MCBundles ==
    {<<<<Check(a, "tcp", 0, 2, 1)>>,
       <<Check(u, "k8s", 2, 1, 1), Check(a, "http", 2, 1, 1)>>>>,
     <<<<Check(a, "http", 1, 1, 2)>>>>}

MCSlices == {[service |-> u, ready |-> 0], [service |-> u, ready |-> 1]}
=============================================================================
