------------------------------- MODULE Health -------------------------------
(***************************************************************************)
(* The health vocabulary shared by the bundle, the local checks and the    *)
(* DNS server, and the threshold step of one target's state machine        *)
(* (internal/checks/machine.go).  No state: HealthMachine.tla is the       *)
(* machine, LocalHealth.tla what it promises its readers.                  *)
(***************************************************************************)
EXTENDS Integers

Healthy   == "healthy"
Unhealthy == "unhealthy"
Unknown   == "unknown"

HealthValues == {Healthy, Unhealthy, Unknown}

\* One targetKey's bookkeeping: current health, the two streak counters and
\* the number of results ever recorded.
TargetState ==
    [health: HealthValues, consecSuccess: Nat, consecFail: Nat, cycles: Nat]

\* A key the machine has never recorded.  getOrCreate and the increment of
\* cycles happen under one lock, so "absent from the map" is "cycles = 0".
NewTarget ==
    [health |-> Unknown, consecSuccess |-> 0, consecFail |-> 0, cycles |-> 0]

\* RecordResult raises a threshold below one to one.
AtLeastOne(n) == IF n < 1 THEN 1 ELSE n

\* Mutant: a success wears the failure streak down instead of ending it.
SuccessDecays(t, rt) ==
    [health        |-> IF t.consecSuccess + 1 >= AtLeastOne(rt)
                         THEN Healthy ELSE t.health,
     consecSuccess |-> t.consecSuccess + 1,
     consecFail    |-> t.consecFail - 1,
     cycles        |-> t.cycles + 1]

\* The state after one more success, and after one more failure.
Success(t, rt) ==
    [health        |-> IF t.consecSuccess + 1 >= AtLeastOne(rt)
                         THEN Healthy ELSE t.health,
     consecSuccess |-> t.consecSuccess + 1,
     consecFail    |-> 0,
     cycles        |-> t.cycles + 1]

\* Mutant: a failure that does not end the success streak.
FailureKeepsStreak(t, ft) ==
    [health        |-> IF t.consecFail + 1 >= AtLeastOne(ft)
                         THEN Unhealthy ELSE t.health,
     consecSuccess |-> t.consecSuccess,
     consecFail    |-> t.consecFail + 1,
     cycles        |-> t.cycles + 1]

Failure(t, ft) ==
    [health        |-> IF t.consecFail + 1 >= AtLeastOne(ft)
                         THEN Unhealthy ELSE t.health,
     consecSuccess |-> 0,
     consecFail    |-> t.consecFail + 1,
     cycles        |-> t.cycles + 1]

Record(t, up, ft, rt) == IF up THEN Success(t, rt) ELSE Failure(t, ft)

\* Machine.State and Machine.Ready.
State(t) == t.health
Ready(t) == t.cycles >= 1
=============================================================================
