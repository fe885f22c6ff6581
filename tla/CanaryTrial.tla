----------------------------- MODULE CanaryTrial -----------------------------
(***************************************************************************)
(* What adaptive routing promises about a new procedure, as a history of   *)
(* runs: it gets a bounded share of the harmless ones, only once the       *)
(* baseline has proved itself, and no run at all after the first that did  *)
(* not end in verified success.                                            *)
(***************************************************************************)
EXTENDS Integers, Sequences, FiniteSets

CONSTANTS Warmup, Interval, Canaries

VARIABLE runs   \* sequence of [candidate, low, verified], verified 2: not known

Of(history, Test(_)) == Cardinality({i \in DOMAIN history : Test(history[i])})

AllVerified(history) == \A i \in DOMAIN history : history[i].verified = 1

(* the next run may go to the candidate                                    *)
CanaryAllowed(history) ==
    LET low == Of(history, LAMBDA r : r.low)
        tried == Of(history, LAMBDA r : r.candidate)
        proved == Of(history, LAMBDA r : r.low /\ ~r.candidate)
    IN /\ AllVerified(history)
       /\ proved >= Warmup
       /\ tried < Canaries /\ (tried + 1) * Interval <= low + 1

Init == runs = <<>>

Begin ==
    /\ runs # <<>> => runs[Len(runs)].verified # 2
    /\ \E low, candidate \in BOOLEAN :
        /\ candidate => low /\ CanaryAllowed(runs)
        /\ runs' = Append(runs, [candidate |-> candidate, low |-> low, verified |-> 2])

End ==
    /\ runs # <<>> /\ runs[Len(runs)].verified = 2
    /\ \E v \in {0, 1} : runs' = [runs EXCEPT ![Len(runs)].verified = v]

Next == Begin \/ End

Spec == Init /\ [][Next]_runs
=============================================================================
