------------------------ MODULE MCCooperativeControl ------------------------
(***************************************************************************)
(* Two parts of CooperativeControl for TLC: two runs under the commands of  *)
(* one operator, with one request; and one run under two operators, with   *)
(* three requests, after another run that died when it had just started.   *)
(***************************************************************************)
EXTENDS CooperativeControl

CONSTANTS r1, r2, o1, o2
MCRuns == {r1, r2}
MCOperators == {o1, o2}

VARIABLE part
(* As Init, but for the Runners and the number of requests made before.     *)
StartWith(steps, made) ==
    /\ lease = Free
    /\ control = [r \in Runs |-> NoRecord]
    /\ mutex = [r \in Runs |-> Free]
    /\ checkpoint = [r \in Runs |-> [phase |-> "none", reobserve |-> FALSE]]
    /\ requests = made
    /\ pc = steps
    /\ call = [r \in Runs |-> "none"]
    /\ at = [r \in Runs |-> "none"]
    /\ handling = [r \in Runs |-> 0]
    /\ reobserve = [r \in Runs |-> FALSE]
    /\ grounded = [r \in Runs |-> FALSE]
    /\ failure = [r \in Runs |-> "none"]
    /\ op = [o \in Operators |-> Idle]
    /\ fresh = [r \in Runs |-> FALSE]
PartInit ==
    \/ part = "runs" /\ StartWith([r \in Runs |-> "new"], MaxRequests - 1)
    \/ part = "commands" /\ StartWith([r \in Runs |-> IF r = r2 THEN "dead" ELSE "new"], 0)
PartNext ==
    /\ Next /\ UNCHANGED part
    /\ part = "runs" =>
          /\ op'[o2] = op[o2]
          /\ pc[r1] = "new" => pc'[r2] = "new"     \* r1 is the run that starts first
          /\ lease' = Other => \A r \in Runs : pc[r] \in {"ended", "dead"}
PartSpec ==
    /\ PartInit /\ [][PartNext]_<<part, vars>>
    /\ \A r \in Runs : WF_vars(RunnerStep(r))
=============================================================================
