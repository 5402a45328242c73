----------------------------- MODULE CliAdapter -----------------------------
(***************************************************************************)
(* Layer2CliAdapter.executePlan: the steps of a plan are sent one after    *)
(* the other as commands that broadcast a transaction; a failure that      *)
(* looks transient is tried again.  A command that fails may have          *)
(* broadcast all the same, and a broadcast transaction lands later or      *)
(* never.  The caller may run the same plan again after an error.          *)
(***************************************************************************)
EXTENDS Integers, Sequences, FiniteSets

CONSTANTS
    Id,                  \* identifiers the write-once steps set
    Plans,               \* the plans executed
    MaxAttempts,         \* largest max_attempts of a retry policy
    MaxRuns              \* bound on how often a plan is run

Read == "read"           \* the step writes nothing

\* What a step writes, and whether its arguments pass the encoders.
Step == [writes : Id \cup {Read}, encodable : BOOLEAN]

ASSUME CliAssumption ==
    /\ Read \notin Id
    /\ Plans \subseteq Seq(Step)
    /\ MaxAttempts \in Nat /\ MaxRuns \in Nat \ {0}

Mode == {"plan_only", "execute"}

VARIABLES
    mode, max_attempts, plan,   \* the adapter and what it is asked to do
    run,                 \* which execution of the plan this is
    pc, index, attempt,  \* where executePlan is
    traces,              \* statuses of the finished steps, lost when it throws
    error,               \* what it threw
    sent,                \* transactions broadcast: <<run, index, attempt>>
    acked,               \* those whose command exited with 0
    mempool,             \* those still to land
    landed               \* those that landed

asked == <<mode, max_attempts, plan>>
chain == <<sent, mempool, landed>>
adapterVars == <<asked, run, pc, index, attempt, traces, error, acked, chain>>

NoError == [category |-> "none", step |-> 0, cause |-> "none"]

AdapterInit ==
    /\ mode \in Mode /\ max_attempts \in 0 .. MaxAttempts /\ plan \in Plans
    /\ run = 1 /\ pc = "ready" /\ index = 1 /\ attempt = 0
    /\ traces = <<>> /\ error = NoError
    /\ sent = {} /\ acked = {} /\ mempool = {} /\ landed = {}

---------------------------------------------------------------------------
(* The adapter.                                                            *)

Starting == pc = "ready" /\ index <= Len(plan)
Encodable == plan[index].encodable

Throw(category, cause) ==
    /\ pc' = "threw"
    /\ error' = [category |-> category, step |-> index, cause |-> cause]
    /\ UNCHANGED <<asked, run, index, attempt, traces>>

Finish(status) ==
    /\ traces' = Append(traces, [step |-> index, status |-> status, attempts |-> attempt])
    /\ index' = index + 1 /\ attempt' = 0 /\ pc' = "ready"
    /\ UNCHANGED <<asked, run, error>>

\* Fault: in execute mode every error is rethrown as an execution error of the
\* step before.
FailEncoding_StepBefore ==
    /\ Starting /\ ~Encodable
    /\ pc' = "threw"
    /\ error' = [category |-> IF mode = "execute" THEN "execution" ELSE "input",
                 step |-> index - 1, cause |-> "encoding"]
    /\ UNCHANGED <<asked, run, index, attempt, traces, acked, chain>>

\* Building the command throws; only a plan that is not executed is told so.
FailEncoding ==
    /\ Starting /\ ~Encodable
    /\ Throw(IF mode = "execute" THEN "execution" ELSE "input", "encoding")
    /\ UNCHANGED <<acked, chain>>

PlanStep ==
    /\ Starting /\ Encodable /\ mode = "plan_only"
    /\ Finish("planned")
    /\ UNCHANGED <<acked, chain>>

Current == <<run, index, attempt>>

MayTry == attempt < max_attempts

\* The loop makes no attempt at all, and there is no result after it.
FailWithoutAttempt ==
    /\ Starting /\ Encodable /\ mode = "execute" /\ ~MayTry
    /\ Throw("invariant", "attempts")
    /\ UNCHANGED <<acked, chain>>

\* Fault: every attempt counts as the first.
NextAttempt_Restarted == 1

NextAttempt == attempt + 1

\* executor.run: whether the transaction is broadcast is not known before the
\* command ends, and then only when it ends well.
Submit ==
    /\ Starting \/ pc = "sleeping"
    /\ Encodable /\ mode = "execute" /\ MayTry
    /\ attempt' = NextAttempt
    /\ pc' = "running"
    /\ \E broadcast \in BOOLEAN :
          IF broadcast
          THEN /\ sent' = sent \cup {<<run, index, attempt'>>}
               /\ mempool' = mempool \cup {<<run, index, attempt'>>}
          ELSE UNCHANGED <<sent, mempool>>
    /\ UNCHANGED <<asked, run, index, traces, error, acked, landed>>

\* Fault: the step is sent once more for good measure.
Succeed_Again ==
    /\ pc = "running" /\ Current \in sent
    /\ acked' = acked \cup {Current}
    /\ IF MayTry
       THEN pc' = "sleeping" /\ UNCHANGED <<asked, run, index, attempt, traces, error>>
       ELSE Finish("executed")
    /\ UNCHANGED chain

\* Exit code 0: the node has the transaction.
Succeed ==
    /\ pc = "running" /\ Current \in sent
    /\ acked' = acked \cup {Current}
    /\ Finish("executed")
    /\ UNCHANGED chain

\* How a command fails: with an exit code and its stderr, by throwing an Error
\* whose message takes the place of stderr, or by throwing something else.
Failure == {"exit", "error", "other"} \X {"transient", "permanent"}

\* "timed out", "timeout", "temporar" or "unavailable" in the text.
Retryable(f) == f[1] # "other" /\ f[2] = "transient"

Retry(f) ==
    /\ pc = "running" /\ Retryable(f) /\ MayTry
    /\ pc' = "sleeping"
    /\ UNCHANGED <<asked, run, index, attempt, traces, error, acked, chain>>

\* Fault: a step that failed for good is skipped.
GiveUp_Skip(f) ==
    /\ pc = "running" /\ ~(Retryable(f) /\ MayTry)
    /\ Finish("failed")
    /\ UNCHANGED <<acked, chain>>

GiveUp(f) ==
    /\ pc = "running" /\ ~(Retryable(f) /\ MayTry)
    /\ Throw("execution", "command")
    /\ UNCHANGED <<acked, chain>>

Return ==
    /\ pc = "ready" /\ index > Len(plan)
    /\ pc' = "returned"
    /\ UNCHANGED <<asked, run, index, attempt, traces, error, acked, chain>>

\* The caller runs the plan again, from its first step.
RunAgain ==
    /\ pc = "threw" /\ run < MaxRuns
    /\ run' = run + 1 /\ pc' = "ready" /\ index' = 1 /\ attempt' = 0
    /\ traces' = <<>> /\ error' = NoError
    /\ UNCHANGED <<asked, acked, chain>>

\* What the adapter does by itself, and what it does when a command ends.
OwnStep == FailEncoding \/ PlanStep \/ FailWithoutAttempt \/ Submit \/ Return

CommandEnds == Succeed \/ \E f \in Failure : Retry(f) \/ GiveUp(f)

Adapter == OwnStep \/ CommandEnds

---------------------------------------------------------------------------
(* The chain.                                                              *)

Writes(tx) == plan[tx[2]].writes
Written == {Writes(tx) : tx \in landed} \ {Read}

\* Fault: the program sets the identifier without looking.
Confirm_NotOnce(tx) ==
    /\ mempool' = mempool \ {tx}
    /\ landed' = landed \cup {tx}
    /\ UNCHANGED <<asked, run, pc, index, attempt, traces, error, acked, sent>>

\* The programs check that an identifier is new before they set it.
Confirm(tx) ==
    /\ Writes(tx) \notin Written
    /\ mempool' = mempool \ {tx}
    /\ landed' = landed \cup {tx}
    /\ UNCHANGED <<asked, run, pc, index, attempt, traces, error, acked, sent>>

\* Rejected by its program, or never included.
Discard(tx) ==
    /\ mempool' = mempool \ {tx}
    /\ UNCHANGED <<asked, run, pc, index, attempt, traces, error, acked, sent, landed>>

AdapterNext ==
    \/ Adapter \/ RunAgain
    \/ \E tx \in mempool : Confirm(tx) \/ Discard(tx)

AdapterSpec == AdapterInit /\ [][AdapterNext]_adapterVars

\* The event loop takes the adapter's own steps and a timer ends each sleep.
\* Nothing ends a command that hangs: run is awaited without a timeout.  The
\* caller and the chain owe nothing either.
AdapterFairSpec == AdapterSpec /\ WF_adapterVars(OwnStep)

---------------------------------------------------------------------------
(* Properties.                                                             *)

Acknowledged(i) == \E tx \in acked : tx[1] = run /\ tx[2] = i

\* What an error says about the chain: every step before the one it names was
\* acknowledged in this run, that step was not, and no later step was ever
\* sent in it.  The caller can resume there and has one step in doubt.
ErrorLocatesProgress ==
    pc = "threw" =>
        /\ mode = "execute" => \A i \in 1 .. error.step - 1 : Acknowledged(i)
        /\ ~Acknowledged(error.step)
        /\ \A tx \in sent : tx[1] = run => tx[2] <= error.step
        /\ error.category = "invariant" => \A tx \in sent : tx[1] # run \/ tx[2] < error.step

\* A plan that returned was acknowledged step by step, in order and within the
\* attempts allowed; a plan that is only planned touches nothing.
ReportIsComplete ==
    /\ mode = "plan_only" => sent = {}
    /\ pc = "returned" =>
          /\ Len(traces) = Len(plan)
          /\ \A i \in DOMAIN traces :
                /\ traces[i].step = i
                /\ mode = "execute" =>
                      /\ traces[i].status = "executed"
                      /\ <<run, i, traces[i].attempts>> \in acked

\* What the adapter reports is what happened, for a run that threw and for one
\* that returned.
ReportsAreTrue == ErrorLocatesProgress /\ ReportIsComplete

\* A step is sent again only in doubt: once the node has acknowledged it, no
\* other attempt is made in that run.
NoResubmissionOnceAcknowledged ==
    \A a \in acked, b \in sent : a[1] = b[1] /\ a[2] = b[2] => b[3] <= a[3]

\* Whatever was retried or run again while earlier transactions were still on
\* their way, each identifier is written by one transaction.
WrittenOnce ==
    \A a, b \in landed : Writes(a) = Writes(b) /\ Writes(a) # Read => a = b

\* Neither the adapter nor the chain does a step twice.
StepsLandOnce == NoResubmissionOnceAcknowledged /\ WrittenOnce

\* The retry loop ends: if no command hangs for ever, each run returns or throws.
RunsEnd ==
    []<>(pc # "running") =>
        (pc \in {"ready", "running", "sleeping"} ~> pc \in {"returned", "threw"})
=============================================================================
