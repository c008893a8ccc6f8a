------------------------------ MODULE Validation ------------------------------
(***************************************************************************)
(* The two live validations, scripts/validate-trace-analysis.py (batch 4)  *)
(* and scripts/validate-evidence.py (batch 5): each starts ShopSim, drives *)
(* checkouts through it, stops PostgreSQL under one of them, reads the     *)
(* traces back from Jaeger, and cleans up whatever happens.                *)
(*                                                                         *)
(* The scripts are modelled statement by statement; ShopSim, Docker and    *)
(* Jaeger are what they meet.  Every command, call and query may fail, and *)
(* spans reach Jaeger one at a time, late or never.  Nobody else uses the  *)
(* project while a script runs.                                            *)
(***************************************************************************)
EXTENDS Integers, Sequences

CONSTANTS
    Stocks,         \* the units of sku-001 that earlier runs can have left
    Spans,          \* the spans of a checkout that reached Payment, 7
    Tries           \* the attempts of a polling loop, 30

ASSUME BoundsAssumption ==
    /\ Stocks \subseteq Nat
    /\ Spans \in Nat \ {0}
    /\ Tries \in Nat \ {0}

Orders == {"success-1", "success-2", "failure"}

-----------------------------------------------------------------------------
(* The scripts.  The steps from "stop" to before "start" are the body of   *)
(* the inner try, of which "start" is the finally; "down" is that of the   *)
(* outer one.                                                              *)

Do(op) == [op |-> op, order |-> "", expect |-> ""]
Post(order, status) == [op |-> "checkout", order |-> order, expect |-> status]
Poll(order) == [op |-> "poll", order |-> order, expect |-> ""]

\* analyze reads the trace again by its id, wait_trace leaves it at that.
Analyze(order) == <<Poll(order), Do("examine"), Do("exact")>>

Batch4 ==
    <<Do("up"), Post("success-1", "200")>> \o Analyze("success-1")
    \o <<Do("stock"), Do("stop"), Post("failure", "502")>> \o Analyze("failure")
    \o <<Do("compare"), Do("start"), Do("ready"), Post("failure", "200"),
         Do("compare"), Do("pass"), Do("down")>>

Batch5 ==
    <<Do("up"), Post("success-1", "200"), Poll("success-1"),
      Post("success-2", "200"), Poll("success-2"),
      Do("stock"), Do("stop"), Post("failure", "502"), Poll("failure"),
      Do("compare"), Do("start"), Do("examine"), Do("isolated"), Do("exact"),
      Do("pass"), Do("down")>>

Programs == {Batch4, Batch5}

VARIABLES
    program,        \* the script that runs
    at,             \* its step
    tries,          \* the attempts that the loop at this step has made
    before,         \* stock, stock_before
    traces,         \* traces[o]: how many spans the trace had when polled
    failed,         \* whether an exception is on its way out
    ran,            \* the Compose commands that were tried
    printed,        \* whether the script has said that all checks passed
    stock, reserved, charged,       \* Inventory and Payment
    postgres,       \* "up", "starting" or "down"
    project,        \* whether the containers run
    shape,          \* shape[o]: what the trace of the order looks like
    exported,       \* exported[o]: how many of its spans Jaeger has
    leftover,       \* whether Jaeger has traces of an earlier run
    faults          \* what has gone wrong outside of the script

state == <<before, traces, ran, printed>>
stores == <<stock, reserved, charged>>
jaeger == <<shape, exported, leftover>>
vars == <<program, at, tries, failed, state, stores, postgres, project, jaeger,
          faults>>

Init ==
    /\ program \in Programs
    /\ at = 1
    /\ tries = 0
    /\ before = 0
    /\ traces = [o \in Orders |-> 0]
    /\ failed = FALSE
    /\ ran = <<>>
    /\ printed = FALSE
    /\ stock \in Stocks
    /\ reserved = {} /\ charged = {}
    /\ project \in {"up", "down"}
    /\ postgres \in IF project = "up" THEN {"up", "down"} ELSE {"down"}
    /\ leftover \in {b \in BOOLEAN : b => project = "up"}
    /\ shape = [o \in Orders |-> "none"]
    /\ exported = [o \in Orders |-> 0]
    /\ faults = {}

-----------------------------------------------------------------------------
(* Control.                                                                *)

Last == Len(program)
Here == program[at]
At(op) == at <= Last /\ Here.op = op
Place(op) == CHOOSE n \in 1..Last : program[n].op = op

\* Whether the next step is inside the inner try.
Guarded == Place("stop") <= at /\ at < Place("start")

\* (Mutant: what fails while PostgreSQL is stopped ends in "down" at once.)
RescueOuter == Last

\* Where an exception leads: to the finally of the innermost try.
Rescue == IF Guarded THEN Place("start") ELSE Last

\* A finally that was entered by an exception passes it on.
Proceed ==
    /\ at' = IF At("start") /\ failed THEN Rescue ELSE at + 1
    /\ tries' = 0
    /\ UNCHANGED <<program, failed>>

Throw ==
    /\ at' = IF at = Last THEN Last + 1 ELSE Rescue
    /\ tries' = 0
    /\ failed' = TRUE
    /\ UNCHANGED program

Assert(condition) == IF condition THEN Proceed ELSE Throw

Fault(f) == faults' = faults \cup {f}

\* subprocess.run of a command that fails, or a query that is not retried.
Fails(f) == Throw /\ Fault(f)

-----------------------------------------------------------------------------
(* Compose.                                                                *)

Run(command) == ran' = Append(ran, command)

\* A command that fails may have done its work, or some of it.
Up ==
    /\ At("up")
    /\ Run("up")
    /\ \/ Proceed /\ postgres' = "up" /\ project' = "up" /\ UNCHANGED faults
       \/ /\ Fails("compose")
          /\ project' \in {project, "up"}
          /\ postgres' \in {postgres, "starting", "up"}
    /\ UNCHANGED <<before, traces, printed, stores, jaeger>>

Stop ==
    /\ At("stop")
    /\ Run("stop")
    /\ \/ Proceed /\ postgres' = "down" /\ UNCHANGED faults
       \/ Fails("compose") /\ postgres' \in {postgres, "down"}
    /\ UNCHANGED <<before, traces, printed, stores, jaeger, project>>

Start ==
    /\ At("start")
    /\ Run("start")
    /\ \/ /\ Proceed
          /\ postgres' = IF postgres = "down" THEN "starting" ELSE postgres
          /\ UNCHANGED faults
       \/ Fails("compose") /\ postgres' \in {postgres, "starting"}
    /\ UNCHANGED <<before, traces, printed, stores, jaeger, project>>

Down ==
    /\ At("down")
    /\ Run("down")
    /\ \/ Proceed /\ project' = "down" /\ postgres' = "down" /\ UNCHANGED faults
       \/ /\ Fails("compose")
          /\ UNCHANGED project
          /\ postgres' \in {postgres, "down"}
    /\ UNCHANGED <<before, traces, printed, stores, jaeger>>

\* redis-cli GET stock:sku-001.
ReadStock ==
    /\ At("stock")
    /\ \/ Proceed /\ before' = stock /\ UNCHANGED faults
       \/ Fails("compose") /\ UNCHANGED before
    /\ UNCHANGED <<traces, ran, printed, stores, postgres, project, jaeger>>

CompareStock ==
    /\ At("compare")
    /\ \/ Assert(stock = before - 1) /\ UNCHANGED faults
       \/ Fails("compose")
    /\ UNCHANGED <<state, stores, postgres, project, jaeger>>

-----------------------------------------------------------------------------
(* One checkout.                                                           *)

\* What the call has come to when the script is done with it.  Without a
\* status, it took longer than the five seconds that the script waits, or its
\* connection broke.
Errors == {"502", "504", "none"}
Outcome(status, reserve, charge, trace, reason) ==
    [status |-> status, reserve |-> reserve, charge |-> charge,
     trace |-> trace, faults |-> reason]

Interrupted(status, reserve) == Outcome(status, reserve, FALSE, "short", {"call"})

\* Inventory refuses, or fails with the reservation made or not, or the charge
\* does not reach Payment.  The trace is short of spans then.
Unreserved(o) ==
    IF o \notin reserved /\ stock = 0
    THEN {Outcome("409", FALSE, FALSE, "short", {"stock"})}
    ELSE {Interrupted(e, r) : e \in Errors, r \in BOOLEAN}

\* Payment charges, if PostgreSQL is there, or answers 503 within its deadline;
\* either answer may be lost.
Charged(o) ==
    IF o \notin reserved /\ stock = 0 THEN {}
    ELSE {Outcome("502", TRUE, FALSE, "refused",
                  IF postgres = "up" THEN {"call"} ELSE {})}
         \cup {Outcome(e, TRUE, FALSE, "refused", {"call"}) : e \in Errors}
         \cup (IF postgres # "up" THEN {}
               ELSE {Outcome("200", TRUE, TRUE, "charged", {})}
                    \cup {Outcome(e, TRUE, TRUE, "charged", {"call"}) : e \in Errors})

\* (Mutant: any answer will do.)
ExpectedAny(status) == status # "none"

Expected(status) == status = Here.expect

\* An order that is repeated has a second trace, which is not looked at.
Checkout ==
    /\ At("checkout")
    /\ \E x \in Unreserved(Here.order) \cup Charged(Here.order) :
        LET new == x.reserve /\ Here.order \notin reserved IN
        /\ stock' = IF new THEN stock - 1 ELSE stock
        /\ reserved' = IF new THEN reserved \cup {Here.order} ELSE reserved
        /\ charged' = IF x.charge THEN charged \cup {Here.order} ELSE charged
        /\ shape' = IF shape[Here.order] # "none" THEN shape
                    ELSE [shape EXCEPT ![Here.order] = x.trace]
        /\ faults' = faults \cup x.faults
        /\ Assert(Expected(x.status))
    /\ UNCHANGED <<state, postgres, project, exported, leftover>>

-----------------------------------------------------------------------------
(* The environment: PostgreSQL comes up some time after its container, and *)
(* the Collector delivers spans to Jaeger as it pleases.                   *)

PostgresReady ==
    /\ postgres = "starting"
    /\ postgres' = "up"
    /\ UNCHANGED <<program, at, tries, failed, state, stores, project, jaeger,
                   faults>>

\* How many spans the first trace of an order has.
Sent(o) == IF shape[o] = "none" THEN 0
           ELSE IF shape[o] = "short" THEN Spans - 1 ELSE Spans

Export(o) ==
    /\ project = "up"
    /\ exported[o] < Sent(o)
    /\ exported' = [exported EXCEPT ![o] = @ + 1]
    /\ UNCHANGED <<program, at, tries, failed, state, stores, postgres, project,
                   shape, leftover, faults>>

-----------------------------------------------------------------------------
(* Polling.                                                                *)

Complete(o) == exported[o] = Spans

PollFinds ==
    /\ At("poll")
    /\ tries < Tries
    /\ Complete(Here.order)
    /\ traces' = [traces EXCEPT ![Here.order] = exported[Here.order]]
    /\ Proceed
    /\ UNCHANGED <<before, ran, printed, stores, postgres, project, jaeger, faults>>

\* (Mutant: the count of the attempts starts again.)
PollAgainForever ==
    /\ At("poll")
    /\ tries' = (tries + 1) % Tries
    /\ UNCHANGED <<program, at, failed, state, stores, postgres, project, jaeger,
                   faults>>

\* There is no such trace yet, or the query is refused with a SourceError.
PollAgain ==
    /\ At("poll")
    /\ tries < Tries
    /\ tries' = tries + 1
    /\ UNCHANGED <<program, at, failed, state, stores, postgres, project, jaeger,
                   faults>>

\* After the last attempt, or when Jaeger's answer breaks off: that is no
\* SourceError, see Cli.
PollGivesUp ==
    /\ At("poll")
    /\ Fails(IF tries = Tries THEN "late" ELSE "answer")
    /\ UNCHANGED <<state, stores, postgres, project, jaeger>>

\* (Mutant: a PostgreSQL that was started is taken to be ready.)
ReadyAtOnce ==
    /\ At("ready")
    /\ Proceed
    /\ UNCHANGED <<state, stores, postgres, project, jaeger, faults>>

\* Payment's /readyz says whether PostgreSQL answers; when the attempts are
\* used up, the script goes on all the same.
Ready ==
    /\ At("ready")
    /\ \/ postgres = "up" /\ tries < Tries /\ Proceed /\ UNCHANGED faults
       \/ tries = Tries /\ Proceed /\ Fault("late")
       \/ /\ tries < Tries
          /\ tries' = tries + 1
          /\ UNCHANGED <<program, at, failed, faults>>
    /\ UNCHANGED <<state, stores, postgres, project, jaeger>>

-----------------------------------------------------------------------------
(* Assertions about the traces.                                            *)

Polled == {o \in Orders : traces[o] > 0}

\* Each checkout called Inventory and Payment, and Payment failed for the one
\* that was to fail, see Evidence for how that follows from the spans; and the
\* references and statistics of the summary agree with the spans.
AsExpected(o) == shape[o] = IF o = "failure" THEN "refused" ELSE "charged"

Examine ==
    /\ At("examine")
    /\ Assert(\A o \in Polled : AsExpected(o) /\ traces[o] = Spans)
    /\ UNCHANGED <<state, stores, postgres, project, jaeger, faults>>

\* What the analyzer makes of the same traces when it is run as a command, on
\* Jaeger and on the exported fixture, see Replay; it is run without a retry.
Exact ==
    /\ At("exact")
    /\ \/ Assert(\A o \in Polled : exported[o] = traces[o]) /\ UNCHANGED faults
       \/ Fails("query")
    /\ UNCHANGED <<state, stores, postgres, project, jaeger>>

\* All traces of the service, without the tag of an order: only these.
Isolated ==
    /\ At("isolated")
    /\ \/ ~leftover /\ Proceed /\ UNCHANGED faults
       \/ leftover /\ Fails("leftover")
       \/ Fails("query")
    /\ UNCHANGED <<state, stores, postgres, project, jaeger>>

Pass ==
    /\ At("pass")
    /\ printed' = TRUE
    /\ Proceed
    /\ UNCHANGED <<before, traces, ran, stores, postgres, project, jaeger, faults>>

Step ==
    \/ Up \/ Stop \/ Start \/ Down \/ ReadStock \/ CompareStock
    \/ Checkout \/ PollFinds \/ PollAgain \/ PollGivesUp \/ Ready
    \/ Examine \/ Exact \/ Isolated \/ Pass

Next == Step \/ PostgresReady \/ \E o \in Orders : Export(o)

\* Every command, call and query returns: calls have timeouts, and Compose is
\* taken to return.  Nothing is assumed of PostgreSQL, the Collector and Jaeger.
Spec == Init /\ [][Next]_vars /\ WF_vars(Step)

-----------------------------------------------------------------------------
(* Properties.                                                             *)

Exited == at > Last

\* "All checks passed" is not said on the strength of what the script happened
\* to look at: the traces were whole; the checkout under the outage got as far
\* as Payment and was refused there, its reservation stayed and is the only one
\* that was made since; in batch 4 its repetition charged the order, in batch 5
\* it remains uncharged.
PassIsEarned ==
    printed =>
        /\ Polled = reserved
        /\ \A o \in Polled : traces[o] = Spans /\ AsExpected(o)
        /\ stock = before - 1
        /\ charged = IF program = Batch4 THEN reserved ELSE reserved \ {"failure"}

\* A script does not fail of its own making, by looking too early, at less than
\* there is to see, or in a place where it expects what need not be: when an
\* assertion fails or a call raises, something outside has gone wrong.
FailsForAReason == failed => faults # {}

\* "Preserves named volumes, restores PostgreSQL, and stops the isolated project
\* on exit" (validate-evidence.py), on every way out: "down" is tried last and
\* once, and "start" before it if "stop" was tried.  An exit without an
\* exception leaves no container behind.
CleanedUp ==
    Exited =>
        /\ \A n \in DOMAIN ran : ran[n] = "stop"
            => \E m \in DOMAIN ran : m > n /\ ran[m] = "start"
        /\ \A n \in DOMAIN ran : ran[n] = "down" <=> n = Len(ran)
        /\ ran # <<>>
        /\ ~failed => printed /\ project = "down"

\* A script ends, even if no span ever arrives and PostgreSQL does not come
\* back: its loops are bounded.
ScriptEnds == <>Exited

-----------------------------------------------------------------------------
(* The inductive invariant behind them.                                    *)

TypeOK ==
    /\ program \in Programs
    /\ at \in 1 .. Last + 1
    /\ tries \in 0 .. Tries
    /\ before \in Int
    /\ traces \in [Orders -> Nat]
    /\ failed \in BOOLEAN
    /\ printed \in BOOLEAN
    /\ stock \in Nat
    /\ reserved \in SUBSET Orders /\ charged \in SUBSET Orders
    /\ postgres \in {"up", "starting", "down"}
    /\ project \in {"up", "down"}
    /\ shape \in [Orders -> {"none", "short", "refused", "charged"}]
    /\ exported \in [Orders -> Nat]

\* The steps that the script has behind it, if it came here without an exception.
Done == {program[n] : n \in 1 .. at - 1}

\* Jaeger has no more than there is, and what was polled is whole.
Delivered ==
    \A o \in Orders :
        /\ exported[o] <= Sent(o)
        /\ traces[o] # 0 => traces[o] = Spans /\ exported[o] = Spans

\* The Compose commands that were tried.
Commands ==
    ran \in IF at = 1 THEN {<<>>}
            ELSE IF at <= Place("stop") THEN {<<"up">>}
            ELSE IF at <= Place("start") THEN {<<"up", "stop">>}
            ELSE IF at < Last THEN {<<"up", "stop", "start">>}
            ELSE IF at = Last THEN {<<"up">>, <<"up", "stop", "start">>}
            ELSE {<<"up", "down">>, <<"up", "stop", "start", "down">>}

\* An exception leads to a finally, and out.
Leaving == failed => at \in {Place("start"), Last, Last + 1}

\* What the checkouts behind the script were to do, they did; the one under the
\* outage may have failed before it reached Payment.
Accounted ==
    /\ charged = {o \in Orders : Post(o, "200") \in Done}
    /\ charged \subseteq reserved
    /\ reserved \subseteq charged \cup {"failure"}
    /\ "failure" \in reserved => Post("failure", "502") \in Done

\* The traces tell the same, and those behind the script were polled.
Traced ==
    /\ \A o \in Orders \ {"failure"} :
            shape[o] = IF o \in charged THEN "charged" ELSE "none"
    /\ IF Post("failure", "502") \in Done
       THEN /\ shape["failure"] \in {"short", "refused"}
            /\ shape["failure"] = "refused" => "failure" \in reserved
       ELSE shape["failure"] = "none"
    /\ \A o \in Orders : traces[o] # 0 <=> Poll(o) \in Done

\* Since the stock was read, only the checkout under the outage reserved.
Counted ==
    Do("stock") \in Done =>
        stock = IF "failure" \in reserved THEN before - 1 ELSE before

Outage == Do("stop") \in Done /\ Do("start") \notin Done => postgres = "down"

\* A script that got to where it is without an exception, or has printed that
\* all checks passed, has done what the steps behind it were to do.
Sound ==
    /\ Accounted
    /\ Traced
    /\ Counted
    /\ Outage
    /\ printed <=> Do("pass") \in Done
    /\ Exited => failed \/ project = "down"

\* PostgreSQL is there when a checkout is to succeed, unless a fault is to
\* blame.
Supplied ==
    faults = {} /\ ~Exited =>
        /\ Do("up") \in Done /\ Do("stop") \notin Done => postgres = "up"
        /\ Do("ready") \in Done => postgres = "up"

ValidationInv ==
    /\ TypeOK
    /\ Delivered
    /\ Commands
    /\ Leaving
    /\ FailsForAReason
    /\ ~failed \/ printed => Sound
    /\ ~failed => Supplied
=============================================================================
