------------------------------ MODULE MCStreams ------------------------------
(***************************************************************************)
(* The three small components that share nothing: the metrics hub, a log   *)
(* stream and the rate limiter, one at a time.                             *)
(***************************************************************************)
EXTENDS MetricsHub, LogStream, RateLimiter, TLC

VARIABLE part       \* the component that is looked at

vars == <<part, hubVars, logVars, limiterVars>>

CONSTANTS OutputLength

\* Everything a container may write in OutputLength bytes.
Bytes == {[stream |-> "stdout", char |-> c] : c \in {"a", Return, Newline}}
         \cup {[stream |-> "stderr", char |-> c] : c \in {"b", Newline}}
AllOutputs == UNION {[1..n -> Bytes] : n \in 0..OutputLength}

Init ==
    /\ part \in {"hub", "log", "limiter"}
    /\ HubInit /\ LogInit /\ LimiterInit
    /\ part # "log" => output = << >>

HubStep(A) == part = "hub" /\ A /\ UNCHANGED <<part, logVars, limiterVars>>
LogStep(A) == part = "log" /\ A /\ UNCHANGED <<part, hubVars, limiterVars>>
LimiterStep(A) == part = "limiter" /\ A /\ UNCHANGED <<part, hubVars, logVars>>

Next == HubStep(HubNext) \/ LogStep(LogNext) \/ LimiterStep(LimiterNext)

Spec ==
    /\ Init /\ [][Next]_vars
    /\ \A g \in StreamIds : WF_vars(HubStep(StreamWorks(g)))
    /\ \A v \in Viewers : WF_vars(HubStep(ViewWorks(v)))
    /\ WF_vars(LogStep(Copy)) /\ WF_vars(LogStep(Watch))

\* The limiter's bounds are about clients nobody evicted or judged late.
NobodyExcused == excused = {}

StreamsSettle == HubSettles /\ LogSettles
=============================================================================
