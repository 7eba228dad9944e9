------------------------------- MODULE Capture -------------------------------
(***************************************************************************)
(* A capture channel of src/hal/src/capture.rs and the loops that measure  *)
(* periods, spans and duty cycles with it.                                 *)
(*                                                                         *)
(* Time is left out: edges are numbered as they come, odd ones rise, and a *)
(* timestamp is the number of its edge, so that the difference of two      *)
(* stamps is the number of intervals between them.  A wait may time out    *)
(* whenever it finds no capture.                                           *)
(*                                                                         *)
(* missed is a history variable: the edges that came while the driver was  *)
(* not looking, since the first stamp of the measurement.  An edge that    *)
(* overwrites a stamp before the driver has tested COV is not among them:  *)
(* that one it must report.                                                *)
(***************************************************************************)
EXTENDS Integers, Sequences

CONSTANTS MaxEdges, MaxCalls,   \* bounds: how many edges come, and calls are made
          MaxPeriods            \* the longest measurement

VARIABLES
    edges,          \* how many edges there were
    ifg, cov, ccr,  \* CCIFG, COV, TAxCCRn
    enabled,        \* CM is not 0
    first,          \* no edge was captured since CM was set
    pc, op, goal,   \* the driver: the call, and how many stamps it needs
    ts,             \* the stamp just read
    stamps,         \* the stamps it keeps
    retried,        \* the sync to a rising edge has used its second chance
    freshArm,       \* fresh_arm
    answer,
    calls, since, missed    \* since: edges at the clear a wait began with

channel == <<ifg, cov, ccr, enabled, first>>
driver == <<op, goal, ts, stamps, retried, freshArm, answer>>
vars == <<edges, ifg, cov, ccr, enabled, first, pc, op, goal, ts, stamps, retried,
          freshArm, answer, calls, since, missed>>

Init ==
    /\ edges \in {0, 1}
    /\ ifg = FALSE /\ cov = FALSE /\ ccr = 0
    /\ enabled = TRUE /\ first = TRUE
    /\ pc = "idle" /\ op = "period" /\ goal = 1
    /\ ts = 0 /\ stamps = <<>> /\ retried = FALSE
    /\ freshArm = TRUE
    /\ answer = "timeout"
    /\ calls = 0 /\ since = 0 /\ missed = 0
-----------------------------------------------------------------------------
\* Between the test of COV and the clear the next wait begins with; and before
\* the test, if COV is put down to the arming.  The last stamp has no next.
LookingAway ==
    \/ pc \in {"level", "clear"}
    \/ /\ pc \in {"collect", "collect_both"} \/ (pc = "check" /\ freshArm)
       /\ Len(stamps) + 1 < goal

\* Silicon: an edge is stamped, over a stamp that waits if there is one.  The
\* first one after the arming may be latched twice (capture.rs:533-537).
Edge ==
    /\ edges < MaxEdges
    /\ edges' = edges + 1
    /\ \/ /\ enabled
          /\ ccr' = edges + 1
          /\ ifg' = TRUE
          /\ cov' \in {cov \/ ifg, cov \/ ifg \/ first}
          /\ first' = FALSE
          /\ UNCHANGED enabled
       \/ ~enabled /\ UNCHANGED channel
    /\ missed' = IF LookingAway THEN missed + 1 ELSE missed
    /\ UNCHANGED <<pc, driver, calls, since>>
-----------------------------------------------------------------------------
Call(o, needed) ==
    /\ pc = "idle"
    /\ calls < MaxCalls
    /\ calls' = calls + 1
    /\ op' = o /\ goal' = needed
    /\ stamps' = <<>> /\ retried' = FALSE
    /\ pc' = "clear"
    /\ UNCHANGED <<edges, channel, ts, freshArm, answer, since, missed>>

MeasurePeriod == \E periods \in 0 .. MaxPeriods : Call("period", periods + 1)
MeasureSpan == Call("span", 2)
MeasureDuty == Call("duty", 3)

\* set_edge goes through CM = 0.
DisableCapture ==
    /\ pc = "idle"
    /\ calls < MaxCalls
    /\ calls' = calls + 1
    /\ enabled' = FALSE
    /\ answer' = "timeout"
    /\ pc' = "rearm"
    /\ UNCHANGED <<edges, ifg, cov, ccr, first, op, goal, ts, stamps, retried,
                   freshArm, since, missed>>

Rearm ==
    /\ pc = "rearm"
    /\ enabled' = TRUE /\ first' = TRUE
    /\ ifg' = FALSE /\ cov' = FALSE
    /\ freshArm' = TRUE
    /\ pc' = "idle"
    /\ UNCHANGED <<edges, ccr, op, goal, ts, stamps, retried, answer, calls,
                   since, missed>>

\* (mutation: a capture that was pending before the call is taken)
ClearNothing ==
    /\ pc = "clear"
    /\ since' = edges
    /\ pc' = "poll"
    /\ UNCHANGED <<edges, channel, driver, calls, missed>>

\* wait_edge and wait_fresh_stamp discard what is pending.
Clear ==
    /\ pc = "clear"
    /\ ifg' = FALSE /\ cov' = FALSE
    /\ since' = edges
    /\ missed' = IF stamps = <<>> THEN 0 ELSE missed
    /\ pc' = "poll"
    /\ UNCHANGED <<edges, ccr, enabled, first, driver, calls>>

Fail(why) ==
    /\ answer' = why
    /\ pc' = "idle"

Poll ==
    /\ pc = "poll"
    /\ \/ ifg /\ pc' = "read" /\ UNCHANGED answer
       \/ ~ifg /\ Fail("timeout")
    /\ UNCHANGED <<edges, channel, op, goal, ts, stamps, retried, freshArm, calls,
                   since, missed>>

\* wait_fresh_stamp has no use for COV.
ReadStamp ==
    /\ pc = "read"
    /\ ts' = ccr
    /\ pc' = IF op = "span" THEN "collect_both" ELSE "check"
    /\ UNCHANGED <<edges, channel, op, goal, stamps, retried, freshArm, answer, calls,
                   since, missed>>

\* (mutation: COV not tested)
CheckNothing ==
    /\ pc = "check"
    /\ pc' = "collect"
    /\ UNCHANGED <<edges, channel, driver, calls, since, missed>>

Check ==
    /\ pc = "check"
    /\ pc' = IF cov THEN (IF freshArm THEN "collect_both" ELSE "overcaptured")
             ELSE "collect"
    /\ UNCHANGED <<edges, channel, driver, calls, since, missed>>

Overcapture ==
    /\ pc = "overcaptured"
    /\ ifg' = FALSE /\ cov' = FALSE
    /\ Fail("overcapture")
    /\ UNCHANGED <<edges, ccr, enabled, first, op, goal, ts, stamps, retried, freshArm,
                   calls, since, missed>>

Complete == Len(stamps') = goal

\* The wait returns its stamp, and the measurement goes on to the next.  COV
\* is left alone if it was not seen.
Collect ==
    /\ pc \in {"collect", "collect_both"}
    /\ ifg' = FALSE
    /\ cov' = (cov /\ pc = "collect")
    /\ freshArm' = (freshArm /\ op = "span")
    /\ stamps' = Append(stamps, ts)
    /\ pc' = IF Complete THEN "idle" ELSE IF op = "duty" THEN "level" ELSE "clear"
    /\ answer' = IF Complete THEN "ok" ELSE answer
    /\ UNCHANGED <<edges, ccr, enabled, first, op, goal, ts, retried, calls, since,
                   missed>>

\* CCI, the level of the input right now.
InputLevel == edges % 2 = 1

\* measure_duty_permille, after its first stamp: a falling one is dropped,
\* once, for the one that follows it.
SyncLevel ==
    /\ pc = "level" /\ Len(stamps) = 1
    /\ \/ InputLevel /\ pc' = "clear" /\ UNCHANGED <<stamps, retried, answer>>
       \/ /\ ~InputLevel /\ ~retried
          /\ stamps' = <<>> /\ retried' = TRUE
          /\ pc' = "clear"
          /\ UNCHANGED answer
       \/ ~InputLevel /\ retried /\ Fail("level_sync") /\ UNCHANGED <<stamps, retried>>
    /\ UNCHANGED <<edges, channel, op, goal, ts, freshArm, calls, since, missed>>

\* And after its second, which must be a falling one.
FallLevel ==
    /\ pc = "level" /\ Len(stamps) = 2
    /\ \/ ~InputLevel /\ pc' = "clear" /\ UNCHANGED answer
       \/ InputLevel /\ Fail("level_sync")
    /\ UNCHANGED <<edges, channel, op, goal, ts, stamps, retried, freshArm, calls,
                   since, missed>>

Measure == MeasurePeriod \/ MeasureSpan \/ MeasureDuty

Next ==
    \/ Edge
    \/ Measure \/ DisableCapture \/ Rearm
    \/ Clear \/ Poll \/ ReadStamp \/ Check \/ Overcapture \/ Collect
    \/ SyncLevel \/ FallLevel

Spec == Init /\ [][Next]_vars
-----------------------------------------------------------------------------
TypeOK ==
    /\ pc \in {"idle", "rearm", "clear", "poll", "read", "check", "collect",
               "collect_both", "overcaptured", "level"}
    /\ op \in {"period", "span", "duty"} /\ goal \in 1 .. MaxPeriods + 3
    /\ edges \in 0 .. MaxEdges /\ missed \in 0 .. MaxEdges
    /\ {ccr, ts, since} \subseteq 0 .. MaxEdges
    /\ \A i \in 1 .. Len(stamps) : stamps[i] \in 1 .. MaxEdges
    /\ {ifg, cov, enabled, first, retried, freshArm} \subseteq BOOLEAN
    /\ answer \in {"ok", "timeout", "overcapture", "level_sync"}
    /\ calls \in 0 .. MaxCalls

\* capture.rs:519-525: what a wait returns was stamped after the call began;
\* and it is the first such edge, unless COV was put down to the arming or the
\* caller does not mind.
FreshEdge ==
    /\ pc \in {"collect", "collect_both"} => ts > since
    /\ pc = "collect" => ts = since + 1

\* capture.rs:557-561: the sum over k periods is that of k intervals and of
\* one more for every edge that came while the driver was not looking.
PeriodsExact ==
    answer = "ok" /\ pc = "idle" /\ op = "period" =>
        stamps[goal] - stamps[1] = goal - 1 + missed

\* capture.rs:636-641: an answer is made of a rise, the fall and the rise that
\* follow it, if no edge came while the driver was not looking.
DutyOfOnePulse ==
    answer = "ok" /\ pc = "idle" /\ op = "duty" /\ missed = 0 =>
        /\ stamps[1] % 2 = 1
        /\ stamps[2] = stamps[1] + 1 /\ stamps[3] = stamps[1] + 2

\* A measurement that succeeds measured what it says.
MeasuredHonestly == FreshEdge /\ PeriodsExact /\ DutyOfOnePulse
=============================================================================
