------------------------------- MODULE MeterS0 -------------------------------
(***************************************************************************)
(* The meter that counts impulses: a thread waits for the hardware and     *)
(* counts, the reading thread collects what was counted once a second.     *)
(* Both touch the counters (atomic), the time of the last impulse (atomic, *)
(* relative to _time_last_ref) and _time_last_ref (not protected).  What   *)
(* the hardware does is an input.  Times are in steps of the clock; an     *)
(* interval of one step between two calls of read is a second.             *)
(***************************************************************************)
EXTENDS Integers

CONSTANTS
    S0Configs,      \* the options to consider
    RefLimit,       \* the milliseconds after which the reference moves (2^30)
    MaxImpulses,    \* bound: impulses counted
    MaxNow          \* bound: the clock

(* The hardware interrupts; a second line tells the direction; send_zero.  *)
S0Config == [blocking : BOOLEAN, dir : BOOLEAN, sendZero : BOOLEAN]

ASSUME S0Assumption ==
    S0Configs \subseteq S0Config /\ RefLimit \in Nat /\ MaxImpulses \in Nat /\ MaxNow \in Nat

VARIABLES
    s0conf,     \* the options
    now,        \* CLOCK_REALTIME
    cpc,        \* counter_thread
    level,      \* last_state, for hardware that is polled
    stop,       \* _counter_thread_stop
    imp,        \* _impulses and _impulses_neg
    counted,    \* history: impulses counted in each direction
    returned,   \* history: impulses returned in each direction
    ref, ms,    \* _time_last_ref, _ms_last_impulse
    rdpc,       \* open, read and close
    req,        \* time to wait for, then the time of the reading
    got,        \* t_imp and t_imp_neg
    lastRead,   \* _time_last_read
    lastImp,    \* _time_last_impulse_returned
    raced       \* history: an impulse came between MoveRef and MoveMs

s0vars == <<s0conf, now, cpc, level, stop, imp, counted, returned, ref, ms,
            rdpc, req, got, lastRead, lastImp, raced>>

Dirs == {"pos", "neg"}
NoImpulses == [d \in Dirs |-> 0]

S0Init ==
    /\ s0conf \in S0Configs
    /\ now = 0
    /\ cpc = "off" /\ level = 0 /\ stop = FALSE
    /\ imp = NoImpulses /\ counted = NoImpulses /\ returned = NoImpulses
    /\ ref = 0 /\ ms = 0
    /\ rdpc = "closed" /\ req = 0 /\ got = NoImpulses /\ lastRead = 0 /\ lastImp = 0
    /\ raced = FALSE

(* open: the hardware opens or not; the counter thread starts.             *)
S0Open ==
    /\ rdpc = "closed" /\ cpc = "off" /\ ~stop
    /\ \/ /\ rdpc' = "idle" /\ cpc' = "start" /\ lastRead' = now /\ lastImp' = now /\ ref' = now
       \/ rdpc' = "failed" /\ UNCHANGED <<cpc, lastRead, lastImp, ref>>
    /\ UNCHANGED <<s0conf, now, level, stop, imp, counted, returned, ms, req, got, raced>>

S0Tick ==
    /\ now < MaxNow
    /\ now' = now + 1
    /\ UNCHANGED <<s0conf, cpc, level, stop, imp, counted, returned, ref, ms,
                   rdpc, req, got, lastRead, lastImp, raced>>

-----------------------------------------------------------------------------
(* counter_thread *)

CounterVars == <<s0conf, now, stop, returned, ref, rdpc, req, got, lastRead, lastImp>>

(* The level at the start; no answer counts as low.                        *)
CounterStart ==
    /\ cpc = "start" /\ cpc' = "top"
    /\ level' \in {0, 1}
    /\ UNCHANGED <<CounterVars, imp, counted, ms, raced>>

CounterStop ==
    /\ cpc = "top" /\ stop
    /\ cpc' = "ended"
    /\ UNCHANGED <<CounterVars, level, imp, counted, ms, raced>>

(* waitForImpulse: an event, or a timeout or an error, which change        *)
(* nothing.  After the event the thread sleeps until bouncing is over.     *)
WaitForImpulse ==
    /\ cpc = "top" /\ ~stop /\ s0conf.blocking
    /\ cpc' = "stamp"
    /\ UNCHANGED <<CounterVars, level, imp, counted, ms, raced>>

(* Mutant: the time counts from the impulse that was returned last. *)
StampImpulseMutant ==
    /\ cpc = "stamp"
    /\ cpc' = "status"
    /\ ms' = now - lastImp
    /\ raced' = (raced \/ rdpc = "overflow2")
    /\ UNCHANGED <<CounterVars, level, imp, counted>>

StampImpulse ==
    /\ cpc = "stamp"
    /\ cpc' = "status"
    /\ ms' = now - ref
    /\ raced' = (raced \/ rdpc = "overflow2")
    /\ UNCHANGED <<CounterVars, level, imp, counted>>

Count(d) ==
    /\ counted["pos"] + counted["neg"] < MaxImpulses
    /\ imp' = [imp EXCEPT ![d] = @ + 1]
    /\ counted' = [counted EXCEPT ![d] = @ + 1]

(* The second line decides about the direction.                            *)
CountImpulse ==
    \/ Count("pos")
    \/ s0conf.dir /\ Count("neg")

(* The line is up, or the hardware cannot tell; or it is down again.       *)
CheckStatus ==
    /\ cpc = "status" /\ cpc' = "top"
    /\ CountImpulse \/ UNCHANGED <<imp, counted>>
    /\ UNCHANGED <<CounterVars, level, ms, raced>>

(* Hardware without interrupts is polled: every rising edge counts.        *)
Poll ==
    /\ cpc = "top" /\ ~stop /\ ~s0conf.blocking
    /\ level' = 1 - level
    /\ IF level = 0 THEN CountImpulse ELSE UNCHANGED <<imp, counted>>
    /\ UNCHANGED <<CounterVars, cpc, ms, raced>>

Counter == CounterStart \/ CounterStop \/ WaitForImpulse \/ StampImpulse \/ CheckStatus \/ Poll

-----------------------------------------------------------------------------
(* read and close, called by the reading thread and at shutdown *)

ReadVars == <<s0conf, now, cpc, level, counted>>

S0Read ==
    /\ rdpc = "idle"
    /\ rdpc' = "sleep" /\ req' = lastRead + 1
    /\ UNCHANGED <<ReadVars, stop, imp, returned, ref, ms, got, lastRead, lastImp, raced>>

(* The sleep is over: the counters are read one after the other ...        *)
LoadPos ==
    /\ rdpc = "sleep" /\ now >= req
    /\ rdpc' = "loadNeg"
    /\ got' = [got EXCEPT !["pos"] = imp["pos"]]
    /\ UNCHANGED <<ReadVars, stop, imp, returned, ref, ms, req, lastRead, lastImp, raced>>

IsZero == got = NoImpulses

(* ... and reduced; without any the meter waits for another second.        *)
LoadNeg ==
    /\ rdpc = "loadNeg"
    /\ got' = [got EXCEPT !["neg"] = imp["neg"]]
    /\ IF got' # NoImpulses THEN rdpc' = "subPos" /\ UNCHANGED req
       ELSE IF s0conf.sendZero THEN rdpc' = "time" /\ UNCHANGED req
       ELSE rdpc' = "sleep" /\ req' = req + 1
    /\ UNCHANGED <<ReadVars, stop, imp, returned, ref, ms, lastRead, lastImp, raced>>

(* Mutant: the counter is set to zero. *)
SubtractMutant(d, from, to) ==
    /\ rdpc = from /\ rdpc' = to
    /\ imp' = [imp EXCEPT ![d] = 0]
    /\ UNCHANGED <<ReadVars, stop, returned, ref, ms, req, got, lastRead, lastImp, raced>>

Subtract(d, from, to) ==
    /\ rdpc = from /\ rdpc' = to
    /\ imp' = [imp EXCEPT ![d] = @ - got[d]]
    /\ UNCHANGED <<ReadVars, stop, returned, ref, ms, req, got, lastRead, lastImp, raced>>

(* Without an impulse the reference moves on with the clock.               *)
TakeTime ==
    /\ rdpc = "time"
    /\ req' = now
    /\ IF s0conf.blocking THEN rdpc' = "stamp" /\ ref' = (IF IsZero THEN ref + now - lastRead ELSE ref)
       ELSE rdpc' = "return" /\ UNCHANGED ref
    /\ UNCHANGED <<ReadVars, stop, imp, returned, ms, got, lastRead, lastImp, raced>>

(* The reading gets the time of the last impulse.                          *)
TakeStamp ==
    /\ rdpc = "stamp"
    /\ rdpc' = IF ms > RefLimit THEN "overflow" ELSE "return"
    /\ lastRead' = req
    /\ req' = ref + ms
    /\ UNCHANGED <<ReadVars, stop, imp, returned, ref, ms, got, lastImp, raced>>

(* check_ref_for_overflow: first the reference, then the milliseconds.     *)
MoveRef ==
    /\ rdpc = "overflow" /\ rdpc' = "overflow2"
    /\ ref' = ref + RefLimit
    /\ UNCHANGED <<ReadVars, stop, imp, returned, ms, req, got, lastRead, lastImp, raced>>

MoveMs ==
    /\ rdpc = "overflow2" /\ rdpc' = "return"
    /\ ms' = ms - RefLimit
    /\ UNCHANGED <<ReadVars, stop, imp, returned, ref, req, got, lastRead, lastImp, raced>>

(* The readings go out: power over the time since the last ones, and the   *)
(* number of impulses.                                                     *)
Return ==
    /\ rdpc = "return" /\ rdpc' = "idle"
    /\ returned' = [d \in Dirs |-> returned[d] + got[d]]
    /\ lastImp' = req
    /\ lastRead' = IF s0conf.blocking THEN lastRead ELSE req
    /\ got' = NoImpulses
    /\ UNCHANGED <<ReadVars, stop, imp, ref, ms, req, raced>>

(* Mutant: the counter thread is not told. *)
S0CancelMutant ==
    /\ rdpc \in {"idle", "sleep"}
    /\ rdpc' = "cancelled"
    /\ UNCHANGED <<ReadVars, stop, imp, returned, ref, ms, req, got, lastRead, lastImp, raced>>

(* The reading thread is cancelled in its sleep, or between two calls ...  *)
S0Cancel ==
    /\ rdpc \in {"idle", "sleep"}
    /\ rdpc' = "cancelled" /\ stop' = TRUE
    /\ UNCHANGED <<ReadVars, imp, returned, ref, ms, req, got, lastRead, lastImp, raced>>

(* ... and close waits for the counter thread.                             *)
S0Close ==
    /\ rdpc = "cancelled" /\ cpc = "ended"
    /\ rdpc' = "closed"
    /\ UNCHANGED <<ReadVars, stop, imp, returned, ref, ms, req, got, lastRead, lastImp, raced>>

Collect ==
    \/ S0Read \/ LoadPos \/ LoadNeg
    \/ Subtract("pos", "subPos", "subNeg") \/ Subtract("neg", "subNeg", "time")
    \/ TakeTime \/ TakeStamp \/ MoveRef \/ MoveMs \/ Return

S0Next == S0Open \/ S0Tick \/ Counter \/ Collect \/ S0Cancel \/ S0Close

(* waitForImpulse returns after a second at the latest.                    *)
S0Fairness == WF_s0vars(Counter) /\ WF_s0vars(S0Close)

S0Spec == S0Init /\ [][S0Next]_s0vars

-----------------------------------------------------------------------------
(* Properties. *)

(* Impulses taken from the counter and not returned yet.                   *)
InFlight(d) ==
    CASE rdpc \in {"subNeg"} -> IF d = "pos" THEN got[d] ELSE 0
      [] rdpc \in {"time", "stamp", "overflow", "overflow2", "return"} -> got[d]
      [] OTHER -> 0

(* However the counter thread interleaves with read, every impulse it has  *)
(* counted is in the counter, on its way, or returned, once.               *)
ImpulsesConserved ==
    \A d \in Dirs : counted[d] = imp[d] + InFlight(d) + returned[d]

(* The time of the readings does not go back, which would make power       *)
(* negative.  Left out: an impulse inside check_ref_for_overflow, and      *)
(* send_zero, which moves the reference though an impulse has come since.  *)
TimeForward ==
    [][rdpc = "return" /\ rdpc' = "idle" /\ ~raced /\ ~s0conf.sendZero => req >= lastImp]_s0vars

(* Whatever the counter thread waits for, close ends it.                   *)
StopEnds == (rdpc = "cancelled") ~> (cpc = "ended" /\ rdpc = "closed")

=============================================================================
