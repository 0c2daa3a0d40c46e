----------------------------- MODULE NrUeMacTimed -----------------------------
(***************************************************************************)
(* NrUeMac with two history variables that measure in slots what the       *)
(* recovery timer promises.  They constrain no step.                       *)
(***************************************************************************)
EXTENDS NrUeMac

VARIABLES
    wait,   \* slots with data since the last SR or new-data grant
    since   \* slots since the last SR or new-data grant that left data,
            \* RetxBsrTimer when none counts

timedVars == <<vars, wait, since>>

Asked == "sr" \in out'

WaitNext ==
    wait' = IF ~Buffered(bytes') \/ Asked \/ NewDataStep THEN 0
            ELSE IF DoSlotIndication THEN wait + 1 ELSE wait

SinceNext ==
    since' = IF Asked THEN 0
             ELSE IF ~Buffered(bytes') \/ srState' = "INACTIVE" THEN RetxBsrTimer
             ELSE IF NewDataStep THEN 0
             ELSE IF DoSlotIndication /\ since < RetxBsrTimer THEN since + 1
             ELSE since

TimedInit == Init /\ wait = 0 /\ since = RetxBsrTimer
TimedNext == Next /\ WaitNext /\ SinceNext
TimedSpec == TimedInit /\ [][TimedNext]_timedVars

(* Bounded recovery: a UE that keeps data and gets no new-data grant sends *)
(* an SR within the timer and one turn of the SR grid.                     *)
BoundedWait == wait < RetxBsrTimer + Cardinality(Slots)

(* A served UE is left alone: while it keeps data, no SR goes out sooner   *)
(* than RetxBsrTimer after the last SR or new-data grant, but for the one  *)
(* slot by which an expiry may come before its slot indication.            *)
NoEarlySr == [][Asked => since >= RetxBsrTimer - 1]_timedVars
=============================================================================
