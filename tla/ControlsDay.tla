---------------------------- MODULE ControlsDay -----------------------------
(***************************************************************************)
(* Controls with the passage of time made regular, and with the history    *)
(* its documentation speaks of.  A poll starts at least every PollPeriod   *)
(* minutes (POLL_INTERVAL is 60 s by default), so a window that has ended  *)
(* is looked at soon after, unless that poll fails.                        *)
(*                                                                         *)
(* And a write whose call has failed may land later (Registers and Sidecar *)
(* say how): after its retry, in another job, or in another process.       *)
(***************************************************************************)
EXTENDS Controls

CONSTANT PollPeriod   \* the longest time between two polls, in minutes

ASSUME PollPeriodAssumption == PollPeriod \in Nat \ {0}

VARIABLES
  sincePoll,  \* minutes since a poll last started
  late,       \* frames that were given up and are still on their way
  meant       \* history: the boost windows a command or the app asked for

dayVars == <<vars, sincePoll, late, meant>>

-----------------------------------------------------------------------------
boostWindow(r, d) == decodeTimedWindow(r, boostSlot, d)

\* The scheduler's ticker (scheduler.go Run): a poll starts in time.
Regular ==
  /\ now' # now => sincePoll < PollPeriod
  /\ sincePoll' = IF PollRead \/ PollReadFails THEN 0
                  ELSE IF now' # now THEN sincePoll + 1 ELSE sincePoll

\* A command means the window it planned; the app means what it programs.
Meaning ==
  meant' = meant \cup
    (IF op = "boost" /\ pc = "mode" /\ pc' = "read"
     THEN {decodeTimedWindow(target', boostSlot, d) : d \in Directions} ELSE {}) \cup
    (IF budget'.edits # budget.edits
     THEN {boostWindow(regs', d) : d \in Directions} ELSE {})

\* A write is given up by the client, or by a process that dies, before the
\* sidecar has carried it out.
GivesUp ==
  late' \in IF pc = "write" /\ budget'.mishaps # budget.mishaps /\ regs' = regs
           THEN {late, late \cup {[addr |-> a, value |-> target[a]] :
                                     a \in {b \in todo : isNext(swapped, b)}}}
           ELSE {late}

\* The sidecar carries it out after all.
LateWrite ==
  /\ \E f \in late : /\ regs' = [regs EXCEPT ![f.addr] = f.value]
                     /\ late' = late \ {f}
  /\ disturbed' = TRUE
  /\ UNCHANGED <<conf, now, pc, op, option, slots, target, todo, retry, failed,
                 budget, sincePoll, meant>>

DayInit ==
  /\ Init
  /\ sincePoll = 0
  /\ late = {}
  /\ meant = {NoWindow}

OnTime == Next /\ Regular /\ Meaning /\ GivesUp

DayNext == OnTime \/ LateWrite

DaySpec == DayInit /\ [][DayNext]_dayVars

\* A started job is carried on (every call of it has a timeout), minutes pass,
\* and the ticker makes the scheduler poll.
FairDaySpec ==
  /\ DaySpec
  /\ WF_dayVars(Work /\ OnTime)
  /\ WF_dayVars(Tick /\ OnTime)
  /\ WF_dayVars(PollRead /\ OnTime)

-----------------------------------------------------------------------------
(* Properties.                                                             *)

\* Once commands, edits and mishaps stop, whatever they left in the boost slot
\* (a boost, a part of one, what a reconcile that broke off made of it, a write
\* that landed when its command was long over) is cleared for good by the reconcile
\* of a later poll.
BoostSlotClears ==
  <>[](\A a \in SlotRegs(boostSlot) : regs[a] = 0)

\* ... and the asserted tariff ends up in slots 1 and 2, and stays there.
TariffSettles ==
  <>[](conf.assertToU =>
         \A a \in SlotRegs(0) \cup SlotRegs(1) : regs[a] = slotValue(ToUSlots(conf.tou), a))

\* The reconcile of a poll has ended without an error, undisturbed by
\* the app and by late writes.
ReconcileSucceeds ==
  op = "reconcile" /\ pc' = "idle" /\ ~failed' /\ ~disturbed

\* "leaves a boost either intact or gone, never stuck on a window the manager
\* never meant to hold" (docs/specs/09): a window that a reconcile keeps is one
\* that a command or the app asked for.
KeptIsMeant ==
  [][ReconcileSucceeds => \A d \in Directions : boostWindow(regs', d) \in meant]_dayVars
=============================================================================
