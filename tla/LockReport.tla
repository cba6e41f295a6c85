----------------------------- MODULE LockReport -----------------------------
(***************************************************************************)
(* How the lock output reaches Matter's LockState attribute.               *)
(*                                                                         *)
(* Two ways, and they are not ordered with each other.  What happens       *)
(* outside the CHIP task (a tap, the web UI, the relock timer) goes        *)
(* through on_access_event_for_matter() and is posted with ScheduleWork(); *)
(* a Lock or Unlock command runs on the CHIP task and sets LockState       *)
(* itself, after the lock has moved.  app_main registers the observer only *)
(* after the stack has started, while the reader has been up for a while.  *)
(***************************************************************************)
EXTENDS LockOutput, Naturals, Sequences

CONSTANTS
  Chip,       \* the CHIP task
  QueueMax    \* places in the CHIP event queue left for reports

ASSUME ChipAssumption == Chip \in Threads /\ Lockers \subseteq {Chip}
ASSUME QueueAssumption == QueueMax \in Nat \ {0}

VARIABLES
  stage,      \* Matter's start: "down", "up" (cluster initialised), "watched"
  chipPc,     \* what the CHIP task is doing
  queue,      \* levels posted by report_operation(), not yet applied
  lockState,  \* the LockState attribute
  lost,       \* history: the last event outside Matter was never posted
  overtaken   \* history: the last Lock command came with reports under way

reportVars == <<stage, chipPc, queue, lockState, lost, overtaken>>
allVars == <<vars, reportVars>>

ChipPcs == {"idle", "unlocking", "locking", "report_unlocked", "report_locked"}

ReportInit ==
  /\ Init
  /\ stage = "down"
  /\ chipPc = "idle"
  /\ queue = <<>>
  /\ lockState = "locked"
  /\ lost = FALSE
  /\ overtaken = FALSE

(* Mutant: the automatic relock is not reported. *)
PostUnlocksOnly(level) ==
  /\ IF stage = "watched" /\ Len(queue) < QueueMax /\ level = "unlocked"
     THEN queue' = Append(queue, level)
     ELSE UNCHANGED queue
  /\ lost' = (stage # "watched")
  /\ UNCHANGED <<stage, chipPc, lockState>>

(* matter_lock_report_operation(): ScheduleWork()'s result is ignored. *)
Post(level) ==
  /\ IF stage = "watched" /\ Len(queue) < QueueMax
     THEN queue' = Append(queue, level) /\ lost' = FALSE
     ELSE UNCHANGED queue /\ lost' = TRUE
  /\ UNCHANGED <<stage, chipPc, lockState>>

(* An event outside the CHIP task has happened and is not in LockState yet. *)
ReportsUnderWay ==
  \/ \E t \in Threads \ {Chip} : pc[t] # "idle"
  \/ relockPc # "idle"
  \/ queue # <<>>

-----------------------------------------------------------------------------
(* The other tasks and the relock timer *)

OutsideQuietly ==
  /\ \/ \E t \in Threads \ {Chip} :
          UnlockStop(t) \/ UnlockGpio(t) \/ UnlockFlag(t) \/ UnlockArm(t)
     \/ RelockFire \/ RelockGpio \/ RelockFlag
  /\ UNCHANGED reportVars

TapUnlocked ==
  /\ \E t \in Threads \ {Chip} : UnlockNotify(t)
  /\ Post("unlocked")
  /\ UNCHANGED overtaken

AutoRelocked ==
  /\ RelockNotify
  /\ Post("locked")
  /\ overtaken' = (overtaken /\ lost')

Outside == OutsideQuietly \/ TapUnlocked \/ AutoRelocked

-----------------------------------------------------------------------------
(* Commands on the CHIP task; on_access_event_for_matter() drops the event   *)
(* of a call whose source is Matter.                                         *)

UnlockCommand ==
  /\ stage # "down" /\ chipPc = "idle"
  /\ UnlockStop(Chip)
  /\ chipPc' = "unlocking"
  /\ UNCHANGED <<stage, queue, lockState, lost, overtaken>>

UnlockRuns ==
  /\ chipPc = "unlocking"
  /\ UnlockGpio(Chip) \/ UnlockFlag(Chip) \/ UnlockNotify(Chip)
  /\ UNCHANGED reportVars

(* hooks->unlock() != ESP_OK: the command fails and nothing is reported. *)
UnlockReturns ==
  /\ chipPc = "unlocking"
  /\ UnlockArm(Chip)
  /\ chipPc' = IF ret'[Chip] = "ok" THEN "report_unlocked" ELSE "idle"
  /\ UNCHANGED <<stage, queue, lockState, lost, overtaken>>

LockCommand ==
  /\ stage # "down" /\ chipPc = "idle"
  /\ LockStop(Chip)
  /\ chipPc' = "locking"
  /\ overtaken' = ReportsUnderWay
  /\ UNCHANGED <<stage, queue, lockState, lost>>

LockRuns ==
  /\ chipPc = "locking"
  /\ LockGpio(Chip) \/ LockTest(Chip) \/ LockFlag(Chip) \/ LockNotify(Chip)
  /\ chipPc' = IF pc'[Chip] = "idle" THEN "report_locked" ELSE "locking"
  /\ UNCHANGED <<stage, queue, lockState, lost, overtaken>>

CommandReports ==
  /\ chipPc \in {"report_unlocked", "report_locked"}
  /\ lockState' = IF chipPc = "report_locked" THEN "locked" ELSE "unlocked"
  /\ chipPc' = "idle"
  /\ UNCHANGED <<vars, stage, queue, lost, overtaken>>

(* Mutant: the latest report is applied first. *)
ApplyLatestReport ==
  /\ chipPc = "idle"
  /\ queue # <<>>
  /\ lockState' = queue[Len(queue)]
  /\ queue' = SubSeq(queue, 1, Len(queue) - 1)
  /\ UNCHANGED <<vars, stage, chipPc, lost, overtaken>>

(* report_lock_operation(), when the event loop gets to it *)
ApplyReport ==
  /\ chipPc = "idle"
  /\ queue # <<>>
  /\ lockState' = Head(queue)
  /\ queue' = Tail(queue)
  /\ UNCHANGED <<vars, stage, chipPc, lost, overtaken>>

ChipContinues ==
  UnlockRuns \/ UnlockReturns \/ LockRuns \/ CommandReports \/ ApplyReport

-----------------------------------------------------------------------------
(* Matter's start, as start_matter() orders it *)

ClusterInit ==
  /\ stage = "down"
  /\ stage' = "up"
  /\ lockState' = IF sLocked THEN "locked" ELSE "unlocked"
  /\ UNCHANGED <<vars, chipPc, queue, lost, overtaken>>

AddObserver ==
  /\ stage = "up"
  /\ stage' = "watched"
  /\ UNCHANGED <<vars, chipPc, queue, lockState, lost, overtaken>>

-----------------------------------------------------------------------------
ReportNext ==
  \/ Outside
  \/ UnlockCommand \/ LockCommand \/ ChipContinues
  \/ ClusterInit \/ AddObserver

ReportSpec == ReportInit /\ [][ReportNext]_allVars

(* A call under way continues, the timer fires, the CHIP event loop turns    *)
(* and the boot goes on; commands and taps come or do not.                   *)
ReportFairness ==
  /\ \A t \in Threads \ {Chip} : WF_allVars(pc[t] # "idle" /\ Outside /\ pc'[t] # pc[t])
  /\ WF_allVars(Outside /\ (armed \/ relockPc # "idle") /\ relockPc' # relockPc)
  /\ WF_allVars(ChipContinues)
  /\ WF_allVars(ClusterInit \/ AddObserver)

FairReportSpec == ReportSpec /\ ReportFairness

-----------------------------------------------------------------------------
ReportsDone ==
  /\ AtRest
  /\ chipPc = "idle"
  /\ queue = <<>>

(* With nothing in progress, the last event posted and every Lock command    *)
(* given when no report was under way, the LockState attribute is what the   *)
(* GPIO does: a tap racing the Lock, a relock callback that can no longer be *)
(* stopped and a refused Unlock all come out right.                          *)
LastReportWins ==
  stage = "watched" /\ ReportsDone /\ ~lost /\ ~overtaken => lockState = gpio

(* Once taps and commands stop, the attribute comes to agree with the pin    *)
(* and stays so, with the same two exceptions.                               *)
LockStateCatchesUp == CallsStop => <>[](lost \/ overtaken \/ lockState = gpio)
=============================================================================
