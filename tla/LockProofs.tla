------------------------------ MODULE LockProofs ------------------------------
(***************************************************************************)
(* Proofs about the lock output (LockOutput) and about what others say of  *)
(* it once everything has been reported: Matter's LockState attribute      *)
(* (LockReport) and the level an MQTT broker retains (LockPublish), for    *)
(* any set of calling threads and any length of the queues.                *)
(*                                                                         *)
(* The lock output: a statement that clears the armed timer moves the      *)
(* thread that executes it to a place from which it must lock the pin or   *)
(* arm the timer again, and a statement that unlocks the pin is in such a  *)
(* place already.  Owed and FlagOwed name these places, and the two        *)
(* invariants are inductive together with the types.                       *)
(*                                                                         *)
(* The views: at rest the door is locked (RestIsLocked), so a view agrees  *)
(* when the last word it was given is "locked".  For LockState, an         *)
(* "unlocked" that is the last word has an unlock, an armed timer or a     *)
(* relock behind it, which has another word coming.  For the broker, it    *)
(* has a word still to be announced, or the observers themselves were told *)
(* last that the door is open.                                             *)
(***************************************************************************)
EXTENDS LockReport, LockPublish, TLAPS

-----------------------------------------------------------------------------
(* The lock output *)

(* The lock output's variables keep their types through every interleaving   *)
(* of unlock_from(), lock_from() and relock().                               *)
THEOREM TypeCorrect == Spec => []TypeOK
<1>1. Init => TypeOK
  BY DEF Init, TypeOK, Levels, RelockPcs
<1>2. TypeOK /\ [Next]_vars => TypeOK'
  <2> SUFFICES ASSUME TypeOK, [Next]_vars
               PROVE  TypeOK'
    OBVIOUS
  <2> USE DEF TypeOK, Levels, RelockPcs, UnlockPcs, LockPcs, Goto
  <2>1. ASSUME NEW t \in Threads, Unlock(t)
        PROVE  TypeOK'
    <3>1. CASE UnlockStop(t)   BY <3>1 DEF UnlockStop
    <3>2. CASE UnlockGpio(t)   BY <3>2 DEF UnlockGpio
    <3>3. CASE UnlockFlag(t)   BY <3>3 DEF UnlockFlag
    <3>4. CASE UnlockNotify(t) BY <3>4 DEF UnlockNotify
    <3>5. CASE UnlockArm(t)    BY <3>5 DEF UnlockArm
    <3>6. QED BY <2>1, <3>1, <3>2, <3>3, <3>4, <3>5 DEF Unlock
  <2>2. ASSUME NEW t \in Threads, Lock(t)
        PROVE  TypeOK'
    <3>1. CASE LockStop(t)   BY <3>1 DEF LockStop
    <3>2. CASE LockGpio(t)   BY <3>2 DEF LockGpio
    <3>3. CASE LockTest(t)   BY <3>3 DEF LockTest
    <3>4. CASE LockFlag(t)   BY <3>4 DEF LockFlag
    <3>5. CASE LockNotify(t) BY <3>5 DEF LockNotify
    <3>6. QED BY <2>2, <3>1, <3>2, <3>3, <3>4, <3>5 DEF Lock
  <2>3. CASE Relock
    BY <2>3 DEF Relock, RelockFire, RelockGpio, RelockFlag, RelockNotify
  <2>4. CASE UNCHANGED vars
    BY <2>4 DEF vars
  <2>5. QED BY <2>1, <2>2, <2>3, <2>4 DEF Next
<1>3. QED BY <1>1, <1>2, PTL DEF Spec

-----------------------------------------------------------------------------
(* A thread at one of the given statements is a witness of the debt. *)
LEMMA ThreadOwes ==
  ASSUME NEW t \in Threads, pc[t] \in UnlockPcs \cup {"l_gpio"}
  PROVE  Owed /\ FlagOwed
BY DEF Owed, FlagOwed

(* Statements of one thread leave the places of the others alone. *)
LEMMA OthersStay ==
  ASSUME TypeOK, NEW t \in Threads, NEW label, Goto(t, label),
         NEW u \in Threads, u # t
  PROVE  pc'[u] = pc[u]
BY DEF TypeOK, Goto

LEMMA ThreadMoves ==
  ASSUME TypeOK, NEW t \in Threads, NEW label, Goto(t, label)
  PROVE  pc'[t] = label
BY DEF TypeOK, Goto

(* The debts of the pin and of the flag: neither is left with no one to pay. *)
DebtInv == NeverLeftOpen /\ FlagNeverLeftOpen

(* What every statement of an unlock keeps: after it the thread itself owes, *)
(* or, at the last one, the timer it armed does.                             *)
LEMMA UnlockKeepsDebt ==
  ASSUME TypeOK, NEW t \in Threads, Unlock(t)
  PROVE  Owed' /\ FlagOwed'
<1> USE DEF UnlockPcs
<1>1. CASE UnlockArm(t)
  BY <1>1 DEF UnlockArm, Owed, FlagOwed
<1>2. CASE UnlockStop(t) \/ UnlockGpio(t) \/ UnlockFlag(t) \/ UnlockNotify(t)
  <2>1. pc'[t] \in UnlockPcs
    BY <1>2, ThreadMoves DEF UnlockStop, UnlockGpio, UnlockFlag, UnlockNotify
  <2>2. QED BY <2>1 DEF Owed, FlagOwed
<1>3. QED BY <1>1, <1>2 DEF Unlock

LEMMA LockKeepsDebt ==
  ASSUME TypeOK, DebtInv, NEW t \in Threads, Lock(t)
  PROVE  DebtInv'
<1> USE DEF DebtInv, NeverLeftOpen, FlagNeverLeftOpen
<1>1. CASE LockStop(t)
  <2>1. pc'[t] = "l_gpio"
    BY <1>1, ThreadMoves DEF LockStop
  <2>2. QED BY <2>1 DEF Owed, FlagOwed
<1>2. CASE LockGpio(t)
  <2>1. gpio' = "locked"
    BY <1>2 DEF LockGpio
  <2>2. pc'[t] = "l_test"
    BY <1>2, ThreadMoves DEF LockGpio
  <2>3. FlagOwed'
    BY <2>2 DEF FlagOwed
  <2>4. QED BY <2>1, <2>3
<1>3. CASE LockTest(t) \/ LockFlag(t) \/ LockNotify(t)
  (* The thread leaves a place that owes nothing for the pin, and the debt   *)
  (* for the flag only with the flag set or for a place that owes it too.    *)
  <2>1. /\ UNCHANGED <<gpio, armed, relockPc>>
        /\ pc[t] \in {"l_test", "l_flag", "l_notify"}
    BY <1>3 DEF LockTest, LockFlag, LockNotify
  <2>2. PICK label : Goto(t, label)
    BY <1>3 DEF LockTest, LockFlag, LockNotify
  <2>3. Owed => Owed'
    <3> SUFFICES ASSUME NEW u \in Threads, pc[u] \in UnlockPcs \cup {"l_gpio"}
                 PROVE  Owed'
      BY <2>1 DEF Owed
    <3>1. u # t
      BY <2>1 DEF UnlockPcs
    <3>2. QED BY <2>2, <3>1, OthersStay DEF Owed
  <2>4. ~sLocked' => FlagOwed'
    <3> SUFFICES ASSUME ~sLocked'
                 PROVE  FlagOwed'
      OBVIOUS
    <3>1. CASE LockTest(t)
      <4>1. ~sLocked
        BY <3>1 DEF LockTest
      <4>2. pc'[t] = "l_flag"
        BY <3>1, <4>1, ThreadMoves DEF LockTest
      <4>3. QED BY <4>2 DEF FlagOwed
    <3>2. CASE LockFlag(t)
      BY <3>2 DEF LockFlag
    <3>3. CASE LockNotify(t)
      <4>1. ~sLocked /\ FlagOwed
        BY <3>3 DEF LockNotify
      <4>2. CASE armed \/ relockPc \in {"r_gpio", "r_flag"}
        BY <2>1, <4>2 DEF FlagOwed
      <4>3. ASSUME NEW u \in Threads,
                   pc[u] \in UnlockPcs \cup {"l_gpio", "l_test", "l_flag"}
            PROVE  FlagOwed'
        <5>1. u # t
          BY <3>3, <4>3 DEF LockNotify, UnlockPcs
        <5>2. QED BY <2>2, <4>3, <5>1, OthersStay DEF FlagOwed
      <4>4. QED BY <4>1, <4>2, <4>3 DEF FlagOwed
    <3>4. QED BY <1>3, <3>1, <3>2, <3>3
  <2>5. QED BY <2>1, <2>3, <2>4
<1>4. QED BY <1>1, <1>2, <1>3 DEF Lock

LEMMA RelockKeepsDebt ==
  ASSUME TypeOK, DebtInv, Relock
  PROVE  DebtInv'
<1> USE DEF DebtInv, NeverLeftOpen, FlagNeverLeftOpen, Owed, FlagOwed
<1>1. CASE RelockFire   BY <1>1 DEF RelockFire
<1>2. CASE RelockGpio   BY <1>2 DEF RelockGpio
<1>3. CASE RelockFlag   BY <1>3 DEF RelockFlag
<1>4. CASE RelockNotify BY <1>4 DEF RelockNotify
<1>5. QED BY <1>1, <1>2, <1>3, <1>4 DEF Relock

LEMMA DebtInductive ==
  ASSUME TypeOK, DebtInv, [Next]_vars
  PROVE  DebtInv'
<1>1. ASSUME NEW t \in Threads, Unlock(t)
      PROVE  DebtInv'
  BY <1>1, UnlockKeepsDebt DEF DebtInv, NeverLeftOpen, FlagNeverLeftOpen
<1>2. ASSUME NEW t \in Threads, Lock(t)
      PROVE  DebtInv'
  BY <1>2, LockKeepsDebt
<1>3. CASE Relock
  BY <1>3, RelockKeepsDebt
<1>4. CASE UNCHANGED vars
  BY <1>4 DEF vars, DebtInv, NeverLeftOpen, FlagNeverLeftOpen, Owed, FlagOwed
<1>5. QED BY <1>1, <1>2, <1>3, <1>4 DEF Next

-----------------------------------------------------------------------------
LEMMA DebtAlways == Spec => []DebtInv
<1>1. Init => DebtInv
  BY DEF Init, DebtInv, NeverLeftOpen, FlagNeverLeftOpen
<1>2. TypeOK /\ DebtInv /\ [Next]_vars => DebtInv'
  BY DebtInductive
<1>3. QED BY <1>1, <1>2, TypeCorrect, PTL DEF Spec

(* Whatever tasks call and however they interleave, the lock pin is never    *)
(* left unlocked without an armed relock timer, a running relock() or a call *)
(* that will lock it or arm the timer.                                       *)
THEOREM DoorNeverLeftOpen == Spec => []NeverLeftOpen
BY DebtAlways, PTL DEF DebtInv

(* Likewise s_locked never stays FALSE with nobody bound to set it.          *)
THEOREM FlagSettles == Spec => []FlagNeverLeftOpen
BY DebtAlways, PTL DEF DebtInv

(* With every call returned and no relock pending, the door is locked and    *)
(* access_control_is_locked() agrees.                                        *)
THEOREM RestIsLocked == Spec => []AtRestLocked
<1>1. TypeOK /\ DebtInv => AtRestLocked
  BY DEF TypeOK, DebtInv, NeverLeftOpen, FlagNeverLeftOpen, AtRestLocked,
         AtRest, Owed, FlagOwed, Levels, UnlockPcs
<1>2. QED BY <1>1, TypeCorrect, DebtAlways, PTL

-----------------------------------------------------------------------------
(* The lock output implements the abstract latch: initial states map to      *)
(* initial states and every step to taking on a debt, opening under one,     *)
(* paying one by locking, or nothing.                                        *)
THEOREM Refinement == Spec => ImplementsLatch
<1> USE DEF Promise!Owe, Promise!Open, Promise!Shut, Promise!Next, Promise!vars
<1>1. Init => Promise!Init
  BY DEF Init, Promise!Init, Owed, UnlockPcs
<1>2. ASSUME TypeOK, [Next]_vars
      PROVE  [Promise!Next]_(Promise!vars)
  <2>0. Owed \in BOOLEAN /\ Owed' \in BOOLEAN
    BY DEF Owed
  <2>1. ASSUME NEW t \in Threads, Unlock(t)
        PROVE  Promise!Owe \/ Promise!Open
    <3>1. Owed'
      BY <2>1, UnlockKeepsDebt, <1>2
    <3>2. CASE UnlockGpio(t)
      <4>1. Owed
        BY <3>2, ThreadOwes DEF UnlockGpio, UnlockPcs
      <4>2. QED BY <3>1, <3>2, <4>1, <2>0 DEF UnlockGpio
    <3>3. CASE ~UnlockGpio(t)
      <4>1. UNCHANGED gpio
        BY <2>1, <3>3 DEF Unlock, UnlockStop, UnlockFlag, UnlockNotify, UnlockArm
      <4>2. QED BY <3>1, <4>1, <2>0
    <3>4. QED BY <3>2, <3>3
  <2>2. ASSUME NEW t \in Threads, Lock(t)
        PROVE  [Promise!Next]_(Promise!vars)
    <3>1. CASE LockStop(t)
      <4>1. pc'[t] = "l_gpio"
        BY <1>2, <3>1, ThreadMoves DEF LockStop
      <4>2. Owed' /\ UNCHANGED gpio
        BY <3>1, <4>1 DEF LockStop, Owed
      <4>3. QED BY <4>2, <2>0
    <3>2. CASE LockGpio(t)
      <4>1. Owed
        BY <3>2, ThreadOwes DEF LockGpio
      <4>2. QED BY <3>2, <4>1, <2>0 DEF LockGpio
    <3>3. CASE LockTest(t) \/ LockFlag(t) \/ LockNotify(t)
      <4>1. /\ UNCHANGED <<gpio, armed, relockPc>>
            /\ pc[t] \notin UnlockPcs \cup {"l_gpio"}
        BY <3>3 DEF LockTest, LockFlag, LockNotify, UnlockPcs
      <4>2. PICK label \in {"idle", "l_flag", "l_notify"} : Goto(t, label)
        BY <3>3 DEF LockTest, LockFlag, LockNotify
      <4>3. pc'[t] \notin UnlockPcs \cup {"l_gpio"}
        BY <1>2, <4>2, ThreadMoves DEF UnlockPcs
      <4>4. \A u \in Threads : u # t => pc'[u] = pc[u]
        BY <1>2, <4>2, OthersStay
      <4>5. Owed' <=> Owed
        BY <4>1, <4>3, <4>4 DEF Owed
      <4>6. QED BY <4>1, <4>5, <2>0
    <3>4. QED BY <2>2, <3>1, <3>2, <3>3 DEF Lock
  <2>3. CASE Relock
    <3>1. CASE RelockFire
      BY <3>1, <2>0 DEF RelockFire, Owed
    <3>2. CASE RelockGpio
      BY <3>2, <2>0 DEF RelockGpio, Owed
    <3>3. CASE RelockFlag \/ RelockNotify
      <4>1. UNCHANGED gpio /\ (Owed' <=> Owed)
        BY <3>3 DEF RelockFlag, RelockNotify, Owed
      <4>2. QED BY <4>1, <2>0
    <3>4. QED BY <2>3, <3>1, <3>2, <3>3 DEF Relock
  <2>4. CASE UNCHANGED vars
    BY <2>4, <2>0 DEF vars, Owed
  <2>5. QED BY <1>2, <2>1, <2>2, <2>3, <2>4 DEF Next
<1>3. QED BY <1>1, <1>2, TypeCorrect, PTL DEF Spec, ImplementsLatch, Promise!Spec


-----------------------------------------------------------------------------
(* The LockState attribute *)

(* Where the CHIP task's commands and the other tasks can be. *)
Placed ==
  /\ stage \in {"down", "up", "watched"} /\ chipPc \in ChipPcs
  /\ queue \in Seq(Levels) /\ lockState \in Levels
  /\ \A t \in Threads \ {Chip} : pc[t] \in {"idle"} \cup UnlockPcs
  /\ pc[Chip] \in UnlockPcs <=> chipPc = "unlocking"
  /\ pc[Chip] \in LockPcs <=> chipPc = "locking"
  /\ stage = "down" => chipPc = "idle"

(* A relock is still to be reported, or will be. *)
RelockComes ==
  armed \/ relockPc # "idle" \/ \E t \in Threads : pc[t] \in UnlockPcs

(* The last word is "locked", or another one comes.                          *)
Reported ==
  ~lost /\ ~overtaken =>
    /\ queue # <<>> => queue[Len(queue)] = "locked" \/ RelockComes
    /\ queue = <<>> =>
         lockState = "locked" \/ RelockComes \/ chipPc \in {"locking", "report_locked"}
    /\ chipPc = "report_unlocked" => queue # <<>> \/ RelockComes

(* Commands and calls stay in step. *)
LEMMA PlacedInductive ==
  ASSUME TypeOK, Placed, [ReportNext]_allVars
  PROVE  Placed'
<1> USE ChipAssumption DEF Placed, Goto, vars, reportVars, ChipPcs, Levels, UnlockPcs, LockPcs, TypeOK, RelockPcs
<1>1. ASSUME NEW t \in (Threads \ {Chip}), UnlockStop(t), UNCHANGED reportVars
      PROVE  Placed'
  BY <1>1 DEF UnlockStop
<1>2. ASSUME NEW t \in (Threads \ {Chip}), UnlockGpio(t), UNCHANGED reportVars
      PROVE  Placed'
  BY <1>2 DEF UnlockGpio
<1>3. ASSUME NEW t \in (Threads \ {Chip}), UnlockFlag(t), UNCHANGED reportVars
      PROVE  Placed'
  BY <1>3 DEF UnlockFlag
<1>4. ASSUME NEW t \in (Threads \ {Chip}), UnlockArm(t), UNCHANGED reportVars
      PROVE  Placed'
  BY <1>4 DEF UnlockArm
<1>5. ASSUME RelockFire, UNCHANGED reportVars
      PROVE  Placed'
  BY <1>5 DEF RelockFire
<1>6. ASSUME RelockGpio, UNCHANGED reportVars
      PROVE  Placed'
  BY <1>6 DEF RelockGpio
<1>7. ASSUME RelockFlag, UNCHANGED reportVars
      PROVE  Placed'
  BY <1>7 DEF RelockFlag
<1>8. ASSUME NEW t \in (Threads \ {Chip}), UnlockNotify(t), Post("unlocked") /\ UNCHANGED overtaken
      PROVE  Placed'
  BY <1>8 DEF UnlockNotify, Post
<1>9. CASE AutoRelocked
  BY <1>9 DEF AutoRelocked, RelockNotify, Post
<1>10. CASE UnlockCommand
  BY <1>10 DEF UnlockCommand, UnlockStop
<1>11. CASE UnlockRuns
  BY <1>11 DEF UnlockRuns, UnlockGpio, UnlockFlag, UnlockNotify
<1>12. CASE UnlockReturns
  BY <1>12 DEF UnlockReturns, UnlockArm
<1>13. CASE LockCommand
  BY <1>13 DEF LockCommand, LockStop, ReportsUnderWay
<1>14. CASE LockRuns
  BY <1>14 DEF LockRuns, LockGpio, LockTest, LockFlag, LockNotify
<1>15. CASE CommandReports
  BY <1>15 DEF CommandReports
<1>16. CASE ApplyReport
  BY <1>16 DEF ApplyReport
<1>17. CASE ClusterInit
  BY <1>17 DEF ClusterInit
<1>18. CASE AddObserver
  BY <1>18 DEF AddObserver
<1>19. CASE UNCHANGED allVars
  BY <1>19 DEF allVars
<1> HIDE DEF Placed, Goto, vars, reportVars, ChipPcs, Levels, UnlockPcs, LockPcs, TypeOK, RelockPcs
<1>20. QED
  BY <1>1, <1>2, <1>3, <1>4, <1>5, <1>6, <1>7, <1>8, <1>9, <1>10, <1>11, <1>12,
     <1>13, <1>14, <1>15, <1>16, <1>17, <1>18, <1>19
  DEF ReportNext, Outside, OutsideQuietly, TapUnlocked, ChipContinues

(* Every step leaves the last word right, or another one to come. *)
LEMMA ReportedInductive ==
  ASSUME TypeOK, FlagNeverLeftOpen, Placed, Reported, [ReportNext]_allVars
  PROVE  Reported'
<1> USE ChipAssumption DEF Placed, Reported, RelockComes, FlagNeverLeftOpen, FlagOwed, Goto, vars, reportVars, ChipPcs, Levels, UnlockPcs, LockPcs, TypeOK, RelockPcs
<1>1. ASSUME NEW t \in (Threads \ {Chip}), UnlockStop(t), UNCHANGED reportVars
      PROVE  Reported'
  BY <1>1 DEF UnlockStop
<1>2. ASSUME NEW t \in (Threads \ {Chip}), UnlockGpio(t), UNCHANGED reportVars
      PROVE  Reported'
  BY <1>2 DEF UnlockGpio
<1>3. ASSUME NEW t \in (Threads \ {Chip}), UnlockFlag(t), UNCHANGED reportVars
      PROVE  Reported'
  BY <1>3 DEF UnlockFlag
<1>4. ASSUME NEW t \in (Threads \ {Chip}), UnlockArm(t), UNCHANGED reportVars
      PROVE  Reported'
  BY <1>4 DEF UnlockArm
<1>5. ASSUME RelockFire, UNCHANGED reportVars
      PROVE  Reported'
  BY <1>5 DEF RelockFire
<1>6. ASSUME RelockGpio, UNCHANGED reportVars
      PROVE  Reported'
  BY <1>6 DEF RelockGpio
<1>7. ASSUME RelockFlag, UNCHANGED reportVars
      PROVE  Reported'
  BY <1>7 DEF RelockFlag
<1>8. ASSUME NEW t \in (Threads \ {Chip}), UnlockNotify(t), Post("unlocked") /\ UNCHANGED overtaken
      PROVE  Reported'
  BY <1>8 DEF UnlockNotify, Post
<1>9. CASE AutoRelocked
  BY <1>9 DEF AutoRelocked, RelockNotify, Post
<1>10. CASE UnlockCommand
  BY <1>10 DEF UnlockCommand, UnlockStop
<1>11. CASE UnlockRuns
  BY <1>11 DEF UnlockRuns, UnlockGpio, UnlockFlag, UnlockNotify
<1>12. CASE UnlockReturns
  BY <1>12 DEF UnlockReturns, UnlockArm
<1>13. CASE LockCommand
  BY <1>13 DEF LockCommand, LockStop, ReportsUnderWay
<1>14. CASE LockRuns
  <2>1. /\ queue' = queue /\ lockState' = lockState /\ armed' = armed
        /\ relockPc' = relockPc /\ lost' = lost /\ overtaken' = overtaken
    BY <1>14 DEF LockRuns, LockGpio, LockTest, LockFlag, LockNotify
  <2>2. chipPc' \in {"locking", "report_locked"} /\ pc[Chip] \notin UnlockPcs
    BY <1>14 DEF LockRuns
  <2>3. \A t \in Threads \ {Chip} : pc'[t] = pc[t]
    BY <1>14 DEF LockRuns, LockGpio, LockTest, LockFlag, LockNotify
  <2>4. RelockComes => RelockComes'
    BY <2>1, <2>2, <2>3
  <2> HIDE DEF RelockComes
  <2>5. QED BY <2>1, <2>2, <2>4
<1>15. CASE CommandReports
  BY <1>15 DEF CommandReports
<1>16. CASE ApplyReport
  <2>1. /\ chipPc' = "idle" /\ queue # <<>> /\ queue' = Tail(queue) /\ lockState' = Head(queue)
        /\ lost' = lost /\ overtaken' = overtaken /\ (RelockComes' <=> RelockComes)
    <3>1. chipPc' = chipPc /\ UNCHANGED <<vars, lost, overtaken>>
      BY <1>16 DEF ApplyReport
    <3>2. RelockComes' <=> RelockComes
      BY <3>1
    <3>3. QED BY <1>16, <3>1, <3>2 DEF ApplyReport
  <2>2. Len(queue) \in Nat \ {0} /\ Len(queue') = Len(queue) - 1
    BY <2>1
  <2>3. queue' = <<>> => lockState' = queue[Len(queue)]
    <3>1. queue' = <<>> => Len(queue') = 0
      OBVIOUS
    <3>2. Head(queue) = queue[1]
      BY <2>1
    <3>3. QED BY <2>1, <2>2, <3>1, <3>2
  <2>4. queue' # <<>> => queue'[Len(queue')] = queue[Len(queue)]
    BY <2>1, <2>2
  <2> HIDE DEF RelockComes
  <2>5. QED BY <2>1, <2>3, <2>4
<1>17. CASE ClusterInit
  BY <1>17 DEF ClusterInit
<1>18. CASE AddObserver
  BY <1>18 DEF AddObserver
<1>19. CASE UNCHANGED allVars
  BY <1>19 DEF allVars
<1> HIDE DEF Placed, Reported, RelockComes, FlagNeverLeftOpen, FlagOwed, Goto, vars, reportVars, ChipPcs, Levels, UnlockPcs, LockPcs, TypeOK, RelockPcs
<1>20. QED
  BY <1>1, <1>2, <1>3, <1>4, <1>5, <1>6, <1>7, <1>8, <1>9, <1>10, <1>11, <1>12,
     <1>13, <1>14, <1>15, <1>16, <1>17, <1>18, <1>19
  DEF ReportNext, Outside, OutsideQuietly, TapUnlocked, ChipContinues

(* A step of the report's path is a step of the lock output, or none of it. *)
LEMMA StepsOfTheLock ==
  ASSUME [ReportNext]_allVars
  PROVE  [Next]_vars
<1> USE ChipAssumption DEF Next, Unlock, Lock, Relock
<1>1. CASE Outside
  BY <1>1 DEF Outside, OutsideQuietly, TapUnlocked, AutoRelocked
<1>2. CASE UnlockCommand \/ UnlockRuns \/ UnlockReturns
  BY <1>2 DEF UnlockCommand, UnlockRuns, UnlockReturns
<1>3. CASE LockCommand \/ LockRuns
  BY <1>3 DEF LockCommand, LockRuns
<1>4. CASE CommandReports \/ ApplyReport \/ ClusterInit \/ AddObserver \/ UNCHANGED allVars
  BY <1>4 DEF CommandReports, ApplyReport, ClusterInit, AddObserver, allVars
<1>5. QED
  BY <1>1, <1>2, <1>3, <1>4 DEF ReportNext, ChipContinues

(* The lock output runs beside the CHIP task (on_access_event_for_matter(),  *)
(* the Lock and Unlock commands) as it does by itself: a step of the report  *)
(* is one of LockOutput, or leaves the lock alone.                           *)
THEOREM LockRunsHere == ReportSpec => Spec
<1>1. ReportInit => Init
  BY DEF ReportInit
<1>2. [ReportNext]_allVars => [Next]_vars
  BY StepsOfTheLock
<1>3. QED
  BY <1>1, <1>2, PTL DEF ReportSpec, Spec

(* With nothing in progress, the last event posted and no Lock command given *)
(* while reports were under way, LockState is what the pin does: for any     *)
(* number of tasks that unlock, and any queue.                               *)
THEOREM LastWordIsRight == ReportSpec => []LastReportWins
<1>1. ReportInit => Placed /\ Reported
  BY ChipAssumption DEF ReportInit, Init, Placed, Reported, ChipPcs, Levels, UnlockPcs, LockPcs
<1>2. ASSUME TypeOK, FlagNeverLeftOpen, Placed, Reported, [ReportNext]_allVars
      PROVE  Placed' /\ Reported'
  BY <1>2, PlacedInductive, ReportedInductive
<1>3. ASSUME AtRestLocked, Placed, Reported
      PROVE  LastReportWins
  BY <1>3 DEF AtRestLocked, LastReportWins, ReportsDone, AtRest, Placed, Reported, RelockComes, UnlockPcs
<1>4. QED
  BY <1>1, <1>2, <1>3, LockRunsHere, TypeCorrect, FlagSettles, RestIsLocked, PTL DEF ReportSpec

-----------------------------------------------------------------------------
(* The level the broker retains *)

(* What has been written to the broker, and what is to be. *)
PublishTypes ==
  /\ flight \in Seq(Levels) /\ retained \in Levels /\ answer \in Levels
  /\ again \subseteq Levels /\ mqttPc \in {"idle", "read", "publish"}

(* The level that the broker comes to retain if nothing more is sent. *)
LastSent == IF flight # <<>> THEN flight[Len(flight)] ELSE retained

(* A word on a change to "locked" is still to be announced. *)
LockedComes ==
  \/ ~sLocked \/ relockPc = "r_notify"
  \/ \E t \in Threads : pc[t] = "l_notify"

(* A level is no older than what the observers were told, or they will be    *)
(* told of the change.                                                       *)
Told(level) == level = "locked" \/ announced = "unlocked" \/ LockedComes

(* The level sent last is in order, and so is the one about to be sent.      *)
Published ==
  link /\ connected /\ ~doubtful =>
    /\ mqttPc = "idle" => Told(LastSent)
    /\ mqttPc = "publish" => Told(answer)

(* Sending, losing and sending again keep the messages levels. *)
LEMMA PublishTyped ==
  ASSUME PublishTypes, [PublishNext]_publishVars
  PROVE  PublishTypes'
<1> USE DEF PublishTypes, Levels, mqttVars
<1>1. ASSUME NEW level \in Levels, Send(level)
      PROVE  flight' \in Seq(Levels) /\ again' \subseteq Levels
  <2>1. CASE link
    <3>1. flight' = Append(flight, level) /\ again' = again
      BY <1>1, <2>1 DEF Send
    <3>2. QED BY <3>1
  <2>2. CASE ~link
    <3>1. flight' = flight /\ again' = again \cup {level}
      BY <1>1, <2>2 DEF Send
    <3>2. QED BY <3>1
  <2>3. QED BY <2>1, <2>2
<1>2. CASE Quietly
  BY <1>2 DEF Quietly
<1>3. CASE Announced
  BY <1>1, <1>3 DEF Announced, Observe
<1>4. CASE StartClient \/ AddMqttObserver
  BY <1>4 DEF StartClient, AddMqttObserver
<1>5. CASE OnConnected \/ OnDisconnected \/ ReadState
  BY <1>5 DEF OnConnected, OnDisconnected, ReadState
<1>6. CASE PublishState
  BY <1>1, <1>6 DEF PublishState
<1>7. CASE OnUnlock \/ OnLock \/ Connect \/ Expire
  BY <1>7 DEF OnUnlock, OnLock, Connect, Expire
<1>8. CASE LoseLink
  <2>1. \A i \in DOMAIN flight : flight[i] \in Levels
    OBVIOUS
  <2>2. /\ flight' = <<>> /\ retained' \in Levels /\ again' \subseteq Levels
        /\ UNCHANGED <<answer, mqttPc>>
    BY <1>8, <2>1 DEF LoseLink
  <2>3. QED BY <2>2
<1>9. CASE Arrive
  BY <1>9 DEF Arrive
<1>10. CASE SendAgain
  BY <1>10 DEF SendAgain
<1>11. CASE UNCHANGED publishVars
  BY <1>11 DEF publishVars
<1>12. QED
  BY <1>2, <1>3, <1>4, <1>5, <1>6, <1>7, <1>8, <1>9, <1>10, <1>11
  DEF PublishNext, MqttTask

(* A change to "locked" that is to be announced stays so until it is.        *)
LEMMA LockedStillComes ==
  ASSUME TypeOK, Quietly
  PROVE  announced' = announced /\ (LockedComes => LockedComes')
<1> USE DEF LockedComes, TypeOK, Goto, UnlockPcs, LockPcs, RelockPcs, Levels
<1>1. ASSUME NEW t \in Threads,
             UnlockStop(t) \/ UnlockGpio(t) \/ UnlockFlag(t) \/ UnlockArm(t)
      PROVE  announced' = announced /\ (LockedComes => LockedComes')
  BY <1>1 DEF UnlockStop, UnlockGpio, UnlockFlag, UnlockArm
<1>2. ASSUME NEW t \in Threads,
             LockStop(t) \/ LockGpio(t) \/ LockTest(t) \/ LockFlag(t)
      PROVE  announced' = announced /\ (LockedComes => LockedComes')
  BY <1>2 DEF LockStop, LockGpio, LockTest, LockFlag
<1>3. CASE RelockFire \/ RelockGpio \/ RelockFlag
  BY <1>3 DEF RelockFire, RelockGpio, RelockFlag
<1> HIDE DEF LockedComes
<1>4. QED BY <1>1, <1>2, <1>3, MqttAssumption DEF Quietly

(* What is written to a connection is what the broker comes to retain.       *)
LEMMA SentLast ==
  ASSUME PublishTypes, NEW level \in Levels, link, Send(level)
  PROVE  LastSent' = level
<1>1. flight' = Append(flight, level) /\ flight \in Seq(Levels)
  BY DEF Send, PublishTypes
<1>2. Len(flight') = Len(flight) + 1 /\ flight'[Len(flight')] = level
  BY <1>1
<1>3. flight' # <<>>
  BY <1>1
<1>4. QED BY <1>2, <1>3 DEF LastSent

(* What arrives does not change what comes last. *)
LEMMA ArrivalsKeepTheLast ==
  ASSUME PublishTypes, Arrive
  PROVE  LastSent' = LastSent
<1>1. /\ flight \in Seq(Levels) /\ flight # <<>>
      /\ flight' = Tail(flight) /\ retained' = Head(flight)
  BY DEF Arrive, PublishTypes
<1>2. Len(flight) \in Nat \ {0} /\ Len(flight') = Len(flight) - 1
  BY <1>1
<1>3. CASE flight' = <<>>
  <2>1. Len(flight') = 0
    BY <1>3
  <2>2. Len(flight) = 1 /\ Head(flight) = flight[1]
    BY <1>1, <1>2, <2>1
  <2>3. QED BY <1>1, <1>3, <2>2 DEF LastSent
<1>4. CASE flight' # <<>>
  <2>1. flight'[Len(flight')] = flight[Len(flight)]
    BY <1>1, <1>2, <1>4
  <2>2. QED BY <1>1, <1>4, <2>1 DEF LastSent
<1>5. QED BY <1>3, <1>4

(* Every step keeps the words sent in order. *)
LEMMA PublishedInductive ==
  ASSUME TypeOK, PublishTypes, Published, [PublishNext]_publishVars
  PROVE  Published'
<1> USE DEF Published
<1>1. CASE Quietly
  <2>1. UNCHANGED mqttVars /\ LastSent' = LastSent
    BY <1>1 DEF Quietly, mqttVars, LastSent
  <2>2. announced' = announced /\ (LockedComes => LockedComes')
    BY <1>1, LockedStillComes
  <2>3. QED BY <2>1, <2>2 DEF Told, mqttVars
<1>2. CASE Announced
  <2>1. CASE announced' = "unlocked"
    BY <2>1 DEF Told
  <2>2. CASE announced' # "unlocked"
    <3>1. Observe("locked")
      BY <1>2, <2>2 DEF Announced, UnlockNotify
    <3>2. SUFFICES ASSUME link, connected, ~doubtful'
                   PROVE  Told(LastSent)' /\ (mqttPc = "publish" => answer = "locked")
      BY <3>1 DEF Observe, Told
    <3>3. boot = "watched" /\ (mqttPc = "publish" => answer = "locked")
      BY <3>1, <3>2 DEF Observe
    <3>4. LastSent' = "locked"
      BY <3>1, <3>2, <3>3, SentLast DEF Observe, Levels
    <3>5. QED BY <3>3, <3>4 DEF Told
  <2>3. QED BY <2>1, <2>2
<1>3. CASE StartClient \/ AddMqttObserver \/ Expire
  <2>1. /\ UNCHANGED <<vars, link, connected, mqttPc, answer, flight, retained, doubtful>>
    BY <1>3 DEF StartClient, AddMqttObserver, Expire
  <2>2. QED BY <2>1 DEF Told, LastSent, LockedComes, vars
<1>4. CASE OnConnected \/ OnDisconnected \/ OnLock
  <2>1. mqttPc' = "read" \/ ~connected'
    BY <1>4 DEF OnConnected, OnDisconnected, OnLock
  <2>2. QED BY <2>1
<1>5. CASE ReadState
  BY <1>5 DEF ReadState, Told, LockedComes, vars
<1>6. CASE PublishState
  <2>1. /\ UNCHANGED <<vars, link, connected, doubtful>>
        /\ mqttPc = "publish" /\ mqttPc' = "idle" /\ Send(answer)
    BY <1>6 DEF PublishState
  <2>2. link => LastSent' = answer
    BY <2>1, SentLast DEF PublishTypes
  <2>3. QED BY <2>1, <2>2 DEF Told, LockedComes, vars
<1>7. CASE OnUnlock
  <2>1. UNCHANGED mqttVars /\ LastSent' = LastSent
    BY <1>7 DEF OnUnlock, mqttVars, LastSent
  <2>2. announced' = announced /\ (LockedComes => LockedComes')
    BY <1>7 DEF OnUnlock, UnlockStop, LockedComes, TypeOK, Goto
  <2>3. QED BY <2>1, <2>2 DEF Told, mqttVars
<1>8. CASE Connect \/ LoseLink
  BY <1>8 DEF Connect, LoseLink
<1>9. CASE Arrive
  <2>1. UNCHANGED <<vars, link, connected, mqttPc, answer, doubtful>>
    BY <1>9 DEF Arrive
  <2>2. QED BY <1>9, <2>1, ArrivalsKeepTheLast DEF Told, LockedComes, vars
<1>10. CASE SendAgain
  BY <1>10 DEF SendAgain
<1>11. CASE UNCHANGED publishVars
  BY <1>11 DEF publishVars, mqttVars, vars, Told, LastSent, LockedComes
<1>12. QED
  BY <1>1, <1>2, <1>3, <1>4, <1>5, <1>6, <1>7, <1>8, <1>9, <1>10, <1>11
  DEF PublishNext, MqttTask

(* The lock output runs beside the MQTT client, too, as it does by itself:   *)
(* publishing and the client's own unlock (handle_command()) are steps of    *)
(* LockOutput, or leave the lock alone.                                      *)
THEOREM LockRunsBesideMqtt == PublishSpec => Spec
<1>1. PublishInit => Init
  BY DEF PublishInit
<1>2. [PublishNext]_publishVars => [Next]_vars
  <2> USE MqttAssumption DEF Next, Unlock, Lock, Relock
  <2>1. CASE Quietly \/ Announced \/ OnUnlock
    BY <2>1 DEF Quietly, Announced, OnUnlock
  <2>2. CASE \/ StartClient \/ AddMqttObserver \/ MqttTask \/ OnLock
             \/ Connect \/ LoseLink \/ Arrive \/ SendAgain \/ Expire
             \/ UNCHANGED publishVars
    BY <2>2 DEF StartClient, AddMqttObserver, MqttTask, OnConnected, OnDisconnected,
                ReadState, PublishState, OnLock, Connect, LoseLink, Arrive, SendAgain,
                Expire, publishVars
  <2>3. QED BY <2>1, <2>2 DEF PublishNext
<1>3. QED
  BY <1>1, <1>2, PTL DEF PublishSpec, Spec

(* With nothing under way and a connection made, the broker retains what the *)
(* lock does, with the exceptions RetainedIsState names: for any number of   *)
(* tasks, any number of connections lost and any length of the connection's  *)
(* queue.                                                                    *)
THEOREM BrokerIsRight == PublishSpec => []RetainedIsState
<1>1. PublishInit => PublishTypes /\ Published
  BY DEF PublishInit, PublishTypes, Published, Levels
<1>2. PublishTypes /\ [PublishNext]_publishVars => PublishTypes'
  BY PublishTyped
<1>3. TypeOK /\ PublishTypes /\ Published /\ [PublishNext]_publishVars => Published'
  BY PublishedInductive
<1>4. AtRestLocked /\ PublishTypes /\ Published => RetainedIsState
  BY DEF AtRestLocked, RetainedIsState, PublishDone, AtRest, Free, Published,
         Told, LastSent, LockedComes
<1>5. QED
  BY <1>1, <1>2, <1>3, <1>4, LockRunsBesideMqtt, TypeCorrect, RestIsLocked, PTL
  DEF PublishSpec
=============================================================================
