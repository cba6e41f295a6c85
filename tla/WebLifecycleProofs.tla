-------------------------- MODULE WebLifecycleProofs --------------------------
(***************************************************************************)
(* One starter at a time and no suspension without a watchdog, for any     *)
(* number of commissioning attempts and access events.                     *)
(***************************************************************************)
EXTENDS WebLifecycle, FiniteSetTheorems, TLAPS

Starting(t) == pc[t] \in {"start", "infra", "listen"}
TearingDown == pc["chip"] \in {"stopping", "teardown", "guard"}
Suspending == pc["chip"] = "down" \/ TearingDown
Watching == pc["timer"] \in {"watch", "claimOff"}

(* Which functions a task can be in, and what it returns to. *)
Placed ==
    /\ pc \in [Tasks -> {"boot", "arm", "idle", "deferred", "start", "infra", "listen", "after",
                         "claimOn", "claimOff", "down", "stopping", "teardown", "guard", "watch"}]
    /\ then \in [Tasks -> {"idle", "after"}]
    /\ pc["main"] \in {"boot", "arm", "idle", "start", "infra", "listen", "after"}
    /\ pc["chip"] \notin {"boot", "arm", "watch"}
    /\ pc["timer"] \in {"idle", "deferred", "start", "infra", "listen", "after", "watch", "claimOff"}
    /\ \A t \in Tasks : IF then[t] = "after" THEN Starting(t) \/ pc[t] = "after"
                                             ELSE pc[t] # "after"
    /\ Starting("main") => then["main"] = "after"
    /\ senders \in Nat /\ overtook \in BOOLEAN /\ failed \in BOOLEAN

(* Before the first start nothing else can have happened to the server. *)
Fresh ==
    /\ ~server /\ watchdog = "none"
    /\ ~TearingDown /\ ~Watching
    /\ suspended => pc["chip"] = "down"
FirstStart ==
    /\ pc["main"] = "boot" => ~pending
    /\ pc["main"] = "boot" \/ pending => Fresh /\ \A t \in Tasks : ~Starting(t)
    /\ \A t \in Tasks : Starting(t) /\ then[t] = "after" => Fresh

(* Whoever starts the server is the only one, and no start is deferred. *)
OneAtATime ==
    \A t \in Tasks : Starting(t) =>
        /\ pc["main"] # "boot" /\ ~pending
        /\ \A u \in Tasks \ {t} : ~Starting(u)
        /\ pc[t] # "start" => ~server

(* The starts of the CHIP task and of the watchdog's callback after a        *)
(* resume; the latter may meet a new session on its way to the stop.         *)
Resuming ==
    /\ Starting("chip") => ~server /\ ~suspended
    /\ Starting("timer") /\ then["timer"] = "idle" =>
        /\ watchdog # "none"
        /\ suspended => pc["chip"] = "down" /\ ~server
        /\ server => pc["chip"] \in {"down", "stopping"}
    /\ Watching => watchdog # "none"

(* While a session takes the server down. *)
Stopping ==
    /\ pc["chip"] = "stopping" => server
    /\ suspended /\ server => pc["chip"] \in {"down", "stopping"}
    /\ pc["chip"] \in {"teardown", "guard"} /\ watchdog = "none" => ~server
    /\ suspended /\ pc["chip"] = "guard" => mutex = "null"
    /\ suspended /\ ~Suspending => mutex = "null" /\ (watchdog = "armed" \/ Watching)

Calls == Placed /\ FirstStart /\ OneAtATime /\ Resuming /\ Stopping

(* Until a session overtakes the watchdog's callback, nobody resumes what    *)
(* is being suspended, nor starts what is being torn down, and a session     *)
(* that neither expired nor missed keeps the server suspended.               *)
InTurn ==
    /\ pc["chip"] = "claimOff" => ~session
    /\ overtook \/
        /\ Suspending => suspended
        /\ watchdog = "armed" => suspended /\ ~Suspending
        /\ Watching => ~Suspending /\ expired /\ (pc["chip"] = "claimOn" => suspended)
        /\ server \/ (\E t \in Tasks : pc[t] = "listen") => mutex = "live"
        /\ session /\ ~expired /\ ~missed => suspended \/ pc["chip"] = "claimOn"

(* One sender task for the server that listens, for the one being started    *)
(* and for the one being taken down; or one more was left by a start that    *)
(* failed, after which nothing starts the server unless overtaken.           *)
One(b) == IF b THEN 1 ELSE 0
Wanted == One(server) + One(pc["chip"] = "teardown") + One(\E t \in Tasks : pc[t] = "listen")
GivenUp ==
    /\ ~server /\ ~pending /\ pc["main"] # "boot" /\ ~TearingDown
    /\ \A t \in Tasks : ~Starting(t)
    /\ suspended => pc["chip"] = "down"
Counted == senders = Wanted \/ (failed /\ (overtook \/ GivenUp))

-----------------------------------------------------------------------------

(* Every step keeps the starts, stops and resumes apart. *)
LEMMA CallsInductive ==
    ASSUME Calls, [Next]_vars
    PROVE  Calls'
<1> USE DEF Calls, Placed, FirstStart, OneAtATime, Resuming, Stopping, Fresh, Starting,
            TearingDown, Suspending, Watching, Goto, Tasks,
            start, deferral, suspension, outside, history
<1>1. ASSUME NEW t \in Tasks, StartGuard(t) PROVE Calls'
  BY <1>1 DEF StartGuard, StartReturns, Return
<1>2. ASSUME NEW t \in Tasks, StartInfra(t) PROVE Calls'
  <2>1. Placed'
    <3>1. failed' \in BOOLEAN /\ overtook' \in BOOLEAN /\ senders' \in Nat /\ then' = then
      <4>1. failed' \in BOOLEAN
        BY <1>2 DEF StartInfra
      <4>2. overtook' \in BOOLEAN
        BY <1>2 DEF StartInfra
      <4>3. senders' \in Nat /\ then' = then
        BY <1>2 DEF StartInfra
      <4>4. QED BY <4>1, <4>2, <4>3
    <3>2. pc' = [pc EXCEPT ![t] = pc'[t]] /\ pc[t] \in {"infra", "listen"}
          /\ (pc'[t] = "listen" \/ pc'[t] = IF then[t] = "idle" THEN "idle" ELSE then[t])
      BY <1>2 DEF StartInfra, StartReturns, Return
    <3>3. QED BY <3>1, <3>2
  <2>2. FirstStart'
    BY <1>2 DEF StartInfra, StartReturns, Return
  <2>3. OneAtATime'
    BY <1>2 DEF StartInfra, StartReturns, Return
  <2>4. Resuming'
    BY <1>2 DEF StartInfra, StartReturns, Return
  <2>5. Stopping'
    BY <1>2 DEF StartInfra, StartReturns, Return
  <2>6. QED BY <2>1, <2>2, <2>3, <2>4, <2>5 DEF Calls
<1>3. ASSUME NEW t \in Tasks, StartListening(t) PROVE Calls'
  <2>1. Placed'
    <3>1. failed' \in BOOLEAN /\ overtook' \in BOOLEAN /\ senders' \in Nat /\ then' = then
      BY <1>3 DEF StartListening
    <3>2. pc' = [pc EXCEPT ![t] = pc'[t]] /\ pc[t] \in {"infra", "listen"}
          /\ (pc'[t] = "listen" \/ pc'[t] = IF then[t] = "idle" THEN "idle" ELSE then[t])
      BY <1>3 DEF StartListening, StartReturns, Return
    <3>3. QED BY <3>1, <3>2
  <2>2. FirstStart'
    BY <1>3 DEF StartListening, StartReturns, Return
  <2>3. OneAtATime'
    BY <1>3 DEF StartListening, StartReturns, Return
  <2>4. Resuming'
    BY <1>3 DEF StartListening, StartReturns, Return
  <2>5. Stopping'
    BY <1>3 DEF StartListening, StartReturns, Return
  <2>6. QED BY <2>1, <2>2, <2>3, <2>4, <2>5 DEF Calls
<1>4. ASSUME NEW t \in Tasks, ClaimDeferred(t) PROVE Calls'
  BY <1>4 DEF ClaimDeferred, Return
<1>5. ASSUME NEW t \in Tasks, RunAfter(t) PROVE Calls'
  BY <1>5 DEF RunAfter, Return
<1>6. ASSUME NEW t \in Tasks, ClaimResume(t) PROVE Calls'
  BY <1>6 DEF ClaimResume, Return
<1>7. ASSUME NEW t \in Tasks, ClaimSuspend(t) PROVE Calls'
  BY <1>7 DEF ClaimSuspend, Return
<1>8. ASSUME NEW t \in Tasks, Suspend(t) PROVE Calls'
  BY <1>8 DEF Suspend, Return
<1>9. ASSUME NEW t \in Tasks, HttpdStopped(t) PROVE Calls'
  BY <1>9 DEF HttpdStopped
<1>10. ASSUME NEW t \in Tasks, TearDown(t) PROVE Calls'
  BY <1>10 DEF TearDown
<1>11. ASSUME NEW t \in Tasks, ArmWatchdog(t) PROVE Calls'
  BY <1>11 DEF ArmWatchdog, Return
<1>12. CASE BootDeferred
  BY <1>12 DEF BootDeferred
<1>13. CASE ArmDeadline
  BY <1>13 DEF ArmDeadline
<1>14. CASE DeferFires
  BY <1>14 DEF DeferFires
<1>15. CASE StackReady
  BY <1>15 DEF StackReady
<1>16. CASE SessionStarted
  BY <1>16 DEF SessionStarted
<1>17. CASE SessionEnded
  BY <1>17 DEF SessionEnded
<1>18. CASE WatchdogFires
  BY <1>18 DEF WatchdogFires
<1>19. CASE WatchdogReads
  BY <1>19 DEF WatchdogReads
<1>20. CASE \/ RequestStatus \/ LockStack \/ AnswerStatus \/ AccessEvent \/ Broadcast
          \/ UNCHANGED vars
  BY <1>20 DEF RequestStatus, LockStack, AnswerStatus, AccessEvent, Broadcast, vars
<1> HIDE DEF Calls
<1>21. QED
  BY <1>1, <1>2, <1>3, <1>4, <1>5, <1>6, <1>7, <1>8, <1>9, <1>10, <1>11, <1>12,
     <1>13, <1>14, <1>15, <1>16, <1>17, <1>18, <1>19, <1>20
  DEF Next, Step, StartStep, DeferStep, ResumeStep, SuspendStep, Boot, Timers, Httpd

(* And their turns, *)
LEMMA InTurnInductive ==
    ASSUME Calls, InTurn, [Next]_vars
    PROVE  InTurn'
<1> USE DEF Calls, Placed, FirstStart, OneAtATime, Resuming, Stopping, Fresh, Starting,
            TearingDown, Suspending, Watching, Goto, Tasks,
            start, deferral, suspension, outside, history, InTurn
<1>1. ASSUME NEW t \in Tasks, StartGuard(t) PROVE InTurn'
  BY <1>1 DEF StartGuard, StartReturns, Return
<1>2. ASSUME NEW t \in Tasks, StartInfra(t) PROVE InTurn'
  BY <1>2 DEF StartInfra, StartReturns, Return
<1>3. ASSUME NEW t \in Tasks, StartListening(t) PROVE InTurn'
  BY <1>3 DEF StartListening, StartReturns, Return
<1>4. ASSUME NEW t \in Tasks, ClaimDeferred(t) PROVE InTurn'
  BY <1>4 DEF ClaimDeferred, Return
<1>5. ASSUME NEW t \in Tasks, RunAfter(t) PROVE InTurn'
  BY <1>5 DEF RunAfter, Return
<1>6. ASSUME NEW t \in Tasks, ClaimResume(t) PROVE InTurn'
  BY <1>6 DEF ClaimResume, Return
<1>7. ASSUME NEW t \in Tasks, ClaimSuspend(t) PROVE InTurn'
  BY <1>7 DEF ClaimSuspend, Return
<1>8. ASSUME NEW t \in Tasks, Suspend(t) PROVE InTurn'
  BY <1>8 DEF Suspend, Return
<1>9. ASSUME NEW t \in Tasks, HttpdStopped(t) PROVE InTurn'
  BY <1>9 DEF HttpdStopped
<1>10. ASSUME NEW t \in Tasks, TearDown(t) PROVE InTurn'
  BY <1>10 DEF TearDown
<1>11. ASSUME NEW t \in Tasks, ArmWatchdog(t) PROVE InTurn'
  BY <1>11 DEF ArmWatchdog, Return
<1>12. CASE BootDeferred
  BY <1>12 DEF BootDeferred
<1>13. CASE ArmDeadline
  BY <1>13 DEF ArmDeadline
<1>14. CASE DeferFires
  BY <1>14 DEF DeferFires
<1>15. CASE StackReady
  BY <1>15 DEF StackReady
<1>16. CASE SessionStarted
  BY <1>16 DEF SessionStarted
<1>17. CASE SessionEnded
  BY <1>17 DEF SessionEnded
<1>18. CASE WatchdogFires
  BY <1>18 DEF WatchdogFires
<1>19. CASE WatchdogReads
  BY <1>19 DEF WatchdogReads
<1>20. CASE \/ RequestStatus \/ LockStack \/ AnswerStatus \/ AccessEvent \/ Broadcast
          \/ UNCHANGED vars
  BY <1>20 DEF RequestStatus, LockStack, AnswerStatus, AccessEvent, Broadcast, vars
<1>21. QED
  BY <1>1, <1>2, <1>3, <1>4, <1>5, <1>6, <1>7, <1>8, <1>9, <1>10, <1>11, <1>12,
     <1>13, <1>14, <1>15, <1>16, <1>17, <1>18, <1>19, <1>20
  DEF Next, Step, StartStep, DeferStep, ResumeStep, SuspendStep, Boot, Timers, Httpd

(* and every sender task accounted for. *)
LEMMA CountedInductive ==
    ASSUME Calls, Calls', InTurn, Counted, [Next]_vars
    PROVE  Counted'
<1> USE DEF Calls, Placed, FirstStart, OneAtATime, Resuming, Stopping, Fresh, Starting,
            TearingDown, Suspending, Watching, Goto, Tasks,
            start, deferral, suspension, outside, history,
            InTurn, Counted, GivenUp, Wanted, One
<1>1. ASSUME NEW t \in Tasks, StartGuard(t) PROVE Counted'
  BY <1>1 DEF StartGuard, StartReturns, Return
<1>2. ASSUME NEW t \in Tasks, StartInfra(t) PROVE Counted'
  BY <1>2 DEF StartInfra, StartReturns, Return
<1>3. ASSUME NEW t \in Tasks, StartListening(t) PROVE Counted'
  BY <1>3 DEF StartListening, StartReturns, Return
<1>4. ASSUME NEW t \in Tasks, ClaimDeferred(t) PROVE Counted'
  BY <1>4 DEF ClaimDeferred, Return
<1>5. ASSUME NEW t \in Tasks, RunAfter(t) PROVE Counted'
  BY <1>5 DEF RunAfter, Return
<1>6. ASSUME NEW t \in Tasks, ClaimResume(t) PROVE Counted'
  BY <1>6 DEF ClaimResume, Return
<1>7. ASSUME NEW t \in Tasks, ClaimSuspend(t) PROVE Counted'
  BY <1>7 DEF ClaimSuspend, Return
<1>8. ASSUME NEW t \in Tasks, Suspend(t) PROVE Counted'
  BY <1>8 DEF Suspend, Return
<1>9. ASSUME NEW t \in Tasks, HttpdStopped(t) PROVE Counted'
  BY <1>9 DEF HttpdStopped
<1>10. ASSUME NEW t \in Tasks, TearDown(t) PROVE Counted'
  BY <1>10 DEF TearDown
<1>11. ASSUME NEW t \in Tasks, ArmWatchdog(t) PROVE Counted'
  BY <1>11 DEF ArmWatchdog, Return
<1>12. CASE BootDeferred
  BY <1>12 DEF BootDeferred
<1>13. CASE ArmDeadline
  BY <1>13 DEF ArmDeadline
<1>14. CASE DeferFires
  BY <1>14 DEF DeferFires
<1>15. CASE StackReady
  BY <1>15 DEF StackReady
<1>16. CASE SessionStarted
  <2>1. \A t \in Tasks : Starting(t)' <=> Starting(t)
    BY <1>16 DEF SessionStarted
  <2>2. (\E t \in Tasks : pc'[t] = "listen") <=> (\E t \in Tasks : pc[t] = "listen")
    BY <1>16 DEF SessionStarted
  <2>3. Wanted' = Wanted
    BY <1>16, <2>2 DEF SessionStarted
  <2>4. CASE senders = Wanted
    BY <1>16, <2>3, <2>4 DEF SessionStarted
  <2>5. CASE failed /\ overtook
    BY <1>16, <2>5 DEF SessionStarted
  <2>6. CASE failed /\ GivenUp
    BY <1>16, <2>1, <2>6 DEF SessionStarted
  <2>7. QED BY <2>4, <2>5, <2>6
<1>17. CASE SessionEnded
  BY <1>17 DEF SessionEnded
<1>18. CASE WatchdogFires
  BY <1>18 DEF WatchdogFires
<1>19. CASE WatchdogReads
  BY <1>19 DEF WatchdogReads
<1>20. CASE \/ RequestStatus \/ LockStack \/ AnswerStatus \/ AccessEvent \/ Broadcast
          \/ UNCHANGED vars
  BY <1>20 DEF RequestStatus, LockStack, AnswerStatus, AccessEvent, Broadcast, vars
<1>21. QED
  BY <1>1, <1>2, <1>3, <1>4, <1>5, <1>6, <1>7, <1>8, <1>9, <1>10, <1>11, <1>12,
     <1>13, <1>14, <1>15, <1>16, <1>17, <1>18, <1>19, <1>20
  DEF Next, Step, StartStep, DeferStep, ResumeStep, SuspendStep, Boot, Timers, Httpd

LEMMA CallsStayApart == Spec => [](Calls /\ InTurn /\ Counted)
<1>1. Init => Calls /\ InTurn /\ Counted
  <2> SUFFICES ASSUME Init PROVE Calls /\ InTurn /\ Counted
    OBVIOUS
  <2>1. /\ pc["main"] = "boot" /\ pc["chip"] = "idle" /\ pc["timer"] = "idle"
        /\ \A t \in Tasks : then[t] = "idle" /\ pc[t] \in {"boot", "idle"}
    BY DEF Init, Tasks
  <2>2. Placed
    BY <2>1 DEF Init, Placed, Starting, Tasks
  <2>3. \A t \in Tasks : ~Starting(t)
    BY <2>1 DEF Starting
  <2>4. Wanted = 0
    BY <2>1 DEF Wanted, One, Init
  <2>5. FirstStart /\ OneAtATime /\ Resuming /\ Stopping
    BY <2>1, <2>3 DEF Init, FirstStart, OneAtATime, Resuming, Stopping, Fresh,
       TearingDown, Suspending, Watching, Tasks
  <2>6. InTurn /\ Counted
    BY <2>1, <2>4 DEF Init, InTurn, Counted, TearingDown, Suspending, Watching
  <2>7. QED BY <2>2, <2>5, <2>6 DEF Calls
<1>2. Calls /\ InTurn /\ Counted /\ [Next]_vars => Calls' /\ InTurn' /\ Counted'
  BY CallsInductive, InTurnInductive, CountedInductive
<1>3. QED BY <1>1, <1>2, PTL DEF Spec

(* However the stack's events, the watchdog and the deferral timer coincide, *)
(* and however often, exactly one caller performs a start.                   *)
THEOREM StarterIsOne == Spec => []OneStarter
<1>1. Calls => OneStarter
  <2> SUFFICES ASSUME Calls PROVE OneStarter
    OBVIOUS
  <2> DEFINE starters == {t \in Tasks : pc[t] \in {"infra", "listen"}}
  <2>1. \A t, u \in starters : t = u
    BY DEF Calls, OneAtATime, Starting
  <2>2. starters = {} \/ \E t \in starters : starters = {t}
    BY <2>1
  <2>3. Cardinality(starters) \in {0, 1}
    BY <2>2, FS_EmptySet, FS_Singleton
  <2>4. QED BY <2>3 DEF OneStarter
<1>2. QED BY <1>1, CallsStayApart, PTL

(* A suspended server has given its memory back, and somebody is bound to    *)
(* bring it back, for any number of attempts; but for the sender task the    *)
(* property excepts.                                                         *)
THEOREM SuspensionsAreGuarded == Spec => []SuspensionIsGuarded
<1>1. Calls /\ Counted => SuspensionIsGuarded
  <2> SUFFICES ASSUME Calls, Counted, suspended, pc["chip"] = "idle"
               PROVE  /\ ~server /\ mutex = "null" /\ (senders = 0 \/ (failed /\ overtook))
                      /\ watchdog = "armed" \/ Watching
    BY DEF SuspensionIsGuarded, Watching
  <2>1. ~server /\ mutex = "null" /\ (watchdog = "armed" \/ Watching)
    BY DEF Calls, Stopping, Suspending, TearingDown
  <2>2. \A t \in Tasks : ~Starting(t)
    BY DEF Calls, Placed, FirstStart, Resuming, Fresh, Starting, Tasks
  <2>3. Wanted = 0
    BY <2>1, <2>2 DEF Wanted, One, Starting
  <2>4. ~GivenUp
    BY DEF GivenUp
  <2>5. QED BY <2>1, <2>3, <2>4 DEF Counted
<1>2. QED BY <1>1, CallsStayApart, PTL

(* A server that listens has its mutex and one sender task, as long as no    *)
(* session overtook the watchdog's callback: failed starts leave none that   *)
(* a later one adds to.                                                      *)
THEOREM ServersAreWhole == Spec => []ServerIsWhole
<1>1. Calls /\ InTurn /\ Counted => ServerIsWhole
  <2> SUFFICES ASSUME Calls, InTurn, Counted, server, ~overtook
               PROVE  mutex = "live" /\ senders = 1
    BY DEF ServerIsWhole
  <2>1. mutex = "live"
    BY DEF InTurn
  <2>2. pc["chip"] # "teardown"
    BY DEF Calls, Stopping, InTurn, Suspending, TearingDown
  <2>3. ~ \E t \in Tasks : pc[t] = "listen"
    BY DEF Calls, OneAtATime, Starting
  <2>4. Wanted = 1
    BY <2>2, <2>3 DEF Wanted, One
  <2>5. QED BY <2>1, <2>4 DEF Counted, GivenUp
<1>2. QED BY <1>1, CallsStayApart, PTL

(* While a controller commissions the device the server stays down, but for  *)
(* the exceptions of the property.                                           *)
THEOREM DownForSessions == Spec => []DownWhileCommissioning
<1>1. Calls /\ InTurn => DownWhileCommissioning
  BY DEF Calls, InTurn, Stopping, DownWhileCommissioning
<1>2. QED BY <1>1, CallsStayApart, PTL
=============================================================================
