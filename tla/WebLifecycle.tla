---------------------------- MODULE WebLifecycle ----------------------------
(***************************************************************************)
(* When the web server runs (web_server.c, "lifecycle", "deferred start"   *)
(* and "suspend for commissioning").  It is started late at boot by a      *)
(* deferral timer, stands down while a controller commissions the device,  *)
(* and comes back on a Matter event or on a watchdog.  The tasks are:      *)
(*   main    app_main, which arms the deferral and is then done;           *)
(*   chip    the CHIP task, which runs on_matter_event() with the stack    *)
(*           lock held;                                                    *)
(*   timer   the esp_timer task, which runs both timers' callbacks;        *)
(*   httpd   the server's own task (variable handler), whose status page   *)
(*           takes the stack lock to list the fabrics;                     *)
(*   reader  any task that announces an access event (variable reader).    *)
(***************************************************************************)
EXTENDS Integers, FiniteSets

CONSTANTS
    MaxAttempts,    \* commissioning attempts in a run (a bound)
    MaxEvents,      \* access events announced in a run (a bound)
    StatusPages,    \* TRUE: browsers ask for the status page
    Failures        \* TRUE: creating a task, timer or socket may fail

ASSUME WebAssumption ==
    /\ MaxAttempts \in Nat
    /\ MaxEvents \in Nat
    /\ StatusPages \in BOOLEAN
    /\ Failures \in BOOLEAN

Tasks == {"main", "chip", "timer"}

VARIABLES
    pc,         \* where each task is in this file's functions
    then,       \* what a task does after web_server_start() returns
    server,     \* s_server is not NULL
    mutex,      \* s_ws_clients_mutex: "null", "live", or "dangling"
    senders,    \* ws_send tasks that exist
    observing,  \* on_access_event is in access_control's observer table
    pending,    \* s_defer_pending
    defer,      \* s_defer_timer: "none", "idle" or "armed"
    after,      \* s_defer_after is set
    mqtt,       \* how many times start_mqtt() ran
    suspended,  \* s_suspended
    watchdog,   \* s_suspend_watchdog: "none", "idle" or "armed"
    stackLock,  \* who holds the CHIP stack lock
    handler,    \* the httpd task
    reader,     \* the task announcing an access event
    session,    \* a controller is commissioning this device
    expired,    \* the watchdog gave up on the current session
    failed,     \* history: a start of the server failed
    missed,     \* history: the current session suspended nothing
    overtook,   \* history: a session began while the watchdog's callback was
                \* between its dispatch and its claim
    ready,      \* kServerReady has been posted
    attempts, events    \* counters of the two bounds

start == <<server, mutex, senders, observing>>
deferral == <<pending, defer, after, mqtt>>
suspension == <<suspended, watchdog>>
outside == <<session, expired, overtook, ready, attempts>>
history == <<failed, missed>>
vars == <<pc, then, start, deferral, suspension, stackLock, handler, reader,
          outside, history, events>>

Init ==
    /\ pc = [t \in Tasks |-> IF t = "main" THEN "boot" ELSE "idle"]
    /\ then = [t \in Tasks |-> "idle"]
    /\ server = FALSE /\ mutex = "null" /\ senders = 0 /\ observing = FALSE
    /\ pending = FALSE /\ defer = "none" /\ after = FALSE /\ mqtt = 0
    /\ suspended = FALSE /\ watchdog = "none"
    /\ stackLock = "free" /\ handler = "idle" /\ reader = "idle"
    /\ session = FALSE /\ expired = FALSE /\ ready = FALSE
    /\ failed = FALSE /\ missed = FALSE /\ overtook = FALSE
    /\ attempts = 0 /\ events = 0

Goto(t, where) == pc' = [pc EXCEPT ![t] = where]

(* A task leaves this file: the CHIP task is done with its event, and its
   loop lets go of the stack lock. *)
Return(t) ==
    /\ Goto(t, "idle")
    /\ stackLock' = IF t = "chip" THEN "free" ELSE stackLock

-----------------------------------------------------------------------------
(* web_server_start(), in the three steps other tasks can come between.    *)

StartReturns(t) ==
    IF then[t] = "idle" THEN Return(t)
                        ELSE Goto(t, then[t]) /\ UNCHANGED stackLock

StartGuard(t) ==
    /\ pc[t] = "start"
    /\ IF server THEN StartReturns(t)
                 ELSE Goto(t, "infra") /\ UNCHANGED stackLock
    /\ UNCHANGED <<then, start, deferral, suspension, handler, reader,
                   outside, history, events>>

(* The mutex, the queue, the sender task and the status timer, then the
   observer.  A failure frees what was made and leaves the mutex pointer. *)
StartInfra(t) ==
    /\ pc[t] = "infra"
    /\ \/ /\ Goto(t, "listen") /\ UNCHANGED stackLock
          /\ mutex' = "live" /\ senders' = senders + 1 /\ observing' = TRUE
          /\ UNCHANGED failed
       \/ /\ Failures
          /\ StartReturns(t)
          /\ mutex' \in {"null", "dangling"} /\ failed' = TRUE
          /\ UNCHANGED <<senders, observing>>
    /\ UNCHANGED <<then, server, deferral, suspension, handler, reader,
                   outside, missed, events>>

(* httpd_start() and the routes.  Its failure leaves all of StartInfra. *)
StartListening(t) ==
    /\ pc[t] = "listen"
    /\ StartReturns(t)
    /\ \/ server' = TRUE /\ UNCHANGED failed
       \/ Failures /\ failed' = TRUE /\ UNCHANGED server
    /\ UNCHANGED <<then, mutex, senders, observing, deferral, suspension,
                   handler, reader, outside, missed, events>>

-----------------------------------------------------------------------------
(* Deferred start.                                                         *)

(* web_server_start_deferred() up to the arming of its timer, on the main
   task; with no timer it starts the server at once. *)
BootDeferred ==
    /\ pc["main"] = "boot"
    /\ after' = TRUE
    /\ \/ /\ defer' = "idle" /\ pending' = TRUE
          /\ Goto("main", "arm") /\ UNCHANGED then
       \/ /\ Failures
          /\ Goto("main", "start") /\ then' = [then EXCEPT !["main"] = "after"]
          /\ UNCHANGED <<defer, pending>>
    /\ UNCHANGED <<start, mqtt, suspension, stackLock, handler, reader,
                   outside, history, events>>

(* esp_timer_start_once() of the deadline; refused if the CHIP task already
   armed the settle window. *)
ArmDeadline ==
    /\ pc["main"] = "arm"
    /\ defer' = "armed"
    /\ Goto("main", "idle")
    /\ UNCHANGED <<then, start, pending, after, mqtt, suspension, stackLock,
                   handler, reader, outside, history, events>>

(* Mutant: the timer's callback takes the start for its own. *)
ClaimDeferredAlways(t) ==
    /\ pc[t] = "deferred"
    /\ pending' = FALSE
    /\ then' = [then EXCEPT ![t] = "after"]
    /\ Goto(t, "start")
    /\ UNCHANGED <<start, defer, after, mqtt, suspension, stackLock, handler,
                   reader, outside, history, events>>

(* claim_deferred_start(), and web_server_start() for whoever claimed. *)
ClaimDeferred(t) ==
    /\ pc[t] = "deferred"
    /\ IF pending
       THEN /\ pending' = FALSE
            /\ then' = [then EXCEPT ![t] = "after"]
            /\ Goto(t, "start") /\ UNCHANGED stackLock
       ELSE Return(t) /\ UNCHANGED <<pending, then>>
    /\ UNCHANGED <<start, defer, after, mqtt, suspension, handler, reader,
                   outside, history, events>>

(* s_defer_after: MQTT starts whether or not the server did. *)
RunAfter(t) ==
    /\ pc[t] = "after"
    /\ mqtt' = IF after THEN mqtt + 1 ELSE mqtt
    /\ after' = FALSE
    /\ then' = [then EXCEPT ![t] = "idle"]
    /\ Return(t)
    /\ UNCHANGED <<start, pending, defer, suspension, handler, reader,
                   outside, history, events>>

(* The deferral timer expires; its callback is dispatched. *)
DeferFires ==
    /\ defer = "armed" /\ pc["timer"] = "idle"
    /\ defer' = "idle"
    /\ Goto("timer", "deferred")
    /\ UNCHANGED <<then, start, pending, after, mqtt, suspension, stackLock,
                   handler, reader, outside, history, events>>

(* kServerReady: web_server_note_stack_ready() re-aims the timer. *)
StackReady ==
    /\ ~ready /\ ready' = TRUE
    /\ pc["chip"] = "idle" /\ stackLock = "free"
    /\ IF ~pending THEN UNCHANGED <<pc, defer, stackLock>>
       ELSE \/ defer' = "armed" /\ UNCHANGED <<pc, stackLock>>
            \/ /\ Failures
               /\ defer' = "idle"
               /\ Goto("chip", "deferred") /\ stackLock' = "chip"
    /\ UNCHANGED <<then, start, pending, after, mqtt, suspension, handler,
                   reader, session, expired, overtook, attempts, history, events>>

-----------------------------------------------------------------------------
(* Suspension for commissioning.                                           *)

(* kCommissioningSessionStarted: notify_commissioning(true). *)
SessionStarted ==
    /\ ~session /\ attempts < MaxAttempts
    /\ pc["chip"] = "idle" /\ stackLock = "free"
    /\ session' = TRUE /\ expired' = FALSE /\ attempts' = attempts + 1
    /\ missed' = FALSE
    /\ overtook' = (overtook \/ pc["timer"] \in {"watch", "claimOff"})
    /\ Goto("chip", "claimOn") /\ stackLock' = "chip"
    /\ UNCHANGED <<then, start, deferral, suspension, handler, reader, ready,
                   failed, events>>

(* kCommissioningComplete or kFailSafeTimerExpired. *)
SessionEnded ==
    /\ session
    /\ pc["chip"] = "idle" /\ stackLock = "free"
    /\ session' = FALSE
    /\ Goto("chip", "claimOff") /\ stackLock' = "chip"
    /\ UNCHANGED <<then, start, deferral, suspension, handler, reader,
                   expired, overtook, ready, attempts, history, events>>

(* The watchdog expires; its callback is dispatched, *)
WatchdogFires ==
    /\ watchdog = "armed" /\ pc["timer"] = "idle"
    /\ watchdog' = "idle"
    /\ expired' = TRUE
    /\ Goto("timer", "watch")
    /\ UNCHANGED <<then, start, deferral, suspended, stackLock, handler,
                   reader, session, overtook, ready, attempts, history,
                   events>>

(* and reads s_suspended before it asks for the server back. *)
WatchdogReads ==
    /\ pc["timer"] = "watch"
    /\ Goto("timer", IF suspended THEN "claimOff" ELSE "idle")
    /\ UNCHANGED <<then, start, deferral, suspension, stackLock, handler,
                   reader, outside, history, events>>

(* claim_suspend_transition(true), in web_server_set_commissioning_active() *)
ClaimSuspend(t) ==
    /\ pc[t] = "claimOn"
    /\ IF suspended THEN Return(t)
                    ELSE Goto(t, "down") /\ UNCHANGED stackLock
    /\ suspended' = TRUE
    /\ UNCHANGED <<then, start, deferral, watchdog, handler, reader, outside,
                   history, events>>

(* Mutant: the read-then-write the comment warns of, at its worst: every
   caller believes the change is its own. *)
ClaimResumeAlways(t) ==
    /\ pc[t] = "claimOff"
    /\ Goto(t, "start")
    /\ watchdog' = IF watchdog = "armed" THEN "idle" ELSE watchdog
    /\ suspended' = FALSE
    /\ UNCHANGED <<then, start, deferral, stackLock, handler, reader, outside,
                   history, events>>

(* Mutant: the watchdog of the last suspension is left armed. *)
ClaimResumeKeepsWatchdog(t) ==
    /\ pc[t] = "claimOff"
    /\ IF suspended THEN Goto(t, "start") /\ UNCHANGED stackLock ELSE Return(t)
    /\ suspended' = FALSE
    /\ UNCHANGED <<then, start, deferral, watchdog, handler, reader, outside,
                   history, events>>

(* claim_suspend_transition(false), then the watchdog is stopped. *)
ClaimResume(t) ==
    /\ pc[t] = "claimOff"
    /\ IF suspended
       THEN /\ Goto(t, "start") /\ UNCHANGED stackLock
            /\ watchdog' = IF watchdog = "armed" THEN "idle" ELSE watchdog
       ELSE Return(t) /\ UNCHANGED watchdog
    /\ suspended' = FALSE
    /\ UNCHANGED <<then, start, deferral, handler, reader, outside, history, events>>

(* Nothing is running: release_suspend_transition(true).  Otherwise
   web_server_stop() enters httpd_stop(). *)
Suspend(t) ==
    /\ pc[t] = "down"
    /\ IF server
       THEN Goto(t, "stopping") /\ UNCHANGED <<stackLock, suspended, missed>>
       ELSE Return(t) /\ suspended' = FALSE /\ missed' = TRUE
    /\ UNCHANGED <<then, start, deferral, watchdog, handler, reader, outside,
                   failed, events>>

(* httpd_stop() returns when the server's task has run its request out;
   s_server = NULL. *)
HttpdStopped(t) ==
    /\ pc[t] = "stopping"
    /\ handler = "idle"
    /\ server' = FALSE
    /\ Goto(t, "teardown")
    /\ UNCHANGED <<then, mutex, senders, observing, deferral, suspension,
                   stackLock, handler, reader, outside, history, events>>

(* The sender task, the queue and the mutex are deleted.  The observer
   stays in access_control's table. *)
TearDown(t) ==
    /\ pc[t] = "teardown"
    /\ mutex' = "null"
    /\ senders' = IF senders > 0 THEN senders - 1 ELSE 0
    /\ Goto(t, "guard")
    /\ UNCHANGED <<then, server, observing, deferral, suspension, stackLock,
                   handler, reader, outside, history, events>>

(* Mutant: armed only when it is created. *)
ArmWatchdogOnce(t) ==
    /\ pc[t] = "guard"
    /\ watchdog' = IF watchdog = "none" THEN "armed" ELSE watchdog
    /\ Return(t)
    /\ UNCHANGED <<then, start, deferral, suspended, handler, reader, outside,
                   history, events>>

(* Mutant: created and never armed. *)
ArmWatchdogNever(t) ==
    /\ pc[t] = "guard"
    /\ watchdog' = "idle" /\ Return(t)
    /\ UNCHANGED <<then, start, deferral, suspended, handler, reader, outside,
                   history, events>>

(* The watchdog is made once and armed; without one the server comes
   straight back. *)
ArmWatchdog(t) ==
    /\ pc[t] = "guard"
    /\ \/ watchdog' = "armed" /\ Return(t) /\ UNCHANGED <<suspended, missed>>
       \/ /\ Failures /\ watchdog = "none"
          /\ suspended' = FALSE /\ missed' = TRUE
          /\ Goto(t, "start")
          /\ UNCHANGED <<watchdog, stackLock>>
    /\ UNCHANGED <<then, start, deferral, handler, reader, outside, failed,
                   events>>

-----------------------------------------------------------------------------
(* The server's own task and the observers' tasks.                         *)

(* A status page is asked for.  httpd_stop() lets no new request in. *)
RequestStatus ==
    /\ StatusPages /\ server /\ handler = "idle"
    /\ \A t \in Tasks : pc[t] # "stopping"
    /\ handler' = "status"
    /\ UNCHANGED <<pc, then, start, deferral, suspension, stackLock, reader,
                   outside, history, events>>

(* matter_lock_get_fabrics() waits for the stack lock, *)
LockStack ==
    /\ handler = "status" /\ stackLock = "free"
    /\ handler' = "fabrics" /\ stackLock' = "httpd"
    /\ UNCHANGED <<pc, then, start, deferral, suspension, reader, outside,
                   history, events>>

(* lists the fabrics and lets go; the page is sent. *)
AnswerStatus ==
    /\ handler = "fabrics"
    /\ handler' = "idle" /\ stackLock' = "free"
    /\ UNCHANGED <<pc, then, start, deferral, suspension, reader, outside,
                   history, events>>

(* An access event reaches on_access_event(), which builds its object. *)
AccessEvent ==
    /\ reader = "idle" /\ observing /\ events < MaxEvents
    /\ reader' = "broadcast" /\ events' = events + 1
    /\ UNCHANGED <<pc, then, start, deferral, suspension, stackLock, handler,
                   outside, history>>

(* ws_broadcast() takes the mutex and queues a frame per page; taking a NULL
   mutex is an assertion of the kernel, shown as an announcer that is lost. *)
Broadcast ==
    /\ reader = "broadcast"
    /\ reader' = IF mutex = "live" THEN "idle" ELSE "lost"
    /\ UNCHANGED <<pc, then, start, deferral, suspension, stackLock, handler,
                   outside, history, events>>

-----------------------------------------------------------------------------
StartStep(t) == StartGuard(t) \/ StartInfra(t) \/ StartListening(t)
DeferStep(t) == ClaimDeferred(t) \/ RunAfter(t)
ResumeStep(t) == ClaimResume(t)
SuspendStep(t) ==
    \/ ClaimSuspend(t) \/ Suspend(t) \/ HttpdStopped(t) \/ TearDown(t)
    \/ ArmWatchdog(t)

(* What one task does next inside this file. *)
Step(t) == StartStep(t) \/ DeferStep(t) \/ ResumeStep(t) \/ SuspendStep(t)

Boot == BootDeferred \/ ArmDeadline
Timers == DeferFires \/ WatchdogFires \/ WatchdogReads
Httpd == LockStack \/ AnswerStatus

Next ==
    \/ \E t \in Tasks : Step(t)
    \/ Boot \/ Timers \/ StackReady \/ SessionStarted \/ SessionEnded
    \/ RequestStatus \/ Httpd \/ AccessEvent \/ Broadcast

Spec == Init /\ [][Next]_vars

(* Tasks are scheduled, an armed timer expires, and a request that can go on
   goes on.  The stack need not say that commissioning ended, nor that it is
   ready: the deadline and the watchdog are there for that.               *)
Fairness ==
    /\ \A t \in Tasks : WF_vars(Step(t))
    /\ WF_vars(Boot) /\ WF_vars(Timers) /\ WF_vars(Httpd) /\ WF_vars(Broadcast)

FairSpec == Spec /\ Fairness

-----------------------------------------------------------------------------
(* Exactly one caller performs a start: no two tasks are ever between the
   test of s_server and httpd_start(), however the stack's events, the
   watchdog and the deferral timer coincide. *)
OneStarter == Cardinality({t \in Tasks : pc[t] \in {"infra", "listen"}}) <= 1

(* Whenever the CHIP task is out of this file and the server is suspended,
   the memory is really given back, and somebody is bound to restore it: the
   watchdog is armed, or its callback is already on its way.  Only a sender
   task may be left, where a start failed after making it and the start that
   an overtaken watchdog's callback made next forgot it. *)
SuspensionIsGuarded ==
    suspended /\ pc["chip"] = "idle" =>
        /\ ~server /\ mutex = "null" /\ (senders = 0 \/ (failed /\ overtook))
        /\ watchdog = "armed" \/ pc["timer"] \in {"watch", "claimOff"}

(* A server that listens has a mutex, a queue and one sender task to serve
   its pages with, whoever started it and whoever was stopping it meanwhile;
   unless a new session overtook the watchdog's callback, whose start then
   crosses the stop of that session. *)
ServerIsWhole ==
    server /\ ~overtook => mutex = "live" /\ senders = 1

(* The server, down for whatever reason, comes up again, although the stack
   may never say that commissioning ended; unless a start failed, or a new
   session overtook the watchdog's callback. *)
ServerComesBack == ~server ~> (server \/ failed \/ overtook)

(* While a controller commissions the device the server stays down, until
   the watchdog gives up on the session; unless the session found the server
   not running, or no watchdog could be made. *)
DownWhileCommissioning ==
    session /\ ~expired /\ ~missed /\ ~overtook /\ pc["chip"] = "idle" => ~server

(* The CHIP task comes back from every event: suspending the server is
   bounded, and never waits for a task that waits for the stack. *)
EventsReturn == (pc["chip"] # "idle") ~> (pc["chip"] = "idle")
=============================================================================
