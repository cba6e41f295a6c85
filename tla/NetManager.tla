----------------------------- MODULE NetManager -----------------------------
(***************************************************************************)
(* Wi-Fi: the station, the setup access point, and who brings back which.  *)
(*                                                                         *)
(* Three tasks share s_net without a lock.  The event task handles what    *)
(* the driver posts, the esp_timer task runs the two timers, and the web   *)
(* server's task joins a network a browser asks for.  While a join runs    *)
(* (joining), the event task and the retry timer leave the station to it.  *)
(*                                                                         *)
(* The driver (esp_wifi) is external: connect and disconnect return at     *)
(* once and what comes of them is posted as an event.                      *)
(***************************************************************************)
EXTENDS Naturals, Sequences

CONSTANTS
  Nets,        \* the networks a browser may name
  GoodNets,    \* those of them whose password is right
  None,        \* no network stored
  MaxAttempts, \* k_max_join_attempts
  DriverErrors,\* whether the driver may refuse a join's calls
  MaxEvents    \* events posted and not handled: the event task keeps up that far

ASSUME NetsAssumption == GoodNets \subseteq Nets /\ None \notin Nets
ASSUME BoundsAssumption == MaxAttempts \in Nat \ {0} /\ MaxEvents \in Nat \ {0}
ASSUME ErrorsAssumption == DriverErrors \in BOOLEAN

VARIABLES
  cfg,                  \* s_net.cfg.ssid
  mode, connected,      \* s_net.status
  attempts, joining, apUp,
  bits,                 \* s_net.events, the event group
  radio,                \* the driver's mode: "sta" or "apsta"
  sta, staNet,          \* the station and the network it is configured for
  events,               \* posted by the driver, not yet handled: "start", "lost",
                        \* or "got_ip" with the network
  timers,               \* armed timers in the order they expire: both take 5 s
  fresh,                \* what was begun since the join last waited
  eventPc, timerPc,     \* where the event task and the esp_timer task are
  joinPc, request, seen,\* the web server's task: its join, the bits it woke with
  worked,               \* history: networks that have given an address
  doubtful, late,       \* history: see JoinDisconnects
  revived,              \* history: see JoinKeepsAp
  swallowed             \* history: see LeaveToJoin

status == <<mode, connected>>
driver == <<radio, sta, staNet>>
clock == <<timers, fresh>>
join == <<joinPc, request, seen>>
proof == <<worked, doubtful, late, revived>>
vars == <<cfg, status, attempts, joining, apUp, bits, driver, events, clock,
          eventPc, timerPc, join, proof, swallowed>>

Idle == [net |-> None, try |-> 0]

(* net_manager_start(): the stored network, or the access point if none is.  *)
Init ==
  /\ cfg \in Nets \cup {None}
  /\ mode = IF cfg = None THEN "setup_ap" ELSE "sta"
  /\ connected = (cfg = None) /\ apUp = (cfg = None)
  /\ radio = IF cfg = None THEN "apsta" ELSE "sta"
  /\ sta = "idle" /\ staNet = cfg
  /\ events = <<[kind |-> "start"]>>
  /\ attempts = 0 /\ joining = FALSE /\ bits = {}
  /\ timers = <<>> /\ fresh = {}
  /\ eventPc = "idle" /\ timerPc = "idle"
  /\ joinPc = "idle" /\ request = Idle /\ seen = {}
  /\ worked = {} /\ doubtful = FALSE /\ late = FALSE
  /\ revived = FALSE /\ swallowed = FALSE

-----------------------------------------------------------------------------
(* What takes time *)

(* A join's statements between its waits take less than a timer's 5 s or an  *)
(* association: neither is over before the join waits again.                 *)
Begin(what) ==
  fresh' = IF joinPc \in {"idle", "wait"} THEN fresh \ {what} ELSE fresh \cup {what}

(* A delay (500 ms before the second try) or a wait that times out (12 s)    *)
(* outlasts the handlers: what was posted when it began has been handled.    *)
(* The wait outlasts the timers as well, and nothing is armed during it.     *)
Settled == events = <<>> /\ eventPc = "idle" /\ timerPc = "idle"

-----------------------------------------------------------------------------
(* What the driver does *)

Connect ==
  /\ sta' = IF sta = "idle" /\ staNet # None THEN "connecting" ELSE sta
  /\ UNCHANGED <<radio, staNet>>

(* The driver's queue has room (MaxEvents).                                  *)
MayPost == Len(events) < MaxEvents

(* A station that is up says so when it is taken down; an idle one does not. *)
Disconnect ==
  /\ MayPost
  /\ sta' = "idle"
  /\ events' = IF sta = "idle" THEN events ELSE Append(events, [kind |-> "lost"])
  /\ UNCHANGED <<radio, staNet>>

(* An association outlasts a timer's callback. *)
AirTime == "link" \notin fresh /\ timerPc = "idle"

GetAddress ==
  /\ sta = "connecting" /\ AirTime
  /\ staNet \in GoodNets
  /\ MayPost
  /\ sta' = "linked"
  /\ events' = Append(events, [kind |-> "got_ip", net |-> staNet])
  /\ worked' = worked \cup {staNet}
  /\ UNCHANGED <<cfg, status, attempts, joining, apUp, bits, radio, staNet, clock,
                 eventPc, timerPc, join, doubtful, late, revived, swallowed>>

(* Refused, out of range, or lost after a while: at any time. *)
LoseLink ==
  /\ sta # "idle" /\ AirTime
  /\ Disconnect
  /\ UNCHANGED <<cfg, status, attempts, joining, apUp, bits, clock,
                 eventPc, timerPc, join, proof, swallowed>>

-----------------------------------------------------------------------------
(* Timers *)

Arm(timer) ==
  timers' = IF \E i \in DOMAIN timers : timers[i] # timer
            THEN <<IF timer = "retry" THEN "ap_stop" ELSE "retry", timer>>
            ELSE <<timer>>

(* What a join in progress is left to deal with, when the station is the     *)
(* only way in.                                                              *)
LeaveToJoin == swallowed' = (swallowed \/ mode = "sta")

TimerFires ==
  /\ timerPc = "idle" /\ timers # <<>>
  /\ Head(timers) \notin fresh
  /\ timers' = Tail(timers)
  /\ IF Head(timers) = "retry"
     THEN IF joining \/ mode # "sta"
          THEN /\ timerPc' = "idle"
               /\ IF joining THEN LeaveToJoin ELSE UNCHANGED swallowed
          ELSE timerPc' = "connect" /\ UNCHANGED swallowed
     ELSE /\ timerPc' = IF apUp THEN "ap_mode" ELSE "idle"
          /\ UNCHANGED swallowed
  /\ UNCHANGED <<cfg, status, attempts, joining, apUp, bits, driver, events,
                 eventPc, join, proof, fresh>>

RetryConnects ==
  /\ timerPc = "connect"
  /\ Connect /\ Begin("link")
  /\ timerPc' = "idle"
  /\ UNCHANGED <<cfg, status, attempts, joining, apUp, bits, events, timers,
                 eventPc, join, proof, swallowed>>

StopApMode ==
  /\ timerPc = "ap_mode"
  /\ radio' = "sta"
  /\ timerPc' = "ap_flag"
  /\ UNCHANGED <<cfg, status, attempts, joining, apUp, bits, sta, staNet, events,
                 clock, eventPc, join, proof, swallowed>>

StopApFlag ==
  /\ timerPc = "ap_flag"
  /\ apUp' = FALSE
  /\ timerPc' = "idle"
  /\ UNCHANGED <<cfg, status, attempts, joining, bits, driver, events, clock,
                 eventPc, join, proof, swallowed>>

-----------------------------------------------------------------------------
(* The event task *)

Take(kind) ==
  /\ eventPc = "idle" /\ events # <<>>
  /\ Head(events).kind = kind
  /\ events' = Tail(events)

OnStaStart ==
  /\ Take("start")
  /\ IF cfg # None THEN Connect ELSE UNCHANGED driver
  /\ UNCHANGED <<cfg, status, attempts, joining, apUp, bits, clock,
                 eventPc, timerPc, join, proof, swallowed>>

(* Mutant: out of retries, the loss is only logged.                          *)
OnLostGivingUp ==
  /\ Take("lost")
  /\ connected' = apUp
  /\ IF joining
     THEN bits' = bits \cup {"fail"} /\ LeaveToJoin /\ UNCHANGED <<attempts, clock>>
     ELSE /\ swallowed' = FALSE /\ UNCHANGED bits
          /\ IF mode = "sta" /\ attempts < MaxAttempts
             THEN attempts' = attempts + 1 /\ Arm("retry") /\ Begin("retry")
             ELSE UNCHANGED <<attempts, clock>>
  /\ UNCHANGED <<cfg, mode, joining, apUp, driver, eventPc, timerPc, join, proof>>

(* Mutant: a fallen-back device goes on counting, and says it is cut off.    *)
OnLostWhateverTheMode ==
  /\ Take("lost")
  /\ connected' = FALSE
  /\ IF joining
     THEN bits' = bits \cup {"fail"} /\ LeaveToJoin /\ UNCHANGED <<attempts, clock, eventPc>>
     ELSE /\ swallowed' = FALSE /\ UNCHANGED bits
          /\ attempts' = attempts + 1
          /\ IF attempts < MaxAttempts
             THEN Arm("retry") /\ Begin("retry") /\ UNCHANGED eventPc
             ELSE eventPc' = "ap_mode" /\ UNCHANGED clock
  /\ UNCHANGED <<cfg, mode, joining, apUp, driver, timerPc, join, proof>>

OnLost ==
  /\ Take("lost")
  /\ connected' = apUp
  /\ \/ /\ joining
        /\ bits' = bits \cup {"fail"}
        /\ LeaveToJoin
        /\ UNCHANGED <<attempts, clock, eventPc>>
     \/ /\ ~joining /\ mode # "sta"
        /\ UNCHANGED <<bits, swallowed, attempts, clock, eventPc>>
     \/ /\ ~joining /\ mode = "sta"
        /\ attempts' = attempts + 1
        /\ IF attempts < MaxAttempts
           THEN /\ Arm("retry") /\ Begin("retry")
                /\ UNCHANGED eventPc
           ELSE eventPc' = "ap_mode" /\ UNCHANGED clock
        /\ swallowed' = FALSE
        /\ UNCHANGED bits
  /\ UNCHANGED <<cfg, mode, joining, apUp, driver, timerPc, join, proof>>

(* start_setup_ap(): the driver's mode first, what s_net says of it last. *)
StartApMode ==
  /\ eventPc = "ap_mode"
  /\ radio' = "apsta"
  /\ eventPc' = "ap_status"
  /\ UNCHANGED <<cfg, status, attempts, joining, apUp, bits, sta, staNet, events,
                 clock, timerPc, join, proof, swallowed>>

StartApStatus ==
  /\ eventPc = "ap_status"
  /\ mode' = "setup_ap" /\ connected' = TRUE /\ apUp' = TRUE
  /\ eventPc' = "idle"
  /\ revived' = FALSE
  /\ UNCHANGED <<cfg, attempts, joining, bits, driver, events, clock,
                 timerPc, join, worked, doubtful, late, swallowed>>

OnGotIp ==
  /\ Take("got_ip")
  /\ connected' = TRUE /\ mode' = "sta"
  /\ attempts' = 0
  /\ bits' = bits \cup {"got_ip"}
  /\ swallowed' = FALSE
  /\ UNCHANGED <<cfg, joining, apUp, driver, clock, eventPc, timerPc, join, proof>>

EventTask == OnStaStart \/ OnLost \/ StartApMode \/ StartApStatus \/ OnGotIp

-----------------------------------------------------------------------------
(* net_manager_join() on the web server's task *)

Reached == radio = "apsta" \/ sta = "linked"

(* The task returns, and what was begun meanwhile is as old as it is. *)
JoinEnds == joinPc' = "idle" /\ request' = Idle /\ fresh' = {}

(* The browser has to reach the page; net_manager_reconnect() is a join of   *)
(* the stored network.  The driver's mode is read, and an access point that  *)
(* is up is to stay up.                                                      *)
JoinRequested(net) ==
  /\ joinPc = "idle" /\ Reached
  /\ request' = [net |-> net, try |-> 1]
  /\ joinPc' = IF radio = "apsta" THEN "keep_ap" ELSE "config"
  /\ UNCHANGED <<cfg, status, attempts, joining, apUp, bits, driver, events,
                 clock, eventPc, timerPc, seen, proof, swallowed>>

(* revived: since the mode was read, stop_setup_ap() has taken the access    *)
(* point down.  It comes back and apUp stays, or becomes, FALSE.             *)
JoinKeepsAp ==
  /\ joinPc = "keep_ap"
  /\ \/ /\ radio' = "apsta" /\ revived' = (revived \/ radio = "sta")
        /\ joinPc' = "config" /\ UNCHANGED <<request, fresh>>
     \/ DriverErrors /\ JoinEnds /\ UNCHANGED <<radio, revived>>
  /\ UNCHANGED <<cfg, status, attempts, joining, apUp, bits, sta, staNet, events, timers,
                 eventPc, timerPc, seen, worked, doubtful, late, swallowed>>

JoinConfigures ==
  /\ joinPc = "config"
  /\ \/ staNet' = request.net /\ joinPc' = "clear" /\ UNCHANGED <<request, fresh>>
     \/ DriverErrors /\ JoinEnds /\ UNCHANGED staNet
  /\ UNCHANGED <<cfg, status, attempts, joining, apUp, bits, radio, sta, events, timers,
                 eventPc, timerPc, seen, proof, swallowed>>

JoinClears ==
  /\ joinPc = "clear"
  /\ request.try = 2 => Settled
  /\ bits' = {} /\ fresh' = fresh \ {"link"}
  /\ joinPc' = "mark"
  /\ UNCHANGED <<cfg, status, attempts, joining, apUp, driver, events, timers,
                 eventPc, timerPc, request, seen, proof, swallowed>>

JoinMarks ==
  /\ joinPc = "mark"
  /\ joining' = TRUE
  /\ joinPc' = "disconnect"
  /\ UNCHANGED <<cfg, status, attempts, apUp, bits, driver, events, clock,
                 eventPc, timerPc, request, seen, proof, swallowed>>

(* late: an address from before this connection is still to be announced, or *)
(* has been since the bits were cleared, and will pass for the answer.       *)
JoinDisconnects ==
  /\ joinPc = "disconnect"
  /\ Disconnect
  /\ late' = ("got_ip" \in bits \/ \E i \in DOMAIN events : events[i].kind = "got_ip")
  /\ joinPc' = "connect"
  /\ UNCHANGED <<cfg, status, attempts, joining, apUp, bits, clock,
                 eventPc, timerPc, request, seen, worked, doubtful, revived, swallowed>>

JoinConnects ==
  /\ joinPc = "connect"
  /\ \/ Connect /\ joinPc' = "wait" /\ UNCHANGED <<request, joining, swallowed>>
     \/ /\ DriverErrors
        /\ joinPc' = "idle" /\ request' = Idle /\ joining' = FALSE
        /\ UNCHANGED <<driver, swallowed>>
  /\ fresh' = {}
  /\ UNCHANGED <<cfg, status, attempts, apUp, bits, events, timers,
                 eventPc, timerPc, seen, proof>>

(* A bit is set, or the wait has timed out. *)
JoinWakes ==
  /\ joinPc = "wait"
  /\ bits # {} \/ (Settled /\ timers = <<>>)
  /\ seen' = bits
  /\ joinPc' = "unmark"
  /\ UNCHANGED <<cfg, status, attempts, joining, apUp, bits, driver, events, clock,
                 eventPc, timerPc, request, proof, swallowed>>

(* Mutant: only a reported failure counts as one, no answer does not.        *)
JoinUnmarksHoping ==
  /\ joinPc = "unmark"
  /\ joining' = FALSE /\ seen' = {}
  /\ joinPc' = IF seen = {"fail"} THEN "give_up" ELSE "adopt"
  /\ UNCHANGED <<cfg, status, attempts, apUp, bits, driver, events, clock,
                 eventPc, timerPc, request, proof, swallowed>>

JoinUnmarks ==
  /\ joinPc = "unmark"
  /\ joining' = FALSE /\ seen' = {}
  /\ \/ /\ "got_ip" \in seen
        /\ joinPc' = "adopt" /\ UNCHANGED request
     \/ /\ "got_ip" \notin seen /\ request.try = 1
        /\ joinPc' = "clear" /\ request' = [request EXCEPT !.try = 2]
     \/ /\ "got_ip" \notin seen /\ request.try = 2
        /\ joinPc' = "give_up" /\ UNCHANGED request
  /\ UNCHANGED <<cfg, status, attempts, apUp, bits, driver, events, clock,
                 eventPc, timerPc, proof, swallowed>>

JoinAdopts ==
  /\ joinPc = "adopt"
  /\ cfg' = request.net
  /\ doubtful' = (doubtful \/ late) /\ late' = FALSE
  /\ attempts' = 0
  /\ joinPc' = "arm"
  /\ UNCHANGED <<status, joining, apUp, bits, driver, events, clock,
                 eventPc, timerPc, request, seen, worked, revived, swallowed>>

JoinArms ==
  /\ joinPc = "arm"
  /\ IF apUp THEN Arm("ap_stop") ELSE UNCHANGED timers
  /\ JoinEnds
  /\ UNCHANGED <<cfg, status, attempts, joining, apUp, bits, driver, events,
                 eventPc, timerPc, seen, proof, swallowed>>

(* Mutant: the access point is stopped whatever came of the join. *)
JoinGivesUpStoppingAp ==
  /\ joinPc = "give_up"
  /\ Disconnect
  /\ Arm("ap_stop")
  /\ JoinEnds
  /\ UNCHANGED <<cfg, status, attempts, joining, apUp, bits,
                 eventPc, timerPc, seen, proof, swallowed>>

JoinGivesUp ==
  /\ joinPc = "give_up"
  /\ Disconnect
  /\ JoinEnds /\ late' = FALSE
  /\ UNCHANGED <<cfg, status, attempts, joining, apUp, bits, timers,
                 eventPc, timerPc, seen, worked, doubtful, revived, swallowed>>

(* handle_wifi_connect() and handle_wifi_reconnect(): a request is one join. *)
JoinTask ==
  \/ JoinKeepsAp \/ JoinConfigures \/ JoinClears \/ JoinMarks
  \/ JoinDisconnects \/ JoinConnects \/ JoinWakes \/ JoinUnmarks \/ JoinAdopts
  \/ JoinArms \/ JoinGivesUp

-----------------------------------------------------------------------------
TimerTask == TimerFires \/ RetryConnects \/ StopApMode \/ StopApFlag

Next ==
  \/ GetAddress \/ LoseLink
  \/ EventTask \/ TimerTask
  \/ \E net \in Nets : JoinRequested(net)
  \/ JoinTask

Spec == Init /\ [][Next]_vars

(* Every task is scheduled, timers expire, and something comes of every      *)
(* attempt to connect.  Nobody has to ask for a join.                        *)
Fairness ==
  /\ WF_vars(EventTask)
  /\ WF_vars(TimerTask)
  /\ WF_vars(JoinTask)
  /\ WF_vars(sta = "connecting" /\ (GetAddress \/ LoseLink))

FairSpec == Spec /\ Fairness

-----------------------------------------------------------------------------
Quiet ==
  /\ events = <<>> /\ timers = <<>>
  /\ eventPc = "idle" /\ timerPc = "idle" /\ joinPc = "idle"
  /\ sta # "connecting"

(* "The configuration UI is always reachable": with nothing left to happen,  *)
(* the station is linked or the access point is up, even leaving aside the   *)
(* joins that were doubtful.                                                 *)
AlwaysReachable == Quiet /\ ~doubtful => Reached

(* What the code leaves alone.  The last thing that happened to the station   *)
(* was left to a join, which does not bring the stored network back; or a    *)
(* join once took the address of an earlier connection for its own, and      *)
(* counted on a station that was not there.                                  *)
Excepted == swallowed \/ doubtful

(* The same, but for those two.                                              *)
ReachableUnlessLeft == Quiet /\ ~Excepted => Reached

(* The access point is never taken down once the device has fallen back on   *)
(* it: the timer a join has armed expires before the retries run out, and a  *)
(* failed try from the setup portal changes nothing.                         *)
FallbackStays == mode = "setup_ap" /\ ~doubtful => radio = "apsta"

(* With nothing left to happen, a device that can be reached says so: what   *)
(* the handlers left in connected, in whichever order they ran.  Excepted    *)
(* are a doubtful join (the access point it stops may be the one just        *)
(* started) and an access point that a join has put up again behind          *)
(* stop_setup_ap(), until the next fallback.                                 *)
StatusIsTrue == Quiet /\ Reached /\ ~doubtful /\ ~revived => connected

(* A network becomes the running configuration (and is then saved) only      *)
(* after it has given this device an address, unless an address of an        *)
(* earlier connection was announced in between.                              *)
AdoptsWhatWorked == [][cfg' # cfg => cfg' \in worked \/ doubtful']_vars

(* The device does not stay away: again and again it can be reached, with    *)
(* the same exception.                                                       *)
NeverAwayForGood == []<>(Reached \/ Excepted)
=============================================================================
