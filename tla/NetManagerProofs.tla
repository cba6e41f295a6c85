--------------------------- MODULE NetManagerProofs ---------------------------
(***************************************************************************)
(* What holds of net_manager for any networks and any number of events     *)
(* under way.                                                              *)
(*                                                                         *)
(* The hard one is that a fallback is never undone.  A join that took the  *)
(* browser's network arms the timer that stops the access point; if the    *)
(* retries ran out before it fires, it would stop the access point of the  *)
(* fallback.  InTime counts how often the station can still be lost before *)
(* that: the losses not handled yet, a station that is up or trying, a     *)
(* retry that comes before the timer.  Every step leaves the sum as it is  *)
(* or lowers it: what a join adds by connecting, it takes away by          *)
(* consuming the loss that ends it.  The sum is at most 3 when the timer   *)
(* is armed, which is what k_max_join_attempts allows.                     *)
(*                                                                         *)
(* In the proofs a sum of next-state counts is over names given to them    *)
(* (t, l, ...): the SMT backend does not add primed values.                *)
(***************************************************************************)
EXTENDS NetManager, FiniteSetTheorems, TLAPS

(* Every status flag's owner, and what the tasks hand to each other. *)
Events == [kind : {"start", "lost"}] \cup [kind : {"got_ip"}, net : Nets]
TimerQueues ==
  {<<>>, <<"retry">>, <<"ap_stop">>, <<"retry", "ap_stop">>, <<"ap_stop", "retry">>}
Joining == {"disconnect", "connect", "wait", "unmark"}
Asking == {"idle", "keep_ap", "config"}
JoinPcs == Asking \cup {"clear", "mark", "adopt", "arm", "give_up"} \cup Joining

Types ==
  /\ cfg \in Nets \cup {None} /\ staNet \in Nets \cup {None} /\ worked \subseteq Nets
  /\ mode \in {"sta", "setup_ap"} /\ attempts \in Nat
  /\ radio \in {"sta", "apsta"} /\ sta \in {"idle", "connecting", "linked"}
  /\ bits \subseteq {"fail", "got_ip"} /\ seen \subseteq {"fail", "got_ip"}
  /\ events \in Seq(Events) /\ timers \in TimerQueues
  /\ eventPc \in {"idle", "ap_mode", "ap_status"}
  /\ timerPc \in {"idle", "connect", "ap_mode", "ap_flag"}
  /\ joinPc \in JoinPcs /\ (joining <=> joinPc \in Joining)
  /\ request \in [net : Nets \cup {None}, try : 0..2]
  /\ joinPc # "idle" => request.net \in Nets
  /\ joinPc \notin Asking => staNet = request.net

-----------------------------------------------------------------------------
(* The parts of the inductive invariant *)

(* Until the first event is handled, nothing has happened that an event      *)
(* could cause, and nobody reaches a device that has a network stored.       *)
Starts ==
  /\ \A i \in DOMAIN events : events[i].kind = "start" => i = 1
  /\ events # <<>> /\ events[1].kind = "start" =>
       /\ bits = {} /\ timers = <<>> /\ timerPc = "idle" /\ eventPc = "idle"
       /\ joinPc \in Asking \cup {"clear", "mark", "disconnect", "connect", "wait"}
       /\ cfg = None => mode = "setup_ap"
       /\ cfg # None => radio = "sta" /\ sta = "idle" /\ joinPc = "idle"

(* A station that was never told of a network has not left the setup mode.   *)
Configured ==
  staNet = None =>
    /\ cfg = None /\ mode = "setup_ap" /\ sta = "idle"
    /\ \A i \in DOMAIN events : events[i].kind # "got_ip"

(* The last event tells of a station that is up, and none of one that is     *)
(* down; while the access point is up the device says that it is connected.  *)
LastEventTells ==
  /\ events # <<>> /\ sta = "idle" => events[Len(events)].kind # "got_ip"
  /\ events # <<>> /\ sta = "linked" => events[Len(events)].kind = "got_ip"
  /\ events = <<>> /\ sta = "linked" => connected
  /\ apUp => connected

(* A join that no earlier address can be mistaken for an answer to: before   *)
(* it connects there is none, and after an address is posted the station is  *)
(* up or its loss is all that comes after.                                   *)
Unanswered ==
  joinPc = "connect" /\ ~late =>
    /\ "got_ip" \notin bits /\ (\A i \in DOMAIN events : events[i].kind # "got_ip")
    /\ sta # "linked" /\ (sta = "connecting" => "link" \in fresh)

Answered ==
  joinPc \in {"wait", "unmark"} /\ ~late =>
    /\ \A i \in DOMAIN events : events[i].kind = "got_ip" =>
         /\ timerPc # "connect" /\ request.net \in worked
         /\ \/ sta = "linked" /\ i = Len(events)
            \/ sta = "idle" /\ i + 1 = Len(events) /\ events[Len(events)].kind = "lost"
    /\ "got_ip" \in bits =>
         /\ timerPc # "connect" /\ request.net \in worked
         /\ attempts = 0 /\ mode = "sta" /\ eventPc = "idle"
         /\ \/ events = <<>> /\ sta # "connecting"
            \/ sta = "idle" /\ Len(events) = 1 /\ events[1].kind = "lost"
    /\ sta = "linked" =>
         "got_ip" \in bits \/ \E i \in DOMAIN events : events[i].kind = "got_ip"

Answers ==
  /\ Unanswered /\ Answered
  /\ joinPc = "unmark" => seen \subseteq bits
  /\ joinPc = "adopt" /\ ~late => request.net \in worked

(* How often the station can be lost before another try: losses not handled, *)
(* a station that is up or trying, a retry about to connect.                 *)
One(p) == IF p THEN 1 ELSE 0
LossesAt(s) == {i \in DOMAIN s : s[i].kind = "lost"}
LossesIn(s) == Cardinality(LossesAt(s))
Tries == LossesIn(events) + One(sta # "idle") + One(timerPc = "connect")

(* A loss that a join has taken note of and not acted upon.                  *)
Failed ==
  One(\/ joinPc = "unmark" /\ "fail" \in seen
      \/ joinPc \in {"mark", "disconnect", "connect", "wait"} /\ "fail" \in bits)

(* What is armed, and whether the retry comes first.                         *)
RetryWaits == timers \in {<<"retry">>, <<"retry", "ap_stop">>, <<"ap_stop", "retry">>}
ApStopWaits == timers \in {<<"ap_stop">>, <<"retry", "ap_stop">>, <<"ap_stop", "retry">>}
RetryFirst == timers = <<"retry", "ap_stop">>

(* The same, up to the end of the access point: with the retry before it,    *)
(* and what a join that waits will take away (Taken).                        *)
Left == Tries + One(RetryFirst) + Failed
Taken == One(joinPc \in {"wait", "unmark"})

Retries == One(RetryWaits)
OldRetries == One(RetryWaits /\ "retry" \notin fresh)

Stopping == ApStopWaits \/ timerPc \in {"ap_mode", "ap_flag"}

(* A join that was answered stops the access point with few tries left.      *)
Adopting ==
  (joinPc = "adopt" /\ ~late) \/ (joinPc = "arm" /\ ~doubtful) =>
    /\ mode = "sta" /\ eventPc = "idle"
    /\ Tries + Retries <= 2
    /\ attempts + Tries + OldRetries <= 2

(* The access point is stopped before the retries run out.                   *)
Within == attempts + Left <= 3 + Taken
WellWithin == attempts + Left <= 2 + Taken
FewLeft == Left <= 2 + Taken

(* An address has come for the join that runs, and sets attempts to 0.       *)
AddressCame ==
  \/ joinPc \in {"mark", "disconnect", "connect", "wait"} /\ "got_ip" \in bits
  \/ joinPc = "unmark" /\ "got_ip" \in seen

InTime ==
  Stopping /\ ~doubtful =>
    /\ mode = "sta" /\ eventPc = "idle"
    /\ Within
    /\ ~(joinPc = "adopt" /\ late) => FewLeft
    /\ AddressCame => WellWithin
    /\ joinPc = "unmark" => seen # {}

(* The driver's mode is the one of the fallback, but for an access point     *)
(* that a join has put up again.                                             *)
ApMode ==
  ~doubtful =>
    /\ mode = "setup_ap" \/ eventPc = "ap_status" => radio = "apsta"
    /\ timerPc = "ap_flag" => radio = "sta" \/ revived
    /\ radio = "apsta" /\ ~revived => apUp \/ eventPc = "ap_status"

(* A station that is down and was not left to a join will be tried again.    *)
Retried ==
  sta = "idle" /\ mode = "sta" /\ ~Excepted =>
    RetryWaits \/ timerPc = "connect" \/ eventPc # "idle" \/ events # <<>>

-----------------------------------------------------------------------------
(* The events under way *)

(* What the driver posts is an event. *)
LEMMA EventKinds ==
  /\ [kind |-> "start"] \in Events /\ [kind |-> "lost"] \in Events
  /\ \A net \in Nets : [kind |-> "got_ip", net |-> net] \in Events
  /\ \A e \in Events : e.kind \in {"start", "lost", "got_ip"}
BY DEF Events

(* The losses of a queue are counted by a natural number. *)
LEMMA LossesCounted ==
  ASSUME NEW s \in Seq(Events)
  PROVE  IsFiniteSet(LossesAt(s)) /\ LossesIn(s) \in Nat
<1>1. IsFiniteSet(1..Len(s))
  BY FS_Interval
<1>2. LossesAt(s) \in SUBSET (1..Len(s))
  BY DEF LossesAt
<1>3. QED BY <1>1, <1>2, FS_Subset, FS_CardinalityType DEF LossesIn

(* An event posted counts if it tells of a loss. *)
LEMMA LossPosted ==
  ASSUME NEW s \in Seq(Events), NEW e \in Events
  PROVE  LossesIn(Append(s, e)) = LossesIn(s) + One(e.kind = "lost")
<1> DEFINE n == Len(s) + 1
<1>1. /\ DOMAIN Append(s, e) = 1..n /\ DOMAIN s = 1..(n - 1) /\ n \in Nat \ {0}
      /\ Append(s, e)[n] = e
      /\ \A i \in 1..(n - 1) : Append(s, e)[i] = s[i]
  OBVIOUS
<1>2. n \notin LossesAt(s) /\ IsFiniteSet(LossesAt(s)) /\ LossesIn(s) \in Nat
  <2>1. n \notin DOMAIN s
    BY <1>1
  <2>2. QED BY <2>1, LossesCounted DEF LossesAt
<1>3. Cardinality(LossesAt(s) \cup {n}) = LossesIn(s) + 1
  BY <1>2, FS_AddElement DEF LossesIn
<1>4. CASE e.kind = "lost"
  <2>1. LossesAt(Append(s, e)) = LossesAt(s) \cup {n}
    BY <1>1, <1>4 DEF LossesAt
  <2>2. QED BY <1>3, <1>4, <2>1 DEF LossesIn, One
<1>5. CASE e.kind # "lost"
  <2>1. LossesAt(Append(s, e)) = LossesAt(s)
    BY <1>1, <1>5 DEF LossesAt
  <2>2. QED BY <1>2, <1>5, <2>1 DEF LossesIn, One
<1>6. QED BY <1>4, <1>5

(* An event taken no longer does. *)
LEMMA LossTaken ==
  ASSUME NEW s \in Seq(Events), s # <<>>
  PROVE  LossesIn(s) = LossesIn(Tail(s)) + One(s[1].kind = "lost")
<1> DEFINE rest == LossesAt(s) \ {1}
           back == [i \in LossesAt(Tail(s)) |-> i + 1]
<1>1. /\ Len(s) \in Nat \ {0} /\ DOMAIN s = 1..Len(s) /\ Tail(s) \in Seq(Events)
      /\ DOMAIN Tail(s) = 1..(Len(s) - 1)
      /\ \A i \in 1..(Len(s) - 1) : Tail(s)[i] = s[i + 1]
  OBVIOUS
<1>2. \A i \in LossesAt(Tail(s)) : i \in Nat /\ i + 1 \in rest
  BY <1>1 DEF LossesAt
<1>3. \A j \in rest : j - 1 \in LossesAt(Tail(s)) /\ back[j - 1] = j
  <2> SUFFICES ASSUME NEW j \in rest
               PROVE  j - 1 \in LossesAt(Tail(s)) /\ back[j - 1] = j
    OBVIOUS
  <2>1. j \in 2..Len(s) /\ s[j].kind = "lost"
    BY <1>1 DEF LossesAt
  <2>2. j - 1 \in 1..(Len(s) - 1) /\ (j - 1) + 1 = j
    BY <1>1, <2>1
  <2>3. Tail(s)[j - 1] = s[j]
    BY <1>1, <2>2
  <2>4. j - 1 \in LossesAt(Tail(s))
    BY <1>1, <2>1, <2>2, <2>3 DEF LossesAt
  <2>5. QED BY <2>2, <2>4
<1>4. back \in Bijection(LossesAt(Tail(s)), rest)
  <2>1. back \in [LossesAt(Tail(s)) -> rest]
    BY <1>2
  <2>2. \A a, b \in LossesAt(Tail(s)) : back[a] = back[b] => a = b
    BY <1>2
  <2>3. \A j \in rest : \E i \in LossesAt(Tail(s)) : back[i] = j
    BY <1>3
  <2> HIDE DEF back, rest
  <2>4. back \in Injection(LossesAt(Tail(s)), rest)
    BY <2>1, <2>2 DEF Injection, IsInjective
  <2>5. back \in Surjection(LossesAt(Tail(s)), rest)
    BY <2>1, <2>3 DEF Surjection
  <2>6. QED BY <2>4, <2>5 DEF Bijection
<1>5. Cardinality(rest) = LossesIn(Tail(s)) /\ IsFiniteSet(LossesAt(s))
  <2>1. IsFiniteSet(LossesAt(Tail(s))) /\ IsFiniteSet(LossesAt(s))
    BY <1>1, LossesCounted
  <2> HIDE DEF back, rest
  <2>2. QED BY <1>4, <2>1, FS_Bijection DEF LossesIn, ExistsBijection
<1>6. Cardinality(rest) = IF 1 \in LossesAt(s) THEN LossesIn(s) - 1 ELSE LossesIn(s)
  BY <1>5, FS_RemoveElement DEF LossesIn
<1>7. 1 \in LossesAt(s) <=> s[1].kind = "lost"
  BY <1>1 DEF LossesAt
<1>8. LossesIn(s) \in Nat /\ LossesIn(Tail(s)) \in Nat
  BY <1>1, LossesCounted
<1>9. QED BY <1>5, <1>6, <1>7, <1>8 DEF One

(* The queue before and after an event is taken, and one posted. *)
LEMMA EventTaken ==
  ASSUME Types, NEW kind, Take(kind)
  PROVE  /\ eventPc = "idle" /\ events # <<>> /\ events[1].kind = kind
         /\ events' = Tail(events) /\ events' \in Seq(Events)
         /\ Len(events) \in Nat \ {0} /\ Len(events') = Len(events) - 1
         /\ events' = <<>> <=> Len(events) = 1
         /\ events' # <<>> => events'[Len(events')] = events[Len(events)]
         /\ \A i \in DOMAIN events' : i + 1 \in DOMAIN events /\ events'[i] = events[i + 1]
         /\ \A i \in DOMAIN events : i # 1 => i - 1 \in DOMAIN events' /\ events'[i - 1] = events[i]
<1>1. /\ events \in Seq(Events) /\ events # <<>> /\ events' = Tail(events)
      /\ eventPc = "idle" /\ events[1].kind = kind
  BY DEF Types, Take
<1>2. /\ Len(events) \in Nat \ {0} /\ Len(events') = Len(events) - 1
      /\ events' \in Seq(Events)
      /\ \A i \in DOMAIN events' : i + 1 \in DOMAIN events /\ events'[i] = events[i + 1]
  BY <1>1
<1>3. events' = <<>> <=> Len(events') = 0
  BY <1>2
<1>4. events' # <<>> => events'[Len(events')] = events[Len(events)]
  BY <1>1, <1>2, <1>3
<1>5. \A i \in DOMAIN events : i # 1 => i - 1 \in DOMAIN events' /\ events'[i - 1] = events[i]
  BY <1>1, <1>2
<1>6. QED BY <1>1, <1>2, <1>3, <1>4, <1>5

LEMMA EventPosted ==
  ASSUME Types, NEW e \in Events, events' = Append(events, e)
  PROVE  /\ Len(events) \in Nat /\ Len(events') = Len(events) + 1 /\ events' # <<>>
         /\ DOMAIN events = 1..Len(events) /\ DOMAIN events' = 1..(Len(events) + 1)
         /\ events'[Len(events) + 1] = e
         /\ \A i \in DOMAIN events : events'[i] = events[i]
BY DEF Types

(* The same, counted. *)
LEMMA TakenCounts ==
  ASSUME Types, NEW kind, Take(kind)
  PROVE  /\ LossesIn(events)' \in Nat
         /\ kind = "lost" => LossesIn(events) = LossesIn(events)' + 1
         /\ kind # "lost" => LossesIn(events) = LossesIn(events)'
<1>1. events \in Seq(Events) /\ events # <<>> /\ events' = Tail(events) /\ events' \in Seq(Events)
  BY EventTaken DEF Types
<1>2. events[1].kind = kind
  BY EventTaken
<1>3. LossesIn(events) = LossesIn(Tail(events)) + One(kind = "lost")
  BY <1>1, <1>2, LossTaken
<1>4. LossesIn(Tail(events)) \in Nat
  BY <1>1, LossesCounted
<1>5. QED BY <1>1, <1>3, <1>4 DEF One

LEMMA PostedCounts ==
  ASSUME Types, NEW e \in Events, events' = Append(events, e)
  PROVE  /\ e.kind = "lost" => LossesIn(events)' = LossesIn(events) + 1
         /\ e.kind # "lost" => LossesIn(events)' = LossesIn(events)
<1>1. LossesIn(Append(events, e)) = LossesIn(events) + One(e.kind = "lost")
  BY LossPosted DEF Types
<1>2. LossesIn(events) \in Nat
  BY LossesCounted DEF Types
<1>3. QED BY <1>1, <1>2 DEF One

LEMMA DisconnectCounts ==
  ASSUME Types, Disconnect
  PROVE  /\ LossesIn(events) \in Nat /\ sta' = "idle"
         /\ sta # "idle" => LossesIn(events)' = LossesIn(events) + 1
         /\ sta = "idle" => LossesIn(events)' = LossesIn(events)
<1>1. LossesIn(events) \in Nat
  BY LossesCounted DEF Types
<1>2. CASE sta = "idle"
  BY <1>1, <1>2 DEF Disconnect
<1>3. CASE sta # "idle"
  <2>1. events' = Append(events, [kind |-> "lost"]) /\ sta' = "idle"
    BY <1>3 DEF Disconnect
  <2>2. QED BY <1>1, <1>3, <2>1, EventKinds, PostedCounts
<1>4. QED BY <1>2, <1>3

LEMMA AddressCounts ==
  ASSUME Types, GetAddress
  PROVE  /\ sta = "connecting" /\ sta' = "linked" /\ timerPc = "idle"
         /\ LossesIn(events)' = LossesIn(events)
<1>1. /\ sta = "connecting" /\ sta' = "linked" /\ timerPc = "idle"
      /\ events' = Append(events, [kind |-> "got_ip", net |-> staNet]) /\ staNet \in Nets
  BY NetsAssumption DEF GetAddress, AirTime
<1>2. [kind |-> "got_ip", net |-> staNet].kind # "lost"
  OBVIOUS
<1>3. QED BY <1>1, <1>2, EventKinds, PostedCounts

(* A queue of one event has at most one loss. *)
LEMMA FewLosses ==
  ASSUME NEW s \in Seq(Events)
  PROVE  /\ s = <<>> => LossesIn(s) = 0
         /\ Len(s) = 1 => LossesIn(s) \in {0, 1}
<1>1. LossesIn(<<>>) = 0
  <2>1. LossesAt(<<>>) = {}
    BY DEF LossesAt
  <2>2. QED BY <2>1, FS_EmptySet DEF LossesIn
<1>2. ASSUME Len(s) = 1
      PROVE  LossesIn(s) \in {0, 1}
  <2>1. s # <<>> /\ Tail(s) \in Seq(Events) /\ Len(Tail(s)) = 0
    <3>1. s # <<>>
      <4>1. Len(<<>>) # 1
        OBVIOUS
      <4>2. QED BY <1>2, <4>1, Zenon
    <3>2. Tail(s) \in Seq(Events) /\ Len(Tail(s)) = Len(s) - 1
      BY <3>1
    <3>3. QED BY <1>2, <3>1, <3>2
  <2>2. Tail(s) = <<>>
    <3> DEFINE t == Tail(s)
    <3>1. t \in Seq(Events) /\ Len(t) = 0
      BY <2>1
    <3> HIDE DEF t
    <3>2. t = <<>>
      BY <3>1
    <3>3. QED BY <3>2 DEF t
  <2>3. LossesIn(s) = LossesIn(Tail(s)) + One(s[1].kind = "lost")
    BY <2>1, LossTaken
  <2>4. LossesIn(s) = 0 + One(s[1].kind = "lost")
    BY <1>1, <2>2, <2>3
  <2>5. QED BY <2>4 DEF One
<1>3. QED BY <1>1, <1>2

-----------------------------------------------------------------------------
(* The timers: an armed one goes behind the other *)

LEMMA RetryArmed ==
  ASSUME timers \in TimerQueues, Arm("retry")
  PROVE  /\ timers' \in TimerQueues /\ RetryWaits' /\ ~RetryFirst'
         /\ ApStopWaits' <=> ApStopWaits
<1> USE DEF TimerQueues, RetryWaits, RetryFirst, ApStopWaits
<1>1. CASE timers \in {<<>>, <<"retry">>}
  <2>1. timers' = <<"retry">>
    BY <1>1 DEF Arm
  <2>2. QED BY <1>1, <2>1
<1>2. CASE ApStopWaits
  <2>1. timers' = <<"ap_stop", "retry">>
    BY <1>2 DEF Arm
  <2>2. QED BY <1>2, <2>1
<1>3. QED BY <1>1, <1>2

LEMMA ApStopArmed ==
  ASSUME timers \in TimerQueues, Arm("ap_stop")
  PROVE  /\ timers' \in TimerQueues /\ ApStopWaits'
         /\ RetryWaits' <=> RetryWaits
         /\ RetryFirst' <=> RetryWaits
<1> USE DEF TimerQueues, RetryWaits, RetryFirst, ApStopWaits
<1>1. CASE timers \in {<<>>, <<"ap_stop">>}
  <2>1. timers' = <<"ap_stop">>
    BY <1>1 DEF Arm
  <2>2. QED BY <1>1, <2>1
<1>2. CASE RetryWaits
  <2>1. timers' = <<"retry", "ap_stop">>
    BY <1>2 DEF Arm
  <2>2. QED BY <1>2, <2>1
<1>3. QED BY <1>1, <1>2

(* The one that expires goes off the queue. *)
LEMMA TimerExpires ==
  ASSUME timers \in TimerQueues, timers # <<>>, timers' = Tail(timers)
  PROVE  /\ timers' \in TimerQueues
         /\ Head(timers) = "retry" =>
              /\ RetryWaits /\ ~RetryWaits' /\ ~RetryFirst'
              /\ ApStopWaits' <=> RetryFirst
              /\ ApStopWaits' <=> ApStopWaits
         /\ Head(timers) # "retry" =>
              /\ ApStopWaits /\ ~ApStopWaits' /\ ~RetryFirst /\ ~RetryFirst'
              /\ RetryWaits' <=> RetryWaits
<1> USE DEF TimerQueues, RetryWaits, RetryFirst, ApStopWaits
<1>1. CASE timers = <<"retry">>
  <2>1. timers' = <<>> /\ Head(timers) = "retry"
    BY <1>1
  <2>2. QED BY <1>1, <2>1
<1>2. CASE timers = <<"ap_stop">>
  <2>1. timers' = <<>> /\ Head(timers) = "ap_stop"
    BY <1>2
  <2>2. QED BY <1>2, <2>1
<1>3. CASE timers = <<"retry", "ap_stop">>
  <2>1. timers' = <<"ap_stop">> /\ Head(timers) = "retry"
    BY <1>3
  <2>2. QED BY <1>3, <2>1
<1>4. CASE timers = <<"ap_stop", "retry">>
  <2>1. timers' = <<"retry">> /\ Head(timers) = "ap_stop"
    BY <1>4
  <2>2. QED BY <1>4, <2>1
<1>5. QED BY <1>1, <1>2, <1>3, <1>4

LEMMA NoTimerWaits ==
  ASSUME timers = <<>>
  PROVE  ~RetryWaits /\ ~ApStopWaits /\ ~RetryFirst
BY DEF RetryWaits, RetryFirst, ApStopWaits

LEMMA TimersKept ==
  ASSUME UNCHANGED timers
  PROVE  /\ RetryWaits' <=> RetryWaits
         /\ ApStopWaits' <=> ApStopWaits
         /\ RetryFirst' <=> RetryFirst
BY DEF RetryWaits, RetryFirst, ApStopWaits

-----------------------------------------------------------------------------
(* Every step keeps each part *)

(* The variables keep their types, and a join is in progress where the web   *)
(* server's task says so.                                                    *)
LEMMA TypesInductive ==
  ASSUME Types, [Next]_vars
  PROVE  Types'
<1> USE NetsAssumption, BoundsAssumption DEF Types, Joining, JoinPcs, Asking, Idle,
        status, driver, clock, join, proof
<1> USE EventKinds
<1>1. CASE GetAddress
  BY <1>1 DEF GetAddress
<1>2. CASE LoseLink
  BY <1>2 DEF LoseLink, Disconnect
<1>3. CASE OnStaStart
  BY <1>3 DEF OnStaStart, Take, Connect
<1>4. CASE OnLost
  <2>1. events' \in Seq(Events)
    BY <1>4 DEF OnLost, Take
  <2>2. timers' \in TimerQueues
    BY <1>4, RetryArmed DEF OnLost
  <2>3. fresh' \in {fresh, fresh \ {"retry"}, fresh \cup {"retry"}}
    BY <1>4 DEF OnLost, Begin
  <2>4. bits' \in {bits, bits \cup {"fail"}} /\ attempts' \in Nat
    BY <1>4 DEF OnLost
  <2>5. eventPc' \in {"idle", "ap_mode", "ap_status"}
    BY <1>4 DEF OnLost
  <2>6. UNCHANGED <<cfg, staNet, worked, mode, radio, sta, seen, timerPc, joinPc, joining, request>>
    BY <1>4 DEF OnLost
  <2>7. QED BY <2>1, <2>2, <2>3, <2>4, <2>5, <2>6
<1>5. CASE StartApMode
  BY <1>5 DEF StartApMode
<1>6. CASE StartApStatus
  BY <1>6 DEF StartApStatus
<1>7. CASE OnGotIp
  BY <1>7 DEF OnGotIp, Take
<1>8. CASE TimerFires
  BY <1>8, TimerExpires DEF TimerFires, LeaveToJoin
<1>9. CASE RetryConnects
  BY <1>9 DEF RetryConnects, Connect, Begin
<1>10. CASE StopApMode
  BY <1>10 DEF StopApMode
<1>11. CASE StopApFlag
  BY <1>11 DEF StopApFlag
<1>12. CASE JoinClears
  BY <1>12 DEF JoinClears
<1>13. CASE JoinMarks
  BY <1>13 DEF JoinMarks
<1>14. CASE JoinDisconnects
  BY <1>14 DEF JoinDisconnects, Disconnect
<1>15. CASE JoinConnects
  <2>1. UNCHANGED <<cfg, staNet, worked, mode, attempts, radio, bits, seen, events,
                    timers, eventPc, timerPc>> /\ fresh' = {}
    BY <1>15 DEF JoinConnects, Connect
  <2>2. CASE joinPc' = "wait"
    <3>1. UNCHANGED <<request, joining>> /\ sta' \in {"connecting", sta}
      BY <1>15, <2>2 DEF JoinConnects, Connect
    <3>2. QED BY <1>15, <2>1, <2>2, <3>1 DEF JoinConnects
  <2>3. CASE joinPc' # "wait"
    <3>1. joinPc' = "idle" /\ request' = Idle /\ joining' = FALSE /\ sta' = sta
      BY <1>15, <2>3 DEF JoinConnects
    <3>2. QED BY <2>1, <3>1
  <2>4. QED BY <2>2, <2>3
<1>16. CASE JoinWakes
  BY <1>16 DEF JoinWakes
<1>17. CASE JoinUnmarks
  BY <1>17 DEF JoinUnmarks
<1>18. CASE JoinAdopts
  BY <1>18 DEF JoinAdopts
<1>19. CASE JoinArms
  BY <1>19, ApStopArmed DEF JoinArms, JoinEnds, Arm
<1>20. CASE JoinGivesUp
  BY <1>20 DEF JoinGivesUp, JoinEnds, Disconnect
<1>21. ASSUME NEW net \in Nets, JoinRequested(net)
      PROVE  Types'
  BY <1>21 DEF JoinRequested
<1>22. CASE JoinKeepsAp
  BY <1>22 DEF JoinKeepsAp, JoinEnds
<1>23. CASE JoinConfigures
  BY <1>23 DEF JoinConfigures, JoinEnds
<1>24. CASE UNCHANGED vars
  BY <1>24 DEF vars
<1> HIDE DEF Types, Joining, JoinPcs, Asking, Idle, status, driver, clock, join,
        proof
<1>25. QED
  BY <1>1, <1>2, <1>3, <1>4, <1>5, <1>6, <1>7, <1>8, <1>9, <1>10, <1>11,
     <1>12, <1>13, <1>14, <1>15, <1>16, <1>17, <1>18, <1>19, <1>20, <1>21,
     <1>22, <1>23, <1>24
  DEF Next, EventTask, TimerTask, JoinTask

(* The first event is handled before anything else comes of it. *)
LEMMA StartsInductive ==
  ASSUME Types, Starts, [Next]_vars
  PROVE  Starts'
<1> USE NetsAssumption DEF Types, Starts, Joining, JoinPcs, Asking, Events,
        TimerQueues, Reached, Settled, MayPost, status, driver, clock, join,
        proof
<1>1. CASE GetAddress
  BY <1>1 DEF GetAddress
<1>2. CASE LoseLink
  BY <1>2 DEF LoseLink, Disconnect
<1>3. CASE OnStaStart
  BY <1>3 DEF OnStaStart, Take, Connect
<1>4. CASE OnLost
  BY <1>4 DEF OnLost, Take, Arm, LeaveToJoin, Begin
<1>5. CASE StartApMode
  BY <1>5 DEF StartApMode
<1>6. CASE StartApStatus
  BY <1>6 DEF StartApStatus
<1>7. CASE OnGotIp
  BY <1>7 DEF OnGotIp, Take
<1>8. CASE TimerFires
  BY <1>8 DEF TimerFires, LeaveToJoin
<1>9. CASE RetryConnects
  BY <1>9 DEF RetryConnects, Connect, Begin
<1>10. CASE StopApMode
  BY <1>10 DEF StopApMode
<1>11. CASE StopApFlag
  BY <1>11 DEF StopApFlag
<1>12. CASE JoinClears
  BY <1>12 DEF JoinClears
<1>13. CASE JoinMarks
  BY <1>13 DEF JoinMarks
<1>14. CASE JoinDisconnects
  BY <1>14 DEF JoinDisconnects, Disconnect
<1>15. CASE JoinConnects
  BY <1>15 DEF JoinConnects, Connect
<1>16. CASE JoinWakes
  BY <1>16 DEF JoinWakes
<1>17. CASE JoinUnmarks
  BY <1>17 DEF JoinUnmarks
<1>18. CASE JoinAdopts
  BY <1>18 DEF JoinAdopts
<1>19. CASE JoinArms
  BY <1>19 DEF JoinArms, JoinEnds, Arm
<1>20. CASE JoinGivesUp
  BY <1>20 DEF JoinGivesUp, JoinEnds, Disconnect
<1>21. ASSUME NEW net \in Nets, JoinRequested(net)
      PROVE  Starts'
  BY <1>21 DEF JoinRequested
<1>22. CASE JoinKeepsAp
  BY <1>22 DEF JoinKeepsAp, JoinEnds
<1>23. CASE JoinConfigures
  BY <1>23 DEF JoinConfigures, JoinEnds
<1>24. CASE UNCHANGED vars
  BY <1>24 DEF vars
<1> HIDE DEF Types, Starts, Joining, JoinPcs, Asking, Events, TimerQueues, Reached,
        Settled, MayPost, status, driver, clock, join, proof
<1>25. QED
  BY <1>1, <1>2, <1>3, <1>4, <1>5, <1>6, <1>7, <1>8, <1>9, <1>10, <1>11,
     <1>12, <1>13, <1>14, <1>15, <1>16, <1>17, <1>18, <1>19, <1>20, <1>21,
     <1>22, <1>23, <1>24
  DEF Next, EventTask, TimerTask, JoinTask

(* A network, once named to the station, stays named. *)
LEMMA ConfiguredInductive ==
  ASSUME Types, Configured, [Next]_vars
  PROVE  Configured'
<1> USE NetsAssumption DEF Types, Configured, Joining, JoinPcs, Asking, Events,
        TimerQueues, status, driver, clock, join, proof
<1>1. CASE GetAddress
  BY <1>1 DEF GetAddress
<1>2. CASE LoseLink
  BY <1>2 DEF LoseLink, Disconnect
<1>3. CASE OnStaStart
  BY <1>3 DEF OnStaStart, Take, Connect
<1>4. CASE OnLost
  BY <1>4 DEF OnLost, Take, Arm, LeaveToJoin, Begin
<1>5. CASE StartApMode
  BY <1>5 DEF StartApMode
<1>6. CASE StartApStatus
  BY <1>6 DEF StartApStatus
<1>7. CASE OnGotIp
  BY <1>7 DEF OnGotIp, Take
<1>8. CASE TimerFires
  BY <1>8 DEF TimerFires, LeaveToJoin
<1>9. CASE RetryConnects
  BY <1>9 DEF RetryConnects, Connect, Begin
<1>10. CASE StopApMode
  BY <1>10 DEF StopApMode
<1>11. CASE StopApFlag
  BY <1>11 DEF StopApFlag
<1>12. CASE JoinClears
  BY <1>12 DEF JoinClears
<1>13. CASE JoinMarks
  BY <1>13 DEF JoinMarks
<1>14. CASE JoinDisconnects
  BY <1>14 DEF JoinDisconnects, Disconnect
<1>15. CASE JoinConnects
  BY <1>15 DEF JoinConnects, Connect
<1>16. CASE JoinWakes
  BY <1>16 DEF JoinWakes
<1>17. CASE JoinUnmarks
  BY <1>17 DEF JoinUnmarks
<1>18. CASE JoinAdopts
  BY <1>18 DEF JoinAdopts
<1>19. CASE JoinArms
  BY <1>19 DEF JoinArms, JoinEnds, Arm
<1>20. CASE JoinGivesUp
  BY <1>20 DEF JoinGivesUp, JoinEnds, Disconnect
<1>21. ASSUME NEW net \in Nets, JoinRequested(net)
      PROVE  Configured'
  BY <1>21 DEF JoinRequested
<1>22. CASE JoinKeepsAp
  BY <1>22 DEF JoinKeepsAp, JoinEnds
<1>23. CASE JoinConfigures
  BY <1>23 DEF JoinConfigures, JoinEnds
<1>24. CASE UNCHANGED vars
  BY <1>24 DEF vars
<1> HIDE DEF Types, Configured, Joining, JoinPcs, Asking, Events, TimerQueues,
        status, driver, clock, join, proof
<1>25. QED
  BY <1>1, <1>2, <1>3, <1>4, <1>5, <1>6, <1>7, <1>8, <1>9, <1>10, <1>11,
     <1>12, <1>13, <1>14, <1>15, <1>16, <1>17, <1>18, <1>19, <1>20, <1>21,
     <1>22, <1>23, <1>24
  DEF Next, EventTask, TimerTask, JoinTask

(* The last event posted stays true of the station. *)
LEMMA LastEventInductive ==
  ASSUME Types, LastEventTells, [Next]_vars
  PROVE  LastEventTells'
<1> USE NetsAssumption DEF Types, LastEventTells, Reached, Events, Joining,
        JoinPcs, Asking, status, driver, clock, join, proof
<1>1. CASE GetAddress
  BY <1>1 DEF GetAddress
<1>2. CASE LoseLink
  BY <1>2 DEF LoseLink, Disconnect
<1>3. CASE OnStaStart
  <2>1. Take("start") /\ (sta' = sta \/ sta' = "connecting")
    BY <1>3 DEF OnStaStart, Connect
  <2>2. UNCHANGED <<connected, apUp>>
    BY <1>3 DEF OnStaStart
  <2>3. QED BY <2>1, <2>2, EventTaken
<1>4. CASE OnLost
  <2>1. Take("lost") /\ connected' = apUp /\ UNCHANGED <<sta, apUp>>
    BY <1>4 DEF OnLost
  <2>2. events = <<>> \/ events[Len(events)].kind = "got_ip" \/ sta # "linked"
    OBVIOUS
  <2>3. events[1].kind = "lost" /\ events # <<>> /\ (events' = <<>> => Len(events) = 1)
    BY <2>1, EventTaken
  <2>4. sta = "linked" => events' # <<>>
    BY <2>2, <2>3
  <2>5. events' # <<>> => events'[Len(events')] = events[Len(events)]
    BY <2>1, EventTaken
  <2>6. QED BY <2>1, <2>3, <2>4, <2>5
<1>5. CASE StartApMode
  BY <1>5 DEF StartApMode
<1>6. CASE StartApStatus
  BY <1>6 DEF StartApStatus
<1>7. CASE OnGotIp
  BY <1>7 DEF OnGotIp, Take
<1>8. CASE TimerFires
  BY <1>8 DEF TimerFires, LeaveToJoin
<1>9. CASE RetryConnects
  BY <1>9 DEF RetryConnects, Connect, Begin
<1>10. CASE StopApMode
  BY <1>10 DEF StopApMode
<1>11. CASE StopApFlag
  BY <1>11 DEF StopApFlag
<1>12. CASE JoinClears
  BY <1>12 DEF JoinClears
<1>13. CASE JoinMarks
  BY <1>13 DEF JoinMarks
<1>14. CASE JoinDisconnects
  BY <1>14 DEF JoinDisconnects, Disconnect
<1>15. CASE JoinConnects
  BY <1>15 DEF JoinConnects, Connect
<1>16. CASE JoinWakes
  BY <1>16 DEF JoinWakes
<1>17. CASE JoinUnmarks
  BY <1>17 DEF JoinUnmarks
<1>18. CASE JoinAdopts
  BY <1>18 DEF JoinAdopts
<1>19. CASE JoinArms
  BY <1>19 DEF JoinArms, JoinEnds, Arm
<1>20. CASE JoinGivesUp
  BY <1>20 DEF JoinGivesUp, JoinEnds, Disconnect
<1>21. ASSUME NEW net \in Nets, JoinRequested(net)
      PROVE  LastEventTells'
  BY <1>21 DEF JoinRequested
<1>22. CASE JoinKeepsAp
  BY <1>22 DEF JoinKeepsAp, JoinEnds
<1>23. CASE JoinConfigures
  BY <1>23 DEF JoinConfigures, JoinEnds
<1>24. CASE UNCHANGED vars
  BY <1>24 DEF vars
<1> HIDE DEF Types, LastEventTells, Reached, Events, Joining, JoinPcs, Asking,
        status, driver, clock, join, proof
<1>25. QED
  BY <1>1, <1>2, <1>3, <1>4, <1>5, <1>6, <1>7, <1>8, <1>9, <1>10, <1>11,
     <1>12, <1>13, <1>14, <1>15, <1>16, <1>17, <1>18, <1>19, <1>20, <1>21,
     <1>22, <1>23, <1>24
  DEF Next, EventTask, TimerTask, JoinTask

(* An address posted for a join is the one it was for. *)
LEMMA AnswersInductive ==
  ASSUME Types, Starts, Answers, [Next]_vars
  PROVE  Answers'
<1> USE NetsAssumption DEF Types, Starts, Answers, Unanswered, Answered,
        Events, Joining, JoinPcs, Asking, status, driver, clock, join, proof
<1>1. CASE GetAddress
  <2>1. /\ sta = "connecting" /\ timerPc = "idle" /\ "link" \notin fresh
        /\ sta' = "linked" /\ worked' = worked \cup {staNet}
        /\ UNCHANGED <<bits, seen, joinPc, late, request, attempts, mode, eventPc, timerPc, fresh>>
    BY <1>1 DEF GetAddress, AirTime
  <2>2. events' = Append(events, [kind |-> "got_ip", net |-> staNet]) /\ staNet \in Nets
    BY <1>1 DEF GetAddress
  <2>3. [kind |-> "got_ip", net |-> staNet] \in Events
    BY <2>2, EventKinds
  <2>4. /\ Len(events) \in Nat /\ Len(events') = Len(events) + 1
        /\ DOMAIN events = 1..Len(events) /\ DOMAIN events' = 1..(Len(events) + 1)
        /\ events'[Len(events) + 1].kind = "got_ip"
        /\ \A i \in DOMAIN events : events'[i] = events[i]
    BY <2>2, <2>3, EventPosted
  <2> HIDE DEF Events
  <2>5. Unanswered'
    BY <2>1
  <2>6. Answered'
    <3> SUFFICES ASSUME joinPc \in {"wait", "unmark"}, ~late
                 PROVE  Answered'
      BY <2>1
    <3>1. \A i \in DOMAIN events : events[i].kind # "got_ip"
      BY <2>1
    <3>2. "got_ip" \notin bits /\ request.net = staNet
      BY <2>1
    <3>3. \A i \in DOMAIN events' : events'[i].kind = "got_ip" => i = Len(events')
      BY <2>4, <3>1
    <3>4. QED BY <2>1, <2>4, <3>2, <3>3
  <2>7. QED BY <2>1, <2>5, <2>6
<1>2. CASE LoseLink
  BY <1>2 DEF LoseLink, Disconnect
<1>3. CASE OnStaStart
  <2>1. CASE joinPc = "idle"
    BY <1>3, <2>1 DEF OnStaStart
  <2>2. CASE joinPc # "idle"
    <3>1. /\ Take("start") /\ bits = {}
          /\ UNCHANGED <<bits, seen, joinPc, late, request, worked, sta, timerPc, fresh>>
      BY <1>3, <2>2, EventTaken DEF OnStaStart
    <3>2. /\ Len(events) \in Nat /\ Len(events') = Len(events) - 1
          /\ events' # <<>> => events'[Len(events')] = events[Len(events)]
          /\ \A i \in DOMAIN events' : i + 1 \in DOMAIN events /\ events'[i] = events[i + 1]
          /\ \A i \in DOMAIN events : i # 1 => i - 1 \in DOMAIN events' /\ events'[i - 1] = events[i]
          /\ events[1].kind = "start" /\ events' \in Seq(Events)
      BY <3>1, EventTaken
    <3> HIDE DEF Events
    <3>3. Unanswered'
      BY <3>1, <3>2
    <3>4. Answered'
      <4> SUFFICES ASSUME joinPc \in {"wait", "unmark"}, ~late
                   PROVE  Answered'
        BY <3>1
      <4>1. ASSUME NEW i \in DOMAIN events', events'[i].kind = "got_ip"
            PROVE  /\ timerPc # "connect" /\ request.net \in worked
                   /\ \/ sta = "linked" /\ i = Len(events')
                      \/ sta = "idle" /\ i + 1 = Len(events') /\ events'[Len(events')].kind = "lost"
        BY <3>1, <3>2, <4>1
      <4>2. sta = "linked" => \E i \in DOMAIN events' : events'[i].kind = "got_ip"
        BY <3>1, <3>2
      <4>3. QED BY <3>1, <4>1, <4>2
    <3>5. QED BY <3>1, <3>3, <3>4
  <2>3. QED BY <2>1, <2>2
<1>4. CASE OnLost
  <2>1. /\ Take("lost") /\ bits' \in {bits, bits \cup {"fail"}}
        /\ UNCHANGED <<mode, seen, joinPc, late, request, worked, sta, timerPc>>
        /\ joinPc \in Joining => UNCHANGED <<attempts, eventPc, fresh>>
    BY <1>4 DEF OnLost
  <2>2. /\ Len(events) \in Nat /\ Len(events') = Len(events) - 1
        /\ events' # <<>> => events'[Len(events')] = events[Len(events)]
        /\ events' = <<>> <=> Len(events) = 1
        /\ \A i \in DOMAIN events' : i + 1 \in DOMAIN events /\ events'[i] = events[i + 1]
        /\ \A i \in DOMAIN events : i # 1 => i - 1 \in DOMAIN events' /\ events'[i - 1] = events[i]
        /\ events[1].kind = "lost" /\ events' \in Seq(Events)
    BY <2>1, EventTaken
  <2> HIDE DEF Events
  <2>3. Unanswered'
    BY <2>1, <2>2
  <2>4. Answered'
    <3> SUFFICES ASSUME joinPc \in {"wait", "unmark"}, ~late
                 PROVE  Answered'
      BY <2>1
    <3>1. ASSUME NEW i \in DOMAIN events', events'[i].kind = "got_ip"
          PROVE  /\ timerPc # "connect" /\ request.net \in worked
                 /\ \/ sta = "linked" /\ i = Len(events')
                    \/ sta = "idle" /\ i + 1 = Len(events') /\ events'[Len(events')].kind = "lost"
      BY <2>1, <2>2, <3>1
    <3>2. "got_ip" \in bits => Len(events) = 1 /\ sta = "idle"
      BY <2>2, EventTaken, <2>1
    <3>3. sta = "linked" => "got_ip" \in bits \/ \E i \in DOMAIN events' : events'[i].kind = "got_ip"
      BY <2>1, <2>2
    <3>4. QED BY <2>1, <2>2, <3>1, <3>2, <3>3
  <2>5. QED BY <2>1, <2>3, <2>4
<1>5. CASE StartApMode
  BY <1>5 DEF StartApMode
<1>6. CASE StartApStatus
  BY <1>6 DEF StartApStatus
<1>7. CASE OnGotIp
  <2>1. /\ Take("got_ip") /\ bits' = bits \cup {"got_ip"} /\ attempts' = 0 /\ mode' = "sta"
        /\ UNCHANGED <<seen, joinPc, late, request, worked, sta, timerPc, eventPc, fresh>>
    BY <1>7 DEF OnGotIp
  <2>2. /\ Len(events) \in Nat \ {0} /\ Len(events') = Len(events) - 1
        /\ events' # <<>> => events'[Len(events')] = events[Len(events)]
        /\ events' = <<>> <=> Len(events) = 1
        /\ events[1].kind = "got_ip" /\ events' \in Seq(Events) /\ eventPc = "idle"
    BY <2>1, EventTaken
  <2>3. 1 \in DOMAIN events
    BY <2>2
  <2> HIDE DEF Events
  <2>4. Unanswered'
    BY <2>1, <2>2, <2>3
  <2>5. Answered'
    <3> SUFFICES ASSUME joinPc \in {"wait", "unmark"}, ~late
                 PROVE  Answered'
      BY <2>1
    <3>1. /\ timerPc # "connect" /\ request.net \in worked
          /\ \/ sta = "linked" /\ Len(events) = 1
             \/ sta = "idle" /\ Len(events) = 2 /\ events[Len(events)].kind = "lost"
      BY <2>2, <2>3
    <3>2. \/ events' = <<>> /\ sta # "connecting"
          \/ sta = "idle" /\ Len(events') = 1 /\ events'[1].kind = "lost"
      BY <2>2, <3>1
    <3>3. \A i \in DOMAIN events' : events'[i].kind # "got_ip"
      BY <2>2, <3>2
    <3>4. QED BY <2>1, <2>2, <3>1, <3>2, <3>3
  <2>6. QED BY <2>1, <2>2, <2>4, <2>5
<1>8. CASE TimerFires
  BY <1>8 DEF TimerFires, LeaveToJoin
<1>9. CASE RetryConnects
  BY <1>9 DEF RetryConnects, Connect, Begin
<1>10. CASE StopApMode
  BY <1>10 DEF StopApMode
<1>11. CASE StopApFlag
  BY <1>11 DEF StopApFlag
<1>12. CASE JoinClears
  BY <1>12 DEF JoinClears
<1>13. CASE JoinMarks
  BY <1>13 DEF JoinMarks
<1>14. CASE JoinDisconnects
  <2>1. /\ joinPc = "disconnect" /\ joinPc' = "connect" /\ sta' = "idle"
        /\ bits' = bits /\ events' \in {events, Append(events, [kind |-> "lost"])}
    BY <1>14 DEF JoinDisconnects, Disconnect
  <2>2. ~late' => "got_ip" \notin bits /\ \A i \in DOMAIN events : events[i].kind # "got_ip"
    BY <1>14 DEF JoinDisconnects
  <2>3. ~late' => \A i \in DOMAIN events' : events'[i].kind # "got_ip"
    <3>1. CASE events' = events
      BY <2>2, <3>1
    <3>2. CASE events' = Append(events, [kind |-> "lost"])
      <4>1. /\ Len(events) \in Nat /\ DOMAIN events = 1..Len(events)
            /\ DOMAIN events' = 1..(Len(events) + 1)
            /\ events'[Len(events) + 1].kind = "lost"
            /\ \A i \in DOMAIN events : events'[i] = events[i]
        BY <3>2, EventKinds, EventPosted
      <4> HIDE DEF Events
      <4>2. QED BY <2>2, <4>1
    <3>3. QED BY <2>1, <3>1, <3>2
  <2>4. QED BY <2>1, <2>2, <2>3
<1>15. CASE JoinConnects
  BY <1>15 DEF JoinConnects, Connect
<1>16. CASE JoinWakes
  BY <1>16 DEF JoinWakes
<1>17. CASE JoinUnmarks
  BY <1>17 DEF JoinUnmarks
<1>18. CASE JoinAdopts
  BY <1>18 DEF JoinAdopts
<1>19. CASE JoinArms
  BY <1>19 DEF JoinArms, JoinEnds, Arm
<1>20. CASE JoinGivesUp
  BY <1>20 DEF JoinGivesUp, JoinEnds, Disconnect
<1>21. ASSUME NEW net \in Nets, JoinRequested(net)
      PROVE  Answers'
  BY <1>21 DEF JoinRequested
<1>22. CASE JoinKeepsAp
  BY <1>22 DEF JoinKeepsAp, JoinEnds
<1>23. CASE JoinConfigures
  BY <1>23 DEF JoinConfigures, JoinEnds
<1>24. CASE UNCHANGED vars
  BY <1>24 DEF vars
<1> HIDE DEF Types, Starts, Answers, Unanswered, Answered, Events, Joining,
        JoinPcs, Asking, status, driver, clock, join, proof
<1>25. QED
  BY <1>1, <1>2, <1>3, <1>4, <1>5, <1>6, <1>7, <1>8, <1>9, <1>10, <1>11,
     <1>12, <1>13, <1>14, <1>15, <1>16, <1>17, <1>18, <1>19, <1>20, <1>21,
     <1>22, <1>23, <1>24
  DEF Next, EventTask, TimerTask, JoinTask

(* Nobody takes the access point of a fallback down. *)
LEMMA ApModeInductive ==
  ASSUME Types, ApMode, InTime, [Next]_vars
  PROVE  ApMode'
<1> USE NetsAssumption DEF Types, ApMode, InTime, Stopping, Joining,
        JoinPcs, Asking, status, driver, clock, join, proof
<1>1. CASE GetAddress
  BY <1>1 DEF GetAddress
<1>2. CASE LoseLink
  BY <1>2 DEF LoseLink, Disconnect
<1>3. CASE OnStaStart
  BY <1>3 DEF OnStaStart, Take, Connect
<1>4. CASE OnLost
  BY <1>4 DEF OnLost, Take, Arm, LeaveToJoin, Begin
<1>5. CASE StartApMode
  BY <1>5 DEF StartApMode
<1>6. CASE StartApStatus
  BY <1>6 DEF StartApStatus
<1>7. CASE OnGotIp
  BY <1>7 DEF OnGotIp, Take
<1>8. CASE TimerFires
  <2>1. /\ UNCHANGED <<mode, radio, apUp, eventPc, doubtful, revived>>
        /\ timerPc' # "ap_flag"
    BY <1>8 DEF TimerFires
  <2>2. QED BY <2>1
<1>9. CASE RetryConnects
  BY <1>9 DEF RetryConnects, Connect, Begin
<1>10. CASE StopApMode
  BY <1>10 DEF StopApMode
<1>11. CASE StopApFlag
  BY <1>11 DEF StopApFlag
<1>12. CASE JoinClears
  BY <1>12 DEF JoinClears
<1>13. CASE JoinMarks
  BY <1>13 DEF JoinMarks
<1>14. CASE JoinDisconnects
  BY <1>14 DEF JoinDisconnects, Disconnect
<1>15. CASE JoinConnects
  BY <1>15 DEF JoinConnects, Connect
<1>16. CASE JoinWakes
  BY <1>16 DEF JoinWakes
<1>17. CASE JoinUnmarks
  BY <1>17 DEF JoinUnmarks
<1>18. CASE JoinAdopts
  BY <1>18 DEF JoinAdopts
<1>19. CASE JoinArms
  BY <1>19 DEF JoinArms, JoinEnds, Arm
<1>20. CASE JoinGivesUp
  BY <1>20 DEF JoinGivesUp, JoinEnds, Disconnect
<1>21. ASSUME NEW net \in Nets, JoinRequested(net)
      PROVE  ApMode'
  BY <1>21 DEF JoinRequested
<1>22. CASE JoinKeepsAp
  BY <1>22 DEF JoinKeepsAp, JoinEnds
<1>23. CASE JoinConfigures
  BY <1>23 DEF JoinConfigures, JoinEnds
<1>24. CASE UNCHANGED vars
  BY <1>24 DEF vars
<1> HIDE DEF Types, ApMode, InTime, Stopping, Joining, JoinPcs, Asking, status,
        driver, clock, join, proof
<1>25. QED
  BY <1>1, <1>2, <1>3, <1>4, <1>5, <1>6, <1>7, <1>8, <1>9, <1>10, <1>11,
     <1>12, <1>13, <1>14, <1>15, <1>16, <1>17, <1>18, <1>19, <1>20, <1>21,
     <1>22, <1>23, <1>24
  DEF Next, EventTask, TimerTask, JoinTask

(* A station left down has another try coming. *)
LEMMA RetriedInductive ==
  ASSUME Types, Starts, Configured, LastEventTells, Retried, [Next]_vars
  PROVE  Retried'
<1> USE NetsAssumption, TimersKept DEF Types, Starts, Configured,
        LastEventTells, Retried, Excepted, Events, Joining, JoinPcs, Asking, status,
        driver, clock, join, proof
<1>1. CASE GetAddress
  BY <1>1 DEF GetAddress
<1>2. CASE LoseLink
  BY <1>2 DEF LoseLink, Disconnect
<1>3. CASE OnStaStart
  <2>1. UNCHANGED <<cfg, staNet, mode, doubtful, swallowed, timers, timerPc, eventPc>>
    BY <1>3 DEF OnStaStart, Connect
  <2>2. CASE cfg # None
    <3>1. sta = "idle" /\ staNet # None
      BY <1>3, <2>2, EventTaken DEF OnStaStart
    <3>2. sta' = "connecting"
      BY <1>3, <2>2, <3>1 DEF OnStaStart, Connect
    <3>3. QED BY <3>2
  <2>3. CASE cfg = None
    <3>1. mode = "setup_ap"
      BY <1>3, <2>3, EventTaken DEF OnStaStart
    <3>2. QED BY <2>1, <3>1
  <2>4. QED BY <2>2, <2>3
<1>4. CASE OnLost
  BY <1>4, RetryArmed DEF OnLost, Take, Arm, LeaveToJoin, Begin
<1>5. CASE StartApMode
  BY <1>5 DEF StartApMode
<1>6. CASE StartApStatus
  BY <1>6 DEF StartApStatus
<1>7. CASE OnGotIp
  <2>1. Take("got_ip") /\ UNCHANGED <<sta, eventPc>>
    BY <1>7 DEF OnGotIp
  <2>2. events' # <<>> \/ sta # "idle"
    BY <2>1, EventTaken
  <2>3. QED BY <2>1, <2>2
<1>8. CASE TimerFires
  <2>1. /\ timerPc = "idle" /\ UNCHANGED <<sta, mode, doubtful, eventPc, events, joining>>
        /\ timers \in TimerQueues /\ timers # <<>> /\ timers' = Tail(timers)
    BY <1>8 DEF TimerFires
  <2>2. SUFFICES ASSUME sta = "idle", mode = "sta", ~swallowed', ~doubtful, eventPc = "idle", events = <<>>
                 PROVE  RetryWaits' \/ timerPc' = "connect"
    BY <2>1
  <2>3. CASE Head(timers) = "retry"
    <3>1. ~joining
      BY <1>8, <2>2, <2>3 DEF TimerFires, LeaveToJoin
    <3>2. QED BY <1>8, <2>2, <2>3, <3>1 DEF TimerFires
  <2>4. CASE Head(timers) # "retry"
    <3>1. ~swallowed
      BY <1>8, <2>2, <2>4 DEF TimerFires
    <3>2. RetryWaits
      BY <2>1, <2>2, <3>1
    <3>3. RetryWaits' <=> RetryWaits
      BY <2>1, <2>4, TimerExpires
    <3>4. QED BY <3>2, <3>3
  <2>5. QED BY <2>3, <2>4
<1>9. CASE RetryConnects
  BY <1>9 DEF RetryConnects, Connect, Begin
<1>10. CASE StopApMode
  BY <1>10 DEF StopApMode
<1>11. CASE StopApFlag
  BY <1>11 DEF StopApFlag
<1>12. CASE JoinClears
  BY <1>12 DEF JoinClears
<1>13. CASE JoinMarks
  BY <1>13 DEF JoinMarks
<1>14. CASE JoinDisconnects
  BY <1>14 DEF JoinDisconnects, Disconnect
<1>15. CASE JoinConnects
  BY <1>15 DEF JoinConnects, Connect
<1>16. CASE JoinWakes
  BY <1>16 DEF JoinWakes
<1>17. CASE JoinUnmarks
  BY <1>17 DEF JoinUnmarks
<1>18. CASE JoinAdopts
  BY <1>18 DEF JoinAdopts
<1>19. CASE JoinArms
  BY <1>19, ApStopArmed DEF JoinArms, JoinEnds, Arm
<1>20. CASE JoinGivesUp
  BY <1>20 DEF JoinGivesUp, JoinEnds, Disconnect
<1>21. ASSUME NEW net \in Nets, JoinRequested(net)
      PROVE  Retried'
  BY <1>21 DEF JoinRequested
<1>22. CASE JoinKeepsAp
  BY <1>22 DEF JoinKeepsAp, JoinEnds
<1>23. CASE JoinConfigures
  BY <1>23 DEF JoinConfigures, JoinEnds
<1>24. CASE UNCHANGED vars
  BY <1>24 DEF vars
<1> HIDE DEF Types, Starts, Configured, LastEventTells, Retried, Excepted,
        Events, Joining, JoinPcs, Asking, status, driver, clock, join, proof
<1>25. QED
  BY <1>1, <1>2, <1>3, <1>4, <1>5, <1>6, <1>7, <1>8, <1>9, <1>10, <1>11,
     <1>12, <1>13, <1>14, <1>15, <1>16, <1>17, <1>18, <1>19, <1>20, <1>21,
     <1>22, <1>23, <1>24
  DEF Next, EventTask, TimerTask, JoinTask

(* A join that was answered has few tries left before it stops the access    *)
(* point.                                                                    *)
LEMMA AdoptingInductive ==
  ASSUME MaxAttempts >= 3, Types, Starts, Answers, Adopting, [Next]_vars
  PROVE  Adopting'
<1> USE TimersKept DEF Adopting, Tries, Retries, OldRetries, One, Joining,
        JoinPcs, Asking, status, driver, clock, join, proof
<1>0. LossesIn(events) \in Nat /\ attempts \in Nat /\ timers \in TimerQueues
  BY LossesCounted DEF Types
<1> USE <1>0
<1>1. CASE GetAddress
  BY <1>1, AddressCounts DEF GetAddress
<1>2. CASE LoseLink
  BY <1>2, DisconnectCounts DEF LoseLink, Disconnect
<1>3. CASE OnStaStart
  <2>1. joinPc' = joinPc /\ joinPc \notin {"adopt", "arm"}
    BY <1>3, EventTaken DEF OnStaStart, Starts
  <2>2. QED BY <2>1
<1>4. CASE OnLost
  <2> SUFFICES ASSUME (joinPc = "adopt" /\ ~late) \/ (joinPc = "arm" /\ ~doubtful)
               PROVE  Adopting'
    BY <1>4 DEF OnLost
  <2>1. LossesIn(events) = LossesIn(events)' + 1 /\ LossesIn(events)' \in Nat
    BY <1>4, TakenCounts DEF OnLost
  <2>2. attempts < MaxAttempts /\ mode = "sta" /\ ~joining
    <3>1. mode = "sta" /\ attempts + Tries + OldRetries <= 2 /\ Tries \in Nat \ {0} /\ OldRetries \in Nat
      BY <2>1
    <3>2. MaxAttempts \in Nat /\ ~joining
      BY BoundsAssumption DEF Types
    <3> HIDE DEF Adopting, Tries, Retries, OldRetries, One
    <3>3. QED BY <3>1, <3>2
  <2>3. /\ attempts' = attempts + 1 /\ Arm("retry") /\ fresh' = fresh \cup {"retry"}
        /\ UNCHANGED <<mode, eventPc, sta, timerPc, joinPc, late, doubtful>>
    BY <1>4, <2>2 DEF OnLost, Begin
  <2>4. RetryWaits' /\ OldRetries' = 0
    BY <2>3, RetryArmed
  <2>5. Tries' + 1 = Tries /\ Tries' \in Nat
    BY <2>1, <2>3
  <2>6. attempts + Tries + OldRetries <= 2 /\ OldRetries \in Nat
    OBVIOUS
  <2>7. mode' = "sta" /\ eventPc' = "idle"
    BY <2>3
  <2>8. Retries' \in Nat /\ Retries' <= 1 /\ Tries \in Nat
    BY <2>5
  <2>12. attempts' = attempts + 1 /\ attempts \in Nat /\ OldRetries' = 0
    BY <2>3, <2>4
  <2> HIDE <1>0, TimersKept DEF Adopting, Tries, Retries, OldRetries, One
  <2>9. Tries' + Retries' <= 2 /\ attempts' + Tries' + OldRetries' <= 2
    <3>1. Tries <= 2 /\ attempts + Tries <= 2
      BY <2>12, <2>6, <2>8
    <3> DEFINE t == Tries' r == Retries'
    <3>2. t \in Nat /\ r \in Nat /\ r <= 1 /\ t + 1 = Tries
      BY <2>5, <2>8
    <3> HIDE DEF t, r
    <3>3. t + r <= 2 /\ (attempts + 1) + t + 0 <= 2
      BY <2>8, <2>12, <3>1, <3>2
    <3>4. QED BY <2>12, <3>3 DEF t, r
  <2>10. QED BY <2>7, <2>9 DEF Adopting
<1>5. CASE StartApMode
  BY <1>5 DEF StartApMode
<1>6. CASE StartApStatus
  BY <1>6 DEF StartApStatus
<1>7. CASE OnGotIp
  <2>1. /\ LossesIn(events) = LossesIn(events)' /\ attempts' = 0 /\ mode' = "sta"
        /\ UNCHANGED <<sta, timerPc, timers, fresh, eventPc, joinPc, late, doubtful>>
    BY <1>7, TakenCounts DEF OnGotIp
  <2>2. Tries' = Tries /\ OldRetries' = OldRetries /\ Tries \in Nat /\ OldRetries \in Nat
    BY <2>1
  <2>3. Retries' = Retries
    BY <2>1
  <2> HIDE DEF Tries, Retries, OldRetries, One
  <2>4. QED BY <2>1, <2>2, <2>3
<1>8. CASE TimerFires
  <2> SUFFICES ASSUME (joinPc = "adopt" /\ ~late) \/ (joinPc = "arm" /\ ~doubtful)
               PROVE  Adopting'
    BY <1>8 DEF TimerFires
  <2>1. /\ timerPc = "idle" /\ timers # <<>> /\ timers' = Tail(timers)
        /\ Head(timers) \notin fresh /\ (timerPc' = "connect" => Head(timers) = "retry")
        /\ UNCHANGED <<fresh, mode, eventPc, sta, events, attempts, joinPc, late, doubtful>>
    BY <1>8 DEF TimerFires
  <2>2. CASE Head(timers) = "retry"
    <3>1. RetryWaits /\ ~RetryWaits'
      BY <2>1, <2>2, TimerExpires
    <3>2. Tries' + Retries' <= Tries + Retries /\ Tries' \in Nat
      <4>1. Retries = 1 /\ Retries' = 0
        BY <3>1
      <4>2. Tries' <= Tries + 1 /\ Tries \in Nat /\ Tries' \in Nat
        BY <2>1
      <4> DEFINE t == Tries' r == Retries'
      <4>3. t <= Tries + 1 /\ Tries \in Nat /\ t \in Nat /\ r = 0 /\ Retries = 1
        BY <4>1, <4>2
      <4> HIDE DEF t, r, Tries, Retries
      <4>4. t + r <= Tries + Retries
        BY <4>3
      <4>5. QED BY <4>2, <4>4 DEF t, r
    <3>3. Tries' + OldRetries' <= Tries + OldRetries /\ OldRetries' \in Nat
      BY <2>1, <2>2, <3>1
    <3>4. /\ Retries' \in Nat /\ Retries \in Nat
          /\ Tries \in Nat /\ OldRetries \in Nat /\ attempts \in Nat
      OBVIOUS
    <3>5. /\ mode = "sta" /\ eventPc = "idle"
          /\ Tries + Retries <= 2 /\ attempts + Tries + OldRetries <= 2
      OBVIOUS
    <3> HIDE <1>0, TimersKept DEF Adopting, Tries, Retries, OldRetries, One
    <3>6. Tries' + Retries' <= 2 /\ attempts + Tries' + OldRetries' <= 2
      <4> DEFINE t == Tries' r == Retries' f == OldRetries'
      <4>1. /\ t \in Nat /\ r \in Nat /\ f \in Nat
            /\ t + r <= Tries + Retries /\ t + f <= Tries + OldRetries
        BY <3>2, <3>3, <3>4
      <4> HIDE DEF t, r, f
      <4>2. t + r <= 2 /\ attempts + t + f <= 2
        BY <3>4, <3>5, <4>1
      <4>3. QED BY <4>2 DEF t, r, f
    <3>7. UNCHANGED <<mode, eventPc, attempts>>
      BY <2>1
    <3>8. QED BY <3>5, <3>6, <3>7 DEF Adopting
  <2>3. CASE Head(timers) # "retry"
    <3>1. RetryWaits' <=> RetryWaits
      BY <2>1, <2>3, TimerExpires
    <3>2. QED BY <2>1, <2>3, <3>1
  <2>4. QED BY <2>2, <2>3
<1>9. CASE RetryConnects
  BY <1>9 DEF RetryConnects, Connect, Begin
<1>10. CASE StopApMode
  BY <1>10 DEF StopApMode
<1>11. CASE StopApFlag
  BY <1>11 DEF StopApFlag
<1>12. CASE JoinClears
  BY <1>12 DEF JoinClears
<1>13. CASE JoinMarks
  BY <1>13 DEF JoinMarks
<1>14. CASE JoinDisconnects
  BY <1>14, DisconnectCounts DEF JoinDisconnects, Disconnect
<1>15. CASE JoinConnects
  BY <1>15 DEF JoinConnects, Connect
<1>16. CASE JoinWakes
  BY <1>16 DEF JoinWakes
<1>17. CASE JoinUnmarks
  <2> SUFFICES ASSUME joinPc = "unmark", "got_ip" \in seen, ~late, joinPc' = "adopt"
               PROVE  Adopting'
    BY <1>17 DEF JoinUnmarks
  <2>1. UNCHANGED <<mode, eventPc, sta, timerPc, attempts, events, timers, fresh>>
    BY <1>17 DEF JoinUnmarks
  <2>2. /\ timerPc # "connect" /\ attempts = 0 /\ mode = "sta" /\ eventPc = "idle"
        /\ \/ events = <<>> /\ sta # "connecting"
           \/ sta = "idle" /\ Len(events) = 1
    BY DEF Answers, Answered
  <2>3. LossesIn(events) + One(sta # "idle") <= 1
    BY <2>2, FewLosses DEF Types
  <2>4. Tries <= 1
    BY <2>2, <2>3
  <2>5. QED BY <2>1, <2>2, <2>4
<1>18. CASE JoinAdopts
  <2>1. /\ joinPc = "adopt" /\ joinPc' = "arm" /\ attempts' = 0
        /\ UNCHANGED <<mode, eventPc, sta, timerPc, events, timers, fresh>>
        /\ ~doubtful' => ~late
    BY <1>18 DEF JoinAdopts
  <2>2. QED BY <2>1
<1>19. CASE JoinArms
  BY <1>19, ApStopArmed DEF JoinArms, JoinEnds, Arm
<1>20. CASE JoinGivesUp
  BY <1>20, DisconnectCounts DEF JoinGivesUp, JoinEnds, Disconnect
<1>21. ASSUME NEW net \in Nets, JoinRequested(net)
      PROVE  Adopting'
  BY <1>21 DEF JoinRequested
<1>22. CASE JoinKeepsAp
  BY <1>22 DEF JoinKeepsAp, JoinEnds
<1>23. CASE JoinConfigures
  BY <1>23 DEF JoinConfigures, JoinEnds
<1>24. CASE UNCHANGED vars
  BY <1>24 DEF vars
<1> HIDE DEF Adopting, Tries, Retries, OldRetries, One, Joining, JoinPcs, Asking,
        status, driver, clock, join, proof
<1>25. QED
  BY <1>1, <1>2, <1>3, <1>4, <1>5, <1>6, <1>7, <1>8, <1>9, <1>10, <1>11,
     <1>12, <1>13, <1>14, <1>15, <1>16, <1>17, <1>18, <1>19, <1>20, <1>21,
     <1>22, <1>23, <1>24
  DEF Next, EventTask, TimerTask, JoinTask

(* The counts are natural numbers. *)
Counted ==
  /\ LossesIn(events) \in Nat /\ Tries \in Nat /\ Failed \in {0, 1}
  /\ Left \in Nat /\ Taken \in {0, 1} /\ attempts \in Nat
  /\ timers \in TimerQueues

LEMMA LeftTyped == Types => Counted
<1> SUFFICES ASSUME Types
             PROVE  Counted
  OBVIOUS
<1>1. LossesIn(events) \in Nat /\ attempts \in Nat /\ timers \in TimerQueues
  BY LossesCounted DEF Types
<1>2. Tries \in Nat
  BY <1>1 DEF Tries, One
<1>3. Failed \in {0, 1} /\ Taken \in {0, 1}
  BY DEF Failed, Taken, One
<1>4. One(RetryFirst) \in Nat
  BY DEF One
<1>5. Left \in Nat
  BY <1>2, <1>3, <1>4 DEF Left
<1>6. QED BY <1>1, <1>2, <1>3, <1>5 DEF Counted

LEMMA LeftTypedNext == Types' => Counted'
BY LeftTyped, PTL

(* One timer of the queue counts for at most one try. *)
LEMMA TriesKept ==
  ASSUME Counted, Counted', UNCHANGED timers,
         Tries' <= Tries, Failed' <= Failed
  PROVE  Left' <= Left
<1> DEFINE t == Tries' f == Failed'
<1>1. /\ t \in Nat /\ f \in Nat /\ t <= Tries /\ f <= Failed
      /\ Tries \in Nat /\ Failed \in Nat
  BY DEF Counted
<1>2. Left' = t + One(RetryFirst) + f
  BY TimersKept DEF Left, One
<1>3. One(RetryFirst) \in {0, 1}
  BY DEF One
<1> HIDE DEF t, f
<1>4. QED BY <1>1, <1>2, <1>3 DEF Left

(* What a step makes of the counts: no more is left; a join's own try; a     *)
(* loss that a join took note of, or that costs an attempt.                  *)
CountsMove ==
  \/ Left' <= Left /\ Taken' = Taken /\ attempts' <= attempts
  \/ Left' <= Left + 1 /\ Taken = 0 /\ Taken' = 1 /\ attempts' = attempts
  \/ Left' <= Left - 1 /\ Taken = 1 /\ Taken' = 0 /\ attempts' = attempts
  \/ Left' <= Left - 1 /\ Taken' = Taken /\ attempts' = attempts + 1

LEMMA LeftLowered ==
  ASSUME Counted, Counted', CountsMove
  PROVE  (Within => Within') /\ (WellWithin => WellWithin') /\ (FewLeft => FewLeft')
<1> DEFINE a == attempts' l == Left' t == Taken'
<1>1. /\ attempts \in Nat /\ Left \in Nat /\ Taken \in {0, 1}
      /\ a \in Nat /\ l \in Nat /\ t \in {0, 1}
  BY DEF Counted
<1>2. \/ l <= Left /\ t = Taken /\ a <= attempts
      \/ l <= Left + 1 /\ Taken = 0 /\ t = 1 /\ a = attempts
      \/ l <= Left - 1 /\ Taken = 1 /\ t = 0 /\ a = attempts
      \/ l <= Left - 1 /\ t = Taken /\ a = attempts + 1
  BY DEF CountsMove
<1> HIDE DEF a, l, t
<1>3. attempts + Left <= 3 + Taken => a + l <= 3 + t
  BY <1>1, <1>2
<1>4. attempts + Left <= 2 + Taken => a + l <= 2 + t
  BY <1>1, <1>2
<1>5. Left <= 2 + Taken => l <= 2 + t
  BY <1>1, <1>2
<1>6. Within' <=> a + l <= 3 + t
  BY DEF Within, a, l, t
<1>7. WellWithin' <=> a + l <= 2 + t
  BY DEF WellWithin, a, l, t
<1>8. FewLeft' <=> l <= 2 + t
  BY DEF FewLeft, l, t
<1>9. QED BY <1>3, <1>4, <1>5, <1>6, <1>7, <1>8 DEF Within, WellWithin, FewLeft

LEMMA InTimeKept ==
  ASSUME Counted, Counted', InTime, Stopping, ~doubtful, CountsMove,
         UNCHANGED <<mode, eventPc>>,
         joinPc = "adopt" /\ late => joinPc' = "adopt" /\ late',
         AddressCame' => AddressCame,
         joinPc' = "unmark" => seen' # {}
  PROVE  InTime'
<1>1. (Within => Within') /\ (WellWithin => WellWithin') /\ (FewLeft => FewLeft')
  BY LeftLowered
<1>2. /\ Within /\ (~(joinPc = "adopt" /\ late) => FewLeft) /\ (AddressCame => WellWithin)
      /\ mode = "sta" /\ eventPc = "idle"
  BY DEF InTime
<1>3. QED BY <1>1, <1>2 DEF InTime

(* The access point is stopped before the retries run out. *)
LEMMA InTimeInductive ==
  ASSUME MaxAttempts >= 3, Types, Starts, Answers, Adopting, InTime, [Next]_vars
  PROVE  InTime'
<1> USE DEF status, driver, clock, join, proof
<1> SUFFICES ASSUME Stopping', ~doubtful'
            PROVE  InTime'
  BY DEF InTime
<1>0. Counted /\ Counted'
  BY TypesInductive, LeftTyped, LeftTypedNext
<1> USE <1>0
<1>1. CASE GetAddress
  <2>1. /\ Stopping /\ ~doubtful /\ UNCHANGED <<mode, eventPc>>
        /\ joinPc = "adopt" /\ late => joinPc' = "adopt" /\ late'
        /\ (AddressCame' => AddressCame) /\ (joinPc' = "unmark" => seen' # {})
    BY <1>1, TimersKept DEF GetAddress, Stopping, AddressCame, InTime
  <2>2. CountsMove
    <3>1. /\ Tries' <= Tries /\ Failed' <= Failed
          /\ Taken' = Taken /\ attempts' <= attempts
      BY <1>1, AddressCounts DEF GetAddress, Tries, Failed, Taken, One, Counted
    <3>2. UNCHANGED timers
      BY <1>1 DEF GetAddress
    <3>3. QED BY <3>1, <3>2, TriesKept DEF CountsMove
  <2>3. QED BY <2>1, <2>2, InTimeKept
<1>2. CASE LoseLink
  <2>1. /\ Stopping /\ ~doubtful /\ UNCHANGED <<mode, eventPc>>
        /\ joinPc = "adopt" /\ late => joinPc' = "adopt" /\ late'
        /\ (AddressCame' => AddressCame) /\ (joinPc' = "unmark" => seen' # {})
    BY <1>2, TimersKept DEF LoseLink, Disconnect, Stopping, AddressCame, InTime
  <2>2. CountsMove
    <3>1. /\ Tries' <= Tries /\ Failed' <= Failed
          /\ Taken' = Taken /\ attempts' <= attempts
      BY <1>2, DisconnectCounts DEF LoseLink, Tries, Failed, Taken, One, Counted
    <3>2. UNCHANGED timers
      BY <1>2 DEF LoseLink
    <3>3. QED BY <3>1, <3>2, TriesKept DEF CountsMove
  <2>3. QED BY <2>1, <2>2, InTimeKept
<1>3. CASE OnStaStart
  <2>1. UNCHANGED <<timers, timerPc>> /\ timers = <<>> /\ timerPc = "idle"
    BY <1>3, EventTaken DEF OnStaStart, Starts
  <2>2. QED BY <2>1, NoTimerWaits, TimersKept DEF Stopping
<1>4. CASE OnLost
  <2>1. /\ LossesIn(events) = LossesIn(events)' + 1 /\ LossesIn(events)' \in Nat
        /\ UNCHANGED <<mode, sta, timerPc, joinPc, joining, late, doubtful, seen>>
    BY <1>4, TakenCounts DEF OnLost
  <2>2. CASE joining
    <3>1. bits' = bits \cup {"fail"} /\ UNCHANGED <<attempts, timers, eventPc>>
      BY <1>4, <2>2 DEF OnLost
    <3>2. CountsMove
      <4>1. Tries = Tries' + 1 /\ Taken' = Taken
        BY <2>1, <3>1 DEF Tries, Taken, One
      <4>2. Failed' \in {Failed, 1} /\ One(RetryFirst)' = One(RetryFirst)
        BY <2>1, <3>1, TimersKept DEF Failed, One
      <4>3. Left' <= Left
        <5> DEFINE t == Tries' f == Failed' l == Left'
        <5>1. t + 1 = Tries /\ t \in Nat /\ f \in {Failed, 1} /\ f \in {0, 1}
          BY <4>1, <4>2 DEF Counted
        <5>2. l = t + One(RetryFirst) + f
          BY <4>2 DEF Left
        <5> HIDE DEF t, f, l
        <5>3. One(RetryFirst) \in {0, 1} /\ Tries \in Nat /\ Failed \in {0, 1}
          BY DEF One, Counted
        <5>4. l <= Left
          BY <5>1, <5>2, <5>3 DEF Left
        <5>5. QED BY <5>4 DEF l
      <4>4. QED BY <4>1, <4>3, <3>1 DEF CountsMove, Counted
    <3>3. Stopping
      BY <2>1, <3>1, TimersKept DEF Stopping
    <3>4. QED BY <2>1, <3>1, <3>2, <3>3, InTimeKept DEF AddressCame, InTime
  <2>3. CASE ~joining
    <3>1. Stopping
      <4>1. timers' = timers \/ Arm("retry")
        BY <1>4, <2>3 DEF OnLost
      <4>2. CASE timers' = timers
        BY <2>1, <4>2, TimersKept DEF Stopping
      <4>3. CASE Arm("retry")
        BY <2>1, <4>3, RetryArmed DEF Stopping, Counted
      <4>4. QED BY <4>1, <4>2, <4>3
    <3>2. Taken = 0 /\ Taken' = 0
      BY <2>1, <2>3 DEF Taken, One, Types, Joining
    <3>3. mode = "sta" /\ attempts < MaxAttempts
      <4>1. mode = "sta" /\ Within /\ Left \in Nat \ {0}
        BY <2>1, <3>1 DEF InTime, Left, Tries, One, Counted
      <4>2. attempts + Left <= 3
        BY <3>2, <4>1 DEF Within, Counted
      <4>3. MaxAttempts \in Nat /\ attempts \in Nat
        BY BoundsAssumption DEF Counted
      <4>4. QED BY <4>1, <4>2, <4>3
    <3>4. attempts' = attempts + 1 /\ Arm("retry") /\ UNCHANGED <<bits, eventPc>>
      BY <1>4, <2>3, <3>3 DEF OnLost
    <3>5. CountsMove
      <4>1. ~RetryFirst'
        BY <3>4, RetryArmed DEF Counted
      <4>2. Tries = Tries' + 1 /\ Failed' = Failed
        BY <2>1, <3>4 DEF Tries, Failed, One
      <4>3. Left' = Tries' + 0 + Failed'
        BY <4>1 DEF Left, One
      <4>4. Left' <= Left - 1
        <5> DEFINE t == Tries' l == Left'
        <5>1. t + 1 = Tries /\ t \in Nat /\ l = t + Failed
          BY <4>2, <4>3 DEF Counted
        <5> HIDE DEF t, l
        <5>2. l <= Left - 1
          BY <5>1 DEF Left, One, Counted
        <5>3. QED BY <5>2 DEF l
      <4>5. QED BY <3>2, <3>4, <4>4 DEF CountsMove
    <3>6. QED BY <2>1, <3>1, <3>4, <3>5, InTimeKept DEF AddressCame, InTime
  <2>4. QED BY <2>2, <2>3
<1>5. CASE StartApMode
  BY <1>5, TimersKept DEF StartApMode, Stopping, InTime
<1>6. CASE StartApStatus
  BY <1>6, TimersKept DEF StartApStatus, Stopping, InTime
<1>7. CASE OnGotIp
  <2>1. /\ LossesIn(events) = LossesIn(events)' /\ attempts' = 0 /\ mode' = "sta"
        /\ UNCHANGED <<sta, timerPc, timers, eventPc, joinPc, joining, late, doubtful, seen>>
        /\ bits' = bits \cup {"got_ip"}
    BY <1>7, TakenCounts DEF OnGotIp
  <2>2. Left' = Left /\ Taken' = Taken
    BY <2>1, TimersKept DEF Left, Tries, Failed, Taken, One
  <2>3. Stopping
    BY <2>1, TimersKept DEF Stopping
  <2>4. CountsMove
    BY <2>1, <2>2 DEF CountsMove, Counted
  <2>5. FewLeft => WellWithin'
    BY <2>1, <2>2 DEF FewLeft, WellWithin, Counted
  <2>6. Within' /\ (FewLeft => FewLeft')
    BY <2>1, <2>3, <2>4, LeftLowered DEF InTime
  <2>7. AddressCame' => joinPc # "adopt"
    BY <2>1 DEF AddressCame
  <2>8. QED BY <2>1, <2>3, <2>5, <2>6, <2>7 DEF InTime
<1>8. CASE TimerFires
  <2>1. /\ timerPc = "idle" /\ timers # <<>> /\ timers' = Tail(timers)
        /\ UNCHANGED <<attempts, mode, sta, bits, seen, events, eventPc, joinPc, late, doubtful>>
        /\ Head(timers) = "retry" => timerPc' \in {"idle", "connect"}
        /\ Head(timers) # "retry" => timerPc' \in {"idle", "ap_mode"}
    BY <1>8 DEF TimerFires
  <2>2. Stopping /\ CountsMove
    <3>1. CASE Head(timers) = "retry"
      <4>1. ApStopWaits' /\ RetryFirst /\ ~RetryFirst' /\ ApStopWaits
        BY <2>1, <3>1, TimerExpires DEF Stopping, Counted
      <4>2. Left' <= Left /\ Taken' = Taken
        BY <2>1, <3>1, <4>1 DEF Left, Tries, Failed, Taken, One, Counted
      <4>3. QED BY <2>1, <4>1, <4>2 DEF Stopping, CountsMove, Counted
    <3>2. CASE Head(timers) # "retry"
      <4>1. ApStopWaits /\ ~RetryFirst /\ ~RetryFirst'
        BY <2>1, <3>2, TimerExpires DEF Counted
      <4>2. Left' = Left /\ Taken' = Taken
        BY <2>1, <3>2, <4>1 DEF Left, Tries, Failed, Taken, One
      <4>3. QED BY <2>1, <4>1, <4>2 DEF Stopping, CountsMove, Counted
    <3>3. QED BY <3>1, <3>2
  <2>3. QED BY <2>1, <2>2, InTimeKept DEF AddressCame, InTime
<1>9. CASE RetryConnects
  <2>1. /\ Stopping /\ ~doubtful /\ UNCHANGED <<mode, eventPc>>
        /\ joinPc = "adopt" /\ late => joinPc' = "adopt" /\ late'
        /\ (AddressCame' => AddressCame) /\ (joinPc' = "unmark" => seen' # {})
    BY <1>9, TimersKept DEF RetryConnects, Stopping, AddressCame, InTime
  <2>2. CountsMove
    <3>1. /\ Tries' <= Tries /\ Failed' <= Failed
          /\ Taken' = Taken /\ attempts' <= attempts
      BY <1>9 DEF RetryConnects, Connect, Tries, Failed, Taken, One, Counted
    <3>2. UNCHANGED timers
      BY <1>9 DEF RetryConnects
    <3>3. QED BY <3>1, <3>2, TriesKept DEF CountsMove
  <2>3. QED BY <2>1, <2>2, InTimeKept
<1>10. CASE StopApMode
  <2>1. /\ Stopping /\ ~doubtful /\ UNCHANGED <<mode, eventPc>>
        /\ joinPc = "adopt" /\ late => joinPc' = "adopt" /\ late'
        /\ (AddressCame' => AddressCame) /\ (joinPc' = "unmark" => seen' # {})
    BY <1>10, TimersKept DEF StopApMode, Stopping, AddressCame, InTime
  <2>2. CountsMove
    <3>1. /\ Tries' <= Tries /\ Failed' <= Failed
          /\ Taken' = Taken /\ attempts' <= attempts
      BY <1>10 DEF StopApMode, Tries, Failed, Taken, One, Counted
    <3>2. UNCHANGED timers
      BY <1>10 DEF StopApMode
    <3>3. QED BY <3>1, <3>2, TriesKept DEF CountsMove
  <2>3. QED BY <2>1, <2>2, InTimeKept
<1>11. CASE StopApFlag
  <2>1. /\ Stopping /\ ~doubtful /\ UNCHANGED <<mode, eventPc>>
        /\ joinPc = "adopt" /\ late => joinPc' = "adopt" /\ late'
        /\ (AddressCame' => AddressCame) /\ (joinPc' = "unmark" => seen' # {})
    BY <1>11, TimersKept DEF StopApFlag, Stopping, AddressCame, InTime
  <2>2. CountsMove
    <3>1. /\ Tries' <= Tries /\ Failed' <= Failed
          /\ Taken' = Taken /\ attempts' <= attempts
      BY <1>11 DEF StopApFlag, Tries, Failed, Taken, One, Counted
    <3>2. UNCHANGED timers
      BY <1>11 DEF StopApFlag
    <3>3. QED BY <3>1, <3>2, TriesKept DEF CountsMove
  <2>3. QED BY <2>1, <2>2, InTimeKept
<1>12. CASE JoinClears
  <2>1. /\ Stopping /\ ~doubtful /\ UNCHANGED <<mode, eventPc>>
        /\ joinPc = "adopt" /\ late => joinPc' = "adopt" /\ late'
        /\ (AddressCame' => AddressCame) /\ (joinPc' = "unmark" => seen' # {})
    BY <1>12, TimersKept DEF JoinClears, Stopping, AddressCame, InTime
  <2>2. CountsMove
    <3>1. /\ Tries' <= Tries /\ Failed' <= Failed
          /\ Taken' = Taken /\ attempts' <= attempts
      BY <1>12 DEF JoinClears, Tries, Failed, Taken, One, Counted
    <3>2. UNCHANGED timers
      BY <1>12 DEF JoinClears
    <3>3. QED BY <3>1, <3>2, TriesKept DEF CountsMove
  <2>3. QED BY <2>1, <2>2, InTimeKept
<1>13. CASE JoinMarks
  <2>1. /\ Stopping /\ ~doubtful /\ UNCHANGED <<mode, eventPc>>
        /\ joinPc = "adopt" /\ late => joinPc' = "adopt" /\ late'
        /\ (AddressCame' => AddressCame) /\ (joinPc' = "unmark" => seen' # {})
    BY <1>13, TimersKept DEF JoinMarks, Stopping, AddressCame, InTime
  <2>2. CountsMove
    <3>1. /\ Tries' <= Tries /\ Failed' <= Failed
          /\ Taken' = Taken /\ attempts' <= attempts
      BY <1>13 DEF JoinMarks, Tries, Failed, Taken, One, Counted
    <3>2. UNCHANGED timers
      BY <1>13 DEF JoinMarks
    <3>3. QED BY <3>1, <3>2, TriesKept DEF CountsMove
  <2>3. QED BY <2>1, <2>2, InTimeKept
<1>14. CASE JoinDisconnects
  <2>1. /\ Stopping /\ ~doubtful /\ UNCHANGED <<mode, eventPc>>
        /\ joinPc = "adopt" /\ late => joinPc' = "adopt" /\ late'
        /\ (AddressCame' => AddressCame) /\ (joinPc' = "unmark" => seen' # {})
    BY <1>14, TimersKept DEF JoinDisconnects, Stopping, AddressCame, InTime
  <2>2. CountsMove
    <3>1. /\ Tries' <= Tries /\ Failed' <= Failed
          /\ Taken' = Taken /\ attempts' <= attempts
      BY <1>14, DisconnectCounts DEF JoinDisconnects, Tries, Failed, Taken, One, Counted
    <3>2. UNCHANGED timers
      BY <1>14 DEF JoinDisconnects
    <3>3. QED BY <3>1, <3>2, TriesKept DEF CountsMove
  <2>3. QED BY <2>1, <2>2, InTimeKept
<1>15. CASE JoinConnects
  <2>1. /\ Stopping /\ ~doubtful /\ UNCHANGED <<mode, eventPc>>
        /\ joinPc = "adopt" /\ late => joinPc' = "adopt" /\ late'
        /\ (AddressCame' => AddressCame) /\ (joinPc' = "unmark" => seen' # {})
    BY <1>15, TimersKept DEF JoinConnects, Connect, Stopping, AddressCame, InTime
  <2>2. CountsMove
    <3>1. /\ joinPc = "connect" /\ joinPc' \in {"wait", "idle"} /\ sta' \in {sta, "connecting"}
          /\ joinPc' = "idle" => sta' = sta
          /\ UNCHANGED <<attempts, bits, seen, events, timers, timerPc>>
      BY <1>15 DEF JoinConnects, Connect
    <3>2. CASE joinPc' = "wait"
      <4>1. Failed' = Failed /\ Taken = 0 /\ Taken' = 1
        BY <3>1, <3>2 DEF Failed, Taken, One
      <4>2. Tries' <= Tries + 1
        BY <3>1, <3>2 DEF Tries, One, Counted
      <4>3. Left' <= Left + 1
        <5> DEFINE t == Tries' l == Left'
        <5>1. /\ t <= Tries + 1 /\ t \in Nat /\ l = t + One(RetryFirst) + Failed
              /\ Tries \in Nat /\ Failed \in Nat /\ One(RetryFirst) \in {0, 1}
          BY <3>1, <4>1, <4>2, TimersKept DEF Left, Counted, One
        <5> HIDE DEF t, l
        <5>2. l <= Left + 1
          BY <5>1 DEF Left
        <5>3. QED BY <5>2 DEF l
      <4>4. QED BY <3>1, <4>1, <4>3 DEF CountsMove
    <3>3. CASE joinPc' = "idle"
      <4>1. /\ Tries' <= Tries /\ Failed' <= Failed
            /\ Taken' = Taken /\ attempts' <= attempts
        BY <3>1, <3>3 DEF Tries, Failed, Taken, One, Counted
      <4>2. QED BY <3>1, <4>1, TriesKept DEF CountsMove
    <3>4. QED BY <3>1, <3>2, <3>3
  <2>3. QED BY <2>1, <2>2, InTimeKept
<1>16. CASE JoinWakes
  <2>1. /\ Stopping /\ ~doubtful /\ UNCHANGED <<mode, eventPc>>
        /\ joinPc = "adopt" /\ late => joinPc' = "adopt" /\ late'
        /\ (AddressCame' => AddressCame) /\ (joinPc' = "unmark" => seen' # {})
    BY <1>16, TimersKept, NoTimerWaits DEF JoinWakes, Settled, Stopping, AddressCame, InTime
  <2>2. CountsMove
    <3>1. /\ Tries' <= Tries /\ Failed' <= Failed
          /\ Taken' = Taken /\ attempts' <= attempts
      BY <1>16 DEF JoinWakes, Tries, Failed, Taken, One, Counted
    <3>2. UNCHANGED timers
      BY <1>16 DEF JoinWakes
    <3>3. QED BY <3>1, <3>2, TriesKept DEF CountsMove
  <2>3. QED BY <2>1, <2>2, InTimeKept
<1>17. CASE JoinUnmarks
  <2>1. /\ joinPc = "unmark" /\ Stopping /\ ~doubtful
        /\ UNCHANGED <<attempts, mode, sta, bits, events, timers, eventPc, timerPc, late>>
        /\ \/ joinPc' = "adopt" /\ "got_ip" \in seen
           \/ joinPc' \in {"clear", "give_up"} /\ "got_ip" \notin seen
    BY <1>17, TimersKept DEF JoinUnmarks, Stopping
  <2>2. Tries' = Tries /\ Taken = 1 /\ Taken' = 0 /\ Failed' = 0 /\ Left' = Left - Failed
    BY <2>1, TimersKept DEF Left, Tries, Taken, Failed, One, Counted
  <2>3. CASE joinPc' \in {"clear", "give_up"}
    <3>1. "fail" \in seen
      BY <2>1, <2>3 DEF InTime, Types
    <3>2. Failed = 1
      BY <2>1, <3>1 DEF Failed, One
    <3>3. CountsMove
      BY <2>1, <2>2, <3>2 DEF CountsMove, Counted
    <3>4. QED BY <2>1, <2>3, <3>3, InTimeKept DEF AddressCame
  <2>4. CASE joinPc' = "adopt"
    <3>1. WellWithin /\ mode = "sta" /\ eventPc = "idle"
      BY <2>1, <2>4 DEF InTime, AddressCame
    <3>2. Left' \in Nat /\ Left' <= Left
      BY <2>2 DEF Counted
    <3>3. Within'
      <4> DEFINE l == Left'
      <4>1. l \in Nat /\ l <= Left
        BY <3>2
      <4> HIDE DEF l
      <4>2. attempts + l <= 3 + 0
        BY <2>2, <3>1, <4>1 DEF WellWithin, Counted
      <4>3. QED BY <2>1, <2>2, <4>2 DEF Within, l
    <3>4. ~late => FewLeft'
      <4> SUFFICES ASSUME ~late
                   PROVE  FewLeft'
        OBVIOUS
      <4>1. /\ timerPc # "connect"
            /\ \/ events = <<>> /\ sta # "connecting"
               \/ sta = "idle" /\ Len(events) = 1
        BY <2>1, <2>4 DEF Answers, Answered
      <4>2. LossesIn(events) + One(sta # "idle") <= 1
        BY <4>1, FewLosses DEF One, Types
      <4>3. Tries <= 1
        BY <4>1, <4>2 DEF Tries, One, Counted
      <4>4. One(RetryFirst') \in {0, 1}
        BY DEF One
      <4>5. Left' = Tries' + One(RetryFirst') + 0
        BY <2>2 DEF Left
      <4>6. Left' <= 2 + 0
        <5> DEFINE o == One(RetryFirst')
        <5>1. o \in {0, 1} /\ Left' = Tries + o
          BY <2>2, <4>4, <4>5 DEF Counted
        <5> HIDE DEF o
        <5>2. QED BY <4>3, <5>1 DEF Counted
      <4>7. QED BY <2>2, <4>6 DEF FewLeft
    <3>5. QED BY <2>1, <2>4, <3>1, <3>3, <3>4 DEF InTime, AddressCame
  <2>5. QED BY <2>1, <2>3, <2>4
<1>18. CASE JoinAdopts
  <2>1. /\ Stopping /\ ~doubtful /\ UNCHANGED <<mode, eventPc>>
        /\ joinPc = "adopt" /\ late => joinPc' = "adopt" /\ late'
        /\ (AddressCame' => AddressCame) /\ (joinPc' = "unmark" => seen' # {})
    BY <1>18, TimersKept DEF JoinAdopts, Stopping, AddressCame, InTime
  <2>2. CountsMove
    <3>1. /\ Tries' <= Tries /\ Failed' <= Failed
          /\ Taken' = Taken /\ attempts' <= attempts
      BY <1>18 DEF JoinAdopts, Tries, Failed, Taken, One, Counted
    <3>2. UNCHANGED timers
      BY <1>18 DEF JoinAdopts
    <3>3. QED BY <3>1, <3>2, TriesKept DEF CountsMove
  <2>3. QED BY <2>1, <2>2, InTimeKept
<1>19. CASE JoinArms
  <2>1. /\ joinPc = "arm" /\ joinPc' = "idle"
        /\ UNCHANGED <<attempts, mode, sta, bits, seen, events, eventPc, timerPc, late, doubtful>>
    BY <1>19 DEF JoinArms, JoinEnds
  <2>2. CASE ~apUp
    <3>1. timers' = timers
      BY <1>19, <2>2 DEF JoinArms, JoinEnds
    <3>2. Stopping /\ CountsMove
      BY <2>1, <3>1, TimersKept DEF Stopping, CountsMove, Left, Tries, Taken, Failed, One, Counted
    <3>3. QED BY <2>1, <3>2, InTimeKept DEF AddressCame
  <2>3. CASE apUp
    <3>1. Arm("ap_stop")
      BY <1>19, <2>3 DEF JoinArms, JoinEnds
    <3>2. /\ mode = "sta" /\ eventPc = "idle"
          /\ Tries + Retries <= 2 /\ attempts + Tries + OldRetries <= 2
      BY <2>1 DEF Adopting
    <3>3. Retries \in {0, 1} /\ OldRetries \in {0, 1}
      BY DEF Retries, OldRetries, One
    <3>4. Left' = Tries + Retries /\ Taken' = 0
      <4>1. RetryFirst' <=> RetryWaits
        BY <3>1, ApStopArmed DEF Counted
      <4>2. Tries' = Tries /\ Failed' = 0 /\ Taken' = 0
        BY <2>1 DEF Tries, Failed, Taken, One
      <4>3. QED BY <4>1, <4>2, <3>3 DEF Left, Retries, One, Counted
    <3>5. Within' /\ FewLeft'
      <4>1. attempts + (Tries + Retries) <= 3 + 0
        BY <3>2, <3>3 DEF Counted
      <4>2. QED BY <2>1, <3>2, <3>4, <4>1 DEF Within, FewLeft
    <3>6. QED BY <2>1, <3>2, <3>5 DEF InTime, AddressCame
  <2>4. QED BY <2>2, <2>3
<1>20. CASE JoinGivesUp
  <2>1. /\ Stopping /\ ~doubtful /\ UNCHANGED <<mode, eventPc>>
        /\ joinPc = "adopt" /\ late => joinPc' = "adopt" /\ late'
        /\ (AddressCame' => AddressCame) /\ (joinPc' = "unmark" => seen' # {})
    BY <1>20, TimersKept DEF JoinGivesUp, JoinEnds, Stopping, AddressCame, InTime
  <2>2. CountsMove
    <3>1. /\ Tries' <= Tries /\ Failed' <= Failed
          /\ Taken' = Taken /\ attempts' <= attempts
      BY <1>20, DisconnectCounts DEF JoinGivesUp, JoinEnds, Tries, Failed, Taken, One, Counted
    <3>2. UNCHANGED timers
      BY <1>20 DEF JoinGivesUp, JoinEnds
    <3>3. QED BY <3>1, <3>2, TriesKept DEF CountsMove
  <2>3. QED BY <2>1, <2>2, InTimeKept
<1>21. ASSUME NEW net \in Nets, JoinRequested(net)
      PROVE  InTime'
  <2>1. /\ Stopping /\ ~doubtful /\ UNCHANGED <<mode, eventPc>>
        /\ joinPc = "adopt" /\ late => joinPc' = "adopt" /\ late'
        /\ (AddressCame' => AddressCame) /\ (joinPc' = "unmark" => seen' # {})
    BY <1>21, TimersKept DEF JoinRequested, Stopping, AddressCame, InTime
  <2>2. CountsMove
    <3>1. /\ Tries' <= Tries /\ Failed' <= Failed
          /\ Taken' = Taken /\ attempts' <= attempts
      BY <1>21 DEF JoinRequested, Tries, Failed, Taken, One, Counted
    <3>2. UNCHANGED timers
      BY <1>21 DEF JoinRequested
    <3>3. QED BY <3>1, <3>2, TriesKept DEF CountsMove
  <2>3. QED BY <2>1, <2>2, InTimeKept
<1>22. CASE JoinKeepsAp
  <2>1. /\ Stopping /\ ~doubtful /\ UNCHANGED <<mode, eventPc>>
        /\ joinPc = "adopt" /\ late => joinPc' = "adopt" /\ late'
        /\ (AddressCame' => AddressCame) /\ (joinPc' = "unmark" => seen' # {})
    BY <1>22, TimersKept DEF JoinKeepsAp, JoinEnds, Stopping, AddressCame, InTime
  <2>2. CountsMove
    <3>1. /\ Tries' <= Tries /\ Failed' <= Failed
          /\ Taken' = Taken /\ attempts' <= attempts
      BY <1>22 DEF JoinKeepsAp, JoinEnds, Tries, Failed, Taken, One, Counted
    <3>2. UNCHANGED timers
      BY <1>22 DEF JoinKeepsAp, JoinEnds
    <3>3. QED BY <3>1, <3>2, TriesKept DEF CountsMove
  <2>3. QED BY <2>1, <2>2, InTimeKept
<1>23. CASE JoinConfigures
  <2>1. /\ Stopping /\ ~doubtful /\ UNCHANGED <<mode, eventPc>>
        /\ joinPc = "adopt" /\ late => joinPc' = "adopt" /\ late'
        /\ (AddressCame' => AddressCame) /\ (joinPc' = "unmark" => seen' # {})
    BY <1>23, TimersKept DEF JoinConfigures, JoinEnds, Stopping, AddressCame, InTime
  <2>2. CountsMove
    <3>1. /\ Tries' <= Tries /\ Failed' <= Failed
          /\ Taken' = Taken /\ attempts' <= attempts
      BY <1>23 DEF JoinConfigures, JoinEnds, Tries, Failed, Taken, One, Counted
    <3>2. UNCHANGED timers
      BY <1>23 DEF JoinConfigures, JoinEnds
    <3>3. QED BY <3>1, <3>2, TriesKept DEF CountsMove
  <2>3. QED BY <2>1, <2>2, InTimeKept
<1>24. CASE UNCHANGED vars
  <2>1. /\ Stopping /\ ~doubtful /\ UNCHANGED <<mode, eventPc>>
        /\ joinPc = "adopt" /\ late => joinPc' = "adopt" /\ late'
        /\ (AddressCame' => AddressCame) /\ (joinPc' = "unmark" => seen' # {})
    BY <1>24, TimersKept DEF vars, Stopping, AddressCame, InTime
  <2>2. CountsMove
    <3>1. /\ Tries' <= Tries /\ Failed' <= Failed
          /\ Taken' = Taken /\ attempts' <= attempts
      BY <1>24 DEF vars, Tries, Failed, Taken, One, Counted
    <3>2. UNCHANGED timers
      BY <1>24 DEF vars
    <3>3. QED BY <3>1, <3>2, TriesKept DEF CountsMove
  <2>3. QED BY <2>1, <2>2, InTimeKept
<1> HIDE DEF status, driver, clock, join, proof
<1>25. QED
  BY <1>1, <1>2, <1>3, <1>4, <1>5, <1>6, <1>7, <1>8, <1>9, <1>10, <1>11,
     <1>12, <1>13, <1>14, <1>15, <1>16, <1>17, <1>18, <1>19, <1>20, <1>21,
     <1>22, <1>23, <1>24
  DEF Next, EventTask, TimerTask, JoinTask

-----------------------------------------------------------------------------
(* What the runs check, for every instance *)

Inv ==
  /\ Types /\ Starts /\ Configured /\ LastEventTells /\ Answers
  /\ Adopting /\ InTime /\ ApMode /\ Retried

LEMMA InvInitially == Init => Inv
<1> SUFFICES ASSUME Init
             PROVE  Inv
  OBVIOUS
<1> DEFINE start == [kind |-> "start"]
<1>1. /\ events = <<start>> /\ start \in Events /\ start.kind = "start"
      /\ Len(events) = 1 /\ DOMAIN events = {1} /\ events[1] = start
  BY EventKinds DEF Init
<1>2. /\ cfg \in Nets \cup {None} /\ staNet = cfg /\ sta = "idle" /\ timers = <<>>
      /\ mode = IF cfg = None THEN "setup_ap" ELSE "sta"
      /\ connected = (cfg = None) /\ apUp = (cfg = None)
      /\ radio = IF cfg = None THEN "apsta" ELSE "sta"
      /\ attempts = 0 /\ joining = FALSE /\ bits = {} /\ seen = {} /\ fresh = {}
      /\ eventPc = "idle" /\ timerPc = "idle" /\ joinPc = "idle" /\ request = Idle
      /\ worked = {} /\ doubtful = FALSE /\ late = FALSE /\ swallowed = FALSE
      /\ revived = FALSE
  BY DEF Init
<1> HIDE DEF start
<1>3. events \in Seq(Events)
  BY <1>1
<1>4. Types
  BY <1>2, <1>3 DEF Types, TimerQueues, JoinPcs, Asking, Joining, Idle
<1>5. Starts
  BY <1>1, <1>2 DEF Starts, Asking
<1>6. Configured
  BY <1>1, <1>2 DEF Configured
<1>7. LastEventTells
  BY <1>1, <1>2 DEF LastEventTells
<1>8. Answers
  BY <1>2 DEF Answers, Unanswered, Answered
<1>9. Adopting /\ InTime /\ ApMode
  BY <1>2, NoTimerWaits DEF Adopting, InTime, Stopping, ApMode
<1>10. Retried
  BY <1>1, <1>2 DEF Retried
<1>11. QED BY <1>4, <1>5, <1>6, <1>7, <1>8, <1>9, <1>10 DEF Inv

LEMMA Invariance ==
  ASSUME MaxAttempts >= 3
  PROVE  Spec => []Inv
<1>1. Inv /\ [Next]_vars => Inv'
  BY TypesInductive, StartsInductive, ConfiguredInductive, LastEventInductive,
     AnswersInductive, AdoptingInductive, InTimeInductive, ApModeInductive,
     RetriedInductive DEF Inv
<1>2. QED BY <1>1, InvInitially, PTL DEF Spec

(* The access point is never taken down once the device has fallen back on   *)
(* it (stop_setup_ap(), net_manager_join()): with k_max_join_attempts at  *)
(* least 3, the timer a join arms expires before the retries run out.        *)
THEOREM FallbackIsKept ==
  ASSUME MaxAttempts >= 3
  PROVE  Spec => []FallbackStays
<1>1. Inv => FallbackStays
  BY DEF Inv, ApMode, FallbackStays
<1>2. QED BY <1>1, Invariance, PTL

(* With nothing left to happen, a device that can be reached says so: what   *)
(* the handlers left in s_net.status.connected, in whichever order they ran, *)
(* but after a doubtful join and while an access point is up that a join has *)
(* put up again behind stop_setup_ap().                                      *)
THEOREM StatusTellsTheTruth ==
  ASSUME MaxAttempts >= 3
  PROVE  Spec => []StatusIsTrue
<1>1. Inv => StatusIsTrue
  <2> SUFFICES ASSUME Inv, Quiet, Reached, ~doubtful, ~revived
               PROVE  connected
    BY DEF StatusIsTrue
  <2>1. CASE radio = "apsta"
    BY <2>1 DEF Inv, ApMode, LastEventTells, Quiet
  <2>2. CASE sta = "linked"
    BY <2>2 DEF Inv, LastEventTells, Quiet
  <2>3. QED BY <2>1, <2>2 DEF Reached
<1>2. QED BY <1>1, Invariance, PTL

(* "The configuration UI is always reachable" (net_manager.c:4), but for the *)
(* two exceptions of Excepted: with nothing left to happen the station is    *)
(* linked or the access point is up.                                         *)
THEOREM Reachable ==
  ASSUME MaxAttempts >= 3
  PROVE  Spec => []ReachableUnlessLeft
<1>1. Inv => ReachableUnlessLeft
  <2> SUFFICES ASSUME Inv, Quiet, ~Excepted
               PROVE  Reached
    BY DEF ReachableUnlessLeft
  <2>1. CASE mode = "setup_ap"
    BY <2>1 DEF Inv, ApMode, Excepted, Reached
  <2>2. CASE mode = "sta"
    <3>1. sta # "idle"
      BY <2>2, NoTimerWaits DEF Inv, Retried, Quiet
    <3>2. QED BY <3>1 DEF Inv, Types, Quiet, Reached
  <2>3. QED BY <2>1, <2>2 DEF Inv, Types
<1>2. QED BY <1>1, Invariance, PTL

(* A network becomes the running configuration only after it has given this  *)
(* device an address, unless an address of an earlier connection was         *)
(* announced in between (net_manager_join(): the wait for the event group).  *)
THEOREM AdoptsOnlyWhatWorked == Spec => AdoptsWhatWorked
<1> DEFINE I == Types /\ Starts /\ Answers
<1>1. Init => I
  BY InvInitially DEF Inv
<1>2. I /\ [Next]_vars => I'
  BY TypesInductive, StartsInductive, AnswersInductive
<1>3. I /\ [Next]_vars => [cfg' # cfg => cfg' \in worked \/ doubtful']_vars
  <2> SUFFICES ASSUME I, [Next]_vars, cfg' # cfg
               PROVE  cfg' \in worked \/ doubtful'
    OBVIOUS
  <2>1. CASE JoinAdopts
    BY <2>1 DEF JoinAdopts, Answers
  <2>2. CASE ~JoinAdopts
    <3>1. cfg' = cfg
      BY <2>2 DEF Next, EventTask, TimerTask, JoinTask, GetAddress, LoseLink, OnStaStart, OnLost,
                  StartApMode, StartApStatus, OnGotIp, TimerFires, RetryConnects, StopApMode,
                  StopApFlag, JoinRequested, JoinKeepsAp, JoinConfigures, JoinClears,
                  JoinMarks, JoinDisconnects,
                  JoinConnects, JoinWakes, JoinUnmarks, JoinArms, JoinGivesUp, vars
    <3>2. QED BY <3>1
  <2>3. QED BY <2>1, <2>2
<1>4. QED BY <1>1, <1>2, <1>3, PTL DEF Spec, AdoptsWhatWorked

===============================================================================
