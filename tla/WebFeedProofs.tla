---------------------------- MODULE WebFeedProofs ----------------------------
(* What holds of the WebSocket feed for any number of sockets, of places in  *)
(* the client table and in the queue, and of waits given up.                 *)
EXTENDS WebFeed, FiniteSetTheorems, TLAPS

(* Where each task can be, and that it works on a connection when it must:   *)
(* httpd on one that is open, the sender on any.                             *)
Placed ==
    /\ pc["sender"] \in {"idle", "remove", "stop"}
    /\ pc["timer"] \in {"idle", "take", "push"}
    /\ pc["reader"] \in {"idle", "take", "push"}
    /\ pc["httpd"] \in {"idle", "add", "status", "push", "start", "pong",
                        "remove", "stop", "close"}
    /\ pc["httpd"] # "idle" => fd["httpd"] \in ws
    /\ pc["sender"] # "idle" => fd["sender"] \in Fds

(* The type invariant but for the bound of the count, which is that of the   *)
(* table it counts.                                                          *)
Typed ==
    /\ ws \subseteq Fds /\ kept \subseteq Fds /\ excused \subseteq Fds
    /\ told \subseteq ws \cap Watched
    /\ table \in [1..MaxClients -> Fds \cup {None}]
    /\ ticking \in BOOLEAN /\ doubt \in BOOLEAN /\ halted \in BOOLEAN
    /\ queue \in Seq(Frames) /\ Len(queue) <= QueueMax
    /\ holder \in {"timer", "reader", None}
    /\ pc \in [Tasks -> {"idle", "add", "status", "push", "start", "pong", "remove",
                         "stop", "close", "take"}]
    /\ fd \in [{"httpd", "sender"} -> Fds \cup {None}]
    /\ says \in [Tasks -> News]
    /\ lates \in 0..MaxLate

LEMMA ListedIsFinite ==
    ASSUME table \in [1..MaxClients -> Fds \cup {None}]
    PROVE  /\ IsFiniteSet(Listed)
           /\ Cardinality(Listed) \in Nat
           /\ Cardinality(Listed) <= MaxClients
<1> DEFINE T == {table[i] : i \in 1..MaxClients}
<1>1. MaxClients \in Nat
  BY FeedAssumption
<1>2. table \in Surjection(1..MaxClients, T)
  BY DEF Surjection
<1>3. ExistsSurjection(1..MaxClients, T)
  BY <1>2 DEF ExistsSurjection
<1>4. IsFiniteSet(1..MaxClients) /\ Cardinality(1..MaxClients) = MaxClients
  BY <1>1, FS_Interval
<1>5. IsFiniteSet(T) /\ Cardinality(T) <= MaxClients
  BY <1>2, <1>4, FS_Surjection
<1>6. Listed \in SUBSET T
  BY DEF Listed
<1>7. IsFiniteSet(Listed) /\ Cardinality(Listed) <= Cardinality(T)
  BY <1>5, <1>6, FS_Subset
<1>8. Cardinality(Listed) \in Nat /\ Cardinality(T) \in Nat
  BY <1>5, <1>7, FS_CardinalityType
<1>9. QED BY <1>1, <1>5, <1>7, <1>8

(* Queueing keeps the queue within its bound, and made of frames. *)
LEMMA PushKeepsFrames ==
    ASSUME queue \in Seq(Frames), NEW clients \in Seq(Fds), NEW news \in News,
           Push(clients, news)
    PROVE  queue' \in Seq(Frames) /\ Len(queue') <= QueueMax
<1> DEFINE frames == [i \in DOMAIN clients |-> Frame(clients[i], news)]
           asked == queue \o frames
<1>1. QueueMax \in Nat
  BY FeedAssumption
<1>2. \A f \in Fds : Frame(f, news) \in Frames
  BY DEF Frame, Frames, News
<1>3. frames \in Seq(Frames)
  BY <1>2
<1>4. asked \in Seq(Frames) /\ Len(asked) \in Nat
  BY <1>3
<1> HIDE DEF frames, asked
<1>5. queue' = IF Len(asked) <= QueueMax THEN asked ELSE SubSeq(asked, 1, QueueMax)
  BY DEF Push, asked, frames
<1>6. CASE Len(asked) <= QueueMax
  BY <1>4, <1>5, <1>6
<1>7. CASE ~(Len(asked) <= QueueMax)
  <2>1. SubSeq(asked, 1, QueueMax) \in Seq(Frames)
    BY <1>1, <1>4, <1>7
  <2>2. Len(SubSeq(asked, 1, QueueMax)) = QueueMax
    BY <1>1, <1>4, <1>7
  <2>3. QED BY <1>1, <1>5, <1>7, <2>1, <2>2
<1>8. QED BY <1>6, <1>7

-----------------------------------------------------------------------------
(* The steps of Next, one case each. *)
LEMMA NextCases ==
    ASSUME [Next]_vars
    PROVE  \/ \E f \in Fds : Handshake(f)
           \/ \E f \in Fds : Ping(f)
           \/ \E f \in Fds : SocketCloses(f)
           \/ AddClient \/ FormatStatus \/ PushStatus \/ StartTimer
           \/ PushPong \/ Close \/ SendFrame \/ Tick \/ Move
           \/ \E t \in {"httpd", "sender"} : RemoveClient(t)
           \/ \E t \in {"httpd", "sender"} : StopTimer(t)
           \/ \E t \in Tasks : GiveUpMutex(t)
           \/ \E t \in {"timer", "reader"} : TakeMutex(t)
           \/ \E t \in {"timer", "reader"} : PushAll(t)
           \/ UNCHANGED vars
<1>1. CASE Next
  <2>1. CASE HttpdWorks
    BY <2>1 DEF HttpdWorks, Tasks
  <2>2. CASE SenderWorks
    BY <2>2 DEF SenderWorks, Tasks
  <2>3. CASE Broadcasts("timer") \/ Broadcasts("reader")
    BY <2>3 DEF Broadcasts, Tasks
  <2>4. QED BY <1>1, <2>1, <2>2, <2>3 DEF Next
<1>2. QED BY <1>1

(* Every step keeps the types, and the tasks where they may be. *)
LEMMA StepTyped ==
    ASSUME Typed, Placed, [Next]_vars
    PROVE  Typed' /\ Placed'
<1> USE DEF Typed, Placed, Goto, Serve, Done, Idle, registry, history, Tasks
<1>0. None \notin Fds /\ MaxLate \in Nat
  BY FeedAssumption
<1>1. ASSUME NEW f \in Fds, Handshake(f) PROVE Typed' /\ Placed'
  BY <1>1 DEF Handshake
<1>2. ASSUME NEW f \in Fds, Ping(f) PROVE Typed' /\ Placed'
  BY <1>2 DEF Ping
<1>3. ASSUME NEW f \in Fds, SocketCloses(f) PROVE Typed' /\ Placed'
  BY <1>3 DEF SocketCloses
<1>4. CASE AddClient
  <2>1. fd["httpd"] \in Fds
    BY <1>4 DEF AddClient
  <2>2. table' \in [1..MaxClients -> Fds \cup {None}]
    BY <1>4, <2>1 DEF AddClient, PutAt
  <2>3. QED BY <1>4, <2>1, <2>2 DEF AddClient
<1>5. CASE FormatStatus
  BY <1>5 DEF FormatStatus, News
<1>6. CASE PushStatus
  <2>1. <<fd["httpd"]>> \in Seq(Fds) /\ says["httpd"] \in News
    BY <1>6 DEF PushStatus
  <2>2. queue' \in Seq(Frames) /\ Len(queue') <= QueueMax
    BY <1>6, <2>1, PushKeepsFrames DEF PushStatus
  <2>3. QED BY <1>6, <2>2 DEF PushStatus, News
<1>7. CASE StartTimer
  BY <1>7 DEF StartTimer
<1>8. CASE PushPong
  <2>1. <<fd["httpd"]>> \in Seq(Fds) /\ "none" \in News
    BY <1>8 DEF PushPong, News
  <2>2. queue' \in Seq(Frames) /\ Len(queue') <= QueueMax
    BY <1>8, <2>1, PushKeepsFrames DEF PushPong
  <2>3. QED BY <1>8, <2>2 DEF PushPong
<1>9. CASE Close
  BY <1>9 DEF Close
<1>10. CASE SendFrame
  <2>1. queue' \in Seq(Frames) /\ Len(queue') <= QueueMax
    <3>1. QueueMax \in Nat
      BY FeedAssumption
    <3>2. QED BY <1>10, <3>1 DEF SendFrame
  <2>0. Head(queue) \in Frames
    <3>1. queue \in Seq(Frames) /\ queue # <<>>
      BY <1>10 DEF SendFrame
    <3>2. QED BY <3>1
  <2>2. Head(queue).to \in Fds /\ Head(queue).says \in News
    BY <2>0 DEF Frames
  <2>3. CASE Sent(Head(queue))
    <3>0. Head(queue).to \in Watched \/ Head(queue).says = "none"
      BY <2>0 DEF Frames
    <3>1. told' \subseteq ws \cap Watched
      BY <3>0, <2>2, <2>3 DEF Sent, News
    <3>2. QED BY <1>10, <2>1, <2>3, <3>1 DEF SendFrame, Sent
  <2>4. CASE NotSent(Head(queue))
    BY <1>10, <2>1, <2>2, <2>4 DEF SendFrame, NotSent
  <2>5. QED BY <1>10, <2>3, <2>4 DEF SendFrame
<1>11. CASE Tick
  BY <1>11 DEF Tick, News
<1>12. CASE Move
  <2>0. \A frame \in Frames : [frame EXCEPT !.says = Aged(@)] \in Frames
    BY DEF Frames, News, Aged
  <2>1. queue' \in Seq(Frames) /\ Len(queue') = Len(queue)
    <3>1. queue' = [i \in DOMAIN queue |-> [queue[i] EXCEPT !.says = Aged(@)]]
      BY <1>12 DEF Move
    <3>2. \A i \in DOMAIN queue : queue[i] \in Frames
      OBVIOUS
    <3> HIDE DEF Frames
    <3>3. QED BY <2>0, <3>1, <3>2
  <2>2. says' \in [Tasks -> News]
    BY <1>12 DEF Move, News, Aged
  <2>3. QED BY <1>12, <2>1, <2>2 DEF Move
<1>13. ASSUME NEW t \in {"httpd", "sender"}, RemoveClient(t) PROVE Typed' /\ Placed'
  <2>1. table' \in [1..MaxClients -> Fds \cup {None}]
    BY <1>13 DEF RemoveClient, PutAt
  <2>2. /\ excused' \subseteq Fds /\ kept' \subseteq Fds /\ halted' \in BOOLEAN
    BY <1>13 DEF RemoveClient, NoteRemoval
  <2>3. CASE StopNext(t)
    BY <1>13, <2>1, <2>2, <2>3 DEF RemoveClient, StopNext
  <2>4. CASE Leave(t)
    <3>1. CASE t = "httpd"
      BY <1>13, <2>1, <2>2, <2>4, <3>1 DEF RemoveClient, Leave
    <3>2. CASE t = "sender"
      <4>1. /\ pc' = [pc EXCEPT !["sender"] = "idle"]
            /\ fd' = [fd EXCEPT !["sender"] = None] /\ doubt' = FALSE
        BY <2>4, <3>2 DEF Leave
      <4>2. UNCHANGED <<ws, ticking, queue, holder, says, told, lates>>
        BY <1>13 DEF RemoveClient
      <4>3. Placed'
        BY <4>1, <4>2
      <4>4. Typed'
        BY <2>1, <2>2, <4>1, <4>2
      <4>5. QED BY <4>3, <4>4
    <3>3. QED BY <3>1, <3>2
  <2>5. QED BY <1>13, <2>3, <2>4 DEF RemoveClient
<1>14. ASSUME NEW t \in {"httpd", "sender"}, StopTimer(t) PROVE Typed' /\ Placed'
  <2>1. CASE t = "httpd"
    BY <1>14, <2>1 DEF StopTimer, Leave
  <2>2. CASE t = "sender"
    BY <1>14, <2>2 DEF StopTimer, Leave
  <2>3. QED BY <2>1, <2>2
<1>15. ASSUME NEW t \in Tasks, GiveUpMutex(t) PROVE Typed' /\ Placed'
  <2>1. lates' \in 0..MaxLate
    BY <1>0, <1>15 DEF GiveUpMutex
  <2>2. CASE pc[t] = "add"
    BY <1>15, <2>1, <2>2 DEF GiveUpMutex
  <2>3. CASE pc[t] = "remove"
    <3>1. Listed \subseteq Fds
      BY DEF Listed
    <3>2. kept' \subseteq Fds
      BY <1>15, <2>3, <3>1 DEF GiveUpMutex
    <3>3. CASE t = "httpd"
      BY <1>15, <2>1, <2>3, <3>2, <3>3 DEF GiveUpMutex, Leave
    <3>4. CASE t = "sender"
      BY <1>15, <2>1, <2>3, <3>2, <3>4 DEF GiveUpMutex, Leave
    <3>5. QED BY <2>3, <3>3, <3>4
  <2>4. CASE pc[t] = "take"
    BY <1>15, <2>1, <2>4 DEF GiveUpMutex, News
  <2>5. QED BY <1>15, <2>2, <2>3, <2>4 DEF GiveUpMutex
<1>16. ASSUME NEW t \in {"timer", "reader"}, TakeMutex(t) PROVE Typed' /\ Placed'
  BY <1>16 DEF TakeMutex
<1>17. ASSUME NEW t \in {"timer", "reader"}, PushAll(t) PROVE Typed' /\ Placed'
  <2>1. PICK clients \in SetToSeqs(Listed) : Push(clients, says[t])
    BY <1>17 DEF PushAll
  <2>2. Cardinality(Listed) \in Nat /\ Listed \subseteq Fds
    BY ListedIsFinite DEF Listed
  <2>3. clients \in Seq(Fds)
    <3>1. clients \in [1..Cardinality(Listed) -> Listed]
      BY <2>1 DEF SetToSeqs
    <3>2. QED BY <2>2, <3>1
  <2>6. says[t] \in News
    OBVIOUS
  <2>4. queue' \in Seq(Frames) /\ Len(queue') <= QueueMax
    BY <2>1, <2>3, <2>6, PushKeepsFrames
  <2>5. QED BY <1>17, <2>4 DEF PushAll, News
<1>18. CASE UNCHANGED vars
  BY <1>18 DEF vars, Frames, Listed
<1>19. QED
  BY <1>1, <1>2, <1>3, <1>4, <1>5, <1>6, <1>7, <1>8, <1>9, <1>10, <1>11, <1>12,
     <1>13, <1>14, <1>15, <1>16, <1>17, <1>18, NextCases

-----------------------------------------------------------------------------
(* The client table, one place at a time *)

Distinct ==
    \A i, j \in 1..MaxClients : table[i] = table[j] /\ table[i] # None => i = j

LEMMA PlacingLists ==
    ASSUME Typed, Distinct, NEW f \in Fds, f \notin Listed,
           NEW i \in 1..MaxClients, FirstPlace(None, i), PutAt(f, i)
    PROVE  Listed' = Listed \cup {f} /\ Distinct'
<1>1. /\ table \in [1..MaxClients -> Fds \cup {None}] /\ table[i] = None
      /\ table' = [table EXCEPT ![i] = f]
  BY DEF Typed, FirstPlace, PutAt
<1>2. f # None
  BY FeedAssumption
<1>3. QED BY <1>1, <1>2 DEF Listed, Distinct

LEMMA FreeingUnlists ==
    ASSUME Typed, Distinct, NEW f \in Fds,
           NEW i \in 1..MaxClients, FirstPlace(f, i), PutAt(None, i)
    PROVE  f \in Listed /\ Listed' = Listed \ {f} /\ Distinct'
<1>1. /\ table \in [1..MaxClients -> Fds \cup {None}] /\ table[i] = f
      /\ table' = [table EXCEPT ![i] = None]
  BY DEF Typed, FirstPlace, PutAt
<1>2. f # None
  BY FeedAssumption
<1>3. \A j \in 1..MaxClients : j # i => table[j] # f
  BY <1>1, <1>2 DEF Distinct
<1>4. QED BY <1>1, <1>2, <1>3 DEF Listed, Distinct

(* What makes TableIsSound inductive: a socket that httpd is about to close  *)
(* is off the table, or its removal was given up.                            *)
Going == pc["httpd"] \in {"stop", "close"} => fd["httpd"] \notin Listed \ kept

(* What makes OpenPagesAreFed inductive: where httpd still has to list a     *)
(* page, or no longer has to, and to start the timer; and that the sender    *)
(* never strikes off an open page but in doubt.                              *)
Fed ==
    /\ pc["sender"] = "remove" /\ fd["sender"] \in ws => doubt
    /\ \A f \in ws : \/ f \in Listed \cup excused
                     \/ fd["httpd"] = f /\ pc["httpd"] \in {"add", "remove", "stop", "close"}
    /\ Listed # {} => ticking \/ halted \/ pc["httpd"] \in {"status", "push", "start"}

Kept == Typed /\ Placed /\ TableIsSound /\ Going /\ Fed

(* Every step keeps the table sound and the open pages fed. *)
LEMMA StepKeeps ==
    ASSUME Kept, [Next]_vars, Typed', Placed'
    PROVE  TableIsSound' /\ Going' /\ Fed'
<1> USE DEF Kept, Goto, Serve, Done, Idle, registry, history, Tasks
<1>0. None \notin Fds /\ Listed \subseteq Fds
  BY FeedAssumption DEF Typed, Listed
<1>a. TableIsSound <=> Distinct /\ count = Cardinality(Listed) /\ Listed \subseteq ws \cup kept
  BY DEF TableIsSound, Distinct
<1>b. TableIsSound' <=> /\ Distinct' /\ count' = Cardinality(Listed')
                        /\ Listed' \subseteq ws' \cup kept'
  BY DEF TableIsSound, Distinct
<1>c. fd \in [{"httpd", "sender"} -> Fds \cup {None}] /\ DOMAIN pc = Tasks
  BY DEF Typed
<1>d. ASSUME UNCHANGED table PROVE Listed' = Listed /\ (Distinct => Distinct')
  BY <1>d DEF Listed, Distinct
<1>1. ASSUME NEW f \in Fds, Handshake(f) PROVE TableIsSound' /\ Going' /\ Fed'
  BY <1>1, <1>a, <1>b, <1>c, <1>d DEF Handshake, Going, Fed
<1>2. ASSUME NEW f \in Fds, Ping(f) PROVE TableIsSound' /\ Going' /\ Fed'
  BY <1>2, <1>a, <1>b, <1>c, <1>d DEF Ping, Going, Fed
<1>3. ASSUME NEW f \in Fds, SocketCloses(f) PROVE TableIsSound' /\ Going' /\ Fed'
  BY <1>3, <1>a, <1>b, <1>c, <1>d DEF SocketCloses, Going, Fed
<1>4. CASE AddClient
  <2>1. fd["httpd"] \in Fds /\ fd["httpd"] \in ws
    BY <1>4 DEF AddClient, Placed, Typed
  <2>2. /\ Distinct' /\ count' = Cardinality(Listed')
        /\ Listed' \subseteq Listed \cup {fd["httpd"]} /\ Listed \subseteq Listed'
    <3>1. CASE UNCHANGED <<table, count>>
      BY <3>1, <1>a, <1>d
    <3>2. CASE /\ fd["httpd"] \notin Listed
               /\ \E i \in 1..MaxClients : /\ FirstPlace(None, i) /\ PutAt(fd["httpd"], i)
                                           /\ count' = count + 1
      <4>1. Listed' = Listed \cup {fd["httpd"]} /\ Distinct'
        BY <3>2, <2>1, <1>a, PlacingLists
      <4>2. Cardinality(Listed') = Cardinality(Listed) + 1
        BY <3>2, <4>1, ListedIsFinite, FS_AddElement DEF Typed
      <4>3. QED BY <3>2, <4>1, <4>2, <1>a
    <3>3. QED BY <1>4, <3>1, <3>2 DEF AddClient
  <2>3. TableIsSound'
    BY <1>4, <2>1, <2>2, <1>a, <1>b DEF AddClient
  <2>4. Going' /\ Fed'
    BY <1>4, <2>1, <2>2, <1>c DEF AddClient, Going, Fed
  <2>5. QED BY <2>3, <2>4
<1>5. CASE FormatStatus
  BY <1>5, <1>a, <1>b, <1>c, <1>d DEF FormatStatus, Going, Fed
<1>6. CASE PushStatus
  BY <1>6, <1>a, <1>b, <1>c, <1>d DEF PushStatus, Going, Fed
<1>7. CASE StartTimer
  BY <1>7, <1>a, <1>b, <1>c, <1>d DEF StartTimer, Going, Fed
<1>8. CASE PushPong
  BY <1>8, <1>a, <1>b, <1>c, <1>d DEF PushPong, Going, Fed
<1>9. CASE Close
  BY <1>9, <1>a, <1>b, <1>c, <1>d DEF Close, Going, Fed
<1>10. CASE SendFrame
  BY <1>10, <1>a, <1>b, <1>c, <1>d DEF SendFrame, Sent, NotSent, Going, Fed
<1>11. CASE Tick
  BY <1>11, <1>a, <1>b, <1>c, <1>d DEF Tick, Going, Fed
<1>12. CASE Move
  BY <1>12, <1>a, <1>b, <1>c, <1>d DEF Move, Going, Fed
<1>13. ASSUME NEW t \in {"httpd", "sender"}, RemoveClient(t)
       PROVE  TableIsSound' /\ Going' /\ Fed'
  <2>1. fd[t] \in Fds
    BY <1>13 DEF RemoveClient, Placed, Typed
  <2>2. Distinct' /\ count' = Cardinality(Listed') /\ Listed' = Listed \ {fd[t]}
    <3>1. CASE fd[t] \notin Listed /\ UNCHANGED <<table, count>>
      BY <3>1, <1>a, <1>d
    <3>2. CASE /\ \E i \in 1..MaxClients : FirstPlace(fd[t], i) /\ PutAt(None, i)
               /\ count' = count - 1
      <4>1. fd[t] \in Listed /\ Listed' = Listed \ {fd[t]} /\ Distinct'
        BY <3>2, <2>1, <1>a, FreeingUnlists
      <4>2. Cardinality(Listed') = Cardinality(Listed) - 1
        BY <4>1, ListedIsFinite, FS_RemoveElement DEF Typed
      <4>3. QED BY <3>2, <4>1, <4>2, <1>a
    <3>3. QED BY <1>13, <3>1, <3>2 DEF RemoveClient
  <2>3. TableIsSound'
    BY <1>13, <2>2, <1>a, <1>b DEF RemoveClient, NoteRemoval
  <2>4. count' # 0 \/ Listed' = {}
    BY <2>2, ListedIsFinite, FS_EmptySet, FS_RemoveElement DEF Typed
  <2>5. CASE t = "httpd"
    <3>1. pc' = [pc EXCEPT !["httpd"] = "stop"] \/ pc' = [pc EXCEPT !["httpd"] = "close"]
      BY <1>13, <2>5 DEF RemoveClient, StopNext, Leave
    <3>2. UNCHANGED <<fd, doubt, ws, ticking, excused>> /\ halted' = (halted /\ count' # 0)
      BY <1>13, <2>5 DEF RemoveClient, StopNext, Leave, NoteRemoval
    <3>3. pc["httpd"] = "remove"
      BY <1>13, <2>5 DEF RemoveClient
    <3>4. QED BY <2>2, <2>3, <2>4, <2>5, <3>1, <3>2, <3>3, <1>c DEF Going, Fed
  <2>6. CASE t = "sender"
    <3>1. pc' = [pc EXCEPT !["sender"] = "stop"] \/ pc' = [pc EXCEPT !["sender"] = "idle"]
      BY <1>13, <2>6 DEF RemoveClient, StopNext, Leave
    <3>2. /\ UNCHANGED <<ws, ticking>> /\ halted' = (halted /\ count' # 0)
          /\ kept' = kept \ {fd[t]} /\ fd'["httpd"] = fd["httpd"]
      BY <1>13, <2>6, <1>c DEF RemoveClient, StopNext, Leave, NoteRemoval
    <3>3. fd[t] \in ws => fd[t] \in excused'
      BY <1>13, <2>6 DEF RemoveClient, NoteRemoval, Fed
    <3>4. excused \subseteq excused'
      BY <1>13 DEF RemoveClient, NoteRemoval
    <3>5. QED BY <2>2, <2>3, <2>4, <2>6, <3>1, <3>2, <3>3, <3>4, <1>c DEF Going, Fed
  <2>7. QED BY <2>5, <2>6
<1>14. ASSUME NEW t \in {"httpd", "sender"}, StopTimer(t)
       PROVE  TableIsSound' /\ Going' /\ Fed'
  <2>1. CASE t = "httpd"
    BY <1>14, <2>1, <1>a, <1>b, <1>c, <1>d DEF StopTimer, Leave, Going, Fed
  <2>2. CASE t = "sender"
    BY <1>14, <2>2, <1>a, <1>b, <1>c, <1>d DEF StopTimer, Leave, Going, Fed
  <2>3. QED BY <2>1, <2>2
<1>15. ASSUME NEW t \in Tasks, GiveUpMutex(t)
       PROVE  TableIsSound' /\ Going' /\ Fed'
  <2>1. CASE pc[t] = "add"
    <3>1. t = "httpd" /\ fd["httpd"] \in ws
      BY <2>1 DEF Placed
    <3>2. QED BY <1>15, <2>1, <3>1, <1>a, <1>b, <1>c, <1>d DEF GiveUpMutex, Going, Fed
  <2>2. CASE pc[t] = "remove"
    <3>1. CASE t = "httpd"
      BY <1>15, <2>2, <3>1, <1>a, <1>b, <1>c, <1>d DEF GiveUpMutex, Leave, Going, Fed
    <3>2. CASE t = "sender"
      BY <1>15, <2>2, <3>2, <1>a, <1>b, <1>c, <1>d DEF GiveUpMutex, Leave, Going, Fed
    <3>3. QED BY <2>2, <3>1, <3>2 DEF Placed
  <2>3. CASE pc[t] = "take"
    <3>1. t \in {"timer", "reader"}
      BY <2>3 DEF Placed
    <3>2. QED BY <1>15, <2>3, <3>1, <1>a, <1>b, <1>c, <1>d DEF GiveUpMutex, Going, Fed
  <2>4. QED BY <1>15, <2>1, <2>2, <2>3 DEF GiveUpMutex
<1>16. ASSUME NEW t \in {"timer", "reader"}, TakeMutex(t)
       PROVE  TableIsSound' /\ Going' /\ Fed'
  BY <1>16, <1>a, <1>b, <1>c, <1>d DEF TakeMutex, Going, Fed
<1>17. ASSUME NEW t \in {"timer", "reader"}, PushAll(t)
       PROVE  TableIsSound' /\ Going' /\ Fed'
  BY <1>17, <1>a, <1>b, <1>c, <1>d DEF PushAll, Going, Fed
<1>18. CASE UNCHANGED vars
  BY <1>18, <1>a, <1>b, <1>c, <1>d DEF vars, Going, Fed
<1>19. QED
  BY <1>1, <1>2, <1>3, <1>4, <1>5, <1>6, <1>7, <1>8, <1>9, <1>10, <1>11, <1>12,
     <1>13, <1>14, <1>15, <1>16, <1>17, <1>18, NextCases

-----------------------------------------------------------------------------
LEMMA InitKept == Init => Kept
<1> SUFFICES ASSUME Init PROVE Kept
  OBVIOUS
<1>1. Listed = {}
  BY DEF Init, Listed
<1>2. Typed
  <2>1. queue \in Seq(Frames) /\ Len(queue) = 0
    BY DEF Init
  <2>2. queue \in Seq(Frames) /\ Len(queue) <= QueueMax
    BY <2>1, FeedAssumption
  <2>3. table \in [1..MaxClients -> Fds \cup {None}]
    BY DEF Init
  <2>4. /\ pc \in [Tasks -> {"idle", "add", "status", "push", "start", "pong", "remove",
                             "stop", "close", "take"}]
        /\ says \in [Tasks -> News] /\ fd \in [{"httpd", "sender"} -> Fds \cup {None}]
    BY DEF Init, News
  <2>5. lates \in 0..MaxLate
    BY FeedAssumption DEF Init
  <2>6. QED BY <2>2, <2>3, <2>4, <2>5 DEF Init, Typed
<1>3. Placed
  BY DEF Init, Placed, Tasks
<1>4. TableIsSound
  BY <1>1, FS_EmptySet DEF Init, TableIsSound
<1>5. Going /\ Fed
  BY <1>1 DEF Init, Going, Fed, Tasks
<1>6. QED BY <1>2, <1>3, <1>4, <1>5 DEF Kept

LEMMA AlwaysKept == Spec => []Kept
<1>1. Init => Kept
  BY InitKept
<1>2. Kept /\ [Next]_vars => Kept'
  BY StepTyped, StepKeeps DEF Kept
<1>3. QED BY <1>1, <1>2, PTL DEF Spec

(* The variables keep their types: the queue its length, and the count that  *)
(* of the table.                                                             *)
THEOREM FeedIsTyped == Spec => []FeedTypeOK
<1>1. Kept => FeedTypeOK
  BY ListedIsFinite, FeedAssumption DEF Kept, Typed, TableIsSound, FeedTypeOK
<1>2. QED BY <1>1, AlwaysKept, PTL

(* However sockets come, go and come back, the table lists each client once  *)
(* and counts it once, and no closed socket but one whose removal was given  *)
(* up.                                                                       *)
THEOREM TableStaysSound == Spec => []TableIsSound
<1>1. Kept => TableIsSound
  BY DEF Kept
<1>2. QED BY <1>1, AlwaysKept, PTL

(* An open page is listed, and the timer runs for it, but for the named      *)
(* exceptions.                                                               *)
THEOREM OpenPagesStayFed == Spec => []OpenPagesAreFed
<1>1. Kept => OpenPagesAreFed
  BY DEF Kept, Fed, OpenPagesAreFed, Idle
<1>2. QED BY <1>1, AlwaysKept, PTL
=============================================================================
