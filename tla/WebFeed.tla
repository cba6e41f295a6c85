------------------------------- MODULE WebFeed -------------------------------
(***************************************************************************)
(* The WebSocket feed of web_server.c: pages that are open are told what   *)
(* the lock does.  Four tasks share a table of clients, a mutex, a queue   *)
(* of frames and a periodic timer:                                         *)
(*   httpd    accepts, shakes hands, answers pings, closes;                *)
(*   sender   takes frames off the queue and sends them (ws_send_task);    *)
(*   timer    broadcasts the metrics, the lock state among them, while the *)
(*            status timer runs;                                           *)
(*   reader   moves the lock and broadcasts the event (on_access_event).   *)
(* A socket number is given out again once its connection is closed.       *)
(* Waiting for the mutex or for room in the queue is given up in the end.  *)
(***************************************************************************)
EXTENDS Naturals, Sequences, SequencesExt, FiniteSets

CONSTANTS
    Fds,            \* socket numbers
    Watched,        \* those whose news is followed; other frames only take room
    MaxClients,     \* WS_MAX_CLIENTS
    QueueMax,       \* frames the queue holds
    MaxLate,        \* waits for the mutex given up in a run (a bound)
    None

ASSUME FeedAssumption ==
    /\ None \notin Fds /\ Watched \subseteq Fds
    /\ MaxClients \in Nat \ {0} /\ QueueMax \in Nat \ {0} /\ MaxLate \in Nat

Tasks == {"httpd", "sender", "timer", "reader"}

VARIABLES
    ws,         \* sockets that are WebSockets, as httpd_ws_get_fd_info() says
    table,      \* s_ws_clients
    count,      \* s_ws_client_count
    ticking,    \* the status timer is active
    queue,      \* frames on s_ws_queue
    holder,     \* the task that holds s_ws_clients_mutex
    pc,         \* where each task is
    fd,         \* the connection httpd and the sender work on
    says,       \* the news a task is about to queue
    told,       \* watched pages whose last news is of the lock's last movement
    doubt,      \* history: a send failed, or a page got the sender's socket since
    excused,    \* history: open pages that need not be listed
    kept,       \* history: listed sockets whose removal was given up
    halted,     \* history: the timer was stopped with a client listed
    lates       \* waits given up

registry == <<table, count, holder>>
history == <<doubt, excused, kept, halted>>
vars == <<ws, table, count, ticking, queue, holder, pc, fd, says, told,
          doubt, excused, kept, halted, lates>>

(* News of the lock is new until the lock moves again; a pong is none.       *)
News == {"new", "old", "none"}
Aged(news) == IF news = "new" THEN "old" ELSE news

Listed == {table[i] : i \in 1..MaxClients} \ {None}
Frames == {frame \in [to : Fds, says : News] : frame.to \in Watched \/ frame.says = "none"}

Init ==
    /\ ws = {} /\ table = [i \in 1..MaxClients |-> None] /\ count = 0
    /\ ticking = FALSE /\ queue = <<>> /\ holder = None
    /\ pc = [t \in Tasks |-> "idle"]
    /\ fd = [t \in {"httpd", "sender"} |-> None]
    /\ says = [t \in Tasks |-> "none"] /\ told = {}
    /\ doubt = FALSE /\ excused = {} /\ kept = {} /\ halted = FALSE
    /\ lates = 0

Idle(t) == pc[t] = "idle"
Goto(t, where) == pc' = [pc EXCEPT ![t] = where]

(* Task t begins to work on connection f, and is done with it. *)
Serve(t, f, where) == Goto(t, where) /\ fd' = [fd EXCEPT ![t] = f]
Done(t) == Serve(t, None, "idle")

-----------------------------------------------------------------------------
(* The client table *)

FirstPlace(f, i) == table[i] = f /\ \A j \in 1..(i - 1) : table[j] # f
PutAt(f, i) == table' = [table EXCEPT ![i] = f]

(* ws_add_client(): the first free place, unless the number is listed. *)
AddClient ==
    LET f == fd["httpd"] IN
    /\ pc["httpd"] = "add" /\ holder = None
    /\ \/ f \in Listed /\ UNCHANGED <<table, count>>
       \/ /\ f \notin Listed
          /\ \E i \in 1..MaxClients : FirstPlace(None, i) /\ PutAt(f, i) /\ count' = count + 1
       \/ /\ f \notin Listed /\ None \notin {table[i] : i \in 1..MaxClients}
          /\ UNCHANGED <<table, count>>
    /\ excused' = excused \cup ({f} \ Listed')
    /\ kept' = kept \ {f}
    /\ Goto("httpd", "status")
    /\ UNCHANGED <<ws, ticking, queue, holder, fd, says, told, doubt, halted, lates>>

(* What comes after the removal: httpd closes the socket. *)
Leave(t) ==
    IF t = "httpd" THEN Goto(t, "close") /\ UNCHANGED <<fd, doubt>>
                   ELSE Done(t) /\ doubt' = FALSE
StopNext(t) == Goto(t, "stop") /\ UNCHANGED <<fd, doubt>>

(* What the history says of a removal of f by task t. *)
NoteRemoval(t, f) ==
    /\ excused' = IF t = "sender" /\ doubt THEN excused \cup (ws \cap {f}) ELSE excused
    /\ kept' = kept \ {f}
    /\ halted' = (halted /\ count' # 0)

(* Mutant: the timer is only looked at when a client was removed. *)
RemoveClientIfListed(t) ==
    LET f == fd[t] IN
    /\ pc[t] = "remove" /\ holder = None
    /\ \/ /\ \E i \in 1..MaxClients : FirstPlace(f, i) /\ PutAt(None, i)
          /\ count' = count - 1
          /\ IF count' = 0 THEN StopNext(t) ELSE Leave(t)
       \/ f \notin Listed /\ UNCHANGED <<table, count>> /\ Leave(t)
    /\ NoteRemoval(t, f)
    /\ UNCHANGED <<ws, ticking, queue, holder, says, told, lates>>

(* Mutant: a client is counted off whether it was listed or not. *)
RemoveClientUnfound(t) ==
    LET f == fd[t] IN
    /\ pc[t] = "remove" /\ holder = None
    /\ table' = [i \in 1..MaxClients |-> IF table[i] = f THEN None ELSE table[i]]
    /\ count' = count - 1
    /\ IF count' = 0 THEN StopNext(t) ELSE Leave(t)
    /\ NoteRemoval(t, f)
    /\ UNCHANGED <<ws, ticking, queue, holder, says, told, lates>>

(* ws_remove_client(), up to the mutex given back.  Whether anybody is left  *)
(* is decided there, and acted upon after.                                   *)
RemoveClient(t) ==
    LET f == fd[t] IN
    /\ pc[t] = "remove" /\ holder = None
    /\ \/ /\ \E i \in 1..MaxClients : FirstPlace(f, i) /\ PutAt(None, i)
          /\ count' = count - 1
       \/ f \notin Listed /\ UNCHANGED <<table, count>>
    /\ IF count' = 0 THEN StopNext(t) ELSE Leave(t)
    /\ NoteRemoval(t, f)
    /\ UNCHANGED <<ws, ticking, queue, holder, says, told, lates>>

StopTimer(t) ==
    /\ pc[t] = "stop"
    /\ ticking' = FALSE
    /\ halted' = (halted \/ (ticking /\ Listed # {}))
    /\ Leave(t)
    /\ UNCHANGED <<ws, registry, queue, says, told, excused, kept, lates>>

(* xSemaphoreTake() runs out of its second, for broadcasts have waited for   *)
(* room as often as they had clients: the caller returns as if done.         *)
GiveUpMutex(t) ==
    /\ holder # None /\ lates < MaxLate
    /\ Listed # {} /\ Len(queue) = QueueMax
    /\ lates' = lates + 1
    /\ \/ /\ pc[t] = "add"
          /\ excused' = excused \cup ({fd[t]} \ Listed) /\ kept' = kept \ {fd[t]}
          /\ Goto(t, "status") /\ UNCHANGED <<fd, says, doubt>>
       \/ /\ pc[t] = "remove"
          /\ kept' = kept \cup ({fd[t]} \cap Listed)
          /\ Leave(t) /\ UNCHANGED <<says, excused>>
       \/ /\ pc[t] = "take"
          /\ Goto(t, "idle") /\ says' = [says EXCEPT ![t] = "none"]
          /\ UNCHANGED <<fd, doubt, excused, kept>>
    /\ UNCHANGED <<ws, registry, ticking, queue, told, halted>>

-----------------------------------------------------------------------------
(* The queue *)

(* ws_queue_frame() for one client after the other: a frame is queued, or    *)
(* dropped after 100 ms without room; the sender may be held up by a slow    *)
(* page, or wait for the mutex itself.                                       *)
Frame(f, news) == [to |-> f, says |-> IF f \in Watched THEN news ELSE "none"]
Push(clients, news) ==
    LET asked == queue \o [i \in DOMAIN clients |-> Frame(clients[i], news)] IN
    queue' = IF Len(asked) <= QueueMax THEN asked ELSE SubSeq(asked, 1, QueueMax)

(* ws_broadcast(): one frame for each client, in the order of their places   *)
(* or any other, with the mutex held.                                        *)
TakeMutex(t) ==
    /\ pc[t] = "take" /\ holder = None
    /\ holder' = t
    /\ Goto(t, "push")
    /\ UNCHANGED <<ws, table, count, ticking, queue, fd, says, told, history, lates>>

PushAll(t) ==
    /\ pc[t] = "push" /\ holder = t
    /\ \E clients \in SetToSeqs(Listed) : Push(clients, says[t])
    /\ holder' = None
    /\ says' = [says EXCEPT ![t] = "none"]
    /\ Goto(t, "idle")
    /\ UNCHANGED <<ws, table, count, ticking, fd, told, history, lates>>

-----------------------------------------------------------------------------
(* httpd *)

Handshake(f) ==
    /\ Idle("httpd") /\ f \notin ws
    /\ ws' = ws \cup {f}
    /\ doubt' = (doubt \/ fd["sender"] = f)
    /\ Serve("httpd", f, "add")
    /\ UNCHANGED <<registry, ticking, queue, says, told, excused, kept, halted, lates>>

(* handle_ws_post_handshake(): the status is formatted, queued, and the      *)
(* timer started unless it runs.                                             *)
FormatStatus ==
    /\ pc["httpd"] = "status"
    /\ says' = [says EXCEPT !["httpd"] = IF fd["httpd"] \in Watched THEN "new" ELSE "none"]
    /\ Goto("httpd", "push")
    /\ UNCHANGED <<ws, registry, ticking, queue, fd, told, history, lates>>

PushStatus ==
    /\ pc["httpd"] = "push"
    /\ Push(<<fd["httpd"]>>, says["httpd"])
    /\ says' = [says EXCEPT !["httpd"] = "none"]
    /\ Goto("httpd", "start")
    /\ UNCHANGED <<ws, registry, ticking, fd, told, history, lates>>

(* Mutant: the timer is only for the second client on. *)
StartTimerLate ==
    /\ pc["httpd"] = "start"
    /\ ticking' = (ticking \/ count > 1)
    /\ halted' = (halted /\ ~ticking')
    /\ Done("httpd")
    /\ UNCHANGED <<ws, registry, queue, says, told, doubt, excused, kept, lates>>

StartTimer ==
    /\ pc["httpd"] = "start"
    /\ ticking' = TRUE /\ halted' = FALSE
    /\ Done("httpd")
    /\ UNCHANGED <<ws, registry, queue, says, told, doubt, excused, kept, lates>>

(* A ping is answered through the queue as well. *)
Ping(f) ==
    /\ Idle("httpd") /\ f \in ws
    /\ Serve("httpd", f, "pong")
    /\ UNCHANGED <<ws, registry, ticking, queue, says, told, history, lates>>

PushPong ==
    /\ pc["httpd"] = "pong"
    /\ Push(<<fd["httpd"]>>, "none")
    /\ Done("httpd")
    /\ UNCHANGED <<ws, registry, ticking, says, told, history, lates>>

(* Mutant: the close hook only closes. *)
SocketClosesUnheard(f) ==
    /\ Idle("httpd") /\ f \in ws
    /\ Serve("httpd", f, "close")
    /\ UNCHANGED <<ws, registry, ticking, queue, says, told, history, lates>>

(* The page went, or httpd evicts its oldest socket for a new one:           *)
(* ws_socket_closed().                                                       *)
SocketCloses(f) ==
    /\ Idle("httpd") /\ f \in ws
    /\ Serve("httpd", f, "remove")
    /\ UNCHANGED <<ws, registry, ticking, queue, says, told, history, lates>>

Close ==
    LET f == fd["httpd"] IN
    /\ pc["httpd"] = "close"
    /\ ws' = ws \ {f} /\ excused' = excused \ {f} /\ told' = told \ {f}
    /\ Done("httpd")
    /\ UNCHANGED <<registry, ticking, queue, says, doubt, kept, halted, lates>>

-----------------------------------------------------------------------------
(* ws_send_task(): a frame is taken and sent, unless its socket is no        *)
(* WebSocket (any more).  A socket it could not serve is struck off next.    *)

Sent(frame) ==
    /\ frame.to \in ws
    /\ told' = CASE frame.says = "new"  -> told \cup {frame.to}
                 [] frame.says = "old"  -> told \ {frame.to}
                 [] frame.says = "none" -> told
    /\ UNCHANGED <<pc, fd, doubt>>

NotSent(frame) ==
    /\ doubt' = (frame.to \in ws)
    /\ Serve("sender", frame.to, "remove")
    /\ UNCHANGED told

SendFrame ==
    /\ Idle("sender") /\ queue # <<>>
    /\ queue' = Tail(queue)
    /\ Sent(Head(queue)) \/ NotSent(Head(queue))
    /\ UNCHANGED <<ws, registry, ticking, says, excused, kept, halted, lates>>

-----------------------------------------------------------------------------
(* The status timer and the lock *)

(* Mutant: the metrics carry no lock state. *)
TickWithoutLock ==
    /\ ticking /\ Idle("timer")
    /\ Goto("timer", "take")
    /\ UNCHANGED <<ws, registry, ticking, queue, fd, says, told, history, lates>>

(* status_timer_callback(): formatted now, queued when the mutex is free. *)
Tick ==
    /\ ticking /\ Idle("timer")
    /\ says' = [says EXCEPT !["timer"] = "new"]
    /\ Goto("timer", "take")
    /\ UNCHANGED <<ws, registry, ticking, queue, fd, told, history, lates>>

(* on_access_event(): the lock moved, and all news is old but this one. *)
Move ==
    /\ Idle("reader")
    /\ queue' = [i \in DOMAIN queue |-> [queue[i] EXCEPT !.says = Aged(@)]]
    /\ says' = [[t \in Tasks |-> Aged(says[t])] EXCEPT !["reader"] = "new"]
    /\ told' = {}
    /\ Goto("reader", "take")
    /\ UNCHANGED <<ws, registry, ticking, fd, history, lates>>

-----------------------------------------------------------------------------
HttpdWorks ==
    \/ AddClient \/ FormatStatus \/ PushStatus \/ StartTimer \/ PushPong \/ Close
    \/ RemoveClient("httpd") \/ StopTimer("httpd") \/ GiveUpMutex("httpd")
SenderWorks ==
    SendFrame \/ RemoveClient("sender") \/ StopTimer("sender") \/ GiveUpMutex("sender")
Broadcasts(t) == TakeMutex(t) \/ PushAll(t) \/ GiveUpMutex(t)

Next ==
    \/ \E f \in Fds : Handshake(f) \/ Ping(f) \/ SocketCloses(f)
    \/ HttpdWorks \/ SenderWorks
    \/ Tick \/ Broadcasts("timer")
    \/ Move \/ Broadcasts("reader")

Spec == Init /\ [][Next]_vars

(* httpd, the sender and whoever broadcasts go on when they are again and    *)
(* again able to, for the mutex is free between two ticks.  No page has to   *)
(* open or close, and the lock need not move.                                *)
FairSpec ==
    /\ Spec
    /\ SF_vars(HttpdWorks) /\ SF_vars(SenderWorks)
    /\ SF_vars(Broadcasts("timer") \/ Broadcasts("reader"))
    /\ WF_vars(Tick)

-----------------------------------------------------------------------------
FeedTypeOK ==
    /\ ws \subseteq Fds /\ kept \subseteq Fds /\ excused \subseteq Fds /\ told \subseteq ws \cap Watched
    /\ table \in [1..MaxClients -> Fds \cup {None}]
    /\ count \in 0..MaxClients
    /\ ticking \in BOOLEAN /\ doubt \in BOOLEAN /\ halted \in BOOLEAN
    /\ queue \in Seq(Frames) /\ Len(queue) <= QueueMax
    /\ holder \in {"timer", "reader", None}
    /\ pc \in [Tasks -> {"idle", "add", "status", "push", "start", "pong", "remove",
                         "stop", "close", "take"}]
    /\ fd \in [{"httpd", "sender"} -> Fds \cup {None}]
    /\ says \in [Tasks -> News]
    /\ lates \in 0..MaxLate

(* Every client is listed once and counted once, although its socket number  *)
(* may come back before the table has forgotten it; and a number is listed   *)
(* while its socket is no WebSocket only when its removal was given up.      *)
TableIsSound ==
    /\ \A i, j \in 1..MaxClients : table[i] = table[j] /\ table[i] # None => i = j
    /\ count = Cardinality(Listed)
    /\ Listed \subseteq ws \cup kept

(* "Push a tap, or a lock state change, to every open page": with neither    *)
(* httpd nor the sender in the middle of something, an open page is listed   *)
(* unless the table was full, a wait was given up or a send to it failed, or *)
(* the sender struck it off for an earlier connection with the same number.  *)
(* The timer runs while a client is listed, unless a client came between the *)
(* sender's test and its stopping of the timer.                              *)
OpenPagesAreFed ==
    Idle("httpd") /\ Idle("sender") =>
        /\ ws \subseteq Listed \cup excused
        /\ Listed # {} => ticking \/ halted

(* Once no page is left the timer comes to rest, or another page has come:   *)
(* it "used to keep firing for the rest of the device's uptime".             *)
TimerRests == (ws = {} /\ ticking) ~> (~ticking \/ ws # {})

(* While httpd has no request of a page to serve and the lock no longer      *)
(* moves, a listed page comes to be told of the last movement, and of        *)
(* nothing older after: whatever frames were queued behind newer ones, or    *)
(* dropped, on the way.                                                      *)
PageCatchesUp ==
    \A f \in Watched :
        <>[](f \in Listed /\ f \in ws /\ ticking /\ Idle("httpd") /\ Idle("reader"))
            => <>[](f \in told)
=============================================================================
