----------------------------- MODULE EventStream -----------------------------
(***************************************************************************)
(* The live event stream: events are published on a Redis channel, the API *)
(* server's NexusEventBus sends what its subscriber receives to every open *)
(* socket, and the dashboard's WebSocketManager keeps one socket open for  *)
(* the views that have subscribed, and reconnects when it closes.          *)
(*                                                                         *)
(* An event is its number.  A socket is one WebSocket object of the page,  *)
(* with the handlers that connect() gave it; the reconnection delay is     *)
(* left out, a timer may fire at any time.                                 *)
(***************************************************************************)
EXTENDS Integers, Sequences

CONSTANTS
  Sockets,        \* bound: how many WebSocket objects may exist at once
  None,           \* no socket
  Views,          \* the components that subscribe: JobTable, ThroughputChart
  Keep,           \* how many events a view keeps
  MaxEvents,      \* bound: events published
  MaxTroubles,    \* bound: failures of the network, of Redis and of the server
  MaxVisits,      \* bound: how often a view is mounted
  MaxDisconnects  \* bound: calls of disconnect()

ASSUME StreamAssumption ==
  /\ None \notin Sockets
  /\ Keep \in Nat /\ MaxEvents \in Nat
  /\ MaxTroubles \in Nat /\ MaxVisits \in Nat /\ MaxDisconnects \in Nat

VARIABLES
  server,      \* the API server
  subscribed,  \* whether its subscriber is subscribed to the channel
  sent,        \* how many events have been published
  channel,     \* events on their way to the subscriber
  sock,        \* what the browser and the network make of each socket
  wire,        \* of each socket: frames on their way to the page
  ws,          \* the manager's current socket
  want,        \* shouldReconnect
  timers,      \* how many reconnection timers are pending
  mounted,     \* the views that are mounted, each with its listener
  shown,       \* of each view: the events it has, the newest first
  troubles, visits,
  disconnects  \* history: calls of disconnect()

busVars == <<server, subscribed, sent, channel>>
linkVars == <<sock, wire>>
managerVars == <<ws, want, timers>>
viewVars == <<mounted, shown>>
countVars == <<troubles, visits, disconnects>>
streamVars == <<busVars, linkVars, managerVars, viewVars, countVars>>

(* cut: the connection is gone and the browser has yet to find out;        *)
(* closing: close() was called, the close event is pending.                *)
SocketStates == {"free", "connecting", "open", "cut", "closing"}

BusTypeOK ==
  /\ server \in {"up", "draining", "down"} /\ subscribed \in BOOLEAN
  /\ sent \in 0 .. MaxEvents /\ channel \in Seq(1 .. MaxEvents)

LinkTypeOK ==
  sock \in [Sockets -> SocketStates] /\ wire \in [Sockets -> Seq(1 .. MaxEvents)]

ManagerTypeOK ==
  ws \in Sockets \cup {None} /\ want \in BOOLEAN /\ timers \in Nat

ViewTypeOK ==
  mounted \subseteq Views /\ shown \in [Views -> Seq(1 .. MaxEvents)]

CountTypeOK ==
  /\ troubles \in 0 .. MaxTroubles /\ visits \in 0 .. MaxVisits
  /\ disconnects \in 0 .. MaxDisconnects

StreamTypeOK ==
  BusTypeOK /\ LinkTypeOK /\ ManagerTypeOK /\ ViewTypeOK /\ CountTypeOK

StreamInit ==
  /\ server = "down" /\ subscribed = FALSE /\ sent = 0 /\ channel = <<>>
  /\ sock = [s \in Sockets |-> "free"] /\ wire = [s \in Sockets |-> <<>>]
  /\ ws = None /\ want = TRUE /\ timers = 0
  /\ mounted = {} /\ shown = [v \in Views |-> <<>>]
  /\ troubles = 0 /\ visits = 0 /\ disconnects = 0

Trouble == troubles < MaxTroubles /\ troubles' = troubles + 1

-----------------------------------------------------------------------------
(* The server and its event bus. *)

ServerStart ==
  /\ server = "down" /\ server' = "up"
  /\ UNCHANGED <<subscribed, sent, channel, linkVars, managerVars, viewVars, countVars>>

(* SUBSCRIBE once the subscriber is ready; ioredis repeats it when the     *)
(* connection is lost and made again.                                      *)
SubscriberReady ==
  /\ server # "down" /\ ~ subscribed
  /\ subscribed' = TRUE
  /\ UNCHANGED <<server, sent, channel, linkVars, managerVars, viewVars, countVars>>

SubscriberDrop ==
  /\ subscribed /\ Trouble
  /\ subscribed' = FALSE /\ channel' = <<>>
  /\ UNCHANGED <<server, sent, linkVars, managerVars, viewVars, visits, disconnects>>

(* PUBLISH, by the server or a worker: Redis keeps nothing for a           *)
(* subscriber that is not there.                                           *)
Publish ==
  /\ sent < MaxEvents
  /\ sent' = sent + 1
  /\ channel' = IF subscribed THEN Append(channel, sent + 1) ELSE channel
  /\ UNCHANGED <<server, subscribed, linkVars, managerVars, viewVars, countVars>>

(* The message handler of the bus: a send to every client that is OPEN. *)
Broadcast ==
  /\ channel # <<>>
  /\ channel' = Tail(channel)
  /\ wire' = [s \in Sockets |-> IF sock[s] = "open" THEN Append(wire[s], Head(channel))
                                ELSE wire[s]]
  /\ UNCHANGED <<server, subscribed, sent, sock, managerVars, viewVars, countVars>>

(* SIGTERM: wss.close() and server.close() admit no new connection, and    *)
(* close none; the process stays until its clients have left or it is      *)
(* killed.                                                                 *)
Drain ==
  /\ server = "up" /\ Trouble
  /\ server' = "draining"
  /\ UNCHANGED <<subscribed, sent, channel, linkVars, managerVars, viewVars,
                 visits, disconnects>>

ServerEnd ==
  /\ server' = "down" /\ subscribed' = FALSE /\ channel' = <<>>
  /\ sock' = [s \in Sockets |-> IF sock[s] \in {"connecting", "open"} THEN "cut" ELSE sock[s]]
  /\ UNCHANGED <<sent, wire, managerVars, viewVars, visits, disconnects>>

ServerCrash == server = "up" /\ Trouble /\ ServerEnd
ServerExit == server = "draining" /\ UNCHANGED troubles /\ ServerEnd

-----------------------------------------------------------------------------
(* The sockets. *)

Becomes(s, from, to) == sock[s] \in from /\ sock' = [sock EXCEPT ![s] = to]

SocketFrame == UNCHANGED <<busVars, wire, managerVars, viewVars, visits, disconnects>>

Accept(s) ==
  server = "up" /\ Becomes(s, {"connecting"}, "open") /\ UNCHANGED troubles /\ SocketFrame

Refuse(s) ==
  server # "up" /\ Becomes(s, {"connecting"}, "cut") /\ UNCHANGED troubles /\ SocketFrame

Cut(s) == Trouble /\ Becomes(s, {"connecting", "open"}, "cut") /\ SocketFrame

-----------------------------------------------------------------------------
(* The dashboard's WebSocketManager.  Timers, events and calls each run to *)
(* their end before the next.                                              *)

Fresh == CHOOSE s \in Sockets : sock[s] = "free"

(* new WebSocket(WS_URL), stored with its handlers ... *)
NewSocket(rest) ==
  /\ \E s \in Sockets : sock[s] = "free"
  /\ sock' = [sock EXCEPT ![Fresh] = "connecting"]
  /\ ws' = Fresh /\ timers' = rest
  /\ UNCHANGED troubles

(* Mutant: the catch block sets no timer. *)
BadNoSocket(rest) == Trouble /\ timers' = rest /\ UNCHANGED <<sock, ws>>

(* ... or it throws, and the catch block sets a timer. *)
NoSocket(rest) == Trouble /\ timers' = rest + 1 /\ UNCHANGED <<sock, ws>>

(* Mutant: without the check that there is a socket. *)
BadConnect(rest) == want' = TRUE /\ (NewSocket(rest) \/ NoSocket(rest))

(* connect(), with rest timers pending. *)
Connect(rest) ==
  \/ /\ ws # None /\ timers' = rest
     /\ UNCHANGED <<sock, ws, want, troubles>>
  \/ /\ ws = None
     /\ want' = TRUE /\ (NewSocket(rest) \/ NoSocket(rest))

TimerFires ==
  /\ timers > 0 /\ Connect(timers - 1)
  /\ UNCHANGED <<busVars, wire, viewVars, visits, disconnects>>

(* subscribe(), in the effect of a view that mounts, ... *)
Mount(v) ==
  /\ v \notin mounted /\ visits < MaxVisits
  /\ mounted' = mounted \cup {v} /\ visits' = visits + 1
  /\ IF ws = None THEN Connect(timers) ELSE UNCHANGED <<sock, managerVars, troubles>>
  /\ UNCHANGED <<busVars, wire, shown, disconnects>>

(* ... and its unsubscribe: the view's state goes with it. *)
Unmount(v) ==
  /\ v \in mounted
  /\ mounted' = mounted \ {v}
  /\ shown' = [shown EXCEPT ![v] = <<>>]
  /\ UNCHANGED <<busVars, linkVars, managerVars, countVars>>

(* A view keeps the newest events. *)
Newest(q) == SubSeq(q, 1, IF Len(q) < Keep THEN Len(q) ELSE Keep)

(* onmessage: every listener gets the event.  A socket on which close()    *)
(* was called delivers nothing more.                                       *)
Deliver(s) ==
  /\ sock[s] \in {"open", "cut"} /\ wire[s] # <<>>
  /\ wire' = [wire EXCEPT ![s] = Tail(@)]
  /\ shown' = [v \in Views |-> IF v \in mounted THEN Newest(<<Head(wire[s])>> \o shown[v])
                               ELSE shown[v]]
  /\ UNCHANGED <<busVars, sock, managerVars, mounted, countVars>>

(* Mutant: onclose keeps the reference to the socket. *)
BadClosed(s, erred) ==
  /\ sock' = [sock EXCEPT ![s] = "free"]
  /\ wire' = [wire EXCEPT ![s] = <<>>]
  /\ ws' = ws /\ timers' = IF want THEN timers + 1 ELSE timers
  /\ UNCHANGED want

(* The end of socket s: onerror, if it failed, closes the manager's        *)
(* current socket, whichever that is; onclose forgets the current socket   *)
(* and, when reconnection is wanted, sets a timer.                         *)
Closed(s, erred) ==
  /\ sock' = [t \in Sockets |-> IF t = s THEN "free"
                                ELSE IF erred /\ t = ws THEN "closing" ELSE sock[t]]
  /\ wire' = [wire EXCEPT ![s] = <<>>]
  /\ ws' = None /\ timers' = IF want THEN timers + 1 ELSE timers
  /\ UNCHANGED want

CloseEvent(s) ==
  /\ sock[s] \in {"cut", "closing"}
  /\ \E erred \in BOOLEAN : Closed(s, erred)
  /\ UNCHANGED <<busVars, viewVars, countVars>>

(* disconnect() *)
Disconnect ==
  /\ disconnects < MaxDisconnects /\ disconnects' = disconnects + 1
  /\ want' = FALSE /\ ws' = None
  /\ sock' = [t \in Sockets |-> IF t = ws THEN "closing" ELSE sock[t]]
  /\ UNCHANGED <<busVars, wire, timers, viewVars, troubles, visits>>

-----------------------------------------------------------------------------
Environment ==
  \/ ServerStart \/ Drain \/ ServerCrash \/ ServerExit
  \/ SubscriberReady \/ SubscriberDrop \/ Publish \/ Broadcast
  \/ \E s \in Sockets : Accept(s) \/ Refuse(s) \/ Cut(s)

Manager ==
  \/ TimerFires \/ Disconnect
  \/ \E v \in Views : Mount(v) \/ Unmount(v)
  \/ \E s \in Sockets : Deliver(s) \/ CloseEvent(s)

StreamNext == Environment \/ Manager

StreamSpec == StreamInit /\ [][StreamNext]_streamVars

(* The compose file restarts a server that ended, one that drains exits or *)
(* is killed; handshakes, close events and timers come about.  Nothing is  *)
(* assumed of views, events, failures or calls of disconnect().            *)
FairStreamSpec ==
  /\ StreamSpec
  /\ WF_streamVars(ServerStart) /\ WF_streamVars(ServerExit)
  /\ WF_streamVars(TimerFires)
  /\ \A s \in Sockets :
       WF_streamVars(Accept(s) \/ Refuse(s)) /\ WF_streamVars(CloseEvent(s))

-----------------------------------------------------------------------------
Live == {s \in Sockets : sock[s] # "free"}

(* Unless disconnect() is called, the page never has a second socket:      *)
(* timers that are still pending when a view connects, close events and    *)
(* failing handshakes notwithstanding (ws.ts connect, onclose, subscribe). *)
OneLiveSocket == disconnects = 0 => Live \subseteq {ws}

(* Unless disconnect() is called, what a view shows is in the order of     *)
(* publication and holds no event twice, across reconnections, restarts of *)
(* the server and remounts (ws.ts onmessage, websocket.ts broadcast).      *)
InOrderOnce ==
  disconnects = 0 =>
    \A v \in Views : \A i, k \in DOMAIN shown[v] : i < k => shown[v][i] > shown[v][k]

(* Sequences of events: numbers rise in q, fall in it, stay up to n, and   *)
(* those of q come before those of r.                                      *)
Rising(q) == \A i, k \in 1 .. Len(q) : i < k => q[i] < q[k]
Falling(q) == \A i, k \in 1 .. Len(q) : i < k => q[i] > q[k]
UpTo(q, n) == \A i \in 1 .. Len(q) : q[i] <= n
Before(q, r) == \A i \in 1 .. Len(q), k \in 1 .. Len(r) : q[i] < r[k]

(* Why: what the views show, what is on the wires and what is in the       *)
(* channel follow each other.                                              *)
BusOrder == Rising(channel) /\ UpTo(channel, sent)

WireOrder(s) ==
  /\ sock[s] = "free" => wire[s] = <<>>
  /\ Rising(wire[s]) /\ UpTo(wire[s], sent) /\ Before(wire[s], channel)

ViewOrder(v) ==
  /\ Falling(shown[v]) /\ UpTo(shown[v], sent) /\ Before(shown[v], channel)
  /\ \A s \in Sockets : Before(shown[v], wire[s])

OrderInv ==
  disconnects = 0 =>
    /\ BusOrder
    /\ \A s \in Sockets : WireOrder(s)
    /\ \A v \in Views : ViewOrder(v)

(* The manager is never stuck without a socket: while it wants to be       *)
(* connected for a view that is mounted it has a socket, one that still    *)
(* exists, or a timer, even after disconnect() and the late close event of *)
(* the socket it gave up (ws.ts onclose, onerror, disconnect).             *)
NeverStranded ==
  /\ ws # None => sock[ws] # "free"
  /\ want /\ mounted # {} => ws # None \/ timers > 0

(* After failures, a dashboard with a view is connected again, however     *)
(* often timers, close events and views cross (ws.ts connect, onclose).    *)
(* After a disconnect() it need not be: when a socket that was closed ends *)
(* with an error event, onerror closes the socket that replaced it.        *)
Connected == ws # None /\ sock[ws] = "open"
Reconnects ==
  mounted # {} /\ disconnects = 0 ~> Connected \/ mounted = {} \/ disconnects > 0

=============================================================================
