--------------------------- MODULE EventStreamProofs ---------------------------
(***************************************************************************)
(* Theorems about EventStream for any number of sockets, views, events,    *)
(* failures and calls.                                                     *)
(***************************************************************************)
EXTENDS EventStream, SequenceTheorems, TLAPS

USE StreamAssumption

-----------------------------------------------------------------------------
(* Type correctness. *)

Frames == Seq(1 .. MaxEvents)

(* connect() keeps the types, and takes a socket that was free.            *)
LEMMA ConnectFacts ==
  ASSUME sock \in [Sockets -> SocketStates], ws \in Sockets \cup {None},
         want \in BOOLEAN, troubles \in 0 .. MaxTroubles,
         NEW rest \in Nat, Connect(rest)
  PROVE  /\ sock' \in [Sockets -> SocketStates] /\ ws' \in Sockets \cup {None}
         /\ want' \in BOOLEAN /\ timers' \in Nat /\ troubles' \in 0 .. MaxTroubles
         /\ ws' # None \/ timers' > 0
         /\ \/ sock' = sock /\ ws' = ws
            \/ /\ ws = None /\ ws' \in Sockets /\ sock[ws'] = "free"
               /\ sock' = [sock EXCEPT ![ws'] = "connecting"]
<1>1. CASE ws # None /\ timers' = rest /\ UNCHANGED <<sock, ws, want, troubles>>
  BY <1>1
<1>2. CASE ws = None /\ want' = TRUE /\ NewSocket(rest)
  <2>1. PICK s \in Sockets : sock[s] = "free"
    BY <1>2 DEF NewSocket
  <2>2. Fresh \in Sockets /\ sock[Fresh] = "free"
    BY <2>1 DEF Fresh
  <2> QED BY <1>2, <2>2 DEF NewSocket, SocketStates
<1>3. CASE ws = None /\ want' = TRUE /\ NoSocket(rest)
  <2>1. /\ sock' = sock /\ ws' = ws /\ timers' = rest + 1 /\ troubles' = troubles + 1
        /\ troubles < MaxTroubles
    BY <1>3 DEF NoSocket, Trouble
  <2>2. troubles' \in 0 .. MaxTroubles
    BY <2>1
  <2> QED BY <1>3, <2>1, <2>2
<1> QED BY <1>1, <1>2, <1>3 DEF Connect

(* A view that keeps the newest of its events keeps events.                *)
LEMMA NewestTyped ==
  ASSUME NEW S, NEW q \in Seq(S)
  PROVE  /\ Newest(q) \in Seq(S)
         /\ Len(Newest(q)) <= Len(q)
         /\ \A i \in 1 .. Len(Newest(q)) : Newest(q)[i] = q[i]
<1> DEFINE n == IF Len(q) < Keep THEN Len(q) ELSE Keep
<1>1. Len(q) \in Nat /\ n \in 0 .. Len(q)
  BY LenProperties
<1>2. Newest(q) = SubSeq(q, 1, n)
  BY DEF Newest
<1> HIDE DEF n
<1>3. \A i \in 1 .. n : q[i] \in S
  BY <1>1, ElementOfSeq
<1>4. /\ SubSeq(q, 1, n) \in Seq(S) /\ Len(SubSeq(q, 1, n)) = n
      /\ \A i \in 1 .. n : SubSeq(q, 1, n)[i] = q[i]
  BY <1>1, <1>3
<1> QED BY <1>1, <1>2, <1>4

(* An event that is delivered becomes the first of what a view shows.      *)
LEMMA ShownFacts ==
  ASSUME NEW S, NEW e \in S, NEW q \in Seq(S)
  PROVE  /\ Newest(<<e>> \o q) \in Seq(S)
         /\ \A i \in 1 .. Len(Newest(<<e>> \o q)) :
              Newest(<<e>> \o q)[i] = IF i = 1 THEN e ELSE q[i - 1]
         /\ Len(Newest(<<e>> \o q)) <= Len(q) + 1
<1> DEFINE r == <<e>> \o q
<1>1. /\ r \in Seq(S) /\ Len(r) = Len(q) + 1 /\ Len(q) \in Nat
      /\ \A i \in 1 .. Len(r) : r[i] = IF i = 1 THEN e ELSE q[i - 1]
  OBVIOUS
<1> HIDE DEF r
<1>2. /\ Newest(r) \in Seq(S) /\ Len(Newest(r)) <= Len(r)
      /\ \A i \in 1 .. Len(Newest(r)) : Newest(r)[i] = r[i]
  BY <1>1, NewestTyped
<1>3. Len(Newest(r)) \in Nat
  BY <1>2, LenProperties
<1>4. /\ Newest(r) \in Seq(S) /\ Len(Newest(r)) <= Len(q) + 1
      /\ \A i \in 1 .. Len(Newest(r)) : Newest(r)[i] = IF i = 1 THEN e ELSE q[i - 1]
  BY <1>1, <1>2, <1>3
<1> QED BY <1>4 DEF r

(* Variables that a step leaves alone keep their types.                    *)
LEMMA Untouched ==
  /\ BusTypeOK /\ UNCHANGED busVars => BusTypeOK'
  /\ LinkTypeOK /\ UNCHANGED linkVars => LinkTypeOK'
  /\ ManagerTypeOK /\ UNCHANGED managerVars => ManagerTypeOK'
  /\ ViewTypeOK /\ UNCHANGED viewVars => ViewTypeOK'
  /\ CountTypeOK /\ UNCHANGED countVars => CountTypeOK'
<1>1. BusTypeOK /\ UNCHANGED busVars => BusTypeOK'
  BY DEF BusTypeOK, busVars
<1>2. LinkTypeOK /\ UNCHANGED linkVars => LinkTypeOK'
  BY DEF LinkTypeOK, linkVars
<1>3. ManagerTypeOK /\ UNCHANGED managerVars => ManagerTypeOK'
  BY DEF ManagerTypeOK, managerVars
<1>4. ViewTypeOK /\ UNCHANGED viewVars => ViewTypeOK'
  BY DEF ViewTypeOK, viewVars
<1>5. CountTypeOK /\ UNCHANGED countVars => CountTypeOK'
  BY DEF CountTypeOK, countVars
<1> QED BY <1>1, <1>2, <1>3, <1>4, <1>5

(* A failure is within its bound.                                          *)
LEMMA TroubleTyped ==
  ASSUME CountTypeOK, Trouble \/ UNCHANGED troubles, UNCHANGED <<visits, disconnects>>
  PROVE  CountTypeOK'
<1>1. troubles' \in 0 .. MaxTroubles
  BY DEF CountTypeOK, Trouble
<1> QED BY <1>1 DEF CountTypeOK

(* Every step of the server and the network keeps the types.               *)
LEMMA EnvironmentTyped ==
  ASSUME StreamTypeOK, Environment
  PROVE  StreamTypeOK'
<1> USE DEF StreamTypeOK
<1>1. CASE ServerStart \/ SubscriberReady
  <2>1. BusTypeOK'
    BY <1>1 DEF ServerStart, SubscriberReady, BusTypeOK
  <2> QED BY <1>1, <2>1, Untouched DEF ServerStart, SubscriberReady
<1>2. CASE SubscriberDrop
  <2>1. BusTypeOK'
    BY <1>2, EmptySeq DEF SubscriberDrop, BusTypeOK
  <2> QED BY <1>2, <2>1, Untouched, TroubleTyped DEF SubscriberDrop
<1>3. CASE Publish
  <2>1. sent + 1 \in 1 .. MaxEvents
    BY <1>3 DEF Publish, BusTypeOK
  <2>2. Append(channel, sent + 1) \in Seq(1 .. MaxEvents) /\ sent + 1 \in 0 .. MaxEvents
    BY <2>1, AppendProperties DEF BusTypeOK
  <2>3. BusTypeOK'
    BY <1>3, <2>2 DEF Publish, BusTypeOK
  <2> QED BY <1>3, <2>3, Untouched DEF Publish
<1>4. CASE Broadcast
  <2>1. Head(channel) \in 1 .. MaxEvents /\ Tail(channel) \in Seq(1 .. MaxEvents)
    BY <1>4, HeadTailProperties DEF Broadcast, BusTypeOK
  <2>2. \A s \in Sockets : Append(wire[s], Head(channel)) \in Seq(1 .. MaxEvents)
    BY <2>1, AppendProperties DEF LinkTypeOK
  <2>3. BusTypeOK' /\ LinkTypeOK'
    BY <1>4, <2>1, <2>2 DEF Broadcast, BusTypeOK, LinkTypeOK
  <2> QED BY <1>4, <2>3, Untouched DEF Broadcast
<1>5. CASE Drain
  <2>1. BusTypeOK'
    BY <1>5 DEF Drain, BusTypeOK
  <2> QED BY <1>5, <2>1, Untouched, TroubleTyped DEF Drain
<1>6. CASE ServerCrash \/ ServerExit
  <2>1. ServerEnd /\ CountTypeOK'
    BY <1>6, TroubleTyped DEF ServerCrash, ServerExit, ServerEnd
  <2>2. BusTypeOK'
    BY <2>1, EmptySeq DEF ServerEnd, BusTypeOK
  <2>3. LinkTypeOK'
    BY <2>1 DEF ServerEnd, LinkTypeOK, SocketStates
  <2> QED BY <2>1, <2>2, <2>3, Untouched DEF ServerEnd
<1>7. ASSUME NEW s \in Sockets, Accept(s) \/ Refuse(s) \/ Cut(s)
      PROVE  StreamTypeOK'
  <2>1. SocketFrame /\ CountTypeOK'
    BY <1>7, TroubleTyped DEF Accept, Refuse, Cut, SocketFrame
  <2>2. LinkTypeOK'
    BY <1>7 DEF Accept, Refuse, Cut, Becomes, SocketFrame, LinkTypeOK, SocketStates
  <2> QED BY <2>1, <2>2, Untouched DEF SocketFrame
<1> QED BY <1>1, <1>2, <1>3, <1>4, <1>5, <1>6, <1>7 DEF Environment

(* Every step of the dashboard keeps the types.                            *)
LEMMA ManagerTyped ==
  ASSUME StreamTypeOK, Manager
  PROVE  StreamTypeOK'
<1> USE DEF StreamTypeOK
<1>0. ASSUME NEW rest \in Nat, Connect(rest)
      PROVE  /\ sock' \in [Sockets -> SocketStates] /\ ManagerTypeOK'
             /\ troubles' \in 0 .. MaxTroubles
  <2>1. /\ sock \in [Sockets -> SocketStates] /\ ws \in Sockets \cup {None}
        /\ want \in BOOLEAN /\ troubles \in 0 .. MaxTroubles
    BY DEF LinkTypeOK, ManagerTypeOK, CountTypeOK
  <2> QED BY <1>0, <2>1, ConnectFacts DEF ManagerTypeOK
<1>1. CASE TimerFires
  <2>1. timers - 1 \in Nat /\ Connect(timers - 1)
    BY <1>1 DEF TimerFires, ManagerTypeOK
  <2>2. LinkTypeOK' /\ ManagerTypeOK' /\ CountTypeOK'
    BY <1>1, <2>1, <1>0 DEF TimerFires, LinkTypeOK, CountTypeOK
  <2> QED BY <1>1, <2>2, Untouched DEF TimerFires
<1>2. CASE Disconnect
  <2>1. LinkTypeOK'
    BY <1>2 DEF Disconnect, LinkTypeOK, SocketStates
  <2>2. ManagerTypeOK'
    BY <1>2 DEF Disconnect, ManagerTypeOK
  <2>3. CountTypeOK'
    BY <1>2 DEF Disconnect, CountTypeOK
  <2> QED BY <1>2, <2>1, <2>2, <2>3, Untouched DEF Disconnect
<1>3. ASSUME NEW v \in Views, Mount(v)
      PROVE  StreamTypeOK'
  <2>1. /\ sock' \in [Sockets -> SocketStates] /\ ManagerTypeOK'
        /\ troubles' \in 0 .. MaxTroubles
    <3>1. CASE ws = None
      BY <1>3, <3>1, <1>0 DEF Mount, ManagerTypeOK
    <3>2. CASE ws # None
      BY <1>3, <3>2, Untouched DEF Mount, LinkTypeOK, CountTypeOK
    <3> QED BY <3>1, <3>2
  <2>2. visits' \in 0 .. MaxVisits
    BY <1>3 DEF Mount, CountTypeOK
  <2>3. CountTypeOK' /\ LinkTypeOK' /\ ViewTypeOK'
    BY <1>3, <2>1, <2>2 DEF Mount, CountTypeOK, LinkTypeOK, ViewTypeOK
  <2> QED BY <1>3, <2>1, <2>3, Untouched DEF Mount
<1>4. ASSUME NEW v \in Views, Unmount(v)
      PROVE  StreamTypeOK'
  <2>1. ViewTypeOK'
    BY <1>4, EmptySeq DEF Unmount, ViewTypeOK
  <2> QED BY <1>4, <2>1, Untouched DEF Unmount
<1>5. ASSUME NEW s \in Sockets, Deliver(s)
      PROVE  StreamTypeOK'
  <2>1. /\ wire[s] \in Seq(1 .. MaxEvents) /\ wire[s] # <<>>
        /\ wire' = [wire EXCEPT ![s] = Tail(@)]
    BY <1>5 DEF Deliver, LinkTypeOK
  <2>2. Head(wire[s]) \in 1 .. MaxEvents /\ Tail(wire[s]) \in Seq(1 .. MaxEvents)
    BY <2>1, HeadTailProperties
  <2>3. LinkTypeOK'
    BY <1>5, <2>2 DEF Deliver, LinkTypeOK
  <2>4. \A v \in Views : Newest(<<Head(wire[s])>> \o shown[v]) \in Seq(1 .. MaxEvents)
    BY <2>2, ShownFacts DEF ViewTypeOK
  <2>5. ViewTypeOK'
    BY <1>5, <2>4 DEF Deliver, ViewTypeOK
  <2> QED BY <1>5, <2>3, <2>5, Untouched DEF Deliver
<1>6. ASSUME NEW s \in Sockets, CloseEvent(s)
      PROVE  StreamTypeOK'
  <2>1. PICK erred \in BOOLEAN : Closed(s, erred)
    BY <1>6 DEF CloseEvent
  <2>2. LinkTypeOK'
    BY <2>1, EmptySeq DEF Closed, LinkTypeOK, SocketStates
  <2>3. ManagerTypeOK'
    BY <2>1 DEF Closed, ManagerTypeOK
  <2> QED BY <1>6, <2>2, <2>3, Untouched DEF CloseEvent
<1> QED BY <1>1, <1>2, <1>3, <1>4, <1>5, <1>6 DEF Manager

(* Every variable of the event stream keeps its type.                      *)
THEOREM StreamTypeCorrect == StreamSpec => []StreamTypeOK
<1>1. StreamInit => StreamTypeOK
  <2>0. <<>> \in Seq(1 .. MaxEvents)
    BY EmptySeq
  <2>1. StreamInit => BusTypeOK
    <3>1. StreamInit => server = "down" /\ subscribed = FALSE /\ sent = 0 /\ channel = <<>>
      BY DEF StreamInit
    <3>2. 0 \in 0 .. MaxEvents
      OBVIOUS
    <3> QED BY <2>0, <3>1, <3>2 DEF BusTypeOK
  <2>3. StreamInit => LinkTypeOK
    BY <2>0 DEF StreamInit, LinkTypeOK, SocketStates
  <2>2. StreamInit => ManagerTypeOK /\ ViewTypeOK /\ CountTypeOK
    BY <2>0 DEF StreamInit, ManagerTypeOK, ViewTypeOK, CountTypeOK
  <2> QED BY <2>1, <2>2, <2>3 DEF StreamTypeOK
<1>2. StreamTypeOK /\ [StreamNext]_streamVars => StreamTypeOK'
  <2>1. StreamTypeOK /\ UNCHANGED streamVars => StreamTypeOK'
    BY Untouched DEF StreamTypeOK, streamVars
  <2> QED BY <2>1, EnvironmentTyped, ManagerTyped DEF StreamNext
<1> QED BY <1>1, <1>2, PTL DEF StreamSpec

-----------------------------------------------------------------------------
(* One socket, and never stranded. *)

(* What steps that create no socket leave of the two properties: sockets   *)
(* change, but none appears, and none that exists is freed.                *)
LEMMA SocketsStay ==
  ASSUME OneLiveSocket, NeverStranded,
         \A s \in Sockets : sock'[s] = "free" <=> sock[s] = "free",
         ws \in Sockets \cup {None}, UNCHANGED <<ws, want, timers, mounted, disconnects>>
  PROVE  OneLiveSocket' /\ NeverStranded'
<1>1. Live' = Live
  BY DEF Live
<1> QED BY <1>1 DEF OneLiveSocket, NeverStranded

(* connect(): a new socket only when there is none.                        *)
LEMMA ConnectSafe ==
  ASSUME StreamTypeOK, OneLiveSocket, NeverStranded, NEW rest \in Nat, Connect(rest),
         UNCHANGED disconnects
  PROVE  OneLiveSocket' /\ NeverStranded'
<1>1. /\ sock \in [Sockets -> SocketStates] /\ ws \in Sockets \cup {None}
      /\ want \in BOOLEAN /\ troubles \in 0 .. MaxTroubles
  BY DEF StreamTypeOK, LinkTypeOK, ManagerTypeOK, CountTypeOK
<1>2. ws' # None \/ timers' > 0
  BY <1>1, ConnectFacts
<1>3. CASE sock' = sock /\ ws' = ws
  BY <1>2, <1>3 DEF OneLiveSocket, NeverStranded, Live
<1>4. CASE /\ ws = None /\ ws' \in Sockets /\ sock[ws'] = "free"
           /\ sock' = [sock EXCEPT ![ws'] = "connecting"]
  <2>1. disconnects = 0 => Live = {}
    BY <1>4 DEF OneLiveSocket, Live
  <2>2. \A t \in Sockets : t # ws' => sock'[t] = sock[t]
    BY <1>1, <1>4
  <2>3. sock'[ws'] = "connecting"
    BY <1>1, <1>4
  <2> QED BY <2>1, <2>2, <2>3, <1>2 DEF OneLiveSocket, NeverStranded, Live
<1> QED BY <1>1, <1>3, <1>4, ConnectFacts

(* Every step keeps one socket at most, and never leaves none to wait for. *)
LEMMA SocketStep ==
  ASSUME StreamTypeOK, OneLiveSocket, NeverStranded, [StreamNext]_streamVars
  PROVE  OneLiveSocket' /\ NeverStranded'
<1>0. /\ sock \in [Sockets -> SocketStates] /\ ws \in Sockets \cup {None}
      /\ timers \in Nat /\ mounted \subseteq Views /\ disconnects \in Nat
  BY DEF StreamTypeOK, LinkTypeOK, ManagerTypeOK, ViewTypeOK, CountTypeOK
<1>1. CASE Environment
  <2>1. UNCHANGED <<ws, want, timers, mounted, disconnects>>
    BY <1>1 DEF Environment, ServerStart, Drain, ServerCrash, ServerExit, ServerEnd,
                SubscriberReady, SubscriberDrop, Publish, Broadcast, Accept, Refuse, Cut,
                SocketFrame, managerVars, viewVars, countVars
  <2>2. CASE UNCHANGED sock
    BY <2>1, <2>2, <1>0, SocketsStay
  <2>3. CASE ServerEnd
    <3>1. \A s \in Sockets : sock'[s] = "free" <=> sock[s] = "free"
      BY <2>3 DEF ServerEnd
    <3> QED BY <2>1, <3>1, <1>0, SocketsStay
  <2>4. ASSUME NEW s \in Sockets, Accept(s) \/ Refuse(s) \/ Cut(s)
        PROVE  OneLiveSocket' /\ NeverStranded'
    <3>1. \A t \in Sockets : sock'[t] = "free" <=> sock[t] = "free"
      BY <2>4, <1>0 DEF Accept, Refuse, Cut, Becomes
    <3> QED BY <2>1, <3>1, <1>0, SocketsStay
  <2>5. UNCHANGED sock \/ ServerEnd \/ \E s \in Sockets : Accept(s) \/ Refuse(s) \/ Cut(s)
    BY <1>1 DEF Environment, ServerStart, Drain, ServerCrash, ServerExit,
                SubscriberReady, SubscriberDrop, Publish, Broadcast, linkVars
  <2> QED BY <2>2, <2>3, <2>4, <2>5
<1>2. CASE TimerFires
  BY <1>2, <1>0, ConnectSafe DEF TimerFires
<1>3. ASSUME NEW v \in Views, Mount(v)
      PROVE  OneLiveSocket' /\ NeverStranded'
  <2>1. CASE ws = None
    BY <1>3, <2>1, <1>0, ConnectSafe DEF Mount
  <2>2. CASE ws # None
    BY <1>3, <2>2 DEF Mount, managerVars, OneLiveSocket, NeverStranded, Live
  <2> QED BY <2>1, <2>2
<1>4. ASSUME NEW v \in Views, Unmount(v) \/ UNCHANGED streamVars
      PROVE  OneLiveSocket' /\ NeverStranded'
  BY <1>4 DEF Unmount, streamVars, linkVars, managerVars, viewVars, countVars,
              OneLiveSocket, NeverStranded, Live
<1>5. ASSUME NEW s \in Sockets, Deliver(s)
      PROVE  OneLiveSocket' /\ NeverStranded'
  BY <1>5, <1>0, SocketsStay DEF Deliver, managerVars, countVars
<1>6. ASSUME NEW s \in Sockets, CloseEvent(s)
      PROVE  OneLiveSocket' /\ NeverStranded'
  <2>1. PICK erred \in BOOLEAN : Closed(s, erred)
    BY <1>6 DEF CloseEvent
  <2>2. /\ sock[s] # "free" /\ UNCHANGED <<mounted, disconnects, want>>
    BY <1>6, <2>1 DEF CloseEvent, Closed, viewVars, countVars
  <2>3. disconnects = 0 => s = ws /\ Live = {s}
    BY <2>2 DEF OneLiveSocket, Live
  <2>4. disconnects = 0 => Live' = {}
    BY <2>1, <2>3, <1>0 DEF Closed, Live
  <2>5. want => timers' > 0
    BY <2>1, <1>0 DEF Closed
  <2>6. ws' = None
    BY <2>1 DEF Closed
  <2> QED BY <2>2, <2>4, <2>5, <2>6 DEF OneLiveSocket, NeverStranded
<1>7. CASE Disconnect
  <2>1. disconnects' # 0 /\ ws' = None /\ want' = FALSE
    BY <1>7, <1>0 DEF Disconnect
  <2> QED BY <2>1 DEF OneLiveSocket, NeverStranded
<1>8. CASE UNCHANGED streamVars
  BY <1>8 DEF streamVars, linkVars, managerVars, viewVars, countVars,
              OneLiveSocket, NeverStranded, Live
<1> QED BY <1>1, <1>2, <1>3, <1>4, <1>5, <1>6, <1>7, <1>8 DEF StreamNext, Manager

(* Unless disconnect() is called, the page never has a second socket; and  *)
(* it never waits for a view without a socket or a timer to bring one.     *)
THEOREM OneSocketNeverStranded == StreamSpec => [](OneLiveSocket /\ NeverStranded)
<1>1. StreamInit => OneLiveSocket /\ NeverStranded
  BY DEF StreamInit, OneLiveSocket, NeverStranded, Live
<1>2. /\ StreamTypeOK /\ OneLiveSocket /\ NeverStranded /\ [StreamNext]_streamVars
      => (OneLiveSocket /\ NeverStranded)'
  BY SocketStep
<1> QED BY <1>1, <1>2, StreamTypeCorrect, PTL DEF StreamSpec

(* A mounted view is never left alone: the manager has a socket that still *)
(* exists, or a timer that will open one (ws.ts connect, onclose).         *)
THEOREM ViewsNeverStranded == StreamSpec => []NeverStranded
  BY OneSocketNeverStranded, PTL

-----------------------------------------------------------------------------
(* Events in order, and once. *)

(* Events are numbers.                                                     *)
LEMMA EventNumbers ==
  ASSUME NEW q \in Seq(1 .. MaxEvents)
  PROVE  Len(q) \in Nat /\ \A i \in 1 .. Len(q) : q[i] \in 1 .. MaxEvents /\ q[i] \in Int
  BY ElementOfSeq, LenProperties

(* The empty sequence is in every order.                                   *)
LEMMA EmptyOrder ==
  /\ Rising(<<>>) /\ Falling(<<>>)
  /\ \A n : UpTo(<<>>, n)
  /\ \A q : Before(<<>>, q) /\ Before(q, <<>>)
  BY EmptySeq DEF Rising, Falling, UpTo, Before

(* An event that comes after all others, appended (PUBLISH, send).         *)
LEMMA AppendOrder ==
  ASSUME NEW q \in Seq(1 .. MaxEvents), NEW e \in 1 .. MaxEvents,
         \A i \in 1 .. Len(q) : q[i] < e
  PROVE  /\ Rising(q) => Rising(Append(q, e))
         /\ \A n \in Nat : UpTo(q, n) /\ e <= n => UpTo(Append(q, e), n)
         /\ \A r \in Seq(1 .. MaxEvents) :
              Before(r, q) /\ (\A i \in 1 .. Len(r) : r[i] < e) => Before(r, Append(q, e))
         /\ \A r \in Seq(1 .. MaxEvents) :
              Before(q, r) /\ (\A i \in 1 .. Len(r) : e < r[i]) => Before(Append(q, e), r)
<1> DEFINE a == Append(q, e)
<1>1. /\ Len(q) \in Nat /\ Len(a) = Len(q) + 1
      /\ \A i \in 1 .. Len(a) : a[i] = IF i <= Len(q) THEN q[i] ELSE e
      /\ \A i \in 1 .. Len(a) : i \in 1 .. Len(q) \/ i = Len(a)
      /\ \A i \in 1 .. Len(q) : q[i] \in Int
  BY AppendProperties, EventNumbers
<1>0. \A i \in 1 .. Len(a) : (i \in 1 .. Len(q) /\ a[i] = q[i]) \/ (~ i \in 1 .. Len(q) /\ a[i] = e)
  BY <1>1
<1> HIDE DEF a
<1>2. Rising(q) => Rising(a)
  BY <1>1 DEF Rising
<1>3. \A n \in Nat : UpTo(q, n) /\ e <= n => UpTo(a, n)
  BY <1>1 DEF UpTo
<1>4. \A r \in Seq(1 .. MaxEvents) :
        Before(r, q) /\ (\A i \in 1 .. Len(r) : r[i] < e) => Before(r, a)
  BY <1>0 DEF Before
<1>5. \A r \in Seq(1 .. MaxEvents) :
        Before(q, r) /\ (\A i \in 1 .. Len(r) : e < r[i]) => Before(a, r)
  BY <1>0 DEF Before
<1> QED BY <1>2, <1>3, <1>4, <1>5 DEF a

(* The first event of a sequence comes before its others (the message      *)
(* handlers take the first).                                               *)
LEMMA TailOrder ==
  ASSUME NEW q \in Seq(1 .. MaxEvents), q # <<>>, Rising(q)
  PROVE  /\ Head(q) \in 1 .. MaxEvents /\ Tail(q) \in Seq(1 .. MaxEvents)
         /\ Rising(Tail(q))
         /\ \A i \in 1 .. Len(Tail(q)) : Head(q) < Tail(q)[i]
         /\ \A n \in Nat : UpTo(q, n) => UpTo(Tail(q), n) /\ Head(q) <= n
         /\ \A r \in Seq(1 .. MaxEvents) :
              /\ Before(r, q) => Before(r, Tail(q)) /\ \A i \in 1 .. Len(r) : r[i] < Head(q)
              /\ Before(q, r) => Before(Tail(q), r) /\ \A i \in 1 .. Len(r) : Head(q) < r[i]
<1> DEFINE h == Head(q)
           t == Tail(q)
<1>1. /\ h \in 1 .. MaxEvents /\ t \in Seq(1 .. MaxEvents)
      /\ Len(q) \in Nat \ {0} /\ Len(t) = Len(q) - 1
      /\ h = q[1] /\ \A i \in 1 .. Len(t) : t[i] = q[i + 1]
      /\ \A i \in 1 .. Len(q) : q[i] \in Int
  BY HeadTailProperties, EmptySeq, EventNumbers
<1> HIDE DEF h, t
<1>0. 1 \in 1 .. Len(q) /\ \A i \in 1 .. Len(t) : i + 1 \in 1 .. Len(q) /\ 1 < i + 1
  BY <1>1
<1>5. Rising(t)
  <2>1. ASSUME NEW i \in 1 .. Len(t), NEW k \in 1 .. Len(t), i < k
        PROVE  t[i] < t[k]
    <3>1. i + 1 < k + 1 /\ i + 1 \in 1 .. Len(q) /\ k + 1 \in 1 .. Len(q)
      BY <1>0, <2>1
    <3>2. q[i + 1] < q[k + 1]
      BY <3>1 DEF Rising
    <3> QED BY <3>2, <1>1
  <2> QED BY <2>1 DEF Rising
<1>2. Rising(t) /\ \A i \in 1 .. Len(t) : h < t[i]
  <2>1. \A i \in 1 .. Len(t) : q[1] < q[i + 1]
    BY <1>0 DEF Rising
  <2> QED BY <1>1, <1>5, <2>1
<1>3. \A n \in Nat : UpTo(q, n) => UpTo(t, n) /\ h <= n
  BY <1>0, <1>1 DEF UpTo
<1>4. ASSUME NEW r \in Seq(1 .. MaxEvents)
      PROVE  /\ Before(r, q) => Before(r, t) /\ \A i \in 1 .. Len(r) : r[i] < h
             /\ Before(q, r) => Before(t, r) /\ \A i \in 1 .. Len(r) : h < r[i]
  BY <1>0, <1>1 DEF Before
<1> QED BY <1>1, <1>2, <1>3, <1>4 DEF h, t

(* A view that shows an event that comes after all it shows (setEvents).   *)
LEMMA ShownOrder ==
  ASSUME NEW q \in Seq(1 .. MaxEvents), NEW e \in 1 .. MaxEvents,
         \A i \in 1 .. Len(q) : q[i] < e
  PROVE  /\ Falling(q) => Falling(Newest(<<e>> \o q))
         /\ \A n \in Nat : UpTo(q, n) /\ e <= n => UpTo(Newest(<<e>> \o q), n)
         /\ \A r \in Seq(1 .. MaxEvents) :
              Before(q, r) /\ (\A i \in 1 .. Len(r) : e < r[i]) => Before(Newest(<<e>> \o q), r)
<1> DEFINE a == Newest(<<e>> \o q)
<1>1. /\ a \in Seq(1 .. MaxEvents) /\ Len(a) <= Len(q) + 1
      /\ \A i \in 1 .. Len(a) : a[i] = IF i = 1 THEN e ELSE q[i - 1]
  <2> DEFINE E == 1 .. MaxEvents
  <2>1. e \in E /\ q \in Seq(E)
    OBVIOUS
  <2> HIDE DEF E
  <2>2. /\ a \in Seq(E) /\ Len(a) <= Len(q) + 1
        /\ \A i \in 1 .. Len(a) : a[i] = IF i = 1 THEN e ELSE q[i - 1]
    BY <2>1, ShownFacts
  <2> QED BY <2>2 DEF E
<1>2. /\ Len(a) \in Nat /\ Len(q) \in Nat
      /\ \A i \in 1 .. Len(q) : q[i] \in Int
  BY <1>1, EventNumbers
<1> HIDE DEF a
<1>3. \A i \in 1 .. Len(a) :
        (i = 1 /\ a[i] = e) \/ (i > 1 /\ i - 1 \in 1 .. Len(q) /\ a[i] = q[i - 1])
  BY <1>1, <1>2
<1>4. Falling(q) => Falling(a)
  <2>1. ASSUME Falling(q), NEW i \in 1 .. Len(a), NEW k \in 1 .. Len(a), i < k
        PROVE  a[i] > a[k]
    <3>1. k - 1 \in 1 .. Len(q) /\ a[k] = q[k - 1]
      BY <1>3, <2>1
    <3>2. CASE i = 1
      BY <3>1, <3>2, <1>2, <1>3
    <3>3. CASE i > 1
      <4>1. i - 1 \in 1 .. Len(q) /\ a[i] = q[i - 1] /\ i - 1 < k - 1
        BY <1>3, <2>1, <3>3
      <4> QED BY <3>1, <4>1, <2>1 DEF Falling
    <3> QED BY <3>2, <3>3
  <2> QED BY <2>1 DEF Falling
<1>5. \A n \in Nat : UpTo(q, n) /\ e <= n => UpTo(a, n)
  BY <1>3 DEF UpTo
<1>6. \A r \in Seq(1 .. MaxEvents) :
        Before(q, r) /\ (\A i \in 1 .. Len(r) : e < r[i]) => Before(a, r)
  BY <1>3 DEF Before
<1> QED BY <1>4, <1>5, <1>6 DEF a

(* No step of the server or the network brings events out of order         *)
(* (websocket.ts).                                                         *)
LEMMA EnvironmentOrder ==
  ASSUME StreamTypeOK, OrderInv, Environment
  PROVE  OrderInv'
<1> SUFFICES ASSUME disconnects = 0
             PROVE  /\ BusOrder' /\ \A s \in Sockets : WireOrder(s)'
                    /\ \A v \in Views : ViewOrder(v)'
  <2>1. UNCHANGED disconnects
    BY DEF Environment, ServerStart, Drain, ServerCrash, ServerExit, ServerEnd,
           SubscriberReady, SubscriberDrop, Publish, Broadcast, Accept, Refuse, Cut,
           SocketFrame, countVars
  <2> QED BY <2>1 DEF OrderInv
<1>0. /\ sock \in [Sockets -> SocketStates] /\ wire \in [Sockets -> Seq(1 .. MaxEvents)]
      /\ shown \in [Views -> Seq(1 .. MaxEvents)] /\ channel \in Seq(1 .. MaxEvents)
      /\ sent \in Nat
      /\ BusOrder /\ \A s \in Sockets : WireOrder(s)
      /\ \A v \in Views : ViewOrder(v)
  BY DEF StreamTypeOK, LinkTypeOK, ViewTypeOK, BusTypeOK, OrderInv
<1>1. ASSUME channel' = channel \/ channel' = <<>>, UNCHANGED <<sent, wire, shown>>,
             \A s \in Sockets : sock'[s] = "free" => sock[s] = "free"
      PROVE  /\ BusOrder' /\ \A s \in Sockets : WireOrder(s)'
             /\ \A v \in Views : ViewOrder(v)'
  <2>1. channel' = channel => \A q : Before(q, channel) => Before(q, channel')
    OBVIOUS
  <2>2. \A q : Before(q, channel) => Before(q, channel')
    BY <1>1, <2>1, EmptyOrder
  <2>3. BusOrder'
    BY <1>0, <1>1, EmptyOrder DEF BusOrder
  <2>4. ASSUME NEW s \in Sockets
        PROVE  WireOrder(s)'
    <3>1. WireOrder(s)
      BY <1>0
    <3> QED BY <3>1, <2>2, <1>1 DEF WireOrder
  <2>5. ASSUME NEW v \in Views
        PROVE  ViewOrder(v)'
    <3>1. ViewOrder(v)
      BY <1>0
    <3> QED BY <3>1, <2>2, <1>1 DEF ViewOrder
  <2> QED BY <2>3, <2>4, <2>5
<1>2. CASE ServerStart \/ SubscriberReady \/ SubscriberDrop \/ Drain
  BY <1>1, <1>2 DEF ServerStart, SubscriberReady, SubscriberDrop, Drain, linkVars, viewVars
<1>3. CASE ServerCrash \/ ServerExit
  <2>1. ServerEnd
    BY <1>3 DEF ServerCrash, ServerExit
  <2>2. \A s \in Sockets : sock'[s] = "free" => sock[s] = "free"
    BY <2>1 DEF ServerEnd
  <2> QED BY <1>1, <2>1, <2>2 DEF ServerEnd, viewVars
<1>4. ASSUME NEW s \in Sockets, Accept(s) \/ Refuse(s) \/ Cut(s)
      PROVE  /\ BusOrder' /\ \A t \in Sockets : WireOrder(t)'
             /\ \A v \in Views : ViewOrder(v)'
  <2>1. \A t \in Sockets : sock'[t] = "free" => sock[t] = "free"
    BY <1>4, <1>0 DEF Accept, Refuse, Cut, Becomes
  <2>2. SocketFrame
    BY <1>4 DEF Accept, Refuse, Cut
  <2> QED BY <1>1, <2>1, <2>2 DEF SocketFrame, busVars, viewVars
<1>5. CASE Publish
  <2> DEFINE e == sent + 1
  <2>1. /\ e \in 1 .. MaxEvents /\ e \in Nat /\ sent' = e
        /\ \A q \in Seq(1 .. MaxEvents) : UpTo(q, sent) =>
             UpTo(q, e) /\ \A i \in 1 .. Len(q) : q[i] < e
    <3>1. e \in 1 .. MaxEvents /\ e \in Nat /\ sent' = e /\ sent < e /\ sent \in Nat
      BY <1>5, <1>0 DEF Publish
    <3> HIDE DEF e
    <3> QED BY <3>1, EventNumbers DEF UpTo
  <2> HIDE DEF e
  <2>2. /\ Rising(Append(channel, e)) /\ UpTo(Append(channel, e), e) /\ UpTo(channel, e)
        /\ \A q \in Seq(1 .. MaxEvents) :
             Before(q, channel) /\ UpTo(q, sent) => Before(q, Append(channel, e))
    BY <1>0, <2>1, AppendOrder DEF BusOrder
  <2>3. channel' = channel \/ channel' = Append(channel, e)
    BY <1>5 DEF Publish, e
  <2>4. UNCHANGED <<sock, wire, shown>>
    BY <1>5 DEF Publish, linkVars, viewVars
  <2>5. BusOrder'
    BY <1>0, <2>1, <2>2, <2>3 DEF BusOrder
  <2>6. ASSUME NEW s \in Sockets
        PROVE  WireOrder(s)'
    BY <1>0, <2>1, <2>2, <2>3, <2>4 DEF WireOrder
  <2>7. ASSUME NEW v \in Views
        PROVE  ViewOrder(v)'
    <3>1. /\ Falling(shown[v]) /\ UpTo(shown[v], e)
          /\ Before(shown[v], channel) /\ Before(shown[v], Append(channel, e))
          /\ \A s \in Sockets : Before(shown[v], wire[s])
      BY <1>0, <2>1, <2>2 DEF ViewOrder
    <3>2. Before(shown[v], channel')
      BY <3>1, <2>3
    <3> QED BY <3>1, <3>2, <2>1, <2>4 DEF ViewOrder
  <2> QED BY <2>5, <2>6, <2>7
<1>6. CASE Broadcast
  <2> DEFINE e == Head(channel)
             r == Tail(channel)
  <2>1. /\ e \in 1 .. MaxEvents /\ r \in Seq(1 .. MaxEvents)
        /\ Rising(r) /\ UpTo(r, sent) /\ e <= sent
        /\ \A i \in 1 .. Len(r) : e < r[i]
        /\ \A q \in Seq(1 .. MaxEvents) : Before(q, channel) =>
             Before(q, r) /\ \A i \in 1 .. Len(q) : q[i] < e
    BY <1>0, <1>6, TailOrder DEF Broadcast, BusOrder
  <2>2. /\ channel' = r /\ UNCHANGED <<sent, sock, shown>>
        /\ \A s \in Sockets : \/ wire'[s] = wire[s]
                              \/ wire'[s] = Append(wire[s], e) /\ sock[s] = "open"
    BY <1>6, <1>0 DEF Broadcast, viewVars
  <2> HIDE DEF e, r
  <2>3. BusOrder'
    BY <2>1, <2>2 DEF BusOrder
  <2>4. ASSUME NEW s \in Sockets
        PROVE  /\ WireOrder(s)'
               /\ \A v \in Views : Before(shown[v], wire'[s])
    <3>1. wire[s] \in Seq(1 .. MaxEvents) /\ \A i \in 1 .. Len(wire[s]) : wire[s][i] < e
      BY <1>0, <2>1 DEF WireOrder
    <3>2. CASE wire'[s] = wire[s]
      BY <3>1, <3>2, <1>0, <2>1, <2>2 DEF WireOrder, ViewOrder
    <3>3. CASE wire'[s] = Append(wire[s], e) /\ sock[s] = "open"
      <4>1. /\ Rising(Append(wire[s], e)) /\ UpTo(Append(wire[s], e), sent)
            /\ Before(Append(wire[s], e), r)
        BY <1>0, <2>1, <3>1, AppendOrder DEF WireOrder
      <4>2. \A v \in Views : Before(shown[v], Append(wire[s], e))
        BY <1>0, <2>1, <3>1, AppendOrder DEF ViewOrder
      <4> QED BY <3>3, <4>1, <4>2, <2>2 DEF WireOrder
    <3> QED BY <2>2, <3>2, <3>3
  <2>5. ASSUME NEW v \in Views
        PROVE  ViewOrder(v)'
    <3>1. /\ Falling(shown[v]) /\ UpTo(shown[v], sent)
          /\ Before(shown[v], r) /\ \A s \in Sockets : Before(shown[v], wire'[s])
      BY <1>0, <2>1, <2>4 DEF ViewOrder
    <3> QED BY <3>1, <2>2 DEF ViewOrder
  <2> QED BY <2>3, <2>4, <2>5
<1> QED BY <1>2, <1>3, <1>4, <1>5, <1>6 DEF Environment

(* Nor does a step of the dashboard (ws.ts).                               *)
LEMMA ManagerOrder ==
  ASSUME StreamTypeOK, OneLiveSocket, OrderInv, Manager
  PROVE  OrderInv'
<1> SUFFICES ASSUME disconnects = 0, UNCHANGED disconnects
             PROVE  /\ BusOrder' /\ \A s \in Sockets : WireOrder(s)'
                    /\ \A v \in Views : ViewOrder(v)'
  <2>1. disconnects' = disconnects \/ disconnects' = disconnects + 1
    BY DEF Manager, TimerFires, Disconnect, Mount, Unmount, Deliver, CloseEvent, countVars
  <2>2. disconnects' = 0 => disconnects = 0 /\ UNCHANGED disconnects
    BY <2>1 DEF StreamTypeOK, CountTypeOK
  <2> QED BY <2>2 DEF OrderInv
<1>0. /\ sock \in [Sockets -> SocketStates] /\ wire \in [Sockets -> Seq(1 .. MaxEvents)]
      /\ shown \in [Views -> Seq(1 .. MaxEvents)] /\ channel \in Seq(1 .. MaxEvents)
      /\ sent \in Nat
      /\ BusOrder /\ \A s \in Sockets : WireOrder(s)
      /\ \A v \in Views : ViewOrder(v)
  BY DEF StreamTypeOK, LinkTypeOK, ViewTypeOK, BusTypeOK, OrderInv
<1>1. ASSUME UNCHANGED <<channel, sent, wire>>,
             \A s \in Sockets : sock'[s] = "free" => sock[s] = "free",
             \A v \in Views : shown'[v] \in {shown[v], <<>>}
      PROVE  /\ BusOrder' /\ \A s \in Sockets : WireOrder(s)'
             /\ \A v \in Views : ViewOrder(v)'
  <2>1. BusOrder'
    BY <1>0, <1>1 DEF BusOrder
  <2>2. ASSUME NEW s \in Sockets
        PROVE  WireOrder(s)'
    <3>1. WireOrder(s)
      BY <1>0
    <3> QED BY <3>1, <1>1 DEF WireOrder
  <2>3. ASSUME NEW v \in Views
        PROVE  ViewOrder(v)'
    <3>1. ViewOrder(v)
      BY <1>0
    <3>2. CASE shown'[v] = shown[v]
      BY <3>1, <3>2, <1>1 DEF ViewOrder
    <3>3. CASE shown'[v] = <<>>
      BY <3>3, EmptyOrder DEF ViewOrder
    <3> QED BY <1>1, <3>2, <3>3
  <2> QED BY <2>1, <2>2, <2>3
<1>2. ASSUME NEW rest \in Nat, Connect(rest)
      PROVE  \A s \in Sockets : sock'[s] = "free" => sock[s] = "free"
  <2>1. /\ ws \in Sockets \cup {None} /\ want \in BOOLEAN /\ troubles \in 0 .. MaxTroubles
    BY DEF StreamTypeOK, ManagerTypeOK, CountTypeOK
  <2>2. \/ sock' = sock
        \/ \E t \in Sockets : sock' = [sock EXCEPT ![t] = "connecting"]
    BY <1>0, <1>2, <2>1, ConnectFacts
  <2> QED BY <1>0, <2>2
<1>3. CASE TimerFires
  <2>1. timers - 1 \in Nat
    BY <1>3 DEF TimerFires, StreamTypeOK, ManagerTypeOK
  <2> QED BY <1>1, <1>2, <1>3, <2>1 DEF TimerFires, busVars, viewVars
<1>4. CASE Disconnect
  BY <1>4 DEF Disconnect, StreamTypeOK, CountTypeOK
<1>5. ASSUME NEW v \in Views, Mount(v)
      PROVE  /\ BusOrder' /\ \A s \in Sockets : WireOrder(s)'
             /\ \A u \in Views : ViewOrder(u)'
  <2>1. timers \in Nat
    BY DEF StreamTypeOK, ManagerTypeOK
  <2>2. \A s \in Sockets : sock'[s] = "free" => sock[s] = "free"
    BY <1>2, <1>5, <2>1 DEF Mount
  <2> QED BY <1>1, <1>5, <2>2 DEF Mount, busVars
<1>6. ASSUME NEW v \in Views, Unmount(v)
      PROVE  /\ BusOrder' /\ \A s \in Sockets : WireOrder(s)'
             /\ \A u \in Views : ViewOrder(u)'
  <2>1. \A u \in Views : shown'[u] \in {shown[u], <<>>}
    BY <1>0, <1>6 DEF Unmount
  <2> QED BY <1>1, <1>6, <2>1 DEF Unmount, busVars, linkVars
<1>7. ASSUME NEW s \in Sockets, CloseEvent(s)
      PROVE  /\ BusOrder' /\ \A t \in Sockets : WireOrder(t)'
             /\ \A v \in Views : ViewOrder(v)'
  <2>1. PICK erred \in BOOLEAN : Closed(s, erred)
    BY <1>7 DEF CloseEvent
  <2>2. /\ UNCHANGED <<channel, sent, shown>>
        /\ \A t \in Sockets : wire'[t] = IF t = s THEN <<>> ELSE wire[t]
        /\ \A t \in Sockets : t # s /\ sock'[t] = "free" => sock[t] = "free"
    BY <1>7, <2>1, <1>0 DEF CloseEvent, Closed, busVars, viewVars
  <2>3. BusOrder'
    BY <1>0, <2>2 DEF BusOrder
  <2>4. ASSUME NEW t \in Sockets
        PROVE  WireOrder(t)'
    <3>1. CASE t = s
      BY <2>2, <3>1, EmptyOrder DEF WireOrder
    <3>2. CASE t # s
      <4>1. WireOrder(t)
        BY <1>0
      <4> QED BY <2>2, <3>2, <4>1 DEF WireOrder
    <3> QED BY <3>1, <3>2
  <2>5. ASSUME NEW v \in Views
        PROVE  ViewOrder(v)'
    <3>1. ViewOrder(v)
      BY <1>0
    <3>2. \A t \in Sockets : Before(shown[v], wire'[t])
      BY <2>2, <3>1, EmptyOrder DEF ViewOrder
    <3> QED BY <2>2, <3>1, <3>2 DEF ViewOrder
  <2> QED BY <2>3, <2>4, <2>5
<1>8. ASSUME NEW s \in Sockets, Deliver(s)
      PROVE  /\ BusOrder' /\ \A t \in Sockets : WireOrder(t)'
             /\ \A v \in Views : ViewOrder(v)'
  <2> DEFINE e == Head(wire[s])
             r == Tail(wire[s])
  <2>1. /\ wire[s] \in Seq(1 .. MaxEvents) /\ wire[s] # <<>> /\ WireOrder(s)
    BY <1>0, <1>8 DEF Deliver
  <2>2. /\ e \in 1 .. MaxEvents /\ r \in Seq(1 .. MaxEvents)
        /\ Rising(r) /\ UpTo(r, sent) /\ e <= sent /\ Before(r, channel)
        /\ \A i \in 1 .. Len(r) : e < r[i]
        /\ \A i \in 1 .. Len(channel) : e < channel[i]
        /\ \A q \in Seq(1 .. MaxEvents) : Before(q, wire[s]) =>
             Before(q, r) /\ \A i \in 1 .. Len(q) : q[i] < e
    BY <1>0, <2>1, TailOrder DEF WireOrder
  <2>3. /\ UNCHANGED <<channel, sent, sock>>
        /\ \A t \in Sockets : wire'[t] = IF t = s THEN r ELSE wire[t]
        /\ \A v \in Views : shown'[v] \in {shown[v], Newest(<<e>> \o shown[v])}
    BY <1>0, <1>8 DEF Deliver, busVars
  <2>4. \A t \in Sockets : t # s => wire[t] = <<>>
    <3>1. sock[s] # "free"
      BY <1>8 DEF Deliver
    <3>2. \A t \in Sockets : t # s => sock[t] = "free"
      BY <3>1 DEF OneLiveSocket, Live
    <3> QED BY <1>0, <3>2 DEF WireOrder
  <2>5. sock[s] # "free"
    BY <1>8 DEF Deliver
  <2> HIDE DEF e, r
  <2>6. BusOrder'
    BY <1>0, <2>3 DEF BusOrder
  <2>7. ASSUME NEW t \in Sockets
        PROVE  WireOrder(t)'
    <3>1. CASE t = s
      BY <2>2, <2>3, <2>5, <3>1 DEF WireOrder
    <3>2. CASE t # s
      <4>1. WireOrder(t)
        BY <1>0
      <4> QED BY <2>3, <3>2, <4>1 DEF WireOrder
    <3> QED BY <3>1, <3>2
  <2>8. ASSUME NEW v \in Views
        PROVE  ViewOrder(v)'
    <3> DEFINE n == Newest(<<e>> \o shown[v])
    <3>1. ViewOrder(v) /\ shown[v] \in Seq(1 .. MaxEvents)
      BY <1>0
    <3>2. Before(shown[v], r) /\ \A i \in 1 .. Len(shown[v]) : shown[v][i] < e
      BY <2>2, <3>1 DEF ViewOrder
    <3>3. /\ Falling(n) /\ UpTo(n, sent) /\ Before(n, channel) /\ Before(n, r)
      <4>1. /\ Falling(shown[v]) => Falling(n)
            /\ \A m \in Nat : UpTo(shown[v], m) /\ e <= m => UpTo(n, m)
            /\ \A q \in Seq(1 .. MaxEvents) :
                 Before(shown[v], q) /\ (\A i \in 1 .. Len(q) : e < q[i]) => Before(n, q)
        BY <2>2, <3>1, <3>2, ShownOrder
      <4> HIDE DEF n
      <4> QED BY <1>0, <2>2, <3>1, <3>2, <4>1 DEF ViewOrder
    <3> HIDE DEF n
    <3>4. \A t \in Sockets : wire'[t] \in {r, <<>>}
      BY <2>3, <2>4
    <3>5. shown'[v] \in {shown[v], n}
      BY <2>3 DEF n
    <3>6. CASE shown'[v] = shown[v]
      <4>1. \A t \in Sockets : Before(shown[v], wire'[t])
        BY <3>2, <3>4, EmptyOrder
      <4> QED BY <2>3, <3>1, <3>6, <4>1 DEF ViewOrder
    <3>7. CASE shown'[v] = n
      <4>1. \A t \in Sockets : Before(n, wire'[t])
        BY <3>3, <3>4, EmptyOrder
      <4> QED BY <2>3, <3>3, <3>7, <4>1 DEF ViewOrder
    <3> QED BY <3>5, <3>6, <3>7
  <2> QED BY <2>6, <2>7, <2>8
<1> QED BY <1>3, <1>4, <1>5, <1>6, <1>7, <1>8 DEF Manager

(* Unless disconnect() is called, a view shows events in the order of      *)
(* their publication and none twice.                                       *)
THEOREM EventsInOrderOnce == StreamSpec => []InOrderOnce
<1>1. StreamInit => OrderInv
  BY EmptyOrder DEF StreamInit, OrderInv, BusOrder, WireOrder, ViewOrder
<1>2. StreamTypeOK /\ OneLiveSocket /\ OrderInv /\ [StreamNext]_streamVars => OrderInv'
  <2>1. OrderInv /\ UNCHANGED streamVars => OrderInv'
    BY DEF OrderInv, BusOrder, WireOrder, ViewOrder,
           streamVars, busVars, linkVars, viewVars, countVars
  <2> QED BY <2>1, EnvironmentOrder, ManagerOrder DEF StreamNext
<1>3. StreamTypeOK /\ OrderInv => InOrderOnce
  <2>1. ASSUME StreamTypeOK, NEW v \in Views
        PROVE  DOMAIN shown[v] = 1 .. Len(shown[v])
    <3>1. shown[v] \in Seq(1 .. MaxEvents)
      BY <2>1 DEF StreamTypeOK, ViewTypeOK
    <3> QED BY <3>1
  <2> QED BY <2>1 DEF OrderInv, ViewOrder, Falling, InOrderOnce
<1>4. StreamSpec => [](StreamTypeOK /\ OneLiveSocket)
  BY StreamTypeCorrect, OneSocketNeverStranded, PTL
<1> QED BY <1>1, <1>2, <1>3, <1>4, PTL DEF StreamSpec

=============================================================================
