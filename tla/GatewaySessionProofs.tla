------------------------ MODULE GatewaySessionProofs ------------------------
(***************************************************************************)
(* Proofs about GatewaySession, for any clients, characters, worldservers  *)
(* and bounds:                                                             *)
(*   TypeCorrect       the fields of a session agree with its next step;   *)
(*   OwnersAreReached  EventsReachOwner;                                   *)
(*   SocketsMatch      SocketMatchesCharacter.                             *)
(***************************************************************************)
EXTENDS GatewaySession, FiniteSetTheorems, WellFoundedInduction, TLAPS

-----------------------------------------------------------------------------
(* Types, and which fields a session has at which step. *)

Nobody == {NoOne}
SessionType ==
    [at : {"offline", "loop", "select", "connect", "announce", "logout", "prepare", "stuck", "ended"},
     char : Characters \cup Nobody, world : {0} \cup Conns, client : Worlds \cup Nobody,
     current : Worlds \cup Nobody, teleport : BOOLEAN, told : BOOLEAN,
     via : {"none", "login", "request", "layer", "battleground", "teleport", "end"},
     goal : Characters \cup Nobody, server : Worlds \cup Nobody]
ConnType ==
    [by : Sessions \cup Nobody, char : Characters \cup Nobody, server : Worlds \cup Nobody,
     open : BOOLEAN, player : BOOLEAN]
WorkerType ==
    [kind : {"none", "recover", "redirect"}, by : Sessions \cup Nobody, char : Characters \cup Nobody,
     at : {"idle", "select", "connect", "await", "hand"}, left : Nat, server : Worlds \cup Nobody, conn : {0} \cup Conns]
HandoverType == [kind : {"recover", "redirect"}, conn : Conns, server : Worlds]

\* A session without a character has no world socket; which handler is at work
\* and what it still needs.
SessionShape(r) ==
    /\ r.at \in {"offline", "ended"} => r.char = NoOne
    /\ r.char = NoOne => r.world = 0
    /\ r.at \in {"offline", "loop", "announce", "stuck", "ended"} => r.via = "none"
    /\ r.at = "select" => r.via \in {"login", "request"}
    /\ r.at = "connect" => r.via \in {"login", "request", "layer", "battleground"} /\ r.server \in Worlds
    /\ r.at = "prepare" => r.via \in {"teleport", "layer", "battleground"} /\ r.world # 0 /\ r.server \in Worlds
    /\ r.at \in {"select", "connect", "prepare"} =>
           /\ r.goal \in Characters
           /\ r.char = IF r.via = "login" THEN NoOne ELSE r.goal
    /\ r.at \in {"announce", "logout", "stuck"} => r.char # NoOne
    /\ r.at = "logout" => r.via = "end" \/ (r.via = "none" /\ r.world = 0)

\* A goroutine that runs belongs to a session and has what its next step needs.
WorkerShape(r) ==
    \/ r.by = NoOne /\ r.at = "idle"
    \/ /\ r.by \in Sessions
       /\ r.kind = "recover" \/ (r.kind = "redirect" /\ r.left = 0)
       /\ \/ r.at = "select" /\ r.kind = "recover"
          \/ r.at \in {"connect", "await"} /\ r.server \in Worlds
          \/ r.at = "hand" /\ r.server \in Worlds /\ r.conn \in Conns

SesOK == ses \in [Sessions -> SessionType] /\ \A s \in Sessions : SessionShape(ses[s])
WorkersOK == workers \in [Workers -> WorkerType] /\ \A n \in Workers : WorkerShape(workers[n])
ConnsOK == conns \in [Conns -> ConnType] /\ \A k \in Conns : conns[k].player => conns[k].by \in Sessions
RestOK ==
    /\ visit \in Visits /\ gone \subseteq Sessions /\ up \subseteq Worlds
    /\ safe \in [Sessions -> Seq(HandoverType)]
    /\ registered \in [Characters -> Sessions \cup Nobody] /\ events \in [Sessions -> SUBSET Characters]
    /\ slips \in [Sessions -> SUBSET {"late", "stranded", "battleground"}]
    /\ shared \subseteq Characters
    /\ inputs \in Nat /\ faults \in Nat
TypeOK == SesOK /\ WorkersOK /\ ConnsOK /\ RestOK

-----------------------------------------------------------------------------
(* EventsReachOwner: the inductive invariant. *)

Owners ==
    /\ \A s, t \in Sessions :
           ses[s].char \in Characters \ shared /\ ses[t].char = ses[s].char => s = t
    /\ \A s \in Sessions :
           ses[s].char \in Characters \ shared /\ ~At(s, "announce") => registered[ses[s].char] = s
    /\ \A s \in Sessions, c \in Characters : registered[c] = s => ses[s].char = c
    /\ \A s \in Sessions : ~At(s, "announce") => events[s] \subseteq {ses[s].char} \/ ses[s].char = NoOne

-----------------------------------------------------------------------------
(* SocketMatchesCharacter: the inductive invariant. *)

OnTime(s) == "late" \notin slips[s]
Works(n, s) == workers[n].by = s
Hands(n, s) == workers[n].by = s /\ workers[n].at = "hand"
Plays(k, s) == conns[k].by = s /\ conns[k].player
Idle(s) == safe[s] = <<>> /\ \A n \in Workers : ~Works(n, s)

\* The client has no character, or is at its screen and the character is being logged out.
OnScreen(s) == ses[s].char = NoOne \/ (At(s, "logout") /\ ses[s].via = "none")

\* The connections a session, its goroutines and its queue hold are its own
\* and not the same ones.
Holdings(s) ==
    /\ ses[s].world # 0 => conns[ses[s].world].by = s
    /\ \A n \in Workers : Hands(n, s) =>
           /\ conns[workers[n].conn].by = s /\ workers[n].conn # ses[s].world
           /\ conns[workers[n].conn].server = workers[n].server
           /\ conns[workers[n].conn].char = workers[n].char
           /\ \A i \in 1..Len(safe[s]) : safe[s][i].conn # workers[n].conn
           /\ \A m \in Workers : Hands(m, s) /\ workers[m].conn = workers[n].conn => m = n
    /\ \A i \in 1..Len(safe[s]) :
           /\ conns[safe[s][i].conn].by = s /\ safe[s][i].conn # ses[s].world
           /\ conns[safe[s][i].conn].server = safe[s][i].server
           /\ \A j \in 1..Len(safe[s]) : safe[s][j].conn = safe[s][i].conn => j = i

\* Unless a goroutine was overtaken, there is one at most, for a session that
\* has no socket and waits for one, and it connects the session's character.
OneAtATime(s) ==
    /\ ses[s].world # 0 \/ OnScreen(s) \/ At(s, "select") \/ At(s, "connect") => Idle(s)
    /\ OnScreen(s) => \A k \in Conns : ~Plays(k, s)
    /\ ses[s].world # 0 => conns[ses[s].world].char = ses[s].char
    /\ \A n \in Workers : Works(n, s) =>
           /\ safe[s] = <<>> /\ workers[n].char = ses[s].char
           /\ \A m \in Workers : Works(m, s) => m = n
    /\ Len(safe[s]) <= 1
    /\ \A i \in 1..Len(safe[s]) : conns[safe[s][i].conn].char = ses[s].char

\* The gRPC client is the server of the socket, or of the one to come.
ClientFollows(s) ==
    /\ ses[s].world # 0 /\ ses[s].at \in {"loop", "announce", "prepare"} => conns[ses[s].world].server = ses[s].client
    /\ At(s, "connect") /\ ses[s].via \in {"login", "request"} => ses[s].server = ses[s].client
    /\ \A n \in Workers : Works(n, s) /\ workers[n].kind = "recover" /\ workers[n].at # "select" =>
           workers[n].server = ses[s].client
    /\ \A i \in 1..Len(safe[s]) : safe[s][i].kind = "recover" => safe[s][i].server = ses[s].client

\* A worldserver that has the player is the one the session, its goroutine or
\* its queue is connected to.
PlayersAreHeld(s) ==
    /\ At(s, "select") \/ At(s, "connect") => \A k \in Conns : ~Plays(k, s)
    /\ \A k \in Conns : Plays(k, s) =>
           \/ k = ses[s].world
           \/ \E n \in Workers : Hands(n, s) /\ workers[n].conn = k
           \/ \E i \in 1..Len(safe[s]) : safe[s][i].conn = k

\* Also of a session that ended: one worldserver at most has its player, none
\* while a goroutine still connects.
OnePlayer(s) ==
    /\ \A k, j \in Conns : Plays(k, s) /\ Plays(j, s) => k = j
    /\ \A n \in Workers : Works(n, s) /\ ~Hands(n, s) =>
           /\ \A k \in Conns : ~Plays(k, s)
           /\ \A m \in Workers : Works(m, s) /\ ~Hands(m, s) => m = n

InOrder(s) ==
    /\ ~At(s, "ended") =>
           /\ Holdings(s)
           /\ OnTime(s) => OneAtATime(s)
           /\ slips[s] = {} => ClientFollows(s)
           /\ slips[s] \cap {"late", "stranded"} = {} => PlayersAreHeld(s)
    /\ slips[s] \cap {"late", "stranded"} = {} => OnePlayer(s)

AllInOrder == \A s \in Sessions : InOrder(s)

-----------------------------------------------------------------------------
(* Free places. *)

\* A set of natural numbers that is not empty has a least one.
LEMMA LeastOfNats ==
  ASSUME NEW T, T \subseteq Nat, T # {}
  PROVE  \E x \in T : \A y \in T : ~(y < x)
<1> DEFINE R == OpToRel(<, Nat)
<1>1. IsWellFoundedOn(R, Nat)
  BY NatLessThanWellFounded
<1> HIDE DEF R
<1>2. PICK x \in T : \A y \in T : ~(<<y, x>> \in R)
  BY <1>1, WFMin
<1> QED BY <1>2 DEF R, OpToRel

\* A new connection takes a place no connection has.
LEMMA FreeConnIsFree ==
  ASSUME CanOpen
  PROVE  FreeConn \in Conns /\ conns[FreeConn] = NoConn
<1> DEFINE T == {k \in Conns : conns[k] = NoConn}
<1>1. T \subseteq Nat /\ T # {}
  BY DEF CanOpen, Conns
<1>2. PICK x \in T : \A y \in T : ~(y < x)
  BY <1>1, LeastOfNats
<1>3. \E k \in Conns : conns[k] = NoConn /\ \A j \in Conns : j < k => conns[j] # NoConn
  BY <1>2
<1> QED BY <1>3 DEF FreeConn

\* A new goroutine takes the place of none that runs.
LEMMA StartWorkerIsFree ==
  ASSUME CanStart, NEW r, StartWorker(r)
  PROVE  \E n \in Workers : workers[n] = NoWorker /\ workers' = [workers EXCEPT ![n] = r]
<1> DEFINE T == {i \in Workers : workers[i] = NoWorker}
           P(i) == workers[i] = NoWorker /\ \A j \in Workers : j < i => workers[j] # NoWorker
<1>1. T \subseteq Nat /\ T # {}
  BY DEF CanStart, Workers
<1>2. PICK x \in T : \A y \in T : ~(y < x)
  BY <1>1, LeastOfNats
<1>3. \E i \in Workers : P(i)
  BY <1>2
<1>4. (CHOOSE i \in Workers : P(i)) \in Workers /\ P(CHOOSE i \in Workers : P(i))
  BY <1>3
<1>5. workers' = [workers EXCEPT ![CHOOSE i \in Workers : P(i)] = r]
  BY DEF StartWorker
<1> QED BY <1>4, <1>5

-----------------------------------------------------------------------------
(* Type correctness. *)

\* The values a place in conns is given.
LEMMA ConnTypes ==
  /\ NoConn \in ConnType /\ NoConn.by = NoOne /\ ~NoConn.player /\ ~NoConn.open
  /\ \A s \in Sessions, c \in Characters \cup Nobody, w \in Worlds :
        /\ Open(s, c, w) \in ConnType
        /\ Open(s, c, w).by = s /\ Open(s, c, w).char = c /\ Open(s, c, w).server = w /\ Open(s, c, w).player
  /\ \A r \in ConnType :
        /\ Closed(r) \in ConnType /\ ~Closed(r).player
        /\ Closed(r).by = r.by /\ Closed(r).char = r.char /\ Closed(r).server = r.server
BY DEF NoConn, Open, Closed, ConnType, Nobody

-----------------------------------------------------------------------------
(* What a step leaves alone. *)

Invariant == TypeOK /\ Owners /\ AllInOrder

\* One session changes.
LEMMA UpdateSes ==
  ASSUME SesOK, NEW s \in Sessions, NEW r \in SessionType, SessionShape(r), ses' = [ses EXCEPT ![s] = r]
  PROVE  SesOK' /\ ses'[s] = r /\ \A t \in Sessions : t # s => ses'[t] = ses[t]
BY DEF SesOK

\* Events go where they went when no character and no channel changes hands.
LEMMA SameOwners ==
  ASSUME Owners, UNCHANGED <<registered, shared>>, \A t \in Sessions : events'[t] \subseteq events[t],
         \A t \in Sessions : ses'[t].char = ses[t].char /\ (At(t, "announce") => At(t, "announce")')
  PROVE  Owners'
BY DEF Owners, At

\* What a session, its goroutines and its queue hold are places in conns.
Held(t) ==
    /\ ses[t].world # 0 => ses[t].world \in Conns
    /\ \A i \in 1..Len(safe[t]) : safe[t][i].conn \in Conns
    /\ \A n \in Workers : Hands(n, t) => workers[n].conn \in Conns

\* They are: the type invariant says so.
LEMMA HeldAreConns ==
  ASSUME TypeOK, NEW t \in Sessions
  PROVE  Held(t)
<1>1. ses[t] \in SessionType /\ safe[t] \in Seq(HandoverType)
  BY DEF TypeOK, SesOK, RestOK
<1>2. \A i \in 1..Len(safe[t]) : safe[t][i] \in HandoverType
  BY <1>1
<1>3. ASSUME NEW n \in Workers, Hands(n, t) PROVE workers[n].conn \in Conns
  <2>1. t # NoOne
    BY GatewayAssumption
  <2> QED BY <1>3, <2>1 DEF TypeOK, WorkersOK, WorkerShape, Hands
<1> QED BY <1>1, <1>2, <1>3 DEF Held, SessionType, HandoverType

\* A session is in order when no step touches it, its goroutines, its queue
\* or its connections.
LEMMA Untouched ==
  ASSUME TypeOK, NEW t \in Sessions, InOrder(t),
         ses'[t] = ses[t], safe'[t] = safe[t], slips'[t] = slips[t],
         \A k \in Conns : conns'[k] = conns[k] \/ (conns[k].by # t /\ conns'[k].by # t),
         \A n \in Workers : workers'[n] = workers[n] \/ (workers[n].by # t /\ workers'[n].by # t)
  PROVE  InOrder(t)'
<1>0. Held(t)
  BY HeldAreConns
<1>1. \A n \in Workers : /\ Works(n, t)' <=> Works(n, t)
                         /\ Hands(n, t)' <=> Hands(n, t)
                         /\ Works(n, t) => workers'[n] = workers[n]
  BY DEF Works, Hands
<1>2. \A k \in Conns : /\ Plays(k, t)' <=> Plays(k, t)
                       /\ conns[k].by = t => conns'[k] = conns[k]
  BY DEF Plays
<1>3. ~At(t, "ended") /\ Holdings(t) => Holdings(t)'
  BY <1>0, <1>1, <1>2 DEF Held, Holdings, Works, Hands
<1>4. Holdings(t) /\ OneAtATime(t) => OneAtATime(t)'
  BY <1>0, <1>1, <1>2 DEF Held, OneAtATime, Holdings, Idle, OnScreen, At
<1>5. Holdings(t) /\ ClientFollows(t) => ClientFollows(t)'
  BY <1>0, <1>1, <1>2 DEF Held, ClientFollows, Holdings, At
<1>6. PlayersAreHeld(t) => PlayersAreHeld(t)'
  BY <1>1, <1>2 DEF PlayersAreHeld, At, Hands, Works
<1>7. OnePlayer(t) => OnePlayer(t)'
  BY <1>1, <1>2 DEF OnePlayer
<1>8. At(t, "ended")' <=> At(t, "ended")
  BY DEF At
<1>9. OnTime(t)' <=> OnTime(t)
  BY DEF OnTime
<1> QED BY <1>3, <1>4, <1>5, <1>6, <1>7, <1>8, <1>9 DEF InOrder

\* One session acts: the others are as they were when it touches no connection
\* and no goroutine of theirs.
LEMMA SessionActs ==
  ASSUME Invariant, RestOK', ConnsOK', WorkersOK', Owners',
         NEW s \in Sessions, NEW r \in SessionType, SessionShape(r), ses' = [ses EXCEPT ![s] = r],
         \A t \in Sessions : t # s => safe'[t] = safe[t] /\ slips'[t] = slips[t],
         \A k \in Conns : conns'[k] = conns[k] \/ (conns[k].by \in {s, NoOne} /\ conns'[k].by \in {s, NoOne}),
         \A n \in Workers : workers'[n] = workers[n] \/ (workers[n].by \in {s, NoOne} /\ workers'[n].by \in {s, NoOne}),
         InOrder(s)'
  PROVE  Invariant'
<1>1. SesOK' /\ ses'[s] = r /\ \A t \in Sessions : t # s => ses'[t] = ses[t]
  BY UpdateSes DEF Invariant, TypeOK
<1>2. ASSUME NEW t \in Sessions PROVE InOrder(t)'
  <2>1. CASE t = s
    BY <2>1
  <2>2. CASE t # s
    <3>1. t # NoOne
      BY GatewayAssumption
    <3>2. /\ ses'[t] = ses[t] /\ safe'[t] = safe[t] /\ slips'[t] = slips[t]
          /\ \A k \in Conns : conns'[k] = conns[k] \/ (conns[k].by # t /\ conns'[k].by # t)
          /\ \A n \in Workers : workers'[n] = workers[n] \/ (workers[n].by # t /\ workers'[n].by # t)
      BY <1>1, <2>2, <3>1
    <3>3. TypeOK /\ InOrder(t)
      BY DEF Invariant, AllInOrder
    <3> QED BY <3>2, <3>3, Untouched
  <2> QED BY <2>1, <2>2
<1> QED BY <1>1, <1>2 DEF Invariant, TypeOK, AllInOrder

\* A session acts on its own fields only and keeps its character and its
\* socket: what it may connect next and which client it calls is all there is
\* to look at.
LEMMA SessionOnly ==
  ASSUME Invariant, RestOK', Owners', NEW s \in Sessions, NEW r \in SessionType, SessionShape(r),
         ses' = [ses EXCEPT ![s] = r], ~At(s, "ended"), UNCHANGED <<conns, workers, safe>>,
         slips[s] \subseteq slips'[s], \A t \in Sessions : t # s => slips'[t] = slips[t],
         r.char = ses[s].char, r.world = ses[s].world, OnScreen(s)' => OnScreen(s),
         r.at \in {"select", "connect"} /\ OnTime(s)' => Idle(s),
         slips'[s] = {} => ClientFollows(s)',
         r.at \in {"select", "connect"} /\ slips'[s] \cap {"late", "stranded"} = {} => \A k \in Conns : ~Plays(k, s)
  PROVE  Invariant'
<1>1. SesOK' /\ ses'[s] = r
  BY UpdateSes DEF Invariant, TypeOK
<1>3. WorkersOK' /\ ConnsOK'
  BY DEF Invariant, TypeOK, WorkersOK, ConnsOK
<1>4. InOrder(s) /\ s # NoOne
  BY GatewayAssumption DEF Invariant, AllInOrder
<1>2. InOrder(s)'
  <2>0. /\ \A n \in Workers : /\ Works(n, s)' <=> Works(n, s)
                              /\ Hands(n, s)' <=> Hands(n, s)
        /\ \A k \in Conns : Plays(k, s)' <=> Plays(k, s)
        /\ Idle(s)' <=> Idle(s)
    BY DEF Works, Hands, Plays, Idle
  <2>1. Holdings(s) => Holdings(s)'
    BY <1>1, <2>0 DEF Holdings
  <2>2. OnTime(s)' /\ (OnTime(s) => OneAtATime(s)) => OneAtATime(s)'
    BY <1>1, <2>0 DEF OneAtATime, OnTime, OnScreen, At
  <2>3. slips'[s] \cap {"late", "stranded"} = {} /\ PlayersAreHeld(s) => PlayersAreHeld(s)'
    BY <1>1, <2>0 DEF PlayersAreHeld, At
  <2>4. OnePlayer(s) => OnePlayer(s)'
    BY <2>0 DEF OnePlayer
  <2> QED BY <1>4, <2>1, <2>2, <2>3, <2>4 DEF InOrder, OnTime
<1> QED BY <1>2, <1>3, SessionActs

-----------------------------------------------------------------------------
(* The invariant is kept: steps of a client and of its session that touch   *)
(* no connection.                                                           *)

\* What the invariant says of one session.
LEMMA OfSession ==
  ASSUME Invariant, NEW s \in Sessions
  PROVE  /\ ses[s] \in SessionType /\ SessionShape(ses[s]) /\ InOrder(s) /\ s # NoOne
         /\ ses[s].world # 0 => ses[s].world \in Conns /\ conns[ses[s].world] \in ConnType
         /\ Late(s) \subseteq {"late"}
         /\ slips[s] \subseteq {"late", "stranded", "battleground"}
         /\ safe[s] \in Seq(HandoverType) /\ Held(s) /\ 0 \notin Conns
<1>1. ses[s] \in SessionType /\ SessionShape(ses[s])
  BY DEF Invariant, TypeOK, SesOK
<1>2. Held(s) /\ 0 \notin Conns
  BY HeldAreConns DEF Invariant, Conns
<1> QED BY <1>1, <1>2, GatewayAssumption DEF Invariant, AllInOrder, TypeOK, ConnsOK, RestOK, SessionType, Late

\* The client a session calls is still right when neither it nor the socket changes.
LEMMA SameClient ==
  ASSUME NEW s \in Sessions, InOrder(s), ~At(s, "ended"), UNCHANGED <<conns, workers, safe>>,
         slips[s] \subseteq slips'[s], ses'[s].world = ses[s].world, ses'[s].client = ses[s].client,
         ses[s].world # 0 /\ ses'[s].at \in {"loop", "announce", "prepare"} => ses[s].at \in {"loop", "announce", "prepare"},
         ses'[s].at # "connect"
  PROVE  slips'[s] = {} => ClientFollows(s)'
BY DEF InOrder, ClientFollows, At, Works

\* A session that goes to a step at which it connects nothing, keeping all it has.
LEMMA QuietStep ==
  ASSUME Invariant, RestOK', NEW s \in Sessions, NEW r \in SessionType, SessionShape(r), ses' = [ses EXCEPT ![s] = r],
         ~At(s, "ended"), UNCHANGED <<conns, workers, safe, registered, events, shared>>,
         slips[s] \subseteq slips'[s], \A t \in Sessions : t # s => slips'[t] = slips[t],
         r.char = ses[s].char, r.world = ses[s].world, r.client = ses[s].client,
         r.at \notin {"select", "connect"}, At(s, "announce") => r.at = "announce",
         ~(r.at = "logout" /\ r.via = "none"),
         ses[s].world # 0 /\ r.at \in {"loop", "announce", "prepare"} => ses[s].at \in {"loop", "announce", "prepare"}
  PROVE  Invariant'
<1>1. ses'[s] = r /\ \A t \in Sessions : t # s => ses'[t] = ses[t]
  BY UpdateSes DEF Invariant, TypeOK
<1>2. Owners'
  BY <1>1, SameOwners DEF At, Invariant
<1>3. slips'[s] = {} => ClientFollows(s)'
  BY <1>1, OfSession, SameClient
<1>4. OnScreen(s)' => OnScreen(s)
  BY <1>1 DEF OnScreen, At
<1> QED BY <1>2, <1>3, <1>4, SessionOnly

\* A client that comes has nothing yet.
LEMMA KeepsAuthSession ==
  ASSUME Invariant, UNCHANGED visit, NEW s \in Sessions, AuthSession(s)
  PROVE  Invariant'
<1> DEFINE r == [ses[s] EXCEPT !.at = "loop"]
<1>0. ses[s] \in SessionType /\ SessionShape(ses[s])
  BY OfSession
<1>1. /\ ses' = [ses EXCEPT ![s] = r] /\ RestOK'
      /\ UNCHANGED <<conns, workers, safe, registered, events, slips, shared>> /\ ses[s].at = "offline"
  BY OfSession DEF AuthSession, Invariant, TypeOK, SesOK, RestOK, worldVars, historyVars, boundVars, At
<1>2. r \in SessionType
  BY <1>0 DEF SessionType
<1>3. SessionShape(r)
  BY <1>0, <1>1 DEF SessionType, SessionShape
<1>4. r.at = "loop" /\ r.char = ses[s].char /\ r.world = ses[s].world /\ r.client = ses[s].client /\ ses[s].world = 0
  BY <1>0, <1>1 DEF SessionType, SessionShape
<1> HIDE DEF r
<1> QED BY <1>1, <1>2, <1>3, <1>4, QuietStep DEF At

\* A client that leaves cancels a context and changes nothing else.
LEMMA KeepsClientLeaves ==
  ASSUME Invariant, UNCHANGED visit, NEW s \in Sessions, ClientLeaves(s)
  PROVE  Invariant'
<1>1. UNCHANGED <<ses, workers, safe, conns, up, registered, events, slips, shared, inputs, faults>> /\ gone' = gone \cup {s}
  BY DEF ClientLeaves, worldVars, historyVars, boundVars
<1>2. TypeOK'
  BY <1>1 DEF Invariant, TypeOK, SesOK, WorkersOK, ConnsOK, RestOK
<1>3. Owners'
  BY <1>1, SameOwners DEF Invariant, At
<1>4. ASSUME NEW t \in Sessions PROVE InOrder(t)'
  BY <1>1, Untouched DEF Invariant, AllInOrder
<1> QED BY <1>2, <1>3, <1>4 DEF Invariant, AllInOrder

\* A session that waits for ever keeps what it has.
LEMMA KeepsForwardToNobody ==
  ASSUME Invariant, UNCHANGED visit, NEW s \in Sessions, ForwardToNobody(s)
  PROVE  Invariant'
<1> DEFINE r == [ses[s] EXCEPT !.at = "stuck"]
<1>0. ses[s] \in SessionType /\ SessionShape(ses[s])
  BY OfSession
<1>1. /\ ses' = [ses EXCEPT ![s] = r] /\ RestOK'
      /\ UNCHANGED <<conns, workers, safe, registered, events, slips, shared>> /\ ses[s].at = "loop" /\ ses[s].world # 0
  BY OfSession DEF ForwardToNobody, Goto, Invariant, TypeOK, SesOK, RestOK, worldVars, historyVars, boundVars, At
<1>2. r \in SessionType
  BY <1>0 DEF SessionType
<1>3. SessionShape(r)
  BY <1>0, <1>1 DEF SessionType, SessionShape
<1>4. r.at = "stuck" /\ r.char = ses[s].char /\ r.world = ses[s].world /\ r.client = ses[s].client
  BY <1>0, <1>1 DEF SessionType, SessionShape
<1> HIDE DEF r
<1> QED BY <1>1, <1>2, <1>3, <1>4, QuietStep DEF At

\* A teleport begins.
LEMMA KeepsInterceptNewWorld ==
  ASSUME Invariant, UNCHANGED visit, NEW s \in Sessions, InterceptNewWorld(s)
  PROVE  Invariant'
<1> DEFINE r == [ses[s] EXCEPT !.teleport = TRUE]
<1>0. ses[s] \in SessionType /\ SessionShape(ses[s])
  BY OfSession
<1>1. /\ ses' = [ses EXCEPT ![s] = r] /\ RestOK'
      /\ UNCHANGED <<conns, workers, safe, registered, events, slips, shared>> /\ ses[s].at = "loop"
  BY OfSession DEF InterceptNewWorld, Input, Invariant, TypeOK, SesOK, RestOK, worldVars, historyVars, boundVars, At
<1>2. r \in SessionType
  BY <1>0 DEF SessionType
<1>3. SessionShape(r)
  BY <1>0, <1>1 DEF SessionType, SessionShape
<1>4. r.at = "loop" /\ r.char = ses[s].char /\ r.world = ses[s].world /\ r.client = ses[s].client
  BY <1>0, <1>1 DEF SessionType, SessionShape
<1> HIDE DEF r
<1> QED BY <1>1, <1>2, <1>3, <1>4, QuietStep DEF At

\* The broadcaster gets the channel of a session that is the only one with its character, or of a shared one.
LEMMA KeepsAnnounceLogin ==
  ASSUME Invariant, UNCHANGED visit, NEW s \in Sessions, AnnounceLogin(s)
  PROVE  Invariant'
<1> DEFINE r == [ses[s] EXCEPT !.at = "loop"]
<1>0. ses[s] \in SessionType /\ SessionShape(ses[s]) /\ InOrder(s)
  BY OfSession
<1>1. /\ ses' = [ses EXCEPT ![s] = r]
      /\ UNCHANGED <<visit, gone, workers, safe, conns, up, slips, shared, inputs, faults>>
      /\ registered' = [registered EXCEPT ![ses[s].char] = s] /\ events' = [events EXCEPT ![s] = {}]
      /\ ses[s].at = "announce"
  BY DEF AnnounceLogin, Goto, At, Invariant, TypeOK, SesOK, worldVars, historyVars, boundVars
<1>2. r \in SessionType
  BY <1>0 DEF SessionType
<1>3. SessionShape(r)
  BY <1>0, <1>1 DEF SessionType, SessionShape
<1>4. r.at = "loop" /\ r.char = ses[s].char /\ r.world = ses[s].world /\ r.client = ses[s].client
  BY <1>0 DEF SessionType
<1> HIDE DEF r
<1>5. ses'[s] = r /\ \A t \in Sessions : t # s => ses'[t] = ses[t]
  BY <1>1 DEF Invariant, TypeOK, SesOK
<1>6. RestOK'
  BY <1>1 DEF Invariant, TypeOK, RestOK
<1>7. Owners'
  <2>1. /\ Owners /\ registered \in [Characters -> Sessions \cup Nobody] /\ events \in [Sessions -> SUBSET Characters]
        /\ shared' = shared
    BY <1>1 DEF Invariant, TypeOK, RestOK
  <2> QED BY <1>1, <1>4, <1>5, <2>1 DEF Owners, At
<1>8. slips'[s] = {} => ClientFollows(s)'
  BY <1>0, <1>1, <1>4, <1>5 DEF ClientFollows, At, InOrder, Works
<1> QED BY <1>1, <1>2, <1>3, <1>4, <1>5, <1>6, <1>7, <1>8, SessionOnly DEF At, OnScreen

\* A login starts over: what goroutines of the character before still do makes it late.
LEMMA KeepsLogin ==
  ASSUME Invariant, UNCHANGED visit, NEW s \in Sessions, NEW c \in visit.characters, Login(s, c)
  PROVE  Invariant'
<1> DEFINE r == [ses[s] EXCEPT !.at = "select", !.via = "login", !.goal = c]
<1>0. ses[s] \in SessionType /\ SessionShape(ses[s]) /\ InOrder(s) /\ c \in Characters /\ s # NoOne
  BY OfSession, GatewayAssumption DEF Invariant, TypeOK, RestOK
<1>1. /\ ses' = [ses EXCEPT ![s] = r] /\ ses[s].at = "loop" /\ ses[s].char = NoOne /\ inputs' = inputs + 1
      /\ slips' = [slips EXCEPT ![s] = Late(s)]
      /\ UNCHANGED <<visit, gone, workers, safe, conns, up, registered, events, shared, faults>>
  BY DEF Login, Input, At, Invariant, TypeOK, SesOK, worldVars
<1>2. r \in SessionType
  BY <1>0 DEF SessionType
<1>3. SessionShape(r)
  BY <1>0, <1>1 DEF SessionType, SessionShape
<1>4. r.at = "select" /\ r.char = NoOne /\ r.world = 0 /\ ses[s].world = 0
  BY <1>0, <1>1 DEF SessionType, SessionShape
<1> HIDE DEF r
<1>5. ses'[s] = r /\ \A t \in Sessions : t # s => ses'[t] = ses[t]
  BY <1>1 DEF Invariant, TypeOK, SesOK
<1>6. RestOK' /\ WorkersOK' /\ ConnsOK' /\ slips'[s] = Late(s) /\ \A t \in Sessions : t # s => slips'[t] = slips[t]
  BY <1>1, OfSession DEF Invariant, TypeOK, RestOK, WorkersOK, ConnsOK
<1>7. Owners'
  BY <1>1, <1>4, <1>5, SameOwners DEF At, Invariant
<1>8. InOrder(s)'
  <2>1. Holdings(s)'
    BY <1>0, <1>1, <1>4, <1>5 DEF InOrder, At, Holdings, Hands
  <2>2. ASSUME OnTime(s)' PROVE Idle(s)' /\ \A k \in Conns : ~Plays(k, s)'
    <3>1. ~Reconnecting(s)
      BY <1>6, <2>2 DEF OnTime, Late
    <3>2. \A k \in Conns : k # 0
      BY DEF Conns
    <3> QED BY <1>1, <1>4, <3>1, <3>2 DEF Reconnecting, Idle, Works, Plays
  <2>3. OnTime(s)' => OneAtATime(s)'
    BY <1>4, <1>5, <2>2 DEF OneAtATime, Idle
  <2>4. slips'[s] = {} => ClientFollows(s)'
    BY <1>4, <1>5, <2>2 DEF ClientFollows, Idle, OnTime, At
  <2>5. OnTime(s)' => PlayersAreHeld(s)' /\ OnePlayer(s)'
    BY <2>2 DEF PlayersAreHeld, OnePlayer, Idle
  <2> QED BY <2>1, <2>3, <2>4, <2>5 DEF InOrder, OnTime
<1> QED BY <1>1, <1>2, <1>3, <1>6, <1>7, <1>8, SessionActs

\* A teleport stays or prepares for another worldserver; the client called is the same until then.
LEMMA KeepsInterceptMoveWorldPortAck ==
  ASSUME Invariant, UNCHANGED visit, NEW s \in Sessions, InterceptMoveWorldPortAck(s)
  PROVE  Invariant'
<1>0. ses[s] \in SessionType /\ SessionShape(ses[s]) /\ InOrder(s)
  BY OfSession
<1>1. /\ ses[s].at = "loop" /\ ses[s].world # 0 /\ faults' \in Nat
      /\ UNCHANGED <<visit, gone, workers, safe, conns, up, registered, events, slips, shared, inputs>>
  BY DEF InterceptMoveWorldPortAck, Fault, At, worldVars, historyVars, Invariant, TypeOK, RestOK
<1>2. RestOK'
  BY <1>1 DEF Invariant, TypeOK, RestOK
<1>3. ASSUME NEW r \in SessionType, SessionShape(r), ses' = [ses EXCEPT ![s] = r], r.at \in {"loop", "prepare"},
             r.char = ses[s].char, r.world = ses[s].world, r.client = ses[s].client
      PROVE  Invariant'
  BY <1>1, <1>2, <1>3, QuietStep DEF At
<1>4. CASE ses' = [ses EXCEPT ![s].teleport = FALSE]
  <2> DEFINE r == [ses[s] EXCEPT !.teleport = FALSE]
  <2>1. r \in SessionType /\ ses' = [ses EXCEPT ![s] = r]
    BY <1>0, <1>4 DEF SessionType, Invariant, TypeOK, SesOK
  <2>2. SessionShape(r) /\ r.at = "loop" /\ r.char = ses[s].char /\ r.world = ses[s].world /\ r.client = ses[s].client
    BY <1>0, <1>1 DEF SessionType, SessionShape
  <2> QED BY <1>3, <2>1, <2>2
<1>5. ASSUME NEW w \in up,
             ses' = [ses EXCEPT ![s].teleport = FALSE, ![s].at = "prepare", ![s].via = "teleport",
                                ![s].goal = ses[s].char, ![s].server = w]
      PROVE  Invariant'
  <2> DEFINE r == [ses[s] EXCEPT !.teleport = FALSE, !.at = "prepare", !.via = "teleport",
                                 !.goal = ses[s].char, !.server = w]
  <2>1. w \in Worlds /\ ses' = [ses EXCEPT ![s] = r]
    BY <1>5 DEF Invariant, TypeOK, RestOK, SesOK
  <2>2. r \in SessionType
    BY <1>0, <2>1 DEF SessionType
  <2>3. SessionShape(r) /\ r.at = "prepare" /\ r.char = ses[s].char /\ r.world = ses[s].world /\ r.client = ses[s].client
    BY <1>0, <1>1, <2>1 DEF SessionType, SessionShape, Nobody
  <2> QED BY <1>3, <2>1, <2>2, <2>3
<1> QED BY <1>4, <1>5 DEF InterceptMoveWorldPortAck

\* A change of layer takes over the gRPC client: at once without a socket, with no goroutine about unless it is late.
LEMMA KeepsSwitchLayer ==
  ASSUME Invariant, UNCHANGED visit, NEW s \in Sessions, NEW w \in Worlds, SwitchLayer(s, w)
  PROVE  Invariant'
<1>0. ses[s] \in SessionType /\ SessionShape(ses[s]) /\ InOrder(s) /\ s # NoOne
  BY OfSession
<1>1. /\ ses[s].at = "loop" /\ ses[s].char # NoOne /\ RestOK'
      /\ UNCHANGED <<conns, workers, safe, registered, events, shared>>
      /\ slips'[s] = slips[s] \cup Late(s) /\ \A t \in Sessions : t # s => slips'[t] = slips[t]
  BY OfSession DEF SwitchLayer, Input, Slip, Invariant, TypeOK, RestOK, worldVars, At
<1>2. CASE ses[s].world # 0
  <2> DEFINE r == [ses[s] EXCEPT !.at = "prepare", !.via = "layer", !.goal = ses[s].char, !.server = w]
  <2>1. r \in SessionType /\ ses' = [ses EXCEPT ![s] = r]
    BY <1>0, <1>2 DEF SwitchLayer, SessionType, Invariant, TypeOK, SesOK
  <2>2. SessionShape(r) /\ r.at = "prepare" /\ r.char = ses[s].char /\ r.world = ses[s].world /\ r.client = ses[s].client
    BY <1>0, <1>1, <1>2 DEF SessionType, SessionShape, Nobody
  <2> HIDE DEF r
  <2> QED BY <1>1, <2>1, <2>2, QuietStep DEF At
<1>3. CASE ses[s].world = 0
  <2> DEFINE r == [ses[s] EXCEPT !.client = w, !.current = w]
  <2>1. r \in SessionType /\ ses' = [ses EXCEPT ![s] = r]
    BY <1>0, <1>3 DEF SwitchLayer, SessionType, Invariant, TypeOK, SesOK
  <2>2. SessionShape(r) /\ r.at = "loop" /\ r.char = ses[s].char /\ r.world = 0
    BY <1>0, <1>1, <1>3 DEF SessionType, SessionShape
  <2> HIDE DEF r
  <2>3. ses'[s] = r /\ \A t \in Sessions : t # s => ses'[t] = ses[t]
    BY <2>1, <2>2, UpdateSes DEF Invariant, TypeOK
  <2>4. Owners'
    BY <1>1, <2>2, <2>3, SameOwners DEF At, Invariant
  <2>5. slips'[s] = {} => Idle(s)
    BY <1>1 DEF Late, Reconnecting, Idle, Works
  <2>6. slips'[s] = {} => ClientFollows(s)'
    BY <1>1, <2>2, <2>3, <2>5 DEF ClientFollows, Idle, Works, At
  <2> QED BY <1>1, <1>3, <2>1, <2>2, <2>3, <2>4, <2>6, SessionOnly DEF At, OnScreen
<1> QED BY <1>2, <1>3

\* The end of the gateway: no session, goroutine, channel or connection is left.
LEMMA KeepsEndGateway ==
  ASSUME Invariant, EndGateway, UNCHANGED <<visit, up, slips, shared>>, inputs' \in Nat, faults' \in Nat
  PROVE  Invariant'
<1>1. /\ \A s \in Sessions : ses'[s] = Ended \/ (ses'[s] = ses[s] /\ At(s, "offline"))
      /\ safe' = [s \in Sessions |-> <<>>] /\ registered' = [c \in Characters |-> NoOne] /\ events' = [s \in Sessions |-> {}]
      /\ workers' = [n \in Workers |-> NoWorker] /\ conns' = [k \in Conns |-> NoConn]
  BY DEF EndGateway
<1>2. Ended \in SessionType /\ SessionShape(Ended) /\ Ended.char = NoOne /\ Ended.at = "ended"
  BY DEF Ended, NoSession, SessionType, SessionShape, Nobody
<1>3. SesOK'
  BY <1>1, <1>2 DEF Invariant, TypeOK, SesOK, EndGateway
<1>4. WorkersOK' /\ ConnsOK'
  BY <1>1, ConnTypes DEF WorkersOK, ConnsOK, WorkerType, WorkerShape, NoWorker, Nobody
<1>5. RestOK'
  <2>1. gone' \subseteq Sessions
    BY DEF EndGateway, Invariant, TypeOK, RestOK
  <2>2. /\ safe' \in [Sessions -> Seq(HandoverType)] /\ registered' \in [Characters -> Sessions \cup Nobody]
        /\ events' \in [Sessions -> SUBSET Characters]
    BY <1>1 DEF Nobody
  <2> QED BY <2>1, <2>2 DEF Invariant, TypeOK, RestOK
<1>6. \A s \in Sessions : ses'[s].char = NoOne /\ ses'[s].world = 0 /\ ses'[s].at \in {"offline", "ended"}
  BY <1>1, <1>2, <1>3 DEF SesOK, SessionShape, At, Invariant, TypeOK
<1>7. Owners'
  BY <1>1, <1>6, GatewayAssumption DEF Owners
<1>8. ASSUME NEW s \in Sessions PROVE InOrder(s)'
  <2>0. s # NoOne
    BY GatewayAssumption
  <2>1. Idle(s)' /\ \A k \in Conns : ~Plays(k, s)'
    BY <1>1, <2>0 DEF Idle, Works, Plays, NoWorker, NoConn
  <2>2. Holdings(s)' /\ OneAtATime(s)' /\ ClientFollows(s)' /\ PlayersAreHeld(s)' /\ OnePlayer(s)'
    BY <1>6, <2>1 DEF Holdings, OneAtATime, ClientFollows, PlayersAreHeld, OnePlayer, Idle, Works, Hands, At
  <2> QED BY <2>2 DEF InOrder
<1> QED BY <1>3, <1>4, <1>5, <1>7, <1>8 DEF Invariant, TypeOK, AllInOrder

\* A battleground is entered, or the gateway dies of the socket that is not there.
LEMMA KeepsEnterBattleground ==
  ASSUME Invariant, UNCHANGED visit, NEW s \in Sessions, NEW w \in Worlds, EnterBattleground(s, w)
  PROVE  Invariant'
<1>0. ses[s] \in SessionType /\ SessionShape(ses[s])
  BY OfSession
<1>1. CASE ses[s].world = 0
  BY <1>1, KeepsEndGateway DEF EnterBattleground, Panic, Input, historyVars, Invariant, TypeOK, RestOK
<1>2. CASE ses[s].world # 0
  <2> DEFINE r == [ses[s] EXCEPT !.at = "prepare", !.via = "battleground", !.goal = ses[s].char, !.server = w]
  <2>0. RestOK'
    BY <1>2 DEF EnterBattleground, Input, Invariant, TypeOK, RestOK, worldVars, historyVars
  <2>1. r \in SessionType /\ ses' = [ses EXCEPT ![s] = r]
    BY <1>0, <1>2 DEF EnterBattleground, SessionType, Invariant, TypeOK, SesOK
  <2>2. SessionShape(r) /\ r.at = "prepare" /\ r.char = ses[s].char /\ r.world = ses[s].world /\ r.client = ses[s].client
    BY <1>0, <1>2 DEF EnterBattleground, SessionType, SessionShape, Nobody, At
  <2> HIDE DEF r
  <2> QED BY <1>2, <2>0, <2>1, <2>2, QuietStep DEF EnterBattleground, At, worldVars, historyVars
<1> QED BY <1>1, <1>2

\* A session that ends, its character logged out: only its connections are left.
LEMMA SessionEnds ==
  ASSUME Invariant, RestOK', NEW s \in Sessions, ses' = [ses EXCEPT ![s] = Ended], Forget(s),
         UNCHANGED <<workers, safe, slips>>, Owners'
  PROVE  Invariant'
<1>1. Ended \in SessionType /\ SessionShape(Ended) /\ Ended.char = NoOne /\ Ended.at = "ended"
  BY DEF Ended, NoSession, SessionType, SessionShape, Nobody
<1>2. ses'[s] = Ended
  BY DEF Invariant, TypeOK, SesOK
<1>3. \A k \in Conns : conns'[k] = conns[k] \/ (conns[k].by = s /\ conns'[k] = NoConn)
  BY DEF Forget
<1>4. ConnsOK' /\ WorkersOK'
  <2>1. conns' \in [Conns -> ConnType]
    BY ConnTypes DEF Forget, Invariant, TypeOK, ConnsOK
  <2> QED BY <1>3, <2>1, ConnTypes DEF Invariant, TypeOK, ConnsOK, WorkersOK
<1>5. \A k \in Conns : Plays(k, s)' => Plays(k, s)
  BY <1>3, ConnTypes DEF Plays
<1>6. OnePlayer(s) => OnePlayer(s)'
  BY <1>5 DEF OnePlayer, Works, Hands
<1>7. InOrder(s)'
  BY <1>1, <1>2, <1>6, OfSession DEF InOrder, At
<1>8. \A k \in Conns : conns'[k] = conns[k] \/ (conns[k].by \in {s, NoOne} /\ conns'[k].by \in {s, NoOne})
  BY <1>3, ConnTypes
<1> QED BY <1>1, <1>4, <1>7, <1>8, SessionActs

\* The session ends, its character to be logged out first.
LEMMA KeepsHandlePacketsEnds ==
  ASSUME Invariant, UNCHANGED visit, NEW s \in Sessions, HandlePacketsEnds(s)
  PROVE  Invariant'
<1>0. ses[s] \in SessionType /\ SessionShape(ses[s])
  BY OfSession
<1>1. /\ UNCHANGED <<visit, gone, up, workers, safe, registered, slips, shared, inputs, faults>> /\ ses[s].at = "loop"
      /\ events' = [events EXCEPT ![s] = {}] \/ UNCHANGED events
  BY DEF HandlePacketsEnds, Unread, historyVars, boundVars, At
<1>4. RestOK' /\ \A t \in Sessions : events'[t] \subseteq events[t]
  BY <1>1 DEF Invariant, TypeOK, RestOK
<1>2. CASE ses[s].char = NoOne
  <2>1. ses' = [ses EXCEPT ![s] = Ended] /\ Forget(s)
    BY <1>2 DEF HandlePacketsEnds
  <2>2. ses'[s].char = NoOne /\ \A t \in Sessions : t # s => ses'[t] = ses[t]
    BY <2>1 DEF Invariant, TypeOK, SesOK, Ended, NoSession
  <2>3. Owners'
    BY <1>1, <1>2, <1>4, <2>2, SameOwners DEF Invariant, At
  <2> QED BY <1>1, <1>4, <2>1, <2>3, SessionEnds
<1>3. CASE ses[s].char # NoOne
  <2> DEFINE r == [ses[s] EXCEPT !.at = "logout", !.via = "end"]
  <2>1. r \in SessionType /\ ses' = [ses EXCEPT ![s] = r] /\ UNCHANGED <<conns, events>>
    BY <1>0, <1>3 DEF HandlePacketsEnds, SessionType, Invariant, TypeOK, SesOK
  <2>2. SessionShape(r) /\ r.at = "logout" /\ r.via = "end" /\ r.char = ses[s].char /\ r.world = ses[s].world /\ r.client = ses[s].client
    BY <1>0, <1>1, <1>3 DEF SessionType, SessionShape
  <2> HIDE DEF r
  <2> QED BY <1>1, <1>4, <2>1, <2>2, QuietStep DEF At
<1> QED BY <1>2, <1>3

\* The channel is taken from the broadcaster before the session loses its character.
LEMMA KeepsOnLoggedOut ==
  ASSUME Invariant, UNCHANGED visit, NEW s \in Sessions, OnLoggedOut(s)
  PROVE  Invariant'
<1>0. /\ ses[s] \in SessionType /\ SessionShape(ses[s]) /\ InOrder(s) /\ s # NoOne
      /\ ses[s].at = "logout" /\ ses[s].char \in Characters
  BY OfSession DEF OnLoggedOut, At, SessionType, SessionShape, Nobody
<1>1. /\ UNCHANGED <<visit, gone, workers, safe, up, slips, shared, inputs, faults>>
      /\ registered' = [registered EXCEPT ![ses[s].char] = NoOne]
      /\ events' = [events EXCEPT ![s] = {}] \/ UNCHANGED events
  BY DEF OnLoggedOut, Unread, historyVars, boundVars
<1>2. RestOK' /\ \A t \in Sessions : events'[t] \subseteq events[t]
  BY <1>1 DEF Invariant, TypeOK, RestOK, Nobody
<1>3. ASSUME ses'[s].char = NoOne, \A t \in Sessions : t # s => ses'[t] = ses[t]
      PROVE  Owners'
  <2>1. /\ registered \in [Characters -> Sessions \cup Nobody] /\ Owners /\ \A t \in Sessions : t # NoOne
        /\ NoOne \notin Characters
    BY GatewayAssumption DEF Invariant, TypeOK, RestOK
  <2> QED BY <1>0, <1>1, <1>2, <1>3, <2>1 DEF Owners, At
<1>4. CASE ses[s].via = "end"
  <2>1. ses' = [ses EXCEPT ![s] = Ended] /\ Forget(s)
    BY <1>4 DEF OnLoggedOut
  <2>2. ses'[s].char = NoOne /\ \A t \in Sessions : t # s => ses'[t] = ses[t]
    BY <2>1 DEF Invariant, TypeOK, SesOK, Ended, NoSession
  <2> QED BY <1>1, <1>2, <1>3, <2>1, <2>2, SessionEnds
<1>5. CASE ses[s].via # "end"
  <2> DEFINE r == [ses[s] EXCEPT !.at = "loop", !.char = NoOne, !.current = NoOne]
  <2>1. r \in SessionType /\ ses' = [ses EXCEPT ![s] = r] /\ UNCHANGED conns
    BY <1>0, <1>5 DEF OnLoggedOut, SessionType, Invariant, TypeOK, SesOK, Nobody
  <2>2. SessionShape(r) /\ r.at = "loop" /\ r.char = NoOne /\ r.world = 0 /\ ses[s].world = 0
    BY <1>0, <1>5 DEF SessionType, SessionShape
  <2> HIDE DEF r
  <2>3. ses'[s] = r /\ \A t \in Sessions : t # s => ses'[t] = ses[t]
    BY <2>1, <2>2, UpdateSes DEF Invariant, TypeOK
  <2>4. ConnsOK' /\ WorkersOK' /\ Owners'
    BY <1>1, <1>3, <2>1, <2>2, <2>3 DEF Invariant, TypeOK, ConnsOK, WorkersOK
  <2>5. InOrder(s)'
    <3>0. /\ \A n \in Workers : /\ Works(n, s)' <=> Works(n, s)
                                /\ Hands(n, s)' <=> Hands(n, s)
          /\ \A k \in Conns : Plays(k, s)' <=> Plays(k, s)
          /\ Idle(s)' <=> Idle(s)
          /\ OnTime(s)' <=> OnTime(s)
          /\ ~At(s, "ended") /\ OnScreen(s)
      BY <1>0, <1>1, <1>5, <2>1 DEF Works, Hands, Plays, Idle, OnTime, OnScreen, At, SessionShape
    <3>1. Holdings(s) => Holdings(s)'
      BY <1>1, <2>1, <2>2, <2>3, <3>0 DEF Holdings
    <3>2. OneAtATime(s) => OneAtATime(s)' /\ Idle(s)' /\ \A k \in Conns : ~Plays(k, s)'
      BY <1>1, <2>1, <2>2, <2>3, <3>0 DEF OneAtATime, Idle
    <3>3. Idle(s)' => ClientFollows(s)'
      BY <2>2, <2>3 DEF ClientFollows, Idle, At
    <3>4. (\A k \in Conns : ~Plays(k, s)') => PlayersAreHeld(s)'
      BY DEF PlayersAreHeld
    <3>5. OnePlayer(s) => OnePlayer(s)'
      BY <3>0 DEF OnePlayer
    <3> QED BY <1>0, <1>1, <3>0, <3>1, <3>2, <3>3, <3>4, <3>5 DEF InOrder, OnTime
  <2> QED BY <1>1, <1>2, <2>1, <2>2, <2>4, <2>5, SessionActs
<1> QED BY <1>4, <1>5

-----------------------------------------------------------------------------
(* The invariant is kept: steps that select a worldserver, open, close or   *)
(* replace a connection.                                                    *)

\* What a refused handler leaves of its session.
LEMMA RefusedSession ==
  ASSUME Invariant, NEW s \in Sessions, ses[s].at \in {"select", "connect"}, Refused(s)
  PROVE  \E r \in SessionType :
            /\ ses' = [ses EXCEPT ![s] = r] /\ ses'[s] = r /\ \A t \in Sessions : t # s => ses'[t] = ses[t]
            /\ SessionShape(r) /\ r.at = "loop" /\ r.char = ses[s].char /\ r.world = ses[s].world
            /\ slips[s] \subseteq slips'[s] /\ slips'[s] \subseteq {"late", "stranded", "battleground"}
            /\ ses[s].via # "login" => "stranded" \in slips'[s]
            /\ slips' \in [Sessions -> SUBSET {"late", "stranded", "battleground"}]
            /\ \A t \in Sessions : t # s => slips'[t] = slips[t]
<1> DEFINE told == ses[s].told \/ ses[s].via = "login"
           r == [ses[s] EXCEPT !.at = "loop", !.via = "none", !.goal = NoOne, !.server = NoOne, !.told = told]
<1>0. ses[s] \in SessionType /\ SessionShape(ses[s])
  BY OfSession
<1>1. told \in BOOLEAN
  OBVIOUS
<1>2. ses' = [ses EXCEPT ![s] = r]
  BY DEF Refused, Invariant, TypeOK, SesOK
<1> HIDE DEF told
<1>3. r \in SessionType
  BY <1>0, <1>1 DEF SessionType, Nobody
<1>4. SessionShape(r) /\ r.at = "loop" /\ r.char = ses[s].char /\ r.world = ses[s].world
  BY <1>0 DEF SessionType, SessionShape
<1> HIDE DEF r
<1>5. ses'[s] = r /\ \A t \in Sessions : t # s => ses'[t] = ses[t]
  BY <1>2, <1>3, <1>4, UpdateSes DEF Invariant, TypeOK
<1>6. slips' = [slips EXCEPT ![s] = @ \cup (IF ses[s].via = "login" THEN {} ELSE {"stranded"})]
  BY DEF Refused, Slip
<1>7. /\ slips[s] \subseteq slips'[s] /\ slips'[s] \subseteq {"late", "stranded", "battleground"}
      /\ ses[s].via # "login" => "stranded" \in slips'[s]
      /\ slips' \in [Sessions -> SUBSET {"late", "stranded", "battleground"}]
      /\ \A t \in Sessions : t # s => slips'[t] = slips[t]
  BY <1>6 DEF Invariant, TypeOK, RestOK
<1> QED BY <1>2, <1>3, <1>4, <1>5, <1>7

\* A handler that is refused before it has opened a connection.
LEMMA KeepsRefused ==
  ASSUME Invariant, NEW s \in Sessions, ses[s].at \in {"select", "connect"}, Refused(s), faults' \in Nat,
         UNCHANGED <<visit, gone, workers, safe, conns, up, registered, events, shared, inputs>>
  PROVE  Invariant'
<1>0. ses[s] \in SessionType /\ SessionShape(ses[s]) /\ InOrder(s)
  BY OfSession
<1>1. PICK r \in SessionType :
            /\ ses' = [ses EXCEPT ![s] = r] /\ ses'[s] = r /\ \A t \in Sessions : t # s => ses'[t] = ses[t]
            /\ SessionShape(r) /\ r.at = "loop" /\ r.char = ses[s].char /\ r.world = ses[s].world
            /\ slips[s] \subseteq slips'[s] /\ slips'[s] \subseteq {"late", "stranded", "battleground"}
            /\ ses[s].via # "login" => "stranded" \in slips'[s]
            /\ slips' \in [Sessions -> SUBSET {"late", "stranded", "battleground"}]
            /\ \A t \in Sessions : t # s => slips'[t] = slips[t]
  BY RefusedSession
<1>2. OnTime(s) => Idle(s)
  BY <1>0 DEF InOrder, OneAtATime, At
<1>3. Owners'
  BY <1>1, SameOwners DEF At, Invariant
<1>4. RestOK'
  BY <1>1 DEF Invariant, TypeOK, RestOK
<1>5. slips'[s] = {} => ClientFollows(s)'
  BY <1>0, <1>1, <1>2 DEF ClientFollows, Idle, Works, At, OnTime, SessionShape
<1>6. OnScreen(s)' => OnScreen(s)
  BY <1>1 DEF OnScreen, At
<1> QED BY <1>1, <1>3, <1>4, <1>5, <1>6, SessionOnly DEF At

\* The client selected is the server to be connected: no goroutine selects another one unless the session is late.
LEMMA KeepsSelectGameServer ==
  ASSUME Invariant, UNCHANGED visit, NEW s \in Sessions, SelectGameServer(s)
  PROVE  Invariant'
<1>0. ses[s] \in SessionType /\ SessionShape(ses[s]) /\ InOrder(s) /\ ses[s].at = "select"
  BY OfSession DEF SelectGameServer, At
<1>1. UNCHANGED <<visit, gone, workers, safe, conns, up, registered, events, shared, inputs>> /\ faults' \in Nat
  <2>1. UNCHANGED <<visit, gone, workers, safe, conns, up, registered, events, shared, inputs>> /\ (UNCHANGED faults \/ Fault)
    BY DEF SelectGameServer, worldVars
  <2> QED BY <2>1 DEF Fault, Invariant, TypeOK, RestOK
<1>2. OnTime(s) => Idle(s)
  BY <1>0 DEF InOrder, OneAtATime, At
<1>3. slips[s] \cap {"late", "stranded"} = {} => \A k \in Conns : ~Plays(k, s)
  BY <1>0 DEF InOrder, PlayersAreHeld, At
<1>4. ASSUME NEW w \in up, UNCHANGED slips,
             ses' = [ses EXCEPT ![s].at = "connect", ![s].server = w, ![s].client = w]
      PROVE  Invariant'
  <2> DEFINE r == [ses[s] EXCEPT !.at = "connect", !.server = w, !.client = w]
  <2>1. w \in Worlds /\ ses' = [ses EXCEPT ![s] = r] /\ RestOK'
    BY <1>1, <1>4 DEF Invariant, TypeOK, SesOK, RestOK
  <2>2. r \in SessionType
    BY <1>0, <2>1 DEF SessionType
  <2>3. /\ SessionShape(r) /\ r.at = "connect" /\ r.char = ses[s].char /\ r.world = ses[s].world
        /\ r.client = w /\ r.server = w
    BY <1>0, <2>1 DEF SessionType, SessionShape
  <2> HIDE DEF r
  <2>4. ses'[s] = r /\ \A t \in Sessions : t # s => ses'[t] = ses[t]
    BY <2>1, <2>2, <2>3, UpdateSes DEF Invariant, TypeOK
  <2>5. Owners'
    BY <1>0, <1>1, <2>3, <2>4, SameOwners DEF At, Invariant
  <2>6. slips'[s] = {} => ClientFollows(s)'
    BY <1>1, <1>2, <1>4, <2>3, <2>4 DEF ClientFollows, Idle, Works, At, OnTime
  <2>7. (OnScreen(s)' => OnScreen(s)) /\ (OnTime(s)' <=> OnTime(s))
    BY <1>4, <2>3, <2>4 DEF OnScreen, At, OnTime
  <2> QED BY <1>0, <1>1, <1>2, <1>3, <1>4, <2>1, <2>2, <2>3, <2>5, <2>6, <2>7, SessionOnly DEF At
<1>5. CASE Refused(s)
  BY <1>0, <1>1, <1>5, KeepsRefused
<1> QED BY <1>4, <1>5 DEF SelectGameServer

\* A logout gives up the socket; a goroutine or a connection beside it makes it late.
LEMMA KeepsCharactersList ==
  ASSUME Invariant, UNCHANGED visit, NEW s \in Sessions, CharactersList(s)
  PROVE  Invariant'
<1> DEFINE r == [ses[s] EXCEPT !.at = "logout", !.world = 0]
<1>0. /\ ses[s] \in SessionType /\ SessionShape(ses[s]) /\ InOrder(s) /\ s # NoOne
      /\ ses[s].at = "loop" /\ ses[s].char # NoOne /\ Held(s) /\ 0 \notin Conns
  BY OfSession DEF CharactersList, At
<1>1. /\ ses' = [ses EXCEPT ![s] = r]
      /\ UNCHANGED <<visit, gone, workers, safe, up, registered, events, shared, faults>>
      /\ inputs' = inputs + 1 /\ slips' = [slips EXCEPT ![s] = @ \cup Late(s)]
  BY DEF CharactersList, Input, Slip, Invariant, TypeOK, SesOK
<1>2. r \in SessionType
  BY <1>0 DEF SessionType
<1>3. /\ SessionShape(r) /\ r.at = "logout" /\ r.via = "none" /\ r.char = ses[s].char /\ r.world = 0
  BY <1>0 DEF SessionType, SessionShape
<1> HIDE DEF r
<1>4. ses'[s] = r /\ \A t \in Sessions : t # s => ses'[t] = ses[t]
  BY <1>1, <1>2, <1>3, UpdateSes DEF Invariant, TypeOK
<1>5. Owners'
  BY <1>0, <1>1, <1>3, <1>4, SameOwners DEF At, Invariant
<1>6. /\ RestOK' /\ slips'[s] = slips[s] \cup Late(s) /\ \A t \in Sessions : t # s => slips'[t] = slips[t]
  BY <1>1, OfSession DEF Invariant, TypeOK, RestOK
<1>7. \A k \in Conns : conns'[k] = IF k = ses[s].world THEN NoConn ELSE conns[k]
  BY <1>0 DEF CharactersList, Close, Invariant, TypeOK, ConnsOK
<1>8. ConnsOK' /\ WorkersOK'
  <2>1. conns' \in [Conns -> ConnType]
    BY ConnTypes DEF CharactersList, Close, Invariant, TypeOK, ConnsOK
  <2> QED BY <1>1, <1>7, <2>1, ConnTypes DEF Invariant, TypeOK, ConnsOK, WorkersOK
<1>9. InOrder(s)'
  <2>1. Holdings(s)'
    BY <1>0, <1>1, <1>3, <1>4, <1>7 DEF InOrder, Holdings, Hands, Held, At
  <2>2. ASSUME OnTime(s)' PROVE Idle(s)' /\ \A k \in Conns : ~Plays(k, s)'
    <3>1. ~Reconnecting(s)
      BY <1>6, <2>2 DEF OnTime, Late
    <3> QED BY <1>1, <1>4, <1>7, <3>1, ConnTypes DEF Reconnecting, Idle, Works, Plays
  <2>3. OnTime(s)' => OneAtATime(s)'
    BY <1>3, <1>4, <2>2 DEF OneAtATime, Idle
  <2>4. slips'[s] = {} => ClientFollows(s)'
    BY <1>3, <1>4, <2>2 DEF ClientFollows, Idle, OnTime, At
  <2>5. OnTime(s)' => PlayersAreHeld(s)' /\ OnePlayer(s)'
    BY <2>2 DEF PlayersAreHeld, OnePlayer, Idle
  <2> QED BY <2>1, <2>3, <2>4, <2>5 DEF InOrder, OnTime
<1>10. \A k \in Conns : conns'[k] = conns[k] \/ (conns[k].by \in {s, NoOne} /\ conns'[k].by \in {s, NoOne})
  BY <1>0, <1>7, ConnTypes DEF InOrder, Holdings, At
<1> QED BY <1>1, <1>2, <1>3, <1>5, <1>6, <1>8, <1>9, <1>10, SessionActs

\* The worldserver gives up the player before the session connects elsewhere.
LEMMA KeepsHandleReadyForRedirectRequest ==
  ASSUME Invariant, UNCHANGED visit, NEW s \in Sessions, HandleReadyForRedirectRequest(s)
  PROVE  Invariant'
<1> DEFINE r == [ses[s] EXCEPT !.at = "select", !.via = "request", !.goal = ses[s].char]
           k0 == ses[s].world
<1>0. /\ ses[s] \in SessionType /\ SessionShape(ses[s]) /\ InOrder(s) /\ s # NoOne
      /\ ses[s].at = "loop" /\ k0 \in Conns /\ conns[k0] \in ConnType /\ conns[k0].by = s /\ Held(s) /\ 0 \notin Conns
  BY OfSession DEF HandleReadyForRedirectRequest, At, InOrder, Holdings
<1>1. /\ ses' = [ses EXCEPT ![s] = r]
      /\ UNCHANGED <<visit, gone, workers, safe, up, registered, events, shared, faults>>
      /\ inputs' = inputs + 1 /\ slips' = [slips EXCEPT ![s] = @ \cup Late(s)]
  BY DEF HandleReadyForRedirectRequest, Input, Slip, Invariant, TypeOK, SesOK
<1>2. r \in SessionType
  BY <1>0 DEF SessionType
<1>3. /\ SessionShape(r) /\ r.at = "select" /\ r.char = ses[s].char /\ r.world = k0 /\ r.char # NoOne
  BY <1>0 DEF SessionType, SessionShape, Nobody
<1> HIDE DEF r
<1>4. ses'[s] = r /\ \A t \in Sessions : t # s => ses'[t] = ses[t]
  BY <1>1, <1>2, <1>3, UpdateSes DEF Invariant, TypeOK
<1>5. Owners'
  BY <1>0, <1>1, <1>3, <1>4, SameOwners DEF At, Invariant
<1>6. /\ RestOK' /\ slips'[s] = slips[s] \cup Late(s) /\ \A t \in Sessions : t # s => slips'[t] = slips[t]
  BY <1>1, OfSession DEF Invariant, TypeOK, RestOK
<1>7. /\ conns' \in [Conns -> ConnType] /\ \A k \in Conns : k # k0 => conns'[k] = conns[k]
      /\ conns'[k0].by = s /\ conns'[k0].char = conns[k0].char /\ conns'[k0].server = conns[k0].server /\ ~conns'[k0].player
  BY <1>0 DEF HandleReadyForRedirectRequest, ConnType, Invariant, TypeOK, ConnsOK
<1>8. ConnsOK' /\ WorkersOK'
  BY <1>1, <1>7 DEF Invariant, TypeOK, ConnsOK, WorkersOK
<1> HIDE DEF k0
<1>9. InOrder(s)'
  <2>1. Holdings(s)'
    BY <1>0, <1>1, <1>3, <1>4, <1>7 DEF InOrder, Holdings, Hands, Held, At, k0
  <2>2. ASSUME OnTime(s)' PROVE Idle(s)' /\ \A k \in Conns : ~Plays(k, s)'
    <3>1. ~Reconnecting(s)
      BY <1>6, <2>2 DEF OnTime, Late
    <3>2. Idle(s)'
      BY <1>1, <3>1 DEF Reconnecting, Idle, Works
    <3>3. ASSUME NEW k \in Conns PROVE ~Plays(k, s)'
      BY <1>7, <3>1 DEF Reconnecting, Plays, k0
    <3> QED BY <3>2, <3>3
  <2>3. OnTime(s)' => OneAtATime(s)'
    BY <1>0, <1>3, <1>4, <1>6, <1>7, <2>2 DEF OneAtATime, Idle, OnScreen, At, InOrder, OnTime, k0
  <2>4. slips'[s] = {} => ClientFollows(s)'
    BY <1>3, <1>4, <2>2 DEF ClientFollows, Idle, OnTime, At
  <2>5. OnTime(s)' => PlayersAreHeld(s)' /\ OnePlayer(s)'
    BY <2>2 DEF PlayersAreHeld, OnePlayer, Idle
  <2> QED BY <2>1, <2>3, <2>4, <2>5 DEF InOrder, OnTime
<1>10. \A k \in Conns : conns'[k] = conns[k] \/ (conns[k].by \in {s, NoOne} /\ conns'[k].by \in {s, NoOne})
  BY <1>0, <1>7
<1> QED BY <1>1, <1>2, <1>3, <1>5, <1>6, <1>8, <1>9, <1>10, SessionActs

\* Connections that break, and those of a session that ended which go away.
LEMMA ConnectionsBreak ==
  ASSUME Invariant, RestOK', UNCHANGED <<ses, workers, safe, slips, registered, events, shared>>, conns' \in [Conns -> ConnType],
         \A k \in Conns : \/ conns'[k] = conns[k] \/ conns'[k] = Closed(conns[k])
                          \/ conns'[k] = NoConn /\ At(conns[k].by, "ended")
  PROVE  Invariant'
<1>1. \A k \in Conns : conns[k] \in ConnType
  BY DEF Invariant, TypeOK, ConnsOK
<1>2. \A k \in Conns :
          /\ conns'[k].player => conns[k].player /\ conns'[k].by = conns[k].by
          /\ conns[k].by \in Sessions /\ ~At(conns[k].by, "ended") =>
                 conns'[k].by = conns[k].by /\ conns'[k].char = conns[k].char /\ conns'[k].server = conns[k].server
  BY <1>1, ConnTypes
<1>3. TypeOK'
  BY <1>2 DEF Invariant, TypeOK, SesOK, WorkersOK, ConnsOK
<1>4. Owners'
  BY SameOwners DEF Invariant, At
<1>5. ASSUME NEW s \in Sessions PROVE InOrder(s)'
  <2>0. InOrder(s) /\ Held(s)
    BY OfSession
  <2>1. /\ \A n \in Workers : (Works(n, s)' <=> Works(n, s)) /\ (Hands(n, s)' <=> Hands(n, s))
        /\ (Idle(s)' <=> Idle(s)) /\ (OnTime(s)' <=> OnTime(s)) /\ (OnScreen(s)' <=> OnScreen(s))
        /\ \A a \in {"ended", "select", "connect"} : At(s, a)' <=> At(s, a)
    BY DEF Works, Hands, Idle, OnTime, OnScreen, At
  <2>2. \A k \in Conns : Plays(k, s)' => Plays(k, s)
    BY <1>2 DEF Plays
  <2>3. ~At(s, "ended") /\ Holdings(s) => Holdings(s)'
    BY <1>2, <2>0, <2>1 DEF Holdings, Hands, Held
  <2>4. ~At(s, "ended") /\ Holdings(s) /\ OneAtATime(s) => OneAtATime(s)'
    BY <1>2, <2>0, <2>1, <2>2 DEF Holdings, OneAtATime, Held
  <2>5. ~At(s, "ended") /\ Holdings(s) /\ ClientFollows(s) => ClientFollows(s)'
    BY <1>2, <2>0, <2>1 DEF Holdings, ClientFollows, Held
  <2>6. PlayersAreHeld(s) => PlayersAreHeld(s)'
    BY <2>1, <2>2 DEF PlayersAreHeld
  <2>7. OnePlayer(s) => OnePlayer(s)'
    BY <2>1, <2>2 DEF OnePlayer
  <2> QED BY <2>0, <2>1, <2>3, <2>4, <2>5, <2>6, <2>7 DEF InOrder
<1> QED BY <1>3, <1>4, <1>5 DEF Invariant, AllInOrder

\* A connection whose client has left is closed.
LEMMA KeepsContextCloses ==
  ASSUME Invariant, UNCHANGED visit, NEW k \in Conns, ContextCloses(k)
  PROVE  Invariant'
<1>1. /\ UNCHANGED <<ses, gone, workers, safe, up, registered, events, slips, shared, inputs, faults>>
      /\ conns' = [conns EXCEPT ![k] = IF At(conns[k].by, "ended") THEN NoConn ELSE Closed(conns[k])]
  BY DEF ContextCloses, sessionVars, historyVars, boundVars
<1>2. conns \in [Conns -> ConnType] /\ conns[k] \in ConnType
  BY DEF Invariant, TypeOK, ConnsOK
<1>3. RestOK'
  BY <1>1 DEF Invariant, TypeOK, RestOK
<1>4. conns' \in [Conns -> ConnType]
  BY <1>1, <1>2, ConnTypes
<1> QED BY <1>1, <1>2, <1>3, <1>4, ConnectionsBreak

\* A worldserver dies and its connections break.
LEMMA KeepsWorldDies ==
  ASSUME Invariant, UNCHANGED visit, NEW w \in Worlds, WorldDies(w)
  PROVE  Invariant'
<1>1. /\ UNCHANGED <<ses, gone, workers, safe, registered, events, slips, shared, inputs>> /\ up' = up \ {w} /\ faults' = faults + 1
      /\ conns' = [k \in Conns |-> IF conns[k].server = w THEN Closed(conns[k]) ELSE conns[k]]
  BY DEF WorldDies, Fault, sessionVars, historyVars
<1>2. conns \in [Conns -> ConnType]
  BY DEF Invariant, TypeOK, ConnsOK
<1>3. RestOK'
  BY <1>1 DEF Invariant, TypeOK, RestOK
<1>4. conns' \in [Conns -> ConnType]
  BY <1>1, <1>2, ConnTypes
<1> QED BY <1>1, <1>2, <1>3, <1>4, ConnectionsBreak

\* A new connection: its place was free, so nothing else has it.
LEMMA Opens ==
  ASSUME Invariant, CanOpen, NEW s \in Sessions, NEW c \in Characters \cup Nobody, NEW w \in Worlds,
         conns' = [conns EXCEPT ![FreeConn] = Open(s, c, w)]
  PROVE  /\ ConnsOK' /\ FreeConn \in Conns /\ conns[FreeConn].by = NoOne /\ ~conns[FreeConn].player
         /\ \A k \in Conns : k # FreeConn => conns'[k] = conns[k]
         /\ conns'[FreeConn].by = s /\ conns'[FreeConn].char = c /\ conns'[FreeConn].server = w
         /\ conns'[FreeConn].player
         /\ \A k \in Conns : conns'[k] = conns[k] \/ (conns[k].by \in {s, NoOne} /\ conns'[k].by \in {s, NoOne})
<1>1. FreeConn \in Conns /\ conns[FreeConn] = NoConn
  BY FreeConnIsFree
<1>2. conns \in [Conns -> ConnType] /\ \A k \in Conns : conns[k].player => conns[k].by \in Sessions
  BY DEF Invariant, TypeOK, ConnsOK
<1>3. /\ Open(s, c, w) \in ConnType
      /\ Open(s, c, w).by = s /\ Open(s, c, w).char = c /\ Open(s, c, w).server = w /\ Open(s, c, w).player
  BY ConnTypes
<1>4. conns' \in [Conns -> ConnType] /\ conns'[FreeConn] = Open(s, c, w) /\ \A k \in Conns : k # FreeConn => conns'[k] = conns[k]
  BY <1>1, <1>2, <1>3
<1>5. NoConn.by = NoOne /\ ~NoConn.player
  BY ConnTypes
<1> QED BY <1>1, <1>2, <1>3, <1>4, <1>5 DEF ConnsOK

\* The session a handler has connected.
LEMMA ConnectedSession ==
  ASSUME Invariant, NEW s \in Sessions, At(s, "connect"), NEW k \in Conns
  PROVE  LET r == Connected(s, k) IN
         /\ r \in SessionType /\ SessionShape(r) /\ r.char = ses[s].goal /\ r.world = k
         /\ r.at = IF ses[s].via = "login" THEN "announce" ELSE "loop"
         /\ r.client = IF ses[s].via = "layer" THEN ses[s].server ELSE ses[s].client
<1> DEFINE q == ses[s]
           moved == [q EXCEPT !.char = q.goal, !.world = k, !.via = "none", !.goal = NoOne, !.server = NoOne]
<1>0. q \in SessionType /\ SessionShape(q) /\ q.at = "connect"
  BY OfSession DEF At
<1>1. /\ q.via \in {"login", "request", "layer", "battleground"} /\ q.server \in Worlds
      /\ q.goal \in Characters /\ q.goal # NoOne
  BY <1>0, GatewayAssumption DEF SessionShape
<1> HIDE DEF q
<1>2. /\ moved \in SessionType /\ moved.char = q.goal /\ moved.world = k /\ moved.via = "none" /\ moved.client = q.client
  BY <1>0, <1>1 DEF SessionType, Nobody
<1> HIDE DEF moved
<1>3. Connected(s, k) =
        CASE q.via = "login" -> [moved EXCEPT !.at = "announce", !.current = q.server, !.told = FALSE]
          [] q.via = "request" -> [moved EXCEPT !.at = "loop", !.current = q.server]
          [] q.via = "layer" -> [moved EXCEPT !.at = "loop", !.current = q.server, !.client = q.server]
          [] OTHER -> [moved EXCEPT !.at = "loop"]
  BY DEF Connected, moved, q
<1> DEFINE r == Connected(s, k)
<1>4. /\ r \in SessionType /\ r.char = q.goal /\ r.world = k /\ r.via = "none"
      /\ r.at = IF q.via = "login" THEN "announce" ELSE "loop"
      /\ r.client = IF q.via = "layer" THEN q.server ELSE q.client
  <2>1. CASE q.via = "login"
    <3>1. r = [moved EXCEPT !.at = "announce", !.current = q.server, !.told = FALSE]
      BY <1>3, <2>1
    <3> QED BY <1>1, <1>2, <2>1, <3>1 DEF SessionType
  <2>2. CASE q.via = "request"
    <3>1. r = [moved EXCEPT !.at = "loop", !.current = q.server]
      BY <1>3, <2>2
    <3> QED BY <1>1, <1>2, <2>2, <3>1 DEF SessionType
  <2>3. CASE q.via = "layer"
    <3>1. r = [moved EXCEPT !.at = "loop", !.current = q.server, !.client = q.server]
      BY <1>3, <2>3
    <3> QED BY <1>1, <1>2, <2>3, <3>1 DEF SessionType
  <2>4. CASE q.via = "battleground"
    <3>1. r = [moved EXCEPT !.at = "loop"]
      BY <1>3, <2>4
    <3> QED BY <1>1, <1>2, <2>4, <3>1 DEF SessionType
  <2> QED BY <1>1, <2>1, <2>2, <2>3, <2>4
<1>5. SessionShape(r)
  BY <1>1, <1>4 DEF SessionShape
<1> QED BY <1>4, <1>5 DEF q

\* A connection is made in a free place; a character another session has is shared from now on.
LEMMA KeepsConnectToGameServer ==
  ASSUME Invariant, UNCHANGED visit, NEW s \in Sessions, ConnectToGameServer(s)
  PROVE  Invariant'
<1> DEFINE k0 == FreeConn
<1>0. /\ ses[s] \in SessionType /\ SessionShape(ses[s]) /\ InOrder(s) /\ s # NoOne /\ Held(s) /\ 0 \notin Conns
      /\ ses[s].at = "connect" /\ ses[s].server \in Worlds /\ ses[s].goal \in Characters /\ NoOne \notin Characters
      /\ ses[s].char = IF ses[s].via = "login" THEN NoOne ELSE ses[s].goal
  BY OfSession, GatewayAssumption DEF ConnectToGameServer, At, SessionShape
<1>1. UNCHANGED <<visit, gone, workers, safe, up, registered, events, inputs>> /\ faults' \in Nat
  <2>1. UNCHANGED <<visit, gone, workers, safe, up, registered, events, inputs>> /\ (UNCHANGED faults \/ Fault)
    BY DEF ConnectToGameServer
  <2> QED BY <2>1 DEF Fault, Invariant, TypeOK, RestOK
<1>2. /\ OnTime(s) => OneAtATime(s) /\ Idle(s)
      /\ slips[s] \cap {"late", "stranded"} = {} => \A k \in Conns : ~Plays(k, s)
      /\ Holdings(s)
  BY <1>0 DEF InOrder, OneAtATime, PlayersAreHeld, At
<1>3. ASSUME CanOpen, conns' = [conns EXCEPT ![k0] = Open(s, ses[s].goal, ses[s].server)]
      PROVE  /\ ConnsOK' /\ k0 \in Conns /\ conns[k0].by = NoOne /\ ~conns[k0].player
             /\ \A k \in Conns : k # k0 => conns'[k] = conns[k]
             /\ conns'[k0].by = s /\ conns'[k0].char = ses[s].goal /\ conns'[k0].server = ses[s].server /\ conns'[k0].player
             /\ \A k \in Conns : conns'[k] = conns[k] \/ (conns[k].by \in {s, NoOne} /\ conns'[k].by \in {s, NoOne})
  BY <1>0, <1>3, Opens
<1> HIDE DEF k0
<1>4. ASSUME CanOpen, conns' = [conns EXCEPT ![k0] = Open(s, ses[s].goal, ses[s].server)],
             ses' = [ses EXCEPT ![s] = Connected(s, k0)],
             shared' = IF Sharers(s) = {} THEN shared ELSE shared \cup {ses[s].goal},
             slips' = [slips EXCEPT ![s] = @ \cup (IF ses[s].via = "battleground" THEN {"battleground"} ELSE {})]
      PROVE  Invariant'
  <2> DEFINE r == Connected(s, k0)
  <2>1. /\ r \in SessionType /\ SessionShape(r) /\ r.char = ses[s].goal /\ r.world = k0
        /\ r.at = IF ses[s].via = "login" THEN "announce" ELSE "loop"
        /\ r.client = IF ses[s].via = "layer" THEN ses[s].server ELSE ses[s].client
    BY <1>0, <1>3, <1>4, ConnectedSession DEF At
  <2> HIDE DEF r
  <2>2. ses' = [ses EXCEPT ![s] = r] /\ ses'[s] = r /\ \A t \in Sessions : t # s => ses'[t] = ses[t]
    BY <1>4, <2>1, UpdateSes DEF Invariant, TypeOK, r
  <2>3. /\ slips[s] \subseteq slips'[s] /\ \A t \in Sessions : t # s => slips'[t] = slips[t]
        /\ slips'[s] = {} => slips[s] = {} /\ ses[s].via # "battleground"
        /\ slips' \in [Sessions -> SUBSET {"late", "stranded", "battleground"}]
    BY <1>4 DEF Invariant, TypeOK, RestOK
  <2>4. RestOK' /\ WorkersOK'
    BY <1>0, <1>1, <1>4, <2>3 DEF Invariant, TypeOK, RestOK, WorkersOK
  <2>5. Owners'
    <3>1. Owners /\ shared \subseteq shared' /\ registered' = registered /\ events' = events
      BY <1>1, <1>4 DEF Invariant
    <3>2. ASSUME NEW t \in Sessions, t # s, ses[t].char = ses[s].goal PROVE ses[s].goal \in shared'
      <4>1. Live(t)
        BY <1>0, <3>2, OfSession DEF Live, SessionShape
      <4> QED BY <1>4, <3>2, <4>1 DEF Sharers
    <3>3. \A t, u \in Sessions : ses'[t].char \in Characters \ shared' /\ ses'[u].char = ses'[t].char => t = u
      BY <2>1, <2>2, <3>1, <3>2 DEF Owners
    <3>4. \A t \in Sessions : ses'[t].char \in Characters \ shared' /\ ses'[t].at # "announce" => registered'[ses'[t].char] = t
      BY <1>0, <2>1, <2>2, <3>1 DEF Owners, At
    <3>5. \A t \in Sessions, c \in Characters : registered'[c] = t => ses'[t].char = c
      BY <1>0, <2>1, <2>2, <3>1 DEF Owners
    <3>6. ASSUME NEW t \in Sessions, ses'[t].at # "announce"
          PROVE  events'[t] \subseteq {ses'[t].char} \/ ses'[t].char = NoOne
      BY <1>0, <2>1, <2>2, <3>1, <3>6 DEF Owners, At
    <3> QED BY <3>3, <3>4, <3>5, <3>6 DEF Owners, At
  <2>6. InOrder(s)'
    <3>1. \A k \in Conns : Plays(k, s)' => k = k0 \/ Plays(k, s)
      BY <1>3, <1>4 DEF Plays
    <3>2. Idle(s)' <=> Idle(s)
      BY <1>1 DEF Idle, Works
    <3>3. Holdings(s)'
      BY <1>0, <1>1, <1>2, <1>3, <1>4, <2>1, <2>2 DEF Holdings, Hands, Held
    <3>4. OnTime(s)' => OnTime(s)
      BY <2>3 DEF OnTime
    <3>5. OnTime(s)' => OneAtATime(s)'
      BY <1>0, <1>2, <1>3, <1>4, <2>1, <2>2, <3>2, <3>4 DEF OneAtATime, OnScreen, Idle, At
    <3>6. slips'[s] = {} => ClientFollows(s)'
      <4>1. slips[s] = {} /\ ses[s].via \in {"login", "request"} => ses[s].server = ses[s].client
        BY <1>0 DEF InOrder, ClientFollows, At
      <4>2. ses[s].via \in {"login", "request", "layer", "battleground"}
        BY <1>0 DEF SessionShape
      <4>3. slips'[s] = {} => Idle(s)'
        BY <1>2, <2>3, <3>2 DEF OnTime
      <4> QED BY <1>3, <1>4, <2>1, <2>2, <2>3, <4>1, <4>2, <4>3 DEF ClientFollows, Idle, At
    <3>7. slips'[s] \cap {"late", "stranded"} = {} => PlayersAreHeld(s)' /\ OnePlayer(s)'
      <4>1. slips'[s] \cap {"late", "stranded"} = {} => Idle(s)' /\ \A k \in Conns : ~Plays(k, s)
        BY <1>2, <2>3, <3>2 DEF OnTime
      <4> QED BY <2>1, <2>2, <3>1, <4>1 DEF PlayersAreHeld, OnePlayer, Idle, At
    <3> QED BY <3>3, <3>5, <3>6, <3>7 DEF InOrder
  <2> QED BY <1>1, <1>3, <1>4, <2>1, <2>2, <2>3, <2>4, <2>5, <2>6, SessionActs
<1>5. ASSUME Refused(s), UNCHANGED <<conns, shared>> PROVE Invariant'
  BY <1>0, <1>1, <1>5, KeepsRefused
<1>6. ASSUME Refused(s), UNCHANGED shared, ses[s].via = "battleground", CanOpen,
             conns' = [conns EXCEPT ![k0] = Open(s, ses[s].goal, ses[s].server)]
      PROVE  Invariant'
  <2>1. PICK r \in SessionType :
            /\ ses' = [ses EXCEPT ![s] = r] /\ ses'[s] = r /\ \A t \in Sessions : t # s => ses'[t] = ses[t]
            /\ SessionShape(r) /\ r.at = "loop" /\ r.char = ses[s].char /\ r.world = ses[s].world
            /\ slips[s] \subseteq slips'[s] /\ slips'[s] \subseteq {"late", "stranded", "battleground"}
            /\ ses[s].via # "login" => "stranded" \in slips'[s]
            /\ slips' \in [Sessions -> SUBSET {"late", "stranded", "battleground"}]
            /\ \A t \in Sessions : t # s => slips'[t] = slips[t]
    BY <1>0, <1>6, RefusedSession
  <2>2. Owners'
    BY <1>0, <1>1, <1>6, <2>1, SameOwners DEF At, Invariant
  <2>3. RestOK' /\ WorkersOK' /\ "stranded" \in slips'[s]
    BY <1>1, <1>6, <2>1 DEF Invariant, TypeOK, RestOK, WorkersOK
  <2>4. Holdings(s)'
    BY <1>0, <1>1, <1>2, <1>3, <1>6, <2>1 DEF Holdings, Hands, Held
  <2>5. OnTime(s)' => OneAtATime(s)'
    <3>1. OnTime(s)' => OnTime(s)
      BY <2>1 DEF OnTime
    <3>2. ~OnScreen(s)' /\ (Idle(s)' <=> Idle(s))
      BY <1>0, <1>1, <1>6, <2>1 DEF OnScreen, At, Idle, Works
    <3> QED BY <1>0, <1>1, <1>2, <1>3, <1>6, <2>1, <3>1, <3>2 DEF OneAtATime, Holdings, Idle, Held, At
  <2>6. InOrder(s)'
    BY <2>3, <2>4, <2>5 DEF InOrder
  <2> QED BY <1>1, <1>3, <1>6, <2>1, <2>2, <2>3, <2>6, SessionActs
<1> QED BY <1>4, <1>5, <1>6 DEF ConnectToGameServer, Slip, k0

\* A session that gives up its socket.
LEMMA ClosesSocket ==
  ASSUME Invariant, NEW s \in Sessions, ~At(s, "ended"), ses[s].world # 0, Close(ses[s].world)
  PROVE  /\ ConnsOK' /\ \A k \in Conns : k # ses[s].world => conns'[k] = conns[k]
         /\ \A k \in Conns : Plays(k, s)' => Plays(k, s) /\ k # ses[s].world
         /\ \A k \in Conns : conns'[k] = conns[k] \/ (conns[k].by \in {s, NoOne} /\ conns'[k].by \in {s, NoOne})
         /\ OnTime(s) => OneAtATime(s) /\ Idle(s)
         /\ slips[s] \cap {"late", "stranded"} = {} => \A k \in Conns : ~Plays(k, s)'
<1>0. InOrder(s) /\ Holdings(s) /\ ses[s].world \in Conns /\ conns[ses[s].world].by = s /\ s # NoOne
  BY OfSession DEF InOrder, Holdings
<1>1. conns \in [Conns -> ConnType] /\ \A k \in Conns : conns[k].player => conns[k].by \in Sessions
  BY DEF Invariant, TypeOK, ConnsOK
<1>2. /\ conns' \in [Conns -> ConnType] /\ conns'[ses[s].world] = NoConn
      /\ \A k \in Conns : k # ses[s].world => conns'[k] = conns[k]
  BY <1>0, <1>1, ConnTypes DEF Close
<1>3. ConnsOK'
  BY <1>1, <1>2, ConnTypes DEF ConnsOK
<1>4. \A k \in Conns : Plays(k, s)' => Plays(k, s) /\ k # ses[s].world
  BY <1>2, ConnTypes DEF Plays
<1>5. \A k \in Conns : conns'[k] = conns[k] \/ (conns[k].by \in {s, NoOne} /\ conns'[k].by \in {s, NoOne})
  BY <1>0, <1>2, ConnTypes
<1>6. OnTime(s) => OneAtATime(s) /\ Idle(s)
  BY <1>0 DEF InOrder, OneAtATime
<1>7. slips[s] \cap {"late", "stranded"} = {} => \A k \in Conns : ~Plays(k, s)'
  BY <1>0, <1>4, <1>6 DEF InOrder, PlayersAreHeld, OnTime, Idle, Works, Hands
<1> QED BY <1>2, <1>3, <1>4, <1>5, <1>6, <1>7

\* A session that gives up its socket and starts a goroutine to get another.
LEMMA HandsToWorker ==
  ASSUME Invariant, RestOK', NEW s \in Sessions, ses[s].at \in {"loop", "prepare"}, ses[s].world # 0, Close(ses[s].world),
         UNCHANGED <<safe, registered, events, slips, shared>>,
         NEW r \in SessionType, SessionShape(r), ses' = [ses EXCEPT ![s] = r],
         r.at = "loop", r.world = 0, r.char = ses[s].char,
         NEW g \in WorkerType, g.by = s, g.char = ses[s].char, WorkerShape(g),
         g.at \in {"select", "connect"}, g.at = "select" \/ g.kind = "redirect",
         CanStart, StartWorker(g)
  PROVE  Invariant'
<1>0. /\ InOrder(s) /\ Holdings(s) /\ s # NoOne /\ Held(s) /\ 0 \notin Conns /\ ses[s].char # NoOne /\ ~At(s, "ended")
  BY OfSession DEF InOrder, At, SessionShape
<1>1. PICK n \in Workers : workers[n] = NoWorker /\ workers' = [workers EXCEPT ![n] = g]
  BY StartWorkerIsFree
<1>2. /\ WorkersOK' /\ workers'[n] = g /\ workers[n].by = NoOne
      /\ \A m \in Workers : m # n => workers'[m] = workers[m]
  BY <1>1 DEF Invariant, TypeOK, WorkersOK, NoWorker
<1>3. ses'[s] = r /\ \A t \in Sessions : t # s => ses'[t] = ses[t]
  BY UpdateSes DEF Invariant, TypeOK
<1>4. /\ ConnsOK' /\ \A k \in Conns : k # ses[s].world => conns'[k] = conns[k]
      /\ \A k \in Conns : conns'[k] = conns[k] \/ (conns[k].by \in {s, NoOne} /\ conns'[k].by \in {s, NoOne})
      /\ OnTime(s) => OneAtATime(s) /\ Idle(s)
      /\ slips[s] \cap {"late", "stranded"} = {} => \A k \in Conns : ~Plays(k, s)'
  BY <1>0, ClosesSocket
<1>5. Owners'
  BY <1>3, SameOwners DEF At, Invariant
<1>6. InOrder(s)'
  <2>1. /\ \A m \in Workers : Works(m, s)' <=> m = n \/ Works(m, s)
        /\ \A m \in Workers : Hands(m, s)' <=> m # n /\ Hands(m, s)
        /\ ~Works(n, s) /\ (OnTime(s)' <=> OnTime(s))
    BY <1>0, <1>2 DEF Works, Hands, OnTime
  <2>2. Holdings(s)'
    BY <1>0, <1>2, <1>3, <1>4, <2>1 DEF Holdings, Held
  <2>3. OnTime(s) => OneAtATime(s)'
    BY <1>0, <1>2, <1>3, <1>4, <2>1 DEF OneAtATime, OnScreen, Idle, At
  <2>4. OnTime(s) => ClientFollows(s)'
    BY <1>2, <1>3, <1>4, <2>1 DEF ClientFollows, Idle, At
  <2>5. slips'[s] \cap {"late", "stranded"} = {} => PlayersAreHeld(s)' /\ OnePlayer(s)'
    BY <1>2, <1>3, <1>4, <2>1 DEF PlayersAreHeld, OnePlayer, Idle, OnTime, At
  <2> QED BY <2>1, <2>2, <2>3, <2>4, <2>5 DEF InOrder, OnTime
<1>7. \A m \in Workers : workers'[m] = workers[m] \/ (workers[m].by \in {s, NoOne} /\ workers'[m].by \in {s, NoOne})
  BY <1>2
<1> QED BY <1>2, <1>4, <1>5, <1>6, <1>7, SessionActs

\* A lost socket is given up for a goroutine that recovers it.
LEMMA KeepsWorldSocketClosed ==
  ASSUME Invariant, UNCHANGED visit, NEW s \in Sessions, WorldSocketClosed(s)
  PROVE  Invariant'
<1> DEFINE r == [ses[s] EXCEPT !.world = 0]
           g == [NoWorker EXCEPT !.kind = "recover", !.by = s, !.char = ses[s].char, !.at = "select", !.left = 3]
<1>0. /\ ses[s] \in SessionType /\ SessionShape(ses[s]) /\ ses[s].at = "loop" /\ ses[s].world # 0
  BY OfSession DEF WorldSocketClosed, At
<1>1. /\ ses' = [ses EXCEPT ![s] = r] /\ CanStart /\ StartWorker(g) /\ Close(ses[s].world)
      /\ UNCHANGED <<visit, gone, safe, up, registered, events, slips, shared, inputs, faults>>
  BY DEF WorldSocketClosed, Invariant, TypeOK, SesOK, historyVars, boundVars
<1>2. r \in SessionType
  BY <1>0 DEF SessionType
<1>3. SessionShape(r) /\ r.at = "loop" /\ r.world = 0 /\ r.char = ses[s].char
  BY <1>0 DEF SessionType, SessionShape
<1>4. g \in WorkerType /\ g.by = s /\ g.char = ses[s].char /\ WorkerShape(g) /\ g.at = "select"
  BY <1>0 DEF NoWorker, WorkerType, WorkerShape, SessionType, Nobody
<1>5. RestOK'
  BY <1>1 DEF Invariant, TypeOK, RestOK
<1> HIDE DEF r, g
<1> QED BY <1>0, <1>1, <1>2, <1>3, <1>4, <1>5, HandsToWorker

\* A prepared redirect gives up the socket, for a goroutine or for the session itself to connect again.
LEMMA KeepsPrepareForRedirect ==
  ASSUME Invariant, UNCHANGED visit, NEW s \in Sessions, PrepareForRedirect(s)
  PROVE  Invariant'
<1>0. /\ ses[s] \in SessionType /\ SessionShape(ses[s]) /\ InOrder(s) /\ ses[s].at = "prepare" /\ ses[s].world # 0
      /\ ses[s].server \in Worlds /\ ses[s].goal = ses[s].char /\ ses[s].char \in Characters
      /\ ses[s].via \in {"teleport", "layer", "battleground"} /\ Held(s) /\ 0 \notin Conns /\ s # NoOne /\ ses[s].char # NoOne
  BY OfSession, GatewayAssumption DEF PrepareForRedirect, At, SessionShape
<1>1. UNCHANGED <<visit, gone, safe, up, registered, events, slips, shared, inputs>> /\ faults' \in Nat
  <2>1. UNCHANGED <<visit, gone, safe, up, registered, events, slips, shared, inputs>> /\ (UNCHANGED faults \/ Fault)
    BY DEF PrepareForRedirect, historyVars
  <2> QED BY <2>1 DEF Fault, Invariant, TypeOK, RestOK
<1>2. RestOK'
  BY <1>1 DEF Invariant, TypeOK, RestOK
<1>3. ASSUME Close(ses[s].world), ses[s].via = "teleport", CanStart,
             StartWorker([NoWorker EXCEPT !.kind = "redirect", !.by = s, !.char = ses[s].goal,
                                          !.at = "connect", !.server = ses[s].server]),
             ses' = [ses EXCEPT ![s].at = "loop", ![s].via = "none", ![s].world = 0,
                                ![s].goal = NoOne, ![s].server = NoOne]
      PROVE  Invariant'
  <2> DEFINE r == [ses[s] EXCEPT !.at = "loop", !.via = "none", !.world = 0, !.goal = NoOne, !.server = NoOne]
             g == [NoWorker EXCEPT !.kind = "redirect", !.by = s, !.char = ses[s].goal,
                                   !.at = "connect", !.server = ses[s].server]
  <2>1. ses' = [ses EXCEPT ![s] = r] /\ StartWorker(g)
    BY <1>3 DEF Invariant, TypeOK, SesOK
  <2>2. r \in SessionType
    BY <1>0 DEF SessionType, Nobody
  <2>3. SessionShape(r) /\ r.at = "loop" /\ r.world = 0 /\ r.char = ses[s].char
    BY <1>0 DEF SessionType, SessionShape
  <2>4. g \in WorkerType /\ g.by = s /\ g.char = ses[s].char /\ WorkerShape(g) /\ g.at = "connect" /\ g.kind = "redirect"
    BY <1>0 DEF NoWorker, WorkerType, WorkerShape, Nobody
  <2> HIDE DEF r, g
  <2> QED BY <1>0, <1>1, <1>2, <1>3, <2>1, <2>2, <2>3, <2>4, HandsToWorker
<1>4. ASSUME Close(ses[s].world), ses[s].via # "teleport", UNCHANGED workers,
             ses' = [ses EXCEPT ![s].at = "connect", ![s].world = 0]
      PROVE  Invariant'
  <2> DEFINE r == [ses[s] EXCEPT !.at = "connect", !.world = 0]
  <2>1. ses' = [ses EXCEPT ![s] = r]
    BY <1>4 DEF Invariant, TypeOK, SesOK
  <2>2. r \in SessionType
    BY <1>0 DEF SessionType
  <2>3. SessionShape(r) /\ r.at = "connect" /\ r.world = 0 /\ r.char = ses[s].char /\ r.via \notin {"login", "request"}
    BY <1>0, <1>4 DEF SessionType, SessionShape
  <2> HIDE DEF r
  <2>4. ses'[s] = r /\ \A t \in Sessions : t # s => ses'[t] = ses[t]
    BY <2>1, <2>2, <2>3, UpdateSes DEF Invariant, TypeOK
  <2>5. /\ ConnsOK' /\ \A k \in Conns : k # ses[s].world => conns'[k] = conns[k]
        /\ \A k \in Conns : conns'[k] = conns[k] \/ (conns[k].by \in {s, NoOne} /\ conns'[k].by \in {s, NoOne})
        /\ OnTime(s) => OneAtATime(s) /\ Idle(s)
        /\ slips[s] \cap {"late", "stranded"} = {} => \A k \in Conns : ~Plays(k, s)'
    BY <1>0, <1>4, ClosesSocket DEF At
  <2>6. Owners' /\ WorkersOK'
    BY <1>0, <1>1, <1>4, <2>3, <2>4, SameOwners DEF At, Invariant, TypeOK, WorkersOK
  <2>7. InOrder(s)'
    <3>1. /\ \A n \in Workers : (Works(n, s)' <=> Works(n, s)) /\ (Hands(n, s)' <=> Hands(n, s))
          /\ (Idle(s)' <=> Idle(s)) /\ (OnTime(s)' <=> OnTime(s))
      BY <1>1, <1>4 DEF Works, Hands, Idle, OnTime
    <3>0. Holdings(s)
      BY <1>0 DEF InOrder, At
    <3>2. Holdings(s)'
      <4>1. Held(s) /\ 0 \notin Conns /\ workers' = workers /\ safe' = safe /\ ses'[s].world = 0
        BY <1>0, <1>1, <1>4, <2>3, <2>4
      <4> QED BY <2>5, <3>0, <3>1, <4>1 DEF Holdings, Held
    <3>3. OnTime(s) => OneAtATime(s)'
      BY <1>0, <1>1, <1>4, <2>3, <2>4, <2>5, <3>1 DEF OneAtATime, OnScreen, Idle, At
    <3>4. OnTime(s) => ClientFollows(s)'
      BY <1>1, <2>3, <2>4, <2>5, <3>1 DEF ClientFollows, Idle, At
    <3>5. slips'[s] \cap {"late", "stranded"} = {} => PlayersAreHeld(s)' /\ OnePlayer(s)'
      BY <1>1, <2>5, <3>1 DEF PlayersAreHeld, OnePlayer, Idle, OnTime
    <3> QED BY <1>1, <3>1, <3>2, <3>3, <3>4, <3>5 DEF InOrder, OnTime
  <2> QED BY <1>1, <1>2, <1>4, <2>1, <2>2, <2>3, <2>5, <2>6, <2>7, SessionActs
<1>5. ASSUME UNCHANGED <<conns, workers>>,
             ses' = [ses EXCEPT ![s].at = "loop", ![s].via = "none", ![s].goal = NoOne, ![s].server = NoOne]
      PROVE  Invariant'
  <2> DEFINE r == [ses[s] EXCEPT !.at = "loop", !.via = "none", !.goal = NoOne, !.server = NoOne]
  <2>1. ses' = [ses EXCEPT ![s] = r]
    BY <1>5 DEF Invariant, TypeOK, SesOK
  <2>2. r \in SessionType
    BY <1>0 DEF SessionType, Nobody
  <2>3. SessionShape(r) /\ r.at = "loop" /\ r.char = ses[s].char /\ r.world = ses[s].world /\ r.client = ses[s].client
    BY <1>0 DEF SessionType, SessionShape
  <2> HIDE DEF r
  <2> QED BY <1>0, <1>1, <1>2, <1>5, <2>1, <2>2, <2>3, QuietStep DEF At
<1> QED BY <1>3, <1>4, <1>5 DEF PrepareForRedirect

-----------------------------------------------------------------------------
(* The invariant is kept: goroutines that recover or redirect a session.    *)

\* What the invariant says of a goroutine that runs.
LEMMA OfWorker ==
  ASSUME Invariant, NEW n \in Workers, workers[n].at # "idle"
  PROVE  LET s == workers[n].by IN
         /\ workers[n] \in WorkerType /\ WorkerShape(workers[n]) /\ s \in Sessions
         /\ ses[s] \in SessionType /\ SessionShape(ses[s]) /\ InOrder(s) /\ s # NoOne /\ Held(s) /\ 0 \notin Conns
         /\ Works(n, s) /\ ~Idle(s)
<1>1. workers[n] \in WorkerType /\ WorkerShape(workers[n])
  BY DEF Invariant, TypeOK, WorkersOK
<1>2. workers[n].by \in Sessions
  BY <1>1 DEF WorkerShape
<1> QED BY <1>1, <1>2, OfSession DEF Works, Idle

\* A goroutine that has no connection yet goes on or gives up, and the client
\* it calls is the one the session calls.
LEMMA WorkerGoesOn ==
  ASSUME Invariant, RestOK', NEW n \in Workers, workers[n].at \in {"select", "connect", "await"},
         UNCHANGED <<conns, safe, slips, registered, events, shared>>,
         NEW g \in WorkerType, WorkerShape(g), workers' = [workers EXCEPT ![n] = g],
         \/ g.by = NoOne
         \/ g.by = workers[n].by /\ g.char = workers[n].char /\ g.at \in {"select", "connect", "await"},
         NEW r \in SessionType, SessionShape(r), ses' = [ses EXCEPT ![workers[n].by] = r],
         r.at = ses[workers[n].by].at, r.char = ses[workers[n].by].char, r.world = ses[workers[n].by].world,
         r.via = ses[workers[n].by].via,
         \/ g.by = NoOne \/ g.at = "select" \/ g.server = r.client
         \/ g.kind = workers[n].kind /\ g.server = workers[n].server /\ workers[n].at # "select" /\ r.client = ses[workers[n].by].client
  PROVE  Invariant'
<1>s. PICK s \in Sessions : s = workers[n].by
  BY OfWorker
<1>0. /\ workers[n] \in WorkerType /\ WorkerShape(workers[n]) /\ InOrder(s) /\ s # NoOne
      /\ Works(n, s) /\ ~Idle(s) /\ ~Hands(n, s)
  BY <1>s, OfWorker DEF Hands
<1>1. ses' = [ses EXCEPT ![s] = r] /\ r.at = ses[s].at /\ r.char = ses[s].char /\ r.world = ses[s].world /\ r.via = ses[s].via
  BY <1>s
<1>2. /\ WorkersOK' /\ workers'[n] = g /\ \A m \in Workers : m # n => workers'[m] = workers[m]
  BY DEF Invariant, TypeOK, WorkersOK
<1>3. ses'[s] = r /\ \A t \in Sessions : t # s => ses'[t] = ses[t]
  BY <1>0, <1>1, UpdateSes DEF Invariant, TypeOK
<1>4. Owners' /\ ConnsOK'
  BY <1>0, <1>1, <1>3, SameOwners DEF At, Invariant, TypeOK, ConnsOK
<1>5. InOrder(s)'
  <2>1. /\ \A m \in Workers : m # n => (Works(m, s)' <=> Works(m, s))
        /\ \A m \in Workers : Hands(m, s)' <=> Hands(m, s)
        /\ Works(n, s)' => g.by = s /\ g.char = workers[n].char
        /\ (OnTime(s)' <=> OnTime(s)) /\ (OnScreen(s)' <=> OnScreen(s))
        /\ (At(s, "ended")' <=> At(s, "ended"))
        /\ \A k \in Conns : Plays(k, s)' <=> Plays(k, s)
    BY <1>s, <1>0, <1>1, <1>2, <1>3 DEF Works, Hands, OnTime, OnScreen, Plays, At
  <2>2. Holdings(s) => Holdings(s)'
    BY <1>0, <1>1, <1>2, <1>3, <2>1 DEF Holdings
  <2>3. OneAtATime(s) => OneAtATime(s)'
    BY <1>0, <1>1, <1>2, <1>3, <2>1 DEF OneAtATime, At
  <2>4. OneAtATime(s) /\ ClientFollows(s) => ClientFollows(s)'
    <3> SUFFICES ASSUME OneAtATime(s), ClientFollows(s) PROVE ClientFollows(s)'
      OBVIOUS
    <3>1. safe'[s] = <<>> /\ ses'[s].world = 0 /\ ~At(s, "connect")' /\ \A m \in Workers : m # n => ~Works(m, s)'
      BY <1>0, <1>1, <1>3, <2>1 DEF OneAtATime, At
    <3>2. Works(n, s)' /\ g.kind = "recover" /\ g.at # "select" => g.server = ses'[s].client
      <4>1. CASE g.by = NoOne \/ g.at = "select" \/ g.server = r.client
        BY <1>0, <1>2, <1>3, <4>1 DEF Works
      <4>2. CASE g.kind = workers[n].kind /\ g.server = workers[n].server /\ workers[n].at # "select" /\ r.client = ses[s].client
        BY <1>0, <1>3, <4>2 DEF ClientFollows, Works
      <4> QED BY <1>s, <4>1, <4>2
    <3> QED BY <1>2, <3>1, <3>2 DEF ClientFollows
  <2>5. PlayersAreHeld(s) => PlayersAreHeld(s)'
    BY <1>0, <1>1, <1>2, <1>3, <2>1 DEF PlayersAreHeld, Hands, At
  <2>6. OnePlayer(s) => OnePlayer(s)'
    BY <1>0, <2>1 DEF OnePlayer
  <2> QED BY <1>0, <2>1, <2>2, <2>3, <2>4, <2>5, <2>6 DEF InOrder, OnTime
<1>6. \A m \in Workers : workers'[m] = workers[m] \/ (workers[m].by \in {s, NoOne} /\ workers'[m].by \in {s, NoOne})
  BY <1>s, <1>2
<1> QED BY <1>0, <1>1, <1>2, <1>4, <1>5, <1>6, SessionActs

\* An attempt that fails leaves the goroutine to select again, or no goroutine.
LEMMA KeepsAttemptFails ==
  ASSUME Invariant, NEW n \in Workers, workers[n].at \in {"select", "connect", "await"}, AttemptFails(n), faults' \in Nat,
         UNCHANGED <<visit, gone, safe, conns, up, registered, events, slips, shared, inputs>>
  PROVE  Invariant'
<1>s. PICK s \in Sessions : s = workers[n].by
  BY OfWorker DEF RecoverSelect
<1>0. /\ workers[n] \in WorkerType /\ WorkerShape(workers[n])
      /\ ses[s] \in SessionType /\ SessionShape(ses[s]) /\ s # NoOne
  BY <1>s, OfWorker
<1>1. RestOK'
  BY DEF Invariant, TypeOK, RestOK
<1>2. CASE workers[n].left > 1
  <2> DEFINE g == [workers[n] EXCEPT !.left = workers[n].left - 1, !.at = "select"]
  <2>1. workers' = [workers EXCEPT ![n] = g] /\ ses' = ses
    BY <1>2 DEF AttemptFails, Invariant, TypeOK, WorkersOK
  <2>2. g \in WorkerType /\ WorkerShape(g) /\ g.by = s /\ g.char = workers[n].char /\ g.at = "select"
    <3>1. workers[n].kind = "recover"
      BY <1>0, <1>2 DEF WorkerShape
    <3>2. workers[n].left \in Nat /\ workers[n].left - 1 \in Nat
      BY <1>0, <1>2 DEF WorkerType
    <3>3. g \in WorkerType
      BY <1>0, <3>2 DEF WorkerType
    <3>4. g.by = s /\ g.char = workers[n].char /\ g.at = "select" /\ g.kind = "recover"
      BY <1>s, <1>0, <3>1 DEF WorkerType
    <3> QED BY <3>3, <3>4 DEF WorkerShape
  <2>3. ses' = [ses EXCEPT ![s] = ses[s]]
    BY <1>0, <2>1 DEF Invariant, TypeOK, SesOK
  <2> HIDE DEF g
  <2> QED BY <1>s, <1>0, <1>1, <2>1, <2>2, <2>3, WorkerGoesOn
<1>3. CASE ~(workers[n].left > 1)
  <2> DEFINE r == [ses[s] EXCEPT !.told = TRUE]
  <2>1. workers' = [workers EXCEPT ![n] = NoWorker] /\ ses' = [ses EXCEPT ![s] = r]
    BY <1>s, <1>3 DEF AttemptFails, Finish, Invariant, TypeOK, SesOK
  <2>2. NoWorker \in WorkerType /\ WorkerShape(NoWorker) /\ NoWorker.by = NoOne
    BY DEF NoWorker, WorkerType, WorkerShape, Nobody
  <2>3. r \in SessionType
    BY <1>0 DEF SessionType
  <2>4. SessionShape(r) /\ r.at = ses[s].at /\ r.char = ses[s].char /\ r.world = ses[s].world /\ r.via = ses[s].via
    BY <1>0 DEF SessionType, SessionShape
  <2> HIDE DEF r
  <2> QED BY <1>s, <1>0, <1>1, <2>1, <2>2, <2>3, <2>4, WorkerGoesOn
<1> QED BY <1>2, <1>3

\* A recovery selects a server and makes it the session's client.
LEMMA KeepsRecoverSelect ==
  ASSUME Invariant, UNCHANGED visit, NEW n \in Workers, RecoverSelect(n)
  PROVE  Invariant'
<1>s. PICK s \in Sessions : s = workers[n].by
  BY OfWorker DEF RecoverSelect
<1>0. /\ workers[n] \in WorkerType /\ WorkerShape(workers[n]) /\ workers[n].at = "select"
      /\ ses[s] \in SessionType /\ SessionShape(ses[s]) /\ s # NoOne
  BY <1>s, OfWorker DEF RecoverSelect
<1>1. UNCHANGED <<visit, gone, safe, conns, up, registered, events, slips, shared, inputs>> /\ faults' \in Nat
  <2>1. UNCHANGED <<visit, gone, safe, conns, up, registered, events, slips, shared, inputs>> /\ (UNCHANGED faults \/ Fault)
    BY DEF RecoverSelect, worldVars, historyVars
  <2> QED BY <2>1 DEF Fault, Invariant, TypeOK, RestOK
<1>2. RestOK'
  BY <1>1 DEF Invariant, TypeOK, RestOK
<1>3. ASSUME NEW w \in up, workers' = [workers EXCEPT ![n].at = "connect", ![n].server = w],
             ses' = [ses EXCEPT ![workers[n].by].client = w]
      PROVE  Invariant'
  <2> DEFINE r == [ses[s] EXCEPT !.client = w]
             g == [workers[n] EXCEPT !.at = "connect", !.server = w]
  <2>1. w \in Worlds /\ ses' = [ses EXCEPT ![s] = r] /\ workers' = [workers EXCEPT ![n] = g]
    BY <1>s, <1>3 DEF Invariant, TypeOK, RestOK, SesOK, WorkersOK
  <2>2. /\ g \in WorkerType /\ WorkerShape(g) /\ g.by = s /\ g.char = workers[n].char /\ g.at = "connect" /\ g.server = w
    BY <1>s, <1>0, <2>1 DEF WorkerType, WorkerShape
  <2>3. /\ r \in SessionType /\ SessionShape(r) /\ r.at = ses[s].at /\ r.char = ses[s].char /\ r.world = ses[s].world
        /\ r.via = ses[s].via /\ r.client = w
    BY <1>0, <2>1 DEF SessionType, SessionShape
  <2> HIDE DEF r, g
  <2> QED BY <1>s, <1>0, <1>1, <1>2, <2>1, <2>2, <2>3, WorkerGoesOn
<1>4. CASE AttemptFails(n)
  BY <1>0, <1>1, <1>4, KeepsAttemptFails
<1> QED BY <1>3, <1>4 DEF RecoverSelect

\* A goroutine that has dialled waits for the worldserver it selected.
LEMMA KeepsWorkerDial ==
  ASSUME Invariant, UNCHANGED visit, NEW n \in Workers, WorkerDial(n)
  PROVE  Invariant'
<1>s. PICK s \in Sessions : s = workers[n].by
  BY OfWorker DEF WorkerDial
<1>0. /\ workers[n] \in WorkerType /\ WorkerShape(workers[n]) /\ workers[n].at = "connect"
      /\ ses[s] \in SessionType /\ SessionShape(ses[s]) /\ s # NoOne
  BY <1>s, OfWorker DEF WorkerDial
<1>1. UNCHANGED <<visit, gone, safe, conns, up, registered, events, slips, shared, inputs>> /\ faults' \in Nat
  <2>1. UNCHANGED <<visit, gone, safe, conns, up, registered, events, slips, shared, inputs>> /\ (UNCHANGED faults \/ Fault)
    BY DEF WorkerDial, worldVars, historyVars
  <2> QED BY <2>1 DEF Fault, Invariant, TypeOK, RestOK
<1>2. RestOK'
  BY <1>1 DEF Invariant, TypeOK, RestOK
<1>3. ASSUME workers' = [workers EXCEPT ![n].at = "await"], UNCHANGED ses PROVE Invariant'
  <2> DEFINE g == [workers[n] EXCEPT !.at = "await"]
  <2>1. workers' = [workers EXCEPT ![n] = g] /\ ses' = [ses EXCEPT ![s] = ses[s]]
    BY <1>3 DEF Invariant, TypeOK, SesOK, WorkersOK
  <2>2. /\ g \in WorkerType /\ WorkerShape(g) /\ g.by = s /\ g.char = workers[n].char /\ g.at = "await"
        /\ g.server = workers[n].server /\ g.kind = workers[n].kind
    BY <1>s, <1>0 DEF WorkerType, WorkerShape
  <2> HIDE DEF g
  <2> QED BY <1>s, <1>0, <1>1, <1>2, <2>1, <2>2, WorkerGoesOn
<1>4. CASE AttemptFails(n)
  BY <1>0, <1>1, <1>4, KeepsAttemptFails
<1> QED BY <1>3, <1>4 DEF WorkerDial

\* A wait that ends is a failed attempt.
LEMMA KeepsWaitEnds ==
  ASSUME Invariant, UNCHANGED visit, NEW n \in Workers, WaitEnds(n)
  PROVE  Invariant'
<1>1. /\ UNCHANGED <<gone, safe, conns, up, registered, events, slips, shared, inputs>> /\ faults' \in Nat
      /\ workers[n].at = "await" /\ AttemptFails(n)
  BY DEF WaitEnds, worldVars, historyVars, boundVars, Invariant, TypeOK, RestOK
<1> QED BY <1>1, KeepsAttemptFails

\* A goroutine opens a connection in a free place and holds it.
LEMMA KeepsWorkerConnect ==
  ASSUME Invariant, UNCHANGED visit, NEW n \in Workers, WorkerConnect(n)
  PROVE  Invariant'
<1>s. PICK s \in Sessions : s = workers[n].by
  BY OfWorker DEF WorkerConnect
<1>0. /\ workers[n] \in WorkerType /\ WorkerShape(workers[n]) /\ workers[n].at = "await"
      /\ ses[s] \in SessionType /\ SessionShape(ses[s]) /\ InOrder(s) /\ s # NoOne /\ Held(s) /\ 0 \notin Conns
      /\ Works(n, s) /\ ~Idle(s)
  BY <1>s, OfWorker DEF WorkerConnect
<1>1. faults' \in Nat /\ inputs' \in Nat
  BY DEF WorkerConnect, boundVars, Invariant, TypeOK, RestOK
<1>2. CASE Panic
  BY <1>1, <1>2, KeepsEndGateway DEF Panic, historyVars
<1>3. ASSUME CanOpen, conns' = [conns EXCEPT ![FreeConn] = Open(workers[n].by, workers[n].char, workers[n].server)],
             workers' = [workers EXCEPT ![n].at = "hand", ![n].conn = FreeConn],
             ses' = IF workers[n].kind = "recover" THEN [ses EXCEPT ![workers[n].by].current = workers[n].server] ELSE ses,
             UNCHANGED <<gone, safe, up, registered, events, historyVars>>
      PROVE  Invariant'
  <2>k. PICK k0 \in Conns : k0 = FreeConn
    BY <1>3, FreeConnIsFree
  <2>1. /\ ConnsOK' /\ conns[k0].by = NoOne /\ ~conns[k0].player
        /\ \A k \in Conns : k # k0 => conns'[k] = conns[k]
        /\ conns'[k0].by = s /\ conns'[k0].char = workers[n].char /\ conns'[k0].server = workers[n].server /\ conns'[k0].player
        /\ \A k \in Conns : conns'[k] = conns[k] \/ (conns[k].by \in {s, NoOne} /\ conns'[k].by \in {s, NoOne})
    <3>1. workers[n].char \in Characters \cup Nobody /\ workers[n].server \in Worlds
      BY <1>0 DEF WorkerType, WorkerShape
    <3>2. conns' = [conns EXCEPT ![FreeConn] = Open(s, workers[n].char, workers[n].server)]
      BY <1>s, <1>3
    <3>3. /\ ConnsOK' /\ conns[FreeConn].by = NoOne /\ ~conns[FreeConn].player
          /\ \A k \in Conns : k # FreeConn => conns'[k] = conns[k]
          /\ conns'[FreeConn].by = s /\ conns'[FreeConn].char = workers[n].char
          /\ conns'[FreeConn].server = workers[n].server /\ conns'[FreeConn].player
          /\ \A k \in Conns : conns'[k] = conns[k] \/ (conns[k].by \in {s, NoOne} /\ conns'[k].by \in {s, NoOne})
      <4>1. CanOpen
        BY <1>3
      <4>2. PICK c \in Characters \cup Nobody, w \in Worlds : c = workers[n].char /\ w = workers[n].server
        BY <3>1
      <4>3. conns' = [conns EXCEPT ![FreeConn] = Open(s, c, w)]
        BY <3>2, <4>2
      <4> QED BY <4>1, <4>2, <4>3, Opens
    <3> QED BY <2>k, <3>3
  <2> DEFINE g == [workers[n] EXCEPT !.at = "hand", !.conn = k0]
             r == IF workers[n].kind = "recover" THEN [ses[s] EXCEPT !.current = workers[n].server] ELSE ses[s]
  <2>2. workers' = [workers EXCEPT ![n] = g] /\ ses' = [ses EXCEPT ![s] = r]
    BY <1>s, <1>3, <2>k DEF Invariant, TypeOK, WorkersOK, SesOK
  <2>3. g \in WorkerType
    BY <1>0 DEF WorkerType
  <2>4. /\ g.by = s /\ g.at = "hand" /\ g.conn = k0 /\ g.char = workers[n].char /\ g.server = workers[n].server
        /\ g.kind = workers[n].kind /\ WorkerShape(g)
    BY <1>s, <1>0 DEF WorkerType, WorkerShape
  <2>5. r \in SessionType
    BY <1>0 DEF SessionType, WorkerType
  <2>6. /\ SessionShape(r) /\ r.at = ses[s].at /\ r.char = ses[s].char /\ r.world = ses[s].world
        /\ r.via = ses[s].via /\ r.client = ses[s].client /\ r.server = ses[s].server
    BY <1>0 DEF SessionType, SessionShape
  <2> HIDE DEF r, g
  <2>7. ses'[s] = r /\ \A t \in Sessions : t # s => ses'[t] = ses[t]
    BY <2>2, <2>5, <2>6, UpdateSes DEF Invariant, TypeOK
  <2>8. WorkersOK' /\ workers'[n] = g /\ \A m \in Workers : m # n => workers'[m] = workers[m]
    BY <2>2, <2>3, <2>4 DEF Invariant, TypeOK, WorkersOK
  <2>9. Owners' /\ RestOK'
    BY <1>1, <1>3, <2>6, <2>7, SameOwners DEF At, Invariant, TypeOK, RestOK, historyVars
  <2>10. InOrder(s)'
    <3>1. /\ \A m \in Workers : Works(m, s)' <=> Works(m, s)
          /\ \A m \in Workers : Hands(m, s)' <=> m = n \/ Hands(m, s)
          /\ \A k \in Conns : Plays(k, s)' <=> k = k0 \/ Plays(k, s)
          /\ (OnTime(s)' <=> OnTime(s)) /\ (OnScreen(s)' <=> OnScreen(s)) /\ (At(s, "ended")' <=> At(s, "ended"))
          /\ safe' = safe /\ slips' = slips /\ ~Hands(n, s)
      <4>1. /\ \A m \in Workers : Works(m, s)' <=> Works(m, s)
            /\ \A m \in Workers : Hands(m, s)' <=> m = n \/ Hands(m, s)
            /\ ~Hands(n, s)
        BY <1>0, <2>4, <2>8 DEF Works, Hands
      <4>2. \A k \in Conns : Plays(k, s)' <=> k = k0 \/ Plays(k, s)
        BY <2>1 DEF Plays
      <4>3. safe' = safe /\ slips' = slips
        BY <1>3 DEF historyVars
      <4> QED BY <2>6, <2>7, <4>1, <4>2, <4>3 DEF OnTime, OnScreen, At
    <3>2. Holdings(s) => Holdings(s)'
      <4>1. ASSUME Holdings(s), NEW m \in Workers, m # n, Hands(m, s)
            PROVE  workers'[m] = workers[m] /\ workers[m].conn # k0 /\ conns'[workers[m].conn] = conns[workers[m].conn]
        BY <1>0, <2>1, <2>8, <4>1 DEF Holdings, Held
      <4>2. ASSUME Holdings(s), NEW i \in 1..Len(safe[s])
            PROVE  safe[s][i].conn # k0 /\ conns'[safe[s][i].conn] = conns[safe[s][i].conn]
        BY <1>0, <2>1, <4>2 DEF Holdings, Held
      <4>3. ASSUME Holdings(s), ses[s].world # 0
            PROVE  ses[s].world # k0 /\ conns'[ses[s].world] = conns[ses[s].world]
        BY <1>0, <2>1, <4>3 DEF Holdings, Held
      <4> QED BY <1>0, <2>1, <2>4, <2>6, <2>7, <2>8, <3>1, <4>1, <4>2, <4>3 DEF Holdings
    <3>3. Holdings(s) /\ OneAtATime(s) => OneAtATime(s)'
      BY <1>0, <2>1, <2>4, <2>6, <2>7, <2>8, <3>1 DEF Holdings, OneAtATime, Held, At
    <3>4. OneAtATime(s) /\ ClientFollows(s) => ClientFollows(s)'
      BY <1>0, <2>4, <2>6, <2>7, <2>8, <3>1 DEF OneAtATime, ClientFollows, At
    <3>5. OneAtATime(s) /\ PlayersAreHeld(s) => PlayersAreHeld(s)'
      BY <1>0, <2>4, <2>6, <2>7, <2>8, <3>1 DEF OneAtATime, PlayersAreHeld, At
    <3>6. OnePlayer(s) => OnePlayer(s)'
      BY <1>0, <3>1 DEF OnePlayer
    <3> QED BY <1>0, <3>1, <3>2, <3>3, <3>4, <3>5, <3>6 DEF InOrder, OnTime
  <2>11. \A m \in Workers : workers'[m] = workers[m] \/ (workers[m].by \in {s, NoOne} /\ workers'[m].by \in {s, NoOne})
    BY <1>s, <2>4, <2>8
  <2> QED BY <1>3, <2>1, <2>2, <2>5, <2>6, <2>8, <2>9, <2>10, <2>11, SessionActs DEF historyVars
<1> QED BY <1>2, <1>3 DEF WorkerConnect

\* The connection a goroutine holds becomes the last in the session's queue.
LEMMA KeepsHandOver ==
  ASSUME Invariant, UNCHANGED visit, NEW n \in Workers, HandOver(n)
  PROVE  Invariant'
<1>s. PICK s \in Sessions : s = workers[n].by
  BY OfWorker DEF HandOver
<1>0. /\ workers[n] \in WorkerType /\ WorkerShape(workers[n]) /\ workers[n].at = "hand"
      /\ ses[s] \in SessionType /\ SessionShape(ses[s]) /\ InOrder(s) /\ s # NoOne /\ Held(s)
      /\ Works(n, s) /\ ~Idle(s) /\ Hands(n, s)
  BY <1>s, OfWorker DEF HandOver, Hands, Works
<1>1. CASE Panic
  BY <1>1, KeepsEndGateway DEF HandOver, Panic, historyVars, boundVars, Invariant, TypeOK, RestOK
<1>2. ASSUME safe' = [safe EXCEPT ![workers[n].by] =
                        Append(@, [kind |-> workers[n].kind, conn |-> workers[n].conn, server |-> workers[n].server])],
             workers' = [workers EXCEPT ![n] = NoWorker], UNCHANGED <<ses, gone, worldVars, registered, events, historyVars>>
      PROVE  Invariant'
  <2> DEFINE e == [kind |-> workers[n].kind, conn |-> workers[n].conn, server |-> workers[n].server]
  <2>1. /\ e \in HandoverType /\ e.kind = workers[n].kind /\ e.conn = workers[n].conn /\ e.server = workers[n].server
    BY <1>0 DEF HandoverType, WorkerType, WorkerShape
  <2> HIDE DEF e
  <2>2. safe \in [Sessions -> Seq(HandoverType)] /\ safe[s] \in Seq(HandoverType)
    BY DEF Invariant, TypeOK, RestOK
  <2>3. safe' = [safe EXCEPT ![s] = Append(safe[s], e)]
    BY <1>s, <1>2 DEF e
  <2>4. /\ safe'[s] = Append(safe[s], e) /\ \A t \in Sessions : t # s => safe'[t] = safe[t]
        /\ Append(safe[s], e) \in Seq(HandoverType)
    BY <2>1, <2>2, <2>3
  <2>5. /\ Len(safe'[s]) = Len(safe[s]) + 1 /\ safe'[s][Len(safe[s]) + 1] = e /\ Len(safe[s]) \in Nat
        /\ \A i \in 1..Len(safe[s]) : safe'[s][i] = safe[s][i]
    BY <2>1, <2>2, <2>4
  <2>6. safe' \in [Sessions -> Seq(HandoverType)]
    BY <2>2, <2>3, <2>4
  <2>7. /\ WorkersOK' /\ workers'[n].by = NoOne /\ \A m \in Workers : m # n => workers'[m] = workers[m]
    BY <1>2 DEF Invariant, TypeOK, WorkersOK, NoWorker, WorkerType, WorkerShape, Nobody
  <2>8. RestOK' /\ ConnsOK' /\ Owners'
    BY <1>2, <2>6, SameOwners DEF HandOver, Invariant, TypeOK, RestOK, ConnsOK, worldVars, historyVars, boundVars, At
  <2>9. ses' = [ses EXCEPT ![s] = ses[s]] /\ ses' = ses /\ conns' = conns /\ slips' = slips
    BY <1>2 DEF Invariant, TypeOK, SesOK, worldVars, historyVars
  <2>10. InOrder(s)'
    <3>1. /\ \A m \in Workers : Works(m, s)' <=> m # n /\ Works(m, s)
          /\ \A m \in Workers : Hands(m, s)' <=> m # n /\ Hands(m, s)
          /\ \A k \in Conns : Plays(k, s)' <=> Plays(k, s)
          /\ (OnTime(s)' <=> OnTime(s)) /\ (OnScreen(s)' <=> OnScreen(s))
          /\ \A a \in {"ended", "select", "connect"} : At(s, a)' <=> At(s, a)
      BY <1>0, <2>7, <2>9 DEF Works, Hands, Plays, OnTime, OnScreen, At
    <3>2. \A i \in 1..Len(safe'[s]) : (i \in 1..Len(safe[s]) /\ safe'[s][i] = safe[s][i])
                                      \/ (i = Len(safe[s]) + 1 /\ safe'[s][i] = e)
      BY <2>5
    <3>3. Holdings(s) => Holdings(s)'
      BY <1>0, <2>1, <2>7, <2>9, <3>1, <3>2 DEF Holdings
    <3>4. Holdings(s) /\ OneAtATime(s) => OneAtATime(s)' /\ Len(safe[s]) = 0
      BY <1>0, <2>1, <2>5, <2>7, <2>9, <3>1, <3>2 DEF Holdings, OneAtATime
    <3>5. OneAtATime(s) /\ ClientFollows(s) => ClientFollows(s)'
      BY <1>0, <2>1, <2>7, <2>9, <3>1, <3>2 DEF OneAtATime, ClientFollows
    <3>6. PlayersAreHeld(s) => PlayersAreHeld(s)'
      <4>1. ASSUME NEW k \in Conns, Plays(k, s), PlayersAreHeld(s)
            PROVE  \/ k = ses'[s].world
                   \/ \E m \in Workers : Hands(m, s)' /\ workers'[m].conn = k
                   \/ \E i \in 1..Len(safe'[s]) : safe'[s][i].conn = k
        <5>1. CASE k = ses[s].world
          BY <2>9, <5>1
        <5>2. CASE k = workers[n].conn
          <6>1. Len(safe[s]) + 1 \in 1..Len(safe'[s]) /\ safe'[s][Len(safe[s]) + 1].conn = k
            BY <2>1, <2>5, <5>2
          <6> QED BY <6>1
        <5>3. ASSUME NEW m \in Workers, m # n, Hands(m, s), workers[m].conn = k
              PROVE  \E q \in Workers : Hands(q, s)' /\ workers'[q].conn = k
          BY <2>7, <3>1, <5>3
        <5>4. ASSUME NEW i \in 1..Len(safe[s]), safe[s][i].conn = k
              PROVE  \E j \in 1..Len(safe'[s]) : safe'[s][j].conn = k
          <6>1. i \in 1..Len(safe'[s]) /\ safe'[s][i].conn = k
            BY <2>5, <5>4
          <6> QED BY <6>1
        <5> QED BY <4>1, <5>1, <5>2, <5>3, <5>4 DEF PlayersAreHeld
      <4> QED BY <3>1, <4>1 DEF PlayersAreHeld
    <3>7. OnePlayer(s) => OnePlayer(s)'
      BY <3>1 DEF OnePlayer
    <3> QED BY <1>0, <2>9, <3>1, <3>3, <3>4, <3>5, <3>6, <3>7 DEF InOrder, OnTime
  <2>11. \A m \in Workers : workers'[m] = workers[m] \/ (workers[m].by \in {s, NoOne} /\ workers'[m].by \in {s, NoOne})
    BY <1>s, <2>7
  <2> QED BY <1>0, <2>4, <2>7, <2>8, <2>9, <2>10, <2>11, SessionActs
<1> QED BY <1>1, <1>2 DEF HandOver, Finish

\* A session takes the socket at the head of its queue.
LEMMA KeepsTakeSocket ==
  ASSUME Invariant, UNCHANGED visit, NEW s \in Sessions, TakeSocket(s)
  PROVE  Invariant'
<1> DEFINE f == Head(safe[s])
           taken == IF ses[s].char = NoOne THEN ses[s]
                    ELSE IF f.kind = "recover" THEN [ses[s] EXCEPT !.world = f.conn]
                    ELSE [ses[s] EXCEPT !.world = f.conn, !.client = f.server, !.current = f.server]
<1>0. /\ ses[s] \in SessionType /\ SessionShape(ses[s]) /\ InOrder(s) /\ s # NoOne /\ Held(s) /\ 0 \notin Conns
      /\ ses[s].at = "loop" /\ safe[s] \in Seq(HandoverType) /\ safe[s] # <<>>
  BY OfSession DEF TakeSocket, At
<1>1. CASE Panic
  BY <1>1, KeepsEndGateway DEF TakeSocket, Panic, historyVars, boundVars, Invariant, TypeOK, RestOK
<1>2. ASSUME ses' = [ses EXCEPT ![s] = taken], safe' = [safe EXCEPT ![s] = Tail(@)],
             UNCHANGED <<gone, workers, worldVars, registered, events, historyVars>>
      PROVE  Invariant'
  <2>f. PICK h \in HandoverType : h = f /\ h = safe[s][1]
    BY <1>0
  <2>r. PICK r : r = taken
    OBVIOUS
  <2>1. UNCHANGED <<visit, gone, workers, conns, up, registered, events, slips, shared, inputs, faults>>
    BY <1>2 DEF TakeSocket, worldVars, historyVars, boundVars
  <2>2. /\ r \in SessionType /\ r.at = "loop" /\ r.char = ses[s].char /\ r.via = ses[s].via
        /\ ses[s].char = NoOne => r = ses[s]
        /\ ses[s].char # NoOne => r.world = h.conn /\ r.client = IF h.kind = "recover" THEN ses[s].client ELSE h.server
    <3>1. CASE ses[s].char = NoOne
      BY <1>0, <2>r, <3>1 DEF SessionType
    <3>2. CASE ses[s].char # NoOne /\ h.kind = "recover"
      <4>1. r = [ses[s] EXCEPT !.world = h.conn]
        BY <2>f, <2>r, <3>2
      <4> QED BY <1>0, <3>2, <4>1 DEF SessionType, HandoverType
    <3>3. CASE ses[s].char # NoOne /\ h.kind # "recover"
      <4>1. r = [ses[s] EXCEPT !.world = h.conn, !.client = h.server, !.current = h.server]
        BY <2>f, <2>r, <3>3
      <4> QED BY <1>0, <3>3, <4>1 DEF SessionType, HandoverType
    <3> QED BY <3>1, <3>2, <3>3
  <2>3. SessionShape(r)
    BY <1>0, <2>2 DEF SessionShape
  <2>4. ses' = [ses EXCEPT ![s] = r] /\ ses'[s] = r /\ \A t \in Sessions : t # s => ses'[t] = ses[t]
    BY <1>2, <2>r, <2>2, <2>3, UpdateSes DEF Invariant, TypeOK
  <2>5. /\ safe'[s] = Tail(safe[s]) /\ \A t \in Sessions : t # s => safe'[t] = safe[t]
        /\ Tail(safe[s]) \in Seq(HandoverType) /\ safe' \in [Sessions -> Seq(HandoverType)]
    BY <1>0, <1>2 DEF Invariant, TypeOK, RestOK
  <2>6. /\ Len(safe[s]) \in Nat /\ 1 \in 1..Len(safe[s]) /\ Len(safe'[s]) = Len(safe[s]) - 1
        /\ \A i \in 1..Len(safe'[s]) : i + 1 \in 1..Len(safe[s]) /\ safe'[s][i] = safe[s][i + 1]
    BY <1>0, <2>5
  <2>7. RestOK' /\ ConnsOK' /\ WorkersOK'
    BY <2>1, <2>5 DEF Invariant, TypeOK, RestOK, ConnsOK, WorkersOK
  <2>8. Owners'
    BY <1>0, <2>1, <2>2, <2>4, SameOwners DEF At, Invariant
  <2>9. InOrder(s)'
    <3>1. /\ \A n \in Workers : (Works(n, s)' <=> Works(n, s)) /\ (Hands(n, s)' <=> Hands(n, s))
          /\ \A k \in Conns : Plays(k, s)' <=> Plays(k, s)
          /\ (OnTime(s)' <=> OnTime(s)) /\ (OnScreen(s)' <=> OnScreen(s)) /\ ~At(s, "ended") /\ ~Idle(s)
      BY <1>0, <2>1, <2>2, <2>4 DEF Works, Hands, Plays, OnTime, OnScreen, At, Idle
    <3>2. Holdings(s)
      BY <1>0, <3>1 DEF InOrder
    <3>3. Holdings(s)'
      <4>0. ASSUME NEW i \in 1..Len(safe'[s])
            PROVE  /\ conns[safe'[s][i].conn].by = s /\ safe'[s][i].conn # ses[s].world /\ safe'[s][i].conn # safe[s][1].conn
                   /\ conns[safe'[s][i].conn].server = safe'[s][i].server
                   /\ \A n \in Workers : Hands(n, s) => workers[n].conn # safe'[s][i].conn
        <5>1. PICK j \in 1..Len(safe[s]) : j = i + 1 /\ safe'[s][i] = safe[s][j]
          BY <2>6
        <5>2. j # 1
          BY <2>6, <5>1
        <5>3. /\ conns[safe[s][j].conn].by = s /\ safe[s][j].conn # ses[s].world
              /\ conns[safe[s][j].conn].server = safe[s][j].server
              /\ \A n \in Workers : Hands(n, s) => workers[n].conn # safe[s][j].conn
          BY <3>2 DEF Holdings
        <5>4. safe[s][j].conn # safe[s][1].conn
          BY <2>6, <3>2, <5>2 DEF Holdings
        <5> QED BY <5>1, <5>3, <5>4
      <4>1. /\ ses'[s].world # 0 => conns'[ses'[s].world].by = s
            /\ \A i \in 1..Len(safe'[s]) : safe'[s][i].conn # ses'[s].world
            /\ \A n \in Workers : Hands(n, s) => workers[n].conn # ses'[s].world
        <5>1. CASE ses[s].char = NoOne
          BY <2>1, <2>2, <2>4, <3>2, <4>0, <5>1 DEF Holdings
        <5>2. CASE ses[s].char # NoOne
          <6>1. ses'[s].world = safe[s][1].conn
            BY <2>f, <2>2, <2>4, <5>2
          <6> QED BY <2>1, <2>6, <3>2, <4>0, <6>1 DEF Holdings
        <5> QED BY <5>1, <5>2
      <4>2. \A i, j \in 1..Len(safe'[s]) : safe'[s][i].conn = safe'[s][j].conn => i = j
        <5> SUFFICES ASSUME NEW i \in 1..Len(safe'[s]), NEW j \in 1..Len(safe'[s]), safe'[s][i].conn = safe'[s][j].conn
                     PROVE  i = j
          OBVIOUS
        <5>1. PICK i1 \in 1..Len(safe[s]) : i1 = i + 1 /\ safe'[s][i] = safe[s][i1]
          BY <2>6
        <5>2. PICK j1 \in 1..Len(safe[s]) : j1 = j + 1 /\ safe'[s][j] = safe[s][j1]
          BY <2>6
        <5>3. i1 = j1
          BY <3>2, <5>1, <5>2 DEF Holdings
        <5> QED BY <2>6, <5>1, <5>2, <5>3
      <4> QED BY <2>1, <3>1, <3>2, <4>0, <4>1, <4>2 DEF Holdings
    <3>4. ASSUME OnTime(s)
          PROVE  /\ OneAtATime(s)' /\ Idle(s)' /\ ses[s].world = 0 /\ ses[s].char # NoOne /\ Len(safe[s]) = 1
                 /\ \A n \in Workers : ~Works(n, s)
      <4>1. /\ OneAtATime(s)
        BY <1>0, <3>1, <3>4 DEF InOrder
      <4>2. ses[s].world = 0 /\ ~OnScreen(s) /\ ses[s].char # NoOne
        BY <3>1, <4>1 DEF OneAtATime, OnScreen
      <4>3. Len(safe[s]) = 1
        <5>1. Len(safe[s]) <= 1
          BY <4>1 DEF OneAtATime
        <5>2. PICK l \in Nat : l = Len(safe[s])
          BY <2>6
        <5>3. 1 \in 1..l /\ l <= 1
          BY <2>6, <5>1, <5>2
        <5>4. l = 1
          BY <5>3
        <5> QED BY <5>2, <5>4
      <4>4. safe'[s] = <<>> /\ \A n \in Workers : ~Works(n, s)
        BY <1>0, <2>5, <2>6, <4>1, <4>3 DEF OneAtATime
      <4>5. Idle(s)'
        BY <3>1, <4>4 DEF Idle
      <4>6. conns'[ses'[s].world].char = ses'[s].char
        BY <2>f, <2>1, <2>2, <2>4, <2>6, <4>1, <4>2 DEF OneAtATime
      <4>7. OneAtATime(s)'
        BY <3>1, <4>2, <4>4, <4>5, <4>6 DEF OneAtATime
      <4> QED BY <4>2, <4>3, <4>4, <4>5, <4>7
    <3>5. slips[s] = {} => ClientFollows(s)'
      <4>1. slips[s] = {} => ClientFollows(s) /\ OnTime(s)
        BY <1>0, <3>1 DEF InOrder, OnTime
      <4>2. slips[s] = {} => conns'[ses'[s].world].server = ses'[s].client
        BY <2>f, <2>1, <2>2, <2>4, <2>6, <3>2, <3>4, <4>1 DEF ClientFollows, Holdings
      <4> QED BY <2>2, <2>4, <3>4, <4>1, <4>2 DEF ClientFollows, Idle, At
    <3>6. slips[s] \cap {"late", "stranded"} = {} => PlayersAreHeld(s)'
      <4>1. slips[s] \cap {"late", "stranded"} = {} => PlayersAreHeld(s) /\ OnTime(s)
        BY <1>0, <3>1 DEF InOrder, OnTime
      <4>2. ASSUME NEW k \in Conns, Plays(k, s), PlayersAreHeld(s), OnTime(s) PROVE k = ses'[s].world
        <5>1. k # ses[s].world /\ \A n \in Workers : ~Hands(n, s)
          BY <1>0, <3>4, <4>2 DEF Hands, Works
        <5>2. PICK i \in 1..Len(safe[s]) : safe[s][i].conn = k
          BY <4>2, <5>1 DEF PlayersAreHeld
        <5>3. i = 1
          <6>1. Len(safe[s]) = 1
            BY <3>4, <4>2
          <6> QED BY <5>2, <6>1
        <5> QED BY <2>f, <2>2, <2>4, <3>4, <4>2, <5>2, <5>3
      <4> QED BY <2>2, <2>4, <3>1, <4>1, <4>2 DEF PlayersAreHeld, At
    <3>7. OnePlayer(s) => OnePlayer(s)'
      BY <3>1 DEF OnePlayer
    <3> QED BY <1>0, <2>1, <3>1, <3>3, <3>4, <3>5, <3>6, <3>7 DEF InOrder, OnTime
  <2> QED BY <2>1, <2>2, <2>3, <2>4, <2>5, <2>7, <2>8, <2>9, SessionActs
<1> QED BY <1>1, <1>2 DEF TakeSocket

-----------------------------------------------------------------------------
(* The invariant is kept: events. *)

\* Only the registered owner of a character gets its events, and it plays it.
LEMMA KeepsNewEvent ==
  ASSUME Invariant, UNCHANGED visit, NEW c \in Characters, NewEvent(c)
  PROVE  Invariant'
<1>1. /\ UNCHANGED <<ses, gone, workers, safe, conns, up, registered, slips, shared, faults>> /\ inputs' = inputs + 1
      /\ events' = [events EXCEPT ![registered[c]] = @ \cup {c}]
  BY DEF NewEvent, Input, sessionVars, worldVars, historyVars
<1>2. PICK s \in Sessions : s = registered[c]
  BY DEF NewEvent, Invariant, TypeOK, RestOK, Nobody
<1>3. events \in [Sessions -> SUBSET Characters]
  BY DEF Invariant, TypeOK, RestOK
<1>4. events' = [events EXCEPT ![s] = @ \cup {c}] /\ events' \in [Sessions -> SUBSET Characters]
  BY <1>1, <1>2, <1>3
<1>5. TypeOK'
  BY <1>1, <1>4 DEF Invariant, TypeOK, SesOK, WorkersOK, ConnsOK, RestOK
<1>6. Owners'
  <2>1. ses[s].char = c
    BY <1>2 DEF Invariant, Owners
  <2>2. ASSUME NEW t \in Sessions, ~At(t, "announce")'
        PROVE  events'[t] \subseteq {ses'[t].char} \/ ses'[t].char = NoOne
    BY <1>1, <1>3, <1>4, <2>1, <2>2 DEF Invariant, Owners, At
  <2> QED BY <1>1, <2>2 DEF Invariant, Owners, At
<1>7. ASSUME NEW t \in Sessions PROVE InOrder(t)'
  BY <1>1, Untouched DEF Invariant, AllInOrder
<1> QED BY <1>5, <1>6, <1>7 DEF Invariant, AllInOrder

\* An event that is handled is gone from the channel, or the gateway is.
LEMMA KeepsHandleEvent ==
  ASSUME Invariant, UNCHANGED visit, NEW s \in Sessions, HandleEvent(s)
  PROVE  Invariant'
<1>1. CASE Panic
  BY <1>1, KeepsEndGateway DEF HandleEvent, Panic, historyVars, boundVars, Invariant, TypeOK, RestOK
<1>2. ASSUME NEW c \in events[s], events' = [events EXCEPT ![s] = @ \ {c}],
             UNCHANGED <<sessionVars, worldVars, registered, historyVars, boundVars>>
      PROVE  Invariant'
  <2>1. UNCHANGED <<ses, gone, workers, safe, conns, up, registered, slips, shared, inputs, faults>>
    BY <1>2 DEF sessionVars, worldVars, historyVars, boundVars
  <2>2. events' \in [Sessions -> SUBSET Characters] /\ \A t \in Sessions : events'[t] \subseteq events[t]
    BY <1>2 DEF Invariant, TypeOK, RestOK
  <2>3. TypeOK'
    BY <2>1, <2>2 DEF Invariant, TypeOK, SesOK, WorkersOK, ConnsOK, RestOK
  <2>4. Owners'
    BY <2>1, <2>2, SameOwners DEF Invariant, At
  <2>5. ASSUME NEW t \in Sessions PROVE InOrder(t)'
    BY <2>1, Untouched DEF Invariant, AllInOrder
  <2> QED BY <2>3, <2>4, <2>5 DEF Invariant, AllInOrder
<1> QED BY <1>1, <1>2 DEF HandleEvent

-----------------------------------------------------------------------------
(* The theorems. *)

\* Nobody has come and nothing is connected.
LEMMA InvariantInit == Init => Invariant
<1> SUFFICES ASSUME Init PROVE Invariant
  OBVIOUS
<1>1. NoSession \in SessionType /\ SessionShape(NoSession) /\ NoSession.char = NoOne /\ NoSession.world = 0
  BY DEF NoSession, SessionType, SessionShape, Nobody
<1>2. Ended \in SessionType /\ SessionShape(Ended) /\ Ended.char = NoOne /\ Ended.world = 0
  BY DEF Ended, NoSession, SessionType, SessionShape, Nobody
<1>3. SesOK /\ \A s \in Sessions : ses[s].char = NoOne /\ ses[s].world = 0 /\ ses[s].at \in {"offline", "ended"}
  BY <1>1, <1>2 DEF Init, SesOK, NoSession, Ended
<1>4. WorkersOK /\ ConnsOK
  BY ConnTypes DEF Init, WorkersOK, ConnsOK, WorkerType, WorkerShape, NoWorker, Nobody
<1>5. RestOK
  <2>1. visit \in Visits /\ visit.worlds \subseteq Worlds /\ gone \subseteq Sessions
    BY GatewayAssumption DEF Init
  <2>2. /\ safe \in [Sessions -> Seq(HandoverType)] /\ registered \in [Characters -> Sessions \cup Nobody]
        /\ events \in [Sessions -> SUBSET Characters]
    BY DEF Init, Nobody
  <2> QED BY <2>1, <2>2 DEF Init, RestOK
<1>6. Owners
  BY <1>3, GatewayAssumption DEF Init, Owners
<1>7. ASSUME NEW s \in Sessions PROVE InOrder(s)
  <2>0. s # NoOne
    BY GatewayAssumption
  <2>1. Idle(s) /\ \A k \in Conns : ~Plays(k, s)
    BY <2>0 DEF Init, Idle, Works, Plays, NoWorker, NoConn
  <2>2. Holdings(s) /\ OneAtATime(s) /\ ClientFollows(s) /\ PlayersAreHeld(s) /\ OnePlayer(s)
    BY <1>3, <2>1 DEF Holdings, OneAtATime, ClientFollows, PlayersAreHeld, OnePlayer, Idle, Works, Hands, At
  <2> QED BY <2>2 DEF InOrder
<1> QED BY <1>3, <1>4, <1>5, <1>6, <1>7 DEF Invariant, TypeOK, AllInOrder

\* Every step keeps the invariant.
LEMMA InvariantNext == Invariant /\ [Next /\ UNCHANGED visit]_<<visit, vars>> => Invariant'
<1> SUFFICES ASSUME Invariant, [Next /\ UNCHANGED visit]_<<visit, vars>> PROVE Invariant'
  OBVIOUS
<1>1. ASSUME UNCHANGED visit, NEW s \in Sessions, ClientStep(s) PROVE Invariant'
  BY <1>1, KeepsAuthSession, KeepsLogin, KeepsCharactersList, KeepsClientLeaves, KeepsInterceptNewWorld,
     KeepsHandleReadyForRedirectRequest, KeepsSwitchLayer, KeepsEnterBattleground, KeepsInterceptMoveWorldPortAck
  DEF ClientStep
<1>2. ASSUME UNCHANGED visit, NEW s \in Sessions, SessionStep(s) PROVE Invariant'
  BY <1>2, KeepsSelectGameServer, KeepsConnectToGameServer, KeepsAnnounceLogin, KeepsOnLoggedOut,
     KeepsPrepareForRedirect, KeepsWorldSocketClosed, KeepsTakeSocket, KeepsForwardToNobody, KeepsHandlePacketsEnds,
     KeepsHandleEvent
  DEF SessionStep
<1>3. ASSUME UNCHANGED visit, NEW n \in Workers, WorkerStep(n) PROVE Invariant'
  BY <1>3, KeepsRecoverSelect, KeepsWorkerDial, KeepsWaitEnds, KeepsHandOver DEF WorkerStep
<1>4. ASSUME UNCHANGED visit, GatewayDies PROVE Invariant'
  BY <1>4, KeepsEndGateway DEF GatewayDies, Fault, historyVars, Invariant, TypeOK, RestOK
<1>5. ASSUME UNCHANGED <<visit, vars>> PROVE Invariant'
  <2>1. UNCHANGED <<visit, ses, gone, workers, safe, conns, up, registered, events, slips, shared, inputs, faults>>
    BY <1>5 DEF vars, sessionVars, worldVars, historyVars, boundVars
  <2>2. TypeOK'
    BY <2>1 DEF Invariant, TypeOK, SesOK, WorkersOK, ConnsOK, RestOK
  <2>3. Owners'
    BY <2>1, SameOwners DEF Invariant, At
  <2>4. ASSUME NEW t \in Sessions PROVE InOrder(t)'
    BY <2>1, Untouched DEF Invariant, AllInOrder
  <2> QED BY <2>2, <2>3, <2>4 DEF Invariant, AllInOrder
<1> QED BY <1>1, <1>2, <1>3, <1>4, <1>5, KeepsContextCloses, KeepsWorldDies, KeepsWorkerConnect, KeepsNewEvent DEF Next

\* The invariant holds of every reachable state.
LEMMA InvariantHolds == Spec => []Invariant
BY InvariantInit, InvariantNext, PTL DEF Spec

\* Every variable keeps its type, and the fields of a session and of a
\* goroutine are what its next step needs: a handler that connects has a
\* character and a worldserver, a login starts from the character screen, a
\* session without a character has no world socket.
THEOREM TypeCorrect == Spec => []TypeOK
<1>1. Invariant => TypeOK
  BY DEF Invariant
<1> QED BY <1>1, InvariantHolds, PTL

\* EventsReachOwner holds for any clients, characters and worldservers: of the
\* broadcaster's registrations and of what is in the channels of the sessions, also
\* after a logout, until the next login replaces the channel.
THEOREM OwnersAreReached == Spec => []EventsReachOwner
<1>1. Invariant => EventsReachOwner
  BY DEF Invariant, Owners, EventsReachOwner, At
<1> QED BY <1>1, InvariantHolds, PTL

\* SocketMatchesCharacter holds for any number of clients, worldservers,
\* connections, goroutines and faults.
THEOREM SocketsMatch == Spec => []SocketMatchesCharacter
<1>1. Invariant => SocketMatchesCharacter
  <2> SUFFICES ASSUME Invariant, NEW s \in Sessions
               PROVE  /\ At(s, "loop") /\ ses[s].world # 0 =>
                            /\ ses[s].char # NoOne
                            /\ "late" \notin slips[s] => conns[ses[s].world].char = ses[s].char
                            /\ slips[s] = {} => conns[ses[s].world].server = ses[s].client
                      /\ slips[s] \cap {"late", "stranded"} = {} =>
                            Cardinality({k \in Conns : conns[k].by = s /\ conns[k].player}) <= 1
    BY DEF SocketMatchesCharacter
  <2>1. SessionShape(ses[s]) /\ InOrder(s)
    BY OfSession
  <2>2. ASSUME At(s, "loop"), ses[s].world # 0
        PROVE  /\ ses[s].char # NoOne
               /\ "late" \notin slips[s] => conns[ses[s].world].char = ses[s].char
               /\ slips[s] = {} => conns[ses[s].world].server = ses[s].client
    BY <2>1, <2>2 DEF SessionShape, InOrder, OneAtATime, ClientFollows, OnTime, At
  <2>3. ASSUME slips[s] \cap {"late", "stranded"} = {}
        PROVE  Cardinality({k \in Conns : conns[k].by = s /\ conns[k].player}) <= 1
    <3> DEFINE P == {k \in Conns : conns[k].by = s /\ conns[k].player}
    <3>1. \A k, j \in P : k = j
      BY <2>1, <2>3 DEF InOrder, OnePlayer, Plays
    <3> HIDE DEF P
    <3>2. CASE P = {}
      BY <3>2, FS_EmptySet DEF P
    <3>3. CASE P # {}
      <4>1. PICK k \in P : P = {k}
        BY <3>1, <3>3
      <4>2. Cardinality(P) = 1
        BY <4>1, FS_Singleton
      <4> QED BY <4>2 DEF P
    <3> QED BY <3>2, <3>3
  <2> QED BY <2>2, <2>3
<1> QED BY <1>1, InvariantHolds, PTL
=============================================================================
