--------------------------- MODULE GatewaySession ---------------------------
(***************************************************************************)
(* The sessions of game clients in a gateway (apps/gateway), from the      *)
(* character screen into the world and between worldservers.               *)
(*                                                                         *)
(* A session handles one packet, event or function at a time; goroutines   *)
(* that recover or redirect it work beside it, on the same fields.  A      *)
(* handler that waits for another process is several steps.  What a client *)
(* is shown, the guild, mail, group and channel calls of a login or a      *)
(* redirect, and the window in which the gateway answers name queries are  *)
(* left out.                                                               *)
(***************************************************************************)
EXTENDS Naturals, Sequences, FiniteSets

CONSTANTS
    Sessions,     \* client connections, each used once
    Characters, Worlds,
    NoOne,
    ShowGameserverConnChange, \* the setting ShowGameserverConnChangeToClient
    Visits,       \* which clients come and what they do; see visit
    MaxConns,     \* bound: world connections at a time
    MaxWorkers,   \* bound: goroutines beside the sessions at a time
    MaxFaults     \* bound: deaths of a process, refused or failed calls

ASSUME GatewayAssumption ==
    /\ {MaxConns, MaxWorkers, MaxFaults} \subseteq Nat
    /\ NoOne \notin Sessions \cup Characters \cup Worlds
    /\ ShowGameserverConnChange \in BOOLEAN
    /\ \A v \in Visits : /\ v.clients \subseteq Sessions /\ v.characters \subseteq Characters
                        /\ v.addressed \subseteq Characters /\ v.worlds \subseteq Worlds /\ v.inputs \in Nat

VARIABLES
    visit,      \* clients: the sessions there are; characters: those they choose from;
                \* addressed: those that events come for; worlds: the worldservers that run
                \* at first; inputs, a bound: what clients, worldservers and the other
                \* services ask of all sessions together
    ses,        \* ses[s]: GameSession
    gone,       \* sessions whose client has left: their context is cancelled
    workers,    \* goroutines of onWorldSocketClosed and InterceptMoveWorldPortAck
    safe,       \* safe[s]: sessionSafeFuChan
    conns,      \* connections to worldservers
    up,         \* worldservers that run
    registered, \* registered[c]: the session whose channel the broadcaster has
    events,     \* events[s]: the characters whose events are in s.eventsChan, or with a
                \* sender that has looked this channel up
    slips,      \* history: slips[s], what keeps a session from being in order
    shared,     \* history: characters two sessions had at once
    inputs, faults

sessionVars == <<ses, gone, workers, safe>>
worldVars == <<conns, up>>
historyVars == <<slips, shared>>
boundVars == <<inputs, faults>>
vars == <<sessionVars, worldVars, registered, events, historyVars, boundVars>>

Conns == 1..MaxConns
Workers == 1..MaxWorkers

\* world: worldSocket; client: gameServerGRPCClient; current: currentGameServerID;
\* at, via: the handler's next step and which handler it is; goal, server: the
\* character and the worldserver it connects; told: the client has been sent
\* back to the character screen.
NoSession == [at |-> "offline", char |-> NoOne, world |-> 0, client |-> NoOne, current |-> NoOne,
              teleport |-> FALSE, told |-> FALSE, via |-> "none", goal |-> NoOne, server |-> NoOne]
NoConn == [by |-> NoOne, char |-> NoOne, server |-> NoOne, open |-> FALSE, player |-> FALSE]
NoWorker == [kind |-> "none", by |-> NoOne, char |-> NoOne, at |-> "idle", left |-> 0, server |-> NoOne, conn |-> 0]

At(s, step) == ses[s].at = step
Live(s) == ses[s].at \notin {"offline", "ended"}
Goto(s, step) == ses' = [ses EXCEPT ![s].at = step]
Input == inputs < visit.inputs /\ inputs' = inputs + 1
Fault == faults < MaxFaults /\ faults' = faults + 1
Slip(s, reasons) == slips' = [slips EXCEPT ![s] = @ \cup reasons]

\* A goroutine connects the session, or has left a connection behind.
Reconnecting(s) ==
    \/ safe[s] # <<>> \/ \E n \in Workers : workers[n].by = s
    \/ \E k \in Conns : conns[k].by = s /\ conns[k].player /\ k # ses[s].world
Late(s) == IF Reconnecting(s) THEN {"late"} ELSE {}

Closed(r) == [r EXCEPT !.open = FALSE, !.player = FALSE]
Close(k) == conns' = [conns EXCEPT ![k] = NoConn]
\* A new connection, over which CMsgPlayerLogin has been sent.
FreeConn == CHOOSE k \in Conns : conns[k] = NoConn /\ \A j \in Conns : j < k => conns[j] # NoConn
Open(s, c, w) == [by |-> s, char |-> c, server |-> w, open |-> TRUE, player |-> TRUE]
CanOpen == \E k \in Conns : conns[k] = NoConn

StartWorker(r) ==
    LET n == CHOOSE i \in Workers : workers[i] = NoWorker /\ \A j \in Workers : j < i => workers[j] # NoWorker
    IN  workers' = [workers EXCEPT ![n] = r]
CanStart == \E n \in Workers : workers[n] = NoWorker
Finish(n) == workers' = [workers EXCEPT ![n] = NoWorker]

\* What is left of a session that ended: its connections, until they close.
Ended == [NoSession EXCEPT !.at = "ended"]
Forget(s) == conns' = [k \in Conns |-> IF conns[k].by = s /\ ~conns[k].open THEN NoConn ELSE conns[k]]
\* Nobody reads its channel any more.
Unread(s) == events' = [events EXCEPT ![s] = {}]

Init ==
    /\ visit \in Visits
    /\ ses = [s \in Sessions |-> IF s \in visit.clients THEN NoSession ELSE Ended] /\ gone = Sessions \ visit.clients
    /\ workers = [n \in Workers |-> NoWorker] /\ safe = [s \in Sessions |-> <<>>]
    /\ conns = [k \in Conns |-> NoConn] /\ up = visit.worlds
    /\ registered = [c \in Characters |-> NoOne] /\ events = [s \in Sessions |-> {}]
    /\ slips = [s \in Sessions |-> {}] /\ shared = {}
    /\ inputs = 0 /\ faults = 0

-----------------------------------------------------------------------------
(* The end of the gateway process. *)

\* The gateway is started again without its sessions, goroutines, channels and
\* connections; clients that have not come yet may come.
EndGateway ==
    LET served == {s \in Sessions : ~At(s, "offline")}
    IN  /\ ses' = [s \in Sessions |-> IF s \in served THEN Ended ELSE ses[s]]
        /\ gone' = gone \cup served
        /\ workers' = [n \in Workers |-> NoWorker]
        /\ safe' = [s \in Sessions |-> <<>>]
        /\ conns' = [k \in Conns |-> NoConn]
        /\ registered' = [c \in Characters |-> NoOne]
        /\ events' = [s \in Sessions |-> {}]

\* A nil dereference in any goroutine ends the process.
Panic == EndGateway /\ UNCHANGED <<up, historyVars>>

-----------------------------------------------------------------------------
(* Clients come and leave. *)

\* GameSocket.AuthSession starts the session.
AuthSession(s) ==
    /\ At(s, "offline")
    /\ ses' = [ses EXCEPT ![s].at = "loop"]
    /\ UNCHANGED <<gone, workers, safe, worldVars, registered, events, historyVars, boundVars>>

\* The reader of the client socket ends: the context of the session and of
\* its world connections is cancelled, nobody reads the send channel.
ClientLeaves(s) ==
    /\ Live(s) /\ s \notin gone
    /\ gone' = gone \cup {s}
    /\ UNCHANGED <<ses, workers, safe, worldVars, registered, events, historyVars, boundVars>>

\* WorldSocket.ListenAndProcess closes its connection.
ContextCloses(k) ==
    /\ conns[k].open /\ conns[k].by \in gone
    /\ conns' = [conns EXCEPT ![k] = IF At(conns[k].by, "ended") THEN NoConn ELSE Closed(conns[k])]
    /\ UNCHANGED <<sessionVars, up, registered, events, historyVars, boundVars>>

\* The loop of HandlePackets may still forward what the worldserver sent; with
\* a full send channel it waits for ever.
ForwardToNobody(s) ==
    /\ At(s, "loop") /\ s \in gone /\ ses[s].world # 0
    /\ Goto(s, "stuck")
    /\ UNCHANGED <<gone, workers, safe, worldVars, registered, events, slips, shared, boundVars>>

\* The loop finds its context cancelled.
HandlePacketsEnds(s) ==
    /\ At(s, "loop") /\ s \in gone
    /\ IF ses[s].char = NoOne
       THEN ses' = [ses EXCEPT ![s] = Ended] /\ Forget(s) /\ Unread(s)
       ELSE ses' = [ses EXCEPT ![s].at = "logout", ![s].via = "end"] /\ UNCHANGED <<conns, events>>
    /\ UNCHANGED <<gone, workers, safe, up, registered, historyVars, boundVars>>

-----------------------------------------------------------------------------
(* connectToGameServer, in two steps: a worldserver is selected and becomes *)
(* the gRPC client of the session; a connection is made.                    *)

\* A handler of the session returns with an error: only the client of a login
\* is told; a redirect that gave up its old world leaves the session without.
Refused(s) ==
    /\ ses' = [ses EXCEPT ![s].at = "loop", ![s].via = "none", ![s].goal = NoOne, ![s].server = NoOne,
                          ![s].told = @ \/ ses[s].via = "login"]
    /\ Slip(s, IF ses[s].via = "login" THEN {} ELSE {"stranded"})

SelectGameServer(s) ==
    /\ At(s, "select")
    /\ \/ /\ \E w \in up : ses' = [ses EXCEPT ![s].at = "connect", ![s].server = w, ![s].client = w]
          /\ UNCHANGED <<slips, faults>>
       \/ Refused(s) /\ IF up = {} \/ s \in gone THEN UNCHANGED faults ELSE Fault
    /\ UNCHANGED <<gone, workers, safe, worldVars, registered, events, shared, inputs>>

\* Login continues with its events, HandleReadyForRedirectRequest replaces
\* the old socket and does not close it; layerPlayerRedirect takes over the
\* gRPC client, battlegroundPlayerRedirect does not.
Connected(s, k) ==
    LET r == ses[s]
        moved == [r EXCEPT !.char = r.goal, !.world = k, !.via = "none", !.goal = NoOne, !.server = NoOne]
    IN  CASE r.via = "login" -> [moved EXCEPT !.at = "announce", !.current = r.server, !.told = FALSE]
          [] r.via = "request" -> [moved EXCEPT !.at = "loop", !.current = r.server]
          [] r.via = "layer" -> [moved EXCEPT !.at = "loop", !.current = r.server, !.client = r.server]
          [] OTHER -> [moved EXCEPT !.at = "loop"]

Sharers(s) == {t \in Sessions \ {s} : Live(t) /\ ses[t].char = ses[s].goal}

\* Without its first packet layerPlayerRedirect closes the new connection,
\* battlegroundPlayerRedirect leaves it open.
ConnectToGameServer(s) ==
    /\ At(s, "connect")
    /\ \/ /\ ses[s].server \in up /\ CanOpen
          /\ conns' = [conns EXCEPT ![FreeConn] = Open(s, ses[s].goal, ses[s].server)]
          /\ ses' = [ses EXCEPT ![s] = Connected(s, FreeConn)]
          /\ shared' = IF Sharers(s) = {} THEN shared ELSE shared \cup {ses[s].goal}
          /\ Slip(s, IF ses[s].via = "battleground" THEN {"battleground"} ELSE {})
          /\ UNCHANGED faults
       \/ /\ Refused(s)
          /\ \/ UNCHANGED conns
             \/ /\ ses[s].via = "battleground" /\ ses[s].server \in up /\ CanOpen
                /\ conns' = [conns EXCEPT ![FreeConn] = Open(s, ses[s].goal, ses[s].server)]
          /\ IF ses[s].server \notin up \/ s \in gone THEN UNCHANGED faults ELSE Fault
          /\ UNCHANGED shared
    /\ UNCHANGED <<gone, workers, safe, up, registered, events, inputs>>

-----------------------------------------------------------------------------
(* Login and logout. *)

\* The client chooses a character on its screen.  The code does not look whether
\* the session has one: a client that plays is assumed to ask for its characters
\* before it chooses another one.
Login(s, c) ==
    /\ At(s, "loop") /\ s \notin gone /\ ses[s].char = NoOne /\ Input
    /\ ses' = [ses EXCEPT ![s].at = "select", ![s].via = "login", ![s].goal = c]
    /\ slips' = [slips EXCEPT ![s] = Late(s)]
    /\ UNCHANGED <<gone, workers, safe, worldVars, registered, events, shared, faults>>

\* eventsProducer.CharacterLoggedIn, then RegisterCharacter makes a new channel
\* for the broadcaster and the session; what still reaches the old one is lost.
AnnounceLogin(s) ==
    /\ At(s, "announce")
    /\ registered' = [registered EXCEPT ![ses[s].char] = s]
    /\ events' = [events EXCEPT ![s] = {}]
    /\ Goto(s, "loop")
    /\ UNCHANGED <<gone, workers, safe, worldVars, historyVars, boundVars>>

\* The client is back on the character screen.
CharactersList(s) ==
    /\ At(s, "loop") /\ s \notin gone /\ ses[s].char # NoOne /\ Input
    /\ IF ses[s].world # 0 THEN Close(ses[s].world) ELSE UNCHANGED conns
    /\ ses' = [ses EXCEPT ![s].at = "logout", ![s].world = 0]
    /\ Slip(s, Late(s))
    /\ UNCHANGED <<gone, workers, safe, up, registered, events, shared, faults>>

\* Mutant: the channel stays with the broadcaster.
OnLoggedOut_StaysRegistered(s) ==
    /\ At(s, "logout")
    /\ IF ses[s].via = "end"
       THEN ses' = [ses EXCEPT ![s] = Ended] /\ Forget(s) /\ Unread(s)
       ELSE /\ ses' = [ses EXCEPT ![s].at = "loop", ![s].char = NoOne, ![s].current = NoOne]
            /\ UNCHANGED <<conns, events>>
    /\ UNCHANGED <<gone, workers, safe, up, registered, historyVars, boundVars>>

\* onLoggedOut: the event, then the broadcaster, then the character is nil.  The
\* session keeps s.eventsChan and what is in it.
OnLoggedOut(s) ==
    /\ At(s, "logout")
    /\ registered' = [registered EXCEPT ![ses[s].char] = NoOne]
    /\ IF ses[s].via = "end"
       THEN ses' = [ses EXCEPT ![s] = Ended] /\ Forget(s) /\ Unread(s)
       ELSE /\ ses' = [ses EXCEPT ![s].at = "loop", ![s].char = NoOne, ![s].current = NoOne]
            /\ UNCHANGED <<conns, events>>
    /\ UNCHANGED <<gone, workers, safe, up, historyVars, boundVars>>

\* The broadcaster looks up the channel of an event's character, and sends after
\* it has released its lock.
NewEvent(c) ==
    /\ c \in visit.addressed /\ registered[c] # NoOne /\ Input
    /\ events' = [events EXCEPT ![registered[c]] = @ \cup {c}]
    /\ UNCHANGED <<sessionVars, worldVars, registered, historyVars, faults>>

\* The loop receives an event.  On the character screen the handlers of group
\* and guild events read a nil character, the others only forward.
HandleEvent(s) ==
    /\ At(s, "loop")
    /\ \E c \in events[s] :
         \/ /\ events' = [events EXCEPT ![s] = @ \ {c}]
            /\ UNCHANGED <<sessionVars, worldVars, registered, historyVars>>
         \/ ses[s].char = NoOne /\ Panic
    /\ UNCHANGED boundVars

-----------------------------------------------------------------------------
(* Moving to another worldserver. *)

\* SMsgNewWorld: the player is being moved to another map.
InterceptNewWorld(s) ==
    /\ At(s, "loop") /\ ses[s].world # 0 /\ conns[ses[s].world].player /\ ~ses[s].teleport /\ Input
    /\ ses' = [ses EXCEPT ![s].teleport = TRUE]
    /\ UNCHANGED <<gone, workers, safe, worldVars, registered, events, historyVars, faults>>

\* The registry names the server of the map: the same, none, or another one,
\* which is asked to prepare.
InterceptMoveWorldPortAck(s) ==
    /\ At(s, "loop") /\ s \notin gone /\ ses[s].teleport /\ ses[s].world # 0
    /\ \/ /\ conns[ses[s].world].server \in up
          /\ ses' = [ses EXCEPT ![s].teleport = FALSE] /\ UNCHANGED faults
       \/ /\ \E w \in up \ {conns[ses[s].world].server} :
               ses' = [ses EXCEPT ![s].teleport = FALSE, ![s].at = "prepare", ![s].via = "teleport",
                                  ![s].goal = ses[s].char, ![s].server = w]
          /\ UNCHANGED faults
       \/ ses' = [ses EXCEPT ![s].teleport = FALSE] /\ IF up = {} THEN UNCHANGED faults ELSE Fault
    /\ UNCHANGED <<gone, workers, safe, worldVars, registered, events, historyVars, inputs>>

\* applyGroupLayer and the command to switch: a session without a world
\* socket is not moved, but takes over the gRPC client.
SwitchLayer(s, w) ==
    /\ At(s, "loop") /\ ses[s].char # NoOne /\ w \in up /\ w # ses[s].current /\ Input
    /\ IF ses[s].world # 0
       THEN ses' = [ses EXCEPT ![s].at = "prepare", ![s].via = "layer", ![s].goal = ses[s].char, ![s].server = w]
       ELSE ses' = [ses EXCEPT ![s].client = w, ![s].current = w]
    /\ Slip(s, Late(s))
    /\ UNCHANGED <<gone, workers, safe, worldVars, registered, events, shared, faults>>

\* enterBattleground looks at the address of the world socket.
EnterBattleground(s, w) ==
    /\ At(s, "loop") /\ s \notin gone /\ ses[s].char # NoOne /\ w \in up /\ Input
    /\ IF ses[s].world = 0
       THEN Panic
       ELSE /\ w # conns[ses[s].world].server
            /\ ses' = [ses EXCEPT ![s].at = "prepare", ![s].via = "battleground", ![s].goal = ses[s].char, ![s].server = w]
            /\ UNCHANGED <<gone, workers, safe, worldVars, registered, events, historyVars>>
    /\ UNCHANGED faults

\* TC9SMsgReadyForRedirect, unasked: the worldserver has saved the player.
HandleReadyForRedirectRequest(s) ==
    /\ At(s, "loop") /\ ses[s].world # 0 /\ conns[ses[s].world].player /\ Input
    /\ conns' = [conns EXCEPT ![ses[s].world].player = FALSE]
    /\ ses' = [ses EXCEPT ![s].at = "select", ![s].via = "request", ![s].goal = ses[s].char]
    /\ Slip(s, Late(s))
    /\ UNCHANGED <<gone, workers, safe, up, registered, events, shared, faults>>

\* The answer to TC9CMsgPrepareForRedirect: ready, or the connection ends,
\* which is as good; a refusal or no answer leaves everything as it was.
PrepareForRedirect(s) ==
    /\ At(s, "prepare")
    /\ \/ /\ Close(ses[s].world)
          /\ IF ses[s].via = "teleport"
             THEN /\ CanStart
                  /\ StartWorker([NoWorker EXCEPT !.kind = "redirect", !.by = s, !.char = ses[s].goal,
                                                  !.at = "connect", !.server = ses[s].server])
                  /\ ses' = [ses EXCEPT ![s].at = "loop", ![s].via = "none", ![s].world = 0,
                                        ![s].goal = NoOne, ![s].server = NoOne]
             ELSE ses' = [ses EXCEPT ![s].at = "connect", ![s].world = 0] /\ UNCHANGED workers
          /\ UNCHANGED faults
       \/ /\ ses' = [ses EXCEPT ![s].at = "loop", ![s].via = "none", ![s].goal = NoOne, ![s].server = NoOne]
          /\ IF s \in gone THEN UNCHANGED faults ELSE Fault
          /\ UNCHANGED <<conns, workers>>
    /\ UNCHANGED <<gone, safe, up, registered, events, historyVars, inputs>>

-----------------------------------------------------------------------------
(* Recovery of a lost connection, and the goroutine of a redirect. *)

\* onWorldSocketClosed.
WorldSocketClosed(s) ==
    /\ At(s, "loop") /\ ses[s].world # 0 /\ ~conns[ses[s].world].open /\ CanStart
    /\ Close(ses[s].world)
    /\ ses' = [ses EXCEPT ![s].world = 0]
    /\ StartWorker([NoWorker EXCEPT !.kind = "recover", !.by = s, !.char = ses[s].char, !.at = "select", !.left = 3])
    /\ UNCHANGED <<gone, safe, up, registered, events, historyVars, boundVars>>

\* Mutant: the client is not told.
AttemptFails_Silent(n) ==
    LET r == workers[n]
    IN  IF r.left > 1
        THEN workers' = [workers EXCEPT ![n].left = r.left - 1, ![n].at = "select"] /\ UNCHANGED ses
        ELSE Finish(n) /\ UNCHANGED ses

\* An attempt failed; after the last one the client is told.
AttemptFails(n) ==
    LET r == workers[n]
    IN  IF r.left > 1
        THEN workers' = [workers EXCEPT ![n].left = r.left - 1, ![n].at = "select"] /\ UNCHANGED ses
        ELSE Finish(n) /\ ses' = [ses EXCEPT ![r.by].told = TRUE]

RecoverSelect(n) ==
    /\ workers[n].at = "select"
    /\ \/ /\ \E w \in up : /\ workers' = [workers EXCEPT ![n].at = "connect", ![n].server = w]
                           /\ ses' = [ses EXCEPT ![workers[n].by].client = w]
          /\ UNCHANGED faults
       \/ AttemptFails(n) /\ IF up = {} THEN UNCHANGED faults ELSE Fault
    /\ UNCHANGED <<gone, safe, worldVars, registered, events, historyVars, inputs>>

\* The connection is opened; its first packet is waited for without a deadline.
WorkerDial(n) ==
    /\ workers[n].at = "connect"
    /\ LET r == workers[n]
       IN  \/ r.server \in up /\ workers' = [workers EXCEPT ![n].at = "await"] /\ UNCHANGED <<ses, faults>>
           \/ AttemptFails(n) /\ IF r.server \notin up \/ r.by \in gone THEN UNCHANGED faults ELSE Fault
    /\ UNCHANGED <<gone, safe, worldVars, registered, events, historyVars, inputs>>

\* The connection is closed before its first packet.
WaitEnds(n) ==
    /\ workers[n].at = "await" /\ (workers[n].server \notin up \/ workers[n].by \in gone)
    /\ AttemptFails(n)
    /\ UNCHANGED <<gone, safe, worldVars, registered, events, historyVars, boundVars>>

\* The worldserver has sent its first packet.  The hook of the recovery saves
\* the position of the session's character, which may be nil by now.
WorkerConnect(n) ==
    /\ workers[n].at = "await" /\ workers[n].server \in up /\ CanOpen
    /\ LET r == workers[n]
       IN  IF r.kind = "recover" /\ ses[r.by].char = NoOne
           THEN Panic
           ELSE /\ conns' = [conns EXCEPT ![FreeConn] = Open(r.by, r.char, r.server)]
                /\ workers' = [workers EXCEPT ![n].at = "hand", ![n].conn = FreeConn]
                /\ ses' = IF r.kind = "recover" THEN [ses EXCEPT ![r.by].current = r.server] ELSE ses
                /\ UNCHANGED <<gone, safe, up, registered, events, historyVars>>
    /\ UNCHANGED boundVars

\* SMsgNewWorld carries the position of the session's character; then the
\* session is asked to take the socket.
HandOver(n) ==
    /\ workers[n].at = "hand"
    /\ LET r == workers[n]
       IN  IF r.kind = "recover" /\ ses[r.by].char = NoOne
           THEN Panic
           ELSE /\ safe' = [safe EXCEPT ![r.by] = Append(@, [kind |-> r.kind, conn |-> r.conn, server |-> r.server])]
                /\ Finish(n)
                /\ UNCHANGED <<ses, gone, worldVars, registered, events, historyVars>>
    /\ UNCHANGED boundVars

\* Mutant: it does not look whether somebody is logged in.
TakeSocket_Unchecked(s) ==
    /\ At(s, "loop") /\ safe[s] # <<>>
    /\ ses' = [ses EXCEPT ![s].world = Head(safe[s]).conn]
    /\ safe' = [safe EXCEPT ![s] = Tail(@)]
    /\ UNCHANGED <<gone, workers, worldVars, registered, events, historyVars, boundVars>>

\* The function in sessionSafeFuChan: a session that has a character takes
\* the socket, whatever it had; one that has none leaves it open.  The message
\* about a recovery names the address of the world socket.
TakeSocket(s) ==
    /\ At(s, "loop") /\ safe[s] # <<>>
    /\ LET f == Head(safe[s])
           taken == IF ses[s].char = NoOne THEN ses[s]
                    ELSE IF f.kind = "recover" THEN [ses[s] EXCEPT !.world = f.conn]
                    ELSE [ses[s] EXCEPT !.world = f.conn, !.client = f.server, !.current = f.server]
       IN  IF f.kind = "recover" /\ ShowGameserverConnChange /\ taken.world = 0
           THEN Panic
           ELSE /\ ses' = [ses EXCEPT ![s] = taken]
                /\ safe' = [safe EXCEPT ![s] = Tail(@)]
                /\ UNCHANGED <<gone, workers, worldVars, registered, events, historyVars>>
    /\ UNCHANGED boundVars

-----------------------------------------------------------------------------
(* Processes die. *)

WorldDies(w) ==
    /\ w \in up /\ Fault
    /\ up' = up \ {w}
    /\ conns' = [k \in Conns |-> IF conns[k].server = w THEN Closed(conns[k]) ELSE conns[k]]
    /\ UNCHANGED <<sessionVars, registered, events, historyVars, inputs>>

GatewayDies ==
    /\ \E s \in Sessions : Live(s)
    /\ Fault
    /\ EndGateway
    /\ UNCHANGED <<up, historyVars, inputs>>

-----------------------------------------------------------------------------
ClientStep(s) ==
    \/ AuthSession(s)
    \/ \E c \in visit.characters : Login(s, c)
    \/ CharactersList(s) \/ ClientLeaves(s) \/ InterceptNewWorld(s) \/ HandleReadyForRedirectRequest(s)
    \/ \E w \in Worlds : SwitchLayer(s, w) \/ EnterBattleground(s, w)
    \/ InterceptMoveWorldPortAck(s)

SessionStep(s) ==
    \/ SelectGameServer(s) \/ ConnectToGameServer(s) \/ AnnounceLogin(s)
    \/ OnLoggedOut(s) \/ PrepareForRedirect(s) \/ HandleEvent(s)
    \/ WorldSocketClosed(s) \/ TakeSocket(s) \/ ForwardToNobody(s) \/ HandlePacketsEnds(s)

WorkerStep(n) == RecoverSelect(n) \/ WorkerDial(n) \/ WaitEnds(n) \/ HandOver(n)

Next ==
    \/ \E s \in Sessions : ClientStep(s) \/ SessionStep(s)
    \/ \E n \in Workers : WorkerStep(n) \/ WorkerConnect(n)
    \/ \E c \in Characters : NewEvent(c)
    \/ \E k \in Conns : ContextCloses(k)
    \/ \E w \in Worlds : WorldDies(w)
    \/ GatewayDies

\* The loop of a session and the goroutines beside it are scheduled, and what
\* they call with a deadline returns, as do the services a goroutine calls;
\* clients and faults owe nothing, nor does a worldserver its first packet.
Spec ==
    /\ Init /\ [][Next /\ UNCHANGED visit]_<<visit, vars>>
    /\ \A s \in Sessions : WF_vars(SessionStep(s))
    /\ \A n \in Workers : WF_vars(WorkerStep(n))

-----------------------------------------------------------------------------
(* Properties *)

\* A session on the character screen has no world socket; one that plays has a
\* socket of its own character and calls the worldserver at its other end, and
\* no other worldserver has its player.  Except after a logout, a redirect or a
\* change of layer that overtook a goroutine still connecting ("late"), a failed
\* redirect ("stranded"), or a battleground, which keeps the old gRPC client.
SocketMatchesCharacter ==
    \A s \in Sessions :
        /\ At(s, "loop") /\ ses[s].world # 0 =>
               /\ ses[s].char # NoOne
               /\ "late" \notin slips[s] => conns[ses[s].world].char = ses[s].char
               /\ slips[s] = {} => conns[ses[s].world].server = ses[s].client
        /\ slips[s] \cap {"late", "stranded"} = {} =>
               Cardinality({k \in Conns : conns[k].by = s /\ conns[k].player}) <= 1

\* The events of a character go to the session that plays it, unless two sessions
\* had it at once.  No event finds a session that logged the character out; one
\* that was in the channel or on its way there by then is handled on the character
\* screen or lost, and never handled as an event of the next character.
EventsReachOwner ==
    \A s \in Sessions :
        /\ At(s, "loop") /\ ses[s].char \in Characters \ shared => registered[ses[s].char] = s
        /\ \A c \in Characters : registered[c] = s => ses[s].char = c
        /\ At(s, "loop") => events[s] \subseteq {ses[s].char} \/ ses[s].char = NoOne

\* A session that lost its worldserver is given another one or its client is
\* told, unless a redirect failed, a goroutine was overtaken, or it waits for the
\* first packet of a worldserver that runs and sends none: that wait has no
\* deadline (onWorldSocketClosed and InterceptMoveWorldPortAck connect with
\* context.TODO() and context.Background()).
LostWorldEnds ==
    \A s \in Sessions :
        []<>(\/ ses[s].char = NoOne \/ ses[s].world # 0 \/ ses[s].told
             \/ slips[s] \cap {"late", "stranded"} # {} \/ s \in gone
             \/ \E n \in Workers : workers[n].by = s /\ workers[n].at = "await" /\ workers[n].server \in up)
=============================================================================
