------------------------------ MODULE Tunnels ------------------------------
(***************************************************************************)
(* A tunnel from a subscriber through a relay to a node behind a NAT, end  *)
(* to end:                                                                 *)
(*   - the subscriber's establish_tunnel (src/src/subscribe/proxy.rs),     *)
(*     which opens a stream on the relay's mux session or falls back to a  *)
(*     connection of its own, and the upkeep of that session;              *)
(*   - the relay's handler (src/src/node/relay.rs), which takes a reverse  *)
(*     connection from its StreamPool, forwards the request and bridges;   *)
(*   - the node's reverse workers (src/src/node/reverse.rs), its tunnel    *)
(*     handler (src/src/node/tunnel.rs) and its graceful drain (InFlight). *)
(*                                                                         *)
(* There is one relay, which stays up, and one node, which may drain and   *)
(* exit.  Clocks are within MAX_SKEW_MS of each other.  Each member of     *)
(* Taker is one tunnel, from the first attempt to open it to its end; the  *)
(* name of a reverse connection or of a mux session is used again once     *)
(* nothing refers to it.  Names carry no meaning, so where a new one is    *)
(* needed a fixed choice among the free ones stands for all of them.       *)
(***************************************************************************)
EXTENDS StreamPool, InFlight

CONSTANTS
    Worker,     \* the node's reverse_worker tasks
    Session,    \* the names of mux sessions
    Scenario,   \* the sets of complications a behaviour may meet
    Conn        \* a connection of the tunnel's own, warm or cold

\* The node runs one tunnel handler per reverse connection.
ASSUME TaskAssumption == Task = Stream

\* "direct": the service runs on the relay itself; "mux": the subscriber uses
\* mux sessions, which come and go; "fail": reverse connections break, and
\* the node's service refuses or closes connections; "drain": the node behind
\* the NAT shuts down.
ASSUME ScenarioAssumption == Scenario \subseteq SUBSET {"direct", "mux", "fail", "drain"}

VARIABLES
    sub,        \* sub[c]: where the subscriber is: idle, open (awaiting the
                \* driver), await (a status), proxy, done
    chan,       \* chan[c]: what carries c to the relay, a session or Conn
    answer,     \* answer[c]: none, or what the relay sent: ok, err, eof
    relay,      \* relay[c]: where the relay's handler of c is: none, arriving,
                \* take, forward, status, bridge; serve for its own service
    near,       \* near[s]: the node's end of a reverse connection: closed,
                \* wait (for a request), check, connect, proxy
    far,        \* far[s]: the relay's end: closed, arriving, open
    wire,       \* wire[s]: the last message on it not yet read: none,
                \* request, ok, err
    worker,     \* worker[w]: the connection w waits on
    session,    \* the MuxPool's entry for the relay's address
    live,       \* the sessions whose driver still runs
    scenario    \* the complications of this behaviour

subVars == <<sub, chan, answer>>
revVars == <<near, far, wire>>
muxVars == <<session, live>>
tunnelVars == <<poolVars, inFlightVars, subVars, relay, revVars, worker, muxVars>>
vars == <<tunnelVars, scenario>>

Init ==
    /\ PoolInit
    /\ InFlightInit
    /\ sub = [c \in Taker |-> "idle"]
    /\ chan = [c \in Taker |-> None]
    /\ answer = [c \in Taker |-> "none"]
    /\ relay = [c \in Taker |-> "none"]
    /\ near = [s \in Stream |-> "closed"]
    /\ far = [s \in Stream |-> "closed"]
    /\ wire = [s \in Stream |-> "none"]
    /\ worker = [w \in Worker |-> None]
    /\ session = None
    /\ live = {}
    /\ scenario \in Scenario
-----------------------------------------------------------------------------
(***************************************************************************)
(* The subscriber: establish_tunnel and MuxPool::open_stream.              *)
(***************************************************************************)

\* The subscriber's end of c's stream is gone, or the session under it.
SubGone(c) == sub[c] \notin {"await", "proxy"} \/ chan[c] \in Session \ live

\* The fallback is a warm connection from the tunnel pool or a cold one; it
\* cannot be made, or had gone stale, and the attempt ends.
Fallback(c) ==
    \/ /\ sub' = [sub EXCEPT ![c] = "await"]
       /\ chan' = [chan EXCEPT ![c] = Conn]
       /\ relay' = [relay EXCEPT ![c] = "arriving"]
    \/ /\ sub' = [sub EXCEPT ![c] = "done"]
       /\ chan' = [chan EXCEPT ![c] = None]
       /\ UNCHANGED relay

\* open_stream clones the handle under the lock, if there is a session.
EstablishTunnel(c) ==
    /\ \E d \in Taker : sub[d] = "idle"
    /\ c = CHOOSE d \in Taker : sub[d] = "idle"
    /\ IF session = None THEN Fallback(c)
       ELSE /\ sub' = [sub EXCEPT ![c] = "open"]
            /\ chan' = [chan EXCEPT ![c] = session]
            /\ UNCHANGED relay
    /\ UNCHANGED <<poolVars, inFlightVars, answer, revVars, worker, muxVars>>

\* The driver answers with a stream, and the request is sent on it.
OpenStream(c) ==
    /\ sub[c] = "open" /\ chan[c] \in live
    /\ sub' = [sub EXCEPT ![c] = "await"]
    /\ relay' = [relay EXCEPT ![c] = "arriving"]
    /\ UNCHANGED <<poolVars, inFlightVars, chan, answer, revVars, worker, muxVars>>

\* The driver is gone: open_stream removes whatever session the pool now has
\* for the address, and establish_tunnel falls back.
OpenStreamFails(c) ==
    /\ sub[c] = "open" /\ chan[c] \notin live
    /\ session' = None
    /\ Fallback(c)
    /\ UNCHANGED <<poolVars, inFlightVars, answer, revVars, worker, live>>

\* The attempt fails or the tunnel ends; the stream is dropped.
Drop(c) ==
    /\ sub' = [sub EXCEPT ![c] = "done"]
    /\ chan' = [chan EXCEPT ![c] = None]
    /\ UNCHANGED <<poolVars, inFlightVars, answer, relay, revVars, worker, muxVars>>

\* send_and_check_tunnel reads the status byte.
ReadOk(c) ==
    /\ sub[c] = "await" /\ answer[c] = "ok" /\ ~SubGone(c)
    /\ sub' = [sub EXCEPT ![c] = "proxy"]
    /\ UNCHANGED <<poolVars, inFlightVars, chan, answer, relay, revVars, worker, muxVars>>

\* It reads an error or the end of the stream, or the session is cut.
ReadError(c) ==
    /\ sub[c] \in {"await", "proxy"}
    /\ answer[c] \in {"err", "eof"} \/ SubGone(c)
    /\ Drop(c)

\* The local client is done.
HangUp(c) == sub[c] = "proxy" /\ Drop(c)
-----------------------------------------------------------------------------
(***************************************************************************)
(* maintain_mux_sessions and drive_client_connection.                      *)
(***************************************************************************)

\* The pool has no session for the address: connect, and insert the handle.
EstablishMuxSession ==
    LET fresh == {k \in Session \ live : \A c \in Taker : chan[c] # k}
    IN /\ "mux" \in scenario
       /\ session = None
       /\ fresh # {}
       /\ session' = CHOOSE k \in fresh : TRUE
       /\ live' = live \cup {session'}
       /\ UNCHANGED <<poolVars, inFlightVars, subVars, relay, revVars, worker>>

\* The last handle of the session is dropped, so the driver returns and the
\* connection goes with it, whatever streams are open on it.
DriverEnds(k) ==
    /\ k \in live /\ k # session
    /\ \A c \in Taker : sub[c] = "open" => chan[c] # k
    /\ live' = live \ {k}
    /\ UNCHANGED <<poolVars, inFlightVars, subVars, relay, revVars, worker, session>>

\* The connection under the session fails.
SessionBreaks(k) ==
    /\ k \in live
    /\ live' = live \ {k}
    /\ UNCHANGED <<poolVars, inFlightVars, subVars, relay, revVars, worker, session>>
-----------------------------------------------------------------------------
(***************************************************************************)
(* The relay: handle_tunnel for another node's service, relay_tunnel and   *)
(* handle_reverse_registration.                                            *)
(***************************************************************************)

\* The request arrives on c's stream; relay_tunnel calls take.
RelayTunnel(c) ==
    /\ relay[c] = "arriving" /\ ~SubGone(c)
    /\ "direct" \notin scenario
    /\ relay' = [relay EXCEPT ![c] = "take"]
    /\ Register(c)
    /\ UNCHANGED <<inFlightVars, subVars, revVars, worker, muxVars>>

\* The service is the relay's own: it connects, or it sends the error.
ServeDirect(c) ==
    /\ relay[c] = "arriving" /\ ~SubGone(c)
    /\ "direct" \in scenario
    /\ \/ /\ relay' = [relay EXCEPT ![c] = "serve"]
          /\ answer' = [answer EXCEPT ![c] = "ok"]
       \/ /\ relay' = [relay EXCEPT ![c] = "none"]
          /\ answer' = [answer EXCEPT ![c] = "err"]
    /\ UNCHANGED <<poolVars, inFlightVars, sub, chan, revVars, worker, muxVars>>

DirectEnds(c) ==
    /\ relay[c] = "serve" /\ SubGone(c)
    /\ relay' = [relay EXCEPT ![c] = "none"]
    /\ UNCHANGED <<poolVars, inFlightVars, subVars, revVars, worker, muxVars>>

\* The stream broke before the request was read.
RequestLost(c) ==
    /\ relay[c] = "arriving" /\ SubGone(c)
    /\ relay' = [relay EXCEPT ![c] = "none"]
    /\ UNCHANGED <<poolVars, inFlightVars, subVars, revVars, worker, muxVars>>

InTake(c) ==
    /\ relay[c] = "take"
    /\ \/ \E s \in Stream : Pop(c, s)
       \/ FindEmpty(c) \/ Wake(c)
       \/ taking[c] = "look" /\ Register(c)
    /\ UNCHANGED <<inFlightVars, subVars, relay, revVars, worker, muxVars>>

PoolWaitTimeout(c) ==
    /\ relay[c] = "take"
    /\ Expire(c)
    /\ UNCHANGED <<inFlightVars, subVars, relay, revVars, worker, muxVars>>

\* take returns; without a connection the subscriber is told and the handler
\* ends.
TakeReturns(c) ==
    /\ relay[c] = "take"
    /\ Return(c)
    /\ relay' = [relay EXCEPT ![c] = IF got[c] = None THEN "none" ELSE "forward"]
    /\ answer' = IF got[c] = None THEN [answer EXCEPT ![c] = "err"] ELSE answer
    /\ UNCHANGED <<inFlightVars, sub, chan, revVars, worker, muxVars>>

\* The handler ends and drops both streams.
RelayEnds(c, last) ==
    /\ Close(c)
    /\ relay' = [relay EXCEPT ![c] = "none"]
    /\ answer' = [answer EXCEPT ![c] = last]
    /\ far' = [far EXCEPT ![got[c]] = "closed"]
    /\ UNCHANGED <<inFlightVars, sub, chan, near, wire, worker, muxVars>>

\* The request is written to the reverse connection.  A write to one the
\* node has closed may still be buffered.
ForwardRequest(c) ==
    /\ relay[c] = "forward"
    /\ relay' = [relay EXCEPT ![c] = "status"]
    /\ wire' = IF near[got[c]] = "wait" THEN [wire EXCEPT ![got[c]] = "request"] ELSE wire
    /\ UNCHANGED <<poolVars, inFlightVars, subVars, near, far, worker, muxVars>>

ForwardFails(c) ==
    /\ relay[c] = "forward" /\ near[got[c]] = "closed"
    /\ RelayEnds(c, "eof")

\* A mutant: success is reported once the request is forwarded, before the
\* node has answered.
RelayStatusEarly(c) ==
    /\ relay[c] = "status" /\ wire[got[c]] # "err" /\ ~SubGone(c)
    /\ relay' = [relay EXCEPT ![c] = "bridge"]
    /\ answer' = [answer EXCEPT ![c] = "ok"]
    /\ UNCHANGED <<poolVars, inFlightVars, sub, chan, revVars, worker, muxVars>>

\* The status byte is passed on.
RelayStatus(c) ==
    /\ relay[c] = "status" /\ wire[got[c]] = "ok" /\ ~SubGone(c)
    /\ relay' = [relay EXCEPT ![c] = "bridge"]
    /\ answer' = [answer EXCEPT ![c] = "ok"]
    /\ wire' = [wire EXCEPT ![got[c]] = "none"]
    /\ UNCHANGED <<poolVars, inFlightVars, sub, chan, near, far, worker, muxVars>>

\* A mutant: the end of the reverse connection goes unnoticed.
RelayFailsDeaf(c) ==
    /\ relay[c] = "status"
    /\ \/ wire[got[c]] = "err" /\ RelayEnds(c, "err")
       \/ wire[got[c]] = "ok" /\ SubGone(c) /\ RelayEnds(c, "eof")

\* A refusal is passed on with its message; a reverse connection that ended,
\* or a subscriber that did, ends the handler without a status.
RelayFails(c) ==
    /\ relay[c] = "status"
    /\ \/ wire[got[c]] = "err" /\ RelayEnds(c, "err")
       \/ /\ \/ near[got[c]] = "closed" /\ wire[got[c]] \notin {"ok", "err"}
             \/ wire[got[c]] = "ok" /\ SubGone(c)
          /\ RelayEnds(c, "eof")

\* proxy_bidirectional: one side closed.
BridgeEnds(c) ==
    /\ relay[c] = "bridge"
    /\ SubGone(c) \/ near[got[c]] = "closed"
    /\ RelayEnds(c, "eof")

\* handle_reverse_registration puts the connection into the reverse pool.
ReverseRegistration(s) ==
    /\ far[s] = "arriving"
    /\ Push(s)
    /\ far' = [far EXCEPT ![s] = "open"]
    /\ UNCHANGED <<inFlightVars, subVars, relay, near, wire, worker, muxVars>>

NotifyTaker(s) ==
    /\ NotifyWaiter(s)
    /\ UNCHANGED <<inFlightVars, subVars, relay, revVars, worker, muxVars>>
-----------------------------------------------------------------------------
(***************************************************************************)
(* The node's reverse_worker and open_reverse_connection.                  *)
(***************************************************************************)

Fresh(s) == near[s] = "closed" /\ far[s] = "closed" /\ Unused(s) /\ s \notin zeroing

OpenReverse(w, s) ==
    /\ worker[w] = None /\ ~shutdown
    /\ "direct" \notin scenario
    /\ Fresh(s) /\ s = CHOOSE r \in Stream : Fresh(r)
    /\ worker' = [worker EXCEPT ![w] = s]
    /\ near' = [near EXCEPT ![s] = "wait"]
    /\ far' = [far EXCEPT ![s] = "arriving"]
    /\ wire' = [wire EXCEPT ![s] = "none"]
    /\ UNCHANGED <<poolVars, inFlightVars, subVars, relay, muxVars>>

\* A TunnelRequest: the handler is counted, then spawned, and the worker is
\* free to reconnect.
Dispatch(w) ==
    /\ worker[w] # None /\ wire[worker[w]] = "request"
    /\ Track(worker[w])
    /\ near' = [near EXCEPT ![worker[w]] = "check"]
    /\ wire' = [wire EXCEPT ![worker[w]] = "none"]
    /\ worker' = [worker EXCEPT ![w] = None]
    /\ UNCHANGED <<poolVars, subVars, relay, far, muxVars>>

\* The idle connection is closed: at shutdown, or because the network or the
\* relay ended it.
ReverseCloses(w) ==
    /\ worker[w] # None
    /\ near' = [near EXCEPT ![worker[w]] = "closed"]
    /\ worker' = [worker EXCEPT ![w] = None]
    /\ UNCHANGED <<poolVars, inFlightVars, subVars, relay, far, wire, muxVars>>

WorkerStops(w) == shutdown /\ ReverseCloses(w)
ReverseBreaks(w) == "fail" \in scenario /\ ReverseCloses(w)
-----------------------------------------------------------------------------
(***************************************************************************)
(* The node's handle_tunnel, on the reverse connection s.                  *)
(***************************************************************************)

TunnelEnds(s) ==
    /\ Untrack(s)
    /\ near' = [near EXCEPT ![s] = "closed"]
    /\ UNCHANGED <<poolVars, subVars, relay, far, worker, muxVars>>

\* send_tunnel_error and return.
RefuseTunnel(s) ==
    /\ TunnelEnds(s)
    /\ wire' = [wire EXCEPT ![s] = "err"]

RefuseIfDraining(s) == near[s] = "check" /\ shutdown /\ RefuseTunnel(s)

AcceptTunnel(s) ==
    /\ near[s] = "check"
    /\ Accept(s)
    /\ near' = [near EXCEPT ![s] = "connect"]
    /\ UNCHANGED <<poolVars, subVars, relay, far, wire, worker, muxVars>>

\* connect_local_service succeeds: status 0x00, then proxy_bidirectional.
ConnectLocal(s) ==
    /\ near[s] = "connect"
    /\ near' = [near EXCEPT ![s] = "proxy"]
    /\ wire' = [wire EXCEPT ![s] = "ok"]
    /\ UNCHANGED <<poolVars, inFlightVars, subVars, relay, far, worker, muxVars>>

\* The service is unknown here or its port refuses the connection.
ConnectFails(s) == "fail" \in scenario /\ near[s] = "connect" /\ RefuseTunnel(s)

\* The relay's end is gone, or the service closes.
PeerEnds(s) == near[s] = "proxy" /\ far[s] = "closed" /\ TunnelEnds(s) /\ UNCHANGED wire
ServiceEnds(s) ==
    "fail" \in scenario /\ near[s] = "proxy" /\ TunnelEnds(s) /\ UNCHANGED wire

\* The drain and its wakeups.
NodeDrain(A) == A /\ UNCHANGED <<poolVars, subVars, relay, revVars, worker, muxVars>>

NodeExit ==
    /\ Exit
    /\ near' = [s \in Stream |-> "closed"]
    /\ worker' = [w \in Worker |-> None]
    /\ UNCHANGED <<poolVars, subVars, relay, far, wire, muxVars>>
-----------------------------------------------------------------------------
SubStep(c) == OpenStream(c) \/ OpenStreamFails(c) \/ ReadOk(c) \/ ReadError(c)

RelayStep(c) ==
    \/ ServeDirect(c) \/ DirectEnds(c)
    \/ RelayTunnel(c) \/ RequestLost(c) \/ InTake(c) \/ TakeReturns(c) \/ PoolWaitTimeout(c)
    \/ ForwardRequest(c) \/ ForwardFails(c)
    \/ RelayStatus(c) \/ RelayFails(c) \/ BridgeEnds(c)

StreamStep(s) ==
    \/ ReverseRegistration(s) \/ NotifyTaker(s)
    \/ RefuseIfDraining(s) \/ AcceptTunnel(s) \/ ConnectLocal(s) \/ PeerEnds(s)
    \/ NodeDrain(NotifyZero(s))

Step ==
    \/ \E c \in Taker :
          \/ EstablishTunnel(c) \/ SubStep(c) \/ HangUp(c)
          \/ RelayStep(c)
    \/ EstablishMuxSession
    \/ \E k \in Session : DriverEnds(k) \/ SessionBreaks(k)
    \/ \E s \in Stream :
          \/ StreamStep(s) \/ ConnectFails(s) \/ ServiceEnds(s)
    \/ \E w \in Worker, s \in Stream : OpenReverse(w, s)
    \/ \E w \in Worker : Dispatch(w) \/ WorkerStops(w) \/ ReverseBreaks(w)
    \/ "drain" \in scenario /\ NodeDrain(BeginShutdown)
    \/ NodeDrain(DrainStep) \/ NodeDrain(DrainTimeout)
    \/ NodeExit

Next == Step /\ UNCHANGED scenario

\* The runtime is work-conserving: while some task is ready, or the timeout
\* of some take runs, a task runs.  Nothing is assumed of clients, of the
\* network, of the operator who shuts the node down, of reconnecting workers,
\* or of which of the ready tasks is chosen.
TaskStep ==
    \/ \E c \in Taker : SubStep(c) \/ RelayStep(c)
    \/ \E s \in Stream : StreamStep(s)
    \/ \E w \in Worker : Dispatch(w)
    \/ NodeDrain(DrainStep)

Fairness == WF_tunnelVars(TaskStep)

Spec == Init /\ [][Next]_vars /\ Fairness
-----------------------------------------------------------------------------
\* A bridge at the relay leads to the local service of the node, on a reverse
\* connection no other tunnel uses: a status byte that belongs to an earlier
\* use of the connection, or one connection popped twice, would join a
\* client to the wrong end (relay.rs:122-171, state.rs:65-71).
BridgedToService ==
    \A c \in Taker : relay[c] = "bridge" =>
        /\ near[got[c]] \in {"proxy", "closed"}
        /\ \A d \in Taker \ {c} : got[d] # got[c]

\* Every tunnel attempt comes to an end, with a tunnel or with an error:
\* send_and_check_tunnel has no timeout of its own and relies on every
\* party further down to answer or to close (proxy.rs:262, relay.rs:124).
EveryTunnelDecided ==
    \A c \in Taker : sub[c] \in {"open", "await"} ~> sub[c] \in {"proxy", "done"}
=============================================================================
