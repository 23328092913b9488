-------------------------------- MODULE Gate --------------------------------
(***************************************************************************)
(* The bridge's front door: the accept loop and the task it spawns for     *)
(* each connection (StdioBridge::start, handle_connection_generic and the  *)
(* webhook handler in core/src/bridge.rs), the limiter per address         *)
(* (core/src/rate_limiter.rs) and the one per webhook token.               *)
(*                                                                         *)
(* The accept loop runs alone, but a connection's task registers and       *)
(* removes itself concurrently with it.  A pairing request is Pairing's    *)
(* subject and a WebSocket AgentPool's and BridgeSession's; here they only *)
(* hold their slot until they end.                                         *)
(***************************************************************************)
EXTENDS Integers, FiniteSets

CONSTANTS
  Conn,          \* connections ever made
  IP,            \* client addresses
  Token,         \* webhook tokens the resolver knows, all with one limit
  None,          \* the accept loop is waiting
  MaxConns,      \* max_connections_per_ip
  MaxAttempts,   \* max_attempts_per_minute
  MaxEvents,     \* rate_limit_per_minute of a webhook, 0 for unlimited
  Window,        \* the minute both limiters look back over, in ticks
  MaxTime        \* bound: the last tick

ASSUME GateAssumption ==
  /\ IsFiniteSet(Conn) /\ None \notin Conn
  /\ MaxConns \in Nat /\ MaxAttempts \in Nat /\ MaxEvents \in Nat
  /\ Window \in Nat \ {0} /\ MaxTime \in Nat

VARIABLES
  now,           \* the monotonic clock
  checking,      \* connection between the two halves of check_connection
  phase,         \* where each connection is
  from,          \* its address
  hook,          \* the webhook token it asks for
  attempts,      \* RateLimiter.attempts: stamps per address
  connections,   \* RateLimiter.connections: count per address
  windows,       \* TriggerRateLimiter.windows: stamps per token
  admittedAt,    \* when a connection's attempt was recorded (history)
  recordedAt     \* when its webhook event was recorded (history)

limiterVars == <<attempts, connections, windows>>
historyVars == <<admittedAt, recordedAt>>
vars == <<now, checking, phase, from, hook, limiterVars, historyVars>>

Init ==
  /\ now = 0
  /\ checking = None
  /\ phase = [c \in Conn |-> "away"]
  /\ from \in [Conn -> IP]
  /\ hook \in [Conn -> Token]
  /\ attempts = [i \in IP |-> {}]
  /\ connections = [i \in IP |-> 0]
  /\ windows = [t \in Token |-> {}]
  /\ admittedAt = [c \in Conn |-> -1]
  /\ recordedAt = [c \in Conn |-> -1]

(* The vectors of Instants, as sets: a stamp is told from another of the   *)
(* same instant by the connection that caused it.  retain() keeps those    *)
(* still inside the window.                                                *)
Stamp == [by : Conn, at : 0 .. MaxTime]
RecentOffByOne(t) == t > now - Window + 1
Recent(t) == t > now - Window
Retained(stamps) == {s \in stamps : Recent(s.at)}
Stamped(stamps, c) == stamps \cup {[by |-> c, at |-> now]}

-----------------------------------------------------------------------------
(* The accept loop                                                         *)

(* First half of check_connection, under the lock of attempts.             *)
FullLate(stamps) == Cardinality(stamps) > MaxAttempts
Full(stamps) == Cardinality(stamps) >= MaxAttempts

CheckAttempts(c) ==
  LET i == from[c]
      recent == Retained(attempts[i])
  IN  /\ checking = None /\ phase[c] = "away"
      /\ \/ /\ Full(recent)
            /\ attempts' = [attempts EXCEPT ![i] = recent]
            /\ phase' = [phase EXCEPT ![c] = "refused"]
            /\ UNCHANGED <<checking, admittedAt>>
         \/ /\ ~Full(recent)
            /\ attempts' = [attempts EXCEPT ![i] = Stamped(recent, c)]
            /\ admittedAt' = [admittedAt EXCEPT ![c] = now]
            /\ checking' = c
            /\ UNCHANGED phase
      /\ UNCHANGED <<now, from, hook, connections, windows, recordedAt>>

(* Second half, under the lock of connections; then the task is spawned.   *)
CheckCount(c) ==
  /\ checking = c
  /\ checking' = None
  /\ phase' = [phase EXCEPT ![c] =
                 IF connections[from[c]] >= MaxConns THEN "refused" ELSE "spawned"]
  /\ UNCHANGED <<now, from, hook, limiterVars, historyVars>>

-----------------------------------------------------------------------------
(* The connection's task                                                   *)

(* add_connection                                                          *)
Register(c) ==
  /\ phase[c] = "spawned"
  /\ connections' = [connections EXCEPT ![from[c]] = @ + 1]
  /\ phase' = [phase EXCEPT ![c] = "open"]
  /\ UNCHANGED <<now, checking, from, hook, attempts, windows, historyVars>>

(* The TLS handshake and the first read decide what the connection is; a   *)
(* failure of either, a refused token or an answered pairing request ends  *)
(* it.                                                                     *)
Route(c) ==
  /\ phase[c] = "open"
  /\ \E next \in {"websocket", "webhook", "ended"} :
       phase' = [phase EXCEPT ![c] = next]
  /\ UNCHANGED <<now, checking, from, hook, limiterVars, historyVars>>

(* The handler of the WebSocket returns.                                   *)
WebSocketEnds(c) ==
  /\ phase[c] = "websocket"
  /\ phase' = [phase EXCEPT ![c] = "ended"]
  /\ UNCHANGED <<now, checking, from, hook, limiterVars, historyVars>>

(* An unknown token, or no resolver: 404 or 503, nothing is recorded.      *)
WebhookUnresolved(c) ==
  /\ phase[c] = "webhook"
  /\ phase' = [phase EXCEPT ![c] = "ended"]
  /\ UNCHANGED <<now, checking, from, hook, limiterVars, historyVars>>

(* The log line of an unknown token cuts it after twelve bytes, which      *)
(* panics within a character of several bytes.  The task unwinds: nothing  *)
(* is answered, and remove_connection, which no guard calls, is not        *)
(* reached.                                                                *)
LogPanics(c) ==
  /\ phase[c] = "webhook"
  /\ phase' = [phase EXCEPT ![c] = "panicked"]
  /\ UNCHANGED <<now, checking, from, hook, limiterVars, historyVars>>

(* check_and_record; a limited event is answered 429.                      *)
Allowed(stamps) == MaxEvents = 0 \/ Cardinality(stamps) < MaxEvents
WebhookLimit(c) ==
  LET t == hook[c]
      recent == Retained(windows[t])
  IN  /\ phase[c] = "webhook"
      /\ \/ /\ ~Allowed(recent)
            /\ windows' = [windows EXCEPT ![t] = recent]
            /\ phase' = [phase EXCEPT ![c] = "ended"]
            /\ UNCHANGED recordedAt
         \/ /\ Allowed(recent)
            /\ windows' = [windows EXCEPT ![t] = IF MaxEvents = 0 THEN @ ELSE Stamped(recent, c)]
            /\ recordedAt' = [recordedAt EXCEPT ![c] = now]
            /\ phase' = [phase EXCEPT ![c] = "recorded"]
      /\ UNCHANGED <<now, checking, from, hook, attempts, connections, admittedAt>>

(* The body is read, checked against its size and signature, and handed to *)
(* the agent; whatever the outcome, the request is answered.               *)
WebhookAnswered(c) ==
  /\ phase[c] = "recorded"
  /\ phase' = [phase EXCEPT ![c] = "ended"]
  /\ UNCHANGED <<now, checking, from, hook, limiterVars, historyVars>>

(* remove_connection, once the handler has returned, with or without an    *)
(* error; an address without connections is dropped from the map, which a  *)
(* count of 0 stands for.                                                  *)
NotReleased(n) == n
Released(n) == IF n > 0 THEN n - 1 ELSE n
Remove(c) ==
  /\ phase[c] = "ended"
  /\ connections' = [connections EXCEPT ![from[c]] = Released(@)]
  /\ phase' = [phase EXCEPT ![c] = "gone"]
  /\ UNCHANGED <<now, checking, from, hook, attempts, windows, historyVars>>

Tick ==
  /\ now < MaxTime
  /\ now' = now + 1
  /\ UNCHANGED <<checking, phase, from, hook, limiterVars, historyVars>>

-----------------------------------------------------------------------------
AcceptLoop(c) == CheckAttempts(c) \/ CheckCount(c)

ConnectionTask(c) ==
  \/ Register(c) \/ Route(c) \/ WebSocketEnds(c)
  \/ WebhookUnresolved(c) \/ LogPanics(c) \/ WebhookLimit(c) \/ WebhookAnswered(c)
  \/ Remove(c)

Next == Tick \/ \E c \in Conn : AcceptLoop(c) \/ ConnectionTask(c)

Spec == Init /\ [][Next]_vars

-----------------------------------------------------------------------------
(* Properties                                                              *)

Registered == {"open", "websocket", "webhook", "recorded", "ended"}
Holding == Registered \cup {"panicked"}

(* The count of an address is the number of its registered tasks and of    *)
(* those that panicked: a panic keeps its slot for ever, and is the only   *)
(* way out of a task that does.  Every other one gives back exactly the    *)
(* slot it took, in whatever order connections fail.                       *)
CountIsOpen ==
  \A i \in IP :
    connections[i] = Cardinality({c \in Conn : from[c] = i /\ phase[c] \in Holding})

(* However the clock falls, no minute holds more admitted attempts of an   *)
(* address than the limit: the attempts of the last minute are counted     *)
(* back from each admission, and not from the start of a fixed minute.     *)
Within(at, c) == {d \in Conn : at[d] # -1 /\ at[d] <= at[c] /\ at[d] > at[c] - Window}

AttemptsPerMinute ==
  \A c \in Conn :
    admittedAt[c] # -1 =>
      Cardinality({d \in Within(admittedAt, c) : from[d] = from[c]}) <= MaxAttempts

(* The same for the events of a webhook token, which concurrent            *)
(* connections record.                                                     *)
EventsPerMinute ==
  \A c \in Conn :
    recordedAt[c] # -1 /\ MaxEvents # 0 =>
      Cardinality({d \in Within(recordedAt, c) : hook[d] = hook[c]}) <= MaxEvents

TypeOK ==
  /\ now \in 0 .. MaxTime
  /\ checking \in Conn \cup {None}
  /\ phase \in [Conn -> {"away", "refused", "spawned", "gone"} \cup Holding]
  /\ from \in [Conn -> IP]
  /\ hook \in [Conn -> Token]
  /\ attempts \in [IP -> SUBSET Stamp]
  /\ connections \in [IP -> Nat]
  /\ windows \in [Token -> SUBSET Stamp]
  /\ admittedAt \in [Conn -> -1 .. MaxTime]
  /\ recordedAt \in [Conn -> -1 .. MaxTime]

-----------------------------------------------------------------------------
(* What a comment of the code says and the code does not do.               *)

(* bridge.rs:350 "Always remove connection when done": not the one of a    *)
(* task that panicked.                                                     *)
AlwaysRemoved ==
  \A i \in IP :
    connections[i] = Cardinality({c \in Conn : from[c] = i /\ phase[c] \in Registered})

(* rate_limiter.rs:9 "Maximum concurrent connections per IP".              *)
ConnectionLimit == \A i \in IP : connections[i] <= MaxConns
=============================================================================
