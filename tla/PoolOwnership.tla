---------------------------- MODULE PoolOwnership ----------------------------
(***************************************************************************)
(* What the agent pool promises about processes, without connections,      *)
(* buffers or time: who owns a process, when one may be started, and that  *)
(* nothing is forgotten.  AgentPool implements this specification.         *)
(***************************************************************************)
EXTENDS Integers, FiniteSets

CONSTANTS Token, Agent, None, MaxAgents

VARIABLES
  pool,     \* the agent each token owns, or None
  alive,    \* running processes
  spawned   \* processes ever started

ownVars == <<pool, alive, spawned>>

Pooled == {t \in Token : pool[t] # None}

OwnTypeOK ==
  /\ pool \in [Token -> Agent \cup {None}]
  /\ alive \subseteq Agent
  /\ spawned \subseteq Agent

Init ==
  /\ pool = [t \in Token |-> None]
  /\ alive = {}
  /\ spawned = {}

(* A process may end at any time; its owner keeps the dead entry.          *)
Exit(a) ==
  /\ a \in alive
  /\ alive' = alive \ {a}
  /\ UNCHANGED <<pool, spawned>>

(* Tokens lose their agents, and the processes of these end with them.     *)
Remove(gone) ==
  /\ gone \subseteq Pooled
  /\ pool' = [u \in Token |-> IF u \in gone THEN None ELSE pool[u]]
  /\ alive' = alive \ {pool[u] : u \in gone}
  /\ UNCHANGED spawned

(* A fresh process starts under a token that has no running one, when      *)
(* there is room or another token's agent makes room.                      *)
Start(t, a, evicted) ==
  /\ pool[t] \notin alive
  /\ a \notin spawned
  /\ evicted \subseteq Pooled \ {t}
  /\ Cardinality(Pooled \ {t}) >= MaxAgents => evicted # {}
  /\ pool' = [u \in Token |-> IF u = t THEN a
                              ELSE IF u \in evicted THEN None ELSE pool[u]]
  /\ alive' = (alive \ {pool[u] : u \in evicted}) \cup {a}
  /\ spawned' = spawned \cup {a}

Next ==
  \/ \E a \in Agent : Exit(a)
  \/ \E gone \in SUBSET Pooled : Remove(gone)
  \/ \E t \in Token, a \in Agent, evicted \in SUBSET Pooled : Start(t, a, evicted)

Spec == Init /\ [][Next]_ownVars

-----------------------------------------------------------------------------
(* The pool never holds more agents than max_agents, whatever mix of       *)
(* spawning, eviction, crashes and failed spawns led here.                 *)
PoolBound == Cardinality(Pooled) <= MaxAgents

(* Every running agent process is in the pool under some token: eviction,  *)
(* reaping and the replacement of a dead agent leave no orphan behind that *)
(* nothing would ever kill (kill_on_drop is off).                          *)
NoOrphanProcess == \A a \in alive : \E t \in Token : pool[t] = a

(* Two tokens never share a process, so one user cannot reach another      *)
(* user's agent session.                                                   *)
NoSharedAgent == \A t, u \in Pooled : pool[t] = pool[u] => t = u
=============================================================================
