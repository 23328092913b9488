----------------------------- MODULE ConfigFiles -----------------------------
(***************************************************************************)
(* The files of a configuration folder and the processes that write them:  *)
(* common.toml (core/src/common_config.rs, saved by run_tui of             *)
(* cli/src/main.rs, by the TUI and by run_bridge of core/src/runner.rs)    *)
(* and the certificate, its key and the list of addresses it was made for  *)
(* (core/src/tls.rs, through the Local plugin of cli/src/plugins.rs).      *)
(*                                                                         *)
(* Every save is fs::write in place: the file is truncated, then written.  *)
(* A process may die between any two of these steps, and a second process  *)
(* may be started in the same folder: the lock file keeps its bridge out,  *)
(* not its application.  All fields of common.toml have defaults, so a     *)
(* truncated file, or none, loads as the default configuration.            *)
(***************************************************************************)
EXTENDS Integers, FiniteSets

CONSTANTS
  Proc,    \* processes started in the folder
  None,    \* no process, no address, no identity, no file
  Torn,    \* a file that was truncated and not written
  Addr,    \* values of advertise_addr
  Invalid, \* those among them that are neither an IP address nor a DNS name
  Id,      \* identities (agent_id with auth_token) ensure_agent_id may draw
  Serial   \* certificates generate_new may make

Config == [id : Id \cup {None}, addr : Addr \cup {None}]
Default == [id |-> None, addr |-> None]
Cert == [serial : Serial, addr : Addr \cup {None}]

(* The advertised address among a certificate's names: one that is invalid *)
(* is skipped with a warning.                                              *)
Names(c) == {c.addr} \ (Invalid \cup {None})

ASSUME ConfigAssumption ==
  /\ Invalid \subseteq Addr
  /\ None \notin Proc \cup Addr \cup Id \cup Serial \cup Cert
  /\ Torn \notin {None} \cup Cert
  /\ Serial \subseteq Nat

MayBe(S) == S \cup {None, Torn}

VARIABLES
  toml,      \* the identity and address common.toml parses to
  cert,      \* cert.pem
  key,       \* key.pem, as the serial of the certificate it belongs to
  sans,      \* cert-extra-sans.json
  lock,      \* process holding aptove.lock
  app,       \* progress of each process's application
  mem,       \* the configuration the application holds
  bridge,    \* progress of each process's bridge task
  copy,      \* the copy of the configuration the bridge task was given
  drawn,     \* identities ever drawn
  made,      \* certificates ever made
  served,    \* identity and certificate the last bridge served with (history)
  disturbed, \* a save of common.toml was cut short or read halfway (history)
  cut        \* a generation was cut short, its addresses were not recorded,
             \* or the old pair could not be removed (history)

fileVars == <<toml, cert, key, sans>>
tlsVars  == <<cert, key, sans>>
histVars == <<served, disturbed, cut>>
vars == <<fileVars, lock, app, mem, bridge, copy, drawn, made, histVars>>

Init ==
  /\ toml = Default
  /\ cert = None /\ key = None /\ sans = None
  /\ lock = None
  /\ app = [p \in Proc |-> "off"]
  /\ mem = [p \in Proc |-> Default]
  /\ bridge = [p \in Proc |-> "none"]
  /\ copy = [p \in Proc |-> Default]
  /\ drawn = {} /\ made = {}
  /\ served = [id |-> None, cert |-> None]
  /\ disturbed = FALSE /\ cut = FALSE

App(p, from, to) == app[p] = from /\ app' = [app EXCEPT ![p] = to]
Goes(p, to) == bridge' = [bridge EXCEPT ![p] = to]
Bridge(p, from, to) == bridge[p] = from /\ Goes(p, to)

(* The task and its copy, and the process and its memory, are gone.        *)
BridgeGone(p) == Goes(p, "none") /\ copy' = [copy EXCEPT ![p] = Default]
MemoryGone(p) == mem' = [mem EXCEPT ![p] = Default]

-----------------------------------------------------------------------------
(* run_tui and the application                                             *)

(* CommonConfig::load, then ensure_agent_id and ensure_auth_token.  An     *)
(* identity is drawn if the file has none; "disturbed" if that is because  *)
(* of what another process is just doing.                                  *)
Ensured(p) ==
  IF toml.id # None THEN mem' = [mem EXCEPT ![p] = toml] /\ UNCHANGED drawn
  ELSE \E id \in Id \ drawn :
         mem' = [mem EXCEPT ![p] = [toml EXCEPT !.id = id]] /\ drawn' = drawn \cup {id}
Load(p) ==
  /\ App(p, "off", "loaded")
  /\ Ensured(p)
  /\ disturbed' = (disturbed \/ (toml.id = None /\ \E q \in Proc : app[q] # "off"))
  /\ UNCHANGED <<fileVars, lock, bridge, copy, made, served, cut>>

(* fs::write truncates.  run_tui saves what it loaded; the application     *)
(* saves its own configuration after every change of a setting.            *)
BeginSave(p) ==
  /\ App(p, "loaded", "first saving") \/ App(p, "up", "saving")
  /\ toml' = Default
  /\ UNCHANGED <<tlsVars, lock, mem, bridge, copy, drawn, made, histVars>>

SavedNothing(p) == UNCHANGED toml
Saved(p) == toml' = mem[p]
EndSave(p) ==
  /\ App(p, "first saving", "up") \/ App(p, "saving", "up")
  /\ Saved(p)
  /\ UNCHANGED <<tlsVars, lock, mem, bridge, copy, drawn, made, histVars>>

(* The write fails after the truncation: run_tui gives up, the application *)
(* ignores it.  (A save that fails before it changes nothing.)             *)
SaveFails(p) ==
  /\ \/ App(p, "first saving", "off") /\ MemoryGone(p)
     \/ App(p, "saving", "up") /\ UNCHANGED mem
  /\ disturbed' = TRUE
  /\ UNCHANGED <<fileVars, lock, bridge, copy, drawn, made, served, cut>>

(* start_bridge: the task gets a clone of the configuration.               *)
StartBridge(p) ==
  /\ app[p] = "up"
  /\ Bridge(p, "none", "starting")
  /\ copy' = [copy EXCEPT ![p] = mem[p]]
  /\ UNCHANGED <<fileVars, lock, app, mem, drawn, made, histVars>>

(* The application ends; saves and starting bridges are not interrupted.   *)
Quit(p) ==
  /\ bridge[p] = "none"
  /\ App(p, "up", "off")
  /\ MemoryGone(p)
  /\ UNCHANGED <<fileVars, lock, bridge, copy, drawn, made, histVars>>

-----------------------------------------------------------------------------
(* run_bridge up to the certificate                                        *)

(* try_lock_exclusive                                                      *)
FreeAssumed == TRUE
Free == lock = None
Lock(p) ==
  /\ bridge[p] = "starting"
  /\ IF Free THEN lock' = p /\ Goes(p, "port") /\ UNCHANGED copy
             ELSE lock' = lock /\ BridgeGone(p)
  /\ UNCHANGED <<fileVars, app, mem, drawn, made, histVars>>

PortFree(p) ==
  /\ Bridge(p, "port", "check")
  /\ UNCHANGED <<fileVars, lock, app, mem, copy, drawn, made, histVars>>

(* The port is taken: the task saves its copy, with the one found free.    *)
PortTaken(p) ==
  /\ Bridge(p, "port", "port saving")
  /\ toml' = Default
  /\ UNCHANGED <<tlsVars, lock, app, mem, copy, drawn, made, histVars>>

PortSaved(p) ==
  /\ Bridge(p, "port saving", "check")
  /\ toml' = copy[p]
  /\ UNCHANGED <<tlsVars, lock, app, mem, copy, drawn, made, histVars>>

(* That save fails, which is only warned about.                            *)
PortSaveFails(p) ==
  /\ Bridge(p, "port saving", "check")
  /\ disturbed' = TRUE
  /\ UNCHANGED <<fileVars, lock, app, mem, copy, drawn, made, served, cut>>

-----------------------------------------------------------------------------
(* TlsConfig::load_or_generate                                             *)

HavePair == cert # None /\ key # None

(* A certificate made for other addresses is to be replaced.               *)
OutdatedNever(p) == FALSE
Outdated(p) == HavePair /\ copy[p].addr # None /\ sans # copy[p].addr

Check(p) ==
  /\ \/ Outdated(p) /\ Bridge(p, "check", "remove cert")
     \/ ~Outdated(p) /\ HavePair /\ Bridge(p, "check", "load")
     \/ ~HavePair /\ Bridge(p, "check", "new cert")
  /\ UNCHANGED <<fileVars, lock, app, mem, copy, drawn, made, histVars>>

(* The outdated pair is removed, and nobody looks at whether it was.       *)
RemoveCert(p) ==
  /\ Bridge(p, "remove cert", "remove key")
  /\ cert' \in {None, cert}
  /\ UNCHANGED <<toml, key, sans, lock, app, mem, copy, drawn, made, histVars>>

(* If both files are still there they are loaded.                          *)
RemoveKey(p) ==
  /\ bridge[p] = "remove key"
  /\ key' \in {None, key}
  /\ IF cert # None /\ key' # None THEN Goes(p, "load") /\ cut' = TRUE
                                   ELSE Goes(p, "new cert") /\ UNCHANGED cut
  /\ UNCHANGED <<toml, cert, sans, lock, app, mem, copy, drawn, made, served, disturbed>>

Serves(p, c) == Goes(p, "serving") /\ served' = [id |-> copy[p].id, cert |-> c]

(* load_existing: rustls takes a certificate only with its own key.        *)
Loads(p) ==
  /\ bridge[p] = "load"
  /\ IF cert # Torn /\ key = cert.serial
     THEN Serves(p, cert) /\ UNCHANGED <<lock, copy>>
     ELSE BridgeGone(p) /\ lock' = None /\ UNCHANGED served
  /\ UNCHANGED <<fileVars, app, mem, drawn, made, disturbed, cut>>

(* generate_new: the certificate, then the key, each truncated first.      *)
NewCert(p) ==
  /\ Bridge(p, "new cert", "write cert")
  /\ cert' = Torn
  /\ UNCHANGED <<toml, key, sans, lock, app, mem, copy, drawn, made, histVars>>

WriteCert(p) ==
  /\ Bridge(p, "write cert", "new key")
  /\ \E n \in Serial \ made :
       /\ cert' = [serial |-> n, addr |-> copy[p].addr]
       /\ made' = made \cup {n}
  /\ UNCHANGED <<toml, key, sans, lock, app, mem, copy, drawn, histVars>>

NewKey(p) ==
  /\ Bridge(p, "new key", "write key")
  /\ key' = Torn
  /\ UNCHANGED <<toml, cert, sans, lock, app, mem, copy, drawn, made, histVars>>

(* The addresses are recorded after the pair, and only if there are any.   *)
WriteKey(p) ==
  /\ bridge[p] = "write key"
  /\ key' = cert.serial
  /\ IF copy[p].addr # None
     THEN Goes(p, "new sans") /\ UNCHANGED <<served, cut>>
     ELSE Serves(p, cert) /\ cut' = (cut /\ sans # None)
  /\ UNCHANGED <<toml, cert, sans, lock, app, mem, copy, drawn, made, disturbed>>

NewSans(p) ==
  /\ Bridge(p, "new sans", "write sans")
  /\ sans' = Torn
  /\ UNCHANGED <<toml, cert, key, lock, app, mem, copy, drawn, made, histVars>>

NamesRecorded(p) == IF copy[p].addr \in Invalid THEN None ELSE copy[p].addr
RecordedAddr(p) == copy[p].addr
WriteSans(p) ==
  /\ bridge[p] = "write sans"
  /\ sans' = RecordedAddr(p)
  /\ Serves(p, cert)
  /\ cut' = FALSE
  /\ UNCHANGED <<toml, cert, key, lock, app, mem, copy, drawn, made, disturbed>>

(* The record cannot be opened or written, which is ignored: the bridge    *)
(* serves, and the next start will take the certificate for another's.     *)
SansFails(p) ==
  /\ bridge[p] \in {"new sans", "write sans"}
  /\ Serves(p, cert)
  /\ cut' = TRUE
  /\ UNCHANGED <<fileVars, lock, app, mem, copy, drawn, made, disturbed>>

-----------------------------------------------------------------------------
(* The bridge is stopped, or fails to bind its port.                       *)
StopBridge(p) ==
  /\ bridge[p] = "serving"
  /\ BridgeGone(p)
  /\ lock' = None
  /\ UNCHANGED <<fileVars, app, mem, drawn, made, histVars>>

Tls == {"remove key", "new cert", "write cert", "new key", "write key", "new sans", "write sans"}

(* A file of the pair cannot be written: run_bridge fails.                 *)
TlsFails(p) ==
  /\ bridge[p] \in {"new cert", "write cert", "new key", "write key"}
  /\ BridgeGone(p)
  /\ lock' = None
  /\ cut' = TRUE
  /\ UNCHANGED <<fileVars, app, mem, drawn, made, served, disturbed>>

(* The process dies; the operating system releases its lock.               *)
Crash(p) ==
  /\ app[p] # "off"
  /\ app' = [app EXCEPT ![p] = "off"]
  /\ MemoryGone(p) /\ BridgeGone(p)
  /\ lock' = IF lock = p THEN None ELSE lock
  /\ disturbed' = (disturbed \/ app[p] \in {"first saving", "saving"} \/ bridge[p] = "port saving")
  /\ cut' = (cut \/ bridge[p] \in Tls)
  /\ UNCHANGED <<fileVars, drawn, made, served>>

(* advertise_addr is edited by hand, while nothing runs.                   *)
Edit ==
  /\ \A p \in Proc : app[p] = "off"
  /\ \E a \in Addr \cup {None} : a # toml.addr /\ toml' = [toml EXCEPT !.addr = a]
  /\ UNCHANGED <<tlsVars, lock, app, mem, bridge, copy, drawn, made, histVars>>

-----------------------------------------------------------------------------
AppStep(p) ==
  \/ Load(p) \/ BeginSave(p) \/ EndSave(p) \/ SaveFails(p) \/ StartBridge(p) \/ Quit(p)

BridgeStep(p) ==
  \/ Lock(p) \/ PortFree(p) \/ PortTaken(p) \/ PortSaved(p) \/ PortSaveFails(p)
  \/ Check(p) \/ RemoveCert(p) \/ RemoveKey(p) \/ Loads(p)
  \/ NewCert(p) \/ WriteCert(p) \/ NewKey(p) \/ WriteKey(p)
  \/ NewSans(p) \/ WriteSans(p) \/ SansFails(p) \/ TlsFails(p) \/ StopBridge(p)

Next ==
  \/ \E p \in Proc : AppStep(p) \/ BridgeStep(p) \/ Crash(p)
  \/ Edit

Spec == Init /\ [][Next]_vars

-----------------------------------------------------------------------------
(* Properties.                                                             *)

TypeOK ==
  /\ toml \in Config
  /\ cert \in MayBe(Cert) /\ key \in MayBe(Serial) /\ sans \in MayBe(Addr)
  /\ lock \in Proc \cup {None}
  /\ app \in [Proc -> {"off", "loaded", "first saving", "saving", "up"}]
  /\ mem \in [Proc -> Config]
  /\ \A p \in Proc : app[p] # "off" => mem[p].id # None
  /\ bridge \in [Proc -> Tls \cup {"none", "starting", "port", "port saving", "check",
                                  "remove cert", "load", "serving"}]
  /\ copy \in [Proc -> Config]
  /\ drawn \subseteq Id /\ made \subseteq Serial
  /\ served \in [id : Id \cup {None}, cert : Cert \cup {None}]
  /\ disturbed \in BOOLEAN /\ cut \in BOOLEAN

(* "agent_id and auth_token are generated automatically on first run and   *)
(* stay stable across restarts" (README.md:85): whatever crashes and second*)
(* processes do, the identity a bridge serves with changes only after a    *)
(* save of common.toml was cut short, or read by another process halfway   *)
(* (or two first starts were mixed).                                       *)
IdentityKept ==
  [][served.id # None /\ served'.id # served.id => disturbed]_vars

(* The certificate a phone has pinned is replaced only by one made for     *)
(* other addresses, as README.md:94 says, or after a generation was cut    *)
(* short, its addresses were not recorded or the old pair stayed.          *)
PinKept ==
  [][served.cert # None /\ served'.cert # served.cert =>
       cut \/ served'.cert.addr # served.cert.addr]_vars

(* A bridge told to advertise an address serves a certificate with that    *)
(* name, whatever the address was in earlier runs, unless the name is not  *)
(* a valid one or the certificate could not be made, recorded or replaced. *)
(* (With no address set the bridge advertises the local IP of the moment,  *)
(* and the certificate, made when that may have been another, is not       *)
(* checked against it: no such claim is made.)                             *)
CoversAddress ==
  \A p \in Proc :
    bridge[p] = "serving" /\ copy[p].addr # None /\ ~cut
      => copy[p].addr \in Names(served.cert) \cup Invalid

(* No interleaving of two processes leaves a pair behind that the next     *)
(* start would fail on; only a crash or a failed write does.               *)
PairUsable ==
  lock = None /\ ~cut =>
    \/ cert = None /\ key = None
    \/ cert \in Cert /\ key = cert.serial

-----------------------------------------------------------------------------
(* What the documentation and the names promise and the code does not do.  *)

(* README.md:94 "When these change, the cert is automatically regenerated":*)
(* not when advertise_addr is removed.                                     *)
RegeneratedOnChange ==
  \A p \in Proc : bridge[p] = "serving" /\ ~cut => served.cert.addr = copy[p].addr

(* A half-made pair would be made again, so that no start fails on one.    *)
(* The code loads whatever pair of files exists: after a crash that left   *)
(* an empty key, or an old key beside a new certificate, every start fails *)
(* until the files are removed or the advertised address changes.          *)
PairRepaired == \A p \in Proc : bridge[p] = "load" => cert # Torn /\ key = cert.serial
=============================================================================
