-------------------------- MODULE ConfigFilesProofs --------------------------
(***************************************************************************)
(* Theorems about ConfigFiles, for any number of processes, addresses,     *)
(* identities and certificates.                                            *)
(***************************************************************************)
EXTENDS ConfigFiles, TLAPS

(* The phases in which run_bridge holds the lock file.                     *)
Held == {"port", "port saving", "check", "remove cert", "load", "serving"} \cup Tls

OneHolder == \A p \in Proc : bridge[p] \in Held => lock = p

-----------------------------------------------------------------------------
(* The certificate's files.                                                *)

(* Nobody is replacing the pair.                                           *)
Settled == \A p \in Proc : bridge[p] \notin Tls

(* What a generation leaves when it is not cut short, and the bridge that  *)
(* ran it serves.                                                          *)
Whole ==
  /\ served.cert = cert
  /\ IF cert = None THEN key = None /\ sans = None
     ELSE cert \in Cert /\ key = cert.serial /\ sans = cert.addr

(* A certificate is made for an address the old one did not have, or it is *)
(* the first one.                                                          *)
NewlyAdvertised(p) ==
  \/ copy[p].addr # None /\ (served.cert = None \/ served.cert.addr # copy[p].addr)
  \/ served.cert = None /\ sans = None

FilesFor(p) ==
  /\ bridge[p] = "load" => cert # None
  /\ bridge[p] \in {"new key", "write key", "new sans", "write sans"} =>
       cert \in Cert /\ cert.addr = copy[p].addr
  /\ bridge[p] \in {"new sans", "write sans"} => key = cert.serial /\ copy[p].addr # None
  /\ ~cut =>
       /\ bridge[p] = "load" => copy[p].addr \in {None, sans}
       /\ bridge[p] = "serving" => served.cert \in Cert /\ copy[p].addr \in {None, served.cert.addr}
       /\ bridge[p] \in Tls \cup {"remove cert"} => NewlyAdvertised(p)

FilesInv == (~cut /\ Settled => Whole) /\ \A p \in Proc : FilesFor(p)

-----------------------------------------------------------------------------
(* The identity.                                                           *)

Runs(p) == app[p] # "off"
Writing(p) == app[p] \in {"first saving", "saving"} \/ bridge[p] = "port saving"

(* A bridge lives within its application and has its identity.             *)
BridgeOfApp ==
  \A p \in Proc : bridge[p] # "none" => app[p] \in {"up", "saving"} /\ copy[p].id = mem[p].id

(* Everybody has the identity on file, and from the first save on the file *)
(* lacks one only while it is being written.                               *)
SameIdentity ==
  /\ \A p, q \in Proc : Runs(p) /\ Runs(q) => mem[p].id = mem[q].id
  /\ \A p \in Proc : Runs(p) => toml.id \in {None, mem[p].id} /\ served.id \in {None, mem[p].id}
  /\ toml.id # None => served.id \in {None, toml.id}
  /\ served.id # None \/ (\E p \in Proc : app[p] = "up") =>
       toml.id # None \/ \E p \in Proc : Writing(p)

IdInv == BridgeOfApp /\ (~disturbed => SameIdentity)

ConfigInv == TypeOK /\ OneHolder /\ FilesInv /\ IdInv

-----------------------------------------------------------------------------
(* What the actions do to the application, the bridge task and its copy.   *)
Phase == Tls \cup {"none", "starting", "port", "port saving", "check", "remove cert", "load", "serving"}

LEMMA TypeStep ==
  ASSUME TypeOK, FilesInv, [Next]_vars
  PROVE  TypeOK'
<1> USE ConfigAssumption
<1>0. /\ bridge \in [Proc -> Phase] /\ copy \in [Proc -> Config] /\ mem \in [Proc -> Config]
      /\ app \in [Proc -> {"off", "loaded", "first saving", "saving", "up"}]
      /\ toml \in Config /\ Default \in Config
      /\ \A p \in Proc : copy[p].addr \in Addr \cup {None} /\ copy[p].id \in Id \cup {None}
  BY DEF TypeOK, Config, Default, Phase
<1>1. ASSUME NEW p \in Proc, AppStep(p) \/ Crash(p)
      PROVE  TypeOK'
  <2>1. CASE Load(p)
    <3>1. /\ app' = [app EXCEPT ![p] = "loaded"] /\ Ensured(p) /\ disturbed' \in BOOLEAN
          /\ UNCHANGED <<fileVars, lock, bridge, copy, made, served, cut>>
      BY <2>1 DEF Load, App, TypeOK
    <3>2. /\ mem' \in [Proc -> Config] /\ mem'[p].id # None /\ drawn' \subseteq Id
          /\ \A q \in Proc \ {p} : mem'[q] = mem[q]
      <4>1. CASE toml.id # None
        <5>1. mem' = [mem EXCEPT ![p] = toml] /\ drawn' = drawn /\ drawn \subseteq Id
          BY <3>1, <4>1 DEF Ensured, TypeOK
        <5>2. QED BY <1>0, <4>1, <5>1
      <4>2. CASE toml.id = None
        <5>1. PICK id \in Id \ drawn : /\ mem' = [mem EXCEPT ![p] = [toml EXCEPT !.id = id]]
                                       /\ drawn' = drawn \cup {id}
          BY <3>1, <4>2 DEF Ensured
        <5> DEFINE new == [toml EXCEPT !.id = id]
        <5>2. new \in Config /\ new.id = id /\ id # None
          BY <1>0 DEF Config
        <5>3. mem' = [mem EXCEPT ![p] = new] /\ drawn \subseteq Id
          BY <5>1 DEF TypeOK
        <5> HIDE DEF new
        <5>4. /\ mem' \in [Proc -> Config] /\ mem'[p] = new
              /\ \A q \in Proc \ {p} : mem'[q] = mem[q]
          BY <1>0, <5>2, <5>3
        <5>5. QED BY <5>1, <5>2, <5>3, <5>4
      <4>3. QED BY <4>1, <4>2
    <3>3. QED BY <1>0, <3>1, <3>2 DEF TypeOK, fileVars
  <2>2. CASE BeginSave(p)
    BY <1>0, <2>2 DEF BeginSave, App, TypeOK, tlsVars, histVars
  <2>3. CASE EndSave(p)
    BY <1>0, <2>3 DEF EndSave, App, Saved, TypeOK, tlsVars, histVars
  <2>4. CASE StartBridge(p)
    BY <1>0, <2>4 DEF StartBridge, Bridge, Goes, TypeOK, fileVars, histVars, Phase
  <2>5. CASE Quit(p)
    BY <1>0, <2>5 DEF Quit, App, MemoryGone, TypeOK, fileVars, histVars
  <2>6. CASE Crash(p)
    <3>1. /\ mem' \in [Proc -> Config] /\ bridge' \in [Proc -> Phase] /\ copy' \in [Proc -> Config]
          /\ app' \in [Proc -> {"off", "loaded", "first saving", "saving", "up"}]
          /\ \A q \in Proc : app'[q] # "off" => app[q] # "off" /\ mem'[q] = mem[q]
          /\ disturbed' \in BOOLEAN /\ cut' \in BOOLEAN /\ lock' \in Proc \cup {None}
          /\ UNCHANGED <<fileVars, drawn, made, served>>
      BY <1>0, <2>6 DEF Crash, MemoryGone, BridgeGone, Goes, TypeOK, Phase
    <3>2. QED BY <3>1 DEF TypeOK, fileVars, Phase
  <2>7. CASE SaveFails(p)
    <3>1. /\ app' \in [Proc -> {"off", "loaded", "first saving", "saving", "up"}] /\ mem' \in [Proc -> Config]
          /\ \A q \in Proc : app'[q] # "off" => app[q] # "off" /\ mem'[q] = mem[q]
          /\ disturbed' \in BOOLEAN
          /\ UNCHANGED <<fileVars, lock, bridge, copy, drawn, made, served, cut>>
      BY ZenonT(30), <1>0, <2>7 DEF SaveFails, App, MemoryGone
    <3>2. QED BY <3>1 DEF TypeOK, fileVars
  <2>8. QED BY <1>1, <2>1, <2>2, <2>3, <2>4, <2>5, <2>6, <2>7 DEF AppStep
<1>2. ASSUME UNCHANGED <<app, mem, drawn>>, disturbed' \in BOOLEAN, toml' \in Config,
             cert' \in MayBe(Cert), key' \in MayBe(Serial), sans' \in MayBe(Addr),
             lock' \in Proc \cup {None}, bridge' \in [Proc -> Phase], copy' \in [Proc -> Config],
             made' \subseteq Serial, served' \in [id : Id \cup {None}, cert : Cert \cup {None}],
             cut' \in BOOLEAN
      PROVE  TypeOK'
  BY <1>2 DEF TypeOK, Phase
<1>a. /\ cert \in MayBe(Cert) /\ key \in MayBe(Serial) /\ sans \in MayBe(Addr)
      /\ lock \in Proc \cup {None} /\ made \subseteq Serial /\ cut \in BOOLEAN
      /\ served \in [id : Id \cup {None}, cert : Cert \cup {None}]
  BY DEF TypeOK
<1>3. ASSUME NEW p \in Proc, BridgeStep(p)
      PROVE  TypeOK'
  <2>a. UNCHANGED <<app, mem, drawn>> /\ disturbed' \in BOOLEAN
    <3>1. UNCHANGED <<app, mem, drawn>> /\ (UNCHANGED disturbed \/ disturbed' = TRUE)
      BY <1>3 DEF BridgeStep, Lock, PortFree, PortTaken, PortSaved, PortSaveFails, Check, RemoveCert,
                  RemoveKey, Loads, NewCert, WriteCert, NewKey, WriteKey, NewSans, WriteSans, SansFails,
                  TlsFails, StopBridge, fileVars, tlsVars, histVars
    <3>2. QED BY <3>1 DEF TypeOK
  <2>d. Phase = {"none", "starting", "port", "port saving", "check", "remove cert", "load", "serving",
                 "remove key", "new cert", "write cert", "new key", "write key", "new sans", "write sans"}
    BY DEF Phase, Tls
  <2>b. \A to \in Phase : Goes(p, to) => bridge' \in [Proc -> Phase]
    BY <1>0 DEF Goes
  <2>c. BridgeGone(p) => bridge' \in [Proc -> Phase] /\ copy' \in [Proc -> Config]
    <3>1. "none" \in Phase /\ Default \in Config
      BY <1>0, <2>d
    <3>2. QED BY ZenonT(30), <1>0, <2>b, <3>1 DEF BridgeGone
  <2>e. ASSUME NEW c \in Cert, Serves(p, c)
        PROVE  bridge' \in [Proc -> Phase] /\ served' \in [id : Id \cup {None}, cert : Cert \cup {None}]
    BY <1>0, <2>b, <2>d, <2>e DEF Serves
  <2> USE DEF MayBe
  <2>1. CASE Lock(p)
    <3>1. UNCHANGED <<fileVars, made, histVars>> /\ lock' \in Proc \cup {None}
      BY <1>a, <2>1 DEF Lock
    <3>2. bridge' \in [Proc -> Phase] /\ copy' \in [Proc -> Config]
      BY <1>0, <2>1, <2>b, <2>c, <2>d DEF Lock
    <3>3. QED BY <1>0, <1>2, <1>a, <2>a, <3>1, <3>2 DEF fileVars, histVars
  <2>2. CASE PortFree(p) \/ PortTaken(p) \/ PortSaved(p) \/ PortSaveFails(p)
    <3>1. /\ UNCHANGED <<cert, key, sans, lock, copy, made, served, cut>>
          /\ toml' \in {toml, Default, copy[p]}
      BY <2>2 DEF PortFree, PortTaken, PortSaved, PortSaveFails, fileVars, tlsVars, histVars
    <3>2. bridge' \in [Proc -> Phase]
      BY <2>2, <2>b, <2>d DEF PortFree, PortTaken, PortSaved, PortSaveFails, Bridge
    <3>3. toml' \in Config /\ copy' \in [Proc -> Config]
      <4>1. copy[p] \in Config
        BY <1>0
      <4>2. QED BY <1>0, <3>1, <4>1
    <3>4. cert' \in MayBe(Cert) /\ key' \in MayBe(Serial) /\ sans' \in MayBe(Addr)
      BY <1>a, <3>1
    <3>5. QED BY <1>2, <1>a, <2>a, <3>1, <3>2, <3>3, <3>4
  <2>3. CASE Check(p)
    <3>1. bridge' \in [Proc -> Phase]
      BY <2>3, <2>b, <2>d DEF Check, Bridge
    <3>2. QED BY <1>0, <1>2, <1>a, <2>3, <2>a, <3>1 DEF Check, fileVars, histVars
  <2>4. CASE RemoveCert(p) \/ RemoveKey(p) \/ NewCert(p) \/ NewKey(p) \/ NewSans(p)
    <3>1. bridge' \in [Proc -> Phase]
      BY <2>4, <2>b, <2>d DEF RemoveCert, RemoveKey, NewCert, NewKey, NewSans, Bridge
    <3>2. /\ cert' \in {cert, None, Torn} /\ key' \in {key, None, Torn} /\ sans' \in {sans, Torn}
          /\ cut' \in {cut, TRUE} /\ UNCHANGED <<toml, lock, copy, made, served>>
      BY <2>4 DEF RemoveCert, RemoveKey, NewCert, NewKey, NewSans, histVars
    <3>3. QED BY <1>0, <1>2, <1>a, <2>a, <3>1, <3>2
  <2>5. CASE Loads(p)
    <3>1. cert \in Cert \cup {Torn}
      BY <1>a, <2>5 DEF Loads, FilesInv, FilesFor
    <3>2. /\ bridge' \in [Proc -> Phase] /\ copy' \in [Proc -> Config] /\ lock' \in Proc \cup {None}
          /\ served' \in [id : Id \cup {None}, cert : Cert \cup {None}]
      BY <1>0, <1>a, <2>5, <2>c, <2>e, <3>1 DEF Loads
    <3>3. QED BY <1>0, <1>2, <1>a, <2>5, <2>a, <3>2 DEF Loads, fileVars
  <2>6. CASE WriteCert(p)
    <3>1. bridge' \in [Proc -> Phase]
      BY <2>6, <2>b, <2>d DEF WriteCert, Bridge
    <3>2. PICK n \in Serial : cert' = [serial |-> n, addr |-> copy[p].addr] /\ made' = made \cup {n}
      BY <2>6 DEF WriteCert
    <3>3. cert' \in Cert /\ made' \subseteq Serial
      BY <1>0, <1>a, <3>2 DEF Cert
    <3>4. QED BY <1>0, <1>2, <1>a, <2>6, <2>a, <3>1, <3>3 DEF WriteCert, histVars
  <2>7. CASE WriteKey(p)
    <3>1. cert \in Cert /\ cert.serial \in Serial
      BY <2>7 DEF WriteKey, FilesInv, FilesFor, Cert
    <3>2. /\ bridge' \in [Proc -> Phase] /\ cut' \in BOOLEAN
          /\ served' \in [id : Id \cup {None}, cert : Cert \cup {None}]
      BY <1>a, <2>7, <2>b, <2>d, <2>e, <3>1 DEF WriteKey
    <3>3. QED BY <1>0, <1>2, <1>a, <2>7, <2>a, <3>1, <3>2 DEF WriteKey
  <2>8. CASE WriteSans(p)
    <3>1. cert \in Cert
      BY <2>8 DEF WriteSans, FilesInv, FilesFor
    <3>2. sans' \in MayBe(Addr)
      BY <1>0, <2>8 DEF WriteSans, RecordedAddr
    <3>3. QED BY <1>0, <1>2, <1>a, <2>8, <2>a, <2>e, <3>1, <3>2 DEF WriteSans
  <2>9. CASE TlsFails(p) \/ StopBridge(p)
    BY <1>0, <1>2, <1>a, <2>9, <2>a, <2>c DEF TlsFails, StopBridge, fileVars, histVars
  <2>10. CASE SansFails(p)
    <3>1. cert \in Cert
      BY <2>10 DEF SansFails, FilesInv, FilesFor
    <3>2. QED BY <1>0, <1>2, <1>a, <2>10, <2>a, <2>e, <3>1 DEF SansFails, fileVars
  <2>11. QED BY <1>3, <2>1, <2>2, <2>3, <2>4, <2>5, <2>6, <2>7, <2>8, <2>9, <2>10 DEF BridgeStep
<1>4. CASE Edit
  <2>1. PICK a \in Addr \cup {None} : toml' = [toml EXCEPT !.addr = a]
    BY <1>4 DEF Edit
  <2>2. toml' \in Config
    BY <1>0, <2>1 DEF Config
  <2>3. QED BY <1>0, <1>4, <2>2 DEF Edit, TypeOK, tlsVars, histVars
<1>5. CASE UNCHANGED vars
  BY <1>5 DEF TypeOK, vars, fileVars, histVars
<1>6. QED BY <1>1, <1>3, <1>4, <1>5 DEF Next

-----------------------------------------------------------------------------
(* Whoever goes past try_lock_exclusive holds the lock until it is gone.   *)
LEMMA HolderStep ==
  ASSUME TypeOK, OneHolder, [Next]_vars
  PROVE  OneHolder'
<1>0. bridge \in [Proc -> Phase] /\ lock \in Proc \cup {None} /\ None \notin Proc
  BY ConfigAssumption DEF TypeOK, Phase
<1>1. ASSUME NEW p \in Proc, BridgeGone(p), lock' = IF lock = p THEN None ELSE lock
      PROVE  OneHolder'
  BY <1>0, <1>1 DEF BridgeGone, Goes, OneHolder, Held, Tls
<1>2. ASSUME NEW p \in Proc, bridge[p] \in Held, lock' = lock, NEW to, Goes(p, to)
      PROVE  OneHolder'
  BY <1>0, <1>2 DEF Goes, OneHolder
<1>3. CASE UNCHANGED <<bridge, lock>>
  BY <1>3 DEF OneHolder
<1>4. ASSUME NEW p \in Proc, BridgeStep(p)
      PROVE  OneHolder'
  <2>1. CASE Lock(p)
    <3>1. CASE Free
      BY <1>0, <2>1, <3>1 DEF Lock, Free, Goes, OneHolder
    <3>2. CASE ~Free
      <4>1. BridgeGone(p) /\ lock' = lock
        BY <2>1, <3>2 DEF Lock
      <4>2. QED BY <1>0, <4>1 DEF BridgeGone, Goes, OneHolder, Held, Tls
    <3>3. QED BY <3>1, <3>2
  <2>2. CASE TlsFails(p) \/ StopBridge(p)
    <3>1. bridge[p] \in Held /\ BridgeGone(p) /\ lock' = None
      BY <2>2 DEF TlsFails, StopBridge, Held, Tls
    <3>2. QED BY <1>1, <3>1 DEF OneHolder
  <2>3. CASE Loads(p)
    <3>1. bridge[p] \in Held /\ lock = p
      BY <2>3 DEF Loads, Held, OneHolder
    <3>2. \/ lock' = lock /\ Goes(p, "serving")
          \/ BridgeGone(p) /\ lock' = None
      BY <2>3 DEF Loads, Serves
    <3>3. QED BY <1>1, <1>2, <3>1, <3>2
  <2>4. CASE \/ PortFree(p) \/ PortTaken(p) \/ PortSaved(p) \/ PortSaveFails(p) \/ Check(p)
             \/ RemoveCert(p) \/ RemoveKey(p) \/ NewCert(p) \/ WriteCert(p) \/ NewKey(p)
             \/ WriteKey(p) \/ NewSans(p) \/ WriteSans(p) \/ SansFails(p)
    <3>1. bridge[p] \in Held /\ lock' = lock /\ \E to : Goes(p, to)
      BY <2>4 DEF PortFree, PortTaken, PortSaved, PortSaveFails, Check, RemoveCert, RemoveKey, NewCert,
                  WriteCert, NewKey, WriteKey, NewSans, WriteSans, SansFails, Bridge, Serves, Held, Tls
    <3>2. QED BY <1>2, <3>1
  <2>5. QED BY <1>4, <2>1, <2>2, <2>3, <2>4 DEF BridgeStep
<1>5. ASSUME NEW p \in Proc, StartBridge(p)
      PROVE  OneHolder'
  BY <1>0, <1>5 DEF StartBridge, Bridge, Goes, OneHolder, Held, Tls
<1>6. ASSUME NEW p \in Proc, Crash(p)
      PROVE  OneHolder'
  BY <1>1, <1>6 DEF Crash
<1>7. (\E p \in Proc : Load(p) \/ BeginSave(p) \/ EndSave(p) \/ SaveFails(p) \/ Quit(p))
        \/ Edit \/ UNCHANGED vars
        => UNCHANGED <<bridge, lock>>
  BY DEF Load, BeginSave, EndSave, SaveFails, Quit, Edit, vars
<1>8. QED BY <1>3, <1>4, <1>5, <1>6, <1>7 DEF Next, AppStep

-----------------------------------------------------------------------------
(* The identity survives every step but a save cut short or read halfway.  *)
LEMMA IdStep ==
  ASSUME TypeOK, IdInv, [Next]_vars
  PROVE  IdInv'
<1> USE ConfigAssumption
<1>0. /\ bridge \in [Proc -> Phase] /\ copy \in [Proc -> Config] /\ mem \in [Proc -> Config]
      /\ app \in [Proc -> {"off", "loaded", "first saving", "saving", "up"}]
      /\ \A p \in Proc : app[p] # "off" => mem[p].id # None
  BY DEF TypeOK, Phase
(* What most steps leave alone.                                            *)
<1>a. ASSUME UNCHANGED <<toml, mem, app, served, disturbed>>, NEW p \in Proc,
             \A q \in Proc : bridge'[q] = "port saving" <=> bridge[q] = "port saving",
             \A q \in Proc : bridge'[q] # "none" =>
               bridge[q] # "none" /\ copy'[q] = copy[q]
      PROVE  IdInv'
  BY ZenonT(30), <1>a DEF IdInv, BridgeOfApp, SameIdentity, Runs, Writing
<1>b. ASSUME NEW p \in Proc, BridgeGone(p)
      PROVE  /\ bridge'[p] = "none"
             /\ \A q \in Proc : q # p => bridge'[q] = bridge[q] /\ copy'[q] = copy[q]
  BY <1>0, <1>b DEF BridgeGone, Goes
<1>c. ASSUME NEW p \in Proc, NEW to, Goes(p, to)
      PROVE  bridge'[p] = to /\ \A q \in Proc : q # p => bridge'[q] = bridge[q]
  BY <1>0, <1>c DEF Goes
<1>1. ASSUME NEW p \in Proc, Load(p)
      PROVE  IdInv'
  <2>1. /\ app[p] = "off" /\ app'[p] = "loaded" /\ \A q \in Proc : q # p => app'[q] = app[q]
        /\ UNCHANGED <<toml, bridge, copy, served>> /\ Ensured(p)
        /\ disturbed' = (disturbed \/ (toml.id = None /\ \E q \in Proc : app[q] # "off"))
    BY <1>0, <1>1 DEF Load, App, fileVars
  <2>2. /\ \A q \in Proc : q # p => mem'[q] = mem[q]
        /\ mem'[p].id # None /\ (toml.id # None => mem'[p].id = toml.id)
    <3>1. CASE toml.id # None
      BY <1>0, <2>1, <3>1 DEF Ensured
    <3>2. CASE toml.id = None
      <4>1. PICK id \in Id \ drawn : mem' = [mem EXCEPT ![p] = [toml EXCEPT !.id = id]]
        BY <2>1, <3>2 DEF Ensured
      <4>2. [toml EXCEPT !.id = id].id = id /\ id # None
        BY DEF TypeOK, Config
      <4>3. QED BY <1>0, <3>2, <4>1, <4>2
    <3>3. QED BY <3>1, <3>2
  <2>3. BridgeOfApp'
    BY <2>1, <2>2 DEF IdInv, BridgeOfApp
  <2>4. ASSUME ~disturbed'
        PROVE  SameIdentity'
    <3>1. SameIdentity
      BY <2>1, <2>4 DEF IdInv
    <3>2. CASE toml.id # None
      BY <2>1, <2>2, <3>1, <3>2 DEF SameIdentity, Runs, Writing
    <3>3. CASE toml.id = None
      <4>1. \A q \in Proc : app[q] = "off" /\ bridge[q] = "none"
        BY <2>1, <2>4, <3>3 DEF IdInv, BridgeOfApp
      <4>2. served.id = None
        BY <3>1, <3>3, <4>1 DEF SameIdentity, Writing
      <4>3. QED BY <2>1, <3>3, <4>1, <4>2 DEF SameIdentity, Runs, Writing
    <3>4. QED BY <3>2, <3>3
  <2>5. QED BY <2>3, <2>4 DEF IdInv
<1>2. ASSUME NEW p \in Proc, BeginSave(p)
      PROVE  IdInv'
  <2>1. /\ \/ app[p] = "loaded" /\ app'[p] = "first saving"
           \/ app[p] = "up" /\ app'[p] = "saving"
        /\ \A q \in Proc : q # p => app'[q] = app[q]
        /\ toml'.id = None /\ UNCHANGED <<mem, bridge, copy, served, disturbed>>
    BY <1>0, <1>2 DEF BeginSave, App, Default, histVars
  <2>2. BridgeOfApp'
    BY <2>1 DEF IdInv, BridgeOfApp
  <2>3. SameIdentity => SameIdentity'
    BY ZenonT(30), <2>1 DEF SameIdentity, Runs, Writing
  <2>4. QED BY <2>1, <2>2, <2>3 DEF IdInv
<1>3. ASSUME NEW p \in Proc, EndSave(p)
      PROVE  IdInv'
  <2>1. /\ app[p] \in {"first saving", "saving"} /\ app'[p] = "up" /\ \A q \in Proc : q # p => app'[q] = app[q]
        /\ toml' = mem[p] /\ mem[p].id # None /\ UNCHANGED <<mem, bridge, copy, served, disturbed>>
    BY <1>0, <1>3 DEF EndSave, App, Saved, histVars
  <2>2. BridgeOfApp'
    BY <2>1 DEF IdInv, BridgeOfApp
  <2>3. SameIdentity => SameIdentity'
    BY <2>1 DEF SameIdentity, Runs, Writing
  <2>4. QED BY <2>1, <2>2, <2>3 DEF IdInv
<1>s. ASSUME NEW p \in Proc, SaveFails(p)
      PROVE  IdInv'
  <2>1. /\ \/ app[p] = "first saving" /\ app'[p] = "off"
           \/ app[p] = "saving" /\ app'[p] = "up" /\ mem'[p] = mem[p]
        /\ \A q \in Proc : q # p => app'[q] = app[q] /\ mem'[q] = mem[q]
        /\ UNCHANGED <<bridge, copy>> /\ disturbed' = TRUE
    BY <1>0, <1>s DEF SaveFails, App, MemoryGone
  <2>2. QED BY <2>1 DEF IdInv, BridgeOfApp
<1>4. ASSUME NEW p \in Proc, StartBridge(p)
      PROVE  IdInv'
  <2>1. /\ app[p] = "up" /\ bridge[p] = "none" /\ bridge'[p] = "starting" /\ copy'[p] = mem[p]
        /\ \A q \in Proc : q # p => bridge'[q] = bridge[q] /\ copy'[q] = copy[q]
        /\ UNCHANGED <<toml, app, mem, served, disturbed>>
    BY <1>0, <1>4 DEF StartBridge, Bridge, Goes, fileVars, histVars
  <2>2. BridgeOfApp'
    BY <2>1 DEF IdInv, BridgeOfApp
  <2>3. SameIdentity => SameIdentity'
    BY <2>1 DEF SameIdentity, Runs, Writing
  <2>4. QED BY <2>1, <2>2, <2>3 DEF IdInv
<1>5. ASSUME NEW p \in Proc, Quit(p) \/ Crash(p)
      PROVE  IdInv'
  <2>1. /\ app'[p] = "off" /\ bridge'[p] = "none"
        /\ \A q \in Proc : q # p => /\ app'[q] = app[q] /\ mem'[q] = mem[q]
                                    /\ bridge'[q] = bridge[q] /\ copy'[q] = copy[q]
        /\ UNCHANGED <<toml, served>>
        /\ disturbed => disturbed'
        /\ Writing(p) => disturbed'
    <3>1. CASE Quit(p)
      BY <1>0, <3>1 DEF Quit, App, MemoryGone, Writing, fileVars, histVars
    <3>2. CASE Crash(p)
      BY <1>0, <1>b, <3>2 DEF Crash, MemoryGone, Writing, fileVars
    <3>3. QED BY <1>5, <3>1, <3>2
  <2>2. BridgeOfApp'
    BY <2>1 DEF IdInv, BridgeOfApp
  <2>3. ASSUME SameIdentity, ~Writing(p)
        PROVE  SameIdentity'
    <3>1. \A q \in Proc : Runs(q)' => Runs(q) /\ mem'[q] = mem[q]
      BY <2>1 DEF Runs
    <3>2. \A q \in Proc : (Writing(q) => Writing(q)') /\ (app'[q] = "up" => app[q] = "up")
      BY <2>1, <2>3 DEF Writing
    <3>3. QED BY <2>1, <2>3, <3>1, <3>2 DEF SameIdentity
  <2>4. QED BY <2>1, <2>2, <2>3 DEF IdInv
<1>6. ASSUME NEW p \in Proc, BridgeStep(p)
      PROVE  IdInv'
  <2>p. CASE PortSaveFails(p)
    <3>1. /\ bridge[p] = "port saving" /\ bridge'[p] = "check" /\ disturbed' = TRUE
          /\ \A q \in Proc : q # p => bridge'[q] = bridge[q]
          /\ UNCHANGED <<app, mem, copy>>
      BY <1>c, <2>p DEF PortSaveFails, Bridge
    <3>2. QED BY <3>1 DEF IdInv, BridgeOfApp
  <2> SUFFICES ASSUME ~PortSaveFails(p) PROVE IdInv'
    BY <2>p
  <2>a. UNCHANGED <<app, mem, disturbed>>
    BY <1>6 DEF BridgeStep, Lock, PortFree, PortTaken, PortSaved, Check, RemoveCert, RemoveKey,
                Loads, NewCert, WriteCert, NewKey, WriteKey, NewSans, WriteSans, SansFails, TlsFails,
                StopBridge, histVars
  <2>1. CASE Lock(p) \/ TlsFails(p) \/ StopBridge(p)
    <3>1. /\ UNCHANGED <<toml, served>>
          /\ bridge[p] \notin {"none", "port saving"} /\ bridge'[p] # "port saving"
          /\ bridge'[p] # "none" => copy'[p] = copy[p]
          /\ \A q \in Proc : q # p => bridge'[q] = bridge[q] /\ copy'[q] = copy[q]
      <4>1. CASE Lock(p) /\ Free
        <5>1. bridge[p] = "starting" /\ Goes(p, "port") /\ UNCHANGED <<toml, served, copy>>
          BY <4>1 DEF Lock, Free, fileVars, histVars
        <5>2. bridge'[p] = "port" /\ \A q \in Proc : q # p => bridge'[q] = bridge[q]
          BY <1>c, <5>1
        <5>3. QED BY <5>1, <5>2
      <4>2. CASE ~(Lock(p) /\ Free)
        <5>1. /\ BridgeGone(p) /\ bridge[p] \notin {"none", "port saving"}
              /\ UNCHANGED <<toml, served>>
          BY <2>1, <4>2 DEF Lock, TlsFails, StopBridge, fileVars, histVars
        <5>2. QED BY <1>b, <5>1
      <4>3. QED BY <4>1, <4>2
    <3>2. QED BY <1>a, <2>a, <3>1
  <2>2. CASE PortTaken(p)
    <3>1. /\ bridge[p] = "port" /\ bridge'[p] = "port saving" /\ toml'.id = None
          /\ \A q \in Proc : q # p => bridge'[q] = bridge[q]
          /\ UNCHANGED <<copy, served>>
      BY <1>c, <2>2 DEF PortTaken, Bridge, Default, histVars
    <3>2. BridgeOfApp'
      BY <2>a, <3>1 DEF IdInv, BridgeOfApp
    <3>3. SameIdentity => SameIdentity'
      BY <2>a, <3>1 DEF SameIdentity, Runs, Writing
    <3>4. QED BY <2>a, <3>2, <3>3 DEF IdInv
  <2>3. CASE PortSaved(p)
    <3>1. /\ bridge[p] = "port saving" /\ bridge'[p] = "check" /\ toml' = copy[p]
          /\ \A q \in Proc : q # p => bridge'[q] = bridge[q]
          /\ UNCHANGED <<copy, served>>
      BY <1>c, <2>3 DEF PortSaved, Bridge, histVars
    <3>2. Runs(p) /\ copy[p].id = mem[p].id /\ mem[p].id # None
      BY <1>0, <3>1 DEF IdInv, BridgeOfApp, Runs
    <3>3. BridgeOfApp'
      BY <2>a, <3>1 DEF IdInv, BridgeOfApp
    <3>4. SameIdentity => SameIdentity'
      BY <2>a, <3>1, <3>2 DEF SameIdentity, Runs, Writing
    <3>5. QED BY <2>a, <3>3, <3>4 DEF IdInv
  <2>4. ASSUME NEW c, Serves(p, c), UNCHANGED <<toml, copy>>, bridge[p] \notin {"none", "port saving"}
        PROVE  IdInv'
    <3>1. /\ bridge'[p] = "serving" /\ served'.id = copy[p].id
          /\ \A q \in Proc : q # p => bridge'[q] = bridge[q]
      BY <1>c, <2>4 DEF Serves
    <3>2. app[p] \in {"up", "saving"} /\ Runs(p) /\ copy[p].id = mem[p].id /\ mem[p].id # None
      BY <1>0, <2>4 DEF IdInv, BridgeOfApp, Runs
    <3>3. BridgeOfApp'
      BY <2>4, <2>a, <3>1, <3>2 DEF IdInv, BridgeOfApp
    <3>4. SameIdentity => SameIdentity'
      BY <2>4, <2>a, <3>1, <3>2 DEF SameIdentity, Runs, Writing
    <3>5. QED BY <2>a, <3>3, <3>4 DEF IdInv
  <2>5. ASSUME NEW to, Goes(p, to), to # "port saving", bridge[p] \notin {"none", "port saving"},
               UNCHANGED <<toml, copy, served>>
        PROVE  IdInv'
    BY <1>a, <1>c, <2>5, <2>a
  <2>6. CASE \/ PortFree(p) \/ Check(p) \/ RemoveCert(p) \/ RemoveKey(p) \/ NewCert(p)
             \/ WriteCert(p) \/ NewKey(p) \/ NewSans(p)
    <3>1. /\ bridge[p] \notin {"none", "port saving"} /\ UNCHANGED <<toml, copy, served>>
          /\ \E to : to # "port saving" /\ Goes(p, to)
      BY <2>6 DEF PortFree, Check, RemoveCert, RemoveKey, NewCert, WriteCert, NewKey, NewSans,
                  Bridge, fileVars, histVars
    <3>2. QED BY <2>5, <3>1
  <2>7. CASE Loads(p)
    <3>1. CASE cert # Torn /\ key = cert.serial
      BY <2>4, <2>7, <3>1 DEF Loads, fileVars
    <3>2. CASE ~(cert # Torn /\ key = cert.serial)
      <4>1. bridge[p] = "load" /\ BridgeGone(p) /\ UNCHANGED <<toml, served>>
        BY <2>7, <3>2 DEF Loads, fileVars
      <4>2. QED BY <1>a, <1>b, <2>a, <4>1
    <3>3. QED BY <3>1, <3>2
  <2>8. CASE WriteKey(p) \/ WriteSans(p) \/ SansFails(p)
    <3>1. CASE copy[p].addr # None /\ WriteKey(p)
      BY <2>5, <3>1 DEF WriteKey
    <3>2. CASE ~(copy[p].addr # None /\ WriteKey(p))
      BY <2>4, <2>8, <3>2 DEF WriteKey, WriteSans, SansFails, fileVars
    <3>3. QED BY <3>1, <3>2
  <2>9. QED BY <1>6, <2>1, <2>2, <2>3, <2>6, <2>7, <2>8 DEF BridgeStep
<1>7. CASE Edit
  <2>1. /\ toml'.id = toml.id /\ UNCHANGED <<app, mem, bridge, copy, served, disturbed>>
    BY <1>7 DEF Edit, TypeOK, Config, histVars
  <2>2. QED BY <2>1 DEF IdInv, BridgeOfApp, SameIdentity, Runs, Writing
<1>8. CASE UNCHANGED vars
  BY <1>8 DEF vars, fileVars, histVars, IdInv, BridgeOfApp, SameIdentity, Runs, Writing
<1>9. QED BY <1>1, <1>2, <1>3, <1>s, <1>4, <1>5, <1>6, <1>7, <1>8 DEF Next, AppStep

-----------------------------------------------------------------------------
(* The certificate's files survive everything but a generation cut short.  *)

(* A step of p that leaves the pair alone.  Busy are the phases about      *)
(* which FilesFor says something.                                          *)
Busy == Tls \cup {"remove cert", "load", "serving"}

LEMMA PairAlone ==
  ASSUME FilesInv, UNCHANGED <<cert, key, sans, served>>, cut => cut',
         \A q \in Proc : bridge[q] \in Tls => cut' \/ bridge'[q] \in Tls,
         \A q \in Proc : bridge'[q] \in Busy => bridge'[q] = bridge[q] /\ copy'[q] = copy[q]
  PROVE  FilesInv'
<1>1. ~cut' /\ Settled' => Whole'
  BY DEF FilesInv, Settled, Whole
<1>2. ASSUME NEW q \in Proc
      PROVE  FilesFor(q)'
  <2>1. CASE bridge'[q] \in Busy
    BY <2>1 DEF FilesInv, FilesFor, NewlyAdvertised
  <2>2. CASE bridge'[q] \notin Busy
    BY <2>2 DEF FilesFor, Busy, Tls
  <2>3. QED BY <2>1, <2>2
<1>3. QED BY <1>1, <1>2 DEF FilesInv

(* A step of the holder of the lock: nobody else is busy.                  *)
LEMMA HolderAlone ==
  ASSUME TypeOK, OneHolder, NEW p \in Proc, bridge[p] \in Held, NEW to, Goes(p, to)
  PROVE  /\ bridge'[p] = to
         /\ \A q \in Proc : q # p => bridge'[q] = bridge[q] /\ bridge'[q] \notin Busy
         /\ \A q \in Proc : q # p => FilesFor(q)'
<1>1. \A q \in Proc : q # p => bridge'[q] = bridge[q] /\ bridge[q] \notin Held
  BY DEF TypeOK, OneHolder, Goes
<1>2. bridge'[p] = to
  BY DEF TypeOK, Goes
<1>3. \A q \in Proc : q # p => bridge'[q] \notin Busy
  BY <1>1 DEF Busy, Held
<1>4. QED BY <1>1, <1>2, <1>3 DEF FilesFor, Busy, Tls

LEMMA FilesStep ==
  ASSUME TypeOK, OneHolder, FilesInv, [Next]_vars
  PROVE  FilesInv'
<1> USE ConfigAssumption
<1>0. /\ bridge \in [Proc -> Phase] /\ copy \in [Proc -> Config]
      /\ cert \in MayBe(Cert) /\ served.cert \in Cert \cup {None}
      /\ \A q \in Proc : copy[q].addr \in Addr \cup {None}
  BY DEF TypeOK, Phase, Config
<1>b. ASSUME NEW p \in Proc, BridgeGone(p)
      PROVE  /\ bridge'[p] = "none"
             /\ \A q \in Proc : q # p => bridge'[q] = bridge[q] /\ copy'[q] = copy[q]
  BY <1>0, <1>b DEF BridgeGone, Goes
<1>c. ASSUME NEW p \in Proc, NEW to, Goes(p, to)
      PROVE  bridge'[p] = to /\ \A q \in Proc : q # p => bridge'[q] = bridge[q]
  BY <1>0, <1>c DEF Goes
(* Steps that leave bridges alone, or end one that is not replacing files. *)
<1>1. CASE UNCHANGED <<tlsVars, served, cut, bridge, copy>>
  BY <1>1, PairAlone DEF tlsVars
<1>2. ASSUME NEW p \in Proc, StartBridge(p)
      PROVE  FilesInv'
  <2>1. /\ bridge[p] = "none" /\ bridge'[p] = "starting"
        /\ \A q \in Proc : q # p => bridge'[q] = bridge[q] /\ copy'[q] = copy[q]
        /\ UNCHANGED <<cert, key, sans, served, cut>>
    BY <1>0, <1>2 DEF StartBridge, Bridge, Goes, fileVars, histVars
  <2>2. QED BY <2>1, PairAlone DEF Busy, Tls
<1>3. ASSUME NEW p \in Proc, BridgeGone(p), UNCHANGED <<cert, key, sans, served>>,
             cut => cut', bridge[p] \in Tls => cut'
      PROVE  FilesInv'
  BY <1>b, <1>3, PairAlone DEF Busy, Tls
<1>4. ASSUME NEW p \in Proc, NEW to, Goes(p, to), to \notin Busy, bridge[p] \notin Tls,
             UNCHANGED <<cert, key, sans, served, cut, copy>>
      PROVE  FilesInv'
  BY <1>c, <1>4, PairAlone DEF Busy
(* The steps of load_or_generate.                                          *)
<1>5. ASSUME NEW p \in Proc, NEW to, bridge[p] \in Held, Goes(p, to), FilesFor(p)',
             ~cut' /\ to \notin Tls => Whole'
      PROVE  FilesInv'
  BY <1>5, HolderAlone DEF FilesInv, Settled
<1>6. ASSUME NEW p \in Proc, bridge[p] \in Held \ Tls
      PROVE  Settled
  BY <1>6 DEF OneHolder, Held, Settled
<1>7. ASSUME NEW p \in Proc, BridgeStep(p)
      PROVE  FilesInv'
  <2>f. FilesFor(p)
    BY DEF FilesInv
  <2>1. CASE Lock(p)
    <3>1. CASE Free
      BY <1>4, <2>1, <3>1 DEF Lock, Busy, Tls, fileVars, histVars
    <3>2. CASE ~Free
      BY <1>3, <2>1, <3>2 DEF Lock, fileVars, histVars, Tls
    <3>3. QED BY <3>1, <3>2
  <2>2. CASE PortFree(p) \/ PortTaken(p) \/ PortSaved(p) \/ PortSaveFails(p)
    <3>1. /\ bridge[p] \in {"port", "port saving"} /\ UNCHANGED <<cert, key, sans, served, cut, copy>>
          /\ Goes(p, "check") \/ Goes(p, "port saving")
      BY <2>2 DEF PortFree, PortTaken, PortSaved, PortSaveFails, Bridge, fileVars, tlsVars, histVars
    <3>2. QED BY <1>4, <3>1 DEF Busy, Tls
  <2>3. CASE Check(p)
    <3>1. bridge[p] = "check" /\ UNCHANGED <<cert, key, sans, served, cut, copy>>
      BY <2>3 DEF Check, Bridge, fileVars, histVars
    <3>2. Settled
      BY <1>6, <3>1 DEF Held, Tls
    <3>3. ~cut => Whole /\ Whole'
      BY <3>1, <3>2 DEF FilesInv, Whole
    <3>4. CASE Outdated(p) /\ Bridge(p, "check", "remove cert")
      <4>1. bridge'[p] = "remove cert" /\ Goes(p, "remove cert") /\ bridge[p] \in Held
        BY <1>c, <3>1, <3>4 DEF Bridge, Held
      <4>2. ~cut => NewlyAdvertised(p)'
        BY <3>1, <3>3, <3>4 DEF Outdated, HavePair, Whole, NewlyAdvertised
      <4>3. FilesFor(p)'
        BY <3>1, <4>1, <4>2 DEF FilesFor, Tls
      <4>4. QED BY <1>5, <3>1, <3>3, <4>1, <4>3
    <3>5. CASE ~Outdated(p) /\ HavePair /\ Bridge(p, "check", "load")
      <4>1. bridge'[p] = "load" /\ Goes(p, "load") /\ bridge[p] \in Held
        BY <1>c, <3>1, <3>5 DEF Bridge, Held
      <4>2. cert # None /\ copy[p].addr \in {None, sans}
        BY <3>5 DEF Outdated, HavePair
      <4>3. FilesFor(p)'
        BY <3>1, <4>1, <4>2 DEF FilesFor, Tls
      <4>4. QED BY <1>5, <3>1, <3>3, <4>1, <4>3
    <3>6. CASE ~HavePair /\ Bridge(p, "check", "new cert")
      <4>1. bridge'[p] = "new cert" /\ Goes(p, "new cert") /\ bridge[p] \in Held
        BY <1>c, <3>1, <3>6 DEF Bridge, Held
      <4>2. ~cut => NewlyAdvertised(p)'
        <5>1. ~cut => cert = None \/ (cert \in Cert /\ key = cert.serial)
          BY <3>3 DEF Whole
        <5>2. \A c \in Cert : c.serial # None
          BY DEF Cert
        <5>3. ~cut => cert = None
          BY <3>6, <5>1, <5>2 DEF HavePair
        <5>4. QED BY <3>1, <3>3, <5>3 DEF Whole, NewlyAdvertised
      <4>3. FilesFor(p)'
        BY <3>1, <4>1, <4>2 DEF FilesFor, Tls
      <4>4. QED BY <1>5, <3>1, <3>3, <4>1, <4>3
    <3>7. QED BY <2>3, <3>4, <3>5, <3>6 DEF Check
  <2>k. CASE RemoveKey(p) /\ Goes(p, "load")
    <3>1. bridge'[p] = "load" /\ ~Goes(p, "new cert")
      BY <1>0, <2>k DEF Goes
    <3>2. bridge[p] = "remove key" /\ cert # None /\ UNCHANGED cert /\ cut' = TRUE
      BY <2>k, <3>1 DEF RemoveKey
    <3>3. FilesFor(p)'
      BY <3>1, <3>2 DEF FilesFor, Tls
    <3>4. QED BY <1>5, <2>k, <3>2, <3>3 DEF Held, Tls
  <2>4. CASE RemoveCert(p) \/ (RemoveKey(p) /\ ~Goes(p, "load")) \/ NewCert(p)
    <3>1. /\ UNCHANGED <<sans, served, cut, copy>> /\ bridge[p] \in Held \cap (Tls \cup {"remove cert"})
          /\ \E to \in {"remove key", "new cert", "write cert"} : Goes(p, to)
      BY <2>4 DEF RemoveCert, RemoveKey, NewCert, Bridge, histVars, Held, Tls
    <3>2. PICK to \in {"remove key", "new cert", "write cert"} : Goes(p, to)
      BY <3>1
    <3>3. bridge'[p] = to /\ to \in Tls
      BY <1>c, <3>2 DEF Tls
    <3>4. FilesFor(p)'
      BY <2>f, <3>1, <3>2, <3>3 DEF FilesFor, NewlyAdvertised
    <3>5. QED BY <1>5, <3>1, <3>2, <3>3, <3>4
  <2>5. CASE Loads(p)
    <3>1. bridge[p] = "load" /\ bridge[p] \in Held \ Tls /\ UNCHANGED <<cert, key, sans, cut>> /\ Settled
      BY <1>6, <2>5 DEF Loads, fileVars, Held, Tls
    <3>2. CASE cert # Torn /\ key = cert.serial
      <4>1. /\ Goes(p, "serving") /\ served'.cert = cert /\ UNCHANGED copy /\ bridge'[p] = "serving"
            /\ cert \in Cert
        BY <1>0, <1>c, <2>5, <2>f, <3>1, <3>2 DEF Loads, Serves, MayBe, FilesFor
      <4>2. ~cut => Whole /\ Whole' /\ copy[p].addr \in {None, cert.addr}
        BY <2>f, <3>1, <4>1 DEF FilesInv, Whole, FilesFor
      <4>3. FilesFor(p)'
        BY <3>1, <4>1, <4>2 DEF FilesFor, Tls
      <4>4. QED BY <1>5, <3>1, <4>1, <4>2, <4>3
    <3>3. CASE ~(cert # Torn /\ key = cert.serial)
      BY <1>3, <2>5, <3>1, <3>3 DEF Loads
    <3>4. QED BY <3>2, <3>3
  <2>6. CASE WriteCert(p)
    <3>1. /\ bridge[p] = "write cert" /\ bridge[p] \in Held \cap Tls /\ UNCHANGED <<key, sans, served, cut, copy>>
          /\ Goes(p, "new key") /\ bridge'[p] = "new key"
      BY <1>c, <2>6 DEF WriteCert, Bridge, histVars, Held, Tls
    <3>2. cert' \in Cert /\ cert'.addr = copy[p].addr
      <4>1. PICK n \in Serial : cert' = [serial |-> n, addr |-> copy[p].addr]
        BY <2>6 DEF WriteCert
      <4>2. QED BY <1>0, <4>1 DEF Cert
    <3>3. FilesFor(p)'
      BY <2>f, <3>1, <3>2 DEF FilesFor, NewlyAdvertised
    <3>4. QED BY <1>5, <3>1, <3>3 DEF Tls
  <2>7. CASE NewKey(p)
    <3>1. /\ bridge[p] = "new key" /\ bridge[p] \in Held \cap Tls
          /\ UNCHANGED <<cert, sans, served, cut, copy>>
          /\ Goes(p, "write key") /\ bridge'[p] = "write key"
      BY <1>c, <2>7 DEF NewKey, Bridge, histVars, Held, Tls
    <3>2. FilesFor(p)'
      BY <2>f, <3>1 DEF FilesFor, NewlyAdvertised
    <3>3. QED BY <1>5, <3>1, <3>2 DEF Tls
  <2>8. CASE WriteKey(p)
    <3>1. /\ bridge[p] = "write key" /\ bridge[p] \in Held \cap Tls
          /\ UNCHANGED <<cert, sans, copy>> /\ key' = cert.serial
          /\ cert \in Cert /\ cert.addr = copy[p].addr
      BY <2>8, <2>f DEF WriteKey, FilesFor, Held, Tls
    <3>2. CASE copy[p].addr # None
      <4>1. /\ Goes(p, "new sans") /\ bridge'[p] = "new sans" /\ UNCHANGED <<served, cut>>
        BY <1>c, <2>8, <3>2 DEF WriteKey
      <4>2. FilesFor(p)'
        BY <2>f, <3>1, <3>2, <4>1 DEF FilesFor, NewlyAdvertised
      <4>3. QED BY <1>5, <3>1, <4>1, <4>2 DEF Tls
    <3>3. CASE copy[p].addr = None
      <4>1. /\ Goes(p, "serving") /\ bridge'[p] = "serving" /\ served'.cert = cert
            /\ cut' = (cut /\ sans # None)
        <5>1. Serves(p, cert) /\ cut' = (cut /\ sans # None)
          BY <2>8, <3>3 DEF WriteKey
        <5>2. Goes(p, "serving") /\ served'.cert = cert
          BY <5>1 DEF Serves
        <5>3. QED BY <1>c, <5>1, <5>2
      <4>2. ~cut => sans = None
        BY <2>f, <3>1, <3>3 DEF FilesFor, NewlyAdvertised
      <4>3. ~cut' => Whole'
        BY <3>1, <3>3, <4>1, <4>2 DEF Whole
      <4>4. FilesFor(p)'
        BY <3>1, <3>3, <4>1 DEF FilesFor, Tls
      <4>5. QED BY <1>5, <3>1, <4>1, <4>3, <4>4
    <3>4. QED BY <3>2, <3>3
  <2>9. CASE NewSans(p)
    <3>1. /\ bridge[p] = "new sans" /\ bridge[p] \in Held \cap Tls
          /\ UNCHANGED <<cert, key, served, cut, copy>>
          /\ Goes(p, "write sans") /\ bridge'[p] = "write sans"
      BY <1>c, <2>9 DEF NewSans, Bridge, histVars, Held, Tls
    <3>2. FilesFor(p)'
      BY <2>f, <3>1 DEF FilesFor, NewlyAdvertised
    <3>3. QED BY <1>5, <3>1, <3>2 DEF Tls
  <2>10. CASE WriteSans(p)
    <3>1. /\ bridge[p] \in Held /\ UNCHANGED <<cert, key, copy>> /\ sans' = copy[p].addr
          /\ Goes(p, "serving") /\ bridge'[p] = "serving" /\ served'.cert = cert
          /\ cert \in Cert /\ cert.addr = copy[p].addr /\ key = cert.serial
      BY <1>c, <2>10, <2>f DEF WriteSans, RecordedAddr, Serves, FilesFor, Held, Tls
    <3>2. Whole'
      BY <3>1 DEF Whole
    <3>3. FilesFor(p)'
      BY <3>1 DEF FilesFor, Tls
    <3>4. QED BY <1>5, <3>1, <3>2, <3>3
  <2>s. CASE SansFails(p)
    <3>1. /\ bridge[p] \in Held /\ Goes(p, "serving") /\ bridge'[p] = "serving" /\ cut' = TRUE
      BY <1>c, <2>s DEF SansFails, Serves, Held, Tls
    <3>2. FilesFor(p)'
      BY <3>1 DEF FilesFor
    <3>3. QED BY <1>5, <3>1, <3>2
  <2>11. CASE TlsFails(p) \/ StopBridge(p)
    <3>1. /\ BridgeGone(p) /\ UNCHANGED <<cert, key, sans, served>>
          /\ cut => cut'
          /\ bridge[p] \in Tls => cut'
      <4>1. CASE TlsFails(p)
        BY <4>1 DEF TlsFails, fileVars
      <4>2. CASE StopBridge(p)
        <5>1. bridge[p] \notin Tls
          BY <4>2 DEF StopBridge, Tls
        <5>2. QED BY <4>2, <5>1 DEF StopBridge, fileVars, histVars
      <4>3. QED BY <2>11, <4>1, <4>2
    <3>2. QED BY <1>3, <3>1
  <2>12. QED BY <1>7, <2>1, <2>2, <2>3, <2>4, <2>5, <2>6, <2>7, <2>8, <2>9, <2>10, <2>11, <2>k, <2>s DEF BridgeStep
<1>8. ASSUME NEW p \in Proc, Crash(p)
      PROVE  FilesInv'
  <2>1. /\ BridgeGone(p) /\ UNCHANGED <<cert, key, sans, served>>
        /\ cut' = (cut \/ bridge[p] \in Tls)
    BY <1>8 DEF Crash, fileVars
  <2>2. QED BY <1>3, <2>1
<1>9. (\E p \in Proc : Load(p) \/ BeginSave(p) \/ EndSave(p) \/ SaveFails(p) \/ Quit(p))
        \/ Edit \/ UNCHANGED vars
        => UNCHANGED <<tlsVars, served, cut, bridge, copy>>
  BY DEF Load, BeginSave, EndSave, SaveFails, Quit, Edit, vars, fileVars, tlsVars, histVars
<1>10. QED BY <1>1, <1>2, <1>7, <1>8, <1>9 DEF Next, AppStep

-----------------------------------------------------------------------------
(* The inductive invariant of the folder: types, one holder of the lock,   *)
(* what the files of the certificate are and were, and one identity.       *)
THEOREM ConfigInvariant == Spec => []ConfigInv
<1>1. Init => ConfigInv
  <2> SUFFICES ASSUME Init PROVE ConfigInv
    OBVIOUS
  <2>1. /\ bridge = [p \in Proc |-> "none"] /\ app = [p \in Proc |-> "off"]
        /\ toml = Default /\ served = [id |-> None, cert |-> None]
        /\ cert = None /\ key = None /\ sans = None /\ ~cut
    BY DEF Init
  <2>2. TypeOK
    BY DEF Init, TypeOK, Config, Default, MayBe
  <2>3. OneHolder /\ Settled
    BY <2>1 DEF OneHolder, Held, Settled, Tls
  <2>4. Whole
    BY <2>1 DEF Whole
  <2>5. \A p \in Proc : FilesFor(p)
    BY <2>1 DEF FilesFor, Tls
  <2>6. IdInv
    BY <2>1 DEF IdInv, BridgeOfApp, SameIdentity, Runs, Default
  <2>7. QED BY <2>2, <2>3, <2>4, <2>5, <2>6 DEF ConfigInv, FilesInv
<1>2. ConfigInv /\ [Next]_vars => ConfigInv'
  BY TypeStep, HolderStep, FilesStep, IdStep DEF ConfigInv
<1>3. QED BY <1>1, <1>2, PTL DEF Spec

(* A serving bridge's certificate covers the valid address it advertises,  *)
(* whatever addresses earlier runs had, unless a generation was cut short, *)
(* its addresses were not recorded or the old pair could not be removed.   *)
THEOREM CoversAddressKept == Spec => []CoversAddress
<1>1. ConfigInv => CoversAddress
  <2> SUFFICES ASSUME ConfigInv, NEW p \in Proc, bridge[p] = "serving", copy[p].addr # None, ~cut
               PROVE  copy[p].addr \in Names(served.cert) \cup Invalid
    BY DEF CoversAddress
  <2>1. copy[p].addr = served.cert.addr
    BY DEF ConfigInv, FilesInv, FilesFor
  <2>2. QED BY <2>1 DEF Names
<1>2. QED BY <1>1, ConfigInvariant, PTL

(* However many processes share the folder, only a crash or failed write   *)
(* in the middle of a generation leaves a pair that no start can load.     *)
THEOREM PairUsableKept == Spec => []PairUsable
<1>1. ConfigInv => PairUsable
  <2> SUFFICES ASSUME ConfigInv, lock = None, ~cut
               PROVE  (cert = None /\ key = None) \/ (cert \in Cert /\ key = cert.serial)
    BY DEF PairUsable
  <2>1. Settled
    BY ConfigAssumption DEF ConfigInv, OneHolder, Held, Settled
  <2>2. QED BY <2>1 DEF ConfigInv, FilesInv, Whole
<1>2. QED BY <1>1, ConfigInvariant, PTL

(* The certificate a phone has pinned is replaced only by one for other    *)
(* addresses, or after a generation was cut short, its addresses were not  *)
(* recorded or the old pair could not be removed.                          *)
THEOREM PinAlwaysKept == Spec => PinKept
<1> DEFINE Kept == served.cert # None /\ served'.cert # served.cert =>
                     cut \/ served'.cert.addr # served.cert.addr
<1>1. ConfigInv /\ [Next]_vars => Kept
  <2> SUFFICES ASSUME ConfigInv, [Next]_vars, served.cert # None, served'.cert # served.cert, ~cut
               PROVE  served'.cert.addr # served.cert.addr
    OBVIOUS
  <2>1. PICK p \in Proc : Loads(p) \/ WriteKey(p) \/ WriteSans(p) \/ SansFails(p)
    BY DEF Next, AppStep, BridgeStep, Load, BeginSave, EndSave, SaveFails, StartBridge, Quit, Lock,
           PortFree, PortTaken, PortSaved, PortSaveFails, Check, RemoveCert, RemoveKey, NewCert,
           WriteCert, NewKey, NewSans, TlsFails, StopBridge, Crash, Edit, vars, histVars
  <2>2. FilesFor(p) /\ OneHolder
    BY DEF ConfigInv, FilesInv
  <2>3. CASE Loads(p)
    <3>1. bridge[p] = "load" /\ served'.cert = cert
      BY <2>3 DEF Loads, Serves
    <3>2. Settled
      BY <2>2, <3>1 DEF OneHolder, Held, Settled, Tls
    <3>3. QED BY <3>1, <3>2 DEF ConfigInv, FilesInv, Whole
  <2>4. CASE WriteKey(p)
    <3>1. bridge[p] = "write key" /\ copy[p].addr = None
      BY <2>4 DEF WriteKey
    <3>2. QED BY <2>2, <3>1 DEF FilesFor, NewlyAdvertised, Tls
  <2>5. CASE WriteSans(p) \/ SansFails(p)
    <3>1. bridge[p] \in {"new sans", "write sans"} /\ served'.cert = cert
      <4>1. /\ bridge[p] = "write sans" \/ bridge[p] = "new sans"
            /\ Serves(p, cert)
        BY <2>5 DEF WriteSans, SansFails
      <4>2. QED BY <4>1 DEF Serves
    <3>2. QED BY <2>2, <3>1 DEF FilesFor, NewlyAdvertised, Tls
  <2>6. QED BY <2>1, <2>3, <2>4, <2>5
<1>2. QED BY <1>1, ConfigInvariant, PTL DEF Spec, PinKept

(* The identity bridges serve with changes only after a save of            *)
(* common.toml was cut short or read halfway, whatever processes start,    *)
(* crash and overwrite each other's configuration.                         *)
THEOREM IdentityAlwaysKept == Spec => IdentityKept
<1> DEFINE Kept == served.id # None /\ served'.id # served.id => disturbed
<1>1. ConfigInv /\ [Next]_vars => Kept
  <2> SUFFICES ASSUME ConfigInv, [Next]_vars, served.id # None, served'.id # served.id, ~disturbed
               PROVE  FALSE
    OBVIOUS
  <2>1. PICK p \in Proc : Loads(p) \/ WriteKey(p) \/ WriteSans(p) \/ SansFails(p)
    BY DEF Next, AppStep, BridgeStep, Load, BeginSave, EndSave, SaveFails, StartBridge, Quit, Lock,
           PortFree, PortTaken, PortSaved, PortSaveFails, Check, RemoveCert, RemoveKey, NewCert,
           WriteCert, NewKey, NewSans, TlsFails, StopBridge, Crash, Edit, vars, histVars
  <2>2. bridge[p] # "none" /\ served'.id = copy[p].id
    <3>1. bridge[p] # "none" /\ (UNCHANGED served \/ \E c : Serves(p, c))
      BY <2>1 DEF Loads, WriteKey, WriteSans, SansFails
    <3>2. QED BY <3>1 DEF Serves
  <2>3. Runs(p) /\ copy[p].id = mem[p].id
    BY <2>2 DEF ConfigInv, IdInv, BridgeOfApp, Runs
  <2>4. served.id = mem[p].id
    BY <2>3 DEF ConfigInv, IdInv, SameIdentity
  <2>5. QED BY <2>2, <2>3, <2>4
<1>2. QED BY <1>1, ConfigInvariant, PTL DEF Spec, IdentityKept
=============================================================================
