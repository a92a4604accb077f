---------------------------- MODULE StageConfig ----------------------------
(***************************************************************************)
(* The stage configuration, /etc/config/stageneth, as the requests of      *)
(* stageneth-api edit it: globals, services, bindings, forwardings,        *)
(* logging and presets, each a read-modify-write under stagenethFileMu;    *)
(* backup and restore, which replace it behind that mutex; restarts of the *)
(* process and power cuts between any two system calls.                    *)
(***************************************************************************)
EXTENDS Render, AtomicFile, FiniteSets, Functions

CONSTANTS
  Req,        \* slots for requests served at once
  Edits,      \* the bodies of the requests that edit the configuration
  Presets,    \* stagenethPresets
  InitConfig, \* the configuration of the image
  InitOther,  \* the other packages of a backup, and their contents
  Uploads,    \* the backups that clients have, of any origin: texts by package
  Failed,     \* an export that failed or had nothing to export
  Nobody,     \* no request
  Budget      \* how often each thing outside the program may happen, and how
              \* many faults in all

Fault == {"save", "dir", "export", "import", "restart", "cut"}
Allowance == Fault \cup {"request", "faults"}
Nothing == [globals |-> << >>, services |-> << >>, bindings |-> << >>,
            forwardings |-> << >>, logging |-> << >>]
Other == DOMAIN InitOther
Package == {"stageneth"} \cup Other

\* Every binding names a service, if any, that exists.
AllBound(c) ==
  \A b \in Values(c.bindings) :
    Get(b, "service") # "" => Get(b, "service") \in DOMAIN c.services
AllApart(c) ==
  \A m, n \in DOMAIN c.services :
    m # n /\ Get(c.services[m], "vlan_id") # ""
    => Get(c.services[m], "vlan_id") # Get(c.services[n], "vlan_id")

\* Every end of a forwarding, as far as it is given, is a service that exists,
\* or one that clients delete: a deletion leaves the forwardings as they are.
Deleted ==
  {j.name : j \in {e \in Edits : e.op = "delete" /\ e.type = "services"}}
ForwardingEnds(c) ==
  UNION {{Get(f, "src"), Get(f, "dest")} : f \in Values(c.forwardings)}
AllForwarded(c) ==
  ForwardingEnds(c) \subseteq DOMAIN c.services \cup Deleted \cup {""}

\* The image is in order; a backup of a client need not be, a restore looks at
\* the names of its packages only.  Requests are of the routes there are.
ASSUME StageConfigAssumption ==
  /\ Budget \in [Allowance -> Nat]
  /\ Nobody \notin Req /\ "stageneth" \notin Other
  /\ Failed \notin Values(InitOther) \cup {Nothing}
  /\ \A j \in Edits :
       /\ j.op \in {"globals", "put", "delete", "logging", "preset", "done"}
       /\ j.op \in {"put", "delete"} =>
            j.type \in {"services", "bindings", "forwardings"}
  /\ \A u \in Uploads :
       /\ DOMAIN u \in SUBSET Package \ {{}} /\ Failed \notin Values(u)
       /\ "stageneth" \in DOMAIN u => DOMAIN u["stageneth"] = DOMAIN Nothing
  /\ InitConfig # Torn /\ DOMAIN InitConfig = DOMAIN Nothing
  /\ "mgmt" \in DOMAIN InitConfig.services
  /\ AllBound(InitConfig) /\ AllApart(InitConfig) /\ AllForwarded(InitConfig)

\* What the texts of the presets are trusted for.
ASSUME PresetsAssumption ==
  \A p \in Values(Presets) :
    /\ "mgmt" \in DOMAIN p.services
    /\ \A m, n \in DOMAIN p.services :
         m # n => Vlan(p.services[m]) # Vlan(p.services[n])
    /\ \A f \in Values(p.forwardings) :
         {f.src, f.dest} \subseteq DOMAIN p.services

VARIABLES
  disk,    \* the file, see AtomicFile
  other,   \* the contents of the other packages
  backup,  \* the backup last downloaded: the contents of all packages
  brought, \* history: the stage configurations that restores have imported
  mu,      \* the request that holds stagenethFileMu
  req,     \* where each request is, and its locals
  left     \* what is left of Budget

vars == <<disk, other, backup, brought, mu, req, left>>

Ask == left.request > 0 /\ left' = [left EXCEPT !.request = @ - 1]
Spend(k) ==
  /\ left[k] > 0 /\ left.faults > 0
  /\ left' = [left EXCEPT ![k] = @ - 1, !.faults = @ - 1]
\* A file whose data was lost reads as an empty one.
Config == IF disk.now.text = Torn THEN Nothing ELSE disk.now.text

\* base is the configuration loaded, doc the one to save, prev the snapshot
\* of a restore; crossed is history: a restore came in between, or, for a
\* restore, anything else.
Idle == [pc |-> "idle", job |-> [op |-> "none"], base |-> Nothing,
         doc |-> Nothing, prev |-> << >>, todo |-> {}, crossed |-> FALSE]
At(r, pc) == req[r].pc = pc
Become(r, s) == req' = [req EXCEPT ![r] = s]
Goto(r, pc) == Become(r, [req[r] EXCEPT !.pc = pc])
Unlock(r) == mu' = Nobody /\ Become(r, Idle)
-----------------------------------------------------------------------------
(* Validation.                                                              *)

Bool(v) == v \in {"0", "1"}
IntRange(v, lo, hi) == v = "" \/ InRange(v, lo, hi)
Matches(pattern, v) == v \in WellFormed[pattern]

GlobalsField(k, v) ==
  CASE k = "switch_vendor" -> Matches("name", v)
    [] k = "trunk" -> v = "" \/ Matches("iface", v)
    [] k = "ptp_timestamping" -> v \in {"", "software", "hardware"}
    [] k \in {"show_lock", "enabled"} -> Bool(v)
    [] OTHER -> FALSE

ServiceField(k, v) ==
  CASE k = "vlan_id" -> InRange(v, 1, 4094)
    [] k \in {"ipaddr", "netmask"} -> v = "" \/ Matches("ipv4", v)
    [] k = "mtu" -> IntRange(v, 68, 9700)
    [] k = "dscp" -> IntRange(v, 0, 63)
    [] k = "priority" -> IntRange(v, 0, 7)
    [] k \in {"ptp", "multicast", "untagged", "igmp_snooping", "enabled"} ->
         Bool(v)
    [] k = "description" -> Matches("text", v)
    [] OTHER -> FALSE

\* (mutant) a binding may name any service
BindingFieldAny(k, v, st) ==
  CASE k = "interface" -> v = "" \/ Matches("iface", v)
    [] k = "service" -> TRUE
    [] OTHER -> FALSE
BindingField(k, v, st) ==
  CASE k = "interface" -> v = "" \/ Matches("iface", v)
    [] k = "service" -> v \in DOMAIN st.services
    [] OTHER -> FALSE

ForwardingField(k, v, st) ==
  CASE k \in {"src", "dest"} -> v \in DOMAIN st.services
    [] k = "enabled" -> Bool(v)
    [] OTHER -> FALSE

LoggingField(n, k, v) ==
  CASE k = "enabled" -> Bool(v)
    [] k = "host" -> v = "" \/ Matches("host", v)
    [] k = "port" -> IntRange(v, 1, 65535)
    [] k = "protocol" -> \/ v \in {"udp", "tcp"}
                         \/ v = "both" /\ n = "collector"
    [] k = "dir" -> n = "collector" /\ Matches("dir", v)
    [] OTHER -> FALSE

\* What a handler refuses before it takes the mutex.
Accepts(j) ==
  CASE j.op = "globals" -> /\ DOMAIN j.vals # {}
                           /\ \A k \in DOMAIN j.vals : GlobalsField(k, j.vals[k])
    [] j.op = "put" -> Matches("name", j.name)
    [] j.op = "delete" -> ~(j.type = "services" /\ j.name = "mgmt")
    [] j.op = "logging" ->
         /\ j.name \in {"remote", "collector"}
         /\ \A k \in DOMAIN j.vals : LoggingField(j.name, k, j.vals[k])
    [] j.op = "preset" ->
         /\ j.name \in DOMAIN Presets
         /\ j.filter \subseteq DOMAIN Presets[j.name].services
    [] OTHER -> TRUE

Valid(type, vals, st) ==
  /\ DOMAIN vals # {}
  /\ \A k \in DOMAIN vals :
       CASE type = "services" -> ServiceField(k, vals[k])
         [] type = "bindings" -> BindingField(k, vals[k], st)
         [] type = "forwardings" -> ForwardingField(k, vals[k], st)

\* Two services with one VLAN, as far as the texts tell.
\* (mutant) the service itself is compared, the others are not
VlanTakenBySelf(n, vals, st) ==
  /\ Get(vals, "vlan_id") # ""
  /\ n \in DOMAIN st.services
  /\ Get(st.services[n], "vlan_id") = Get(vals, "vlan_id")
VlanTaken(n, vals, st) ==
  /\ Get(vals, "vlan_id") # ""
  /\ \E o \in DOMAIN st.services \ {n} :
       Get(st.services[o], "vlan_id") = Get(vals, "vlan_id")

Bound(n, st) == \E b \in Values(st.bindings) : Get(b, "service") = n

\* What it refuses once it has loaded the configuration.
Refuses(j, st) ==
  CASE j.op = "put" -> \/ ~Valid(j.type, j.vals, st)
                       \/ j.type = "services" /\ VlanTaken(j.name, j.vals, st)
    [] j.op = "delete" -> \/ j.type = "services" /\ Bound(j.name, st)
                          \/ j.name \notin DOMAIN st[j.type]
    [] OTHER -> FALSE
-----------------------------------------------------------------------------
(* The edits.                                                               *)

With(f, g) ==
  [x \in DOMAIN f \cup DOMAIN g |-> IF x \in DOMAIN g THEN g[x] ELSE f[x]]
Put(f, n, vals) == With(f, [x \in {n} |-> vals])

\* mgmt can never be deselected.
\* (mutant) a filter is taken at its word
ChosenFreely(p, filter) == IF filter = {} THEN DOMAIN p.services ELSE filter
Chosen(p, filter) ==
  IF filter = {} THEN DOMAIN p.services
  ELSE (filter \cup {"mgmt"}) \cap DOMAIN p.services

\* (mutant) the forwardings of services that are not chosen stay
PresetForwardsAll(p, filter, st) ==
  [st EXCEPT !.services = Restrict(p.services, Chosen(p, filter)),
             !.bindings = << >>, !.forwardings = p.forwardings]
\* Globals and logging stay; the topology is the preset's.
PresetApplied(p, filter, st) ==
  LET within == {f \in DOMAIN p.forwardings :
                   {p.forwardings[f].src, p.forwardings[f].dest}
                     \subseteq Chosen(p, filter)}
  IN [st EXCEPT !.services = Restrict(p.services, Chosen(p, filter)),
                !.bindings = << >>,
                !.forwardings = Restrict(p.forwardings, within)]

Edited(j, st) ==
  CASE j.op = "globals" -> [st EXCEPT !.globals = With(@, j.vals)]
    [] j.op = "put" -> [st EXCEPT ![j.type] = Put(@, j.name, j.vals)]
    [] j.op = "delete" ->
         [st EXCEPT ![j.type] = Restrict(@, DOMAIN @ \ {j.name})]
    [] j.op = "logging" -> [st EXCEPT !.logging = Put(@, j.name, j.vals)]
    [] j.op = "preset" -> PresetApplied(Presets[j.name], j.filter, st)
    [] j.op = "done" ->
         [st EXCEPT !.globals = Put(@, "firstboot_done", "1")]
-----------------------------------------------------------------------------
(* One request that edits: load, change, save under the mutex.              *)

\* The history of the others when r writes package p.
Crossed(r, p) ==
  [s \in Req |-> IF \/ p = "stageneth" /\ mu = s
                    \/ s # r /\ req[s].job.op = "restore"
                 THEN [req[s] EXCEPT !.crossed = TRUE] ELSE req[s]]

Receive(r, j) ==
  /\ At(r, "idle") /\ Ask
  /\ Accepts(j)
  /\ Become(r, [Idle EXCEPT !.pc = "load", !.job = j])
  /\ UNCHANGED <<disk, other, backup, brought, mu>>

\* (mutant) the file is read without the mutex
LoadUnlocked(r) ==
  /\ At(r, "load")
  /\ ~Refuses(req[r].job, Config)
  /\ mu' = r
  /\ Become(r, [req[r] EXCEPT !.pc = "write", !.base = Config,
                              !.doc = Edited(req[r].job, Config)])
  /\ UNCHANGED <<disk, other, backup, brought, left>>
Load(r) ==
  /\ At(r, "load") /\ mu = Nobody
  /\ ~Refuses(req[r].job, Config)
  /\ mu' = r
  /\ Become(r, [req[r] EXCEPT !.pc = "write", !.base = Config,
                              !.doc = Edited(req[r].job, Config)])
  /\ UNCHANGED <<disk, other, backup, brought, left>>

Refuse(r) ==
  /\ At(r, "load") /\ mu = Nobody
  /\ Refuses(req[r].job, Config)
  /\ Become(r, Idle)
  /\ UNCHANGED <<disk, other, backup, brought, mu, left>>

WriteTmp(r) ==
  /\ At(r, "write")
  /\ disk' = Written(Opened(disk), req[r].doc)
  /\ Goto(r, "sync")
  /\ UNCHANGED <<other, backup, brought, mu, left>>

SyncTmp(r) ==
  /\ At(r, "sync") /\ disk.tmp # NoTmp
  /\ disk' = Synced(disk)
  /\ Goto(r, "rename")
  /\ UNCHANGED <<other, backup, brought, mu, left>>

Rename(r) ==
  /\ At(r, "rename") /\ disk.tmp # NoTmp
  /\ disk' = Renamed(disk)
  /\ req' = [Crossed(r, "others") EXCEPT ![r].pc = "syncdir"]
  /\ UNCHANGED <<other, backup, brought, mu, left>>

\* The answer follows.  An error of the directory's fsync is ignored.
SyncDir(r) ==
  /\ At(r, "syncdir")
  /\ \/ disk' = DirSynced(disk) /\ UNCHANGED left
     \/ Spend("dir") /\ UNCHANGED disk
  /\ Unlock(r)
  /\ UNCHANGED <<other, backup, brought>>

\* (mutant) an error path leaves the mutex locked
SaveFailsLocked(r) ==
  /\ req[r].pc \in {"write", "sync", "rename"} /\ Spend("save")
  /\ disk' = IF At(r, "write") THEN Opened(disk) ELSE disk
  /\ Become(r, Idle)
  /\ UNCHANGED <<other, backup, brought, mu>>
SaveFails(r) ==
  /\ req[r].pc \in {"write", "sync", "rename"} /\ Spend("save")
  /\ disk' = IF At(r, "write") THEN Opened(disk) ELSE disk
  /\ Unlock(r)
  /\ UNCHANGED <<other, backup, brought>>
-----------------------------------------------------------------------------
(* Backup and restore: uci export and uci import, package by package and    *)
(* without the mutex.                                                       *)

Content(p) == IF p = "stageneth" THEN Config ELSE other[p]
Gone(p) == Content(p) = Nothing

Backup ==
  /\ Ask
  /\ backup' = [p \in Package |-> Content(p)]
  /\ UNCHANGED <<disk, other, brought, mu, req>>

\* What an operator may make of the backup downloaded.
Downloads ==
  {Restrict(backup, ps) :
     ps \in SUBSET {p \in Package : backup[p] # Nothing} \ {{}}}

\* Only the names of the packages are checked.
ReceiveRestore(r) ==
  /\ At(r, "idle") /\ Ask
  /\ \E data \in Uploads \cup Downloads :
       Become(r, [Idle EXCEPT
         !.pc = "export", !.todo = DOMAIN data,
         !.prev = [p \in DOMAIN data |-> Failed],
         !.job = [op |-> "restore", data |-> data]])
  /\ UNCHANGED <<disk, other, backup, brought, mu>>

\* When nothing is left of one loop the next one begins.
NextBlock(s, p, pc) ==
  IF s.todo = {p} THEN [s EXCEPT !.todo = DOMAIN s.prev, !.pc = pc]
  ELSE [s EXCEPT !.todo = @ \ {p}]

Export(r) ==
  /\ At(r, "export")
  /\ \E p \in req[r].todo :
       \/ /\ ~Gone(p) /\ UNCHANGED left
          /\ Become(r, NextBlock([req[r] EXCEPT !.prev[p] = Content(p)],
                                 p, "import"))
       \/ /\ IF Gone(p) THEN UNCHANGED left ELSE Spend("export")
          /\ Become(r, NextBlock(req[r], p, "import"))
  /\ UNCHANGED <<disk, other, backup, brought, mu>>

\* Package p is done.
Rest(s, p) == IF s.todo = {p} THEN Idle ELSE [s EXCEPT !.todo = @ \ {p}]

\* A package is replaced, or removed, behind the requests that edit.
Replace(p, text) ==
  IF p = "stageneth"
  THEN disk' = [Clean(text) EXCEPT !.tmp = disk.tmp] /\ UNCHANGED other
  ELSE other' = [other EXCEPT ![p] = text] /\ UNCHANGED disk

Import(r) ==
  /\ At(r, "import")
  /\ \E p \in req[r].todo :
       \/ /\ Replace(p, req[r].job.data[p]) /\ UNCHANGED left
          /\ brought' = IF p = "stageneth" THEN brought \cup {req[r].job.data[p]}
                        ELSE brought
          /\ req' = [Crossed(r, p) EXCEPT ![r] = Rest(@, p)]
       \/ /\ Spend("import") /\ UNCHANGED <<disk, other, brought>>
          /\ Become(r, [req[r] EXCEPT !.pc = "undo", !.todo = DOMAIN req[r].prev])
  /\ UNCHANGED <<backup, mu>>

\* (mutant) an empty export is imported like any other
SnapshotUnchecked(r, p) == req[r].prev[p]
Snapshot(r, p) == IF req[r].prev[p] = Failed THEN Nothing ELSE req[r].prev[p]

\* (mutant) the rollback ends with the first package
UndoFirst(r) ==
  /\ At(r, "undo")
  /\ \E p \in req[r].todo :
       /\ Replace(p, Snapshot(r, p)) /\ UNCHANGED left
       /\ req' = [Crossed(r, p) EXCEPT ![r] = Idle]
  /\ UNCHANGED <<backup, brought, mu>>
\* The rollback goes on after an error.
Undo(r) ==
  /\ At(r, "undo")
  /\ \E p \in req[r].todo :
       /\ \/ Replace(p, Snapshot(r, p)) /\ UNCHANGED left
          \/ Spend("import") /\ UNCHANGED <<disk, other>>
       /\ req' = [Crossed(r, p) EXCEPT ![r] = Rest(@, p)]
  /\ UNCHANGED <<backup, brought, mu>>
-----------------------------------------------------------------------------
(* The process is started again, alone or with the machine.                 *)

Restart ==
  /\ Spend("restart")
  /\ mu' = Nobody /\ req' = [r \in Req |-> Idle]
  /\ UNCHANGED <<disk, other, backup, brought>>

PowerCut ==
  /\ Spend("cut")
  /\ disk' \in AfterCut(disk)
  /\ mu' = Nobody /\ req' = [r \in Req |-> Idle]
  /\ UNCHANGED <<other, backup, brought>>

Init ==
  /\ disk = Clean(InitConfig)
  /\ other = InitOther
  /\ backup = [p \in Package |-> Nothing] /\ brought = {}
  /\ mu = Nobody
  /\ req = [r \in Req |-> Idle]
  /\ left = Budget

Step(r) ==
  \/ Load(r) \/ Refuse(r)
  \/ WriteTmp(r) \/ SyncTmp(r) \/ Rename(r) \/ SyncDir(r) \/ SaveFails(r)
  \/ Export(r) \/ Import(r) \/ Undo(r)

Outside ==
  \/ \E r \in Req : ReceiveRestore(r) \/ \E j \in Edits : Receive(r, j)
  \/ Backup \/ Restart \/ PowerCut

Next == Outside \/ \E r \in Req : Step(r)

Spec == Init /\ [][Next]_vars
-----------------------------------------------------------------------------
(* Properties.                                                              *)

\* The variables keep their shape; the configurations are checked below.
TypeOK ==
  /\ DOMAIN Config = DOMAIN Nothing
  /\ disk.kept # Torn
  /\ DOMAIN other = Other /\ DOMAIN backup = Package
  /\ Failed \notin Values(other) \cup {Config}
  /\ mu \in Req \cup {Nobody}
  /\ \A r \in Req :
       /\ req[r].pc \in {"idle", "load", "write", "sync", "rename", "syncdir",
                        "export", "import", "undo"}
       /\ req[r].todo \subseteq Package
       /\ DOMAIN req[r].prev \subseteq Package
  /\ left \in [Allowance -> Nat]

\* A reader never finds half a configuration, also after a power cut: the data
\* is synced before the new name exists (saveStageneth).
ReadsWhole == disk.now.text # Torn

\* What has been answered survives a power cut: the only text it can take back
\* is that of a request that has not synced the directory yet (saveStageneth),
\* unless the process died before that, or such an fsync has failed.
AnsweredSurvives ==
  [][/\ \A k \in {"dir", "restart"} : left[k] = Budget[k]
     /\ PowerCut
     => Config' = Config \/ \E r \in Req : At(r, "syncdir")]_vars

\* Whatever edits, presets and restores overlap, fail or are cut short, no
\* binding is left that names a service that does not exist (v1.go:286), unless
\* a restore has brought one: nothing checks what it imports (network.go:146).
BindingsBound == (\A d \in brought : AllBound(d)) => AllBound(Config)

\* No two services carry the same vlan_id, whatever requests set them at once
\* (v1.go:241), unless a restore has brought two that do.
VlansApart == (\A d \in brought : AllApart(d)) => AllApart(Config)

\* Edits, presets, lost updates and rollbacks lock no operator out: mgmt stays
\* a service, with an interface and a zone that accepts (v1DeleteSection,
\* applyPresetToUci, restoreConfig).  A restore that brings a configuration
\* without mgmt does lock them out.
MgmtBrought == \A d \in brought : "mgmt" \in DOMAIN d.services
MgmtReachable ==
  MgmtBrought =>
    /\ \E s \in Network(Config, {}) : s.key = <<"interface", Svc("mgmt")>>
    /\ \E s \in Firewall(Config) :
         {<<"network", Svc("mgmt")>>, <<"input", "ACCEPT">>} \subseteq s.opts

\* What the rendered firewall lets in for syslog is what the rendered rsyslog
\* listens on, for every service and all settings requests may leave.
Heard == UNION {s.opts : s \in {t \in Rsyslog(Config) :
                                 t.key = <<"rsyslog", "syslog">>}}
Admitted(n) ==
  LET rules == {s \in Firewall(Config) : s.key = <<"rule", "allow_syslog", n>>}
      Opts(s, k) == {o[2] : o \in {x \in s.opts : x[1] = k}}
  IN UNION {(UNION Opts(s, "proto")) \X Opts(s, "dest_port") : s \in rules}
SyslogAdmitted ==
  \A n \in DOMAIN Config.services \ {"mgmt"} : Admitted(n) = Heard

\* What one rendered file says of another holds, after every history: the device
\* of an interface and the ports of a bridge are devices, the network of a zone
\* is an interface, a rule and a forwarding are of zones, dhcp serves an
\* interface and gives out the address it has, umdns listens on interfaces and
\* mdns_repeater on their bridges (render.go).  Two forwardings are excepted:
\* one to a service that was deleted (v1DeleteSection looks at the bindings
\* only), and what a restore has brought, which is not looked at.
Named(file, type) == {s.key[2] : s \in {t \in file : t.key[1] = type}}
Said(file, type, option) ==
  {o[2] : o \in {x \in UNION {s.opts : s \in {t \in file : t.key[1] = type}} :
                  x[1] = option}}
ForwardingsAgree(fw) ==
  (\A d \in brought : AllForwarded(d)) /\ MgmtBrought =>
    (Said(fw, "forwarding", "src") \cup Said(fw, "forwarding", "dest"))
      \subseteq Said(fw, "zone", "name") \cup Deleted \cup {""}
AddressesAgree(net) ==
  \A s \in Dhcp(Config) : \E i \in net :
    /\ i.key[1] = "interface" /\ <<"interface", i.key[2]>> \in s.opts
    /\ \A o \in s.opts : o[1] = "ntp" => <<"ipaddr", o[2]>> \in i.opts
FilesAgree ==
  LET net == Network(Config, {})
      fw == Firewall(Config)
      mdns == MdnsRepeater(Config)
      interfaces == Named(net, "interface")
      devices == Said(net, "device", "name")
  IN /\ Said(net, "interface", "device") \subseteq devices
     /\ \A p \in UNION Said(net, "device", "ports") :
          Len(p) > 1 => p \in devices
     /\ Said(fw, "zone", "network") \subseteq interfaces
     /\ Said(fw, "rule", "src") \subseteq Said(fw, "zone", "name")
     /\ ForwardingsAgree(fw) /\ AddressesAgree(net)
     /\ Said(Umdns(Config), "umdns", "network") \subseteq interfaces
     /\ Said(mdns, "mdns_repeater", "interface")
          \subseteq Said(net, "interface", "device")

\* An edit never undoes another one: what a request saves is made from the
\* configuration it replaces, unless a restore came in between, which does not
\* take the mutex (v1.go:23).
EditsSerialize ==
  [][\A r \in Req :
       At(r, "rename") /\ req'[r].pc = "syncdir"
       => Config = req[r].base \/ req[r].crossed]_vars

\* A restore is all or nothing: when it ends, the packages it covers are all as
\* in the backup or all as they were before, also when an import fails, unless
\* its rollback fails too, an export failed, or something else wrote in between
\* (restoreConfig).
RestoreAllOrNothing ==
  [][\A r \in Req :
       LET s == req[r]
           Now(p) == IF p = "stageneth" THEN disk'.now.text ELSE other'[p]
       IN /\ s.job.op = "restore" /\ s.pc \in {"import", "undo"}
          /\ req'[r] = Idle /\ ~s.crossed
          /\ left'.export = Budget.export
          /\ left'.import >= Budget.import - 1
          /\ left'.restart = left.restart /\ left'.cut = left.cut
          => \/ \A p \in DOMAIN s.prev : Now(p) = s.job.data[p]
             \/ \A p \in DOMAIN s.prev : Now(p) = Snapshot(r, p)]_vars

\* The mutex is held only by a request that is saving.
MutexReleased ==
  mu # Nobody => req[mu].pc \in {"write", "sync", "rename", "syncdir"}

\* One vlan_id = one broadcast domain (v1.go:241): no two services render the
\* same trunk subinterface.
SubinterfacesApart ==
  \A m, n \in DOMAIN Config.services :
    m # n => \A p \in ServicePorts(Config, m, {"eth1"})
                     \cap ServicePorts(Config, n, {"eth1"}) : Len(p) = 1
=============================================================================
