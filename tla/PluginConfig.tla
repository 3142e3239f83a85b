----------------------------- MODULE PluginConfig -----------------------------
(***************************************************************************)
(* How the plugin gets and changes its configuration: the Configure RPC    *)
(* (applyConfig of cmd/silo-plugin-support/main.go and Store.Bootstrap),   *)
(* the swap of the mounted handler and of the connection pool, and the     *)
(* PATCH of the singleton row app_config by requests in flight.            *)
(*                                                                         *)
(* Configure is not locked.  The comment of Bootstrap takes for granted    *)
(* that the host calls it once at a time: HostSerializes is that           *)
(* assumption.  HTTP requests run beside it in any case; each keeps the    *)
(* handler it began with, and with it the pool and the settings.           *)
(***************************************************************************)
EXTENDS Integers, FiniteSets

CONSTANTS
    NULL,
    Databases,        \* the DSNs the host may pass
    Configures,       \* calls of Configure, each made once
    Requests,         \* PATCH requests, each made once
    Modules,          \* keys of ModuleToggles
    DefaultModules,   \* those that DefaultAppConfig turns on
    HostSerializes,   \* does the host wait for a Configure before the next?
    MaxFaults         \* bound: failed statements and crashes of a behavior

ASSUME ConfigAssumption ==
    /\ NULL \notin Databases \cup Configures
    /\ DefaultModules \subseteq Modules
    /\ HostSerializes \in BOOLEAN
    /\ MaxFaults \in Nat

VARIABLES
    row,        \* table app_config of each database
    writes,     \* history: number of UPDATEs of that row
    pool,       \* the pool each Configure opened
    handler,    \* httproutes.Server.handler: the Configure that mounted it
    poolPtr,    \* main's poolPtr: the Configure whose pool it is
    conf,       \* local state of every Configure
    req,        \* local state of every PATCH
    faults

vars == <<row, writes, pool, handler, poolPtr, conf, req, faults>>
tables == <<row, writes>>
process == <<pool, handler, poolPtr>>

-----------------------------------------------------------------------------
(* The row.  Of the settings beside the module toggles only their fate in  *)
(* NormalizeAppConfig and in json.Marshal matters.  Of slow_threshold_mbps *)
(* that is whether it is 0 ("off"): a legal value, but the key has         *)
(* omitempty.  Of the others, `rest`, "default" and "custom" pass, "zero"  *)
(* (limits that are 0) is replaced by the defaults, "bad" is refused.      *)

Settings == [rest : {"default", "custom", "zero", "bad"}, slow : {"on", "off"}]
DefaultSettings == [rest |-> "default", slow |-> "on"]
Forms == {"absent",     \* not migrated yet
          "empty",      \* '{}', as the first migration inserts it
          "json",
          "garbage"}    \* json.Unmarshal fails

Rows == [form : Forms, modules : SUBSET Modules, settings : Settings]

NoRow(form) == [form |-> form, modules |-> {}, settings |-> DefaultSettings]

\* json.Unmarshal into DefaultAppConfig(): missing keys keep their default.
ModulesIn(x) == IF x.form = "json" THEN x.modules ELSE DefaultModules
SettingsIn(x) == IF x.form = "json" THEN x.settings ELSE DefaultSettings

\* Mutant: a limit of zero stays unset.
NormalizedUnset(settings) ==
    IF settings.rest = "zero" THEN [settings EXCEPT !.rest = "unset"] ELSE settings

\* NormalizeAppConfig, of settings that are not bad.
Normalized(settings) ==
    IF settings.rest = "zero" THEN [settings EXCEPT !.rest = "default"] ELSE settings

\* What NormalizeAppConfig passes unchanged.
Canonical == {settings \in Settings : settings.rest \in {"default", "custom"}}

\* json.Marshal, as GetConfig will read it: a threshold of 0 leaves no key in the
\* row, and a missing key reads as the default.
Marshaled(settings) == [settings EXCEPT !.slow = "on"]

\* UpdateConfig: the whole struct, and nothing else, becomes the row.
Write(db, modules, settings) ==
    /\ row' = [row EXCEPT ![db] = [form |-> "json", modules |-> modules,
                                   settings |-> Marshaled(settings)]]
    /\ writes' = [writes EXCEPT ![db] = @ + 1]

-----------------------------------------------------------------------------
ConfigureSteps == {"new", "migrate", "read", "write", "mount", "swap", "close",
                   "done", "failed"}
ConfigureStates ==
    [pc       : ConfigureSteps,
     db       : Databases \cup {NULL},
     modules  : SUBSET Modules,          \* of `merged`
     settings : Settings,
     blind    : {"no", "yes"},           \* GetConfig returned an error
     seen     : Nat,                     \* `writes` when GetConfig read the row
     old      : Configures \cup {NULL}]  \* what poolPtr.Swap returned

RequestSteps == {"new", "read", "write", "reread", "done", "failed"}
RequestStates ==
    [pc       : RequestSteps,
     on       : Configures \cup {NULL},  \* the handler it runs in
     named    : SUBSET Modules,          \* toggles its body names,
     enabled  : SUBSET Modules,          \* and those it turns on
     settings : Settings]

NewConfigure == [pc |-> "new", db |-> NULL, modules |-> {}, settings |-> DefaultSettings,
                 blind |-> "no", seen |-> 0, old |-> NULL]
NewRequest == [pc |-> "new", on |-> NULL, named |-> {}, enabled |-> {},
               settings |-> DefaultSettings]

TypeOK ==
    /\ row \in [Databases -> Rows]
    /\ writes \in [Databases -> Nat]
    /\ pool \in [Configures -> {"none", "open", "closed"}]
    /\ handler \in Configures \cup {NULL}
    /\ poolPtr \in Configures \cup {NULL}
    /\ conf \in [Configures -> ConfigureStates]
    /\ req \in [Requests -> RequestStates]
    /\ faults \in 0..MaxFaults

\* A database is fresh, or has the row that an earlier plugin, of this or of
\* another version, or an operator with a SQL prompt left.
InitialRows == {NoRow("absent"), NoRow("garbage")}
                 \cup [form : {"json"}, modules : {{}, DefaultModules},
                       settings : Settings]

Init ==
    /\ row \in [Databases -> InitialRows]
    /\ writes = [db \in Databases |-> 0]
    /\ pool = [c \in Configures |-> "none"]
    /\ handler = NULL /\ poolPtr = NULL
    /\ conf = [c \in Configures |-> NewConfigure]
    /\ req = [r \in Requests |-> NewRequest]
    /\ faults = 0

Running(c) == conf[c].pc \notin {"new", "done", "failed"}
InFlight(r) == req[r].pc \notin {"new", "done", "failed"}

ConfigureIs(c, n) == conf' = [conf EXCEPT ![c] = n]
ConfigureGoes(c, pc) == ConfigureIs(c, [conf[c] EXCEPT !.pc = pc])
RequestIs(r, n) == req' = [req EXCEPT ![r] = n]
RequestGoes(r, pc) == RequestIs(r, [req[r] EXCEPT !.pc = pc])

-----------------------------------------------------------------------------
(* Configure                                                               *)

Configure(c) ==
    /\ conf[c].pc = "new"
    /\ HostSerializes => \A d \in Configures : ~Running(d)
    /\ \E db \in Databases :
         ConfigureIs(c, [NewConfigure EXCEPT !.pc = "migrate", !.db = db])
    /\ UNCHANGED <<tables, process, req, faults>>

\* migrate.Run, and the pool of this Configure.
Migrate(c) ==
    LET db == conf[c].db IN
    /\ conf[c].pc = "migrate"
    /\ row' = IF row[db].form = "absent" THEN [row EXCEPT ![db] = NoRow("empty")] ELSE row
    /\ pool' = [pool EXCEPT ![c] = "open"]
    /\ ConfigureGoes(c, "read")
    /\ UNCHANGED <<writes, handler, poolPtr, req, faults>>

\* Mutant: a failed Bootstrap leaves the new pool open.
GiveUpOpen(c) ==
    /\ ConfigureGoes(c, "failed")
    /\ UNCHANGED pool

\* applyConfig closes its pool when Bootstrap fails.
GiveUp(c) ==
    /\ pool' = [pool EXCEPT ![c] = "closed"]
    /\ ConfigureGoes(c, "failed")

\* `merged`: what is stored, or the defaults if it could not be read.
Merged(c, blind) ==
    LET x == row[conf[c].db] IN
    [conf[c] EXCEPT !.pc = "write", !.blind = IF blind THEN "yes" ELSE "no",
                    !.seen = writes[conf[c].db],
                    !.modules = IF blind THEN DefaultModules ELSE ModulesIn(x),
                    !.settings = IF blind THEN DefaultSettings
                                ELSE Normalized(SettingsIn(x))]

\* GetConfig and NormalizeAppConfig of Bootstrap: an error of the first is
\* replaced by the defaults, an error of the second ends the Configure.
BootstrapRead(c, failing) ==
    LET x == row[conf[c].db]
        blind == failing \/ x.form = "garbage"
    IN
    /\ conf[c].pc = "read"
    /\ IF ~blind /\ SettingsIn(x).rest = "bad"
       THEN GiveUp(c)
       ELSE ConfigureIs(c, Merged(c, blind)) /\ UNCHANGED pool
    /\ UNCHANGED <<tables, handler, poolPtr, req>>

\* UpdateConfig of Bootstrap.
BootstrapWrite(c) ==
    /\ conf[c].pc = "write"
    /\ Write(conf[c].db, conf[c].modules, conf[c].settings)
    /\ ConfigureGoes(c, "mount")
    /\ UNCHANGED <<process, req, faults>>

\* httpSrv.SetHandler.
Mount(c) ==
    /\ conf[c].pc = "mount"
    /\ handler' = c
    /\ ConfigureGoes(c, "swap")
    /\ UNCHANGED <<tables, pool, poolPtr, req, faults>>

\* Mutant: the old pool is the one of the new handler.
SwapPoolLoads(c) ==
    /\ conf[c].pc = "swap"
    /\ poolPtr' = c
    /\ ConfigureIs(c, [conf[c] EXCEPT !.pc = "close", !.old = c])
    /\ UNCHANGED <<tables, pool, handler, req, faults>>

\* poolPtr.Swap.
SwapPool(c) ==
    /\ conf[c].pc = "swap"
    /\ poolPtr' = c
    /\ ConfigureIs(c, [conf[c] EXCEPT !.pc = "close", !.old = poolPtr])
    /\ UNCHANGED <<tables, pool, handler, req, faults>>

\* old.Close(): it waits for statements under way and refuses later ones.
CloseOld(c) ==
    LET old == conf[c].old IN
    /\ conf[c].pc = "close"
    /\ pool' = IF old = NULL THEN pool ELSE [pool EXCEPT ![old] = "closed"]
    /\ ConfigureGoes(c, "done")
    /\ UNCHANGED <<tables, handler, poolPtr, req, faults>>

-----------------------------------------------------------------------------
(* hPatchConfig                                                            *)

\* ServeHTTP loads the handler; without one the answer is 503.
PatchConfig(r) ==
    /\ req[r].pc = "new" /\ handler # NULL
    /\ \E named \in SUBSET Modules : \E enabled \in SUBSET named :
         RequestIs(r, [NewRequest EXCEPT !.pc = "read", !.on = handler,
                                         !.named = named, !.enabled = enabled])
    /\ UNCHANGED <<tables, process, conf, faults>>

Row(r) == row[conf[req[r].on].db]

\* GetConfig; then cur.Modules = req.Modules and NormalizeAppConfig.
PatchRead(r) ==
    /\ req[r].pc = "read"
    /\ pool[req[r].on] = "open"
    /\ IF Row(r).form = "garbage" \/ SettingsIn(Row(r)).rest = "bad"
       THEN RequestGoes(r, "failed")
       ELSE RequestIs(r, [req[r] EXCEPT !.pc = "write",
                                        !.settings = Normalized(SettingsIn(Row(r)))])
    /\ UNCHANGED <<tables, process, conf, faults>>

\* Mutant: a PATCH stores a default Config with its toggles.
PatchWriteDefaults(r) ==
    /\ req[r].pc = "write"
    /\ pool[req[r].on] = "open"
    /\ Write(conf[req[r].on].db, req[r].enabled, DefaultSettings)
    /\ RequestGoes(r, "reread")
    /\ UNCHANGED <<process, conf, faults>>

\* UpdateConfig.
PatchWrite(r) ==
    /\ req[r].pc = "write"
    /\ pool[req[r].on] = "open"
    /\ Write(conf[req[r].on].db, req[r].enabled, req[r].settings)
    /\ RequestGoes(r, "reread")
    /\ UNCHANGED <<process, conf, faults>>

PatchReread(r) ==
    /\ req[r].pc = "reread"
    /\ pool[req[r].on] = "open"
    /\ RequestGoes(r, IF Row(r).form = "garbage" THEN "failed" ELSE "done")
    /\ UNCHANGED <<tables, process, conf, faults>>

\* The pool was closed under the request.
PatchRefused(r) ==
    /\ InFlight(r)
    /\ pool[req[r].on] = "closed"
    /\ RequestGoes(r, "failed")
    /\ UNCHANGED <<tables, process, conf, faults>>

-----------------------------------------------------------------------------
(* Faults                                                                  *)

\* A statement fails: of Bootstrap's two, the first is survived.
ConfigureFails(c) ==
    /\ faults < MaxFaults /\ faults' = faults + 1
    /\ \/ BootstrapRead(c, TRUE)
       \/ /\ conf[c].pc = "write" /\ GiveUp(c)
          /\ UNCHANGED <<tables, handler, poolPtr, req>>
       \/ /\ conf[c].pc = "migrate" /\ ConfigureGoes(c, "failed")
          /\ UNCHANGED <<tables, process, req>>

PatchFails(r) ==
    /\ faults < MaxFaults /\ faults' = faults + 1
    /\ InFlight(r)
    /\ RequestGoes(r, "failed")
    /\ UNCHANGED <<tables, process, conf>>

\* The process dies.
Crash ==
    /\ faults < MaxFaults /\ faults' = faults + 1
    /\ handler' = NULL /\ poolPtr' = NULL
    /\ pool' = [c \in Configures |-> IF pool[c] = "open" THEN "closed" ELSE pool[c]]
    /\ conf' = [c \in Configures |-> IF Running(c) THEN [conf[c] EXCEPT !.pc = "failed"]
                                                   ELSE conf[c]]
    /\ req' = [r \in Requests |-> IF InFlight(r) THEN [req[r] EXCEPT !.pc = "failed"]
                                                 ELSE req[r]]
    /\ UNCHANGED tables

-----------------------------------------------------------------------------
Apply(c) ==
    \/ Migrate(c) \/ BootstrapWrite(c) \/ Mount(c) \/ SwapPool(c) \/ CloseOld(c)
    \/ BootstrapRead(c, FALSE) /\ UNCHANGED faults

Patch(r) == PatchRead(r) \/ PatchWrite(r) \/ PatchReread(r) \/ PatchRefused(r)

Next ==
    \/ \E c \in Configures : Configure(c) \/ Apply(c) \/ ConfigureFails(c)
    \/ \E r \in Requests : PatchConfig(r) \/ Patch(r) \/ PatchFails(r)
    \/ Crash

Spec == Init /\ [][Next]_vars

-----------------------------------------------------------------------------
(* Properties                                                              *)

\* MountedPoolOpen: new requests never meet a closed pool, whenever they arrive
\* during a Configure, a failing one included (main.go mounts the new handler
\* before it closes the old pool, and closes the new pool only if it mounts
\* nothing), as long as the host makes one Configure at a time.
MountedPoolOpen == handler # NULL => pool[handler] = "open"

\* PoolsAccounted: no sequence of Configures, failed ones and crashes included,
\* leaves a pool open that nobody will close (each holds four connections or more).
PoolsAccounted ==
    \A c \in Configures : pool[c] = "open" =>
        \/ c = poolPtr
        \/ Running(c)
        \/ \E d \in Configures : conf[d].pc = "close" /\ conf[d].old = c

\* RowNormalized: while a handler is mounted, the row of its database parses and
\* passes NormalizeAppConfig unchanged, whatever PATCHes of this and of earlier
\* handlers write: no PATCH fails on it, and no restart is refused because of it.
RowNormalized ==
    handler # NULL =>
        LET x == row[conf[handler].db] IN
        x.form = "json" /\ x.settings \in Canonical

\* SettingsAgree: the row reads as what UpdateConfig makes of the settings the
\* mounted handler took at its Configure, although a PATCH begun under an earlier
\* handler writes the whole row back: they are the same but for a slow threshold of
\* 0, which the handler keeps and the row does not.  Unless a Bootstrap could not
\* read the row and put the defaults in its place.
SettingsAgree ==
    handler # NULL /\ (\A c \in Configures : conf[c].blind = "no") =>
        SettingsIn(row[conf[handler].db]) = Marshaled(conf[handler].settings)

\* MountedFitsRow: with one Configure after the other, each beside the PATCHes of
\* the handlers before it, the handler that is mounted and the row of its database
\* fit each other, in both of these ways, as far as a row can hold settings.
MountedFitsRow == RowNormalized /\ SettingsAgree

Bootstraps(c) == conf[c].pc = "write" /\ conf'[c].pc = "mount"
Patches(r) == req[r].pc = "write" /\ req'[r].pc = "reread"

-----------------------------------------------------------------------------
(* What the documentation and the comments say, and the code does not keep *)

\* PatchIsPartial: a PATCH of the configuration is a "partial merge", for one
\* {"modules":{"tickets":false}} (docs/operations.md): toggles that its body does
\* not name stay as they are.
PatchIsPartial ==
    [][\A r \in Requests : Patches(r) =>
         LET db == conf[req[r].on].db IN
         ModulesIn(row'[db]) \ req[r].named = ModulesIn(row[db]) \ req[r].named]_vars

\* BootstrapRacesNobody: "plugin startup is serialized by main.go's onConfig
\* callback, so there's no race against another writer" (config.go).
BootstrapRacesNobody ==
    [][\A c \in Configures : Bootstraps(c) => conf[c].seen = writes[conf[c].db]]_vars

\* SettingsRoundTrip: "everything else round-trips through app_config.data as JSONB"
\* (runtime.go), and a slow_threshold_mbps of 0 "disables the event"
\* (docs/operations.md): the row that Bootstrap leaves reads as the settings it
\* returns for the handler.
SettingsRoundTrip ==
    [][\A c \in Configures : Bootstraps(c) =>
         SettingsIn(row'[conf[c].db]) = conf[c].settings]_vars

=============================================================================
