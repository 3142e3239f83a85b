-------------------------- MODULE PluginConfigProofs --------------------------
(***************************************************************************)
(* Theorems about PluginConfig, for any databases, toggles and numbers of  *)
(* Configures and PATCHes.                                                 *)
(*                                                                         *)
(* The inductive invariant ties the program counter of a Configure to the  *)
(* life of its pool and to what is mounted: between SetHandler and         *)
(* poolPtr.Swap the handler is one Configure ahead of poolPtr, and that    *)
(* Configure's own pool is open.  Everything else is a consequence.        *)
(***************************************************************************)
EXTENDS PluginConfig, TLAPS

\* The settings that come back from a row as they were written.
Stable == {settings \in Canonical : settings.slow = "on"}

\* What a Configure has in hand at each step.
Owns(c) ==
    /\ conf[c].pc = "new" => pool[c] = "none"
    /\ conf[c].pc # "new" => conf[c].db \in Databases
    /\ conf[c].pc \in {"read", "write", "mount", "swap"} => pool[c] = "open"
    /\ conf[c].pc \in {"write", "mount", "swap"} => conf[c].settings \in Canonical
    /\ conf[c].pc \in {"mount", "swap", "close", "done"} =>
         /\ row[conf[c].db].form = "json"
         /\ row[conf[c].db].settings \in Stable
    /\ handler = c => conf[c].pc \in {"swap", "close", "done"}
    /\ poolPtr = c => conf[c].pc \in {"close", "done"}
    /\ conf[c].pc = "close" /\ conf[c].old # NULL => conf[conf[c].old].pc \in {"close", "done"}

\* What a PATCH has in hand.
Holds(r) ==
    /\ InFlight(r) => req[r].on \in Configures /\ conf[req[r].on].pc # "new"
    /\ req[r].pc = "write" => req[r].settings \in Canonical

IInv ==
    /\ TypeOK
    /\ \A c \in Configures : Owns(c)
    /\ \A r \in Requests : Holds(r)

\* An open pool has an owner that is not done with it.
Accounted ==
    \A c \in Configures : pool[c] = "open" =>
        \/ c = poolPtr
        \/ conf[c].pc \in {"read", "write", "mount", "swap"}
        \/ \E d \in Configures : conf[d].pc = "close" /\ conf[d].old = c

\* With one Configure at a time.
Alone ==
    /\ \A c, d \in Configures : Running(c) /\ Running(d) => c = d
    /\ \A c \in Configures :
         /\ conf[c].pc = "swap" => handler = c /\ poolPtr # c
         /\ conf[c].pc = "close" => handler = c /\ poolPtr = c /\ conf[c].old # c
    /\ (\A c \in Configures : conf[c].pc # "swap") => handler = poolPtr
    /\ poolPtr # NULL => pool[poolPtr] = "open" /\ conf[poolPtr].pc \in {"close", "done"}

-----------------------------------------------------------------------------
(* Types                                                                   *)

\* What NormalizeAppConfig and json.Marshal do to settings.
LEMMA SettingsFacts ==
    /\ DefaultSettings \in Stable /\ Stable \subseteq Canonical /\ Canonical \subseteq Settings
    /\ \A s \in Settings : s.rest # "bad" => Normalized(s) \in Canonical
    /\ \A s \in Canonical : Marshaled(s) \in Stable
    /\ \A s \in Stable : Normalized(s) = s /\ Marshaled(s) = s
<1>1. DefaultSettings \in Stable /\ Stable \subseteq Canonical /\ Canonical \subseteq Settings
  BY DEF DefaultSettings, Stable, Canonical, Settings
<1>2. ASSUME NEW s \in Settings, s.rest # "bad" PROVE Normalized(s) \in Canonical
  BY <1>2 DEF Normalized, Canonical, Settings
<1>3. ASSUME NEW s \in Canonical PROVE Marshaled(s) \in Stable
  BY <1>3 DEF Marshaled, Stable, Canonical, Settings
<1>4. ASSUME NEW s \in Stable PROVE Normalized(s) = s /\ Marshaled(s) = s
  BY <1>4 DEF Normalized, Marshaled, Stable, Canonical, Settings
<1> QED BY <1>1, <1>2, <1>3, <1>4

LEMMA SettingsInRow == \A x \in Rows : SettingsIn(x) \in Settings
  BY SettingsFacts DEF SettingsIn, Rows

LEMMA InitIInv == Init => IInv
<1> SUFFICES ASSUME Init PROVE IInv
  OBVIOUS
<1>1. InitialRows \subseteq Rows
  BY ConfigAssumption, SettingsFacts DEF InitialRows, NoRow, Rows, Forms
<1>2. NewConfigure \in ConfigureStates /\ NewConfigure.pc = "new"
  BY SettingsFacts DEF NewConfigure, ConfigureStates, ConfigureSteps
<1>3. NewRequest \in RequestStates /\ NewRequest.pc = "new"
  BY SettingsFacts DEF NewRequest, RequestStates, RequestSteps
<1>4. row \in [Databases -> Rows] /\ conf \in [Configures -> ConfigureStates]
      /\ req \in [Requests -> RequestStates]
  BY <1>1, <1>2, <1>3 DEF Init
<1>5. TypeOK
  BY <1>4, ConfigAssumption DEF Init, TypeOK
<1>6. ASSUME NEW c \in Configures PROVE Owns(c)
  BY <1>2, ConfigAssumption DEF Init, Owns
<1>7. ASSUME NEW r \in Requests PROVE Holds(r)
  BY <1>3 DEF Init, Holds, InFlight
<1> QED BY <1>5, <1>6, <1>7 DEF IInv

-----------------------------------------------------------------------------
(* Steps                                                                   *)

Normal(x) == x.form = "json" /\ x.settings \in Stable
RowsKept == \A db \in Databases : Normal(row[db]) => Normal(row[db])'

\* A step of one Configure keeps the invariant if it leaves that Configure in
\* order, and the pools and rows the others rely on alone.
LEMMA ConfigureStep ==
    ASSUME IInv, NEW c \in Configures, NEW n \in ConfigureStates,
           conf' = [conf EXCEPT ![c] = n], n.pc # "new", UNCHANGED req,
           row' \in [Databases -> Rows], writes' \in [Databases -> Nat],
           pool' \in [Configures -> {"none", "open", "closed"}], faults' \in 0..MaxFaults,
           \A d \in Configures \ {c} :
             conf[d].pc \in {"new", "read", "write", "mount", "swap"} => pool'[d] = pool[d],
           conf[c].pc \in {"close", "done"} => n.pc \in {"close", "done"},
           handler' \in {handler, c}, poolPtr' \in {poolPtr, c},
           RowsKept, Owns(c)'
    PROVE  IInv'
<1>1. TypeOK'
  BY DEF IInv, TypeOK
<1>2. conf'[c] = n /\ \A d \in Configures \ {c} : conf'[d] = conf[d]
  BY DEF IInv, TypeOK
<1>3. ASSUME NEW d \in Configures, d # c PROVE Owns(d)'
  <2>1. Owns(d) /\ conf'[d] = conf[d] /\ conf[d] \in ConfigureStates
    BY <1>2, <1>3 DEF IInv, TypeOK
  <2>2. conf[d].pc \in {"mount", "swap", "close", "done"} =>
          row'[conf[d].db].form = "json" /\ row'[conf[d].db].settings \in Stable
    BY <2>1 DEF Owns, RowsKept, Normal
  <2>3. conf[d].pc = "close" /\ conf[d].old # NULL => conf'[conf[d].old].pc \in {"close", "done"}
    BY <1>2, <2>1 DEF Owns, ConfigureStates
  <2>4. (handler' = d => handler = d) /\ (poolPtr' = d => poolPtr = d)
    BY <1>3
  <2> QED BY <1>3, <2>1, <2>2, <2>3, <2>4 DEF Owns
<1>4. ASSUME NEW r \in Requests PROVE Holds(r)'
  BY <1>2 DEF IInv, Holds, InFlight
<1> QED BY <1>1, <1>3, <1>4 DEF IInv

\* A step of one PATCH keeps the invariant if it leaves that PATCH in order and
\* writes normalized rows.
LEMMA RequestStep ==
    ASSUME IInv, NEW r \in Requests, NEW n \in RequestStates,
           req' = [req EXCEPT ![r] = n], UNCHANGED <<pool, handler, poolPtr, conf>>,
           row' \in [Databases -> Rows], writes' \in [Databases -> Nat],
           faults' \in 0..MaxFaults, RowsKept, Holds(r)'
    PROVE  IInv'
<1>1. TypeOK'
  BY DEF IInv, TypeOK
<1>2. ASSUME NEW c \in Configures PROVE Owns(c)'
  BY DEF IInv, Owns, RowsKept, Normal
<1>3. ASSUME NEW s \in Requests PROVE Holds(s)'
  <2>1. CASE s # r
    BY <2>1 DEF IInv, TypeOK, Holds, InFlight
  <2> QED BY <2>1
<1> QED BY <1>1, <1>2, <1>3 DEF IInv

LEMMA WriteKeeps ==
    ASSUME IInv, NEW db \in Databases, NEW modules \in SUBSET Modules,
           NEW settings \in Canonical, Write(db, modules, settings)
    PROVE  /\ row' \in [Databases -> Rows] /\ writes' \in [Databases -> Nat]
           /\ RowsKept /\ Normal(row'[db])
<1> DEFINE x == [form |-> "json", modules |-> modules, settings |-> Marshaled(settings)]
<1>1. x \in Rows /\ Normal(x)
  BY SettingsFacts DEF Rows, Forms, Normal
<1>2. row' = [row EXCEPT ![db] = x]
  BY DEF Write
<1>3. row \in [Databases -> Rows] /\ writes \in [Databases -> Nat]
  BY DEF IInv, TypeOK
<1> HIDE DEF x
<1>4. row' \in [Databases -> Rows] /\ row'[db] = x
  BY <1>1, <1>2, <1>3
<1>5. RowsKept
  BY <1>1, <1>2, <1>3 DEF RowsKept
<1> QED BY <1>1, <1>3, <1>4, <1>5 DEF Write

\* A Configure that goes on to another step of its own.
LEMMA GoesOn ==
    ASSUME IInv, NEW c \in Configures, NEW pc \in ConfigureSteps, ConfigureGoes(c, pc)
    PROVE  \E n \in ConfigureStates :
             /\ conf' = [conf EXCEPT ![c] = n]
             /\ conf'[c] = n
             /\ n.pc = pc /\ n.db = conf[c].db /\ n.settings = conf[c].settings
             /\ n.modules = conf[c].modules /\ n.old = conf[c].old
             /\ n.blind = conf[c].blind
<1> DEFINE n == [conf[c] EXCEPT !.pc = pc]
<1>1. conf \in [Configures -> ConfigureStates]
  BY DEF IInv, TypeOK
<1>2. n \in ConfigureStates
  BY <1>1 DEF ConfigureStates
<1>3. n.pc = pc /\ n.db = conf[c].db /\ n.settings = conf[c].settings
      /\ n.modules = conf[c].modules /\ n.old = conf[c].old /\ n.blind = conf[c].blind
  BY <1>1 DEF ConfigureStates
<1>4. conf' = [conf EXCEPT ![c] = n]
  BY DEF ConfigureGoes, ConfigureIs
<1> HIDE DEF n
<1> QED BY <1>1, <1>2, <1>3, <1>4

LEMMA ConfigureInv == ASSUME IInv, NEW c \in Configures, Configure(c) PROVE IInv'
<1>1. PICK db \in Databases :
        ConfigureIs(c, [NewConfigure EXCEPT !.pc = "migrate", !.db = db])
  BY DEF Configure
<1> DEFINE n == [NewConfigure EXCEPT !.pc = "migrate", !.db = db]
<1>2. n \in ConfigureStates /\ n.pc = "migrate" /\ n.db = db
  BY SettingsFacts DEF NewConfigure, ConfigureStates, ConfigureSteps
<1>3. conf' = [conf EXCEPT ![c] = n]
  BY <1>1 DEF ConfigureIs
<1> HIDE DEF n
<1>4. conf'[c] = n
  BY <1>3 DEF IInv, TypeOK
<1>5. UNCHANGED <<row, writes, pool, handler, poolPtr, req, faults>> /\ conf[c].pc = "new"
  BY DEF Configure, tables, process
<1>6. Owns(c)'
  BY <1>2, <1>4, <1>5 DEF IInv, Owns
<1>7. RowsKept
  BY <1>5 DEF RowsKept
<1> QED BY <1>2, <1>3, <1>5, <1>6, <1>7, ConfigureStep DEF IInv, TypeOK

LEMMA MigrateInv == ASSUME IInv, NEW c \in Configures, Migrate(c) PROVE IInv'
<1>1. PICK n \in ConfigureStates :
        /\ conf' = [conf EXCEPT ![c] = n] /\ conf'[c] = n
        /\ n.pc = "read" /\ n.db = conf[c].db
  BY GoesOn DEF Migrate, ConfigureSteps
<1>2. conf[c].pc = "migrate" /\ UNCHANGED <<writes, handler, poolPtr, req, faults>>
  BY DEF Migrate
<1>3. pool' = [pool EXCEPT ![c] = "open"] /\ pool \in [Configures -> {"none", "open", "closed"}]
  BY DEF Migrate, IInv, TypeOK
<1>4. row' \in [Databases -> Rows] /\ RowsKept
  <2>1. NoRow("empty") \in Rows
    BY SettingsFacts DEF NoRow, Rows, Forms
  <2>2. row \in [Databases -> Rows]
    BY DEF IInv, TypeOK
  <2>3. row' = row \/ (row[conf[c].db].form = "absent"
                       /\ row' = [row EXCEPT ![conf[c].db] = NoRow("empty")])
    BY DEF Migrate
  <2> QED BY <2>1, <2>2, <2>3 DEF RowsKept, Normal
<1>5. Owns(c)'
  BY <1>1, <1>2, <1>3 DEF IInv, Owns
<1> QED BY <1>1, <1>2, <1>3, <1>4, <1>5, ConfigureStep DEF IInv, TypeOK

\* Both ways a Bootstrap can give up: by an invalid row, by a failed statement.
LEMMA GiveUpInv ==
    ASSUME IInv, NEW c \in Configures, GiveUp(c), conf[c].pc \in {"read", "write"},
           UNCHANGED <<tables, handler, poolPtr, req>>, faults' \in 0..MaxFaults
    PROVE  IInv'
<1>1. PICK n \in ConfigureStates :
        /\ conf' = [conf EXCEPT ![c] = n] /\ conf'[c] = n
        /\ n.pc = "failed" /\ n.db = conf[c].db
  BY GoesOn DEF GiveUp, ConfigureSteps
<1>2. pool' = [pool EXCEPT ![c] = "closed"] /\ pool \in [Configures -> {"none", "open", "closed"}]
  BY DEF GiveUp, IInv, TypeOK
<1>3. UNCHANGED <<row, writes>> /\ RowsKept
  BY DEF tables, RowsKept
<1>4. Owns(c)'
  BY <1>1, <1>3 DEF IInv, Owns
<1> QED BY <1>1, <1>2, <1>3, <1>4, ConfigureStep DEF IInv, TypeOK

LEMMA BootstrapReadInv ==
    ASSUME IInv, NEW c \in Configures, NEW failing \in BOOLEAN, BootstrapRead(c, failing),
           faults' \in 0..MaxFaults
    PROVE  IInv'
<1> DEFINE x == row[conf[c].db]
           blind == failing \/ x.form = "garbage"
           n == Merged(c, blind)
<1>1. conf[c].pc = "read" /\ UNCHANGED <<tables, handler, poolPtr, req>>
  BY DEF BootstrapRead
<1>2. CASE GiveUp(c)
  BY <1>1, <1>2, GiveUpInv
<1>3. CASE ConfigureIs(c, n) /\ UNCHANGED pool /\ ~(~blind /\ SettingsIn(x).rest = "bad")
  <2>1. conf[c] \in ConfigureStates /\ conf[c].db \in Databases /\ x \in Rows
        /\ writes[conf[c].db] \in Nat
    BY <1>1 DEF IInv, TypeOK, Owns
  <2>2. ModulesIn(x) \in SUBSET Modules /\ DefaultModules \in SUBSET Modules
    BY <2>1, ConfigAssumption DEF ModulesIn, Rows
  <2>3. (IF blind THEN DefaultSettings ELSE Normalized(SettingsIn(x))) \in Canonical
    BY <1>3, <2>1, SettingsFacts, SettingsInRow
  <2>4. n \in ConfigureStates
    BY <2>1, <2>2, <2>3, SettingsFacts DEF Merged, ConfigureStates, ConfigureSteps
  <2>5. n.pc = "write" /\ n.db = conf[c].db /\ n.settings \in Canonical
    BY <2>1, <2>3 DEF Merged, ConfigureStates
  <2>6. conf' = [conf EXCEPT ![c] = n]
    BY <1>3 DEF ConfigureIs
  <2> HIDE DEF n
  <2>7. conf'[c] = n
    BY <2>6 DEF IInv, TypeOK
  <2>8. UNCHANGED <<row, writes>> /\ RowsKept
    BY <1>1 DEF tables, RowsKept
  <2>9. Owns(c)'
    BY <1>1, <1>3, <2>5, <2>7, <2>8 DEF IInv, Owns
  <2> QED BY <1>1, <1>3, <2>4, <2>5, <2>6, <2>8, <2>9, ConfigureStep DEF IInv, TypeOK
<1> QED BY <1>2, <1>3 DEF BootstrapRead

LEMMA BootstrapWriteInv == ASSUME IInv, NEW c \in Configures, BootstrapWrite(c) PROVE IInv'
<1>1. PICK n \in ConfigureStates :
        /\ conf' = [conf EXCEPT ![c] = n] /\ conf'[c] = n
        /\ n.pc = "mount" /\ n.db = conf[c].db /\ n.settings = conf[c].settings
  BY GoesOn DEF BootstrapWrite, ConfigureSteps
<1>2. conf[c].pc = "write" /\ UNCHANGED <<pool, handler, poolPtr, req, faults>>
      /\ Write(conf[c].db, conf[c].modules, conf[c].settings)
  BY DEF BootstrapWrite, process
<1>3. conf[c].db \in Databases /\ conf[c].modules \in SUBSET Modules
      /\ conf[c].settings \in Canonical
  BY <1>2 DEF IInv, TypeOK, Owns, ConfigureStates
<1>4. row' \in [Databases -> Rows] /\ writes' \in [Databases -> Nat]
      /\ RowsKept /\ Normal(row'[conf[c].db])
  BY <1>2, <1>3, WriteKeeps
<1>5. Owns(c)'
  BY <1>1, <1>2, <1>3, <1>4 DEF IInv, Owns, Normal
<1> QED BY <1>1, <1>2, <1>4, <1>5, ConfigureStep DEF IInv, TypeOK

LEMMA MountInv == ASSUME IInv, NEW c \in Configures, Mount(c) PROVE IInv'
<1>1. PICK n \in ConfigureStates :
        /\ conf' = [conf EXCEPT ![c] = n] /\ conf'[c] = n
        /\ n.pc = "swap" /\ n.db = conf[c].db /\ n.settings = conf[c].settings
  BY GoesOn DEF Mount, ConfigureSteps
<1>2. conf[c].pc = "mount" /\ handler' = c
      /\ UNCHANGED <<row, writes, pool, poolPtr, req, faults>> /\ RowsKept
  BY DEF Mount, tables, RowsKept
<1>3. Owns(c)'
  BY <1>1, <1>2 DEF IInv, Owns
<1> QED BY <1>1, <1>2, <1>3, ConfigureStep DEF IInv, TypeOK

LEMMA SwapPoolInv == ASSUME IInv, NEW c \in Configures, SwapPool(c) PROVE IInv'
<1> DEFINE n == [conf[c] EXCEPT !.pc = "close", !.old = poolPtr]
<1>1. conf[c] \in ConfigureStates /\ poolPtr \in Configures \cup {NULL} /\ Owns(c)
  BY DEF IInv, TypeOK
<1>2. conf[c].pc = "swap" /\ poolPtr' = c /\ conf' = [conf EXCEPT ![c] = n]
      /\ UNCHANGED <<row, writes, pool, handler, req, faults>> /\ RowsKept
  BY DEF SwapPool, ConfigureIs, tables, RowsKept
<1>3. n \in ConfigureStates /\ n.pc = "close" /\ n.db = conf[c].db /\ n.old = poolPtr
  BY <1>1 DEF ConfigureStates, ConfigureSteps
<1> HIDE DEF n
<1>4. conf'[c] = n /\ \A d \in Configures \ {c} : conf'[d] = conf[d]
  BY <1>2 DEF IInv, TypeOK
<1>5. poolPtr # NULL => poolPtr # c /\ conf[poolPtr].pc \in {"close", "done"}
  BY <1>1, <1>2 DEF IInv, Owns
<1>6. Owns(c)'
  BY <1>1, <1>2, <1>3, <1>4, <1>5 DEF Owns
<1> QED BY <1>2, <1>3, <1>6, ConfigureStep DEF IInv, TypeOK

LEMMA CloseOldInv == ASSUME IInv, NEW c \in Configures, CloseOld(c) PROVE IInv'
<1>1. PICK n \in ConfigureStates :
        /\ conf' = [conf EXCEPT ![c] = n] /\ conf'[c] = n
        /\ n.pc = "done" /\ n.db = conf[c].db
  BY GoesOn DEF CloseOld, ConfigureSteps
<1>2. conf[c].pc = "close" /\ UNCHANGED <<row, writes, handler, poolPtr, req, faults>> /\ RowsKept
  BY DEF CloseOld, tables, RowsKept
<1>3. conf[c].old \in Configures \cup {NULL} /\ pool \in [Configures -> {"none", "open", "closed"}]
      /\ (conf[c].old # NULL => conf[conf[c].old].pc \in {"close", "done"})
  BY <1>2 DEF IInv, TypeOK, ConfigureStates, Owns
<1>4. pool' = IF conf[c].old = NULL THEN pool ELSE [pool EXCEPT ![conf[c].old] = "closed"]
  BY DEF CloseOld
<1>5. Owns(c)'
  BY <1>1, <1>2 DEF IInv, Owns
<1> QED BY <1>1, <1>2, <1>3, <1>4, <1>5, ConfigureStep DEF IInv, TypeOK

LEMMA ConfigureFailsInv == ASSUME IInv, NEW c \in Configures, ConfigureFails(c) PROVE IInv'
<1>1. faults' \in 0..MaxFaults
  BY ConfigAssumption DEF ConfigureFails, IInv, TypeOK
<1>2. CASE BootstrapRead(c, TRUE)
  BY <1>1, <1>2, BootstrapReadInv
<1>3. CASE conf[c].pc = "write" /\ GiveUp(c) /\ UNCHANGED <<tables, handler, poolPtr, req>>
  BY <1>1, <1>3, GiveUpInv
<1>4. CASE conf[c].pc = "migrate" /\ ConfigureGoes(c, "failed") /\ UNCHANGED <<tables, process, req>>
  <2>1. PICK n \in ConfigureStates :
          /\ conf' = [conf EXCEPT ![c] = n] /\ conf'[c] = n
          /\ n.pc = "failed" /\ n.db = conf[c].db
    BY <1>4, GoesOn DEF ConfigureSteps
  <2>2. UNCHANGED <<row, writes, pool, handler, poolPtr, req>> /\ RowsKept
    BY <1>4 DEF tables, process, RowsKept
  <2>3. Owns(c)'
    BY <1>4, <2>1, <2>2 DEF IInv, Owns
  <2> QED BY <1>1, <1>4, <2>1, <2>2, <2>3, ConfigureStep DEF IInv, TypeOK
<1> QED BY <1>2, <1>3, <1>4 DEF ConfigureFails

LEMMA RequestGoesOn ==
    ASSUME IInv, NEW r \in Requests, NEW pc \in RequestSteps, RequestGoes(r, pc)
    PROVE  \E n \in RequestStates :
             /\ req' = [req EXCEPT ![r] = n] /\ req'[r] = n
             /\ n.pc = pc /\ n.on = req[r].on
<1> DEFINE n == [req[r] EXCEPT !.pc = pc]
<1>1. req \in [Requests -> RequestStates]
  BY DEF IInv, TypeOK
<1>2. n \in RequestStates
  BY <1>1 DEF RequestStates
<1>3. n.pc = pc /\ n.on = req[r].on
  BY <1>1 DEF RequestStates
<1>4. req' = [req EXCEPT ![r] = n]
  BY DEF RequestGoes, RequestIs
<1> HIDE DEF n
<1> QED BY <1>1, <1>2, <1>3, <1>4

\* A PATCH that ends, or goes on without having to write.
LEMMA PatchMovesInv ==
    ASSUME IInv, NEW r \in Requests, NEW pc \in {"done", "failed"}, RequestGoes(r, pc),
           UNCHANGED <<tables, process, conf>>, faults' \in 0..MaxFaults
    PROVE  IInv'
<1>1. PICK n \in RequestStates :
        req' = [req EXCEPT ![r] = n] /\ req'[r] = n /\ n.pc = pc /\ n.on = req[r].on
  BY RequestGoesOn DEF RequestSteps
<1>2. Holds(r)'
  BY <1>1 DEF Holds, InFlight
<1>3. UNCHANGED <<row, writes, pool, handler, poolPtr, conf>> /\ RowsKept
  BY DEF tables, process, RowsKept
<1> QED BY <1>1, <1>2, <1>3, RequestStep DEF IInv, TypeOK

LEMMA PatchConfigInv == ASSUME IInv, NEW r \in Requests, PatchConfig(r) PROVE IInv'
<1>1. PICK named \in SUBSET Modules : \E enabled \in SUBSET named :
        RequestIs(r, [NewRequest EXCEPT !.pc = "read", !.on = handler,
                                        !.named = named, !.enabled = enabled])
  BY DEF PatchConfig
<1>0. PICK enabled \in SUBSET named :
        RequestIs(r, [NewRequest EXCEPT !.pc = "read", !.on = handler,
                                        !.named = named, !.enabled = enabled])
  BY <1>1
<1> DEFINE n == [NewRequest EXCEPT !.pc = "read", !.on = handler,
                                   !.named = named, !.enabled = enabled]
<1>2. handler \in Configures /\ Owns(handler)
  BY DEF PatchConfig, IInv, TypeOK
<1>3. n \in RequestStates /\ n.pc = "read" /\ n.on = handler
  BY <1>2, SettingsFacts DEF NewRequest, RequestStates, RequestSteps
<1>4. req' = [req EXCEPT ![r] = n]
  BY <1>0 DEF RequestIs
<1> HIDE DEF n
<1>5. req'[r] = n
  BY <1>4 DEF IInv, TypeOK
<1>6. UNCHANGED <<row, writes, pool, handler, poolPtr, conf, faults>> /\ RowsKept
  BY DEF PatchConfig, tables, process, RowsKept
<1>7. Holds(r)'
  BY <1>2, <1>3, <1>5, <1>6 DEF Holds, Owns
<1> QED BY <1>3, <1>4, <1>6, <1>7, RequestStep DEF IInv, TypeOK

LEMMA PatchReadInv == ASSUME IInv, NEW r \in Requests, PatchRead(r) PROVE IInv'
<1>1. UNCHANGED <<tables, process, conf, faults>> /\ req[r].pc = "read" /\ faults' \in 0..MaxFaults
  BY DEF PatchRead, IInv, TypeOK
<1>2. CASE RequestGoes(r, "failed")
  BY <1>1, <1>2, PatchMovesInv
<1>3. CASE /\ ~(Row(r).form = "garbage" \/ SettingsIn(Row(r)).rest = "bad")
           /\ RequestIs(r, [req[r] EXCEPT !.pc = "write",
                                          !.settings = Normalized(SettingsIn(Row(r)))])
  <2> DEFINE n == [req[r] EXCEPT !.pc = "write", !.settings = Normalized(SettingsIn(Row(r)))]
  <2>1. /\ req[r] \in RequestStates /\ InFlight(r) /\ req[r].on \in Configures
        /\ conf[req[r].on].pc # "new"
    BY <1>1 DEF IInv, TypeOK, Holds, InFlight
  <2>2. Row(r) \in Rows
    BY <2>1 DEF IInv, TypeOK, Owns, Row
  <2>3. Normalized(SettingsIn(Row(r))) \in Canonical
    BY <1>3, <2>2, SettingsFacts, SettingsInRow
  <2>4. n \in RequestStates
    BY <2>1, <2>3, SettingsFacts DEF RequestStates, RequestSteps
  <2>5. n.pc = "write" /\ n.on = req[r].on /\ n.settings \in Canonical
    BY <2>1, <2>3 DEF RequestStates
  <2>6. req' = [req EXCEPT ![r] = n]
    BY <1>3 DEF RequestIs
  <2> HIDE DEF n
  <2>7. req'[r] = n
    BY <2>6 DEF IInv, TypeOK
  <2>8. UNCHANGED <<row, writes, pool, handler, poolPtr, conf>> /\ RowsKept
    BY <1>1 DEF tables, process, RowsKept
  <2>9. Holds(r)'
    BY <2>1, <2>5, <2>7, <2>8 DEF Holds
  <2> QED BY <1>1, <2>4, <2>6, <2>8, <2>9, RequestStep DEF IInv, TypeOK
<1> QED BY <1>2, <1>3 DEF PatchRead

LEMMA PatchWriteInv == ASSUME IInv, NEW r \in Requests, PatchWrite(r) PROVE IInv'
<1>1. PICK n \in RequestStates :
        req' = [req EXCEPT ![r] = n] /\ req'[r] = n /\ n.pc = "reread" /\ n.on = req[r].on
  BY RequestGoesOn DEF PatchWrite, RequestSteps
<1>2. req[r].pc = "write" /\ UNCHANGED <<pool, handler, poolPtr, conf, faults>>
      /\ Write(conf[req[r].on].db, req[r].enabled, req[r].settings)
  BY DEF PatchWrite, process
<1>3. /\ req[r] \in RequestStates /\ req[r].on \in Configures
      /\ conf[req[r].on].pc # "new" /\ req[r].settings \in Canonical
  BY <1>2 DEF IInv, TypeOK, Holds, InFlight
<1>4. conf[req[r].on].db \in Databases /\ req[r].enabled \in SUBSET Modules
  BY <1>3 DEF IInv, Owns, RequestStates
<1>5. row' \in [Databases -> Rows] /\ writes' \in [Databases -> Nat] /\ RowsKept
  BY <1>2, <1>3, <1>4, WriteKeeps
<1>6. Holds(r)'
  BY <1>1, <1>2, <1>3 DEF Holds
<1> QED BY <1>1, <1>2, <1>5, <1>6, RequestStep DEF IInv, TypeOK

LEMMA PatchEndsInv ==
    ASSUME IInv, NEW r \in Requests, PatchReread(r) \/ PatchRefused(r) \/ PatchFails(r)
    PROVE  IInv'
<1>1. RequestGoes(r, "done") \/ RequestGoes(r, "failed")
  BY DEF PatchReread, PatchRefused, PatchFails
<1>2. UNCHANGED <<tables, process, conf>> /\ faults' \in 0..MaxFaults
  BY ConfigAssumption DEF PatchReread, PatchRefused, PatchFails, IInv, TypeOK
<1> QED BY <1>1, <1>2, PatchMovesInv

LEMMA CrashInv == ASSUME IInv, Crash PROVE IInv'
<1>1. handler' = NULL /\ poolPtr' = NULL /\ UNCHANGED <<row, writes>>
      /\ faults' \in 0..MaxFaults
  BY ConfigAssumption DEF Crash, tables, IInv, TypeOK
<1>2. ASSUME NEW c \in Configures
      PROVE  /\ conf'[c] \in ConfigureStates /\ conf'[c].db = conf[c].db
             /\ conf'[c].pc = IF Running(c) THEN "failed" ELSE conf[c].pc
  BY DEF Crash, IInv, TypeOK, ConfigureStates, ConfigureSteps
<1>3. conf' \in [Configures -> ConfigureStates]
  BY <1>2 DEF Crash
<1>4. ASSUME NEW r \in Requests
      PROVE  /\ req'[r] \in RequestStates
             /\ req'[r].pc = IF InFlight(r) THEN "failed" ELSE req[r].pc
  BY DEF Crash, IInv, TypeOK, RequestStates, RequestSteps
<1>5. req' \in [Requests -> RequestStates]
  BY <1>4 DEF Crash
<1>6. pool' \in [Configures -> {"none", "open", "closed"}]
      /\ \A c \in Configures : pool[c] = "none" => pool'[c] = "none"
  BY DEF Crash, IInv, TypeOK
<1>7. TypeOK'
  BY <1>1, <1>3, <1>5, <1>6 DEF IInv, TypeOK
<1>8. ASSUME NEW c \in Configures PROVE Owns(c)'
  BY <1>1, <1>2, <1>6, ConfigAssumption DEF IInv, Owns, Running
<1>9. ASSUME NEW r \in Requests PROVE Holds(r)'
  BY <1>4 DEF Holds, InFlight
<1> QED BY <1>7, <1>8, <1>9 DEF IInv

LEMMA NextIInv == IInv /\ [Next]_vars => IInv'
<1> SUFFICES ASSUME IInv, [Next]_vars PROVE IInv'
  OBVIOUS
<1>1. CASE UNCHANGED vars
  BY <1>1 DEF vars, IInv, TypeOK, Owns, Holds, InFlight
<1>2. ASSUME NEW c \in Configures, BootstrapRead(c, FALSE), UNCHANGED faults PROVE IInv'
  BY <1>2, BootstrapReadInv DEF IInv, TypeOK
<1> QED BY <1>1, <1>2, ConfigureInv, MigrateInv, BootstrapWriteInv, MountInv, SwapPoolInv,
           CloseOldInv, ConfigureFailsInv, PatchConfigInv, PatchReadInv, PatchWriteInv,
           PatchEndsInv, CrashInv DEF Next, Apply, Patch

LEMMA IInvAlways == Spec => []IInv
  BY InitIInv, NextIInv, PTL DEF Spec

-----------------------------------------------------------------------------
(* Theorems                                                                *)

\* TypeCorrect: the tables, the process and the requests keep their types,
\* whether or not the host serializes Configure.
THEOREM TypeCorrect == Spec => []TypeOK
<1>1. IInv => TypeOK
  BY DEF IInv
<1> QED BY <1>1, IInvAlways, PTL

\* NormalizedCorrect: while a handler is mounted, the configuration row of its
\* database parses and is normalized, whoever wrote it last.
THEOREM NormalizedCorrect == Spec => []RowNormalized
<1>1. IInv => RowNormalized
  BY SettingsFacts DEF IInv, TypeOK, Owns, RowNormalized
<1> QED BY <1>1, IInvAlways, PTL

-----------------------------------------------------------------------------
(* Pools                                                                   *)

\* What a step of Configure c does to the pools, to what is mounted and to where
\* the Configures are.
PoolStep(c) ==
    /\ \A d \in Configures \ {c} : conf'[d] = conf[d]
    /\ \/ /\ conf[c].pc = "new" /\ conf'[c].pc = "migrate"
          /\ HostSerializes => \A d \in Configures : ~Running(d)
          /\ UNCHANGED <<pool, handler, poolPtr>>
       \/ /\ conf[c].pc = "migrate" /\ conf'[c].pc = "read"
          /\ pool' = [pool EXCEPT ![c] = "open"] /\ UNCHANGED <<handler, poolPtr>>
       \/ /\ conf[c].pc \in {"read", "write"} /\ conf'[c].pc = "failed"
          /\ pool' = [pool EXCEPT ![c] = "closed"] /\ UNCHANGED <<handler, poolPtr>>
       \/ /\ <<conf[c].pc, conf'[c].pc>> \in {<<"read", "write">>, <<"write", "mount">>,
                                              <<"migrate", "failed">>}
          /\ UNCHANGED <<pool, handler, poolPtr>>
       \/ /\ conf[c].pc = "mount" /\ conf'[c].pc = "swap"
          /\ handler' = c /\ UNCHANGED <<pool, poolPtr>>
       \/ /\ conf[c].pc = "swap" /\ conf'[c].pc = "close"
          /\ poolPtr' = c /\ conf'[c].old = poolPtr /\ UNCHANGED <<pool, handler>>
       \/ /\ conf[c].pc = "close" /\ conf'[c].pc = "done"
          /\ pool' = IF conf[c].old = NULL THEN pool ELSE [pool EXCEPT ![conf[c].old] = "closed"]
          /\ UNCHANGED <<handler, poolPtr>>

LEMMA GoesPools ==
    ASSUME IInv, NEW c \in Configures, NEW pc \in ConfigureSteps, ConfigureGoes(c, pc)
    PROVE  /\ conf'[c] \in ConfigureStates /\ conf'[c].pc = pc
           /\ \A d \in Configures \ {c} : conf'[d] = conf[d]
<1>1. PICK n \in ConfigureStates :
        conf' = [conf EXCEPT ![c] = n] /\ conf'[c] = n /\ n.pc = pc
  BY GoesOn
<1> QED BY <1>1 DEF IInv, TypeOK

\* Every step is a PoolStep of some Configure, a crash, or none of the pools' business.
LEMMA PoolSteps ==
    ASSUME IInv, [Next]_vars
    PROVE  \/ \E c \in Configures : PoolStep(c)
           \/ UNCHANGED <<pool, handler, poolPtr, conf>>
           \/ Crash
<1>1. ASSUME NEW c \in Configures, Configure(c) PROVE PoolStep(c)
  <2>1. PICK db \in Databases :
          ConfigureIs(c, [NewConfigure EXCEPT !.pc = "migrate", !.db = db])
    BY <1>1 DEF Configure
  <2> DEFINE n == [NewConfigure EXCEPT !.pc = "migrate", !.db = db]
  <2>2. n \in ConfigureStates /\ n.pc = "migrate"
    BY SettingsFacts DEF NewConfigure, ConfigureStates, ConfigureSteps
  <2>3. conf' = [conf EXCEPT ![c] = n]
    BY <2>1 DEF ConfigureIs
  <2> HIDE DEF n
  <2>4. conf'[c] = n /\ \A d \in Configures \ {c} : conf'[d] = conf[d]
    BY <2>3 DEF IInv, TypeOK
  <2> QED BY <1>1, <2>2, <2>4 DEF PoolStep, Configure, process
<1>2. ASSUME NEW c \in Configures, Migrate(c) PROVE PoolStep(c)
  BY <1>2, GoesPools DEF Migrate, PoolStep, ConfigureSteps
<1>3. ASSUME NEW c \in Configures, NEW failing \in BOOLEAN, BootstrapRead(c, failing)
      PROVE  PoolStep(c)
  <2>1. CASE GiveUp(c)
    BY <1>3, <2>1, GoesPools DEF BootstrapRead, GiveUp, PoolStep, ConfigureSteps
  <2>2. CASE UNCHANGED pool /\ \E blind \in BOOLEAN : ConfigureIs(c, Merged(c, blind))
    <3>1. PICK blind \in BOOLEAN : ConfigureIs(c, Merged(c, blind))
      BY <2>2
    <3>2. conf[c] \in ConfigureStates /\ conf[c].pc = "read"
          /\ UNCHANGED <<handler, poolPtr>>
      BY <1>3 DEF IInv, TypeOK, BootstrapRead
    <3>3. Merged(c, blind).pc = "write"
      BY <3>2 DEF Merged, ConfigureStates
    <3>4. conf' = [conf EXCEPT ![c] = Merged(c, blind)]
      BY <3>1 DEF ConfigureIs
    <3>5. conf'[c] = Merged(c, blind) /\ \A d \in Configures \ {c} : conf'[d] = conf[d]
      BY <3>4 DEF IInv, TypeOK
    <3> QED BY <2>2, <3>2, <3>3, <3>5 DEF PoolStep
  <2> QED BY <1>3, <2>1, <2>2 DEF BootstrapRead
<1>4. ASSUME NEW c \in Configures, BootstrapWrite(c) PROVE PoolStep(c)
  BY <1>4, GoesPools DEF BootstrapWrite, PoolStep, ConfigureSteps, process
<1>5. ASSUME NEW c \in Configures, Mount(c) PROVE PoolStep(c)
  BY <1>5, GoesPools DEF Mount, PoolStep, ConfigureSteps
<1>6. ASSUME NEW c \in Configures, SwapPool(c) PROVE PoolStep(c)
  <2> DEFINE n == [conf[c] EXCEPT !.pc = "close", !.old = poolPtr]
  <2>1. conf[c] \in ConfigureStates /\ poolPtr \in Configures \cup {NULL}
    BY DEF IInv, TypeOK
  <2>2. n \in ConfigureStates /\ n.pc = "close" /\ n.old = poolPtr
    BY <2>1 DEF ConfigureStates, ConfigureSteps
  <2>3. conf' = [conf EXCEPT ![c] = n]
    BY <1>6 DEF SwapPool, ConfigureIs
  <2> HIDE DEF n
  <2>4. conf'[c] = n /\ \A d \in Configures \ {c} : conf'[d] = conf[d]
    BY <2>3 DEF IInv, TypeOK
  <2> QED BY <1>6, <2>2, <2>4 DEF SwapPool, PoolStep
<1>7. ASSUME NEW c \in Configures, CloseOld(c) PROVE PoolStep(c)
  BY <1>7, GoesPools DEF CloseOld, PoolStep, ConfigureSteps
<1>8. ASSUME NEW c \in Configures, ConfigureFails(c) PROVE PoolStep(c)
  <2>1. CASE BootstrapRead(c, TRUE)
    BY <1>3, <2>1
  <2>2. CASE conf[c].pc = "write" /\ GiveUp(c) /\ UNCHANGED <<tables, handler, poolPtr, req>>
    BY <2>2, GoesPools DEF GiveUp, PoolStep, ConfigureSteps
  <2>3. CASE conf[c].pc = "migrate" /\ ConfigureGoes(c, "failed") /\ UNCHANGED <<tables, process, req>>
    BY <2>3, GoesPools DEF PoolStep, ConfigureSteps, process
  <2> QED BY <1>8, <2>1, <2>2, <2>3 DEF ConfigureFails
<1>9. ASSUME NEW r \in Requests, PatchConfig(r) \/ Patch(r) \/ PatchFails(r)
      PROVE  UNCHANGED <<pool, handler, poolPtr, conf>>
  BY <1>9 DEF PatchConfig, Patch, PatchRead, PatchWrite, PatchReread, PatchRefused, PatchFails,
              process
<1> QED BY <1>1, <1>2, <1>3, <1>4, <1>5, <1>6, <1>7, <1>8, <1>9 DEF Next, Apply, vars

LEMMA CrashPools ==
    ASSUME IInv, Crash
    PROVE  /\ handler' = NULL /\ poolPtr' = NULL
           /\ \A c \in Configures : pool'[c] # "open" /\ ~Running(c)'
<1>1. pool' = [c \in Configures |-> IF pool[c] = "open" THEN "closed" ELSE pool[c]]
  BY DEF Crash
<1>2. \A c \in Configures : conf'[c].pc = IF Running(c) THEN "failed" ELSE conf[c].pc
  BY DEF Crash, IInv, TypeOK, ConfigureStates
<1> QED BY <1>1, <1>2 DEF Crash, Running

\* An open pool always has an owner, Configures at once or not.
LEMMA AccountedAlways == Spec => []Accounted
<1>1. Init => Accounted
  BY DEF Init, Accounted
<1>2. IInv /\ Accounted /\ [Next]_vars => Accounted'
  <2> SUFFICES ASSUME IInv, Accounted, [Next]_vars PROVE Accounted'
    OBVIOUS
  <2>1. CASE UNCHANGED <<pool, handler, poolPtr, conf>>
    BY <2>1 DEF Accounted
  <2>2. CASE Crash
    BY <2>2, CrashPools DEF Accounted
  <2>3. ASSUME NEW c \in Configures, PoolStep(c) PROVE Accounted'
    <3> SUFFICES ASSUME NEW p \in Configures, pool'[p] = "open"
                 PROVE  \/ p = poolPtr'
                        \/ conf'[p].pc \in {"read", "write", "mount", "swap"}
                        \/ \E d \in Configures : conf'[d].pc = "close" /\ conf'[d].old = p
      BY DEF Accounted
    <3>1. pool \in [Configures -> {"none", "open", "closed"}]
          /\ conf[c].old \in Configures \cup {NULL}
      BY DEF IInv, TypeOK, ConfigureStates
    <3>2. pool[p] = "open" \/ (p = c /\ conf'[c].pc = "read")
      BY <2>3, <3>1 DEF PoolStep
    <3>3. CASE pool[p] = "open" /\ p = poolPtr
      BY <2>3, <3>3 DEF PoolStep
    <3>4. CASE pool[p] = "open" /\ conf[p].pc \in {"read", "write", "mount", "swap"}
      BY <2>3, <3>1, <3>4 DEF PoolStep
    <3>5. CASE pool[p] = "open" /\ \E d \in Configures : conf[d].pc = "close" /\ conf[d].old = p
      <4>1. PICK d \in Configures : conf[d].pc = "close" /\ conf[d].old = p
        BY <3>5
      <4>2. d # c
        BY <2>3, <3>1, <4>1, ConfigAssumption DEF PoolStep
      <4> QED BY <2>3, <4>1, <4>2 DEF PoolStep
    <3> QED BY <3>2, <3>3, <3>4, <3>5 DEF Accounted
  <2> QED BY <2>1, <2>2, <2>3, PoolSteps
<1> QED BY <1>1, <1>2, IInvAlways, PTL DEF Spec

\* PoolsCorrect: no sequence of Configures, faults and crashes leaks a pool,
\* whether or not the host serializes Configure.
THEOREM PoolsCorrect == Spec => []PoolsAccounted
<1>1. Accounted => PoolsAccounted
  BY DEF Accounted, PoolsAccounted, Running
<1> QED BY <1>1, AccountedAlways, PTL

\* MountedCorrect: if the host serializes Configure, the mounted handler's pool
\* is open, in the middle of a Configure as well.
THEOREM MountedCorrect == HostSerializes => (Spec => []MountedPoolOpen)
<1> SUFFICES ASSUME HostSerializes PROVE Spec => []MountedPoolOpen
  OBVIOUS
<1>1. Init => Alone
  BY ConfigAssumption DEF Init, Alone, NewConfigure, Running
<1>2. IInv /\ Alone /\ [Next]_vars => Alone'
  <2> SUFFICES ASSUME IInv, Alone, [Next]_vars PROVE Alone'
    OBVIOUS
  <2>1. CASE UNCHANGED <<pool, handler, poolPtr, conf>>
    BY <2>1 DEF Alone, Running
  <2>2. CASE Crash
    BY <2>2, CrashPools DEF Alone, Running
  <2>3. ASSUME NEW c \in Configures, PoolStep(c) PROVE Alone'
    <3>1. /\ pool \in [Configures -> {"none", "open", "closed"}]
          /\ handler \in Configures \cup {NULL} /\ poolPtr \in Configures \cup {NULL}
          /\ conf[c].old \in Configures \cup {NULL}
      BY DEF IInv, TypeOK, ConfigureStates
    <3>2. \A d \in Configures \ {c} : conf'[d] = conf[d] /\ ~Running(d)
      BY <2>3 DEF PoolStep, Alone, Running
    <3>3. \A d, e \in Configures : Running(d)' /\ Running(e)' => d = e
      BY <3>2 DEF Running
    <3>4. ASSUME NEW d \in Configures
          PROVE  /\ conf'[d].pc = "swap" => handler' = d /\ poolPtr' # d
                 /\ conf'[d].pc = "close" => handler' = d /\ poolPtr' = d /\ conf'[d].old # d
      <4>1. CASE d # c
        BY <3>2, <4>1 DEF Running
      <4>2. CASE d = c
        BY <2>3, <4>2 DEF PoolStep, Alone, IInv, Owns
      <4> QED BY <4>1, <4>2
    <3>5. ASSUME \A d \in Configures : conf'[d].pc # "swap" PROVE handler' = poolPtr'
      <4>1. \A d \in Configures \ {c} : conf[d].pc # "swap"
        BY <3>2 DEF Running
      <4> QED BY <2>3, <3>5, <4>1 DEF PoolStep, Alone
    <3>6. ASSUME poolPtr' # NULL
          PROVE  pool'[poolPtr'] = "open" /\ conf'[poolPtr'].pc \in {"close", "done"}
      <4>1. CASE conf[c].pc = "swap"
        BY <2>3, <3>1, <4>1 DEF PoolStep, IInv, Owns
      <4>2. CASE conf[c].pc # "swap"
        <5>1. poolPtr' = poolPtr /\ pool[poolPtr] = "open" /\ conf[poolPtr].pc \in {"close", "done"}
          BY <2>3, <3>6, <4>2 DEF PoolStep, Alone
        <5>2. CASE conf[c].pc = "close"
          <6>1. poolPtr = c /\ conf[c].old # c
            BY <5>2 DEF Alone
          <6>2. conf'[c].pc = "done" /\ pool' =
                  IF conf[c].old = NULL THEN pool ELSE [pool EXCEPT ![conf[c].old] = "closed"]
            BY <2>3, <5>2 DEF PoolStep
          <6> QED BY <3>1, <5>1, <6>1, <6>2
        <5>3. CASE conf[c].pc # "close"
          <6>1. poolPtr # c /\ poolPtr \in Configures
            BY <2>3, <3>1, <3>6, <5>1, <5>3 DEF PoolStep
          <6>2. conf'[poolPtr] = conf[poolPtr]
            BY <3>2, <6>1
          <6>3. pool'[poolPtr] = pool[poolPtr]
            BY <2>3, <3>1, <4>2, <5>3, <6>1 DEF PoolStep
          <6> QED BY <5>1, <6>2, <6>3
        <5> QED BY <5>2, <5>3
      <4> QED BY <4>1, <4>2
    <3> QED BY <3>3, <3>4, <3>5, <3>6 DEF Alone
  <2> QED BY <2>1, <2>2, <2>3, PoolSteps
<1>3. IInv /\ Alone => MountedPoolOpen
  BY DEF IInv, TypeOK, Owns, Alone, MountedPoolOpen
<1> QED BY <1>1, <1>2, <1>3, IInvAlways, PTL DEF Spec

-----------------------------------------------------------------------------
(* The handler and the row                                                 *)
(*                                                                         *)
(* As long as every Bootstrap could read its row, nobody ever changes what *)
(* the settings of a database amount to: Configures and PATCHes write back *)
(* what NormalizeAppConfig made of what they read, and that is the same    *)
(* for all of them, however old, once it has been through json.Marshal.    *)

Sees == \A c \in Configures : conf[c].blind = "no"
Merges == {"write", "mount", "swap", "close", "done"}

\* What a Bootstrap makes of the settings of a database, and leaves in the row.
Taken(t, db) == Normalized(SettingsIn(t[db]))
Fate(t, db) == Marshaled(Taken(t, db))

\* A Configure is blind from the moment of its GetConfig on, if at all.
FreshSees == \A c \in Configures :
    conf[c].pc \in {"new", "migrate", "read"} => conf[c].blind = "no"

Sighted ==
    Sees => /\ \A c \in Configures :
                 conf[c].pc \in Merges => Marshaled(conf[c].settings) = Fate(row, conf[c].db)
            /\ \A r \in Requests :
                 req[r].pc = "write" =>
                   Marshaled(req[r].settings) = Fate(row, conf[req[r].on].db)

\* What a step does to the settings that Configures and PATCHes have in hand.
TakesSettings(c) ==
    /\ conf[c].pc # "new" => conf'[c].db = conf[c].db
    /\ conf'[c].pc \in {"new", "migrate", "read"} => conf'[c].blind = "no"
    /\ conf'[c].blind = "no" => conf[c].blind = "no"
    /\ conf'[c].pc \in Merges /\ conf'[c].blind = "no" =>
         \/ conf[c].pc \in Merges /\ conf'[c].settings = conf[c].settings
         \/ conf[c].pc = "read" /\ conf'[c].settings = Taken(row, conf[c].db)

CarriesSettings(r) ==
    req'[r].pc = "write" =>
      /\ req'[r].on = req[r].on
      /\ \/ req[r].pc = "write" /\ req'[r].settings = req[r].settings
         \/ req[r].pc = "read" /\ req'[r].settings = Taken(row, conf[req[r].on].db)

\* A Configure that goes on takes no other settings, and no one else moves.
LEMMA GoesSight ==
    ASSUME IInv, FreshSees, NEW c \in Configures, NEW pc \in ConfigureSteps,
           ConfigureGoes(c, pc),
           pc \in Merges => conf[c].pc \in Merges,
           pc \in {"new", "migrate", "read"} => conf[c].pc \in {"new", "migrate", "read"}
    PROVE  \A d \in Configures : TakesSettings(d)
<1>1. PICK n \in ConfigureStates :
        /\ conf' = [conf EXCEPT ![c] = n] /\ conf'[c] = n
        /\ n.pc = pc /\ n.db = conf[c].db /\ n.settings = conf[c].settings
        /\ n.blind = conf[c].blind
  BY GoesOn
<1>2. \A d \in Configures \ {c} : conf'[d] = conf[d]
  BY <1>1 DEF IInv, TypeOK
<1> QED BY <1>1, <1>2 DEF TakesSettings, FreshSees

LEMMA StillSight == ASSUME FreshSees, UNCHANGED conf PROVE \A c \in Configures : TakesSettings(c)
  BY DEF TakesSettings, FreshSees

LEMMA StillCarries == ASSUME UNCHANGED req PROVE \A r \in Requests : CarriesSettings(r)
  BY DEF CarriesSettings

LEMMA ConfigureSight ==
    ASSUME IInv, FreshSees, NEW c \in Configures, Configure(c)
    PROVE  \A d \in Configures : TakesSettings(d)
<1>1. PICK db \in Databases :
        ConfigureIs(c, [NewConfigure EXCEPT !.pc = "migrate", !.db = db])
  BY DEF Configure
<1> DEFINE n == [NewConfigure EXCEPT !.pc = "migrate", !.db = db]
<1>2. n.pc = "migrate" /\ n.blind = "no"
  BY DEF NewConfigure
<1>3. conf' = [conf EXCEPT ![c] = n] /\ conf[c].pc = "new"
  BY <1>1 DEF ConfigureIs, Configure
<1> HIDE DEF n
<1>4. conf'[c] = n /\ \A d \in Configures \ {c} : conf'[d] = conf[d]
  BY <1>3 DEF IInv, TypeOK
<1> QED BY <1>2, <1>3, <1>4 DEF TakesSettings, FreshSees, Merges

LEMMA BootstrapReadSight ==
    ASSUME IInv, FreshSees, NEW c \in Configures, NEW failing \in BOOLEAN,
           BootstrapRead(c, failing)
    PROVE  \A d \in Configures : TakesSettings(d)
<1>1. CASE GiveUp(c)
  BY <1>1, GoesSight DEF GiveUp, ConfigureSteps, Merges
<1>2. CASE ~GiveUp(c)
  <2> DEFINE blind == failing \/ row[conf[c].db].form = "garbage"
             n == Merged(c, blind)
  <2>1. conf' = [conf EXCEPT ![c] = n] /\ conf[c].pc = "read" /\ conf[c] \in ConfigureStates
    BY <1>2 DEF BootstrapRead, ConfigureIs, IInv, TypeOK
  <2>2. /\ n.pc = "write" /\ n.db = conf[c].db
        /\ n.blind = "no" => n.settings = Taken(row, conf[c].db)
    BY <2>1 DEF Merged, ConfigureStates, Taken
  <2> HIDE DEF n
  <2>3. conf'[c] = n /\ \A d \in Configures \ {c} : conf'[d] = conf[d]
    BY <2>1 DEF IInv, TypeOK
  <2> QED BY <2>1, <2>2, <2>3 DEF TakesSettings, FreshSees
<1> QED BY <1>1, <1>2

LEMMA SwapPoolSight ==
    ASSUME IInv, FreshSees, NEW c \in Configures, SwapPool(c)
    PROVE  \A d \in Configures : TakesSettings(d)
<1> DEFINE n == [conf[c] EXCEPT !.pc = "close", !.old = poolPtr]
<1>1. conf' = [conf EXCEPT ![c] = n] /\ conf[c].pc = "swap" /\ conf[c] \in ConfigureStates
  BY DEF SwapPool, ConfigureIs, IInv, TypeOK
<1>2. n.pc = "close" /\ n.db = conf[c].db /\ n.blind = conf[c].blind
      /\ n.settings = conf[c].settings
  BY <1>1 DEF ConfigureStates
<1> HIDE DEF n
<1>3. conf'[c] = n /\ \A d \in Configures \ {c} : conf'[d] = conf[d]
  BY <1>1 DEF IInv, TypeOK
<1> QED BY <1>1, <1>2, <1>3 DEF TakesSettings, FreshSees, Merges

LEMMA CrashSight ==
    ASSUME IInv, FreshSees, Crash
    PROVE  /\ \A c \in Configures : TakesSettings(c)
           /\ \A r \in Requests : CarriesSettings(r)
<1>1. ASSUME NEW c \in Configures PROVE TakesSettings(c)
  <2>1. /\ conf'[c].pc = IF Running(c) THEN "failed" ELSE conf[c].pc
        /\ conf'[c].db = conf[c].db /\ conf'[c].blind = conf[c].blind
        /\ conf'[c].settings = conf[c].settings
    BY DEF Crash, IInv, TypeOK, ConfigureStates
  <2> QED BY <2>1 DEF TakesSettings, FreshSees, Merges, Running
<1>2. ASSUME NEW r \in Requests PROVE CarriesSettings(r)
  <2>1. req'[r] = IF InFlight(r) THEN [req[r] EXCEPT !.pc = "failed"] ELSE req[r]
    BY DEF Crash
  <2>2. req[r] \in RequestStates
    BY DEF IInv, TypeOK
  <2> QED BY <2>1, <2>2 DEF CarriesSettings, InFlight, RequestStates
<1> QED BY <1>1, <1>2

LEMMA StepTakes == ASSUME IInv, FreshSees, [Next]_vars PROVE \A c \in Configures : TakesSettings(c)
<1>1. ASSUME NEW c \in Configures, Migrate(c) \/ BootstrapWrite(c) \/ Mount(c) \/ CloseOld(c)
      PROVE  \A d \in Configures : TakesSettings(d)
  BY <1>1, GoesSight DEF Migrate, BootstrapWrite, Mount, CloseOld, ConfigureSteps, Merges
<1>2. ASSUME NEW c \in Configures, ConfigureFails(c)
      PROVE  \A d \in Configures : TakesSettings(d)
  BY <1>2, GoesSight, BootstrapReadSight DEF ConfigureFails, GiveUp, ConfigureSteps, Merges
<1>3. ASSUME NEW r \in Requests, PatchConfig(r) \/ Patch(r) \/ PatchFails(r)
      PROVE  UNCHANGED conf
  BY <1>3 DEF PatchConfig, Patch, PatchRead, PatchWrite, PatchReread, PatchRefused, PatchFails
<1>4. CASE UNCHANGED vars
  BY <1>4, StillSight DEF vars
<1> QED BY <1>1, <1>2, <1>3, <1>4, ConfigureSight, BootstrapReadSight, SwapPoolSight, CrashSight,
           StillSight DEF Next, Apply

LEMMA StepCarries == ASSUME IInv, FreshSees, [Next]_vars PROVE \A r \in Requests : CarriesSettings(r)
<1>1. ASSUME NEW r \in Requests, NEW pc \in RequestSteps \ {"write"}, RequestGoes(r, pc)
      PROVE  \A s \in Requests : CarriesSettings(s)
  BY <1>1 DEF RequestGoes, RequestIs, RequestStates, CarriesSettings, IInv, TypeOK
<1>2. ASSUME NEW r \in Requests, PatchConfig(r) PROVE \A s \in Requests : CarriesSettings(s)
  BY <1>2 DEF PatchConfig, RequestIs, NewRequest, CarriesSettings, IInv, TypeOK
<1>3. ASSUME NEW r \in Requests, PatchRead(r) PROVE \A s \in Requests : CarriesSettings(s)
  <2>1. CASE RequestGoes(r, "failed")
    BY <1>1, <2>1 DEF RequestSteps
  <2>2. CASE ~RequestGoes(r, "failed")
    <3>1. req' = [req EXCEPT ![r] = [req[r] EXCEPT !.pc = "write",
                                                   !.settings = Taken(row, conf[req[r].on].db)]]
      BY <1>3, <2>2 DEF PatchRead, RequestIs, Row, Taken
    <3>2. req \in [Requests -> RequestStates] /\ req[r].pc = "read"
      BY <1>3 DEF IInv, TypeOK, PatchRead
    <3> QED BY <3>1, <3>2 DEF CarriesSettings, RequestStates
  <2> QED BY <2>1, <2>2
<1>4. ASSUME NEW r \in Requests, PatchWrite(r) \/ PatchReread(r) \/ PatchRefused(r) \/ PatchFails(r)
      PROVE  \A s \in Requests : CarriesSettings(s)
  BY <1>1, <1>4 DEF PatchWrite, PatchReread, PatchRefused, PatchFails, RequestSteps
<1>5. ASSUME NEW c \in Configures, Configure(c) \/ Apply(c) \/ ConfigureFails(c)
      PROVE  UNCHANGED req
  BY <1>5 DEF Configure, Apply, Migrate, BootstrapRead, BootstrapWrite, Mount, SwapPool, CloseOld,
              ConfigureFails
<1> QED BY <1>2, <1>3, <1>4, <1>5, CrashSight, StillCarries DEF Next, Patch, vars

\* A write of what the settings amount to already.
LEMMA WriteFate ==
    ASSUME IInv, NEW db \in Databases, NEW modules \in SUBSET Modules,
           NEW settings \in Canonical, Write(db, modules, settings),
           Marshaled(settings) = Fate(row, db)
    PROVE  \A e \in Databases : Fate(row', e) = Fate(row, e)
<1> DEFINE x == [form |-> "json", modules |-> modules, settings |-> Marshaled(settings)]
<1>1. Marshaled(Normalized(SettingsIn(x))) = Marshaled(settings)
  <2>1. SettingsIn(x) = Marshaled(settings)
    BY DEF SettingsIn
  <2> QED BY <2>1, SettingsFacts
<1>2. row' = [row EXCEPT ![db] = x] /\ row \in [Databases -> Rows]
  BY DEF Write, IInv, TypeOK
<1> HIDE DEF x
<1> QED BY <1>1, <1>2 DEF Fate, Taken

\* No step changes what the settings of a database amount to.
LEMMA StepFate ==
    ASSUME IInv, Sighted, Sees, [Next]_vars
    PROVE  \A db \in Databases : Fate(row', db) = Fate(row, db)
<1>1. CASE UNCHANGED row
  BY <1>1 DEF Fate, Taken
<1>2. ASSUME NEW c \in Configures, Migrate(c) PROVE \A db \in Databases : Fate(row', db) = Fate(row, db)
  <2>1. SettingsIn(NoRow("empty")) = DefaultSettings
    BY DEF SettingsIn, NoRow
  <2>2. row[conf[c].db].form = "absent" => SettingsIn(row[conf[c].db]) = DefaultSettings
    BY DEF SettingsIn
  <2>3. row' = row \/ (row[conf[c].db].form = "absent"
                       /\ row' = [row EXCEPT ![conf[c].db] = NoRow("empty")])
    BY <1>2 DEF Migrate
  <2> QED BY <2>1, <2>2, <2>3 DEF Fate, Taken, IInv, TypeOK
<1>3. ASSUME NEW c \in Configures, BootstrapWrite(c)
      PROVE  \A db \in Databases : Fate(row', db) = Fate(row, db)
  <2>1. conf[c].pc = "write" /\ Write(conf[c].db, conf[c].modules, conf[c].settings)
    BY <1>3 DEF BootstrapWrite
  <2>2. conf[c].db \in Databases /\ conf[c].modules \in SUBSET Modules
        /\ conf[c].settings \in Canonical
    BY <2>1 DEF IInv, TypeOK, Owns, ConfigureStates
  <2>3. Marshaled(conf[c].settings) = Fate(row, conf[c].db)
    BY <2>1 DEF Sighted, Merges
  <2> QED BY <2>1, <2>2, <2>3, WriteFate
<1>4. ASSUME NEW r \in Requests, PatchWrite(r)
      PROVE  \A db \in Databases : Fate(row', db) = Fate(row, db)
  <2>1. req[r].pc = "write" /\ Write(conf[req[r].on].db, req[r].enabled, req[r].settings)
    BY <1>4 DEF PatchWrite
  <2>2. req[r].on \in Configures /\ conf[req[r].on].pc # "new"
        /\ req[r].settings \in Canonical
    BY <2>1 DEF IInv, Holds, InFlight
  <2>3. conf[req[r].on].db \in Databases /\ req[r].enabled \in SUBSET Modules
    BY <2>2 DEF IInv, TypeOK, Owns, RequestStates
  <2>4. Marshaled(req[r].settings) = Fate(row, conf[req[r].on].db)
    BY <2>1 DEF Sighted
  <2> QED BY <2>1, <2>2, <2>3, <2>4, WriteFate
<1>5. ASSUME NEW c \in Configures,
             \/ Configure(c) \/ Mount(c) \/ SwapPool(c) \/ CloseOld(c) \/ ConfigureFails(c)
             \/ BootstrapRead(c, FALSE)
      PROVE  UNCHANGED row
  BY <1>5 DEF Configure, Mount, SwapPool, CloseOld, ConfigureFails, BootstrapRead, tables
<1>6. ASSUME NEW r \in Requests,
             PatchConfig(r) \/ PatchRead(r) \/ PatchReread(r) \/ PatchRefused(r) \/ PatchFails(r)
      PROVE  UNCHANGED row
  BY <1>6 DEF PatchConfig, PatchRead, PatchReread, PatchRefused, PatchFails, tables
<1>7. ASSUME Crash \/ UNCHANGED vars PROVE UNCHANGED row
  BY <1>7 DEF Crash, tables, vars
<1> QED BY <1>1, <1>2, <1>3, <1>4, <1>5, <1>6, <1>7 DEF Next, Apply, Patch

LEMMA StepSight == IInv /\ FreshSees /\ Sighted /\ [Next]_vars => FreshSees' /\ Sighted'
<1> SUFFICES ASSUME IInv, FreshSees, Sighted, [Next]_vars PROVE FreshSees' /\ Sighted'
  OBVIOUS
<1>1. /\ \A c \in Configures : TakesSettings(c)
      /\ \A r \in Requests : CarriesSettings(r)
  BY StepTakes, StepCarries
<1>2. FreshSees'
  BY <1>1 DEF TakesSettings, FreshSees
<1>3. ASSUME Sees' PROVE Sees /\ \A db \in Databases : Fate(row', db) = Fate(row, db)
  <2>1. Sees
    BY <1>1, <1>3 DEF Sees, TakesSettings
  <2> QED BY <2>1, StepFate
<1>4. ASSUME Sees', NEW c \in Configures, conf'[c].pc \in Merges
      PROVE  Marshaled(conf'[c].settings) = Fate(row', conf'[c].db)
  <2>1. conf[c].pc # "new" /\ Marshaled(conf'[c].settings) = Fate(row, conf[c].db)
    BY <1>1, <1>3, <1>4 DEF Sees, TakesSettings, Sighted, Merges, Fate
  <2>2. conf'[c].db = conf[c].db /\ conf[c].db \in Databases
    BY <1>1, <2>1 DEF TakesSettings, IInv, Owns
  <2> QED BY <1>3, <1>4, <2>1, <2>2
<1>5. ASSUME Sees', NEW r \in Requests, req'[r].pc = "write"
      PROVE  Marshaled(req'[r].settings) = Fate(row', conf'[req'[r].on].db)
  <2>1. InFlight(r) /\ req'[r].on = req[r].on
        /\ Marshaled(req'[r].settings) = Fate(row, conf[req[r].on].db)
    BY <1>1, <1>3, <1>5 DEF CarriesSettings, Sighted, InFlight, Fate
  <2>2. req[r].on \in Configures /\ conf[req[r].on].pc # "new"
    BY <2>1 DEF IInv, Holds
  <2>3. conf'[req[r].on].db = conf[req[r].on].db /\ conf[req[r].on].db \in Databases
    BY <1>1, <2>2 DEF TakesSettings, IInv, Owns
  <2> QED BY <1>3, <1>5, <2>1, <2>3
<1> QED BY <1>2, <1>4, <1>5 DEF Sighted

\* FitsRow: whatever Configures and PATCHes overlap, the row of the mounted handler's
\* database parses, is normalized and reads as the settings the handler has, but for
\* the slow threshold of 0 that json.Marshal leaves out.
THEOREM FitsRow == Spec => []MountedFitsRow
<1>1. Init => FreshSees /\ Sighted
  BY DEF Init, FreshSees, Sighted, NewConfigure, NewRequest, Merges
<1>2. ASSUME IInv, Sighted PROVE MountedFitsRow
  <2>1. ASSUME handler # NULL
        PROVE  /\ handler \in Configures /\ conf[handler].pc \in Merges
               /\ row[conf[handler].db].form = "json"
               /\ row[conf[handler].db].settings \in Stable
    BY <1>2, <2>1 DEF IInv, TypeOK, Owns, Merges
  <2>2. RowNormalized
    BY <2>1, SettingsFacts DEF RowNormalized
  <2>3. ASSUME handler # NULL, Sees
        PROVE  SettingsIn(row[conf[handler].db]) = Marshaled(conf[handler].settings)
    <3>1. Marshaled(conf[handler].settings) = Fate(row, conf[handler].db)
      BY <1>2, <2>1, <2>3 DEF Sighted
    <3>2. SettingsIn(row[conf[handler].db]) \in Stable
      BY <2>1, <2>3 DEF SettingsIn
    <3> QED BY <3>1, <3>2, SettingsFacts DEF Fate, Taken
  <2> QED BY <2>2, <2>3 DEF MountedFitsRow, SettingsAgree, Sees
<1> QED BY <1>1, <1>2, IInvAlways, StepSight, PTL DEF Spec
=============================================================================
