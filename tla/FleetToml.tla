------------------------------ MODULE FleetToml ------------------------------
(***************************************************************************)
(* fleet.toml and the secrets file, as the setup page changes them and the *)
(* console and the workers read them: models with the name of their key and*)
(* a priority, roles with the models bound to them, keys that are written  *)
(* to the secrets file and found in a process's environment first.  Whether*)
(* a goal can be planned depends on all of them, and not on the order in   *)
(* which a role tries its models, which is left out.                       *)
(*                                                                         *)
(* The pool of the old .env file is empty.                                 *)
(***************************************************************************)
EXTENDS Integers, FiniteSets

CONSTANTS
  Process,   (* "console" and the workers                                   *)
  Model,
  KeyEnv,    (* names of keys                                               *)
  KeyOf,     (* the key a model is configured with                          *)
  Priority,
  RoleName,  (* roles the page binds, the planner among them                *)
  KeyValue,
  Outer,     (* keys set in the environment the processes are started from  *)
  MaxPuts,   (* bound: configurations saved                                 *)
  MaxKeys,   (* bound: keys saved                                           *)
  MaxStarts  (* bound: processes started again                              *)

ASSUME TomlAssumption ==
  /\ "console" \in Process /\ "planner" \in RoleName
  /\ Priority \subseteq Nat
  /\ MaxPuts \in Nat /\ MaxKeys \in Nat /\ MaxStarts \in Nat

VARIABLES
  models,   \* priority of each model configured
  roles,    \* models bound to each role configured
  secrets,  \* the secrets file
  environ,  \* the environment of each process
  given,    \* the value last saved for each key
  puts, keys, starts

tomlVars == <<models, roles, secrets, environ, given, puts, keys, starts>>

(* f overlaid by g, without the keys of S.                                 *)
Merged(f, g, S) ==
  [k \in (DOMAIN f \cup DOMAIN g) \ S |-> IF k \in DOMAIN g THEN g[k] ELSE f[k]]
-----------------------------------------------------------------------------
(* A role loses the models the same request removes.                       *)
Pruned_Kept(bound, gone) == bound
Pruned(bound, gone) == bound \ gone

(* The planner is bound to a model of the smallest priority number when it *)
(* has none and there is one.                                              *)
Best(configured) ==
  {m \in DOMAIN configured : \A n \in DOMAIN configured : configured[m] <= configured[n]}

Unbound(bound) == "planner" \notin DOMAIN bound \/ bound["planner"] = {}

Bindings_Absent(bound, configured) ==
  IF "planner" \notin DOMAIN bound /\ DOMAIN configured # {}
  THEN {Merged(bound, [r \in {"planner"} |-> {best}], {}) : best \in Best(configured)}
  ELSE {bound}

Bindings(bound, configured) ==
  IF Unbound(bound) /\ DOMAIN configured # {}
  THEN {Merged(bound, [r \in {"planner"} |-> {best}], {}) : best \in Best(configured)}
  ELSE {bound}

(* save: the whole file is written beside the old one and replaces it.     *)
SaveToml(configured, bindings) == models' = configured /\ roles' = bindings

(* One request of the page: models and roles it names are added, replaced  *)
(* or removed, all others stay.  The page binds models it shows: those     *)
(* there are after the request.                                            *)
ConfigPut(added, removed, bound, unbound) ==
  LET merged == Merged(models, added, removed)
      gone == DOMAIN models \ DOMAIN merged
      named == Merged(roles, bound, unbound)
      left == [r \in DOMAIN named |-> Pruned(named[r], gone)] IN
  /\ puts < MaxPuts /\ puts' = puts + 1
  /\ \A r \in DOMAIN bound : bound[r] \subseteq DOMAIN merged
  /\ \E bindings \in Bindings(left, merged) : SaveToml(merged, bindings)
  /\ UNCHANGED <<secrets, environ, given, keys, starts>>

(* Only a key some model declares may be saved: to the file, and to the    *)
(* console's own environment.                                              *)
Declared == {KeyOf[m] : m \in DOMAIN models}

SecretPut_FileOnly(e, v) ==
  /\ keys < MaxKeys /\ keys' = keys + 1
  /\ e \in Declared
  /\ secrets' = Merged(secrets, [k \in {e} |-> v], {})
  /\ given' = Merged(given, [k \in {e} |-> v], {})
  /\ UNCHANGED <<environ, models, roles, puts, starts>>

SecretPut(e, v) ==
  /\ keys < MaxKeys /\ keys' = keys + 1
  /\ e \in Declared
  /\ secrets' = Merged(secrets, [k \in {e} |-> v], {})
  /\ environ' = [environ EXCEPT !["console"] = Merged(@, [k \in {e} |-> v], {})]
  /\ given' = Merged(given, [k \in {e} |-> v], {})
  /\ UNCHANGED <<models, roles, puts, starts>>

(* A process that starts takes the secrets file into its environment, under*)
(* what is set there already.                                              *)
Start(p) ==
  /\ starts < MaxStarts /\ starts' = starts + 1
  /\ environ' = [environ EXCEPT ![p] = Merged(secrets, Outer, {})]
  /\ UNCHANGED <<models, roles, secrets, given, puts, keys>>
-----------------------------------------------------------------------------
(* The key a call is made with: the environment first, the file as it is   *)
(* now otherwise.                                                          *)
KeyPresent(p, e) == e \in DOMAIN environ[p] \/ e \in DOMAIN secrets
KeyUsed(p, e) == IF e \in DOMAIN environ[p] THEN environ[p][e] ELSE secrets[e]

(* load_config: each call reads the file anew.                             *)
LoadConfig == [models |-> models, roles |-> roles]

(* The candidates of a role, and what planner_status says.                 *)
TomlChain(config, role) ==
  IF role \in DOMAIN config.roles THEN config.roles[role] \cap DOMAIN config.models ELSE {}

PlannerStatus(p) ==
  LET config == LoadConfig
      chain == TomlChain(config, "planner") IN
  IF \E m \in chain : KeyPresent(p, KeyOf[m]) THEN "ready"
  ELSE IF chain # {} THEN "no_key"
  ELSE IF DOMAIN config.models # {} /\ Unbound(config.roles) THEN "no_binding"
  ELSE "no_model"

TomlInit ==
  /\ models = <<>> /\ roles = <<>> /\ secrets = <<>> /\ given = <<>>
  /\ environ = [p \in Process |-> Outer]
  /\ puts = 0 /\ keys = 0 /\ starts = 0

(* The page adds or removes one model, and may bind or unbind one role.    *)
TomlNext ==
  \/ \E m \in Model, v \in Priority, r \in RoleName :
       \E bound \in {<<>>} \cup {[x \in {r} |-> S] : S \in {{}, {m}}} :
         ConfigPut([x \in {m} |-> v], {}, bound, {})
  \/ \E m \in DOMAIN models, r \in RoleName, n \in DOMAIN models :
       \E bound \in {<<>>, [x \in {r} |-> {n}]} : ConfigPut(<<>>, {m}, bound, {})
  \/ \E r \in DOMAIN roles : ConfigPut(<<>>, {}, <<>>, {r})
  \/ \E r \in RoleName, m \in DOMAIN models, n \in DOMAIN models :
       m # n /\ ConfigPut(<<>>, {}, [x \in {r} |-> {m, n}], {})
  \/ \E e \in KeyEnv, v \in KeyValue : SecretPut(e, v)
  \/ \E p \in Process : Start(p)
-----------------------------------------------------------------------------
(* Whatever sequence of requests added, removed and bound models and roles,*)
(* the planner is bound as long as there is a model: no process ever finds *)
(* no_binding or no_model then, and once the key of each model was saved,  *)
(* every process finds it ready, those started before the key included.    *)
PlannerIsReady ==
  \A p \in Process :
    /\ DOMAIN models # {} => PlannerStatus(p) \in {"ready", "no_key"}
    /\ DOMAIN models # {} /\ Declared \subseteq DOMAIN given => PlannerStatus(p) = "ready"

(* The console, started before or after, uses the value saved last for a   *)
(* key, unless it was started with another one in its environment.         *)
KeyIsFresh ==
  \A e \in DOMAIN given \ DOMAIN Outer : KeyUsed("console", e) = given[e]

TomlTypeOK ==
  /\ DOMAIN models \subseteq Model /\ \A m \in DOMAIN models : models[m] \in Priority
  /\ DOMAIN roles \subseteq RoleName
  /\ \A r \in DOMAIN roles : roles[r] \subseteq DOMAIN models
  /\ DOMAIN secrets \subseteq KeyEnv /\ DOMAIN environ = Process
  /\ puts \in 0..MaxPuts /\ keys \in 0..MaxKeys /\ starts \in 0..MaxStarts
=============================================================================
