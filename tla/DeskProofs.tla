------------------------------ MODULE DeskProofs ------------------------------
(***************************************************************************)
(* Proofs about Desk for every set of loads, sections, processes, models,  *)
(* keys, tasks, components and requests: the console uses the key that was *)
(* saved last, the planner stays bound, what was saved in the .env file is *)
(* what is read, plan.json stays a plan, the progress that is computed of  *)
(* it is exact, and two install jobs are never at work together.           *)
(***************************************************************************)
EXTENDS Desk, FiniteSetTheorems, SequenceTheorems, WellFoundedInduction, TLAPS

-----------------------------------------------------------------------------
(* Keys.                                                                   *)

(* A key that was saved is in the file; the console's environment has the  *)
(* same one, unless it was set outside.                                    *)
KeyInv ==
  /\ DOMAIN environ = Process
  /\ \A e \in DOMAIN given \ DOMAIN Outer :
       /\ e \in DOMAIN secrets /\ secrets[e] = given[e]
       /\ e \in DOMAIN environ["console"] => environ["console"][e] = given[e]

PutIn(g, f, k, v) ==
  /\ DOMAIN g = DOMAIN f \cup {k} /\ g[k] = v
  /\ \A x \in DOMAIN f : x # k => g[x] = f[x]

LEMMA MergedPuts ==
  ASSUME NEW f, NEW put, NEW k, NEW v, DOMAIN put = {k}, put[k] = v
  PROVE  PutIn(Merged(f, put, {}), f, k, v)
BY DEF Merged, PutIn

LEMMA OverlaidIs ==
  ASSUME NEW f, NEW g
  PROVE  Merged(f, g, {})
           = [x \in DOMAIN f \cup DOMAIN g |-> IF x \in DOMAIN g THEN g[x] ELSE f[x]]
BY DEF Merged

LEMMA KeyInit == TomlInit => KeyInv
<1> SUFFICES ASSUME TomlInit PROVE KeyInv
  OBVIOUS
<1>1. DOMAIN given = {} /\ DOMAIN environ = Process
  <2>1. given = <<>> /\ environ = [p \in Process |-> Outer]
    BY DEF TomlInit
  <2>2. DOMAIN given = {}
    BY <2>1
  <2> QED
    BY <2>1, <2>2
<1> QED
  BY <1>1 DEF KeyInv

LEMMA SecretPutKeeps ==
  ASSUME KeyInv, NEW k, NEW v, SecretPut(k, v)
  PROVE  KeyInv'
<1> DEFINE put == [x \in {k} |-> v]
<1>1. /\ secrets' = Merged(secrets, put, {}) /\ given' = Merged(given, put, {})
      /\ environ' = [environ EXCEPT !["console"] = Merged(environ["console"], put, {})]
  BY DEF SecretPut
<1>2. DOMAIN put = {k} /\ put[k] = v
  OBVIOUS
<1> HIDE DEF put
<1>3. "console" \in Process
  BY TomlAssumption
<1>4. DOMAIN environ' = Process /\ PutIn(environ'["console"], environ["console"], k, v)
  <2>1. DOMAIN environ' = Process /\ environ'["console"] = Merged(environ["console"], put, {})
    BY <1>1, <1>3 DEF KeyInv
  <2>2. PutIn(Merged(environ["console"], put, {}), environ["console"], k, v)
    BY <1>2, MergedPuts
  <2> QED
    BY <2>1, <2>2
<1>5. PutIn(secrets', secrets, k, v) /\ PutIn(given', given, k, v)
  <2>1. PutIn(Merged(secrets, put, {}), secrets, k, v)
    BY <1>2, MergedPuts
  <2>2. PutIn(Merged(given, put, {}), given, k, v)
    BY <1>2, MergedPuts
  <2> QED
    BY <1>1, <2>1, <2>2
<1>6. ASSUME NEW e \in DOMAIN given' \ DOMAIN Outer
      PROVE  /\ e \in DOMAIN secrets' /\ secrets'[e] = given'[e]
             /\ e \in DOMAIN environ'["console"] => environ'["console"][e] = given'[e]
  <2>1. CASE e = k
    BY <1>4, <1>5, <2>1 DEF PutIn
  <2>2. CASE e # k
    <3>1. e \in DOMAIN given /\ given'[e] = given[e]
      BY <1>6, <1>5, <2>2 DEF PutIn
    <3>2. e \in DOMAIN secrets /\ secrets[e] = given[e]
          /\ (e \in DOMAIN environ["console"] => environ["console"][e] = given[e])
      BY <1>6, <3>1 DEF KeyInv
    <3>3. e \in DOMAIN secrets' /\ secrets'[e] = secrets[e]
      BY <1>5, <2>2, <3>2 DEF PutIn
    <3>4. e \in DOMAIN environ'["console"] =>
            (e \in DOMAIN environ["console"] /\ environ'["console"][e] = environ["console"][e])
      BY <1>4, <2>2 DEF PutIn
    <3> QED
      BY <3>1, <3>2, <3>3, <3>4
  <2> QED
    BY <2>1, <2>2
<1> QED
  BY <1>4, <1>6 DEF KeyInv

LEMMA StartKeeps ==
  ASSUME KeyInv, NEW p \in Process, Start(p)
  PROVE  KeyInv'
<1> DEFINE fresh == [x \in DOMAIN secrets \cup DOMAIN Outer |->
                       IF x \in DOMAIN Outer THEN Outer[x] ELSE secrets[x]]
<1>1. environ' = [environ EXCEPT ![p] = fresh]
  BY OverlaidIs, ZenonT(40) DEF Start
<1>2. secrets' = secrets /\ given' = given
  BY DEF Start
<1>3. DOMAIN environ' = Process
  BY <1>1 DEF KeyInv
<1>4. ASSUME NEW e \in DOMAIN given \ DOMAIN Outer, e \in DOMAIN environ'["console"]
      PROVE  environ'["console"][e] = given[e]
  <2>1. CASE p = "console"
    <3>1. environ'["console"] = fresh
      BY <1>1, <2>1 DEF KeyInv
    <3>2. secrets[e] = given[e] /\ e \notin DOMAIN Outer
      BY <1>4 DEF KeyInv
    <3> QED
      BY <1>4, <3>1, <3>2
  <2>2. CASE p # "console"
    <3>1. environ'["console"] = environ["console"]
      BY <1>1, <2>2
    <3> QED
      BY <1>4, <3>1 DEF KeyInv
  <2> QED
    BY <2>1, <2>2
<1> QED
  BY <1>2, <1>3, <1>4 DEF KeyInv

LEMMA TomlStepKeeps ==
  ASSUME KeyInv, TomlNext \/ UNCHANGED tomlVars
  PROVE  KeyInv'
<1>1. CASE UNCHANGED <<secrets, environ, given>>
  BY <1>1 DEF KeyInv
<1>2. CASE \E e \in KeyEnv, v \in KeyValue : SecretPut(e, v)
  BY <1>2, SecretPutKeeps
<1>3. CASE \E p \in Process : Start(p)
  BY <1>3, StartKeeps
<1>4. UNCHANGED tomlVars => UNCHANGED <<secrets, environ, given>>
  BY DEF tomlVars
<1>5. ASSUME NEW a, NEW b, NEW c, NEW d, ConfigPut(a, b, c, d)
      PROVE  UNCHANGED <<secrets, environ, given>>
  BY <1>5 DEF ConfigPut
<1> QED
  BY <1>1, <1>2, <1>3, <1>4, <1>5 DEF TomlNext

-----------------------------------------------------------------------------
(* fleet.toml: types, and that the planner is bound.                       *)

(* A planner is bound as long as there is a model, and a key that was      *)
(* saved is in the secrets file.                                           *)
TomlInv ==
  /\ TomlTypeOK
  /\ DOMAIN models # {} => ~Unbound(roles)
  /\ DOMAIN given \subseteq DOMAIN secrets

IsMerged(h, f, g, S) ==
  /\ DOMAIN h = (DOMAIN f \cup DOMAIN g) \ S
  /\ \A k \in DOMAIN h : h[k] = IF k \in DOMAIN g THEN g[k] ELSE f[k]

LEMMA MergedIs ==
  ASSUME NEW f, NEW g, NEW S
  PROVE  IsMerged(Merged(f, g, S), f, g, S)
BY DEF Merged, IsMerged

LEMMA TomlInitInv == TomlInit => TomlInv
<1> SUFFICES ASSUME TomlInit PROVE TomlInv
  OBVIOUS
<1>1. /\ models = <<>> /\ roles = <<>> /\ secrets = <<>> /\ given = <<>>
      /\ environ = [p \in Process |-> Outer] /\ puts = 0 /\ keys = 0 /\ starts = 0
  BY DEF TomlInit
<1>2. DOMAIN models = {} /\ DOMAIN roles = {} /\ DOMAIN secrets = {} /\ DOMAIN given = {}
  BY <1>1
<1>3. TomlTypeOK
  BY <1>1, <1>2, TomlAssumption DEF TomlTypeOK
<1> QED
  BY <1>2, <1>3 DEF TomlInv

(* A request of the page that adds models of Model and roles of RoleName.  *)
LEMMA ConfigPutKeeps ==
  ASSUME TomlInv, NEW added, NEW removed, NEW bound, NEW unbound,
         ConfigPut(added, removed, bound, unbound),
         DOMAIN added \subseteq Model, \A m \in DOMAIN added : added[m] \in Priority,
         DOMAIN bound \subseteq RoleName
  PROVE  TomlInv'
<1> DEFINE merged == Merged(models, added, removed)
           gone == DOMAIN models \ DOMAIN merged
           named == Merged(roles, bound, unbound)
           left == [r \in DOMAIN named |-> Pruned(named[r], gone)]
<1>1. /\ puts < MaxPuts /\ puts' = puts + 1
      /\ \A r \in DOMAIN bound : bound[r] \subseteq DOMAIN merged
      /\ \E bindings \in Bindings(left, merged) : SaveToml(merged, bindings)
      /\ UNCHANGED <<secrets, environ, given, keys, starts>>
  BY DEF ConfigPut
<1>2. PICK bindings \in Bindings(left, merged) : models' = merged /\ roles' = bindings
  BY <1>1 DEF SaveToml
<1>3. /\ DOMAIN models \subseteq Model /\ \A m \in DOMAIN models : models[m] \in Priority
      /\ DOMAIN roles \subseteq RoleName
      /\ \A r \in DOMAIN roles : roles[r] \subseteq DOMAIN models
  BY DEF TomlInv, TomlTypeOK
<1>m. IsMerged(merged, models, added, removed) /\ IsMerged(named, roles, bound, unbound)
  BY MergedIs
<1>l. left = [r \in DOMAIN named |-> Pruned(named[r], gone)]
      /\ gone = DOMAIN models \ DOMAIN merged
  OBVIOUS
<1> HIDE DEF merged, named, gone, left
<1>4. DOMAIN merged \subseteq Model /\ \A m \in DOMAIN merged : merged[m] \in Priority
  BY <1>3, <1>m DEF IsMerged
<1>5. /\ DOMAIN named \subseteq RoleName
      /\ \A r \in DOMAIN named : named[r] \subseteq DOMAIN merged \cup DOMAIN models
  BY <1>1, <1>3, <1>m DEF IsMerged
<1>6. /\ DOMAIN left = DOMAIN named
      /\ \A r \in DOMAIN left : left[r] \subseteq DOMAIN merged
  BY <1>5, <1>l DEF Pruned
<1>7. /\ DOMAIN bindings \subseteq RoleName
      /\ \A r \in DOMAIN bindings : bindings[r] \subseteq DOMAIN merged
      /\ DOMAIN merged # {} => ~Unbound(bindings)
  <2>1. CASE Unbound(left) /\ DOMAIN merged # {}
    <3>1. PICK best \in Best(merged) : bindings = Merged(left, [r \in {"planner"} |-> {best}], {})
      BY <1>2, <2>1 DEF Bindings
    <3>2. best \in DOMAIN merged
      BY DEF Best
    <3>3. /\ DOMAIN bindings = DOMAIN left \cup {"planner"}
          /\ bindings["planner"] = {best}
          /\ \A r \in DOMAIN left : r # "planner" => bindings[r] = left[r]
      <4> DEFINE one == [r \in {"planner"} |-> {best}]
      <4>1. DOMAIN one = {"planner"} /\ one["planner"] = {best}
        OBVIOUS
      <4> HIDE DEF one
      <4>2. IsMerged(bindings, left, one, {})
        BY <3>1, MergedIs DEF one
      <4> QED
        BY <4>1, <4>2 DEF IsMerged
    <3>4. "planner" \in RoleName
      BY TomlAssumption
    <3> QED
      BY <1>5, <1>6, <3>2, <3>3, <3>4 DEF Unbound
  <2>2. CASE ~(Unbound(left) /\ DOMAIN merged # {})
    <3>1. bindings = left
      BY <1>2, <2>2 DEF Bindings
    <3> QED
      BY <1>5, <1>6, <2>2, <3>1
  <2> QED
    BY <2>1, <2>2
<1>8. TomlTypeOK'
  BY <1>1, <1>2, <1>4, <1>7, TomlAssumption DEF TomlInv, TomlTypeOK
<1> QED
  BY <1>1, <1>2, <1>7, <1>8 DEF TomlInv

LEMMA TomlStepInv ==
  ASSUME TomlInv, TomlNext \/ UNCHANGED tomlVars
  PROVE  TomlInv'
<1>0. DOMAIN models \subseteq Model /\ DOMAIN roles \subseteq RoleName /\ DOMAIN (<<>>) = {}
  BY DEF TomlInv, TomlTypeOK
<1>1. ASSUME NEW m \in Model, NEW v \in Priority, NEW r \in RoleName,
             NEW bound \in {<<>>} \cup {[x \in {r} |-> S] : S \in {{}, {m}}},
             ConfigPut([x \in {m} |-> v], {}, bound, {})
      PROVE  TomlInv'
  <2>1. DOMAIN bound \subseteq RoleName
    BY <1>0
  <2> DEFINE added == [x \in {m} |-> v]
  <2>2. DOMAIN added \subseteq Model /\ \A x \in DOMAIN added : added[x] \in Priority
    OBVIOUS
  <2> HIDE DEF added
  <2> QED
    BY <1>1, <2>1, <2>2, ConfigPutKeeps DEF added
<1>2. ASSUME NEW removed, NEW bound, NEW unbound, ConfigPut(<<>>, removed, bound, unbound),
             DOMAIN bound \subseteq RoleName
      PROVE  TomlInv'
  <2> DEFINE added == <<>>
  <2>1. DOMAIN added \subseteq Model /\ \A x \in DOMAIN added : added[x] \in Priority
    BY <1>0
  <2> HIDE DEF added
  <2>2. ConfigPut(added, removed, bound, unbound)
    BY <1>2 DEF added
  <2> QED
    BY <1>2, <2>1, <2>2, ConfigPutKeeps
<1>3. ASSUME NEW m \in DOMAIN models, NEW r \in RoleName, NEW n \in DOMAIN models,
             NEW bound \in {<<>>, [x \in {r} |-> {n}]}, ConfigPut(<<>>, {m}, bound, {})
      PROVE  TomlInv'
  <2>1. DOMAIN bound \subseteq RoleName
    BY <1>0
  <2> QED
    BY <1>2, <1>3, <2>1
<1>4. ASSUME NEW r \in DOMAIN roles, ConfigPut(<<>>, {}, <<>>, {r})
      PROVE  TomlInv'
  <2>1. DOMAIN (<<>>) \subseteq RoleName
    BY <1>0
  <2> QED
    BY <1>2, <1>4, <2>1
<1>5. ASSUME NEW r \in RoleName, NEW m \in DOMAIN models, NEW n \in DOMAIN models,
             ConfigPut(<<>>, {}, [x \in {r} |-> {m, n}], {})
      PROVE  TomlInv'
  <2> DEFINE bound == [x \in {r} |-> {m, n}]
  <2>1. DOMAIN bound \subseteq RoleName
    OBVIOUS
  <2> HIDE DEF bound
  <2> QED
    BY <1>2, <1>5, <2>1 DEF bound
<1>6. ASSUME NEW e \in KeyEnv, NEW v \in KeyValue, SecretPut(e, v)
      PROVE  TomlInv'
  <2> DEFINE put == [k \in {e} |-> v]
  <2>1. /\ keys < MaxKeys /\ keys' = keys + 1
        /\ secrets' = Merged(secrets, put, {}) /\ given' = Merged(given, put, {})
        /\ environ' = [environ EXCEPT !["console"] = Merged(environ["console"], put, {})]
        /\ UNCHANGED <<models, roles, puts, starts>>
    BY <1>6 DEF SecretPut
  <2>2. DOMAIN put = {e}
    OBVIOUS
  <2> HIDE DEF put
  <2>3. /\ DOMAIN secrets' = DOMAIN secrets \cup {e} /\ DOMAIN given' = DOMAIN given \cup {e}
        /\ DOMAIN environ' = DOMAIN environ
    <3>1. IsMerged(secrets', secrets, put, {}) /\ IsMerged(given', given, put, {})
      BY <2>1, MergedIs
    <3>2. DOMAIN environ' = DOMAIN environ
      BY <2>1
    <3> QED
      BY <2>2, <3>1, <3>2 DEF IsMerged
  <2>4. TomlTypeOK'
    BY <2>1, <2>3, TomlAssumption DEF TomlInv, TomlTypeOK
  <2> QED
    BY <2>1, <2>3, <2>4 DEF TomlInv, Unbound
<1>7. ASSUME NEW p \in Process, Start(p) PROVE TomlInv'
  <2>1. /\ starts < MaxStarts /\ starts' = starts + 1 /\ DOMAIN environ' = DOMAIN environ
        /\ UNCHANGED <<models, roles, secrets, given, puts, keys>>
    BY <1>7 DEF Start
  <2>2. TomlTypeOK'
    BY <2>1, TomlAssumption DEF TomlInv, TomlTypeOK
  <2> QED
    BY <2>1, <2>2 DEF TomlInv, Unbound
<1>8. CASE UNCHANGED tomlVars
  BY <1>8 DEF tomlVars, TomlInv, TomlTypeOK, Unbound
<1>9. CASE \E m \in Model, v \in Priority, r \in RoleName :
             \E bound \in {<<>>} \cup {[x \in {r} |-> S] : S \in {{}, {m}}} :
               ConfigPut([x \in {m} |-> v], {}, bound, {})
  BY <1>1, <1>9, Zenon
<1>10. CASE \E m \in DOMAIN models, r \in RoleName, n \in DOMAIN models :
              \E bound \in {<<>>, [x \in {r} |-> {n}]} : ConfigPut(<<>>, {m}, bound, {})
  BY <1>3, <1>10, Zenon
<1>11. CASE \E r \in RoleName, m \in DOMAIN models, n \in DOMAIN models :
              m # n /\ ConfigPut(<<>>, {}, [x \in {r} |-> {m, n}], {})
  BY <1>5, <1>11, Zenon
<1> QED
  BY <1>4, <1>6, <1>7, <1>8, <1>9, <1>10, <1>11, Zenon DEF TomlNext

LEMMA TomlInvReady == TomlInv => PlannerIsReady
<1> SUFFICES ASSUME TomlInv, NEW p \in Process, DOMAIN models # {}
             PROVE  /\ PlannerStatus(p) \in {"ready", "no_key"}
                    /\ Declared \subseteq DOMAIN given => PlannerStatus(p) = "ready"
  BY DEF PlannerIsReady
<1> DEFINE chain == TomlChain(LoadConfig, "planner")
<1>1. "planner" \in DOMAIN roles /\ roles["planner"] # {} /\ roles["planner"] \subseteq DOMAIN models
  BY DEF TomlInv, TomlTypeOK, Unbound
<1>2. chain # {} /\ chain \subseteq DOMAIN models
  BY <1>1 DEF TomlChain, LoadConfig
<1>3. PlannerStatus(p) = IF \E m \in chain : KeyPresent(p, KeyOf[m]) THEN "ready" ELSE "no_key"
  BY <1>2 DEF PlannerStatus
<1>4. ASSUME Declared \subseteq DOMAIN given PROVE \E m \in chain : KeyPresent(p, KeyOf[m])
  BY <1>2, <1>4 DEF Declared, KeyPresent, TomlInv
<1> QED
  BY <1>3, <1>4

-----------------------------------------------------------------------------
(* The .env file: what is saved is what is read.                           *)

Item == [Field -> STRING]

(* The indices of the keys of a list are those of the list.                *)
LEMMA IndicesOfList ==
  ASSUME NEW items \in Seq(Item)
  PROVE  Indices(KeysOf(items)) = [i \in 1..Len(items) |-> i]
<1> DEFINE at == {k[1] : k \in DOMAIN KeysOf(items)}
<1>1. Len(items) \in Nat /\ DOMAIN items = 1..Len(items)
  OBVIOUS
<1>2. DOMAIN KeysOf(items) = (1..Len(items)) \X Field
  BY <1>1 DEF KeysOf
<1>3. at = 1..Len(items)
  <2>1. ASSUME NEW i \in 1..Len(items) PROVE i \in at
    <3>1. <<i, "name">> \in DOMAIN KeysOf(items)
      BY <1>2 DEF Field
    <3>2. <<i, "name">>[1] = i
      OBVIOUS
    <3> QED
      BY <3>1, <3>2
  <2> QED
    BY <1>2, <2>1
<1> HIDE DEF at
<1>4. Cardinality(at) = Len(items)
  <2>1. Cardinality(1..Len(items)) = IF 1 > Len(items) THEN 0 ELSE Len(items) - 1 + 1
    BY <1>1, FS_Interval
  <2>2. Cardinality(1..Len(items)) = Len(items)
    BY <1>1, <2>1
  <2> QED
    BY <1>3, <2>2
<1>5. \A x \in at : Cardinality({m \in at : m < x}) = x - 1
  <2> SUFFICES ASSUME NEW x \in at PROVE Cardinality({m \in at : m < x}) = x - 1
    OBVIOUS
  <2>1. x \in Int /\ x >= 1 /\ x - 1 \in Int
    BY <1>1, <1>3
  <2>2. {m \in at : m < x} = 1..(x - 1)
    BY <1>1, <1>3, <2>1
  <2>3. Cardinality(1..(x - 1)) = IF 1 > x - 1 THEN 0 ELSE (x - 1) - 1 + 1
    BY <2>1, FS_Interval
  <2>4. Cardinality(1..(x - 1)) = x - 1
    BY <2>1, <2>3
  <2> QED
    BY <2>2, <2>4
<1>6. ASSUME NEW i \in 1..Len(items)
      PROVE  (CHOOSE n \in at : Cardinality({m \in at : m < n}) = i - 1) = i
  <2> DEFINE c == CHOOSE n \in at : Cardinality({m \in at : m < n}) = i - 1
  <2>1. i \in at /\ Cardinality({m \in at : m < i}) = i - 1
    BY <1>3, <1>5
  <2>2. c \in at /\ Cardinality({m \in at : m < c}) = i - 1
    BY <2>1
  <2> HIDE DEF c
  <2>3. c - 1 = i - 1 /\ c \in Int
    BY <1>1, <1>3, <1>5, <2>2
  <2>4. c = i
    BY <1>1, <2>3
  <2> QED
    BY <2>4 DEF c
<1>7. Indices(KeysOf(items)) =
        [i \in 1..Cardinality(at) |-> CHOOSE n \in at : Cardinality({m \in at : m < n}) = i - 1]
  BY DEF Indices, at
<1> QED
  BY <1>4, <1>6, <1>7

LEMMA ListGrouped ==
  ASSUME NEW items \in Seq(Item)
  PROVE  GroupIndexed(KeysOf(items)) = items
<1> DEFINE at == Indices(KeysOf(items))
<1>1. at = [i \in 1..Len(items) |-> i]
  BY IndicesOfList
<1>2. /\ Len(items) \in Nat /\ DOMAIN items = 1..Len(items)
      /\ items = [i \in 1..Len(items) |-> items[i]]
      /\ \A i \in 1..Len(items) : items[i] \in Item
  OBVIOUS
<1>3. GroupIndexed(KeysOf(items)) =
        [i \in DOMAIN at |-> [f \in Field |-> IF <<at[i], f>> \in DOMAIN KeysOf(items)
                                              THEN KeysOf(items)[<<at[i], f>>] ELSE ""]]
  BY DEF GroupIndexed
<1>4. ASSUME NEW i \in 1..Len(items)
      PROVE  [f \in Field |-> IF <<at[i], f>> \in DOMAIN KeysOf(items)
                              THEN KeysOf(items)[<<at[i], f>>] ELSE ""] = items[i]
  <2>1. at[i] = i
    BY <1>1
  <2>2. ASSUME NEW f \in Field
        PROVE  <<i, f>> \in DOMAIN KeysOf(items) /\ KeysOf(items)[<<i, f>>] = items[i][f]
    BY <1>2 DEF KeysOf
  <2>3. items[i] = [f \in Field |-> items[i][f]]
    BY <1>2 DEF Item
  <2> HIDE DEF at
  <2> QED
    BY <2>1, <2>2, <2>3
<1>5. DOMAIN at = 1..Len(items)
  BY <1>1
<1> HIDE DEF at
<1> QED
  BY <1>2, <1>3, <1>4, <1>5

(* A save of a list patches the keys of the old one into its own.          *)
LEMMA ListPatched ==
  ASSUME NEW old \in Seq(Item), NEW items \in Seq(Item)
  PROVE  PatchedList(KeysOf(old), Indices(KeysOf(old)), items) = KeysOf(items)
<1> DEFINE seen == Indices(KeysOf(old))
           stale == {seen[i] : i \in {n \in DOMAIN seen : n > Len(items)}}
           kept == {k \in DOMAIN KeysOf(old) : k[1] \notin stale}
<1>1. seen = [i \in 1..Len(old) |-> i]
  BY IndicesOfList
<1>2. /\ Len(items) \in Nat /\ DOMAIN items = 1..Len(items)
      /\ Len(old) \in Nat /\ DOMAIN old = 1..Len(old)
  OBVIOUS
<1>3. \A i \in 1..Len(old) : i > Len(items) => i \in stale
  BY <1>1
<1>4. /\ DOMAIN KeysOf(old) = (1..Len(old)) \X Field
      /\ DOMAIN KeysOf(items) = (1..Len(items)) \X Field
  BY <1>2 DEF KeysOf
<1>5. PatchedList(KeysOf(old), seen, items) =
        [k \in kept \cup DOMAIN KeysOf(items) |->
           IF k \in DOMAIN KeysOf(items) THEN KeysOf(items)[k] ELSE KeysOf(old)[k]]
  BY DEF PatchedList
<1> HIDE DEF stale, seen
<1>6. kept \subseteq DOMAIN KeysOf(items)
  <2> SUFFICES ASSUME NEW k \in kept PROVE k \in DOMAIN KeysOf(items)
    OBVIOUS
  <2>1. k \in (1..Len(old)) \X Field /\ k[1] \notin stale
    BY <1>4
  <2>2. k[1] \in 1..Len(old) /\ k[2] \in Field /\ k = <<k[1], k[2]>>
    BY <2>1
  <2>3. k[1] \in 1..Len(items)
    BY <1>2, <1>3, <2>1, <2>2
  <2> QED
    BY <1>4, <2>2, <2>3
<1> HIDE DEF kept
<1>7. KeysOf(items) = [k \in DOMAIN KeysOf(items) |-> KeysOf(items)[k]]
  BY DEF KeysOf
<1> QED
  BY <1>5, <1>6, <1>7 DEF seen

(* The state of the file, its cache and the loads.                         *)
LoaderRow(l) == loader[l] = [pc |-> loader[l].pc, mtime |-> loader[l].mtime, env |-> loader[l].env]

EnvShape ==
  /\ env = [keys |-> env.keys, lines |-> env.lines]
  /\ cache = [mtime |-> cache.mtime, env |-> cache.env]
  /\ loader = [l \in Loader |-> loader[l]] /\ \A l \in Loader : LoaderRow(l)
  /\ mtime \in Nat /\ clock \in Nat /\ cache.mtime \in Int
  /\ \A l \in Loader : loader[l].mtime \in Int /\ loader[l].mtime <= mtime

EnvTyped == EnvTypeOK /\ EnvShape

LEMMA KeysTyped ==
  ASSUME NEW items \in Lists
  PROVE  \A k \in DOMAIN KeysOf(items) : k[1] \in Nat \ {0} /\ k[2] \in Field
<1>1. items \in Seq(Item)
  BY EnvAssumption DEF Item
<1>2. DOMAIN items = 1..Len(items) /\ Len(items) \in Nat
  BY <1>1
<1> QED
  BY <1>2 DEF KeysOf

LEMMA EnvInitTyped == EnvInit => EnvTyped
<1> SUFFICES ASSUME EnvInit PROVE EnvTyped
  OBVIOUS
<1>1. PICK items \in Lists, S \in SUBSET (Scalar \cap ToSet(Titles)) :
        env = [keys |-> KeysOf(items), lines |-> [s \in S |-> [under |-> s, value |-> Unset]]]
  BY DEF EnvInit
<1>2. /\ \A k \in DOMAIN env.keys : k[1] \in Nat \ {0} /\ k[2] \in Field
      /\ \A s \in DOMAIN env.lines : s \in Scalar /\ env.lines[s].under \in ToSet(Titles)
  BY <1>1, KeysTyped
<1>3. /\ mtime = 0 /\ clock = 0 /\ saves = 0
      /\ cache = [mtime |-> Never, env |-> [keys |-> <<>>, lines |-> <<>>]]
      /\ loader = [l \in Loader |-> Waiting]
  BY DEF EnvInit
<1>4. EnvShape
  BY <1>1, <1>3 DEF EnvShape, LoaderRow, Waiting, Never
<1> QED
  BY <1>2, <1>3, <1>4, EnvAssumption DEF EnvTyped, EnvTypeOK, Waiting, Never

(* A step of a load.                                                       *)
LEMMA LoadsTyped ==
  ASSUME EnvTyped, NEW l \in Loader, NEW pc \in {"idle", "read", "time", "values"},
         NEW m \in Int, m <= mtime, NEW e, Loads(l, [pc |-> pc, mtime |-> m, env |-> e]),
         cache' = [mtime |-> cache'.mtime, env |-> cache'.env],
         cache'.mtime \in Int, cache'.mtime <= mtime,
         UNCHANGED <<env, mtime, clock, saved, saves>>
  PROVE  EnvTyped'
<1> DEFINE r == [pc |-> pc, mtime |-> m, env |-> e]
<1>1. loader' = [k \in Loader |-> IF k = l THEN r ELSE loader[k]]
  BY DEF Loads, EnvTyped, EnvShape
<1>2. r = [pc |-> r.pc, mtime |-> r.mtime, env |-> r.env] /\ r.pc = pc /\ r.mtime = m
  OBVIOUS
<1> HIDE DEF r
<1>3. \A k \in Loader : /\ loader'[k].pc \in {"idle", "read", "time", "values"}
                        /\ loader'[k].mtime \in Int /\ loader'[k].mtime <= mtime
                        /\ loader'[k] = [pc |-> loader'[k].pc, mtime |-> loader'[k].mtime,
                                         env |-> loader'[k].env]
  BY <1>1, <1>2 DEF EnvTyped, EnvTypeOK, EnvShape, LoaderRow
<1>4. EnvShape'
  BY <1>1, <1>3 DEF EnvTyped, EnvShape, LoaderRow
<1>5. EnvTypeOK'
  BY <1>3 DEF EnvTyped, EnvTypeOK
<1> QED
  BY <1>4, <1>5 DEF EnvTyped

LEMMA SaveTyped ==
  ASSUME EnvTyped, NEW ks, NEW ls, NEW section, NEW data, NEW c,
         Written([keys |-> ks, lines |-> ls], section, data),
         cache' = [mtime |-> Never, env |-> c], UNCHANGED <<clock, loader>>,
         \A k \in DOMAIN ks : k[1] \in Nat \ {0} /\ k[2] \in Field,
         \A s \in DOMAIN ls : s \in Scalar /\ ls[s].under \in ToSet(Titles)
  PROVE  EnvTyped'
<1>1. /\ env' = [keys |-> ks, lines |-> ls] /\ mtime' = clock
      /\ saves < MaxSaves /\ saves' = saves + 1
  BY DEF Written
<1>2. mtime <= clock /\ mtime \in Nat /\ clock \in Nat
  BY DEF EnvTyped, EnvTypeOK, EnvShape
<1>3. \A l \in Loader : loader'[l].mtime \in Int /\ loader'[l].mtime <= mtime'
  BY <1>1, <1>2 DEF EnvTyped, EnvShape
<1>4. EnvShape'
  BY <1>1, <1>2, <1>3 DEF EnvTyped, EnvShape, LoaderRow, Never
<1>5. EnvTypeOK'
  BY <1>1, <1>2, EnvAssumption DEF EnvTyped, EnvTypeOK, Never
<1> QED
  BY <1>4, <1>5 DEF EnvTyped

(* What a save makes of the keys and of the lines.                         *)
LEMMA PatchedListTyped ==
  ASSUME EnvTyped, NEW items \in Lists, NEW seen
  PROVE  \A k \in DOMAIN PatchedList(env.keys, seen, items) : k[1] \in Nat \ {0} /\ k[2] \in Field
<1>1. DOMAIN PatchedList(env.keys, seen, items) \subseteq DOMAIN env.keys \cup DOMAIN KeysOf(items)
  BY DEF PatchedList
<1> QED
  BY <1>1, KeysTyped DEF EnvTyped, EnvTypeOK

LEMMA TitlesFor ==
  ASSUME NEW section
  PROVE  /\ TitleFor(section) \in ToSet(Titles)
         /\ section \in ToSet(Titles) => TitleFor(section) = section
<1>1. Len(Titles) \in DOMAIN Titles
  BY EnvAssumption
<1> QED
  BY <1>1 DEF TitleFor, ToSet

(* Records of these shapes, updated.                                       *)
LEMMA FileRecords ==
  ASSUME NEW r, NEW k, NEW l, r = [keys |-> k, lines |-> l], NEW x
  PROVE  /\ [r EXCEPT !.keys = x] = [keys |-> x, lines |-> l]
         /\ [r EXCEPT !.lines = x] = [keys |-> k, lines |-> x]
OBVIOUS

LEMMA CacheRecords ==
  ASSUME NEW r, NEW m, NEW e, r = [mtime |-> m, env |-> e], NEW x
  PROVE  Forgotten([r EXCEPT !.env = x]) = [mtime |-> Never, env |-> x]
<1>1. [r EXCEPT !.env = x] = [mtime |-> m, env |-> x]
  OBVIOUS
<1> DEFINE c == [mtime |-> m, env |-> x]
<1>2. [c EXCEPT !.mtime = Never] = [mtime |-> Never, env |-> x]
  OBVIOUS
<1> QED
  BY <1>1, <1>2 DEF Forgotten

(* The steps.                                                              *)
LEMMA LoadSteps ==
  ASSUME EnvTyped, NEW l \in Loader
  PROVE  /\ LoadStat(l) => Loads(l, [pc |-> "read", mtime |-> mtime, env |-> Waiting.env])
         /\ LoadRead(l) => Loads(l, [pc |-> "time", mtime |-> loader[l].mtime, env |-> env])
         /\ LoadTime(l) => /\ Loads(l, [pc |-> "values", mtime |-> loader[l].mtime,
                                        env |-> loader[l].env])
                           /\ cache' = [mtime |-> loader[l].mtime, env |-> cache.env]
         /\ LoadValues(l) => /\ Loads(l, [pc |-> "idle", mtime |-> Never, env |-> Waiting.env])
                             /\ cache' = [mtime |-> cache.mtime, env |-> loader[l].env]
<1>1. /\ LoaderRow(l) /\ cache = [mtime |-> cache.mtime, env |-> cache.env]
      /\ Waiting = [pc |-> "idle", mtime |-> Never, env |-> Waiting.env]
  BY DEF EnvTyped, EnvShape, Waiting
<1>4. [loader[l] EXCEPT !.pc = "values"] =
        [pc |-> "values", mtime |-> loader[l].mtime, env |-> loader[l].env]
  BY <1>1 DEF LoaderRow
<1>5. /\ [cache EXCEPT !.mtime = loader[l].mtime] = [mtime |-> loader[l].mtime, env |-> cache.env]
      /\ [cache EXCEPT !.env = loader[l].env] = [mtime |-> cache.mtime, env |-> loader[l].env]
  BY <1>1
<1>6. LoadStat(l) => Loads(l, [pc |-> "read", mtime |-> mtime, env |-> Waiting.env])
  BY DEF LoadStat
<1>7. LoadRead(l) => Loads(l, [pc |-> "time", mtime |-> loader[l].mtime, env |-> env])
  BY DEF LoadRead
<1>8. LoadTime(l) => /\ Loads(l, [pc |-> "values", mtime |-> loader[l].mtime,
                                  env |-> loader[l].env])
                     /\ cache' = [mtime |-> loader[l].mtime, env |-> cache.env]
  BY <1>4, <1>5 DEF LoadTime
<1>9. LoadValues(l) => /\ Loads(l, [pc |-> "idle", mtime |-> Never, env |-> Waiting.env])
                       /\ cache' = [mtime |-> cache.mtime, env |-> loader[l].env]
  BY <1>1, <1>5 DEF LoadValues
<1> QED
  BY <1>6, <1>7, <1>8, <1>9

LEMMA SaveSteps ==
  ASSUME EnvTyped
  PROVE  /\ \A items \in Lists : SaveList(items) =>
              /\ Written([keys |-> PatchedList(env.keys, Indices(Through.keys), items),
                          lines |-> env.lines], "list", items)
              /\ cache' = [mtime |-> Never, env |-> Through]
         /\ \A section \in Scalar, value \in Value : SaveScalar(section, value) =>
              /\ Written([keys |-> env.keys, lines |-> PatchedLine(env.lines, section, value)],
                         section, value)
              /\ cache' = [mtime |-> Never, env |-> cache.env]
<1>1. /\ env = [keys |-> env.keys, lines |-> env.lines]
      /\ cache = [mtime |-> cache.mtime, env |-> cache.env]
  BY DEF EnvTyped, EnvShape
<1>2. \A x : /\ [env EXCEPT !.keys = x] = [keys |-> x, lines |-> env.lines]
             /\ [env EXCEPT !.lines = x] = [keys |-> env.keys, lines |-> x]
             /\ Forgotten([cache EXCEPT !.env = x]) = [mtime |-> Never, env |-> x]
  BY <1>1, FileRecords, CacheRecords
<1>3. Forgotten(cache) = [mtime |-> Never, env |-> cache.env]
  BY <1>1 DEF Forgotten
<1>4. ASSUME NEW items \in Lists, SaveList(items)
      PROVE  /\ Written([keys |-> PatchedList(env.keys, Indices(Through.keys), items),
                         lines |-> env.lines], "list", items)
             /\ cache' = [mtime |-> Never, env |-> Through]
  <2> DEFINE new == PatchedList(env.keys, Indices(Through.keys), items)
  <2>1. /\ Written([env EXCEPT !.keys = new], "list", items)
        /\ cache' = Forgotten([cache EXCEPT !.env = Through])
    BY <1>4 DEF SaveList
  <2>2. [env EXCEPT !.keys = new] = [keys |-> new, lines |-> env.lines]
    BY <1>2
  <2> HIDE DEF new
  <2>3. Written([keys |-> new, lines |-> env.lines], "list", items)
    BY <2>1, <2>2
  <2> QED
    BY <1>2, <2>1, <2>3 DEF new
<1>5. ASSUME NEW section \in Scalar, NEW value \in Value, SaveScalar(section, value)
      PROVE  /\ Written([keys |-> env.keys, lines |-> PatchedLine(env.lines, section, value)],
                        section, value)
             /\ cache' = [mtime |-> Never, env |-> cache.env]
  <2> DEFINE new == PatchedLine(env.lines, section, value)
  <2>1. Written([env EXCEPT !.lines = new], section, value) /\ cache' = Forgotten(cache)
    BY <1>5 DEF SaveScalar
  <2>2. [env EXCEPT !.lines = new] = [keys |-> env.keys, lines |-> new]
    BY <1>2
  <2> HIDE DEF new
  <2>3. Written([keys |-> env.keys, lines |-> new], section, value)
    BY <2>1, <2>2
  <2> QED
    BY <1>3, <2>1, <2>3 DEF new
<1> QED
  BY <1>4, <1>5

LEMMA EnvStepTyped ==
  ASSUME EnvTyped, EnvNext \/ UNCHANGED envVars
  PROVE  EnvTyped'
<1>1. ASSUME NEW l \in Loader, LoadStat(l) \/ LoadRead(l) \/ LoadTime(l) \/ LoadValues(l)
      PROVE  EnvTyped'
  <2>1. /\ mtime \in Int /\ loader[l].mtime \in Int /\ loader[l].mtime <= mtime
        /\ Never \in Int /\ Never <= mtime
        /\ cache = [mtime |-> cache.mtime, env |-> cache.env]
        /\ cache.mtime \in Int /\ cache.mtime <= mtime
    BY DEF EnvTyped, EnvTypeOK, EnvShape, Never
  <2>2. UNCHANGED <<env, mtime, clock, saved, saves>>
    BY <1>1 DEF LoadStat, LoadRead, LoadTime, LoadValues
  <2>3. CASE LoadStat(l)
    <3>1. cache' = cache
      BY <2>3 DEF LoadStat
    <3>2. Loads(l, [pc |-> "read", mtime |-> mtime, env |-> Waiting.env])
      BY <2>3, LoadSteps
    <3>3. mtime <= mtime /\ cache' = [mtime |-> cache'.mtime, env |-> cache'.env]
      BY <2>1, <3>1
    <3> QED
      BY <2>1, <2>2, <3>1, <3>2, <3>3, LoadsTyped
  <2>4. CASE LoadRead(l)
    <3>1. cache' = cache
      BY <2>4 DEF LoadRead
    <3> QED
      BY <2>1, <2>2, <2>4, <3>1, LoadSteps, LoadsTyped
  <2>5. CASE LoadTime(l)
    <3>1. /\ Loads(l, [pc |-> "values", mtime |-> loader[l].mtime, env |-> loader[l].env])
          /\ cache' = [mtime |-> loader[l].mtime, env |-> cache.env]
      BY <2>5, LoadSteps
    <3>2. cache' = [mtime |-> cache'.mtime, env |-> cache'.env] /\ cache'.mtime = loader[l].mtime
      BY <3>1
    <3> QED
      BY <2>1, <2>2, <3>1, <3>2, LoadsTyped
  <2>6. CASE LoadValues(l)
    <3>1. /\ Loads(l, [pc |-> "idle", mtime |-> Never, env |-> Waiting.env])
          /\ cache' = [mtime |-> cache.mtime, env |-> loader[l].env]
      BY <2>6, LoadSteps
    <3>2. cache' = [mtime |-> cache'.mtime, env |-> cache'.env] /\ cache'.mtime = cache.mtime
      BY <3>1
    <3> QED
      BY <2>1, <2>2, <3>1, <3>2, LoadsTyped
  <2> QED
    BY <1>1, <2>3, <2>4, <2>5, <2>6
<1>2. ASSUME NEW items \in Lists, SaveList(items) PROVE EnvTyped'
  <2>1. UNCHANGED <<clock, loader>>
    BY <1>2 DEF SaveList
  <2>2. \A s \in DOMAIN env.lines : s \in Scalar /\ env.lines[s].under \in ToSet(Titles)
    BY DEF EnvTyped, EnvTypeOK
  <2> QED
    BY <1>2, <2>1, <2>2, SaveSteps, PatchedListTyped, SaveTyped
<1>3. ASSUME NEW section \in Scalar, NEW value \in Value, SaveScalar(section, value)
      PROVE  EnvTyped'
  <2> DEFINE new == PatchedLine(env.lines, section, value)
  <2>0. new = PatchedLine(env.lines, section, value)
    OBVIOUS
  <2>1. UNCHANGED <<clock, loader>>
    BY <1>3 DEF SaveScalar
  <2>2. /\ \A k \in DOMAIN env.keys : k[1] \in Nat \ {0} /\ k[2] \in Field
        /\ \A s \in DOMAIN env.lines : s \in Scalar /\ env.lines[s].under \in ToSet(Titles)
    BY DEF EnvTyped, EnvTypeOK
  <2>3. /\ DOMAIN new = DOMAIN env.lines \cup {section}
        /\ \A s \in DOMAIN env.lines : s # section => new[s] = env.lines[s]
        /\ new[section].under =
             IF section \in DOMAIN env.lines THEN env.lines[section].under ELSE TitleFor(section)
    <3> DEFINE lines == env.lines
    <3>1. new = PatchedLine(lines, section, value)
      OBVIOUS
    <3> HIDE DEF new, lines
    <3>2. /\ DOMAIN new = DOMAIN lines \cup {section}
          /\ \A s \in DOMAIN lines : s # section => new[s] = lines[s]
          /\ new[section].under =
               IF section \in DOMAIN lines THEN lines[section].under ELSE TitleFor(section)
      BY <3>1 DEF PatchedLine
    <3> QED
      BY <3>2 DEF lines
  <2>4. Written([keys |-> env.keys, lines |-> new], section, value)
        /\ cache' = [mtime |-> Never, env |-> cache.env]
    BY <1>3, SaveSteps
  <2> HIDE DEF new
  <2>5. \A s \in DOMAIN new : s \in Scalar /\ new[s].under \in ToSet(Titles)
    BY <2>2, <2>3, TitlesFor
  <2> QED
    BY <2>1, <2>2, <2>4, <2>5, SaveTyped
<1>4. CASE Tick
  <2>1. clock < MaxTicks /\ clock' = clock + 1
        /\ UNCHANGED <<env, mtime, cache, loader, saved, saves>>
    BY <1>4 DEF Tick
  <2>2. EnvShape'
    BY <2>1 DEF EnvTyped, EnvShape, LoaderRow
  <2>3. EnvTypeOK'
    BY <2>1, EnvAssumption DEF EnvTyped, EnvShape, EnvTypeOK
  <2> QED
    BY <2>2, <2>3 DEF EnvTyped
<1>5. CASE UNCHANGED envVars
  BY <1>5 DEF envVars, EnvTyped, EnvTypeOK, EnvShape, LoaderRow
<1> QED
  BY <1>1, <1>2, <1>3, <1>4, <1>5 DEF EnvNext

(* No save overtakes a load and the file has every title: without either,  *)
(* what is saved may not be read.                                          *)
WholeFile == ~Slow /\ Scalar \subseteq ToSet(Titles)

(* The file holds what was saved, under the titles it is looked for, and   *)
(* so does what loads have read and the cache, but while one is between    *)
(* its time and its values.                                                *)
FileHolds ==
  /\ DOMAIN saved = Scalar \cup {"list"}
  /\ saved["list"] \in Seq(Item) /\ env.keys = KeysOf(saved["list"])
  /\ \A s \in DOMAIN env.lines : env.lines[s].under = s
  /\ \A s \in Scalar : ScalarOf(env, s) = saved[s]
CacheHolds ==
  /\ \A l \in Loader : loader[l].pc \in {"time", "values"} => loader[l].env = env
  /\ cache.mtime = mtime => cache.env = env \/ \E l \in Loader : loader[l].pc = "values"

EnvInv == EnvTyped /\ FileHolds /\ CacheHolds

LEMMA EnvInitInv == EnvInit => EnvInv
<1> SUFFICES ASSUME EnvInit PROVE EnvInv
  OBVIOUS
<1>1. EnvTyped
  BY EnvInitTyped
<1>2. PICK items \in Lists, S \in SUBSET (Scalar \cap ToSet(Titles)) :
        /\ env = [keys |-> KeysOf(items), lines |-> [s \in S |-> [under |-> s, value |-> Unset]]]
        /\ saved = [s \in Scalar \cup {"list"} |-> IF s = "list" THEN items ELSE Unset]
  BY DEF EnvInit
<1>3. items \in Seq(Item) /\ "list" \notin Scalar
  BY EnvAssumption DEF Item
<1>4. saved["list"] = items /\ \A s \in Scalar : saved[s] = Unset
  BY <1>2, <1>3
<1>5. \A s \in Scalar : ScalarOf(env, s) = Unset
  BY <1>2 DEF ScalarOf
<1>6. FileHolds
  BY <1>2, <1>3, <1>4, <1>5 DEF FileHolds
<1>7. CacheHolds
  <2>1. /\ mtime = 0 /\ cache = [mtime |-> Never, env |-> [keys |-> <<>>, lines |-> <<>>]]
        /\ loader = [l \in Loader |-> Waiting]
    BY DEF EnvInit
  <2> QED
    BY <2>1 DEF CacheHolds, Waiting, Never
<1> QED
  BY <1>1, <1>6, <1>7 DEF EnvInv

LEMMA LoadsHold ==
  ASSUME EnvInv, NEW l \in Loader, LoadStat(l) \/ LoadRead(l) \/ LoadTime(l) \/ LoadValues(l)
  PROVE  FileHolds' /\ CacheHolds'
<1>1. UNCHANGED <<env, mtime, clock, saved, saves>>
  BY DEF LoadStat, LoadRead, LoadTime, LoadValues
<1>2. FileHolds'
  BY <1>1 DEF EnvInv, FileHolds, ScalarOf
<1>3. EnvTyped /\ CacheHolds
  BY DEF EnvInv
<1>4. ASSUME NEW r, Loads(l, r)
      PROVE  loader' = [k \in Loader |-> IF k = l THEN r ELSE loader[k]]
  BY <1>3, <1>4 DEF Loads, EnvTyped, EnvShape
<1>5. CASE LoadStat(l)
  <2>1. Loads(l, [pc |-> "read", mtime |-> mtime, env |-> Waiting.env]) /\ cache' = cache
        /\ loader[l].pc = "idle"
    BY <1>3, <1>5, LoadSteps DEF LoadStat
  <2>2. loader' = [k \in Loader |-> IF k = l THEN [pc |-> "read", mtime |-> mtime, env |-> Waiting.env]
                                    ELSE loader[k]]
    BY <1>4, <2>1
  <2> QED
    BY <1>1, <1>2, <1>3, <2>1, <2>2 DEF CacheHolds
<1>6. CASE LoadRead(l)
  <2>1. Loads(l, [pc |-> "time", mtime |-> loader[l].mtime, env |-> env]) /\ cache' = cache
        /\ loader[l].pc = "read"
    BY <1>3, <1>6, LoadSteps DEF LoadRead
  <2>2. loader' = [k \in Loader |-> IF k = l THEN [pc |-> "time", mtime |-> loader[l].mtime, env |-> env]
                                    ELSE loader[k]]
    BY <1>4, <2>1
  <2> QED
    BY <1>1, <1>2, <1>3, <2>1, <2>2 DEF CacheHolds
<1>7. CASE LoadTime(l)
  <2>1. Loads(l, [pc |-> "values", mtime |-> loader[l].mtime, env |-> loader[l].env])
        /\ loader[l].pc = "time"
    BY <1>3, <1>7, LoadSteps DEF LoadTime
  <2>2. loader' = [k \in Loader |-> IF k = l THEN [pc |-> "values", mtime |-> loader[l].mtime,
                                                   env |-> loader[l].env]
                                    ELSE loader[k]]
    BY <1>4, <2>1
  <2> QED
    BY <1>1, <1>2, <1>3, <2>1, <2>2 DEF CacheHolds
<1>8. CASE LoadValues(l)
  <2>1. Loads(l, [pc |-> "idle", mtime |-> Never, env |-> Waiting.env])
        /\ cache' = [mtime |-> cache.mtime, env |-> loader[l].env]
        /\ loader[l].pc = "values"
    BY <1>3, <1>8, LoadSteps DEF LoadValues
  <2>2. loader' = [k \in Loader |-> IF k = l THEN [pc |-> "idle", mtime |-> Never, env |-> Waiting.env]
                                    ELSE loader[k]]
    BY <1>4, <2>1
  <2>3. cache'.env = env
    BY <1>3, <2>1 DEF CacheHolds
  <2> QED
    BY <1>1, <1>2, <1>3, <2>2, <2>3 DEF CacheHolds
<1> QED
  BY <1>5, <1>6, <1>7, <1>8

LEMMA SavesHold ==
  ASSUME EnvInv, WholeFile, NEW section \in Scalar \cup {"list"}, NEW ks, NEW ls, NEW data, NEW c,
         Written([keys |-> ks, lines |-> ls], section, data),
         cache' = [mtime |-> Never, env |-> c], UNCHANGED <<clock, loader>>
  PROVE  CacheHolds' /\ DOMAIN saved' = Scalar \cup {"list"}
         /\ saved'[section] = data /\ \A s \in Scalar \cup {"list"} : s # section => saved'[s] = saved[s]
<1>1. /\ env' = [keys |-> ks, lines |-> ls] /\ mtime' = clock /\ Settled
      /\ saved' = [saved EXCEPT ![section] = data]
  BY DEF Written, WholeFile
<1>2. clock \in Nat /\ DOMAIN saved = Scalar \cup {"list"}
  BY DEF EnvInv, EnvTyped, EnvShape, FileHolds
<1>3. \A l \in Loader : loader'[l].pc = "idle"
  BY <1>1 DEF Settled
<1>4. CacheHolds'
  BY <1>1, <1>2, <1>3 DEF CacheHolds, Never
<1> QED
  BY <1>1, <1>2, <1>4

LEMMA EnvStepInv ==
  ASSUME EnvInv, WholeFile, EnvNext \/ UNCHANGED envVars
  PROVE  EnvInv'
<1>1. EnvTyped /\ FileHolds /\ CacheHolds
  BY DEF EnvInv
<1>2. EnvTyped'
  BY <1>1, EnvStepTyped
<1>3. CASE \E l \in Loader : LoadStat(l) \/ LoadRead(l) \/ LoadTime(l) \/ LoadValues(l)
  BY <1>2, <1>3, LoadsHold DEF EnvInv
<1>4. ASSUME NEW items \in Lists, SaveList(items) PROVE EnvInv'
  <2> DEFINE new == PatchedList(env.keys, Indices(Through.keys), items)
             old == saved["list"]
  <2>1. /\ Written([keys |-> new, lines |-> env.lines], "list", items)
        /\ cache' = [mtime |-> Never, env |-> Through]
    BY <1>1, <1>4, SaveSteps
  <2>2. UNCHANGED <<clock, loader>>
    BY <1>4 DEF SaveList
  <2>3. Settled
    BY <2>1 DEF Written, WholeFile
  <2>4. Through = env
    BY <1>1, <2>3 DEF Through, Settled, CacheHolds
  <2>5. items \in Seq(Item) /\ old \in Seq(Item) /\ env.keys = KeysOf(old)
    BY <1>1, EnvAssumption DEF Item, FileHolds
  <2>6. new = KeysOf(items)
    <3> HIDE DEF old
    <3>1. new = PatchedList(KeysOf(old), Indices(KeysOf(old)), items)
      BY <2>4, <2>5
    <3> HIDE DEF new
    <3> QED
      BY <2>5, <3>1, ListPatched
  <2> HIDE DEF new
  <2>7. /\ CacheHolds' /\ DOMAIN saved' = Scalar \cup {"list"} /\ saved'["list"] = items
        /\ \A s \in Scalar : saved'[s] = saved[s]
    <3>1. "list" \in Scalar \cup {"list"} /\ "list" \notin Scalar
      BY EnvAssumption
    <3> QED
      BY <2>1, <2>2, <3>1, SavesHold
  <2>8. env' = [keys |-> new, lines |-> env.lines]
    BY <2>1 DEF Written
  <2>9. FileHolds'
    BY <1>1, <2>5, <2>6, <2>7, <2>8 DEF FileHolds, ScalarOf
  <2> QED
    BY <1>2, <2>7, <2>9 DEF EnvInv
<1>5. ASSUME NEW section \in Scalar, NEW value \in Value, SaveScalar(section, value)
      PROVE  EnvInv'
  <2> DEFINE lines == env.lines
             new == PatchedLine(lines, section, value)
  <2>1. /\ Written([keys |-> env.keys, lines |-> new], section, value)
        /\ cache' = [mtime |-> Never, env |-> cache.env]
    BY <1>1, <1>5, SaveSteps
  <2>2. UNCHANGED <<clock, loader>>
    BY <1>5 DEF SaveScalar
  <2>3. TitleFor(section) = section
    BY TitlesFor DEF WholeFile
  <2>4. \A s \in DOMAIN lines : lines[s].under = s
    BY <1>1 DEF FileHolds
  <2>5. /\ DOMAIN new = DOMAIN lines \cup {section}
        /\ \A s \in DOMAIN lines : s # section => new[s] = lines[s]
        /\ new[section].value = value /\ new[section].under = section
    <3> HIDE DEF lines
    <3> QED
      BY <2>3, <2>4 DEF PatchedLine
  <2> HIDE DEF new
  <2>6. /\ CacheHolds' /\ DOMAIN saved' = Scalar \cup {"list"} /\ saved'[section] = value
        /\ \A s \in Scalar \cup {"list"} : s # section => saved'[s] = saved[s]
    BY <2>1, <2>2, SavesHold
  <2>7. env' = [keys |-> env.keys, lines |-> new]
    BY <2>1 DEF Written
  <2>8. \A s \in DOMAIN new : new[s].under = s
    BY <2>4, <2>5
  <2>9. ASSUME NEW s \in Scalar PROVE ScalarOf(env', s) = saved'[s]
    <3>1. ScalarOf(env, s) = saved[s]
      BY <1>1 DEF FileHolds
    <3>2. CASE s = section
      BY <2>5, <2>6, <2>7, <3>2 DEF ScalarOf
    <3>3. CASE s # section
      BY <2>4, <2>5, <2>6, <2>7, <3>1, <3>3 DEF ScalarOf
    <3> QED
      BY <3>2, <3>3
  <2>10. saved'["list"] = saved["list"]
    BY <2>6, EnvAssumption
  <2>11. FileHolds'
    BY <1>1, <2>6, <2>7, <2>8, <2>9, <2>10 DEF FileHolds
  <2> QED
    BY <1>2, <2>6, <2>11 DEF EnvInv
<1>6. CASE Tick \/ UNCHANGED envVars
  <2>1. UNCHANGED <<env, mtime, cache, loader, saved>>
    BY <1>6 DEF Tick, envVars
  <2> QED
    BY <1>1, <1>2, <2>1 DEF EnvInv, FileHolds, CacheHolds, ScalarOf
<1> QED
  BY <1>3, <1>4, <1>5, <1>6 DEF EnvNext

LEMMA EnvInvReads == EnvInv => SavedIsRead
<1> SUFFICES ASSUME EnvInv, Settled
             PROVE  /\ GroupIndexed(Through.keys) = saved["list"]
                    /\ \A section \in Scalar : ScalarOf(Through, section) = saved[section]
  BY DEF SavedIsRead
<1>1. Through = env
  BY DEF Through, Settled, EnvInv, CacheHolds
<1> QED
  BY <1>1, ListGrouped DEF EnvInv, FileHolds

-----------------------------------------------------------------------------
(* plan.json: whatever is lost, the file stays a plan.                     *)

(* What a thread holds: a plan, and, between its row and its save, the task*)
(* it is about; when it counts rows it read before, those rows.            *)
RowsOK(rs) ==
  /\ IsFiniteSet(DOMAIN rs) /\ DOMAIN rs \subseteq Task
  /\ \A t \in DOMAIN rs : rs[t] \in TaskState

WriterOK(w) ==
  /\ w = [pc |-> w.pc, job |-> w.job, task |-> w.task, state |-> w.state,
          plan |-> w.plan, rows |-> w.rows]
  /\ w.pc \in {"idle", "load", "save", "reading"}
  /\ w.plan \in Plan
  /\ w.pc = "save" => w.job \in {"enrol", "sync", "intake"}
  /\ w.pc = "load" => w.job \in {"enrol", "sync"}
  /\ w.pc \in {"load", "save"} /\ w.job \in {"enrol", "sync"} => w.task \in Task /\ w.state \in TaskState
  /\ w.pc = "reading" /\ w.job = "progress" => RowsOK(w.rows)

PlanInv ==
  /\ PlanTypeOK /\ RowsOK(rows)
  /\ writers = [t \in Writer |-> writers[t]] /\ \A t \in Writer : WriterOK(writers[t])

LEMMA PlanIs ==
  Plan = {p \in Seq(StageRow) : /\ \A i, j \in DOMAIN p : p[i].name = p[j].name => i = j
                              /\ \A i \in DOMAIN p : ListsOnce(p[i])}
BY DEF Plan

LEMMA EmptyIsPlan == EmptyPlan \in Plan
<1>1. <<>> \in Seq(StageRow) /\ DOMAIN (<<>>) = {}
  OBVIOUS
<1> QED
  BY <1>1, PlanIs DEF EmptyPlan

(* Threads at rest, and at the steps of their jobs.                        *)
LEMMA ThreadsAtWork ==
  /\ WriterOK(Resting)
  /\ WriterOK(Doing("save", "intake", "none", "none"))
  /\ \A task \in Task : WriterOK(Doing("load", "enrol", task, "DRAFT"))
  /\ \A task \in Task, state \in TaskState : WriterOK(Doing("load", "sync", task, state))
  /\ \A rs : RowsOK(rs) => WriterOK(Counting("progress", EmptyPlan, rs))
  /\ \A p \in Plan : WriterOK(Counting("snapshot", p, <<>>))
<1>1. WriterOK(Resting) /\ WriterOK(Doing("save", "intake", "none", "none"))
  BY EmptyIsPlan DEF WriterOK, Resting, Doing
<1>2. ASSUME NEW task \in Task PROVE WriterOK(Doing("load", "enrol", task, "DRAFT"))
  BY EmptyIsPlan DEF WriterOK, Doing, TaskState
<1>3. ASSUME NEW task \in Task, NEW state \in TaskState
      PROVE  WriterOK(Doing("load", "sync", task, state))
  BY EmptyIsPlan DEF WriterOK, Doing
<1>4. ASSUME NEW rs, RowsOK(rs) PROVE WriterOK(Counting("progress", EmptyPlan, rs))
  BY <1>4, EmptyIsPlan DEF WriterOK, Counting
<1>5. ASSUME NEW p \in Plan PROVE WriterOK(Counting("snapshot", p, <<>>))
  BY DEF WriterOK, Counting
<1> QED
  BY <1>1, <1>2, <1>3, <1>4, <1>5

(* What a save makes of a plan.                                            *)
LEMMA MirroredStage ==
  ASSUME NEW s \in StageRow, NEW task, NEW state \in TaskState
  PROVE  /\ Mirrored(s, task, state) \in StageRow /\ Mirrored(s, task, state).name = s.name
         /\ ListsOnce(s) => ListsOnce(Mirrored(s, task, state))
<1> DEFINE new == [i \in DOMAIN s.tasks |-> IF s.tasks[i].id = task
                                            THEN [s.tasks[i] EXCEPT !.state = state] ELSE s.tasks[i]]
<1>1. s.tasks \in Seq(EntryRow) /\ Len(s.tasks) \in Nat /\ DOMAIN s.tasks = 1..Len(s.tasks)
  BY DEF StageRow
<1>2. \A e \in EntryRow : [e EXCEPT !.state = state] \in EntryRow
  BY Zenon DEF EntryRow
<1>3. \A i \in 1..Len(s.tasks) : s.tasks[i] \in EntryRow
  BY <1>1
<1>4. new \in [1..Len(s.tasks) -> EntryRow]
  BY <1>1, <1>2, <1>3
<1>5. new \in Seq(EntryRow)
  BY <1>1, <1>4
<1>6. Mirrored(s, task, state) = [s EXCEPT !.tasks = new]
  BY DEF Mirrored
<1>7. DOMAIN new = DOMAIN s.tasks /\ \A i \in DOMAIN s.tasks : new[i].id = s.tasks[i].id
  <2>1. \A e \in EntryRow : [e EXCEPT !.state = state].id = e.id
    BY Zenon DEF EntryRow
  <2> QED
    BY <1>1, <1>3, <2>1
<1> HIDE DEF new
<1> DEFINE t == [s EXCEPT !.tasks = new]
<1>8. t \in StageRow /\ t.name = s.name /\ t.tasks = new
  BY <1>5, Zenon DEF StageRow
<1> HIDE DEF t
<1>9. ListsOnce(s) => ListsOnce(t)
  BY <1>7, <1>8 DEF ListsOnce
<1> QED
  BY <1>6, <1>8, <1>9 DEF t

LEMMA AppendedStage ==
  ASSUME NEW s \in StageRow, NEW task \in Task, NEW state \in TaskState,
         task \notin Ids(<<s>>), s.name = StageOf[task], ListsOnce(s)
  PROVE  /\ [s EXCEPT !.tasks = Append(s.tasks, Entry(task, state))] \in StageRow
         /\ [s EXCEPT !.tasks = Append(s.tasks, Entry(task, state))].name = s.name
         /\ ListsOnce([s EXCEPT !.tasks = Append(s.tasks, Entry(task, state))])
<1> DEFINE new == Append(s.tasks, Entry(task, state))
<1>1. Entry(task, state) \in EntryRow
  BY DEF Entry, EntryRow, Absent
<1>2. s.tasks \in Seq(EntryRow)
  BY DEF StageRow
<1>3. /\ new \in Seq(EntryRow) /\ Len(s.tasks) \in Nat
      /\ DOMAIN s.tasks = 1..Len(s.tasks) /\ DOMAIN new = 1..(Len(s.tasks) + 1)
      /\ \A k \in 1..Len(s.tasks) : new[k] = s.tasks[k]
      /\ new[Len(s.tasks) + 1] = Entry(task, state)
  BY <1>1, <1>2, AppendProperties
<1>4. \A k \in DOMAIN s.tasks : s.tasks[k].id # task
  BY DEF Ids, ToSet
<1> DEFINE t == [s EXCEPT !.tasks = new]
<1> HIDE DEF new
<1>5. t \in StageRow /\ t.name = s.name /\ t.tasks = new
  BY <1>3, Zenon DEF StageRow
<1> HIDE DEF t
<1>6. Entry(task, state).id = task
  BY DEF Entry
<1>7. \A k \in DOMAIN new : k \in DOMAIN s.tasks \/ k = Len(s.tasks) + 1
  BY <1>3
<1>8. \A k \in DOMAIN new : t.name = StageOf[new[k].id]
  BY <1>3, <1>5, <1>6, <1>7 DEF ListsOnce
<1>9. \A k, l \in DOMAIN new : new[k].id = new[l].id => k = l
  BY <1>3, <1>4, <1>6, <1>7 DEF ListsOnce
<1>10. ListsOnce(t)
  BY <1>5, <1>8, <1>9 DEF ListsOnce
<1> QED
  BY <1>5, <1>10 DEF new, t

(* Stages changed in place, each keeping its name.                         *)
LEMMA PlanInPlace ==
  ASSUME NEW p \in Plan, NEW q, q = [i \in DOMAIN p |-> q[i]],
         \A i \in DOMAIN p : q[i] \in StageRow /\ q[i].name = p[i].name /\ ListsOnce(q[i])
  PROVE  q \in Plan
<1>1. /\ p \in Seq(StageRow) /\ Len(p) \in Nat /\ DOMAIN p = 1..Len(p)
      /\ \A i, j \in DOMAIN p : p[i].name = p[j].name => i = j
  BY PlanIs
<1>2. q \in [1..Len(p) -> StageRow] /\ DOMAIN q = DOMAIN p
  BY <1>1
<1>3. q \in Seq(StageRow)
  BY <1>1, <1>2
<1> QED
  BY <1>1, <1>2, <1>3, PlanIs

LEMMA NewStage ==
  ASSUME NEW p \in Plan, NEW name \in STRING, ~\E s \in ToSet(p) : s.name = name
  PROVE  Append(p, Stage(name)) \in Plan
<1>1. Stage(name) \in StageRow /\ Stage(name).name = name /\ ListsOnce(Stage(name))
  <2>1. <<>> \in Seq(EntryRow) /\ DOMAIN (<<>>) = {}
    OBVIOUS
  <2>2. Stage(name) \in StageRow /\ Stage(name).name = name /\ Stage(name).tasks = <<>>
    BY <2>1 DEF Stage, StageRow, Absent
  <2> QED
    BY <2>1, <2>2 DEF ListsOnce
<1>2. /\ p \in Seq(StageRow) /\ Len(p) \in Nat /\ DOMAIN p = 1..Len(p)
      /\ \A i, j \in DOMAIN p : p[i].name = p[j].name => i = j
      /\ \A i \in DOMAIN p : ListsOnce(p[i])
  BY PlanIs
<1>3. \A i \in 1..Len(p) : p[i].name # name
  BY <1>2 DEF ToSet
<1> DEFINE q == Append(p, Stage(name))
<1>4. /\ q \in Seq(StageRow) /\ DOMAIN q = 1..(Len(p) + 1)
      /\ \A i \in 1..Len(p) : q[i] = p[i]
      /\ q[Len(p) + 1] = Stage(name)
  BY <1>1, <1>2, AppendProperties
<1> HIDE DEF q
<1>5. \A i, j \in DOMAIN q : q[i].name = q[j].name => i = j
  <2> SUFFICES ASSUME NEW i \in 1..(Len(p) + 1), NEW j \in 1..(Len(p) + 1), q[i].name = q[j].name
               PROVE  i = j
    BY <1>4
  <2>1. /\ i \in 1..Len(p) \/ i = Len(p) + 1
        /\ j \in 1..Len(p) \/ j = Len(p) + 1
    BY <1>2
  <2> QED
    BY <1>1, <1>2, <1>3, <1>4, <2>1
<1>6. \A i \in DOMAIN q : ListsOnce(q[i])
  <2>1. \A i \in DOMAIN q : i \in 1..Len(p) \/ i = Len(p) + 1
    BY <1>2, <1>4
  <2> QED
    BY <1>1, <1>2, <1>4, <2>1
<1> QED
  BY <1>4, <1>5, <1>6, PlanIs DEF q

LEMMA EnrolledIsPlan ==
  ASSUME NEW p \in Plan, NEW name \in STRING, NEW task \in Task, NEW state \in TaskState,
         name = StageOf[task]
  PROVE  Enrolled(p, name, task, state) \in Plan
<1> DEFINE known == \E s \in ToSet(p) : s.name = name
           all == IF known THEN p ELSE Append(p, Stage(name))
           q == Enrolled(p, name, task, state)
<1>1. all \in Plan
  BY NewStage
<1>2. q = [i \in DOMAIN all |->
             IF all[i].name # name THEN all[i]
             ELSE IF task \in Ids(<<all[i]>>) THEN Mirrored(all[i], task, state)
             ELSE [all[i] EXCEPT !.tasks = Append(all[i].tasks, Entry(task, state))]]
  BY DEF Enrolled
<1> HIDE DEF all, q
<1>3. \A i \in DOMAIN all : all[i] \in StageRow /\ ListsOnce(all[i])
  BY <1>1, PlanIs
<1>4. ASSUME NEW i \in DOMAIN all
      PROVE  q[i] \in StageRow /\ q[i].name = all[i].name /\ ListsOnce(q[i])
  <2>1. all[i] \in StageRow /\ ListsOnce(all[i])
    BY <1>3
  <2>2. CASE all[i].name # name
    BY <1>2, <2>1, <2>2
  <2>3. CASE all[i].name = name /\ task \in Ids(<<all[i]>>)
    <3>1. q[i] = Mirrored(all[i], task, state)
      BY <1>2, <2>3
    <3> QED
      BY <2>1, <3>1, MirroredStage
  <2>4. CASE all[i].name = name /\ task \notin Ids(<<all[i]>>)
    <3>1. q[i] = [all[i] EXCEPT !.tasks = Append(all[i].tasks, Entry(task, state))]
      BY <1>2, <2>4
    <3> DEFINE s == all[i]
    <3>2. s \in StageRow /\ ListsOnce(s) /\ task \notin Ids(<<s>>) /\ s.name = StageOf[task]
      BY <2>1, <2>4
    <3> HIDE DEF s
    <3>3. /\ [s EXCEPT !.tasks = Append(s.tasks, Entry(task, state))] \in StageRow
          /\ [s EXCEPT !.tasks = Append(s.tasks, Entry(task, state))].name = s.name
          /\ ListsOnce([s EXCEPT !.tasks = Append(s.tasks, Entry(task, state))])
      BY <3>2, AppendedStage
    <3> QED
      BY <3>1, <3>3 DEF s
  <2> QED
    BY <2>2, <2>3, <2>4
<1>5. q = [i \in DOMAIN all |-> q[i]]
  BY <1>2
<1> QED
  BY <1>1, <1>4, <1>5, PlanInPlace DEF q

LEMMA SyncedIsPlan ==
  ASSUME NEW p \in Plan, NEW task \in Task, NEW state \in TaskState
  PROVE  [i \in DOMAIN p |-> Mirrored(p[i], task, state)] \in Plan
<1> DEFINE q == [i \in DOMAIN p |-> Mirrored(p[i], task, state)]
<1>1. \A i \in DOMAIN p : p[i] \in StageRow /\ ListsOnce(p[i])
  BY PlanIs
<1>2. \A i \in DOMAIN p : q[i] \in StageRow /\ q[i].name = p[i].name /\ ListsOnce(q[i])
  BY <1>1, MirroredStage
<1>3. q = [i \in DOMAIN p |-> q[i]]
  OBVIOUS
<1> HIDE DEF q
<1> QED
  BY <1>2, <1>3, PlanInPlace DEF q

(* The steps.                                                              *)
LEMMA PlanInitInv == PlanInit => PlanInv
<1> SUFFICES ASSUME PlanInit PROVE PlanInv
  OBVIOUS
<1>1. rows = <<>> /\ plan \in Seeds /\ writers = [t \in Writer |-> Resting] /\ faults = 0
  BY DEF PlanInit
<1>2. DOMAIN rows = {} /\ plan \in Plan
  BY <1>1, PlanAssumption
<1>3. \A t \in Writer : WriterOK(writers[t])
  BY <1>1, ThreadsAtWork
<1>4. PlanTypeOK
  BY <1>1, <1>2, <1>3, PlanAssumption DEF PlanTypeOK, WriterOK
<1>5. RowsOK(rows)
  BY <1>2, FS_EmptySet DEF RowsOK
<1> QED
  BY <1>1, <1>3, <1>4, <1>5 DEF PlanInv

(* A thread goes on; rows, file and faults stay well formed.               *)
LEMMA ThreadGoes ==
  ASSUME PlanInv, NEW t \in Writer, NEW w, Goes(t, w), WriterOK(w),
         RowsOK(rows'), plan' \in Plan, faults' \in 0..MaxFaults
  PROVE  PlanInv'
<1>1. writers' = [u \in Writer |-> IF u = t THEN w ELSE writers[u]]
  BY DEF PlanInv, Goes
<1>2. \A u \in Writer : WriterOK(writers'[u])
  BY <1>1 DEF PlanInv
<1>3. PlanTypeOK'
  BY <1>2 DEF PlanTypeOK, RowsOK, WriterOK
<1> QED
  BY <1>1, <1>2, <1>3 DEF PlanInv

LEMMA PlanStepInv ==
  ASSUME PlanInv, PlanNext \/ UNCHANGED planVars
  PROVE  PlanInv'
<1>1. /\ RowsOK(rows) /\ plan \in Plan /\ faults \in 0..MaxFaults
      /\ \A t \in Writer : WriterOK(writers[t])
  BY DEF PlanInv, PlanTypeOK, RowsOK
<1>2. Reader \subseteq Writer /\ MaxFaults \in Nat
  BY PlanAssumption
<1>3. ASSUME NEW t \in Writer, IntakeCheck(t) PROVE PlanInv'
  <2>1. Goes(t, Doing("save", "intake", "none", "none")) /\ UNCHANGED <<rows, plan, faults>>
    BY <1>3 DEF IntakeCheck
  <2> QED
    BY <1>1, <2>1, ThreadsAtWork, ThreadGoes
<1>4. ASSUME NEW p, Read(p), p \in {plan, EmptyPlan}
      PROVE  p \in Plan /\ faults' \in 0..MaxFaults
  BY <1>1, <1>2, <1>4, EmptyIsPlan DEF Read
<1>5. ASSUME NEW t \in Writer, LoadPlan(t) PROVE PlanInv'
  <2> DEFINE v == writers[t]
  <2>1. PICK p \in {plan, EmptyPlan} : Read(p) /\ Goes(t, [v EXCEPT !.pc = "save", !.plan = p])
    BY <1>5 DEF LoadPlan
  <2>2. v.pc = "load" /\ UNCHANGED <<rows, plan>>
    BY <1>5 DEF LoadPlan
  <2>3. p \in Plan /\ faults' \in 0..MaxFaults
    BY <1>4, <2>1
  <2>4. WriterOK(v)
    BY <1>1
  <2> DEFINE w == [pc |-> "save", job |-> v.job, task |-> v.task, state |-> v.state,
                   plan |-> p, rows |-> v.rows]
  <2>5. [v EXCEPT !.pc = "save", !.plan = p] = w
    <3> DEFINE R == [pc : {v.pc, "save"}, job : {v.job}, task : {v.task}, state : {v.state},
                     plan : {v.plan, p}, rows : {v.rows}]
               u == [v EXCEPT !.pc = "save", !.plan = p]
    <3>1. v = [pc |-> v.pc, job |-> v.job, task |-> v.task, state |-> v.state,
               plan |-> v.plan, rows |-> v.rows]
      BY <2>4 DEF WriterOK
    <3> HIDE DEF v
    <3>2. v \in R
      BY <3>1
    <3>3. u \in R /\ u.pc = "save" /\ u.plan = p
      BY <3>2, Zenon
    <3> HIDE DEF u
    <3>4. u = w
      BY <3>3
    <3> QED
      BY <3>4 DEF u
  <2>6. WriterOK(w)
    BY <2>2, <2>3, <2>4 DEF WriterOK
  <2>7. Goes(t, w)
    BY <2>1, <2>5
  <2> HIDE DEF w
  <2> QED
    BY <1>1, <2>2, <2>3, <2>6, <2>7, ThreadGoes
<1>6. ASSUME NEW t \in Writer, SavePlan(t) PROVE PlanInv'
  <2> DEFINE w == writers[t]
  <2>1. /\ w.pc = "save" /\ Goes(t, Resting) /\ UNCHANGED <<rows, faults>>
        /\ plan' = CASE w.job = "enrol" -> Enrolled(w.plan, StageOf[w.task], w.task, w.state)
                     [] w.job = "sync" -> IF w.task \in Ids(w.plan)
                                          THEN [i \in DOMAIN w.plan |-> Mirrored(w.plan[i], w.task, w.state)]
                                          ELSE plan
                     [] w.job = "intake" -> EmptyPlan
    BY <1>6 DEF SavePlan
  <2>2. WriterOK(w)
    BY <1>1
  <2> HIDE DEF w
  <2>3. CASE w.job = "enrol"
    <3>1. plan' = Enrolled(w.plan, StageOf[w.task], w.task, w.state)
      BY <2>1, <2>3
    <3>2. w.plan \in Plan /\ w.task \in Task /\ w.state \in TaskState /\ StageOf[w.task] \in STRING
      BY <2>1, <2>2, <2>3, PlanAssumption DEF WriterOK
    <3>3. plan' \in Plan
      BY <3>1, <3>2, EnrolledIsPlan
    <3> QED
      BY <1>1, <2>1, <3>3, ThreadsAtWork, ThreadGoes
  <2>4. CASE w.job = "sync"
    <3>1. plan' = [i \in DOMAIN w.plan |-> Mirrored(w.plan[i], w.task, w.state)] \/ plan' = plan
      BY <2>1, <2>4
    <3>2. w.plan \in Plan /\ w.task \in Task /\ w.state \in TaskState
      BY <2>1, <2>2, <2>4 DEF WriterOK
    <3>3. plan' \in Plan
      BY <1>1, <3>1, <3>2, SyncedIsPlan
    <3> QED
      BY <1>1, <2>1, <3>3, ThreadsAtWork, ThreadGoes
  <2>5. CASE w.job = "intake"
    <3>1. plan' = EmptyPlan
      BY <2>1, <2>5
    <3> QED
      BY <1>1, <2>1, <3>1, EmptyIsPlan, ThreadsAtWork, ThreadGoes
  <2> QED
    BY <2>1, <2>2, <2>3, <2>4, <2>5 DEF WriterOK
<1>7. ASSUME NEW t \in Writer, NEW task \in Task, CreateTask(t, task) PROVE PlanInv'
  <2>1. /\ rows' = [x \in DOMAIN rows \cup {task} |-> IF x = task THEN "DRAFT" ELSE rows[x]]
        /\ Goes(t, Doing("load", "enrol", task, "DRAFT")) /\ UNCHANGED <<plan, faults>>
    BY <1>7 DEF CreateTask
  <2>2. RowsOK(rows')
    <3>1. DOMAIN rows' = DOMAIN rows \cup {task} /\ IsFiniteSet(DOMAIN rows \cup {task})
      BY <1>1, <2>1, FS_AddElement DEF RowsOK
    <3>2. \A x \in DOMAIN rows' : rows'[x] \in TaskState
      BY <1>1, <2>1 DEF RowsOK, TaskState
    <3> QED
      BY <1>1, <3>1, <3>2 DEF RowsOK
  <2>3. WriterOK(Doing("load", "enrol", task, "DRAFT"))
    BY ThreadsAtWork
  <2> QED
    BY <1>1, <2>1, <2>2, <2>3, ThreadGoes
<1>8. ASSUME NEW t \in Writer, NEW m \in Moves, NEW task \in Task, Transition(t, task, m[2])
      PROVE  PlanInv'
  <2>1. /\ <<rows[task], m[2]>> \in Moves /\ rows' = [rows EXCEPT ![task] = m[2]]
        /\ Goes(t, Doing("load", "sync", task, m[2])) /\ UNCHANGED <<plan, faults>>
    BY <1>8 DEF Transition
  <2>2. m[2] \in TaskState
    BY DEF TaskState
  <2>3. /\ DOMAIN rows' = DOMAIN rows
        /\ \A x \in DOMAIN rows : rows'[x] = IF x = task THEN m[2] ELSE rows[x]
    BY <2>1
  <2>4. RowsOK(rows')
    BY <1>1, <2>2, <2>3 DEF RowsOK
  <2>5. WriterOK(Doing("load", "sync", task, m[2]))
    BY <2>2, ThreadsAtWork
  <2> QED
    BY <1>1, <2>1, <2>4, <2>5, ThreadGoes
<1>9. ASSUME NEW t \in Reader, ProgressRows(t) \/ SnapshotPlan(t) \/ Answered(t) PROVE PlanInv'
  <2>0. t \in Writer
    BY <1>2
  <2>1. CASE ProgressRows(t)
    <3>1. Goes(t, Counting("progress", EmptyPlan, rows)) /\ UNCHANGED <<rows, plan, faults>>
      BY <2>1 DEF ProgressRows
    <3> QED
      BY <1>1, <2>0, <3>1, EmptyIsPlan, ThreadsAtWork, ThreadGoes
  <2>2. CASE SnapshotPlan(t)
    <3>1. PICK p \in {plan, EmptyPlan} : Read(p) /\ Goes(t, Counting("snapshot", p, <<>>))
      BY <2>2 DEF SnapshotPlan
    <3>2. UNCHANGED <<rows, plan>>
      BY <2>2 DEF SnapshotPlan
    <3>3. p \in Plan /\ faults' \in 0..MaxFaults
      BY <1>4, <3>1
    <3> QED
      BY <1>1, <2>0, <3>1, <3>2, <3>3, ThreadsAtWork, ThreadGoes
  <2>3. CASE Answered(t)
    <3>1. Goes(t, Resting) /\ UNCHANGED <<rows, plan, faults>>
      BY <2>3 DEF Answered
    <3> QED
      BY <1>1, <2>0, <3>1, ThreadsAtWork, ThreadGoes
  <2> QED
    BY <1>9, <2>1, <2>2, <2>3
<1>10. CASE PlanDies
  <2>1. /\ faults < MaxFaults /\ faults' = faults + 1 /\ UNCHANGED <<rows, plan>>
        /\ writers' = [t \in Writer |-> Resting]
    BY <1>10 DEF PlanDies
  <2>2. \A t \in Writer : WriterOK(writers'[t])
    BY <2>1, ThreadsAtWork
  <2>3. PlanTypeOK'
    BY <1>1, <1>2, <2>1, <2>2 DEF PlanTypeOK, RowsOK, WriterOK
  <2> QED
    BY <2>1, <2>2, <2>3 DEF PlanInv
<1>11. CASE UNCHANGED planVars
  BY <1>11 DEF planVars, PlanInv, PlanTypeOK
<1>12. CASE \E t \in Writer : IntakeCheck(t) \/ LoadPlan(t) \/ SavePlan(t)
                               \/ \E task \in Task : CreateTask(t, task) \/ \E m \in Moves : Transition(t, task, m[2])
  BY <1>3, <1>5, <1>6, <1>7, <1>8, <1>12
<1> QED
  BY <1>9, <1>10, <1>11, <1>12 DEF PlanNext

-----------------------------------------------------------------------------
(* The progress bar: numbers, sums and largest remainders.                 *)

(* The least of a set of numbers, and induction from it.                   *)
LEMMA NatLess ==
  \E R : IsWellFoundedOn(R, Nat) /\ \A x, y \in Nat : x < y => <<x, y>> \in R
<1>1. \A x, y \in Nat : x < y => <<x, y>> \in OpToRel(<, Nat)
  BY DEF OpToRel
<1> QED
  BY <1>1, NatLessThanWellFounded

LEMMA Minimal ==
  ASSUME NEW R, NEW T \in SUBSET Nat, T # {}, IsWellFoundedOn(R, Nat)
  PROVE  \E m \in T : \A n \in T : ~(<<n, m>> \in R)
BY WFMin

LEMMA Least ==
  ASSUME NEW T \in SUBSET Nat, T # {}
  PROVE  \E m \in T : \A n \in T : m <= n
<1>1. \E R : IsWellFoundedOn(R, Nat) /\ \A x, y \in Nat : x < y => <<x, y>> \in R
  BY NatLess
<1>2. ASSUME NEW R, IsWellFoundedOn(R, Nat), \A x, y \in Nat : x < y => <<x, y>> \in R
      PROVE  \E m \in T : \A n \in T : m <= n
  <2>1. \E m \in T : \A n \in T : ~(<<n, m>> \in R)
    BY <1>2, Minimal
  <2>2. PICK m \in T : \A n \in T : ~(<<n, m>> \in R)
    BY <2>1
  <2>3. ASSUME NEW n \in T PROVE m <= n
    <3>1. n \in Nat /\ m \in Nat
      OBVIOUS
    <3>2. ~(n < m)
      BY <1>2, <2>2, <3>1
    <3> QED
      BY <3>1, <3>2
  <2> QED
    BY <2>3
<1> QED
  BY <1>1, <1>2

(* Induction up to a number, for a set given by its property.              *)
LEMMA Inductive ==
  ASSUME NEW N \in Nat, NEW S, 0 \in S, \A n \in 1..N : n - 1 \in S => n \in S
  PROVE  \A n \in 0..N : n \in S
<1> DEFINE T == {n \in 0..N : n \notin S}
<1>1. SUFFICES ASSUME T # {} PROVE FALSE
  OBVIOUS
<1>2. T \in SUBSET Nat
  OBVIOUS
<1>3. \E m \in T : \A n \in T : m <= n
  BY <1>1, <1>2, Least
<1>4. PICK m \in T : \A n \in T : m <= n
  BY <1>3
<1>5. m \in 1..N /\ m - 1 \in 0..N
  BY <1>4
<1>6. m - 1 \in S
  BY <1>4, <1>5
<1> QED
  BY <1>4, <1>5, <1>6

-----------------------------------------------------------------------------
(* Sums.                                                                   *)

(* f is the running sum of w up to N.                                      *)
AtPos(w, n) == IF n \in DOMAIN w THEN w[n] ELSE 0
Sums(f, w, N) ==
  /\ f = [n \in 0..N |-> f[n]]
  /\ f[0] = 0 /\ \A n \in 1..N : f[n] = f[n - 1] + AtPos(w, n)

LEMMA SumsThere ==
  ASSUME NEW w, NEW N \in Nat
  PROVE  \E f : Sums(f, w, N)
<1> DEFINE S == {n \in 0..N : \E f : Sums(f, w, n)}
<1>1. 0 \in S
  <2> DEFINE f == [n \in 0..0 |-> 0]
  <2>1. Sums(f, w, 0)
    BY DEF Sums
  <2> QED
    BY <2>1
<1>2. ASSUME NEW n \in 1..N, n - 1 \in S PROVE n \in S
  <2>1. PICK f : Sums(f, w, n - 1)
    BY <1>2
  <2> DEFINE g == [m \in 0..n |-> IF m = n THEN f[n - 1] + AtPos(w, n) ELSE f[m]]
  <2>2. g[0] = 0 /\ \A m \in 1..n : g[m] = g[m - 1] + AtPos(w, m)
    <3>1. ASSUME NEW m \in 1..n PROVE g[m] = g[m - 1] + AtPos(w, m)
      <4>1. CASE m = n
        BY <4>1
      <4>2. CASE m # n
        <5>1. m \in 1..(n - 1) /\ m - 1 \in 0..n /\ m - 1 # n /\ m \in 0..n
          BY <4>2
        <5> QED
          BY <2>1, <4>2, <5>1 DEF Sums
      <4> QED
        BY <4>1, <4>2
    <3>2. g[0] = 0
      BY <2>1 DEF Sums
    <3> QED
      BY <3>1, <3>2
  <2>3. g = [m \in 0..n |-> g[m]]
    OBVIOUS
  <2> HIDE DEF g
  <2>4. Sums(g, w, n)
    BY <2>2, <2>3 DEF Sums
  <2> QED
    BY <2>4
<1> HIDE DEF S
<1>3. N \in S
  BY <1>1, <1>2, Inductive
<1> QED
  BY <1>3 DEF S

LEMMA TotalSums ==
  ASSUME NEW w, Highest(w) \in Nat
  PROVE  \E f : Sums(f, w, Highest(w)) /\ Total(w) = f[Highest(w)]
<1> DEFINE N == Highest(w)
<1> HIDE DEF N
<1>0. N \in Nat
  BY DEF N
<1> DEFINE Def(f) == f = [n \in 0..N |-> IF n = 0 THEN 0
                             ELSE f[n - 1] + (IF n \in DOMAIN w THEN w[n] ELSE 0)]
<1>1. \E f : Def(f)
  <2>1. PICK f : Sums(f, w, N)
    BY <1>0, SumsThere
  <2>2. \A n \in 0..N : f[n] = IF n = 0 THEN 0
                             ELSE f[n - 1] + (IF n \in DOMAIN w THEN w[n] ELSE 0)
    <3>1. f[0] = 0 /\ \A n \in 1..N : f[n] = f[n - 1] + AtPos(w, n)
      BY <2>1 DEF Sums
    <3>2. ASSUME NEW n \in 0..N, n # 0
          PROVE  f[n] = f[n - 1] + (IF n \in DOMAIN w THEN w[n] ELSE 0)
      <4>1. n \in 1..N
        BY <1>0, <3>2
      <4> QED
        BY <3>1, <4>1 DEF AtPos
    <3> QED
      BY <3>1, <3>2
  <2>3. Def(f)
    BY <2>1, <2>2 DEF Sums
  <2> QED
    BY <2>3
<1> DEFINE sum == CHOOSE f : Def(f)
<1>2. Def(sum)
  BY <1>1
<1>3. Total(w) = sum[N]
  BY DEF Total, N
<1> HIDE DEF sum
<1>4. Sums(sum, w, N)
  BY <1>0, <1>2 DEF Sums, AtPos
<1> QED
  BY <1>3, <1>4 DEF N
(* The highest position.                                                   *)
Spread(D) == \E N \in Nat : D \subseteq 1..N
Top(D) == Max({0} \cup D)

LEMMA TopIs ==
  ASSUME NEW D, Spread(D)
  PROVE  Top(D) \in Nat /\ D \subseteq 1..Top(D)
<1>1. PICK N \in Nat : D \subseteq 1..N
  BY DEF Spread
<1> DEFINE U == {m \in Nat : \A d \in D : d <= m}
<1>2. N \in U
  BY <1>1
<1>3. \E m \in U : \A n \in U : m <= n
  BY <1>2, Least
<1>4. PICK m \in U : \A n \in U : m <= n
  BY <1>3
<1>5. m \in {0} \cup D
  <2> SUFFICES ASSUME m # 0, m \notin D PROVE FALSE
    OBVIOUS
  <2>1. m - 1 \in Nat
    BY <1>4
  <2>2. ASSUME NEW d \in D PROVE d <= m - 1
    BY <1>1, <1>4
  <2>3. m - 1 \in U
    BY <2>1, <2>2
  <2> QED
    BY <1>4, <2>3
<1> DEFINE S == {0} \cup D
           k == Max(S)
<1>6. \A d \in S : m >= d
  BY <1>4, <1>1
<1>7. k \in S /\ \A d \in S : k >= d
  BY <1>5, <1>6 DEF Max
<1> HIDE DEF k
<1>8. k \in Nat
  BY <1>1, <1>7
<1>9. \A d \in D : d \in 1..k
  BY <1>1, <1>7, <1>8
<1> QED
  BY <1>8, <1>9 DEF Top, k

(* A total is the end of a running sum up to the highest position.         *)
LEMMA TotalRuns ==
  ASSUME NEW w, Spread(DOMAIN w)
  PROVE  /\ Top(DOMAIN w) \in Nat /\ DOMAIN w \subseteq 1..Top(DOMAIN w)
         /\ \E f : Sums(f, w, Top(DOMAIN w)) /\ Total(w) = f[Top(DOMAIN w)]
BY TopIs, TotalSums DEF Top, Highest

LEMMA TotalInt ==
  ASSUME NEW w, Spread(DOMAIN w), \A i \in DOMAIN w : w[i] \in Int
  PROVE  Total(w) \in Int
<1> DEFINE N == Top(DOMAIN w)
<1>1. N \in Nat /\ \E f : Sums(f, w, N) /\ Total(w) = f[N]
  BY TotalRuns
<1>2. PICK f : Sums(f, w, N) /\ Total(w) = f[N]
  BY <1>1
<1> HIDE DEF N
<1> DEFINE S == {n \in 0..N : f[n] \in Int}
<1>3. 0 \in S
  BY <1>1, <1>2 DEF Sums
<1>4. ASSUME NEW n \in 1..N, n - 1 \in S PROVE n \in S
  <2>1. f[n] = f[n - 1] + AtPos(w, n)
    BY <1>2 DEF Sums
  <2>2. AtPos(w, n) \in Int
    BY DEF AtPos
  <2>3. f[n - 1] \in Int
    BY <1>4
  <2> QED
    BY <2>1, <2>2, <2>3
<1> HIDE DEF S
<1>5. N \in S
  BY <1>1, <1>3, <1>4, Inductive
<1> QED
  BY <1>2, <1>5 DEF S

LEMMA TotalNat ==
  ASSUME NEW w, Spread(DOMAIN w), \A i \in DOMAIN w : w[i] \in Nat
  PROVE  Total(w) \in Nat
<1> DEFINE N == Top(DOMAIN w)
<1>1. N \in Nat /\ \E f : Sums(f, w, N) /\ Total(w) = f[N]
  BY TotalRuns
<1>2. PICK f : Sums(f, w, N) /\ Total(w) = f[N]
  BY <1>1
<1> HIDE DEF N
<1> DEFINE S == {n \in 0..N : f[n] \in Nat}
<1>3. 0 \in S
  BY <1>1, <1>2 DEF Sums
<1>4. ASSUME NEW n \in 1..N, n - 1 \in S PROVE n \in S
  <2>1. f[n] = f[n - 1] + AtPos(w, n)
    BY <1>2 DEF Sums
  <2>2. AtPos(w, n) \in Nat
    BY DEF AtPos
  <2>3. f[n - 1] \in Nat
    BY <1>4
  <2> QED
    BY <2>1, <2>2, <2>3
<1> HIDE DEF S
<1>5. N \in S
  BY <1>1, <1>3, <1>4, Inductive
<1> QED
  BY <1>2, <1>5 DEF S

LEMMA TotalPlus ==
  ASSUME NEW u, NEW v, NEW w, DOMAIN v = DOMAIN u, DOMAIN w = DOMAIN u, Spread(DOMAIN u),
         \A i \in DOMAIN u : u[i] \in Int /\ v[i] \in Int /\ w[i] = u[i] + v[i]
  PROVE  Total(w) = Total(u) + Total(v)
<1> DEFINE N == Top(DOMAIN u)
<1>1. N \in Nat
  BY TotalRuns
<1>2. PICK f : Sums(f, u, N) /\ Total(u) = f[N]
  BY TotalRuns
<1>3. PICK g : Sums(g, v, N) /\ Total(v) = g[N]
  BY TotalRuns
<1>4. PICK h : Sums(h, w, N) /\ Total(w) = h[N]
  BY TotalRuns
<1> HIDE DEF N
<1> DEFINE S == {n \in 0..N : f[n] \in Int /\ g[n] \in Int /\ h[n] = f[n] + g[n]}
<1>5. 0 \in S
  BY <1>1, <1>2, <1>3, <1>4 DEF Sums
<1>6. ASSUME NEW n \in 1..N, n - 1 \in S PROVE n \in S
  <2>1. f[n] = f[n - 1] + AtPos(u, n) /\ g[n] = g[n - 1] + AtPos(v, n) /\ h[n] = h[n - 1] + AtPos(w, n)
    BY <1>2, <1>3, <1>4 DEF Sums
  <2>2. AtPos(u, n) \in Int /\ AtPos(v, n) \in Int /\ AtPos(w, n) = AtPos(u, n) + AtPos(v, n)
    BY DEF AtPos
  <2>3. f[n - 1] \in Int /\ g[n - 1] \in Int /\ h[n - 1] = f[n - 1] + g[n - 1]
    BY <1>6
  <2> QED
    BY <2>1, <2>2, <2>3
<1> HIDE DEF S
<1>7. N \in S
  BY <1>1, <1>5, <1>6, Inductive
<1> QED
  BY <1>2, <1>3, <1>4, <1>7 DEF S

LEMMA Distributes == \A x, y, c \in Int : (x + y) * c = x * c + y * c
OBVIOUS

LEMMA TotalTimes ==
  ASSUME NEW u, NEW w, NEW c \in Int, DOMAIN w = DOMAIN u, Spread(DOMAIN u),
         \A i \in DOMAIN u : u[i] \in Int /\ w[i] = u[i] * c
  PROVE  Total(w) = Total(u) * c
<1> DEFINE N == Top(DOMAIN u)
<1>1. N \in Nat
  BY TotalRuns
<1>2. PICK f : Sums(f, u, N) /\ Total(u) = f[N]
  BY TotalRuns
<1>4. PICK h : Sums(h, w, N) /\ Total(w) = h[N]
  BY TotalRuns
<1> HIDE DEF N
<1> DEFINE S == {n \in 0..N : f[n] \in Int /\ h[n] = f[n] * c}
<1>5. 0 \in S
  BY <1>1, <1>2, <1>4 DEF Sums
<1>6. ASSUME NEW n \in 1..N, n - 1 \in S PROVE n \in S
  <2>1. f[n] = f[n - 1] + AtPos(u, n) /\ h[n] = h[n - 1] + AtPos(w, n)
    BY <1>2, <1>4 DEF Sums
  <2>2. AtPos(u, n) \in Int /\ AtPos(w, n) = AtPos(u, n) * c
    BY DEF AtPos
  <2>3. f[n - 1] \in Int /\ h[n - 1] = f[n - 1] * c
    BY <1>6
  <2>4. (f[n - 1] + AtPos(u, n)) * c = f[n - 1] * c + AtPos(u, n) * c
    BY <2>2, <2>3, Distributes
  <2> QED
    BY <2>1, <2>2, <2>3, <2>4
<1> HIDE DEF S
<1>7. N \in S
  BY <1>1, <1>5, <1>6, Inductive
<1> QED
  BY <1>2, <1>4, <1>7 DEF S

(* Smaller numbers, at some position at least one, have a smaller total.   *)
LEMMA TotalLess ==
  ASSUME NEW u, NEW v, DOMAIN v = DOMAIN u, Spread(DOMAIN u), DOMAIN u # {},
         \A i \in DOMAIN u : u[i] \in Int /\ v[i] \in Int /\ u[i] < v[i]
  PROVE  Total(u) < Total(v)
<1> DEFINE N == Top(DOMAIN u)
<1>1. N \in Nat /\ DOMAIN u \subseteq 1..N
  BY TotalRuns
<1>2. PICK f : Sums(f, u, N) /\ Total(u) = f[N]
  BY TotalRuns
<1>3. PICK g : Sums(g, v, N) /\ Total(v) = g[N]
  BY TotalRuns
<1> HIDE DEF N
<1> DEFINE S == {n \in 0..N : /\ f[n] \in Int /\ g[n] \in Int /\ f[n] <= g[n]
                              /\ (\E i \in DOMAIN u : i <= n) => f[n] < g[n]}
<1>5. 0 \in S
  BY <1>1, <1>2, <1>3 DEF Sums
<1>6. ASSUME NEW n \in 1..N, n - 1 \in S PROVE n \in S
  <2>1. f[n] = f[n - 1] + AtPos(u, n) /\ g[n] = g[n - 1] + AtPos(v, n)
    BY <1>2, <1>3 DEF Sums
  <2>3. /\ f[n - 1] \in Int /\ g[n - 1] \in Int /\ f[n - 1] <= g[n - 1]
        /\ (\E i \in DOMAIN u : i <= n - 1) => f[n - 1] < g[n - 1]
    BY <1>6
  <2>4. CASE n \in DOMAIN u
    BY <2>1, <2>3, <2>4 DEF AtPos
  <2>5. CASE n \notin DOMAIN u
    <3>1. AtPos(u, n) = 0 /\ AtPos(v, n) = 0
      BY <2>5 DEF AtPos
    <3>2. ASSUME NEW i \in DOMAIN u, i <= n PROVE i <= n - 1
      BY <1>1, <2>5, <3>2
    <3> QED
      BY <2>1, <2>3, <3>1, <3>2
  <2> QED
    BY <2>4, <2>5
<1> HIDE DEF S
<1>7. N \in S
  BY <1>1, <1>5, <1>6, Inductive
<1>8. \E i \in DOMAIN u : i <= N
  BY <1>1
<1> QED
  BY <1>2, <1>3, <1>7, <1>8 DEF S

(* The total of ones counts them.                                          *)
LEMMA TotalCounts ==
  ASSUME NEW u, NEW P, Spread(DOMAIN u), P \subseteq DOMAIN u,
         \A i \in DOMAIN u : u[i] = IF i \in P THEN 1 ELSE 0
  PROVE  IsFiniteSet(P) /\ Total(u) = Cardinality(P)
<1> DEFINE N == Top(DOMAIN u)
<1>1. N \in Nat /\ DOMAIN u \subseteq 1..N
  BY TotalRuns
<1>2. PICK f : Sums(f, u, N) /\ Total(u) = f[N]
  BY TotalRuns
<1> HIDE DEF N
<1> DEFINE Up(n) == {i \in P : i <= n}
           S == {n \in 0..N : IsFiniteSet(Up(n)) /\ f[n] = Cardinality(Up(n))}
<1>5. 0 \in S
  <2>1. Up(0) = {}
    BY <1>1
  <2> QED
    BY <1>1, <1>2, <2>1, FS_EmptySet DEF Sums
<1>6. ASSUME NEW n \in 1..N, n - 1 \in S PROVE n \in S
  <2>1. f[n] = f[n - 1] + AtPos(u, n)
    BY <1>2 DEF Sums
  <2>2. AtPos(u, n) = IF n \in P THEN 1 ELSE 0
    BY DEF AtPos
  <2> DEFINE A == Up(n - 1)
             B == Up(n)
  <2>3. IsFiniteSet(A) /\ f[n - 1] = Cardinality(A) /\ Cardinality(A) \in Nat
    BY <1>6, FS_CardinalityType
  <2>4. n \notin A /\ B = IF n \in P THEN A \cup {n} ELSE A
    <3>1. n \notin A
      OBVIOUS
    <3>2. ASSUME NEW i \in P PROVE i <= n <=> (i <= n - 1 \/ i = n)
      BY <1>1
    <3> QED
      BY <3>1, <3>2
  <2> HIDE DEF A, B
  <2>5. IsFiniteSet(B) /\ Cardinality(B) = Cardinality(A) + (IF n \in P THEN 1 ELSE 0)
    <3>1. IsFiniteSet(A \cup {n}) /\ Cardinality(A \cup {n}) = Cardinality(A) + 1
      BY <2>3, <2>4, FS_AddElement
    <3>2. CASE n \in P
      BY <2>4, <3>1, <3>2
    <3>3. CASE n \notin P
      BY <2>3, <2>4, <3>3
    <3> QED
      BY <3>2, <3>3
  <2> QED
    BY <2>1, <2>2, <2>3, <2>5 DEF A, B
<1> HIDE DEF S
<1>7. N \in S
  BY <1>1, <1>5, <1>6, Inductive
<1>8. Up(N) = P
  BY <1>1
<1> QED
  BY <1>2, <1>7, <1>8 DEF S

-----------------------------------------------------------------------------
(* Largest remainders.                                                     *)

LEMMA DivMod ==
  \A a \in Nat, b \in Nat \ {0} :
    /\ a \div b \in Nat /\ a % b \in 0..(b - 1)
    /\ a = (a \div b) * b + (a % b)
OBVIOUS

LEMMA Products ==
  \A x, y \in Int, b \in Nat \ {0} :
    /\ x < y => x * b < y * b
    /\ x * b < y * b => x < y
    /\ x <= y => x * b <= y * b
OBVIOUS

LEMMA Quotients ==
  ASSUME NEW b \in Nat \ {0}, NEW x \in Nat, NEW y \in Nat, NEW r \in 0..(b - 1), NEW s \in 0..(b - 1),
         y * b + s <= x * b + r
  PROVE  y < x \/ (y = x /\ s <= r)
<1>1. SUFFICES ASSUME x < y PROVE FALSE
  OBVIOUS
<1>2. x + 1 <= y /\ x * b \in Int /\ y * b \in Int
  BY <1>1
<1>3. (x + 1) * b <= y * b
  BY <1>2, Products
<1>4. (x + 1) * b = x * b + 1 * b
  BY Distributes
<1> QED
  BY <1>2, <1>3, <1>4

LEMMA Remains ==
  \A x, y, z, b \in Int : b * x = y * b + z => z = (x - y) * b
OBVIOUS

LEMMA SpreadFinite ==
  ASSUME NEW D, Spread(D)
  PROVE  D \subseteq Nat /\ IsFiniteSet(D)
<1>1. PICK N \in Nat : D \subseteq 1..N
  BY DEF Spread
<1>2. IsFiniteSet(1..N)
  BY FS_Interval
<1>3. D \in SUBSET (1..N)
  BY <1>1
<1>4. IsFiniteSet(D)
  BY <1>2, <1>3, FS_Subset
<1> QED
  BY <1>1, <1>4

(* Who is ahead of i, and who is among the first.                          *)
Before(D, fraction, i) == {j \in D : Ahead(fraction, j, i)}
Rank(D, fraction, i) == Cardinality(Before(D, fraction, i))
First(D, fraction, left) == {i \in D : Rank(D, fraction, i) < left}

LEMMA RankGrows ==
  ASSUME NEW D, Spread(D), NEW fr, \A i \in D : fr[i] \in Int,
         NEW i \in D, NEW j \in D, Ahead(fr, j, i)
  PROVE  Rank(D, fr, j) < Rank(D, fr, i)
<1> DEFINE A == Before(D, fr, j)
           B == Before(D, fr, i)
<1>1. D \subseteq Nat /\ IsFiniteSet(D)
  BY SpreadFinite
<1>2. IsFiniteSet(B)
  BY <1>1, FS_Subset DEF Before
<1>3. ASSUME NEW k \in A PROVE k \in B
  <2>1. k \in D /\ Ahead(fr, k, j)
    BY DEF Before
  <2>2. k \in Nat /\ j \in Nat /\ i \in Nat /\ fr[k] \in Int /\ fr[j] \in Int /\ fr[i] \in Int
    BY <1>1, <2>1
  <2>3. Ahead(fr, k, i)
    BY <2>1, <2>2 DEF Ahead
  <2> QED
    BY <2>1, <2>3 DEF Before
<1>4. j \in B /\ j \notin A
  <2>1. ~Ahead(fr, j, j)
    BY <1>1 DEF Ahead
  <2> QED
    BY <2>1 DEF Before
<1> HIDE DEF A, B
<1>5. A \in SUBSET B
  BY <1>3
<1>6. IsFiniteSet(A) /\ Cardinality(A) <= Cardinality(B) /\ Cardinality(A) # Cardinality(B)
  BY <1>2, <1>4, <1>5, FS_Subset
<1>7. Cardinality(A) \in Nat /\ Cardinality(B) \in Nat
  BY <1>2, <1>6, FS_CardinalityType
<1> QED
  BY <1>6, <1>7 DEF Rank, A, B

LEMMA RankIs ==
  ASSUME NEW D, Spread(D), NEW fr, \A i \in D : fr[i] \in Int, NEW i \in D
  PROVE  Cardinality(D) \in Nat /\ Rank(D, fr, i) \in 0..(Cardinality(D) - 1)
<1> DEFINE B == Before(D, fr, i)
<1>1. D \subseteq Nat /\ IsFiniteSet(D)
  BY SpreadFinite
<1>2. B \in SUBSET D /\ i \notin B
  BY <1>1 DEF Before, Ahead
<1> HIDE DEF B
<1>3. IsFiniteSet(B) /\ Cardinality(B) <= Cardinality(D) /\ Cardinality(B) # Cardinality(D)
  BY <1>1, <1>2, FS_Subset
<1>4. Cardinality(B) \in Nat /\ Cardinality(D) \in Nat
  BY <1>1, <1>3, FS_CardinalityType
<1> QED
  BY <1>3, <1>4 DEF Rank, B

(* There are as many among the first as there is to give.                  *)
LEMMA FirstAre ==
  ASSUME NEW D, Spread(D), NEW fr, \A i \in D : fr[i] \in Int,
         NEW left \in 0..Cardinality(D)
  PROVE  Cardinality(First(D, fr, left)) = left
<1> DEFINE n == Cardinality(D)
           rank == [i \in D |-> Rank(D, fr, i)]
           P == First(D, fr, left)
           low == [i \in P |-> Rank(D, fr, i)]
<1>1. D \subseteq Nat /\ IsFiniteSet(D) /\ n \in Nat
  BY SpreadFinite, FS_CardinalityType
<1>2. \A i \in D : Rank(D, fr, i) \in 0..(n - 1)
  BY RankIs
<1>3. ASSUME NEW i \in D, NEW j \in D, Rank(D, fr, i) = Rank(D, fr, j) PROVE i = j
  <2>1. SUFFICES ASSUME i # j PROVE FALSE
    OBVIOUS
  <2>2. Ahead(fr, i, j) \/ Ahead(fr, j, i)
    BY <1>1, <2>1 DEF Ahead
  <2>3. Rank(D, fr, i) \in Int
    BY <1>2
  <2> QED
    BY <1>3, <2>2, <2>3, RankGrows
<1>4. IsFiniteSet(0..(n - 1)) /\ Cardinality(0..(n - 1)) = n
  <2> HIDE DEF n
  <2>0. n - 1 \in Int
    BY <1>1
  <2>1. IsFiniteSet(0..(n - 1)) /\ Cardinality(0..(n - 1)) = IF 0 > n - 1 THEN 0 ELSE (n - 1) - 0 + 1
    BY <2>0, FS_Interval
  <2>2. (IF 0 > n - 1 THEN 0 ELSE (n - 1) - 0 + 1) = n
    BY <1>1
  <2> QED
    BY <2>1, <2>2
<1>5. rank \in Injection(D, 0..(n - 1))
  BY <1>2, <1>3 DEF Injection, IsInjective
<1>6. rank \in Surjection(D, 0..(n - 1))
  BY <1>1, <1>4, <1>5, FS_Injection
<1>7. \A m \in 0..(n - 1) : \E i \in D : Rank(D, fr, i) = m
  BY <1>6 DEF Surjection
<1>8. IsFiniteSet(0..(left - 1)) /\ Cardinality(0..(left - 1)) = left
  <2>0. left \in Nat
    BY <1>1
  <2>1. IsFiniteSet(0..(left - 1)) /\ Cardinality(0..(left - 1)) = IF 0 > left - 1 THEN 0 ELSE (left - 1) - 0 + 1
    BY <2>0, FS_Interval
  <2>2. (IF 0 > left - 1 THEN 0 ELSE (left - 1) - 0 + 1) = left
    BY <2>0
  <2> QED
    BY <2>1, <2>2
<1>9. \A i \in P : i \in D /\ Rank(D, fr, i) \in 0..(left - 1)
  BY <1>1, <1>2 DEF First
<1>10. low \in Injection(P, 0..(left - 1))
  BY <1>3, <1>9 DEF Injection, IsInjective
<1>11. ASSUME NEW m \in 0..(left - 1) PROVE \E i \in P : low[i] = m
  <2>1. m \in 0..(n - 1) /\ m < left
    BY <1>1
  <2>2. PICK i \in D : Rank(D, fr, i) = m
    BY <1>7, <2>1
  <2> QED
    BY <2>1, <2>2 DEF First
<1>12. low \in Surjection(P, 0..(left - 1))
  BY <1>10, <1>11 DEF Injection, Surjection
<1> HIDE DEF low, P
<1>13. Cardinality(P) = left
  BY <1>8, <1>10, <1>12, FS_Injection
<1> QED
  BY <1>13 DEF P

(* Weights: positive numbers at finitely many positions.                   *)
Weights(w) == Spread(DOMAIN w) /\ \A i \in DOMAIN w : w[i] \in Nat /\ w[i] > 0

LEMMA TotalPositive ==
  ASSUME NEW w, Weights(w), DOMAIN w # {}
  PROVE  Total(w) \in Nat /\ Total(w) > 0
<1> DEFINE z == [i \in DOMAIN w |-> 0]
<1>1. Total(w) \in Int
  BY TotalInt DEF Weights
<1>2. Total(z) = Total(w) * 0
  BY TotalTimes DEF Weights
<1>3. Total(z) < Total(w)
  BY TotalLess DEF Weights
<1> QED
  BY <1>1, <1>2, <1>3

(* The shares add up to what is distributed, and heavier is never less.    *)
Shared(w, total, share) ==
  /\ DOMAIN share = DOMAIN w
  /\ \A i \in DOMAIN w : share[i] \in Nat
  /\ Total(share) = total
  /\ \A i, j \in DOMAIN w : w[i] > w[j] => share[i] >= share[j]

(* Percentages are distributed exactly, whatever the weights: the shares   *)
(* add up to what there is to distribute, and a greater weight never gets  *)
(* a smaller share (_distribute_pct).                                      *)
THEOREM SharesAreExact ==
  ASSUME NEW w, Weights(w), DOMAIN w # {}, NEW total \in Nat
  PROVE  Shared(w, total, Distribute(w, total))
<1> DEFINE D == DOMAIN w
           T == Total(w)
           floor == [i \in D |-> (w[i] * total) \div T]
           fr == [i \in D |-> (w[i] * total) % T]
           left == total - Total(floor)
           one == [i \in D |-> IF Rank(D, fr, i) < left THEN 1 ELSE 0]
           share == [i \in D |-> floor[i] + one[i]]
           scaled == [i \in D |-> w[i] * total]
           whole == [i \in D |-> floor[i] * T]
           most == [i \in D |-> 1 * T]
           ones == [i \in D |-> 1]
<1>1. Distribute(w, total) = share
  BY DEF Distribute, Distribute_Floor, Rank, Before
<1>2. T \in Nat /\ T > 0 /\ Spread(D)
  BY TotalPositive DEF Weights
<1> HIDE DEF T
<1>3. ASSUME NEW i \in D
      PROVE  /\ floor[i] \in Nat /\ fr[i] \in 0..(T - 1) /\ scaled[i] \in Nat
             /\ scaled[i] = whole[i] + fr[i] /\ whole[i] \in Int
  <2>1. w[i] \in Nat /\ w[i] * total \in Nat
    BY DEF Weights
  <2> DEFINE a == w[i] * total
  <2> HIDE DEF a
  <2>2. a \div T \in Nat /\ a % T \in 0..(T - 1) /\ a = (a \div T) * T + (a % T)
    <3>1. a \in Nat
      BY <2>1 DEF a
    <3> QED
      BY <1>2, <3>1, DivMod
  <2> QED
    BY <1>2, <2>1, <2>2 DEF a
<1>4. \A i \in D : one[i] \in {0, 1}
  OBVIOUS
<1> HIDE DEF floor, fr
<1>5. Total(floor) \in Int /\ Total(fr) \in Int
  <2>1. DOMAIN floor = D /\ DOMAIN fr = D
    BY DEF floor, fr
  <2>2. \A i \in D : floor[i] \in Int /\ fr[i] \in Int
    BY <1>2, <1>3
  <2> QED
    BY <1>2, <2>1, <2>2, TotalInt
<1>6. DOMAIN floor = D /\ DOMAIN fr = D
  BY DEF floor, fr
<1>7. Total(scaled) = T * total
  <2>1. DOMAIN scaled = DOMAIN w /\ \A i \in DOMAIN w : w[i] \in Int /\ scaled[i] = w[i] * total
    BY DEF Weights
  <2> HIDE DEF scaled
  <2> QED
    BY <1>2, <2>1, TotalTimes DEF T
<1>8. Total(whole) = Total(floor) * T
  <2>1. DOMAIN whole = DOMAIN floor /\ \A i \in DOMAIN floor : floor[i] \in Int /\ whole[i] = floor[i] * T
    BY <1>3, <1>6
  <2> HIDE DEF whole
  <2> QED
    BY <1>2, <1>6, <2>1, TotalTimes
<1>9. Total(scaled) = Total(whole) + Total(fr)
  <2>1. /\ DOMAIN whole = D /\ DOMAIN scaled = D
        /\ \A i \in D : whole[i] \in Int /\ fr[i] \in Int /\ scaled[i] = whole[i] + fr[i]
    BY <1>2, <1>3
  <2> HIDE DEF whole, scaled
  <2> QED
    BY <1>2, <1>6, <2>1, TotalPlus
<1>10. Total(fr) = left * T
  <2>1. T * total = Total(floor) * T + Total(fr)
    BY <1>7, <1>8, <1>9
  <2> QED
    BY <1>2, <1>5, <2>1, Remains
<1>11. Total(fr) < Cardinality(D) * T /\ Cardinality(D) \in Nat
  <2>1. Total(ones) = Cardinality(D)
    <3>1. DOMAIN ones = D /\ \A i \in D : ones[i] = IF i \in D THEN 1 ELSE 0
      OBVIOUS
    <3> HIDE DEF ones
    <3> QED
      BY <1>2, <3>1, TotalCounts
  <2>2. Total(most) = Total(ones) * T
    <3>1. DOMAIN most = DOMAIN ones /\ DOMAIN ones = D
          /\ \A i \in D : ones[i] \in Int /\ most[i] = ones[i] * T
      OBVIOUS
    <3> HIDE DEF most, ones
    <3> QED
      BY <1>2, <3>1, TotalTimes
  <2>3. Total(fr) < Total(most)
    <3>1. DOMAIN most = D /\ \A i \in D : fr[i] \in Int /\ most[i] \in Int /\ fr[i] < most[i]
      BY <1>2, <1>3
    <3> HIDE DEF most
    <3> QED
      BY <1>2, <1>6, <3>1, TotalLess
  <2>4. Cardinality(D) \in Nat
    BY <1>2, SpreadFinite, FS_CardinalityType
  <2> QED
    BY <2>1, <2>2, <2>3, <2>4
<1>12. Total(fr) \in Nat
  <2>1. \A i \in D : fr[i] \in Nat
    BY <1>2, <1>3
  <2> QED
    BY <1>2, <1>6, <2>1, TotalNat
<1>13. left \in 0..Cardinality(D)
  <2>1. left \in Int
    BY <1>5
  <2> HIDE DEF left
  <2>2. left >= 0 /\ left < Cardinality(D)
    BY <1>2, <1>10, <1>11, <1>12, <2>1, Products
  <2> QED
    BY <1>11, <2>1, <2>2
<1>14. Total(one) = left
  <2> DEFINE P == First(D, fr, left)
  <2>1. Cardinality(P) = left
    <3>1. \A i \in D : fr[i] \in Int
      BY <1>2, <1>3
    <3> QED
      BY <1>2, <1>13, <3>1, FirstAre
  <2>2. P \subseteq D /\ DOMAIN one = D /\ \A i \in D : one[i] = IF i \in P THEN 1 ELSE 0
    BY DEF First
  <2> HIDE DEF P, one
  <2> QED
    BY <1>2, <2>1, <2>2, TotalCounts
<1>15. Total(share) = total
  <2>1. Total(share) = Total(floor) + Total(one)
    <3>1. /\ DOMAIN one = D /\ DOMAIN share = D
          /\ \A i \in D : floor[i] \in Int /\ one[i] \in Int /\ share[i] = floor[i] + one[i]
      BY <1>3, <1>4
    <3> HIDE DEF one, share
    <3> QED
      BY <1>2, <1>6, <3>1, TotalPlus
  <2> QED
    BY <1>5, <1>14, <2>1
<1>16. ASSUME NEW i \in D, NEW j \in D, w[i] > w[j] PROVE share[i] >= share[j]
  <2>1. w[i] \in Nat /\ w[j] \in Nat /\ scaled[j] <= scaled[i] /\ (total > 0 => scaled[j] < scaled[i])
    <3>1. w[i] \in Nat /\ w[j] \in Nat
      BY DEF Weights
    <3> QED
      BY <1>16, <3>1, Products
  <2>2. /\ floor[i] \in Nat /\ floor[j] \in Nat /\ fr[i] \in 0..(T - 1) /\ fr[j] \in 0..(T - 1)
        /\ scaled[i] = floor[i] * T + fr[i] /\ scaled[j] = floor[j] * T + fr[j]
    BY <1>3
  <2>3. /\ share[i] = floor[i] + one[i] /\ share[j] = floor[j] + one[j]
        /\ one[i] \in {0, 1} /\ one[j] \in {0, 1}
        /\ one[i] = IF Rank(D, fr, i) < left THEN 1 ELSE 0
        /\ one[j] = IF Rank(D, fr, j) < left THEN 1 ELSE 0
    BY <1>4
  <2>4. /\ left \in Nat /\ Rank(D, fr, i) \in Nat /\ Rank(D, fr, j) \in Nat
        /\ total = 0 => left = 0
    <3>1. \A k \in D : fr[k] \in Int
      BY <1>2, <1>3
    <3>2. Rank(D, fr, i) \in Nat /\ Rank(D, fr, j) \in Nat
      BY <1>2, <3>1, RankIs
    <3>3. Total(floor) \in Nat
      BY <1>2, <1>3, <1>6, TotalNat
    <3>4. left \in Nat
      BY <1>11, <1>13
    <3> QED
      BY <3>2, <3>3, <3>4
  <2> HIDE DEF scaled, whole, one, share, left
  <2>5. floor[j] < floor[i] \/ (floor[j] = floor[i] /\ fr[j] <= fr[i])
    BY <1>2, <2>1, <2>2, Quotients
  <2>6. CASE floor[j] < floor[i]
    BY <2>2, <2>3, <2>6
  <2>7. CASE floor[j] = floor[i] /\ total = 0
    BY <2>2, <2>3, <2>4, <2>7
  <2>8. CASE floor[j] = floor[i] /\ total # 0
    <3>1. fr[j] # fr[i]
      <4>1. scaled[j] < scaled[i] /\ scaled[i] \in Int
        BY <1>3, <2>1, <2>8
      <4>2. scaled[i] # scaled[j]
        BY <1>3, <4>1
      <4> QED
        BY <2>2, <2>8, <4>2
    <3>2. Ahead(fr, i, j)
      BY <2>2, <2>5, <2>8, <3>1 DEF Ahead
    <3>3. \A k \in D : fr[k] \in Int
      BY <1>2, <1>3
    <3>4. Rank(D, fr, i) < Rank(D, fr, j)
      BY <1>2, <3>2, <3>3, RankGrows
    <3> QED
      BY <2>2, <2>3, <2>4, <2>8, <3>4
  <2> QED
    BY <2>5, <2>6, <2>7, <2>8
<1>17. \A i \in D : share[i] \in Nat
  BY <1>3, <1>4
<1> QED
  BY <1>1, <1>15, <1>16, <1>17 DEF Shared

LEMMA TotalSame ==
  ASSUME NEW u, NEW w, DOMAIN w = DOMAIN u, Spread(DOMAIN u),
         \A i \in DOMAIN u : u[i] \in Int /\ w[i] = u[i]
  PROVE  Total(w) = Total(u)
<1>1. \A i \in DOMAIN u : w[i] = u[i] * 1
  OBVIOUS
<1>2. Total(w) = Total(u) * 1 /\ Total(u) \in Int
  BY <1>1, TotalTimes, TotalInt
<1> QED
  BY <1>2

-----------------------------------------------------------------------------
(* Progress: the leaves of a plan that lists every task once.              *)

StageOK(s) == s.tasks \in Seq(EntryRow) /\ s.weight \in Int

LEMMA StageCounts ==
  ASSUME NEW s, StageOK(s), NEW states
  PROVE  /\ Tracked(s, states) \subseteq DOMAIN s.tasks
         /\ Weights(EntryWeights(s, states))
         /\ Tracked(s, states) # {} => StageWeight(s, states) \in Nat /\ StageWeight(s, states) > 0
<1> DEFINE w == EntryWeights(s, states)
<1>1. s.tasks \in Seq(EntryRow) /\ Len(s.tasks) \in Nat /\ DOMAIN s.tasks = 1..Len(s.tasks)
  BY DEF StageOK
<1>2. Tracked(s, states) \subseteq DOMAIN s.tasks /\ DOMAIN w = Tracked(s, states)
  BY DEF Tracked, EntryWeights
<1>3. Spread(DOMAIN w)
  BY <1>1, <1>2 DEF Spread
<1>4. \A x \in Int : Parsed(x) \in Nat /\ Parsed(x) > 0
  BY DEF Parsed
<1>5. ASSUME NEW k \in DOMAIN w PROVE w[k] \in Nat /\ w[k] > 0
  <2>1. s.tasks[k] \in EntryRow
    BY <1>1, <1>2
  <2>2. s.tasks[k].weight \in Int
    BY <2>1 DEF EntryRow
  <2> QED
    BY <1>2, <1>4, <2>2 DEF EntryWeights
<1>6. Weights(w)
  BY <1>3, <1>5 DEF Weights
<1>7. ASSUME Tracked(s, states) # {} PROVE StageWeight(s, states) \in Nat /\ StageWeight(s, states) > 0
  <2>1. Total(w) \in Nat /\ Total(w) > 0
    BY <1>2, <1>6, <1>7, TotalPositive
  <2> QED
    BY <1>4, <2>1 DEF StageWeight, StageOK
<1> QED
  BY <1>2, <1>6, <1>7

(* What a stage makes of its part.                                         *)
StageIs(stage, s, states, piece) ==
  /\ DOMAIN stage = Tracked(s, states)
  /\ \A k \in DOMAIN stage : stage[k].id = s.tasks[k].id /\ stage[k].share \in Nat
  /\ Total([k \in DOMAIN stage |-> stage[k].share]) = piece
  /\ Weighed(stage)

LEMMA StageShares ==
  ASSUME NEW s, StageOK(s), NEW states, Tracked(s, states) # {}, NEW piece \in Nat
  PROVE  StageIs(StageLeaves(s, states, piece), s, states, piece)
<1> DEFINE w == EntryWeights(s, states)
           share == Distribute(w, piece)
           stage == StageLeaves(s, states, piece)
           shares == [k \in DOMAIN stage |-> stage[k].share]
<1>1. Weights(w) /\ DOMAIN w = Tracked(s, states)
  BY StageCounts DEF EntryWeights
<1>2. Shared(w, piece, share)
  BY <1>1, SharesAreExact
<1>3. /\ DOMAIN stage = Tracked(s, states)
      /\ \A k \in Tracked(s, states) :
           stage[k].id = s.tasks[k].id /\ stage[k].weight = w[k] /\ stage[k].share = share[k]
  BY DEF StageLeaves, EntryWeights
<1> HIDE DEF share, stage, w
<1>4. Total(shares) = piece
  <2>1. DOMAIN shares = DOMAIN share /\ \A k \in DOMAIN share : share[k] \in Int /\ shares[k] = share[k]
    BY <1>1, <1>2, <1>3 DEF Shared
  <2>2. Spread(DOMAIN share)
    BY <1>1, <1>2 DEF Shared, Weights
  <2> HIDE DEF shares
  <2>3. Total(shares) = Total(share)
    BY <2>1, <2>2, TotalSame
  <2> QED
    BY <1>2, <2>3 DEF Shared
<1>5. Weighed(stage)
  BY <1>1, <1>2, <1>3 DEF Weighed, Shared
<1> QED
  BY <1>1, <1>2, <1>3, <1>4, <1>5 DEF StageIs, Shared, stage

(* A plan that lists each task of the database at one place.               *)
ListsAll(q, states) ==
  /\ q = [i \in DOMAIN q |-> q[i]] /\ Spread(DOMAIN q)
  /\ \A i \in DOMAIN q : StageOK(q[i])
  /\ \A i, j \in DOMAIN q : \A k \in DOMAIN q[i].tasks, l \in DOMAIN q[j].tasks :
       q[i].tasks[k].id = q[j].tasks[l].id => i = j /\ k = l
  /\ \A x \in DOMAIN states : \E i \in DOMAIN q : \E k \in DOMAIN q[i].tasks : q[i].tasks[k].id = x

LEMMA LeavesAre ==
  ASSUME NEW q, NEW states, ListsAll(q, states)
  PROVE  \E piece :
           /\ DOMAIN Leaves(q, states) = Counted(q, states)
           /\ Spread(Counted(q, states))
           /\ \A i \in Counted(q, states) :
                 piece[i] \in Nat /\ StageIs(Leaves(q, states)[i], q[i], states, piece[i])
           /\ Counted(q, states) # {} => Total([i \in Counted(q, states) |-> piece[i]]) = 1000
<1> DEFINE D == Counted(q, states)
           w == [i \in D |-> StageWeight(q[i], states)]
           piece == Distribute(w, 1000)
           parts == [i \in D |-> piece[i]]
<1>1. D \subseteq DOMAIN q /\ \A i \in D : Tracked(q[i], states) # {} /\ StageOK(q[i])
  BY DEF Counted, ListsAll
<1>2. Spread(D)
  BY <1>1 DEF ListsAll, Spread
<1>3. Leaves(q, states) = [i \in D |-> StageLeaves(q[i], states, piece[i])]
  BY DEF Leaves
<1>4. Weights(w) /\ DOMAIN w = D
  <2>1. \A i \in D : w[i] \in Nat /\ w[i] > 0
    BY <1>1, StageCounts
  <2> QED
    BY <1>2, <2>1 DEF Weights
<1>5. CASE D = {}
  BY <1>2, <1>3, <1>5
<1>6. CASE D # {}
  <2> HIDE DEF w
  <2>1. Shared(w, 1000, piece)
    BY <1>4, <1>6, SharesAreExact
  <2> HIDE DEF piece, D
  <2>2. \A i \in D : piece[i] \in Nat
    BY <1>4, <2>1 DEF Shared
  <2>3. \A i \in D : StageIs(StageLeaves(q[i], states, piece[i]), q[i], states, piece[i])
    BY <1>1, <2>2, StageShares
  <2>4. Total(parts) = 1000
    <3>1. DOMAIN parts = DOMAIN piece /\ DOMAIN piece = D
          /\ \A i \in DOMAIN piece : piece[i] \in Int /\ parts[i] = piece[i]
      BY <1>4, <2>1, <2>2 DEF Shared
    <3> HIDE DEF parts
    <3>2. Total(parts) = Total(piece)
      BY <1>2, <3>1, TotalSame
    <3> QED
      BY <2>1, <3>2 DEF Shared
  <2>5. /\ DOMAIN Leaves(q, states) = D
        /\ \A i \in D : StageIs(Leaves(q, states)[i], q[i], states, piece[i])
    BY <1>3, <2>3
  <2> QED
    BY <1>2, <2>2, <2>4, <2>5 DEF D
<1> QED
  BY <1>5, <1>6

LEMMA LeavesWhole ==
  ASSUME NEW q, NEW states, ListsAll(q, states)
  PROVE  Whole(Progress(Leaves(q, states), states))
<1> DEFINE D == Counted(q, states)
           leaves == Leaves(q, states)
           sums == [i \in DOMAIN leaves |-> Total([k \in DOMAIN leaves[i] |-> leaves[i][k].share])]
           dones == [i \in DOMAIN leaves |->
                       Total([k \in DOMAIN leaves[i] |-> ShareDone(leaves[i][k], states)])]
<1>1. PICK piece :
        /\ DOMAIN leaves = D /\ Spread(D)
        /\ \A i \in D : piece[i] \in Nat /\ StageIs(leaves[i], q[i], states, piece[i])
        /\ D # {} => Total([i \in D |-> piece[i]]) = 1000
  BY LeavesAre
<1>0. D \subseteq DOMAIN q /\ \A i \in DOMAIN q : Tracked(q[i], states) # {} => i \in D
  BY DEF Counted
<1> HIDE DEF leaves, D
<1>2. ASSUME NEW i \in D
      PROVE  /\ DOMAIN leaves[i] = Tracked(q[i], states)
             /\ \A k \in DOMAIN leaves[i] :
                  leaves[i][k].id = q[i].tasks[k].id /\ leaves[i][k].share \in Nat
             /\ Weighed(leaves[i])
             /\ Total([k \in DOMAIN leaves[i] |-> leaves[i][k].share]) = piece[i]
  <2>1. StageIs(leaves[i], q[i], states, piece[i])
    BY <1>1
  <2> QED
    BY <2>1 DEF StageIs
<1>3. ASSUME NEW x \in DOMAIN states
      PROVE  \E i \in D : \E k \in DOMAIN leaves[i] :
               /\ leaves[i][k].id = x
               /\ \A j \in D : \A l \in DOMAIN leaves[j] : leaves[j][l].id = x => j = i /\ l = k
  <2>1. PICK i \in DOMAIN q : \E k \in DOMAIN q[i].tasks : q[i].tasks[k].id = x
    BY DEF ListsAll
  <2>2. PICK k \in DOMAIN q[i].tasks : q[i].tasks[k].id = x
    BY <2>1
  <2>3. k \in Tracked(q[i], states) /\ i \in D
    BY <1>0, <2>2 DEF Tracked
  <2>4. k \in DOMAIN leaves[i] /\ leaves[i][k].id = x
    BY <1>2, <2>2, <2>3
  <2>5. ASSUME NEW j \in D, NEW l \in DOMAIN leaves[j], leaves[j][l].id = x PROVE j = i /\ l = k
    <3>1. j \in DOMAIN q /\ l \in DOMAIN q[j].tasks /\ q[j].tasks[l].id = x
      BY <1>0, <1>2, <2>5 DEF Tracked
    <3> QED
      BY <2>2, <3>1 DEF ListsAll
  <2> QED
    BY <2>3, <2>4, <2>5
<1>4. \A i \in D : \A k \in DOMAIN leaves[i] : leaves[i][k].id \in DOMAIN states
  BY <1>2 DEF Tracked
<1>5. CountsOnce(leaves, states)
  BY <1>1, <1>3, <1>4 DEF CountsOnce
<1>6. \A i \in DOMAIN leaves : Weighed(leaves[i])
  BY <1>1, <1>2, ZenonT(40)
<1>7. ASSUME DOMAIN states # {} PROVE Total(sums) = 1000
  <2>1. D # {}
    BY <1>3, <1>7
  <2>2. \A i \in D : sums[i] = piece[i]
    BY <1>1, <1>2
  <2>3. sums = [i \in D |-> piece[i]]
    BY <1>1, <2>2
  <2> QED
    BY <1>1, <2>1, <2>3, ZenonT(40)
<1>8. ASSUME DOMAIN states # {}, \A x \in DOMAIN states : states[x] \in DoneStates
      PROVE  Total(dones) = 1000
  <2>1. ASSUME NEW i \in D, NEW k \in DOMAIN leaves[i] PROVE ShareDone(leaves[i][k], states) = leaves[i][k].share
    BY <1>4, <1>8, <2>1 DEF ShareDone
  <2>2. \A i \in D : [k \in DOMAIN leaves[i] |-> ShareDone(leaves[i][k], states)]
                     = [k \in DOMAIN leaves[i] |-> leaves[i][k].share]
    BY <2>1
  <2>3. dones = sums
    BY <1>1, <2>2
  <2> QED
    BY <1>7, <1>8, <2>3, ZenonT(40)
<1> DEFINE answer == Progress(leaves, states)
<1>9. answer.states = states /\ answer.leaves = leaves /\ answer.percent = Total(dones)
  BY DEF Progress
<1> HIDE DEF answer
<1>10. Whole(answer)
  BY <1>5, <1>6, <1>7, <1>8, <1>9 DEF Whole, AddsUp
<1> QED
  BY <1>10 DEF answer, leaves

(* A plan with the tasks it does not list in one more stage.               *)
LEMMA OrphansListed ==
  ASSUME NEW S, IsFiniteSet(S)
  PROVE  /\ SetToSeq(S) \in [1..Cardinality(S) -> S] /\ Cardinality(S) \in Nat
         /\ \A i, j \in 1..Cardinality(S) : SetToSeq(S)[i] = SetToSeq(S)[j] => i = j
         /\ \A x \in S : \E i \in 1..Cardinality(S) : SetToSeq(S)[i] = x
<1> DEFINE n == Cardinality(S)
           Good(f) == f \in [1..n -> S] /\ IsInjective(f)
           f == CHOOSE g \in [1..n -> S] : IsInjective(g)
<1>1. n \in Nat /\ ExistsBijection(1..n, S)
  BY FS_CardinalityType
<1>2. \E g \in [1..n -> S] : IsInjective(g)
  BY <1>1 DEF ExistsBijection, Bijection, Injection
<1>3. f \in [1..n -> S] /\ IsInjective(f)
  BY <1>2
<1>4. SetToSeq(S) = f
  BY DEF SetToSeq
<1> HIDE DEF f
<1>5. f \in Injection(1..n, S)
  BY <1>3 DEF Injection
<1>6. Cardinality(1..n) = n
  <2> HIDE DEF n
  <2>1. Cardinality(1..n) = IF 1 > n THEN 0 ELSE n - 1 + 1
    BY <1>1, FS_Interval
  <2>2. (IF 1 > n THEN 0 ELSE n - 1 + 1) = n
    BY <1>1
  <2> QED
    BY <2>1, <2>2
<1>7. f \in Surjection(1..n, S)
  BY <1>5, <1>6, FS_Injection
<1> QED
  BY <1>1, <1>3, <1>4, <1>7 DEF IsInjective, Surjection

LEMMA IdsAre ==
  ASSUME NEW p, NEW x
  PROVE  x \in Ids(p) <=> \E i \in DOMAIN p : \E k \in DOMAIN p[i].tasks : p[i].tasks[k].id = x
BY DEF Ids, ToSet

LEMMA CompletedLists ==
  ASSUME NEW p \in Plan, NEW rs, RowsOK(rs)
  PROVE  ListsAll(Completed(p, rs), rs)
<1> DEFINE S == DOMAIN rs \ Ids(p)
           orphans == SetToSeq(S)
           list == [i \in DOMAIN orphans |-> Entry(orphans[i], rs[orphans[i]])]
           others == [Stage("others") EXCEPT !.tasks = list]
           n == Len(p)
           q == Completed(p, rs)
           c == Cardinality(S)
<1>1. /\ p \in Seq(StageRow) /\ n \in Nat /\ DOMAIN p = 1..n
      /\ \A i, j \in DOMAIN p : p[i].name = p[j].name => i = j
      /\ \A i \in DOMAIN p : ListsOnce(p[i])
  BY DEF Plan
<1>2. \A i \in DOMAIN p : p[i] \in StageRow
  BY <1>1
<1>3. /\ orphans \in [1..c -> S] /\ c \in Nat
      /\ \A i, j \in 1..c : orphans[i] = orphans[j] => i = j
      /\ \A x \in S : \E i \in 1..c : orphans[i] = x
  <2>1. IsFiniteSet(S)
    BY FS_Subset DEF RowsOK
  <2> HIDE DEF S
  <2> QED
    BY <2>1, OrphansListed
<1>4. others.tasks = list /\ others.weight = Absent
  BY DEF Stage
<1>5. q = Append(p, others)
  BY DEF Completed
<1> HIDE DEF orphans, S, c
<1>6. /\ DOMAIN list = 1..c /\ list \in Seq(EntryRow)
      /\ \A i \in 1..c : list[i].id = orphans[i]
  <2>1. ASSUME NEW i \in 1..c PROVE list[i] \in EntryRow /\ list[i].id = orphans[i]
    <3>1. orphans[i] \in DOMAIN rs /\ i \in DOMAIN orphans
      BY <1>3 DEF S
    <3>2. orphans[i] \in Task /\ rs[orphans[i]] \in TaskState
      BY <3>1 DEF RowsOK
    <3> QED
      BY <3>1, <3>2 DEF Entry, EntryRow, Absent
  <2>2. DOMAIN list = 1..c
    BY <1>3
  <2>3. list \in [1..c -> EntryRow]
    BY <2>1, <2>2
  <2> QED
    BY <1>3, <2>1, <2>2, <2>3
<1> HIDE DEF list
<1>7. /\ DOMAIN q = 1..(n + 1) /\ q = [i \in DOMAIN q |-> q[i]]
      /\ \A i \in 1..n : q[i] = p[i]
      /\ q[n + 1] = others
  <2> HIDE DEF q, others, n
  <2>1. p \in [1..n -> StageRow \cup {others}] /\ n = Len(p)
    BY <1>1 DEF n
  <2>2. p \in Seq(StageRow \cup {others}) /\ others \in StageRow \cup {others}
    BY <1>1, <2>1
  <2>3. /\ Append(p, others) \in Seq(StageRow \cup {others})
        /\ Len(Append(p, others)) = n + 1
        /\ \A i \in 1..n : Append(p, others)[i] = p[i]
        /\ Append(p, others)[n + 1] = others
    BY <2>1, <2>2, AppendProperties
  <2>4. q \in [1..(n + 1) -> StageRow \cup {others}]
    <3>1. q \in Seq(StageRow \cup {others}) /\ Len(q) = n + 1
      BY <1>5, <2>3
    <3>2. q \in [1..Len(q) -> StageRow \cup {others}]
      BY <3>1
    <3> QED
      BY <3>1, <3>2
  <2> QED
    BY <1>1, <1>5, <2>3, <2>4
<1> HIDE DEF others, q, n
<1>8. \A i \in DOMAIN q : (i \in DOMAIN p /\ q[i] = p[i]) \/ (i = n + 1 /\ q[i] = others)
  BY <1>1, <1>7
<1>9. \A i \in DOMAIN q : StageOK(q[i])
  BY <1>2, <1>4, <1>6, <1>8 DEF StageOK, StageRow, Absent
<1>10. ASSUME NEW i \in DOMAIN q, NEW j \in DOMAIN q,
              NEW k \in DOMAIN q[i].tasks, NEW l \in DOMAIN q[j].tasks,
              q[i].tasks[k].id = q[j].tasks[l].id
       PROVE  i = j /\ k = l
  <2>1. CASE i \in DOMAIN p /\ q[i] = p[i] /\ j \in DOMAIN p /\ q[j] = p[j]
    <3>1. p[i].name = p[j].name
      BY <1>1, <1>10, <2>1 DEF ListsOnce
    <3> QED
      BY <1>1, <1>10, <2>1, <3>1 DEF ListsOnce
  <2>2. CASE i = n + 1 /\ q[i] = others /\ j = n + 1 /\ q[j] = others
    <3>1. k \in 1..c /\ l \in 1..c /\ list[k].id = list[l].id
      BY <1>4, <1>6, <1>10, <2>2
    <3> QED
      BY <1>3, <1>6, <2>2, <3>1
  <2>3. ASSUME NEW u \in DOMAIN q, NEW v \in DOMAIN q, u \in DOMAIN p, q[u] = p[u], q[v] = others,
               NEW a \in DOMAIN q[u].tasks, NEW b \in DOMAIN q[v].tasks
        PROVE  q[u].tasks[a].id # q[v].tasks[b].id
    <3>1. b \in 1..c /\ q[v].tasks[b].id = orphans[b] /\ orphans[b] \in S
      BY <1>3, <1>4, <1>6, <2>3
    <3>2. q[u].tasks[a].id \in Ids(p)
      BY <2>3, IdsAre
    <3> QED
      BY <3>1, <3>2 DEF S
  <2> QED
    BY <1>8, <1>10, <2>1, <2>2, <2>3
<1>11. ASSUME NEW x \in DOMAIN rs
       PROVE  \E i \in DOMAIN q : \E k \in DOMAIN q[i].tasks : q[i].tasks[k].id = x
  <2>1. CASE x \in Ids(p)
    <3>1. PICK i \in DOMAIN p : \E k \in DOMAIN p[i].tasks : p[i].tasks[k].id = x
      BY <2>1, IdsAre
    <3>2. i \in DOMAIN q /\ q[i] = p[i]
      BY <1>1, <1>7
    <3> QED
      BY <3>1, <3>2
  <2>2. CASE x \notin Ids(p)
    <3>1. PICK k \in 1..c : orphans[k] = x
      BY <1>3, <2>2 DEF S
    <3>2. n + 1 \in DOMAIN q
      BY <1>1, <1>7
    <3>3. q[n + 1].tasks = list
      BY <1>4, <1>7
    <3> QED
      BY <1>6, <3>1, <3>2, <3>3
  <2> QED
    BY <2>1, <2>2
<1>12. Spread(DOMAIN q)
  BY <1>1, <1>7 DEF Spread
<1>13. ListsAll(q, rs)
  BY <1>7, <1>9, <1>10, <1>11, <1>12 DEF ListsAll
<1> QED
  BY <1>13 DEF q

LEMMA ComputedIsWhole ==
  ASSUME NEW p \in Plan, NEW rs, RowsOK(rs)
  PROVE  Whole(ComputeProgress(p, rs))
BY CompletedLists, LeavesWhole DEF ComputeProgress

LEMMA PlanInvWhole == PlanInv => ProgressIsWhole
<1> SUFFICES ASSUME PlanInv, NEW t \in Writer, writers[t].pc = "reading" PROVE Whole(Answer(writers[t]))
  BY DEF ProgressIsWhole
<1> DEFINE w == writers[t]
<1>1. WriterOK(w) /\ plan \in Plan /\ RowsOK(rows)
  BY DEF PlanInv, PlanTypeOK
<1>2. CASE w.job = "progress"
  <2>1. RowsOK(w.rows) /\ Answer(w) = ComputeProgress(plan, w.rows)
    BY <1>1, <1>2 DEF WriterOK, Answer
  <2> QED
    BY <1>1, <2>1, ComputedIsWhole
<1>3. CASE w.job # "progress"
  <2>1. w.plan \in Plan /\ Answer(w) = ComputeProgress(w.plan, rows)
    BY <1>1, <1>3 DEF WriterOK, Answer
  <2> QED
    BY <1>1, <2>1, ComputedIsWhole
<1> QED
  BY <1>2, <1>3

-----------------------------------------------------------------------------
(* Install jobs.                                                           *)

SetupInv ==
  SetupTypeOK /\ DOMAIN runners = Job /\ DOMAIN jobs = Job

(* A step of the thread of one job, which holds the single flight.         *)
LEMMA JobKeeps ==
  ASSUME SetupInv, NEW j \in Job, runners[j].pc # "none", NEW r, Runs(j, r),
         running' = running \/ (running' = 0 /\ r.pc = "none"),
         NEW state \in {"none", "running"} \cup Ended,
         jobs' = jobs \/ jobs' = [jobs EXCEPT ![j] = state],
         lost' \in SUBSET Job, breaks' \in 0..MaxBreaks,
         UNCHANGED <<explicit, full, made, fulls, kills>>
  PROVE  SetupInv'
<1>1. running = j /\ running \in 0..MaxJobs /\ \A i \in Job : i # j => runners[i].pc = "none"
  BY DEF SetupInv, SetupTypeOK
<1>2. runners' = [runners EXCEPT ![j] = r]
  BY DEF Runs
<1>3. \A i \in Job : runners'[i].pc # "none" => running' = i
  BY <1>1, <1>2 DEF SetupInv
<1>4. \A i \in Job : jobs'[i] \in {"none", "running"} \cup Ended
  BY DEF SetupInv, SetupTypeOK
<1>5. running' \in 0..MaxJobs
  BY <1>1, SetupAssumption
<1>6. DOMAIN runners' = Job /\ DOMAIN jobs' = Job
  BY <1>2 DEF SetupInv
<1> QED
  BY <1>3, <1>4, <1>5, <1>6 DEF SetupInv, SetupTypeOK

LEMMA OutIs == Out.pc = "none"
BY DEF Out

LEMMA JobRunsKeeps ==
  ASSUME SetupInv, NEW j \in Job, JobRuns(j) \/ InstallStart(j) \/ InstallBreaks(j)
  PROVE  SetupInv'
<1>1. /\ lost \subseteq Job /\ breaks \in 0..MaxBreaks
      /\ \A i \in Job : jobs[i] \in {"none", "running"} \cup Ended
  BY DEF SetupInv, SetupTypeOK
<1>2. CASE InstallStart(j)
  BY <1>1, <1>2, JobKeeps DEF InstallStart
<1>3. CASE InstallBreaks(j)
  <2>1. breaks' \in 0..MaxBreaks
    BY <1>1, <1>3, SetupAssumption DEF InstallBreaks
  <2> QED
    BY <1>1, <1>3, <2>1, JobKeeps DEF InstallBreaks
<1>4. CASE JobBegin(j)
  BY <1>1, <1>4, JobKeeps DEF JobBegin, Fails
<1>5. CASE JobStep(j)
  BY <1>1, <1>5, JobKeeps DEF JobStep, Fails
<1>6. CASE JobDone(j)
  BY <1>1, <1>6, JobKeeps DEF JobDone
<1>7. CASE JobEnd(j)
  <2>1. lost' \in SUBSET Job
    BY <1>1, <1>7 DEF JobEnd
  <2>2. \E state \in {"none", "running"} \cup Ended :
          jobs' = jobs \/ jobs' = [jobs EXCEPT ![j] = state]
    BY <1>7 DEF JobEnd, Ended
  <2> QED
    BY <1>1, <1>7, <2>1, <2>2, JobKeeps DEF JobEnd
<1>8. CASE JobRelease(j)
  <2>1. running' = 0
    BY <1>8 DEF JobRelease, SetupInv, SetupTypeOK
  <2> QED
    BY <1>1, <1>8, <2>1, OutIs, JobKeeps DEF JobRelease
<1> QED
  BY <1>2, <1>3, <1>4, <1>5, <1>6, <1>7, <1>8 DEF JobRuns

LEMMA SetupStepKeeps ==
  ASSUME SetupInv, SetupNext \/ UNCHANGED setupVars
  PROVE  SetupInv'
<1>1. CASE UNCHANGED setupVars
  BY <1>1 DEF setupVars, SetupInv, SetupTypeOK
<1>2. ASSUME NEW r \in Requests, InstallRefused(r) PROVE SetupInv'
  <2>1. explicit' \subseteq Component
    BY <1>2, SetupAssumption DEF InstallRefused, SetupInv, SetupTypeOK
  <2> QED
    BY <1>2, <2>1 DEF InstallRefused, SetupInv, SetupTypeOK
<1>3. ASSUME NEW r \in Requests, InstallAsk(r) PROVE SetupInv'
  <2>1. explicit' \subseteq Component
    BY <1>3, SetupAssumption DEF InstallAsk, SetupInv, SetupTypeOK
  <2>2. made' \in 0..MaxJobs /\ made' \in Job /\ running' = made' /\ running' \in 0..MaxJobs
    BY <1>3, SetupAssumption DEF InstallAsk, SetupInv, SetupTypeOK, Job
  <2>3. \A i \in Job : runners[i].pc = "none"
    BY <1>3 DEF InstallAsk, SetupInv, SetupTypeOK, Job
  <2>4. \A i \in Job : i # made' => runners'[i] = runners[i]
    BY <1>3 DEF InstallAsk, Runs, SetupInv
  <2>5. \A i \in Job : runners'[i].pc # "none" => running' = i
    BY <2>2, <2>3, <2>4
  <2>6. DOMAIN runners' = Job
    BY <1>3 DEF InstallAsk, Runs, SetupInv
  <2> QED
    BY <1>3, <2>1, <2>2, <2>5, <2>6 DEF InstallAsk, SetupInv, SetupTypeOK
<1>4. CASE DiskChanges
  <2>1. fulls' \in 0..MaxFulls /\ full' \in BOOLEAN
    BY <1>4, SetupAssumption DEF DiskChanges, SetupInv, SetupTypeOK
  <2> QED
    BY <1>4, <2>1 DEF DiskChanges, SetupInv, SetupTypeOK
<1>5. CASE SetupKilled
  <2>1. kills' \in 0..MaxKills /\ lost' \subseteq Job /\ explicit' \subseteq Component
    BY <1>5, SetupAssumption DEF SetupKilled, SetupInv, SetupTypeOK
  <2>2. \A i \in Job : runners'[i].pc = "none"
    BY <1>5, OutIs DEF SetupKilled
  <2>3. DOMAIN runners' = Job /\ running' \in 0..MaxJobs
    BY <1>5, SetupAssumption DEF SetupKilled
  <2> QED
    BY <1>5, <2>1, <2>2, <2>3 DEF SetupKilled, SetupInv, SetupTypeOK
<1> QED
  BY <1>1, <1>2, <1>3, <1>4, <1>5, JobRunsKeeps DEF SetupNext

LEMMA SetupInitInv == SetupInit => SetupInv
<1> SUFFICES ASSUME SetupInit PROVE SetupInv
  OBVIOUS
<1>1. DOMAIN runners = Job /\ DOMAIN jobs = Job
  BY DEF SetupInit
<1>2. \A j \in Job : runners[j].pc = "none" /\ jobs[j] = "none"
  BY OutIs DEF SetupInit
<1>3. /\ running \in 0..MaxJobs /\ made \in 0..MaxJobs /\ breaks \in 0..MaxBreaks
      /\ fulls \in 0..MaxFulls /\ kills \in 0..MaxKills
  BY SetupAssumption DEF SetupInit
<1>4. explicit = {} /\ lost = {} /\ full = FALSE
  BY DEF SetupInit
<1> QED
  BY <1>1, <1>2, <1>3, <1>4 DEF SetupInv, SetupTypeOK

-----------------------------------------------------------------------------
(* The theorems.                                                           *)

LEMMA DeskSteps ==
  ASSUME [DeskNext]_deskVars
  PROVE  /\ EnvNext \/ UNCHANGED envVars
         /\ TomlNext \/ UNCHANGED tomlVars
         /\ PlanNext \/ UNCHANGED planVars
         /\ SetupNext \/ UNCHANGED setupVars
BY DEF DeskNext, deskVars

(* A key saved on the page is the one the console uses, whatever was saved *)
(* and started before and after, but for a key set in the environment the  *)
(* processes are started from (secret_put, the secrets file).              *)
THEOREM KeysAreFresh == DeskSpec => []KeyIsFresh
<1>1. DeskInit => KeyInv
  BY KeyInit DEF DeskInit
<1>2. KeyInv /\ [DeskNext]_deskVars => KeyInv'
  BY DeskSteps, TomlStepKeeps
<1>3. KeyInv => KeyIsFresh
  BY DEF KeyInv, KeyIsFresh, KeyUsed
<1> QED
  BY <1>1, <1>2, <1>3, PTL DEF DeskSpec

(* The thread of an install job holds the single flight, so that no two    *)
(* are at work together, whatever fails and whatever is killed             *)
(* (start_install, _run_job).                                              *)
THEOREM OneInstallAtATime == DeskSpec => []SetupTypeOK
<1>1. DeskInit => SetupInv
  BY SetupInitInv DEF DeskInit
<1>2. SetupInv /\ [DeskNext]_deskVars => SetupInv'
  BY DeskSteps, SetupStepKeeps
<1>3. SetupInv => SetupTypeOK
  BY DEF SetupInv
<1> QED
  BY <1>1, <1>2, <1>3, PTL DEF DeskSpec

(* A section saved on the page is the one that is read, list or scalar,    *)
(* whatever was saved and loaded before, as long as no save overtakes a    *)
(* load and the file has a title for every section (_load_raw, save).      *)
THEOREM SavedSectionsAreRead == WholeFile => (DeskSpec => []SavedIsRead)
<1> SUFFICES ASSUME WholeFile PROVE DeskSpec => []SavedIsRead
  OBVIOUS
<1>1. DeskInit => EnvInv
  BY EnvInitInv DEF DeskInit
<1>2. EnvInv /\ [DeskNext]_deskVars => EnvInv'
  BY DeskSteps, EnvStepInv
<1>3. EnvInv => SavedIsRead
  BY EnvInvReads
<1> QED
  BY <1>1, <1>2, <1>3, PTL DEF DeskSpec

(* As long as there are models to bind, saving the models page leaves the  *)
(* planner role bound to one there is, and a model whose key was saved is  *)
(* ready for it in every process (config_fleet_put, planner_status).       *)
THEOREM ThePlannerIsReady == DeskSpec => []PlannerIsReady
<1>1. DeskInit => TomlInv
  BY TomlInitInv DEF DeskInit
<1>2. TomlInv /\ [DeskNext]_deskVars => TomlInv'
  BY DeskSteps, TomlStepInv
<1>3. TomlInv => PlannerIsReady
  BY TomlInvReady
<1> QED
  BY <1>1, <1>2, <1>3, PTL DEF DeskSpec

(* Whatever updates of plan.json are lost, overtaken or read as nothing,   *)
(* and whenever rows and file are read, a progress that is answered counts *)
(* every task once, adds up to 100.0 %, never gives a heavier task less    *)
(* and says 100 % when all are done, for every plan, weights and rows      *)
(* (compute_progress, _distribute_pct, update_task, project_progress).     *)
THEOREM ProgressStaysWhole == DeskSpec => []ProgressIsWhole
<1>1. DeskInit => PlanInv
  BY PlanInitInv DEF DeskInit
<1>2. PlanInv /\ [DeskNext]_deskVars => PlanInv'
  BY DeskSteps, PlanStepInv
<1>3. PlanInv => ProgressIsWhole
  BY PlanInvWhole
<1> QED
  BY <1>1, <1>2, <1>3, PTL DEF DeskSpec

(* The four files stay well formed, whatever is saved, lost or killed: the *)
(* plan's stages have different names and list a task once, a role names   *)
(* only models there are, the thread of an install job holds the single    *)
(* flight (config.save, config_fleet_put, plan.update_task, start_install).*)
THEOREM DeskIsTyped == DeskSpec => []DeskTypeOK
<1> DEFINE Inv == EnvTyped /\ TomlInv /\ PlanInv /\ SetupInv
<1>1. DeskInit => Inv
  BY EnvInitTyped, TomlInitInv, PlanInitInv, SetupInitInv DEF DeskInit
<1>2. Inv /\ [DeskNext]_deskVars => Inv'
  BY DeskSteps, EnvStepTyped, TomlStepInv, PlanStepInv, SetupStepKeeps
<1>3. Inv => DeskTypeOK
  BY DEF DeskTypeOK, EnvTyped, TomlInv, PlanInv, SetupInv
<1> QED
  BY <1>1, <1>2, <1>3, PTL DEF DeskSpec
=============================================================================
