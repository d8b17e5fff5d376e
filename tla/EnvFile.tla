------------------------------- MODULE EnvFile -------------------------------
(***************************************************************************)
(* The .env file: sections under titles; a list section keeps item i, field*)
(* f under the key <<i, f>>, a scalar section one key per setting, which   *)
(* counts only under the title of its section.  The console saves a section*)
(* by patching lines of the file; whoever loads one parses the file again  *)
(* when its modification time is another than the cache's.  Loads run on   *)
(* several threads, saves on the console's event loop.                     *)
(*                                                                         *)
(* One list section and the scalar sections of Scalar, one setting each.   *)
(***************************************************************************)
EXTENDS Integers, FiniteSets, Sequences, SequencesExt

CONSTANTS
  Loader,    (* threads that load sections                                  *)
  Titles,    (* titles of the file, in order                                *)
  Scalar,    (* scalar sections                                             *)
  Value,     (* values a setting or a field may have                        *)
  Lists,     (* lists the console may save: complete items                  *)
  Slow,      (* a load may be overtaken by a save                           *)
  MaxSaves,  (* bound: saves                                                *)
  MaxTicks   (* bound: ticks of the file system's clock                     *)

Field == {"name", "level"}

ASSUME EnvAssumption ==
  /\ Slow \in BOOLEAN /\ MaxSaves \in Nat /\ MaxTicks \in Nat
  /\ Titles \in Seq(STRING) /\ Len(Titles) > 0
  /\ Lists \subseteq Seq([Field -> STRING])
  /\ "list" \notin Scalar

VARIABLES
  env,     \* the keys of the list, the line of each scalar
  mtime,   \* modification time of the file
  clock,
  cache,   \* the parse kept in memory, with the time it was made for
  loader,  \* what each load is at
  saved,   \* what was last saved in each section
  saves

envVars == <<env, mtime, clock, cache, loader, saved, saves>>

Never == -1
Unset == "default"

Waiting == [pc |-> "idle", mtime |-> Never, env |-> [keys |-> <<>>, lines |-> <<>>]]
-----------------------------------------------------------------------------
(* The keys of a list of items, and the items of a set of keys: an item    *)
(* per index there is, in order; a field without key is empty.             *)
KeysOf(items) == [k \in (DOMAIN items) \X Field |-> items[k[1]][k[2]]]

Indices(keys) ==
  LET at == {k[1] : k \in DOMAIN keys} IN
  [i \in 1..Cardinality(at) |-> CHOOSE n \in at : Cardinality({m \in at : m < n}) = i - 1]

GroupIndexed(keys) ==
  LET at == Indices(keys) IN
  [i \in DOMAIN at |->
     [f \in Field |-> IF <<at[i], f>> \in DOMAIN keys THEN keys[<<at[i], f>>] ELSE ""]]

(* Indices seen beyond the number of items saved lose all their fields.    *)
PatchedList_Keep(keys, seen, items) ==
  [k \in DOMAIN keys \cup DOMAIN KeysOf(items) |->
     IF k \in DOMAIN KeysOf(items) THEN KeysOf(items)[k] ELSE keys[k]]

PatchedList(keys, seen, items) ==
  LET stale == {seen[i] : i \in {n \in DOMAIN seen : n > Len(items)}}
      kept == {k \in DOMAIN keys : k[1] \notin stale} IN
  [k \in kept \cup DOMAIN KeysOf(items) |->
     IF k \in DOMAIN KeysOf(items) THEN KeysOf(items)[k] ELSE keys[k]]

(* A scalar's line is changed where it is; a new one goes to the end of its*)
(* section, or of the file when its section has no title.                  *)
TitleFor(section) == IF section \in ToSet(Titles) THEN section ELSE Titles[Len(Titles)]

PatchedLine(lines, section, value) ==
  [s \in DOMAIN lines \cup {section} |->
     IF s # section THEN lines[s]
     ELSE [under |-> IF s \in DOMAIN lines THEN lines[s].under ELSE TitleFor(s), value |-> value]]

(* What load returns of a parse.                                           *)
ScalarOf(e, section) ==
  IF section \in DOMAIN e.lines /\ e.lines[section].under = section
  THEN e.lines[section].value ELSE Unset
-----------------------------------------------------------------------------
(* _load_raw: the time of the file, its text when the cache is for another *)
(* time, then the cache's time and the cache's values, one after the other.*)
Loads(l, r) == loader' = [loader EXCEPT ![l] = r]

LoadStat(l) ==
  /\ loader[l].pc = "idle" /\ cache.mtime # mtime
  /\ Loads(l, [pc |-> "read", mtime |-> mtime, env |-> Waiting.env])
  /\ UNCHANGED <<env, mtime, clock, cache, saved, saves>>

LoadRead(l) ==
  /\ loader[l].pc = "read"
  /\ Loads(l, [pc |-> "time", mtime |-> loader[l].mtime, env |-> env])
  /\ UNCHANGED <<env, mtime, clock, cache, saved, saves>>

LoadTime(l) ==
  /\ loader[l].pc = "time"
  /\ cache' = [cache EXCEPT !.mtime = loader[l].mtime]
  /\ Loads(l, [loader[l] EXCEPT !.pc = "values"])
  /\ UNCHANGED <<env, mtime, clock, saved, saves>>

LoadValues(l) ==
  /\ loader[l].pc = "values"
  /\ cache' = [cache EXCEPT !.env = loader[l].env]
  /\ Loads(l, Waiting)
  /\ UNCHANGED <<env, mtime, clock, saved, saves>>

(* A save reads the file itself, replaces it and leaves the cache without  *)
(* a time.  The indices of a list come through the cache.                  *)
Settled == \A l \in Loader : loader[l].pc = "idle"
Through == IF cache.mtime = mtime THEN cache.env ELSE env

Forgotten(c) == [c EXCEPT !.mtime = Never]

Written(e, section, data) ==
  /\ saves < MaxSaves /\ saves' = saves + 1
  /\ Slow \/ Settled
  /\ env' = e /\ mtime' = clock
  /\ saved' = [saved EXCEPT ![section] = data]

SaveList(items) ==
  /\ Written([env EXCEPT !.keys = PatchedList(@, Indices(Through.keys), items)], "list", items)
  /\ cache' = Forgotten([cache EXCEPT !.env = Through])
  /\ UNCHANGED <<clock, loader>>

SaveScalar(section, value) ==
  /\ Written([env EXCEPT !.lines = PatchedLine(@, section, value)], section, value)
  /\ cache' = Forgotten(cache)
  /\ UNCHANGED <<clock, loader>>

(* Two saves may carry one modification time.                              *)
Tick ==
  /\ clock < MaxTicks /\ clock' = clock + 1
  /\ UNCHANGED <<env, mtime, cache, loader, saved, saves>>

(* The file as the template of some version left it: a list, and a line for*)
(* some settings of the sections it has.                                   *)
EnvInit ==
  /\ \E items \in Lists, S \in SUBSET (Scalar \cap ToSet(Titles)) :
       /\ env = [keys |-> KeysOf(items), lines |-> [s \in S |-> [under |-> s, value |-> Unset]]]
       /\ saved = [s \in Scalar \cup {"list"} |-> IF s = "list" THEN items ELSE Unset]
  /\ mtime = 0 /\ clock = 0
  /\ cache = [mtime |-> Never, env |-> [keys |-> <<>>, lines |-> <<>>]]
  /\ loader = [l \in Loader |-> Waiting]
  /\ saves = 0

EnvNext ==
  \/ \E l \in Loader : LoadStat(l) \/ LoadRead(l) \/ LoadTime(l) \/ LoadValues(l)
  \/ \E items \in Lists : SaveList(items)
  \/ \E section \in Scalar, value \in Value : SaveScalar(section, value)
  \/ Tick
-----------------------------------------------------------------------------
(* What was saved is what is loaded: once no load is under way, loading a  *)
(* section, through the cache as it stands, returns the list and the       *)
(* settings saved last, no item of an earlier list and no default.         *)
SavedIsRead ==
  Settled => /\ GroupIndexed(Through.keys) = saved["list"]
             /\ \A section \in Scalar : ScalarOf(Through, section) = saved[section]

EnvTypeOK ==
  /\ \A k \in DOMAIN env.keys : k[1] \in Nat \ {0} /\ k[2] \in Field
  /\ \A s \in DOMAIN env.lines : s \in Scalar /\ env.lines[s].under \in ToSet(Titles)
  /\ mtime <= clock /\ cache.mtime <= mtime /\ clock \in 0..MaxTicks
  /\ \A l \in Loader : loader[l].pc \in {"idle", "read", "time", "values"}
  /\ saves \in 0..MaxSaves
=============================================================================
