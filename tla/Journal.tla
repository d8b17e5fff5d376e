------------------------------- MODULE Journal -------------------------------
(***************************************************************************)
(* The event journal of the server: threads that append rows to the hot    *)
(* file, the rotation at the start of the server that moves the rows of    *)
(* past months to an archive, month by month, and the thread of the        *)
(* launcher that mails what the hot file reports.                          *)
(*                                                                         *)
(* A row is [id, seq, month, marker]: id counts the rows ever written, seq *)
(* is the number the code gave, marker says that the rotation wrote it.    *)
(* All rows are one unit long, so the size of the file is its length.      *)
(***************************************************************************)
EXTENDS Integers, FiniteSets, Sequences, SequencesExt, FiniteSetsExt

CONSTANTS
  Appender,   (* threads of the server that append events                   *)
  Outside,    (* threads of other processes that append, one in each        *)
  Rotator,    (* the thread that starts the server and rotates the journal  *)
  MaxMonth,   (* bound: months                                              *)
  MaxRows,    (* bound: rows ever written                                   *)
  MaxCrashes  (* bound: servers and launchers killed                        *)

ASSUME JournalAssumption ==
  /\ Rotator \notin Appender \cup Outside /\ Appender \cap Outside = {}
  /\ IsFiniteSet(Appender) /\ IsFiniteSet(Outside)
  /\ "free" \notin Appender \cup Outside \cup {Rotator} /\ "server" \notin Outside
  /\ MaxMonth \in Nat \ {0} /\ MaxRows \in Nat /\ MaxCrashes \in Nat

VARIABLES
  now,      \* the month
  hot,      \* events.jsonl
  gz,       \* the archive of each month: its rows, and whether it is torn
  cache,    \* _CACHE of each process: size and last number
  lock,     \* _LOCK of each process: the thread that holds it
  threads,  \* where each thread is
  watch,    \* the thread that mails
  sent,     \* the rows whose mail was tried
  born,     \* rows ever written
  crashes   \* kills so far

journalVars == <<now, hot, gz, cache, lock, threads, watch, sent, born, crashes>>

Thread == Appender \cup Outside \cup {Rotator}
Server == Appender \cup {Rotator}
Process == {"server"} \cup Outside
Free == "free"

ProcessOf(t) == IF t \in Outside THEN t ELSE "server"

Month == 1..MaxMonth
Row == [id : 1..MaxRows, seq : 1..MaxRows, month : Month, marker : BOOLEAN]
Seqs(rows) == {r.seq : r \in ToSet(rows)}

(* month: the month a row was stamped with.  current: the month of the     *)
(* rotation.  seq: the number just given.  gone: what is to be archived.   *)
(* keep: what the hot file will hold.                                      *)
Idle == [pc |-> "idle", month |-> 1, current |-> 1, seq |-> 0, gone |-> {}, keep |-> <<>>]
Boot == [Idle EXCEPT !.pc = "boot"]

NoCache == [size |-> -1, seq |-> 0]

(* The bound on rows counts those about to be written.                     *)
Room == born + Cardinality({t \in Thread : threads[t].pc \in {"stamped", "numbered"}}) < MaxRows

LastSeq(p) ==
  IF Len(hot) = cache[p].size THEN cache[p].seq
  ELSE Max(Seqs(hot) \cup {0})

-----------------------------------------------------------------------------
(* append.                                                                 *)

(* The time is taken before the lock.                                      *)
Stamp(t) ==
  /\ t # Rotator /\ threads[t].pc = "idle" /\ Room
  /\ threads' = [threads EXCEPT ![t].pc = "stamped", ![t].month = now]
  /\ UNCHANGED <<now, hot, gz, cache, lock, watch, sent, born, crashes>>

(* max_seq() + 1, under the lock of the process.                           *)
Number_Same(t) ==
  LET p == ProcessOf(t) IN
  /\ threads[t].pc = "stamped" /\ lock[p] = Free
  /\ lock' = [lock EXCEPT ![p] = t]
  /\ cache' = [cache EXCEPT ![p] = [size |-> Len(hot), seq |-> LastSeq(p)]]
  /\ threads' = [threads EXCEPT ![t].pc = "numbered", ![t].seq = LastSeq(p)]
  /\ UNCHANGED <<now, hot, gz, watch, sent, born, crashes>>
Number(t) ==
  LET p == ProcessOf(t) IN
  /\ threads[t].pc = "stamped" /\ lock[p] = Free
  /\ lock' = [lock EXCEPT ![p] = t]
  /\ cache' = [cache EXCEPT ![p] = [size |-> Len(hot), seq |-> LastSeq(p)]]
  /\ threads' = [threads EXCEPT ![t].pc = "numbered", ![t].seq = LastSeq(p) + 1]
  /\ UNCHANGED <<now, hot, gz, watch, sent, born, crashes>>

Write(t) ==
  LET p == ProcessOf(t) IN
  /\ threads[t].pc = "numbered"
  /\ hot' = Append(hot, [id |-> born + 1, seq |-> threads[t].seq,
                         month |-> threads[t].month, marker |-> t = Rotator])
  /\ born' = born + 1
  /\ cache' = [cache EXCEPT ![p] = [size |-> Len(hot) + 1, seq |-> threads[t].seq]]
  /\ lock' = [lock EXCEPT ![p] = Free]
  /\ threads' = [threads EXCEPT ![t] = IF t = Rotator THEN [@ EXCEPT !.pc = "marked"] ELSE Idle]
  /\ UNCHANGED <<now, gz, watch, sent, crashes>>

-----------------------------------------------------------------------------
(* rotate_events, once in the life of a server.                            *)

Past(rows, current) == {r \in ToSet(rows) : r.month < current}

(* Without the lock: is there anything to archive?  If so, a marker is     *)
(* appended first.                                                         *)
Scan_NoMarker(t) ==
  /\ t = Rotator /\ threads[t].pc = "boot" /\ Room
  /\ threads' = IF Past(hot, now) = {} THEN [threads EXCEPT ![t] = Idle]
                ELSE [threads EXCEPT ![t].pc = "marked", ![t].month = now,
                                     ![t].current = now, ![t].seq = MaxRows]
  /\ UNCHANGED <<now, hot, gz, cache, lock, watch, sent, born, crashes>>
Scan(t) ==
  /\ t = Rotator /\ threads[t].pc = "boot" /\ Room
  /\ threads' = IF Past(hot, now) = {} THEN [threads EXCEPT ![t] = Idle]
                ELSE [threads EXCEPT ![t].pc = "stamped", ![t].month = now,
                                     ![t].current = now]
  /\ UNCHANGED <<now, hot, gz, cache, lock, watch, sent, born, crashes>>

(* The files that hold each of the rows once, in the order of a field.     *)
Lines(rows, field) ==
  {file \in [1..Cardinality(rows) -> rows] :
     \A m, n \in DOMAIN file :
       m < n => file[m] # file[n] /\ file[m][field] <= file[n][field]}

(* Under the lock, the file is read again: the rows of past months before  *)
(* the marker are to go, the others stay in their order.                   *)
Rescan(t) ==
  /\ t = Rotator /\ threads[t].pc = "marked" /\ lock["server"] = Free
  /\ lock' = [lock EXCEPT !["server"] = t]
  /\ LET gone == {r \in Past(hot, threads[t].current) : r.seq < threads[t].seq}
     IN \E keep \in Lines({r \in ToSet(hot) : r.seq \notin {g.seq : g \in gone}}, "id") :
          threads' = [threads EXCEPT ![t].pc = "archiving", ![t].gone = gone, ![t].keep = keep]
  /\ UNCHANGED <<now, hot, gz, cache, watch, sent, born, crashes>>

NextMonth(t) == Min({r.month : r \in threads[t].gone})

(* _write_gz: the rows of a month that the archive does not hold yet.      *)
Fresh_All(m, batch) == batch
Fresh(m, batch) == {r \in batch : r.seq \notin Seqs(gz[m].rows)}

(* One month.  The archive is read first; reading one that is torn raises, *)
(* which ends the rotation.                                                *)
Archive_Locked(t) ==
  /\ t = Rotator /\ threads[t].pc = "archiving" /\ threads[t].gone # {}
  /\ LET m == NextMonth(t)
         batch == {r \in threads[t].gone : r.month = m}
     IN IF gz[m].torn
        THEN threads' = [threads EXCEPT ![t] = Idle] /\ UNCHANGED gz
        ELSE /\ \E file \in Lines(Fresh(m, batch), "seq") :
                  gz' = [gz EXCEPT ![m].rows = @ \o file]
             /\ threads' = [threads EXCEPT ![t].gone = @ \ batch]
  /\ UNCHANGED <<now, hot, cache, lock, watch, sent, born, crashes>>
Archive(t) ==
  /\ t = Rotator /\ threads[t].pc = "archiving" /\ threads[t].gone # {}
  /\ LET m == NextMonth(t)
         batch == {r \in threads[t].gone : r.month = m}
     IN IF gz[m].torn
        THEN /\ threads' = [threads EXCEPT ![t] = Idle]
             /\ lock' = [lock EXCEPT !["server"] = Free]
             /\ UNCHANGED gz
        ELSE /\ \E file \in Lines(Fresh(m, batch), "seq") :
                  gz' = [gz EXCEPT ![m].rows = @ \o file]
             /\ threads' = [threads EXCEPT ![t].gone = @ \ batch]
             /\ UNCHANGED lock
  /\ UNCHANGED <<now, hot, cache, watch, sent, born, crashes>>

(* The hot file is replaced by what was to be kept.                        *)
Replace(t) ==
  /\ t = Rotator /\ threads[t].pc = "archiving" /\ threads[t].gone = {}
  /\ hot' = threads[t].keep
  /\ cache' = [cache EXCEPT !["server"] = NoCache]
  /\ lock' = [lock EXCEPT !["server"] = Free]
  /\ threads' = [threads EXCEPT ![t] = Idle]
  /\ UNCHANGED <<now, gz, watch, sent, born, crashes>>

-----------------------------------------------------------------------------
(* watch_events_loop, in the process of the launcher.  at: the last line   *)
(* handled.  saved: the file of it, -1 while there is none.  lines: what   *)
(* was read.                                                               *)

WatchOff == [pc |-> "off", at |-> 0, lines |-> <<>>]

(* The first run begins at the end of the file.                            *)
WatchStart ==
  /\ watch.pc = "off"
  /\ LET first == watch.saved = -1
     IN /\ watch' = [watch EXCEPT !.pc = "looking", !.at = IF first THEN Len(hot) ELSE watch.saved]
        /\ sent' = IF first THEN sent \cup {r.id : r \in ToSet(hot)} ELSE sent
  /\ UNCHANGED <<now, hot, gz, cache, lock, threads, born, crashes>>

WatchLook ==
  /\ watch.pc = "looking" /\ Len(hot) > 0
  /\ watch' = [watch EXCEPT !.pc = "handling", !.lines = hot]
  /\ UNCHANGED <<now, hot, gz, cache, lock, threads, sent, born, crashes>>

(* The next line: a mail is tried three times, and whatever comes of it,   *)
(* the line is done with.                                                  *)
WatchHandle ==
  /\ watch.pc = "handling" /\ watch.at < Len(watch.lines)
  /\ watch' = [watch EXCEPT !.at = @ + 1]
  /\ sent' = sent \cup {watch.lines[watch.at + 1].id}
  /\ UNCHANGED <<now, hot, gz, cache, lock, threads, born, crashes>>

WatchSave_Read ==
  /\ watch.pc = "handling"
  /\ watch' = [watch EXCEPT !.pc = IF watch.at >= Len(watch.lines) THEN "looking" ELSE @,
                            !.saved = Len(watch.lines),
                            !.lines = IF watch.at >= Len(watch.lines) THEN <<>> ELSE @]
  /\ UNCHANGED <<now, hot, gz, cache, lock, threads, sent, born, crashes>>
WatchSave ==
  /\ watch.pc = "handling" /\ watch.at >= Len(watch.lines)
  /\ watch' = [watch EXCEPT !.pc = "looking", !.saved = watch.at, !.lines = <<>>]
  /\ UNCHANGED <<now, hot, gz, cache, lock, threads, sent, born, crashes>>

-----------------------------------------------------------------------------
NewMonth ==
  /\ now < MaxMonth
  /\ now' = now + 1
  /\ UNCHANGED <<hot, gz, cache, lock, threads, watch, sent, born, crashes>>

(* The server is killed and started again.  A member of an archive that    *)
(* was being written may be cut off: nothing of the file can then be read  *)
(* to its end.                                                             *)
Kill ==
  /\ crashes < MaxCrashes
  /\ LET r == threads[Rotator]
         writing == r.pc = "archiving" /\ r.gone # {}
     IN \E torn \in {FALSE, writing} :
          gz' = IF torn THEN [gz EXCEPT ![NextMonth(Rotator)].torn = TRUE] ELSE gz
  /\ threads' = [t \in Thread |-> IF t = Rotator THEN Boot
                                  ELSE IF t \in Server THEN Idle ELSE threads[t]]
  /\ lock' = [lock EXCEPT !["server"] = Free]
  /\ cache' = [cache EXCEPT !["server"] = NoCache]
  /\ crashes' = crashes + 1
  /\ UNCHANGED <<now, hot, watch, sent, born>>

(* The launcher is killed.                                                 *)
KillWatch ==
  /\ watch.pc # "off" /\ crashes < MaxCrashes
  /\ watch' = [watch EXCEPT !.pc = "off", !.at = 0, !.lines = <<>>]
  /\ crashes' = crashes + 1
  /\ UNCHANGED <<now, hot, gz, cache, lock, threads, sent, born>>

JournalInit ==
  /\ now = 1 /\ hot = <<>> /\ sent = {} /\ born = 0 /\ crashes = 0
  /\ gz = [m \in Month |-> [rows |-> <<>>, torn |-> FALSE]]
  /\ cache = [p \in Process |-> NoCache]
  /\ lock = [p \in Process |-> Free]
  /\ threads = [t \in Thread |-> IF t = Rotator THEN Boot ELSE Idle]
  /\ watch = [pc |-> "off", at |-> 0, lines |-> <<>>, saved |-> -1]

Appending(t) == Stamp(t) \/ Number(t) \/ Write(t)
Rotating(t) == Scan(t) \/ Rescan(t) \/ Archive(t) \/ Replace(t)
Watching == WatchStart \/ WatchLook \/ WatchHandle \/ WatchSave

JournalNext ==
  \/ \E t \in Thread : Appending(t) \/ Rotating(t)
  \/ Watching \/ NewMonth \/ Kill \/ KillWatch

JournalSpec ==
  /\ JournalInit /\ [][JournalNext]_journalVars
  /\ \A t \in Thread : WF_journalVars(Number(t) \/ Write(t) \/ Rotating(t))
-----------------------------------------------------------------------------
Archived == UNION {ToSet(gz[m].rows) : m \in Month}

JournalTypeOK ==
  /\ now \in Month /\ born \in 0..MaxRows
  /\ ToSet(hot) \subseteq Row /\ Len(hot) <= MaxRows
  /\ \A m \in Month : gz[m].torn \in BOOLEAN /\ ToSet(gz[m].rows) \subseteq Row
  /\ \A p \in Process : cache[p].size \in -1..MaxRows /\ cache[p].seq \in 0..MaxRows
  /\ \A p \in Process : lock[p] \in Thread \cup {Free}
  /\ sent \subseteq 1..born

(* Whatever is killed when, a row that was written is in the hot file or   *)
(* in the archive.                                                         *)
NothingLost == \A i \in 1..born : \E r \in ToSet(hot) \cup Archived : r.id = i

(* A new row gets a number above every number given before, in the hot     *)
(* file or in the archive: no reader's cursor is ever ahead of a new row.  *)
SeqGrows ==
  [][born' > born =>
       \A r \in ToSet(hot) \cup Archived : r.seq < hot'[Len(hot')].seq]_journalVars

(* Hot file and archives together hold one log (read_all), a row perhaps   *)
(* twice: a rotation, wherever it is cut off, neither loses nor changes a  *)
(* row of it, and rows are added to it one number after the other.         *)
OneLog == INSTANCE EventLog WITH log <- ToSet(hot) \cup Archived, last <- born
LogOnlyGrows == OneLog!Spec

(* A rotation cut off leaves rows twice; the next one that ends mends it:  *)
(* verify_continuity finds no gap and no duplicate.                        *)
File == {0} \cup Month
LinesOf(f) == IF f = 0 THEN hot ELSE gz[f].rows
Continuous ==
  \A n \in 1..born : \E f \in File : \E i \in DOMAIN LinesOf(f) :
    \A g \in File : \A j \in DOMAIN LinesOf(g) :
      LinesOf(g)[j].seq = n <=> (g = f /\ j = i)
RotationMends ==
  (threads[Rotator].pc = "idle" /\ \A m \in Month : ~gz[m].torn) => Continuous

(* What the watcher is done with was mailed, as long as no row has left    *)
(* the hot file: a kill makes it mail twice, never skip.                   *)
Done == IF watch.pc = "off" THEN watch.saved ELSE watch.at
SavedIsSent ==
  Archived = {} => \A i \in DOMAIN hot : i <= Done => hot[i].id \in sent

(* The watcher mails each new event of the file.                           *)
EventsAreMailed ==
  \A i \in DOMAIN hot : (i <= Done /\ ~hot[i].marker) => hot[i].id \in sent

(* The rotation ends, and releases the lock the appenders wait for.        *)
LockIsReleased == \A t \in Appender : threads[t].pc = "stamped" ~> threads[t].pc = "idle"
=============================================================================
