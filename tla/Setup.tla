-------------------------------- MODULE Setup --------------------------------
(***************************************************************************)
(* The install job of the setup page: one at a time in a process, in a     *)
(* thread of its own that goes through the components and writes each step *)
(* to the job's file.  Writing may fail, the process may be killed.        *)
(***************************************************************************)
EXTENDS Integers, FiniteSets, Sequences, SequencesExt

CONSTANTS
  Component,  (* components of the manifest                                 *)
  Standard,   (* those installed by default                                 *)
  Requests,   (* lists of components that are asked for                      *)
  MaxJobs,    (* bound: jobs                                                *)
  MaxBreaks,  (* bound: manifests that cannot be read                       *)
  MaxFulls,   (* bound: changes of the disk between full and not            *)
  MaxKills    (* bound: kills of the process                                *)

ASSUME SetupAssumption ==
  /\ Standard \subseteq Component
  /\ \A r \in Requests : ToSet(r) \subseteq Component /\ r # <<>>
  /\ MaxJobs \in Nat /\ MaxBreaks \in Nat /\ MaxFulls \in Nat /\ MaxKills \in Nat

VARIABLES
  running,   \* the job that holds the single flight, 0 for none
  runners,   \* where the thread of each job is
  jobs,      \* the state each job's file ends with
  explicit,  \* components somebody asked for by name
  full,      \* writing fails
  lost,      \* jobs whose end could not be written
  made, breaks, fulls, kills

setupVars == <<running, runners, jobs, explicit, full, lost, made, breaks, fulls, kills>>

Job == 1..MaxJobs
Out == [pc |-> "none", todo |-> <<>>, bad |-> FALSE]
Live(j) == runners[j].pc \in {"begin", "work", "end", "release"}
Ended == {"succeeded", "failed"}

Runs(j, r) == runners' = [runners EXCEPT ![j] = r]
-----------------------------------------------------------------------------
(* The names are noted before anything else, also when the job is refused. *)
InstallRefused(r) ==
  /\ running # 0 /\ explicit' = explicit \cup ToSet(r)
  /\ UNCHANGED <<running, runners, jobs, full, lost, made, breaks, fulls, kills>>

InstallAsk(r) ==
  /\ running = 0 /\ made < MaxJobs /\ made' = made + 1
  /\ explicit' = explicit \cup ToSet(r)
  /\ running' = made' /\ Runs(made', [Out EXCEPT !.pc = "claimed", !.todo = r])
  /\ UNCHANGED <<jobs, full, lost, breaks, fulls, kills>>

InstallStart(j) ==
  /\ runners[j].pc = "claimed"
  /\ Runs(j, [runners[j] EXCEPT !.pc = "begin"])
  /\ UNCHANGED <<running, jobs, explicit, full, lost, made, breaks, fulls, kills>>

(* The manifest cannot be read once the job is claimed: no thread starts,  *)
(* the single flight stays taken.                                          *)
InstallBreaks(j) ==
  /\ runners[j].pc = "claimed" /\ breaks < MaxBreaks /\ breaks' = breaks + 1
  /\ Runs(j, Out)
  /\ UNCHANGED <<running, jobs, explicit, full, lost, made, fulls, kills>>

(* A write that fails in the job, or in the report of a failed component,  *)
(* leads to its end.                                                       *)
Fails(j) == Runs(j, [runners[j] EXCEPT !.pc = "end", !.todo = <<>>, !.bad = TRUE])

JobBegin(j) ==
  /\ runners[j].pc = "begin"
  /\ IF full THEN Fails(j) /\ UNCHANGED jobs
     ELSE /\ jobs' = [jobs EXCEPT ![j] = "running"]
          /\ Runs(j, [runners[j] EXCEPT !.pc = "work"])
  /\ UNCHANGED <<running, explicit, full, lost, made, breaks, fulls, kills>>

(* A component that is neither standard nor asked for is skipped.          *)
Skipped(c) == c \notin Standard /\ c \notin explicit

(* Skipping succeeds.  Every other component fails: the search for npm adds*)
(* a string to a path and raises, a script is left to the user and reported*)
(* as skipped, the other kinds of the manifest are none the job knows.     *)
StepOk(c) == Skipped(c)

JobStep(j) ==
  /\ runners[j].pc = "work" /\ runners[j].todo # <<>>
  /\ IF full THEN Fails(j)
     ELSE Runs(j, [runners[j] EXCEPT !.todo = Tail(@), !.bad = @ \/ ~StepOk(Head(runners[j].todo))])
  /\ UNCHANGED <<running, jobs, explicit, full, lost, made, breaks, fulls, kills>>

JobDone(j) ==
  /\ runners[j].pc = "work" /\ runners[j].todo = <<>>
  /\ Runs(j, [runners[j] EXCEPT !.pc = "end"])
  /\ UNCHANGED <<running, jobs, explicit, full, lost, made, breaks, fulls, kills>>

(* The final state is written, and whether or not that succeeds the single *)
(* flight is released.                                                     *)
AfterEnd_IfWritten(j) == IF full THEN Out ELSE [runners[j] EXCEPT !.pc = "release"]
AfterEnd(j) == [runners[j] EXCEPT !.pc = "release"]

JobEnd(j) ==
  /\ runners[j].pc = "end"
  /\ IF full THEN lost' = lost \cup {j} /\ UNCHANGED jobs
     ELSE /\ jobs' = [jobs EXCEPT ![j] = IF runners[j].bad THEN "failed" ELSE "succeeded"]
          /\ UNCHANGED lost
  /\ Runs(j, AfterEnd(j))
  /\ UNCHANGED <<running, explicit, full, made, breaks, fulls, kills>>

JobRelease(j) ==
  /\ runners[j].pc = "release"
  /\ running' = IF running = j THEN 0 ELSE running
  /\ Runs(j, Out)
  /\ UNCHANGED <<jobs, explicit, full, lost, made, breaks, fulls, kills>>

DiskChanges ==
  /\ fulls < MaxFulls /\ fulls' = fulls + 1
  /\ full' = ~full
  /\ UNCHANGED <<running, runners, jobs, explicit, lost, made, breaks, kills>>

(* The process is killed: what it held in memory is gone, a job under way  *)
(* leaves its file as it is.                                               *)
SetupKilled ==
  /\ kills < MaxKills /\ kills' = kills + 1
  /\ running' = 0 /\ explicit' = {}
  /\ runners' = [j \in Job |-> Out]
  /\ lost' = lost \cup {j \in Job : Live(j) /\ jobs[j] \notin Ended}
  /\ UNCHANGED <<jobs, full, made, breaks, fulls>>

SetupInit ==
  /\ running = 0 /\ runners = [j \in Job |-> Out]
  /\ jobs = [j \in Job |-> "none"]
  /\ explicit = {} /\ full = FALSE /\ lost = {}
  /\ made = 0 /\ breaks = 0 /\ fulls = 0 /\ kills = 0

JobRuns(j) == JobBegin(j) \/ JobStep(j) \/ JobDone(j) \/ JobEnd(j) \/ JobRelease(j)

SetupNext ==
  \/ \E r \in Requests : InstallRefused(r) \/ InstallAsk(r)
  \/ \E j \in Job : InstallStart(j) \/ InstallBreaks(j) \/ JobRuns(j)
  \/ DiskChanges \/ SetupKilled
-----------------------------------------------------------------------------
(* A job whose thread has started ends: its file says how, unless that     *)
(* could not be written or the process was killed, and in any case the next*)
(* install is not refused because of it, whatever write failed on the way. *)
InstallEnds ==
  \A j \in Job :
    Live(j) ~> (~Live(j) /\ running # j /\ (jobs[j] \in Ended \/ j \in lost))

(* Threads of two jobs are never at work together.                         *)
SetupTypeOK ==
  /\ running \in 0..MaxJobs /\ explicit \subseteq Component /\ lost \subseteq Job
  /\ \A j \in Job : runners[j].pc # "none" => running = j
  /\ \A j \in Job : jobs[j] \in {"none", "running"} \cup Ended
  /\ full \in BOOLEAN
  /\ made \in 0..MaxJobs /\ breaks \in 0..MaxBreaks /\ fulls \in 0..MaxFulls /\ kills \in 0..MaxKills
=============================================================================
