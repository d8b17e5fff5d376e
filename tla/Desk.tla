--------------------------------- MODULE Desk ---------------------------------
(***************************************************************************)
(* The files the console keeps for its user: the .env file, fleet.toml with*)
(* the secrets, plan.json, the files of install jobs.  They share a process*)
(* and nothing else, so a behaviour here changes one of them: part says    *)
(* which.                                                                  *)
(***************************************************************************)
EXTENDS EnvFile, FleetToml, PlanFile, Setup

CONSTANT Parts

ASSUME DeskAssumption == Parts \subseteq {"env", "toml", "plan", "setup"}

VARIABLE part

deskVars == <<part, envVars, tomlVars, planVars, setupVars>>

DeskInit ==
  /\ part \in Parts
  /\ EnvInit /\ TomlInit /\ PlanInit /\ SetupInit
  /\ part # "env" => saved["list"] = <<>> /\ env.lines = <<>>

DeskNext ==
  /\ UNCHANGED part
  /\ \/ part = "env" /\ EnvNext /\ UNCHANGED <<tomlVars, planVars, setupVars>>
     \/ part = "toml" /\ TomlNext /\ UNCHANGED <<envVars, planVars, setupVars>>
     \/ part = "plan" /\ PlanNext /\ UNCHANGED <<envVars, tomlVars, setupVars>>
     \/ part = "setup" /\ SetupNext /\ UNCHANGED <<envVars, tomlVars, planVars>>

(* A thread that was started is given time by the scheduler.               *)
DeskSpec ==
  /\ DeskInit /\ [][DeskNext]_deskVars
  /\ \A j \in Job :
       WF_deskVars(part = "setup" /\ JobRuns(j) /\ UNCHANGED <<part, envVars, tomlVars, planVars>>)
-----------------------------------------------------------------------------
(* The types of the four files' state, what keeps each well formed         *)
(* included: stages have different names and list a task once, a role names*)
(* only models there are, the thread of a job holds the single flight.     *)
DeskTypeOK == EnvTypeOK /\ TomlTypeOK /\ PlanTypeOK /\ SetupTypeOK
=============================================================================
