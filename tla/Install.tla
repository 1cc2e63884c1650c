------------------------------- MODULE Install -------------------------------
(***************************************************************************)
(* skid.install: an install and an uninstall, each a list of commands run  *)
(* in order until one fails, on a machine that an earlier run may have     *)
(* left half done.  A run may also be cut off between two commands, or in  *)
(* the middle of the one that removes two files.                           *)
(*                                                                         *)
(* A command does the whole of its work or none.  It fails where the       *)
(* machine is not as it needs it (Works), or for a reason of its own, the  *)
(* network or the disk, which is a fault.  A dry run changes nothing and   *)
(* is left out.                                                            *)
(***************************************************************************)

CONSTANT
  AtCheckout   \* do the paths lead to the checkout?  They do where the tests
               \* make them; main() makes them of checkout_root(), which is
               \* packages/skid, and for it this is FALSE

ASSUME InstallAssumption == AtCheckout \in BOOLEAN

Tools == {"skid", "skid-mcp"}

Units == {"skid.socket", "skid.service"}

VARIABLES
  tools,         \* the tool environments uv has made
  model,         \* can the service's environment import en_core_web_sm?
  units,         \* the unit files in place
  known,         \* the units systemd has read
  enabled,       \* is the symlink there that enables the socket?
  listening,     \* is the socket active?
  registration,  \* of the MCP client: "none", "ours" or "other"
  job,           \* "install" or "uninstall", the last one begun
  at,            \* the command its run has come to, or "rest"
  owed,          \* the registration steps its plan holds
  found,         \* was anything of skid there when it began?
  faulted,       \* did a command fail for a reason of its own?
  result         \* of the last run: "none", "done", "failed", "cut", "left"

machine == <<tools, model, units, known, enabled, listening, registration>>
installVars == <<machine, job, at, owed, found, faulted, result>>

InstallInit ==
  /\ tools = {} /\ units = {} /\ known = {}
  /\ model = FALSE /\ enabled = FALSE /\ listening = FALSE
  /\ registration \in {"none", "ours", "other"}
  /\ job = "install" /\ at = "rest" /\ owed = {}
  /\ found = FALSE /\ faulted = FALSE /\ result = "none"

-----------------------------------------------------------------------------
\* The plan, and what its commands need

(* already_installed(): the filesystem is asked, never the client. *)
Present == units # {} \/ tools # {}

(* Mutant of RegistrationSteps: a reinstall only adds. *)
AddOnly == IF registration = "ours" THEN {} ELSE {"register"}

(* _registration_steps(): none where the entry is the one wanted; a first  *)
(* install adds, a reinstall removes and adds.                             *)
RegistrationSteps ==
  IF registration = "ours" THEN {}
    ELSE IF Present THEN {"unregister", "register"} ELSE {"register"}

(* Does the command that is due exit with 0?                               *)
Works ==
  /\ at \in {"tool skid", "tool skid-mcp", "check", "copy socket", "copy service"}
       => AtCheckout
  /\ at = "check" => "skid" \in tools
  /\ at \in {"enable", "disable"} => "skid.socket" \in units
  /\ at = "stop" => "skid.service" \in units \cup known
  /\ at = "register" => registration = "none"
  /\ at \in {"unregister", "forget"} => registration # "none"
  /\ at = "remove skid" => "skid" \in tools
  /\ at = "remove skid-mcp" => "skid-mcp" \in tools
  /\ at = "verify" => enabled /\ listening /\ model

(* The output says that the machine is already as the step wants it.       *)
Tolerated == at \in {"register", "unregister", "forget"}

(* The command that is due works, and the run goes on to the next. *)
Step(here, there) == at = here /\ Works /\ at' = there

-----------------------------------------------------------------------------
\* install()

(* A command is not on PATH, or the question is answered with no. *)
InstallDeclined ==
  /\ at = "rest"
  /\ job' = "install"
  /\ \/ result' = "failed" /\ faulted' = TRUE
     \/ Present /\ result' = "left" /\ faulted' = FALSE
  /\ UNCHANGED <<machine, at, owed, found>>

InstallBegin ==
  /\ at = "rest"
  /\ job' = "install"
  /\ at' = "tool skid"
  /\ owed' = RegistrationSteps
  /\ found' = Present
  /\ faulted' = FALSE
  /\ result' = "none"
  /\ UNCHANGED machine

(* uv makes or replaces an environment; the model may be missing from it.  *)
InstallService ==
  /\ Step("tool skid", "tool skid-mcp")
  /\ tools' = tools \cup {"skid"}
  /\ model' \in BOOLEAN
  /\ faulted' = (faulted \/ ~model')
  /\ UNCHANGED <<units, known, enabled, listening, registration, job, owed,
                 found, result>>

InstallShim ==
  /\ Step("tool skid-mcp", "check")
  /\ tools' = tools \cup {"skid-mcp"}
  /\ UNCHANGED <<model, units, known, enabled, listening, registration, job,
                 owed, found, faulted, result>>

(* systemd verifies both units, before the first is copied. *)
CheckUnits ==
  /\ Step("check", "copy socket")
  /\ UNCHANGED <<machine, job, owed, found, faulted, result>>

CopyUnit ==
  /\ \/ Step("copy socket", "copy service") /\ units' = units \cup {"skid.socket"}
     \/ Step("copy service", "reload") /\ units' = units \cup {"skid.service"}
  /\ UNCHANGED <<tools, model, known, enabled, listening, registration, job,
                 owed, found, faulted, result>>

Reload ==
  /\ Step("reload", "enable")
  /\ known' = units
  /\ UNCHANGED <<tools, model, units, enabled, listening, registration, job,
                 owed, found, faulted, result>>

Enable ==
  /\ Step("enable", IF owed = {} THEN "verify"
                    ELSE IF "unregister" \in owed THEN "unregister" ELSE "register")
  /\ enabled' = TRUE
  /\ listening' = TRUE
  /\ UNCHANGED <<tools, model, units, known, registration, job, owed, found,
                 faulted, result>>

Unregister ==
  /\ Step("unregister", "register")
  /\ registration' = "none"
  /\ UNCHANGED <<tools, model, units, known, enabled, listening, job, owed,
                 found, faulted, result>>

Register ==
  /\ Step("register", "verify")
  /\ registration' = "ours"
  /\ UNCHANGED <<tools, model, units, known, enabled, listening, job, owed,
                 found, faulted, result>>

(* verify_installed(): nothing of it opens the socket. *)
Verify ==
  /\ Step("verify", "rest")
  /\ result' = "done"
  /\ UNCHANGED <<machine, job, owed, found, faulted>>

-----------------------------------------------------------------------------
\* uninstall()

(* Mutant of FirstToUndo: the socket is not disabled. *)
UnitsFirst == "remove units"

FirstToUndo == "disable"

UninstallBegin ==
  /\ at = "rest"
  /\ job' = "uninstall"
  /\ at' = FirstToUndo
  /\ faulted' = FALSE
  /\ result' = "none"
  /\ UNCHANGED <<machine, owed, found>>

Disable ==
  /\ Step("disable", "stop")
  /\ enabled' = FALSE
  /\ listening' = FALSE
  /\ UNCHANGED <<tools, model, units, known, registration, job, owed, found,
                 faulted, result>>

StopService ==
  /\ Step("stop", "remove units")
  /\ UNCHANGED <<machine, job, owed, found, faulted, result>>

RemoveUnits ==
  /\ Step("remove units", "reload away")
  /\ units' = {}
  /\ UNCHANGED <<tools, model, known, enabled, listening, registration, job,
                 owed, found, faulted, result>>

ReloadAway ==
  /\ Step("reload away", "forget")
  /\ known' = units
  /\ UNCHANGED <<tools, model, units, enabled, listening, registration, job,
                 owed, found, faulted, result>>

Forget ==
  /\ Step("forget", "remove skid-mcp")
  /\ registration' = "none"
  /\ UNCHANGED <<tools, model, units, known, enabled, listening, job, owed,
                 found, faulted, result>>

RemoveShim ==
  /\ Step("remove skid-mcp", "remove skid")
  /\ tools' = tools \ {"skid-mcp"}
  /\ UNCHANGED <<model, units, known, enabled, listening, registration, job,
                 owed, found, faulted, result>>

RemoveService ==
  /\ Step("remove skid", "rest")
  /\ tools' = tools \ {"skid"}
  /\ model' = FALSE
  /\ result' = "done"
  /\ UNCHANGED <<units, known, enabled, listening, registration, job, owed,
                 found, faulted>>

-----------------------------------------------------------------------------
\* run() and perform(), where a command does not work

(* The message is one the step tolerates: the run goes on. *)
AlreadySo ==
  /\ ~Works
  /\ Tolerated
  /\ at' = CASE at = "unregister" -> "register"
             [] at = "register" -> "verify"
             [] at = "forget" -> "remove skid-mcp"
  /\ UNCHANGED <<machine, job, owed, found, faulted, result>>

(* Any other failure ends the run, the rest of the plan not run. *)
StepFails ==
  /\ at # "rest"
  /\ \/ ~Works /\ ~Tolerated /\ UNCHANGED faulted
     \/ faulted' = TRUE
  /\ at' = "rest"
  /\ result' = "failed"
  /\ UNCHANGED <<machine, job, owed, found>>

(* The run is interrupted, rm perhaps between its two files. *)
Cut ==
  /\ at # "rest"
  /\ at' = "rest"
  /\ result' = "cut"
  /\ units' \in {units} \cup
       (IF at = "remove units" THEN {units \ {"skid.socket"}} ELSE {})
  /\ UNCHANGED <<tools, model, known, enabled, listening, registration, job,
                 owed, found, faulted>>

(* The machine is started again: systemd reads what is there. *)
Reboot ==
  /\ at' = "rest"
  /\ result' = IF at = "rest" THEN result ELSE "cut"
  /\ known' = units
  /\ listening' = enabled
  /\ UNCHANGED <<tools, model, units, enabled, registration, job, owed, found,
                 faulted>>

(* A person registers something else under the name, or nothing. *)
RegisterByHand ==
  /\ at = "rest"
  /\ registration' \in {"none", "other"}
  /\ result' = "none"
  /\ UNCHANGED <<tools, model, units, known, enabled, listening, job, at, owed,
                 found, faulted>>

Installing ==
  \/ InstallService \/ InstallShim \/ CheckUnits \/ CopyUnit \/ Reload \/ Enable
  \/ Unregister \/ Register \/ Verify

Uninstalling ==
  \/ Disable \/ StopService \/ RemoveUnits \/ ReloadAway \/ Forget \/ RemoveShim
  \/ RemoveService

InstallNext ==
  \/ InstallDeclined \/ InstallBegin \/ UninstallBegin
  \/ Installing \/ Uninstalling \/ AlreadySo \/ StepFails
  \/ Cut \/ Reboot \/ RegisterByHand

InstallSpec == InstallInit /\ [][InstallNext]_installVars

-----------------------------------------------------------------------------
InstallTypeOK ==
  /\ tools \subseteq Tools
  /\ model \in BOOLEAN
  /\ units \subseteq Units
  /\ known \subseteq Units
  /\ enabled \in BOOLEAN
  /\ listening \in BOOLEAN
  /\ registration \in {"none", "ours", "other"}
  /\ job \in {"install", "uninstall"}
  /\ at \in {"rest", "tool skid", "tool skid-mcp", "check", "copy socket",
             "copy service", "reload", "enable", "unregister", "register",
             "verify", "disable", "stop", "remove units", "reload away",
             "forget", "remove skid-mcp", "remove skid"}
  /\ owed \subseteq {"unregister", "register"}
  /\ found \in BOOLEAN
  /\ faulted \in BOOLEAN
  /\ result \in {"none", "done", "failed", "cut", "left"}

(* FR-9.6, FR-9.13: wherever a run was cut off or failed, and whatever ran  *)
(* before it, an enabled socket has both unit files and a unit file has    *)
(* the command it starts, so that nothing systemd refers to is missing.    *)
NothingDangles ==
  /\ enabled => units = Units
  /\ listening => enabled
  /\ units # {} => "skid" \in tools

(* FR-9.10: "Running an install twice is not a failure": one that fails    *)
(* met a fault, whatever state earlier runs were stopped in.  Not so where *)
(* the paths do not lead to the checkout.                                  *)
RerunSucceeds == job = "install" /\ result = "failed" => faulted

(* What decides how an install ends: from the checkout, faults alone; from *)
(* anywhere else it never gets to its end.                                 *)
EndsAsItMust ==
  job = "install" =>
    /\ result = "failed" /\ AtCheckout => faulted
    /\ result = "done" => AtCheckout

Installed ==
  /\ tools = Tools /\ model
  /\ units = Units /\ known = Units
  /\ enabled /\ listening
  /\ registration # "none"

Removed ==
  /\ tools = {} /\ units = {} /\ known = {}
  /\ ~enabled /\ ~listening
  /\ registration = "none"

(* FR-9.9, FR-9.11, FR-9.13: an exit status of 0 is true.  An install      *)
(* leaves a machine that can speak, and where skid was there before, a     *)
(* registration of this one; an uninstall leaves nothing.                  *)
ResultIsTrue ==
  result = "done" =>
    IF job = "install"
      THEN Installed /\ (found => registration = "ours")
      ELSE Removed
=============================================================================
