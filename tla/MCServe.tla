------------------------------ MODULE MCServe ------------------------------
(***************************************************************************)
(* Three sides of the serve loop that are modelled apart, checked in one   *)
(* run: a behaviour is of one of them, and the others stay as they began.  *)
(*                                                                         *)
(* Voices: the tables and the greeting, where nothing fails.               *)
(* Settings: tools in turn, edits by hand, and the wakeups that read them. *)
(* Watchdog: the proportions of the code, a grace as long as the interval  *)
(* between two looks, a rendering that is shorter, a playing longer.       *)
(***************************************************************************)
EXTENDS MCVoices, MCSettings, Watchdog

VARIABLE side   \* the side this behaviour is of

serveVars == <<side, vars, settingsVars, watchdogVars>>

(* The voices where they are not what this behaviour is of. *)
OneConfig == Config(<<c1, c2>>, NoneDeclared, v1)

ServeInit ==
  /\ side \in {"voices", "settings", "watchdog"}
  /\ Init /\ (side # "voices" => config = OneConfig)
  /\ SettingsInit /\ (side # "settings" => file = Missing /\ mtime = 1)
  /\ WatchInit

ServeNext ==
  \/ /\ side = "voices" /\ Next
     /\ UNCHANGED <<side, settingsVars, watchdogVars>>
  \/ /\ side = "settings" /\ SettingsNext
     /\ UNCHANGED <<side, vars, watchdogVars>>
  \/ /\ side = "watchdog" /\ WatchNext
     /\ UNCHANGED <<side, vars, settingsVars>>

ServeSpec == ServeInit /\ [][ServeNext]_serveVars

ServeTypeOK == TypeOK /\ SettingsTypeOK /\ WatchTypeOK
=============================================================================
