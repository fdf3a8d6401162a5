------------------------------ MODULE Launcher ------------------------------
(***************************************************************************)
(* What a backend's launch(device, timeout) promises its caller, cast: it  *)
(* returns with the screen the device had, or with another screen id and   *)
(* no token, or it raises and leaves the device's screen alone.            *)
(* Yttv.tla uses launches as this single step (its action Launch).         *)
(***************************************************************************)
CONSTANTS
  ScreenId,  \* the ids under which the Lounge API knows screens
  Token,     \* lounge tokens
  None       \* no screen, and no token

VARIABLES
  screen,    \* what device.screen holds
  outcome    \* "busy" while the launch runs

lvars == <<screen, outcome>>

LaunchInit ==
  /\ screen \in [id : ScreenId, token : Token \cup {None}] \cup {None}
  /\ outcome = "busy"

Succeed ==
  /\ outcome = "busy" /\ outcome' = "returned"
  /\ \/ UNCHANGED screen
     \/ \E id \in ScreenId :
          /\ screen # None => screen.id # id
          /\ screen' = [id |-> id, token |-> None]

GiveUp == outcome = "busy" /\ outcome' = "raised" /\ UNCHANGED screen

LaunchNext == Succeed \/ GiveUp

LaunchSpec == LaunchInit /\ [][LaunchNext]_lvars
============================================================================
