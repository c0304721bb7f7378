------------------------------ MODULE UlService ------------------------------
(***************************************************************************)
(* The agreement between the data driver and the 4G HIF about the uplink.  *)
(* An answer of submit_ul leaves the driver waiting for ul_complete (some  *)
(* frames were accepted), for ul_resume (not all were), or for both, and   *)
(* the HIF owes exactly these callbacks; each comes once, in any order,    *)
(* and the driver does not submit while it waits.                          *)
(***************************************************************************)

VARIABLES
  ready,   \* BP and AP are ready
  waits,   \* callbacks the driver waits for
  owed     \* callbacks the HIF owes

serviceVars == <<ready, waits, owed>>

USInit == ready = FALSE /\ waits = {} /\ owed = {}

USReady == ready = FALSE /\ ready' = TRUE /\ UNCHANGED <<waits, owed>>

USSubmit(answer) ==
  /\ ready
  /\ waits = {}
  /\ waits' = answer
  /\ owed' = answer
  /\ UNCHANGED ready

USCallback(c) ==
  /\ c \in owed
  /\ waits' = waits \ {c}
  /\ owed' = owed \ {c}
  /\ UNCHANGED ready

USNext ==
  \/ USReady
  \/ \E answer \in {{"ul_complete"}, {"ul_resume"}, {"ul_complete", "ul_resume"}} :
       USSubmit(answer)
  \/ \E c \in {"ul_complete", "ul_resume"} : USCallback(c)

USSpec == USInit /\ [][USNext]_serviceVars
==============================================================================
