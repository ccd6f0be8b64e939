----------------------------- MODULE TrackPanel -----------------------------
(***************************************************************************)
(* What the dialog promises about its two online buttons: they belong to   *)
(* the track that was loaded last.  A button is enabled when the track's   *)
(* environment is one its service knows, is spent by a click, and comes    *)
(* back only when that question failed.  A track is neither replaced nor   *)
(* identified while a question about it is open.                           *)
(*                                                                         *)
(* Viewer implements this specification as long as no file is dumped       *)
(* inside the prompt that WinINet may run in a query.                      *)
(***************************************************************************)
EXTENDS Naturals

CONSTANTS
  Envis,      \* classes of environments
  TmxEnvis,   \* those the exchanges list
  DediEnvis   \* those Dedimania lists

VARIABLES
  track,      \* how many tracks have been loaded
  named,      \* is the track's UID known?
  envi,       \* the track's environment, or "none"
  enabled,    \* the buttons that are enabled
  asking      \* the questions that are open

panel == <<track, named, envi, enabled, asking>>

Buttons == {"tmx", "dedi"}

ButtonsFor(env) == {b \in Buttons : \/ b = "tmx"  /\ env \in TmxEnvis
                                    \/ b = "dedi" /\ env \in DediEnvis}

Init ==
  /\ track = 0 /\ named = FALSE /\ envi = "none"
  /\ enabled = {} /\ asking = {}

Load ==
  /\ asking = {}
  /\ track' = track + 1
  /\ named' = FALSE /\ envi' = "none" /\ enabled' = {}
  /\ UNCHANGED asking

Identify ==
  /\ asking = {} /\ ~named /\ envi = "none"
  /\ named' \in BOOLEAN
  /\ envi' \in Envis \cup {"none"}
  /\ enabled' = ButtonsFor(envi')
  /\ UNCHANGED <<track, asking>>

Ask(b) ==
  /\ asking = {} /\ b \in enabled
  /\ asking' = {b}
  /\ enabled' = enabled \ {b}
  /\ UNCHANGED <<track, named, envi>>

Answer(b) ==
  /\ b \in asking
  /\ asking' = asking \ {b}
  /\ enabled' \in {enabled, enabled \cup {b}}
  /\ UNCHANGED <<track, named, envi>>

Next == Load \/ Identify \/ \E b \in Buttons : Ask(b) \/ Answer(b)

Spec == Init /\ [][Next]_panel
=============================================================================
