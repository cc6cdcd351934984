------------------------ MODULE CollectionService ------------------------
(***************************************************************************)
(* What hwgauge promises, without threads, flags or an order of            *)
(* collectors: a roster is drawn up, then rounds are run in which every    *)
(* collector of the roster is served exactly once, until the user asks for *)
(* the end or a collector breaks down.  The service never ends by itself.  *)
(***************************************************************************)
CONSTANT Collectors

VARIABLES
  phase,   \* "starting", "collecting", "idle", "ended"
  roster,  \* the collectors taken on
  served,  \* those already served in the current round
  asked    \* the user asked for the end

svars == <<phase, roster, served, asked>>

SInit ==
  /\ phase = "starting"
  /\ roster = {}
  /\ served = {}
  /\ asked = FALSE

Enlist(c) ==
  /\ phase = "starting"
  /\ c \notin roster
  /\ roster' = roster \cup {c}
  /\ UNCHANGED <<phase, served, asked>>

Start ==
  /\ phase = "starting"
  /\ phase' = "collecting"
  /\ UNCHANGED <<roster, served, asked>>

Serve(c) ==
  /\ phase = "collecting"
  /\ c \in roster \ served
  /\ served' = served \cup {c}
  /\ UNCHANGED <<phase, roster, asked>>

CloseRound ==
  /\ phase = "collecting"
  /\ served = roster
  /\ served' = {}
  /\ UNCHANGED <<phase, roster, asked>>

\* A collector breaks down while it is served: no more service for anyone.
BreakDown(c) ==
  /\ phase = "collecting"
  /\ c \in roster \ served
  /\ served' = served \cup {c}
  /\ phase' = "idle"
  /\ UNCHANGED <<roster, asked>>

Ask ==
  /\ phase # "ended"
  /\ asked' = TRUE
  /\ UNCHANGED <<phase, roster, served>>

\* Between two rounds, or before the first one.
Cease ==
  /\ phase = "collecting"
  /\ asked
  /\ served \in {{}, roster}
  /\ phase' = "idle"
  /\ UNCHANGED <<roster, served, asked>>

\* The start fails, or an idle service ends because it was asked to.
End ==
  /\ phase = "starting" \/ (phase = "idle" /\ asked)
  /\ phase' = "ended"
  /\ UNCHANGED <<roster, served, asked>>

SNext ==
  \/ \E c \in Collectors : Enlist(c) \/ Serve(c) \/ BreakDown(c)
  \/ Start \/ CloseRound \/ Ask \/ Cease \/ End

SSpec == SInit /\ [][SNext]_svars
=============================================================================
