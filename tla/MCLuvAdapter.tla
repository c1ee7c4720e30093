---------------------------- MODULE MCLuvAdapter ----------------------------
(***************************************************************************)
(* Instances of LuvAdapter for TLC.  The world does one of several groups  *)
(* of things, chosen at the start, so that the state spaces add up instead *)
(* of multiplying; the adapter and its application do anything in each.    *)
(***************************************************************************)
EXTENDS LuvAdapter

VARIABLE scenario

Concerns == [updates   |-> {"arrive", "close", "break"},
             deadlines |-> {"arrive", "wait"},
             kicks     |-> {"wait", "kick", "break"},
             work      |-> {"foreign", "owner", "kick"}]

Happening ==
    (IF \E c \in Clients : backlog'[c] > backlog[c] THEN {"arrive"} ELSE {})
      \cup (IF closed' # closed THEN {"close"} ELSE {})
      \cup (IF ~reliable' /\ reliable THEN {"break"} ELSE {})
      \cup (IF ~(timed' \subseteq timed) THEN {"wait"} ELSE {})
      \cup (IF d'.kicked /\ ~d.kicked THEN {"kick"} ELSE {})
      \cup (IF foreign' # foreign THEN {"foreign"} ELSE {})
      \cup (IF owner' # owner THEN {"owner"} ELSE {})

MCInit == LuvInit /\ scenario \in DOMAIN Concerns

\* Waiters of one client at a time have a deadline.
MCNext ==
    /\ LuvNext
    /\ Happening \subseteq Concerns[scenario] /\ Cardinality(timed' \cup expired') <= 1
    /\ UNCHANGED scenario

MCSpec ==
    /\ MCInit /\ [][MCNext]_<<luvVars, scenario>>
    /\ LuvFairness
=============================================================================
