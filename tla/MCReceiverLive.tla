-------------------------- MODULE MCReceiverLive --------------------------
(***************************************************************************)
(* The liveness of Receiver on two small instances.  The owners make all   *)
(* the calls there are, of the first client; or they poll all the clients, *)
(* and hold no driver and no watch.  The subject is chosen at the start    *)
(* and never changes, so that the state spaces add up.                     *)
(***************************************************************************)
EXTENDS Receiver

CONSTANT First  \* a client

VARIABLE subject

LiveInit == Init /\ subject \in {"calls", "polls"}

Others == Clients \ {First}

CallsNext ==
    /\ subject = "calls" /\ Next /\ UNCHANGED subject
    /\ \A c \in Others : entry'[c] = entry[c]

\* TDLib has an answer for the first client, and no update for any.
PollsNext ==
    /\ subject = "polls" /\ Next /\ UNCHANGED subject
    /\ \A o \in Owners : thread'[o].pc # "receive" /\ thread'[o].call # "close"
    /\ \A c \in Clients : ~watch'[c].lease /\ td'[c].updates = td[c].updates
    /\ \A c \in Others : td'[c].used = {}

LiveSpec == LiveInit /\ [][CallsNext \/ PollsNext]_<<vars, subject>> /\ Fairness
=============================================================================
