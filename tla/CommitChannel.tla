--------------------------- MODULE CommitChannel ---------------------------
(***************************************************************************)
(* What ChannelWriter (src/src/ego_bridge.rs) promises to the threads that   *)
(* share one SSH channel, without its lanes, its round-robin or its thread:  *)
(* frames of one lane leave in the order they were accepted, nothing is      *)
(* written after a torn frame, and a caller that waits for its frame is told *)
(* "ok" exactly if the frame was written, and "err" if it never will be.     *)
(***************************************************************************)
EXTENDS Integers, Sequences

CONSTANTS
  Lane,  \* one per request, and one for control frames
  Caller, \* the threads that hold the channel
  NoOne  \* a frame nobody waits for

Kind == {"control", "data", "cancel", "terminal"}
Frame == [kind : Kind, n : Nat, wait : Caller \cup {NoOne}]

VARIABLES
  pending,  \* per lane: frames accepted and not written yet
  accepted, \* per lane: frames accepted so far
  wire,     \* per lane: number of the last frame written
  told,     \* per caller: the answer to its last committed frame
  open,     \* the channel accepts frames
  torn      \* a frame was left unfinished

vars == <<pending, accepted, wire, told, open, torn>>

Init ==
  /\ pending = [l \in Lane |-> <<>>]
  /\ accepted = [l \in Lane |-> 0]
  /\ wire = [l \in Lane |-> 0]
  /\ told = [c \in Caller |-> "none"]
  /\ open = TRUE
  /\ torn = FALSE

Tell(c, answer) == IF c = NoOne THEN told ELSE [told EXCEPT ![c] = answer]

Accept(l, kind, c) ==
  /\ open
  /\ c # NoOne => told[c] # "waiting"
  /\ accepted' = [accepted EXCEPT ![l] = @ + 1]
  /\ pending' = [pending EXCEPT ![l] = Append(@, [kind |-> kind, n |-> accepted'[l], wait |-> c])]
  /\ told' = Tell(c, "waiting")
  /\ UNCHANGED <<wire, open, torn>>

Deliver(l) ==
  /\ ~torn
  /\ pending[l] # <<>>
  /\ pending' = [pending EXCEPT ![l] = Tail(@)]
  /\ wire' = [wire EXCEPT ![l] = Head(pending[l]).n]
  /\ told' = Tell(Head(pending[l]).wait, "ok")
  /\ UNCHANGED <<accepted, open, torn>>

Tear(l) ==
  /\ ~torn
  /\ pending[l] # <<>>
  /\ pending' = [pending EXCEPT ![l] = Tail(@)]
  /\ told' = Tell(Head(pending[l]).wait, "err")
  /\ torn' = TRUE
  /\ UNCHANGED <<accepted, wire, open>>

Abandon ==
  /\ torn
  /\ pending' = [l \in Lane |-> <<>>]
  /\ told' = [c \in Caller |-> IF told[c] = "waiting" THEN "err" ELSE told[c]]
  /\ open' = FALSE
  /\ UNCHANGED <<accepted, wire, torn>>

Close ==
  /\ open' = FALSE
  /\ UNCHANGED <<pending, accepted, wire, told, torn>>

Next ==
  \/ \E l \in Lane :
       \/ \E kind \in Kind, c \in Caller \cup {NoOne} : Accept(l, kind, c)
       \/ Deliver(l)
       \/ Tear(l)
  \/ Abandon
  \/ Close

Spec == Init /\ [][Next]_vars
=============================================================================
