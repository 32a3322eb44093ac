---------------------------- MODULE ClientStream ----------------------------
(***************************************************************************)
(* What the broker promises the clients of its invocations: each is given the *)
(* output of its command in the order it was sent and without a hole, then    *)
(* one terminal. The Exit says that nothing is missing; an error may come at   *)
(* any point.                                                              *)
(***************************************************************************)
EXTENDS SequencesExt

CONSTANTS
  Client,
  Exit, Error  \* the two terminals

VARIABLES
  sent,    \* what the command of each client sent
  exited,  \* the clients whose command ended: everything it sent is in sent
  given    \* what each client got

vars == <<sent, exited, given>>

Init ==
  /\ sent = [c \in Client |-> <<>>]
  /\ exited = {}
  /\ given = [c \in Client |-> <<>>]

Ended(c) == given[c] # <<>> /\ Last(given[c]) \in {Exit, Error}

\* One piece more, whatever it is.
Send(c) ==
  /\ c \notin exited
  /\ sent'[c] # <<>>
  /\ sent' = [sent EXCEPT ![c] = Append(@, Last(sent'[c]))]
  /\ UNCHANGED <<exited, given>>

Finish(c) == exited' = exited \cup {c} /\ UNCHANGED <<sent, given>>

Give(c, m) ==
  /\ ~Ended(c)
  /\ given' = [given EXCEPT ![c] = Append(@, m)]
  /\ UNCHANGED <<sent, exited>>

GiveNext(c) ==
  LET next == Len(given[c]) + 1
  IN next <= Len(sent[c]) /\ Give(c, sent[c][next])

GiveExit(c) == c \in exited /\ given[c] = sent[c] /\ Give(c, Exit)
GiveError(c) == Give(c, Error)

\* Another invocation under the request ID.
Again(c) ==
  /\ sent' = [sent EXCEPT ![c] = <<>>]
  /\ exited' = exited \ {c}
  /\ given' = [given EXCEPT ![c] = <<>>]

Next ==
  \E c \in Client :
    \/ Send(c) \/ Finish(c) \/ GiveNext(c) \/ GiveExit(c) \/ GiveError(c) \/ Again(c)

Spec == Init /\ [][Next]_vars
=============================================================================
