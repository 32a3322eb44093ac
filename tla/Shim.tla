-------------------------------- MODULE Shim --------------------------------
(***************************************************************************)
(* The local command on Linux (run_shim_stream and ScreenshotReceiver in      *)
(* src/src/ego_bridge.rs) at the other end of the socket of its handler in    *)
(* BrokerRoute. It reads what it is given in order, whatever is left in the   *)
(* socket when the broker lets go of it, writes output to its own, receives   *)
(* screenshots into a .part file that it renames, and ends with the code of   *)
(* the command or with an error. Its stdin is uploaded by a thread of its own *)
(* that only ever adds a Cancel (UploadsCancel).                             *)
(*                                                                         *)
(* A request ID is random, so that an ID is used again only when the shim     *)
(* that had it is over.                                                     *)
(***************************************************************************)
EXTENDS BrokerRoute

VARIABLE shim  \* per request ID, the local command

shimVars == <<vars, shim>>

\* A screenshot being received, in chunks: the size declared, what was written.
NoFile == [expected |-> 0, written |-> -1]

ShimState ==
  [pc : {"none", "reading", "over"},
   read : Nat,        \* messages taken from the socket
   current : [expected : Nat, written : Nat] \cup {NoFile},
   part : BOOLEAN,    \* the .part file of the screenshot is there
   files : Seq([expected : Nat, written : Nat]),  \* the screenshots renamed to .png
   result : {"none", "code", "error", "failed"}]

NoShim ==
  [pc |-> "none", read |-> 0, current |-> NoFile, part |-> FALSE, files |-> <<>>,
   result |-> "none"]

ShimInit == Init /\ shim = [id \in Id |-> NoShim]

Reading(id) == shim[id].pc = "reading"
Pending(id) == shim[id].read < Len(given[id])
Incoming(id) == given[id][shim[id].read + 1]

\* The Open that the broker admits is a shim's.
Starts(id) ==
  /\ ~Reading(id)
  /\ Admit(id)
  /\ shim' = [shim EXCEPT ![id] = [NoShim EXCEPT !.pc = "reading"]]

\* The shim goes on as new, and its end of the socket with it when it is over.
Becomes(id, new) ==
  /\ shim' = [shim EXCEPT ![id] = new]
  /\ client' = [client EXCEPT ![id] = IF new.pc = "over" THEN "gone" ELSE @]
  /\ UNCHANGED <<routes, completed, loop, envVars, given>>

Over(s, result) ==
  [s EXCEPT !.pc = "over", !.read = 0, !.current = NoFile, !.result = result]
Fails(s) == Over(s, "failed")

Took(id, kinds) ==
  /\ Reading(id) /\ Pending(id) /\ Incoming(id).kind \in kinds

Taken(id) == [shim[id] EXCEPT !.read = @ + 1]

WritesOutput(id) == Took(id, {"Stdout"}) /\ Becomes(id, Taken(id))

FileBegin(id) ==
  /\ Took(id, {"FileBegin"})
  /\ LET s == shim[id]
         opened == [Taken(id) EXCEPT
                      !.current = [expected |-> Incoming(id).n, written |-> 0],
                      !.part = TRUE]
     IN Becomes(id, IF s.current = NoFile THEN opened ELSE Fails(s))

\* The chunk is counted before it is written.
FileChunk(id) ==
  /\ Took(id, {"FileChunk"})
  /\ LET s == shim[id]
         more == [Taken(id) EXCEPT !.current.written = @ + 1]
     IN Becomes(id, IF s.current # NoFile /\ s.current.written < s.current.expected
                    THEN more ELSE Fails(s))

\* Mutant: the size of the file is not compared.
SizeUnchecked(current) == TRUE

SizeFits(current) == current.written = current.expected

\* The .part file is removed when its size is wrong.
FileEnd(id) ==
  /\ Took(id, {"FileEnd"})
  /\ LET s == shim[id]
         whole == [Taken(id) EXCEPT !.current = NoFile, !.part = FALSE,
                                    !.files = Append(@, s.current)]
     IN Becomes(id, IF s.current = NoFile THEN Fails(s)
                    ELSE IF SizeFits(s.current) THEN whole
                    ELSE [Fails(s) EXCEPT !.part = FALSE])

TakesExit(id) ==
  /\ Took(id, {"Exit"})
  /\ LET s == Taken(id)
     IN Becomes(id, IF s.current = NoFile THEN Over(s, "code")
                    ELSE [Fails(s) EXCEPT !.part = FALSE])

TakesError(id) ==
  /\ Took(id, {"Error"})
  /\ Becomes(id, [Over(Taken(id), "error") EXCEPT !.part = FALSE])

\* Everything was read and the socket is closed.
Disconnected(id) ==
  /\ Reading(id) /\ ~Pending(id) /\ Closed(id)
  /\ Becomes(id, Fails(shim[id]))

ShimStep(id) ==
  \/ WritesOutput(id) \/ FileBegin(id) \/ FileChunk(id) \/ FileEnd(id)
  \/ TakesExit(id) \/ TakesError(id) \/ Disconnected(id)

\* It is killed, or its own output or the file system fails it: what it has of a
\* screenshot stays.
Dies(id) == Reading(id) /\ Becomes(id, Fails(shim[id]))

ShimNext ==
  \/ \E id \in Id : Starts(id) \/ ShimStep(id) \/ Dies(id)
  \/ /\ LoopStep \/ \E id \in Id : RequestStep(id)
     /\ UNCHANGED shim

ShimSpec == ShimInit /\ [][ShimNext]_shimVars

\* Whoever reads what the shim writes goes on reading.
ShimFairSpec ==
  /\ ShimSpec /\ BrokerFairness
  /\ \A id \in Id : WF_shimVars(ShimStep(id))

-----------------------------------------------------------------------------
(* Properties.                                                             *)

\* The shim has its type.
ShimTypeOK == shim \in [Id -> ShimState]

Stream ==
  INSTANCE ClientStream WITH
    Client <- Id, Exit <- End("Exit"), Error <- End("Error"),
    sent <- output, exited <- {id \in Id : executor[id] = "Exit"}

\* Every client is given what its invocation sent, in order and without a hole,
\* up to one terminal after which nothing follows: an Exit only after all of it,
\* an error anywhere (ClientStream). An overload, a full response channel and an
\* error recorded late by the loop or the uploader keep to it.
StreamKept == Stream!Spec

\* A shim ends with the code of its command only when it wrote all the output the
\* command sent and holds all its screenshots, each as long as the Mac declared
\* it; and what it leaves as .png is whole however it ends, with no .part beside
\* it once it was told how the command ended.
ShimTrue ==
  \A id \in Id :
    LET s == shim[id]
    IN /\ s.result = "code" =>
            /\ given[id] = Append(output[id], End("Exit"))
            /\ Len(s.files) = Cardinality({i \in DOMAIN output[id] :
                                             output[id][i].kind = "FileEnd"})
       /\ s.result \in {"code", "error"} => ~s.part
       /\ \A i \in DOMAIN s.files : s.files[i].written = s.files[i].expected

\* If the executor answers, every shim ends, whatever becomes of its broker.
ShimEnds == Answering => \A id \in Id : Reading(id) ~> ~Reading(id)
=============================================================================
