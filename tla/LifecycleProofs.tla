---------------------------- MODULE LifecycleProofs ----------------------------
(***************************************************************************)
(* Theorems about Release, for any processes, versions and power losses,     *)
(* and about Lifecycle, for any processes, daemon places and bounds.         *)
(*                                                                         *)
(* Release first. Sound says of one process, by where it is, what of the     *)
(* installation is its doing and what its lock has kept from changing. A      *)
(* step of one process that leaves the installation alone keeps it for the    *)
(* others by Frame; what is left of each action is to show it of the process  *)
(* that took the step.                                                      *)
(*                                                                         *)
(* A step of Lifecycle is a step of Release or leaves the installation alone: *)
(* what is proved of Release holds of it. That no upgrade replaces a running  *)
(* daemon's binary rests on an invariant of its own: who holds daemon.lock,   *)
(* what launchd would still spawn, and that a stop intent a daemon confirmed  *)
(* stays in the file until the bootout after it.                             *)
(*                                                                         *)
(* What is acknowledged and what is stopped rest on a second one, Kept, on   *)
(* top of it: what the file and the memory of the daemon that holds the lock *)
(* agree on, as long as nothing failed that only one of them could set right. *)
(***************************************************************************)
EXTENDS Lifecycle, TLAPS

-----------------------------------------------------------------------------
(* Release.                                                                *)

Early == {"idle", "resolve", "check", "flock", "fetch", "stage", "download", "prepared",
          "shim"}
Locked == {"fetch", "stage", "download", "prepared", "shim", "sync", "rename", "dirsync",
           "unlink", "rollsync", "leaving"}
Untried == {"sync", "rename", "unlink", "rollsync"}

\* What p has staged when it renames it.
StagedOK(s) ==
  /\ s.pc \in {"prepared", "shim", "sync"} => s.staged = "complete"
  /\ s.pc = "rename" => s.staged = "synced"

\* What p has done, and not done, to the installation.
TraceOK(p, s) ==
  /\ s.pc \in Early => /\ ~s.made /\ s.seq = 0
                       /\ p \notin {target.by, onDisk.by, shim, shimOnDisk}
  /\ s.pc \in Untried => p \notin {target.by, onDisk.by}
  /\ s.pc \in Untried /\ ~s.made => p \notin {shim, shimOnDisk}
  /\ s.pc = "rollsync" => shim # p
  /\ s.pc = "dirsync" => target.seq >= s.seq
  /\ s.pc \notin {"leaving", "over"} => s.outcome = "none"

OutcomeOK(p, outcome, seq) ==
  /\ outcome \in {"lost", "current", "beforeRename"} =>
       p \notin {target.by, onDisk.by, shim, shimOnDisk}
  /\ outcome \in {"shimLeft", "rollbackUnknown"} => p \notin {target.by, onDisk.by}
  /\ outcome = "upgraded" => onDisk.seq >= seq

\* The lock is p's, and nothing newer than what p brings was installed under it.
LockOK(p, s) ==
  /\ s.pc \in Locked => lock = p
  /\ s.version <= latest
  /\ s.kind = "upgrade" /\ s.pc \in {"stage", "download", "prepared", "shim", "sync", "rename"}
       => target.version <= s.version

Sound(p, s) == StagedOK(s) /\ TraceOK(p, s) /\ OutcomeOK(p, s.outcome, s.seq) /\ LockOK(p, s)

\* Renames are numbered, a disk lags behind, and nothing unpublished is installed.
FilesOK ==
  /\ TargetWhole
  /\ onDisk.seq <= target.seq /\ target.seq <= installs
  /\ target.version <= latest /\ onDisk.version <= latest

IInv == ReleaseTypeOK /\ FilesOK /\ \A p \in Proc : Sound(p, proc[p])

-----------------------------------------------------------------------------
LEMMA NamesDiffer ==
  ASSUME NEW p \in Proc
  PROVE p # NoProc /\ p \notin {"absent", "foreign", "link"}
BY ReleaseAssumption

LEMMA Moved ==
  ASSUME proc \in [Proc -> Process], NEW p \in Proc, NEW new \in Process, Move(p, new)
  PROVE /\ proc' \in [Proc -> Process]
        /\ proc'[p] = new
        /\ \A q \in Proc \ {p} : proc'[q] = proc[q]
        /\ UNCHANGED <<platform, latest, outages>>
BY DEF Move

\* A step that leaves the installation alone.
LEMMA Frame ==
  ASSUME IInv, NEW p \in Proc, NEW new \in Process, Move(p, new), Untouched,
         lock' \in Proc \cup {NoProc},
         \A q \in Proc \ {p} : lock = q => lock' = q,
         Sound(p, new)'
  PROVE IInv'
<1>1. /\ proc' \in [Proc -> Process] /\ proc'[p] = new
      /\ \A q \in Proc \ {p} : proc'[q] = proc[q]
      /\ UNCHANGED <<platform, latest, outages>>
  BY Moved DEF IInv, ReleaseTypeOK
<1>2. UNCHANGED <<target, onDisk, installs, shim, shimOnDisk>>
  BY DEF Untouched, installed, shims
<1>3. ReleaseTypeOK'
  BY <1>1, <1>2 DEF IInv, ReleaseTypeOK
<1>4. FilesOK'
  BY <1>1, <1>2 DEF IInv, FilesOK, TargetWhole
<1>5. ASSUME NEW q \in Proc PROVE Sound(q, proc[q])'
  <2>1. CASE q = p
    BY <1>1, <2>1 DEF Sound, StagedOK, TraceOK, OutcomeOK, LockOK
  <2>2. CASE q # p
    <3>1. Sound(q, proc[q])
      BY DEF IInv
    <3>2. proc'[q] = proc[q]
      BY <1>1, <2>2
    <3>3. (lock = q) => (lock' = q)
      BY <2>2
    <3>. QED
      BY <1>1, <1>2, <3>1, <3>2, <3>3 DEF Sound, StagedOK, TraceOK, OutcomeOK, LockOK
  <2>. QED
    BY <2>1, <2>2
<1>. QED
  BY <1>3, <1>4, <1>5 DEF IInv

\* A process ends.
LEMMA Finishes ==
  ASSUME IInv, NEW p \in Proc, NEW outcome \in Outcome, Finish(p, outcome), Untouched,
         OutcomeOK(p, outcome, proc[p].seq)
  PROVE IInv'
<1>1. proc[p] \in Process
  BY DEF IInv, ReleaseTypeOK
<1>2. PICK new : new = [Idle EXCEPT !.pc = "over", !.seq = proc[p].seq, !.outcome = outcome]
  OBVIOUS
<1>3. /\ new \in Process
      /\ new.pc = "over" /\ new.outcome = outcome /\ new.seq = proc[p].seq /\ new.version = 0
  BY <1>1, <1>2 DEF Process, Idle, ProcState, File, NoFile
<1>4. Move(p, new) /\ lock' = IF lock = p THEN NoProc ELSE lock
  BY <1>2 DEF Finish
<1>5. UNCHANGED <<target, onDisk, installs, shim, shimOnDisk, latest>>
  BY <1>4 DEF Untouched, installed, shims, Move
<1>6. OutcomeOK(p, new.outcome, new.seq)
  BY <1>3
<1>7. Sound(p, new)'
  <2>1. latest \in Nat
    BY DEF IInv, ReleaseTypeOK
  <2>. QED
    BY <2>1, <1>3, <1>5, <1>6
    DEF Sound, StagedOK, TraceOK, OutcomeOK, LockOK, Early, Locked, Untried
<1>8. lock' \in Proc \cup {NoProc} /\ \A q \in Proc \ {p} : lock = q => lock' = q
  BY <1>4 DEF IInv, ReleaseTypeOK
<1>. QED
  BY <1>3, <1>4, <1>7, <1>8, Frame

\* A process is done with its commit.
LEMMA Concludes ==
  ASSUME IInv, NEW p \in Proc, NEW outcome \in Outcome, Conclude(p, outcome), Untouched,
         proc[p].pc \in Locked,
         OutcomeOK(p, outcome, proc[p].seq)
  PROVE IInv'
<1>1. proc[p] \in Process
  BY DEF IInv, ReleaseTypeOK
<1>2. PICK new : new = [Idle EXCEPT !.pc = "leaving", !.kind = proc[p].kind,
                                    !.seq = proc[p].seq, !.outcome = outcome]
  OBVIOUS
<1>3. /\ new \in Process
      /\ new.pc = "leaving" /\ new.outcome = outcome /\ new.seq = proc[p].seq
      /\ new.version = 0
  BY <1>1, <1>2 DEF Process, Idle, ProcState, File, NoFile
<1>4. Move(p, new) /\ lock' = lock
  BY <1>2 DEF Conclude
<1>5. UNCHANGED <<target, onDisk, installs, shim, shimOnDisk, latest>>
  BY <1>4 DEF Untouched, installed, shims, Move
<1>6. OutcomeOK(p, new.outcome, new.seq)
  BY <1>3
<1>7. lock = p
  BY DEF IInv, Sound, LockOK
<1>8. Sound(p, new)'
  <2>1. latest \in Nat
    BY DEF IInv, ReleaseTypeOK
  <2>. QED
    BY <2>1, <1>3, <1>4, <1>5, <1>6, <1>7
    DEF Sound, StagedOK, TraceOK, OutcomeOK, LockOK, Early, Locked, Untried
<1>9. lock' \in Proc \cup {NoProc} /\ \A q \in Proc \ {p} : lock = q => lock' = q
  BY <1>4 DEF IInv, ReleaseTypeOK
<1>. QED
  BY <1>3, <1>4, <1>8, <1>9, Frame

-----------------------------------------------------------------------------
\* What holds of a process before it has done anything.
LEMMA EarlyFacts ==
  ASSUME IInv, NEW p \in Proc, proc[p].pc \in Early
  PROVE /\ proc[p] \in Process /\ proc[p].outcome = "none" /\ ~proc[p].made
        /\ proc[p].seq = 0
        /\ p \notin {target.by, onDisk.by, shim, shimOnDisk}
        /\ proc[p].version <= latest
        /\ OutcomeOK(p, "lost", proc[p].seq)
        /\ OutcomeOK(p, "current", proc[p].seq)
        /\ OutcomeOK(p, "beforeRename", proc[p].seq)
<1>1. proc[p] \in Process
  BY DEF IInv, ReleaseTypeOK
<1>2. Sound(p, proc[p])
  BY DEF IInv
<1>. QED
  BY <1>1, <1>2 DEF Sound, TraceOK, OutcomeOK, LockOK, Early, Process

\* A process that goes on, early, with what it holds.
LEMMA GoesOn ==
  ASSUME IInv, NEW p \in Proc, proc[p].pc \in Early, NEW new \in Process, Move(p, new),
         Untouched, new.pc \in Early \cup {"sync"},
         new.outcome = "none", ~new.made, new.seq = 0,
         StagedOK(new), LockOK(p, new)',
         lock' \in Proc \cup {NoProc},
         \A q \in Proc \ {p} : lock = q => lock' = q
  PROVE IInv'
<1>1. p \notin {target.by, onDisk.by, shim, shimOnDisk}
  BY EarlyFacts
<1>2. UNCHANGED <<target, onDisk, installs, shim, shimOnDisk, latest>>
  BY DEF Untouched, installed, shims, Move
<1>3. Sound(p, new)'
  BY <1>1, <1>2 DEF Sound, StagedOK, TraceOK, OutcomeOK, Early, Untried
<1>. QED
  BY <1>3, Frame

\* The holder of the lock steps on, and may change what is installed.
LEMMA Installs ==
  ASSUME IInv, NEW p \in Proc, proc[p].pc \in Locked, NEW new \in Process, Move(p, new),
         lock' = lock, installs' \in Nat,
         target' \in File, onDisk' \in File, shim' \in Shim, shimOnDisk' \in Shim,
         FilesOK',
         {target'.by, onDisk'.by} \subseteq {target.by, onDisk.by, p},
         {shim', shimOnDisk'} \subseteq {shim, shimOnDisk, p, "absent"},
         onDisk'.seq >= onDisk.seq,
         Sound(p, new)'
  PROVE IInv'
<1>1. /\ proc' \in [Proc -> Process] /\ proc'[p] = new
      /\ \A q \in Proc \ {p} : proc'[q] = proc[q]
      /\ UNCHANGED <<platform, latest, outages>>
  BY Moved DEF IInv, ReleaseTypeOK
<1>2. ReleaseTypeOK'
  BY <1>1 DEF IInv, ReleaseTypeOK
<1>3. lock = p
  BY DEF IInv, Sound, LockOK
<1>4. ASSUME NEW q \in Proc PROVE Sound(q, proc[q])'
  <2>1. CASE q = p
    BY <1>1, <2>1 DEF Sound, StagedOK, TraceOK, OutcomeOK, LockOK
  <2>2. CASE q # p
    <3>1. Sound(q, proc[q]) /\ proc[q] \in Process /\ q # "absent"
      BY NamesDiffer DEF IInv, ReleaseTypeOK
    <3>2. proc'[q] = proc[q] /\ proc[q].pc \notin Locked
      BY <1>1, <1>3, <2>2, <3>1 DEF Sound, LockOK
    <3>3. TraceOK(q, proc[q])'
      BY <2>2, <3>1, <3>2 DEF Sound, TraceOK, Early, Locked, Untried
    <3>4. OutcomeOK(q, proc[q].outcome, proc[q].seq)'
      <4>1. onDisk.seq \in Nat /\ onDisk'.seq \in Nat /\ proc[q].seq \in Nat
        BY <3>1 DEF IInv, ReleaseTypeOK, File, Process
      <4>. QED
        BY <2>2, <3>1, <3>2, <4>1 DEF Sound, OutcomeOK
    <3>5. LockOK(q, proc[q])' /\ StagedOK(proc[q])'
      BY <1>1, <3>1, <3>2 DEF Sound, LockOK, StagedOK, Locked
    <3>. QED
      BY <3>3, <3>4, <3>5 DEF Sound
  <2>. QED
    BY <2>1, <2>2
<1>. QED
  BY <1>2, <1>4 DEF IInv

\* A process as it is, elsewhere.
LEMMA Elsewhere ==
  ASSUME NEW s \in Process, NEW pc \in ProcState
  PROVE \E new \in Process :
          /\ new = [s EXCEPT !.pc = pc]
          /\ new.pc = pc /\ new.kind = s.kind /\ new.version = s.version
          /\ new.staged = s.staged /\ new.made = s.made /\ new.seq = s.seq
          /\ new.outcome = s.outcome
<1>1. PICK new : new = [s EXCEPT !.pc = pc]
  OBVIOUS
<1>2. /\ new \in Process
      /\ new.pc = pc /\ new.kind = s.kind /\ new.version = s.version
      /\ new.staged = s.staged /\ new.made = s.made /\ new.seq = s.seq
      /\ new.outcome = s.outcome
  BY <1>1 DEF Process
<1>. QED
  BY <1>1, <1>2, Zenon

-----------------------------------------------------------------------------
(* Before the commit.                                                      *)

LEMMA LaunchKeeps == ASSUME IInv, NEW p \in Proc, Launch(p) PROVE IInv'
<1>1. /\ target \in File /\ latest \in Nat /\ lock \in Proc \cup {NoProc}
  BY DEF IInv, ReleaseTypeOK
<1>2. PICK new \in Process :
        /\ Move(p, new)
        /\ new.pc = "resolve" /\ new.outcome = "none" /\ ~new.made /\ new.seq = 0
        /\ new.version \in Nat /\ new.version <= latest
  <2>1. CASE target # NoFile
                /\ Move(p, [Idle EXCEPT !.pc = "resolve", !.exe = target.version,
                                        !.seen = target])
    <3>1. PICK new : new = [Idle EXCEPT !.pc = "resolve", !.exe = target.version,
                                        !.seen = target]
      OBVIOUS
    <3>2. /\ new \in Process /\ new.pc = "resolve" /\ new.outcome = "none" /\ ~new.made
          /\ new.seq = 0 /\ new.version = 0
      BY <1>1, <3>1 DEF Process, Idle, ProcState, Outcome, File, NoFile
    <3>3. Move(p, new)
      BY <2>1, <3>1
    <3>. QED
      BY <1>1, <3>2, <3>3
  <2>2. ASSUME NEW v \in 1 .. latest,
               Move(p, [Idle EXCEPT !.pc = "resolve", !.kind = "installer", !.exe = v,
                                   !.version = v])
        PROVE \E new \in Process :
                /\ Move(p, new)
                /\ new.pc = "resolve" /\ new.outcome = "none" /\ ~new.made /\ new.seq = 0
                /\ new.version \in Nat /\ new.version <= latest
    <3>. v \in Nat /\ v <= latest
      BY <1>1
    <3>1. PICK new : new = [Idle EXCEPT !.pc = "resolve", !.kind = "installer", !.exe = v,
                                        !.version = v]
      OBVIOUS
    <3>2. /\ new \in Process /\ new.pc = "resolve" /\ new.outcome = "none" /\ ~new.made
          /\ new.seq = 0 /\ new.version = v
      BY <1>1, <3>1 DEF Process, Idle, ProcState, Outcome, File, NoFile
    <3>3. Move(p, new)
      BY <2>2, <3>1
    <3>. QED
      BY <1>1, <3>2, <3>3
  <2>. QED
    BY <2>1, <2>2 DEF Launch
<1>3. Untouched /\ lock' = lock /\ proc[p].pc \in Early /\ latest' = latest
  BY <1>2 DEF Launch, At, Early, Move
<1>4. StagedOK(new) /\ LockOK(p, new)' /\ new.pc \in Early
  BY <1>2, <1>3 DEF StagedOK, LockOK, Locked, Early
<1>. QED
  BY <1>1, <1>2, <1>3, <1>4, GoesOn

\* A process that fails before its commit.
LEMMA Fails ==
  ASSUME IInv, NEW p \in Proc, proc[p].pc \in Early, NEW outcome \in {"lost", "current"},
         Finish(p, outcome), Untouched
  PROVE IInv'
<1>1. OutcomeOK(p, outcome, proc[p].seq)
  BY EarlyFacts
<1>. QED
  BY <1>1, Finishes DEF Outcome

LEMMA ResolveKeeps == ASSUME IInv, NEW p \in Proc, Resolve(p) PROVE IInv'
<1>1. /\ proc[p].pc = "resolve" /\ proc[p].pc \in Early /\ Untouched
  BY DEF Resolve, At, Early
<1>2. /\ target \in File /\ latest \in Nat /\ lock \in Proc \cup {NoProc}
      /\ Sound(p, proc[p])
  BY DEF IInv, ReleaseTypeOK
<1>3. /\ proc[p] \in Process /\ proc[p].outcome = "none" /\ ~proc[p].made
      /\ proc[p].seq = 0 /\ proc[p].version <= latest
  BY <1>1, EarlyFacts
<1>4. CASE Finish(p, "lost")
  BY <1>1, <1>4, Fails
<1>5. CASE /\ Move(p, [proc[p] EXCEPT !.pc = "check", !.seen = target])
           /\ lock' = lock
  <2>1. PICK new : new = [proc[p] EXCEPT !.pc = "check", !.seen = target]
    OBVIOUS
  <2>2. /\ new \in Process /\ new.pc = "check" /\ new.outcome = "none" /\ ~new.made
        /\ new.seq = 0 /\ new.kind = proc[p].kind
        /\ new.version = proc[p].version
    BY <1>2, <1>3, <2>1 DEF Process, ProcState, File, NoFile
  <2>3. Move(p, new)
    BY <1>5, <2>1
  <2>4. latest' = latest /\ target' = target
    BY <1>1, <2>3 DEF Move, Untouched, installed
  <2>5. StagedOK(new) /\ LockOK(p, new)' /\ new.pc \in Early
    BY <1>1, <1>2, <1>3, <1>5, <2>2, <2>4 DEF Sound, StagedOK, LockOK, Locked, Early
  <2>. QED
    BY <1>1, <1>2, <1>5, <2>2, <2>3, <2>5, GoesOn
<1>. QED
  BY <1>1, <1>4, <1>5 DEF Resolve

LEMMA CheckKeeps == ASSUME IInv, NEW p \in Proc, Check(p) PROVE IInv'
<1>1. /\ proc[p].pc = "check" /\ proc[p].pc \in Early /\ Untouched
  BY DEF Check, At, Early
<1>2. /\ target \in File /\ latest \in Nat /\ lock \in Proc \cup {NoProc}
      /\ Sound(p, proc[p])
  BY DEF IInv, ReleaseTypeOK
<1>3. /\ proc[p] \in Process /\ proc[p].outcome = "none" /\ ~proc[p].made
      /\ proc[p].seq = 0 /\ proc[p].version <= latest
  BY <1>1, EarlyFacts
<1>4. CASE Finish(p, "lost")
  BY <1>1, <1>4, Fails
<1>5. CASE /\ Move(p, [proc[p] EXCEPT !.pc = "flock", !.seen = NoFile])
           /\ lock' = lock
  <2>1. PICK new : new = [proc[p] EXCEPT !.pc = "flock", !.seen = NoFile]
    OBVIOUS
  <2>2. /\ new \in Process /\ new.pc = "flock" /\ new.outcome = "none" /\ ~new.made
        /\ new.seq = 0 /\ new.kind = proc[p].kind
        /\ new.version = proc[p].version
    BY <1>2, <1>3, <2>1 DEF Process, ProcState, File, NoFile
  <2>3. Move(p, new)
    BY <1>5, <2>1
  <2>4. latest' = latest /\ target' = target
    BY <1>1, <2>3 DEF Move, Untouched, installed
  <2>5. StagedOK(new) /\ LockOK(p, new)' /\ new.pc \in Early
    BY <1>1, <1>2, <1>3, <1>5, <2>2, <2>4 DEF Sound, StagedOK, LockOK, Locked, Early
  <2>. QED
    BY <1>1, <1>2, <1>5, <2>2, <2>3, <2>5, GoesOn
<1>. QED
  BY <1>1, <1>4, <1>5 DEF Check

LEMMA StageKeeps == ASSUME IInv, NEW p \in Proc, Stage(p) PROVE IInv'
<1>1. /\ proc[p].pc = "stage" /\ proc[p].pc \in Early /\ Untouched
  BY DEF Stage, At, Early
<1>2. /\ target \in File /\ latest \in Nat /\ lock \in Proc \cup {NoProc}
      /\ Sound(p, proc[p])
  BY DEF IInv, ReleaseTypeOK
<1>3. /\ proc[p] \in Process /\ proc[p].outcome = "none" /\ ~proc[p].made
      /\ proc[p].seq = 0 /\ proc[p].version <= latest
  BY <1>1, EarlyFacts
<1>4. CASE Finish(p, "lost")
  BY <1>1, <1>4, Fails
<1>5. CASE /\ Move(p, [proc[p] EXCEPT !.pc = "download", !.staged = "partial"])
           /\ lock' = lock
  <2>1. PICK new : new = [proc[p] EXCEPT !.pc = "download", !.staged = "partial"]
    OBVIOUS
  <2>2. /\ new \in Process /\ new.pc = "download" /\ new.outcome = "none" /\ ~new.made
        /\ new.seq = 0 /\ new.kind = proc[p].kind
        /\ new.version = proc[p].version
    BY <1>2, <1>3, <2>1 DEF Process, ProcState, File, NoFile
  <2>3. Move(p, new)
    BY <1>5, <2>1
  <2>4. latest' = latest /\ target' = target
    BY <1>1, <2>3 DEF Move, Untouched, installed
  <2>5. StagedOK(new) /\ LockOK(p, new)' /\ new.pc \in Early
    BY <1>1, <1>2, <1>3, <1>5, <2>2, <2>4 DEF Sound, StagedOK, LockOK, Locked, Early
  <2>. QED
    BY <1>1, <1>2, <1>5, <2>2, <2>3, <2>5, GoesOn
<1>. QED
  BY <1>1, <1>4, <1>5 DEF Stage

LEMMA DownloadKeeps == ASSUME IInv, NEW p \in Proc, Download(p) PROVE IInv'
<1>1. /\ proc[p].pc = "download" /\ proc[p].pc \in Early /\ Untouched
  BY DEF Download, At, Early
<1>2. /\ target \in File /\ latest \in Nat /\ lock \in Proc \cup {NoProc}
      /\ Sound(p, proc[p])
  BY DEF IInv, ReleaseTypeOK
<1>3. /\ proc[p] \in Process /\ proc[p].outcome = "none" /\ ~proc[p].made
      /\ proc[p].seq = 0 /\ proc[p].version <= latest
  BY <1>1, EarlyFacts
<1>4. CASE Finish(p, "lost")
  BY <1>1, <1>4, Fails
<1>5. CASE /\ Move(p, [proc[p] EXCEPT !.pc = "prepared", !.staged = "complete"])
           /\ lock' = lock
  <2>1. PICK new : new = [proc[p] EXCEPT !.pc = "prepared", !.staged = "complete"]
    OBVIOUS
  <2>2. /\ new \in Process /\ new.pc = "prepared" /\ new.outcome = "none" /\ ~new.made
        /\ new.seq = 0 /\ new.kind = proc[p].kind
        /\ new.version = proc[p].version /\ new.staged = "complete"
    BY <1>2, <1>3, <2>1 DEF Process, ProcState, File, NoFile
  <2>3. Move(p, new)
    BY <1>5, <2>1
  <2>4. latest' = latest /\ target' = target
    BY <1>1, <2>3 DEF Move, Untouched, installed
  <2>5. StagedOK(new) /\ LockOK(p, new)' /\ new.pc \in Early
    BY <1>1, <1>2, <1>3, <1>5, <2>2, <2>4 DEF Sound, StagedOK, LockOK, Locked, Early
  <2>. QED
    BY <1>1, <1>2, <1>5, <2>2, <2>3, <2>5, GoesOn
<1>. QED
  BY <1>1, <1>4, <1>5 DEF Download

LEMMA FlockKeeps == ASSUME IInv, NEW p \in Proc, Flock(p) PROVE IInv'
<1>1. proc[p].pc = "flock" /\ proc[p].pc \in Early /\ Untouched
  BY DEF Flock, At, Early
<1>2. /\ proc[p] \in Process /\ proc[p].outcome = "none" /\ ~proc[p].made
      /\ proc[p].seq = 0 /\ proc[p].version <= latest
  BY <1>1, EarlyFacts
<1>3. CASE Finish(p, "lost")
  BY <1>1, <1>3, Fails
<1>4. CASE lock = NoProc /\ lock' = p
           /\ Goes(p, IF proc[p].kind = "installer" THEN "stage" ELSE "fetch")
  <2> DEFINE pc == IF proc[p].kind = "installer" THEN "stage" ELSE "fetch"
  <2>1. pc \in ProcState
    BY DEF ProcState
  <2>2. PICK new \in Process :
          /\ new = [proc[p] EXCEPT !.pc = pc]
          /\ new.pc = pc /\ new.kind = proc[p].kind /\ new.version = proc[p].version
          /\ new.staged = proc[p].staged /\ new.made = proc[p].made /\ new.seq = proc[p].seq
          /\ new.outcome = proc[p].outcome
    BY <1>2, <2>1, Elsewhere
  <2>3. Move(p, new)
    BY <1>4, <2>2 DEF Goes
  <2>4. latest' = latest
    BY <2>3 DEF Move
  <2>5. StagedOK(new) /\ LockOK(p, new)' /\ new.pc \in Early
    BY <1>2, <1>4, <2>2, <2>4 DEF StagedOK, LockOK, Locked, Early
  <2>6. new.outcome = "none" /\ ~new.made /\ new.seq = 0
    BY <1>2, <2>2
  <2>7. \A q \in Proc : lock # q
    BY <1>4, NamesDiffer
  <2>. QED
    BY <1>1, <1>4, <2>3, <2>5, <2>6, <2>7, GoesOn
<1>. QED
  BY <1>1, <1>3, <1>4 DEF Flock

LEMMA FetchKeeps == ASSUME IInv, NEW p \in Proc, Fetch(p) PROVE IInv'
<1>1. proc[p].pc = "fetch" /\ proc[p].pc \in Early /\ Untouched
  BY DEF Fetch, At, Early
<1>2. /\ target \in File /\ latest \in Nat /\ lock \in Proc \cup {NoProc}
      /\ Sound(p, proc[p]) /\ target.version <= latest
  BY DEF IInv, ReleaseTypeOK, FilesOK
<1>3. /\ proc[p] \in Process /\ proc[p].outcome = "none" /\ ~proc[p].made /\ proc[p].seq = 0
  BY <1>1, EarlyFacts
<1>4. CASE Finish(p, "lost") \/ Finish(p, "current")
  BY <1>1, <1>4, Fails
<1>5. CASE lock' = lock /\ Move(p, [proc[p] EXCEPT !.pc = "stage", !.version = latest])
  <2>1. PICK new : new = [proc[p] EXCEPT !.pc = "stage", !.version = latest]
    OBVIOUS
  <2>2. /\ new \in Process /\ new.pc = "stage" /\ new.outcome = "none" /\ ~new.made
        /\ new.seq = 0 /\ new.version = latest
    BY <1>2, <1>3, <2>1 DEF Process, ProcState
  <2>3. Move(p, new)
    BY <1>5, <2>1
  <2>4. latest' = latest /\ target' = target
    BY <1>1, <2>3 DEF Move, Untouched, installed
  <2>5. StagedOK(new) /\ LockOK(p, new)' /\ new.pc \in Early
    BY <1>1, <1>2, <1>5, <2>2, <2>4 DEF Sound, StagedOK, LockOK, Locked, Early
  <2>. QED
    BY <1>1, <1>2, <1>5, <2>2, <2>3, <2>5, GoesOn
<1>. QED
  BY <1>1, <1>4, <1>5 DEF Fetch

-----------------------------------------------------------------------------
(* The commit.                                                             *)

\* The process of a commit goes elsewhere, with what it holds.
LEMMA Continues ==
  ASSUME IInv, NEW p \in Proc, proc[p].pc \in {"prepared", "shim"}, proc[p].staged = "complete",
         NEW pc \in {"shim", "sync"}, Goes(p, pc), Untouched, lock' = lock
  PROVE IInv'
<1>1. proc[p].pc \in Early /\ Sound(p, proc[p]) /\ lock \in Proc \cup {NoProc}
  BY DEF Early, IInv, ReleaseTypeOK
<1>2. /\ proc[p] \in Process /\ proc[p].outcome = "none" /\ ~proc[p].made
      /\ proc[p].seq = 0 /\ proc[p].version <= latest
  BY <1>1, EarlyFacts
<1>. pc \in ProcState
  BY DEF ProcState
<1>3. PICK new \in Process :
        /\ new = [proc[p] EXCEPT !.pc = pc]
        /\ new.pc = pc /\ new.kind = proc[p].kind /\ new.version = proc[p].version
        /\ new.staged = proc[p].staged /\ new.made = proc[p].made /\ new.seq = proc[p].seq
        /\ new.outcome = proc[p].outcome
  BY <1>2, Elsewhere
<1>4. Move(p, new)
  BY <1>3 DEF Goes
<1>5. latest' = latest /\ target' = target
  BY <1>4 DEF Move, Untouched, installed
<1>6. StagedOK(new)
  BY <1>3 DEF StagedOK
<1>7. LockOK(p, new)'
  BY <1>1, <1>2, <1>3, <1>5 DEF Sound, LockOK, Locked
<1>8. new.pc \in Early \cup {"sync"} /\ new.outcome = "none" /\ ~new.made /\ new.seq = 0
  BY <1>2, <1>3 DEF Early
<1>. QED
  BY <1>1, <1>4, <1>6, <1>7, <1>8, GoesOn

LEMMA BeginCommitKeeps == ASSUME IInv, NEW p \in Proc, BeginCommit(p) PROVE IInv'
<1>1. proc[p].pc = "prepared" /\ Sound(p, proc[p])
  BY DEF BeginCommit, At, IInv
<1>2. proc[p].staged = "complete"
  BY <1>1 DEF Sound, StagedOK
<1>. QED
  BY <1>1, <1>2, Continues DEF BeginCommit

LEMMA CommitShimKeeps == ASSUME IInv, NEW p \in Proc, CommitShim(p) PROVE IInv'
<1>1. /\ proc[p].pc = "shim" /\ proc[p].pc \in Early /\ proc[p].pc \in Locked
      /\ Sound(p, proc[p])
  BY DEF CommitShim, At, Early, Locked, IInv
<1>2. proc[p].staged = "complete"
  BY <1>1 DEF Sound, StagedOK
<1>3. UNCHANGED <<target, onDisk, installs, shimOnDisk>>
  BY DEF CommitShim, installed
<1>4. /\ proc[p] \in Process /\ proc[p].outcome = "none" /\ proc[p].seq = 0
      /\ p \notin {target.by, onDisk.by, shim, shimOnDisk} /\ proc[p].version <= latest
      /\ OutcomeOK(p, "beforeRename", proc[p].seq)
  BY <1>1, EarlyFacts
<1>5. CASE shim' = p /\ Move(p, [proc[p] EXCEPT !.pc = "sync", !.made = TRUE]) /\ lock' = lock
  <2>1. PICK new : new = [proc[p] EXCEPT !.pc = "sync", !.made = TRUE]
    OBVIOUS
  <2>2. /\ new \in Process /\ new.pc = "sync" /\ new.outcome = "none" /\ new.made
        /\ new.seq = 0 /\ new.version = proc[p].version /\ new.staged = "complete"
        /\ new.kind = proc[p].kind
    BY <1>2, <1>4, <2>1 DEF Process, ProcState
  <2>3. Move(p, new)
    BY <1>5, <2>1
  <2>4. latest' = latest
    BY <2>3 DEF Move
  <2>5. Sound(p, new)'
    BY <1>1, <1>3, <1>4, <1>5, <2>2, <2>4
    DEF Sound, StagedOK, TraceOK, OutcomeOK, LockOK, Early, Locked, Untried
  <2>6. FilesOK'
    BY <1>3, <2>4 DEF IInv, FilesOK, TargetWhole
  <2>7. /\ target' \in File /\ onDisk' \in File /\ shim' \in Shim /\ shimOnDisk' \in Shim
        /\ installs' \in Nat /\ onDisk'.seq >= onDisk.seq
    BY <1>3, <1>5 DEF IInv, ReleaseTypeOK, Shim, File
  <2>8. /\ {target'.by, onDisk'.by} \subseteq {target.by, onDisk.by, p}
        /\ {shim', shimOnDisk'} \subseteq {shim, shimOnDisk, p, "absent"}
    BY <1>3, <1>5
  <2>. QED
    BY <1>1, <1>5, <2>2, <2>3, <2>5, <2>6, <2>7, <2>8, Installs
<1>6. CASE Goes(p, "sync") /\ UNCHANGED <<shim, lock>>
  BY <1>1, <1>2, <1>3, <1>6, Continues DEF Untouched, installed, shims
<1>7. CASE Conclude(p, "beforeRename") /\ UNCHANGED shim
  BY <1>1, <1>3, <1>4, <1>7, Concludes DEF Untouched, installed, shims, Outcome
<1>. QED
  BY <1>5, <1>6, <1>7 DEF CommitShim

\* A commit that fails before its rename.
LEMMA NoCommitKeeps ==
  ASSUME IInv, NEW p \in Proc, proc[p].pc \in {"sync", "rename"}, NoCommit(p), Untouched
  PROVE IInv'
<1>1. /\ proc[p] \in Process /\ Sound(p, proc[p]) /\ lock \in Proc \cup {NoProc}
  BY DEF IInv, ReleaseTypeOK
<1>2. /\ p \notin {target.by, onDisk.by} /\ proc[p].outcome = "none"
      /\ ~proc[p].made => p \notin {shim, shimOnDisk}
  BY <1>1, Zenon DEF Sound, TraceOK, Untried
<1>3. CASE ~proc[p].made
  <2>1. OutcomeOK(p, "beforeRename", proc[p].seq) /\ proc[p].pc \in Locked
    BY <1>2, <1>3 DEF OutcomeOK, Locked
  <2>. QED
    BY <1>3, <2>1, Concludes DEF NoCommit, Outcome
<1>4. CASE proc[p].made
  <2>1. PICK new \in Process :
          /\ new = [proc[p] EXCEPT !.pc = "unlink"]
          /\ new.pc = "unlink" /\ new.kind = proc[p].kind /\ new.version = proc[p].version
          /\ new.staged = proc[p].staged /\ new.made = proc[p].made /\ new.seq = proc[p].seq
          /\ new.outcome = proc[p].outcome
    BY <1>1, Elsewhere DEF ProcState
  <2>2. Move(p, new) /\ lock' = lock
    BY <1>4, <2>1 DEF NoCommit, Goes
  <2>3. UNCHANGED <<target, onDisk, shim, shimOnDisk, latest>>
    BY <2>2 DEF Move, Untouched, installed, shims
  <2>4. Sound(p, new)'
    BY <1>1, <1>2, <1>4, <2>1, <2>2, <2>3
    DEF Sound, StagedOK, TraceOK, OutcomeOK, LockOK, Early, Locked, Untried
  <2>. QED
    BY <1>1, <2>2, <2>4, Frame
<1>. QED
  BY <1>3, <1>4

LEMMA SyncStagedKeeps == ASSUME IInv, NEW p \in Proc, SyncStaged(p) PROVE IInv'
<1>1. /\ proc[p].pc = "sync" /\ Untouched
      /\ proc[p] \in Process /\ Sound(p, proc[p]) /\ lock \in Proc \cup {NoProc}
  BY DEF SyncStaged, At, IInv, ReleaseTypeOK
<1>2. CASE NoCommit(p)
  BY <1>1, <1>2, NoCommitKeeps
<1>3. CASE /\ Move(p, [proc[p] EXCEPT !.pc = "rename",
                                      !.staged = IF @ = "complete" THEN "synced" ELSE @])
           /\ lock' = lock
  <2>1. proc[p].staged = "complete"
    BY <1>1 DEF Sound, StagedOK
  <2>2. PICK new : new = [proc[p] EXCEPT !.pc = "rename",
                                         !.staged = IF @ = "complete" THEN "synced" ELSE @]
    OBVIOUS
  <2>3. /\ new \in Process /\ new.pc = "rename" /\ new.staged = "synced"
        /\ new.kind = proc[p].kind /\ new.version = proc[p].version
        /\ new.made = proc[p].made /\ new.seq = proc[p].seq /\ new.outcome = proc[p].outcome
    BY <1>1, <2>1, <2>2 DEF Process, ProcState
  <2>4. Move(p, new)
    BY <1>3, <2>2
  <2>5. UNCHANGED <<target, onDisk, shim, shimOnDisk, latest>>
    BY <1>1, <2>4 DEF Move, Untouched, installed, shims
  <2>6. Sound(p, new)'
    BY <1>1, <1>3, <2>3, <2>5
    DEF Sound, StagedOK, TraceOK, OutcomeOK, LockOK, Early, Locked, Untried
  <2>. QED
    BY <1>1, <1>3, <2>3, <2>4, <2>6, Frame
<1>. QED
  BY <1>2, <1>3 DEF SyncStaged

LEMMA RenameKeeps == ASSUME IInv, NEW p \in Proc, Rename(p) PROVE IInv'
<1>1. /\ proc[p].pc = "rename" /\ proc[p].pc \in Locked /\ UNCHANGED shims
      /\ proc[p] \in Process /\ Sound(p, proc[p])
  BY DEF Rename, At, Locked, IInv, ReleaseTypeOK
<1>2. CASE NoCommit(p) /\ UNCHANGED installed
  BY <1>1, <1>2, NoCommitKeeps DEF Untouched
<1>3. CASE /\ target' = [by |-> p, version |-> proc[p].version, seq |-> installs + 1,
                         whole |-> proc[p].staged = "synced"]
           /\ installs' = installs + 1
           /\ Move(p, [proc[p] EXCEPT !.pc = "dirsync", !.staged = "none",
                                      !.seq = installs + 1])
           /\ UNCHANGED <<onDisk, lock>>
  <2>1. /\ proc[p].staged = "synced" /\ proc[p].version \in Nat /\ installs \in Nat
        /\ proc[p].version <= latest /\ proc[p].outcome = "none" /\ lock = p
    BY <1>1 DEF Sound, StagedOK, TraceOK, LockOK, Process, IInv, ReleaseTypeOK
  <2>2. PICK k \in Nat : k = installs + 1
    BY <2>1
  <2>3. PICK new : new = [proc[p] EXCEPT !.pc = "dirsync", !.staged = "none", !.seq = k]
    OBVIOUS
  <2>4. /\ new \in Process /\ new.pc = "dirsync" /\ new.version = proc[p].version
        /\ new.seq = k /\ new.outcome = "none"
    BY <1>1, <2>1, <2>3 DEF Process, ProcState
  <2>5. Move(p, new) /\ latest' = latest
    BY <1>3, <2>2, <2>3 DEF Move
  <2>6. /\ target' \in File /\ target'.whole /\ target'.seq = k
        /\ target'.by = p /\ target'.version = proc[p].version
    <3>1. target' = [by |-> p, version |-> proc[p].version, seq |-> k, whole |-> TRUE]
      BY <1>3, <2>1, <2>2, Zenon
    <3>. QED
      BY <2>1, <2>2, <3>1 DEF File
  <2>7. Sound(p, new)'
    BY <1>3, <2>1, <2>4, <2>5, <2>6
    DEF Sound, StagedOK, TraceOK, OutcomeOK, LockOK, Early, Locked, Untried
  <2>8. FilesOK'
    <3>1. /\ onDisk.seq \in Nat /\ target.seq \in Nat /\ latest \in Nat
          /\ onDisk.seq <= target.seq /\ target.seq <= installs
          /\ onDisk # NoFile => onDisk.whole
          /\ onDisk.version <= latest
      BY DEF IInv, FilesOK, TargetWhole, ReleaseTypeOK, File
    <3>. QED
      BY <1>3, <2>1, <2>2, <2>5, <2>6, <3>1 DEF FilesOK, TargetWhole
  <2>9. /\ onDisk' \in File /\ shim' \in Shim /\ shimOnDisk' \in Shim
        /\ installs' \in Nat /\ onDisk'.seq >= onDisk.seq
        /\ {target'.by, onDisk'.by} \subseteq {target.by, onDisk.by, p}
        /\ {shim', shimOnDisk'} \subseteq {shim, shimOnDisk, p, "absent"}
    BY <1>1, <1>3, <2>6 DEF IInv, ReleaseTypeOK, shims, File
  <2>. QED
    BY <1>1, <1>3, <2>4, <2>5, <2>6, <2>7, <2>8, <2>9, Installs
<1>. QED
  BY <1>1, <1>2, <1>3 DEF Rename

\* The directory is synced, and the commit is over.
LEMMA ConcludesDurably ==
  ASSUME IInv, NEW p \in Proc, NEW outcome \in Outcome, Conclude(p, outcome),
         proc[p].pc \in Locked, Durable, UNCHANGED <<target, installs, shim>>,
         NEW seq, seq = proc[p].seq, OutcomeOK(p, outcome, seq)'
  PROVE IInv'
<1>1. proc[p] \in Process /\ Sound(p, proc[p])
  BY DEF IInv, ReleaseTypeOK
<1>2. PICK new : new = [Idle EXCEPT !.pc = "leaving", !.kind = proc[p].kind,
                                    !.seq = proc[p].seq, !.outcome = outcome]
  OBVIOUS
<1>3. /\ new \in Process
      /\ new.pc = "leaving" /\ new.outcome = outcome /\ new.seq = proc[p].seq
      /\ new.version = 0
  BY <1>1, <1>2 DEF Process, Idle, ProcState, File, NoFile
<1>4. Move(p, new) /\ lock' = lock
  BY <1>2 DEF Conclude
<1>5. latest' = latest /\ proc' = [proc EXCEPT ![p] = new]
  BY <1>4 DEF Move
<1>. proc \in [Proc -> Process]
  BY DEF IInv, ReleaseTypeOK
<1>6. lock = p /\ latest \in Nat /\ onDisk.seq \in Nat /\ target.seq \in Nat
  BY <1>1 DEF IInv, ReleaseTypeOK, File, Sound, LockOK
<1>7. OutcomeOK(p, new.outcome, new.seq)'
  BY <1>3
<1>8. Sound(p, new)'
  BY <1>3, <1>4, <1>5, <1>6, <1>7
  DEF Sound, StagedOK, TraceOK, LockOK, Early, Locked, Untried
<1>9. FilesOK'
  BY <1>5, <1>6 DEF IInv, FilesOK, TargetWhole, Durable
<1>10. /\ target' \in File /\ onDisk' \in File /\ shim' \in Shim /\ shimOnDisk' \in Shim
       /\ installs' \in Nat
       /\ {target'.by, onDisk'.by} \subseteq {target.by, onDisk.by, p}
       /\ {shim', shimOnDisk'} \subseteq {shim, shimOnDisk, p, "absent"}
  BY DEF IInv, ReleaseTypeOK, Durable
<1>11. onDisk'.seq >= onDisk.seq
  BY <1>6 DEF IInv, FilesOK, Durable
<1>. QED
  BY <1>3, <1>4, <1>8, <1>9, <1>10, <1>11, Installs

LEMMA SyncDirectoryKeeps == ASSUME IInv, NEW p \in Proc, SyncDirectory(p) PROVE IInv'
<1>1. /\ proc[p].pc = "dirsync" /\ proc[p].pc \in Locked /\ UNCHANGED <<target, installs, shim>>
      /\ Sound(p, proc[p])
  BY DEF SyncDirectory, At, Locked, IInv
<1>2. CASE Durable /\ Conclude(p, "upgraded")
  <2>1. target.seq >= proc[p].seq /\ onDisk' = target
    BY <1>1, <1>2 DEF Sound, TraceOK, Durable
  <2>2. PICK seq : seq = proc[p].seq
    OBVIOUS
  <2>3. OutcomeOK(p, "upgraded", seq)'
    BY <2>1, <2>2 DEF OutcomeOK
  <2>. QED
    BY <1>1, <1>2, <2>2, <2>3, ConcludesDurably DEF Outcome
<1>3. CASE UNCHANGED <<onDisk, shimOnDisk>> /\ Conclude(p, "durabilityUnknown")
  <2>1. OutcomeOK(p, "durabilityUnknown", proc[p].seq)
    BY DEF OutcomeOK
  <2>. QED
    BY <1>1, <1>3, <2>1, Concludes DEF Outcome, Untouched, installed, shims
<1>. QED
  BY <1>1, <1>2, <1>3 DEF SyncDirectory

LEMMA UnlinkShimKeeps == ASSUME IInv, NEW p \in Proc, UnlinkShim(p) PROVE IInv'
<1>1. /\ proc[p].pc = "unlink" /\ proc[p].pc \in Locked
      /\ UNCHANGED <<target, onDisk, installs, shimOnDisk>>
      /\ proc[p] \in Process /\ Sound(p, proc[p])
  BY DEF UnlinkShim, At, Locked, IInv, ReleaseTypeOK, installed
<1>2. /\ p \notin {target.by, onDisk.by} /\ p # "absent"
      /\ ~proc[p].made => p # shimOnDisk
  BY <1>1, NamesDiffer, Zenon DEF Sound, TraceOK, Untried
<1>3. CASE shim' = "absent" /\ Goes(p, "rollsync") /\ lock' = lock
  <2>1. PICK new \in Process :
          /\ new = [proc[p] EXCEPT !.pc = "rollsync"]
          /\ new.pc = "rollsync" /\ new.kind = proc[p].kind /\ new.version = proc[p].version
          /\ new.staged = proc[p].staged /\ new.made = proc[p].made /\ new.seq = proc[p].seq
          /\ new.outcome = proc[p].outcome
    BY <1>1, Elsewhere DEF ProcState
  <2>2. Move(p, new)
    BY <1>3, <2>1 DEF Goes
  <2>3. latest' = latest
    BY <2>2 DEF Move
  <2>4. Sound(p, new)'
    BY <1>1, <1>2, <1>3, <2>1, <2>3
    DEF Sound, StagedOK, TraceOK, OutcomeOK, LockOK, Early, Locked, Untried
  <2>5. FilesOK'
    BY <1>1, <2>3 DEF IInv, FilesOK, TargetWhole
  <2>6. /\ target' \in File /\ onDisk' \in File /\ shim' \in Shim /\ shimOnDisk' \in Shim
        /\ installs' \in Nat /\ onDisk'.seq >= onDisk.seq
        /\ {target'.by, onDisk'.by} \subseteq {target.by, onDisk.by, p}
        /\ {shim', shimOnDisk'} \subseteq {shim, shimOnDisk, p, "absent"}
    BY <1>1, <1>3 DEF IInv, ReleaseTypeOK, Shim, File
  <2>. QED
    BY <1>1, <1>3, <2>2, <2>4, <2>5, <2>6, Installs
<1>4. CASE Conclude(p, "shimLeft") /\ UNCHANGED shim
  <2>1. OutcomeOK(p, "shimLeft", proc[p].seq)
    BY <1>2 DEF OutcomeOK
  <2>. QED
    BY <1>1, <1>4, <2>1, Concludes DEF Outcome, Untouched, installed, shims
<1>. QED
  BY <1>3, <1>4 DEF UnlinkShim

LEMMA SyncRollbackKeeps == ASSUME IInv, NEW p \in Proc, SyncRollback(p) PROVE IInv'
<1>1. /\ proc[p].pc = "rollsync" /\ proc[p].pc \in Locked /\ UNCHANGED <<target, installs, shim>>
      /\ Sound(p, proc[p])
  BY DEF SyncRollback, At, Locked, IInv
<1>2. p \notin {target.by, onDisk.by} /\ p # shim
  BY <1>1 DEF Sound, TraceOK, Untried
<1>3. CASE Durable /\ Conclude(p, "beforeRename")
  <2>1. PICK seq : seq = proc[p].seq
    OBVIOUS
  <2>2. OutcomeOK(p, "beforeRename", seq)'
    BY <1>1, <1>2, <1>3 DEF OutcomeOK, Durable
  <2>. QED
    BY <1>1, <1>3, <2>1, <2>2, ConcludesDurably DEF Outcome
<1>4. CASE UNCHANGED <<onDisk, shimOnDisk>> /\ Conclude(p, "rollbackUnknown")
  <2>1. OutcomeOK(p, "rollbackUnknown", proc[p].seq)
    BY <1>2 DEF OutcomeOK
  <2>. QED
    BY <1>1, <1>4, <2>1, Concludes DEF Outcome, Untouched, installed, shims
<1>. QED
  BY <1>1, <1>3, <1>4 DEF SyncRollback

-----------------------------------------------------------------------------
(* Ends of processes, and what is nobody's.                                *)

LEMMA AbandonKeeps == ASSUME IInv, NEW p \in Proc, Abandon(p) PROVE IInv'
BY Fails DEF Abandon, At, Early

LEMMA LeaveKeeps == ASSUME IInv, NEW p \in Proc, Leave(p) PROVE IInv'
<1>1. proc[p] \in Process /\ Sound(p, proc[p])
  BY DEF IInv, ReleaseTypeOK
<1>2. proc[p].outcome \in Outcome /\ OutcomeOK(p, proc[p].outcome, proc[p].seq)
  BY <1>1 DEF Process, Sound
<1>. QED
  BY <1>2, Finishes DEF Leave

\* A killed process has done nothing that it reports.
LEMMA KilledFacts ==
  ASSUME IInv, NEW p \in Proc
  PROVE /\ Killed(p) \in Process
        /\ \/ Killed(p).pc = "dead" /\ Killed(p).outcome = "none" /\ Killed(p).version = 0
           \/ Killed(p) = proc[p] /\ proc[p].pc \in {"idle", "over", "dead"}
<1>1. proc[p] \in Process
  BY DEF IInv, ReleaseTypeOK
<1>2. CASE Active(p)
  <2>1. PICK new : new = [Idle EXCEPT !.pc = "dead"]
    OBVIOUS
  <2>2. new \in Process /\ new.pc = "dead" /\ new.outcome = "none" /\ new.version = 0
    BY <2>1 DEF Process, Idle, ProcState, Outcome, File, NoFile
  <2>3. Killed(p) = new
    BY <1>2, <2>1 DEF Killed
  <2>. QED
    BY <2>2, <2>3
<1>3. CASE ~Active(p)
  BY <1>1, <1>3 DEF Killed, Active, Ended, At
<1>. QED
  BY <1>2, <1>3

LEMMA CrashKeeps == ASSUME IInv, NEW p \in Proc, Crash(p) PROVE IInv'
<1>1. PICK new : new = Killed(p)
  OBVIOUS
<1>2. /\ new \in Process /\ new.pc = "dead" /\ new.outcome = "none" /\ new.version = 0
  BY <1>1, KilledFacts DEF Crash, Active, Ended, At
<1>3. Move(p, new) /\ Untouched /\ lock' = IF lock = p THEN NoProc ELSE lock
  BY <1>1 DEF Crash
<1>4. latest' = latest /\ latest \in Nat /\ lock \in Proc \cup {NoProc}
  BY <1>3 DEF Move, IInv, ReleaseTypeOK
<1>5. Sound(p, new)'
  BY <1>2, <1>4 DEF Sound, StagedOK, TraceOK, OutcomeOK, LockOK, Early, Locked, Untried
<1>6. lock' \in Proc \cup {NoProc} /\ \A q \in Proc \ {p} : lock = q => lock' = q
  BY <1>3, <1>4
<1>. QED
  BY <1>2, <1>3, <1>5, <1>6, Frame

\* Every process is killed, and what is installed is what it was or what was synced.
LEMMA AllKilled ==
  ASSUME IInv, proc' = [p \in Proc |-> Killed(p)], lock' = NoProc,
         UNCHANGED <<platform, latest, installs>>, outages' \in Nat,
         target' \in {target, onDisk}, onDisk' \in {target', onDisk},
         onDisk'.seq <= target'.seq,
         shim' \in {shim, shimOnDisk}, shimOnDisk' \in {shim, shimOnDisk},
         onDisk'.seq >= onDisk.seq
  PROVE IInv'
<1>1. ReleaseTypeOK'
  BY KilledFacts DEF IInv, ReleaseTypeOK
<1>2. FilesOK'
  <2>1. onDisk.seq \in Nat /\ target.seq \in Nat /\ installs \in Nat
    BY DEF IInv, ReleaseTypeOK, File
  <2>. QED
    BY <2>1 DEF IInv, FilesOK, TargetWhole
<1>3. ASSUME NEW p \in Proc PROVE Sound(p, proc[p])'
  <2>1. proc'[p] = Killed(p) /\ Sound(p, proc[p]) /\ latest \in Nat /\ latest' = latest
        /\ onDisk.seq \in Nat /\ onDisk'.seq \in Nat /\ proc[p].seq \in Nat
    BY DEF IInv, ReleaseTypeOK, File, Process
  <2>2. CASE Killed(p).pc = "dead" /\ Killed(p).outcome = "none" /\ Killed(p).version = 0
    BY <2>1, <2>2 DEF Sound, StagedOK, TraceOK, OutcomeOK, LockOK, Early, Locked, Untried
  <2>3. CASE Killed(p) = proc[p] /\ proc[p].pc \in {"idle", "over", "dead"}
    BY <2>1, <2>3 DEF Sound, StagedOK, TraceOK, OutcomeOK, LockOK, Early, Locked, Untried
  <2>. QED
    BY <2>2, <2>3, KilledFacts
<1>. QED
  BY <1>1, <1>2, <1>3 DEF IInv

LEMMA PowerLossKeeps == ASSUME IInv, PowerLoss PROVE IInv'
<1>1. /\ onDisk.seq \in Nat /\ target.seq \in Nat /\ onDisk.seq <= target.seq
      /\ outages \in Nat
  BY DEF IInv, ReleaseTypeOK, FilesOK, File
<1>2. onDisk' = target' /\ target' \in {target, onDisk} /\ shimOnDisk' = shim'
  BY DEF PowerLoss
<1>3. onDisk'.seq <= target'.seq /\ onDisk'.seq >= onDisk.seq /\ outages' \in Nat
  BY <1>1, <1>2 DEF PowerLoss
<1>. QED
  BY <1>2, <1>3, AllKilled DEF PowerLoss

LEMMA SessionEndsKeeps == ASSUME IInv, SessionEnds PROVE IInv'
<1>1. /\ onDisk.seq \in Nat /\ target.seq \in Nat /\ onDisk.seq <= target.seq
      /\ outages \in Nat
  BY DEF IInv, ReleaseTypeOK, FilesOK, File
<1>2. UNCHANGED <<target, onDisk, installs, shim, shimOnDisk>> /\ outages' \in Nat
  BY <1>1 DEF SessionEnds, installed, shims
<1>. QED
  BY <1>1, <1>2, AllKilled DEF SessionEnds

LEMMA PublishKeeps == ASSUME IInv, Publish PROVE IInv'
<1>1. /\ UNCHANGED <<platform, target, onDisk, installs, shim, shimOnDisk, lock, proc, outages>>
      /\ latest \in Nat /\ latest' = latest + 1
  BY DEF Publish, installed, shims, IInv, ReleaseTypeOK
<1>2. ReleaseTypeOK'
  BY <1>1 DEF IInv, ReleaseTypeOK
<1>3. FilesOK'
  <2>1. target.version \in Nat /\ onDisk.version \in Nat
    BY DEF IInv, ReleaseTypeOK, File
  <2>. QED
    BY <1>1, <2>1 DEF IInv, FilesOK, TargetWhole
<1>4. ASSUME NEW p \in Proc PROVE Sound(p, proc[p])'
  <2>1. Sound(p, proc[p]) /\ proc[p].version \in Nat
    BY DEF IInv, ReleaseTypeOK, Process
  <2>. QED
    BY <1>1, <2>1 DEF Sound, StagedOK, TraceOK, OutcomeOK, LockOK
<1>. QED
  BY <1>2, <1>3, <1>4 DEF IInv

-----------------------------------------------------------------------------
(* The invariant, and what it gives.                                       *)

LEMMA InitHolds == ReleaseInit => IInv
<1> SUFFICES ASSUME ReleaseInit PROVE IInv
  OBVIOUS
<1>1. /\ platform \in {"linux", "mac"} /\ latest = 1 /\ target \in {First, NoFile}
      /\ onDisk = target /\ shim \in {"absent", "foreign", "link"} /\ shimOnDisk = shim
      /\ lock = NoProc /\ proc = [p \in Proc |-> Idle] /\ installs = 0 /\ outages = 0
  BY ReleaseAssumption DEF ReleaseInit
<1>2. /\ target \in File /\ target.seq = 0 /\ target.version <= 1 /\ target.by = NoProc
      /\ target # NoFile => target.whole
  <2>1. First \in File /\ First.seq = 0 /\ First.version = 1 /\ First.by = NoProc
    BY DEF First, File
  <2>2. NoFile \in File /\ NoFile.seq = 0 /\ NoFile.version = 0 /\ NoFile.by = NoProc
    BY DEF NoFile, File
  <2>3. First.whole
    BY DEF First
  <2>. QED
    BY <1>1, <2>1, <2>2, <2>3
<1>3. /\ Idle \in Process /\ Idle.pc = "idle" /\ Idle.outcome = "none" /\ ~Idle.made
      /\ Idle.seq = 0 /\ Idle.version = 0
  BY DEF Idle, Process, ProcState, Outcome, NoFile, File
<1>4. ReleaseTypeOK
  BY <1>1, <1>2, <1>3 DEF ReleaseTypeOK, Shim
<1>5. FilesOK
  BY <1>1, <1>2 DEF FilesOK, TargetWhole
<1>6. ASSUME NEW p \in Proc PROVE Sound(p, proc[p])
  <2>1. proc[p] = Idle /\ p \notin {target.by, onDisk.by, shim, shimOnDisk}
    BY <1>1, <1>2, NamesDiffer
  <2>. QED
    BY <1>1, <1>3, <2>1
    DEF Sound, StagedOK, TraceOK, OutcomeOK, LockOK, Early, Locked, Untried
<1>. QED
  BY <1>4, <1>5, <1>6 DEF IInv

LEMMA StepKeeps == IInv /\ [ReleaseNext]_releaseVars => IInv'
<1> SUFFICES ASSUME IInv, [ReleaseNext]_releaseVars PROVE IInv'
  OBVIOUS
<1>1. CASE Publish \/ PowerLoss \/ SessionEnds
  BY <1>1, PublishKeeps, PowerLossKeeps, SessionEndsKeeps
<1>2. ASSUME NEW p \in Proc, Prepares(p) PROVE IInv'
  BY <1>2, LaunchKeeps, ResolveKeeps, CheckKeeps, FlockKeeps, FetchKeeps, StageKeeps,
     DownloadKeeps DEF Prepares
<1>3. ASSUME NEW p \in Proc, Commits(p) PROVE IInv'
  BY <1>3, CommitShimKeeps, SyncStagedKeeps, RenameKeeps, SyncDirectoryKeeps,
     UnlinkShimKeeps, SyncRollbackKeeps DEF Commits
<1>4. ASSUME NEW p \in Proc, BeginCommit(p) \/ Abandon(p) \/ Leave(p) \/ Crash(p) PROVE IInv'
  BY <1>4, BeginCommitKeeps, AbandonKeeps, LeaveKeeps, CrashKeeps
<1>5. CASE UNCHANGED releaseVars
  BY <1>5 DEF releaseVars, installed, shims, IInv, ReleaseTypeOK, FilesOK, TargetWhole, Sound,
              StagedOK, TraceOK, OutcomeOK, LockOK
<1>. QED
  BY <1>1, <1>2, <1>3, <1>4, <1>5 DEF ReleaseNext

\* What every reachable state of an installation satisfies.
LEMMA Invariance == ReleaseSpec => []IInv
BY InitHolds, StepKeeps, PTL DEF ReleaseSpec

\* The variables keep their types (src/src/release.rs:351-416).
THEOREM ReleaseTypeCorrect == ReleaseSpec => []ReleaseTypeOK
<1>1. IInv => ReleaseTypeOK
  BY DEF IInv
<1>. QED
  BY <1>1, Invariance, PTL

\* A complete and synced binary is all that is ever renamed into place, and all that a
\* power loss can bring back (commit_binary_with, src/src/release.rs:359-374).
THEOREM TargetIsWhole == ReleaseSpec => []TargetWhole
<1>1. IInv => TargetWhole
  BY DEF IInv, FilesOK
<1>. QED
  BY <1>1, Invariance, PTL

\* What a process reports of its commit is true of the disk, now and after a power loss
\* (commit_linux, src/src/release.rs:381-407).
THEOREM ReportsAreTrue == ReleaseSpec => []ReportTrue
<1>1. IInv => ReportTrue
  BY DEF IInv, Sound, OutcomeOK, ReportTrue
<1>. QED
  BY <1>1, Invariance, PTL

\* While no power is lost and nobody logs out, only a rename changes what is installed.
LEMMA OnlyRenameInstalls ==
  ASSUME IInv, ReleaseNext, target' # target, outages' = outages
  PROVE \E q \in Proc : /\ Rename(q) /\ proc[q].pc = "rename"
                        /\ target'.by = q /\ target'.version = proc[q].version
<1>1. outages \in Nat
  BY DEF IInv, ReleaseTypeOK
<1>2. ~PowerLoss /\ ~SessionEnds /\ ~Publish
  BY <1>1 DEF PowerLoss, SessionEnds, Publish, installed
<1>3. PICK q \in Proc : \/ Prepares(q) \/ BeginCommit(q) \/ Commits(q)
                       \/ Abandon(q) \/ Leave(q) \/ Crash(q)
  BY <1>2 DEF ReleaseNext
<1>4. ~(Prepares(q) \/ BeginCommit(q) \/ Abandon(q) \/ Leave(q) \/ Crash(q))
  BY DEF Prepares, Launch, Resolve, Check, Flock, Fetch, Stage, Download, BeginCommit,
         Abandon, Leave, Crash, Untouched, installed
<1>5. Rename(q)
  BY <1>3, <1>4
  DEF Commits, CommitShim, SyncStaged, SyncDirectory, UnlinkShim, SyncRollback, Untouched,
      installed
<1>6. target'.by = q /\ target'.version = proc[q].version /\ proc[q].pc = "rename"
  BY <1>5 DEF Rename, At, installed
<1>. QED
  BY <1>5, <1>6

\* No upgrade installs an older binary than the one it replaces (run_upgrade holds the
\* lock from before it fetches the manifest, src/src/main.rs:829-839).
THEOREM NeverDowngrades == ReleaseSpec => NoDowngrade
<1>1. IInv /\ [ReleaseNext]_releaseVars =>
        [\A p \in Proc :
           (target' # target /\ target'.by = p /\ proc[p].kind = "upgrade" /\ outages' = outages)
             => target'.version >= target.version]_releaseVars
  <2> SUFFICES ASSUME IInv, ReleaseNext, NEW p \in Proc, target' # target, target'.by = p,
                      proc[p].kind = "upgrade", outages' = outages
               PROVE target'.version >= target.version
    OBVIOUS
  <2>1. target \in File /\ proc[p] \in Process /\ Sound(p, proc[p])
    BY DEF IInv, ReleaseTypeOK
  <2>2. target'.version = proc[p].version /\ proc[p].pc = "rename"
    BY OnlyRenameInstalls
  <2>3. target.version <= proc[p].version
    BY <2>1, <2>2 DEF Sound, LockOK
  <2>. QED
    BY <2>1, <2>2, <2>3 DEF File, Process
<1>. QED
  BY <1>1, Invariance, PTL DEF ReleaseSpec, NoDowngrade
-----------------------------------------------------------------------------
(* Lifecycle.                                                              *)

Stopping == {"stop", "persistLoad", "persist", "stopBootout", "shutdown", "reply", "lastBootout"}
OnlyUpgrade == {"classify", "observe", "commit"}

\* What a command is, by where it is.
CommandOK ==
  /\ IF cli.cmd = "none" THEN cli.pc = "idle" ELSE platform = "mac" /\ launchd.session
  /\ cli.cmd = "upgrade" => cli.proc \in Proc
  /\ cli.pc \in Stopping => cli.cmd \in {"stop", "restart", "upgrade"}
  /\ cli.pc \in OnlyUpgrade => cli.cmd = "upgrade"
  /\ cli.reply # "none" => cli.pc \in {"reply", "lastBootout"}

\* launchd knows of every daemon that SIGTERM still kills, and spawns none unloaded.
JobOK ==
  /\ ~launchd.loaded => ~launchd.due /\ launchd.job = NoSlot
  /\ \A d \in Slot : daemon[d].pc \in {"starting", "loaded"} => launchd.job = d

\* Between a Shutdown request that is taken and the bootout after it, the stop intent is
\* saved and will not be taken back, and no daemon gets past it.
ReplyOK ==
  /\ cli.reply \in {"taken", "confirmed"} => config.stopping
  /\ cli.reply = "taken" => \E d \in Slot : daemon[d].pc = "stopping" /\ daemon[d].memory.stopping
  /\ cli.reply = "confirmed" => \A d \in Slot : daemon[d].pc \in {"none", "starting", "exiting"}

\* While an upgrade commits no daemon runs, and none is started.
CommitOK ==
  cli.pc = "commit" => ~launchd.loaded /\ \A d \in Slot : daemon[d].pc \in {"none", "exiting"}

\* Nothing else commits an upgrade on macOS.
UpgradeOK ==
  \A p \in Proc :
    platform = "mac" /\ proc[p].kind = "upgrade" /\ proc[p].pc \in {"shim", "sync", "rename"}
      => cli.pc = "commit" /\ cli.proc = p

CommandType ==
  [cmd : Command, pc : CommandState, proc : Proc \cup {NoProc}, version : Nat, ran : BOOLEAN,
   was : BOOLEAN, failed : BOOLEAN, snap : Contents, reply : Reply]
LaunchdType ==
  [session : BOOLEAN, plist : BOOLEAN, loaded : BOOLEAN, due : BOOLEAN,
   job : Slot \cup {NoSlot}]
PastType ==
  [spoiled : BOOLEAN, wanted : BOOLEAN, stopped : BOOLEAN, acked : Nat, changes : Nat,
   commands : Nat, faults : Nat]

TypesOK ==
  /\ cli \in CommandType
  /\ launchd \in LaunchdType
  /\ daemon \in [Slot -> Daemon]
  /\ config \in Contents
  /\ past \in PastType

LInv ==
  /\ IInv /\ TypesOK
  /\ CommandOK /\ JobOK /\ OneDaemon /\ ReplyOK /\ CommitOK /\ UpgradeOK

-----------------------------------------------------------------------------
(* Commands.                                                               *)

\* No command runs.
LEMMA NoCommandFacts ==
  /\ NoCommand \in CommandType
  /\ NoCommand.cmd = "none" /\ NoCommand.pc = "idle" /\ NoCommand.reply = "none"
BY DEF NoCommand, CommandType, Command, CommandState, Reply, NoConfig, Contents

\* A process that ends is done with its commit, and disturbs no other.
LEMMA FinishFacts ==
  ASSUME IInv, NEW p \in Proc, NEW outcome, Finish(p, outcome)
  PROVE /\ proc'[p].pc = "over" /\ \A q \in Proc \ {p} : proc'[q] = proc[q]
        /\ platform' = platform
<1>1. PICK new : new = [Idle EXCEPT !.pc = "over", !.seq = proc[p].seq, !.outcome = outcome]
  OBVIOUS
<1>2. new.pc = "over"
  BY <1>1 DEF Idle
<1>3. proc \in [Proc -> Process]
  BY DEF IInv, ReleaseTypeOK
<1>4. proc' = [proc EXCEPT ![p] = new] /\ platform' = platform
  BY <1>1 DEF Finish, Move
<1>. QED
  BY <1>2, <1>3, <1>4

\* A step that is none of the installation's.
LEMMA InstallationRests ==
  ASSUME LInv, UNCHANGED releaseVars
  PROVE IInv' /\ platform' = platform /\ proc' = proc
BY StepKeeps DEF LInv, releaseVars

\* How a command ends.
LEMMA EndFacts ==
  ASSUME LInv, End
  PROVE /\ cli' = NoCommand /\ [ReleaseNext]_releaseVars /\ IInv' /\ UpgradeOK'
        /\ platform' = platform
<1>1. cli' = NoCommand
  BY DEF End
<1>2. CASE cli.cmd = "upgrade"
  <2>1. PICK p \in Proc : p = cli.proc
    BY <1>2 DEF LInv, CommandOK
  <2>2. Abandon(p) \/ Leave(p)
    BY <1>2, <2>1 DEF End
  <2>3. ReleaseNext
    BY <2>2 DEF ReleaseNext
  <2>4. proc[p].pc \in {"prepared", "leaving"}
    BY <2>2 DEF Abandon, Leave, At
  <2>5. IInv
    BY DEF LInv
  <2>6. /\ proc'[p].pc = "over" /\ \A q \in Proc \ {p} : proc'[q] = proc[q]
        /\ platform' = platform
    BY <2>2, <2>5, FinishFacts DEF Abandon, Leave
  <2>7. UpgradeOK'
    BY <2>1, <2>4, <2>6 DEF LInv, UpgradeOK
  <2>. QED
    BY <1>1, <2>3, <2>5, <2>6, <2>7, StepKeeps
<1>3. CASE cli.cmd # "upgrade"
  <2>1. UNCHANGED releaseVars /\ cli.pc # "commit"
    BY <1>3 DEF End, LInv, CommandOK, OnlyUpgrade
  <2>2. UpgradeOK'
    BY <2>1, InstallationRests DEF LInv, UpgradeOK
  <2>. QED
    BY <1>1, <2>1, <2>2, InstallationRests
<1>. QED
  BY <1>2, <1>3

\* A command goes on.
LEMMA GotoFacts ==
  ASSUME LInv, NEW pc \in CommandState, Goto(pc)
  PROVE /\ cli' \in CommandType /\ cli'.pc = pc /\ cli'.cmd = cli.cmd /\ cli'.proc = cli.proc
        /\ cli'.reply = cli.reply /\ cli'.ran = cli.ran
        /\ UNCHANGED releaseVars
<1>1. cli' = [cli EXCEPT !.pc = pc, !.snap = NoConfig] /\ UNCHANGED releaseVars
  BY DEF Goto
<1>2. cli \in CommandType
  BY DEF LInv, TypesOK
<1>3. NoConfig \in Contents
  BY DEF NoConfig, Contents
<1>. QED
  BY <1>1, <1>2, <1>3 DEF CommandType

\* A command's step that commits nothing and asks no daemon: at most daemons go.
LEMMA CommandFrame ==
  ASSUME LInv, IInv', UpgradeOK', TypesOK', CommandOK', JobOK',
         \A d \in Slot : daemon'[d].pc \in {"none", daemon[d].pc},
         cli'.reply \notin {"taken", "confirmed"}, cli'.pc # "commit"
  PROVE LInv'
<1>1. OneDaemon'
  BY DEF LInv, OneDaemon, HoldsLock
<1>. QED
  BY <1>1 DEF LInv, ReplyOK, CommitOK

\* The end of a command, which may have unloaded the job, saved or installed.
LEMMA EndKeeps ==
  ASSUME LInv, End, launchd' \in LaunchdType, daemon' \in [Slot -> Daemon],
         config' \in Contents, past' \in PastType, JobOK',
         \A d \in Slot : daemon'[d].pc \in {"none", daemon[d].pc}
  PROVE LInv'
<1>1. cli' = NoCommand /\ IInv' /\ UpgradeOK'
  BY EndFacts
<1>2. /\ cli' \in CommandType
      /\ cli'.cmd = "none" /\ cli'.pc = "idle" /\ cli'.reply = "none"
  BY <1>1, NoCommandFacts
<1>3. TypesOK' /\ CommandOK'
  BY <1>2 DEF TypesOK, CommandOK, Stopping, OnlyUpgrade
<1>. QED
  BY <1>1, <1>2, <1>3, CommandFrame

\* The same for a command that goes on, with no answer to wait for.
LEMMA GoesKeeps ==
  ASSUME LInv, cli' \in CommandType, UNCHANGED releaseVars,
         cli.cmd # "none", cli'.cmd = cli.cmd, cli'.proc = cli.proc,
         cli.pc # "commit", cli'.pc # "commit",
         cli'.pc \in Stopping => cli.pc \in Stopping \cup {"classify"},
         cli'.pc \in OnlyUpgrade => cli.cmd = "upgrade",
         cli'.reply \notin {"taken", "confirmed"},
         cli'.reply # "none" => cli'.pc \in {"reply", "lastBootout"},
         launchd' \in LaunchdType, launchd'.session = launchd.session,
         daemon' \in [Slot -> Daemon],
         config' \in Contents, past' \in PastType, JobOK',
         \A d \in Slot : daemon'[d].pc \in {"none", daemon[d].pc}
  PROVE LInv'
<1>1. IInv' /\ platform' = platform /\ proc' = proc
  BY InstallationRests
<1>2. UpgradeOK'
  BY <1>1 DEF LInv, UpgradeOK
<1>3. TypesOK'
  BY DEF TypesOK
<1>4. CommandOK'
  BY <1>1 DEF LInv, CommandOK, OnlyUpgrade
<1>. QED
  BY <1>1, <1>2, <1>3, <1>4, CommandFrame

\* A command that is not asking a daemon goes on.
LEMMA GotoKeeps ==
  ASSUME LInv, NEW pc \in CommandState, Goto(pc),
         cli.pc \notin {"idle", "commit", "reply", "lastBootout"}, pc # "commit",
         pc \in Stopping => cli.pc \in Stopping,
         pc \in OnlyUpgrade => cli.cmd = "upgrade",
         launchd' \in LaunchdType, launchd'.session = launchd.session,
         daemon' \in [Slot -> Daemon],
         config' \in Contents, past' \in PastType, JobOK',
         \A d \in Slot : daemon'[d].pc \in {"none", daemon[d].pc}
  PROVE LInv'
<1>1. /\ cli' \in CommandType /\ cli'.pc = pc /\ cli'.cmd = cli.cmd /\ cli'.proc = cli.proc
      /\ cli'.reply = cli.reply
      /\ UNCHANGED releaseVars
  BY GotoFacts
<1>2. cli.cmd # "none" /\ cli.reply = "none"
  BY DEF LInv, CommandOK
<1>. QED
  BY <1>1, <1>2, GoesKeeps

\* What a step leaves of launchd and the daemons.
LEMMA Alone ==
  ASSUME LInv, UNCHANGED <<launchd, daemon>>
  PROVE /\ launchd' \in LaunchdType /\ launchd'.session = launchd.session
        /\ daemon' \in [Slot -> Daemon] /\ JobOK'
        /\ \A d \in Slot : daemon'[d].pc \in {"none", daemon[d].pc}
BY DEF LInv, TypesOK, JobOK

LEMMA Successor == ASSUME NEW n \in Nat PROVE n + 1 \in Nat
OBVIOUS

\* What is remembered keeps its type.
LEMMA PastMoves ==
  ASSUME LInv,
         \/ UNCHANGED past
         \/ past' = Faulty
         \/ past' = Counted
         \/ past' = [Counted EXCEPT !.stopped = FALSE]
         \/ past' = [past EXCEPT !.wanted = FALSE]
         \/ past' = [past EXCEPT !.stopped = FALSE]
         \/ past' = [Faulty EXCEPT !.wanted = FALSE]
         \/ \E b \in BOOLEAN : \/ past' = [past EXCEPT !.spoiled = b]
                             \/ past' = [past EXCEPT !.wanted = b]
                             \/ past' = [past EXCEPT !.stopped = b]
                             \/ past' = [past EXCEPT !.faults = @ + 1, !.spoiled = b]
  PROVE past' \in PastType
<1>1. past \in PastType
  BY DEF LInv, TypesOK
<1>2. Faulty \in PastType
  <2>. past.faults \in Nat
    BY <1>1 DEF PastType
  <2>. past.faults + 1 \in Nat
    BY Successor
  <2>1. PICK n \in Nat : n = past.faults + 1
    BY Zenon
  <2>2. PICK new : new = [past EXCEPT !.faults = n, !.spoiled = TRUE]
    OBVIOUS
  <2>3. new \in PastType
    BY <1>1, <2>2 DEF PastType
  <2>. QED
    BY <2>1, <2>2, <2>3 DEF Faulty
<1>3. Counted \in PastType
  <2>. past.commands \in Nat
    BY <1>1 DEF PastType
  <2>. past.commands + 1 \in Nat
    BY Successor
  <2>1. PICK n \in Nat : n = past.commands + 1
    BY Zenon
  <2>2. PICK new : new = [past EXCEPT !.commands = n]
    OBVIOUS
  <2>3. new \in PastType
    BY <1>1, <2>2 DEF PastType
  <2>. QED
    BY <2>1, <2>2, <2>3 DEF Counted
<1>4. ASSUME NEW some \in PastType, NEW b \in BOOLEAN
      PROVE [some EXCEPT !.spoiled = b] \in PastType
  <2>1. PICK new : new = [some EXCEPT !.spoiled = b]
    OBVIOUS
  <2>2. new \in PastType
    BY <1>4, <2>1 DEF PastType
  <2>. QED
    BY <2>1, <2>2
<1>5. ASSUME NEW some \in PastType, NEW b \in BOOLEAN
      PROVE [some EXCEPT !.wanted = b] \in PastType
  <2>1. PICK new : new = [some EXCEPT !.wanted = b]
    OBVIOUS
  <2>2. new \in PastType
    BY <1>5, <2>1 DEF PastType
  <2>. QED
    BY <2>1, <2>2
<1>6. ASSUME NEW some \in PastType, NEW b \in BOOLEAN
      PROVE [some EXCEPT !.stopped = b] \in PastType
  <2>1. PICK new : new = [some EXCEPT !.stopped = b]
    OBVIOUS
  <2>2. new \in PastType
    BY <1>6, <2>1 DEF PastType
  <2>. QED
    BY <2>1, <2>2
<1>7. ASSUME NEW b \in BOOLEAN
      PROVE [past EXCEPT !.faults = @ + 1, !.spoiled = b] \in PastType
  <2>. past.faults \in Nat
    BY <1>1 DEF PastType
  <2>. past.faults + 1 \in Nat
    BY Successor
  <2>1. PICK n \in Nat : n = past.faults + 1
    BY Zenon
  <2>2. PICK new : new = [past EXCEPT !.faults = n, !.spoiled = b]
    OBVIOUS
  <2>3. new \in PastType
    BY <1>1, <1>7, <2>2 DEF PastType
  <2>. QED
    BY <2>1, <2>2, <2>3
<1>. QED
  BY <1>1, <1>2, <1>3, <1>4, <1>5, <1>6, <1>7, Zenon

\* A command that begins.
LEMMA BeginKeeps ==
  ASSUME LInv, Idly, UNCHANGED <<releaseVars, launchd, daemon, config>>, past' \in PastType,
         cli' \in CommandType, cli'.reply = "none",
         \/ cli'.pc = "probe" /\ cli'.cmd = "start"
         \/ cli'.pc = "stop" /\ cli'.cmd \in {"stop", "restart"}
         \/ cli'.pc = "classify" /\ cli'.cmd = "upgrade" /\ cli'.proc \in Proc
  PROVE LInv'
<1>1. IInv' /\ platform' = platform /\ proc' = proc
  BY InstallationRests
<1>2. UpgradeOK'
  BY <1>1 DEF LInv, UpgradeOK, Idly, CommandOK
<1>3. TypesOK' /\ CommandOK'
  BY <1>1 DEF LInv, TypesOK, CommandOK, Idly, Stopping, OnlyUpgrade
<1>4. JobOK' /\ \A d \in Slot : daemon'[d].pc \in {"none", daemon[d].pc}
  BY Alone
<1>. QED
  BY <1>1, <1>2, <1>3, <1>4, CommandFrame

LEMMA BeginCommandKeeps ==
  ASSUME LInv, BeginStart \/ BeginRestart \/ BeginStop
  PROVE LInv'
<1>1. PICK cmd, pc : /\ Begin(cmd, pc)
                     /\ \/ cmd = "start" /\ pc = "probe"
                        \/ cmd \in {"stop", "restart"} /\ pc = "stop"
  BY DEF BeginStart, BeginRestart, BeginStop
<1>2. past' \in PastType
  BY PastMoves DEF BeginStart, BeginRestart, BeginStop
<1>3. target.version \in Nat
  BY DEF LInv, IInv, ReleaseTypeOK, File
<1>4. cli' = [NoCommand EXCEPT !.cmd = cmd, !.pc = pc, !.version = target.version]
  BY <1>1 DEF Begin
<1>5. cli' \in CommandType /\ cli'.cmd = cmd /\ cli'.pc = pc /\ cli'.reply = "none"
  <2>1. NoCommand \in CommandType /\ NoCommand.reply = "none"
    BY NoCommandFacts
  <2>2. cmd \in Command /\ pc \in CommandState
    BY <1>1 DEF Command, CommandState
  <2>. QED
    BY <1>3, <1>4, <2>1, <2>2 DEF CommandType
<1>6. Idly /\ UNCHANGED <<releaseVars, launchd, daemon, config>>
  BY <1>1 DEF Begin
<1>. QED
  BY <1>1, <1>2, <1>5, <1>6, BeginKeeps

LEMMA BeginUpgradeKeeps == ASSUME LInv, NEW p \in Proc, BeginUpgrade(p) PROVE LInv'
<1>1. proc[p].exe \in Nat
  BY DEF LInv, IInv, ReleaseTypeOK, Process
<1>2. cli' = [NoCommand EXCEPT !.cmd = "upgrade", !.pc = "classify", !.proc = p,
                              !.version = proc[p].exe]
  BY DEF BeginUpgrade
<1>3. /\ cli' \in CommandType /\ cli'.cmd = "upgrade" /\ cli'.pc = "classify"
      /\ cli'.proc = p /\ cli'.reply = "none"
  <2>1. NoCommand \in CommandType /\ NoCommand.reply = "none"
    BY NoCommandFacts
  <2>. QED
    BY <1>1, <1>2, <2>1 DEF CommandType, Command, CommandState
<1>4. Idly /\ UNCHANGED <<releaseVars, launchd, daemon, config>> /\ past' \in PastType
  BY DEF BeginUpgrade, LInv, TypesOK
<1>. QED
  BY <1>3, <1>4, BeginKeeps

LEMMA StartKeeps == ASSUME LInv, Start PROVE LInv'
<1>1. /\ launchd' \in LaunchdType /\ launchd'.session = launchd.session
      /\ daemon' \in [Slot -> Daemon] /\ JobOK'
      /\ \A d \in Slot : daemon'[d].pc \in {"none", daemon[d].pc}
  BY Alone DEF Start
<1>2. cli.pc = "probe" /\ config' \in Contents /\ past' \in PastType
  BY DEF Start, CliAt, LInv, TypesOK
<1>3. CASE End
  BY <1>1, <1>2, <1>3, EndKeeps
<1>4. CASE Goto("bootout")
  <2>. "bootout" \in CommandState
    BY DEF CommandState
  <2>. QED
    BY <1>1, <1>2, <1>4, GotoKeeps DEF Stopping, OnlyUpgrade
<1>. QED
  BY <1>3, <1>4 DEF Start

LEMMA WaitForExitKeeps == ASSUME LInv, WaitForExit PROVE LInv'
<1>1. /\ launchd' \in LaunchdType /\ launchd'.session = launchd.session
      /\ daemon' \in [Slot -> Daemon] /\ JobOK'
      /\ \A d \in Slot : daemon'[d].pc \in {"none", daemon[d].pc}
  BY Alone DEF WaitForExit
<1>2. cli.pc = "wait" /\ config' \in Contents /\ past' \in PastType
  BY DEF WaitForExit, CliAt, LInv, TypesOK
<1>3. CASE End
  BY <1>1, <1>2, <1>3, EndKeeps
<1>4. CASE Goto("load")
  <2>. "load" \in CommandState
    BY DEF CommandState
  <2>. QED
    BY <1>1, <1>2, <1>4, GotoKeeps DEF Stopping, OnlyUpgrade
<1>. QED
  BY <1>3, <1>4 DEF WaitForExit

LEMMA LoadKeeps == ASSUME LInv, LoadForClear \/ LoadForPersist PROVE LInv'
<1>1. /\ launchd' \in LaunchdType /\ launchd'.session = launchd.session
      /\ daemon' \in [Slot -> Daemon] /\ JobOK'
      /\ \A d \in Slot : daemon'[d].pc \in {"none", daemon[d].pc}
  BY Alone DEF LoadForClear, LoadForPersist
<1>2. PICK pc \in CommandState :
        /\ cli' = [cli EXCEPT !.pc = pc, !.snap = config]
        /\ \/ cli.pc = "load" /\ pc = "clear"
           \/ cli.pc = "persistLoad" /\ pc \in {"persist", "stopBootout"}
  BY DEF LoadForClear, LoadForPersist, CliAt, CommandState
<1>3. config' \in Contents /\ past' \in PastType /\ UNCHANGED releaseVars
  BY DEF LoadForClear, LoadForPersist, LInv, TypesOK
<1>4. cli.cmd # "none" /\ cli.reply = "none" /\ cli \in CommandType /\ config \in Contents
  BY <1>2 DEF LInv, CommandOK, TypesOK
<1>5. /\ cli' \in CommandType /\ cli'.pc = pc /\ cli'.cmd = cli.cmd /\ cli'.proc = cli.proc
      /\ cli'.reply = "none"
  BY <1>2, <1>4 DEF CommandType
<1>. QED
  BY <1>1, <1>2, <1>3, <1>4, <1>5, GoesKeeps DEF Stopping, OnlyUpgrade

\* A command fails for a reason of its own: an upgrade looks whether the daemon is gone.
LEMMA OperationalKeeps ==
  ASSUME LInv, Operational, cli.pc \notin {"idle", "commit"},
         launchd' \in LaunchdType, launchd'.session = launchd.session,
         daemon' \in [Slot -> Daemon],
         config' \in Contents, past' \in PastType, JobOK',
         \A d \in Slot : daemon'[d].pc \in {"none", daemon[d].pc}
  PROVE LInv'
<1>1. CASE cli.cmd = "upgrade"
  <2>1. /\ cli' = [cli EXCEPT !.pc = "observe", !.failed = TRUE, !.snap = NoConfig,
                              !.was = FALSE, !.reply = "none"]
        /\ UNCHANGED releaseVars
    BY <1>1 DEF Operational
  <2>2. cli \in CommandType /\ NoConfig \in Contents
    BY DEF LInv, TypesOK, NoConfig, Contents
  <2>3. /\ cli' \in CommandType /\ cli'.pc = "observe" /\ cli'.cmd = cli.cmd
        /\ cli'.proc = cli.proc /\ cli'.reply = "none"
    BY <2>1, <2>2 DEF CommandType, CommandState, Reply
  <2>4. cli.cmd # "none"
    BY <1>1
  <2>. QED
    BY <1>1, <2>1, <2>3, <2>4, GoesKeeps DEF Stopping, OnlyUpgrade
<1>2. CASE cli.cmd # "upgrade"
  BY <1>2, EndKeeps DEF Operational
<1>. QED
  BY <1>1, <1>2


LEMMA ObserveKeeps == ASSUME LInv, Observe PROVE LInv'
<1>1. /\ launchd' \in LaunchdType /\ launchd'.session = launchd.session
      /\ daemon' \in [Slot -> Daemon] /\ JobOK'
      /\ \A d \in Slot : daemon'[d].pc \in {"none", daemon[d].pc}
  BY Alone DEF Observe
<1>2. cli.pc = "observe" /\ config' \in Contents /\ past' \in PastType
  BY PastMoves DEF Observe, CliAt, LInv, TypesOK
<1>3. CASE End
  BY <1>1, <1>2, <1>3, EndKeeps
<1>4. CASE Goto("wait")
  <2>. "wait" \in CommandState
    BY DEF CommandState
  <2>. QED
    BY <1>1, <1>2, <1>4, GotoKeeps DEF Stopping, OnlyUpgrade
<1>. QED
  BY <1>3, <1>4 DEF Observe

LEMMA StopProbeKeeps == ASSUME LInv, StopProbe PROVE LInv'
<1>1. /\ launchd' \in LaunchdType /\ launchd'.session = launchd.session
      /\ daemon' \in [Slot -> Daemon] /\ JobOK'
      /\ \A d \in Slot : daemon'[d].pc \in {"none", daemon[d].pc}
  BY Alone DEF StopProbe
<1>2. cli.pc = "stop" /\ config' \in Contents /\ past' \in PastType
  BY PastMoves DEF StopProbe, CliAt, LInv, TypesOK
<1>3. CASE Operational
  BY <1>1, <1>2, <1>3, OperationalKeeps
<1>4. CASE Goto("shutdown")
  <2>. "shutdown" \in CommandState
    BY DEF CommandState
  <2>. QED
    BY <1>1, <1>2, <1>4, GotoKeeps DEF Stopping, OnlyUpgrade
<1>5. CASE /\ \E was \in {launchd.loaded, launchd.loaded \/ Mismatch} :
                cli' = [cli EXCEPT !.pc = "persistLoad", !.was = was]
           /\ UNCHANGED releaseVars
  <2>1. PICK was \in BOOLEAN : cli' = [cli EXCEPT !.pc = "persistLoad", !.was = was]
    <3>1. {launchd.loaded, launchd.loaded \/ Mismatch} \subseteq BOOLEAN
      BY DEF LInv, TypesOK, LaunchdType
    <3>. QED
      BY <1>5, <3>1
  <2>2. cli \in CommandType /\ cli.cmd # "none" /\ cli.reply = "none"
    BY <1>2 DEF LInv, TypesOK, CommandOK
  <2>3. /\ cli' \in CommandType /\ cli'.pc = "persistLoad" /\ cli'.cmd = cli.cmd
        /\ cli'.proc = cli.proc /\ cli'.reply = "none"
    BY <2>1, <2>2 DEF CommandType, CommandState
  <2>. QED
    BY <1>1, <1>2, <1>5, <2>2, <2>3, GoesKeeps DEF Stopping, OnlyUpgrade
<1>. QED
  BY <1>3, <1>4, <1>5 DEF StopProbe

LEMMA RequestShutdownKeeps == ASSUME LInv, RequestShutdown PROVE LInv'
<1>1. /\ launchd' \in LaunchdType /\ launchd'.session = launchd.session
      /\ daemon' \in [Slot -> Daemon] /\ JobOK'
      /\ \A d \in Slot : daemon'[d].pc \in {"none", daemon[d].pc}
  BY Alone DEF RequestShutdown
<1>2. cli.pc = "shutdown" /\ config' \in Contents /\ past' \in PastType
  BY PastMoves DEF RequestShutdown, CliAt, LInv, TypesOK
<1>3. CASE Operational
  BY <1>1, <1>2, <1>3, OperationalKeeps
<1>4. CASE cli' = [cli EXCEPT !.pc = "reply", !.reply = "sent"] /\ UNCHANGED releaseVars
  <2>1. cli \in CommandType /\ cli.cmd # "none"
    BY <1>2 DEF LInv, TypesOK, CommandOK
  <2>2. /\ cli' \in CommandType /\ cli'.pc = "reply" /\ cli'.cmd = cli.cmd
        /\ cli'.proc = cli.proc /\ cli'.reply = "sent"
    BY <1>4, <2>1 DEF CommandType, CommandState, Reply
  <2>. QED
    BY <1>1, <1>2, <1>4, <2>1, <2>2, GoesKeeps DEF Stopping, OnlyUpgrade
<1>. QED
  BY <1>3, <1>4 DEF RequestShutdown

LEMMA ShutdownReplyKeeps == ASSUME LInv, ShutdownReply PROVE LInv'
<1>1. /\ launchd' \in LaunchdType /\ launchd'.session = launchd.session
      /\ daemon' \in [Slot -> Daemon] /\ JobOK'
      /\ \A d \in Slot : daemon'[d].pc \in {"none", daemon[d].pc}
  BY Alone DEF ShutdownReply
<1>2. cli.pc = "reply" /\ config' \in Contents /\ past' \in PastType
  BY PastMoves DEF ShutdownReply, CliAt, LInv, TypesOK
<1>3. CASE Operational
  BY <1>1, <1>2, <1>3, OperationalKeeps
<1>4. CASE cli.reply \in {"confirmed", "unconfirmed"} /\ Goto("lastBootout")
  <2>. "lastBootout" \in CommandState
    BY DEF CommandState
  <2>1. /\ cli' \in CommandType /\ cli'.pc = "lastBootout" /\ cli'.cmd = cli.cmd
        /\ cli'.proc = cli.proc /\ cli'.reply = cli.reply
        /\ UNCHANGED releaseVars
    BY <1>4, GotoFacts
  <2>2. IInv' /\ platform' = platform /\ proc' = proc
    BY <2>1, InstallationRests
  <2>3. UNCHANGED <<launchd, daemon, config>>
    BY DEF ShutdownReply
  <2>4. TypesOK' /\ CommandOK' /\ UpgradeOK' /\ JobOK'
    BY <1>1, <1>2, <2>1, <2>2, <2>3
    DEF LInv, TypesOK, CommandOK, UpgradeOK, Stopping, OnlyUpgrade
  <2>5. OneDaemon' /\ ReplyOK' /\ CommitOK'
    BY <1>4, <2>1, <2>3 DEF LInv, OneDaemon, HoldsLock, ReplyOK, CommitOK
  <2>. QED
    BY <2>2, <2>4, <2>5 DEF LInv
<1>. QED
  BY <1>3, <1>4 DEF ShutdownReply

LEMMA ClassifyKeeps == ASSUME LInv, Classify PROVE LInv'
<1>1. /\ launchd' \in LaunchdType /\ launchd'.session = launchd.session
      /\ daemon' \in [Slot -> Daemon] /\ JobOK'
      /\ \A d \in Slot : daemon'[d].pc \in {"none", daemon[d].pc}
  BY Alone DEF Classify
<1>2. cli.pc = "classify" /\ config' \in Contents /\ past' \in PastType
  BY PastMoves DEF Classify, CliAt, LInv, TypesOK
<1>3. CASE End
  BY <1>1, <1>2, <1>3, EndKeeps
<1>4. CASE cli' = [cli EXCEPT !.pc = "stop", !.ran = TRUE] /\ UNCHANGED releaseVars
  <2>1. cli \in CommandType /\ cli.cmd # "none" /\ cli.reply = "none"
    BY <1>2 DEF LInv, TypesOK, CommandOK
  <2>2. /\ cli' \in CommandType /\ cli'.pc = "stop" /\ cli'.cmd = cli.cmd
        /\ cli'.proc = cli.proc /\ cli'.reply = "none"
    BY <1>4, <2>1 DEF CommandType, CommandState
  <2>. QED
    BY <1>1, <1>2, <1>4, <2>1, <2>2, GoesKeeps DEF Stopping, OnlyUpgrade
<1>5. CASE ~launchd.loaded /\ LockFree /\ Goto("commit")
  <2>. "commit" \in CommandState
    BY DEF CommandState
  <2>1. /\ cli' \in CommandType /\ cli'.pc = "commit" /\ cli'.cmd = cli.cmd
        /\ cli'.proc = cli.proc /\ cli'.reply = "none"
        /\ UNCHANGED releaseVars
    BY <1>2, <1>5, GotoFacts DEF LInv, CommandOK
  <2>2. IInv' /\ platform' = platform /\ proc' = proc
    BY <2>1, InstallationRests
  <2>3. UNCHANGED <<launchd, daemon, config>> /\ cli.cmd = "upgrade"
    BY <1>2 DEF Classify, LInv, CommandOK, OnlyUpgrade
  <2>4. TypesOK' /\ CommandOK' /\ UpgradeOK' /\ JobOK'
    BY <1>1, <1>2, <2>1, <2>2, <2>3
    DEF LInv, TypesOK, CommandOK, UpgradeOK, Stopping, OnlyUpgrade
  <2>5. OneDaemon' /\ ReplyOK'
    BY <2>1, <2>3 DEF LInv, OneDaemon, HoldsLock, ReplyOK
  <2>6. CommitOK'
    <3>1. launchd.job = NoSlot
      BY <1>5 DEF LInv, JobOK
    <3>2. \A d \in Slot : daemon[d].pc = "none"
      BY <1>5, <3>1, LifecycleAssumption DEF LInv, JobOK, LockFree, HoldsLock
    <3>. QED
      BY <1>5, <2>3, <3>2 DEF CommitOK
  <2>. QED
    BY <2>2, <2>4, <2>5, <2>6 DEF LInv
<1>. QED
  BY <1>3, <1>4, <1>5 DEF Classify

\* SIGTERM ends a daemon or changes nothing of where it is.
LEMMA TerminatedFacts ==
  ASSUME LInv, NEW d \in Slot
  PROVE /\ Terminated(d) \in Daemon
        /\ Terminated(d).pc \in {"none", daemon[d].pc} \ {"starting", "loaded"}
<1>1. daemon[d] \in Daemon
  BY DEF LInv, TypesOK
<1>2. CASE daemon[d].pc \in {"starting", "loaded"}
  <2>1. NoDaemon \in Daemon /\ NoDaemon.pc = "none"
    BY DEF NoDaemon, NoConfig, Daemon, DaemonState, Contents
  <2>. QED
    BY <1>2, <2>1 DEF Terminated
<1>3. CASE daemon[d].pc \notin {"starting", "loaded"}
  <2>1. PICK new : new = [daemon[d] EXCEPT !.term = TRUE]
    OBVIOUS
  <2>2. new \in Daemon /\ new.pc = daemon[d].pc
    BY <1>1, <2>1 DEF Daemon
  <2>. QED
    BY <1>3, <2>1, <2>2 DEF Terminated
<1>. QED
  BY <1>2, <1>3

\* A bootout unloads the job, and nothing is left to be spawned.
LEMMA UnloadFacts ==
  ASSUME LInv, Unload
  PROVE /\ launchd' \in LaunchdType /\ launchd'.session = launchd.session
        /\ daemon' \in [Slot -> Daemon] /\ JobOK'
        /\ \A d \in Slot : daemon'[d].pc \in {"none", daemon[d].pc}
        /\ ~launchd'.loaded
        /\ \A d \in Slot : daemon'[d].pc \notin {"starting", "loaded"}
<1>1. launchd \in LaunchdType
  BY DEF LInv, TypesOK
<1>2. /\ launchd' \in LaunchdType /\ ~launchd'.loaded /\ ~launchd'.due
      /\ launchd'.job = NoSlot /\ launchd'.session = launchd.session
  BY <1>1 DEF Unload, LaunchdType
<1>3. \A d \in Slot : daemon'[d] = IF d = launchd.job THEN Terminated(d) ELSE daemon[d]
  BY DEF Unload
<1>4. daemon' \in [Slot -> Daemon]
  BY TerminatedFacts DEF Unload, LInv, TypesOK
<1>5. \A d \in Slot : /\ daemon'[d].pc \in {"none", daemon[d].pc}
                     /\ daemon'[d].pc \notin {"starting", "loaded"}
  BY <1>3, TerminatedFacts DEF LInv, JobOK
<1>6. JobOK'
  BY <1>2, <1>5 DEF JobOK
<1>. QED
  BY <1>2, <1>4, <1>5, <1>6

LEMMA BootoutFacts ==
  ASSUME LInv, Bootout
  PROVE /\ launchd' \in LaunchdType /\ launchd'.session = launchd.session
        /\ daemon' \in [Slot -> Daemon] /\ JobOK'
        /\ \A d \in Slot : daemon'[d].pc \in {"none", daemon[d].pc}
        /\ ~launchd'.loaded
        /\ \A d \in Slot : daemon'[d].pc \notin {"starting", "loaded"}
<1>1. CASE launchd.loaded
  BY <1>1, UnloadFacts DEF Bootout
<1>2. CASE ~launchd.loaded
  <2>1. UNCHANGED <<launchd, daemon>>
    BY <1>2 DEF Bootout
  <2>2. \A d \in Slot : daemon[d].pc \notin {"starting", "loaded"}
    BY <1>2, LifecycleAssumption DEF LInv, JobOK
  <2>. QED
    BY <1>2, <2>1, <2>2, Alone
<1>. QED
  BY <1>1, <1>2

LEMMA StartBootoutKeeps == ASSUME LInv, StartBootout PROVE LInv'
<1>1. /\ launchd' \in LaunchdType /\ launchd'.session = launchd.session
      /\ daemon' \in [Slot -> Daemon] /\ JobOK'
      /\ \A d \in Slot : daemon'[d].pc \in {"none", daemon[d].pc}
  BY BootoutFacts, Alone DEF StartBootout, BootoutFails
<1>2. cli.pc = "bootout" /\ config' \in Contents /\ past' \in PastType
  BY PastMoves DEF StartBootout, CliAt, LInv, TypesOK
<1>3. CASE End
  BY <1>1, <1>2, <1>3, EndKeeps
<1>4. CASE Goto("wait")
  <2>. "wait" \in CommandState
    BY DEF CommandState
  <2>. QED
    BY <1>1, <1>2, <1>4, GotoKeeps DEF Stopping, OnlyUpgrade
<1>. QED
  BY <1>3, <1>4 DEF StartBootout

LEMMA UndoStartKeeps == ASSUME LInv, UndoStart PROVE LInv'
<1>1. /\ launchd' \in LaunchdType /\ launchd'.session = launchd.session
      /\ daemon' \in [Slot -> Daemon] /\ JobOK'
      /\ \A d \in Slot : daemon'[d].pc \in {"none", daemon[d].pc}
  BY BootoutFacts, Alone DEF UndoStart, BootoutFails
<1>2. config' \in Contents /\ past' \in PastType /\ End
  BY DEF UndoStart, LInv, TypesOK
<1>. QED
  BY <1>1, <1>2, EndKeeps

LEMMA SecondBootoutKeeps == ASSUME LInv, SecondBootout PROVE LInv'
<1>1. /\ launchd' \in LaunchdType /\ launchd'.session = launchd.session
      /\ daemon' \in [Slot -> Daemon] /\ JobOK'
      /\ \A d \in Slot : daemon'[d].pc \in {"none", daemon[d].pc}
  BY UnloadFacts, Alone DEF SecondBootout
<1>2. cli.pc = "rebootout" /\ config' \in Contents /\ past' \in PastType
  BY DEF SecondBootout, CliAt, LInv, TypesOK
<1>3. CASE End
  BY <1>1, <1>2, <1>3, EndKeeps
<1>4. CASE Goto("rebootstrap")
  <2>. "rebootstrap" \in CommandState
    BY DEF CommandState
  <2>. QED
    BY <1>1, <1>2, <1>4, GotoKeeps DEF Stopping, OnlyUpgrade
<1>. QED
  BY <1>3, <1>4 DEF SecondBootout

\* A bootstrap loads the job, and leaves its process to launchd.
LEMMA BootstrapFacts ==
  ASSUME LInv, Bootstrap, UNCHANGED daemon
  PROVE /\ launchd' \in LaunchdType /\ launchd'.session = launchd.session
        /\ daemon' \in [Slot -> Daemon] /\ JobOK'
        /\ \A d \in Slot : daemon'[d].pc \in {"none", daemon[d].pc}
<1>1. launchd \in LaunchdType
  BY DEF LInv, TypesOK
<1>2. /\ launchd' \in LaunchdType /\ launchd'.loaded /\ launchd'.job = launchd.job
      /\ launchd'.session = launchd.session
  BY <1>1 DEF Bootstrap, LaunchdType
<1>. QED
  BY <1>2 DEF LInv, TypesOK, JobOK

LEMMA InstallKeeps == ASSUME LInv, Install PROVE LInv'
<1>1. PICK written \in BOOLEAN :
        /\ launchd' = [launchd EXCEPT !.plist = @ \/ written]
        /\ End \/ Goto("bootstrap")
  BY DEF Install
<1>2. launchd \in LaunchdType
  BY DEF LInv, TypesOK
<1>3. /\ launchd' \in LaunchdType /\ launchd'.loaded = launchd.loaded
      /\ launchd'.job = launchd.job /\ launchd'.due = launchd.due
      /\ launchd'.session = launchd.session
  <2>. (launchd.plist \/ written) \in BOOLEAN
    OBVIOUS
  <2>1. PICK plist \in BOOLEAN : plist = (launchd.plist \/ written)
    BY Zenon
  <2>2. launchd' = [launchd EXCEPT !.plist = plist]
    BY <1>1, <2>1, Zenon
  <2>. QED
    BY <1>2, <2>2 DEF LaunchdType
<1>4. /\ launchd' \in LaunchdType /\ launchd'.session = launchd.session
      /\ daemon' \in [Slot -> Daemon] /\ JobOK'
      /\ \A d \in Slot : daemon'[d].pc \in {"none", daemon[d].pc}
  BY <1>3 DEF Install, LInv, TypesOK, JobOK
<1>5. cli.pc = "install" /\ config' \in Contents /\ past' \in PastType
  BY DEF Install, CliAt, LInv, TypesOK
<1>6. CASE End
  BY <1>4, <1>5, <1>6, EndKeeps
<1>7. CASE Goto("bootstrap")
  <2>. "bootstrap" \in CommandState
    BY DEF CommandState
  <2>. QED
    BY <1>4, <1>5, <1>7, GotoKeeps DEF Stopping, OnlyUpgrade
<1>. QED
  BY <1>1, <1>6, <1>7

LEMMA BootstrapKeeps == ASSUME LInv, FirstBootstrap \/ SecondBootstrap PROVE LInv'
<1>1. /\ launchd' \in LaunchdType /\ launchd'.session = launchd.session
      /\ daemon' \in [Slot -> Daemon] /\ JobOK'
      /\ \A d \in Slot : daemon'[d].pc \in {"none", daemon[d].pc}
  BY BootstrapFacts, Alone DEF FirstBootstrap, SecondBootstrap
<1>2. /\ cli.pc \in {"bootstrap", "rebootstrap"} /\ config' \in Contents
      /\ past' \in PastType
  BY DEF FirstBootstrap, SecondBootstrap, CliAt, LInv, TypesOK
<1>3. CASE End
  BY <1>1, <1>2, <1>3, EndKeeps
<1>4. ASSUME NEW pc \in {"poll", "rebootout"}, Goto(pc) PROVE LInv'
  <2>. pc \in CommandState
    BY DEF CommandState
  <2>. QED
    BY <1>1, <1>2, <1>4, GotoKeeps DEF Stopping, OnlyUpgrade
<1>. QED
  BY <1>3, <1>4 DEF FirstBootstrap, SecondBootstrap

LEMMA PollRunningKeeps == ASSUME LInv, PollRunning PROVE LInv'
<1>1. /\ launchd' \in LaunchdType /\ launchd'.session = launchd.session
      /\ daemon' \in [Slot -> Daemon] /\ JobOK'
      /\ \A d \in Slot : daemon'[d].pc \in {"none", daemon[d].pc}
  BY Alone DEF PollRunning
<1>2. cli.pc = "poll" /\ config' \in Contents /\ past' \in PastType
  <2>1. (~cli.failed) \in BOOLEAN
    OBVIOUS
  <2>. QED
    BY <2>1, PastMoves DEF PollRunning, CliAt, LInv, TypesOK
<1>3. CASE End
  BY <1>1, <1>2, <1>3, EndKeeps
<1>4. CASE Goto("undo")
  <2>. "undo" \in CommandState
    BY DEF CommandState
  <2>. QED
    BY <1>1, <1>2, <1>4, GotoKeeps DEF Stopping, OnlyUpgrade
<1>. QED
  BY <1>3, <1>4 DEF PollRunning

\* A command saves the configuration.
LEMMA CommandSaveFacts ==
  ASSUME LInv, NEW new \in Contents, NEW outcome, CommandSave(new, outcome)
  PROVE config' \in Contents /\ past' \in PastType
<1>1. config' \in Contents
  BY DEF CommandSave, LInv, TypesOK
<1>2. (past.spoiled \/ Overwrites(new)) \in BOOLEAN
  OBVIOUS
<1>3. PICK b \in BOOLEAN : b = (past.spoiled \/ Overwrites(new))
  BY <1>2, Zenon
<1>4. past' = [past EXCEPT !.spoiled = b] \/ past' = Faulty
  BY <1>3, Zenon DEF CommandSave
<1>. QED
  BY <1>1, <1>4, PastMoves

LEMMA ClearStopIntentKeeps == ASSUME LInv, ClearStopIntent PROVE LInv'
<1>1. /\ launchd' \in LaunchdType /\ launchd'.session = launchd.session
      /\ daemon' \in [Slot -> Daemon] /\ JobOK'
      /\ \A d \in Slot : daemon'[d].pc \in {"none", daemon[d].pc}
  BY Alone DEF ClearStopIntent
<1>2. cli.pc = "clear" /\ cli.snap \in Contents
  BY DEF ClearStopIntent, CliAt, LInv, TypesOK, CommandType
<1>3. PICK outcome :
        /\ CommandSave([cli.snap EXCEPT !.exists = TRUE, !.stopping = FALSE], outcome)
        /\ End \/ Goto("install")
  BY DEF ClearStopIntent
<1>4. [cli.snap EXCEPT !.exists = TRUE, !.stopping = FALSE] \in Contents
  <2>1. PICK new : new = [cli.snap EXCEPT !.exists = TRUE, !.stopping = FALSE]
    OBVIOUS
  <2>2. new \in Contents
    BY <1>2, <2>1 DEF Contents
  <2>. QED
    BY <2>1, <2>2
<1>5. config' \in Contents /\ past' \in PastType
  BY <1>3, <1>4, CommandSaveFacts
<1>6. CASE End
  BY <1>1, <1>5, <1>6, EndKeeps
<1>7. CASE Goto("install")
  <2>. "install" \in CommandState
    BY DEF CommandState
  <2>. QED
    BY <1>1, <1>2, <1>5, <1>7, GotoKeeps DEF Stopping, OnlyUpgrade
<1>. QED
  BY <1>3, <1>6, <1>7

LEMMA PersistStopIntentKeeps == ASSUME LInv, PersistStopIntent PROVE LInv'
<1>1. /\ launchd' \in LaunchdType /\ launchd'.session = launchd.session
      /\ daemon' \in [Slot -> Daemon] /\ JobOK'
      /\ \A d \in Slot : daemon'[d].pc \in {"none", daemon[d].pc}
  BY Alone DEF PersistStopIntent
<1>2. cli.pc = "persist" /\ cli.snap \in Contents
  BY DEF PersistStopIntent, CliAt, LInv, TypesOK, CommandType
<1>3. PICK outcome :
        /\ CommandSave([cli.snap EXCEPT !.stopping = TRUE], outcome)
        /\ Operational \/ Goto("stopBootout")
  BY DEF PersistStopIntent
<1>4. [cli.snap EXCEPT !.stopping = TRUE] \in Contents
  <2>1. PICK new : new = [cli.snap EXCEPT !.stopping = TRUE]
    OBVIOUS
  <2>2. new \in Contents
    BY <1>2, <2>1 DEF Contents
  <2>. QED
    BY <2>1, <2>2
<1>5. config' \in Contents /\ past' \in PastType
  BY <1>3, <1>4, CommandSaveFacts
<1>6. CASE Operational
  BY <1>1, <1>2, <1>5, <1>6, OperationalKeeps
<1>7. CASE Goto("stopBootout")
  <2>. "stopBootout" \in CommandState
    BY DEF CommandState
  <2>. QED
    BY <1>1, <1>2, <1>5, <1>7, GotoKeeps DEF Stopping, OnlyUpgrade
<1>. QED
  BY <1>3, <1>6, <1>7

\* What a command does with the result of its stop.
LEMMA StopReturnsFacts ==
  ASSUME LInv, NEW was, NEW confirmed, StopReturns(was, confirmed), cli.pc \in Stopping
  PROVE /\ past' \in PastType
        /\ \/ End
           \/ /\ UNCHANGED releaseVars
              /\ cli' \in CommandType /\ cli'.cmd = cli.cmd /\ cli'.proc = cli.proc
              /\ cli'.reply = "none" /\ cli'.ran = cli.ran
              /\ was => confirmed
              /\ \/ cli'.pc = "wait" /\ cli.cmd = "restart"
                 \/ cli'.pc = "commit" /\ cli.cmd = "upgrade"
<1>1. (cli.cmd = "stop") \in BOOLEAN
  OBVIOUS
<1>2. PICK b \in BOOLEAN : b = (cli.cmd = "stop")
  BY <1>1, Zenon
<1>3. past' \in PastType
  BY <1>2, PastMoves DEF StopReturns
<1>4. CASE ~(cli.cmd = "stop" \/ (was /\ ~confirmed))
  <2>1. PICK pc : pc = IF cli.cmd = "restart" THEN "wait" ELSE "commit"
    OBVIOUS
  <2>2. cli' = [cli EXCEPT !.pc = pc, !.was = FALSE, !.reply = "none"] /\ UNCHANGED releaseVars
    BY <1>4, <2>1, Zenon DEF StopReturns
  <2>3. /\ cli \in CommandType /\ pc \in CommandState
        /\ cli.cmd \in {"restart", "upgrade"}
    BY <1>4, <2>1 DEF LInv, TypesOK, CommandOK, CommandState
  <2>4. /\ cli' \in CommandType /\ cli'.cmd = cli.cmd /\ cli'.proc = cli.proc
        /\ cli'.reply = "none" /\ cli'.pc = pc /\ cli'.ran = cli.ran
    BY <2>2, <2>3 DEF CommandType, Reply
  <2>. QED
    BY <1>3, <1>4, <2>1, <2>2, <2>3, <2>4
<1>. QED
  BY <1>3, <1>4 DEF StopReturns

LEMMA StopBootoutKeeps == ASSUME LInv, StopBootout PROVE LInv'
<1>1. /\ launchd' \in LaunchdType /\ launchd'.session = launchd.session
      /\ daemon' \in [Slot -> Daemon] /\ JobOK'
      /\ \A d \in Slot : daemon'[d].pc \in {"none", daemon[d].pc}
  BY BootoutFacts, Alone DEF StopBootout, BootoutFails
<1>2. cli.pc = "stopBootout" /\ cli.cmd # "none" /\ config' \in Contents
  BY DEF StopBootout, CliAt, LInv, TypesOK, CommandOK
<1>3. past' \in PastType
  <2>1. CASE UNCHANGED past
    BY <2>1 DEF LInv, TypesOK
  <2>2. CASE StopReturns(cli.was, ~cli.was)
    BY <1>2, <2>2, StopReturnsFacts DEF Stopping
  <2>. QED
    BY <2>1, <2>2 DEF StopBootout
<1>4. CASE End
  BY <1>1, <1>2, <1>3, <1>4, EndKeeps
<1>5. CASE Operational
  BY <1>1, <1>2, <1>3, <1>5, OperationalKeeps
<1>6. CASE cli.cmd # "upgrade" /\ StopReturns(cli.was, ~cli.was) /\ ~End
  <2>1. /\ UNCHANGED releaseVars
        /\ cli' \in CommandType /\ cli'.cmd = cli.cmd /\ cli'.proc = cli.proc
        /\ cli'.reply = "none" /\ cli'.pc = "wait"
    BY <1>2, <1>6, StopReturnsFacts DEF Stopping
  <2>. QED
    BY <1>1, <1>2, <1>3, <2>1, GoesKeeps DEF Stopping, OnlyUpgrade
<1>. QED
  BY <1>4, <1>5, <1>6 DEF StopBootout

LEMMA LastBootoutKeeps == ASSUME LInv, LastBootout PROVE LInv'
<1>1. /\ launchd' \in LaunchdType /\ launchd'.session = launchd.session
      /\ daemon' \in [Slot -> Daemon] /\ JobOK'
      /\ \A d \in Slot : daemon'[d].pc \in {"none", daemon[d].pc}
  BY BootoutFacts, Alone DEF LastBootout
<1>2. cli.pc = "lastBootout" /\ cli.cmd # "none" /\ config' \in Contents
  BY DEF LastBootout, CliAt, LInv, TypesOK, CommandOK
<1>3. PICK confirmed \in BOOLEAN :
        /\ confirmed => cli.reply = "confirmed"
        /\ \/ Bootout /\ StopReturns(TRUE, confirmed)
           \/ UNCHANGED past /\ (Operational \/ End)
  <2>1. (cli.reply = "confirmed") \in BOOLEAN
    OBVIOUS
  <2>. QED
    BY <2>1, Zenon DEF LastBootout
<1>4. past' \in PastType
  <2>1. CASE UNCHANGED past
    BY <2>1 DEF LInv, TypesOK
  <2>2. CASE StopReturns(TRUE, confirmed)
    BY <1>2, <2>2, StopReturnsFacts DEF Stopping
  <2>. QED
    BY <1>3, <2>1, <2>2
<1>5. CASE End
  BY <1>1, <1>2, <1>4, <1>5, EndKeeps
<1>6. CASE Operational
  BY <1>1, <1>2, <1>4, <1>6, OperationalKeeps
<1>7. CASE Bootout /\ StopReturns(TRUE, confirmed) /\ ~End
  <2>1. /\ UNCHANGED releaseVars /\ confirmed
        /\ cli' \in CommandType /\ cli'.cmd = cli.cmd /\ cli'.proc = cli.proc
        /\ cli'.reply = "none"
        /\ \/ cli'.pc = "wait" /\ cli.cmd = "restart"
           \/ cli'.pc = "commit" /\ cli.cmd = "upgrade"
    BY <1>2, <1>7, StopReturnsFacts DEF Stopping
  <2>2. CASE cli'.pc = "wait"
    BY <1>1, <1>2, <1>4, <2>1, <2>2, GoesKeeps DEF Stopping, OnlyUpgrade
  <2>3. CASE cli'.pc = "commit" /\ cli.cmd = "upgrade"
    <3>1. IInv' /\ platform' = platform /\ proc' = proc
      BY <2>1, InstallationRests
    <3>2. TypesOK' /\ CommandOK' /\ UpgradeOK'
      BY <1>1, <1>2, <1>4, <2>1, <2>3, <3>1
      DEF LInv, TypesOK, CommandOK, UpgradeOK, Stopping, OnlyUpgrade
    <3>3. OneDaemon' /\ ReplyOK'
      BY <1>1, <2>1 DEF LInv, OneDaemon, HoldsLock, ReplyOK
    <3>4. CommitOK'
      <4>1. \A d \in Slot : daemon[d].pc \in {"none", "starting", "exiting"}
        BY <1>3, <2>1 DEF LInv, ReplyOK
      <4>2. ~launchd'.loaded /\ \A d \in Slot : daemon'[d].pc \notin {"starting", "loaded"}
        BY <1>7, BootoutFacts
      <4>. QED
        BY <1>1, <4>1, <4>2 DEF CommitOK
    <3>. QED
      BY <1>1, <3>1, <3>2, <3>3, <3>4 DEF LInv
  <2>. QED
    BY <2>1, <2>2, <2>3
<1>. QED
  BY <1>3, <1>5, <1>6, <1>7

\* An upgrade whose commit is over starts the daemon that ran, or ends.
LEMMA AfterCommitKeeps == ASSUME LInv, AfterCommit PROVE LInv'
<1>1. /\ launchd' \in LaunchdType /\ launchd'.session = launchd.session
      /\ daemon' \in [Slot -> Daemon] /\ JobOK'
      /\ \A d \in Slot : daemon'[d].pc \in {"none", daemon[d].pc}
  BY Alone DEF AfterCommit
<1>2. cli.pc = "commit" /\ config' \in Contents /\ past' \in PastType
  BY DEF AfterCommit, CliAt, LInv, TypesOK
<1>3. CASE End
  BY <1>1, <1>2, <1>3, EndKeeps
<1>4. CASE /\ cli' = [cli EXCEPT !.pc = "wait",
                               !.failed = proc[cli.proc].outcome # "upgraded"]
           /\ UNCHANGED releaseVars
  <2>1. (proc[cli.proc].outcome # "upgraded") \in BOOLEAN
    OBVIOUS
  <2>2. PICK failed \in BOOLEAN : failed = (proc[cli.proc].outcome # "upgraded")
    BY <2>1, Zenon
  <2>3. cli' = [cli EXCEPT !.pc = "wait", !.failed = failed]
    BY <1>4, <2>2, Zenon
  <2>4. cli \in CommandType /\ cli.cmd = "upgrade" /\ cli.reply = "none"
    BY <1>2 DEF LInv, TypesOK, CommandOK, OnlyUpgrade
  <2>5. /\ cli' \in CommandType /\ cli'.pc = "wait" /\ cli'.cmd = cli.cmd
        /\ cli'.proc = cli.proc /\ cli'.reply = "none"
    BY <2>3, <2>4 DEF CommandType, CommandState
  <2>6. IInv' /\ platform' = platform /\ proc' = proc
    BY <1>4, InstallationRests
  <2>7. UpgradeOK'
    BY <1>2, <2>6 DEF LInv, UpgradeOK, AfterCommit, At
  <2>8. TypesOK' /\ CommandOK'
    BY <1>1, <1>2, <2>4, <2>5, <2>6 DEF LInv, TypesOK, CommandOK, Stopping, OnlyUpgrade
  <2>. QED
    BY <1>1, <2>5, <2>6, <2>7, <2>8, CommandFrame
<1>. QED
  BY <1>3, <1>4 DEF AfterCommit

-----------------------------------------------------------------------------
(* The installation, the session and the power.                            *)

Committing == {"shim", "sync", "rename"}

LEMMA PlatformStays == [ReleaseNext]_releaseVars => platform' = platform
<1> SUFFICES ASSUME [ReleaseNext]_releaseVars PROVE platform' = platform
  OBVIOUS
<1>1. CASE Publish \/ PowerLoss \/ SessionEnds
  BY <1>1 DEF Publish, PowerLoss, SessionEnds
<1>2. ASSUME NEW p \in Proc,
             \/ Prepares(p) \/ BeginCommit(p) \/ Commits(p) \/ Abandon(p) \/ Leave(p) \/ Crash(p)
      PROVE platform' = platform
  BY <1>2
  DEF Prepares, Launch, Resolve, Check, Flock, Fetch, Stage, Download, BeginCommit, Commits,
      CommitShim, SyncStaged, Rename, SyncDirectory, UnlinkShim, SyncRollback, NoCommit,
      Abandon, Leave, Crash, Conclude, Finish, Goes, Move
<1>3. CASE UNCHANGED releaseVars
  BY <1>3 DEF releaseVars
<1>. QED
  BY <1>1, <1>2, <1>3 DEF ReleaseNext

\* A step of one process, as others see it.
LEMMA MovesOne ==
  ASSUME IInv, NEW p \in Proc, NEW new, Move(p, new)
  PROVE proc'[p] = new /\ \A q \in Proc \ {p} : proc'[q] = proc[q]
BY DEF Move, IInv, ReleaseTypeOK

LEMMA GoesFacts ==
  ASSUME IInv, NEW p \in Proc, NEW pc, Goes(p, pc)
  PROVE /\ proc'[p].pc = pc /\ proc'[p].kind = proc[p].kind
        /\ \A q \in Proc \ {p} : proc'[q] = proc[q]
<1>1. PICK new : new = [proc[p] EXCEPT !.pc = pc]
  OBVIOUS
<1>2. proc[p] \in Process
  BY DEF IInv, ReleaseTypeOK
<1>3. new.pc = pc /\ new.kind = proc[p].kind
  BY <1>1, <1>2 DEF Process
<1>4. Move(p, new)
  BY <1>1 DEF Goes
<1>. QED
  BY <1>3, <1>4, MovesOne

LEMMA ConcludeFacts ==
  ASSUME IInv, NEW p \in Proc, NEW outcome, Conclude(p, outcome)
  PROVE proc'[p].pc = "leaving" /\ \A q \in Proc \ {p} : proc'[q] = proc[q]
<1>1. PICK new : new = [Idle EXCEPT !.pc = "leaving", !.kind = proc[p].kind,
                                    !.seq = proc[p].seq, !.outcome = outcome]
  OBVIOUS
<1>2. new.pc = "leaving"
  BY <1>1 DEF Idle
<1>3. Move(p, new)
  BY <1>1 DEF Conclude
<1>. QED
  BY <1>2, <1>3, MovesOne

\* Preparing commits nothing.
LEMMA PreparesFacts ==
  ASSUME IInv, NEW p \in Proc, Prepares(p)
  PROVE proc'[p].pc \notin Committing /\ \A q \in Proc \ {p} : proc'[q] = proc[q]
<1>1. ASSUME NEW outcome, Finish(p, outcome)
      PROVE proc'[p].pc \notin Committing /\ \A q \in Proc \ {p} : proc'[q] = proc[q]
  BY <1>1, FinishFacts DEF Committing
<1>2. ASSUME NEW new, Move(p, new), new.pc \notin Committing
      PROVE proc'[p].pc \notin Committing /\ \A q \in Proc \ {p} : proc'[q] = proc[q]
  BY <1>2, MovesOne
<1>3. proc[p] \in Process
  BY DEF IInv, ReleaseTypeOK
<1>4. CASE Launch(p)
  <2>1. /\ [Idle EXCEPT !.pc = "resolve", !.exe = target.version, !.seen = target].pc
               \notin Committing
        /\ \A v : [Idle EXCEPT !.pc = "resolve", !.kind = "installer", !.exe = v,
                                !.version = v].pc \notin Committing
    BY DEF Idle, Committing
  <2>. QED
    BY <1>2, <1>4, <2>1 DEF Launch
<1>5. CASE Resolve(p)
  <2>1. [proc[p] EXCEPT !.pc = "check", !.seen = target].pc \notin Committing
    BY <1>3 DEF Process, Committing
  <2>. QED
    BY <1>1, <1>2, <1>5, <2>1 DEF Resolve
<1>6. CASE Check(p)
  <2>1. [proc[p] EXCEPT !.pc = "flock", !.seen = NoFile].pc \notin Committing
    BY <1>3 DEF Process, Committing
  <2>. QED
    BY <1>1, <1>2, <1>6, <2>1 DEF Check
<1>7. CASE Flock(p)
  BY <1>1, <1>7, GoesFacts DEF Flock, Committing
<1>8. CASE Fetch(p)
  <2>1. [proc[p] EXCEPT !.pc = "stage", !.version = latest].pc \notin Committing
    BY <1>3 DEF Process, Committing
  <2>. QED
    BY <1>1, <1>2, <1>8, <2>1 DEF Fetch
<1>9. CASE Stage(p)
  <2>1. [proc[p] EXCEPT !.pc = "download", !.staged = "partial"].pc \notin Committing
    BY <1>3 DEF Process, Committing
  <2>. QED
    BY <1>1, <1>2, <1>9, <2>1 DEF Stage
<1>10. CASE Download(p)
  <2>1. [proc[p] EXCEPT !.pc = "prepared", !.staged = "complete"].pc \notin Committing
    BY <1>3 DEF Process, Committing
  <2>. QED
    BY <1>1, <1>2, <1>10, <2>1 DEF Download
<1>. QED
  BY <1>4, <1>5, <1>6, <1>7, <1>8, <1>9, <1>10 DEF Prepares

\* A process that commits after a step of its commit did so before.
LEMMA CommitsFacts ==
  ASSUME IInv, NEW p \in Proc, Commits(p)
  PROVE /\ proc'[p].pc \in Committing =>
              proc[p].pc \in Committing /\ proc'[p].kind = proc[p].kind
        /\ \A q \in Proc \ {p} : proc'[q] = proc[q]
<1> DEFINE Good ==
      /\ proc'[p].pc \in Committing =>
            proc[p].pc \in Committing /\ proc'[p].kind = proc[p].kind
      /\ \A q \in Proc \ {p} : proc'[q] = proc[q]
<1> SUFFICES Good
  OBVIOUS
<1>1. ASSUME NEW outcome, Conclude(p, outcome) PROVE Good
  BY <1>1, ConcludeFacts DEF Committing
<1>2. ASSUME NEW pc, Goes(p, pc), pc \in Committing => proc[p].pc \in Committing PROVE Good
  BY <1>2, GoesFacts
<1>3. ASSUME NEW new, Move(p, new),
             new.pc \in Committing => proc[p].pc \in Committing /\ new.kind = proc[p].kind
      PROVE Good
  BY <1>3, MovesOne
<1>4. proc[p] \in Process
  BY DEF IInv, ReleaseTypeOK
<1>5. NoCommit(p) => Good
  BY <1>1, <1>2 DEF NoCommit, Committing
<1> HIDE DEF Good
<1>6. CASE CommitShim(p)
  <2>1. proc[p].pc \in Committing
    BY <1>6 DEF CommitShim, At, Committing
  <2>2. [proc[p] EXCEPT !.pc = "sync", !.made = TRUE].kind = proc[p].kind
    BY <1>4 DEF Process
  <2>. QED
    BY <1>1, <1>2, <1>3, <1>6, <2>1, <2>2 DEF CommitShim
<1>7. CASE SyncStaged(p)
  <2>1. proc[p].pc \in Committing
    BY <1>7 DEF SyncStaged, At, Committing
  <2>2. [proc[p] EXCEPT !.pc = "rename",
                        !.staged = IF @ = "complete" THEN "synced" ELSE @].kind = proc[p].kind
    BY <1>4 DEF Process
  <2>. QED
    BY <1>3, <1>5, <1>7, <2>1, <2>2 DEF SyncStaged
<1>8. CASE Rename(p)
  <2>1. [proc[p] EXCEPT !.pc = "dirsync", !.staged = "none", !.seq = installs + 1].pc
          \notin Committing
    BY <1>4 DEF Process, Committing
  <2>. QED
    BY <1>3, <1>5, <1>8, <2>1 DEF Rename
<1>9. CASE SyncDirectory(p)
  BY <1>1, <1>9 DEF SyncDirectory
<1>10. CASE UnlinkShim(p)
  BY <1>1, <1>2, <1>10 DEF UnlinkShim, Committing
<1>11. CASE SyncRollback(p)
  BY <1>1, <1>11 DEF SyncRollback
<1>. QED
  BY <1>6, <1>7, <1>8, <1>9, <1>10, <1>11 DEF Commits

\* A step of the installation alone.
LEMMA InstallationMoves ==
  ASSUME LInv, [ReleaseNext]_releaseVars, UNCHANGED lifecycleVars, UpgradeOK'
  PROVE LInv'
<1>1. IInv' /\ platform' = platform
  BY StepKeeps, PlatformStays DEF LInv
<1>. QED
  BY <1>1
  DEF lifecycleVars, LInv, TypesOK, CommandOK, JobOK, OneDaemon, HoldsLock, ReplyOK, CommitOK

LEMMA CommitKeeps == ASSUME LInv, Commit PROVE LInv' /\ ReleaseNext
<1>1. PICK p \in Proc : p = cli.proc
  BY DEF Commit, CliAt, LInv, CommandOK, OnlyUpgrade
<1>2. BeginCommit(p) /\ UNCHANGED lifecycleVars /\ cli.pc = "commit"
  BY <1>1 DEF Commit, CliAt
<1>3. ReleaseNext
  BY <1>2 DEF ReleaseNext
<1>4. \A q \in Proc \ {p} : proc'[q] = proc[q]
  BY <1>2, GoesFacts DEF BeginCommit, LInv
<1>5. UpgradeOK'
  BY <1>1, <1>2, <1>3, <1>4, PlatformStays DEF LInv, UpgradeOK, lifecycleVars
<1>. QED
  BY <1>2, <1>3, <1>5, InstallationMoves

LEMMA ReleaseStepKeeps ==
  ASSUME LInv, NEW p \in Proc, ReleaseStep(p) \/ InterruptProcess(p)
  PROVE LInv' /\ ReleaseNext
<1>1. UNCHANGED lifecycleVars /\ IInv
  BY DEF ReleaseStep, InterruptProcess, LInv
<1>2. ReleaseNext
  BY DEF ReleaseStep, InterruptProcess, ReleaseNext
<1>3. platform' = platform
  BY <1>2, PlatformStays
<1>4. ASSUME \A q \in Proc \ {p} : proc'[q] = proc[q],
             platform = "mac" /\ proc'[p].kind = "upgrade" /\ proc'[p].pc \in Committing
               => proc[p].kind = "upgrade" /\ proc[p].pc \in Committing
      PROVE UpgradeOK'
  BY <1>1, <1>3, <1>4 DEF LInv, UpgradeOK, lifecycleVars, Committing
<1>5. UpgradeOK'
  <2>1. CASE Prepares(p)
    BY <1>1, <1>4, <2>1, PreparesFacts
  <2>2. CASE ~(At(p, "prepared") /\ ~Linux /\ proc[p].kind = "upgrade") /\ BeginCommit(p)
    <3>1. proc'[p].kind = proc[p].kind /\ \A q \in Proc \ {p} : proc'[q] = proc[q]
      BY <1>1, <2>2, GoesFacts DEF BeginCommit
    <3>. QED
      BY <1>4, <2>2, <3>1 DEF BeginCommit, Linux
  <2>3. CASE Commits(p)
    BY <1>1, <1>4, <2>3, CommitsFacts
  <2>4. CASE Leave(p)
    BY <1>1, <1>4, <2>4, FinishFacts DEF Leave, Committing
  <2>5. CASE Crash(p)
    <3>1. Killed(p).pc \notin Committing
      BY <1>1, KilledFacts DEF Committing
    <3>2. proc'[p] = Killed(p) /\ \A q \in Proc \ {p} : proc'[q] = proc[q]
      BY <1>1, <2>5, MovesOne DEF Crash
    <3>. QED
      BY <1>4, <3>1, <3>2
  <2>. QED
    BY <2>1, <2>2, <2>3, <2>4, <2>5 DEF ReleaseStep, InterruptProcess
<1>. QED
  BY <1>1, <1>2, <1>5, InstallationMoves

LEMMA PublishReleaseKeeps == ASSUME LInv, PublishRelease PROVE LInv' /\ ReleaseNext
<1>1. Publish /\ UNCHANGED lifecycleVars /\ ReleaseNext
  BY DEF PublishRelease, ReleaseNext
<1>2. UpgradeOK'
  BY <1>1 DEF LInv, UpgradeOK, Publish, lifecycleVars
<1>. QED
  BY <1>1, <1>2, InstallationMoves

\* A command is killed, an upgrade with its process.
LEMMA InterruptKeeps == ASSUME LInv, Interrupt PROVE LInv' /\ [ReleaseNext]_releaseVars
<1>1. cli' = NoCommand /\ UNCHANGED <<launchd, daemon, config, past>> /\ IInv
  BY DEF Interrupt, LInv
<1>2. UpgradeOK' /\ [ReleaseNext]_releaseVars
  <2>1. CASE cli.cmd = "upgrade"
    <3>1. PICK p \in Proc : p = cli.proc
      BY <2>1 DEF LInv, CommandOK
    <3>2. Crash(p)
      BY <2>1, <3>1 DEF Interrupt
    <3>3. ReleaseNext
      BY <3>2 DEF ReleaseNext
    <3>4. Killed(p).pc \notin Committing
      BY <1>1, KilledFacts DEF Committing
    <3>5. proc'[p] = Killed(p) /\ \A q \in Proc \ {p} : proc'[q] = proc[q]
      BY <1>1, <3>2, MovesOne DEF Crash
    <3>6. UpgradeOK'
      BY <3>1, <3>3, <3>4, <3>5, PlatformStays DEF LInv, UpgradeOK, Committing
    <3>. QED
      BY <3>3, <3>6
  <2>2. CASE cli.cmd # "upgrade"
    <3>1. UNCHANGED releaseVars /\ cli.pc # "commit"
      BY <2>2 DEF Interrupt, LInv, CommandOK, OnlyUpgrade
    <3>2. UpgradeOK'
      BY <3>1, InstallationRests DEF LInv, UpgradeOK
    <3>. QED
      BY <3>1, <3>2
  <2>. QED
    BY <2>1, <2>2
<1>3. IInv'
  BY <1>1, <1>2, StepKeeps
<1>4. JobOK' /\ \A d \in Slot : daemon'[d].pc \in {"none", daemon[d].pc}
  BY <1>1, Alone
<1>5. TypesOK' /\ CommandOK'
  BY <1>1, NoCommandFacts DEF LInv, TypesOK, CommandOK, Stopping, OnlyUpgrade
<1>6. cli'.pc # "commit" /\ cli'.reply = "none"
  BY <1>1, NoCommandFacts
<1>. QED
  BY <1>2, <1>3, <1>4, <1>5, <1>6, CommandFrame

\* Everything of the user's is killed.
LEMMA AllKilledKeeps ==
  ASSUME LInv, PowerLoss \/ SessionEnds, cli' = NoCommand,
         launchd' \in LaunchdType, daemon' \in [Slot -> Daemon], config' \in Contents,
         past' \in PastType, ~launchd'.due, launchd'.job = NoSlot,
         \A d \in Slot : daemon'[d].pc \in {"none", daemon[d].pc} \ {"starting", "loaded"}
  PROVE LInv' /\ ReleaseNext
<1>1. ReleaseNext
  BY DEF ReleaseNext
<1>2. IInv /\ IInv'
  BY <1>1, StepKeeps DEF LInv
<1>3. proc' = [p \in Proc |-> Killed(p)]
  BY DEF PowerLoss, SessionEnds
<1>4. \A p \in Proc : proc'[p].pc \notin Committing
  BY <1>2, <1>3, KilledFacts DEF Committing
<1>5. UpgradeOK'
  BY <1>4 DEF UpgradeOK, Committing
<1>6. TypesOK' /\ CommandOK' /\ JobOK'
  BY NoCommandFacts DEF TypesOK, CommandOK, JobOK, Stopping, OnlyUpgrade
<1>7. cli'.pc # "commit" /\ cli'.reply = "none"
  BY NoCommandFacts
<1>. QED
  BY <1>1, <1>2, <1>5, <1>6, <1>7, CommandFrame

LEMMA LogoutKeeps == ASSUME LInv, Logout PROVE LInv' /\ ReleaseNext
<1>1. launchd \in LaunchdType /\ daemon \in [Slot -> Daemon]
  BY DEF LInv, TypesOK
<1>2. launchd' = [launchd EXCEPT !.session = FALSE, !.loaded = FALSE, !.due = FALSE,
                                !.job = NoSlot]
  BY DEF Logout
<1>3. launchd' \in LaunchdType /\ ~launchd'.due /\ launchd'.job = NoSlot
  BY <1>1, <1>2 DEF LaunchdType
<1>4. daemon' = [d \in Slot |-> IF d = launchd.job THEN Terminated(d) ELSE daemon[d]]
  BY DEF Logout
<1>5. /\ daemon' \in [Slot -> Daemon]
      /\ \A d \in Slot : daemon'[d].pc \in {"none", daemon[d].pc} \ {"starting", "loaded"}
  BY <1>1, <1>4, TerminatedFacts DEF LInv, JobOK
<1>6. SessionEnds /\ cli' = NoCommand /\ config' \in Contents /\ past' \in PastType
  BY PastMoves DEF Logout, LInv, TypesOK
<1>. QED
  BY <1>3, <1>5, <1>6, AllKilledKeeps

LEMMA PowerFailsKeeps == ASSUME LInv, PowerFails PROVE LInv' /\ ReleaseNext
<1>1. launchd \in LaunchdType
  BY DEF LInv, TypesOK
<1>2. (platform = "linux") \in BOOLEAN /\ (past.spoiled \/ \E d \in Slot : Needed(d)) \in BOOLEAN
  OBVIOUS
<1>3. PICK session \in BOOLEAN, spoiled \in BOOLEAN :
        /\ session = (platform = "linux")
        /\ spoiled = (past.spoiled \/ \E d \in Slot : Needed(d))
  BY <1>2, Zenon
<1>4. /\ launchd' = [launchd EXCEPT !.session = session, !.loaded = FALSE, !.due = FALSE,
                                   !.job = NoSlot]
      /\ past' = [past EXCEPT !.spoiled = spoiled]
  BY <1>3, Zenon DEF PowerFails
<1>5. launchd' \in LaunchdType /\ ~launchd'.due /\ launchd'.job = NoSlot
  BY <1>1, <1>4 DEF LaunchdType
<1>6. NoDaemon \in Daemon /\ NoDaemon.pc = "none"
  BY DEF NoDaemon, NoConfig, Daemon, DaemonState, Contents
<1>7. /\ daemon' \in [Slot -> Daemon]
      /\ \A d \in Slot : daemon'[d].pc \in {"none", daemon[d].pc} \ {"starting", "loaded"}
  BY <1>6 DEF PowerFails
<1>8. past' \in PastType
  BY <1>4, PastMoves
<1>9. PowerLoss /\ cli' = NoCommand /\ config' \in Contents
  BY DEF PowerFails, LInv, TypesOK
<1>. QED
  BY <1>5, <1>7, <1>8, <1>9, AllKilledKeeps

LEMMA LoginKeeps == ASSUME LInv, Login PROVE LInv'
<1>1. launchd \in LaunchdType /\ UNCHANGED <<releaseVars, cli, daemon, config, past>>
  BY DEF LInv, TypesOK, Login
<1>2. cli.cmd = "none" /\ cli.pc = "idle" /\ cli.reply = "none"
  BY DEF LInv, CommandOK, Login
<1>3. (launchd.loaded \/ launchd.plist) \in BOOLEAN
  OBVIOUS
<1>4. PICK loaded \in BOOLEAN : loaded = (launchd.loaded \/ launchd.plist)
  BY <1>3, Zenon
<1>5. launchd' = [launchd EXCEPT !.session = TRUE, !.loaded = loaded, !.due = launchd.plist]
  BY <1>4, Zenon DEF Login
<1>6. /\ launchd' \in LaunchdType /\ launchd'.loaded = loaded /\ launchd'.due = launchd.plist
      /\ launchd'.job = launchd.job
  BY <1>1, <1>5 DEF LaunchdType
<1>7. IInv' /\ platform' = platform /\ proc' = proc
  BY <1>1, InstallationRests
<1>8. TypesOK' /\ CommandOK' /\ UpgradeOK'
  BY <1>1, <1>2, <1>6, <1>7
  DEF LInv, TypesOK, CommandOK, UpgradeOK, Stopping, OnlyUpgrade
<1>9. JobOK'
  BY <1>1, <1>4, <1>6 DEF LInv, JobOK
<1>. QED
  BY <1>1, <1>2, <1>7, <1>8, <1>9, CommandFrame

-----------------------------------------------------------------------------
(* The daemon.                                                             *)

\* What a step of one daemon leaves alone.
LEMMA DaemonFrame ==
  ASSUME LInv, NEW d \in Slot, NEW new \in Daemon, Became(d, new), UNCHANGED releaseVars,
         cli' \in CommandType, cli'.pc = cli.pc, cli'.cmd = cli.cmd, cli'.proc = cli.proc,
         cli'.reply # "none" => cli.reply # "none",
         launchd' \in LaunchdType, launchd'.session = launchd.session,
         config' \in Contents, past' \in PastType
  PROVE /\ IInv' /\ TypesOK' /\ CommandOK' /\ UpgradeOK'
        /\ daemon'[d] = new /\ \A e \in Slot \ {d} : daemon'[e] = daemon[e]
<1>1. IInv' /\ platform' = platform /\ proc' = proc
  BY InstallationRests
<1>2. daemon' = [daemon EXCEPT ![d] = new] /\ daemon \in [Slot -> Daemon]
  BY DEF Became, LInv, TypesOK
<1>3. CommandOK'
  BY <1>1 DEF LInv, CommandOK
<1>4. UpgradeOK'
  BY <1>1 DEF LInv, UpgradeOK
<1>. QED
  BY <1>1, <1>2, <1>3, <1>4 DEF TypesOK

\* The daemon of a taken request, and one whose cleanup is confirmed.
LEMMA Answering ==
  ASSUME LInv, NEW d \in Slot, HoldsLock(d)
  PROVE /\ cli.reply = "taken" => daemon[d].pc = "stopping" /\ daemon[d].memory.stopping
        /\ cli.reply = "confirmed" => daemon[d].pc = "exiting"
        /\ \A e \in Slot \ {d} : daemon[e].pc \in {"none", "starting"}
BY DEF LInv, OneDaemon, ReplyOK, HoldsLock

LEMMA AnswerFacts ==
  ASSUME LInv, NEW reply \in Reply \ {"none"}
  PROVE /\ Answer(reply) \in CommandType
        /\ Answer(reply).pc = cli.pc /\ Answer(reply).cmd = cli.cmd
        /\ Answer(reply).proc = cli.proc
        /\ Answer(reply).reply = IF cli.reply = "taken" THEN reply ELSE cli.reply
<1>1. cli \in CommandType
  BY DEF LInv, TypesOK
<1>2. PICK new : new = [cli EXCEPT !.reply = reply]
  OBVIOUS
<1>3. /\ new \in CommandType /\ new.pc = cli.pc /\ new.cmd = cli.cmd
      /\ new.proc = cli.proc /\ new.reply = reply
  BY <1>1, <1>2 DEF CommandType
<1>4. Answer(reply) = IF cli.reply = "taken" THEN new ELSE cli
  BY <1>2 DEF Answer
<1>. QED
  BY <1>1, <1>3, <1>4

\* A daemon is gone.
LEMMA EndsKeeps ==
  ASSUME LInv, NEW d \in Slot, NEW success \in BOOLEAN, Ends(d, success),
         UNCHANGED releaseVars, daemon[d].pc # "none",
         config' \in Contents, past' \in PastType,
         cli.reply = "confirmed" => config'.stopping
  PROVE LInv'
<1>1. cli \in CommandType /\ launchd \in LaunchdType
  BY DEF LInv, TypesOK
<1>2. NoDaemon \in Daemon /\ NoDaemon.pc = "none"
  BY DEF NoDaemon, NoConfig, Daemon, DaemonState, Contents
<1>3. /\ cli' \in CommandType /\ cli'.pc = cli.pc /\ cli'.cmd = cli.cmd
      /\ cli'.proc = cli.proc
      /\ cli'.reply = IF cli.reply \in {"sent", "taken"} THEN "error" ELSE cli.reply
  <2>1. PICK new : new = [cli EXCEPT !.reply = "error"]
    OBVIOUS
  <2>2. /\ new \in CommandType /\ new.pc = cli.pc /\ new.cmd = cli.cmd
        /\ new.proc = cli.proc /\ new.reply = "error"
    BY <1>1, <2>1 DEF CommandType, Reply
  <2>3. cli' = IF cli.reply \in {"sent", "taken"} THEN new ELSE cli
    BY <2>1 DEF Ends
  <2>. QED
    BY <1>1, <2>2, <2>3
<1>4. /\ launchd' \in LaunchdType /\ launchd'.session = launchd.session
      /\ launchd'.loaded = launchd.loaded
      /\ IF launchd.job = d THEN launchd'.job = NoSlot ELSE launchd' = launchd
  <2>1. CASE launchd.job = d
    <3>1. PICK due \in BOOLEAN : due = ~success
      OBVIOUS
    <3>2. launchd' = [launchd EXCEPT !.job = NoSlot, !.due = due]
      BY <2>1, <3>1 DEF Ends
    <3>. QED
      BY <1>1, <2>1, <3>2 DEF LaunchdType
  <2>2. CASE launchd.job # d
    BY <1>1, <2>2 DEF Ends
  <2>. QED
    BY <2>1, <2>2
<1>5. /\ IInv' /\ TypesOK' /\ CommandOK' /\ UpgradeOK'
      /\ daemon'[d] = NoDaemon /\ \A e \in Slot \ {d} : daemon'[e] = daemon[e]
  <2>1. Became(d, NoDaemon) /\ (cli'.reply # "none" => cli.reply # "none")
    BY <1>3 DEF Ends
  <2>. QED
    BY <1>2, <1>3, <1>4, <2>1, DaemonFrame
<1>6. JobOK'
  BY <1>2, <1>4, <1>5, LifecycleAssumption DEF LInv, JobOK
<1>7. OneDaemon'
  BY <1>2, <1>5 DEF LInv, OneDaemon, HoldsLock
<1>8. ReplyOK'
  BY <1>2, <1>3, <1>5 DEF LInv, ReplyOK
<1>9. CommitOK'
  BY <1>2, <1>3, <1>4, <1>5 DEF LInv, CommitOK
<1>. QED
  BY <1>5, <1>6, <1>7, <1>8, <1>9 DEF LInv

LEMMA SpawnKeeps == ASSUME LInv, NEW d \in Slot, Spawn(d) PROVE LInv'
<1>1. /\ launchd \in LaunchdType /\ target.version \in Nat
      /\ UNCHANGED <<releaseVars, cli, config, past>>
  BY DEF LInv, TypesOK, Spawn, IInv, ReleaseTypeOK, File
<1>2. /\ launchd.loaded /\ launchd.job = NoSlot /\ daemon[d].pc = "none"
      /\ launchd' = [launchd EXCEPT !.due = FALSE, !.job = d]
  BY DEF Spawn
<1>3. /\ launchd' \in LaunchdType /\ launchd'.session = launchd.session
      /\ launchd'.loaded = launchd.loaded /\ launchd'.job = d
  BY <1>1, <1>2 DEF LaunchdType
<1>4. PICK new : new = [NoDaemon EXCEPT !.pc = "starting", !.version = target.version]
  OBVIOUS
<1>5. new \in Daemon /\ new.pc = "starting"
  BY <1>1, <1>4 DEF NoDaemon, NoConfig, Daemon, DaemonState, Contents
<1>6. Became(d, new)
  BY <1>4 DEF Spawn
<1>7. /\ IInv' /\ TypesOK' /\ CommandOK' /\ UpgradeOK'
      /\ daemon'[d] = new /\ \A e \in Slot \ {d} : daemon'[e] = daemon[e]
  BY <1>1, <1>3, <1>5, <1>6, DaemonFrame DEF LInv, TypesOK
<1>8. JobOK'
  BY <1>2, <1>3, <1>7, LifecycleAssumption DEF LInv, JobOK
<1>9. OneDaemon'
  BY <1>5, <1>7 DEF LInv, OneDaemon, HoldsLock
<1>10. ReplyOK' /\ CommitOK'
  BY <1>1, <1>2, <1>5, <1>7 DEF LInv, ReplyOK, CommitOK
<1>. QED
  BY <1>7, <1>8, <1>9, <1>10 DEF LInv

\* A daemon that goes on without an answer to give.
LEMMA DaemonGoesKeeps ==
  ASSUME LInv, NEW d \in Slot, NEW new \in Daemon, Became(d, new), HoldsLock(d),
         daemon[d].pc \in {"loaded", "bound", "running"},
         new.pc \in {"bound", "running", "stopping", "exiting"},
         UNCHANGED <<releaseVars, cli, launchd>>, config' \in Contents, past' \in PastType
  PROVE LInv'
<1>1. cli.reply \notin {"taken", "confirmed"}
  BY Answering
<1>2. /\ IInv' /\ TypesOK' /\ CommandOK' /\ UpgradeOK'
      /\ daemon'[d] = new /\ \A e \in Slot \ {d} : daemon'[e] = daemon[e]
  BY DaemonFrame DEF LInv, TypesOK
<1>3. JobOK' /\ OneDaemon'
  BY <1>2 DEF LInv, JobOK, OneDaemon, HoldsLock
<1>4. ReplyOK' /\ CommitOK'
  BY <1>1, <1>2 DEF LInv, ReplyOK, CommitOK
<1>. QED
  BY <1>2, <1>3, <1>4 DEF LInv

LEMMA OpenKeeps == ASSUME LInv, NEW d \in Slot, Open(d) PROVE LInv'
<1>1. /\ daemon[d].pc = "starting" /\ UNCHANGED <<releaseVars, config, past>>
      /\ config \in Contents /\ past \in PastType /\ daemon[d] \in Daemon
  BY DEF Open, LInv, TypesOK
<1>2. CASE Ends(d, TRUE)
  <2>1. cli.reply = "confirmed" => config'.stopping
    BY <1>1 DEF LInv, ReplyOK
  <2>. QED
    BY <1>1, <1>2, <2>1, EndsKeeps
<1>3. CASE /\ LockFree /\ ~config.stopping
           /\ Became(d, [daemon[d] EXCEPT !.pc = "loaded",
                                          !.memory = [config EXCEPT !.exists = TRUE]])
           /\ UNCHANGED <<launchd, cli>>
  <2>1. PICK memory : memory = [config EXCEPT !.exists = TRUE]
    OBVIOUS
  <2>2. memory \in Contents
    BY <1>1, <2>1 DEF Contents
  <2>3. PICK new : new = [daemon[d] EXCEPT !.pc = "loaded", !.memory = memory]
    OBVIOUS
  <2>4. new \in Daemon /\ new.pc = "loaded"
    BY <1>1, <2>2, <2>3 DEF Daemon, DaemonState
  <2>5. Became(d, new)
    BY <1>3, <2>1, <2>3
  <2>6. /\ IInv' /\ TypesOK' /\ CommandOK' /\ UpgradeOK'
        /\ daemon'[d] = new /\ \A e \in Slot \ {d} : daemon'[e] = daemon[e]
    BY <1>1, <1>3, <2>4, <2>5, DaemonFrame DEF LInv, TypesOK
  <2>7. JobOK'
    BY <1>1, <1>3, <2>4, <2>6 DEF LInv, JobOK
  <2>8. OneDaemon'
    BY <1>3, <2>6 DEF OneDaemon, LockFree, HoldsLock
  <2>9. ReplyOK' /\ CommitOK'
    BY <1>1, <1>3, <2>6 DEF LInv, ReplyOK, CommitOK
  <2>. QED
    BY <2>6, <2>7, <2>8, <2>9 DEF LInv
<1>. QED
  BY <1>2, <1>3 DEF Open, StopsAtOnce

\* The same daemon, elsewhere.
LEMMA DaemonElsewhere ==
  ASSUME NEW s \in Daemon, NEW pc \in DaemonState
  PROVE [s EXCEPT !.pc = pc] \in Daemon /\ [s EXCEPT !.pc = pc].pc = pc
<1>1. PICK new : new = [s EXCEPT !.pc = pc]
  OBVIOUS
<1>2. new \in Daemon /\ new.pc = pc
  BY <1>1 DEF Daemon
<1>. QED
  BY <1>1, <1>2, Zenon

LEMMA SaveFacts ==
  ASSUME LInv, NEW new \in Contents, NEW outcome, Save(new, outcome)
  PROVE config' \in Contents /\ past' \in PastType
<1>1. past' = past \/ past' = Faulty
  BY DEF Save
<1>. QED
  BY <1>1, PastMoves DEF Save, LInv, TypesOK

\* What is counted when a start errs, or a daemon is killed.
LEMMA StartErrsFacts ==
  ASSUME LInv, NEW d \in Slot, NEW after \in PastType, StartErrs(d, after)
  PROVE /\ past' \in PastType
        /\ past'.acked = after.acked /\ past'.stopped = after.stopped
        /\ past'.spoiled = after.spoiled
        /\ \E success \in BOOLEAN : Ends(d, success)
<1>1. PICK success \in BOOLEAN :
        /\ Ends(d, success)
        /\ past' = [after EXCEPT !.wanted = @ /\ ~(success /\ launchd.job = d)]
  BY DEF StartErrs
<1>2. PICK wanted \in BOOLEAN : wanted = (after.wanted /\ ~(success /\ launchd.job = d))
  BY Zenon
<1>3. past' = [after EXCEPT !.wanted = wanted]
  BY <1>1, <1>2, Zenon
<1>. QED
  BY <1>1, <1>3 DEF PastType

LEMMA FaultyFacts ==
  ASSUME LInv
  PROVE /\ Faulty \in PastType /\ Faulty.spoiled
        /\ Faulty.acked = past.acked /\ Faulty.stopped = past.stopped
<1>1. past \in PastType
  BY DEF LInv, TypesOK
<1>2. PICK faults \in Nat : faults = past.faults + 1
  <2>1. past.faults \in Nat
    BY <1>1 DEF PastType
  <2>. QED
    BY <2>1, Successor, Zenon
<1>3. Faulty = [past EXCEPT !.faults = faults, !.spoiled = TRUE]
  BY <1>2, Zenon DEF Faulty
<1>. QED
  BY <1>1, <1>3 DEF PastType

LEMMA BereftFacts ==
  ASSUME LInv, NEW d \in Slot
  PROVE /\ Bereft(d) \in PastType
        /\ Bereft(d).acked = past.acked /\ Bereft(d).stopped = past.stopped
        /\ ~Bereft(d).spoiled => ~past.spoiled /\ ~Needed(d)
<1>1. past \in PastType
  BY DEF LInv, TypesOK
<1>2. PICK b \in BOOLEAN : b = (past.spoiled \/ Needed(d))
  BY Zenon
<1>3. PICK faults \in Nat : faults = past.faults + 1
  <2>1. past.faults \in Nat
    BY <1>1 DEF PastType
  <2>. QED
    BY <2>1, Successor, Zenon
<1>4. Bereft(d) = [past EXCEPT !.faults = faults, !.spoiled = b]
  BY <1>2, <1>3, Zenon DEF Bereft
<1>. QED
  BY <1>1, <1>2, <1>4 DEF PastType

LEMMA BindKeeps == ASSUME LInv, NEW d \in Slot, Bind(d) PROVE LInv'
<1>1. /\ daemon[d].pc = "loaded" /\ UNCHANGED <<releaseVars, cli, launchd, config, past>>
      /\ config \in Contents /\ past \in PastType /\ daemon[d] \in Daemon
      /\ HoldsLock(d)
  BY DEF Bind, LInv, TypesOK, HoldsLock
<1>2. PICK new : new = [daemon[d] EXCEPT !.pc = "bound"]
  OBVIOUS
<1>3. new \in Daemon /\ new.pc = "bound"
  BY <1>1, <1>2, DaemonElsewhere DEF DaemonState
<1>4. Became(d, new)
  BY <1>2 DEF Bind, DaemonGoes
<1>. QED
  BY <1>1, <1>3, <1>4, DaemonGoesKeeps

LEMMA ReconcileKeeps == ASSUME LInv, NEW d \in Slot, Reconcile(d) PROVE LInv'
<1>1. /\ daemon[d].pc = "bound" /\ UNCHANGED releaseVars /\ daemon[d] \in Daemon
      /\ HoldsLock(d)
  BY DEF Reconcile, LInv, TypesOK, HoldsLock
<1>2. cli.reply # "confirmed" /\ daemon[d].memory \in Contents
  BY <1>1, Answering DEF Daemon
<1>3. /\ config' \in {config, daemon[d].memory}
      /\ \/ StartErrs(d, Faulty)
         \/ DaemonGoes(d, "running") /\ UNCHANGED <<launchd, cli, past>>
  BY DEF Reconcile
<1>4. config' \in Contents
  BY <1>2, <1>3 DEF LInv, TypesOK
<1>5. CASE StartErrs(d, Faulty)
  BY <1>1, <1>2, <1>4, <1>5, FaultyFacts, StartErrsFacts, EndsKeeps
<1>6. CASE DaemonGoes(d, "running") /\ UNCHANGED <<launchd, cli, past>>
  <2>1. PICK new : new = [daemon[d] EXCEPT !.pc = "running"]
    OBVIOUS
  <2>2. new \in Daemon /\ new.pc = "running"
    BY <1>1, <2>1, DaemonElsewhere DEF DaemonState
  <2>3. Became(d, new)
    BY <1>6, <2>1 DEF DaemonGoes
  <2>4. past' \in PastType
    BY <1>6 DEF LInv, TypesOK
  <2>. QED
    BY <1>1, <1>4, <1>6, <2>2, <2>3, <2>4, DaemonGoesKeeps
<1>. QED
  BY <1>3, <1>5, <1>6

LEMMA ChangeKeeps == ASSUME LInv, NEW d \in Slot, Change(d) PROVE LInv'
<1>1. /\ daemon[d].pc = "running" /\ UNCHANGED <<releaseVars, cli, launchd>>
      /\ config \in Contents /\ past \in PastType /\ daemon[d] \in Daemon
      /\ HoldsLock(d)
  BY DEF Change, LInv, TypesOK, HoldsLock
<1>2. past.changes \in Nat /\ past.faults \in Nat /\ daemon[d].memory \in Contents
  BY <1>1 DEF PastType, Daemon
<1>3. past.changes + 1 \in Nat /\ past.faults + 1 \in Nat
  BY <1>2, Successor
<1>4. PICK changes \in Nat, faults \in Nat :
        changes = past.changes + 1 /\ faults = past.faults + 1
  BY <1>3, Zenon
<1>5. PICK memory : memory = [daemon[d].memory EXCEPT !.remotes = changes]
  OBVIOUS
<1>6. memory \in Contents
  BY <1>2, <1>5 DEF Contents
<1>7. PICK counted : counted = [past EXCEPT !.changes = changes]
  OBVIOUS
<1>8. counted \in PastType /\ counted.changes = changes /\ counted.faults = past.faults
  BY <1>1, <1>7 DEF PastType
<1>9. PICK outcome :
        /\ config' = IF outcome = "before" THEN config ELSE memory
        /\ past' = IF outcome = "ok" THEN [counted EXCEPT !.acked = counted.changes]
                   ELSE [counted EXCEPT !.faults = @ + 1, !.spoiled = TRUE]
        /\ Became(d, [daemon[d] EXCEPT !.memory = IF outcome = "before" THEN @ ELSE memory])
  BY <1>4, <1>5, <1>7, Zenon DEF Change
<1>10. config' \in Contents
  BY <1>1, <1>6, <1>9
<1>11. past' \in PastType
  <2>1. PICK good : good = [counted EXCEPT !.acked = changes]
    OBVIOUS
  <2>2. PICK bad : bad = [counted EXCEPT !.faults = faults, !.spoiled = TRUE]
    OBVIOUS
  <2>3. good \in PastType /\ bad \in PastType
    BY <1>8, <2>1, <2>2 DEF PastType
  <2>4. past' \in {good, bad}
    BY <1>4, <1>8, <1>9, <2>1, <2>2, Zenon
  <2>. QED
    BY <2>3, <2>4
<1>12. PICK kept : kept = IF outcome = "before" THEN daemon[d].memory ELSE memory
  OBVIOUS
<1>13. PICK new : new = [daemon[d] EXCEPT !.memory = kept]
  OBVIOUS
<1>14. new \in Daemon /\ new.pc = "running"
  <2>1. kept \in Contents
    BY <1>2, <1>6, <1>12
  <2>. QED
    BY <1>1, <1>13, <2>1 DEF Daemon
<1>15. Became(d, new)
  BY <1>9, <1>12, <1>13, Zenon
<1>. QED
  BY <1>1, <1>10, <1>11, <1>14, <1>15, DaemonGoesKeeps

\* A daemon begins to stop, saved or not.
LEMMA BeginShutdownFacts ==
  ASSUME LInv, NEW d \in Slot, NEW saved, NEW workers \in BOOLEAN,
         BeginShutdown(d, saved, workers)
  PROVE /\ UNCHANGED <<releaseVars, launchd>>
        /\ config' \in Contents /\ past' \in PastType
        /\ saved = "ok" => config'.stopping
        /\ \E new \in Daemon :
             /\ Became(d, new)
             /\ new.pc = IF workers THEN "stopping" ELSE "exiting"
             /\ saved = "ok" => new.memory.stopping
<1>1. daemon[d] \in Daemon /\ daemon[d].memory \in Contents
  BY DEF LInv, TypesOK, Daemon
<1>2. PICK written : written = [daemon[d].memory EXCEPT !.stopping = TRUE]
  OBVIOUS
<1>3. written \in Contents /\ written.stopping
  BY <1>1, <1>2 DEF Contents
<1>4. Save(written, saved)
  BY <1>2 DEF BeginShutdown, IntentSave
<1>5. config' \in Contents /\ past' \in PastType
  BY <1>3, <1>4, SaveFacts
<1>6. saved = "ok" => config'.stopping
  BY <1>3, <1>4 DEF Save
<1>7. (saved # "before") \in BOOLEAN
  OBVIOUS
<1>8. PICK stopping \in BOOLEAN : stopping = (saved # "before")
  BY <1>7, Zenon
<1>9. PICK pc : pc = IF workers THEN "stopping" ELSE "exiting"
  OBVIOUS
<1>10. PICK memory : memory = [daemon[d].memory EXCEPT !.stopping = stopping]
  OBVIOUS
<1>11. memory \in Contents /\ memory.stopping = stopping /\ pc \in DaemonState
  BY <1>1, <1>9, <1>10 DEF Contents, DaemonState
<1>12. PICK new : new = [daemon[d] EXCEPT !.pc = pc, !.memory = memory]
  OBVIOUS
<1>13. new \in Daemon /\ new.pc = pc /\ new.memory = memory
  BY <1>1, <1>11, <1>12 DEF Daemon
<1>14. Became(d, new)
  BY <1>1, <1>8, <1>9, <1>10, <1>12 DEF BeginShutdown, Daemon
<1>15. saved = "ok" => new.memory.stopping
  BY <1>8, <1>11, <1>13
<1>. QED
  BY <1>5, <1>6, <1>9, <1>13, <1>14, <1>15 DEF BeginShutdown

LEMMA SignalSeenKeeps == ASSUME LInv, NEW d \in Slot, SignalSeen(d) PROVE LInv'
<1>1. daemon[d].pc = "running" /\ HoldsLock(d) /\ UNCHANGED cli
  BY DEF SignalSeen, HoldsLock
<1>2. PICK saved \in SaveOutcome, workers \in BOOLEAN : BeginShutdown(d, saved, workers)
  BY DEF SignalSeen
<1>3. /\ UNCHANGED <<releaseVars, launchd>> /\ config' \in Contents /\ past' \in PastType
      /\ \E new \in Daemon : Became(d, new) /\ new.pc \in {"stopping", "exiting"}
  BY <1>2, BeginShutdownFacts
<1>. QED
  BY <1>1, <1>3, DaemonGoesKeeps

LEMMA ShutdownRequestedKeeps == ASSUME LInv, NEW d \in Slot, ShutdownRequested(d) PROVE LInv'
<1>1. /\ daemon[d].pc = "running" /\ HoldsLock(d) /\ cli.reply = "sent"
      /\ cli \in CommandType
  BY DEF ShutdownRequested, HoldsLock, LInv, TypesOK
<1>2. PICK saved \in SaveOutcome, workers \in BOOLEAN :
        /\ BeginShutdown(d, saved, workers)
        /\ cli' = [cli EXCEPT !.reply = IF saved # "ok" THEN "error"
                                       ELSE IF workers THEN "taken" ELSE "confirmed"]
  BY DEF ShutdownRequested
<1>3. /\ UNCHANGED <<releaseVars, launchd>>
      /\ config' \in Contents /\ past' \in PastType
      /\ saved = "ok" => config'.stopping
  BY <1>2, BeginShutdownFacts
<1>4. PICK new \in Daemon :
        /\ Became(d, new)
        /\ new.pc = IF workers THEN "stopping" ELSE "exiting"
        /\ saved = "ok" => new.memory.stopping
  BY <1>2, BeginShutdownFacts
<1>5. PICK reply : reply = IF saved # "ok" THEN "error"
                           ELSE IF workers THEN "taken" ELSE "confirmed"
  OBVIOUS
<1>6. cli' = [cli EXCEPT !.reply = reply] /\ reply \in Reply
  BY <1>2, <1>5 DEF Reply
<1>7. /\ cli' \in CommandType /\ cli'.pc = cli.pc /\ cli'.cmd = cli.cmd
      /\ cli'.proc = cli.proc /\ cli'.reply = reply
  BY <1>1, <1>6 DEF CommandType
<1>8. /\ IInv' /\ TypesOK' /\ CommandOK' /\ UpgradeOK'
      /\ daemon'[d] = new /\ \A e \in Slot \ {d} : daemon'[e] = daemon[e]
  <2>1. launchd' \in LaunchdType
    BY <1>3 DEF LInv, TypesOK
  <2>. QED
    BY <1>1, <1>3, <1>4, <1>7, <2>1, DaemonFrame
<1>9. JobOK' /\ OneDaemon'
  BY <1>1, <1>3, <1>4, <1>8 DEF LInv, JobOK, OneDaemon, HoldsLock
<1>10. ReplyOK'
  <2>1. reply \in {"taken", "confirmed"} => saved = "ok"
    BY <1>5
  <2>2. reply = "taken" => new.pc = "stopping"
    BY <1>4, <1>5
  <2>3. reply = "confirmed" => new.pc = "exiting"
    BY <1>4, <1>5
  <2>4. \A e \in Slot \ {d} : daemon[e].pc \in {"none", "starting"}
    BY <1>1, Answering
  <2>. QED
    BY <1>3, <1>4, <1>7, <1>8, <2>1, <2>2, <2>3, <2>4 DEF ReplyOK
<1>11. CommitOK'
  BY <1>1, <1>3, <1>7, <1>8 DEF LInv, CommitOK
<1>. QED
  BY <1>8, <1>9, <1>10, <1>11 DEF LInv

\* A request that is refused, or whose time is up.
LEMMA RefusedKeeps ==
  ASSUME LInv, NEW d \in Slot, ShutdownRefused(d) \/ ShutdownExpires(d)
  PROVE LInv'
<1>1. /\ UNCHANGED <<releaseVars, launchd, daemon, config, past>> /\ cli.reply # "none"
      /\ cli \in CommandType /\ daemon[d] \in Daemon /\ daemon \in [Slot -> Daemon]
  BY DEF ShutdownRefused, ShutdownExpires, LInv, TypesOK
<1>2. /\ cli' \in CommandType /\ cli'.pc = cli.pc /\ cli'.cmd = cli.cmd
      /\ cli'.proc = cli.proc /\ cli'.reply \in {"error", "unconfirmed"}
  <2>1. CASE ShutdownRefused(d)
    <3>1. cli' = [cli EXCEPT !.reply = "error"]
      BY <2>1 DEF ShutdownRefused
    <3>. QED
      BY <1>1, <3>1 DEF CommandType, Reply
  <2>2. CASE ShutdownExpires(d)
    <3>1. "unconfirmed" \in Reply \ {"none"}
      BY DEF Reply
    <3>2. cli' = Answer("unconfirmed") /\ cli.reply = "taken"
      BY <2>2 DEF ShutdownExpires
    <3>. QED
      BY <3>1, <3>2, AnswerFacts
  <2>. QED
    BY <2>1, <2>2
<1>3. Became(d, daemon[d])
  BY <1>1 DEF Became
<1>4. IInv' /\ TypesOK' /\ CommandOK' /\ UpgradeOK'
  BY <1>1, <1>2, <1>3, DaemonFrame DEF LInv, TypesOK
<1>5. JobOK' /\ OneDaemon' /\ ReplyOK' /\ CommitOK'
  BY <1>1, <1>2 DEF LInv, JobOK, OneDaemon, HoldsLock, ReplyOK, CommitOK
<1>. QED
  BY <1>4, <1>5 DEF LInv

LEMMA WorkersStoppedKeeps == ASSUME LInv, NEW d \in Slot, WorkersStopped(d) PROVE LInv'
<1>1. /\ daemon[d].pc = "stopping" /\ HoldsLock(d) /\ daemon[d] \in Daemon
      /\ UNCHANGED <<releaseVars, launchd, config, past>> /\ cli' = Answer("confirmed")
  BY DEF WorkersStopped, HoldsLock, LInv, TypesOK
<1>2. PICK new : new = [daemon[d] EXCEPT !.pc = "exiting"]
  OBVIOUS
<1>3. new \in Daemon /\ new.pc = "exiting"
  BY <1>1, <1>2, DaemonElsewhere DEF DaemonState
<1>4. Became(d, new)
  BY <1>2 DEF WorkersStopped, DaemonGoes
<1>5. /\ cli' \in CommandType /\ cli'.pc = cli.pc /\ cli'.cmd = cli.cmd
      /\ cli'.proc = cli.proc
      /\ cli'.reply = IF cli.reply = "taken" THEN "confirmed" ELSE cli.reply
  <2>1. "confirmed" \in Reply \ {"none"}
    BY DEF Reply
  <2>. QED
    BY <1>1, <2>1, AnswerFacts
<1>6. /\ IInv' /\ TypesOK' /\ CommandOK' /\ UpgradeOK'
      /\ daemon'[d] = new /\ \A e \in Slot \ {d} : daemon'[e] = daemon[e]
  <2>1. cli'.reply # "none" => cli.reply # "none"
    BY <1>5
  <2>. QED
    BY <1>1, <1>3, <1>4, <1>5, <2>1, DaemonFrame DEF LInv, TypesOK
<1>7. JobOK' /\ OneDaemon'
  BY <1>1, <1>3, <1>6 DEF LInv, JobOK, OneDaemon, HoldsLock
<1>8. ReplyOK'
  <2>1. cli.reply # "confirmed" /\ \A e \in Slot \ {d} : daemon[e].pc \in {"none", "starting"}
    BY <1>1, Answering
  <2>. QED
    BY <1>1, <1>3, <1>5, <1>6, <2>1 DEF LInv, ReplyOK
<1>9. CommitOK'
  BY <1>1, <1>5, <1>6 DEF LInv, CommitOK
<1>. QED
  BY <1>6, <1>7, <1>8, <1>9 DEF LInv

LEMMA WorkerEventSavedKeeps == ASSUME LInv, NEW d \in Slot, WorkerEventSaved(d) PROVE LInv'
<1>1. /\ daemon[d].pc \in {"running", "stopping"} /\ HoldsLock(d)
      /\ UNCHANGED <<releaseVars, cli, launchd, daemon>>
      /\ daemon[d] \in Daemon /\ daemon \in [Slot -> Daemon] /\ daemon[d].memory \in Contents
  BY DEF WorkerEventSaved, HoldsLock, LInv, TypesOK, Daemon
<1>2. PICK outcome : Save(daemon[d].memory, outcome)
  BY DEF WorkerEventSaved
<1>3. /\ config' \in Contents /\ past' \in PastType
      /\ config' \in {config, daemon[d].memory}
  BY <1>1, <1>2, SaveFacts DEF Save
<1>4. Became(d, daemon[d])
  BY <1>1 DEF Became
<1>5. IInv' /\ TypesOK' /\ CommandOK' /\ UpgradeOK'
  BY <1>1, <1>3, <1>4, DaemonFrame DEF LInv, TypesOK
<1>6. JobOK' /\ OneDaemon' /\ CommitOK'
  BY <1>1 DEF LInv, JobOK, OneDaemon, HoldsLock, CommitOK
<1>7. ReplyOK'
  BY <1>1, <1>3, Answering DEF LInv, ReplyOK
<1>. QED
  BY <1>5, <1>6, <1>7 DEF LInv

LEMMA ListenerFailsKeeps == ASSUME LInv, NEW d \in Slot, ListenerFails(d) PROVE LInv'
<1>1. /\ daemon[d].pc = "running" /\ UNCHANGED <<releaseVars, cli, launchd, config>>
      /\ config' \in Contents /\ past' \in PastType /\ daemon[d] \in Daemon
      /\ HoldsLock(d)
  BY PastMoves DEF ListenerFails, LInv, TypesOK, HoldsLock
<1>2. PICK new : new = [daemon[d] EXCEPT !.pc = "stopping"]
  OBVIOUS
<1>3. new \in Daemon /\ new.pc = "stopping"
  BY <1>1, <1>2, DaemonElsewhere DEF DaemonState
<1>4. Became(d, new)
  BY <1>2 DEF ListenerFails, DaemonGoes
<1>. QED
  BY <1>1, <1>3, <1>4, DaemonGoesKeeps

LEMMA ExitKeeps ==
  ASSUME LInv, NEW d \in Slot, Exit(d) \/ StartFails(d) \/ DaemonKilled(d)
  PROVE LInv'
<1>1. daemon[d].pc # "none" /\ UNCHANGED <<releaseVars, config>> /\ config' \in Contents
  BY DEF Exit, StartFails, DaemonKilled, LInv, TypesOK
<1>2. past' \in PastType /\ \E success \in BOOLEAN : Ends(d, success)
  <2>1. CASE Exit(d)
    BY <2>1 DEF Exit, LInv, TypesOK
  <2>2. CASE StartFails(d)
    BY <2>2, BereftFacts, StartErrsFacts DEF StartFails
  <2>3. CASE DaemonKilled(d)
    BY <2>3, BereftFacts DEF DaemonKilled
  <2>. QED
    BY <2>1, <2>2, <2>3
<1>3. cli.reply = "confirmed" => config'.stopping
  BY <1>1 DEF LInv, ReplyOK
<1>. QED
  BY <1>1, <1>2, <1>3, EndsKeeps

-----------------------------------------------------------------------------
(* The invariant, and what it gives.                                       *)

LEMMA CommandStepKeeps == ASSUME LInv, CommandStep PROVE LInv'
BY StartKeeps, StartBootoutKeeps, WaitForExitKeeps, LoadKeeps, ClearStopIntentKeeps,
   InstallKeeps, BootstrapKeeps, SecondBootoutKeeps, PollRunningKeeps, UndoStartKeeps,
   StopProbeKeeps, PersistStopIntentKeeps, StopBootoutKeeps, RequestShutdownKeeps,
   ShutdownReplyKeeps, LastBootoutKeeps, ClassifyKeeps, ObserveKeeps, CommitKeeps,
   AfterCommitKeeps
DEF CommandStep

LEMMA DaemonStepKeeps == ASSUME LInv, NEW d \in Slot, DaemonStep(d) PROVE LInv'
BY SpawnKeeps, OpenKeeps, BindKeeps, ReconcileKeeps, ChangeKeeps, ShutdownRequestedKeeps,
   SignalSeenKeeps, RefusedKeeps, WorkersStoppedKeeps, WorkerEventSavedKeeps, ExitKeeps,
   ListenerFailsKeeps
DEF DaemonStep, Starts

\* The installation moves as Release says, or rests.
LEMMA CommandStepRefines == ASSUME LInv, CommandStep PROVE [ReleaseNext]_releaseVars
<1>1. End => [ReleaseNext]_releaseVars
  BY EndFacts
<1>2. Operational => [ReleaseNext]_releaseVars
  BY <1>1 DEF Operational
<1>3. ASSUME NEW was, NEW confirmed, StopReturns(was, confirmed)
      PROVE [ReleaseNext]_releaseVars
  BY <1>1, <1>3 DEF StopReturns
<1>4. ASSUME NEW pc, Goto(pc) PROVE [ReleaseNext]_releaseVars
  BY <1>4 DEF Goto
<1>5. CASE \/ Start \/ StartBootout \/ WaitForExit \/ LoadForClear \/ ClearStopIntent \/ Install
           \/ FirstBootstrap \/ SecondBootout \/ SecondBootstrap \/ PollRunning \/ UndoStart
  BY <1>1, <1>4, <1>5
  DEF Start, StartBootout, WaitForExit, LoadForClear, ClearStopIntent, Install,
      FirstBootstrap, SecondBootout, SecondBootstrap, PollRunning, UndoStart
<1>6. CASE \/ StopProbe \/ LoadForPersist \/ PersistStopIntent \/ StopBootout
           \/ RequestShutdown \/ ShutdownReply \/ LastBootout
  BY <1>1, <1>2, <1>3, <1>4, <1>6
  DEF StopProbe, LoadForPersist, PersistStopIntent, StopBootout, RequestShutdown,
      ShutdownReply, LastBootout
<1>7. CASE Classify \/ Observe \/ AfterCommit
  BY <1>1, <1>4, <1>7 DEF Classify, Observe, AfterCommit
<1>8. CASE Commit
  BY <1>8, CommitKeeps
<1>. QED
  BY <1>5, <1>6, <1>7, <1>8 DEF CommandStep

LEMMA DaemonStepRefines == ASSUME NEW d \in Slot, DaemonStep(d) PROVE UNCHANGED releaseVars
BY DEF DaemonStep, Starts, Spawn, Open, Bind, Reconcile, Change, ShutdownRequested, SignalSeen,
       BeginShutdown, ShutdownRefused, ShutdownExpires, WorkersStopped, WorkerEventSaved,
       Exit, StartFails, ListenerFails, DaemonKilled

LEMMA NextKeeps == LInv /\ [Next]_vars => LInv' /\ [ReleaseNext]_releaseVars
<1> SUFFICES ASSUME LInv, [Next]_vars PROVE LInv' /\ [ReleaseNext]_releaseVars
  OBVIOUS
<1>1. CASE BeginStart \/ BeginStop \/ BeginRestart
  BY <1>1, BeginCommandKeeps DEF BeginStart, BeginStop, BeginRestart, Begin
<1>2. CASE CommandStep
  BY <1>2, CommandStepKeeps, CommandStepRefines
<1>3. CASE Interrupt
  BY <1>3, InterruptKeeps
<1>4. ASSUME NEW d \in Slot, DaemonStep(d) PROVE LInv' /\ [ReleaseNext]_releaseVars
  BY <1>4, DaemonStepKeeps, DaemonStepRefines
<1>5. ASSUME NEW p \in Proc, ReleaseStep(p) \/ InterruptProcess(p)
      PROVE LInv' /\ [ReleaseNext]_releaseVars
  BY <1>5, ReleaseStepKeeps
<1>6. ASSUME NEW p \in Proc, BeginUpgrade(p) PROVE LInv' /\ [ReleaseNext]_releaseVars
  BY <1>6, BeginUpgradeKeeps DEF BeginUpgrade
<1>7. CASE PublishRelease \/ Logout \/ PowerFails
  BY <1>7, PublishReleaseKeeps, LogoutKeeps, PowerFailsKeeps
<1>8. CASE Login
  BY <1>8, LoginKeeps DEF Login
<1>9. CASE UNCHANGED vars
  <2>1. UNCHANGED <<releaseVars, cli, launchd, daemon, config, past>>
    BY <1>9 DEF vars, lifecycleVars
  <2>2. UpgradeOK'
    BY <2>1, InstallationRests DEF LInv, UpgradeOK
  <2>. QED
    BY <2>1, <2>2, InstallationMoves DEF lifecycleVars
<1>. QED
  BY <1>1, <1>2, <1>3, <1>4, <1>5, <1>6, <1>7, <1>8, <1>9 DEF Next

LEMMA InitKeeps == Init => LInv
<1> SUFFICES ASSUME Init PROVE LInv
  OBVIOUS
<1>1. /\ cli = NoCommand /\ past = Nothing /\ IInv
      /\ proc = [p \in Proc |-> Idle]
  BY InitHolds DEF Init, ReleaseInit
<1>2. past \in PastType
  BY <1>1 DEF Nothing, PastType
<1>3. NoDaemon \in Daemon /\ NoDaemon.pc = "none" /\ NoConfig \in Contents
  BY DEF NoDaemon, NoConfig, Daemon, DaemonState, Contents
<1>4. DaemonAt("running") \in Daemon /\ DaemonAt("running").pc = "running"
  <2>1. PICK memory : memory = [NoConfig EXCEPT !.exists = TRUE]
    OBVIOUS
  <2>2. memory \in Contents
    BY <1>3, <2>1 DEF Contents
  <2>3. PICK new : new = [NoDaemon EXCEPT !.pc = "running", !.version = 1, !.memory = memory]
    OBVIOUS
  <2>4. new \in Daemon /\ new.pc = "running"
    BY <1>3, <2>2, <2>3 DEF Daemon, DaemonState
  <2>5. DaemonAt("running") = new
    BY <2>1, <2>3 DEF DaemonAt
  <2>. QED
    BY <2>4, <2>5
<1>5. /\ launchd \in LaunchdType /\ daemon \in [Slot -> Daemon] /\ config \in Contents
      /\ JobOK /\ OneDaemon
  <2>1. CASE /\ launchd = [session |-> TRUE, plist |-> FALSE, loaded |-> FALSE, due |-> FALSE,
                          job |-> NoSlot]
             /\ daemon = [d \in Slot |-> NoDaemon]
             /\ config = NoConfig
    BY <1>3, <2>1 DEF LaunchdType, JobOK, OneDaemon, HoldsLock
  <2>2. ASSUME NEW d \in Slot,
               launchd = [session |-> TRUE, plist |-> TRUE, loaded |-> TRUE, due |-> FALSE,
                          job |-> d],
               daemon = [[e \in Slot |-> NoDaemon] EXCEPT ![d] = DaemonAt("running")],
               config = daemon[d].memory
        PROVE /\ launchd \in LaunchdType /\ daemon \in [Slot -> Daemon] /\ config \in Contents
              /\ JobOK /\ OneDaemon
    <3>1. /\ daemon \in [Slot -> Daemon] /\ daemon[d] = DaemonAt("running")
          /\ \A e \in Slot \ {d} : daemon[e].pc = "none"
      BY <1>3, <1>4, <2>2
    <3>2. launchd \in LaunchdType /\ launchd.loaded
      BY <2>2 DEF LaunchdType
    <3>3. config \in Contents
      BY <1>4, <2>2, <3>1 DEF Daemon
    <3>4. JobOK /\ OneDaemon
      BY <1>4, <3>1, <3>2 DEF JobOK, OneDaemon, HoldsLock
    <3>. QED
      BY <3>1, <3>2, <3>3, <3>4
  <2>. QED
    BY <2>1, <2>2 DEF Init
<1>6. TypesOK
  BY <1>1, <1>2, <1>5, NoCommandFacts DEF TypesOK
<1>7. CommandOK /\ ReplyOK /\ CommitOK
  BY <1>1, NoCommandFacts DEF CommandOK, ReplyOK, CommitOK, Stopping, OnlyUpgrade
<1>8. UpgradeOK
  <2>1. Idle.pc = "idle"
    BY DEF Idle
  <2>. QED
    BY <1>1, <2>1 DEF UpgradeOK
<1>. QED
  BY <1>1, <1>5, <1>6, <1>7, <1>8 DEF LInv

\* What every reachable state satisfies.
LEMMA LifecycleInvariance == Spec => []LInv
<1>1. LInv /\ [Next]_vars => LInv'
  BY NextKeeps
<1>. QED
  BY <1>1, InitKeeps, PTL DEF Spec

\* The variables keep their types (src/src/main.rs:81-420).
THEOREM LifecycleTypeCorrect == Spec => []LifecycleTypeOK
<1>1. LInv => LifecycleTypeOK
  BY DEF LInv, IInv, TypesOK, LifecycleTypeOK, CommandType, LaunchdType, PastType
<1>. QED
  BY <1>1, LifecycleInvariance, PTL

\* The commands, the daemon and launchd drive the upgrade of release.rs as an
\* installation that its processes change on their own, so what is proved of Release
\* holds (coordinate_mac_upgrade, src/src/main.rs:960-1074).
THEOREM ImplementsRelease == Spec => ReleaseSpec
<1>1. Init => ReleaseInit
  BY DEF Init
<1>2. LInv /\ [Next]_vars => [ReleaseNext]_releaseVars
  BY NextKeeps
<1>. QED
  BY <1>1, <1>2, LifecycleInvariance, PTL DEF Spec, ReleaseSpec

\* The same, of the commands: whole files, true reports and no downgrade.
THEOREM LifecycleInstallsSafely == Spec => []TargetWhole /\ []ReportTrue /\ NoDowngrade
BY ImplementsRelease, TargetIsWhole, ReportsAreTrue, NeverDowngrades, PTL

\* daemon.lock admits one daemon (DaemonLock::acquire, src/src/daemon.rs:1414-1461).
THEOREM OneDaemonAtATime == Spec => []OneDaemon
<1>1. LInv => OneDaemon
  BY DEF LInv
<1>. QED
  BY <1>1, LifecycleInvariance, PTL

\* No upgrade replaces the binary under a daemon that serves or has workers
\* (coordinate_mac_upgrade, src/src/main.rs:960-1074).
THEOREM UpgradesWhenStopped == Spec => CommitWhenStopped
<1>1. LInv /\ [Next]_vars =>
        [\A p \in Proc :
           (platform = "mac" /\ target' # target /\ outages' = outages /\ target'.by = p
              /\ proc[p].kind = "upgrade")
             => \A d \in Slot : daemon[d].pc \in {"none", "exiting"}]_vars
  <2> SUFFICES ASSUME LInv, Next, NEW p \in Proc, platform = "mac", target' # target,
                      outages' = outages, target'.by = p, proc[p].kind = "upgrade"
               PROVE \A d \in Slot : daemon[d].pc \in {"none", "exiting"}
    OBVIOUS
  <2>1. ReleaseNext /\ IInv
    <3>1. [ReleaseNext]_releaseVars
      BY NextKeeps
    <3>. QED
      BY <3>1 DEF LInv, releaseVars, installed
  <2>2. PICK q \in Proc : Rename(q) /\ target'.by = q
    BY <2>1, OnlyRenameInstalls
  <2>3. q = p /\ proc[p].pc = "rename"
    BY <2>2 DEF Rename, At
  <2>4. cli.pc = "commit"
    BY <2>3 DEF LInv, UpgradeOK
  <2>. QED
    BY <2>4 DEF LInv, CommitOK
<1>. QED
  BY <1>1, LifecycleInvariance, PTL DEF Spec, CommitWhenStopped

-----------------------------------------------------------------------------
(* What was acknowledged, and what was stopped. Memory and file agree on the *)
(* changes but while a daemon runs, and on the intent to stop but while one  *)
(* is yet to write it; Kept says so of every place a command or a daemon may *)
(* be at, as long as no save failed and no daemon died that was needed.      *)

\* Without a configuration nothing was ever started.
MadeOK ==
  /\ ~config.exists => /\ ~launchd.plist /\ ~launchd.loaded
                       /\ \A d \in Slot : daemon[d].pc = "none"
  /\ \A d \in Slot : HoldsLock(d) => daemon[d].memory.exists

\* What a command has come by on its way to where it is.
StepOK ==
  /\ cli.cmd = "stop" => cli.pc \in Stopping
  /\ cli.pc \in {"install", "bootstrap", "rebootout", "rebootstrap"} => config.exists
  /\ cli.pc = "persist" => cli.snap.exists
  /\ cli.pc = "lastBootout" => cli.reply \in {"confirmed", "unconfirmed"}

\* A daemon that is not the job's was sent a SIGTERM.
TermOK ==
  \A d \in Slot :
    daemon[d].pc \in {"bound", "running"} /\ launchd.job # d => daemon[d].term

Runs == \E d \in Slot : daemon[d].pc = "running"

\* The daemon that holds the lock has what was acknowledged; so has the file, unless that
\* daemon runs and may be about to write it.
HeldOK ==
  /\ \A d \in Slot : HoldsLock(d) => daemon[d].memory.remotes = past.acked
  /\ Runs \/ config.remotes = past.acked

\* A daemon that stops does so with the intent in its memory.
IntentOK == \A d \in Slot : daemon[d].pc = "stopping" => daemon[d].memory.stopping

\* What a command has loaded is what the file holds, unless a daemon runs or has run.
SnapOK ==
  cli.pc \in {"clear", "persist"} /\ cli.snap.remotes # config.remotes =>
    \/ Runs
    \/ config.stopping /\ \A d \in Slot : daemon[d].pc \notin {"loaded", "bound"}

\* A stop that comes to its bootout has the intent in the file, or a daemon that is yet to
\* be told.
AskedOK ==
  cli.pc = "stopBootout" \/ cli.reply \in {"taken", "confirmed", "unconfirmed"} =>
    config.stopping \/ Runs \/ ~config.exists

\* What was stopped stays so: no command starts it, every daemon left was sent a SIGTERM,
\* and if the file lacks the intent, one of them will write it.
Passive ==
  \/ cli.cmd \in {"none", "stop"}
  \/ cli.cmd = "upgrade" /\ cli.pc \in {"classify", "commit"} /\ ~cli.ran
Signalled ==
  \A d \in Slot : /\ daemon[d].pc # "loaded"
                  /\ daemon[d].pc \in {"bound", "running"} => daemon[d].term
Intended ==
  \/ config.stopping \/ ~config.exists
  \/ \E d \in Slot : daemon[d].pc \in {"bound", "running"}
StoppedOK == past.stopped => Passive /\ Signalled /\ Intended

Kept ==
  /\ MadeOK /\ StepOK /\ TermOK
  /\ ~past.spoiled => HeldOK /\ IntentOK /\ SnapOK /\ AskedOK /\ StoppedOK

\* Every daemon is as it was, told to end, or ended by it.
Told ==
  \A d \in Slot :
    \/ daemon'[d].pc = "none" /\ daemon[d].pc \in {"none", "starting", "loaded"}
    \/ /\ daemon'[d].pc = daemon[d].pc /\ daemon'[d].memory = daemon[d].memory
       /\ daemon[d].term => daemon'[d].term

-----------------------------------------------------------------------------
(* Commands.                                                               *)

LEMMA RestTold == ASSUME UNCHANGED daemon PROVE Told
BY DEF Told

\* What SIGTERM leaves of a daemon.
LEMMA TerminatedLeaves ==
  ASSUME LInv, NEW d \in Slot
  PROVE IF daemon[d].pc \in {"starting", "loaded"} THEN Terminated(d).pc = "none"
        ELSE /\ Terminated(d).pc = daemon[d].pc /\ Terminated(d).memory = daemon[d].memory
             /\ Terminated(d).term
<1>1. daemon[d] \in Daemon
  BY DEF LInv, TypesOK
<1>2. CASE daemon[d].pc \in {"starting", "loaded"}
  BY <1>2 DEF Terminated, NoDaemon
<1>3. CASE daemon[d].pc \notin {"starting", "loaded"}
  <2>1. PICK new : new = [daemon[d] EXCEPT !.term = TRUE]
    OBVIOUS
  <2>2. new.pc = daemon[d].pc /\ new.memory = daemon[d].memory /\ new.term
    BY <1>1, <2>1 DEF Daemon
  <2>. QED
    BY <1>3, <2>1, <2>2 DEF Terminated
<1>. QED
  BY <1>2, <1>3

\* A job that is unloaded leaves no daemon that was not told.
LEMMA JobTold ==
  ASSUME LInv, Kept,
         daemon' = [d \in Slot |-> IF d = launchd.job THEN Terminated(d) ELSE daemon[d]]
  PROVE Told /\ Signalled'
<1>1. \A d \in Slot : daemon'[d] = IF d = launchd.job THEN Terminated(d) ELSE daemon[d]
  OBVIOUS
<1>2. ASSUME NEW d \in Slot
      PROVE /\ \/ daemon'[d].pc = "none" /\ daemon[d].pc \in {"none", "starting", "loaded"}
               \/ /\ daemon'[d].pc = daemon[d].pc /\ daemon'[d].memory = daemon[d].memory
                  /\ daemon[d].term => daemon'[d].term
            /\ daemon'[d].pc # "loaded"
            /\ daemon'[d].pc \in {"bound", "running"} => daemon'[d].term
  <2>1. CASE d = launchd.job
    BY <1>1, <2>1, TerminatedLeaves
  <2>2. CASE d # launchd.job
    <3>1. daemon'[d] = daemon[d]
      BY <1>1, <2>2
    <3>. QED
      BY <2>2, <3>1 DEF LInv, JobOK, Kept, TermOK
  <2>. QED
    BY <2>1, <2>2
<1>. QED
  BY <1>2 DEF Told, Signalled

\* After a bootout, which may find no job.
LEMMA BootoutTold ==
  ASSUME LInv, Kept, Bootout
  PROVE Told /\ Signalled' /\ ~launchd'.loaded /\ launchd'.plist = launchd.plist
<1>1. launchd \in LaunchdType
  BY DEF LInv, TypesOK
<1>2. CASE launchd.loaded
  <2>1. Unload
    BY <1>2 DEF Bootout
  <2>2. launchd' = [launchd EXCEPT !.loaded = FALSE, !.due = FALSE, !.job = NoSlot]
    BY <2>1 DEF Unload
  <2>3. ~launchd'.loaded /\ launchd'.plist = launchd.plist
    BY <1>1, <2>2 DEF LaunchdType
  <2>. QED
    BY <2>1, <2>3, JobTold DEF Unload
<1>3. CASE ~launchd.loaded
  <2>1. UNCHANGED <<launchd, daemon>>
    BY <1>3 DEF Bootout
  <2>2. \A d \in Slot : launchd.job # d
    BY <1>3, LifecycleAssumption DEF LInv, JobOK
  <2>3. Signalled'
    BY <2>1, <2>2 DEF Signalled, LInv, JobOK, Kept, TermOK
  <2>. QED
    BY <1>3, <2>1, <2>3, RestTold
<1>. QED
  BY <1>2, <1>3

\* What daemons that were told keep.
LEMMA ToldKeeps ==
  ASSUME LInv, Kept, Told, UNCHANGED config, past'.spoiled = past.spoiled,
         past'.acked = past.acked,
         ~config.exists => ~launchd'.plist /\ ~launchd'.loaded
  PROVE /\ MadeOK'
        /\ ~past.spoiled => HeldOK' /\ IntentOK'
        /\ Runs' <=> Runs
        /\ Signalled => Signalled'
        /\ Intended => Intended'
<1>1. MadeOK'
  BY DEF Kept, MadeOK, HoldsLock, Told
<1>2. Runs' <=> Runs
  BY DEF Runs, Told
<1>3. ~past.spoiled => HeldOK'
  BY <1>2 DEF Kept, HeldOK, HoldsLock, Told
<1>4. ~past.spoiled => IntentOK'
  BY DEF Kept, IntentOK, Told
<1>5. Signalled => Signalled'
  BY DEF Signalled, Told
<1>6. Intended => Intended'
  BY DEF Intended, Told
<1>. QED
  BY <1>1, <1>2, <1>3, <1>4, <1>5, <1>6

\* A step of a command that saves nothing.
LEMMA CommandGoes ==
  ASSUME LInv, Kept, Told, UNCHANGED config, past'.spoiled = past.spoiled,
         past'.acked = past.acked,
         ~config.exists => ~launchd'.plist /\ ~launchd'.loaded,
         Signalled' \/ launchd'.job = launchd.job,
         StepOK',
         ~past.spoiled => SnapOK' /\ AskedOK',
         ~past.spoiled /\ past'.stopped => Passive' /\ Signalled' /\ Intended'
  PROVE Kept'
<1>1. MadeOK' /\ (~past.spoiled => HeldOK' /\ IntentOK')
  BY ToldKeeps
<1>2. TermOK'
  BY DEF Kept, TermOK, Told, Signalled
<1>. QED
  BY <1>1, <1>2 DEF Kept, StoppedOK

\* The end of a command.
LEMMA EndStands == ASSUME cli' = NoCommand PROVE StepOK' /\ SnapOK' /\ AskedOK' /\ Passive'
BY DEF NoCommand, StepOK, SnapOK, AskedOK, Passive

LEMMA CommandEnds ==
  ASSUME LInv, Kept, Told, UNCHANGED config, cli' = NoCommand,
         past'.spoiled = past.spoiled, past'.acked = past.acked,
         ~past.spoiled /\ past'.stopped => past.stopped \/ (Signalled' /\ Intended),
         launchd'.plist = launchd.plist, launchd'.loaded => launchd.loaded,
         Signalled' \/ launchd'.job = launchd.job
  PROVE Kept'
<1>1. StepOK' /\ SnapOK' /\ AskedOK' /\ Passive'
  BY EndStands
<1>2. ~config.exists => ~launchd'.plist /\ ~launchd'.loaded
  BY DEF Kept, MadeOK
<1>3. ~past.spoiled /\ past'.stopped => Signalled' /\ Intended'
  BY <1>2, ToldKeeps DEF Kept, StoppedOK
<1>. QED
  BY <1>1, <1>2, <1>3, CommandGoes

\* A command goes on to a place of no consequence.
LEMMA CommandSteps ==
  ASSUME LInv, Kept, Told, UNCHANGED config,
         past'.spoiled = past.spoiled, past'.acked = past.acked,
         past'.stopped => past.stopped,
         ~config.exists => ~launchd'.plist /\ ~launchd'.loaded,
         Signalled' \/ launchd'.job = launchd.job,
         cli'.cmd = cli.cmd, cli'.ran = cli.ran,
         cli'.reply \in {cli.reply, "none", "sent"},
         cli'.pc \notin {"clear", "persist", "stopBootout"},
         cli.cmd = "stop" => cli'.pc \in Stopping,
         cli.pc \in {"classify", "commit"} => cli'.pc \in {"classify", "commit"} \/ cli.ran,
         cli'.pc \in {"install", "bootstrap", "rebootout", "rebootstrap"} => config.exists,
         cli'.pc = "lastBootout" => cli'.reply \in {"confirmed", "unconfirmed"}
  PROVE Kept'
<1>1. StepOK'
  BY DEF StepOK
<1>2. Runs' <=> Runs
  BY ToldKeeps
<1>3. SnapOK' /\ (~past.spoiled => AskedOK')
  BY <1>2 DEF SnapOK, Kept, AskedOK
<1>4. Passive => Passive'
  BY DEF Passive
<1>5. ~past.spoiled /\ past'.stopped => Passive' /\ Signalled' /\ Intended'
  BY <1>4, ToldKeeps DEF Kept, StoppedOK
<1>. QED
  BY <1>1, <1>3, <1>5, CommandGoes

\* What is remembered of a step that loses nothing.
LEMMA PastKeeps ==
  ASSUME LInv,
         \/ UNCHANGED past
         \/ \E wanted : past' = [past EXCEPT !.wanted = wanted]
         \/ \E stopped : past' = [past EXCEPT !.stopped = stopped]
         \/ past' = Counted
         \/ past' = [Counted EXCEPT !.stopped = FALSE]
  PROVE /\ past'.spoiled = past.spoiled /\ past'.acked = past.acked
        /\ \/ past'.stopped = past.stopped
           \/ ~past'.stopped
           \/ \E stopped : past' = [past EXCEPT !.stopped = stopped]
<1>1. past \in PastType
  BY DEF LInv, TypesOK
<1>2. CASE \E wanted : past' = [past EXCEPT !.wanted = wanted]
  BY <1>1, <1>2 DEF PastType
<1>3. CASE \E stopped : past' = [past EXCEPT !.stopped = stopped]
  BY <1>1, <1>3 DEF PastType
<1>4. CASE past' = Counted
  BY <1>1, <1>4 DEF PastType, Counted
<1>5. CASE past' = [Counted EXCEPT !.stopped = FALSE]
  BY <1>1, <1>5 DEF PastType, Counted
<1>. QED
  BY <1>2, <1>3, <1>4, <1>5

\* A command begins.
LEMMA BeginKept ==
  ASSUME LInv, Kept, BeginStart \/ BeginRestart \/ BeginStop PROVE Kept'
<1>1. Idly /\ UNCHANGED <<launchd, daemon, config>>
  BY DEF BeginStart, BeginRestart, BeginStop, Begin
<1>2. PICK cmd \in {"start", "restart", "stop"}, pc \in {"probe", "stop"} :
        /\ cmd # "start" => pc = "stop"
        /\ cli' = [NoCommand EXCEPT !.cmd = cmd, !.pc = pc, !.version = target.version]
        /\ \/ past' = [Counted EXCEPT !.stopped = FALSE]
           \/ past' = Counted /\ cmd = "stop"
  BY DEF BeginStart, BeginRestart, BeginStop, Begin
<1>3. cli'.cmd = cmd /\ cli'.pc = pc /\ cli'.reply = "none"
  BY <1>2 DEF NoCommand
<1>4. /\ past'.spoiled = past.spoiled /\ past'.acked = past.acked
      /\ past'.stopped => past.stopped /\ cmd = "stop"
  <2>1. past \in PastType
    BY DEF LInv, TypesOK
  <2>. QED
    BY <1>2, <2>1 DEF Counted, PastType
<1>5. Told
  BY <1>1, RestTold
<1>6. StepOK' /\ SnapOK' /\ AskedOK'
  BY <1>2, <1>3 DEF StepOK, SnapOK, AskedOK, Stopping
<1>7. ~past.spoiled /\ past'.stopped => Passive' /\ Signalled' /\ Intended'
  BY <1>1, <1>3, <1>4, <1>5, ToldKeeps DEF Kept, MadeOK, StoppedOK, Passive
<1>8. ~config.exists => ~launchd'.plist /\ ~launchd'.loaded
  BY <1>1 DEF Kept, MadeOK
<1>. QED
  BY <1>1, <1>4, <1>5, <1>6, <1>7, <1>8, CommandGoes

LEMMA BeginUpgradeKept ==
  ASSUME LInv, Kept, NEW p \in Proc, BeginUpgrade(p) PROVE Kept'
<1>1. UNCHANGED <<launchd, daemon, config, past>>
  BY DEF BeginUpgrade
<1>2. /\ cli' = [NoCommand EXCEPT !.cmd = "upgrade", !.pc = "classify", !.proc = p,
                                 !.version = proc[p].exe]
  BY DEF BeginUpgrade
<1>3. cli'.cmd = "upgrade" /\ cli'.pc = "classify" /\ cli'.reply = "none" /\ ~cli'.ran
  BY <1>2 DEF NoCommand
<1>4. Told
  BY <1>1, RestTold
<1>5. StepOK' /\ SnapOK' /\ AskedOK' /\ Passive'
  BY <1>3 DEF StepOK, SnapOK, AskedOK, Passive
<1>6. ~config.exists => ~launchd'.plist /\ ~launchd'.loaded
  BY <1>1 DEF Kept, MadeOK
<1>7. ~past.spoiled /\ past'.stopped => Signalled' /\ Intended'
  BY <1>1, <1>4, <1>6, ToldKeeps DEF Kept, StoppedOK
<1>. QED
  BY <1>1, <1>4, <1>5, <1>6, <1>7, CommandGoes

\* A command ends, and nothing else happens.
LEMMA JustEnds ==
  ASSUME LInv, Kept, cli' = NoCommand, UNCHANGED <<launchd, daemon, config>>,
         past'.spoiled = past.spoiled, past'.acked = past.acked,
         past'.stopped => past.stopped
  PROVE Kept'
<1>1. /\ Told /\ UNCHANGED config
      /\ launchd'.plist = launchd.plist /\ launchd'.loaded = launchd.loaded
      /\ launchd'.job = launchd.job
  BY RestTold
<1>. QED
  BY <1>1, CommandEnds

\* A command that is at no place of the stop's answer goes to one of no consequence.
LEMMA JustGoes ==
  ASSUME LInv, Kept, NEW pc \in CommandState, Goto(pc),
         UNCHANGED <<launchd, daemon, config>>,
         past'.spoiled = past.spoiled, past'.acked = past.acked,
         past'.stopped => past.stopped,
         pc \notin {"clear", "persist", "stopBootout", "lastBootout"},
         cli.pc \in {"classify", "commit"} => pc = "commit",
         cli.cmd = "stop" => pc \in Stopping,
         pc \in {"install", "bootstrap", "rebootout", "rebootstrap"} => config.exists
  PROVE Kept'
<1>1. /\ cli'.pc = pc /\ cli'.cmd = cli.cmd /\ cli'.reply = cli.reply /\ cli'.ran = cli.ran
  BY GotoFacts
<1>2. ~config.exists => ~launchd'.plist /\ ~launchd'.loaded
  BY DEF Kept, MadeOK
<1>. QED
  BY <1>1, <1>2, RestTold, CommandSteps

LEMMA StartKept == ASSUME LInv, Kept, Start PROVE Kept'
<1>1. cli.pc = "probe" /\ UNCHANGED <<launchd, daemon, config, past>>
  BY DEF Start, CliAt
<1>2. CASE End
  BY <1>1, <1>2, EndFacts, JustEnds
<1>3. CASE Goto("bootout")
  <2>1. cli.cmd # "stop"
    BY <1>1 DEF Kept, StepOK, Stopping
  <2>2. "bootout" \in CommandState
    BY DEF CommandState
  <2>. QED
    BY <1>1, <1>3, <2>1, <2>2, JustGoes DEF Stopping
<1>. QED
  BY <1>2, <1>3 DEF Start

LEMMA WaitKept == ASSUME LInv, Kept, WaitForExit \/ Observe PROVE Kept'
<1>1. cli.pc \in {"wait", "observe"} /\ UNCHANGED <<launchd, daemon, config, past>>
  BY DEF WaitForExit, Observe, CliAt
<1>2. CASE End
  BY <1>1, <1>2, EndFacts, JustEnds
<1>3. ASSUME NEW pc \in {"load", "wait"}, Goto(pc) PROVE Kept'
  <2>1. cli.cmd # "stop"
    BY <1>1 DEF Kept, StepOK, Stopping
  <2>2. pc \in CommandState
    BY DEF CommandState
  <2>. QED
    BY <1>1, <1>3, <2>1, <2>2, JustGoes DEF Stopping
<1>. QED
  BY <1>2, <1>3 DEF WaitForExit, Observe

LEMMA StartBootoutKept == ASSUME LInv, Kept, StartBootout PROVE Kept'
<1>1. cli.pc = "bootout" /\ UNCHANGED config /\ past' = [past EXCEPT !.wanted = FALSE]
  BY DEF StartBootout, CliAt
<1>2. past'.spoiled = past.spoiled /\ past'.acked = past.acked /\ past'.stopped = past.stopped
  BY <1>1 DEF LInv, TypesOK, PastType
<1>3. CASE BootoutFails /\ End
  BY <1>1, <1>2, <1>3, EndFacts, JustEnds DEF BootoutFails
<1>4. CASE Bootout /\ Goto("wait")
  <2>1. Told /\ Signalled' /\ ~launchd'.loaded /\ launchd'.plist = launchd.plist
    BY <1>4, BootoutTold
  <2>2. "wait" \in CommandState
    BY DEF CommandState
  <2>3. cli'.pc = "wait" /\ cli'.cmd = cli.cmd /\ cli'.reply = cli.reply /\ cli'.ran = cli.ran
    BY <1>4, <2>2, GotoFacts
  <2>4. cli.cmd # "stop" /\ (~config.exists => ~launchd'.plist)
    BY <1>1, <2>1 DEF Kept, StepOK, Stopping, MadeOK
  <2>. QED
    BY <1>1, <1>2, <2>1, <2>3, <2>4, CommandSteps
<1>. QED
  BY <1>3, <1>4 DEF StartBootout

\* A command loads the configuration.
LEMMA LoadKept == ASSUME LInv, Kept, LoadForClear \/ LoadForPersist PROVE Kept'
<1>1. /\ cli.pc \in {"load", "persistLoad"} /\ UNCHANGED <<launchd, daemon, config, past>>
      /\ cli \in CommandType
  BY DEF LoadForClear, LoadForPersist, CliAt, LInv, TypesOK
<1>2. PICK pc : /\ cli' = [cli EXCEPT !.pc = pc, !.snap = config]
                /\ \/ pc = "clear" /\ cli.pc = "load"
                   \/ /\ cli.pc = "persistLoad"
                      /\ pc = IF config.exists THEN "persist" ELSE "stopBootout"
  BY DEF LoadForClear, LoadForPersist, CliAt
<1>3. /\ cli'.pc = pc /\ cli'.snap = config /\ cli'.cmd = cli.cmd /\ cli'.reply = cli.reply
      /\ cli'.ran = cli.ran
  BY <1>1, <1>2 DEF CommandType
<1>4. cli.reply = "none"
  BY <1>1 DEF LInv, CommandOK
<1>5. StepOK'
  BY <1>1, <1>2, <1>3 DEF Kept, StepOK, Stopping
<1>6. SnapOK' /\ AskedOK'
  BY <1>1, <1>2, <1>3, <1>4 DEF SnapOK, AskedOK
<1>7. Passive => Passive'
  BY <1>1, <1>3 DEF Passive
<1>8. Told /\ (~config.exists => ~launchd'.plist /\ ~launchd'.loaded)
  BY <1>1, RestTold DEF Kept, MadeOK
<1>9. ~past.spoiled /\ past'.stopped => Passive' /\ Signalled' /\ Intended'
  BY <1>1, <1>7, <1>8, ToldKeeps DEF Kept, StoppedOK
<1>. QED
  BY <1>1, <1>5, <1>6, <1>8, <1>9, CommandGoes

LEMMA InstallKept == ASSUME LInv, Kept, Install PROVE Kept'
<1>1. /\ cli.pc = "install" /\ UNCHANGED <<daemon, config, past>> /\ launchd \in LaunchdType
  BY DEF Install, CliAt, LInv, TypesOK
<1>2. PICK written \in BOOLEAN :
        /\ launchd' = [launchd EXCEPT !.plist = @ \/ written]
        /\ End \/ (written /\ Goto("bootstrap"))
  BY DEF Install
<1>3. launchd'.loaded = launchd.loaded /\ launchd'.job = launchd.job
  BY <1>1, <1>2 DEF LaunchdType
<1>4. config.exists /\ cli.cmd # "stop" /\ Told
  BY <1>1, RestTold DEF Kept, StepOK, Stopping
<1>5. CASE End
  <2>1. cli' = NoCommand
    BY <1>5, EndFacts
  <2>2. StepOK' /\ SnapOK' /\ AskedOK' /\ Passive'
    BY <2>1, EndStands
  <2>3. ~past.spoiled /\ past'.stopped => Signalled' /\ Intended'
    BY <1>1, <1>4, ToldKeeps DEF Kept, StoppedOK
  <2>. QED
    BY <1>1, <1>3, <1>4, <2>2, <2>3, CommandGoes
<1>6. CASE Goto("bootstrap")
  <2>1. "bootstrap" \in CommandState
    BY DEF CommandState
  <2>2. /\ cli'.pc = "bootstrap" /\ cli'.cmd = cli.cmd /\ cli'.reply = cli.reply
        /\ cli'.ran = cli.ran
    BY <1>6, <2>1, GotoFacts
  <2>. QED
    BY <1>1, <1>3, <1>4, <2>2, CommandSteps
<1>. QED
  BY <1>2, <1>5, <1>6

LEMMA BootstrapKept == ASSUME LInv, Kept, FirstBootstrap \/ SecondBootstrap PROVE Kept'
<1>1. /\ cli.pc \in {"bootstrap", "rebootstrap"} /\ UNCHANGED <<daemon, config, past>>
      /\ launchd \in LaunchdType
  BY DEF FirstBootstrap, SecondBootstrap, CliAt, LInv, TypesOK
<1>2. config.exists /\ cli.cmd # "stop" /\ Told
  BY <1>1, RestTold DEF Kept, StepOK, Stopping
<1>3. CASE UNCHANGED launchd /\ End
  BY <1>1, <1>3, EndFacts, JustEnds
<1>4. CASE Bootstrap \/ UNCHANGED launchd
  <2>1. launchd'.job = launchd.job
    <3>1. CASE Bootstrap
      <4>1. launchd' = [launchd EXCEPT !.loaded = TRUE, !.due = TRUE]
        BY <3>1 DEF Bootstrap
      <4>. QED
        BY <1>1, <4>1 DEF LaunchdType
    <3>. QED
      BY <1>4, <3>1
  <2>2. ASSUME NEW pc \in {"poll", "rebootout"}, Goto(pc) PROVE Kept'
    <3>1. pc \in CommandState
      BY DEF CommandState
    <3>2. /\ cli'.pc = pc /\ cli'.cmd = cli.cmd /\ cli'.reply = cli.reply
          /\ cli'.ran = cli.ran
      BY <2>2, <3>1, GotoFacts
    <3>. QED
      BY <1>1, <1>2, <2>1, <3>2, CommandSteps
  <2>3. CASE Goto("poll") \/ Goto("rebootout")
    BY <2>2, <2>3
  <2>. QED
    BY <1>1, <1>3, <1>4, <2>3 DEF FirstBootstrap, SecondBootstrap
<1>. QED
  BY <1>3, <1>4 DEF FirstBootstrap, SecondBootstrap

LEMMA SecondBootoutKept == ASSUME LInv, Kept, SecondBootout PROVE Kept'
<1>1. cli.pc = "rebootout" /\ UNCHANGED <<config, past>>
  BY DEF SecondBootout, CliAt
<1>2. CASE UNCHANGED <<launchd, daemon>> /\ End
  BY <1>1, <1>2, EndFacts, JustEnds
<1>3. CASE launchd.loaded /\ Unload /\ Goto("rebootstrap")
  <2>1. Told /\ Signalled' /\ ~launchd'.loaded /\ launchd'.plist = launchd.plist
    BY <1>3, BootoutTold DEF Bootout
  <2>2. "rebootstrap" \in CommandState
    BY DEF CommandState
  <2>3. /\ cli'.pc = "rebootstrap" /\ cli'.cmd = cli.cmd /\ cli'.reply = cli.reply
        /\ cli'.ran = cli.ran
    BY <1>3, <2>2, GotoFacts
  <2>4. cli.cmd # "stop" /\ config.exists
    BY <1>1 DEF Kept, StepOK, Stopping
  <2>. QED
    BY <1>1, <2>1, <2>3, <2>4, CommandSteps
<1>. QED
  BY <1>2, <1>3 DEF SecondBootout

LEMMA PollRunningKept == ASSUME LInv, Kept, PollRunning PROVE Kept'
<1>1. cli.pc = "poll" /\ UNCHANGED <<launchd, daemon, config>>
  BY DEF PollRunning, CliAt
<1>2. CASE End /\ past' = [past EXCEPT !.wanted = ~cli.failed]
  <2>1. /\ past'.spoiled = past.spoiled /\ past'.acked = past.acked
        /\ past'.stopped = past.stopped
    BY <1>2 DEF LInv, TypesOK, PastType
  <2>. QED
    BY <1>1, <1>2, <2>1, EndFacts, JustEnds
<1>3. CASE Goto("undo") /\ UNCHANGED past
  <2>1. cli.cmd # "stop"
    BY <1>1 DEF Kept, StepOK, Stopping
  <2>2. "undo" \in CommandState
    BY DEF CommandState
  <2>. QED
    BY <1>1, <1>3, <2>1, <2>2, JustGoes DEF Stopping
<1>. QED
  BY <1>2, <1>3 DEF PollRunning

LEMMA UndoStartKept == ASSUME LInv, Kept, UndoStart PROVE Kept'
<1>1. cli' = NoCommand /\ UNCHANGED <<config, past>>
  BY EndFacts DEF UndoStart
<1>2. CASE BootoutFails
  BY <1>1, <1>2, JustEnds DEF BootoutFails
<1>3. CASE Bootout
  <2>1. Told /\ Signalled' /\ ~launchd'.loaded /\ launchd'.plist = launchd.plist
    BY <1>3, BootoutTold
  <2>. QED
    BY <1>1, <2>1, CommandEnds
<1>. QED
  BY <1>2, <1>3 DEF UndoStart

\* Err(Operational) of a command that stops.
LEMMA OperationalFacts ==
  ASSUME LInv, Operational, cli.cmd # "none"
  PROVE \/ cli' = NoCommand
        \/ /\ cli.cmd = "upgrade" /\ cli'.cmd = cli.cmd /\ cli'.pc = "observe"
           /\ cli'.ran = cli.ran /\ cli'.reply = "none"
<1>1. cli \in CommandType
  BY DEF LInv, TypesOK
<1>2. CASE cli.cmd = "upgrade"
  <2>1. cli' = [cli EXCEPT !.pc = "observe", !.failed = TRUE, !.snap = NoConfig,
                           !.was = FALSE, !.reply = "none"]
    BY <1>2 DEF Operational
  <2>. QED
    BY <1>1, <1>2, <2>1 DEF CommandType
<1>3. CASE cli.cmd # "upgrade"
  BY <1>3, EndFacts DEF Operational
<1>. QED
  BY <1>2, <1>3

LEMMA JustOperational ==
  ASSUME LInv, Kept, Operational, cli.cmd # "none", cli.pc \in Stopping,
         UNCHANGED <<launchd, daemon, config>>,
         past'.spoiled = past.spoiled, past'.acked = past.acked,
         past'.stopped => past.stopped
  PROVE Kept'
<1>1. CASE cli' = NoCommand
  BY <1>1, JustEnds
<1>2. CASE /\ cli.cmd = "upgrade" /\ cli'.cmd = cli.cmd /\ cli'.pc = "observe"
           /\ cli'.ran = cli.ran /\ cli'.reply = "none"
  <2>1. ~config.exists => ~launchd'.plist /\ ~launchd'.loaded
    BY DEF Kept, MadeOK
  <2>2. cli.pc \notin {"classify", "commit"}
    BY DEF Stopping
  <2>3. Told /\ launchd'.job = launchd.job
    BY RestTold
  <2>. QED
    BY <1>2, <2>1, <2>2, <2>3, CommandSteps
<1>. QED
  BY <1>1, <1>2, OperationalFacts

\* A command writes what it has loaded, or spoils the file.
LEMMA CommandSaves ==
  ASSUME LInv, Kept, NEW new \in Contents, NEW outcome, CommandSave(new, outcome),
         UNCHANGED <<launchd, daemon>>, cli.pc \in {"clear", "persist"},
         new.remotes = cli.snap.remotes, new.exists
  PROVE /\ MadeOK' /\ TermOK'
        /\ past'.acked = past.acked /\ past'.stopped = past.stopped
        /\ ~past'.spoiled => /\ ~past.spoiled /\ outcome = "ok" /\ config' = new
                             /\ HeldOK' /\ IntentOK'
<1>1. past \in PastType
  BY DEF LInv, TypesOK
<1>2. /\ config' = IF outcome = "before" THEN config ELSE new
      /\ past' = IF outcome = "ok" THEN [past EXCEPT !.spoiled = @ \/ Overwrites(new)] ELSE Faulty
  BY DEF CommandSave
<1>3. MadeOK' /\ TermOK'
  BY <1>2 DEF Kept, MadeOK, TermOK, HoldsLock
<1>4. CASE outcome = "ok"
  <2>1. (past.spoiled \/ Overwrites(new)) \in BOOLEAN
    OBVIOUS
  <2>2. PICK spoiled \in BOOLEAN : spoiled = (past.spoiled \/ Overwrites(new))
    BY <2>1, Zenon
  <2>3. past' = [past EXCEPT !.spoiled = spoiled]
    BY <1>2, <1>4, <2>2, Zenon
  <2>4. past'.acked = past.acked /\ past'.stopped = past.stopped /\ past'.spoiled = spoiled
    BY <1>1, <2>3 DEF PastType
  <2>5. config' = new
    BY <1>2, <1>4
  <2>6. ASSUME ~spoiled PROVE HeldOK' /\ IntentOK'
    <3>1. ~past.spoiled /\ ~Overwrites(new)
      BY <2>2, <2>6
    <3>2. Runs \/ new.remotes = config.remotes
      BY <3>1 DEF Overwrites, Runs, Kept, SnapOK
    <3>3. Runs' <=> Runs
      BY DEF Runs
    <3>. QED
      BY <2>4, <2>5, <3>1, <3>2, <3>3 DEF Kept, HeldOK, IntentOK, HoldsLock
  <2>7. spoiled \/ ~past.spoiled
    BY <2>2
  <2>. QED
    BY <1>3, <1>4, <2>4, <2>5, <2>6, <2>7
<1>5. CASE outcome # "ok"
  <2>1. past' = Faulty
    BY <1>2, <1>5
  <2>2. past'.acked = past.acked /\ past'.stopped = past.stopped /\ past'.spoiled
    BY <1>1, <2>1 DEF PastType, Faulty
  <2>. QED
    BY <1>3, <2>2
<1>. QED
  BY <1>4, <1>5

LEMMA ClearKept == ASSUME LInv, Kept, ClearStopIntent PROVE Kept'
<1>1. /\ cli.pc = "clear" /\ UNCHANGED <<launchd, daemon>> /\ cli.snap \in Contents
  BY DEF ClearStopIntent, CliAt, LInv, TypesOK, CommandType
<1>2. PICK new : new = [cli.snap EXCEPT !.exists = TRUE, !.stopping = FALSE]
  OBVIOUS
<1>3. new \in Contents /\ new.exists /\ new.remotes = cli.snap.remotes
  BY <1>1, <1>2 DEF Contents
<1>4. PICK outcome : /\ CommandSave(new, outcome)
                     /\ IF outcome = "ok" THEN Goto("install") ELSE End
  BY <1>2 DEF ClearStopIntent
<1>5. /\ MadeOK' /\ TermOK'
      /\ past'.acked = past.acked /\ past'.stopped = past.stopped
      /\ ~past'.spoiled => /\ ~past.spoiled /\ outcome = "ok" /\ config' = new
                           /\ HeldOK' /\ IntentOK'
  BY <1>1, <1>3, <1>4, CommandSaves
<1>6. ~past.spoiled => ~past.stopped
  BY <1>1 DEF Kept, StepOK, StoppedOK, Passive, Stopping, LInv, CommandOK
<1>7. CASE outcome # "ok"
  <2>1. cli' = NoCommand
    BY <1>4, <1>7, EndFacts
  <2>2. StepOK'
    BY <2>1, EndStands
  <2>. QED
    BY <1>5, <1>7, <2>2 DEF Kept
<1>8. CASE outcome = "ok"
  <2>1. "install" \in CommandState /\ Goto("install")
    BY <1>4, <1>8 DEF CommandState
  <2>2. cli'.pc = "install" /\ cli'.cmd = cli.cmd /\ cli'.reply = cli.reply
    BY <2>1, GotoFacts
  <2>3. cli.reply = "none" /\ cli.cmd # "stop"
    BY <1>1 DEF LInv, CommandOK, Kept, StepOK, Stopping
  <2>4. config' = new
    BY <1>4, <1>8 DEF CommandSave
  <2>5. StepOK' /\ SnapOK' /\ AskedOK'
    BY <1>3, <2>2, <2>3, <2>4 DEF StepOK, SnapOK, AskedOK
  <2>6. ~past'.spoiled => StoppedOK'
    BY <1>5, <1>6 DEF StoppedOK
  <2>. QED
    BY <1>5, <2>5, <2>6 DEF Kept
<1>. QED
  BY <1>7, <1>8

LEMMA PersistKept == ASSUME LInv, Kept, PersistStopIntent PROVE Kept'
<1>1. /\ cli.pc = "persist" /\ UNCHANGED <<launchd, daemon>> /\ cli.snap \in Contents
      /\ cli.snap.exists
  BY DEF PersistStopIntent, CliAt, LInv, TypesOK, CommandType, Kept, StepOK
<1>2. PICK new : new = [cli.snap EXCEPT !.stopping = TRUE]
  OBVIOUS
<1>3. new \in Contents /\ new.exists /\ new.stopping /\ new.remotes = cli.snap.remotes
  BY <1>1, <1>2 DEF Contents
<1>4. PICK outcome : /\ CommandSave(new, outcome)
                     /\ IF outcome = "ok" THEN Goto("stopBootout") ELSE Operational
  BY <1>2 DEF PersistStopIntent
<1>5. /\ MadeOK' /\ TermOK'
      /\ past'.acked = past.acked /\ past'.stopped = past.stopped
      /\ ~past'.spoiled => /\ ~past.spoiled /\ outcome = "ok" /\ config' = new
                           /\ HeldOK' /\ IntentOK'
  BY <1>1, <1>3, <1>4, CommandSaves
<1>6. cli.cmd # "none"
  BY <1>1 DEF LInv, CommandOK
<1>7. CASE outcome # "ok"
  <2>1. StepOK'
    <3>1. CASE cli' = NoCommand
      BY <3>1, EndStands
    <3>2. CASE cli'.cmd = "upgrade" /\ cli'.pc = "observe"
      BY <3>2 DEF StepOK
    <3>. QED
      BY <1>4, <1>6, <1>7, <3>1, <3>2, OperationalFacts
  <2>. QED
    BY <1>5, <1>7, <2>1 DEF Kept
<1>8. CASE outcome = "ok"
  <2>1. "stopBootout" \in CommandState /\ Goto("stopBootout")
    BY <1>4, <1>8 DEF CommandState
  <2>2. cli'.pc = "stopBootout" /\ cli'.cmd = cli.cmd /\ cli'.reply = cli.reply
    BY <2>1, GotoFacts
  <2>3. config' = new
    BY <1>4, <1>8 DEF CommandSave
  <2>4. StepOK' /\ SnapOK' /\ AskedOK'
    BY <1>3, <2>2, <2>3 DEF StepOK, SnapOK, AskedOK, Stopping
  <2>5. ~past'.spoiled => StoppedOK'
    <3>1. SUFFICES ASSUME ~past.spoiled, past.stopped PROVE Passive' /\ Signalled' /\ Intended'
      BY <1>5 DEF StoppedOK
    <3>2. Passive /\ Signalled
      BY <3>1 DEF Kept, StoppedOK
    <3>3. Passive'
      BY <1>1, <2>2, <3>2 DEF Passive
    <3>4. Signalled' /\ Intended'
      BY <1>1, <1>3, <2>3, <3>2 DEF Signalled, Intended
    <3>. QED
      BY <3>3, <3>4
  <2>. QED
    BY <1>5, <2>4, <2>5 DEF Kept
<1>. QED
  BY <1>7, <1>8

LEMMA StopProbeKept == ASSUME LInv, Kept, StopProbe PROVE Kept'
<1>1. /\ cli.pc = "stop" /\ UNCHANGED <<launchd, daemon, config>>
      /\ past' = [past EXCEPT !.wanted = FALSE] /\ cli \in CommandType /\ cli.cmd # "none"
  BY DEF StopProbe, CliAt, LInv, TypesOK, CommandOK
<1>2. past'.spoiled = past.spoiled /\ past'.acked = past.acked /\ past'.stopped = past.stopped
  BY <1>1 DEF LInv, TypesOK, PastType
<1>3. ~config.exists => ~launchd'.plist /\ ~launchd'.loaded
  BY <1>1 DEF Kept, MadeOK
<1>4. ASSUME NEW was, cli' = [cli EXCEPT !.pc = "persistLoad", !.was = was] PROVE Kept'
  <2>1. /\ cli'.pc = "persistLoad" /\ cli'.cmd = cli.cmd /\ cli'.reply = cli.reply
        /\ cli'.ran = cli.ran
    BY <1>1, <1>4 DEF CommandType
  <2>2. Told /\ launchd'.job = launchd.job /\ cli'.pc \in Stopping
    BY <1>1, <2>1, RestTold DEF Stopping
  <2>. QED
    BY <1>1, <1>2, <1>3, <2>1, <2>2, CommandSteps
<1>5. CASE Goto("shutdown")
  <2>1. "shutdown" \in CommandState /\ "shutdown" \in Stopping
    BY DEF CommandState, Stopping
  <2>. QED
    BY <1>1, <1>2, <1>5, <2>1, JustGoes
<1>6. CASE Operational
  BY <1>1, <1>2, <1>6, JustOperational DEF Stopping
<1>. QED
  BY <1>4, <1>5, <1>6 DEF StopProbe

LEMMA RequestKept == ASSUME LInv, Kept, RequestShutdown PROVE Kept'
<1>1. /\ cli.pc = "shutdown" /\ UNCHANGED <<launchd, daemon, config, past>>
      /\ cli \in CommandType /\ cli.cmd # "none"
  BY DEF RequestShutdown, CliAt, LInv, TypesOK, CommandOK
<1>2. CASE cli' = [cli EXCEPT !.pc = "reply", !.reply = "sent"]
  <2>1. /\ cli'.pc = "reply" /\ cli'.cmd = cli.cmd /\ cli'.reply = "sent"
        /\ cli'.ran = cli.ran
    BY <1>1, <1>2 DEF CommandType
  <2>2. Told /\ launchd'.job = launchd.job /\ cli'.pc \in Stopping
    BY <1>1, <2>1, RestTold DEF Stopping
  <2>3. ~config.exists => ~launchd'.plist /\ ~launchd'.loaded
    BY <1>1 DEF Kept, MadeOK
  <2>. QED
    BY <1>1, <2>1, <2>2, <2>3, CommandSteps
<1>3. CASE Operational
  BY <1>1, <1>3, JustOperational DEF Stopping
<1>. QED
  BY <1>2, <1>3 DEF RequestShutdown

LEMMA ReplyKept == ASSUME LInv, Kept, ShutdownReply PROVE Kept'
<1>1. /\ cli.pc = "reply" /\ UNCHANGED <<launchd, daemon, config, past>> /\ cli.cmd # "none"
  BY DEF ShutdownReply, CliAt, LInv, CommandOK
<1>2. CASE cli.reply \in {"confirmed", "unconfirmed"} /\ Goto("lastBootout")
  <2>1. "lastBootout" \in CommandState
    BY DEF CommandState
  <2>2. /\ cli'.pc = "lastBootout" /\ cli'.cmd = cli.cmd /\ cli'.reply = cli.reply
        /\ cli'.ran = cli.ran
    BY <1>2, <2>1, GotoFacts
  <2>3. Told /\ launchd'.job = launchd.job /\ cli'.pc \in Stopping
    BY <1>1, <2>2, RestTold DEF Stopping
  <2>4. ~config.exists => ~launchd'.plist /\ ~launchd'.loaded
    BY <1>1 DEF Kept, MadeOK
  <2>. QED
    BY <1>1, <1>2, <2>2, <2>3, <2>4, CommandSteps
<1>3. CASE Operational
  BY <1>1, <1>3, JustOperational DEF Stopping
<1>. QED
  BY <1>2, <1>3 DEF ShutdownReply

\* A stop that had its bootout.
LEMMA ReturnsKept ==
  ASSUME LInv, Kept, NEW was, NEW confirmed, StopReturns(was, confirmed), Bootout,
         UNCHANGED config, cli.pc \in {"stopBootout", "lastBootout"}
  PROVE Kept'
<1>1. Told /\ Signalled' /\ ~launchd'.loaded /\ launchd'.plist = launchd.plist
  BY BootoutTold
<1>2. (cli.cmd = "stop") \in BOOLEAN
  OBVIOUS
<1>3. PICK stopped \in BOOLEAN : stopped = (cli.cmd = "stop")
  BY <1>2, Zenon
<1>4. past' = [past EXCEPT !.stopped = stopped]
  BY <1>3, Zenon DEF StopReturns
<1>5. past'.spoiled = past.spoiled /\ past'.acked = past.acked /\ past'.stopped = stopped
  BY <1>4 DEF LInv, TypesOK, PastType
<1>6. CASE End
  <2>1. ~past.spoiled => Intended
    BY DEF Kept, StepOK, AskedOK, Intended, Runs
  <2>. QED
    BY <1>1, <1>5, <1>6, <2>1, EndFacts, CommandEnds
<1>7. CASE ~End
  <2>1. cli.pc \in Stopping /\ cli.pc \notin {"classify", "commit"}
    BY DEF Stopping
  <2>2. /\ cli'.cmd = cli.cmd /\ cli'.reply = "none" /\ cli'.ran = cli.ran
        /\ cli'.pc \in {"wait", "commit"} /\ cli.cmd # "stop"
    BY <1>7, <2>1, StopReturnsFacts
  <2>3. ~past'.stopped /\ (~config.exists => ~launchd'.plist)
    BY <1>1, <1>3, <1>5, <2>2 DEF Kept, MadeOK
  <2>. QED
    BY <1>1, <1>5, <2>1, <2>2, <2>3, CommandSteps
<1>. QED
  BY <1>6, <1>7

LEMMA StopBootoutKept == ASSUME LInv, Kept, StopBootout PROVE Kept'
<1>1. cli.pc = "stopBootout" /\ UNCHANGED config /\ cli.cmd # "none"
  BY DEF StopBootout, CliAt, LInv, CommandOK
<1>2. CASE Bootout /\ StopReturns(cli.was, ~cli.was)
  BY <1>1, <1>2, ReturnsKept
<1>3. CASE Bootout /\ End /\ UNCHANGED past
  <2>1. Told /\ Signalled' /\ ~launchd'.loaded /\ launchd'.plist = launchd.plist
    BY <1>3, BootoutTold
  <2>. QED
    BY <1>1, <1>3, <2>1, EndFacts, CommandEnds
<1>4. CASE BootoutFails /\ Operational /\ UNCHANGED past
  BY <1>1, <1>4, JustOperational DEF BootoutFails, Stopping
<1>. QED
  BY <1>2, <1>3, <1>4 DEF StopBootout

LEMMA LastBootoutKept == ASSUME LInv, Kept, LastBootout PROVE Kept'
<1>1. cli.pc = "lastBootout" /\ UNCHANGED config /\ cli.cmd # "none"
  BY DEF LastBootout, CliAt, LInv, CommandOK
<1>2. ASSUME NEW confirmed, Bootout, StopReturns(TRUE, confirmed) PROVE Kept'
  BY <1>1, <1>2, ReturnsKept
<1>3. CASE UNCHANGED <<launchd, daemon, past>> /\ Operational
  BY <1>1, <1>3, JustOperational DEF Stopping
<1>4. CASE UNCHANGED <<launchd, daemon, past>> /\ End
  BY <1>1, <1>4, EndFacts, JustEnds
<1>. QED
  BY <1>2, <1>3, <1>4 DEF LastBootout

LEMMA ClassifyKept == ASSUME LInv, Kept, Classify PROVE Kept'
<1>1. /\ cli.pc = "classify" /\ UNCHANGED <<launchd, daemon, config>> /\ cli \in CommandType
      /\ cli.cmd = "upgrade" /\ cli.reply = "none"
  BY DEF Classify, CliAt, LInv, TypesOK, CommandOK, OnlyUpgrade
<1>2. CASE /\ cli' = [cli EXCEPT !.pc = "stop", !.ran = TRUE]
           /\ past' = [past EXCEPT !.stopped = FALSE]
  <2>1. past'.spoiled = past.spoiled /\ past'.acked = past.acked /\ ~past'.stopped
    BY <1>2 DEF LInv, TypesOK, PastType
  <2>2. cli'.pc = "stop" /\ cli'.cmd = cli.cmd /\ cli'.reply = "none"
    BY <1>1, <1>2 DEF CommandType
  <2>3. StepOK' /\ SnapOK' /\ AskedOK'
    BY <1>1, <2>2 DEF StepOK, SnapOK, AskedOK
  <2>4. /\ Told /\ launchd'.job = launchd.job
        /\ ~config.exists => ~launchd'.plist /\ ~launchd'.loaded
    BY <1>1, RestTold DEF Kept, MadeOK
  <2>. QED
    BY <1>1, <2>1, <2>3, <2>4, CommandGoes
<1>3. CASE Goto("commit") /\ UNCHANGED past
  <2>. "commit" \in CommandState
    BY DEF CommandState
  <2>. QED
    BY <1>1, <1>3, JustGoes
<1>4. CASE End /\ UNCHANGED past
  BY <1>1, <1>4, EndFacts, JustEnds
<1>. QED
  BY <1>2, <1>3, <1>4 DEF Classify

\* A step of the installation alone.
LEMMA RestKept == ASSUME Kept, UNCHANGED lifecycleVars PROVE Kept'
<1>1. UNCHANGED <<cli, launchd, daemon, config, past>>
  BY DEF lifecycleVars
<1>2. MadeOK' /\ StepOK' /\ TermOK'
  BY <1>1 DEF Kept, MadeOK, StepOK, TermOK, HoldsLock
<1>3. ~past.spoiled => HeldOK' /\ IntentOK' /\ SnapOK' /\ AskedOK'
  BY <1>1 DEF Kept, HeldOK, IntentOK, SnapOK, AskedOK, Runs, HoldsLock
<1>4. ~past.spoiled => StoppedOK'
  BY <1>1 DEF Kept, StoppedOK, Passive, Signalled, Intended
<1>. QED
  BY <1>1, <1>2, <1>3, <1>4 DEF Kept

LEMMA AfterCommitKept == ASSUME LInv, Kept, AfterCommit PROVE Kept'
<1>1. /\ cli.pc = "commit" /\ UNCHANGED <<launchd, daemon, config, past>> /\ cli \in CommandType
      /\ cli.cmd = "upgrade" /\ cli.reply = "none"
  BY DEF AfterCommit, CliAt, LInv, TypesOK, CommandOK, OnlyUpgrade
<1>2. CASE cli.ran
  <2>1. PICK failed : failed = (proc[cli.proc].outcome # "upgraded")
    OBVIOUS
  <2>2. cli' = [cli EXCEPT !.pc = "wait", !.failed = failed]
    BY <1>2, <2>1, Zenon DEF AfterCommit
  <2>3. cli'.pc = "wait" /\ cli'.cmd = cli.cmd /\ cli'.reply = cli.reply /\ cli'.ran = cli.ran
    BY <1>1, <2>2 DEF CommandType
  <2>4. /\ Told /\ launchd'.job = launchd.job
        /\ ~config.exists => ~launchd'.plist /\ ~launchd'.loaded
    BY <1>1, RestTold DEF Kept, MadeOK
  <2>. QED
    BY <1>1, <1>2, <2>3, <2>4, CommandSteps
<1>3. CASE ~cli.ran
  BY <1>1, <1>3, EndFacts, JustEnds DEF AfterCommit
<1>. QED
  BY <1>2, <1>3

LEMMA CommandStepKept == ASSUME LInv, Kept, CommandStep PROVE Kept'
<1>1. CASE Commit
  BY <1>1, RestKept DEF Commit
<1>. QED
  BY <1>1, StartKept, StartBootoutKept, WaitKept, LoadKept, ClearKept, InstallKept,
     BootstrapKept, SecondBootoutKept, PollRunningKept, UndoStartKept, StopProbeKept,
     PersistKept, StopBootoutKept, RequestKept, ReplyKept, LastBootoutKept,
     ClassifyKept, AfterCommitKept
  DEF CommandStep

-----------------------------------------------------------------------------
(* The session and the power.                                              *)

LEMMA InterruptKept == ASSUME LInv, Kept, Interrupt PROVE Kept'
BY JustEnds DEF Interrupt

LEMMA LoginKept == ASSUME LInv, Kept, Login PROVE Kept'
<1>1. UNCHANGED <<cli, daemon, config, past>> /\ launchd \in LaunchdType
  BY DEF Login, LInv, TypesOK
<1>2. (launchd.loaded \/ launchd.plist) \in BOOLEAN
  OBVIOUS
<1>3. PICK loaded \in BOOLEAN : loaded = (launchd.loaded \/ launchd.plist)
  BY <1>2, Zenon
<1>4. launchd' = [launchd EXCEPT !.session = TRUE, !.loaded = loaded, !.due = launchd.plist]
  BY <1>3, Zenon DEF Login
<1>5. /\ launchd'.plist = launchd.plist /\ launchd'.loaded = loaded
      /\ launchd'.job = launchd.job
  BY <1>1, <1>4 DEF LaunchdType
<1>6. ~config.exists => ~launchd'.plist /\ ~launchd'.loaded
  BY <1>3, <1>5 DEF Kept, MadeOK
<1>7. Told
  BY <1>1, RestTold
<1>8. StepOK' /\ (~past.spoiled => SnapOK' /\ AskedOK' /\ (past.stopped => Passive'))
  BY <1>1 DEF Kept, StepOK, SnapOK, AskedOK, StoppedOK, Passive, Runs
<1>9. ~past.spoiled /\ past'.stopped => Passive' /\ Signalled' /\ Intended'
  BY <1>1, <1>6, <1>7, <1>8, ToldKeeps DEF Kept, StoppedOK
<1>. QED
  BY <1>1, <1>5, <1>6, <1>7, <1>8, <1>9, CommandGoes

LEMMA LogoutKept == ASSUME LInv, Kept, Logout PROVE Kept'
<1>1. /\ launchd \in LaunchdType /\ cli' = NoCommand /\ UNCHANGED config
      /\ launchd' = [launchd EXCEPT !.session = FALSE, !.loaded = FALSE, !.due = FALSE,
                                    !.job = NoSlot]
      /\ past' = [past EXCEPT !.wanted = FALSE]
  BY DEF Logout, LInv, TypesOK
<1>2. ~launchd'.loaded /\ launchd'.plist = launchd.plist
  BY <1>1 DEF LaunchdType
<1>3. past'.spoiled = past.spoiled /\ past'.acked = past.acked /\ past'.stopped = past.stopped
  BY <1>1 DEF LInv, TypesOK, PastType
<1>4. Told /\ Signalled'
  BY JobTold DEF Logout
<1>. QED
  BY <1>1, <1>2, <1>3, <1>4, CommandEnds

\* Without power nothing runs; what the file lacks is lost.
LEMMA PowerFailsKept == ASSUME LInv, Kept, PowerFails PROVE Kept'
<1>1. /\ launchd \in LaunchdType /\ cli' = NoCommand /\ UNCHANGED config /\ past \in PastType
      /\ daemon' = [d \in Slot |-> NoDaemon]
  BY DEF PowerFails, LInv, TypesOK
<1>2. (platform = "linux") \in BOOLEAN /\ (past.spoiled \/ \E d \in Slot : Needed(d)) \in BOOLEAN
  OBVIOUS
<1>3. PICK session \in BOOLEAN, spoiled \in BOOLEAN :
        /\ session = (platform = "linux")
        /\ spoiled = (past.spoiled \/ \E d \in Slot : Needed(d))
  BY <1>2, Zenon
<1>4. /\ launchd' = [launchd EXCEPT !.session = session, !.loaded = FALSE, !.due = FALSE,
                                   !.job = NoSlot]
      /\ past' = [past EXCEPT !.spoiled = spoiled]
  BY <1>3, Zenon DEF PowerFails
<1>5. /\ ~launchd'.loaded /\ launchd'.plist = launchd.plist
      /\ past'.spoiled = spoiled /\ past'.acked = past.acked /\ past'.stopped = past.stopped
  BY <1>1, <1>4 DEF LaunchdType, PastType
<1>6. \A d \in Slot : daemon'[d].pc = "none"
  BY <1>1 DEF NoDaemon
<1>7. MadeOK' /\ TermOK'
  BY <1>1, <1>5, <1>6 DEF Kept, MadeOK, TermOK, HoldsLock
<1>8. StepOK' /\ SnapOK' /\ AskedOK' /\ Passive'
  BY <1>1, EndStands
<1>9. ASSUME ~spoiled PROVE HeldOK' /\ IntentOK' /\ StoppedOK'
  <2>1. ~past.spoiled /\ \A d \in Slot : ~Needed(d)
    BY <1>3, <1>9
  <2>2. HeldOK /\ StoppedOK
    BY <2>1 DEF Kept
  <2>3. config.remotes = past.acked
    BY <2>1, <2>2 DEF HeldOK, Runs, Needed, HoldsLock
  <2>4. past.stopped => config.stopping \/ ~config.exists
    BY <2>1, <2>2 DEF StoppedOK, Signalled, Intended, Needed, HoldsLock
  <2>5. HeldOK' /\ IntentOK'
    BY <1>1, <1>5, <1>6, <2>3 DEF HeldOK, IntentOK, HoldsLock
  <2>6. StoppedOK'
    BY <1>1, <1>5, <1>6, <1>8, <2>4 DEF StoppedOK, Signalled, Intended
  <2>. QED
    BY <2>5, <2>6
<1>. QED
  BY <1>5, <1>7, <1>8, <1>9 DEF Kept

-----------------------------------------------------------------------------
(* The daemon.                                                             *)

\* What a command keeps while a daemon answers it, or does not.
Listens ==
  /\ cli'.cmd = cli.cmd /\ cli'.pc = cli.pc /\ cli'.ran = cli.ran /\ cli'.snap = cli.snap
  /\ cli.pc = "lastBootout" => cli'.reply = cli.reply

\* The daemon that holds the lock, and the others.
LEMMA HolderFacts ==
  ASSUME LInv, NEW d \in Slot, HoldsLock(d), NEW new, Became(d, new)
  PROVE /\ daemon'[d] = new /\ \A e \in Slot \ {d} : daemon'[e] = daemon[e]
        /\ \A e \in Slot \ {d} : daemon[e].pc \in {"none", "starting"}
<1>1. daemon \in [Slot -> Daemon]
  BY DEF LInv, TypesOK
<1>. QED
  BY <1>1 DEF Became, LInv, OneDaemon, HoldsLock

\* What has no need of what was acknowledged.
LEMMA HolderStands ==
  ASSUME LInv, Kept, NEW d \in Slot, HoldsLock(d), NEW new, Became(d, new),
         new.pc \notin {"none", "starting"}, new.memory.exists,
         UNCHANGED launchd, Listens, config.exists => config'.exists,
         new.pc \in {"bound", "running"} => new.term \/ launchd.job = d
  PROVE MadeOK' /\ StepOK' /\ TermOK'
<1>1. /\ daemon'[d] = new /\ \A e \in Slot \ {d} : daemon'[e] = daemon[e]
      /\ \A e \in Slot \ {d} : daemon[e].pc \in {"none", "starting"}
  BY HolderFacts
<1>2. config.exists
  BY DEF Kept, MadeOK, HoldsLock
<1>3. MadeOK'
  BY <1>1, <1>2 DEF MadeOK, HoldsLock
<1>4. StepOK'
  BY <1>2 DEF Kept, StepOK, Listens
<1>5. TermOK'
  BY <1>1 DEF TermOK
<1>. QED
  BY <1>3, <1>4, <1>5

\* A daemon that writes, and runs or writes its intent to stop.
LEMMA HolderWrites ==
  ASSUME LInv, Kept, NEW d \in Slot, HoldsLock(d), NEW new, Became(d, new),
         new.pc \in {"running", "stopping", "exiting"}, new.memory.exists,
         UNCHANGED launchd, Listens, config.exists => config'.exists,
         new.pc = "running" => new.term \/ launchd.job = d,
         past'.stopped = past.stopped,
         ~past'.spoiled =>
           /\ ~past.spoiled
           /\ new.memory.remotes = past'.acked
           /\ \/ new.pc = "running"
              \/ config'.stopping /\ config'.remotes = past'.acked
           /\ new.pc = "stopping" => new.memory.stopping
           /\ new.pc = "running" =>
                daemon[d].pc \in {"bound", "running"} /\ new.term = daemon[d].term
  PROVE Kept'
<1>1. /\ daemon'[d] = new /\ \A e \in Slot \ {d} : daemon'[e] = daemon[e]
      /\ \A e \in Slot \ {d} : daemon[e].pc \in {"none", "starting"}
  BY HolderFacts
<1>2. MadeOK' /\ StepOK' /\ TermOK'
  BY HolderStands
<1>3. ASSUME ~past'.spoiled
      PROVE HeldOK' /\ IntentOK' /\ SnapOK' /\ AskedOK' /\ StoppedOK'
  <2>1. /\ ~past.spoiled
        /\ new.memory.remotes = past'.acked
        /\ \/ new.pc = "running"
           \/ config'.stopping /\ config'.remotes = past'.acked
        /\ new.pc = "stopping" => new.memory.stopping
        /\ new.pc = "running" =>
             daemon[d].pc \in {"bound", "running"} /\ new.term = daemon[d].term
    BY <1>3
  <2>2. Runs' <=> new.pc = "running"
    BY <1>1 DEF Runs
  <2>3. HeldOK'
    BY <1>1, <2>1, <2>2 DEF HeldOK, HoldsLock
  <2>4. IntentOK'
    BY <1>1, <2>1 DEF IntentOK
  <2>5. SnapOK' /\ AskedOK'
    BY <1>1, <2>1, <2>2 DEF SnapOK, AskedOK
  <2>6. StoppedOK'
    <3>1. SUFFICES ASSUME past.stopped PROVE Passive' /\ Signalled' /\ Intended'
      BY DEF StoppedOK
    <3>2. Passive /\ Signalled
      BY <2>1, <3>1 DEF Kept, StoppedOK
    <3>3. Passive'
      BY <3>2 DEF Passive, Listens
    <3>4. Signalled'
      BY <1>1, <2>1, <3>2 DEF Signalled
    <3>5. Intended'
      BY <1>1, <2>1 DEF Intended
    <3>. QED
      BY <3>3, <3>4, <3>5
  <2>. QED
    BY <2>3, <2>4, <2>5, <2>6
<1>. QED
  BY <1>2, <1>3 DEF Kept

\* A daemon that writes nothing, and runs neither before nor after.
LEMMA HolderRests ==
  ASSUME LInv, Kept, NEW d \in Slot, HoldsLock(d), NEW new, Became(d, new),
         \/ daemon[d].pc = "loaded" /\ new.pc = "bound"
         \/ daemon[d].pc = "stopping" /\ new.pc \in {"stopping", "exiting"},
         new.memory = daemon[d].memory, new.term = daemon[d].term,
         UNCHANGED <<launchd, config, past>>, Listens,
         cli'.reply \in {cli.reply, "error"} \/ cli.reply = "taken"
  PROVE Kept'
<1>1. /\ daemon'[d] = new /\ \A e \in Slot \ {d} : daemon'[e] = daemon[e]
      /\ \A e \in Slot \ {d} : daemon[e].pc \in {"none", "starting"}
  BY HolderFacts
<1>2. MadeOK' /\ StepOK' /\ TermOK'
  <2>1. new.memory.exists
    BY DEF Kept, MadeOK
  <2>2. new.pc = "bound" => launchd.job = d
    BY DEF LInv, JobOK
  <2>. QED
    BY <2>1, <2>2, HolderStands
<1>3. ASSUME ~past.spoiled
      PROVE HeldOK' /\ IntentOK' /\ SnapOK' /\ AskedOK' /\ StoppedOK'
  <2>1. ~Runs /\ ~Runs'
    BY <1>1 DEF Runs
  <2>2. HeldOK'
    BY <1>1, <1>3, <2>1 DEF Kept, HeldOK, HoldsLock
  <2>3. IntentOK'
    BY <1>1, <1>3 DEF Kept, IntentOK
  <2>4. SnapOK'
    BY <1>1, <1>3, <2>1 DEF Kept, SnapOK, Listens
  <2>5. AskedOK'
    BY <1>3, <2>1 DEF Kept, AskedOK, Listens
  <2>6. StoppedOK'
    <3>1. SUFFICES ASSUME past.stopped PROVE Passive' /\ Signalled' /\ Intended'
      BY DEF StoppedOK
    <3>2. Passive /\ Signalled /\ Intended
      BY <1>3, <3>1 DEF Kept, StoppedOK
    <3>3. Passive'
      BY <3>2 DEF Passive, Listens
    <3>4. Signalled'
      BY <1>1, <3>2 DEF Signalled
    <3>5. Intended'
      BY <1>1, <3>2 DEF Intended
    <3>. QED
      BY <3>3, <3>4, <3>5
  <2>. QED
    BY <2>2, <2>3, <2>4, <2>5, <2>6
<1>. QED
  BY <1>2, <1>3 DEF Kept

LEMMA StillListens == ASSUME UNCHANGED cli PROVE Listens
BY DEF Listens

LEMMA BindKept == ASSUME LInv, Kept, NEW d \in Slot, Bind(d) PROVE Kept'
<1>1. /\ daemon[d].pc = "loaded" /\ UNCHANGED <<cli, launchd, config, past>> /\ HoldsLock(d)
      /\ daemon[d] \in Daemon
  BY DEF Bind, HoldsLock, LInv, TypesOK
<1>2. PICK new : new = [daemon[d] EXCEPT !.pc = "bound"]
  OBVIOUS
<1>3. new.pc = "bound" /\ new.memory = daemon[d].memory /\ new.term = daemon[d].term
  BY <1>1, <1>2 DEF Daemon
<1>4. Became(d, new)
  BY <1>2 DEF Bind, DaemonGoes
<1>. QED
  BY <1>1, <1>3, <1>4, StillListens, HolderRests

\* An answer changes nothing else of the command.
LEMMA AnswerListens ==
  ASSUME LInv, Kept, NEW reply,
         \/ UNCHANGED cli
         \/ cli' = [cli EXCEPT !.reply = reply] /\ cli.reply \in {"sent", "taken"}
  PROVE Listens /\ cli'.reply \in {cli.reply, reply}
<1>1. cli \in CommandType
  BY DEF LInv, TypesOK
<1>2. CASE cli' = [cli EXCEPT !.reply = reply] /\ cli.reply \in {"sent", "taken"}
  <2>1. /\ cli'.cmd = cli.cmd /\ cli'.pc = cli.pc /\ cli'.ran = cli.ran /\ cli'.snap = cli.snap
        /\ cli'.reply = reply
    BY <1>1, <1>2 DEF CommandType
  <2>. QED
    BY <1>2, <2>1 DEF Listens, Kept, StepOK
<1>. QED
  BY <1>2, StillListens

\* What a daemon leaves when it is gone.
LEMMA EndsLeaves ==
  ASSUME LInv, Kept, NEW d \in Slot, NEW success \in BOOLEAN, Ends(d, success)
  PROVE /\ daemon'[d].pc = "none" /\ \A e \in Slot \ {d} : daemon'[e] = daemon[e]
        /\ launchd'.plist = launchd.plist /\ launchd'.loaded = launchd.loaded
        /\ launchd'.job = IF launchd.job = d THEN NoSlot ELSE launchd.job
        /\ Listens /\ cli'.reply \in {cli.reply, "error"}
<1>1. launchd \in LaunchdType /\ daemon \in [Slot -> Daemon]
  BY DEF LInv, TypesOK
<1>2. daemon'[d].pc = "none" /\ \A e \in Slot \ {d} : daemon'[e] = daemon[e]
  BY <1>1 DEF Ends, Became, NoDaemon
<1>3. /\ launchd'.plist = launchd.plist /\ launchd'.loaded = launchd.loaded
      /\ launchd'.job = IF launchd.job = d THEN NoSlot ELSE launchd.job
  <2>1. CASE launchd.job = d
    <3>1. PICK due \in BOOLEAN : due = ~success
      OBVIOUS
    <3>2. launchd' = [launchd EXCEPT !.job = NoSlot, !.due = due]
      BY <2>1, <3>1 DEF Ends
    <3>. QED
      BY <1>1, <2>1, <3>2 DEF LaunchdType
  <2>2. CASE launchd.job # d
    BY <2>2 DEF Ends
  <2>. QED
    BY <2>1, <2>2
<1>4. Listens /\ cli'.reply \in {cli.reply, "error"}
  BY AnswerListens DEF Ends
<1>. QED
  BY <1>2, <1>3, <1>4

\* A daemon is gone, and nobody needed it, or the file is spoiled.
LEMMA EndsKept ==
  ASSUME LInv, Kept, NEW d \in Slot, NEW success \in BOOLEAN, Ends(d, success),
         config.exists => config'.exists,
         past'.acked = past.acked, past'.stopped = past.stopped,
         ~past'.spoiled =>
           /\ ~past.spoiled /\ UNCHANGED config
           /\ ~Needed(d) \/ daemon[d].pc \in {"none", "starting", "exiting"}
  PROVE Kept'
<1>1. /\ daemon'[d].pc = "none" /\ \A e \in Slot \ {d} : daemon'[e] = daemon[e]
      /\ launchd'.plist = launchd.plist /\ launchd'.loaded = launchd.loaded
      /\ launchd'.job = IF launchd.job = d THEN NoSlot ELSE launchd.job
      /\ Listens /\ cli'.reply \in {cli.reply, "error"}
  BY EndsLeaves
<1>2. MadeOK'
  BY <1>1 DEF Kept, MadeOK, HoldsLock
<1>3. StepOK'
  BY <1>1 DEF Kept, StepOK, Listens
<1>4. TermOK'
  BY <1>1 DEF Kept, TermOK
<1>5. ASSUME ~past'.spoiled
      PROVE HeldOK' /\ IntentOK' /\ SnapOK' /\ AskedOK' /\ StoppedOK'
  <2>1. ~past.spoiled /\ UNCHANGED config
    BY <1>5
  <2>2. HeldOK /\ IntentOK /\ SnapOK /\ AskedOK /\ StoppedOK
    BY <2>1 DEF Kept
  <2>3. IntentOK'
    BY <1>1, <2>2 DEF IntentOK
  <2>4. CASE daemon[d].pc \in {"none", "starting", "exiting"}
    <3>1. Runs' <=> Runs
      BY <1>1, <2>4 DEF Runs
    <3>2. HeldOK'
      BY <1>1, <2>1, <2>2, <3>1 DEF HeldOK, HoldsLock
    <3>3. SnapOK' /\ AskedOK'
      BY <1>1, <2>1, <2>2, <3>1 DEF SnapOK, AskedOK, Listens
    <3>4. StoppedOK'
      <4>1. SUFFICES ASSUME past.stopped PROVE Passive' /\ Signalled' /\ Intended'
        BY DEF StoppedOK
      <4>2. Passive /\ Signalled /\ Intended
        BY <2>2, <4>1 DEF StoppedOK
      <4>3. Passive'
        BY <1>1, <4>2 DEF Passive, Listens
      <4>4. Signalled' /\ Intended'
        BY <1>1, <2>1, <2>4, <4>2 DEF Signalled, Intended
      <4>. QED
        BY <4>3, <4>4
    <3>. QED
      BY <2>3, <3>2, <3>3, <3>4
  <2>5. CASE ~Needed(d) /\ HoldsLock(d)
    <3>1. /\ config.remotes = daemon[d].memory.remotes
          /\ config.stopping \/ (~daemon[d].term /\ cli.cmd = "none")
      BY <2>5 DEF Needed
    <3>2. \A e \in Slot \ {d} : daemon[e].pc \in {"none", "starting"}
      BY <2>5 DEF LInv, OneDaemon, HoldsLock
    <3>3. HeldOK'
      BY <1>1, <2>1, <2>2, <2>5, <3>1 DEF HeldOK, HoldsLock
    <3>4. SnapOK' /\ AskedOK'
      <4>1. cli.cmd # "none" => config.stopping
        BY <3>1
      <4>2. cli.cmd = "none" => cli.pc = "idle" /\ cli.reply = "none"
        BY DEF LInv, CommandOK
      <4>3. SnapOK'
        BY <1>1, <2>1, <3>2, <4>1, <4>2 DEF SnapOK, Listens
      <4>4. AskedOK'
        BY <1>1, <2>1, <4>1, <4>2 DEF AskedOK, Listens
      <4>. QED
        BY <4>3, <4>4
    <3>5. StoppedOK'
      <4>1. SUFFICES ASSUME past.stopped PROVE Passive' /\ Signalled' /\ Intended'
        BY DEF StoppedOK
      <4>2. Passive /\ Signalled /\ Intended
        BY <2>2, <4>1 DEF StoppedOK
      <4>3. Passive'
        BY <1>1, <4>2 DEF Passive, Listens
      <4>4. Signalled' /\ Intended'
        BY <1>1, <2>1, <3>1, <3>2, <4>2 DEF Signalled, Intended
      <4>. QED
        BY <4>3, <4>4
    <3>. QED
      BY <2>3, <3>3, <3>4, <3>5
  <2>. QED
    BY <1>5, <2>4, <2>5 DEF HoldsLock
<1>. QED
  BY <1>2, <1>3, <1>4, <1>5 DEF Kept

\* What a save of the daemon leaves.
LEMMA SaveLeaves ==
  ASSUME LInv, NEW new, NEW outcome, Save(new, outcome)
  PROVE /\ past'.acked = past.acked /\ past'.stopped = past.stopped
        /\ config' \in {config, new}
        /\ ~past'.spoiled => ~past.spoiled /\ outcome = "ok"
        /\ outcome = "ok" => config' = new /\ past' = past
<1>1. past \in PastType
  BY DEF LInv, TypesOK
<1>2. /\ config' = IF outcome = "before" THEN config ELSE new
      /\ past' = IF outcome = "ok" THEN past ELSE Faulty
  BY DEF Save
<1>3. Faulty.acked = past.acked /\ Faulty.stopped = past.stopped /\ Faulty.spoiled
  BY <1>1 DEF Faulty, PastType
<1>. QED
  BY <1>2, <1>3

LEMMA ReconcileKept == ASSUME LInv, Kept, NEW d \in Slot, Reconcile(d) PROVE Kept'
<1>1. /\ daemon[d].pc = "bound" /\ HoldsLock(d) /\ daemon[d] \in Daemon
      /\ daemon[d].memory.exists
  BY DEF Reconcile, HoldsLock, LInv, TypesOK, Kept, MadeOK
<1>2. PICK outcome \in SaveOutcome :
        /\ config' = IF outcome = "before" THEN config ELSE daemon[d].memory
        /\ IF outcome = "ok" THEN DaemonGoes(d, "running") /\ UNCHANGED <<launchd, cli, past>>
           ELSE StartErrs(d, Faulty)
  BY DEF Reconcile
<1>3. CASE outcome # "ok"
  <2>1. StartErrs(d, Faulty) /\ (config.exists => config'.exists)
    BY <1>1, <1>2, <1>3
  <2>. QED
    BY <2>1, FaultyFacts, StartErrsFacts, EndsKept
<1>4. CASE outcome = "ok"
  <2>1. PICK new : new = [daemon[d] EXCEPT !.pc = "running"]
    OBVIOUS
  <2>2. new.pc = "running" /\ new.memory = daemon[d].memory /\ new.term = daemon[d].term
    BY <1>1, <2>1 DEF Daemon
  <2>3. Became(d, new) /\ UNCHANGED <<launchd, cli>>
    BY <1>2, <1>4, <2>1 DEF DaemonGoes
  <2>4. new.term \/ launchd.job = d
    BY <1>1, <2>2 DEF Kept, TermOK
  <2>5. ~past.spoiled => new.memory.remotes = past.acked
    BY <1>1, <2>2 DEF Kept, HeldOK
  <2>6. /\ past' = past /\ config' = daemon[d].memory
        /\ Listens /\ (config.exists => config'.exists)
    BY <1>1, <1>2, <1>4, <2>3, StillListens
  <2>. QED
    BY <1>1, <2>2, <2>3, <2>4, <2>5, <2>6, HolderWrites
<1>. QED
  BY <1>3, <1>4

LEMMA ChangeKept == ASSUME LInv, Kept, NEW d \in Slot, Change(d) PROVE Kept'
<1>1. /\ daemon[d].pc = "running" /\ HoldsLock(d) /\ daemon[d] \in Daemon /\ past \in PastType
      /\ daemon[d].memory.exists /\ daemon[d].memory \in Contents
      /\ UNCHANGED <<cli, launchd>>
  BY DEF Change, HoldsLock, LInv, TypesOK, Kept, MadeOK, Daemon
<1>2. past.changes \in Nat /\ past.faults \in Nat
  BY <1>1 DEF PastType
<1>3. past.changes + 1 \in Nat /\ past.faults + 1 \in Nat
  BY <1>2, Successor
<1>4. PICK changes \in Nat, faults \in Nat :
        changes = past.changes + 1 /\ faults = past.faults + 1
  BY <1>3, Zenon
<1>5. PICK memory : memory = [daemon[d].memory EXCEPT !.remotes = changes]
  OBVIOUS
<1>6. memory.remotes = changes /\ memory.exists
  BY <1>1, <1>5 DEF Contents
<1>7. PICK counted : counted = [past EXCEPT !.changes = changes]
  OBVIOUS
<1>8. /\ counted \in PastType /\ counted.changes = changes /\ counted.faults = past.faults
      /\ counted.acked = past.acked /\ counted.spoiled = past.spoiled
      /\ counted.stopped = past.stopped
  BY <1>1, <1>7 DEF PastType
<1>9. PICK outcome :
        /\ config' = IF outcome = "before" THEN config ELSE memory
        /\ past' = IF outcome = "ok" THEN [counted EXCEPT !.acked = counted.changes]
                   ELSE [counted EXCEPT !.faults = @ + 1, !.spoiled = TRUE]
        /\ Became(d, [daemon[d] EXCEPT !.memory = IF outcome = "before" THEN @ ELSE memory])
  BY <1>4, <1>5, <1>7, Zenon DEF Change
<1>10. PICK kept : kept = IF outcome = "before" THEN daemon[d].memory ELSE memory
  OBVIOUS
<1>11. PICK new : new = [daemon[d] EXCEPT !.memory = kept]
  OBVIOUS
<1>12. new.pc = "running" /\ new.memory = kept /\ new.term = daemon[d].term
  BY <1>1, <1>11 DEF Daemon
<1>13. Became(d, new)
  BY <1>9, <1>10, <1>11, Zenon
<1>14. /\ past'.stopped = past.stopped
       /\ ~past'.spoiled => ~past.spoiled /\ outcome = "ok" /\ past'.acked = changes
  <2>1. PICK good : good = [counted EXCEPT !.acked = changes]
    OBVIOUS
  <2>2. PICK bad : bad = [counted EXCEPT !.faults = faults, !.spoiled = TRUE]
    OBVIOUS
  <2>3. /\ good.acked = changes /\ good.spoiled = past.spoiled /\ good.stopped = past.stopped
        /\ bad.spoiled /\ bad.stopped = past.stopped
    BY <1>8, <2>1, <2>2 DEF PastType
  <2>4. past' = IF outcome = "ok" THEN good ELSE bad
    BY <1>4, <1>8, <1>9, <2>1, <2>2, Zenon
  <2>. QED
    BY <2>3, <2>4
<1>15. new.term \/ launchd.job = d
  BY <1>1, <1>12 DEF Kept, TermOK
<1>16. new.memory.exists /\ Listens /\ (config.exists => config'.exists)
  BY <1>1, <1>6, <1>9, <1>10, <1>12, StillListens
<1>17. ~past'.spoiled => new.memory.remotes = past'.acked
  BY <1>6, <1>10, <1>12, <1>14
<1>. QED
  BY <1>1, <1>12, <1>13, <1>14, <1>15, <1>16, <1>17, HolderWrites

\* A daemon begins to stop, answering or not.
LEMMA BeginShutdownKept ==
  ASSUME LInv, Kept, NEW d \in Slot, daemon[d].pc = "running", NEW saved,
         NEW workers \in BOOLEAN, BeginShutdown(d, saved, workers), Listens
  PROVE Kept'
<1>1. /\ HoldsLock(d) /\ daemon[d] \in Daemon /\ daemon[d].memory.exists
      /\ daemon[d].memory \in Contents /\ UNCHANGED launchd
  BY DEF BeginShutdown, HoldsLock, LInv, TypesOK, Kept, MadeOK, Daemon
<1>2. PICK written : written = [daemon[d].memory EXCEPT !.stopping = TRUE]
  OBVIOUS
<1>3. written.stopping /\ written.exists /\ written.remotes = daemon[d].memory.remotes
  BY <1>1, <1>2 DEF Contents
<1>4. Save(written, saved)
  BY <1>2 DEF BeginShutdown, IntentSave
<1>5. /\ past'.acked = past.acked /\ past'.stopped = past.stopped
      /\ config' \in {config, written}
      /\ ~past'.spoiled => ~past.spoiled /\ saved = "ok"
      /\ saved = "ok" => config' = written
  BY <1>4, SaveLeaves
<1>6. (saved # "before") \in BOOLEAN
  OBVIOUS
<1>7. PICK stopping \in BOOLEAN : stopping = (saved # "before")
  BY <1>6, Zenon
<1>8. PICK pc : pc = IF workers THEN "stopping" ELSE "exiting"
  OBVIOUS
<1>9. PICK memory : memory = [daemon[d].memory EXCEPT !.stopping = stopping]
  OBVIOUS
<1>10. /\ memory.exists /\ memory.remotes = daemon[d].memory.remotes
       /\ memory.stopping = stopping
  BY <1>1, <1>9 DEF Contents
<1>11. PICK new : new = [daemon[d] EXCEPT !.pc = pc, !.memory = memory]
  OBVIOUS
<1>12. new.pc = pc /\ new.memory = memory
  BY <1>1, <1>11 DEF Daemon
<1>13. Became(d, new)
  BY <1>1, <1>7, <1>8, <1>9, <1>11 DEF BeginShutdown, Daemon
<1>14. ~past.spoiled => daemon[d].memory.remotes = past.acked
  BY <1>1 DEF Kept, HeldOK
<1>15. saved = "ok" => stopping
  BY <1>7
<1>16. new.pc \in {"stopping", "exiting"}
  BY <1>8, <1>12
<1>17. new.memory.exists /\ (config.exists => config'.exists)
  BY <1>3, <1>5, <1>10, <1>12
<1>18. ~past'.spoiled =>
         /\ ~past.spoiled /\ new.memory.remotes = past'.acked
         /\ config'.stopping /\ config'.remotes = past'.acked
         /\ new.memory.stopping
  BY <1>3, <1>5, <1>10, <1>12, <1>14, <1>15
<1>. QED
  BY <1>1, <1>5, <1>13, <1>16, <1>17, <1>18, HolderWrites

LEMMA SignalSeenKept == ASSUME LInv, Kept, NEW d \in Slot, SignalSeen(d) PROVE Kept'
BY StillListens, BeginShutdownKept DEF SignalSeen

LEMMA ShutdownRequestedKept ==
  ASSUME LInv, Kept, NEW d \in Slot, ShutdownRequested(d) PROVE Kept'
<1>1. daemon[d].pc = "running" /\ cli.reply = "sent"
  BY DEF ShutdownRequested
<1>2. PICK saved \in SaveOutcome, workers \in BOOLEAN :
        /\ BeginShutdown(d, saved, workers)
        /\ cli' = [cli EXCEPT !.reply = IF saved # "ok" THEN "error"
                                       ELSE IF workers THEN "taken" ELSE "confirmed"]
  BY DEF ShutdownRequested
<1>3. Listens
  BY <1>1, <1>2, AnswerListens
<1>. QED
  BY <1>1, <1>2, <1>3, BeginShutdownKept

\* A stopping daemon refuses, is late, or is done.
LEMMA StoppingKept ==
  ASSUME LInv, Kept, NEW d \in Slot,
         ShutdownRefused(d) \/ ShutdownExpires(d) \/ WorkersStopped(d)
  PROVE Kept'
<1>1. /\ daemon[d].pc = "stopping" /\ HoldsLock(d) /\ daemon[d] \in Daemon
      /\ UNCHANGED <<launchd, config, past>> /\ daemon \in [Slot -> Daemon]
  BY DEF ShutdownRefused, ShutdownExpires, WorkersStopped, HoldsLock, LInv, TypesOK
<1>2. PICK new : /\ Became(d, new) /\ new.pc \in {"stopping", "exiting"}
                 /\ new.memory = daemon[d].memory /\ new.term = daemon[d].term
  <2>1. CASE UNCHANGED daemon
    <3>1. Became(d, daemon[d])
      BY <1>1, <2>1 DEF Became
    <3>. QED
      BY <1>1, <3>1
  <2>2. CASE WorkersStopped(d)
    <3>1. PICK new : new = [daemon[d] EXCEPT !.pc = "exiting"]
      OBVIOUS
    <3>2. new.pc = "exiting" /\ new.memory = daemon[d].memory /\ new.term = daemon[d].term
      BY <1>1, <3>1 DEF Daemon
    <3>3. Became(d, new)
      BY <2>2, <3>1 DEF WorkersStopped, DaemonGoes
    <3>. QED
      BY <3>2, <3>3
  <2>. QED
    BY <2>1, <2>2 DEF ShutdownRefused, ShutdownExpires
<1>3. Listens /\ (cli'.reply \in {cli.reply, "error"} \/ cli.reply = "taken")
  <2>1. ASSUME NEW reply, cli' = Answer(reply)
        PROVE Listens /\ (cli'.reply = cli.reply \/ cli.reply = "taken")
    <3>1. UNCHANGED cli \/ (cli' = [cli EXCEPT !.reply = reply] /\ cli.reply = "taken")
      BY <2>1 DEF Answer
    <3>2. Listens
      BY <3>1, AnswerListens
    <3>. QED
      BY <3>1, <3>2
  <2>2. CASE ShutdownRefused(d)
    BY <2>2, AnswerListens DEF ShutdownRefused
  <2>3. CASE ShutdownExpires(d) \/ WorkersStopped(d)
    BY <2>1, <2>3 DEF ShutdownExpires, WorkersStopped
  <2>. QED
    BY <2>2, <2>3
<1>. QED
  BY <1>1, <1>2, <1>3, HolderRests

LEMMA WorkerEventKept == ASSUME LInv, Kept, NEW d \in Slot, WorkerEventSaved(d) PROVE Kept'
<1>1. /\ daemon[d].pc \in {"running", "stopping"} /\ HoldsLock(d)
      /\ daemon \in [Slot -> Daemon] /\ daemon[d].memory.exists
      /\ UNCHANGED <<cli, launchd, daemon>>
  BY DEF WorkerEventSaved, HoldsLock, LInv, TypesOK, Kept, MadeOK
<1>2. PICK outcome : Save(daemon[d].memory, outcome)
  BY DEF WorkerEventSaved
<1>3. /\ past'.acked = past.acked /\ past'.stopped = past.stopped
      /\ config' \in {config, daemon[d].memory}
      /\ ~past'.spoiled => ~past.spoiled /\ outcome = "ok"
      /\ outcome = "ok" => config' = daemon[d].memory
  BY <1>2, SaveLeaves
<1>4. Became(d, daemon[d]) /\ Listens
  BY <1>1, StillListens DEF Became
<1>5. ~past.spoiled => /\ daemon[d].memory.remotes = past.acked
                       /\ daemon[d].pc = "stopping" => daemon[d].memory.stopping
  BY <1>1 DEF Kept, HeldOK, IntentOK
<1>6. /\ daemon[d].pc = "running" => daemon[d].term \/ launchd.job = d
      /\ config.exists => config'.exists
  BY <1>1, <1>3 DEF Kept, TermOK
<1>. QED
  BY <1>1, <1>3, <1>4, <1>5, <1>6, HolderWrites

LEMMA ListenerFailsKept == ASSUME LInv, Kept, NEW d \in Slot, ListenerFails(d) PROVE Kept'
<1>1. /\ daemon[d].pc = "running" /\ HoldsLock(d) /\ daemon[d] \in Daemon
      /\ daemon[d].memory.exists /\ past \in PastType
      /\ UNCHANGED <<cli, launchd, config>>
  BY DEF ListenerFails, HoldsLock, LInv, TypesOK, Kept, MadeOK
<1>2. PICK new : new = [daemon[d] EXCEPT !.pc = "stopping"]
  OBVIOUS
<1>3. new.pc = "stopping" /\ new.memory = daemon[d].memory
  BY <1>1, <1>2 DEF Daemon
<1>4. Became(d, new) /\ Listens
  BY <1>1, <1>2, StillListens DEF ListenerFails, DaemonGoes
<1>5. past'.spoiled /\ past'.stopped = past.stopped
  BY <1>1 DEF ListenerFails, Faulty, PastType
<1>. QED
  BY <1>1, <1>3, <1>4, <1>5, HolderWrites

LEMMA ExitKept ==
  ASSUME LInv, Kept, NEW d \in Slot, Exit(d) \/ StartFails(d) \/ DaemonKilled(d)
  PROVE Kept'
<1>1. UNCHANGED config
  BY DEF Exit, StartFails, DaemonKilled
<1>2. CASE Exit(d)
  BY <1>1, <1>2, EndsKept DEF Exit
<1>3. CASE StartFails(d) \/ DaemonKilled(d)
  <2>1. /\ past'.acked = Bereft(d).acked /\ past'.stopped = Bereft(d).stopped
        /\ past'.spoiled = Bereft(d).spoiled
        /\ \E success \in BOOLEAN : Ends(d, success)
    BY <1>3, BereftFacts, StartErrsFacts DEF StartFails, DaemonKilled
  <2>. QED
    BY <1>1, <2>1, BereftFacts, EndsKept
<1>. QED
  BY <1>2, <1>3

\* launchd spawns a daemon: it was given one to spawn.
LEMMA SpawnKept == ASSUME LInv, Kept, NEW d \in Slot, Spawn(d) PROVE Kept'
<1>1. /\ launchd.loaded /\ launchd.job = NoSlot /\ daemon[d].pc = "none"
      /\ launchd' = [launchd EXCEPT !.due = FALSE, !.job = d]
      /\ launchd \in LaunchdType /\ daemon \in [Slot -> Daemon]
      /\ UNCHANGED <<cli, config, past>>
  BY DEF Spawn, LInv, TypesOK
<1>2. launchd'.plist = launchd.plist /\ launchd'.loaded /\ launchd'.job = d
  BY <1>1 DEF LaunchdType
<1>3. PICK new : new = [NoDaemon EXCEPT !.pc = "starting", !.version = target.version]
  OBVIOUS
<1>4. new.pc = "starting"
  BY <1>3 DEF NoDaemon
<1>5. daemon'[d].pc = "starting" /\ \A e \in Slot \ {d} : daemon'[e] = daemon[e]
  <2>1. daemon' = [daemon EXCEPT ![d] = new]
    BY <1>3 DEF Spawn, Became
  <2>. QED
    BY <1>1, <1>4, <2>1
<1>6. MadeOK' /\ StepOK'
  BY <1>1, <1>2, <1>5 DEF Kept, MadeOK, StepOK, HoldsLock
<1>7. TermOK'
  BY <1>1, <1>5, LifecycleAssumption DEF Kept, TermOK
<1>8. ASSUME ~past.spoiled
      PROVE HeldOK' /\ IntentOK' /\ SnapOK' /\ AskedOK' /\ StoppedOK'
  <2>1. HeldOK /\ IntentOK /\ SnapOK /\ AskedOK /\ StoppedOK
    BY <1>8 DEF Kept
  <2>2. Runs' <=> Runs
    BY <1>1, <1>5 DEF Runs
  <2>3. HeldOK' /\ IntentOK'
    BY <1>1, <1>5, <2>1, <2>2 DEF HeldOK, IntentOK, HoldsLock
  <2>4. SnapOK' /\ AskedOK'
    BY <1>1, <1>5, <2>1, <2>2 DEF SnapOK, AskedOK
  <2>5. StoppedOK'
    <3>1. SUFFICES ASSUME past.stopped PROVE Passive' /\ Signalled' /\ Intended'
      BY <1>1 DEF StoppedOK
    <3>2. Passive /\ Signalled /\ Intended
      BY <2>1, <3>1 DEF StoppedOK
    <3>3. Passive'
      BY <1>1, <3>2 DEF Passive
    <3>4. Signalled' /\ Intended'
      BY <1>1, <1>5, <3>2 DEF Signalled, Intended
    <3>. QED
      BY <3>3, <3>4
  <2>. QED
    BY <2>3, <2>4, <2>5
<1>. QED
  BY <1>1, <1>6, <1>7, <1>8 DEF Kept

\* A daemon that takes the lock finds what was acknowledged, and no intent to stop.
LEMMA OpenKept == ASSUME LInv, Kept, NEW d \in Slot, Open(d) PROVE Kept'
<1>1. /\ daemon[d].pc = "starting" /\ UNCHANGED <<config, past>> /\ config \in Contents
      /\ daemon \in [Slot -> Daemon] /\ daemon[d] \in Daemon
  BY DEF Open, LInv, TypesOK
<1>2. CASE Ends(d, TRUE)
  BY <1>1, <1>2, EndsKept
<1>3. CASE /\ LockFree /\ ~config.stopping
           /\ Became(d, [daemon[d] EXCEPT !.pc = "loaded",
                                          !.memory = [config EXCEPT !.exists = TRUE]])
           /\ UNCHANGED <<launchd, cli>>
  <2>1. PICK memory : memory = [config EXCEPT !.exists = TRUE]
    OBVIOUS
  <2>2. memory.exists /\ memory.remotes = config.remotes
    BY <1>1, <2>1 DEF Contents
  <2>3. PICK new : new = [daemon[d] EXCEPT !.pc = "loaded", !.memory = memory]
    OBVIOUS
  <2>4. new.pc = "loaded" /\ new.memory = memory
    BY <1>1, <2>3 DEF Daemon
  <2>5. Became(d, new)
    BY <1>3, <2>1, <2>3
  <2>6. daemon'[d] = new /\ \A e \in Slot \ {d} : daemon'[e] = daemon[e]
    BY <1>1, <2>5 DEF Became
  <2>7. \A e \in Slot : daemon[e].pc \in {"none", "starting"}
    BY <1>3 DEF LockFree, HoldsLock
  <2>8. MadeOK' /\ StepOK' /\ TermOK'
    BY <1>1, <1>3, <2>2, <2>4, <2>6 DEF Kept, MadeOK, StepOK, TermOK, HoldsLock
  <2>9. ASSUME ~past.spoiled
        PROVE HeldOK' /\ IntentOK' /\ SnapOK' /\ AskedOK' /\ StoppedOK'
    <3>1. HeldOK /\ IntentOK /\ SnapOK /\ AskedOK /\ StoppedOK
      BY <2>9 DEF Kept
    <3>2. ~Runs /\ ~Runs'
      BY <2>4, <2>6, <2>7 DEF Runs
    <3>3. HeldOK' /\ IntentOK'
      BY <1>1, <2>2, <2>4, <2>6, <2>7, <3>1, <3>2 DEF HeldOK, IntentOK, HoldsLock
    <3>4. SnapOK' /\ AskedOK'
      BY <1>1, <1>3, <3>1, <3>2 DEF SnapOK, AskedOK
    <3>5. config.exists
      BY <1>1 DEF Kept, MadeOK
    <3>6. ~past.stopped
      BY <1>3, <2>7, <3>1, <3>5 DEF StoppedOK, Intended
    <3>. QED
      BY <1>1, <3>3, <3>4, <3>6 DEF StoppedOK
  <2>. QED
    BY <1>1, <2>8, <2>9 DEF Kept
<1>. QED
  BY <1>2, <1>3 DEF Open, StopsAtOnce

LEMMA DaemonStepKept == ASSUME LInv, Kept, NEW d \in Slot, DaemonStep(d) PROVE Kept'
BY SpawnKept, OpenKept, BindKept, ReconcileKept, ChangeKept, ShutdownRequestedKept,
   SignalSeenKept, StoppingKept, WorkerEventKept, ExitKept, ListenerFailsKept
DEF DaemonStep, Starts

-----------------------------------------------------------------------------
(* The invariant, and what it gives.                                       *)

LEMMA KeptHolds == Init => Kept
<1> SUFFICES ASSUME Init PROVE Kept
  OBVIOUS
<1>1. cli = NoCommand /\ past = Nothing /\ LInv
  BY InitKeeps DEF Init
<1>2. /\ cli.cmd = "none" /\ cli.pc = "idle" /\ cli.reply = "none"
      /\ past.acked = 0 /\ ~past.stopped
  BY <1>1 DEF NoCommand, Nothing
<1>3. StepOK /\ SnapOK /\ AskedOK /\ StoppedOK
  BY <1>2 DEF StepOK, SnapOK, AskedOK, StoppedOK
<1>4. MadeOK /\ TermOK /\ HeldOK /\ IntentOK
  <2>1. CASE /\ launchd = [session |-> TRUE, plist |-> FALSE, loaded |-> FALSE, due |-> FALSE,
                          job |-> NoSlot]
             /\ daemon = [d \in Slot |-> NoDaemon]
             /\ config = NoConfig
    <3>1. ~launchd.plist /\ ~launchd.loaded /\ config.remotes = 0
      BY <2>1 DEF NoConfig
    <3>2. \A d \in Slot : daemon[d].pc = "none"
      BY <2>1 DEF NoDaemon
    <3>. QED
      BY <1>2, <3>1, <3>2 DEF MadeOK, TermOK, HeldOK, IntentOK, HoldsLock
  <2>2. ASSUME NEW d \in Slot,
               launchd = [session |-> TRUE, plist |-> TRUE, loaded |-> TRUE, due |-> FALSE,
                          job |-> d],
               daemon = [[e \in Slot |-> NoDaemon] EXCEPT ![d] = DaemonAt("running")],
               config = daemon[d].memory
        PROVE MadeOK /\ TermOK /\ HeldOK /\ IntentOK
    <3>1. PICK memory : memory = [NoConfig EXCEPT !.exists = TRUE]
      OBVIOUS
    <3>2. memory.exists /\ memory.remotes = 0
      BY <3>1 DEF NoConfig
    <3>3. PICK new : new = [NoDaemon EXCEPT !.pc = "running", !.version = 1, !.memory = memory]
      OBVIOUS
    <3>4. new.pc = "running" /\ new.memory = memory
      BY <3>3 DEF NoDaemon
    <3>5. DaemonAt("running") = new
      BY <3>1, <3>3 DEF DaemonAt
    <3>6. daemon[d] = new /\ \A e \in Slot \ {d} : daemon[e].pc = "none"
      BY <2>2, <3>5 DEF NoDaemon
    <3>7. launchd.job = d
      BY <2>2
    <3>8. MadeOK /\ TermOK
      BY <2>2, <3>2, <3>4, <3>6, <3>7 DEF MadeOK, TermOK, HoldsLock
    <3>9. HeldOK /\ IntentOK
      BY <1>2, <2>2, <3>2, <3>4, <3>6 DEF HeldOK, IntentOK, HoldsLock
    <3>. QED
      BY <3>8, <3>9
  <2>. QED
    BY <2>1, <2>2 DEF Init
<1>. QED
  BY <1>3, <1>4 DEF Kept

LEMMA KeptKeeps == LInv /\ Kept /\ [Next]_vars => Kept'
<1> SUFFICES ASSUME LInv, Kept, [Next]_vars PROVE Kept'
  OBVIOUS
<1>1. CASE BeginStart \/ BeginStop \/ BeginRestart
  BY <1>1, BeginKept
<1>2. CASE CommandStep
  BY <1>2, CommandStepKept
<1>3. CASE Interrupt
  BY <1>3, InterruptKept
<1>4. ASSUME NEW d \in Slot, DaemonStep(d) PROVE Kept'
  BY <1>4, DaemonStepKept
<1>5. ASSUME NEW p \in Proc, ReleaseStep(p) \/ InterruptProcess(p) PROVE Kept'
  BY <1>5, RestKept DEF ReleaseStep, InterruptProcess
<1>6. ASSUME NEW p \in Proc, BeginUpgrade(p) PROVE Kept'
  BY <1>6, BeginUpgradeKept
<1>7. CASE PublishRelease \/ UNCHANGED vars
  BY <1>7, RestKept DEF PublishRelease, vars
<1>8. CASE Login \/ Logout \/ PowerFails
  BY <1>8, LoginKept, LogoutKept, PowerFailsKept
<1>. QED
  BY <1>1, <1>2, <1>3, <1>4, <1>5, <1>6, <1>7, <1>8 DEF Next

LEMMA KeptInvariance == Spec => []Kept
<1>1. LInv /\ Kept /\ [Next]_vars => Kept'
  BY KeptKeeps
<1>. QED
  BY <1>1, KeptHolds, LifecycleInvariance, PTL DEF Spec

\* No change the daemon acknowledged is lost although commands write the whole file, unless
\* a save failed or a daemon died that alone knew of it (clear_stop_intent and
\* persist_stop_intent, src/src/daemon.rs:81-108).
THEOREM AckedChangesSurvive == Spec => []AckedSurvives
<1>1. Kept => AckedSurvives
  BY DEF Kept, HeldOK, AckedSurvives, LockFree, HoldsLock, Runs
<1>. QED
  BY <1>1, KeptInvariance, PTL

\* What stop reported to be stopped serves nobody until it is started again
\* (stop_locked_with_expectation, src/src/main.rs:256-318).
THEOREM StopsStick == Spec => []StopSticks
<1>1. Kept => StopSticks
  BY DEF Kept, StoppedOK, Signalled, StopSticks, Serving
<1>. QED
  BY <1>1, KeptInvariance, PTL
=============================================================================
