------------------------------- MODULE Release -------------------------------
(***************************************************************************)
(* Replacing the installed binary (src/src/release.rs): the upgrade command   *)
(* and the installer's commit, any number of them at a time, on one           *)
(* installation directory that they lock with a non-blocking flock. A process *)
(* may be killed between any two of its calls, every call of the commit may   *)
(* fail, and the power may go.                                                *)
(*                                                                         *)
(* A file is the process that made it, its version and whether its contents   *)
(* are complete and synced; a checksum that does not match is a download that *)
(* failed. What Lifecycle adds between preparing and committing on macOS is   *)
(* none of this module's.                                                     *)
(***************************************************************************)
EXTENDS Integers

CONSTANTS
  Proc,       \* processes that may replace the binary, each of them once
  NoProc,
  Platform,   \* the platforms considered: of {"linux", "mac"}
  ProcOn,     \* bound: those that may run on each platform
  MaxVersion, \* bound: releases published, on each platform
  MaxOutages  \* bound: power losses, and logouts

ASSUME ReleaseAssumption ==
  /\ NoProc \notin Proc
  /\ \A p \in Proc \cup {NoProc} : p \notin {"absent", "foreign", "link"}
  /\ Platform \subseteq {"linux", "mac"}
  /\ ProcOn \in [Platform -> SUBSET Proc]
  /\ MaxVersion \in [Platform -> Nat \ {0}]
  /\ MaxOutages \in Nat

VARIABLES
  platform,
  latest,   \* the version the published manifest names
  target,   \* the file the binary's name leads to, or NoFile
  onDisk,   \* the one it leads to after a power loss, if nothing is written back
  shim,     \* the name ego-browser: "absent", "foreign", "link", or the process
            \* that made the link
  shimOnDisk,
  lock,     \* holder of .ego-lite-bridge.upgrade.lock
  proc,     \* the processes
  installs, \* history: files renamed into place
  outages

installed == <<target, onDisk, installs>>
shims == <<shim, shimOnDisk>>
releaseVars == <<platform, latest, installed, shims, lock, proc, outages>>

NoFile == [by |-> NoProc, version |-> 0, seq |-> 0, whole |-> FALSE]

\* whole: complete and synced when it was renamed; seq: its place among the renames.
File == [by : Proc \cup {NoProc}, version : Nat, seq : Nat, whole : BOOLEAN]

Shim == {"absent", "foreign", "link"} \cup Proc

\* Where a process is: it has read its own path ("check"), verified the target
\* ("flock"), holds the lock ("fetch", "stage", "download"), has a verified file
\* ("prepared"), is in the commit ("shim", "sync", "rename", "dirsync"), takes a new
\* shim back ("unlink", "rollsync"), is done with the binary ("leaving"), or has ended
\* ("over", "dead").
ProcState == {"idle", "resolve", "check", "flock", "fetch", "stage", "download", "prepared",
              "shim", "sync", "rename", "dirsync", "unlink", "rollsync", "leaving", "over",
              "dead"}

\* "lost" stands for every failure before anything could be committed.
Outcome == {"none", "lost", "current", "beforeRename", "shimLeft", "rollbackUnknown",
            "durabilityUnknown", "upgraded"}

Process == [pc : ProcState,
            kind : {"upgrade", "installer"},
            exe : Nat,        \* its own version
            seen : File,      \* the target it saw
            version : Nat,    \* of what it installs
            staged : {"none", "partial", "complete", "synced"}, \* its staging file
            made : BOOLEAN,   \* it made the shim
            seq : Nat,        \* of the file it installed
            outcome : Outcome]

Idle == [pc |-> "idle", kind |-> "upgrade", exe |-> 0, seen |-> NoFile, version |-> 0,
         staged |-> "none", made |-> FALSE, seq |-> 0, outcome |-> "none"]

At(p, pc) == proc[p].pc = pc
Ended(p) == proc[p].pc \in {"over", "dead"}
Active(p) == ~Ended(p) /\ ~At(p, "idle")
Linux == platform = "linux"

First == [by |-> NoProc, version |-> 1, seq |-> 0, whole |-> TRUE]

ReleaseInit ==
  /\ platform \in Platform
  /\ latest = 1
  /\ target \in {First, NoFile}
  /\ onDisk = target
  /\ shim \in IF platform = "linux" THEN {"absent", "foreign", "link"} ELSE {"absent"}
  /\ shimOnDisk = shim
  /\ lock = NoProc
  /\ proc = [p \in Proc |-> Idle]
  /\ installs = 0
  /\ outages = 0

-----------------------------------------------------------------------------
Move(p, new) ==
  /\ proc' = [proc EXCEPT ![p] = new]
  /\ UNCHANGED <<platform, latest, outages>>

Goes(p, pc) == Move(p, [proc[p] EXCEPT !.pc = pc])

\* The process ends: a file it did not commit is unlinked (Drop of PreparedUpgrade),
\* then its lock goes.
Finish(p, outcome) ==
  /\ Move(p, [Idle EXCEPT !.pc = "over", !.seq = proc[p].seq, !.outcome = outcome])
  /\ lock' = IF lock = p THEN NoProc ELSE lock

\* The commit is over, the process and its lock are not: an upgrade prompts for the
\* skill on Linux and starts the daemon on macOS.
Conclude(p, outcome) ==
  /\ Move(p, [Idle EXCEPT !.pc = "leaving", !.kind = proc[p].kind, !.seq = proc[p].seq,
                          !.outcome = outcome])
  /\ UNCHANGED lock

Untouched == UNCHANGED <<installed, shims>>

Publish ==
  /\ latest < MaxVersion[platform]
  /\ latest' = latest + 1
  /\ UNCHANGED <<platform, installed, shims, lock, proc, outages>>

\* An upgrade runs the installed binary, an installer one that was published.
Launch(p) ==
  /\ At(p, "idle") /\ p \in ProcOn[platform]
  /\ \/ /\ target # NoFile
        /\ Move(p, [Idle EXCEPT !.pc = "resolve", !.exe = target.version, !.seen = target])
     \/ \E v \in 1 .. latest :
          Move(p, [Idle EXCEPT !.pc = "resolve", !.kind = "installer", !.exe = v,
                               !.version = v])
  /\ Untouched /\ UNCHANGED lock

\* current_exe, canonicalize and metadata: on Linux the path of a replaced binary is
\* no path any more, on macOS it leads to what is installed now.
Resolve(p) ==
  /\ At(p, "resolve")
  /\ \/ /\ proc[p].kind = "installer" \/ (target # NoFile /\ (Linux => target = proc[p].seen))
        /\ Move(p, [proc[p] EXCEPT !.pc = "check", !.seen = target])
        /\ UNCHANGED lock
     \/ Finish(p, "lost")
  /\ Untouched

\* acquire_destination compares the target with what was resolved, and locks later.
Check(p) ==
  /\ At(p, "check")
  /\ IF proc[p].kind = "installer" \/ target = proc[p].seen
     THEN Move(p, [proc[p] EXCEPT !.pc = "flock", !.seen = NoFile]) /\ UNCHANGED lock
     ELSE Finish(p, "lost")
  /\ Untouched

\* Mutant: the lock is taken although another process holds it.
FlockShared(p) ==
  /\ At(p, "flock")
  /\ Goes(p, IF proc[p].kind = "installer" THEN "stage" ELSE "fetch")
  /\ lock' = p
  /\ Untouched

Flock(p) ==
  /\ At(p, "flock")
  /\ IF lock = NoProc
     THEN /\ Goes(p, IF proc[p].kind = "installer" THEN "stage" ELSE "fetch")
          /\ lock' = p
     ELSE Finish(p, "lost")
  /\ Untouched

\* fetch_manifest and upgrade_available.
Fetch(p) ==
  /\ At(p, "fetch")
  /\ \/ /\ proc[p].exe < latest
        /\ Move(p, [proc[p] EXCEPT !.pc = "stage", !.version = latest])
        /\ UNCHANGED lock
     \/ proc[p].exe = latest /\ Finish(p, "current")
     \/ Finish(p, "lost")
  /\ Untouched

\* prepare_from_file.
Stage(p) ==
  /\ At(p, "stage")
  /\ \/ /\ ~(Linux /\ shim = "foreign")
        /\ Move(p, [proc[p] EXCEPT !.pc = "download", !.staged = "partial"])
        /\ UNCHANGED lock
     \/ Finish(p, "lost")
  /\ Untouched

\* Mutant: the checksum of the staged file is not verified.
DownloadUnverified(p) ==
  /\ At(p, "download")
  /\ \E state \in {"partial", "complete"} :
       Move(p, [proc[p] EXCEPT !.pc = "prepared", !.staged = state])
  /\ Untouched /\ UNCHANGED lock

Download(p) ==
  /\ At(p, "download")
  /\ \/ /\ Move(p, [proc[p] EXCEPT !.pc = "prepared", !.staged = "complete"])
        /\ UNCHANGED lock
     \/ Finish(p, "lost")
  /\ Untouched

\* commit, on Linux by way of its shim.
BeginCommit(p) ==
  /\ At(p, "prepared")
  /\ Goes(p, IF Linux THEN "shim" ELSE "sync")
  /\ Untouched /\ UNCHANGED lock

\* commit_linux: the shim is validated again, and made when there is none.
CommitShim(p) ==
  /\ At(p, "shim")
  /\ \/ /\ shim = "absent"
        /\ shim' = p
        /\ Move(p, [proc[p] EXCEPT !.pc = "sync", !.made = TRUE])
        /\ UNCHANGED lock
     \/ shim \notin {"absent", "foreign"} /\ Goes(p, "sync") /\ UNCHANGED <<shim, lock>>
     \/ Conclude(p, "beforeRename") /\ UNCHANGED shim
  /\ UNCHANGED <<installed, shimOnDisk>>

\* Mutant: a commit that failed leaves the shim it made.
NoCommitLeavingShim(p) == Conclude(p, "beforeRename")

\* The commit failed before the rename: a shim it made is taken back.
NoCommit(p) ==
  IF proc[p].made THEN Goes(p, "unlink") /\ UNCHANGED lock ELSE Conclude(p, "beforeRename")

SyncStaged(p) ==
  /\ At(p, "sync")
  /\ \/ /\ Move(p, [proc[p] EXCEPT !.pc = "rename",
                                   !.staged = IF @ = "complete" THEN "synced" ELSE @])
        /\ UNCHANGED lock
     \/ NoCommit(p)
  /\ Untouched

Rename(p) ==
  /\ At(p, "rename")
  /\ \/ /\ target' = [by |-> p, version |-> proc[p].version, seq |-> installs + 1,
                      whole |-> proc[p].staged = "synced"]
        /\ installs' = installs + 1
        /\ Move(p, [proc[p] EXCEPT !.pc = "dirsync", !.staged = "none", !.seq = installs + 1])
        /\ UNCHANGED <<onDisk, lock>>
     \/ NoCommit(p) /\ UNCHANGED installed
  /\ UNCHANGED shims

\* The directory is synced: its names are what they are now.
Durable == onDisk' = target /\ shimOnDisk' = shim

SyncDirectory(p) ==
  /\ At(p, "dirsync")
  /\ \/ Durable /\ Conclude(p, "upgraded")
     \/ UNCHANGED <<onDisk, shimOnDisk>> /\ Conclude(p, "durabilityUnknown")
  /\ UNCHANGED <<target, installs, shim>>

UnlinkShim(p) ==
  /\ At(p, "unlink")
  /\ \/ shim' = "absent" /\ Goes(p, "rollsync") /\ UNCHANGED lock
     \/ Conclude(p, "shimLeft") /\ UNCHANGED shim
  /\ UNCHANGED <<installed, shimOnDisk>>

SyncRollback(p) ==
  /\ At(p, "rollsync")
  /\ \/ Durable /\ Conclude(p, "beforeRename")
     \/ UNCHANGED <<onDisk, shimOnDisk>> /\ Conclude(p, "rollbackUnknown")
  /\ UNCHANGED <<target, installs, shim>>

\* On macOS an upgrade gives up when the daemon could not be stopped: its file is
\* unlinked (Drop of PreparedUpgrade).
Abandon(p) ==
  /\ At(p, "prepared") /\ ~Linux /\ proc[p].kind = "upgrade"
  /\ Finish(p, "lost") /\ Untouched

Leave(p) == At(p, "leaving") /\ Finish(p, proc[p].outcome) /\ Untouched

\* A process is killed: the kernel drops its lock. (A staging file it leaves has a
\* name nobody uses again.)
Killed(p) == IF Active(p) THEN [Idle EXCEPT !.pc = "dead"] ELSE proc[p]

Crash(p) ==
  /\ Active(p)
  /\ Move(p, Killed(p))
  /\ lock' = IF lock = p THEN NoProc ELSE lock
  /\ Untouched

\* The power goes: each name leads to what it led to, or to what was synced last.
PowerLoss ==
  /\ outages < MaxOutages
  /\ outages' = outages + 1
  /\ target' \in {target, onDisk}
  /\ onDisk' = target'
  /\ shim' \in {shim, shimOnDisk}
  /\ shimOnDisk' = shim'
  /\ lock' = NoProc
  /\ proc' = [p \in Proc |-> Killed(p)]
  /\ UNCHANGED <<platform, latest, installs>>

\* Logging out ends the user's processes.
SessionEnds ==
  /\ outages < MaxOutages
  /\ outages' = outages + 1
  /\ lock' = NoProc
  /\ proc' = [p \in Proc |-> Killed(p)]
  /\ UNCHANGED <<platform, latest, installed, shims>>

\* What a process does before its commit, and in it.
Prepares(p) ==
  \/ Launch(p) \/ Resolve(p) \/ Check(p) \/ Flock(p) \/ Fetch(p) \/ Stage(p) \/ Download(p)
Commits(p) ==
  \/ CommitShim(p) \/ SyncStaged(p) \/ Rename(p) \/ SyncDirectory(p) \/ UnlinkShim(p)
  \/ SyncRollback(p)

ReleaseNext ==
  \/ Publish \/ PowerLoss \/ SessionEnds
  \/ \E p \in Proc : \/ Prepares(p) \/ BeginCommit(p) \/ Commits(p)
                     \/ Abandon(p) \/ Leave(p) \/ Crash(p)

ReleaseSpec == ReleaseInit /\ [][ReleaseNext]_releaseVars

-----------------------------------------------------------------------------
(* Properties.                                                             *)

\* Every variable of the installation and of its processes has its type.
ReleaseTypeOK ==
  /\ platform \in {"linux", "mac"}
  /\ latest \in Nat
  /\ target \in File /\ onDisk \in File
  /\ shim \in Shim /\ shimOnDisk \in Shim
  /\ lock \in Proc \cup {NoProc}
  /\ proc \in [Proc -> Process]
  /\ installs \in Nat
  /\ outages \in Nat

\* What is installed, and what a power loss would leave, is a complete binary: the
\* staged file is verified and synced before its rename, whichever call fails.
TargetWhole == \A f \in {target, onDisk} : f # NoFile => f.whole

\* A process that says nothing was committed has changed neither the binary nor,
\* unless it says so, the shim; one that says it upgraded is never undone by a power
\* loss.
ReportTrue ==
  \A p \in Proc :
    LET outcome == proc[p].outcome
    IN /\ outcome \in {"lost", "current", "beforeRename"} =>
            p \notin {target.by, onDisk.by, shim, shimOnDisk}
       /\ outcome \in {"shimLeft", "rollbackUnknown"} => p \notin {target.by, onDisk.by}
       /\ outcome = "upgraded" => onDisk.seq >= proc[p].seq

\* No upgrade puts an older binary in the place of a newer one, although it compares
\* its own version, and the target is identified before the lock is taken: the
\* manifest is fetched under the lock. (An installer brings the version it is.)
NoDowngrade ==
  [][\A p \in Proc :
       (target' # target /\ target'.by = p /\ proc[p].kind = "upgrade" /\ outages' = outages)
         => target'.version >= target.version]_releaseVars
=============================================================================
