---------------------------- MODULE WindowsUpdate ----------------------------
(***************************************************************************)
(* An update on Windows: the copies of QK4 that offer and install it       *)
(* (update/updateflow.cpp, update/windowsinstaller.cpp) and the launcher   *)
(* (tools/windows-launcher) in its three jobs: to run the current version, *)
(* to finish an update, and to clean up.  All are processes; what they     *)
(* share is the install root: the version folders, current.txt, the        *)
(* failure notes and the update lock.                                      *)
(*                                                                         *)
(* A version is its uj number, 0 for none (a damaged current.txt).  A      *)
(* folder keeps its number when it is renamed, for what runs from it goes  *)
(* with it.  A time limit may pass at any time.  Fault_... are seeded      *)
(* faults: what the definition of that name would be with a plausible bug. *)
(***************************************************************************)
EXTENDS Naturals, FiniteSetsExt

CONSTANTS Copies,       \* bound: copies of QK4 that run at once
          Finishers,    \* bound: updates being finished at once
          Installed,    \* the versions at the start are 1..Installed, the last one current
          Offers,       \* the versions update.json may offer
          MaxFolders,   \* bound: version folders ever, those of the start included
          MaxStarts,    \* bound: times the operator starts QK4
          MaxInstalls,  \* bound: times the operator asks for an update
          MaxKills,     \* bound: launchers killed
          MaxEvents     \* bound: the three together

None == "None"

ASSUME UpdateAssumption ==
  /\ Installed \in Nat \ {0}
  /\ Offers \subseteq Nat /\ \A v \in Offers : v > Installed
  /\ {None, "Cleaner"} \cap Finishers = {}
  /\ {MaxFolders, MaxStarts, MaxInstalls, MaxKills, MaxEvents} \subseteq Nat /\ MaxFolders >= Installed

VARIABLES
  current,    \* current.txt
  folder,     \* version folders: where they are, whether anything of them was deleted, .healthy;
              \* history: raced, if that was while trashFolder() of a launcher might put it back
  notes,      \* update-failed.txt
  failed,     \* the settings' failed versions
  lock,       \* .update.lock: who holds it, and how far trashFolder() has come under it
  copy,       \* copies of QK4
  launch,     \* a normal launch without the lock: what it read
  fin,        \* launchers finishing an update
  cleaner,    \* the launcher cleaning up
  starts, installs, kills  \* history

disk == <<current, folder, notes, failed>>
vars == <<disk, lock, copy, launch, fin, cleaner, starts, installs, kills>>

Folders == 1..MaxFolders
Versions == 1..Installed \cup Offers

NoFolder == [v |-> 0, at |-> None, whole |-> FALSE, healthy |-> FALSE, raced |-> FALSE]
NewFolder(v) == [v |-> v, at |-> "Final", whole |-> TRUE, healthy |-> FALSE, raced |-> FALSE]
Unlocked == [by |-> None, step |-> None, f |-> 0]
Off == [stage |-> "Off", f |-> 0, offer |-> 0, job |-> None]
NoLaunch == [reading |-> FALSE, cur |-> 0, placed |-> {}, healthy |-> {}]
NoUpdate == [pc |-> "Idle", v |-> 0, closing |-> None, ready |-> FALSE, exit |-> None, note |-> FALSE,
             cur |-> 0, f |-> 0]
NoCleanup == [pc |-> "Idle", own |-> 0, failed |-> {}, skipped |-> {}, f |-> 0]

Init ==
  /\ current \in {0, Installed}
  /\ folder = [f \in Folders |-> IF f <= Installed THEN [NewFolder(f) EXCEPT !.healthy = TRUE] ELSE NoFolder]
  /\ notes = {} /\ failed = {}
  /\ lock = Unlocked
  /\ copy = [c \in Copies |-> Off]
  /\ launch = NoLaunch
  /\ fin = [u \in Finishers |-> NoUpdate]
  /\ cleaner = NoCleanup
  /\ starts = 0 /\ installs = 0 /\ kills = 0

-----------------------------------------------------------------------------
(* What the launcher sees of versions\ *)

\* listVersions(): the names that do not begin with a dot, and which of them have .healthy.
Placed == {folder[f].v : f \in {g \in Folders : folder[g].at = "Final"}}
Healthy == {folder[f].v : f \in {g \in Folders : folder[g].at = "Final" /\ folder[g].healthy}}
FolderOf(v) == CHOOSE f \in Folders : folder[f].at = "Final" /\ folder[f].v = v

RunsFrom(f) == \E c \in Copies : copy[c].f = f

\* The check dropped before a folder is deleted.
Fault_MayDelete(f) == TRUE

\* folderInUse() sees every copy, and may take a virus scanner for one.
MayDelete(f) == ~RunsFrom(f)

SelectVersion(cur, placed, healthy) ==
  IF cur \in placed THEN cur
  ELSE IF placed \cap healthy # {} THEN Max(placed \cap healthy)
  ELSE IF placed # {} THEN Max(placed) ELSE 0

Fault_ShouldCommit(new, cur) == TRUE

ShouldCommit(new, cur) == new > cur

\* foldersToClean(): nothing unless the version that asked is the current one; never that one nor the
\* next lower one, and a higher one only if it failed.
FoldersToClean(own, cur, placed, bad) ==
  IF own # cur THEN {}
  ELSE LET lower == {v \in placed : v < cur} IN
       {v \in placed : v > cur /\ v \in bad} \cup {v \in lower : v # Max(lower)}

NewCopy == CHOOSE c \in Copies : copy[c] = Off
HasRoom == \E c \in Copies : copy[c] = Off

\* The bound on what happens altogether.
MayGoOn == starts + installs + kills < MaxEvents

\* CreateProcess of a version's QK4.exe.
Started(v, job) ==
  [copy EXCEPT ![NewCopy] = [stage |-> "Starting", f |-> FolderOf(v), offer |-> 0, job |-> job]]

-----------------------------------------------------------------------------
(* normalLaunch(), and a version folder's QK4.exe started directly *)

MayStart == starts < MaxStarts /\ MayGoOn /\ starts' = starts + 1
LaunchOnly == UNCHANGED <<disk, lock, fin, cleaner, installs, kills>>

Launch ==
  /\ MayStart /\ HasRoom /\ lock = Unlocked
  /\ LET v == SelectVersion(current, Placed, Healthy) IN v # 0 /\ copy' = Started(v, None)
  /\ UNCHANGED launch /\ LaunchOnly

\* Ten seconds without the lock: the launch goes on without it ...
LaunchWithoutLock ==
  /\ MayStart /\ lock # Unlocked /\ ~launch.reading
  /\ launch' = [reading |-> TRUE, cur |-> current, placed |-> Placed, healthy |-> Healthy]
  /\ UNCHANGED copy /\ LaunchOnly

\* ... and a folder that has gone by now is passed over.
LaunchSlipsIn ==
  /\ launch.reading /\ HasRoom
  /\ LET v == SelectVersion(launch.cur, launch.placed, launch.healthy) IN
     IF v \in Placed THEN copy' = Started(v, None) /\ launch' = NoLaunch
     ELSE /\ launch' = IF launch.placed \ {v} = {} THEN NoLaunch
                       ELSE [launch EXCEPT !.placed = launch.placed \ {v}]
          /\ UNCHANGED copy
  /\ UNCHANGED starts /\ LaunchOnly

RunDirectly ==
  /\ MayStart /\ HasRoom
  /\ \E v \in Placed : copy' = Started(v, None)
  /\ UNCHANGED launch /\ LaunchOnly

-----------------------------------------------------------------------------
(* A copy of QK4 *)

CopyOnly == UNCHANGED <<lock, launch, starts, kills>>
Goes(c, stage) == copy' = [copy EXCEPT ![c].stage = stage]

\* UpdateFlow::start(): the readiness file, which it may fail to write; the failure notes; cleanup, if
\* the version that runs is the current one.  One cleanup at a time is modelled.
BeginFlow(c) ==
  LET own == folder[copy[c].f].v IN
  /\ copy[c].stage = "Starting"
  /\ IF copy[c].job = None THEN UNCHANGED fin
     ELSE \E written \in BOOLEAN : fin' = [fin EXCEPT ![copy[c].job].ready = written]
  /\ failed' = failed \cup {v \in notes : v > current /\ v # own}
  /\ notes' = {}
  /\ IF current # own THEN UNCHANGED cleaner
     ELSE /\ cleaner.pc = "Idle"
          /\ cleaner' = [NoCleanup EXCEPT !.pc = "Turn", !.own = own, !.failed = failed']
  /\ Goes(c, "Checking")
  /\ UNCHANGED <<current, folder, installs>> /\ CopyOnly

\* onCheckFinished(): what shouldOffer() lets through; what the operator skipped counts as no offer.
Offer(c) ==
  /\ copy[c].stage = "Checking"
  /\ \E v \in Offers :
       /\ v > folder[copy[c].f].v /\ v > current /\ v \notin failed
       /\ copy' = [copy EXCEPT ![c].stage = "Popup", ![c].offer = v]
  /\ UNCHANGED <<disk, fin, cleaner, installs>> /\ CopyOnly

\* onInstallRequested(), the download, and prepareVersionFolder() up to the rename: current.txt is read
\* at the click, for the popup may have been open for hours, and again after the download.
Install(c) ==
  /\ copy[c].stage = "Popup"
  /\ installs < MaxInstalls /\ MayGoOn /\ installs' = installs + 1
  /\ Goes(c, IF current >= copy[c].offer THEN "Open" ELSE "Extracted")
  /\ UNCHANGED <<disk, fin, cleaner>> /\ CopyOnly

\* The name is not looked at: a second folder with the name of the first.
Fault_MayPlace(v) == TRUE

MayPlace(v) == v \notin Placed

\* The rename to the final name, which refuses a name that exists: that folder is used instead.  What
\* fails before it leaves the popup as it was.
Place(c) ==
  LET v == copy[c].offer IN
  /\ copy[c].stage = "Extracted"
  /\ \/ ~MayPlace(v) /\ Goes(c, "Prepared") /\ UNCHANGED folder
     \/ /\ MayPlace(v) /\ Goes(c, "Prepared")
        /\ \E f \in Folders : /\ folder[f] = NoFolder /\ \A g \in 1..(f - 1) : folder[g] # NoFolder
                             /\ folder' = [folder EXCEPT ![f] = NewFolder(v)]
     \/ Goes(c, "Popup") /\ UNCHANGED folder
  /\ UNCHANGED <<current, notes, failed, fin, cleaner, installs>> /\ CopyOnly

\* onPreparationFinished(), onReadyToQuit(): the launcher, and then the end.
HandOver(c) ==
  /\ copy[c].stage = "Prepared"
  /\ \/ \E u \in Finishers :
          /\ fin[u].pc = "Idle"
          /\ fin' = [fin EXCEPT ![u] = [NoUpdate EXCEPT !.pc = "Wait", !.v = copy[c].offer, !.closing = c]]
          /\ Goes(c, "Quitting")
     \/ Goes(c, "Popup") /\ UNCHANGED fin
  /\ UNCHANGED <<disk, cleaner, installs>> /\ CopyOnly

\* A process ends: who waits for it, and the job it is in, see that.
Ends(c, exit) ==
  /\ copy' = [copy EXCEPT ![c] = Off]
  /\ fin' = [u \in Finishers |->
              [fin[u] EXCEPT !.closing = IF @ = c THEN None ELSE @,
                             !.exit = IF copy[c].job = u /\ fin[u].pc = "Health" THEN exit ELSE @]]

Quit(c) ==
  /\ copy[c].stage # "Off"
  /\ \E exit \in {"Clean", "Crash"} : Ends(c, exit)
  /\ UNCHANGED <<disk, cleaner, installs>> /\ CopyOnly

-----------------------------------------------------------------------------
(* trashFolder(), by whoever holds the lock *)

TrashOnly == UNCHANGED <<current, notes, failed, copy, launch, starts, installs, kills>>
TakeLock(by, step, f) == lock' = [by |-> by, step |-> step, f |-> f]

\* What its caller does: the cleanup goes on to its next turn, and comes back to the folder or skips it.
\* A rollback that did not get rid of the folder tries again, or goes on without.  A folder that is back
\* is not at the name a cleanup may be deleting.
Trashed ==
  IF lock.by = "Cleaner" THEN lock' = Unlocked /\ UNCHANGED <<fin, cleaner>>
  ELSE /\ lock' = [lock EXCEPT !.step = None]
       /\ fin' = [fin EXCEPT ![lock.by].pc = "Previous", ![lock.by].f = lock.f]
       /\ UNCHANGED cleaner

NotTrashed(mayRetry, back) ==
  IF lock.by = "Cleaner"
  THEN /\ lock' = Unlocked
       /\ \/ mayRetry /\ UNCHANGED cleaner
          \/ cleaner' = [cleaner EXCEPT !.skipped = @ \cup {folder[lock.f].v}]
       /\ UNCHANGED fin
  ELSE /\ \/ /\ lock' = Unlocked
             /\ fin' = [fin EXCEPT ![lock.by].pc = "RollBack"]
          \/ lock' = [lock EXCEPT !.step = None] /\ fin' = [fin EXCEPT ![lock.by].pc = "Previous"]
       /\ cleaner' = IF back /\ cleaner.f = lock.f THEN [cleaner EXCEPT !.f = 0] ELSE cleaner

RenameAway ==
  /\ lock.step = "Rename"
  /\ \/ folder' = [folder EXCEPT ![lock.f].at = "Trash"] /\ lock' = [lock EXCEPT !.step = "Check"]
        /\ UNCHANGED <<fin, cleaner>>
     \/ NotTrashed(TRUE, FALSE) /\ UNCHANGED folder
  /\ TrashOnly

\* A launch that slipped in is seen here.
CheckAgain ==
  /\ lock.step = "Check"
  /\ \/ MayDelete(lock.f) /\ Trashed
     \/ lock' = [lock EXCEPT !.step = "PutBack"] /\ UNCHANGED <<fin, cleaner>>
  /\ UNCHANGED folder /\ TrashOnly

\* The folder goes back, if it is still there and its name is free; or the retries run out, and it is
\* stranded.
PutBack ==
  /\ lock.step = "PutBack"
  /\ \/ /\ folder[lock.f].at = "Trash" /\ folder[lock.f].v \notin Placed
        /\ folder' = [folder EXCEPT ![lock.f].at = "Final"] /\ NotTrashed(lock.by # "Cleaner", TRUE)
     \/ UNCHANGED folder /\ NotTrashed(lock.by # "Cleaner", FALSE)
  /\ TrashOnly

\* deleteTrash(), outside the lock: nothing may run from the folder; then it is deleted file by file, as
\* long as it has that name.
DeleteTree(f, done) ==
  \/ /\ ~done /\ f # 0 /\ folder[f].at = "Trash" /\ folder[f].whole
     /\ folder' = [folder EXCEPT ![f].whole = FALSE, ![f].raced = lock.f = f /\ lock.step # None]
  \/ /\ done /\ f # 0 /\ folder[f].at = "Trash" /\ ~folder[f].whole
     /\ folder' = [folder EXCEPT ![f].at = None, ![f].healthy = FALSE, ![f].raced = FALSE]
  \/ done /\ UNCHANGED folder

-----------------------------------------------------------------------------
(* finishUpdate() *)

UpdateOnly == UNCHANGED <<failed, launch, cleaner, starts, installs>>
At(u, pc) == fin[u].pc = pc
Moves(u, pc) == fin' = [fin EXCEPT ![u].pc = pc]
JobRuns(u) == \E c \in Copies : copy[c].job = u
Tried(u, pc) == [fin EXCEPT ![u] = [NoUpdate EXCEPT !.pc = pc, !.v = fin[u].v]]
HasWindow(u) == \E c \in Copies : copy[c].job = u /\ copy[c].stage # "Starting"

\* The launcher is done with its job: what runs in it goes on, and a readiness file is nobody's any more.
Left(copies, u) == [c \in Copies |-> IF copies[c].job = u THEN [copies[c] EXCEPT !.job = None] ELSE copies[c]]

\* The closing copy has quit, or is terminated after 30 seconds.
ClosingCopyGone(u) ==
  /\ At(u, "Wait")
  /\ fin' = [fin EXCEPT ![u].pc = "Start", ![u].closing = None]
  /\ copy' = IF fin[u].closing = None THEN copy ELSE [copy EXCEPT ![fin[u].closing] = Off]
  /\ UNCHANGED <<disk, lock, kills>> /\ UpdateOnly

StartAttempt(u) ==
  /\ At(u, "Start") /\ HasRoom
  /\ \/ /\ fin[u].v \in Placed
        /\ copy' = Started(fin[u].v, u)
        /\ fin' = [fin EXCEPT ![u].pc = "Health"]
     \/ Moves(u, "RollBack") /\ UNCHANGED copy
  /\ UNCHANGED <<disk, lock, kills>> /\ UpdateOnly

\* waitForHealth(), watchAfterReady(): ready, and it runs on or was closed; or a window after a minute.
\* finishHealthy() then writes .healthy.
PassesHealth(u) ==
  /\ At(u, "Health")
  /\ IF fin[u].ready THEN JobRuns(u) \/ fin[u].exit = "Clean" ELSE HasWindow(u)
  /\ folder' = IF fin[u].v \in Placed THEN [folder EXCEPT ![FolderOf(fin[u].v)].healthy = TRUE] ELSE folder
  /\ fin' = Tried(u, "Commit")
  /\ copy' = Left(copy, u)
  /\ UNCHANGED <<current, notes, lock, kills>> /\ UpdateOnly

\* Otherwise the attempt's job is terminated, which another launcher may be waiting for.
FailsHealth(u) ==
  /\ At(u, "Health")
  /\ IF fin[u].ready THEN ~JobRuns(u) /\ fin[u].exit # "Clean" ELSE ~HasWindow(u)
  /\ fin' = [w \in Finishers |-> [Tried(u, "RollBack")[w] EXCEPT
                !.closing = IF \E c \in Copies : c = @ /\ copy[c].job = u THEN None ELSE @]]
  /\ copy' = [c \in Copies |-> IF copy[c].job = u THEN Off ELSE copy[c]]
  /\ UNCHANGED <<disk, lock, kills>> /\ UpdateOnly

FinishEnds(u, copies) ==
  /\ copy' = Left(copies, u)
  /\ fin' = [fin EXCEPT ![u] = NoUpdate]

\* commitVersion(), under the lock, or not at all: the update is then offered again.
CommitVersion(u) ==
  /\ At(u, "Commit")
  /\ \/ lock = Unlocked /\ current' = IF ShouldCommit(fin[u].v, current) THEN fin[u].v ELSE current
     \/ UNCHANGED current
  /\ FinishEnds(u, copy)
  /\ UNCHANGED <<folder, notes, lock, kills>> /\ UpdateOnly

\* rollBack(), as far as decideFailure(): another attempt may have committed; without the lock, or with
\* something seen to run from the folder, it stays.  A copy that cannot be queried is not seen.
Decided(u, pc, note) == fin' = [fin EXCEPT ![u].pc = pc, ![u].note = note, ![u].cur = current]

DecideFailure(u) ==
  LET v == fin[u].v IN
  /\ At(u, "RollBack")
  /\ \/ /\ lock = Unlocked
        /\ \/ current >= v /\ Decided(u, "Previous", FALSE) /\ TakeLock(u, None, 0)
           \/ /\ current < v
              /\ Decided(u, "Previous", TRUE) /\ TakeLock(u, None, 0)
           \/ /\ current < v
              /\ IF v \in Placed THEN Decided(u, "Trashing", TRUE) /\ TakeLock(u, "Rename", FolderOf(v))
                                 ELSE Decided(u, "Previous", TRUE) /\ TakeLock(u, None, 0)
     \/ /\ lock # Unlocked /\ Decided(u, "Previous", current < v) /\ UNCHANGED lock
  /\ UNCHANGED <<disk, copy, kills>> /\ UpdateOnly

\* With a damaged current.txt the fallback must not pick the build that has just failed.
Candidates(u) == IF fin[u].note THEN Placed \ {fin[u].v} ELSE Placed

\* ... and the rest of rollBack() under the lock: the note, and the version to go back to.
StartPrevious(u) ==
  LET v == SelectVersion(fin[u].cur, Candidates(u), Healthy) IN
  /\ At(u, "Previous") /\ HasRoom
  /\ notes' = IF fin[u].note THEN notes \cup {fin[u].v} ELSE notes
  /\ lock' = IF lock.by = u THEN Unlocked ELSE lock
  /\ LET copies == IF v = 0 THEN copy ELSE Started(v, None) IN
     IF fin[u].f = 0 THEN FinishEnds(u, copies) ELSE copy' = copies /\ Moves(u, "Trash")
  /\ UNCHANGED <<current, folder, kills>> /\ UpdateOnly

DeleteItsTrash(u) ==
  LET f == fin[u].f IN
  \/ /\ At(u, "Trash")
     /\ \/ MayDelete(f) /\ Moves(u, "Delete") /\ UNCHANGED copy
        \/ FinishEnds(u, copy)
     /\ UNCHANGED <<disk, lock, kills>> /\ UpdateOnly
  \/ /\ At(u, "Delete")
     /\ \E done \in BOOLEAN :
          /\ DeleteTree(f, done)
          /\ IF done THEN FinishEnds(u, copy) ELSE UNCHANGED <<fin, copy>>
     /\ UNCHANGED <<current, notes, lock, kills>> /\ UpdateOnly

Freed(by) == IF lock.by = by THEN Unlocked ELSE lock

Kill(u) ==
  /\ fin[u].pc # "Idle" /\ kills < MaxKills /\ MayGoOn
  /\ kills' = kills + 1
  /\ FinishEnds(u, copy)
  /\ lock' = Freed(u)
  /\ UNCHANGED disk /\ UpdateOnly

-----------------------------------------------------------------------------
(* cleanup() *)

CleanOnly == UNCHANGED <<current, notes, failed, copy, launch, fin, starts, installs>>
GoesOn == cleaner' = [NoCleanup EXCEPT !.pc = "Working"]

\* trashOldVersions(): a turn of its own for each folder, with current.txt read again.
CleanTurn ==
  LET targets == FoldersToClean(cleaner.own, current, Placed, cleaner.failed) \ cleaner.skipped IN
  /\ cleaner.pc = "Turn" /\ lock = Unlocked
  /\ IF targets = {} THEN GoesOn /\ UNCHANGED lock
     ELSE \E v \in targets :
            \/ cleaner' = [cleaner EXCEPT !.skipped = @ \cup {v}] /\ UNCHANGED lock
            \/ MayDelete(FolderOf(v)) /\ TakeLock("Cleaner", "Rename", FolderOf(v)) /\ UNCHANGED cleaner
  /\ UNCHANGED <<folder, kills>> /\ CleanOnly

CleanGivesUp ==
  /\ cleaner.pc = "Turn" /\ lock # Unlocked /\ lock.by # "Cleaner"
  /\ GoesOn
  /\ UNCHANGED <<folder, lock, kills>> /\ CleanOnly

\* removeWorkingFolders(), without the lock.
RemoveWorkingFolders ==
  /\ \/ /\ cleaner.pc = "Working"
        /\ \E f \in Folders :
             folder[f].at = "Trash" /\ MayDelete(f) /\ cleaner' = [cleaner EXCEPT !.pc = "Delete", !.f = f]
        /\ UNCHANGED folder
     \/ /\ cleaner.pc = "Delete"
        /\ \E done \in BOOLEAN :
             /\ DeleteTree(cleaner.f, done)
             /\ IF done THEN cleaner' = [cleaner EXCEPT !.pc = "Working", !.f = 0] ELSE UNCHANGED cleaner
     \/ cleaner.pc = "Working" /\ cleaner' = NoCleanup /\ UNCHANGED folder
  /\ UNCHANGED <<lock, kills>> /\ CleanOnly

KillCleaner ==
  /\ cleaner.pc # "Idle" /\ kills < MaxKills /\ MayGoOn
  /\ kills' = kills + 1
  /\ cleaner' = NoCleanup
  /\ lock' = Freed("Cleaner")
  /\ UNCHANGED folder /\ CleanOnly

-----------------------------------------------------------------------------
TrashStep == RenameAway \/ CheckAgain \/ PutBack

Finish(u) ==
  \/ ClosingCopyGone(u) \/ StartAttempt(u) \/ PassesHealth(u) \/ FailsHealth(u) \/ CommitVersion(u)
  \/ DecideFailure(u) \/ StartPrevious(u) \/ DeleteItsTrash(u)

Cleanup == CleanTurn \/ CleanGivesUp \/ RemoveWorkingFolders

Qk4(c) ==
  \/ BeginFlow(c) \/ Offer(c) \/ Install(c) \/ Place(c) \/ HandOver(c) \/ Quit(c)

Next ==
  \/ Launch \/ LaunchWithoutLock \/ LaunchSlipsIn \/ RunDirectly
  \/ \E c \in Copies : Qk4(c)
  \/ TrashStep
  \/ \E u \in Finishers : Finish(u) \/ Kill(u)
  \/ Cleanup \/ KillCleaner

Spec == Init /\ [][Next]_vars

-----------------------------------------------------------------------------
FolderType ==
  [v : {0} \cup Versions, at : {None, "Final", "Trash"}, whole : BOOLEAN, healthy : BOOLEAN, raced : BOOLEAN]
LockType ==
  [by : {None, "Cleaner"} \cup Finishers, step : {None, "Rename", "Check", "PutBack"}, f : {0} \cup Folders]
CopyType ==
  [stage : {"Off", "Starting", "Checking", "Popup", "Extracted", "Prepared", "Open", "Quitting"},
   f : {0} \cup Folders, offer : {0} \cup Offers, job : {None} \cup Finishers]
LaunchType == [reading : BOOLEAN, cur : {0} \cup Versions, placed : SUBSET Versions, healthy : SUBSET Versions]
FinType ==
  [pc : {"Idle", "Wait", "Start", "Health", "Commit", "RollBack", "Trashing", "Previous", "Trash", "Delete"},
   v : {0} \cup Offers, closing : {None} \cup Copies, ready : BOOLEAN, exit : {None, "Clean", "Crash"},
   note : BOOLEAN, cur : {0} \cup Versions, f : {0} \cup Folders]
CleanerType ==
  [pc : {"Idle", "Turn", "Working", "Delete"}, own : {0} \cup Versions, failed : SUBSET Versions,
   skipped : SUBSET Versions, f : {0} \cup Folders]

OneOfEachName ==
  \A f, g \in Folders : folder[f].at = "Final" /\ folder[g].at = "Final" /\ folder[f].v = folder[g].v => f = g

TypeOK ==
  /\ current \in {0} \cup Versions /\ notes \subseteq {0} \cup Versions /\ failed \subseteq Versions
  /\ folder \in [Folders -> FolderType] /\ OneOfEachName
  /\ lock \in LockType
  /\ copy \in [Copies -> CopyType]
  /\ launch \in LaunchType
  /\ fin \in [Finishers -> FinType]
  /\ cleaner \in CleanerType
  /\ starts \in 0..MaxStarts /\ installs \in 0..MaxInstalls /\ kills \in 0..MaxKills

\* A folder at a final name is whole (windowsinstaller.cpp prepareVersionFolder()), but for one that a
\* launcher deleted from before trashFolder() of another put it back: nothing keeps these two apart.
FoldersAreWhole == \A f \in Folders : folder[f].at = "Final" => folder[f].whole \/ folder[f].raced

DeletesFrom(f) ==
  \/ folder[f].whole /\ ~folder'[f].whole
  \/ folder[f].at # None /\ folder'[f].at = None

\* The folders are kept: they are whole, nothing is deleted from under a copy that runs, not even in that
\* race (main.cpp trashFolder(), deleteTrash()), and the cleanup and the rollbacks together never take the
\* last version there is.
FoldersAreKept ==
  /\ [](FoldersAreWhole /\ Placed # {})
  /\ [][\A c \in Copies : copy[c].f # 0 => ~DeletesFrom(copy[c].f)]_vars

\* current.txt only moves forward, even when attempts for different versions finish together.
CurrentMovesForward == [][current' >= current]_vars
=============================================================================
