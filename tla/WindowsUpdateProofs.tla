------------------------ MODULE WindowsUpdateProofs -------------------------
(***************************************************************************)
(* Proofs about WindowsUpdate.  Structure strengthens the types with what  *)
(* the parts of the state know of each other; Safe adds what keeps the     *)
(* folders.  A lemma for each action carries Structure over it, and one    *)
(* for each group of actions carries Safe, and shows that what a copy runs *)
(* from is not deleted by it.                                              *)
(***************************************************************************)
EXTENDS WindowsUpdate, FiniteSetTheorems, TLAPS

\* A finite set of versions has a highest one.  The library's induction on finite sets takes an operator,
\* so this goes by a minimal element of the sets {w \in S : w > v} instead.
LEMMA HighestExists ==
  ASSUME NEW S \in SUBSET Nat, IsFiniteSet(S), S # {}
  PROVE  Max(S) \in S /\ \A v \in S : Max(S) >= v
<1> DEFINE Above(v) == {w \in S : w > v}
           T == {Above(v) : v \in S}
<1>1. T \subseteq FiniteSubsetsOf(S)
  <2>1. \A v \in S : Above(v) \in SUBSET S
    OBVIOUS
  <2>2. FiniteSubsetsOf(S) = SUBSET S
    BY FS_FiniteSubsetsOfFinite
  <2>. QED  BY <2>1, <2>2
<1>2. T # {}
  OBVIOUS
<1>3. PICK X \in T : \A Y \in T : <<Y, X>> \notin StrictSubsetOrdering(S)
  <2>. HIDE DEF T
  <2>. QED  BY <1>1, <1>2, FS_StrictSubsetOrderingWellFounded, WFMin
<1>4. PICK m \in S : X = Above(m)
  OBVIOUS
<1>5. \A v \in S : m >= v
  <2>1. SUFFICES ASSUME NEW v \in S, v > m PROVE FALSE
    <3>1. \A v \in S : v \in Nat
      OBVIOUS
    <3>. QED  BY <3>1
  <2>2. Above(v) \subseteq Above(m) /\ v \in Above(m) /\ v \notin Above(v)
    <3>1. v \in Nat /\ m \in Nat /\ \A w \in S : w \in Nat
      OBVIOUS
    <3>2. \A w \in S : w > v => w > m
      BY <2>1, <3>1
    <3>3. Above(v) \subseteq Above(m)
      BY <3>2
    <3>4. v \in Above(m)
      BY <2>1
    <3>5. v \notin Above(v)
      BY <3>1
    <3>. QED  BY <3>3, <3>4, <3>5
  <2>3. <<Above(v), Above(m)>> \in StrictSubsetOrdering(S)
    BY <2>2 DEF StrictSubsetOrdering
  <2>. QED  BY <1>3, <1>4, <2>3
<1>. QED  BY <1>5 DEF Max

-----------------------------------------------------------------------------
(* What the launcher sees. *)

LEMMA PlacedFinite ==
  ASSUME folder \in [Folders -> FolderType]
  PROVE  Placed \subseteq {0} \cup Versions /\ Placed \subseteq Nat /\ IsFiniteSet(Placed)
<1> DEFINE F == {g \in Folders : folder[g].at = "Final"}
           fn == [g \in F |-> folder[g].v]
<1>1. IsFiniteSet(F)
  <2>1. IsFiniteSet(1 .. MaxFolders)
    BY FS_Interval, UpdateAssumption
  <2>2. F \in SUBSET (1 .. MaxFolders)
    BY DEF Folders
  <2>. QED  BY <2>1, <2>2, FS_Subset
<1>2. fn \in Surjection(F, Placed)
  BY DEF Surjection, Placed
<1>3. Placed \subseteq {0} \cup Versions
  BY DEF Placed, FolderType
<1>4. Versions \subseteq Nat
  BY UpdateAssumption DEF Versions
<1>. QED
  <2>. HIDE DEF F, fn
  <2>. QED  BY <1>1, <1>2, <1>3, <1>4, FS_Surjection

LEMMA SelectsPlaced ==
  ASSUME folder \in [Folders -> FolderType], NEW placed \in SUBSET Placed, NEW cur, NEW healthy
  PROVE  SelectVersion(cur, placed, healthy) \in placed \cup {0}
<1>1. IsFiniteSet(placed) /\ IsFiniteSet(placed \cap healthy) /\ placed \subseteq Nat
  BY PlacedFinite, FS_Subset, FS_Intersection
<1>. QED  BY <1>1, HighestExists DEF SelectVersion

LEMMA PlacedFolder ==
  ASSUME NEW v \in Placed
  PROVE  FolderOf(v) \in Folders /\ folder[FolderOf(v)].at = "Final" /\ folder[FolderOf(v)].v = v
BY DEF Placed, FolderOf

-----------------------------------------------------------------------------
(* The structure of the states. *)

\* A number a folder once had, it keeps.
Numbered == \A f \in Folders : folder[f].v = 0 => folder[f] = NoFolder

CopyKnown(r) ==
  /\ r.stage = "Off" => r = Off
  /\ r.stage # "Off" => r.f # 0
  /\ r.f # 0 => folder[r.f].v # 0
  /\ r.stage \in {"Popup", "Extracted", "Prepared"} => r.offer # 0
CopiesKnown == \A c \in Copies : CopyKnown(copy[c])

CurrentKnown == current = 0 \/ current >= Installed

\* trashFolder() works on a folder that is where its step expects it.
LockKnown ==
  /\ lock.by = None => lock = Unlocked
  /\ lock.by = "Cleaner" => cleaner.pc = "Turn" /\ lock.step # None
  /\ lock.step # None => lock.f # 0 /\ folder[lock.f].v # 0
  /\ lock.step = "Rename" => folder[lock.f].at = "Final"
  /\ lock.step \in {"Check", "PutBack"} => folder[lock.f].at # "Final"

\* What is left to be deleted outside the lock has left versions\, and is nobody's to put back.
Gone(f) == folder[f].v # 0 /\ folder[f].at # "Final"
FinTrashKnown == \A u \in Finishers :
  fin[u].f # 0 => Gone(fin[u].f) /\ (lock.step # None => lock.f # fin[u].f)
CleanerTrashKnown ==
  /\ cleaner.f # 0 => cleaner.pc = "Delete" /\ Gone(cleaner.f)
  /\ cleaner.pc = "Turn" => cleaner.own # 0

Structure ==
  TypeOK /\ Numbered /\ CopiesKnown /\ CurrentKnown /\ LockKnown /\ FinTrashKnown /\ CleanerTrashKnown

LEMMA Numbers ==
  /\ Installed \in Nat \ {0} /\ MaxFolders \in Nat /\ MaxFolders >= Installed
  /\ MaxStarts \in Nat /\ MaxInstalls \in Nat /\ MaxKills \in Nat
  /\ Versions \subseteq Nat \ {0} /\ Offers \subseteq Versions /\ \A v \in Offers : v > Installed
  /\ Folders \subseteq Nat \ {0}
<1>1. MaxFolders \in Nat /\ MaxStarts \in Nat /\ MaxInstalls \in Nat /\ MaxKills \in Nat
  BY UpdateAssumption
<1>. QED  BY <1>1, UpdateAssumption DEF Versions, Folders

LEMMA InitStructure == Init => Structure
<1>. SUFFICES ASSUME Init PROVE Structure
  OBVIOUS
<1>1. /\ copy = [c \in Copies |-> Off] /\ fin = [u \in Finishers |-> NoUpdate]
      /\ lock = Unlocked /\ launch = NoLaunch /\ cleaner = NoCleanup
      /\ folder = [f \in Folders |-> IF f <= Installed THEN [NewFolder(f) EXCEPT !.healthy = TRUE] ELSE NoFolder]
  BY DEF Init
<1>2. ASSUME NEW f \in Folders
      PROVE  /\ folder[f] \in FolderType
             /\ folder[f].v = 0 => folder[f] = NoFolder
             /\ folder[f].at = "Final" => folder[f].v = f
  <2>1. CASE f <= Installed
    <3>1. folder[f] = [NewFolder(f) EXCEPT !.healthy = TRUE]
      BY <1>1, <2>1
    <3>2. folder[f] = [v |-> f, at |-> "Final", whole |-> TRUE, healthy |-> TRUE, raced |-> FALSE]
      BY <3>1 DEF NewFolder
    <3>3. f \in {0} \cup Versions /\ f # 0
      BY <2>1, Numbers DEF Versions
    <3>. QED  BY <3>2, <3>3 DEF FolderType
  <2>2. CASE ~(f <= Installed)
    <3>1. folder[f] = NoFolder
      BY <1>1, <2>2
    <3>. QED  BY <3>1 DEF NoFolder, FolderType, None
  <2>. QED  BY <2>1, <2>2
<1>3. TypeOK
  <2>1. current \in {0} \cup Versions /\ notes \subseteq {0} \cup Versions /\ failed \subseteq Versions
    BY Numbers DEF Init, Versions
  <2>2. \A f \in Folders : folder[f] \in FolderType
    BY <1>2
  <2>3. folder \in [Folders -> FolderType]
    BY <2>2 DEF Init
  <2>4. /\ copy \in [Copies -> CopyType]
        /\ launch \in LaunchType
    BY <1>1 DEF Off, CopyType, NoLaunch, LaunchType
  <2>5. \A f \in Folders : folder[f].at = "Final" => folder[f].v = f
    BY <1>2
  <2>. QED
    BY <1>1, <2>1, <2>3, <2>4, <2>5, Numbers
    DEF TypeOK, OneOfEachName, Init, LockType, FinType, CleanerType, Unlocked, NoUpdate, NoCleanup
<1>4. Numbered
  BY <1>2 DEF Numbered
<1>5. CopiesKnown /\ CurrentKnown
  BY <1>1, Numbers DEF CopiesKnown, CopyKnown, CurrentKnown, Off, Init
<1>6. LockKnown /\ FinTrashKnown /\ CleanerTrashKnown
  BY <1>1 DEF LockKnown, FinTrashKnown, CleanerTrashKnown, Unlocked, NoUpdate, NoCleanup, None
<1>. QED  BY <1>3, <1>4, <1>5, <1>6 DEF Structure

\* A copy that is started runs from a folder at its final name.
LEMMA StartedCopy ==
  ASSUME folder \in [Folders -> FolderType], copy \in [Copies -> CopyType], HasRoom,
         NEW v \in Placed, NEW job \in {None} \cup Finishers
  PROVE  \E n \in Copies, f \in Folders :
           /\ copy[n] = Off /\ f # 0 /\ folder[f].at = "Final" /\ folder[f].v = v
           /\ Started(v, job) = [copy EXCEPT ![n] = [stage |-> "Starting", f |-> f, offer |-> 0, job |-> job]]
<1>1. NewCopy \in Copies /\ copy[NewCopy] = Off
  BY DEF NewCopy, HasRoom
<1>2. FolderOf(v) # 0
  BY PlacedFolder DEF Folders
<1>. QED  BY <1>1, <1>2, PlacedFolder DEF Started
-----------------------------------------------------------------------------
(* Facts of the steps, for the parts that no action of theirs is about. *)

KeepsNumbers == \A f \in Folders : folder[f].v # 0 => folder'[f].v = folder[f].v
Counted == starts \in 0..MaxStarts /\ installs \in 0..MaxInstalls /\ kills \in 0..MaxKills
FinForgets == \A u \in Finishers : fin'[u].f \in {0, fin[u].f}

LEMMA LockKept ==
  ASSUME LockKnown, FinTrashKnown, UNCHANGED <<folder, lock>>, FinForgets,
         cleaner' = cleaner \/ lock.by # "Cleaner"
  PROVE  LockKnown' /\ FinTrashKnown'
<1>1. LockKnown'
  BY DEF LockKnown
<1>2. FinTrashKnown'
  BY DEF FinTrashKnown, FinForgets, Gone
<1>. QED  BY <1>1, <1>2

LEMMA CleanerKept ==
  ASSUME CleanerTrashKnown, UNCHANGED <<folder, cleaner>>
  PROVE  CleanerTrashKnown'
BY DEF CleanerTrashKnown, Gone

LEMMA FinRecord ==
  ASSUME NEW r \in FinType, NEW x \in {None} \cup Copies, NEW e \in {None, "Clean", "Crash"}
  PROVE  /\ [r EXCEPT !.closing = x, !.exit = e] \in FinType
         /\ [r EXCEPT !.closing = x, !.exit = e].f = r.f
BY DEF FinType


LEMMA FinSet ==
  ASSUME fin \in [Finishers -> FinType], NEW u \in Finishers, NEW r \in FinType, r.f \in {0, fin[u].f},
         fin' = [fin EXCEPT ![u] = r]
  PROVE  fin' \in [Finishers -> FinType] /\ FinForgets
<1>1. fin' \in [Finishers -> FinType]
  OBVIOUS
<1>2. FinForgets
  BY DEF FinForgets
<1>. QED  BY <1>1, <1>2

LEMMA FinMoves ==
  ASSUME fin \in [Finishers -> FinType], NEW u \in Finishers,
         NEW pc \in {"Idle", "Wait", "Start", "Health", "Commit", "RollBack", "Trashing", "Previous", "Trash",
                     "Delete"},
         Moves(u, pc)
  PROVE  fin' \in [Finishers -> FinType] /\ FinForgets
<1>. DEFINE r == [fin[u] EXCEPT !.pc = pc]
<1>1. fin' = [fin EXCEPT ![u] = r]
  BY DEF Moves
<1>2. r \in FinType /\ r.f = fin[u].f
  BY DEF FinType
<1>. QED
  <2>. HIDE DEF r
  <2>. QED  BY <1>1, <1>2, FinSet

LEMMA FinTried ==
  ASSUME fin \in [Finishers -> FinType], NEW u \in Finishers, NEW pc \in {"Commit", "RollBack"}
  PROVE  LET r == [NoUpdate EXCEPT !.pc = pc, !.v = fin[u].v] IN
         r \in FinType /\ r.f = 0 /\ r.closing = None /\ Tried(u, pc) = [fin EXCEPT ![u] = r]
BY DEF FinType, NoUpdate, Tried

LEMMA FinEnded ==
  ASSUME fin \in [Finishers -> FinType], NEW u \in Finishers, fin' = [fin EXCEPT ![u] = NoUpdate]
  PROVE  fin' \in [Finishers -> FinType] /\ FinForgets
<1>1. NoUpdate \in FinType /\ NoUpdate.f = 0
  BY DEF NoUpdate, FinType
<1>. QED  BY <1>1, FinSet

LEMMA CopySet ==
  ASSUME copy \in [Copies -> CopyType], CopiesKnown, KeepsNumbers, NEW c \in Copies, NEW r \in CopyType, CopyKnown(r),
         copy' = [copy EXCEPT ![c] = r]
  PROVE  copy' \in [Copies -> CopyType] /\ CopiesKnown'
<1>1. copy' \in [Copies -> CopyType]
  OBVIOUS
<1>2. ASSUME NEW d \in Copies PROVE CopyKnown(copy'[d]) /\ copy'[d] \in CopyType
  BY DEF CopiesKnown
<1>3. ASSUME NEW d \in Copies PROVE CopyKnown(copy[d])'
  <2>1. copy'[d].f \in {0} \cup Folders
    BY <1>2 DEF CopyType
  <2>. QED  BY <1>2, <2>1 DEF CopyKnown, KeepsNumbers
<1>. QED  BY <1>1, <1>3 DEF CopiesKnown

LEMMA CopiesEnd ==
  ASSUME copy \in [Copies -> CopyType], CopiesKnown, KeepsNumbers,
         NEW g \in [Copies -> CopyType], copy' = g, \A d \in Copies : g[d] \in {Off, copy[d]}
  PROVE  copy' \in [Copies -> CopyType] /\ CopiesKnown'
<1>1. ASSUME NEW d \in Copies PROVE CopyKnown(copy[d])'
  <2>0. copy[d] \in CopyType /\ CopyKnown(copy[d])
    BY DEF CopiesKnown
  <2>1. CASE g[d] = Off
    BY <2>1 DEF CopyKnown, Off
  <2>2. CASE g[d] = copy[d]
    BY <2>0, <2>2 DEF CopyKnown, KeepsNumbers, CopyType
  <2>. QED  BY <2>1, <2>2
<1>. QED  BY <1>1 DEF CopiesKnown

LEMMA CopyLeft ==
  ASSUME NEW copies \in [Copies -> CopyType], \A d \in Copies : CopyKnown(copies[d]), KeepsNumbers,
         NEW u \in Finishers, copy' = Left(copies, u)
  PROVE  copy' \in [Copies -> CopyType] /\ CopiesKnown'
<1>1. ASSUME NEW d \in Copies
      PROVE  Left(copies, u)[d] \in CopyType /\ CopyKnown(copy[d])'
  <2>1. copies[d] \in CopyType /\ CopyKnown(copies[d])
    OBVIOUS
  <2>2. Left(copies, u)[d] = IF copies[d].job = u THEN [copies[d] EXCEPT !.job = None] ELSE copies[d]
    BY DEF Left
  <2>3. CASE copies[d].job # u
    BY <2>1, <2>2, <2>3 DEF CopyKnown, KeepsNumbers, CopyType
  <2>4. CASE copies[d].job = u
    <3>0. u # None
      BY UpdateAssumption
    <3>1. copies[d].stage # "Off"
      BY <2>1, <2>4, <3>0 DEF CopyKnown, Off
    <3>2. copy'[d] = [copies[d] EXCEPT !.job = None]
      BY <2>2, <2>4
    <3>3. /\ copy'[d] \in CopyType /\ copy'[d].stage = copies[d].stage /\ copy'[d].f = copies[d].f
          /\ copy'[d].offer = copies[d].offer /\ copies[d].f \in {0} \cup Folders
      BY <2>1, <3>2 DEF CopyType
    <3>. QED  BY <2>1, <3>1, <3>3 DEF CopyKnown, KeepsNumbers
  <2>. QED  BY <2>3, <2>4
<1>2. Left(copies, u) = [d \in Copies |-> Left(copies, u)[d]]
  BY DEF Left
<1>. QED  BY <1>1, <1>2 DEF CopiesKnown

LEMMA CopyGoes ==
  ASSUME copy \in [Copies -> CopyType], CopiesKnown, KeepsNumbers, NEW c \in Copies, copy[c].stage # "Off",
         NEW stage \in {"Checking", "Popup", "Extracted", "Prepared", "Open", "Quitting"},
         stage \in {"Popup", "Extracted", "Prepared"} => copy[c].offer # 0,
         Goes(c, stage)
  PROVE  copy' \in [Copies -> CopyType] /\ CopiesKnown'
<1>. DEFINE r == [copy[c] EXCEPT !.stage = stage]
<1>1. copy' = [copy EXCEPT ![c] = r]
  BY DEF Goes
<1>2. r \in CopyType /\ r.stage = stage /\ r.f = copy[c].f /\ r.offer = copy[c].offer
  BY DEF CopyType
<1>3. CopyKnown(r)
  BY <1>2 DEF CopiesKnown, CopyKnown
<1>. QED
  <2>. HIDE DEF r
  <2>. QED  BY <1>1, <1>2, <1>3, CopySet

LEMMA CopyStarts ==
  ASSUME folder \in [Folders -> FolderType], copy \in [Copies -> CopyType], Numbered, CopiesKnown, HasRoom,
         NEW v \in Placed, NEW job \in {None} \cup Finishers
  PROVE  /\ Started(v, job) \in [Copies -> CopyType]
         /\ \A d \in Copies : CopyKnown(Started(v, job)[d])
<1>1. PICK n \in Copies, f \in Folders :
         /\ copy[n] = Off /\ f # 0 /\ folder[f].at = "Final" /\ folder[f].v = v
         /\ Started(v, job) = [copy EXCEPT ![n] = [stage |-> "Starting", f |-> f, offer |-> 0, job |-> job]]
  BY StartedCopy
<1>. DEFINE r == [stage |-> "Starting", f |-> f, offer |-> 0, job |-> job]
<1>2. r \in CopyType
  BY DEF CopyType
<1>3. folder[f].v # 0
  BY <1>1 DEF Numbered, NoFolder, None
<1>4. CopyKnown(r)
  BY <1>1, <1>3 DEF CopyKnown
<1>. HIDE DEF r
<1>5. Started(v, job) = [copy EXCEPT ![n] = r]
  BY <1>1 DEF r
<1>6. \A d \in Copies : Started(v, job)[d] \in {r, copy[d]}
  BY <1>5
<1>7. Started(v, job) \in [Copies -> CopyType]
  BY <1>2, <1>5
<1>8. \A d \in Copies : CopyKnown(copy[d])
  BY DEF CopiesKnown
<1>. QED  BY <1>4, <1>6, <1>7, <1>8

LEMMA CopiesStart ==
  ASSUME folder \in [Folders -> FolderType], copy \in [Copies -> CopyType], Numbered, CopiesKnown, KeepsNumbers,
         HasRoom, NEW v \in Placed, NEW job \in {None} \cup Finishers, copy' = Started(v, job)
  PROVE  copy' \in [Copies -> CopyType] /\ CopiesKnown'
<1>1. copy' \in [Copies -> CopyType] /\ \A d \in Copies : CopyKnown(copy'[d])
  BY CopyStarts
<1>2. ASSUME NEW d \in Copies PROVE CopyKnown(copy[d])'
  <2>1. copy'[d].f \in {0} \cup Folders
    BY <1>1 DEF CopyType
  <2>. QED  BY <1>1, <2>1 DEF CopyKnown, KeepsNumbers
<1>. QED  BY <1>1, <1>2 DEF CopiesKnown

\* A step of a copy or of an update that changes no folder and not the lock.
LEMMA ProcessStep ==
  ASSUME Structure, UNCHANGED <<folder, lock, cleaner, notes, failed>>,
         current' \in {0} \cup Versions, CurrentKnown', launch' \in LaunchType, Counted',
         copy' \in [Copies -> CopyType], CopiesKnown', fin' \in [Finishers -> FinType], FinForgets
  PROVE  Structure'
<1>1. TypeOK'
  BY DEF Structure, TypeOK, OneOfEachName, Counted
<1>2. LockKnown' /\ FinTrashKnown'
  BY LockKept DEF Structure
<1>. QED  BY <1>1, <1>2, CleanerKept DEF Structure, Numbered

-----------------------------------------------------------------------------
(* One lemma for each action. *)

LEMMA LaunchStep ==
  ASSUME Structure, Launch \/ RunDirectly
  PROVE  Structure'
<1>1. /\ UNCHANGED <<launch, disk, lock, fin, cleaner, installs, kills>> /\ MayStart /\ HasRoom
  BY DEF Launch, RunDirectly, LaunchOnly
<1>2. PICK v \in Placed : copy' = Started(v, None)
  <2>1. CASE Launch
    <3>1. SelectVersion(current, Placed, Healthy) \in Placed \cup {0}
      BY SelectsPlaced DEF Structure, TypeOK
    <3>. QED  BY <2>1, <3>1 DEF Launch
  <2>. QED  BY <2>1 DEF RunDirectly
<1>3. copy' \in [Copies -> CopyType] /\ CopiesKnown'
  BY <1>1, <1>2, CopiesStart DEF Structure, TypeOK, KeepsNumbers, disk
<1>4. Counted'
  BY <1>1, Numbers DEF Structure, TypeOK, Counted, MayStart
<1>. QED
  BY <1>1, <1>3, <1>4, ProcessStep DEF Structure, TypeOK, FinForgets, CurrentKnown, disk

LEMMA LaunchWithoutLockStep ==
  ASSUME Structure, LaunchWithoutLock
  PROVE  Structure'
<1>1. /\ UNCHANGED <<copy, disk, lock, fin, cleaner, installs, kills>> /\ MayStart
      /\ launch' = [reading |-> TRUE, cur |-> current, placed |-> Placed, healthy |-> Healthy]
  BY DEF LaunchWithoutLock, LaunchOnly
<1>2. Placed \subseteq Versions /\ Healthy \subseteq Versions
  <2>1. \A f \in Folders : folder[f].at = "Final" => folder[f].v # 0
    BY DEF Structure, Numbered, NoFolder, None
  <2>2. \A f \in Folders : folder[f].v \in {0} \cup Versions
    BY DEF Structure, TypeOK, FolderType
  <2>. QED  BY <2>1, <2>2 DEF Placed, Healthy
<1>3. launch' \in LaunchType
  BY <1>1, <1>2 DEF LaunchType, Structure, TypeOK
<1>4. Counted'
  BY <1>1, Numbers DEF Structure, TypeOK, Counted, MayStart
<1>. QED
  BY <1>1, <1>3, <1>4, ProcessStep DEF Structure, TypeOK, FinForgets, CurrentKnown, CopiesKnown, CopyKnown, disk

LEMMA LaunchSlipsInStep ==
  ASSUME Structure, LaunchSlipsIn
  PROVE  Structure'
<1>. DEFINE v == SelectVersion(launch.cur, launch.placed, launch.healthy)
<1>1. UNCHANGED <<disk, lock, fin, cleaner, installs, kills, starts>> /\ HasRoom
  BY DEF LaunchSlipsIn, LaunchOnly
<1>2. copy' \in [Copies -> CopyType] /\ CopiesKnown' /\ launch' \in LaunchType
  <2>1. CASE v \in Placed /\ copy' = Started(v, None) /\ launch' = NoLaunch
    <3>1. NoLaunch \in LaunchType
      BY DEF NoLaunch, LaunchType
    <3>. QED
      BY <1>1, <2>1, <3>1, CopiesStart DEF Structure, TypeOK, KeepsNumbers, disk
  <2>2. CASE /\ UNCHANGED copy
             /\ launch' = IF launch.placed \ {v} = {} THEN NoLaunch
                          ELSE [launch EXCEPT !.placed = launch.placed \ {v}]
    <3>. HIDE DEF v
    <3>1. launch' \in LaunchType
      BY <2>2 DEF NoLaunch, LaunchType, Structure, TypeOK
    <3>. QED
      BY <1>1, <2>2, <3>1 DEF Structure, TypeOK, CopiesKnown, CopyKnown, disk
  <2>. QED  BY <2>1, <2>2 DEF LaunchSlipsIn
<1>. QED
  BY <1>1, <1>2, ProcessStep DEF Structure, TypeOK, Counted, FinForgets, CurrentKnown, disk

LEMMA OfferStep ==
  ASSUME Structure, NEW c \in Copies, Offer(c)
  PROVE  Structure'
<1>1. UNCHANGED <<disk, fin, cleaner, installs, lock, launch, starts, kills>> /\ copy[c].stage = "Checking"
  BY DEF Offer, CopyOnly
<1>2. PICK v \in Offers : copy' = [copy EXCEPT ![c].stage = "Popup", ![c].offer = v]
  BY DEF Offer
<1>. DEFINE r == [copy[c] EXCEPT !.stage = "Popup", !.offer = v]
<1>3. copy' = [copy EXCEPT ![c] = r]
  BY <1>2 DEF Structure, TypeOK
<1>4. copy[c] \in CopyType /\ CopyKnown(copy[c]) /\ v # 0
  BY Numbers DEF Structure, TypeOK, CopiesKnown
<1>5. r \in CopyType /\ r.stage = "Popup" /\ r.f = copy[c].f /\ r.offer # 0
  BY <1>4 DEF CopyType
<1>. HIDE DEF r
<1>6. CopyKnown(r)
  BY <1>1, <1>4, <1>5 DEF CopyKnown
<1>7. copy' \in [Copies -> CopyType] /\ CopiesKnown'
  BY <1>1, <1>3, <1>5, <1>6, CopySet DEF Structure, TypeOK, KeepsNumbers, disk
<1>. QED
  BY <1>1, <1>7, ProcessStep DEF Structure, TypeOK, Counted, FinForgets, CurrentKnown, disk

LEMMA InstallStep ==
  ASSUME Structure, NEW c \in Copies, Install(c)
  PROVE  Structure'
<1>1. /\ UNCHANGED <<disk, fin, cleaner, lock, launch, starts, kills>> /\ copy[c].stage = "Popup"
      /\ installs < MaxInstalls /\ installs' = installs + 1
  BY DEF Install, CopyOnly
<1>2. PICK stage \in {"Open", "Extracted"} : Goes(c, stage)
  BY DEF Install
<1>3. copy' \in [Copies -> CopyType] /\ CopiesKnown'
  BY <1>1, <1>2, CopyGoes DEF Structure, TypeOK, CopiesKnown, CopyKnown, KeepsNumbers, disk
<1>4. Counted'
  BY <1>1, Numbers DEF Structure, TypeOK, Counted
<1>. QED
  BY <1>1, <1>3, <1>4, ProcessStep DEF Structure, TypeOK, FinForgets, CurrentKnown, disk

LEMMA HandOverStep ==
  ASSUME Structure, NEW c \in Copies, HandOver(c)
  PROVE  Structure'
<1>1. UNCHANGED <<disk, cleaner, installs, lock, launch, starts, kills>> /\ copy[c].stage = "Prepared"
  BY DEF HandOver, CopyOnly
<1>2. PICK stage \in {"Quitting", "Popup"} : Goes(c, stage)
  BY DEF HandOver
<1>3. copy' \in [Copies -> CopyType] /\ CopiesKnown'
  BY <1>1, <1>2, CopyGoes DEF Structure, TypeOK, CopiesKnown, CopyKnown, KeepsNumbers, disk
<1>4. fin' \in [Finishers -> FinType] /\ FinForgets
  <2>1. ASSUME NEW u \in Finishers,
               fin' = [fin EXCEPT ![u] = [NoUpdate EXCEPT !.pc = "Wait", !.v = copy[c].offer, !.closing = c]]
        PROVE  fin' \in [Finishers -> FinType] /\ FinForgets
    <3>. DEFINE r == [NoUpdate EXCEPT !.pc = "Wait", !.v = copy[c].offer, !.closing = c]
    <3>1. copy[c].offer \in {0} \cup Offers
      BY DEF Structure, TypeOK, CopyType
    <3>2. r \in FinType /\ r.f = 0
      BY <3>1 DEF FinType, NoUpdate
    <3>. HIDE DEF r
    <3>3. fin' = [fin EXCEPT ![u] = r]
      BY <2>1 DEF r
    <3>. QED  BY <3>2, <3>3, FinSet DEF Structure, TypeOK
  <2>2. CASE UNCHANGED fin
    BY <2>2 DEF Structure, TypeOK, FinForgets
  <2>. QED  BY <2>1, <2>2 DEF HandOver
<1>. QED
  BY <1>1, <1>3, <1>4, ProcessStep DEF Structure, TypeOK, Counted, CurrentKnown, disk

LEMMA QuitStep ==
  ASSUME Structure, NEW c \in Copies, Quit(c)
  PROVE  Structure'
<1>1. UNCHANGED <<disk, cleaner, installs, lock, launch, starts, kills>>
  BY DEF Quit, CopyOnly
<1>2. PICK exit \in {"Clean", "Crash"} : Ends(c, exit)
  BY DEF Quit
<1>3. copy' = [copy EXCEPT ![c] = Off]
  BY <1>2 DEF Ends
<1>4. ASSUME NEW u \in Finishers
      PROVE  fin'[u] \in FinType /\ fin'[u].f = fin[u].f
  <2>. DEFINE x == IF fin[u].closing = c THEN None ELSE fin[u].closing
              e == IF copy[c].job = u /\ fin[u].pc = "Health" THEN exit ELSE fin[u].exit
  <2>1. fin'[u] = [fin[u] EXCEPT !.closing = x, !.exit = e]
    BY <1>2 DEF Ends
  <2>2. fin[u] \in FinType
    BY DEF Structure, TypeOK
  <2>3. x \in {None} \cup Copies /\ e \in {None, "Clean", "Crash"}
    BY <2>2 DEF FinType
  <2>. HIDE DEF x, e
  <2>. DEFINE r == [fin[u] EXCEPT !.closing = x, !.exit = e]
  <2>4. r \in FinType /\ r.f = fin[u].f
    BY <2>2, <2>3, FinRecord
  <2>. QED  BY <2>1, <2>4
<1>5. copy' \in [Copies -> CopyType] /\ CopiesKnown'
  <2>. DEFINE g == [copy EXCEPT ![c] = Off]
  <2>1. g \in [Copies -> CopyType] /\ \A d \in Copies : g[d] \in {Off, copy[d]}
    BY DEF Structure, TypeOK, CopyType, Off
  <2>. HIDE DEF g
  <2>2. copy' = g
    BY <1>3 DEF g
  <2>. QED  BY <1>1, <2>1, <2>2, CopiesEnd DEF Structure, TypeOK, KeepsNumbers, disk
<1>6. fin' \in [Finishers -> FinType]
  <2>1. fin' = [u \in Finishers |-> fin'[u]]
    BY <1>2 DEF Ends
  <2>. QED  BY <1>4, <2>1
<1>7. FinForgets
  BY <1>4 DEF FinForgets
<1>. QED
  BY <1>1, <1>5, <1>6, <1>7, ProcessStep DEF Structure, TypeOK, Counted, CurrentKnown, disk

LEMMA ClosingCopyGoneStep ==
  ASSUME Structure, NEW u \in Finishers, ClosingCopyGone(u)
  PROVE  Structure'
<1>1. UNCHANGED <<disk, lock, kills, launch, cleaner, starts, installs>>
  BY DEF ClosingCopyGone, UpdateOnly, disk
<1>2. copy' \in [Copies -> CopyType] /\ CopiesKnown'
  <2>. DEFINE g == IF fin[u].closing = None THEN copy ELSE [copy EXCEPT ![fin[u].closing] = Off]
  <2>1. g \in [Copies -> CopyType] /\ \A d \in Copies : g[d] \in {Off, copy[d]}
    BY DEF Structure, TypeOK, CopyType, Off
  <2>2. copy' = g
    BY DEF ClosingCopyGone
  <2>. HIDE DEF g
  <2>. QED  BY <1>1, <2>1, <2>2, CopiesEnd DEF Structure, TypeOK, KeepsNumbers, disk
<1>3. fin' \in [Finishers -> FinType] /\ FinForgets
  <2>. DEFINE r == [fin[u] EXCEPT !.pc = "Start", !.closing = None]
  <2>1. r \in FinType /\ r.f = fin[u].f
    BY DEF Structure, TypeOK, FinType
  <2>2. fin' = [fin EXCEPT ![u] = r]
    BY DEF ClosingCopyGone, Structure, TypeOK
  <2>. HIDE DEF r
  <2>. QED  BY <2>1, <2>2, FinSet DEF Structure, TypeOK
<1>. QED
  BY <1>1, <1>2, <1>3, ProcessStep DEF Structure, TypeOK, Counted, CurrentKnown, disk

LEMMA StartAttemptStep ==
  ASSUME Structure, NEW u \in Finishers, StartAttempt(u)
  PROVE  Structure'
<1>1. UNCHANGED <<disk, lock, kills, launch, cleaner, starts, installs>> /\ HasRoom
  BY DEF StartAttempt, UpdateOnly, disk
<1>2. copy' \in [Copies -> CopyType] /\ CopiesKnown'
  <2>1. CASE fin[u].v \in Placed /\ copy' = Started(fin[u].v, u)
    BY <1>1, <2>1, CopiesStart DEF Structure, TypeOK, KeepsNumbers, disk
  <2>2. CASE UNCHANGED copy
    BY <1>1, <2>2 DEF Structure, TypeOK, CopiesKnown, CopyKnown, disk
  <2>. QED  BY <2>1, <2>2 DEF StartAttempt
<1>3. PICK pc \in {"Health", "RollBack"} : Moves(u, pc)
  BY DEF StartAttempt, Moves
<1>4. fin' \in [Finishers -> FinType] /\ FinForgets
  BY <1>3, FinMoves DEF Structure, TypeOK
<1>. QED
  BY <1>1, <1>2, <1>4, ProcessStep DEF Structure, TypeOK, Counted, CurrentKnown, disk

LEMMA FailsHealthStep ==
  ASSUME Structure, NEW u \in Finishers, FailsHealth(u)
  PROVE  Structure'
<1>1. UNCHANGED <<disk, lock, kills, launch, cleaner, starts, installs>>
  BY DEF FailsHealth, UpdateOnly, disk
<1>2. copy' \in [Copies -> CopyType] /\ CopiesKnown'
  <2>. DEFINE g == [c \in Copies |-> IF copy[c].job = u THEN Off ELSE copy[c]]
  <2>1. g \in [Copies -> CopyType] /\ \A d \in Copies : g[d] \in {Off, copy[d]}
    BY DEF Structure, TypeOK, CopyType, Off
  <2>2. copy' = g
    BY DEF FailsHealth
  <2>. HIDE DEF g
  <2>. QED  BY <1>1, <2>1, <2>2, CopiesEnd DEF Structure, TypeOK, KeepsNumbers, disk
<1>3. ASSUME NEW w \in Finishers
      PROVE  fin'[w] \in FinType /\ fin'[w].f \in {0, fin[w].f}
  <2>. DEFINE t == Tried(u, "RollBack")[w]
              x == IF \E c \in Copies : c = t.closing /\ copy[c].job = u THEN None ELSE t.closing
              r == [t EXCEPT !.closing = x]
  <2>1. t \in FinType /\ t.f \in {0, fin[w].f}
    BY FinTried DEF Structure, TypeOK
  <2>2. fin'[w] = r
    BY DEF FailsHealth
  <2>. HIDE DEF t
  <2>3. x \in {None} \cup Copies
    BY <2>1 DEF FinType
  <2>. HIDE DEF x
  <2>4. r \in FinType /\ r.f = t.f
    BY <2>1, <2>3 DEF FinType
  <2>. QED  BY <2>1, <2>2, <2>4
<1>4. fin' \in [Finishers -> FinType] /\ FinForgets
  <2>1. fin' = [w \in Finishers |-> fin'[w]]
    BY DEF FailsHealth
  <2>. QED  BY <1>3, <2>1 DEF FinForgets
<1>. QED
  BY <1>1, <1>2, <1>4, ProcessStep DEF Structure, TypeOK, Counted, CurrentKnown, disk

LEMMA CommitVersionStep ==
  ASSUME Structure, NEW u \in Finishers, CommitVersion(u)
  PROVE  Structure'
<1>1. UNCHANGED <<folder, notes, failed, lock, kills, launch, cleaner, starts, installs>> /\ FinishEnds(u, copy)
  BY DEF CommitVersion, UpdateOnly
<1>2. copy' \in [Copies -> CopyType] /\ CopiesKnown'
  BY <1>1, CopyLeft DEF Structure, TypeOK, CopiesKnown, KeepsNumbers, FinishEnds
<1>3. fin' \in [Finishers -> FinType] /\ FinForgets
  BY <1>1, FinEnded DEF Structure, TypeOK, FinishEnds
<1>4. current' \in {0} \cup Versions /\ CurrentKnown'
  <2>1. fin[u].v \in {0} \cup Offers
    BY DEF Structure, TypeOK, FinType
  <2>0. current \in Nat /\ current \in {0} \cup Versions /\ fin[u].v \in Nat
    <3>1. current \in {0} \cup Versions
      BY DEF Structure, TypeOK
    <3>2. \A v \in {0} \cup Versions : v \in Nat
      BY Numbers
    <3>3. fin[u].v \in {0} \cup Versions
      BY <2>1, Numbers
    <3>. QED  BY <3>1, <3>2, <3>3
  <2>2. current' \in {current, fin[u].v} /\ current' >= current
    BY <2>0 DEF CommitVersion, ShouldCommit
  <2>3. current' \in {0} \cup Versions
    BY Numbers, <2>0, <2>1, <2>2
  <2>. QED  BY Numbers, <2>0, <2>1, <2>2, <2>3 DEF CurrentKnown, Structure
<1>. QED
  BY <1>1, <1>2, <1>3, <1>4, ProcessStep DEF Structure, TypeOK, Counted

\* What becomes of the lock once trashFolder() is through with a folder.
LEMMA NotTrashedFacts ==
  ASSUME Structure, lock.step # None, NEW mayRetry \in BOOLEAN, NEW back \in BOOLEAN, NotTrashed(mayRetry, back)
  PROVE  /\ lock' \in LockType /\ lock'.step = None
         /\ lock' = Unlocked \/ (lock'.by \in Finishers /\ lock' = [lock EXCEPT !.step = None])
         /\ fin' \in [Finishers -> FinType] /\ FinForgets
         /\ cleaner' \in CleanerType /\ cleaner'.f \in {0, cleaner.f}
         /\ cleaner'.pc = cleaner.pc /\ cleaner'.own = cleaner.own
         /\ back => cleaner'.f = 0 \/ cleaner'.f # lock.f
<1>1. /\ lock \in LockType /\ lock.by # None /\ lock.f \in Folders /\ folder[lock.f].v \in Versions
      /\ lock.by # "Cleaner" => lock.by \in Finishers
      /\ lock.by = "Cleaner" => cleaner.pc = "Turn"
      /\ cleaner \in CleanerType /\ (cleaner.pc = "Turn" => cleaner.f = 0)
      /\ fin \in [Finishers -> FinType]
  BY DEF Structure, TypeOK, LockKnown, CleanerTrashKnown, LockType, FolderType, Unlocked, None
<1>2. Unlocked \in LockType /\ Unlocked.step = None
  BY DEF Unlocked, LockType
<1>3. CASE lock.by = "Cleaner"
  <2>1. lock' = Unlocked /\ UNCHANGED fin
    BY <1>3 DEF NotTrashed
  <2>2. FinForgets
    BY <2>1 DEF FinForgets
  <2>3. cleaner' = cleaner \/ cleaner' = [cleaner EXCEPT !.skipped = @ \cup {folder[lock.f].v}]
    BY <1>3 DEF NotTrashed
  <2>4. /\ cleaner' \in CleanerType /\ cleaner'.f = cleaner.f /\ cleaner'.pc = cleaner.pc
        /\ cleaner'.own = cleaner.own
    BY <1>1, <2>3 DEF CleanerType
  <2>. QED  BY <1>1, <1>2, <1>3, <2>1, <2>2, <2>4
<1>4. CASE lock.by # "Cleaner"
  <2>1. PICK pc \in {"RollBack", "Previous"} : fin' = [fin EXCEPT ![lock.by].pc = pc]
    BY <1>4 DEF NotTrashed
  <2>2. fin' \in [Finishers -> FinType] /\ FinForgets
    BY <1>1, <1>4, <2>1, FinMoves DEF Moves
  <2>3. cleaner' = IF back /\ cleaner.f = lock.f THEN [cleaner EXCEPT !.f = 0] ELSE cleaner
    BY <1>4 DEF NotTrashed
  <2>4. /\ cleaner' \in CleanerType /\ cleaner'.f \in {0, cleaner.f}
        /\ cleaner'.pc = cleaner.pc /\ cleaner'.own = cleaner.own
        /\ back => cleaner'.f = 0 \/ cleaner'.f # lock.f
    BY <1>1, <2>3 DEF CleanerType
  <2>5. lock' = Unlocked \/ lock' = [lock EXCEPT !.step = None]
    BY <1>4 DEF NotTrashed
  <2>6. [lock EXCEPT !.step = None] \in LockType /\ [lock EXCEPT !.step = None].step = None
        /\ [lock EXCEPT !.step = None].by = lock.by
    BY <1>1 DEF LockType
  <2>. QED  BY <1>1, <1>2, <1>4, <2>2, <2>4, <2>5, <2>6
<1>. QED  BY <1>3, <1>4

LEMMA LockReleased ==
  ASSUME lock' \in LockType, lock'.step = None, lock' = Unlocked \/ lock'.by \in Finishers
  PROVE  LockKnown'
<1>1. None \notin Finishers /\ "Cleaner" \notin Finishers /\ Unlocked.by # "Cleaner"
  BY UpdateAssumption DEF Unlocked, None
<1>. QED  BY <1>1 DEF LockKnown, None

LEMMA RenameAwayStep ==
  ASSUME Structure, RenameAway
  PROVE  Structure'
<1>1. /\ UNCHANGED <<current, notes, failed, copy, launch, starts, installs, kills>> /\ lock.step = "Rename"
  BY DEF RenameAway, TrashOnly
<1>2. lock.f \in Folders /\ folder[lock.f].at = "Final" /\ folder[lock.f].v # 0
  BY <1>1 DEF Structure, TypeOK, LockKnown, LockType, None
<1>3. CASE /\ folder' = [folder EXCEPT ![lock.f].at = "Trash"] /\ lock' = [lock EXCEPT !.step = "Check"]
           /\ UNCHANGED <<fin, cleaner>>
  <2>1. \A f \in Folders : /\ folder'[f] \in FolderType /\ folder'[f].v = folder[f].v
                           /\ f # lock.f => folder'[f] = folder[f]
    BY <1>3 DEF Structure, TypeOK, FolderType
  <2>2. folder'[lock.f].at = "Trash"
    BY <1>2, <1>3 DEF Structure, TypeOK
  <2>3. folder' \in [Folders -> FolderType]
    BY <1>3, <2>1 DEF Structure, TypeOK
  <2>4. OneOfEachName'
    BY <2>1, <2>2 DEF Structure, TypeOK, OneOfEachName
  <2>5. lock' \in LockType /\ lock'.step = "Check" /\ lock'.f = lock.f /\ lock'.by = lock.by
    BY <1>3 DEF Structure, TypeOK, LockType
  <2>6. TypeOK'
    BY <1>1, <1>3, <2>3, <2>4, <2>5 DEF Structure, TypeOK
  <2>7. Numbered'
    BY <1>2, <2>1 DEF Structure, Numbered
  <2>8. CopiesKnown'
    BY <1>1, <2>1 DEF Structure, TypeOK, CopiesKnown, CopyKnown, CopyType
  <2>9. LockKnown'
    BY <1>1, <1>2, <1>3, <2>1, <2>2, <2>5 DEF Structure, LockKnown, None, Unlocked
  <2>10. FinTrashKnown'
    BY <1>1, <1>2, <1>3, <2>1, <2>2, <2>5 DEF Structure, TypeOK, FinType, FinTrashKnown, Gone, None
  <2>11. CleanerTrashKnown'
    BY <1>2, <1>3, <2>1, <2>2 DEF Structure, TypeOK, CleanerType, CleanerTrashKnown, Gone
  <2>. QED  BY <1>1, <2>6, <2>7, <2>8, <2>9, <2>10, <2>11 DEF Structure, CurrentKnown
<1>4. CASE NotTrashed(TRUE, FALSE) /\ UNCHANGED folder
  <2>1. /\ lock' \in LockType /\ lock'.step = None
        /\ lock' = Unlocked \/ lock'.by \in Finishers
        /\ fin' \in [Finishers -> FinType] /\ FinForgets
        /\ cleaner' \in CleanerType /\ cleaner'.f \in {0, cleaner.f}
        /\ cleaner'.pc = cleaner.pc /\ cleaner'.own = cleaner.own
    BY <1>1, <1>4, NotTrashedFacts DEF None
  <2>2. TypeOK'
    BY <1>1, <1>4, <2>1 DEF Structure, TypeOK, OneOfEachName
  <2>3. FinTrashKnown'
    BY <1>4, <2>1 DEF Structure, FinTrashKnown, FinForgets, Gone
  <2>4. CleanerTrashKnown'
    BY <1>4, <2>1 DEF Structure, CleanerTrashKnown, Gone
  <2>5. Numbered' /\ CopiesKnown' /\ CurrentKnown'
    BY <1>1, <1>4 DEF Structure, Numbered, CopiesKnown, CopyKnown, CurrentKnown
  <2>. QED  BY <2>1, <2>2, <2>3, <2>4, <2>5, LockReleased DEF Structure
<1>. QED  BY <1>3, <1>4 DEF RenameAway

LEMMA CheckAgainStep ==
  ASSUME Structure, CheckAgain
  PROVE  Structure'
<1>1. /\ UNCHANGED <<folder, current, notes, failed, copy, launch, starts, installs, kills>>
      /\ UNCHANGED cleaner /\ lock.step = "Check"
  BY DEF CheckAgain, TrashOnly, Trashed
<1>2. /\ lock \in LockType /\ lock.f \in Folders /\ Gone(lock.f) /\ lock.by # None
      /\ lock.by # "Cleaner" => lock.by \in Finishers
  BY <1>1 DEF Structure, TypeOK, LockKnown, LockType, Gone, Unlocked, None
<1>3. Numbered' /\ CopiesKnown' /\ CurrentKnown' /\ CleanerTrashKnown'
  BY <1>1 DEF Structure, Numbered, CopiesKnown, CopyKnown, CurrentKnown, CleanerTrashKnown, Gone
<1>4. CASE lock.by = "Cleaner" /\ lock' = Unlocked /\ UNCHANGED fin
  <2>1. lock' \in LockType /\ lock'.step = None
    BY <1>4 DEF Unlocked, LockType
  <2>2. TypeOK'
    BY <1>1, <1>4, <2>1 DEF Structure, TypeOK, OneOfEachName
  <2>3. FinTrashKnown'
    BY <1>1, <1>4, <2>1 DEF Structure, FinTrashKnown, Gone
  <2>. QED  BY <1>3, <1>4, <2>1, <2>2, <2>3, LockReleased DEF Structure
<1>5. CASE /\ lock.by # "Cleaner" /\ lock' = [lock EXCEPT !.step = None]
           /\ fin' = [fin EXCEPT ![lock.by].pc = "Previous", ![lock.by].f = lock.f]
  <2>1. lock' \in LockType /\ lock'.step = None /\ lock'.by = lock.by
    BY <1>2, <1>5 DEF LockType
  <2>. DEFINE r == [fin[lock.by] EXCEPT !.pc = "Previous", !.f = lock.f]
  <2>2. r \in FinType /\ r.f = lock.f
    <3>1. fin[lock.by] \in FinType /\ lock.f \in {0} \cup Folders
      BY <1>2, <1>5 DEF Structure, TypeOK
    <3>. QED  BY <3>1 DEF FinType
  <2>3. fin' = [fin EXCEPT ![lock.by] = r]
    BY <1>2, <1>5 DEF Structure, TypeOK
  <2>. HIDE DEF r
  <2>4. fin' \in [Finishers -> FinType] /\ \A u \in Finishers : fin'[u].f \in {fin[u].f, lock.f}
    BY <1>2, <2>2, <2>3 DEF Structure, TypeOK
  <2>5. TypeOK'
    BY <1>1, <2>1, <2>4 DEF Structure, TypeOK, OneOfEachName
  <2>6. FinTrashKnown'
    BY <1>1, <1>2, <2>1, <2>4 DEF Structure, FinTrashKnown, Gone
  <2>. QED  BY <1>2, <1>3, <1>5, <2>1, <2>5, <2>6, LockReleased DEF Structure
<1>6. CASE lock' = [lock EXCEPT !.step = "PutBack"] /\ UNCHANGED fin
  <2>1. lock' \in LockType /\ lock'.step = "PutBack" /\ lock'.by = lock.by /\ lock'.f = lock.f
    BY <1>2, <1>6 DEF LockType
  <2>2. TypeOK'
    BY <1>1, <1>6, <2>1 DEF Structure, TypeOK, OneOfEachName
  <2>3. LockKnown'
    BY <1>1, <1>2, <2>1 DEF Structure, LockKnown, Gone, None
  <2>4. FinTrashKnown'
    BY <1>1, <1>6, <2>1 DEF Structure, FinTrashKnown, Gone, None
  <2>. QED  BY <1>3, <2>2, <2>3, <2>4 DEF Structure
<1>. QED  BY <1>4, <1>5, <1>6 DEF CheckAgain, Trashed

LEMMA PutBackStep ==
  ASSUME Structure, PutBack
  PROVE  Structure'
<1>1. /\ UNCHANGED <<current, notes, failed, copy, launch, starts, installs, kills>> /\ lock.step = "PutBack"
  BY DEF PutBack, TrashOnly
<1>2. /\ lock \in LockType /\ lock.f \in Folders /\ Gone(lock.f)
      /\ lock.by = "Cleaner" => cleaner.f = 0
  BY <1>1 DEF Structure, TypeOK, LockKnown, LockType, CleanerTrashKnown, Gone, None
<1>3. PICK back \in BOOLEAN :
        /\ NotTrashed(lock.by # "Cleaner", back)
        /\ IF back THEN folder[lock.f].v \notin Placed /\ folder' = [folder EXCEPT ![lock.f].at = "Final"]
                   ELSE UNCHANGED folder
  BY DEF PutBack
<1>4. /\ lock' \in LockType /\ lock'.step = None
      /\ lock' = Unlocked \/ lock'.by \in Finishers
      /\ fin' \in [Finishers -> FinType] /\ FinForgets
      /\ cleaner' \in CleanerType /\ cleaner'.f \in {0, cleaner.f}
      /\ cleaner'.pc = cleaner.pc /\ cleaner'.own = cleaner.own
      /\ back => cleaner'.f = 0 \/ cleaner'.f # lock.f
  BY <1>1, <1>3, NotTrashedFacts DEF None
<1>5. CASE ~back
  <2>1. UNCHANGED folder
    BY <1>3, <1>5
  <2>2. TypeOK'
    BY <1>1, <1>4, <2>1 DEF Structure, TypeOK, OneOfEachName
  <2>3. FinTrashKnown'
    BY <1>4, <2>1 DEF Structure, FinTrashKnown, FinForgets, Gone
  <2>4. CleanerTrashKnown'
    BY <1>4, <2>1 DEF Structure, CleanerTrashKnown, Gone
  <2>5. Numbered' /\ CopiesKnown' /\ CurrentKnown'
    BY <1>1, <2>1 DEF Structure, Numbered, CopiesKnown, CopyKnown, CurrentKnown
  <2>. QED  BY <1>4, <2>2, <2>3, <2>4, <2>5, LockReleased DEF Structure
<1>6. CASE back
  <2>0. folder[lock.f].v \notin Placed /\ folder' = [folder EXCEPT ![lock.f].at = "Final"]
    BY <1>3, <1>6
  <2>1. \A f \in Folders : /\ folder'[f] \in FolderType /\ folder'[f].v = folder[f].v
                           /\ f # lock.f => folder'[f] = folder[f]
    BY <2>0 DEF Structure, TypeOK, FolderType
  <2>2. \A f \in Folders : folder[f].at = "Final" => folder[f].v # folder[lock.f].v
    BY <2>0 DEF Placed
  <2>3. folder' \in [Folders -> FolderType]
    BY <2>0, <2>1 DEF Structure, TypeOK
  <2>4. OneOfEachName'
    BY <2>1, <2>2 DEF Structure, TypeOK, OneOfEachName
  <2>5. TypeOK'
    BY <1>1, <1>4, <2>3, <2>4 DEF Structure, TypeOK
  <2>6. Numbered'
    BY <1>2, <2>1 DEF Structure, Numbered, Gone
  <2>7. CopiesKnown'
    BY <1>1, <2>1 DEF Structure, TypeOK, CopiesKnown, CopyKnown, CopyType
  <2>8. FinTrashKnown'
    BY <1>1, <1>4, <2>1 DEF Structure, TypeOK, FinType, FinTrashKnown, FinForgets, Gone, None
  <2>9. CleanerTrashKnown'
    BY <1>2, <1>4, <1>6, <2>1 DEF Structure, TypeOK, CleanerType, CleanerTrashKnown, Gone
  <2>. QED  BY <1>1, <1>4, <2>5, <2>6, <2>7, <2>8, <2>9, LockReleased DEF Structure, CurrentKnown
<1>. QED  BY <1>5, <1>6

LEMMA BeginFlowStep ==
  ASSUME Structure, NEW c \in Copies, BeginFlow(c)
  PROVE  Structure'
<1>. DEFINE own == folder[copy[c].f].v
<1>1. /\ UNCHANGED <<current, folder, installs, lock, launch, starts, kills>> /\ copy[c].stage = "Starting"
      /\ Goes(c, "Checking")
  BY DEF BeginFlow, CopyOnly
<1>2. copy' \in [Copies -> CopyType] /\ CopiesKnown'
  BY <1>1, CopyGoes DEF Structure, TypeOK, KeepsNumbers
<1>3. notes' \subseteq {0} \cup Versions /\ failed' \subseteq Versions
  <2>1. current \in Nat /\ \A v \in {0} \cup Versions : v \in Nat /\ (v > current => v # 0)
    <3>1. current \in {0} \cup Versions
      BY DEF Structure, TypeOK
    <3>2. \A v \in {0} \cup Versions : v \in Nat
      BY Numbers
    <3>. QED  BY <3>1, <3>2
  <2>. QED  BY <2>1 DEF BeginFlow, Structure, TypeOK
<1>4. own \in {0} \cup Versions /\ own # 0
  <2>1. copy[c] \in CopyType /\ CopyKnown(copy[c])
    BY DEF Structure, TypeOK, CopiesKnown
  <2>2. copy[c].f \in Folders
    BY <1>1, <2>1 DEF CopyKnown, CopyType
  <2>. QED  BY <1>1, <2>1, <2>2 DEF CopyKnown, Structure, TypeOK, FolderType
<1>5. cleaner' \in CleanerType /\ CleanerTrashKnown'
  <2>1. CASE UNCHANGED cleaner
    BY <1>1, <2>1 DEF Structure, TypeOK, CleanerTrashKnown, Gone
  <2>2. CASE cleaner' = [NoCleanup EXCEPT !.pc = "Turn", !.own = own, !.failed = failed']
    <3>1. cleaner' = [pc |-> "Turn", own |-> own, failed |-> failed', skipped |-> {}, f |-> 0]
      BY <2>2 DEF NoCleanup
    <3>. HIDE DEF own
    <3>. QED  BY <1>3, <1>4, <3>1 DEF CleanerType, CleanerTrashKnown
  <2>. QED  BY <2>1, <2>2 DEF BeginFlow
<1>6. fin' \in [Finishers -> FinType] /\ FinForgets
  <2>1. CASE UNCHANGED fin
    BY <2>1 DEF Structure, TypeOK, FinForgets
  <2>2. ASSUME copy[c].job # None, NEW written \in BOOLEAN, fin' = [fin EXCEPT ![copy[c].job].ready = written]
        PROVE  fin' \in [Finishers -> FinType] /\ FinForgets
    <3>. DEFINE u == copy[c].job
                r == [fin[u] EXCEPT !.ready = written]
    <3>1. u \in Finishers
      BY <2>2 DEF Structure, TypeOK, CopyType
    <3>2. fin' = [fin EXCEPT ![u] = r]
      BY <2>2
    <3>3. r \in FinType /\ r.f = fin[u].f
      BY <3>1 DEF Structure, TypeOK, FinType
    <3>. HIDE DEF r, u
    <3>. QED  BY <3>1, <3>2, <3>3, FinSet DEF Structure, TypeOK
  <2>. QED  BY <2>1, <2>2 DEF BeginFlow
<1>7. Numbered' /\ CurrentKnown' /\ OneOfEachName'
  BY <1>1 DEF Structure, TypeOK, Numbered, CurrentKnown, OneOfEachName
<1>8. TypeOK'
  BY <1>1, <1>2, <1>3, <1>5, <1>6, <1>7 DEF Structure, TypeOK
<1>9. LockKnown' /\ FinTrashKnown'
  <2>1. lock.by = "Cleaner" => cleaner' = cleaner
    BY DEF Structure, LockKnown, BeginFlow
  <2>. QED  BY <1>1, <1>6, <2>1, LockKept DEF Structure
<1>. QED  BY <1>2, <1>5, <1>7, <1>8, <1>9 DEF Structure

LEMMA DecideFailureStep ==
  ASSUME Structure, NEW u \in Finishers, DecideFailure(u)
  PROVE  Structure'
<1>1. UNCHANGED <<disk, copy, kills, launch, cleaner, starts, installs>>
  BY DEF DecideFailure, UpdateOnly, disk
<1>2. PICK pc \in {"Previous", "Trashing"}, note \in BOOLEAN : Decided(u, pc, note)
  <2>1. (current < fin[u].v) \in BOOLEAN
    OBVIOUS
  <2>. QED  BY <2>1 DEF DecideFailure
<1>3. fin' \in [Finishers -> FinType] /\ FinForgets
  <2>. DEFINE r == [fin[u] EXCEPT !.pc = pc, !.note = note, !.cur = current]
  <2>1. r \in FinType /\ r.f = fin[u].f
    BY DEF Structure, TypeOK, FinType
  <2>2. fin' = [fin EXCEPT ![u] = r]
    BY <1>2 DEF Decided, Structure, TypeOK
  <2>. HIDE DEF r
  <2>. QED  BY <2>1, <2>2, FinSet DEF Structure, TypeOK
<1>4. Numbered' /\ CurrentKnown' /\ OneOfEachName' /\ CopiesKnown' /\ CleanerTrashKnown'
  BY <1>1 DEF Structure, TypeOK, Numbered, CurrentKnown, OneOfEachName, CopiesKnown, CopyKnown,
              CleanerTrashKnown, Gone, disk
<1>5. lock' \in LockType /\ LockKnown' /\ FinTrashKnown'
  <2>0. u # "Cleaner" /\ u # None
    BY UpdateAssumption
  <2>1. CASE lock' = lock
    <3>1. lock.by = "Cleaner" => cleaner' = cleaner
      BY <1>1
    <3>. QED  BY <1>1, <1>3, <2>1, <3>1, LockKept DEF Structure, TypeOK, disk
  <2>2. CASE lock' = [by |-> u, step |-> None, f |-> 0]
    <3>1. lock' \in LockType /\ lock'.step = None /\ lock'.by = u
      BY <2>2 DEF LockType
    <3>2. FinTrashKnown'
      BY <1>1, <1>3, <3>1 DEF Structure, FinTrashKnown, FinForgets, Gone, disk
    <3>. QED  BY <3>1, <3>2, LockReleased
  <2>3. CASE fin[u].v \in Placed /\ lock' = [by |-> u, step |-> "Rename", f |-> FolderOf(fin[u].v)]
    <3>. DEFINE f == FolderOf(fin[u].v)
    <3>1. f \in Folders /\ folder[f].at = "Final"
      BY <2>3, PlacedFolder
    <3>. HIDE DEF f
    <3>2. folder[f].v # 0 /\ f # 0
      <4>1. f # 0
        BY <3>1, Numbers
      <4>2. NoFolder.at # "Final"
        BY DEF NoFolder, None
      <4>. QED  BY <3>1, <4>1, <4>2 DEF Structure, Numbered
    <3>3. lock' = [by |-> u, step |-> "Rename", f |-> f]
      BY <2>3 DEF f
    <3>4. lock' \in LockType
      BY <3>1, <3>3 DEF LockType
    <3>5. LockKnown'
      BY <1>1, <2>0, <3>1, <3>2, <3>3 DEF LockKnown, None, disk
    <3>6. FinTrashKnown'
      BY <1>1, <1>3, <3>1, <3>3 DEF Structure, FinTrashKnown, FinForgets, Gone, disk
    <3>. QED  BY <3>4, <3>5, <3>6
  <2>. QED  BY <2>1, <2>2, <2>3 DEF DecideFailure, TakeLock
<1>6. TypeOK'
  BY <1>1, <1>3, <1>4, <1>5 DEF Structure, TypeOK, disk
<1>. QED  BY <1>4, <1>5, <1>6 DEF Structure

LEMMA StartPreviousStep ==
  ASSUME Structure, NEW u \in Finishers, StartPrevious(u)
  PROVE  Structure'
<1>. DEFINE v == SelectVersion(fin[u].cur, Candidates(u), Healthy)
            copies == IF v = 0 THEN copy ELSE Started(v, None)
<1>1. UNCHANGED <<current, folder, failed, kills, launch, cleaner, starts, installs>> /\ HasRoom
  BY DEF StartPrevious, UpdateOnly
<1>2. notes' \subseteq {0} \cup Versions
  <2>1. fin[u].v \in {0} \cup Versions
    BY Numbers DEF Structure, TypeOK, FinType
  <2>. QED  BY <2>1 DEF StartPrevious, Structure, TypeOK
<1>3. copies \in [Copies -> CopyType] /\ \A d \in Copies : CopyKnown(copies[d])
  <2>1. v \in Placed \cup {0}
    <3>1. Candidates(u) \in SUBSET Placed
      BY DEF Candidates
    <3>. QED  BY <3>1, SelectsPlaced DEF Structure, TypeOK
  <2>2. CASE v = 0
    BY <2>2 DEF Structure, TypeOK, CopiesKnown
  <2>3. CASE v # 0
    <3>. HIDE DEF v
    <3>. QED  BY <1>1, <2>1, <2>3, CopyStarts DEF Structure, TypeOK
  <2>. QED  BY <2>2, <2>3
<1>4. /\ copy' \in [Copies -> CopyType] /\ CopiesKnown'
      /\ fin' \in [Finishers -> FinType] /\ FinForgets
  <2>1. CASE FinishEnds(u, copies)
    <3>. HIDE DEF copies
    <3>1. copy' \in [Copies -> CopyType] /\ CopiesKnown'
      BY <1>1, <1>3, <2>1, CopyLeft DEF KeepsNumbers, FinishEnds
    <3>2. fin' \in [Finishers -> FinType] /\ FinForgets
      BY <2>1, FinEnded DEF FinishEnds, Structure, TypeOK
    <3>. QED  BY <3>1, <3>2
  <2>2. CASE copy' = copies /\ Moves(u, "Trash")
    <3>. HIDE DEF copies
    <3>1. CopiesKnown'
      BY <1>1, <1>3, <2>2 DEF CopiesKnown, CopyKnown
    <3>2. fin' \in [Finishers -> FinType] /\ FinForgets
      BY <2>2, FinMoves DEF Structure, TypeOK
    <3>. QED  BY <1>3, <2>2, <3>1, <3>2
  <2>. QED  BY <2>1, <2>2 DEF StartPrevious
<1>. HIDE DEF v, copies
<1>5. Numbered' /\ CurrentKnown' /\ OneOfEachName' /\ CleanerTrashKnown'
  BY <1>1 DEF Structure, TypeOK, Numbered, CurrentKnown, OneOfEachName, CleanerTrashKnown, Gone
<1>6. lock' \in LockType /\ LockKnown' /\ FinTrashKnown'
  <2>1. CASE lock' = lock
    BY <1>1, <1>4, <2>1, LockKept DEF Structure, TypeOK
  <2>2. CASE lock' = Unlocked
    <3>1. lock' \in LockType /\ lock'.step = None
      BY <2>2 DEF LockType, Unlocked
    <3>2. FinTrashKnown'
      BY <1>1, <1>4, <3>1 DEF Structure, FinTrashKnown, FinForgets, Gone
    <3>. QED  BY <2>2, <3>1, <3>2, LockReleased
  <2>. QED  BY <2>1, <2>2 DEF StartPrevious
<1>7. TypeOK'
  BY <1>1, <1>2, <1>4, <1>5, <1>6 DEF Structure, TypeOK
<1>. QED  BY <1>4, <1>5, <1>6, <1>7 DEF Structure

LEMMA KillStep ==
  ASSUME Structure, NEW u \in Finishers, Kill(u)
  PROVE  Structure'
<1>1. /\ UNCHANGED <<disk, launch, cleaner, starts, installs>>
      /\ kills < MaxKills /\ kills' = kills + 1 /\ FinishEnds(u, copy)
      /\ lock' \in {lock, Unlocked}
  BY DEF Kill, UpdateOnly, disk, Freed
<1>2. copy' \in [Copies -> CopyType] /\ CopiesKnown'
  BY <1>1, CopyLeft DEF Structure, TypeOK, CopiesKnown, KeepsNumbers, FinishEnds, disk
<1>3. fin' \in [Finishers -> FinType] /\ FinForgets
  BY <1>1, FinEnded DEF Structure, TypeOK, FinishEnds
<1>4. Numbered' /\ CurrentKnown' /\ OneOfEachName' /\ CleanerTrashKnown'
  BY <1>1 DEF Structure, TypeOK, Numbered, CurrentKnown, OneOfEachName, CleanerTrashKnown, Gone, disk
<1>5. lock' \in LockType /\ LockKnown' /\ FinTrashKnown'
  <2>1. CASE lock' = lock
    BY <1>1, <1>3, <2>1, LockKept DEF Structure, TypeOK, disk
  <2>2. CASE lock' = Unlocked
    <3>1. lock' \in LockType /\ lock'.step = None
      BY <2>2 DEF LockType, Unlocked
    <3>2. FinTrashKnown'
      BY <1>1, <1>3, <3>1 DEF Structure, FinTrashKnown, FinForgets, Gone, disk
    <3>. QED  BY <2>2, <3>1, <3>2, LockReleased
  <2>. QED  BY <1>1, <2>1, <2>2
<1>6. Counted'
  BY <1>1, Numbers DEF Structure, TypeOK, Counted
<1>7. TypeOK'
  BY <1>1, <1>2, <1>3, <1>4, <1>5, <1>6 DEF Structure, TypeOK, Counted, disk
<1>. QED  BY <1>2, <1>4, <1>5, <1>7 DEF Structure

LEMMA TargetsArePlaced ==
  ASSUME NEW own, NEW cur, NEW placed, NEW bad
  PROVE  FoldersToClean(own, cur, placed, bad) \subseteq placed
<1>1. CASE own # cur
  BY <1>1 DEF FoldersToClean
<1>2. CASE own = cur
  <2>. DEFINE lower == {v \in placed : v < cur}
  <2>1. FoldersToClean(own, cur, placed, bad) =
          {v \in placed : v > cur /\ v \in bad} \cup {v \in lower : v # Max(lower)}
    BY <1>2 DEF FoldersToClean
  <2>. QED  BY <2>1
<1>. QED  BY <1>1, <1>2

LEMMA CleanerStays ==
  ASSUME Structure, UNCHANGED <<folder, current, notes, failed, copy, launch, fin, starts, installs>>,
         kills' \in 0..MaxKills, cleaner' \in CleanerType, CleanerTrashKnown',
         \/ lock' = lock /\ lock.by # "Cleaner"
         \/ lock' = Unlocked
  PROVE  Structure'
<1>1. Numbered' /\ CurrentKnown' /\ OneOfEachName' /\ CopiesKnown'
  BY DEF Structure, TypeOK, Numbered, CurrentKnown, OneOfEachName, CopiesKnown, CopyKnown
<1>2. lock' \in LockType /\ LockKnown' /\ FinTrashKnown'
  <2>1. CASE lock' = lock /\ lock.by # "Cleaner"
    BY <2>1, LockKept DEF Structure, TypeOK, FinForgets
  <2>2. CASE lock' = Unlocked
    <3>1. lock' \in LockType /\ lock'.step = None
      BY <2>2 DEF LockType, Unlocked
    <3>2. FinTrashKnown'
      BY <3>1 DEF Structure, FinTrashKnown, Gone
    <3>. QED  BY <2>2, <3>1, <3>2, LockReleased
  <2>. QED  BY <2>1, <2>2
<1>3. TypeOK'
  BY <1>1, <1>2 DEF Structure, TypeOK
<1>. QED  BY <1>1, <1>2, <1>3 DEF Structure

LEMMA CleanerGoesOn ==
  ASSUME NEW pc \in {"Idle", "Working"}, cleaner' = [NoCleanup EXCEPT !.pc = pc]
  PROVE  cleaner' \in CleanerType /\ CleanerTrashKnown'
<1>1. cleaner' = [pc |-> pc, own |-> 0, failed |-> {}, skipped |-> {}, f |-> 0]
  BY DEF NoCleanup
<1>2. cleaner' \in CleanerType
  <2>1. pc \in {"Idle", "Turn", "Working", "Delete"} /\ {} \in SUBSET Versions /\ 0 \in {0} \cup Versions
        /\ 0 \in {0} \cup Folders
    OBVIOUS
  <2>2. [pc |-> pc, own |-> 0, failed |-> {}, skipped |-> {}, f |-> 0] \in CleanerType
    BY <2>1, Zenon DEF CleanerType
  <2>. QED  BY <1>1, <2>2
<1>3. cleaner'.f = 0 /\ cleaner'.pc # "Turn"
  BY <1>1
<1>. QED  BY <1>2, <1>3 DEF CleanerTrashKnown

LEMMA CleanTurnStep ==
  ASSUME Structure, CleanTurn
  PROVE  Structure'
<1>. DEFINE targets == FoldersToClean(cleaner.own, current, Placed, cleaner.failed) \ cleaner.skipped
<1>1. /\ UNCHANGED <<folder, kills, current, notes, failed, copy, launch, fin, starts, installs>>
      /\ cleaner.pc = "Turn" /\ lock = Unlocked /\ lock.by # "Cleaner"
  BY DEF CleanTurn, CleanOnly, Unlocked, None
<1>2. kills' \in 0..MaxKills
  BY <1>1 DEF Structure, TypeOK
<1>3. CASE GoesOn /\ UNCHANGED lock
  BY <1>1, <1>2, <1>3, CleanerGoesOn, CleanerStays DEF GoesOn
<1>4. ASSUME NEW v \in targets, cleaner' = [cleaner EXCEPT !.skipped = @ \cup {v}], UNCHANGED lock
      PROVE  Structure'
  <2>1. v \in Versions
    <3>1. v \in Placed
      BY <1>4, TargetsArePlaced
    <3>2. \A f \in Folders : folder[f].at = "Final" => folder[f].v \in Versions
      <4>1. NoFolder.at # "Final"
        BY DEF NoFolder, None
      <4>2. \A f \in Folders : folder[f].v \in {0} \cup Versions
        BY DEF Structure, TypeOK, FolderType
      <4>. QED  BY <4>1, <4>2 DEF Structure, Numbered
    <3>. QED  BY <3>1, <3>2 DEF Placed
  <2>. HIDE DEF targets
  <2>2. /\ cleaner' \in CleanerType /\ cleaner'.f = cleaner.f /\ cleaner'.pc = cleaner.pc
        /\ cleaner'.own = cleaner.own
    BY <1>4, <2>1 DEF Structure, TypeOK, CleanerType
  <2>3. CleanerTrashKnown'
    BY <1>1, <2>2 DEF Structure, CleanerTrashKnown, Gone
  <2>. QED  BY <1>1, <1>2, <1>4, <2>2, <2>3, CleanerStays
<1>5. ASSUME NEW v \in targets, TakeLock("Cleaner", "Rename", FolderOf(v)), UNCHANGED cleaner
      PROVE  Structure'
  <2>. DEFINE f == FolderOf(v)
  <2>0. v \in Placed
    BY TargetsArePlaced
  <2>1. f \in Folders /\ folder[f].at = "Final"
    BY <2>0, PlacedFolder
  <2>. HIDE DEF f
  <2>2. folder[f].v # 0 /\ f # 0
    <3>1. f # 0
      BY <2>1, Numbers
    <3>2. NoFolder.at # "Final"
      BY DEF NoFolder, None
    <3>. QED  BY <2>1, <3>1, <3>2 DEF Structure, Numbered
  <2>3. lock' = [by |-> "Cleaner", step |-> "Rename", f |-> f]
    BY <1>5 DEF f, TakeLock
  <2>4. lock' \in LockType
    BY <2>1, <2>3 DEF LockType
  <2>5. LockKnown'
    BY <1>1, <1>5, <2>1, <2>2, <2>3 DEF LockKnown, None
  <2>6. FinTrashKnown'
    BY <1>1, <2>1, <2>3 DEF Structure, FinTrashKnown, Gone
  <2>7. Numbered' /\ CurrentKnown' /\ OneOfEachName' /\ CopiesKnown' /\ CleanerTrashKnown'
    BY <1>1, <1>5 DEF Structure, TypeOK, Numbered, CurrentKnown, OneOfEachName, CopiesKnown, CopyKnown,
                      CleanerTrashKnown, Gone
  <2>8. TypeOK'
    BY <1>1, <1>5, <2>4, <2>7 DEF Structure, TypeOK
  <2>. QED  BY <2>5, <2>6, <2>7, <2>8 DEF Structure
<1>. QED  BY <1>3, <1>4, <1>5 DEF CleanTurn

LEMMA CleanGivesUpStep ==
  ASSUME Structure, CleanGivesUp
  PROVE  Structure'
<1>1. /\ UNCHANGED <<folder, lock, kills, current, notes, failed, copy, launch, fin, starts, installs>>
      /\ lock.by # "Cleaner" /\ GoesOn
  BY DEF CleanGivesUp, CleanOnly
<1>2. kills' \in 0..MaxKills
  BY <1>1 DEF Structure, TypeOK
<1>. QED  BY <1>1, <1>2, CleanerGoesOn, CleanerStays DEF GoesOn

LEMMA KillCleanerStep ==
  ASSUME Structure, KillCleaner
  PROVE  Structure'
<1>1. /\ UNCHANGED <<folder, current, notes, failed, copy, launch, fin, starts, installs>>
      /\ kills < MaxKills /\ kills' = kills + 1 /\ cleaner' = NoCleanup /\ lock' = Freed("Cleaner")
  BY DEF KillCleaner, CleanOnly
<1>2. kills' \in 0..MaxKills
  BY <1>1, Numbers DEF Structure, TypeOK
<1>3. cleaner' = [NoCleanup EXCEPT !.pc = "Idle"]
  BY <1>1 DEF NoCleanup
<1>4. (lock' = lock /\ lock.by # "Cleaner") \/ lock' = Unlocked
  BY <1>1 DEF Freed
<1>. QED  BY <1>1, <1>2, <1>3, <1>4, CleanerGoesOn, CleanerStays

-----------------------------------------------------------------------------
(* The steps that write to a folder. *)

\* Nothing but a folder that is gone may lose anything; its number stays.
LEMMA DeleteTreeFacts ==
  ASSUME folder \in [Folders -> FolderType], NEW f \in {0} \cup Folders, NEW done \in BOOLEAN, DeleteTree(f, done)
  PROVE  /\ folder' \in [Folders -> FolderType]
         /\ \A g \in Folders :
              \/ folder'[g] = folder[g]
              \/ /\ g = f /\ folder[g].at = "Trash"
                 /\ folder'[g].at # "Final" /\ folder'[g].v = folder[g].v
<1>1. CASE /\ folder' = [folder EXCEPT ![f].whole = FALSE, ![f].raced = lock.f = f /\ lock.step # None]
           /\ f # 0 /\ folder[f].at = "Trash"
  <2>. DEFINE r == [folder[f] EXCEPT !.whole = FALSE, !.raced = lock.f = f /\ lock.step # None]
  <2>1. r \in FolderType /\ r.v = folder[f].v /\ r.at = folder[f].at
    BY <1>1 DEF FolderType
  <2>2. folder' = [folder EXCEPT ![f] = r]
    BY <1>1
  <2>. HIDE DEF r
  <2>. QED  BY <1>1, <2>1, <2>2
<1>2. CASE /\ folder' = [folder EXCEPT ![f].at = None, ![f].healthy = FALSE, ![f].raced = FALSE]
           /\ f # 0 /\ folder[f].at = "Trash"
  <2>. DEFINE r == [folder[f] EXCEPT !.at = None, !.healthy = FALSE, !.raced = FALSE]
  <2>1. r \in FolderType /\ r.v = folder[f].v /\ r.at = None
    BY <1>2 DEF FolderType
  <2>2. folder' = [folder EXCEPT ![f] = r]
    BY <1>2
  <2>. HIDE DEF r
  <2>. QED  BY <1>2, <2>1, <2>2 DEF None
<1>3. CASE UNCHANGED folder
  BY <1>3
<1>. QED  BY <1>1, <1>2, <1>3 DEF DeleteTree

\* A step that changes no number, and takes no folder to or from its final name.
LEMMA FoldersStay ==
  ASSUME Structure, folder' \in [Folders -> FolderType], UNCHANGED <<lock, current>>,
         \A f \in Folders : \/ folder'[f] = folder[f]
                            \/ /\ folder[f].v # 0 /\ folder'[f].v = folder[f].v
                               /\ (folder'[f].at = "Final") = (folder[f].at = "Final")
  PROVE  Numbered' /\ CurrentKnown' /\ OneOfEachName' /\ KeepsNumbers
<1>1. Numbered' /\ CurrentKnown'
  BY DEF Structure, TypeOK, Numbered, CurrentKnown
<1>2. OneOfEachName'
  BY DEF Structure, TypeOK, OneOfEachName
<1>3. KeepsNumbers
  BY DEF KeepsNumbers
<1>. QED  BY <1>1, <1>2, <1>3

LEMMA LockStays ==
  ASSUME Structure, UNCHANGED lock, fin \in [Finishers -> FinType], FinForgets,
         cleaner' = cleaner \/ lock.by # "Cleaner",
         \A f \in Folders : /\ folder'[f].v = folder[f].v
                            /\ (folder'[f].at = "Final") = (folder[f].at = "Final")
  PROVE  LockKnown' /\ FinTrashKnown'
<1>1. \A f \in Folders : Gone(f) => Gone(f)'
  BY DEF Gone
<1>2. lock.f \in {0} \cup Folders
  BY DEF Structure, TypeOK, LockType
<1>3. LockKnown'
  BY <1>2 DEF Structure, LockKnown, None
<1>4. \A u \in Finishers : fin[u].f \in {0} \cup Folders
  BY DEF FinType
<1>5. FinTrashKnown'
  BY <1>1, <1>4 DEF Structure, FinTrashKnown, FinForgets
<1>. QED  BY <1>3, <1>5

LEMMA PlaceStep ==
  ASSUME Structure, NEW c \in Copies, Place(c)
  PROVE  Structure'
<1>. DEFINE v == copy[c].offer
<1>1. UNCHANGED <<current, notes, failed, fin, cleaner, installs, lock, launch, starts, kills>>
  BY DEF Place, CopyOnly
<1>2. copy[c].stage = "Extracted" /\ v \in Offers /\ v # 0
  BY DEF Place, Structure, TypeOK, CopiesKnown, CopyKnown, CopyType
<1>3. PICK stage \in {"Prepared", "Popup"} : Goes(c, stage)
  BY DEF Place
<1>4. CASE UNCHANGED folder
  <2>1. copy' \in [Copies -> CopyType] /\ CopiesKnown'
    BY <1>2, <1>3, <1>4, CopyGoes DEF Structure, TypeOK, KeepsNumbers
  <2>. QED
    BY <1>1, <1>4, <2>1, ProcessStep DEF Structure, TypeOK, Counted, FinForgets, CurrentKnown
<1>5. ASSUME NEW f \in Folders, folder[f] = NoFolder, v \notin Placed, folder' = [folder EXCEPT ![f] = NewFolder(v)]
      PROVE  Structure'
  <2>. HIDE DEF v
  <2>1. /\ NewFolder(v) \in FolderType /\ NewFolder(v).v = v /\ NewFolder(v).at = "Final"
        /\ folder[f].v = 0 /\ folder[f].at = None
    BY <1>2, <1>5, Numbers DEF NewFolder, FolderType, NoFolder
  <2>2. /\ folder' \in [Folders -> FolderType] /\ folder'[f] = NewFolder(v)
        /\ \A g \in Folders : g # f => folder'[g] = folder[g]
    BY <1>5, <2>1 DEF Structure, TypeOK
  <2>3. OneOfEachName'
    <3>1. \A g \in Folders : folder[g].at = "Final" => folder[g].v # v
      BY <1>5 DEF Placed
    <3>. QED  BY <2>1, <2>2, <3>1 DEF Structure, TypeOK, OneOfEachName
  <2>4. Numbered' /\ CurrentKnown' /\ KeepsNumbers
    BY <1>1, <1>2, <2>1, <2>2 DEF Structure, Numbered, CurrentKnown, KeepsNumbers
  <2>5. copy' \in [Copies -> CopyType] /\ CopiesKnown'
    BY <1>2, <1>3, <2>4, CopyGoes DEF Structure, TypeOK, v
  <2>6. LockKnown' /\ FinTrashKnown' /\ CleanerTrashKnown'
    <3>1. \A g \in Folders : folder[g].v # 0 => folder'[g] = folder[g]
      BY <2>1, <2>2
    <3>2. /\ lock.f \in {0} \cup Folders /\ cleaner.f \in {0} \cup Folders
          /\ \A u \in Finishers : fin[u].f \in {0} \cup Folders
      BY DEF Structure, TypeOK, LockType, CleanerType, FinType
    <3>3. LockKnown'
      BY <1>1, <3>1, <3>2 DEF Structure, LockKnown, None
    <3>4. FinTrashKnown'
      BY <1>1, <3>1, <3>2 DEF Structure, FinTrashKnown, Gone
    <3>5. CleanerTrashKnown'
      BY <1>1, <3>1, <3>2 DEF Structure, CleanerTrashKnown, Gone
    <3>. QED  BY <3>3, <3>4, <3>5
  <2>7. TypeOK'
    BY <1>1, <2>2, <2>3, <2>5 DEF Structure, TypeOK
  <2>. QED  BY <2>4, <2>5, <2>6, <2>7 DEF Structure
<1>. QED  BY <1>4, <1>5 DEF Place, MayPlace

LEMMA PassesHealthStep ==
  ASSUME Structure, NEW u \in Finishers, PassesHealth(u)
  PROVE  Structure'
<1>1. UNCHANGED <<current, notes, failed, lock, kills, launch, cleaner, starts, installs>>
  BY DEF PassesHealth, UpdateOnly
<1>2. /\ folder' \in [Folders -> FolderType]
      /\ \A f \in Folders : folder'[f] = folder[f] \/ (folder[f].v # 0 /\ folder'[f].v = folder[f].v
                                                       /\ folder'[f].at = folder[f].at)
  <2>1. CASE UNCHANGED folder
    BY <2>1 DEF Structure, TypeOK
  <2>2. CASE fin[u].v \in Placed /\ folder' = [folder EXCEPT ![FolderOf(fin[u].v)].healthy = TRUE]
    <3>. DEFINE f == FolderOf(fin[u].v)
                r == [folder[f] EXCEPT !.healthy = TRUE]
    <3>1. f \in Folders /\ folder[f].at = "Final"
      BY <2>2, PlacedFolder
    <3>2. folder' = [folder EXCEPT ![f] = r]
      BY <2>2
    <3>. HIDE DEF f
    <3>3. folder[f].v # 0
      <4>1. NoFolder.at # "Final"
        BY DEF NoFolder, None
      <4>. QED  BY <3>1, <4>1 DEF Structure, Numbered
    <3>4. r \in FolderType /\ r.v = folder[f].v /\ r.at = folder[f].at
      BY <3>1 DEF Structure, TypeOK, FolderType
    <3>. HIDE DEF r
    <3>. QED  BY <3>1, <3>2, <3>3, <3>4 DEF Structure, TypeOK
  <2>. QED  BY <2>1, <2>2 DEF PassesHealth
<1>3. Numbered' /\ CurrentKnown' /\ OneOfEachName' /\ KeepsNumbers
  BY <1>1, <1>2, FoldersStay
<1>4. copy' \in [Copies -> CopyType] /\ CopiesKnown'
  <2>1. copy' = Left(copy, u)
    BY DEF PassesHealth
  <2>. QED  BY <1>3, <2>1, CopyLeft DEF Structure, TypeOK, CopiesKnown
<1>5. fin' \in [Finishers -> FinType] /\ FinForgets
  <2>. DEFINE r == [NoUpdate EXCEPT !.pc = "Commit", !.v = fin[u].v]
  <2>1. r \in FinType /\ r.f = 0 /\ Tried(u, "Commit") = [fin EXCEPT ![u] = r]
    BY FinTried DEF Structure, TypeOK
  <2>2. fin' = [fin EXCEPT ![u] = r]
    BY <2>1 DEF PassesHealth
  <2>. HIDE DEF r
  <2>. QED  BY <2>1, <2>2, FinSet DEF Structure, TypeOK
<1>6. LockKnown' /\ FinTrashKnown'
  BY <1>1, <1>2, <1>5, LockStays DEF Structure, TypeOK
<1>7. CleanerTrashKnown'
  BY <1>1, <1>2 DEF Structure, TypeOK, CleanerType, CleanerTrashKnown, Gone
<1>8. TypeOK'
  BY <1>1, <1>2, <1>3, <1>4, <1>5 DEF Structure, TypeOK
<1>. QED  BY <1>3, <1>4, <1>6, <1>7, <1>8 DEF Structure

LEMMA DeleteItsTrashStep ==
  ASSUME Structure, NEW u \in Finishers, DeleteItsTrash(u)
  PROVE  Structure'
<1>1. UNCHANGED <<current, notes, failed, lock, kills, launch, cleaner, starts, installs>>
  BY DEF DeleteItsTrash, UpdateOnly, disk
<1>2. /\ folder' \in [Folders -> FolderType]
      /\ \A f \in Folders : folder'[f] = folder[f] \/ (folder[f].v # 0 /\ folder'[f].v = folder[f].v
                                        /\ folder[f].at # "Final" /\ folder'[f].at # "Final")
  <2>1. CASE UNCHANGED folder
    BY <2>1 DEF Structure, TypeOK
  <2>2. ASSUME NEW done \in BOOLEAN, DeleteTree(fin[u].f, done)
        PROVE  <1>2
    <3>1. fin[u].f \in {0} \cup Folders /\ (fin[u].f # 0 => folder[fin[u].f].v # 0)
      BY DEF Structure, TypeOK, FinType, FinTrashKnown, Gone
    <3>2. /\ folder' \in [Folders -> FolderType]
          /\ \A g \in Folders :
               \/ folder'[g] = folder[g]
               \/ /\ g = fin[u].f /\ folder[g].at = "Trash"
                  /\ folder'[g].at # "Final" /\ folder'[g].v = folder[g].v
      BY <2>2, <3>1, DeleteTreeFacts DEF Structure, TypeOK
    <3>3. \A g \in Folders : g # 0
      BY Numbers
    <3>. QED  BY <3>1, <3>2, <3>3
  <2>. QED  BY <2>1, <2>2 DEF DeleteItsTrash, disk
<1>3. Numbered' /\ CurrentKnown' /\ OneOfEachName' /\ KeepsNumbers
  BY <1>1, <1>2, FoldersStay
<1>4. /\ copy' \in [Copies -> CopyType] /\ CopiesKnown'
      /\ fin' \in [Finishers -> FinType] /\ FinForgets
  <2>1. CASE FinishEnds(u, copy)
    BY <1>3, <2>1, CopyLeft, FinEnded DEF Structure, TypeOK, CopiesKnown, FinishEnds
  <2>2. CASE UNCHANGED copy
    <3>1. CopiesKnown'
      BY <1>3, <2>2 DEF Structure, TypeOK, CopiesKnown, CopyKnown, CopyType, KeepsNumbers
    <3>2. CASE Moves(u, "Delete")
      BY <2>2, <3>1, <3>2, FinMoves DEF Structure, TypeOK
    <3>3. CASE UNCHANGED fin
      BY <2>2, <3>1, <3>3 DEF Structure, TypeOK, FinForgets
    <3>4. CASE FinishEnds(u, copy)
      BY <2>1, <3>4
    <3>. QED  BY <3>2, <3>3, <3>4 DEF DeleteItsTrash
  <2>. QED  BY <2>1, <2>2 DEF DeleteItsTrash
<1>5. LockKnown' /\ FinTrashKnown'
  BY <1>1, <1>2, <1>4, LockStays DEF Structure, TypeOK
<1>6. CleanerTrashKnown'
  BY <1>1, <1>2 DEF Structure, TypeOK, CleanerType, CleanerTrashKnown, Gone
<1>7. TypeOK'
  BY <1>1, <1>2, <1>3, <1>4 DEF Structure, TypeOK
<1>. QED  BY <1>3, <1>4, <1>5, <1>6, <1>7 DEF Structure

LEMMA RemoveWorkingFoldersStep ==
  ASSUME Structure, RemoveWorkingFolders
  PROVE  Structure'
<1>1. /\ UNCHANGED <<current, notes, failed, lock, kills, launch, copy, fin, starts, installs>>
      /\ cleaner.pc # "Turn"
  BY DEF RemoveWorkingFolders, CleanOnly
<1>2. /\ folder' \in [Folders -> FolderType]
      /\ \A f \in Folders : folder'[f] = folder[f] \/ (folder[f].v # 0 /\ folder'[f].v = folder[f].v
                                        /\ folder[f].at # "Final" /\ folder'[f].at # "Final")
  <2>1. CASE UNCHANGED folder
    BY <2>1 DEF Structure, TypeOK
  <2>2. ASSUME NEW done \in BOOLEAN, DeleteTree(cleaner.f, done)
        PROVE  <1>2
    <3>1. cleaner.f \in {0} \cup Folders /\ (cleaner.f # 0 => folder[cleaner.f].v # 0)
      BY DEF Structure, TypeOK, CleanerType, CleanerTrashKnown, Gone
    <3>2. /\ folder' \in [Folders -> FolderType]
          /\ \A g \in Folders :
               \/ folder'[g] = folder[g]
               \/ /\ g = cleaner.f /\ folder[g].at = "Trash"
                  /\ folder'[g].at # "Final" /\ folder'[g].v = folder[g].v
      BY <2>2, <3>1, DeleteTreeFacts DEF Structure, TypeOK
    <3>3. \A g \in Folders : g # 0
      BY Numbers
    <3>. QED  BY <3>1, <3>2, <3>3
  <2>. QED  BY <2>1, <2>2 DEF RemoveWorkingFolders
<1>3. Numbered' /\ CurrentKnown' /\ OneOfEachName' /\ KeepsNumbers
  BY <1>1, <1>2, FoldersStay
<1>4. CopiesKnown'
  BY <1>1, <1>3 DEF Structure, TypeOK, CopiesKnown, CopyKnown, CopyType, KeepsNumbers
<1>5. LockKnown' /\ FinTrashKnown'
  <2>1. lock.by # "Cleaner" /\ FinForgets
    BY <1>1 DEF Structure, LockKnown, FinForgets
  <2>. QED  BY <1>1, <1>2, <2>1, LockStays DEF Structure, TypeOK
<1>6. cleaner' \in CleanerType /\ CleanerTrashKnown'
  <2>1. CASE UNCHANGED cleaner
    BY <1>2, <2>1 DEF Structure, TypeOK, CleanerType, CleanerTrashKnown, Gone
  <2>2. CASE cleaner' = NoCleanup
    <3>1. cleaner' = [NoCleanup EXCEPT !.pc = "Idle"]
      BY <2>2 DEF NoCleanup
    <3>. QED  BY <3>1, CleanerGoesOn
  <2>3. CASE cleaner' = [cleaner EXCEPT !.pc = "Working", !.f = 0]
    <3>1. cleaner' \in CleanerType /\ cleaner'.f = 0 /\ cleaner'.pc = "Working"
      BY <2>3 DEF Structure, TypeOK, CleanerType
    <3>. QED  BY <3>1 DEF CleanerTrashKnown
  <2>4. ASSUME NEW f \in Folders, folder[f].at = "Trash", UNCHANGED folder,
               cleaner' = [cleaner EXCEPT !.pc = "Delete", !.f = f]
        PROVE  <1>6
    <3>1. cleaner' \in CleanerType /\ cleaner'.f = f /\ cleaner'.pc = "Delete"
      BY <2>4 DEF Structure, TypeOK, CleanerType
    <3>2. folder[f].v # 0
      <4>1. NoFolder.at # "Trash"
        BY DEF NoFolder, None
      <4>. QED  BY <2>4, <4>1 DEF Structure, Numbered
    <3>. QED  BY <2>4, <3>1, <3>2 DEF CleanerTrashKnown, Gone
  <2>. QED  BY <2>1, <2>2, <2>3, <2>4 DEF RemoveWorkingFolders
<1>7. TypeOK'
  BY <1>1, <1>2, <1>3, <1>6 DEF Structure, TypeOK
<1>. QED  BY <1>3, <1>4, <1>5, <1>6, <1>7 DEF Structure

-----------------------------------------------------------------------------
(* What the structure gives. *)

LEMMA StructureKept == Structure /\ [Next]_vars => Structure'
<1>. SUFFICES ASSUME Structure, [Next]_vars PROVE Structure'
  OBVIOUS
<1>1. CASE Launch \/ LaunchWithoutLock \/ LaunchSlipsIn \/ RunDirectly
  BY <1>1, LaunchStep, LaunchWithoutLockStep, LaunchSlipsInStep
<1>2. ASSUME NEW c \in Copies, Qk4(c) PROVE Structure'
  BY <1>2, BeginFlowStep, OfferStep, InstallStep, PlaceStep, HandOverStep, QuitStep DEF Qk4
<1>3. CASE TrashStep
  BY <1>3, RenameAwayStep, CheckAgainStep, PutBackStep DEF TrashStep
<1>4. ASSUME NEW u \in Finishers, Finish(u) PROVE Structure'
  BY <1>4, ClosingCopyGoneStep, StartAttemptStep, PassesHealthStep, FailsHealthStep, CommitVersionStep,
     DecideFailureStep, StartPreviousStep, DeleteItsTrashStep DEF Finish
<1>5. CASE Cleanup \/ KillCleaner
  BY <1>5, CleanTurnStep, CleanGivesUpStep, RemoveWorkingFoldersStep, KillCleanerStep DEF Cleanup
<1>6. CASE UNCHANGED vars
  <2>1. UNCHANGED <<folder, lock, cleaner, notes, failed, current, launch, copy, fin, starts, installs, kills>>
    BY <1>6 DEF vars, disk
  <2>2. CurrentKnown' /\ CopiesKnown' /\ FinForgets /\ Counted'
    BY <2>1 DEF Structure, TypeOK, CurrentKnown, CopiesKnown, CopyKnown, FinForgets, Counted
  <2>. QED  BY <2>1, <2>2, ProcessStep DEF Structure, TypeOK
<1>. QED  BY <1>1, <1>2, <1>3, <1>4, <1>5, <1>6, KillStep DEF Next

\* Every state has its type, and no two folders have one final name: prepareVersionFolder() looks at the
\* name, and PutBack puts nothing over a folder that has taken it.
THEOREM TypeCorrect == Spec => []TypeOK
<1>1. Structure => TypeOK
  BY DEF Structure
<1>. QED  BY <1>1, InitStructure, StructureKept, PTL DEF Spec

\* current.txt only moves forward, in whatever order attempts for different versions finish: nothing but
\* commitVersion() writes it, and only a higher version (main.cpp).
THEOREM MovesForward == Spec => CurrentMovesForward
<1>1. Structure /\ [Next]_vars => [current' >= current]_vars
  <2>. SUFFICES ASSUME Structure, Next PROVE current' >= current
    OBVIOUS
  <2>0. current \in Nat
    <3>1. current \in {0} \cup Versions
      BY DEF Structure, TypeOK
    <3>. QED  BY <3>1, Numbers
  <2>1. CASE \E u \in Finishers : CommitVersion(u)
    <3>1. PICK u \in Finishers : CommitVersion(u)
      BY <2>1
    <3>2. current' = current \/ (ShouldCommit(fin[u].v, current) /\ current' = fin[u].v)
      BY <3>1 DEF CommitVersion
    <3>3. fin[u].v \in Nat
      <4>1. fin[u].v \in {0} \cup Offers
        BY DEF Structure, TypeOK, FinType
      <4>2. \A v \in {0} \cup Offers : v \in Nat
        BY Numbers
      <4>. QED  BY <4>1, <4>2
    <3>. QED  BY <2>0, <3>2, <3>3 DEF ShouldCommit
  <2>2. CASE UNCHANGED current
    BY <2>0, <2>2
  <2>3. CASE Launch \/ LaunchWithoutLock \/ LaunchSlipsIn \/ RunDirectly
    BY <2>2, <2>3 DEF Launch, LaunchWithoutLock, LaunchSlipsIn, RunDirectly, LaunchOnly, disk
  <2>4. CASE \E c \in Copies : Qk4(c)
    BY <2>2, <2>4 DEF Qk4, BeginFlow, Offer, Install, Place, HandOver, Quit, disk
  <2>5. CASE TrashStep
    BY <2>2, <2>5 DEF TrashStep, RenameAway, CheckAgain, PutBack, TrashOnly
  <2>6. ASSUME NEW u \in Finishers, Finish(u) \/ Kill(u) PROVE current' >= current
    BY <2>1, <2>2, <2>6 DEF Finish, Kill, ClosingCopyGone, StartAttempt, PassesHealth, FailsHealth,
                            DecideFailure, StartPrevious, DeleteItsTrash, disk
  <2>7. CASE Cleanup \/ KillCleaner
    BY <2>2, <2>7 DEF Cleanup, CleanTurn, CleanGivesUp, RemoveWorkingFolders, KillCleaner, CleanOnly
  <2>. QED  BY <2>3, <2>4, <2>5, <2>6, <2>7 DEF Next
<1>. QED  BY <1>1, InitStructure, StructureKept, PTL DEF Spec, CurrentMovesForward

-----------------------------------------------------------------------------
(* What keeps the folders. *)

Low(f) == folder[f].at = "Final" /\ (folder[f].v <= current \/ folder[f].v <= Installed)
Sound(f) == folder[f].whole \/ folder[f].raced

\* Nothing runs from what is being deleted, and what may be put back has lost nothing, except in the race.
NothingRuns ==
  /\ \A u \in Finishers : fin[u].f # 0 /\ fin[u].pc = "Delete" => ~RunsFrom(fin[u].f)
  /\ cleaner.f # 0 => ~RunsFrom(cleaner.f)
  /\ lock.step \in {"Check", "PutBack"} => Sound(lock.f) \/ folder[lock.f].at = None

\* A version that is not newer than the current one stays, beside the one that is about to be renamed.
OneStays ==
  /\ \E f \in Folders : Low(f)
  /\ lock.step = "Rename" => \E f \in Folders \ {lock.f} : Low(f)

Safe == FoldersAreWhole /\ NothingRuns /\ OneStays

SameFolder(f) ==
  /\ folder'[f].at = folder[f].at /\ folder'[f].v = folder[f].v
  /\ folder'[f].whole = folder[f].whole /\ folder'[f].raced = folder[f].raced
FoldersLast == \A f \in Folders : SameFolder(f) \/ (folder[f].v = 0 /\ folder'[f].whole)
CopiesRunPlaced == \A c \in Copies : copy'[c].f \in {0, copy[c].f} \/ folder[copy'[c].f].at = "Final"
DeletesUnused ==
  /\ \A u \in Finishers : fin'[u].f # 0 /\ fin'[u].pc = "Delete" =>
       fin'[u].f = fin[u].f /\ (fin[u].pc = "Delete" \/ (UNCHANGED copy /\ ~RunsFrom(fin[u].f)))
  /\ cleaner'.f # 0 => cleaner'.f = cleaner.f \/ (UNCHANGED copy /\ ~RunsFrom(cleaner'.f))
LockSteps ==
  \/ lock'.step = None
  \/ lock'.f = lock.f /\ (lock'.step = lock.step \/ (lock.step = "Check" /\ lock'.step = "PutBack"))
  \/ lock'.step = "Rename" /\ \E f \in Folders \ {lock'.f} : Low(f)

LEMMA InitSafe == Init => Safe
<1>. SUFFICES ASSUME Init PROVE Safe
  OBVIOUS
<1>1. /\ copy = [c \in Copies |-> Off] /\ fin = [u \in Finishers |-> NoUpdate]
      /\ lock = Unlocked /\ cleaner = NoCleanup
      /\ folder = [f \in Folders |-> IF f <= Installed THEN [NewFolder(f) EXCEPT !.healthy = TRUE] ELSE NoFolder]
  BY DEF Init
<1>2. NothingRuns
  BY <1>1 DEF NothingRuns, Off, NoUpdate, NoCleanup, Unlocked, None
<1>3. FoldersAreWhole
  BY <1>1 DEF FoldersAreWhole, NewFolder, NoFolder, None
<1>4. 1 \in Folders /\ 1 <= Installed
  BY Numbers DEF Folders
<1>5. folder[1].at = "Final" /\ folder[1].v <= Installed
  BY <1>1, <1>4 DEF NewFolder
<1>6. OneStays
  BY <1>1, <1>4, <1>5 DEF OneStays, Low, Unlocked, None
<1>. QED  BY <1>2, <1>3, <1>6 DEF Safe

LEMMA SafeStep ==
  ASSUME Structure, Structure', Safe, current' >= current, FoldersLast, CopiesRunPlaced, DeletesUnused, LockSteps
  PROVE  Safe'
<1>1. /\ \A f \in Folders : folder[f].v # 0 => SameFolder(f)
      /\ \A c \in Copies : copy[c].f \in {0} \cup Folders /\ (copy[c].f # 0 => folder[copy[c].f].v # 0)
      /\ \A u \in Finishers : fin[u].f \in {0} \cup Folders /\ (fin[u].f # 0 => Gone(fin[u].f))
      /\ cleaner.f \in {0} \cup Folders /\ (cleaner.f # 0 => Gone(cleaner.f))
      /\ lock.f \in {0} \cup Folders /\ (lock.step # None => folder[lock.f].v # 0 /\ lock.f # 0)
      /\ \A f \in Folders : folder[f].at = "Final" => folder[f].v # 0
  <2>1. \A f \in Folders : folder[f].at = "Final" => folder[f].v # 0
    <3>1. NoFolder.at # "Final"
      BY DEF NoFolder, None
    <3>. QED  BY <3>1 DEF Structure, Numbered
  <2>2. \A c \in Copies : copy[c].f \in {0} \cup Folders /\ (copy[c].f # 0 => folder[copy[c].f].v # 0)
    BY DEF Structure, TypeOK, CopyType, CopiesKnown, CopyKnown
  <2>3. \A u \in Finishers : fin[u].f \in {0} \cup Folders /\ (fin[u].f # 0 => Gone(fin[u].f))
    BY DEF Structure, TypeOK, FinType, FinTrashKnown
  <2>4. cleaner.f \in {0} \cup Folders /\ (cleaner.f # 0 => Gone(cleaner.f))
    BY DEF Structure, TypeOK, CleanerType, CleanerTrashKnown
  <2>5. lock.f \in {0} \cup Folders /\ (lock.step # None => folder[lock.f].v # 0 /\ lock.f # 0)
    BY DEF Structure, TypeOK, LockType, LockKnown
  <2>6. \A f \in Folders : folder[f].v # 0 => SameFolder(f)
    BY DEF FoldersLast
  <2>. QED  BY <2>1, <2>2, <2>3, <2>4, <2>5, <2>6
<1>2. FoldersAreWhole'
  BY DEF FoldersAreWhole, FoldersLast, SameFolder, Safe
<1>3. \A c \in Copies : copy'[c].f \in {0} \cup Folders
  BY DEF Structure, TypeOK, CopyType
<1>4. ASSUME NEW f \in Folders, Gone(f), ~RunsFrom(f)
      PROVE  \A c \in Copies : copy'[c].f # f
  BY <1>4, Numbers DEF CopiesRunPlaced, Gone, RunsFrom
<1>5. NothingRuns'
  <2>1. ASSUME NEW u \in Finishers, fin'[u].f # 0, fin'[u].pc = "Delete"
        PROVE  \A c \in Copies : copy'[c].f # fin'[u].f
    <3>1. fin'[u].f = fin[u].f /\ ~RunsFrom(fin[u].f)
      BY <2>1 DEF DeletesUnused, Safe, NothingRuns
    <3>2. fin[u].f \in Folders /\ Gone(fin[u].f)
      BY <1>1, <2>1, <3>1
    <3>. QED  BY <1>4, <3>1, <3>2
  <2>2. ASSUME cleaner'.f # 0 PROVE \A c \in Copies : copy'[c].f # cleaner'.f
    <3>1. ~RunsFrom(cleaner'.f)
      BY <2>2 DEF DeletesUnused, Safe, NothingRuns
    <3>2. CASE UNCHANGED copy
      BY <3>1, <3>2 DEF RunsFrom
    <3>3. CASE cleaner'.f = cleaner.f
      <4>1. cleaner.f \in Folders /\ Gone(cleaner.f)
        BY <1>1, <2>2, <3>3
      <4>. QED  BY <1>4, <3>1, <3>3, <4>1
    <3>. QED  BY <2>2, <3>2, <3>3 DEF DeletesUnused
  <2>3. lock'.step \in {"Check", "PutBack"} => Sound(lock.f)' \/ folder'[lock'.f].at = None
    <3>1. SUFFICES ASSUME lock'.step \in {"Check", "PutBack"} PROVE Sound(lock.f)' \/ folder'[lock'.f].at = None
      OBVIOUS
    <3>2. lock'.f = lock.f /\ lock.step \in {"Check", "PutBack"}
      BY <3>1 DEF LockSteps, None
    <3>3. lock.f \in Folders /\ folder[lock.f].v # 0 /\ (Sound(lock.f) \/ folder[lock.f].at = None)
      BY <1>1, <3>2 DEF Safe, NothingRuns, None
    <3>. QED  BY <1>1, <3>2, <3>3 DEF SameFolder, Sound
  <2>. QED  BY <2>1, <2>2, <2>3 DEF NothingRuns, RunsFrom
<1>6. ASSUME NEW f \in Folders, Low(f) PROVE Low(f)'
  <2>1. \A v \in {0} \cup Versions : v \in Nat
    BY Numbers
  <2>2. current \in Nat /\ current' \in Nat /\ folder[f].v \in Nat
    BY <2>1 DEF Structure, TypeOK, FolderType
  <2>3. SameFolder(f)
    BY <1>1, <1>6 DEF Low
  <2>. QED  BY <1>6, <2>2, <2>3 DEF Low, SameFolder
<1>7. OneStays'
  <2>1. \E f \in Folders : Low(f)'
    BY <1>6 DEF Safe, OneStays
  <2>2. ASSUME lock'.step = "Rename" PROVE \E f \in Folders \ {lock'.f} : Low(f)'
    <3>1. \E f \in Folders \ {lock'.f} : Low(f)
      BY <2>2 DEF LockSteps, Safe, OneStays, None
    <3>. QED  BY <1>6, <3>1
  <2>. QED  BY <2>1, <2>2 DEF OneStays
<1>. QED  BY <1>2, <1>5, <1>7 DEF Safe

\* No launcher begins to delete.
FinQuiet == \A u \in Finishers :
  fin'[u].pc = "Delete" => fin[u].pc = "Delete" /\ fin'[u].f = fin[u].f

LEMMA StartedPlaced ==
  ASSUME Structure, HasRoom, NEW v \in Placed, NEW job \in {None} \cup Finishers
  PROVE  \A c \in Copies : Started(v, job)[c].f = copy[c].f \/ folder[Started(v, job)[c].f].at = "Final"
<1>1. PICK n \in Copies, f \in Folders :
         /\ copy[n] = Off /\ f # 0 /\ folder[f].at = "Final" /\ folder[f].v = v
         /\ Started(v, job) = [copy EXCEPT ![n] = [stage |-> "Starting", f |-> f, offer |-> 0, job |-> job]]
  BY StartedCopy DEF Structure, TypeOK
<1>. QED  BY <1>1 DEF Structure, TypeOK

LEMMA LeftRuns ==
  ASSUME NEW copies \in [Copies -> CopyType], NEW u
  PROVE  \A c \in Copies : Left(copies, u)[c].f = copies[c].f
BY DEF Left, CopyType

LEMMA QuietStep ==
  ASSUME Structure, Structure', Safe, UNCHANGED <<folder, current>>, CopiesRunPlaced, FinQuiet, LockSteps,
         cleaner'.f \in {0, cleaner.f}
  PROVE  Safe'
<1>1. FoldersLast /\ DeletesUnused
  BY DEF FoldersLast, SameFolder, DeletesUnused, FinQuiet
<1>2. current' >= current
  <2>1. \A v \in {0} \cup Versions : v \in Nat
    BY Numbers
  <2>. QED  BY <2>1 DEF Structure, TypeOK
<1>. QED  BY <1>1, <1>2, SafeStep

LEMMA SafeLaunch ==
  ASSUME Structure, Structure', Safe, Launch \/ LaunchWithoutLock \/ LaunchSlipsIn \/ RunDirectly
  PROVE  Safe'
<1>1. UNCHANGED <<disk, lock, fin, cleaner>>
  BY DEF Launch, LaunchWithoutLock, LaunchSlipsIn, RunDirectly, LaunchOnly
<1>2. CopiesRunPlaced
  <2>1. CASE UNCHANGED copy
    BY <2>1 DEF CopiesRunPlaced
  <2>2. ASSUME HasRoom, NEW v \in Placed, copy' = Started(v, None) PROVE CopiesRunPlaced
    BY <2>2, StartedPlaced DEF CopiesRunPlaced
  <2>3. SelectVersion(current, Placed, Healthy) \in Placed \cup {0}
    BY SelectsPlaced DEF Structure, TypeOK
  <2>. QED  BY <2>1, <2>2, <2>3 DEF Launch, LaunchWithoutLock, LaunchSlipsIn, RunDirectly
<1>. QED  BY <1>1, <1>2, QuietStep DEF FinQuiet, LockSteps, disk

LEMMA SafeCopy ==
  ASSUME Structure, Structure', Safe, NEW c \in Copies,
         BeginFlow(c) \/ Offer(c) \/ Install(c) \/ HandOver(c) \/ Quit(c)
  PROVE  Safe'
<1>1. UNCHANGED <<folder, current, lock>>
  BY DEF BeginFlow, Offer, Install, HandOver, Quit, CopyOnly, disk
<1>2. CopiesRunPlaced
  <2>. SUFFICES ASSUME NEW d \in Copies PROVE copy'[d].f \in {0, copy[d].f}
    BY DEF CopiesRunPlaced
  <2>1. copy \in [Copies -> CopyType]
    BY DEF Structure, TypeOK
  <2>2. ASSUME NEW stage, Goes(c, stage) PROVE copy'[d].f = copy[d].f
    BY <2>1, <2>2 DEF Goes, CopyType
  <2>3. CASE Offer(c)
    <3>1. PICK v \in Offers : copy' = [copy EXCEPT ![c].stage = "Popup", ![c].offer = v]
      BY <2>3 DEF Offer
    <3>. QED  BY <2>1, <3>1 DEF CopyType
  <2>4. CASE Quit(c)
    <3>1. copy' = [copy EXCEPT ![c] = Off] /\ Off.f = 0
      BY <2>4 DEF Quit, Ends, Off
    <3>. QED  BY <2>1, <3>1
  <2>. QED  BY <2>2, <2>3, <2>4 DEF BeginFlow, Install, HandOver
<1>3. FinQuiet
  <2>. SUFFICES ASSUME NEW w \in Finishers, fin'[w].pc = "Delete"
                PROVE  fin[w].pc = "Delete" /\ fin'[w].f = fin[w].f
    BY DEF FinQuiet
  <2>1. fin \in [Finishers -> FinType] /\ fin[w] \in FinType
    BY DEF Structure, TypeOK
  <2>2. CASE UNCHANGED fin
    BY <2>2
  <2>3. CASE BeginFlow(c)
    <3>1. ASSUME NEW written \in BOOLEAN, fin' = [fin EXCEPT ![copy[c].job].ready = written]
          PROVE  fin[w].pc = "Delete" /\ fin'[w].f = fin[w].f
      BY <2>1, <3>1 DEF FinType
    <3>. QED  BY <2>2, <2>3, <3>1 DEF BeginFlow
  <2>4. CASE HandOver(c)
    <3>1. ASSUME NEW u \in Finishers, NEW r, r.pc = "Wait", fin' = [fin EXCEPT ![u] = r]
          PROVE  fin[w].pc = "Delete" /\ fin'[w].f = fin[w].f
      BY <2>1, <3>1
    <3>2. [NoUpdate EXCEPT !.pc = "Wait", !.v = copy[c].offer, !.closing = c].pc = "Wait"
      BY DEF NoUpdate
    <3>. QED  BY <2>2, <2>4, <3>1, <3>2 DEF HandOver
  <2>5. CASE Quit(c)
    <3>1. PICK exit : Ends(c, exit)
      BY <2>5 DEF Quit
    <3>2. PICK x, e : fin'[w] = [fin[w] EXCEPT !.closing = x, !.exit = e]
      BY <3>1 DEF Ends
    <3>. QED  BY <2>1, <3>2 DEF FinType
  <2>. QED  BY <2>2, <2>3, <2>4, <2>5 DEF Offer, Install
<1>4. cleaner'.f \in {0, cleaner.f}
  <2>1. CASE UNCHANGED cleaner
    BY <2>1
  <2>2. CASE cleaner' = [NoCleanup EXCEPT !.pc = "Turn", !.own = folder[copy[c].f].v, !.failed = failed']
    BY <2>2 DEF NoCleanup
  <2>. QED  BY <2>1, <2>2 DEF BeginFlow, Offer, Install, HandOver, Quit
<1>. QED  BY <1>1, <1>2, <1>3, <1>4, QuietStep DEF LockSteps

LEMMA SafePlace ==
  ASSUME Structure, Structure', Safe, NEW c \in Copies, Place(c)
  PROVE  Safe'
<1>1. UNCHANGED <<current, fin, cleaner, lock>>
  BY DEF Place, CopyOnly
<1>2. CopiesRunPlaced
  <2>1. copy \in [Copies -> CopyType] /\ \E stage \in {"Prepared", "Popup"} : Goes(c, stage)
    BY DEF Structure, TypeOK, Place
  <2>. QED  BY <2>1 DEF CopiesRunPlaced, Goes, CopyType
<1>3. FoldersLast
  <2>1. CASE UNCHANGED folder
    BY <2>1 DEF FoldersLast, SameFolder
  <2>2. ASSUME NEW f \in Folders, folder[f] = NoFolder, folder' = [folder EXCEPT ![f] = NewFolder(copy[c].offer)]
        PROVE  FoldersLast
    <3>1. folder[f].v = 0 /\ NewFolder(copy[c].offer).whole
      BY <2>2 DEF NoFolder, NewFolder
    <3>2. folder'[f] = NewFolder(copy[c].offer) /\ \A g \in Folders : g # f => folder'[g] = folder[g]
      BY <2>2 DEF Structure, TypeOK
    <3>. QED  BY <3>1, <3>2 DEF FoldersLast, SameFolder
  <2>. QED  BY <2>1, <2>2 DEF Place
<1>4. current' >= current
  <2>1. \A v \in {0} \cup Versions : v \in Nat
    BY Numbers
  <2>. QED  BY <1>1, <2>1 DEF Structure, TypeOK
<1>. QED  BY <1>1, <1>2, <1>3, <1>4, SafeStep DEF LockSteps, DeletesUnused

LEMMA SafeUpdate ==
  ASSUME Structure, Structure', Safe, NEW u \in Finishers,
         ClosingCopyGone(u) \/ StartAttempt(u) \/ FailsHealth(u) \/ StartPrevious(u)
  PROVE  Safe'
<1>1. copy \in [Copies -> CopyType] /\ fin \in [Finishers -> FinType] /\ Off.f = 0
  BY DEF Structure, TypeOK, Off
<1>2. UNCHANGED <<folder, current, cleaner>>
  BY DEF ClosingCopyGone, StartAttempt, FailsHealth, StartPrevious, UpdateOnly, disk
<1>3. LockSteps
  <2>1. lock' \in {lock, Unlocked}
    BY DEF ClosingCopyGone, StartAttempt, FailsHealth, StartPrevious
  <2>. QED  BY <2>1 DEF LockSteps, Unlocked
<1>4. CopiesRunPlaced
  <2>1. CASE ClosingCopyGone(u)
    <3>1. copy' = IF fin[u].closing = None THEN copy ELSE [copy EXCEPT ![fin[u].closing] = Off]
      BY <2>1 DEF ClosingCopyGone
    <3>. QED  BY <1>1, <3>1 DEF CopiesRunPlaced
  <2>2. CASE StartAttempt(u)
    <3>1. CASE UNCHANGED copy
      BY <3>1 DEF CopiesRunPlaced
    <3>2. CASE HasRoom /\ fin[u].v \in Placed /\ copy' = Started(fin[u].v, u)
      BY <3>2, StartedPlaced DEF CopiesRunPlaced
    <3>. QED  BY <2>2, <3>1, <3>2 DEF StartAttempt
  <2>3. CASE FailsHealth(u)
    <3>1. copy' = [c \in Copies |-> IF copy[c].job = u THEN Off ELSE copy[c]]
      BY <2>3 DEF FailsHealth
    <3>. QED  BY <1>1, <3>1 DEF CopiesRunPlaced
  <2>4. CASE StartPrevious(u)
    <3>. DEFINE v == SelectVersion(fin[u].cur, Candidates(u), Healthy)
                copies == IF v = 0 THEN copy ELSE Started(v, None)
    <3>1. v \in Placed \cup {0}
      <4>1. Candidates(u) \in SUBSET Placed
        BY DEF Candidates
      <4>. QED  BY <4>1, SelectsPlaced DEF Structure, TypeOK
    <3>2. HasRoom /\ (FinishEnds(u, copies) \/ copy' = copies)
      BY <2>4 DEF StartPrevious
    <3>. HIDE DEF v
    <3>3. \A c \in Copies : copies[c].f = copy[c].f \/ folder[copies[c].f].at = "Final"
      BY <3>1, <3>2, StartedPlaced
    <3>4. copies \in [Copies -> CopyType]
      <4>1. CASE v = 0
        BY <1>1, <4>1
      <4>2. CASE v # 0
        BY <3>1, <3>2, <4>2, CopyStarts DEF Structure, TypeOK
      <4>. QED  BY <4>1, <4>2
    <3>. HIDE DEF copies
    <3>5. \A c \in Copies : copy'[c].f = copies[c].f
      BY <3>2, <3>4, LeftRuns DEF FinishEnds
    <3>. QED  BY <3>3, <3>5 DEF CopiesRunPlaced
  <2>. QED  BY <2>1, <2>2, <2>3, <2>4
<1>5. FinQuiet
  <2>. SUFFICES ASSUME NEW w \in Finishers, fin'[w].pc = "Delete"
                PROVE  fin[w].pc = "Delete" /\ fin'[w].f = fin[w].f
    BY DEF FinQuiet
  <2>1. fin[w] \in FinType
    BY <1>1
  <2>2. ASSUME NEW pc \in {"Health", "RollBack", "Trash"}, Moves(u, pc)
        PROVE  fin[w].pc = "Delete" /\ fin'[w].f = fin[w].f
    BY <1>1, <2>1, <2>2 DEF Moves, FinType
  <2>3. CASE ClosingCopyGone(u)
    <3>1. fin' = [fin EXCEPT ![u].pc = "Start", ![u].closing = None]
      BY <2>3 DEF ClosingCopyGone
    <3>. QED  BY <1>1, <2>1, <3>1 DEF FinType
  <2>4. CASE StartAttempt(u)
    <3>1. fin' = [fin EXCEPT ![u].pc = "Health"] \/ fin' = [fin EXCEPT ![u].pc = "RollBack"]
      BY <2>4 DEF StartAttempt, Moves
    <3>. QED  BY <2>2, <3>1 DEF Moves
  <2>5. CASE FailsHealth(u)
    <3>. DEFINE t == Tried(u, "RollBack")[w]
    <3>1. t.pc = "RollBack" \/ t = fin[w]
      BY <1>1 DEF Tried, NoUpdate
    <3>2. PICK x : fin'[w] = [t EXCEPT !.closing = x]
      BY <2>5 DEF FailsHealth
    <3>3. t \in FinType
      BY <1>1, FinTried DEF Tried
    <3>. HIDE DEF t
    <3>. QED  BY <2>1, <3>1, <3>2, <3>3 DEF FinType
  <2>6. CASE StartPrevious(u)
    <3>1. Moves(u, "Trash") \/ fin' = [fin EXCEPT ![u] = NoUpdate]
      BY <2>6 DEF StartPrevious, FinishEnds
    <3>2. CASE fin' = [fin EXCEPT ![u] = NoUpdate]
      BY <1>1, <2>1, <3>2 DEF NoUpdate
    <3>. QED  BY <2>2, <3>1, <3>2
  <2>. QED  BY <2>3, <2>4, <2>5, <2>6
<1>. QED  BY <1>2, <1>3, <1>4, <1>5, QuietStep

LEMMA SafeEnds ==
  ASSUME Structure, Structure', Safe, NEW u \in Finishers, PassesHealth(u) \/ CommitVersion(u) \/ Kill(u)
  PROVE  Safe'
<1>1. copy \in [Copies -> CopyType] /\ fin \in [Finishers -> FinType]
  BY DEF Structure, TypeOK
<1>2. UNCHANGED cleaner
  BY DEF PassesHealth, CommitVersion, Kill, UpdateOnly
<1>3. LockSteps
  <2>1. lock' \in {lock, Unlocked}
    BY DEF PassesHealth, CommitVersion, Kill, Freed
  <2>. QED  BY <2>1 DEF LockSteps, Unlocked
<1>4. CopiesRunPlaced
  <2>1. copy' = Left(copy, u)
    BY DEF PassesHealth, CommitVersion, Kill, FinishEnds
  <2>. QED  BY <1>1, <2>1, LeftRuns DEF CopiesRunPlaced
<1>5. DeletesUnused
  <2>1. ASSUME NEW r, r.pc # "Delete", fin' = [fin EXCEPT ![u] = r] PROVE FinQuiet
    BY <1>1, <2>1 DEF FinQuiet
  <2>2. NoUpdate.pc # "Delete" /\ [NoUpdate EXCEPT !.pc = "Commit", !.v = fin[u].v].pc # "Delete"
    BY DEF NoUpdate
  <2>3. FinQuiet
    BY <2>1, <2>2 DEF PassesHealth, CommitVersion, Kill, FinishEnds, Tried
  <2>. QED  BY <1>2, <2>3 DEF FinQuiet, DeletesUnused
<1>6. FoldersLast
  <2>1. CASE UNCHANGED folder
    BY <2>1 DEF FoldersLast, SameFolder
  <2>2. ASSUME NEW f, folder' = [folder EXCEPT ![f].healthy = TRUE] PROVE FoldersLast
    BY <2>2 DEF FoldersLast, SameFolder, Structure, TypeOK, FolderType
  <2>. QED  BY <2>1, <2>2 DEF PassesHealth, CommitVersion, Kill, disk
<1>7. current' >= current
  <2>1. /\ \A v \in {0} \cup Versions : v \in Nat
        /\ \A v \in {0} \cup Offers : v \in Nat
    BY Numbers
  <2>2. current \in Nat /\ fin[u].v \in Nat
    BY <1>1, <2>1 DEF Structure, TypeOK, FinType
  <2>3. UNCHANGED current \/ (ShouldCommit(fin[u].v, current) /\ current' = fin[u].v)
    BY DEF PassesHealth, CommitVersion, Kill, disk
  <2>. QED  BY <2>2, <2>3 DEF ShouldCommit
<1>. QED  BY <1>2, <1>3, <1>4, <1>5, <1>6, <1>7, SafeStep

\* A rollback renames a version that is newer than the current one away, and newer than those of the start:
\* an older one stays.
LEMMA SafeDecide ==
  ASSUME Structure, Structure', Safe, NEW u \in Finishers, DecideFailure(u)
  PROVE  Safe'
<1>1. UNCHANGED <<folder, current, copy, cleaner>>
  BY DEF DecideFailure, UpdateOnly, disk
<1>2. FinQuiet
  <2>1. PICK pc \in {"Previous", "Trashing"}, note \in BOOLEAN : Decided(u, pc, note)
    <3>1. (current < fin[u].v) \in BOOLEAN
      OBVIOUS
    <3>. QED  BY <3>1 DEF DecideFailure
  <2>. QED  BY <2>1 DEF Decided, FinQuiet, Structure, TypeOK, FinType
<1>3. LockSteps
  <2>1. CASE UNCHANGED lock
    BY <2>1 DEF LockSteps
  <2>2. CASE TakeLock(u, None, 0)
    BY <2>2 DEF LockSteps, TakeLock
  <2>3. CASE /\ current < fin[u].v /\ fin[u].v \in Placed
             /\ TakeLock(u, "Rename", FolderOf(fin[u].v))
    <3>1. lock'.step = "Rename" /\ lock'.f = FolderOf(fin[u].v)
      BY <2>3 DEF TakeLock
    <3>2. folder[FolderOf(fin[u].v)].v = fin[u].v
      BY <2>3, PlacedFolder
    <3>3. fin[u].v \in Nat /\ current \in Nat /\ fin[u].v > Installed
      <4>1. /\ \A v \in {0} \cup Versions : v \in Nat
            /\ \A v \in {0} \cup Offers : v \in Nat
        BY Numbers
      <4>2. current \in Nat /\ fin[u].v \in Nat /\ fin[u].v \in {0} \cup Offers
        BY <4>1 DEF Structure, TypeOK, FinType
      <4>. QED  BY <2>3, <4>2, Numbers
    <3>4. PICK f \in Folders : Low(f)
      BY DEF Safe, OneStays
    <3>5. f # FolderOf(fin[u].v)
      BY <2>3, <3>2, <3>3, <3>4, Numbers DEF Low
    <3>. QED  BY <3>1, <3>4, <3>5 DEF LockSteps
  <2>. QED  BY <2>1, <2>2, <2>3 DEF DecideFailure
<1>. QED  BY <1>1, <1>2, <1>3, QuietStep DEF CopiesRunPlaced

\* The cleanup spares the highest version below the current one; a failed version above it is no loss.
LEMMA SafeTurn ==
  ASSUME Structure, Structure', Safe, CleanTurn
  PROVE  Safe'
<1>. DEFINE targets == FoldersToClean(cleaner.own, current, Placed, cleaner.failed) \ cleaner.skipped
<1>1. UNCHANGED <<folder, current, copy, fin>> /\ cleaner.pc = "Turn"
  BY DEF CleanTurn, CleanOnly
<1>2. cleaner'.f \in {0, cleaner.f}
  BY DEF CleanTurn, GoesOn, NoCleanup, Structure, TypeOK, CleanerType
<1>3. LockSteps
  <2>1. CASE UNCHANGED lock
    BY <2>1 DEF LockSteps
  <2>2. ASSUME NEW v \in targets, TakeLock("Cleaner", "Rename", FolderOf(v))
        PROVE  LockSteps
    <3>0. v \in Placed
      BY TargetsArePlaced
    <3>1. folder[FolderOf(v)].v = v
      BY <3>0, PlacedFolder
    <3>2. lock'.step = "Rename" /\ lock'.f = FolderOf(v)
      BY <2>2 DEF TakeLock
    <3>3. cleaner.own = current /\ current \in Nat /\ current >= Installed /\ Installed \in Nat
      <4>1. cleaner.own = current
        BY <2>2 DEF FoldersToClean
      <4>2. current # 0
        BY <1>1, <4>1 DEF Structure, CleanerTrashKnown
      <4>3. \A w \in {0} \cup Versions : w \in Nat
        BY Numbers
      <4>. QED  BY <4>1, <4>2, <4>3, Numbers DEF Structure, TypeOK, CurrentKnown
    <3>4. v \in Nat
      BY <3>0, PlacedFinite DEF Structure, TypeOK
    <3>5. CASE v > current
      <4>1. PICK f \in Folders : Low(f)
        BY DEF Safe, OneStays
      <4>2. f # FolderOf(v)
        BY <3>1, <3>3, <3>4, <3>5, <4>1 DEF Low
      <4>. QED  BY <3>2, <4>1, <4>2 DEF LockSteps
    <3>6. CASE ~(v > current)
      <4>. DEFINE lower == {w \in Placed : w < current}
      <4>1. v \in lower /\ v # Max(lower)
        BY <2>2, <3>3, <3>6 DEF FoldersToClean
      <4>2. Max(lower) \in lower
        <5>1. lower \in SUBSET Nat /\ IsFiniteSet(lower)
          BY PlacedFinite, FS_Subset DEF Structure, TypeOK
        <5>. QED  BY <4>1, <5>1, HighestExists
      <4>. DEFINE m == Max(lower)
      <4>. HIDE DEF m
      <4>3. m \in Placed /\ m < current /\ m # v
        BY <4>1, <4>2 DEF m
      <4>4. /\ FolderOf(m) \in Folders /\ folder[FolderOf(m)].at = "Final" /\ folder[FolderOf(m)].v = m
        BY <4>3, PlacedFolder
      <4>5. m \in Nat
        BY <4>3, PlacedFinite DEF Structure, TypeOK
      <4>6. Low(FolderOf(m)) /\ FolderOf(m) # FolderOf(v)
        BY <3>1, <3>3, <4>3, <4>4, <4>5 DEF Low
      <4>. QED  BY <3>2, <4>4, <4>6 DEF LockSteps
    <3>. QED  BY <3>5, <3>6
  <2>. QED  BY <2>1, <2>2 DEF CleanTurn
<1>. QED  BY <1>1, <1>2, <1>3, QuietStep DEF CopiesRunPlaced, FinQuiet

LEMMA SafeCleanerEnds ==
  ASSUME Structure, Structure', Safe, CleanGivesUp \/ KillCleaner
  PROVE  Safe'
<1>1. UNCHANGED <<folder, current, copy, fin>>
  BY DEF CleanGivesUp, KillCleaner, CleanOnly
<1>2. cleaner'.f = 0
  BY DEF CleanGivesUp, KillCleaner, GoesOn, NoCleanup
<1>3. LockSteps
  <2>1. lock' \in {lock, Unlocked}
    BY DEF CleanGivesUp, KillCleaner, Freed
  <2>. QED  BY <2>1 DEF LockSteps, Unlocked
<1>. QED  BY <1>1, <1>2, <1>3, QuietStep DEF CopiesRunPlaced, FinQuiet

LEMMA SafeTrash ==
  ASSUME Structure, Structure', Safe, TrashStep
  PROVE  Safe'
<1>1. UNCHANGED <<current, copy>> /\ lock.step # None
  BY DEF TrashStep, RenameAway, CheckAgain, PutBack, TrashOnly, None
<1>2. CopiesRunPlaced
  BY <1>1 DEF CopiesRunPlaced
<1>3. ASSUME NEW mayRetry \in BOOLEAN, NEW back \in BOOLEAN, NotTrashed(mayRetry, back)
      PROVE  FinQuiet /\ lock'.step = None /\ cleaner'.f \in {0, cleaner.f}
  <2>1. lock'.step = None /\ cleaner'.f \in {0, cleaner.f}
    BY <1>1, <1>3, NotTrashedFacts
  <2>2. UNCHANGED fin \/ \E pc \in {"RollBack", "Previous"} : fin' = [fin EXCEPT ![lock.by].pc = pc]
    BY <1>3 DEF NotTrashed
  <2>3. FinQuiet
    BY <2>2 DEF FinQuiet, Structure, TypeOK, FinType
  <2>. QED  BY <2>1, <2>3
<1>4. CASE RenameAway
  <2>1. lock.step = "Rename" /\ lock.f \in Folders /\ folder[lock.f].at = "Final" /\ folder[lock.f].v # 0
    BY <1>4 DEF RenameAway, Structure, TypeOK, LockKnown, LockType, None
  <2>2. CASE UNCHANGED folder /\ NotTrashed(TRUE, FALSE)
    BY <1>1, <1>2, <1>3, <2>2, QuietStep DEF LockSteps
  <2>3. CASE /\ folder' = [folder EXCEPT ![lock.f].at = "Trash"] /\ lock' = [lock EXCEPT !.step = "Check"]
             /\ UNCHANGED <<fin, cleaner>>
    <3>1. /\ \A f \in Folders : folder'[f].v = folder[f].v /\ (Sound(f)' = Sound(f))
          /\ \A f \in Folders : f # lock.f => folder'[f] = folder[f]
          /\ folder'[lock.f].at = "Trash" /\ Sound(lock.f)
      BY <2>1, <2>3 DEF Structure, TypeOK, FolderType, Safe, FoldersAreWhole, Sound
    <3>2. lock'.step = "Check" /\ lock'.f = lock.f
      BY <2>3 DEF Structure, TypeOK, LockType
    <3>3. FoldersAreWhole'
      BY <2>1, <3>1 DEF Safe, FoldersAreWhole
    <3>5. NothingRuns'
      <4>1. Sound(lock.f)'
        BY <2>1, <3>1, <3>2
      <4>. QED  BY <1>1, <2>3, <4>1 DEF Safe, NothingRuns, RunsFrom
    <3>6. OneStays'
      BY <1>1, <2>1, <3>1, <3>2 DEF Safe, OneStays, Low
    <3>. QED  BY <3>3, <3>5, <3>6 DEF Safe
  <2>. QED  BY <1>4, <2>2, <2>3 DEF RenameAway
<1>5. CASE CheckAgain
  <2>1. lock.step = "Check" /\ UNCHANGED <<folder, cleaner>>
    BY <1>5 DEF CheckAgain, Trashed
  <2>2. LockSteps
    <3>1. lock' = Unlocked \/ lock' = [lock EXCEPT !.step = None] \/ lock' = [lock EXCEPT !.step = "PutBack"]
      BY <1>5 DEF CheckAgain, Trashed
    <3>. QED  BY <2>1, <3>1 DEF LockSteps, Unlocked, Structure, TypeOK, LockType
  <2>3. FinQuiet
    <3>1. UNCHANGED fin \/ fin' = [fin EXCEPT ![lock.by].pc = "Previous", ![lock.by].f = lock.f]
      BY <1>5 DEF CheckAgain, Trashed
    <3>. QED  BY <3>1 DEF FinQuiet, Structure, TypeOK, FinType
  <2>. QED  BY <1>1, <1>2, <2>1, <2>2, <2>3, QuietStep
<1>6. CASE PutBack
  <2>1. /\ lock.step = "PutBack" /\ lock.f \in Folders /\ Gone(lock.f)
        /\ Sound(lock.f) \/ folder[lock.f].at = None
        /\ lock.by = "Cleaner" => cleaner.f = 0
    BY <1>6 DEF PutBack, Structure, TypeOK, LockKnown, LockType, CleanerTrashKnown, Gone, None, Safe, NothingRuns
  <2>2. CASE UNCHANGED folder /\ NotTrashed(lock.by # "Cleaner", FALSE)
    BY <1>1, <1>2, <1>3, <2>2, QuietStep DEF LockSteps
  <2>3. CASE /\ folder[lock.f].at = "Trash" /\ folder' = [folder EXCEPT ![lock.f].at = "Final"]
             /\ NotTrashed(lock.by # "Cleaner", TRUE)
    <3>1. /\ \A f \in Folders : folder'[f].v = folder[f].v /\ (Sound(f)' = Sound(f))
          /\ \A f \in Folders : f # lock.f => folder'[f] = folder[f]
          /\ Sound(lock.f)
      BY <2>1, <2>3 DEF Structure, TypeOK, FolderType, Sound, None
    <3>2. FinQuiet /\ lock'.step = None /\ cleaner'.f \in {0, cleaner.f}
      BY <1>3, <2>3
    <3>3. FoldersAreWhole'
      BY <2>1, <3>1 DEF Safe, FoldersAreWhole, Sound
    <3>5. NothingRuns'
      BY <1>1, <3>2 DEF Safe, NothingRuns, RunsFrom, FinQuiet, None
    <3>6. OneStays'
      <4>1. PICK f \in Folders : Low(f)
        BY DEF Safe, OneStays
      <4>2. f # lock.f
        BY <2>1, <4>1 DEF Low, Gone
      <4>. QED  BY <1>1, <3>1, <3>2, <4>1, <4>2 DEF OneStays, Low, None
    <3>. QED  BY <3>3, <3>5, <3>6 DEF Safe
  <2>. QED  BY <1>6, <2>2, <2>3 DEF PutBack
<1>. QED  BY <1>4, <1>5, <1>6 DEF TrashStep

\* What is deleted is not at a final name, and nothing runs from it; if it may yet be put back, that is the race.
LEMMA SafeTree ==
  ASSUME Structure, Structure', Safe,
         NEW f \in {0} \cup Folders, NEW done \in BOOLEAN, DeleteTree(f, done), f # 0 => ~RunsFrom(f),
         UNCHANGED <<current, lock>>, \A c \in Copies : copy'[c].f = copy[c].f, DeletesUnused
  PROVE  Safe'
<1>1. /\ \A g \in Folders : folder'[g].v = folder[g].v /\ (folder'[g].at = "Final" => folder[g].at = "Final")
      /\ \A g \in Folders : folder'[g] = folder[g] \/ (g = f /\ folder[g].at = "Trash")
  BY DeleteTreeFacts DEF Structure, TypeOK
<1>2. \A g \in Folders : \/ folder'[g] = folder[g]
                         \/ folder'[g].at = None
                         \/ lock.f = g /\ lock.step # None => folder'[g].raced
  <2>1. CASE folder' = [folder EXCEPT ![f].whole = FALSE, ![f].raced = lock.f = f /\ lock.step # None]
    BY <2>1 DEF Structure, TypeOK, FolderType
  <2>2. CASE folder' = [folder EXCEPT ![f].at = None, ![f].healthy = FALSE, ![f].raced = FALSE]
    BY <2>2 DEF Structure, TypeOK, FolderType
  <2>3. CASE UNCHANGED folder
    BY <2>3
  <2>. QED  BY <2>1, <2>2, <2>3 DEF DeleteTree
<1>3. FoldersAreWhole'
  <2>1. \A g \in Folders : folder'[g].at = "Final" => folder'[g] = folder[g]
    BY <1>1
  <2>. QED  BY <2>1 DEF Safe, FoldersAreWhole
<1>4. NothingRuns'
  <2>1. /\ \A u \in Finishers : fin'[u].f # 0 /\ fin'[u].pc = "Delete" => ~RunsFrom(fin'[u].f)
        /\ cleaner'.f # 0 => ~RunsFrom(cleaner'.f)
    BY DEF DeletesUnused, Safe, NothingRuns
  <2>2. lock.step \in {"Check", "PutBack"} => Sound(lock.f)' \/ folder'[lock.f].at = None
    <3>1. SUFFICES ASSUME lock.step \in {"Check", "PutBack"} PROVE Sound(lock.f)' \/ folder'[lock.f].at = None
      OBVIOUS
    <3>2. lock.f \in Folders /\ (Sound(lock.f) \/ folder[lock.f].at = None) /\ lock.step # None
      BY <3>1 DEF Structure, TypeOK, LockType, LockKnown, Safe, NothingRuns, None
    <3>. QED  BY <1>2, <3>1, <3>2 DEF Sound
  <2>. QED  BY <2>1, <2>2 DEF NothingRuns, RunsFrom
<1>5. OneStays'
  <2>1. \A g \in Folders : folder[g].at = "Final" => folder'[g] = folder[g]
    BY <1>1
  <2>. QED  BY <2>1 DEF Safe, OneStays, Low
<1>. QED  BY <1>3, <1>4, <1>5 DEF Safe

LEMMA SafeDelete ==
  ASSUME Structure, Structure', Safe,
         RemoveWorkingFolders \/ \E u \in Finishers : DeleteItsTrash(u)
  PROVE  Safe'
<1>1. CASE RemoveWorkingFolders
  <2>1. UNCHANGED <<current, copy, fin, lock>>
    BY <1>1 DEF RemoveWorkingFolders, CleanOnly
  <2>2. cleaner'.f \in {0, cleaner.f} \/ ~RunsFrom(cleaner'.f)
    <3>1. cleaner \in CleanerType
      BY DEF Structure, TypeOK
    <3>2. CASE UNCHANGED cleaner \/ cleaner' = NoCleanup \/ cleaner' = [cleaner EXCEPT !.pc = "Working", !.f = 0]
      <4>1. CASE UNCHANGED cleaner
        BY <4>1
      <4>2. CASE cleaner' = NoCleanup
        BY <4>2 DEF NoCleanup
      <4>3. CASE cleaner' = [cleaner EXCEPT !.pc = "Working", !.f = 0]
        <5>1. cleaner'.f = 0
          BY <3>1, <4>3 DEF CleanerType
        <5>. QED  BY <5>1
      <4>. QED  BY <3>2, <4>1, <4>2, <4>3
    <3>3. ASSUME NEW f \in Folders, MayDelete(f), cleaner' = [cleaner EXCEPT !.pc = "Delete", !.f = f]
          PROVE  ~RunsFrom(cleaner'.f)
      <4>1. cleaner'.f = f
        BY <3>1, <3>3 DEF CleanerType
      <4>. QED  BY <3>3, <4>1 DEF MayDelete
    <3>4. \/ UNCHANGED cleaner \/ cleaner' = NoCleanup \/ cleaner' = [cleaner EXCEPT !.pc = "Working", !.f = 0]
          \/ \E f \in Folders : MayDelete(f) /\ cleaner' = [cleaner EXCEPT !.pc = "Delete", !.f = f]
      BY <1>1 DEF RemoveWorkingFolders
    <3>. QED  BY <3>2, <3>3, <3>4
  <2>3. DeletesUnused
    BY <2>1, <2>2 DEF DeletesUnused
  <2>4. CASE UNCHANGED folder
    <3>1. current' >= current
      <4>1. \A v \in {0} \cup Versions : v \in Nat
        BY Numbers
      <4>. QED  BY <2>1, <4>1 DEF Structure, TypeOK
    <3>. QED  BY <2>1, <2>3, <2>4, <3>1, SafeStep DEF FoldersLast, SameFolder, CopiesRunPlaced, LockSteps
  <2>5. ASSUME NEW done \in BOOLEAN, DeleteTree(cleaner.f, done) PROVE Safe'
    <3>1. cleaner.f \in {0} \cup Folders /\ (cleaner.f # 0 => ~RunsFrom(cleaner.f))
      BY DEF Structure, TypeOK, CleanerType, Safe, NothingRuns
    <3>. QED  BY <2>1, <2>3, <2>5, <3>1, SafeTree
  <2>. QED  BY <1>1, <2>4, <2>5 DEF RemoveWorkingFolders
<1>2. ASSUME NEW u \in Finishers, DeleteItsTrash(u) PROVE Safe'
  <2>0. copy \in [Copies -> CopyType] /\ fin \in [Finishers -> FinType]
    BY DEF Structure, TypeOK
  <2>1. UNCHANGED <<current, cleaner, lock>>
    BY <1>2 DEF DeleteItsTrash, UpdateOnly, disk
  <2>2. CASE /\ At(u, "Trash") /\ UNCHANGED folder
             /\ (MayDelete(fin[u].f) /\ Moves(u, "Delete") /\ UNCHANGED copy) \/ FinishEnds(u, copy)
    <3>1. CopiesRunPlaced
      BY <2>0, <2>2, LeftRuns DEF CopiesRunPlaced, FinishEnds
    <3>2. DeletesUnused
      <4>1. CASE FinishEnds(u, copy)
        BY <2>0, <2>1, <4>1 DEF DeletesUnused, FinishEnds, NoUpdate
      <4>2. CASE MayDelete(fin[u].f) /\ Moves(u, "Delete") /\ UNCHANGED copy
        <5>1. \A w \in Finishers : fin'[w].f = fin[w].f /\ (w # u => fin'[w] = fin[w])
          BY <2>0, <4>2 DEF Moves, FinType
        <5>. QED  BY <2>1, <4>2, <5>1 DEF DeletesUnused, MayDelete
      <4>. QED  BY <2>2, <4>1, <4>2
    <3>3. current' >= current
      <4>1. \A v \in {0} \cup Versions : v \in Nat
        BY Numbers
      <4>. QED  BY <2>1, <4>1 DEF Structure, TypeOK
    <3>. QED  BY <2>1, <2>2, <3>1, <3>2, <3>3, SafeStep DEF FoldersLast, SameFolder, LockSteps
  <2>3. ASSUME At(u, "Delete"), NEW done \in BOOLEAN, DeleteTree(fin[u].f, done),
               IF done THEN FinishEnds(u, copy) ELSE UNCHANGED <<fin, copy>>
        PROVE  Safe'
    <3>1. fin[u].f \in {0} \cup Folders /\ (fin[u].f # 0 => ~RunsFrom(fin[u].f))
      BY <2>3 DEF Structure, TypeOK, FinType, Safe, NothingRuns, At
    <3>2. \A c \in Copies : copy'[c].f = copy[c].f
      BY <2>0, <2>3, LeftRuns DEF FinishEnds
    <3>3. DeletesUnused
      <4>1. UNCHANGED fin \/ fin' = [fin EXCEPT ![u] = NoUpdate]
        BY <2>3 DEF FinishEnds
      <4>. QED  BY <2>0, <2>1, <4>1 DEF DeletesUnused, NoUpdate
    <3>. QED  BY <2>1, <2>3, <3>1, <3>2, <3>3, SafeTree
  <2>. QED  BY <1>2, <2>2, <2>3 DEF DeleteItsTrash, disk
<1>. QED  BY <1>1, <1>2

LEMMA SafeKept == Structure /\ Structure' /\ Safe /\ [Next]_vars => Safe'
<1>. SUFFICES ASSUME Structure, Structure', Safe, [Next]_vars PROVE Safe'
  OBVIOUS
<1>1. CASE Launch \/ LaunchWithoutLock \/ LaunchSlipsIn \/ RunDirectly
  BY <1>1, SafeLaunch
<1>2. ASSUME NEW c \in Copies, Qk4(c) PROVE Safe'
  BY <1>2, SafeCopy, SafePlace DEF Qk4
<1>3. CASE TrashStep
  BY <1>3, SafeTrash
<1>4. ASSUME NEW u \in Finishers, Finish(u) \/ Kill(u) PROVE Safe'
  BY <1>4, SafeUpdate, SafeEnds, SafeDecide, SafeDelete DEF Finish
<1>5. CASE Cleanup \/ KillCleaner
  BY <1>5, SafeTurn, SafeCleanerEnds, SafeDelete DEF Cleanup
<1>6. CASE UNCHANGED vars
  BY <1>6, QuietStep DEF vars, disk, CopiesRunPlaced, FinQuiet, LockSteps
<1>. QED  BY <1>1, <1>2, <1>3, <1>4, <1>5, <1>6 DEF Next

\* What a copy runs from loses nothing: only deleteTrash() takes anything from a folder, and it saw none.
LEMMA UsedStay ==
  ASSUME Structure, Safe, [Next]_vars
  PROVE  \A c \in Copies : copy[c].f # 0 => ~DeletesFrom(copy[c].f)
<1>1. /\ folder \in [Folders -> FolderType] /\ copy \in [Copies -> CopyType] /\ fin \in [Finishers -> FinType]
      /\ cleaner \in CleanerType /\ lock.f \in {0} \cup Folders
  BY DEF Structure, TypeOK, LockType
<1>. SUFFICES ASSUME NEW f \in Folders, RunsFrom(f) PROVE ~DeletesFrom(f)
  <2>1. \A c \in Copies : copy[c].f # 0 => copy[c].f \in Folders /\ RunsFrom(copy[c].f)
    BY <1>1 DEF CopyType, RunsFrom
  <2>. QED  BY <2>1
<1>2. CASE UNCHANGED folder
  BY <1>2 DEF DeletesFrom
<1>3. ASSUME NEW c \in Copies, Place(c) PROVE ~DeletesFrom(f)
  <2>1. UNCHANGED folder \/ \E g \in Folders : folder[g] = NoFolder /\ folder' = [folder EXCEPT ![g] = NewFolder(copy[c].offer)]
    BY <1>3 DEF Place
  <2>. QED  BY <1>1, <1>2, <2>1 DEF DeletesFrom, NoFolder, NewFolder, None
<1>4. ASSUME NEW u \in Finishers, PassesHealth(u) PROVE ~DeletesFrom(f)
  <2>1. UNCHANGED folder \/ \E g \in Folders : folder' = [folder EXCEPT ![g].healthy = TRUE]
    BY <1>4, PlacedFolder DEF PassesHealth
  <2>. QED  BY <1>1, <1>2, <2>1 DEF DeletesFrom, FolderType
<1>5. CASE TrashStep
  <2>1. UNCHANGED folder \/ \E at \in {"Trash", "Final"} : folder' = [folder EXCEPT ![lock.f].at = at]
    BY <1>5 DEF TrashStep, RenameAway, CheckAgain, PutBack
  <2>. QED  BY <1>1, <1>2, <2>1 DEF DeletesFrom, FolderType, None
<1>6. ASSUME NEW g \in {0} \cup Folders, NEW done \in BOOLEAN, DeleteTree(g, done), g # 0 => ~RunsFrom(g)
      PROVE  ~DeletesFrom(f)
  <2>1. folder'[f] = folder[f] \/ f = g
    BY <1>1, <1>6, DeleteTreeFacts
  <2>. QED  BY <1>6, <2>1, Numbers DEF DeletesFrom
<1>7. CASE RemoveWorkingFolders
  <2>1. cleaner.f \in {0} \cup Folders /\ (cleaner.f # 0 => ~RunsFrom(cleaner.f))
    BY <1>1 DEF CleanerType, Safe, NothingRuns
  <2>. QED  BY <1>2, <1>6, <1>7, <2>1 DEF RemoveWorkingFolders
<1>8. ASSUME NEW u \in Finishers, DeleteItsTrash(u) PROVE ~DeletesFrom(f)
  <2>1. CASE UNCHANGED folder
    BY <1>2, <2>1
  <2>2. ASSUME At(u, "Delete"), NEW done \in BOOLEAN, DeleteTree(fin[u].f, done) PROVE ~DeletesFrom(f)
    <3>1. fin[u].f \in {0} \cup Folders /\ (fin[u].f # 0 => ~RunsFrom(fin[u].f))
      BY <1>1, <2>2 DEF FinType, Safe, NothingRuns, At
    <3>. QED  BY <1>6, <2>2, <3>1
  <2>. QED  BY <1>8, <2>1, <2>2 DEF DeleteItsTrash, disk
<1>9. CASE Launch \/ LaunchWithoutLock \/ LaunchSlipsIn \/ RunDirectly
  BY <1>2, <1>9 DEF Launch, LaunchWithoutLock, LaunchSlipsIn, RunDirectly, LaunchOnly, disk
<1>10. ASSUME NEW c \in Copies, Qk4(c) PROVE ~DeletesFrom(f)
  BY <1>2, <1>3, <1>10 DEF Qk4, BeginFlow, Offer, Install, HandOver, Quit, disk
<1>11. ASSUME NEW u \in Finishers, Finish(u) \/ Kill(u) PROVE ~DeletesFrom(f)
  BY <1>2, <1>4, <1>8, <1>11
  DEF Finish, Kill, ClosingCopyGone, StartAttempt, FailsHealth, CommitVersion, DecideFailure, StartPrevious, disk
<1>12. CASE Cleanup \/ KillCleaner
  BY <1>2, <1>7, <1>12 DEF Cleanup, CleanTurn, CleanGivesUp, KillCleaner
<1>. QED  BY <1>2, <1>5, <1>9, <1>10, <1>11, <1>12 DEF Next, vars, disk

\* The folders are kept: a folder at a final name is whole, unless trashFolder() put it back from under a
\* deletion; nothing is deleted from under a copy that runs; and there is always a version to start
\* (main.cpp trashFolder(), deleteTrash(), trashOldVersions()).
THEOREM KeepsFolders == Spec => FoldersAreKept
<1>1. Safe => FoldersAreWhole /\ Placed # {}
  <2>. SUFFICES ASSUME Safe PROVE FoldersAreWhole /\ Placed # {}
    OBVIOUS
  <2>1. Placed # {}
    BY DEF Safe, OneStays, Low, Placed
  <2>. QED  BY <2>1 DEF Safe
<1>2. Structure /\ Safe /\ [Next]_vars => (Structure /\ Safe)'
  BY StructureKept, SafeKept
<1>3. Init => Structure /\ Safe
  BY InitStructure, InitSafe
<1>4. Structure /\ Safe /\ [Next]_vars => [\A c \in Copies : copy[c].f # 0 => ~DeletesFrom(copy[c].f)]_vars
  BY UsedStay
<1>. QED  BY <1>1, <1>2, <1>3, <1>4, PTL DEF Spec, FoldersAreKept

=============================================================================
