----------------------------- MODULE FileStore -----------------------------
(***************************************************************************)
(* FileCacheStore (cache/file_store.py): a file per entry, in a tree of    *)
(* directories that follows the parts of the key.  Every call runs in a    *)
(* thread of its own (asyncio.to_thread), nothing is locked, and each step *)
(* below is one call of the file system.                                   *)
(*                                                                         *)
(* Reading a file is one step; so is writing one, but not truncating it.   *)
(* Names are followed when they are used.  Losing power is not modelled:   *)
(* what was written is on the disk.                                        *)
(***************************************************************************)
EXTENDS Naturals, Sequences, FiniteSets

CONSTANTS Threads, Keys,
          Dirs, Root,      \* directories; Root is cache_dir
          Up, Home,        \* the directory above another, and that of a key's file
          Under,           \* the directories at or below each one
          Prefixes,
          Top,             \* the directory that has the name of a prefix
          Leaf, None,      \* the key that is itself a prefix, if there is one
          MaxSets,         \* bound: calls of set
          Nothing, Ok, Failed,
          Absent, Empty, Mixed    \* no file, a truncated one, and two texts in one

Values == 1..MaxSets

ASSUME TreeAssumption ==
  /\ Root \in Dirs /\ Up \in [Dirs -> Dirs] /\ Home \in [Keys -> Dirs]
  /\ Under \in [Dirs -> SUBSET Dirs]
  /\ \A d \in Dirs : d \in Under[d]
  /\ \A d \in Dirs, e \in Dirs \ {Root} : Up[e] \in Under[d] => e \in Under[d]
  /\ \A d, e \in Dirs : e \in Under[d] /\ e # d =>
       /\ e # Root /\ Up[e] \in Under[d]
       /\ \E c \in Dirs \ {Root} : Up[c] = d /\ e \in Under[c]
(* With finitely many directories and keys, and no directory above itself. *)
(* The safety properties do without; that every call ends does not.        *)
DirsAreATree ==
  /\ IsFiniteSet(Dirs) /\ IsFiniteSet(Keys)
  /\ \A d \in Dirs \ {Root} : Up[d] # d
  /\ \A d, e \in Dirs : d \in Under[e] /\ e \in Under[d] => d = e
  /\ \A c, d, e \in Dirs : d \in Under[c] /\ e \in Under[d] => e \in Under[c]
ASSUME PrefixAssumption ==
  Top \in [Prefixes -> Dirs \ {Root}] /\ Leaf \in [Prefixes -> Keys \cup {None}]
ASSUME SetsAssumption == MaxSets \in Nat
ASSUME MarkAssumption ==
  /\ Ok # Failed /\ {Nothing, Ok, Failed} \cap Values = {}
  /\ Absent # Empty /\ Absent # Mixed /\ {Absent, Empty, Mixed} \cap Values = {}
  /\ None \notin Keys \cup Prefixes

VARIABLES dirs,      \* the directories there are
          file,      \* what the file of each key holds
          pc,        \* where each thread is
          target,    \* the key it gets, sets or invalidates
          prefix,    \* the prefix it drops
          value,     \* what it sets
          place,     \* the directory it is making
          trail,     \* the directories to make below that one
          linked,    \* whether the file it has open still has its name
          scan,      \* directories rmtree has found and not listed
          opened,    \* directories it has listed and not removed
          listed,    \* files it has found and not removed
          sets,      \* the number of sets so far
          touched, answer,   \* history, as in CacheStore
          stored     \* history: keys that were set and not dropped since

treeVars == <<dirs, file, linked>>
callVars == <<target, prefix, value>>
mkdirVars == <<place, trail>>
rmtreeVars == <<scan, opened, listed>>
vars == <<treeVars, callVars, mkdirVars, rmtreeVars, pc, sets, touched, answer, stored>>

SetSteps == {"climb", "descend", "exists", "open", "write"}
DropSteps == {"enter", "count", "remove", "leaf"}
InvalidateSteps == {"check", "unlink"}
Setting(t) == pc[t] \in SetSteps
Dropping(t) == pc[t] \in DropSteps \cup InvalidateSteps

Covered(p) == {k \in Keys : Home[k] \in Under[Top[p]]} \cup ({Leaf[p]} \cap Keys)
DroppedBy(t) == IF pc[t] \in DropSteps THEN Covered(prefix[t]) ELSE {target[t]}
BeingSet == {target[t] : t \in {u \in Threads : Setting(u)}}
BeingDropped == UNION {DroppedBy(t) : t \in {u \in Threads : Dropping(u)}}

Init ==
  /\ dirs \in {{}, {Root}}
  /\ file = [k \in Keys |-> Absent]
  /\ pc = [t \in Threads |-> "idle"]
  /\ target = [t \in Threads |-> None]
  /\ prefix = [t \in Threads |-> None]
  /\ value = [t \in Threads |-> 0]
  /\ place = [t \in Threads |-> Root]
  /\ trail = [t \in Threads |-> <<>>]
  /\ linked = [t \in Threads |-> FALSE]
  /\ scan = [t \in Threads |-> {}]
  /\ opened = [t \in Threads |-> {}]
  /\ listed = [t \in Threads |-> {}]
  /\ sets = 0
  /\ touched = [t \in Threads |-> {}]
  /\ answer = [t \in Threads |-> Nothing]
  /\ stored = {}

GoTo(t, label) == pc' = [pc EXCEPT ![t] = label]

(* The call of t ends. *)
Return(t, a) ==
  /\ GoTo(t, "idle")
  /\ answer' = [answer EXCEPT ![t] = a]
  /\ target' = [target EXCEPT ![t] = None]
  /\ prefix' = [prefix EXCEPT ![t] = None]
  /\ value' = [value EXCEPT ![t] = 0]
  /\ place' = [place EXCEPT ![t] = Root]
  /\ trail' = [trail EXCEPT ![t] = <<>>]
  /\ scan' = [scan EXCEPT ![t] = {}]
  /\ opened' = [opened EXCEPT ![t] = {}]
  /\ listed' = [listed EXCEPT ![t] = {}]
  /\ touched' = [touched EXCEPT ![t] = {}]
  /\ UNCHANGED sets

(* The call of t goes on; callVars, sets, touched and answer are its own.  *)
GoesOn == UNCHANGED <<callVars, sets, touched, answer, stored>>

(* The name of k is gone; who has the file open writes into the void.      *)
Unlinked(k) ==
  /\ file' = [file EXCEPT ![k] = Absent]
  /\ linked' = [t \in Threads |-> linked[t] /\ target[t] # k]

-----------------------------------------------------------------------------
(* get and get_last_known_good: what cannot be parsed is no entry. *)
ContentsRaw(k) == IF file[k] = Absent THEN Nothing ELSE file[k]    \* mutant: torn files too
Contents(k) == IF file[k] \in Values THEN file[k] ELSE Nothing

BeginGet(t, k) ==
  /\ pc[t] = "idle"
  /\ GoTo(t, "read")
  /\ target' = [target EXCEPT ![t] = k]
  /\ answer' = [answer EXCEPT ![t] = Nothing]
  /\ UNCHANGED <<treeVars, mkdirVars, rmtreeVars, prefix, value, sets, touched, stored>>

Read(t) ==
  /\ pc[t] = "read"
  /\ Return(t, Contents(target[t]))
  /\ UNCHANGED <<treeVars, stored>>

-----------------------------------------------------------------------------
(* set: _write_entry *)
BeginSet(t, k) ==
  /\ pc[t] = "idle" /\ sets < MaxSets
  /\ GoTo(t, "climb")
  /\ target' = [target EXCEPT ![t] = k]
  /\ value' = [value EXCEPT ![t] = sets + 1]
  /\ place' = [place EXCEPT ![t] = Home[k]]
  /\ sets' = sets + 1
  /\ touched' = [u \in Threads |-> IF Dropping(u) THEN touched[u] \cup {k} ELSE touched[u]]
  /\ answer' = [answer EXCEPT ![t] = Nothing]
  /\ UNCHANGED <<treeVars, rmtreeVars, prefix, trail, stored>>

(* The directory of t is there: the next one down, or the file. *)
GoDown(t) ==
  IF trail[t] = <<>>
  THEN GoTo(t, "open") /\ UNCHANGED mkdirVars
  ELSE /\ GoTo(t, "descend")
       /\ place' = [place EXCEPT ![t] = Head(trail[t])]
       /\ trail' = [trail EXCEPT ![t] = Tail(@)]

(* mkdir: it is made, or it is there already, or its parent is missing. *)
CanMake(d) == d = Root \/ Up[d] \in dirs

MakeDir(t, label) ==
  /\ pc[t] = label /\ place[t] \notin dirs /\ CanMake(place[t])
  /\ dirs' = dirs \cup {place[t]}
  /\ GoDown(t)
  /\ GoesOn /\ UNCHANGED <<file, linked, rmtreeVars>>

FindDir(t, label) ==
  /\ pc[t] = label /\ place[t] \in dirs
  /\ GoTo(t, "exists")
  /\ GoesOn /\ UNCHANGED <<treeVars, mkdirVars, rmtreeVars>>

(* parents=True: the directory above is made first ... *)
Climb(t) ==
  /\ pc[t] = "climb" /\ place[t] \notin dirs /\ ~ CanMake(place[t])
  /\ place' = [place EXCEPT ![t] = Up[@]]
  /\ trail' = [trail EXCEPT ![t] = <<place[t]>> \o @]
  /\ UNCHANGED pc
  /\ GoesOn /\ UNCHANGED <<treeVars, rmtreeVars>>

(* ... and on the way down a parent that is missing again is an error.     *)
LoseParentRetrying(t) ==    \* mutant: mkdir starts over instead
  /\ pc[t] = "descend" /\ place[t] \notin dirs /\ ~ CanMake(place[t])
  /\ GoTo(t, "climb")
  /\ GoesOn /\ UNCHANGED <<treeVars, mkdirVars, rmtreeVars>>

LoseParent(t) ==
  /\ pc[t] = "descend" /\ place[t] \notin dirs /\ ~ CanMake(place[t])
  /\ Return(t, Failed)
  /\ UNCHANGED <<treeVars, stored>>

(* exist_ok asks once more whether it is a directory. *)
StillThere(t) ==
  /\ pc[t] = "exists" /\ place[t] \in dirs
  /\ GoDown(t)
  /\ GoesOn /\ UNCHANGED <<treeVars, rmtreeVars>>

GoneAgain(t) ==
  /\ pc[t] = "exists" /\ place[t] \notin dirs
  /\ Return(t, Failed)
  /\ UNCHANGED <<treeVars, stored>>

(* write_text opens the file, which makes or truncates it, and writes.     *)
Open(t) ==
  /\ pc[t] = "open"
  /\ \/ /\ Home[target[t]] \in dirs
        /\ file' = [file EXCEPT ![target[t]] = Empty]
        /\ linked' = [linked EXCEPT ![t] = TRUE]
        /\ GoTo(t, "write")
        /\ GoesOn /\ UNCHANGED <<dirs, mkdirVars, rmtreeVars>>
     \/ /\ Home[target[t]] \notin dirs
        /\ Return(t, Failed)
        /\ UNCHANGED <<treeVars, stored>>

(* A shorter text over a longer one leaves the end of that behind. *)
Write(t) ==
  /\ pc[t] = "write"
  /\ IF linked[t]
     THEN \E text \in {value[t]} \cup (IF file[target[t]] = Empty THEN {} ELSE {Mixed}) :
            file' = [file EXCEPT ![target[t]] = text]
     ELSE UNCHANGED file
  /\ linked' = [linked EXCEPT ![t] = FALSE]
  /\ Return(t, Ok)
  /\ stored' = IF target[t] \in BeingDropped \/ ~ linked[t] THEN stored
               ELSE stored \cup {target[t]}
  /\ UNCHANGED dirs

-----------------------------------------------------------------------------
(* invalidate_prefix *)
BeginDrop(t, p) ==
  /\ pc[t] = "idle"
  /\ GoTo(t, "enter")
  /\ prefix' = [prefix EXCEPT ![t] = p]
  /\ touched' = [touched EXCEPT ![t] = BeingSet]
  /\ stored' = stored \ Covered(p)
  /\ answer' = [answer EXCEPT ![t] = Nothing]
  /\ UNCHANGED <<treeVars, mkdirVars, rmtreeVars, target, value, sets>>

(* is_dir *)
Enter(t) ==
  /\ pc[t] = "enter"
  /\ GoTo(t, IF Top[prefix[t]] \in dirs THEN "count" ELSE "leaf")
  /\ GoesOn /\ UNCHANGED <<treeVars, mkdirVars, rmtreeVars>>

(* rglob counts the files.  It raises when a directory it has come upon is *)
(* gone before it is listed, the top one or any below: one that is missing *)
(* now may have been there a moment ago, which the model does not keep.    *)
Count(t) ==
  /\ pc[t] = "count"
  /\ \/ /\ GoTo(t, "remove")
        /\ scan' = [scan EXCEPT ![t] = {Top[prefix[t]]}]
        /\ GoesOn /\ UNCHANGED <<treeVars, mkdirVars, opened, listed>>
     \/ /\ ~ (Under[Top[prefix[t]]] \subseteq dirs)
        /\ Return(t, Failed)
        /\ UNCHANGED <<treeVars, stored>>

(* rmtree, ignoring every error: lists a directory, ... *)
Subdirs(d) == {e \in dirs \ {Root} : Up[e] = d}
FilesIn(d) == {k \in Keys : Home[k] = d /\ file[k] # Absent}

ListDir(t, d) ==
  /\ pc[t] = "remove" /\ d \in scan[t]
  /\ IF d \in dirs
     THEN /\ scan' = [scan EXCEPT ![t] = (@ \ {d}) \cup Subdirs(d)]
          /\ listed' = [listed EXCEPT ![t] = @ \cup FilesIn(d)]
          /\ opened' = [opened EXCEPT ![t] = @ \cup {d}]
     ELSE scan' = [scan EXCEPT ![t] = @ \ {d}] /\ UNCHANGED <<listed, opened>>
  /\ UNCHANGED pc
  /\ GoesOn /\ UNCHANGED <<treeVars, mkdirVars>>

(* ... removes what it found there, ... *)
RemoveFile(t, k) ==
  /\ pc[t] = "remove" /\ k \in listed[t]
  /\ listed' = [listed EXCEPT ![t] = @ \ {k}]
  /\ Unlinked(k)
  /\ UNCHANGED pc
  /\ GoesOn /\ UNCHANGED <<dirs, mkdirVars, scan, opened>>

(* ... and then the directory, which stays if it is not empty. *)
EmptiedBy(t, d) ==
  /\ d \in opened[t]
  /\ \A e \in (scan[t] \cup opened[t]) \ {Root} : Up[e] # d
  /\ \A k \in listed[t] : Home[k] # d

RemoveDir(t, d) ==
  /\ pc[t] = "remove" /\ EmptiedBy(t, d)
  /\ opened' = [opened EXCEPT ![t] = @ \ {d}]
  /\ dirs' = IF Subdirs(d) = {} /\ FilesIn(d) = {} THEN dirs \ {d} ELSE dirs
  /\ UNCHANGED pc
  /\ GoesOn /\ UNCHANGED <<file, linked, mkdirVars, scan, listed>>

Removed(t) ==
  /\ pc[t] = "remove" /\ scan[t] = {} /\ opened[t] = {} /\ listed[t] = {}
  /\ GoTo(t, "leaf")
  /\ GoesOn /\ UNCHANGED <<treeVars, mkdirVars, rmtreeVars>>

DropLeafKeeping(t) ==    \* mutant: a prefix that is a key by itself keeps its file
  /\ pc[t] = "leaf"
  /\ UNCHANGED <<file, linked>>
  /\ Return(t, Ok)
  /\ UNCHANGED <<dirs, stored>>

DropLeaf(t) ==
  /\ pc[t] = "leaf"
  /\ IF Leaf[prefix[t]] \in Keys THEN Unlinked(Leaf[prefix[t]]) ELSE UNCHANGED <<file, linked>>
  /\ Return(t, Ok)
  /\ UNCHANGED <<dirs, stored>>

-----------------------------------------------------------------------------
(* invalidate: the file may go between exists and unlink. *)
BeginInvalidate(t, k) ==
  /\ pc[t] = "idle"
  /\ GoTo(t, "check")
  /\ target' = [target EXCEPT ![t] = k]
  /\ touched' = [touched EXCEPT ![t] = BeingSet]
  /\ stored' = stored \ {k}
  /\ answer' = [answer EXCEPT ![t] = Nothing]
  /\ UNCHANGED <<treeVars, mkdirVars, rmtreeVars, prefix, value, sets>>

Check(t) ==
  /\ pc[t] = "check"
  /\ \/ /\ file[target[t]] # Absent /\ GoTo(t, "unlink")
        /\ GoesOn /\ UNCHANGED <<treeVars, mkdirVars, rmtreeVars>>
     \/ /\ file[target[t]] = Absent /\ Return(t, Ok)
        /\ UNCHANGED <<treeVars, stored>>

Unlink(t) ==
  /\ pc[t] = "unlink"
  /\ \/ file[target[t]] # Absent /\ Unlinked(target[t]) /\ Return(t, Ok)
     \/ file[target[t]] = Absent /\ Return(t, Failed) /\ UNCHANGED <<file, linked>>
  /\ UNCHANGED <<dirs, stored>>

-----------------------------------------------------------------------------
(* is_healthy makes cache_dir. *)
CheckHealth ==
  /\ dirs' = dirs \cup {Root}
  /\ UNCHANGED <<file, linked, callVars, mkdirVars, rmtreeVars, pc, sets, touched, answer, stored>>

(* The process dies and starts again. *)
Crash ==
  /\ pc' = [t \in Threads |-> "idle"]
  /\ target' = [t \in Threads |-> None] /\ prefix' = [t \in Threads |-> None]
  /\ value' = [t \in Threads |-> 0]
  /\ place' = [t \in Threads |-> Root] /\ trail' = [t \in Threads |-> <<>>]
  /\ linked' = [t \in Threads |-> FALSE]
  /\ scan' = [t \in Threads |-> {}] /\ opened' = [t \in Threads |-> {}]
  /\ listed' = [t \in Threads |-> {}] /\ touched' = [t \in Threads |-> {}]
  /\ answer' = [t \in Threads |-> Nothing]
  /\ UNCHANGED <<dirs, file, sets, stored>>

Begins(t) ==
  \/ \E k \in Keys : BeginGet(t, k) \/ BeginSet(t, k) \/ BeginInvalidate(t, k)
  \/ \E p \in Prefixes : BeginDrop(t, p)

Makes(t) ==
  \/ \E label \in {"climb", "descend"} : MakeDir(t, label) \/ FindDir(t, label)
  \/ Climb(t) \/ LoseParent(t) \/ StillThere(t) \/ GoneAgain(t)

Removes(t) ==
  \/ \E d \in Dirs : ListDir(t, d) \/ RemoveDir(t, d)
  \/ \E k \in Keys : RemoveFile(t, k)
  \/ Removed(t)

Step(t) ==
  \/ Read(t) \/ Makes(t) \/ Open(t) \/ Write(t)
  \/ Enter(t) \/ Count(t) \/ Removes(t) \/ DropLeaf(t) \/ Check(t) \/ Unlink(t)

Next == (\E t \in Threads : Begins(t) \/ Step(t)) \/ CheckHealth \/ Crash

Spec == Init /\ [][Next]_vars

(* A thread that runs goes on running; nobody has to call or to crash. *)
FairSpec == Spec /\ \A t \in Threads : WF_vars(Step(t))

-----------------------------------------------------------------------------
(* Every variable stays in its range. *)
TypeOK ==
  /\ dirs \subseteq Dirs
  /\ file \in [Keys -> Values \cup {Absent, Empty, Mixed}]
  /\ pc \in [Threads -> {"idle", "read"} \cup SetSteps \cup DropSteps \cup InvalidateSteps]
  /\ target \in [Threads -> Keys \cup {None}]
  /\ prefix \in [Threads -> Prefixes \cup {None}]
  /\ value \in [Threads -> 0..MaxSets] /\ sets \in 0..MaxSets
  /\ place \in [Threads -> Dirs] /\ trail \in [Threads -> Seq(Dirs)]
  /\ linked \in [Threads -> BOOLEAN]
  /\ scan \in [Threads -> SUBSET Dirs] /\ opened \in [Threads -> SUBSET Dirs]
  /\ listed \in [Threads -> SUBSET Keys]
  /\ touched \in [Threads -> SUBSET Keys]
  /\ answer \in [Threads -> Values \cup {Nothing, Ok, Failed}]
  /\ stored \subseteq Keys

(* The call a thread is in, as CacheStore sees it. *)
CallOf(t) ==
  [op |-> IF pc[t] = "read" THEN "get" ELSE IF Setting(t) THEN "set"
          ELSE IF Dropping(t) THEN "drop" ELSE "none",
   keys |-> IF pc[t] = "idle" THEN {} ELSE IF Dropping(t) THEN DroppedBy(t) ELSE {target[t]},
   value |-> IF Setting(t) THEN value[t] ELSE Nothing]

(* The store keeps the promises of CacheStore: an entry is what some set   *)
(* of its key supplied, never a mixture, and changes only on account of a  *)
(* call that works on it; a drop that reports success has dropped every    *)
(* entry of its family that no set was working on meanwhile.               *)
Contract == INSTANCE CacheStore
  WITH Families <- {Covered(p) : p \in Prefixes} \cup {{k} : k \in Keys},
       entries <- [k \in Keys |-> Contents(k)],
       calls <- [t \in Threads |-> CallOf(t)]
KeepsTheContract == Contract!Spec

(* Every call ends, however the others hinder it. *)
EveryCallEnds == \A t \in Threads : pc[t] # "idle" ~> pc[t] = "idle"

(* "if the API goes down you still get the last successful response"       *)
(* (README.md:352): what was stored and not dropped can be read.           *)
LastKnownGoodSurvives == \A k \in stored : file[k] \in Values
=============================================================================
