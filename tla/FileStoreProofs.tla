--------------------------- MODULE FileStoreProofs ---------------------------
(***************************************************************************)
(* The file store keeps the contract of CacheStore, and every call of it   *)
(* runs out of steps, for any threads, keys, prefixes and directories,     *)
(* however set, invalidate_prefix, invalidate, get and is_healthy          *)
(* (cache/file_store.py) race with each other, and across restarts.        *)
(***************************************************************************)
EXTENDS FileStore, FiniteSetTheorems, TLAPS

Labels == {"idle", "read"} \cup SetSteps \cup DropSteps \cup InvalidateSteps
Texts == Values \cup {Absent, Empty, Mixed}
Answers == Values \cup {Nothing, Ok, Failed}

(* What a thread keeps of its call ...                                     *)
CallTypes ==
  /\ pc \in [Threads -> Labels]
  /\ target \in [Threads -> Keys \cup {None}]
  /\ prefix \in [Threads -> Prefixes \cup {None}]
  /\ value \in [Threads -> 0..MaxSets]
  /\ place \in [Threads -> Dirs] /\ trail \in [Threads -> Seq(Dirs)]
  /\ scan \in [Threads -> SUBSET Dirs] /\ opened \in [Threads -> SUBSET Dirs]
  /\ listed \in [Threads -> SUBSET Keys]
  /\ touched \in [Threads -> SUBSET Keys]
  /\ answer \in [Threads -> Answers]
  /\ sets \in 0..MaxSets

(* ... names what it works on.                                             *)
Named ==
  \A t \in Threads :
    /\ pc[t] \in SetSteps \cup InvalidateSteps \cup {"read"} => target[t] \in Keys
    /\ pc[t] \in SetSteps => value[t] \in Values
    /\ pc[t] \in DropSteps => prefix[t] \in Prefixes

TreeTypes ==
  /\ dirs \subseteq Dirs
  /\ file \in [Keys -> Texts]
  /\ linked \in [Threads -> BOOLEAN]
  /\ stored \subseteq Keys

(* A file that is open and has its name is there.                          *)
LinkedIsThere ==
  \A t \in Threads : linked[t] => pc[t] = "write" /\ file[target[t]] # Absent

(* What a file system keeps of a tree whatever is done to it: a directory  *)
(* is in the one above it, a file is in its directory.                     *)
TreeIsWhole ==
  /\ \A d \in dirs : d # Root => Up[d] \in dirs
  /\ \A k \in Keys : file[k] # Absent => Home[k] \in dirs

Calls == CallTypes /\ Named
FInv == Calls /\ TreeTypes /\ LinkedIsThere /\ TreeIsWhole

LEMMA Marks ==
  /\ Values \subseteq Nat /\ MaxSets \in Nat /\ Absent \notin Values
  /\ Absent # Empty /\ Absent # Mixed /\ None \notin Keys
BY MarkAssumption, SetsAssumption DEF Values

LEMMA TypesAreTypeOK == CallTypes /\ TreeTypes => TypeOK
BY DEF CallTypes, TreeTypes, TypeOK, Labels, Texts, Answers

LEMMA InitFInv == Init => FInv
<1> SUFFICES ASSUME Init PROVE FInv
  OBVIOUS
<1> USE Marks, TreeAssumption DEF Init
<1>1. CallTypes
  BY DEF CallTypes, Labels, Answers
<1>2. Named
  BY DEF Named, SetSteps, DropSteps, InvalidateSteps
<1>3. TreeTypes /\ LinkedIsThere
  BY DEF TreeTypes, Texts, LinkedIsThere
<1>4. TreeIsWhole
  BY DEF TreeIsWhole
<1> QED
  BY <1>1, <1>2, <1>3, <1>4 DEF FInv, Calls

-----------------------------------------------------------------------------
(* A call that ends keeps nothing.                                         *)
LEMMA ReturnKeeps ==
  ASSUME Calls, NEW t \in Threads, NEW a \in Answers, Return(t, a)
  PROVE  Calls' /\ \A u \in Threads \ {t} : pc'[u] = pc[u] /\ target'[u] = target[u]
<1> USE Marks, TreeAssumption DEF Calls, CallTypes, Return, GoTo
<1>1. CallTypes'
  BY DEF Labels
<1>2. Named'
  BY DEF Named, SetSteps, DropSteps, InvalidateSteps
<1> QED
  BY <1>1, <1>2

(* One that goes on names the same things.                                 *)
LEMMA GoesOnKeeps ==
  ASSUME Calls, NEW t \in Threads, GoesOn,
         pc' \in [Threads -> Labels], \A u \in Threads \ {t} : pc'[u] = pc[u],
         \/ pc'[t] \in SetSteps /\ pc[t] \in SetSteps
         \/ pc'[t] \in DropSteps /\ pc[t] \in DropSteps
         \/ pc'[t] \in InvalidateSteps /\ pc[t] \in InvalidateSteps,
         place' \in [Threads -> Dirs], trail' \in [Threads -> Seq(Dirs)],
         scan' \in [Threads -> SUBSET Dirs], opened' \in [Threads -> SUBSET Dirs],
         listed' \in [Threads -> SUBSET Keys]
  PROVE  Calls' /\ \A u \in Threads \ {t} : pc'[u] = pc[u] /\ target'[u] = target[u]
<1> USE DEF Calls, CallTypes, GoesOn, callVars
<1>1. CallTypes'
  OBVIOUS
<1>2. Named'
  BY DEF Named, SetSteps, DropSteps, InvalidateSteps
<1> QED
  BY <1>1, <1>2

(* One that begins.                                                        *)
LEMMA BeginsKeep ==
  ASSUME Calls, NEW t \in Threads, Begins(t)
  PROVE  Calls' /\ \A u \in Threads \ {t} : pc'[u] = pc[u] /\ target'[u] = target[u]
<1> USE Marks, TreeAssumption
<1>1. ASSUME NEW k \in Keys, BeginGet(t, k) PROVE Calls'
  <2>1. CallTypes'
    BY <1>1 DEF BeginGet, Calls, CallTypes, GoTo, Labels, Answers, mkdirVars, rmtreeVars
  <2>2. Named'
    BY <1>1 DEF BeginGet, Calls, CallTypes, Named, GoTo, SetSteps, DropSteps, InvalidateSteps
  <2> QED
    BY <2>1, <2>2 DEF Calls
<1>2. ASSUME NEW k \in Keys, BeginSet(t, k) PROVE Calls'
  <2>1. sets + 1 \in 0..MaxSets /\ sets + 1 \in Values /\ Home[k] \in Dirs
    BY <1>2 DEF BeginSet, Calls, CallTypes, Values
  <2>2. touched' \in [Threads -> SUBSET Keys]
    BY <1>2 DEF BeginSet, Calls, CallTypes
  <2>3. CallTypes'
    BY <1>2, <2>1, <2>2 DEF BeginSet, Calls, CallTypes, GoTo, Labels, SetSteps, Answers, rmtreeVars
  <2>4. Named'
    BY <1>2, <2>1 DEF BeginSet, Calls, CallTypes, Named, GoTo, SetSteps, DropSteps, InvalidateSteps
  <2> QED
    BY <2>3, <2>4 DEF Calls
<1>3. BeingSet \subseteq Keys
  BY DEF BeingSet, Setting, Calls, Named
<1>4. ASSUME NEW k \in Keys, BeginInvalidate(t, k) PROVE Calls'
  <2>1. CallTypes'
    BY <1>3, <1>4 DEF BeginInvalidate, Calls, CallTypes, GoTo, Labels, InvalidateSteps, Answers,
                      mkdirVars, rmtreeVars
  <2>2. Named'
    BY <1>4 DEF BeginInvalidate, Calls, CallTypes, Named, GoTo, SetSteps, DropSteps, InvalidateSteps
  <2> QED
    BY <2>1, <2>2 DEF Calls
<1>5. ASSUME NEW p \in Prefixes, BeginDrop(t, p) PROVE Calls'
  <2>1. CallTypes'
    BY <1>3, <1>5 DEF BeginDrop, Calls, CallTypes, GoTo, Labels, DropSteps, Answers,
                      mkdirVars, rmtreeVars
  <2>2. Named'
    BY <1>5 DEF BeginDrop, Calls, CallTypes, Named, GoTo, SetSteps, DropSteps, InvalidateSteps
  <2> QED
    BY <2>1, <2>2 DEF Calls
<1>6. \A u \in Threads \ {t} : pc'[u] = pc[u] /\ target'[u] = target[u]
  BY DEF Begins, BeginGet, BeginSet, BeginInvalidate, BeginDrop, GoTo, Calls, CallTypes
<1> QED
  BY <1>1, <1>2, <1>4, <1>5, <1>6 DEF Begins

-----------------------------------------------------------------------------
(* The tree is left alone, by a thread that has no file open.              *)
LEMMA TreeLeftAlone ==
  ASSUME FInv, NEW t \in Threads, pc[t] # "write",
         Calls', \A u \in Threads \ {t} : pc'[u] = pc[u] /\ target'[u] = target[u],
         UNCHANGED treeVars, stored' \subseteq Keys
  PROVE  FInv'
<1> USE DEF treeVars
<1>1. TreeTypes' /\ TreeIsWhole'
  BY DEF FInv, TreeTypes, TreeIsWhole, Subdirs
<1>2. LinkedIsThere'
  <2> SUFFICES ASSUME NEW u \in Threads, linked[u]
               PROVE  pc'[u] = "write" /\ file[target'[u]] # Absent
    BY DEF LinkedIsThere
  <2>1. u # t
    BY DEF FInv, LinkedIsThere
  <2> QED
    BY <2>1 DEF FInv, LinkedIsThere
<1> QED
  BY <1>1, <1>2 DEF FInv

(* A name goes, and who has the file open loses it.                        *)
LEMMA UnlinkedKeeps ==
  ASSUME FInv, NEW t \in Threads, pc[t] # "write", NEW k, Unlinked(k),
         Calls', \A u \in Threads \ {t} : pc'[u] = pc[u] /\ target'[u] = target[u],
         dirs' = dirs, stored' \subseteq Keys
  PROVE  FInv'
<1> USE DEF FInv, TreeTypes, Unlinked
<1>1. TreeTypes'
  BY DEF Texts
<1>2. \A j \in Keys : j # k => file'[j] = file[j]
  OBVIOUS
<1>3. \A j \in Keys : file'[j] # Absent => file'[j] = file[j]
  OBVIOUS
<1>4. TreeIsWhole'
  BY <1>3 DEF TreeIsWhole
<1>5. LinkedIsThere'
  <2> SUFFICES ASSUME NEW u \in Threads, linked'[u]
               PROVE  pc'[u] = "write" /\ file'[target'[u]] # Absent
    BY DEF LinkedIsThere
  <2>1. linked[u] /\ target[u] # k
    OBVIOUS
  <2>2. u # t /\ pc[u] = "write" /\ file[target[u]] # Absent
    BY <2>1 DEF LinkedIsThere
  <2>3. target[u] \in Keys
    BY <2>2 DEF Calls, Named, SetSteps
  <2> QED
    BY <1>2, <2>1, <2>2, <2>3
<1> QED
  BY <1>1, <1>4, <1>5

LEMMA BeginKeepsTree ==
  ASSUME FInv, NEW t \in Threads, Begins(t)
  PROVE  FInv'
<1>1. /\ pc[t] = "idle" /\ UNCHANGED treeVars
      /\ stored' \subseteq stored
  BY DEF Begins, BeginGet, BeginSet, BeginInvalidate, BeginDrop
<1> QED
  BY <1>1, BeginsKeep, TreeLeftAlone DEF FInv, TreeTypes

-----------------------------------------------------------------------------
(* set makes the directories: the next one down is a directory.            *)
LEMMA GoDownKeeps ==
  ASSUME Calls, NEW t \in Threads, pc[t] \in SetSteps, GoDown(t), GoesOn, UNCHANGED rmtreeVars
  PROVE  /\ Calls' /\ pc'[t] \in SetSteps
         /\ \A u \in Threads \ {t} : pc'[u] = pc[u] /\ target'[u] = target[u]
<1> USE DEF rmtreeVars, mkdirVars
<1>1. /\ pc' \in [Threads -> Labels] /\ pc'[t] \in SetSteps
      /\ \A u \in Threads \ {t} : pc'[u] = pc[u]
  <2>1. PICK label \in {"open", "descend"} : pc' = [pc EXCEPT ![t] = label]
    BY DEF GoDown, GoTo
  <2>2. label \in SetSteps /\ label \in Labels /\ pc \in [Threads -> Labels]
    BY DEF Calls, CallTypes, Labels, SetSteps
  <2> QED
    BY <2>1, <2>2
<1>2. place' \in [Threads -> Dirs] /\ trail' \in [Threads -> Seq(Dirs)]
  <2>1. CASE trail[t] = <<>>
    BY <2>1 DEF GoDown, Calls, CallTypes
  <2>2. CASE trail[t] # <<>>
    <3>1. trail[t] \in Seq(Dirs)
      BY DEF Calls, CallTypes
    <3>2. PICK s \in Seq(Dirs) : s = trail[t] /\ s # <<>>
      BY <3>1, <2>2
    <3>3. Head(s) \in Dirs /\ Tail(s) \in Seq(Dirs)
      BY <3>2
    <3>4. /\ place' = [place EXCEPT ![t] = Head(s)]
          /\ trail' = [trail EXCEPT ![t] = Tail(s)]
      BY <2>2, <3>2 DEF GoDown
    <3> QED
      BY <3>3, <3>4 DEF Calls, CallTypes
  <2> QED
    BY <2>1, <2>2
<1>3. /\ scan' \in [Threads -> SUBSET Dirs] /\ opened' \in [Threads -> SUBSET Dirs]
      /\ listed' \in [Threads -> SUBSET Keys]
  BY DEF Calls, CallTypes
<1> QED
  BY <1>1, <1>2, <1>3, GoesOnKeeps

(* A directory is made in the one above it.                                *)
LEMMA MakeDirKeeps ==
  ASSUME FInv, NEW t \in Threads, NEW label \in {"climb", "descend"}, MakeDir(t, label)
  PROVE  FInv'
<1> USE DEF FInv
<1>1. /\ Calls'
      /\ \A u \in Threads \ {t} : pc'[u] = pc[u] /\ target'[u] = target[u]
  BY GoDownKeeps DEF MakeDir, SetSteps
<1>2. /\ dirs' = dirs \cup {place[t]} /\ place[t] \in Dirs
      /\ place[t] = Root \/ Up[place[t]] \in dirs
      /\ UNCHANGED <<file, linked, stored>> /\ pc[t] # "write"
  BY DEF MakeDir, CanMake, GoesOn, Calls, CallTypes
<1>3. TreeTypes'
  BY <1>2 DEF TreeTypes
<1>4. TreeIsWhole'
  BY <1>2 DEF TreeIsWhole
<1>5. LinkedIsThere'
  BY <1>1, <1>2 DEF LinkedIsThere
<1> QED
  BY <1>1, <1>3, <1>4, <1>5

LEMMA ClimbTypes ==
  ASSUME Calls, NEW t \in Threads, Climb(t)
  PROVE  place' \in [Threads -> Dirs] /\ trail' \in [Threads -> Seq(Dirs)]
<1>1. place[t] \in Dirs /\ Up[place[t]] \in Dirs /\ trail[t] \in Seq(Dirs)
  BY TreeAssumption DEF Calls, CallTypes
<1>2. PICK s \in Seq(Dirs) : s = trail[t]
  BY <1>1
<1>3. PICK d \in Dirs : d = place[t]
  BY <1>1
<1>4. <<d>> \o s \in Seq(Dirs)
  OBVIOUS
<1>5. trail' = [trail EXCEPT ![t] = <<d>> \o s]
  BY <1>2, <1>3 DEF Climb
<1>6. trail' \in [Threads -> Seq(Dirs)]
  BY <1>4, <1>5 DEF Calls, CallTypes
<1>7. place' \in [Threads -> Dirs]
  BY <1>1 DEF Climb, Calls, CallTypes
<1> QED
  BY <1>6, <1>7

(* The other steps of set, up to the file, leave the tree alone.           *)
LEMMA MakesKeep ==
  ASSUME FInv, NEW t \in Threads, Makes(t)
  PROVE  FInv'
<1> USE DEF FInv
<1>1. ASSUME NEW label \in {"climb", "descend"}, MakeDir(t, label) PROVE FInv'
  BY <1>1, MakeDirKeeps
<1>2. ASSUME NEW label \in {"climb", "descend"}, FindDir(t, label) PROVE FInv'
  <2>1. /\ pc' \in [Threads -> Labels] /\ pc'[t] \in SetSteps /\ pc[t] \in SetSteps
        /\ \A u \in Threads \ {t} : pc'[u] = pc[u]
    BY <1>2 DEF FindDir, GoTo, Calls, CallTypes, Labels, SetSteps
  <2>2. /\ place' \in [Threads -> Dirs] /\ trail' \in [Threads -> Seq(Dirs)]
        /\ scan' \in [Threads -> SUBSET Dirs] /\ opened' \in [Threads -> SUBSET Dirs]
        /\ listed' \in [Threads -> SUBSET Keys] /\ GoesOn
    BY <1>2 DEF FindDir, mkdirVars, rmtreeVars, Calls, CallTypes
  <2>3. /\ Calls'
        /\ \A u \in Threads \ {t} : pc'[u] = pc[u] /\ target'[u] = target[u]
    BY <2>1, <2>2, GoesOnKeeps
  <2> QED
    BY <1>2, <2>3, TreeLeftAlone DEF FindDir, GoesOn, TreeTypes
<1>3. ASSUME Climb(t) PROVE FInv'
  <2>1. place' \in [Threads -> Dirs] /\ trail' \in [Threads -> Seq(Dirs)]
    BY <1>3, ClimbTypes
  <2>2. /\ pc' \in [Threads -> Labels] /\ pc'[t] \in SetSteps /\ pc[t] \in SetSteps
        /\ \A u \in Threads \ {t} : pc'[u] = pc[u]
        /\ scan' \in [Threads -> SUBSET Dirs] /\ opened' \in [Threads -> SUBSET Dirs]
        /\ listed' \in [Threads -> SUBSET Keys] /\ GoesOn
    BY <1>3 DEF Climb, rmtreeVars, Calls, CallTypes, SetSteps
  <2>3. /\ Calls'
        /\ \A u \in Threads \ {t} : pc'[u] = pc[u] /\ target'[u] = target[u]
    BY <2>1, <2>2, GoesOnKeeps
  <2> QED
    BY <1>3, <2>3, TreeLeftAlone DEF Climb, GoesOn, TreeTypes
<1>4. ASSUME LoseParent(t) \/ GoneAgain(t) PROVE FInv'
  <2>1. Return(t, Failed) /\ UNCHANGED <<treeVars, stored>> /\ pc[t] # "write"
    BY <1>4 DEF LoseParent, GoneAgain
  <2> QED
    BY <2>1, ReturnKeeps, TreeLeftAlone DEF Answers, TreeTypes
<1>5. ASSUME StillThere(t) PROVE FInv'
  <2>1. /\ Calls'
        /\ \A u \in Threads \ {t} : pc'[u] = pc[u] /\ target'[u] = target[u]
    BY <1>5, GoDownKeeps DEF StillThere, SetSteps
  <2> QED
    BY <1>5, <2>1, TreeLeftAlone DEF StillThere, GoesOn, TreeTypes
<1> QED
  BY <1>1, <1>2, <1>3, <1>4, <1>5 DEF Makes

-----------------------------------------------------------------------------
(* A file is made in its directory, and who else has it open still has it. *)
LEMMA OpenKeeps ==
  ASSUME FInv, NEW t \in Threads, Open(t)
  PROVE  FInv'
<1> USE DEF FInv
<1>1. CASE Home[target[t]] \notin dirs
  <2>1. Return(t, Failed) /\ UNCHANGED <<treeVars, stored>> /\ pc[t] # "write"
    BY <1>1 DEF Open
  <2> QED
    BY <2>1, ReturnKeeps, TreeLeftAlone DEF Answers, TreeTypes
<1>2. CASE Home[target[t]] \in dirs
  <2>1. /\ pc[t] = "open" /\ GoTo(t, "write") /\ GoesOn
        /\ file' = [file EXCEPT ![target[t]] = Empty]
        /\ linked' = [linked EXCEPT ![t] = TRUE]
        /\ UNCHANGED <<dirs, mkdirVars, rmtreeVars>>
    BY <1>2 DEF Open
  <2>2. target[t] \in Keys
    BY <2>1 DEF Calls, Named, SetSteps
  <2>3. /\ Calls'
        /\ \A u \in Threads \ {t} : pc'[u] = pc[u] /\ target'[u] = target[u]
    <3>1. /\ pc' \in [Threads -> Labels] /\ pc'[t] \in SetSteps /\ pc[t] \in SetSteps
          /\ \A u \in Threads \ {t} : pc'[u] = pc[u]
      BY <2>1 DEF GoTo, Calls, CallTypes, Labels, SetSteps
    <3>2. /\ place' \in [Threads -> Dirs] /\ trail' \in [Threads -> Seq(Dirs)]
          /\ scan' \in [Threads -> SUBSET Dirs] /\ opened' \in [Threads -> SUBSET Dirs]
          /\ listed' \in [Threads -> SUBSET Keys]
      BY <2>1 DEF mkdirVars, rmtreeVars, Calls, CallTypes
    <3> QED
      BY <2>1, <3>1, <3>2, GoesOnKeeps
  <2>4. TreeTypes'
    BY <2>1, <2>2 DEF TreeTypes, Texts, GoesOn
  <2>5. TreeIsWhole'
    BY <1>2, <2>1, <2>2 DEF TreeIsWhole, TreeTypes
  <2>6. \A j \in Keys : file[j] # Absent => file'[j] # Absent
    BY <2>1, <2>2, Marks DEF TreeTypes
  <2>7. LinkedIsThere'
    <3> SUFFICES ASSUME NEW u \in Threads, linked'[u]
                 PROVE  pc'[u] = "write" /\ file'[target'[u]] # Absent
      BY DEF LinkedIsThere
    <3>1. CASE u = t
      <4>1. pc'[t] = "write" /\ target'[t] = target[t]
        BY <2>1 DEF GoTo, GoesOn, callVars, Calls, CallTypes
      <4>2. file'[target[t]] = Empty
        BY <2>1, <2>2 DEF TreeTypes
      <4> QED
        BY <3>1, <4>1, <4>2, Marks
    <3>2. CASE u # t
      <4>1. linked[u]
        BY <2>1, <3>2 DEF TreeTypes
      <4>2. pc[u] = "write" /\ file[target[u]] # Absent /\ target[u] \in Keys
        BY <4>1 DEF LinkedIsThere, Calls, Named, SetSteps
      <4> QED
        BY <2>3, <2>6, <3>2, <4>2
    <3> QED
      BY <3>1, <3>2
  <2> QED
    BY <2>3, <2>4, <2>5, <2>7
<1> QED
  BY <1>1, <1>2

(* A file that still has its name is in its directory when it is written.  *)
LEMMA WriteKeeps ==
  ASSUME FInv, NEW t \in Threads, Write(t)
  PROVE  FInv'
<1> USE DEF FInv
<1>1. /\ pc[t] = "write" /\ Return(t, Ok) /\ dirs' = dirs
      /\ linked' = [linked EXCEPT ![t] = FALSE]
      /\ stored' \subseteq stored \cup {target[t]}
  BY DEF Write
<1>2. target[t] \in Keys /\ value[t] \in Values
  BY <1>1 DEF Calls, Named, SetSteps
<1>3. /\ Calls'
      /\ \A u \in Threads \ {t} : pc'[u] = pc[u] /\ target'[u] = target[u]
  BY <1>1, ReturnKeeps DEF Answers
<1>4. /\ file' \in [Keys -> Texts]
      /\ \A k \in Keys : file'[k] # Absent <=> file[k] # Absent
  <2>1. CASE linked[t]
    <3>1. PICK text \in Values \cup {Mixed} : file' = [file EXCEPT ![target[t]] = text]
      BY <1>2, <2>1 DEF Write
    <3>2. text \in Texts /\ text # Absent
      BY Marks DEF Texts
    <3>3. file[target[t]] # Absent
      BY <2>1 DEF LinkedIsThere
    <3> QED
      BY <1>2, <3>1, <3>2, <3>3 DEF TreeTypes
  <2>2. CASE ~ linked[t]
    BY <2>2 DEF Write, TreeTypes
  <2> QED
    BY <2>1, <2>2
<1>5. TreeTypes'
  BY <1>1, <1>2, <1>4 DEF TreeTypes
<1>6. TreeIsWhole'
  BY <1>1, <1>4 DEF TreeIsWhole
<1>7. LinkedIsThere'
  <2> SUFFICES ASSUME NEW u \in Threads, linked'[u]
               PROVE  pc'[u] = "write" /\ file'[target'[u]] # Absent
    BY DEF LinkedIsThere
  <2>1. u # t /\ linked[u]
    BY <1>1 DEF TreeTypes
  <2>2. pc[u] = "write" /\ file[target[u]] # Absent /\ target[u] \in Keys
    BY <2>1 DEF LinkedIsThere, Calls, Named, SetSteps
  <2> QED
    BY <1>3, <1>4, <2>1, <2>2
<1> QED
  BY <1>3, <1>5, <1>6, <1>7

-----------------------------------------------------------------------------
(* rmtree removes a directory only when it is empty.                       *)
RmtreeTypes ==
  /\ scan \in [Threads -> SUBSET Dirs] /\ opened \in [Threads -> SUBSET Dirs]
  /\ listed \in [Threads -> SUBSET Keys]

LEMMA RemovesCalls ==
  ASSUME Calls, dirs \subseteq Dirs, NEW t \in Threads, Removes(t)
  PROVE  /\ Calls' /\ pc[t] = "remove" /\ GoesOn
         /\ \A u \in Threads \ {t} : pc'[u] = pc[u] /\ target'[u] = target[u]
<1>1. /\ pc[t] = "remove" /\ GoesOn /\ UNCHANGED mkdirVars
      /\ pc' = pc \/ GoTo(t, "leaf")
  BY DEF Removes, ListDir, RemoveDir, RemoveFile, Removed
<1>2. /\ pc' \in [Threads -> Labels] /\ pc'[t] \in DropSteps /\ pc[t] \in DropSteps
      /\ \A u \in Threads \ {t} : pc'[u] = pc[u]
  BY <1>1 DEF GoTo, Calls, CallTypes, Labels, DropSteps
<1>3. place' \in [Threads -> Dirs] /\ trail' \in [Threads -> Seq(Dirs)]
  BY <1>1 DEF mkdirVars, Calls, CallTypes
<1>4. RmtreeTypes'
  <2> USE DEF RmtreeTypes, Calls, CallTypes
  <2>1. ASSUME NEW d \in Dirs, ListDir(t, d) PROVE RmtreeTypes'
    <3>1. Subdirs(d) \subseteq Dirs /\ FilesIn(d) \subseteq Keys
      BY DEF Subdirs, FilesIn
    <3>2. CASE d \in dirs
      <4>1. /\ scan' = [scan EXCEPT ![t] = (scan[t] \ {d}) \cup Subdirs(d)]
            /\ listed' = [listed EXCEPT ![t] = listed[t] \cup FilesIn(d)]
            /\ opened' = [opened EXCEPT ![t] = opened[t] \cup {d}]
        BY <2>1, <3>2 DEF ListDir
      <4>2. (scan[t] \ {d}) \cup Subdirs(d) \in SUBSET Dirs
        BY <3>1
      <4>3. listed[t] \cup FilesIn(d) \in SUBSET Keys
        BY <3>1
      <4> QED
        BY <4>1, <4>2, <4>3
    <3>3. CASE d \notin dirs
      <4>1. /\ scan' = [scan EXCEPT ![t] = scan[t] \ {d}]
            /\ UNCHANGED <<listed, opened>>
        BY <2>1, <3>3 DEF ListDir
      <4> QED
        BY <4>1
    <3> QED
      BY <3>2, <3>3
  <2>2. ASSUME NEW d \in Dirs, RemoveDir(t, d) PROVE RmtreeTypes'
    BY <2>2 DEF RemoveDir
  <2>3. ASSUME NEW k \in Keys, RemoveFile(t, k) PROVE RmtreeTypes'
    BY <2>3 DEF RemoveFile
  <2>4. ASSUME Removed(t) PROVE RmtreeTypes'
    BY <2>4 DEF Removed, rmtreeVars
  <2> QED
    BY <2>1, <2>2, <2>3, <2>4 DEF Removes
<1> QED
  BY <1>1, <1>2, <1>3, <1>4, GoesOnKeeps DEF RmtreeTypes

LEMMA RemovesKeep ==
  ASSUME FInv, NEW t \in Threads, Removes(t)
  PROVE  FInv'
<1>1. /\ Calls' /\ pc[t] = "remove" /\ GoesOn
      /\ \A u \in Threads \ {t} : pc'[u] = pc[u] /\ target'[u] = target[u]
  BY RemovesCalls DEF FInv, TreeTypes
<1>2. stored' \subseteq Keys /\ pc[t] # "write"
  BY <1>1 DEF GoesOn, FInv, TreeTypes
<1>3. ASSUME UNCHANGED treeVars PROVE FInv'
  BY <1>1, <1>2, <1>3, TreeLeftAlone
<1>4. ASSUME NEW k \in Keys, RemoveFile(t, k) PROVE FInv'
  BY <1>1, <1>2, <1>4, UnlinkedKeeps DEF RemoveFile
<1>5. ASSUME NEW d \in Dirs, RemoveDir(t, d) PROVE FInv'
  <2>1. CASE dirs' = dirs
    BY <1>3, <1>5, <2>1 DEF RemoveDir, treeVars
  <2>2. CASE dirs' # dirs
    <3>1. /\ Subdirs(d) = {} /\ FilesIn(d) = {} /\ dirs' = dirs \ {d}
          /\ UNCHANGED <<file, linked>>
      BY <1>5, <2>2 DEF RemoveDir
    <3>2. \A e \in dirs : e # Root => Up[e] # d
      BY <3>1 DEF Subdirs
    <3>3. \A k \in Keys : file[k] # Absent => Home[k] # d
      BY <3>1 DEF FilesIn
    <3>4. TreeIsWhole'
      BY <3>1, <3>2, <3>3 DEF FInv, TreeIsWhole
    <3>5. TreeTypes'
      BY <1>2, <3>1 DEF FInv, TreeTypes
    <3>6. LinkedIsThere'
      BY <1>1, <1>2, <3>1 DEF FInv, LinkedIsThere
    <3> QED
      BY <1>1, <3>4, <3>5, <3>6 DEF FInv
  <2> QED
    BY <2>1, <2>2
<1> QED
  BY <1>3, <1>4, <1>5 DEF Removes, ListDir, Removed

(* The rest of invalidate_prefix and of invalidate: what goes on ...       *)
LEMMA EntersKeep ==
  ASSUME FInv, NEW t \in Threads, NEW label \in Labels, GoTo(t, label),
         \/ pc[t] \in DropSteps /\ label \in DropSteps
         \/ pc[t] \in InvalidateSteps /\ label \in InvalidateSteps,
         GoesOn, UNCHANGED <<treeVars, mkdirVars, opened, listed>>,
         scan' \in [Threads -> SUBSET Dirs]
  PROVE  FInv'
<1>1. /\ pc' \in [Threads -> Labels] /\ pc'[t] = label /\ Calls
      /\ \A u \in Threads \ {t} : pc'[u] = pc[u]
  BY DEF GoTo, FInv, Calls, CallTypes
<1>2. /\ place' \in [Threads -> Dirs] /\ trail' \in [Threads -> Seq(Dirs)]
      /\ opened' \in [Threads -> SUBSET Dirs] /\ listed' \in [Threads -> SUBSET Keys]
  BY DEF mkdirVars, FInv, Calls, CallTypes
<1>3. /\ Calls'
      /\ \A u \in Threads \ {t} : pc'[u] = pc[u] /\ target'[u] = target[u]
  BY <1>1, <1>2, GoesOnKeeps
<1>4. pc[t] # "write" /\ stored' \subseteq Keys
  BY DEF DropSteps, InvalidateSteps, GoesOn, FInv, TreeTypes
<1> QED
  BY <1>3, <1>4, TreeLeftAlone

(* ... what ends and leaves the tree alone ...                             *)
LEMMA EndsKeep ==
  ASSUME FInv, NEW t \in Threads, pc[t] # "write", NEW a \in Answers, Return(t, a),
         UNCHANGED <<treeVars, stored>>
  PROVE  FInv'
BY ReturnKeeps, TreeLeftAlone DEF FInv, TreeTypes

(* ... and what ends with a file removed.                                  *)
LEMMA EndsUnlinked ==
  ASSUME FInv, NEW t \in Threads, pc[t] # "write", NEW a \in Answers, Return(t, a),
         NEW k, Unlinked(k), UNCHANGED <<dirs, stored>>
  PROVE  FInv'
<1>1. /\ Calls' /\ stored' \subseteq Keys /\ dirs' = dirs
      /\ \A u \in Threads \ {t} : pc'[u] = pc[u] /\ target'[u] = target[u]
  BY ReturnKeeps DEF FInv, TreeTypes
<1> QED
  BY <1>1, UnlinkedKeeps

LEMMA DropsKeep ==
  ASSUME FInv, NEW t \in Threads,
         Read(t) \/ Enter(t) \/ Count(t) \/ DropLeaf(t) \/ Check(t) \/ Unlink(t)
  PROVE  FInv'
<1>1. Ok \in Answers /\ Failed \in Answers
  BY DEF Answers
<1>2. CASE Read(t)
  <2>1. Contents(target[t]) \in Answers
    BY DEF Contents, Answers
  <2> QED
    BY <1>2, <2>1, EndsKeep DEF Read
<1>3. CASE Enter(t)
  <2>1. PICK label \in {"count", "leaf"} : GoTo(t, label)
    BY <1>3 DEF Enter
  <2>2. pc[t] \in DropSteps /\ label \in DropSteps /\ label \in Labels
    BY <1>3 DEF Enter, DropSteps, Labels
  <2>3. /\ GoesOn /\ UNCHANGED <<treeVars, mkdirVars, opened, listed>>
        /\ scan' \in [Threads -> SUBSET Dirs]
    BY <1>3 DEF Enter, rmtreeVars, FInv, Calls, CallTypes
  <2> QED
    BY <2>1, <2>2, <2>3, EntersKeep
<1>4. CASE Count(t)
  <2>1. CASE Return(t, Failed) /\ UNCHANGED <<treeVars, stored>>
    BY <1>1, <1>4, <2>1, EndsKeep DEF Count
  <2>2. CASE /\ GoTo(t, "remove") /\ scan' = [scan EXCEPT ![t] = {Top[prefix[t]]}]
             /\ GoesOn /\ UNCHANGED <<treeVars, mkdirVars, opened, listed>>
    <3>1. "remove" \in Labels /\ "remove" \in DropSteps /\ pc[t] \in DropSteps
      BY <1>4 DEF Count, Labels, DropSteps
    <3>2. prefix[t] \in Prefixes
      BY <3>1 DEF FInv, Calls, Named
    <3>3. Top[prefix[t]] \in Dirs
      BY <3>2, PrefixAssumption
    <3>4. scan' \in [Threads -> SUBSET Dirs]
      BY <2>2, <3>3 DEF FInv, Calls, CallTypes
    <3> QED
      BY <2>2, <3>1, <3>4, EntersKeep
  <2> QED
    BY <1>4, <2>1, <2>2 DEF Count
<1>5. CASE DropLeaf(t)
  <2>1. pc[t] # "write" /\ Return(t, Ok) /\ UNCHANGED <<dirs, stored>>
    BY <1>5 DEF DropLeaf
  <2>2. CASE Leaf[prefix[t]] \in Keys
    BY <1>1, <1>5, <2>1, <2>2, EndsUnlinked DEF DropLeaf
  <2>3. CASE Leaf[prefix[t]] \notin Keys
    BY <1>1, <1>5, <2>1, <2>3, EndsKeep DEF DropLeaf, treeVars
  <2> QED
    BY <2>2, <2>3
<1>6. CASE Check(t)
  <2>1. CASE Return(t, Ok) /\ UNCHANGED <<treeVars, stored>>
    BY <1>1, <1>6, <2>1, EndsKeep DEF Check
  <2>2. CASE /\ GoTo(t, "unlink") /\ GoesOn /\ UNCHANGED <<treeVars, mkdirVars, rmtreeVars>>
    <3>1. "unlink" \in Labels /\ "unlink" \in InvalidateSteps /\ pc[t] \in InvalidateSteps
      BY <1>6 DEF Check, Labels, InvalidateSteps
    <3>2. UNCHANGED <<opened, listed>> /\ scan' \in [Threads -> SUBSET Dirs]
      BY <2>2 DEF rmtreeVars, FInv, Calls, CallTypes
    <3> QED
      BY <2>2, <3>1, <3>2, EntersKeep
  <2> QED
    BY <1>6, <2>1, <2>2 DEF Check
<1>7. CASE Unlink(t)
  <2>1. pc[t] # "write" /\ UNCHANGED <<dirs, stored>>
    BY <1>7 DEF Unlink
  <2>2. CASE Unlinked(target[t]) /\ Return(t, Ok)
    BY <1>1, <2>1, <2>2, EndsUnlinked
  <2>3. CASE Return(t, Failed) /\ UNCHANGED <<file, linked>>
    BY <1>1, <2>1, <2>3, EndsKeep DEF treeVars
  <2> QED
    BY <1>7, <2>2, <2>3 DEF Unlink
<1> QED
  BY <1>2, <1>3, <1>4, <1>5, <1>6, <1>7

-----------------------------------------------------------------------------
LEMMA CheckHealthKeeps ==
  ASSUME FInv, CheckHealth
  PROVE  FInv'
<1> USE TreeAssumption DEF FInv, CheckHealth
<1>1. Calls' /\ LinkedIsThere'
  BY DEF Calls, CallTypes, Named, LinkedIsThere, callVars, mkdirVars, rmtreeVars
<1>2. TreeTypes' /\ TreeIsWhole'
  BY DEF TreeTypes, TreeIsWhole
<1> QED
  BY <1>1, <1>2

LEMMA CrashKeeps ==
  ASSUME FInv, Crash
  PROVE  FInv'
<1> USE Marks, TreeAssumption DEF FInv, Crash
<1>1. CallTypes'
  BY DEF Calls, CallTypes, Labels, Answers
<1>2. Named'
  BY DEF Named, SetSteps, DropSteps, InvalidateSteps
<1>3. TreeTypes' /\ LinkedIsThere' /\ TreeIsWhole'
  BY DEF TreeTypes, LinkedIsThere, TreeIsWhole
<1> QED
  BY <1>1, <1>2, <1>3 DEF Calls

LEMMA StutterKeeps == FInv /\ UNCHANGED vars => FInv'
<1> SUFFICES ASSUME FInv, UNCHANGED vars PROVE FInv'
  OBVIOUS
<1> USE DEF FInv, vars, treeVars, callVars, mkdirVars, rmtreeVars
<1>1. Calls'
  BY DEF Calls, CallTypes, Named
<1>2. TreeTypes' /\ LinkedIsThere' /\ TreeIsWhole'
  BY DEF TreeTypes, LinkedIsThere, TreeIsWhole
<1> QED
  BY <1>1, <1>2

LEMMA StepFInv == FInv /\ [Next]_vars => FInv'
<1> SUFFICES ASSUME FInv, [Next]_vars PROVE FInv'
  OBVIOUS
<1>1. ASSUME NEW t \in Threads, Begins(t) PROVE FInv'
  BY <1>1, BeginKeepsTree
<1>2. ASSUME NEW t \in Threads, Step(t) PROVE FInv'
  BY <1>2, MakesKeep, OpenKeeps, WriteKeeps, RemovesKeep, DropsKeep DEF Step
<1> QED
  BY <1>1, <1>2, CheckHealthKeeps, CrashKeeps, StutterKeeps DEF Next

LEMMA AlwaysFInv == Spec => []FInv
BY InitFInv, StepFInv, PTL DEF Spec

(* Every variable of the store stays in its range, for any number of       *)
(* threads, keys, prefixes and sets.                                       *)
THEOREM StoreTypes == Spec => []TypeOK
<1>1. FInv => TypeOK
  BY TypesAreTypeOK DEF FInv, Calls
<1> QED
  BY <1>1, AlwaysFInv, PTL

-----------------------------------------------------------------------------
(***************************************************************************)
(* The file store implements CacheStore: seen through Contract, each call  *)
(* of the file system is a step of that specification or none.             *)
(***************************************************************************)

(* A directory that is there is in everything it should be in, not only in *)
(* the directory just above.                                               *)
AncestorsThere == \A d \in Dirs : \A e \in dirs : e \in Under[d] => d \in dirs

(* What a drop is told of the sets that hinder it.                         *)
SetsAreTouched ==
  \A t \in Threads :
    /\ Dropping(t) => \A u \in Threads : Setting(u) => target[u] \in touched[t]
    /\ ~ Dropping(t) => touched[t] = {}

(* What rmtree works on belongs to its prefix, and what belongs to its     *)
(* prefix and is not touched it has yet to find or to remove.              *)
Inside(t) == Under[Top[prefix[t]]]
Ahead(t, k) == k \in listed[t] \/ \E d \in scan[t] : Home[k] \in Under[d]
Thorough(t) ==
  /\ pc[t] = "remove" => /\ scan[t] \subseteq Inside(t)
                         /\ \A k \in listed[t] : Home[k] \in Inside(t)
  /\ pc[t] # "remove" => scan[t] = {} /\ listed[t] = {}
  /\ pc[t] \in {"remove", "leaf"} =>
       \A k \in Keys \ touched[t] :
         Home[k] \in Inside(t) /\ file[k] # Absent => Ahead(t, k)
DropsAreThorough == \A t \in Threads : Thorough(t)

RInv == FInv /\ AncestorsThere /\ SetsAreTouched /\ DropsAreThorough


-----------------------------------------------------------------------------
LEMMA OpIs ==
  ASSUME NEW t \in Threads
  PROVE  /\ pc[t] = "idle" => CallOf(t) = Contract!Idle
         /\ pc[t] = "read" => CallOf(t) = [op |-> "get", keys |-> {target[t]}, value |-> Nothing]
         /\ Setting(t) => CallOf(t) = [op |-> "set", keys |-> {target[t]}, value |-> value[t]]
         /\ Dropping(t) => CallOf(t) = [op |-> "drop", keys |-> DroppedBy(t), value |-> Nothing]
BY DEF CallOf, Setting, Dropping, SetSteps, DropSteps, InvalidateSteps, Contract!Idle

LEMMA InitRefines == Init => Contract!Init
<1> SUFFICES ASSUME Init PROVE Contract!Init
  OBVIOUS
<1>1. \A k \in Keys : Contents(k) = Nothing
  BY Marks DEF Init, Contents
<1>2. \A t \in Threads : CallOf(t) = Contract!Idle
  BY OpIs DEF Init
<1> QED
  BY <1>1, <1>2 DEF Init, Contract!Init

-----------------------------------------------------------------------------
(* A step of a call ends it or stays in it.                                *)
StaysIn(t) ==
  \/ pc[t] \in SetSteps /\ pc'[t] \in SetSteps
  \/ pc[t] \in DropSteps /\ pc'[t] \in DropSteps
  \/ pc[t] \in InvalidateSteps /\ pc'[t] \in InvalidateSteps

LEMMA GoToMoves ==
  ASSUME FInv, NEW t \in Threads, NEW label, GoTo(t, label)
  PROVE  pc'[t] = label /\ \A u \in Threads \ {t} : pc'[u] = pc[u]
BY DEF FInv, Calls, CallTypes, GoTo

LEMMA ReturnMoves ==
  ASSUME FInv, NEW t \in Threads, NEW a, Return(t, a)
  PROVE  /\ pc'[t] = "idle" /\ touched'[t] = {}
         /\ \A u \in Threads \ {t} :
              pc'[u] = pc[u] /\ target'[u] = target[u] /\ touched'[u] = touched[u]
BY DEF FInv, Calls, CallTypes, Return, GoTo

LEMMA StepShape ==
  ASSUME FInv, NEW t \in Threads, Step(t)
  PROVE  /\ \A u \in Threads \ {t} : pc'[u] = pc[u]
         /\ (\E a \in Answers : Return(t, a)) \/ (GoesOn /\ StaysIn(t))
<1> DEFINE Ends == \E a \in Answers : Return(t, a)
           Others == \A u \in Threads \ {t} : pc'[u] = pc[u]
<1>0. Ok \in Answers /\ Failed \in Answers /\ Contents(target[t]) \in Answers
  BY DEF Answers, Contents
<1>1. Ends => Others
  BY ReturnMoves
<1>2. CASE Read(t)
  <2>1. Ends
    BY <1>0, <1>2 DEF Read
  <2> QED
    BY <1>1, <2>1
<1>3. CASE Makes(t)
  <2>1. CASE LoseParent(t) \/ GoneAgain(t)
    <3>1. Ends
      BY <1>0, <2>1 DEF LoseParent, GoneAgain
    <3> QED
      BY <1>1, <3>1
  <2>2. CASE Climb(t)
    BY <2>2 DEF Climb, StaysIn, SetSteps
  <2>3. CASE StillThere(t) \/ \E label \in {"climb", "descend"} : MakeDir(t, label)
    <3>1. GoesOn /\ pc[t] \in SetSteps /\ (GoTo(t, "open") \/ GoTo(t, "descend"))
      BY <2>3 DEF StillThere, MakeDir, GoDown, SetSteps
    <3> QED
      BY <3>1, GoToMoves DEF StaysIn, SetSteps
  <2>4. CASE \E label \in {"climb", "descend"} : FindDir(t, label)
    <3>1. GoesOn /\ pc[t] \in SetSteps /\ GoTo(t, "exists")
      BY <2>4 DEF FindDir, SetSteps
    <3> QED
      BY <3>1, GoToMoves DEF StaysIn, SetSteps
  <2> QED
    BY <1>3, <2>1, <2>2, <2>3, <2>4 DEF Makes
<1>4. CASE Open(t) \/ Write(t)
  <2>1. Ends \/ (GoesOn /\ pc[t] \in SetSteps /\ GoTo(t, "write"))
    BY <1>0, <1>4 DEF Open, Write, SetSteps
  <2> QED
    BY <1>1, <2>1, GoToMoves DEF StaysIn, SetSteps
<1>5. CASE Removes(t)
  <2>1. GoesOn /\ pc[t] \in DropSteps /\ (pc' = pc \/ GoTo(t, "leaf"))
    BY <1>5 DEF Removes, ListDir, RemoveDir, RemoveFile, Removed, DropSteps
  <2> QED
    BY <2>1, GoToMoves DEF StaysIn, DropSteps
<1>6. CASE Enter(t)
  <2>1. GoesOn /\ pc[t] \in DropSteps /\ (GoTo(t, "count") \/ GoTo(t, "leaf"))
    BY <1>6 DEF Enter, DropSteps
  <2> QED
    BY <2>1, GoToMoves DEF StaysIn, DropSteps
<1>7. CASE Count(t) \/ DropLeaf(t)
  <2>1. Ends \/ (GoesOn /\ pc[t] \in DropSteps /\ GoTo(t, "remove"))
    BY <1>0, <1>7 DEF Count, DropLeaf, DropSteps
  <2> QED
    BY <1>1, <2>1, GoToMoves DEF StaysIn, DropSteps
<1>8. CASE Check(t) \/ Unlink(t)
  <2>1. Ends \/ (GoesOn /\ pc[t] \in InvalidateSteps /\ GoTo(t, "unlink"))
    BY <1>0, <1>8 DEF Check, Unlink, InvalidateSteps
  <2> QED
    BY <1>1, <2>1, GoToMoves DEF StaysIn, InvalidateSteps
<1> QED
  BY <1>2, <1>3, <1>4, <1>5, <1>6, <1>7, <1>8 DEF Step

(* Only the set of its key makes a file.                                   *)
LEMMA FilesAppear ==
  ASSUME FInv, NEW t \in Threads, Step(t), NEW k \in Keys, file'[k] # Absent
  PROVE  file[k] # Absent \/ (Setting(t) /\ target[t] = k)
<1>0. file \in [Keys -> Texts]
  BY DEF FInv, TreeTypes
<1>1. CASE Open(t) \/ Write(t)
  <2>1. Setting(t)
    BY <1>1 DEF Open, Write, Setting, SetSteps
  <2>2. ASSUME NEW j, j # target[t] PROVE file'[j] = file[j] \/ j \notin Keys
    BY <1>0, <1>1, <2>2 DEF Open, Write, treeVars
  <2> QED
    BY <2>1, <2>2
<1>2. ASSUME NEW j, Unlinked(j) PROVE file[k] # Absent
  BY <1>0, <1>2 DEF Unlinked
<1>3. CASE file' = file
  BY <1>3
<1>4. CASE Removes(t)
  BY <1>2, <1>3, <1>4 DEF Removes, ListDir, RemoveDir, RemoveFile, Removed, treeVars
<1>5. CASE DropLeaf(t) \/ Unlink(t)
  BY <1>2, <1>3, <1>5 DEF DropLeaf, Unlink
<1>6. CASE Makes(t)
  BY <1>3, <1>6 DEF Makes, MakeDir, FindDir, Climb, LoseParent, StillThere, GoneAgain, treeVars
<1>7. CASE Read(t) \/ Enter(t)
  BY <1>3, <1>7 DEF Read, Enter, treeVars
<1>8. CASE Count(t) \/ Check(t)
  BY <1>3, <1>8 DEF Count, Check, treeVars
<1> QED
  BY <1>1, <1>4, <1>5, <1>6, <1>7, <1>8 DEF Step

-----------------------------------------------------------------------------
LEMMA AncestorsStep ==
  ASSUME FInv, AncestorsThere, [Next]_vars
  PROVE  AncestorsThere'
<1> USE TreeAssumption DEF AncestorsThere
<1>1. dirs \subseteq Dirs
  BY DEF FInv, TreeTypes
<1>2. CASE dirs' = dirs
  BY <1>2
<1>3. ASSUME NEW t \in Threads, NEW label \in {"climb", "descend"}, MakeDir(t, label)
      PROVE  AncestorsThere'
  <2>1. PICK c \in Dirs : c = place[t]
    BY DEF FInv, Calls, CallTypes
  <2>2. dirs' = dirs \cup {c} /\ (c = Root \/ Up[c] \in dirs)
    BY <1>3, <2>1 DEF MakeDir, CanMake
  <2>3. ASSUME NEW d \in Dirs, c \in Under[d], c # d PROVE d \in dirs
    BY <2>2, <2>3
  <2> QED
    BY <1>1, <2>2, <2>3
<1>4. ASSUME NEW t \in Threads, NEW d \in Dirs, RemoveDir(t, d), dirs' # dirs
      PROVE  AncestorsThere'
  <2>1. dirs' = dirs \ {d} /\ Subdirs(d) = {}
    BY <1>4 DEF RemoveDir
  <2>2. ASSUME NEW e \in dirs, e # d, e \in Under[d] PROVE FALSE
    <3>1. PICK c \in Dirs \ {Root} : Up[c] = d /\ e \in Under[c]
      BY <1>1, <2>2
    <3>2. c \in dirs
      BY <1>1, <3>1
    <3> QED
      BY <2>1, <3>1, <3>2 DEF Subdirs
  <2> QED
    BY <1>1, <2>1, <2>2
<1>5. CASE CheckHealth
  <2>1. dirs' = dirs \cup {Root}
    BY <1>5 DEF CheckHealth
  <2>2. ASSUME NEW d \in Dirs, Root \in Under[d] PROVE d = Root
    BY <2>2
  <2> QED
    BY <1>1, <2>1, <2>2
<1>6. CASE Crash \/ UNCHANGED vars
  BY <1>2, <1>6 DEF Crash, vars, treeVars
<1>7. ASSUME NEW t \in Threads, Begins(t) PROVE dirs' = dirs
  BY <1>7 DEF Begins, BeginGet, BeginSet, BeginInvalidate, BeginDrop, treeVars
<1>8. ASSUME NEW t \in Threads, Step(t) PROVE AncestorsThere'
  <2>1. CASE Makes(t)
    BY <1>2, <1>3, <2>1
       DEF Makes, FindDir, Climb, LoseParent, StillThere, GoneAgain, treeVars
  <2>2. CASE Removes(t)
    BY <1>2, <1>4, <2>2 DEF Removes, ListDir, RemoveFile, Removed, treeVars
  <2>3. CASE Read(t) \/ Open(t) \/ Write(t) \/ Enter(t) \/ Count(t)
    BY <1>2, <2>3 DEF Read, Open, Write, Enter, Count, treeVars
  <2>4. CASE DropLeaf(t) \/ Check(t) \/ Unlink(t)
    BY <1>2, <2>4 DEF DropLeaf, Check, Unlink, treeVars
  <2> QED
    BY <1>8, <2>1, <2>2, <2>3, <2>4 DEF Step
<1> QED
  BY <1>2, <1>5, <1>6, <1>7, <1>8 DEF Next

LEMMA TouchedStep ==
  ASSUME FInv, SetsAreTouched, [Next]_vars
  PROVE  SetsAreTouched'
<1> USE DEF SetsAreTouched, Setting, Dropping, SetSteps, DropSteps, InvalidateSteps
<1>0. /\ pc \in [Threads -> Labels] /\ target \in [Threads -> Keys \cup {None}]
      /\ touched \in [Threads -> SUBSET Keys]
  BY DEF FInv, Calls, CallTypes
<1>1. ASSUME NEW t \in Threads, NEW k \in Keys, BeginGet(t, k) PROVE SetsAreTouched'
  BY <1>0, <1>1 DEF BeginGet, GoTo
<1>2. ASSUME NEW t \in Threads, NEW k \in Keys, BeginSet(t, k) PROVE SetsAreTouched'
  BY <1>0, <1>2 DEF BeginSet, GoTo
<1>3. ASSUME NEW t \in Threads, NEW k \in Keys, BeginInvalidate(t, k) PROVE SetsAreTouched'
  BY <1>0, <1>3 DEF BeginInvalidate, GoTo, BeingSet
<1>4. ASSUME NEW t \in Threads, NEW p \in Prefixes, BeginDrop(t, p) PROVE SetsAreTouched'
  BY <1>0, <1>4 DEF BeginDrop, GoTo, BeingSet
<1>5. ASSUME NEW t \in Threads, Step(t) PROVE SetsAreTouched'
  <2>1. CASE \E a \in Answers : Return(t, a)
    BY <1>0, <1>5, <2>1 DEF Return, GoTo
  <2>2. CASE GoesOn /\ StaysIn(t)
    BY <1>0, <1>5, <2>2, StepShape DEF GoesOn, StaysIn, callVars
  <2> QED
    BY <1>5, <2>1, <2>2, StepShape
<1>6. CASE Crash
  BY <1>6 DEF Crash
<1>7. CASE CheckHealth \/ UNCHANGED vars
  BY <1>7 DEF CheckHealth, vars, callVars
<1> QED
  BY <1>1, <1>2, <1>3, <1>4, <1>5, <1>6, <1>7 DEF Next, Begins

-----------------------------------------------------------------------------
(* A file that is there when its directory is not listed any more ...      *)
LEMMA FilesAreBelow ==
  ASSUME FInv, AncestorsThere, NEW k \in Keys, file[k] # Absent, NEW d \in Dirs, Home[k] \in Under[d]
  PROVE  /\ d \in dirs
         /\ Home[k] = d \/ \E c \in Subdirs(d) : Home[k] \in Under[c]
<1>1. Home[k] \in dirs /\ Home[k] \in Dirs
  BY TreeAssumption DEF FInv, TreeIsWhole
<1>2. d \in dirs
  BY <1>1 DEF AncestorsThere
<1>3. ASSUME Home[k] # d PROVE \E c \in Subdirs(d) : Home[k] \in Under[c]
  <2>1. PICK c \in Dirs \ {Root} : Up[c] = d /\ Home[k] \in Under[c]
    BY <1>1, <1>3, TreeAssumption
  <2>2. c \in dirs
    BY <1>1, <2>1 DEF AncestorsThere
  <2> QED
    BY <2>1, <2>2 DEF Subdirs
<1> QED
  BY <1>2, <1>3

(* ... and the others see nothing of a step but its files.                 *)
LEMMA OthersAlone ==
  ASSUME FInv, NEW t \in Threads, Step(t), NEW u \in Threads, u # t
  PROVE  /\ pc'[u] = pc[u] /\ prefix'[u] = prefix[u] /\ touched'[u] = touched[u]
         /\ scan'[u] = scan[u] /\ listed'[u] = listed[u]
<1>0. /\ scan \in [Threads -> SUBSET Dirs] /\ listed \in [Threads -> SUBSET Keys]
      /\ prefix \in [Threads -> Prefixes \cup {None}] /\ touched \in [Threads -> SUBSET Keys]
  BY DEF FInv, Calls, CallTypes
<1>1. pc'[u] = pc[u]
  BY StepShape
<1>2. ASSUME NEW a \in Answers, Return(t, a)
      PROVE  /\ prefix'[u] = prefix[u] /\ touched'[u] = touched[u]
             /\ scan'[u] = scan[u] /\ listed'[u] = listed[u]
  BY <1>0, <1>2 DEF Return
<1>3. ASSUME GoesOn PROVE prefix'[u] = prefix[u] /\ touched'[u] = touched[u]
  BY <1>3 DEF GoesOn, callVars
<1>4. ASSUME GoesOn PROVE scan'[u] = scan[u] /\ listed'[u] = listed[u]
  <2>1. CASE UNCHANGED rmtreeVars
    BY <2>1 DEF rmtreeVars
  <2>2. CASE Removes(t)
    <3>1. ASSUME NEW d \in Dirs, ListDir(t, d) PROVE scan'[u] = scan[u] /\ listed'[u] = listed[u]
      <4>1. CASE d \in dirs
        BY <1>0, <3>1, <4>1 DEF ListDir
      <4>2. CASE d \notin dirs
        BY <1>0, <3>1, <4>2 DEF ListDir
      <4> QED
        BY <4>1, <4>2
    <3>2. ASSUME NEW d \in Dirs, RemoveDir(t, d) PROVE scan'[u] = scan[u] /\ listed'[u] = listed[u]
      BY <3>2 DEF RemoveDir
    <3>3. ASSUME NEW k \in Keys, RemoveFile(t, k) PROVE scan'[u] = scan[u] /\ listed'[u] = listed[u]
      BY <1>0, <3>3 DEF RemoveFile
    <3>4. ASSUME Removed(t) PROVE scan'[u] = scan[u] /\ listed'[u] = listed[u]
      BY <3>4 DEF Removed, rmtreeVars
    <3> QED
      BY <2>2, <3>1, <3>2, <3>3, <3>4 DEF Removes
  <2>3. CASE Count(t)
    <3>1. CASE Return(t, Failed)
      BY <1>2, <3>1 DEF Answers
    <3>2. CASE scan' = [scan EXCEPT ![t] = {Top[prefix[t]]}] /\ listed' = listed
      BY <1>0, <3>2
    <3> QED
      BY <2>3, <3>1, <3>2 DEF Count
  <2>4. CASE Makes(t)
    <3>1. CASE Return(t, Failed)
      BY <1>2, <3>1 DEF Answers
    <3> QED
      BY <2>1, <2>4, <3>1
         DEF Makes, MakeDir, FindDir, Climb, LoseParent, StillThere, GoneAgain, rmtreeVars
  <2>5. CASE Open(t) \/ Check(t) \/ Enter(t)
    <3>1. CASE Return(t, Failed) \/ Return(t, Ok)
      BY <1>2, <3>1 DEF Answers
    <3> QED
      BY <2>1, <2>5, <3>1 DEF Open, Check, Enter
  <2>6. CASE Read(t) \/ Write(t) \/ DropLeaf(t) \/ Unlink(t)
    <3>1. PICK a \in Answers : Return(t, a)
      BY <2>6 DEF Read, Write, DropLeaf, Unlink, Answers, Contents
    <3> QED
      BY <1>2, <3>1
  <2> QED
    BY <2>2, <2>3, <2>4, <2>5, <2>6 DEF Step
<1> QED
  BY <1>1, <1>2, <1>3, <1>4, StepShape

(* No step of another call, and none of the drop itself, adds a file that  *)
(* the drop has to remove.                                                 *)
LEMMA NoNewFiles ==
  ASSUME FInv, SetsAreTouched, NEW t \in Threads, Step(t),
         NEW u \in Threads, Dropping(u), NEW k \in Keys \ touched[u], file'[k] # Absent
  PROVE  file[k] # Absent
BY FilesAppear DEF SetsAreTouched

LEMMA RmtreeThorough ==
  ASSUME FInv, FInv', AncestorsThere, SetsAreTouched, NEW t \in Threads, Thorough(t), Removes(t)
  PROVE  Thorough(t)'
<1>0. /\ scan \in [Threads -> SUBSET Dirs] /\ listed \in [Threads -> SUBSET Keys]
      /\ pc \in [Threads -> Labels]
  BY DEF FInv, Calls, CallTypes
<1>1. /\ pc[t] = "remove" /\ GoesOn /\ Dropping(t) /\ Step(t)
      /\ prefix' = prefix /\ touched' = touched
  BY DEF Removes, ListDir, RemoveDir, RemoveFile, Removed, Dropping, DropSteps, Step, GoesOn, callVars
<1>2. \A k \in Keys \ touched[t] : file'[k] # Absent => file[k] # Absent
  BY <1>1, NoNewFiles
<1>3. /\ scan[t] \subseteq Inside(t) /\ \A k \in listed[t] : Home[k] \in Inside(t)
      /\ \A k \in Keys \ touched[t] : Home[k] \in Inside(t) /\ file[k] # Absent => Ahead(t, k)
  BY <1>1 DEF Thorough
<1>4. Inside(t)' = Inside(t)
  BY <1>1 DEF Inside
<1>5. ASSUME NEW d \in Dirs, ListDir(t, d), d \in dirs PROVE Thorough(t)'
  <2>1. /\ pc'[t] = "remove" /\ d \in scan[t] /\ UNCHANGED file
        /\ scan'[t] = (scan[t] \ {d}) \cup Subdirs(d)
        /\ listed'[t] = listed[t] \cup FilesIn(d)
    BY <1>0, <1>1, <1>5 DEF ListDir, treeVars
  <2>2. prefix[t] \in Prefixes
    BY <1>1 DEF FInv, Calls, Named, DropSteps
  <2>3. Subdirs(d) \subseteq Inside(t)
    <3> SUFFICES ASSUME NEW e \in Subdirs(d) PROVE e \in Under[Top[prefix[t]]]
      BY DEF Inside
    <3>1. e \in Dirs \ {Root} /\ Up[e] = d /\ d \in Under[Top[prefix[t]]]
      BY <1>3, <2>1 DEF Subdirs, Inside, FInv, TreeTypes
    <3>2. Top[prefix[t]] \in Dirs
      BY <2>2, PrefixAssumption
    <3> QED
      BY <3>1, <3>2, TreeAssumption
  <2>4. \A k \in FilesIn(d) : Home[k] \in Inside(t)
    BY <1>3, <2>1 DEF FilesIn
  <2>5. ASSUME NEW k \in Keys \ touched[t], Home[k] \in Inside(t), file[k] # Absent
        PROVE  k \in listed'[t] \/ \E e \in scan'[t] : Home[k] \in Under[e]
    <3>1. CASE k \in listed[t]
      BY <2>1, <3>1
    <3>2. ASSUME NEW c \in scan[t], Home[k] \in Under[c], c # d PROVE \E e \in scan'[t] : Home[k] \in Under[e]
      BY <2>1, <3>2
    <3>3. CASE Home[k] \in Under[d]
      <4>1. Home[k] = d \/ \E c \in Subdirs(d) : Home[k] \in Under[c]
        BY <2>5, <3>3, FilesAreBelow
      <4> QED
        BY <2>1, <2>5, <4>1 DEF FilesIn
    <3> QED
      BY <1>3, <2>5, <3>1, <3>2, <3>3 DEF Ahead
  <2> QED
    BY <1>1, <1>3, <1>4, <2>1, <2>3, <2>4, <2>5 DEF Thorough, Ahead
<1>6. ASSUME NEW d \in Dirs, ListDir(t, d), d \notin dirs PROVE Thorough(t)'
  <2>1. /\ pc'[t] = "remove" /\ UNCHANGED file
        /\ scan'[t] = scan[t] \ {d} /\ listed'[t] = listed[t]
    BY <1>0, <1>1, <1>6 DEF ListDir, treeVars
  <2>2. ASSUME NEW k \in Keys, file[k] # Absent PROVE Home[k] \notin Under[d]
    BY <1>6, <2>2, FilesAreBelow
  <2>3. ASSUME NEW k \in Keys \ touched[t], Home[k] \in Inside(t), file[k] # Absent
        PROVE  k \in listed'[t] \/ \E e \in scan'[t] : Home[k] \in Under[e]
    BY <1>3, <2>1, <2>2, <2>3 DEF Ahead
  <2> QED
    BY <1>1, <1>3, <1>4, <2>1, <2>3 DEF Thorough, Ahead
<1>7. ASSUME NEW d \in Dirs, RemoveDir(t, d) PROVE Thorough(t)'
  <2>1. UNCHANGED <<pc, file, scan, listed>>
    BY <1>7 DEF RemoveDir
  <2> QED
    BY <1>1, <1>3, <1>4, <2>1 DEF Thorough, Ahead
<1>8. ASSUME NEW j \in Keys, RemoveFile(t, j) PROVE Thorough(t)'
  <2>1. UNCHANGED <<pc, scan>> /\ listed'[t] = listed[t] \ {j}
    BY <1>0, <1>8 DEF RemoveFile
  <2>2. file'[j] = Absent
    BY <1>8 DEF RemoveFile, Unlinked, FInv, TreeTypes
  <2>3. ASSUME NEW k \in Keys \ touched[t], Home[k] \in Inside(t), file'[k] # Absent
        PROVE  k \in listed'[t] \/ \E e \in scan'[t] : Home[k] \in Under[e]
    <3>1. k # j /\ file[k] # Absent
      BY <1>2, <2>2, <2>3
    <3> QED
      BY <1>3, <2>1, <2>3, <3>1 DEF Ahead
  <2> QED
    BY <1>1, <1>3, <1>4, <2>1, <2>3 DEF Thorough, Ahead
<1>9. ASSUME Removed(t) PROVE Thorough(t)'
  <2>1. /\ scan[t] = {} /\ listed[t] = {} /\ pc'[t] = "leaf"
        /\ UNCHANGED <<file, scan, listed>>
    BY <1>0, <1>9 DEF Removed, rmtreeVars, treeVars, GoTo
  <2> QED
    BY <1>1, <1>3, <1>4, <2>1 DEF Thorough, Ahead
<1> QED
  BY <1>5, <1>6, <1>7, <1>8, <1>9 DEF Removes

LEMMA ActorThorough ==
  ASSUME FInv, FInv', AncestorsThere, SetsAreTouched, NEW t \in Threads, Thorough(t), Step(t)
  PROVE  Thorough(t)'
<1>0. /\ scan \in [Threads -> SUBSET Dirs] /\ listed \in [Threads -> SUBSET Keys]
      /\ pc \in [Threads -> Labels]
  BY DEF FInv, Calls, CallTypes
<1>1. ASSUME NEW a \in Answers, Return(t, a) PROVE Thorough(t)'
  <2>1. pc'[t] = "idle" /\ scan'[t] = {} /\ listed'[t] = {}
    BY <1>0, <1>1 DEF Return, GoTo
  <2> QED
    BY <2>1 DEF Thorough
<1>2. Ok \in Answers /\ Failed \in Answers /\ Contents(target[t]) \in Answers
  BY DEF Answers, Contents
<1>3. ASSUME UNCHANGED rmtreeVars, pc[t] # "remove", pc'[t] \notin {"remove", "leaf"}
      PROVE  Thorough(t)'
  BY <1>3 DEF Thorough, rmtreeVars
<1>4. CASE Read(t) \/ Write(t) \/ DropLeaf(t) \/ Unlink(t)
  BY <1>1, <1>2, <1>4 DEF Read, Write, DropLeaf, Unlink
<1>5. CASE Makes(t)
  <2>1. CASE LoseParent(t) \/ GoneAgain(t)
    BY <1>1, <1>2, <2>1 DEF LoseParent, GoneAgain
  <2>2. CASE Climb(t)
    BY <1>3, <2>2 DEF Climb
  <2>3. CASE StillThere(t) \/ \E label \in {"climb", "descend"} : MakeDir(t, label)
    <3>1. /\ UNCHANGED rmtreeVars /\ pc[t] # "remove"
          /\ GoTo(t, "open") \/ GoTo(t, "descend")
      BY <2>3 DEF StillThere, MakeDir, GoDown
    <3> QED
      BY <1>3, <3>1, GoToMoves
  <2>4. CASE \E label \in {"climb", "descend"} : FindDir(t, label)
    BY <1>3, <2>4, GoToMoves DEF FindDir
  <2> QED
    BY <1>5, <2>1, <2>2, <2>3, <2>4 DEF Makes
<1>6. CASE Open(t) \/ Check(t)
  <2>1. \/ \E a \in Answers : Return(t, a)
        \/ /\ UNCHANGED rmtreeVars /\ pc[t] # "remove"
           /\ GoTo(t, "write") \/ GoTo(t, "unlink")
    BY <1>2, <1>6 DEF Open, Check
  <2> QED
    BY <1>1, <1>3, <2>1, GoToMoves
<1>7. CASE Enter(t)
  <2>1. CASE Top[prefix[t]] \in dirs
    BY <1>3, <1>7, <2>1, GoToMoves DEF Enter
  <2>2. CASE Top[prefix[t]] \notin dirs
    <3>1. /\ pc'[t] = "leaf" /\ pc[t] = "enter" /\ prefix[t] \in Prefixes
          /\ UNCHANGED <<file, prefix, scan, listed>>
      BY <1>7, <2>2, GoToMoves
         DEF Enter, GoesOn, callVars, rmtreeVars, treeVars, FInv, Calls, Named, DropSteps
    <3>2. ASSUME NEW k \in Keys, Home[k] \in Inside(t) PROVE file[k] = Absent
      BY <2>2, <3>1, <3>2, FilesAreBelow, PrefixAssumption DEF Inside
    <3> QED
      BY <3>1, <3>2 DEF Thorough, Inside
  <2> QED
    BY <2>1, <2>2
<1>8. CASE Count(t)
  <2>1. CASE GoTo(t, "remove") /\ scan' = [scan EXCEPT ![t] = {Top[prefix[t]]}]
             /\ GoesOn /\ UNCHANGED <<treeVars, mkdirVars, opened, listed>>
    <3>1. /\ pc'[t] = "remove" /\ scan'[t] = {Top[prefix[t]]} /\ listed'[t] = {}
          /\ prefix' = prefix /\ prefix[t] \in Prefixes
      BY <1>0, <1>8, <2>1, GoToMoves
         DEF Count, Thorough, GoesOn, callVars, FInv, Calls, Named, DropSteps
    <3>2. Top[prefix[t]] \in Inside(t)
      BY <3>1, PrefixAssumption, TreeAssumption DEF Inside
    <3> QED
      BY <3>1, <3>2 DEF Thorough, Inside, Ahead
  <2> QED
    BY <1>1, <1>2, <1>8, <2>1 DEF Count
<1> QED
  BY <1>4, <1>5, <1>6, <1>7, <1>8, RmtreeThorough DEF Step

LEMMA StepThorough ==
  ASSUME FInv, FInv', AncestorsThere, SetsAreTouched, DropsAreThorough, NEW t \in Threads, Step(t)
  PROVE  DropsAreThorough'
<1> SUFFICES ASSUME NEW u \in Threads PROVE Thorough(u)'
  BY DEF DropsAreThorough
<1>1. CASE u = t
  BY <1>1, ActorThorough DEF DropsAreThorough
<1>2. CASE u # t
  <2>1. /\ pc'[u] = pc[u] /\ prefix'[u] = prefix[u] /\ touched'[u] = touched[u]
        /\ scan'[u] = scan[u] /\ listed'[u] = listed[u]
    BY <1>2, OthersAlone
  <2>2. Thorough(u)
    BY DEF DropsAreThorough
  <2>3. ASSUME NEW k \in Keys \ touched[u], pc[u] \in {"remove", "leaf"}, file'[k] # Absent
        PROVE  file[k] # Absent
    BY <2>3, NoNewFiles DEF Dropping, DropSteps
  <2> QED
    BY <2>1, <2>2, <2>3 DEF Thorough, Inside, Ahead
<1> QED
  BY <1>1, <1>2

LEMMA InitRInv == Init => RInv
<1> SUFFICES ASSUME Init PROVE RInv
  OBVIOUS
<1>1. FInv
  BY InitFInv
<1>2. AncestorsThere
  BY TreeAssumption DEF Init, AncestorsThere
<1>3. SetsAreTouched
  BY DEF Init, SetsAreTouched, Setting, Dropping, SetSteps, DropSteps, InvalidateSteps
<1>4. DropsAreThorough
  BY DEF Init, DropsAreThorough, Thorough
<1> QED
  BY <1>1, <1>2, <1>3, <1>4 DEF RInv

LEMMA StepRInv == RInv /\ [Next]_vars => RInv'
<1> SUFFICES ASSUME RInv, [Next]_vars PROVE RInv'
  OBVIOUS
<1>1. FInv' /\ AncestorsThere' /\ SetsAreTouched'
  BY StepFInv, AncestorsStep, TouchedStep DEF RInv
<1>2. ASSUME NEW t \in Threads, Begins(t) PROVE DropsAreThorough'
  <2>0. /\ pc \in [Threads -> Labels] /\ prefix \in [Threads -> Prefixes \cup {None}]
        /\ touched \in [Threads -> SUBSET Keys]
    BY DEF RInv, FInv, Calls, CallTypes
  <2>1. /\ UNCHANGED <<file, scan, listed>> /\ pc[t] = "idle"
        /\ pc'[t] \notin {"remove", "leaf"}
        /\ \A u \in Threads \ {t} : pc'[u] = pc[u] /\ prefix'[u] = prefix[u]
        /\ \A u \in Threads \ {t} : touched[u] \subseteq touched'[u]
    BY <1>2, <2>0 DEF Begins, BeginGet, BeginSet, BeginInvalidate, BeginDrop, GoTo, treeVars, rmtreeVars
  <2> SUFFICES ASSUME NEW u \in Threads PROVE Thorough(u)'
    BY DEF DropsAreThorough
  <2>2. CASE u = t
    BY <2>1, <2>2 DEF RInv, DropsAreThorough, Thorough
  <2>3. CASE u # t
    BY <2>1, <2>3 DEF RInv, DropsAreThorough, Thorough, Inside, Ahead
  <2> QED
    BY <2>2, <2>3
<1>3. ASSUME NEW t \in Threads, Step(t) PROVE DropsAreThorough'
  BY <1>1, <1>3, StepThorough DEF RInv
<1>4. ASSUME Crash PROVE DropsAreThorough'
  <2>1. \A u \in Threads : pc'[u] = "idle" /\ scan'[u] = {} /\ listed'[u] = {}
    BY <1>4 DEF Crash
  <2> SUFFICES ASSUME NEW u \in Threads PROVE Thorough(u)'
    BY DEF DropsAreThorough
  <2> QED
    BY <2>1 DEF Thorough
<1>5. ASSUME CheckHealth \/ UNCHANGED vars PROVE DropsAreThorough'
  <2>1. UNCHANGED <<pc, prefix, touched, file, scan, listed>>
    BY <1>5 DEF CheckHealth, vars, treeVars, callVars, rmtreeVars
  <2> SUFFICES ASSUME NEW u \in Threads PROVE Thorough(u)'
    BY DEF DropsAreThorough
  <2>2. Thorough(u)
    BY DEF RInv, DropsAreThorough
  <2> QED
    BY <2>1, <2>2 DEF Thorough, Inside, Ahead
<1> QED
  BY <1>1, <1>2, <1>3, <1>4, <1>5 DEF Next, RInv

-----------------------------------------------------------------------------
(* What CacheStore sees of the end of a call, ...                          *)
LEMMA ReturnRefines ==
  ASSUME FInv, NEW t \in Threads, NEW a \in Answers, Return(t, a)
  PROVE  Contract!Returns(t, a)
<1>0. /\ pc \in [Threads -> Labels] /\ target \in [Threads -> Keys \cup {None}]
      /\ prefix \in [Threads -> Prefixes \cup {None}] /\ value \in [Threads -> 0..MaxSets]
  BY DEF FInv, Calls, CallTypes
<1>1. pc'[t] = "idle"
  BY <1>0 DEF Return, GoTo
<1>2. CallOf(t)' = Contract!Idle
  BY <1>1 DEF CallOf, Setting, Dropping, SetSteps, DropSteps, InvalidateSteps, Contract!Idle
<1>3. ASSUME NEW u \in Threads, u # t PROVE CallOf(u)' = CallOf(u)
  <2>1. /\ pc'[u] = pc[u] /\ target'[u] = target[u]
        /\ prefix'[u] = prefix[u] /\ value'[u] = value[u]
    BY <1>0, <1>3 DEF Return, GoTo
  <2> QED
    BY <2>1 DEF CallOf, Setting, Dropping, DroppedBy
<1>4. [u \in Threads |-> CallOf(u)]' = [[u \in Threads |-> CallOf(u)] EXCEPT ![t] = Contract!Idle]
  BY <1>2, <1>3
<1>5. /\ touched' = [touched EXCEPT ![t] = {}]
      /\ answer' = [answer EXCEPT ![t] = a]
  BY DEF Return
<1> QED
  BY <1>4, <1>5 DEF Contract!Returns

(* ... of a call that goes on, ...                                         *)
LEMMA StayRefines ==
  ASSUME FInv, NEW t \in Threads, GoesOn, StaysIn(t), \A u \in Threads \ {t} : pc'[u] = pc[u]
  PROVE  /\ [u \in Threads |-> CallOf(u)]' = [u \in Threads |-> CallOf(u)]
         /\ UNCHANGED <<touched, answer>>
<1>1. ASSUME NEW u \in Threads PROVE CallOf(u)' = CallOf(u)
  <2>1. target' = target /\ prefix' = prefix /\ value' = value
    BY DEF GoesOn, callVars
  <2>2. /\ pc'[u] = "read" <=> pc[u] = "read"
        /\ pc'[u] = "idle" <=> pc[u] = "idle"
        /\ Setting(u)' <=> Setting(u)
        /\ Dropping(u)' <=> Dropping(u)
        /\ pc'[u] \in DropSteps <=> pc[u] \in DropSteps
    BY DEF StaysIn, Setting, Dropping, SetSteps, DropSteps, InvalidateSteps
  <2>3. DroppedBy(u)' = DroppedBy(u)
    BY <2>1, <2>2 DEF DroppedBy
  <2> QED
    BY <2>1, <2>2, <2>3 DEF CallOf
<1> QED
  BY <1>1 DEF GoesOn

(* ... and of the files.                                                   *)
LEMMA SameEntries ==
  ASSUME file' = file
  PROVE  [k \in Keys |-> Contents(k)]' = [k \in Keys |-> Contents(k)]
BY DEF Contents

LEMMA OneEntry ==
  ASSUME FInv, NEW j \in Keys, NEW text, file' = [file EXCEPT ![j] = text],
         NEW entry, entry = IF text \in Values THEN text ELSE Nothing
  PROVE  [k \in Keys |-> Contents(k)]' = [[k \in Keys |-> Contents(k)] EXCEPT ![j] = entry]
<1>1. file \in [Keys -> Texts]
  BY DEF FInv, TreeTypes
<1>2. Contents(j)' = entry
  BY <1>1 DEF Contents
<1>3. \A k \in Keys \ {j} : Contents(k)' = Contents(k)
  BY <1>1 DEF Contents
<1> QED
  BY <1>2, <1>3

LEMMA UnlinkedEntry ==
  ASSUME FInv, NEW j \in Keys, Unlinked(j)
  PROVE  /\ [k \in Keys |-> Contents(k)]' = [[k \in Keys |-> Contents(k)] EXCEPT ![j] = Nothing]
         /\ file'[j] = Absent
<1>1. file' = [file EXCEPT ![j] = Absent] /\ file \in [Keys -> Texts]
  BY DEF Unlinked, FInv, TreeTypes
<1>2. Nothing = IF Absent \in Values THEN Absent ELSE Nothing
  BY Marks
<1> QED
  BY <1>1, <1>2, OneEntry

-----------------------------------------------------------------------------
LEMMA BeginRefines ==
  ASSUME RInv, NEW t \in Threads, Begins(t)
  PROVE  Contract!Begin(t)
<1>0. /\ pc \in [Threads -> Labels] /\ target \in [Threads -> Keys \cup {None}]
      /\ prefix \in [Threads -> Prefixes \cup {None}] /\ value \in [Threads -> 0..MaxSets]
      /\ touched \in [Threads -> SUBSET Keys]
  BY DEF RInv, FInv, Calls, CallTypes
<1>1. /\ pc[t] = "idle" /\ UNCHANGED file /\ answer' = [answer EXCEPT ![t] = Nothing]
      /\ \A u \in Threads \ {t} : /\ pc'[u] = pc[u] /\ target'[u] = target[u]
                                  /\ prefix'[u] = prefix[u] /\ value'[u] = value[u]
  BY <1>0 DEF Begins, BeginGet, BeginSet, BeginInvalidate, BeginDrop, GoTo, treeVars
<1>2. ASSUME NEW u \in Threads, u # t PROVE CallOf(u)' = CallOf(u)
  BY <1>1, <1>2 DEF CallOf, Setting, Dropping, DroppedBy
<1>3. CallOf(t) = Contract!Idle /\ touched[t] = {}
  BY <1>1, OpIs DEF RInv, SetsAreTouched, Dropping, DropSteps, InvalidateSteps
<1>4. ASSUME NEW call, CallOf(t)' = call
      PROVE  [u \in Threads |-> CallOf(u)]' = [[u \in Threads |-> CallOf(u)] EXCEPT ![t] = call]
  BY <1>2, <1>4
<1>5. Contract!BeingSet = BeingSet
  <2>1. \A u \in Threads : CallOf(u).op = "set" <=> Setting(u)
    BY DEF CallOf, Setting, Dropping, SetSteps, DropSteps, InvalidateSteps
  <2>2. \A u \in Threads : Setting(u) => CallOf(u).keys = {target[u]}
    BY OpIs
  <2>3. \A x : x \in Contract!BeingSet <=>
               \E u \in Threads : CallOf(u).op = "set" /\ x \in CallOf(u).keys
    BY DEF Contract!BeingSet
  <2>4. \A x : x \in BeingSet <=> \E u \in Threads : Setting(u) /\ x = target[u]
    BY DEF BeingSet
  <2>5. \A x : x \in Contract!BeingSet <=> x \in BeingSet
    BY <2>1, <2>2, <2>3, <2>4
  <2> QED
    BY <2>5
<1>6. \A u \in Threads : CallOf(u).op = "drop" <=> Dropping(u)
  BY DEF CallOf, Setting, Dropping, SetSteps, DropSteps, InvalidateSteps
<1>7. [k \in Keys |-> Contents(k)]' = [k \in Keys |-> Contents(k)]
  BY <1>1, SameEntries
<1> DEFINE Touched(call) ==
      [u \in Threads |-> IF u = t THEN (IF call.op = "drop" THEN Contract!BeingSet ELSE {})
                         ELSE IF call.op = "set" /\ CallOf(u).op = "drop"
                              THEN touched[u] \cup call.keys ELSE touched[u]]
<1>13. ASSUME NEW call \in Contract!Gets \cup Contract!Sets \cup Contract!Drops,
              CallOf(t)' = call, touched' = Touched(call)
       PROVE  Contract!Begin(t)
  <2>1. touched' = [u \in Threads |->
                      IF u = t THEN (IF call.op = "drop" THEN Contract!BeingSet ELSE {})
                      ELSE IF call.op = "set" /\ [w \in Threads |-> CallOf(w)][u].op = "drop"
                           THEN touched[u] \cup call.keys ELSE touched[u]]
    BY <1>13
  <2>2. [w \in Threads |-> CallOf(w)][t] = Contract!Idle
    BY <1>3
  <2>3. [u \in Threads |-> CallOf(u)]' = [[u \in Threads |-> CallOf(u)] EXCEPT ![t] = call]
    BY <1>4, <1>13
  <2> QED
    BY <1>1, <1>7, <2>1, <2>2, <2>3, Zenon DEF Contract!Begin
<1>8. ASSUME NEW k \in Keys, BeginGet(t, k) PROVE Contract!Begin(t)
  <2>1. pc'[t] = "read" /\ target'[t] = k /\ touched' = touched
    BY <1>0, <1>8 DEF BeginGet, GoTo
  <2>2. PICK call \in Contract!Gets : call = [op |-> "get", keys |-> {k}, value |-> Nothing]
    BY DEF Contract!Gets
  <2>3. CallOf(t)' = call
    BY <2>1, <2>2 DEF CallOf, Setting, Dropping, SetSteps, DropSteps, InvalidateSteps
  <2>4. touched' = Touched(call)
    BY <1>0, <1>3, <2>1, <2>2
  <2> QED
    BY <1>13, <2>3, <2>4
<1>9. ASSUME NEW k \in Keys, BeginSet(t, k) PROVE Contract!Begin(t)
  <2>0. sets + 1 \in Values
    BY <1>9, Marks DEF BeginSet, RInv, FInv, Calls, CallTypes, Values
  <2>1. /\ pc'[t] = "climb" /\ target'[t] = k /\ value'[t] = sets + 1
        /\ touched' = [u \in Threads |-> IF Dropping(u) THEN touched[u] \cup {k} ELSE touched[u]]
    BY <1>0, <1>9 DEF BeginSet, GoTo
  <2>2. PICK v \in Values : v = sets + 1
    BY <2>0
  <2>3. PICK call \in Contract!Sets : call = [op |-> "set", keys |-> {k}, value |-> v]
    <3>1. [op |-> "set", keys |-> {k}, value |-> v] \in Contract!Sets
      BY ONLY k \in Keys, v \in Values DEF Contract!Sets
    <3> QED
      BY <3>1
  <2>4. CallOf(t)' = call
    BY <2>1, <2>2, <2>3 DEF CallOf, Setting, Dropping, SetSteps, DropSteps, InvalidateSteps
  <2>5. ~ Dropping(t)
    BY <1>1 DEF Dropping, DropSteps, InvalidateSteps
  <2>6. touched' = Touched(call)
    BY <1>0, <1>3, <1>6, <2>1, <2>3, <2>5
  <2> QED
    BY <1>13, <2>4, <2>6
<1>10. ASSUME NEW family \in {Covered(p) : p \in Prefixes} \cup {{k} : k \in Keys},
              Dropping(t)', DroppedBy(t)' = family, touched' = [touched EXCEPT ![t] = BeingSet]
       PROVE  Contract!Begin(t)
  <2>1. PICK call \in Contract!Drops : call = [op |-> "drop", keys |-> family, value |-> Nothing]
    BY DEF Contract!Drops
  <2>2. CallOf(t)' = call
    BY <1>10, <2>1 DEF CallOf, Setting, Dropping, SetSteps, DropSteps, InvalidateSteps
  <2>3. touched' = Touched(call)
    BY <1>0, <1>5, <1>10, <2>1
  <2> QED
    BY <1>13, <2>2, <2>3
<1>11. ASSUME NEW k \in Keys, BeginInvalidate(t, k) PROVE Contract!Begin(t)
  <2>1. pc'[t] = "check" /\ target'[t] = k /\ touched' = [touched EXCEPT ![t] = BeingSet]
    BY <1>0, <1>11 DEF BeginInvalidate, GoTo
  <2>2. Dropping(t)' /\ DroppedBy(t)' = {k}
    BY <2>1 DEF Dropping, DroppedBy, DropSteps, InvalidateSteps
  <2> QED
    BY <1>10, <2>1, <2>2
<1>12. ASSUME NEW p \in Prefixes, BeginDrop(t, p) PROVE Contract!Begin(t)
  <2>1. pc'[t] = "enter" /\ prefix'[t] = p /\ touched' = [touched EXCEPT ![t] = BeingSet]
    BY <1>0, <1>12 DEF BeginDrop, GoTo
  <2>2. Dropping(t)' /\ DroppedBy(t)' = Covered(p)
    BY <2>1 DEF Dropping, DroppedBy, DropSteps
  <2> QED
    BY <1>10, <2>1, <2>2
<1> QED
  BY <1>8, <1>9, <1>11, <1>12 DEF Begins

-----------------------------------------------------------------------------
(* The ways a step appears to CacheStore: not at all, as an effect, as the *)
(* end of a call.                                                          *)
LEMMA Invisible ==
  ASSUME FInv, NEW t \in Threads, GoesOn, StaysIn(t), \A u \in Threads \ {t} : pc'[u] = pc[u],
         file' = file
  PROVE  UNCHANGED Contract!vars
BY StayRefines, SameEntries, Zenon DEF Contract!vars

LEMMA VisibleLoss ==
  ASSUME FInv, NEW t \in Threads, GoesOn, StaysIn(t), \A u \in Threads \ {t} : pc'[u] = pc[u],
         NEW k \in Keys, k \in CallOf(t).keys, CallOf(t).op \in {"set", "drop"},
         [j \in Keys |-> Contents(j)]' = [[j \in Keys |-> Contents(j)] EXCEPT ![k] = Nothing]
  PROVE  Contract!Next
<1>1. /\ [u \in Threads |-> CallOf(u)]' = [u \in Threads |-> CallOf(u)]
      /\ UNCHANGED <<touched, answer>>
  BY StayRefines
<1>2. [u \in Threads |-> CallOf(u)][t] = CallOf(t)
  OBVIOUS
<1>3. Contract!Lose(t)
  BY <1>2 DEF Contract!Lose
<1> QED
  BY <1>1, <1>3 DEF Contract!Next

LEMMA EndOfGet ==
  ASSUME FInv, NEW t \in Threads, pc[t] = "read", Return(t, Contents(target[t])), file' = file
  PROVE  Contract!Next
<1>1. target[t] \in Keys
  BY DEF FInv, Calls, Named
<1>2. Contract!Returns(t, Contents(target[t]))
  BY ReturnRefines DEF Contents, Answers
<1>3. CallOf(t).op = "get" /\ CallOf(t).keys = {target[t]}
  BY OpIs
<1>4. [u \in Threads |-> CallOf(u)][t] = CallOf(t)
  OBVIOUS
<1>5. [k \in Keys |-> Contents(k)]' = [k \in Keys |-> Contents(k)]
  BY SameEntries
<1>6. PICK k \in Keys : k = target[t]
  BY <1>1
<1>7. Contract!Returns(t, [j \in Keys |-> Contents(j)][k])
  BY <1>2, <1>6
<1>8. Contract!EndGet(t)
  BY <1>3, <1>4, <1>5, <1>6, <1>7 DEF Contract!EndGet
<1> QED
  BY <1>8 DEF Contract!Next

LEMMA EndOfSet ==
  ASSUME FInv, NEW t \in Threads, Setting(t), NEW a \in {Ok, Failed}, Return(t, a),
         \/ file' = file
         \/ \E text : file' = [file EXCEPT ![target[t]] = text] /\ (text \in Values => text = value[t])
  PROVE  Contract!Next
<1>1. target[t] \in Keys
  BY DEF FInv, Calls, Named, Setting
<1>2. Contract!Returns(t, a)
  BY ReturnRefines DEF Answers
<1>3. /\ CallOf(t).op = "set" /\ CallOf(t).keys = {target[t]} /\ CallOf(t).value = value[t]
  BY OpIs
<1>4. [u \in Threads |-> CallOf(u)][t] = CallOf(t)
  OBVIOUS
<1>5. UNCHANGED [k \in Keys |-> Contents(k)] \/ Contract!Put(t) \/ Contract!Lose(t)
  <2>1. CASE file' = file
    BY <2>1, SameEntries
  <2>2. ASSUME NEW text, file' = [file EXCEPT ![target[t]] = text], text \in Values => text = value[t]
        PROVE  Contract!Put(t) \/ Contract!Lose(t)
    <3>1. PICK k \in Keys : k = target[t]
      BY <1>1
    <3>2. PICK entry : entry = IF text \in Values THEN text ELSE Nothing
      OBVIOUS
    <3>3. [j \in Keys |-> Contents(j)]' = [[j \in Keys |-> Contents(j)] EXCEPT ![k] = entry]
      <4>1. file' = [file EXCEPT ![k] = text]
        BY <2>2, <3>1
      <4> QED
        BY <3>2, <4>1, OneEntry, ZenonT(30)
    <3>4. entry = CallOf(t).value \/ entry = Nothing
      BY <1>3, <2>2, <3>2
    <3> QED
      BY <1>3, <1>4, <3>1, <3>3, <3>4 DEF Contract!Put, Contract!Lose
  <2> QED
    BY <2>1, <2>2
<1>6. Contract!EndSet(t)
  BY <1>2, <1>3, <1>4, <1>5 DEF Contract!EndSet
<1> QED
  BY <1>6 DEF Contract!Next

LEMMA EndOfDrop ==
  ASSUME FInv, NEW t \in Threads, Dropping(t), NEW a \in {Ok, Failed}, Return(t, a),
         file' = file \/ \E k \in DroppedBy(t) : k \in Keys /\ Unlinked(k),
         a = Ok => \A k \in Keys : k \in DroppedBy(t) \ touched[t] => file'[k] = Absent
  PROVE  Contract!Next
<1>1. Contract!Returns(t, a)
  BY ReturnRefines DEF Answers
<1>2. CallOf(t).op = "drop" /\ CallOf(t).keys = DroppedBy(t)
  BY OpIs
<1>3. [u \in Threads |-> CallOf(u)][t] = CallOf(t)
  OBVIOUS
<1>4. UNCHANGED [k \in Keys |-> Contents(k)] \/ Contract!Lose(t)
  <2>1. CASE file' = file
    BY <2>1, SameEntries
  <2>2. ASSUME NEW k \in Keys, k \in DroppedBy(t), Unlinked(k) PROVE Contract!Lose(t)
    <3>1. [j \in Keys |-> Contents(j)]' = [[j \in Keys |-> Contents(j)] EXCEPT ![k] = Nothing]
      BY <2>2, UnlinkedEntry
    <3> QED
      BY <1>2, <1>3, <2>2, <3>1 DEF Contract!Lose
  <2> QED
    BY <2>1, <2>2
<1>5. DroppedBy(t) \subseteq Keys
  BY DEF Dropping, DroppedBy, Covered, FInv, Calls, Named
<1>6. a = Ok => \A k \in DroppedBy(t) \ touched[t] : [j \in Keys |-> Contents(j)]'[k] = Nothing
  <2> SUFFICES ASSUME a = Ok, NEW k \in DroppedBy(t) \ touched[t]
               PROVE  [j \in Keys |-> Contents(j)]'[k] = Nothing
    OBVIOUS
  <2>1. k \in Keys /\ file'[k] = Absent
    BY <1>5
  <2> QED
    BY <2>1, Marks DEF Contents
<1>7. Contract!EndDrop(t)
  BY <1>1, <1>2, <1>3, <1>4, <1>6 DEF Contract!EndDrop
<1> QED
  BY <1>7 DEF Contract!Next

-----------------------------------------------------------------------------
(* A step that goes on keeps the name of what it works on, and stays.      *)
LEMMA GoesOnStays ==
  ASSUME FInv, NEW t \in Threads, Step(t), GoesOn, Setting(t) \/ Dropping(t)
  PROVE  StaysIn(t) /\ \A u \in Threads \ {t} : pc'[u] = pc[u]
<1>1. /\ target \in [Threads -> Keys \cup {None}] /\ prefix \in [Threads -> Prefixes \cup {None}]
      /\ target[t] \in Keys \/ prefix[t] \in Prefixes
  BY DEF FInv, Calls, CallTypes, Named, Setting, Dropping
<1>2. ASSUME NEW a \in Answers, Return(t, a) PROVE FALSE
  <2>1. target'[t] = None /\ prefix'[t] = None
    BY <1>1, <1>2 DEF Return
  <2>2. target'[t] = target[t] /\ prefix'[t] = prefix[t]
    BY DEF GoesOn, callVars
  <2>3. target[t] # None \/ prefix[t] # None
    BY <1>1, MarkAssumption
  <2> QED
    BY <2>1, <2>2, <2>3
<1> QED
  BY <1>2, StepShape

LEMMA MakesRefines ==
  ASSUME FInv, NEW t \in Threads, Makes(t)
  PROVE  Contract!Next \/ UNCHANGED Contract!vars
<1>1. Step(t) /\ Setting(t)
  BY DEF Makes, MakeDir, FindDir, Climb, LoseParent, StillThere, GoneAgain, Step, Setting, SetSteps
<1>2. file' = file
  BY DEF Makes, MakeDir, FindDir, Climb, LoseParent, StillThere, GoneAgain, treeVars
<1>3. Return(t, Failed) \/ GoesOn
  BY DEF Makes, MakeDir, FindDir, Climb, LoseParent, StillThere, GoneAgain
<1>4. CASE Return(t, Failed)
  BY <1>1, <1>2, <1>4, EndOfSet
<1>5. CASE GoesOn
  BY <1>1, <1>2, <1>5, GoesOnStays, Invisible
<1> QED
  BY <1>3, <1>4, <1>5

LEMMA OpenRefines ==
  ASSUME FInv, NEW t \in Threads, Open(t)
  PROVE  Contract!Next
<1>1. Step(t) /\ Setting(t)
  BY DEF Open, Step, Setting, SetSteps
<1>2. CASE Return(t, Failed) /\ UNCHANGED treeVars
  BY <1>1, <1>2, EndOfSet DEF treeVars
<1>3. CASE GoesOn /\ file' = [file EXCEPT ![target[t]] = Empty]
  <2>1. PICK k \in Keys : k = target[t]
    BY <1>1 DEF Setting, FInv, Calls, Named
  <2>2. file' = [file EXCEPT ![k] = Empty]
    BY <1>3, <2>1
  <2>3. Nothing = IF Empty \in Values THEN Empty ELSE Nothing
    BY MarkAssumption
  <2>4. [j \in Keys |-> Contents(j)]' = [[j \in Keys |-> Contents(j)] EXCEPT ![k] = Nothing]
    BY <2>2, <2>3, OneEntry
  <2>5. CallOf(t).op = "set" /\ CallOf(t).keys = {k}
    BY <1>1, <2>1, OpIs
  <2>6. StaysIn(t) /\ \A u \in Threads \ {t} : pc'[u] = pc[u]
    BY <1>1, <1>3, GoesOnStays
  <2> QED
    BY <1>3, <2>4, <2>5, <2>6, VisibleLoss
<1> QED
  BY <1>2, <1>3 DEF Open

LEMMA WriteRefines ==
  ASSUME FInv, NEW t \in Threads, Write(t)
  PROVE  Contract!Next
<1>1. Setting(t) /\ Return(t, Ok) /\ Mixed \notin Values
  BY MarkAssumption DEF Write, Setting, SetSteps
<1>2. \/ file' = file
      \/ \E text \in {value[t], Mixed} : file' = [file EXCEPT ![target[t]] = text]
  BY DEF Write
<1> QED
  BY <1>1, <1>2, EndOfSet

LEMMA RemovesRefines ==
  ASSUME RInv, NEW t \in Threads, Removes(t)
  PROVE  Contract!Next \/ UNCHANGED Contract!vars
<1>1. /\ FInv /\ Step(t) /\ Dropping(t) /\ GoesOn /\ pc[t] = "remove"
      /\ StaysIn(t) /\ \A u \in Threads \ {t} : pc'[u] = pc[u]
  <2>1. FInv /\ Step(t) /\ Dropping(t) /\ GoesOn /\ pc[t] = "remove"
    BY DEF RInv, Removes, ListDir, RemoveDir, RemoveFile, Removed, Step, Dropping, DropSteps
  <2> QED
    BY <2>1, GoesOnStays
<1>2. CASE file' = file
  BY <1>1, <1>2, Invisible
<1>3. ASSUME NEW k \in Keys, RemoveFile(t, k) PROVE Contract!Next
  <2>1. k \in listed[t] /\ Unlinked(k)
    BY <1>3 DEF RemoveFile
  <2>2. Home[k] \in Under[Top[prefix[t]]]
    BY <1>1, <2>1 DEF RInv, DropsAreThorough, Thorough, Inside
  <2>3. k \in CallOf(t).keys /\ CallOf(t).op = "drop"
    BY <1>1, <2>2, OpIs DEF DroppedBy, Covered, DropSteps
  <2>4. [j \in Keys |-> Contents(j)]' = [[j \in Keys |-> Contents(j)] EXCEPT ![k] = Nothing]
    BY <1>1, <2>1, UnlinkedEntry
  <2> QED
    BY <1>1, <2>3, <2>4, VisibleLoss
<1> QED
  BY <1>2, <1>3 DEF Removes, ListDir, RemoveDir, Removed, treeVars

(* A drop that ends well has removed all that it had to.                   *)
LEMMA DropLeafRefines ==
  ASSUME RInv, NEW t \in Threads, DropLeaf(t)
  PROVE  Contract!Next
<1>1. FInv /\ Dropping(t) /\ pc[t] = "leaf" /\ Return(t, Ok) /\ Step(t)
  BY DEF RInv, DropLeaf, Dropping, DropSteps, Step
<1>2. DroppedBy(t) = Covered(prefix[t])
  BY <1>1 DEF DroppedBy, DropSteps
<1>3. ASSUME NEW k \in Keys, Home[k] \in Inside(t), k \notin touched[t] PROVE file[k] = Absent
  BY <1>1, <1>3 DEF RInv, DropsAreThorough, Thorough, Ahead
<1>4. CASE Leaf[prefix[t]] \in Keys
  <2>1. Unlinked(Leaf[prefix[t]]) /\ Leaf[prefix[t]] \in DroppedBy(t)
    BY <1>2, <1>4 DEF DropLeaf, Covered
  <2>2. file'[Leaf[prefix[t]]] = Absent
    BY <1>1, <1>4, <2>1, UnlinkedEntry
  <2>3. ASSUME NEW k \in Keys, k \in DroppedBy(t) \ touched[t] PROVE file'[k] = Absent
    <3>1. CASE k = Leaf[prefix[t]]
      BY <2>2, <3>1
    <3>2. CASE k # Leaf[prefix[t]]
      <4>1. Home[k] \in Inside(t)
        BY <1>2, <2>3, <3>2 DEF Covered, Inside
      <4> QED
        BY <1>1, <1>3, <2>3, <4>1, NoNewFiles DEF RInv
    <3> QED
      BY <3>1, <3>2
  <2> QED
    BY <1>1, <1>4, <2>1, <2>3, EndOfDrop
<1>5. CASE Leaf[prefix[t]] \notin Keys
  <2>1. file' = file
    BY <1>5 DEF DropLeaf
  <2>2. ASSUME NEW k \in Keys, k \in DroppedBy(t) \ touched[t] PROVE file'[k] = Absent
    BY <1>2, <1>3, <1>5, <2>1, <2>2 DEF Covered, Inside
  <2> QED
    BY <1>1, <2>1, <2>2, EndOfDrop
<1> QED
  BY <1>4, <1>5

LEMMA InvalidateRefines ==
  ASSUME FInv, NEW t \in Threads, Check(t) \/ Unlink(t)
  PROVE  Contract!Next \/ UNCHANGED Contract!vars
<1>1. Step(t) /\ Dropping(t) /\ pc[t] \in InvalidateSteps
  BY DEF Check, Unlink, Step, Dropping, InvalidateSteps
<1>2. DroppedBy(t) = {target[t]} /\ target[t] \in Keys
  BY <1>1 DEF DroppedBy, DropSteps, InvalidateSteps, FInv, Calls, Named
<1>3. CASE GoesOn /\ file' = file
  BY <1>1, <1>3, GoesOnStays, Invisible
<1>4. CASE Return(t, Failed) /\ file' = file
  BY <1>1, <1>4, EndOfDrop, MarkAssumption
<1>5. CASE Return(t, Ok) /\ file' = file /\ file[target[t]] = Absent
  BY <1>1, <1>2, <1>5, EndOfDrop
<1>6. CASE Return(t, Ok) /\ Unlinked(target[t])
  BY <1>1, <1>2, <1>6, EndOfDrop, UnlinkedEntry
<1> QED
  BY <1>3, <1>4, <1>5, <1>6 DEF Check, Unlink, treeVars

LEMMA EnterRefines ==
  ASSUME FInv, NEW t \in Threads, Enter(t) \/ Count(t)
  PROVE  Contract!Next \/ UNCHANGED Contract!vars
<1>1. Step(t) /\ Dropping(t) /\ file' = file
  BY DEF Enter, Count, Step, Dropping, DropSteps, treeVars
<1>2. CASE GoesOn
  BY <1>1, <1>2, GoesOnStays, Invisible
<1>3. CASE Return(t, Failed)
  BY <1>1, <1>3, EndOfDrop, MarkAssumption
<1> QED
  BY <1>2, <1>3 DEF Enter, Count

LEMMA CrashRefines ==
  ASSUME Crash
  PROVE  Contract!Next
<1>1. \A t \in Threads : CallOf(t)' = Contract!Idle
  BY DEF Crash, CallOf, Setting, Dropping, SetSteps, DropSteps, InvalidateSteps, Contract!Idle
<1>2. [k \in Keys |-> Contents(k)]' = [k \in Keys |-> Contents(k)]
  BY SameEntries DEF Crash
<1>3. [t \in Threads |-> CallOf(t)]' = [t \in Threads |-> Contract!Idle]
  BY <1>1
<1>4. touched' = [t \in Threads |-> {}] /\ answer' = [t \in Threads |-> Nothing]
  BY DEF Crash
<1>5. Contract!Crash
  BY <1>2, <1>3, <1>4 DEF Contract!Crash
<1> QED
  BY <1>5 DEF Contract!Next

LEMMA IdleRefines ==
  ASSUME CheckHealth \/ UNCHANGED vars
  PROVE  UNCHANGED Contract!vars
<1>1. UNCHANGED <<file, pc, target, prefix, value, touched, answer>>
  BY DEF CheckHealth, vars, treeVars, callVars
<1>2. \A t \in Threads : CallOf(t)' = CallOf(t)
  BY <1>1 DEF CallOf, Setting, Dropping, DroppedBy
<1>3. [t \in Threads |-> CallOf(t)]' = [t \in Threads |-> CallOf(t)]
  BY <1>2
<1>4. [k \in Keys |-> Contents(k)]' = [k \in Keys |-> Contents(k)]
  BY <1>1, SameEntries
<1> QED
  BY <1>1, <1>3, <1>4, Zenon DEF Contract!vars

LEMMA NextRefines ==
  ASSUME RInv, [Next]_vars
  PROVE  Contract!Next \/ UNCHANGED Contract!vars
<1>1. FInv
  BY DEF RInv
<1>2. ASSUME NEW t \in Threads, Begins(t) PROVE Contract!Next
  BY <1>2, BeginRefines DEF Contract!Next
<1>3. ASSUME NEW t \in Threads, Read(t) PROVE Contract!Next
  BY <1>1, <1>3, EndOfGet DEF Read, treeVars
<1>4. ASSUME NEW t \in Threads, Step(t) PROVE Contract!Next \/ UNCHANGED Contract!vars
  BY <1>1, <1>3, <1>4, MakesRefines, OpenRefines, WriteRefines, EnterRefines, RemovesRefines,
     DropLeafRefines, InvalidateRefines DEF Step
<1> QED
  BY <1>2, <1>4, CrashRefines, IdleRefines DEF Next

(* The file store implements CacheStore, for any number of threads, keys   *)
(* and prefixes, across races and crashes: an entry is never a mixture and *)
(* only changes on account of a call that works on it, a get returns what  *)
(* the entry was at one moment, and after invalidate or invalidate_prefix  *)
(* has returned nothing of its family is left that no set was working on.  *)
THEOREM StoreKeepsTheContract == Spec => KeepsTheContract
<1>1. RInv /\ [Next]_vars => [Contract!Next]_(Contract!vars)
  BY NextRefines
<1> QED
  BY <1>1, InitRefines, InitRInv, StepRInv, PTL DEF Spec, KeepsTheContract, Contract!Spec
-----------------------------------------------------------------------------
(* Every call ends, when the directories are a tree (DirsAreATree).        *)
(*                                                                         *)
(* What rmtree, which has the directories s to list, will list yet; and    *)
(* what it will list, remove and unlink, all in all.                       *)
Unlisted(s) == UNION {Under[d] : d \in s}
Below(D) == {k \in Keys : Home[k] \in D}
Burden(s, o, l) ==
  Cardinality(Unlisted(s)) + Cardinality(Unlisted(s) \cup o)
    + Cardinality(Below(Unlisted(s)) \cup l)

(* It comes to no directory twice, and has listed what it is to remove.    *)
Tidy(s, o, l) ==
  /\ \A d, e \in s : d \in Under[e] => d = e
  /\ o \cap Unlisted(s) = {} /\ l \cap Below(Unlisted(s)) = {}

Whole == 2 * Cardinality(Dirs) + Cardinality(Keys)
Above(d) == Cardinality(Dirs) - Cardinality(Under[d])

(* The steps that a call has left at most.                                 *)
StepsLeft(t) ==
  IF pc[t] = "climb" THEN 2 * Len(trail[t]) + 3 * Above(place[t]) + 4
  ELSE IF pc[t] = "descend" THEN 2 * Len(trail[t]) + 4
  ELSE IF pc[t] = "exists" THEN 2 * Len(trail[t]) + 3
  ELSE IF pc[t] = "enter" THEN Whole + 4
  ELSE IF pc[t] = "count" THEN Whole + 3
  ELSE IF pc[t] = "remove" THEN Burden(scan[t], opened[t], listed[t]) + 2
  ELSE IF pc[t] \in {"open", "check"} THEN 2
  ELSE IF pc[t] = "idle" THEN 0 ELSE 1

Untouched(t) ==
  /\ pc'[t] = pc[t] /\ place'[t] = place[t] /\ trail'[t] = trail[t]
  /\ scan'[t] = scan[t] /\ opened'[t] = opened[t] /\ listed'[t] = listed[t]

(* Every step of a call is one of them, whatever others have done to the   *)
(* tree; and no step of another call adds any.                             *)
EveryStepCounts ==
  \A t \in Threads :
    \/ StepsLeft(t)' < StepsLeft(t)
    \/ Untouched(t) /\ StepsLeft(t)' = StepsLeft(t)
    \/ pc[t] = "idle"

BudgetHolds ==
  \A t \in Threads : StepsLeft(t) \in Nat /\ (StepsLeft(t) = 0 <=> pc[t] = "idle")

(* rmtree always has something to list or to remove, until it is done; the *)
(* guards of the other steps leave no case out.                            *)
NeverStuck ==
  \A t \in Threads : pc[t] = "remove" =>
    \/ scan[t] # {} \/ listed[t] # {} \/ opened[t] = {}
    \/ \E d \in Dirs : EmptiedBy(t, d)

IsTidy(t) ==
  /\ pc[t] = "remove" => Tidy(scan[t], opened[t], listed[t])
  /\ pc[t] # "remove" => scan[t] = {} /\ opened[t] = {} /\ listed[t] = {}
EInv == FInv /\ \A t \in Threads : IsTidy(t)

-----------------------------------------------------------------------------
LEMMA OneLess ==
  ASSUME NEW S, IsFiniteSet(S), NEW T \in SUBSET S, NEW x \in S \ T
  PROVE  Cardinality(T) < Cardinality(S)
<1>1. /\ Cardinality(T) <= Cardinality(S) /\ IsFiniteSet(T)
      /\ Cardinality(S) = Cardinality(T) => S = T
  BY FS_Subset
<1>2. Cardinality(T) \in Nat /\ Cardinality(S) \in Nat
  BY <1>1, FS_CardinalityType
<1>3. S # T
  OBVIOUS
<1> QED
  BY <1>1, <1>2, <1>3

LEMMA DirsAreCounted ==
  ASSUME DirsAreATree, NEW D \in SUBSET Dirs
  PROVE  /\ IsFiniteSet(D) /\ Cardinality(D) \in Nat
         /\ Cardinality(Dirs) \in Nat /\ Cardinality(D) <= Cardinality(Dirs)
BY FS_Subset, FS_CardinalityType DEF DirsAreATree

LEMMA KeysAreCounted ==
  ASSUME DirsAreATree, NEW K \in SUBSET Keys
  PROVE  /\ IsFiniteSet(K) /\ Cardinality(K) \in Nat
         /\ Cardinality(Keys) \in Nat /\ Cardinality(K) <= Cardinality(Keys)
BY FS_Subset, FS_CardinalityType DEF DirsAreATree

(* A directory holds less than the one above it.                           *)
LEMMA UnderShrinks ==
  ASSUME DirsAreATree, NEW d \in Dirs \ {Root}
  PROVE  /\ Up[d] \in Dirs /\ Cardinality(Under[d]) < Cardinality(Under[Up[d]])
         /\ Above(d) \in Nat /\ Above(Up[d]) \in Nat /\ Above(Up[d]) < Above(d)
<1>1. /\ Up[d] \in Dirs /\ Under[d] \subseteq Dirs /\ Under[Up[d]] \subseteq Dirs
      /\ Up[d] \in Under[Up[d]] /\ d \in Under[Up[d]]
  BY TreeAssumption
<1>2. Under[d] \subseteq Under[Up[d]]
  BY <1>1 DEF DirsAreATree
<1>3. Up[d] \notin Under[d]
  BY <1>1 DEF DirsAreATree
<1>4. Cardinality(Under[d]) < Cardinality(Under[Up[d]])
  BY <1>1, <1>2, <1>3, DirsAreCounted, OneLess
<1> QED
  BY <1>1, <1>4, DirsAreCounted DEF Above

LEMMA AboveIsNatural ==
  ASSUME DirsAreATree, NEW d \in Dirs
  PROVE  Above(d) \in Nat
<1>1. Under[d] \subseteq Dirs
  BY TreeAssumption
<1> QED
  BY <1>1, DirsAreCounted DEF Above

LEMMA BurdenIsCounted ==
  ASSUME DirsAreATree, NEW s \in SUBSET Dirs, NEW o \in SUBSET Dirs, NEW l \in SUBSET Keys
  PROVE  /\ Unlisted(s) \subseteq Dirs
         /\ Burden(s, o, l) \in Nat /\ Burden(s, o, l) <= Whole
<1>1. Unlisted(s) \subseteq Dirs
  BY TreeAssumption DEF Unlisted
<1>2. /\ Unlisted(s) \in SUBSET Dirs /\ Unlisted(s) \cup o \in SUBSET Dirs
      /\ Below(Unlisted(s)) \cup l \in SUBSET Keys
  BY <1>1 DEF Below
<1> QED
  BY <1>1, <1>2, DirsAreCounted, KeysAreCounted DEF Burden, Whole

(* Listing a directory: what it holds is added, and it is done with.       *)
LEMMA ListingLessens ==
  ASSUME DirsAreATree, NEW s \in SUBSET Dirs, NEW o \in SUBSET Dirs, NEW l \in SUBSET Keys,
         Tidy(s, o, l), NEW d \in s,
         NEW n \in SUBSET {e \in Dirs \ {Root} : Up[e] = d},
         NEW o2 \in SUBSET (o \cup {d}), NEW m \in SUBSET {k \in Keys : Home[k] = d}
  PROVE  /\ Tidy((s \ {d}) \cup n, o2, l \cup m)
         /\ Burden((s \ {d}) \cup n, o2, l \cup m) < Burden(s, o, l)
<1> DEFINE s2 == (s \ {d}) \cup n
<1>1. /\ d \in Dirs /\ d \in Under[d] /\ d \in Unlisted(s)
      /\ \A e \in Dirs : Under[e] \subseteq Dirs
  BY TreeAssumption DEF Unlisted
<1>2. ASSUME NEW e \in n PROVE /\ e \in Dirs /\ e # Root /\ Up[e] = d /\ e \in Under[d] /\ e # d
                               /\ d \notin Under[e] /\ Under[e] \subseteq Under[d]
  <2>1. e \in Dirs /\ e # Root /\ Up[e] = d /\ e # d
    BY DEF DirsAreATree
  <2>2. e \in Under[d]
    BY <1>1, <2>1, TreeAssumption
  <2> QED
    BY <1>1, <2>1, <2>2 DEF DirsAreATree
<1>3. ASSUME NEW e \in s \ {d} PROVE d \notin Under[e] /\ e \notin Under[d]
  BY DEF Tidy
<1>4. Unlisted(s2) \subseteq Unlisted(s) \ {d}
  BY <1>2, <1>3 DEF Unlisted
<1>5. \A e, f \in s2 : e \in Under[f] => e = f
  <2> SUFFICES ASSUME NEW e \in s2, NEW f \in s2, e \in Under[f], e # f PROVE FALSE
    OBVIOUS
  <2>0. e \in Dirs /\ f \in Dirs
    BY <1>2
  <2>1. CASE e \in s \ {d} /\ f \in s \ {d}
    BY <2>1 DEF Tidy
  <2>2. CASE e \in s \ {d} /\ f \in n
    BY <1>2, <1>3, <2>2
  <2>3. CASE e \in n
    <3>1. Up[e] = d /\ d \in Under[f]
      BY <1>2, <2>0, <2>3, TreeAssumption
    <3> QED
      BY <1>2, <1>3, <3>1
  <2> QED
    BY <2>1, <2>2, <2>3
<1>6. o2 \cap Unlisted(s2) = {}
  BY <1>4 DEF Tidy
<1>7. (l \cup m) \cap Below(Unlisted(s2)) = {}
  BY <1>4 DEF Tidy, Below
<1>8. Tidy(s2, o2, l \cup m)
  BY <1>5, <1>6, <1>7 DEF Tidy
<1>9. Unlisted(s) \subseteq Dirs
  BY BurdenIsCounted
<1>10. Cardinality(Unlisted(s2)) < Cardinality(Unlisted(s))
  BY <1>1, <1>4, <1>9, DirsAreCounted, OneLess
<1>11. Cardinality(Unlisted(s2) \cup o2) <= Cardinality(Unlisted(s) \cup o)
  <2>1. Unlisted(s2) \cup o2 \in SUBSET (Unlisted(s) \cup o)
    BY <1>1, <1>4
  <2>2. IsFiniteSet(Unlisted(s) \cup o)
    BY <1>9, DirsAreCounted
  <2> QED
    BY <2>1, <2>2, FS_Subset
<1>12. Cardinality(Below(Unlisted(s2)) \cup (l \cup m)) <= Cardinality(Below(Unlisted(s)) \cup l)
  <2>1. Below(Unlisted(s2)) \cup (l \cup m) \subseteq Below(Unlisted(s)) \cup l
    BY <1>1, <1>4 DEF Below
  <2>2. Below(Unlisted(s)) \cup l \in SUBSET Keys
    BY DEF Below
  <2> QED
    BY <2>1, <2>2, KeysAreCounted, FS_Subset
<1>13. /\ Cardinality(Unlisted(s)) \in Nat /\ Cardinality(Unlisted(s2)) \in Nat
       /\ Cardinality(Unlisted(s) \cup o) \in Nat /\ Cardinality(Unlisted(s2) \cup o2) \in Nat
       /\ Cardinality(Below(Unlisted(s)) \cup l) \in Nat
       /\ Cardinality(Below(Unlisted(s2)) \cup (l \cup m)) \in Nat
  <2>1. /\ Unlisted(s2) \in SUBSET Dirs /\ o2 \in SUBSET Dirs /\ l \cup m \in SUBSET Keys
    BY <1>1, <1>4, <1>9
  <2> QED
    BY <1>9, <2>1, DirsAreCounted, KeysAreCounted DEF Below
<1> QED
  BY <1>8, <1>10, <1>11, <1>12, <1>13 DEF Burden

(* Unlinking a file that was listed, and removing a directory.             *)
LEMMA RemovalLessens ==
  ASSUME DirsAreATree, NEW s \in SUBSET Dirs, NEW o \in SUBSET Dirs, NEW l \in SUBSET Keys,
         Tidy(s, o, l)
  PROVE  /\ \A k \in l : /\ Tidy(s, o, l \ {k})
                         /\ Burden(s, o, l \ {k}) < Burden(s, o, l)
         /\ \A d \in o : /\ Tidy(s, o \ {d}, l)
                         /\ Burden(s, o \ {d}, l) < Burden(s, o, l)
<1>1. /\ Unlisted(s) \in SUBSET Dirs /\ Unlisted(s) \cup o \in SUBSET Dirs
      /\ Below(Unlisted(s)) \cup l \in SUBSET Keys
  BY BurdenIsCounted DEF Below
<1>2. /\ Cardinality(Unlisted(s)) \in Nat /\ Cardinality(Unlisted(s) \cup o) \in Nat
      /\ Cardinality(Below(Unlisted(s)) \cup l) \in Nat
  BY <1>1, DirsAreCounted, KeysAreCounted
<1>3. ASSUME NEW k \in l
      PROVE  Tidy(s, o, l \ {k}) /\ Burden(s, o, l \ {k}) < Burden(s, o, l)
  <2>1. /\ k \in Below(Unlisted(s)) \cup l /\ k \notin Below(Unlisted(s)) \cup (l \ {k})
        /\ Below(Unlisted(s)) \cup (l \ {k}) \subseteq Below(Unlisted(s)) \cup l
    BY DEF Tidy
  <2>2. Cardinality(Below(Unlisted(s)) \cup (l \ {k})) < Cardinality(Below(Unlisted(s)) \cup l)
    BY <1>1, <2>1, KeysAreCounted, OneLess
  <2>3. Cardinality(Below(Unlisted(s)) \cup (l \ {k})) \in Nat
    BY <1>1, KeysAreCounted
  <2>4. Tidy(s, o, l \ {k})
    BY DEF Tidy
  <2> QED
    BY <1>2, <2>2, <2>3, <2>4 DEF Burden
<1>4. ASSUME NEW d \in o
      PROVE  Tidy(s, o \ {d}, l) /\ Burden(s, o \ {d}, l) < Burden(s, o, l)
  <2>1. /\ d \in Unlisted(s) \cup o /\ d \notin Unlisted(s) \cup (o \ {d})
        /\ Unlisted(s) \cup (o \ {d}) \subseteq Unlisted(s) \cup o
    BY DEF Tidy
  <2>2. Cardinality(Unlisted(s) \cup (o \ {d})) < Cardinality(Unlisted(s) \cup o)
    BY <1>1, <2>1, DirsAreCounted, OneLess
  <2>3. Cardinality(Unlisted(s) \cup (o \ {d})) \in Nat
    BY <1>1, DirsAreCounted
  <2>4. Tidy(s, o \ {d}, l)
    BY DEF Tidy
  <2> QED
    BY <1>2, <2>2, <2>3, <2>4 DEF Burden
<1> QED
  BY <1>3, <1>4

-----------------------------------------------------------------------------
(* What is the same for t counts the same.                                 *)
LEMMA UntouchedCounts ==
  ASSUME NEW t \in Threads, Untouched(t)
  PROVE  StepsLeft(t)' = StepsLeft(t) /\ (IsTidy(t) => IsTidy(t)')
BY DEF Untouched, StepsLeft, IsTidy

(* The counts are natural numbers, and none is left when a call is over.   *)
LEMMA StepsAreCounted ==
  ASSUME DirsAreATree, EInv, NEW t \in Threads
  PROVE  StepsLeft(t) \in Nat /\ (StepsLeft(t) = 0 <=> pc[t] = "idle")
<1>1. /\ pc[t] \in Labels /\ place[t] \in Dirs /\ trail[t] \in Seq(Dirs)
      /\ scan[t] \in SUBSET Dirs /\ opened[t] \in SUBSET Dirs /\ listed[t] \in SUBSET Keys
  BY DEF EInv, FInv, Calls, CallTypes
<1>2. /\ Len(trail[t]) \in Nat /\ Above(place[t]) \in Nat
      /\ Burden(scan[t], opened[t], listed[t]) \in Nat
  <2>1. Len(trail[t]) \in Nat
    BY <1>1
  <2>2. Above(place[t]) \in Nat
    BY <1>1, AboveIsNatural
  <2>3. Burden(scan[t], opened[t], listed[t]) \in Nat
    BY <1>1, BurdenIsCounted
  <2> QED
    BY <2>1, <2>2, <2>3
<1>3. Whole \in Nat
  BY DirsAreCounted, KeysAreCounted DEF Whole
<1>4. pc[t] \in {"idle", "read", "climb", "descend", "exists", "open", "write",
                  "enter", "count", "remove", "leaf", "check", "unlink"}
  BY <1>1 DEF Labels, SetSteps, DropSteps, InvalidateSteps
<1>5. CASE pc[t] \in {"climb", "descend", "exists"}
  <2>1. \/ StepsLeft(t) = 2 * Len(trail[t]) + 3 * Above(place[t]) + 4
        \/ StepsLeft(t) = 2 * Len(trail[t]) + 4
        \/ StepsLeft(t) = 2 * Len(trail[t]) + 3
    BY <1>5 DEF StepsLeft
  <2>2. StepsLeft(t) \in Nat /\ StepsLeft(t) # 0
    BY <1>2, <2>1
  <2> QED
    BY <1>5, <2>2
<1>6. CASE pc[t] \in {"enter", "count", "remove"}
  BY <1>2, <1>3, <1>6 DEF StepsLeft
<1>7. CASE pc[t] \in {"idle", "read", "open", "write", "leaf", "check", "unlink"}
  BY <1>7 DEF StepsLeft
<1> QED
  BY <1>4, <1>5, <1>6, <1>7

LEMMA ReturnCounts ==
  ASSUME DirsAreATree, EInv, NEW t \in Threads, NEW a, Return(t, a), pc[t] # "idle"
  PROVE  IsTidy(t)' /\ StepsLeft(t)' < StepsLeft(t)
<1>1. pc'[t] = "idle" /\ scan'[t] = {} /\ opened'[t] = {} /\ listed'[t] = {}
  BY DEF EInv, FInv, Calls, CallTypes, Return, GoTo
<1>2. IsTidy(t)' /\ StepsLeft(t)' = 0
  BY <1>1 DEF IsTidy, StepsLeft
<1>3. StepsLeft(t) \in Nat /\ StepsLeft(t) # 0
  BY StepsAreCounted
<1> QED
  BY <1>2, <1>3

(* From one directory to the next one down, or to the file.                *)
LEMMA GoDownCounts ==
  ASSUME DirsAreATree, EInv, NEW t \in Threads, GoDown(t), UNCHANGED rmtreeVars,
         pc[t] \in {"climb", "descend", "exists"}
  PROVE  IsTidy(t)' /\ StepsLeft(t)' < StepsLeft(t)
<1>0. /\ pc \in [Threads -> Labels] /\ trail \in [Threads -> Seq(Dirs)]
      /\ place[t] \in Dirs
  BY DEF EInv, FInv, Calls, CallTypes
<1>1. Above(place[t]) \in Nat
  BY <1>0, AboveIsNatural
<1>2. pc'[t] # "remove" /\ IsTidy(t)'
  <2>1. pc'[t] \in {"open", "descend"}
    BY <1>0 DEF GoDown, GoTo
  <2> QED
    BY <2>1 DEF IsTidy, EInv, rmtreeVars
<1>3. PICK s \in Seq(Dirs) : s = trail[t]
  BY <1>0
<1>4. StepsLeft(t) >= 2 * Len(s) + 3
  BY <1>1, <1>3 DEF StepsLeft
<1>5. CASE s = <<>>
  <2>1. pc'[t] = "open"
    BY <1>0, <1>3, <1>5 DEF GoDown, GoTo
  <2>2. Len(s) = 0
    BY <1>5
  <2>3. StepsLeft(t)' = 2 /\ StepsLeft(t) >= 3
    BY <1>4, <2>1, <2>2 DEF StepsLeft
  <2>4. StepsLeft(t) \in Nat
    BY StepsAreCounted
  <2> QED
    BY <1>2, <2>3, <2>4
<1>6. CASE s # <<>>
  <2>1. pc'[t] = "descend" /\ trail'[t] = Tail(s)
    BY <1>0, <1>3, <1>6 DEF GoDown, GoTo
  <2>2. Len(Tail(s)) = Len(s) - 1 /\ Len(s) \in Nat
    BY <1>6
  <2>3. StepsLeft(t)' = 2 * Len(s) + 2
    BY <2>1, <2>2 DEF StepsLeft
  <2>4. StepsLeft(t) \in Nat
    BY StepsAreCounted
  <2> QED
    BY <1>2, <1>4, <2>2, <2>3, <2>4
<1> QED
  BY <1>5, <1>6

LEMMA MakesCounts ==
  ASSUME DirsAreATree, EInv, NEW t \in Threads, Makes(t)
  PROVE  IsTidy(t)' /\ StepsLeft(t)' < StepsLeft(t)
<1>0. /\ pc \in [Threads -> Labels] /\ trail \in [Threads -> Seq(Dirs)]
      /\ place \in [Threads -> Dirs]
  BY DEF EInv, FInv, Calls, CallTypes
<1>1. Above(place[t]) \in Nat /\ Len(trail[t]) \in Nat
  BY <1>0, AboveIsNatural
<1>2. CASE LoseParent(t) \/ GoneAgain(t)
  BY <1>2, ReturnCounts DEF LoseParent, GoneAgain
<1>3. CASE StillThere(t) \/ \E label \in {"climb", "descend"} : MakeDir(t, label)
  BY <1>3, GoDownCounts DEF StillThere, MakeDir
<1>4. CASE \E label \in {"climb", "descend"} : FindDir(t, label)
  <2>1. /\ pc[t] \in {"climb", "descend"} /\ pc'[t] = "exists" /\ trail'[t] = trail[t]
        /\ UNCHANGED rmtreeVars
    BY <1>0, <1>4 DEF FindDir, GoTo, mkdirVars
  <2>2. IsTidy(t)'
    BY <2>1 DEF IsTidy, EInv, rmtreeVars
  <2> QED
    BY <1>1, <2>1, <2>2 DEF StepsLeft
<1>5. CASE Climb(t)
  <2>1. /\ pc[t] = "climb" /\ pc'[t] = "climb" /\ UNCHANGED rmtreeVars
        /\ place[t] \in Dirs \ {Root}
        /\ place'[t] = Up[place[t]] /\ trail'[t] = <<place[t]>> \o trail[t]
    BY <1>0, <1>5 DEF Climb, CanMake
  <2>2. IsTidy(t)'
    BY <2>1 DEF IsTidy, EInv, rmtreeVars
  <2>3. Len(trail'[t]) = Len(trail[t]) + 1
    <3>1. PICK s \in Seq(Dirs) : s = trail[t]
      BY <1>0
    <3>2. Len(<<place[t]>> \o s) = Len(s) + 1
      BY <2>1
    <3> QED
      BY <2>1, <3>1, <3>2
  <2>4. /\ Above(place'[t]) \in Nat /\ Above(place'[t]) < Above(place[t])
    BY <2>1, UnderShrinks
  <2>5. /\ StepsLeft(t) = 2 * Len(trail[t]) + 3 * Above(place[t]) + 4
        /\ StepsLeft(t)' = 2 * Len(trail'[t]) + 3 * Above(place'[t]) + 4
    BY <2>1 DEF StepsLeft, Above
  <2> QED
    BY <1>1, <2>2, <2>3, <2>4, <2>5
<1> QED
  BY <1>2, <1>3, <1>4, <1>5 DEF Makes

LEMMA RemovesCounts ==
  ASSUME DirsAreATree, EInv, NEW t \in Threads, Removes(t)
  PROVE  IsTidy(t)' /\ StepsLeft(t)' < StepsLeft(t)
<1>0. /\ pc \in [Threads -> Labels] /\ pc[t] = "remove"
      /\ scan \in [Threads -> SUBSET Dirs] /\ opened \in [Threads -> SUBSET Dirs]
      /\ listed \in [Threads -> SUBSET Keys] /\ dirs \subseteq Dirs
  BY DEF EInv, FInv, Calls, CallTypes, TreeTypes, Removes, ListDir, RemoveDir, RemoveFile, Removed
<1>1. /\ Tidy(scan[t], opened[t], listed[t])
      /\ StepsLeft(t) = Burden(scan[t], opened[t], listed[t]) + 2
      /\ Burden(scan[t], opened[t], listed[t]) \in Nat
  BY <1>0, BurdenIsCounted DEF EInv, IsTidy, StepsLeft
<1>2. ASSUME pc'[t] = "remove", Tidy(scan'[t], opened'[t], listed'[t]),
             Burden(scan'[t], opened'[t], listed'[t]) < Burden(scan[t], opened[t], listed[t]),
             scan'[t] \in SUBSET Dirs, opened'[t] \in SUBSET Dirs, listed'[t] \in SUBSET Keys
      PROVE  IsTidy(t)' /\ StepsLeft(t)' < StepsLeft(t)
  <2>1. /\ Burden(scan'[t], opened'[t], listed'[t]) \in Nat
        /\ StepsLeft(t)' = Burden(scan'[t], opened'[t], listed'[t]) + 2
    BY <1>2, BurdenIsCounted DEF StepsLeft, Burden, Unlisted, Below
  <2>2. IsTidy(t)'
    BY <1>2 DEF IsTidy, Tidy, Unlisted, Below
  <2> QED
    BY <1>1, <1>2, <2>1, <2>2
<1>3. ASSUME NEW d \in Dirs, ListDir(t, d) PROVE IsTidy(t)' /\ StepsLeft(t)' < StepsLeft(t)
  <2>0. d \in scan[t] /\ pc' = pc
    BY <1>3 DEF ListDir
  <2>1. CASE d \in dirs
    <3>1. /\ scan'[t] = (scan[t] \ {d}) \cup Subdirs(d) /\ listed'[t] = listed[t] \cup FilesIn(d)
          /\ opened'[t] = opened[t] \cup {d}
      BY <1>0, <1>3, <2>1 DEF ListDir
    <3>2. /\ Subdirs(d) \in SUBSET {e \in Dirs \ {Root} : Up[e] = d}
          /\ FilesIn(d) \in SUBSET {k \in Keys : Home[k] = d}
          /\ opened[t] \cup {d} \in SUBSET (opened[t] \cup {d})
      BY <1>0 DEF Subdirs, FilesIn
    <3>3. /\ Tidy((scan[t] \ {d}) \cup Subdirs(d), opened[t] \cup {d}, listed[t] \cup FilesIn(d))
          /\ Burden((scan[t] \ {d}) \cup Subdirs(d), opened[t] \cup {d}, listed[t] \cup FilesIn(d))
               < Burden(scan[t], opened[t], listed[t])
      <4>1. /\ scan[t] \in SUBSET Dirs /\ opened[t] \in SUBSET Dirs /\ listed[t] \in SUBSET Keys
        BY <1>0
      <4>2. Tidy(scan[t], opened[t], listed[t]) /\ d \in scan[t]
        BY <1>1, <2>0
      <4> QED
        BY <3>2, <4>1, <4>2, ListingLessens
    <3>4. /\ Tidy(scan'[t], opened'[t], listed'[t])
          /\ Burden(scan'[t], opened'[t], listed'[t]) < Burden(scan[t], opened[t], listed[t])
      BY <3>1, <3>3
    <3>5. scan'[t] \in SUBSET Dirs /\ opened'[t] \in SUBSET Dirs /\ listed'[t] \in SUBSET Keys
      BY <1>0, <3>1, <3>2
    <3> QED
      BY <1>0, <1>2, <2>0, <3>4, <3>5
  <2>2. CASE d \notin dirs
    <3>1. /\ scan'[t] = (scan[t] \ {d}) \cup {} /\ listed'[t] = listed[t] \cup {}
          /\ opened'[t] = opened[t]
      BY <1>0, <1>3, <2>2 DEF ListDir
    <3>2. /\ {} \in SUBSET {e \in Dirs \ {Root} : Up[e] = d}
          /\ {} \in SUBSET {k \in Keys : Home[k] = d}
          /\ opened[t] \in SUBSET (opened[t] \cup {d})
      OBVIOUS
    <3>3. /\ Tidy((scan[t] \ {d}) \cup {}, opened[t], listed[t] \cup {})
          /\ Burden((scan[t] \ {d}) \cup {}, opened[t], listed[t] \cup {})
               < Burden(scan[t], opened[t], listed[t])
      <4>1. /\ scan[t] \in SUBSET Dirs /\ opened[t] \in SUBSET Dirs /\ listed[t] \in SUBSET Keys
        BY <1>0
      <4>2. Tidy(scan[t], opened[t], listed[t]) /\ d \in scan[t]
        BY <1>1, <2>0
      <4> QED
        BY <3>2, <4>1, <4>2, ListingLessens
    <3>4. /\ Tidy(scan'[t], opened'[t], listed'[t])
          /\ Burden(scan'[t], opened'[t], listed'[t]) < Burden(scan[t], opened[t], listed[t])
      BY <3>1, <3>3
    <3>5. scan'[t] \in SUBSET Dirs /\ opened'[t] \in SUBSET Dirs /\ listed'[t] \in SUBSET Keys
      BY <1>0, <3>1
    <3> QED
      BY <1>0, <1>2, <2>0, <3>4, <3>5
  <2> QED
    BY <2>1, <2>2
<1>4. ASSUME NEW k \in Keys, RemoveFile(t, k) PROVE IsTidy(t)' /\ StepsLeft(t)' < StepsLeft(t)
  <2>1. /\ pc' = pc /\ scan'[t] = scan[t] /\ opened'[t] = opened[t] /\ k \in listed[t]
        /\ listed'[t] = listed[t] \ {k}
    BY <1>0, <1>4 DEF RemoveFile
  <2>2. /\ scan[t] \in SUBSET Dirs /\ opened[t] \in SUBSET Dirs /\ listed[t] \in SUBSET Keys
    BY <1>0
  <2>3. /\ Tidy(scan[t], opened[t], listed[t] \ {k})
        /\ Burden(scan[t], opened[t], listed[t] \ {k}) < Burden(scan[t], opened[t], listed[t])
    BY <1>1, <2>1, <2>2, RemovalLessens
  <2>4. /\ Tidy(scan'[t], opened'[t], listed'[t])
        /\ Burden(scan'[t], opened'[t], listed'[t]) < Burden(scan[t], opened[t], listed[t])
    BY <2>1, <2>3
  <2>5. pc'[t] = "remove" /\ scan'[t] \in SUBSET Dirs
    BY <1>0, <2>1, <2>2
  <2>6. opened'[t] \in SUBSET Dirs /\ listed'[t] \in SUBSET Keys
    BY <2>1, <2>2
  <2> QED
    BY <1>2, <2>4, <2>5, <2>6
<1>5. ASSUME NEW d \in Dirs, RemoveDir(t, d) PROVE IsTidy(t)' /\ StepsLeft(t)' < StepsLeft(t)
  <2>1. /\ pc' = pc /\ scan'[t] = scan[t] /\ listed'[t] = listed[t] /\ d \in opened[t]
        /\ opened'[t] = opened[t] \ {d}
    BY <1>0, <1>5 DEF RemoveDir, EmptiedBy
  <2>2. /\ scan[t] \in SUBSET Dirs /\ opened[t] \in SUBSET Dirs /\ listed[t] \in SUBSET Keys
    BY <1>0
  <2>3. /\ Tidy(scan[t], opened[t] \ {d}, listed[t])
        /\ Burden(scan[t], opened[t] \ {d}, listed[t]) < Burden(scan[t], opened[t], listed[t])
    BY <1>1, <2>1, <2>2, RemovalLessens
  <2>4. /\ Tidy(scan'[t], opened'[t], listed'[t])
        /\ Burden(scan'[t], opened'[t], listed'[t]) < Burden(scan[t], opened[t], listed[t])
    BY <2>1, <2>3
  <2>5. pc'[t] = "remove" /\ scan'[t] \in SUBSET Dirs
    BY <1>0, <2>1, <2>2
  <2>6. opened'[t] \in SUBSET Dirs /\ listed'[t] \in SUBSET Keys
    BY <2>1, <2>2
  <2> QED
    BY <1>2, <2>4, <2>5, <2>6
<1>6. CASE Removed(t)
  <2>1. /\ pc'[t] = "leaf" /\ scan'[t] = {} /\ opened'[t] = {} /\ listed'[t] = {}
    BY <1>0, <1>6 DEF Removed, GoTo, rmtreeVars
  <2>2. IsTidy(t)' /\ StepsLeft(t)' = 1
    BY <2>1 DEF IsTidy, StepsLeft
  <2> QED
    BY <1>1, <2>2
<1> QED
  BY <1>3, <1>4, <1>5, <1>6 DEF Removes

LEMMA DropsCount ==
  ASSUME DirsAreATree, EInv, NEW t \in Threads, Enter(t) \/ Count(t)
  PROVE  IsTidy(t)' /\ StepsLeft(t)' < StepsLeft(t)
<1>0. /\ pc \in [Threads -> Labels] /\ scan \in [Threads -> SUBSET Dirs]
      /\ \A u \in Threads : pc[u] # "remove" => scan[u] = {} /\ opened[u] = {} /\ listed[u] = {}
  BY DEF EInv, FInv, Calls, CallTypes, IsTidy
<1>1. Whole \in Nat
  BY DirsAreCounted, KeysAreCounted DEF Whole
<1>2. CASE Enter(t)
  <2>1. /\ pc[t] = "enter" /\ pc'[t] \in {"count", "leaf"}
        /\ scan' = scan /\ opened' = opened /\ listed' = listed
    BY <1>0, <1>2 DEF Enter, GoTo, rmtreeVars
  <2>2. IsTidy(t)'
    BY <1>0, <2>1 DEF IsTidy
  <2> QED
    BY <1>1, <2>1, <2>2 DEF StepsLeft, Whole
<1>3. CASE Count(t) /\ GoTo(t, "remove") /\ GoesOn
  <2>0. pc[t] = "count" /\ prefix[t] \in Prefixes /\ Top[prefix[t]] \in Dirs
    BY <1>3, PrefixAssumption DEF Count, EInv, FInv, Calls, Named, DropSteps
  <2>1. /\ pc'[t] = "remove" /\ ~ (pc'[t] = "idle")
        /\ scan'[t] = {Top[prefix[t]]} /\ opened'[t] = {} /\ listed'[t] = {}
    <3>1. pc'[t] = "remove"
      BY <1>0, <1>3 DEF GoTo
    <3>2. ~ Return(t, Failed)
      BY <1>0, <3>1 DEF Return, GoTo
    <3> QED
      BY <1>0, <1>3, <2>0, <3>1, <3>2 DEF Count
  <2>2. Tidy(scan'[t], opened'[t], listed'[t])
    BY <2>1 DEF Tidy
  <2>3. IsTidy(t)'
    BY <2>1, <2>2 DEF IsTidy, Tidy, Unlisted, Below
  <2>4. /\ Burden(scan'[t], opened'[t], listed'[t]) \in Nat
        /\ Burden(scan'[t], opened'[t], listed'[t]) <= Whole
    BY <2>0, <2>1, BurdenIsCounted
  <2>5. /\ StepsLeft(t)' = Burden(scan'[t], opened'[t], listed'[t]) + 2
        /\ StepsLeft(t) = Whole + 3
    BY <2>0, <2>1 DEF StepsLeft, Burden, Unlisted, Below
  <2> QED
    BY <1>1, <2>3, <2>4, <2>5
<1>4. CASE Count(t) /\ Return(t, Failed)
  BY <1>4, ReturnCounts DEF Count
<1> QED
  BY <1>2, <1>3, <1>4 DEF Count

LEMMA OwnStepCounts ==
  ASSUME DirsAreATree, EInv, NEW t \in Threads, Step(t)
  PROVE  IsTidy(t)' /\ StepsLeft(t)' < StepsLeft(t)
<1>1. CASE Read(t) \/ Write(t) \/ DropLeaf(t) \/ Unlink(t)
  BY <1>1, ReturnCounts DEF Read, Write, DropLeaf, Unlink
<1>2. CASE Open(t) \/ Check(t)
  <2>1. CASE \E a \in {Ok, Failed} : Return(t, a)
    BY <1>2, <2>1, ReturnCounts DEF Open, Check
  <2>2. CASE GoTo(t, "write") \/ GoTo(t, "unlink")
    <3>1. pc[t] \in {"open", "check"} /\ pc'[t] \in {"write", "unlink"}
      BY <1>2, <2>2, GoToMoves DEF Open, Check, EInv
    <3>2. \A a \in {Ok, Failed} : ~ Return(t, a)
      BY <3>1, ReturnMoves DEF EInv
    <3>3. UNCHANGED rmtreeVars
      BY <1>2, <3>2 DEF Open, Check
    <3>4. IsTidy(t)'
      BY <3>1, <3>3 DEF IsTidy, EInv, rmtreeVars
    <3> QED
      BY <3>1, <3>4 DEF StepsLeft
  <2> QED
    BY <1>2, <2>1, <2>2 DEF Open, Check
<1> QED
  BY <1>1, <1>2, MakesCounts, RemovesCounts, DropsCount DEF Step

(* A step of another call, a beginning, and is_healthy.                    *)
LEMMA OthersUntouched ==
  ASSUME FInv, NEW t \in Threads, Step(t) \/ Begins(t), NEW u \in Threads, u # t
  PROVE  Untouched(u)
<1>0. /\ pc \in [Threads -> Labels] /\ place \in [Threads -> Dirs]
      /\ trail \in [Threads -> Seq(Dirs)] /\ opened \in [Threads -> SUBSET Dirs]
      /\ scan \in [Threads -> SUBSET Dirs] /\ listed \in [Threads -> SUBSET Keys]
  BY DEF FInv, Calls, CallTypes
<1>1. CASE Begins(t)
  <2>1. /\ pc'[u] = pc[u] /\ place'[u] = place[u] /\ trail' = trail /\ UNCHANGED rmtreeVars
    BY <1>0, <1>1 DEF Begins, BeginGet, BeginSet, BeginInvalidate, BeginDrop, GoTo, mkdirVars
  <2> QED
    BY <2>1 DEF Untouched, rmtreeVars
<1>2. CASE Step(t)
  <2>1. pc'[u] = pc[u] /\ scan'[u] = scan[u] /\ listed'[u] = listed[u]
    BY <1>2, OthersAlone
  <2>2. ASSUME NEW a, Return(t, a) PROVE Untouched(u)
    BY <1>0, <2>1, <2>2 DEF Return, Untouched
  <2>3. CASE Read(t) \/ Write(t) \/ DropLeaf(t) \/ Unlink(t)
    BY <2>2, <2>3 DEF Read, Write, DropLeaf, Unlink
  <2>4. ASSUME UNCHANGED <<mkdirVars, opened>> PROVE Untouched(u)
    BY <2>1, <2>4 DEF mkdirVars, Untouched
  <2>5. CASE Open(t) \/ Check(t) \/ Enter(t) \/ Count(t)
    BY <2>2, <2>4, <2>5 DEF Open, Check, Enter, Count, rmtreeVars
  <2>6. ASSUME GoDown(t), UNCHANGED rmtreeVars PROVE Untouched(u)
    BY <1>0, <2>1, <2>6 DEF GoDown, mkdirVars, rmtreeVars, Untouched
  <2>7. CASE Makes(t)
    <3>1. CASE LoseParent(t) \/ GoneAgain(t)
      BY <2>2, <3>1 DEF LoseParent, GoneAgain
    <3>2. CASE StillThere(t) \/ \E label \in {"climb", "descend"} : MakeDir(t, label)
      BY <2>6, <3>2 DEF StillThere, MakeDir
    <3>3. CASE \E label \in {"climb", "descend"} : FindDir(t, label)
      BY <2>4, <3>3 DEF FindDir, rmtreeVars
    <3>4. CASE Climb(t)
      BY <1>0, <2>1, <3>4 DEF Climb, rmtreeVars, Untouched
    <3> QED
      BY <2>7, <3>1, <3>2, <3>3, <3>4 DEF Makes
  <2>8. CASE Removes(t)
    <3>1. UNCHANGED mkdirVars
      BY <2>8 DEF Removes, ListDir, RemoveDir, RemoveFile, Removed
    <3>2. opened'[u] = opened[u]
      <4>1. ASSUME NEW d \in Dirs, ListDir(t, d) PROVE opened'[u] = opened[u]
        BY <1>0, <4>1 DEF ListDir
      <4>2. ASSUME NEW d \in Dirs, RemoveDir(t, d) PROVE opened'[u] = opened[u]
        BY <1>0, <4>2 DEF RemoveDir
      <4>3. ASSUME NEW k \in Keys, RemoveFile(t, k) PROVE opened'[u] = opened[u]
        BY <4>3 DEF RemoveFile
      <4>4. ASSUME Removed(t) PROVE opened'[u] = opened[u]
        BY <4>4 DEF Removed, rmtreeVars
      <4> QED
        BY <2>8, <4>1, <4>2, <4>3, <4>4 DEF Removes
    <3> QED
      BY <2>1, <3>1, <3>2 DEF Untouched, mkdirVars
  <2> QED
    BY <1>2, <2>3, <2>5, <2>7, <2>8 DEF Step
<1> QED
  BY <1>1, <1>2

(* Nothing is left of a call when a process dies.                          *)
LEMMA CrashCounts ==
  ASSUME DirsAreATree, EInv, Crash, NEW t \in Threads
  PROVE  /\ IsTidy(t)'
         /\ pc[t] = "idle" \/ StepsLeft(t)' < StepsLeft(t)
<1>1. pc'[t] = "idle" /\ scan'[t] = {} /\ opened'[t] = {} /\ listed'[t] = {}
  BY DEF Crash
<1>2. IsTidy(t)' /\ StepsLeft(t)' = 0
  BY <1>1 DEF IsTidy, StepsLeft
<1>3. StepsLeft(t) \in Nat /\ (StepsLeft(t) = 0 => pc[t] = "idle")
  BY StepsAreCounted
<1> QED
  BY <1>2, <1>3

LEMMA BeginsTidy ==
  ASSUME EInv, NEW t \in Threads, Begins(t)
  PROVE  IsTidy(t)' /\ pc[t] = "idle"
<1>1. /\ pc[t] = "idle" /\ UNCHANGED rmtreeVars
      /\ \E label \in {"read", "climb", "check", "enter"} : GoTo(t, label)
  BY DEF Begins, BeginGet, BeginSet, BeginInvalidate, BeginDrop
<1>2. pc'[t] # "remove"
  BY <1>1, GoToMoves DEF EInv
<1> QED
  BY <1>1, <1>2 DEF EInv, IsTidy, rmtreeVars

LEMMA StepCounts ==
  ASSUME DirsAreATree, EInv, [Next]_vars, NEW t \in Threads
  PROVE  /\ IsTidy(t)'
         /\ \/ StepsLeft(t)' < StepsLeft(t)
            \/ Untouched(t) /\ StepsLeft(t)' = StepsLeft(t)
            \/ pc[t] = "idle"
<1>0. FInv /\ IsTidy(t)
  BY DEF EInv
<1>1. ASSUME Untouched(t)
      PROVE  IsTidy(t)' /\ StepsLeft(t)' = StepsLeft(t)
  BY <1>0, <1>1, UntouchedCounts
<1>2. CASE CheckHealth \/ UNCHANGED vars
  <2>1. Untouched(t)
    BY <1>2 DEF CheckHealth, vars, mkdirVars, rmtreeVars, Untouched
  <2> QED
    BY <1>1, <2>1
<1>3. CASE Crash
  BY <1>3, CrashCounts
<1>4. ASSUME NEW u \in Threads, Begins(u) \/ Step(u), u # t
      PROVE  Untouched(t)
  BY <1>0, <1>4, OthersUntouched
<1>5. CASE Begins(t)
  BY <1>5, BeginsTidy
<1>6. CASE Step(t)
  BY <1>6, OwnStepCounts
<1> QED
  BY <1>1, <1>2, <1>3, <1>4, <1>5, <1>6 DEF Next

LEMMA StepEInv == DirsAreATree /\ EInv /\ [Next]_vars => EInv'
<1> SUFFICES ASSUME DirsAreATree, EInv, [Next]_vars PROVE EInv'
  OBVIOUS
<1>1. FInv'
  BY StepFInv DEF EInv
<1>2. \A t \in Threads : IsTidy(t)'
  BY StepCounts
<1> QED
  BY <1>1, <1>2 DEF EInv

(* Of the directories that rmtree has listed, one that holds least.        *)
LEMMA RmtreeGoesOn == DirsAreATree /\ EInv => NeverStuck
<1> SUFFICES ASSUME DirsAreATree, EInv, NEW t \in Threads, scan[t] = {}, listed[t] = {}, opened[t] # {}
             PROVE  \E d \in Dirs : EmptiedBy(t, d)
  BY DEF NeverStuck
<1>1. opened[t] \in SUBSET Dirs
  BY DEF EInv, FInv, Calls, CallTypes
<1>2. \A d \in Dirs : Cardinality(Under[d]) \in Nat
  BY DirsAreCounted, TreeAssumption
<1> DEFINE Sizes == {Cardinality(Under[d]) : d \in opened[t]}
<1>3. PICK x \in Sizes : \A y \in Sizes : ~ (<<y, x>> \in OpToRel(<, Nat))
  <2>1. Sizes \subseteq Nat /\ Sizes # {}
    BY <1>1, <1>2
  <2> QED
    BY <2>1, NatLessThanWellFounded, WFMin
<1>4. PICK d \in opened[t] : x = Cardinality(Under[d])
  OBVIOUS
<1>5. ASSUME NEW e \in opened[t] PROVE ~ (Cardinality(Under[e]) < Cardinality(Under[d]))
  <2>1. Cardinality(Under[e]) \in Sizes
    OBVIOUS
  <2>2. Cardinality(Under[e]) \in Nat /\ Cardinality(Under[d]) \in Nat
    BY <1>1, <1>2
  <2> QED
    BY <1>3, <1>4, <2>1, <2>2 DEF OpToRel
<1>6. ASSUME NEW e \in opened[t] \ {Root} PROVE Up[e] # d
  BY <1>1, <1>5, UnderShrinks
<1> QED
  BY <1>1, <1>4, <1>6 DEF EmptiedBy

(* Every call of FileCacheStore runs out of steps, in a tree that is one:  *)
(* each file-system step of get, set, invalidate or invalidate_prefix is   *)
(* one of those it has left, whatever the others make or remove meanwhile. *)
(* mkdir does not start over when its parent vanishes, and rmtree comes to *)
(* no directory twice; and it has a step to take until it is done.  What   *)
(* EveryCallEnds adds is that a thread that runs goes on running.          *)
THEOREM CallsRunOut ==
  ASSUME DirsAreATree
  PROVE  Spec => [](BudgetHolds /\ NeverStuck) /\ [][EveryStepCounts]_vars
<1>1. Init => EInv
  BY InitFInv DEF EInv, IsTidy, Init
<1>2. EInv /\ [Next]_vars => EInv'
  BY StepEInv
<1>3. EInv => BudgetHolds
  <2>1. ASSUME EInv, NEW t \in Threads
        PROVE  StepsLeft(t) \in Nat /\ (StepsLeft(t) = 0 <=> pc[t] = "idle")
    BY <2>1, StepsAreCounted
  <2> QED
    BY <2>1 DEF BudgetHolds
<1>4. EInv => NeverStuck
  BY RmtreeGoesOn
<1>5. EInv /\ [Next]_vars => [EveryStepCounts]_vars
  <2>1. ASSUME EInv, [Next]_vars, NEW t \in Threads
        PROVE  \/ StepsLeft(t)' < StepsLeft(t)
               \/ Untouched(t) /\ StepsLeft(t)' = StepsLeft(t)
               \/ pc[t] = "idle"
    BY <2>1, StepCounts
  <2> QED
    BY <2>1 DEF EveryStepCounts
<1> QED
  BY <1>1, <1>2, <1>3, <1>4, <1>5, PTL DEF Spec
=============================================================================
