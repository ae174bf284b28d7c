----------------------- MODULE InstanceOwnershipProofs -----------------------
(* Theorems about InstanceOwnership, for any number of processes, directory  *)
(* identities and inodes.                                                    *)
EXTENDS InstanceOwnership, FiniteSetTheorems, TLAPS

USE NoneAssumption

-----------------------------------------------------------------------------
(* The inductive invariant.                                                *)

\* An open lock file is never the lock file of another root, and two roots
\* never share one: inodes are not reused while they are named or open.
InodesAreDistinct ==
    /\ \A r, s \in Procs : link[r] # None /\ link[r] = link[s] => r = s
    /\ \A r, s \in Procs : link[r] # None /\ fd[s] = link[r] => r = s
    /\ \A r, s \in Procs : link[r] # None /\ cfd[s] = link[r] => cur[s][1] = r

\* A process has a claimed lock file open exactly while it works on a claim,
\* and holds its lock once the attempt has succeeded.
ClaimsAreOpen ==
    \A q \in Procs :
        IF pc[q] \in {"trylock", "verify", "reclaim", "rmdir"}
        THEN /\ cfd[q] \in Inodes
             /\ cur[q] \in Procs \X DirIds
             /\ pc[q] # "trylock" => flock[cfd[q]] = q
        ELSE cfd[q] = None /\ cur[q] = NoCand

\* p is not known to any scan in progress.
Unseen(p) ==
    \A q \in Procs : /\ p \notin names[q]
                     /\ \A c \in cands[q] : c[1] # p
                     /\ cur[q][1] # p

\* Before a root that no peer has enumerated is locked, nothing but its owner
\* has touched it.
UnexposedStart ==
    \A p \in Procs \ exposed :
        /\ pc[p] = "new" => dir[p] = None /\ link[p] = None
        /\ pc[p] = "created" => dir[p] # None /\ link[p] = None
        /\ pc[p] = "opened" => dir[p] # None /\ fd[p] \in Inodes
                                /\ link[p] = fd[p] /\ flock[fd[p]] = None
        /\ pc[p] \in Starting => Unseen(p)

OpenedHasFile == \A p \in Procs : pc[p] = "opened" => fd[p] \in Inodes

NewIsUnexposed == \A p \in exposed : pc[p] \notin {"new", "dead"}

\* A scan leaves out the root its process owns.
NeverOwn == \A p \in Procs : /\ p \notin names[p]
                             /\ \A c \in cands[p] : c[1] # p
                             /\ cur[p][1] # p

IInv ==
    /\ TypeOK
    /\ InodesAreDistinct
    /\ ClaimsAreOpen
    /\ OpenedHasFile
    /\ NewIsUnexposed
    /\ UnexposedStart
    /\ UnexposedOwnerIsUndisturbed
    /\ NeverOwn

LEMMA MakeDirType ==
    ASSUME NEW r, MakeDir(r), dir \in [Procs -> DirIds \cup {None}]
    PROVE  dir' \in [Procs -> DirIds \cup {None}]
BY DEF MakeDir

LEMMA OpenLockFileType ==
    ASSUME NEW r, NEW i \in Inodes, OpenLockFile(r, i),
           link \in [Procs -> Inodes \cup {None}]
    PROVE  link' \in [Procs -> Inodes \cup {None}]
BY DEF OpenLockFile

LEMMA TypeInvariant == TypeOK /\ [Next]_vars => TypeOK'
<1> SUFFICES ASSUME TypeOK, [Next]_vars PROVE TypeOK' OBVIOUS
<1> USE DEF TypeOK, fsVars, scanVars, countVars, bounds, Startup, Starting, NoCand
<1>1. CASE UNCHANGED vars BY <1>1 DEF vars
<1>2. ASSUME NEW p \in Procs, Step(p) PROVE TypeOK'
  <2>1. CASE CreateRoot(p) BY <2>1, MakeDirType DEF CreateRoot
  <2>2. CASE OpenOwnLock(p)
    <3>1. link' \in [Procs -> Inodes \cup {None}]
      BY <2>2, OpenLockFileType DEF OpenOwnLock
    <3>2. fd' \in [Procs -> Inodes \cup {None}] BY <2>2 DEF OpenOwnLock
    <3> QED BY <2>2, <3>1, <3>2 DEF OpenOwnLock
  <2>3. CASE TryOwnLock(p) BY <2>3 DEF TryOwnLock
  <2>4. CASE StartFails(p) BY <2>4 DEF StartFails, End
  <2>5. CASE ReadNames(p)
    <3>1. names' \in [Procs -> SUBSET Procs] /\ exposed' \in SUBSET Procs
      BY <2>5 DEF ReadNames
    <3>2. tally' \in [Procs -> Nat] BY <2>5 DEF ReadNames
    <3>4. since' \in [Procs -> SUBSET Procs]
      <4>1. since' = since \/ since' = [since EXCEPT ![p] = {q \in Procs : Owner(q)}]
        BY <2>5 DEF ReadNames
      <4>2. {q \in Procs : Owner(q)} \in SUBSET Procs OBVIOUS
      <4> QED BY <4>1, <4>2
    <3>3. pc' \in [Procs -> Startup \cup {"running", "dead"}] BY <2>5 DEF ReadNames
    <3> QED BY <2>5, <3>1, <3>2, <3>3, <3>4 DEF ReadNames
  <2>6. CASE ScanFails(p) BY <2>6, CountAssumption DEF ScanFails, AfterScan
  <2>7. CASE Pin(p) BY <2>7 DEF Pin
  <2>8. CASE ClaimRefused(p) BY <2>8 DEF ClaimRefused, CountAsLive
  <2>9. CASE ClaimOpen(p)
    <3>1. PICK c \in cands[p], i \in Inodes :
            /\ OpenLockFile(c[1], i)
            /\ cfd' = [cfd EXCEPT ![p] = i]
            /\ cur' = [cur EXCEPT ![p] = c]
            /\ cands' = [cands EXCEPT ![p] = @ \ {c}]
      BY <2>9 DEF ClaimOpen
    <3>2. link' \in [Procs -> Inodes \cup {None}] BY <3>1, OpenLockFileType
    <3>3. c \in Procs \X (DirIds \cup {None}) OBVIOUS
    <3>4. cur' \in [Procs -> (Procs \cup {None}) \X (DirIds \cup {None})]
      BY <3>1, <3>3
    <3>5. cands' \in [Procs -> SUBSET (Procs \X (DirIds \cup {None}))]
      BY <3>1
    <3> QED BY <2>9, <3>1, <3>2, <3>4, <3>5 DEF ClaimOpen
  <2>10. CASE ClaimHeld(p) BY <2>10 DEF ClaimHeld, Close, CountAsLive
  <2>11. CASE ClaimLock(p) BY <2>11 DEF ClaimLock
  <2>12. CASE ClaimSwapped(p)
    <3>1. tally' \in [Procs -> Nat] BY <2>12 DEF ClaimSwapped, CountAsLive
    <3>2. flock' \in [Inodes -> Procs \cup {None}] BY <2>12 DEF ClaimSwapped, Unlock
    <3> QED BY <2>12, <3>1, <3>2 DEF ClaimSwapped, Close
  <2>13. CASE ClaimDead(p) BY <2>13 DEF ClaimDead, Close, Unlock
  <2>14. CASE ClaimForReclaim(p) BY <2>14 DEF ClaimForReclaim
  <2>15. CASE RemoveMember(p)
    <3>1. left' \in [Procs -> SUBSET Members] BY <2>15 DEF RemoveMember
    <3>2. cache' \in [Procs -> SUBSET Members]
      <4>1. PICK m, r : cache' = [cache EXCEPT ![r] = cache[r] \ {m}]
        BY <2>15 DEF RemoveMember
      <4>2. cache' = [s \in Procs |-> IF s = r THEN cache[s] \ {m} ELSE cache[s]] BY <4>1
      <4>3. \A s \in Procs : cache[s] \ {m} \in SUBSET Members OBVIOUS
      <4> QED BY ONLY <4>2, <4>3, cache \in [Procs -> SUBSET Members]
    <3> QED BY <2>15, <3>1, <3>2 DEF RemoveMember
  <2>16. CASE ReclaimSwapped(p) BY <2>16 DEF ReclaimSwapped, Close, Unlock
  <2>17. CASE UnlinkLock(p) BY <2>17 DEF UnlinkLock
  <2>18. CASE KeepRoot(p) BY <2>18 DEF KeepRoot, Close, Unlock
  <2>19. CASE RemoveRoot(p) BY <2>19 DEF RemoveRoot, Close, Unlock
  <2>20. CASE ScanDone(p)
    <3>1. proven' \in [Procs -> Nat] BY <2>20 DEF ScanDone
    <3>4. taken' \in [Procs -> Nat] BY <2>20 DEF ScanDone
    <3>2. basis' \in [Procs -> SUBSET Procs] BY <2>20 DEF ScanDone
    <3>3. pc' \in [Procs -> Startup \cup {"running", "dead"}]
      BY <2>20 DEF ScanDone, AfterScan
    <3> QED BY <2>20, <3>1, <3>2, <3>3, <3>4 DEF ScanDone
  <2>21. CASE EnsureRoot(p)
    <3>1. dir' \in [Procs -> DirIds \cup {None}] BY <2>21, MakeDirType DEF EnsureRoot
    <3>2. pc' \in [Procs -> Startup \cup {"running", "dead"}]
      BY <2>21 DEF EnsureRoot
    <3> QED BY <2>21, <3>1, <3>2 DEF EnsureRoot
  <2>22. CASE OpenIndex(p) BY <2>22 DEF OpenIndex
  <2>23. CASE Record(p) BY <2>23 DEF Record
  <2>24. CASE TakeCensus(p) BY <2>24 DEF TakeCensus
  <2>25. CASE Stop(p) BY <2>25 DEF Stop, End
  <2> QED
    BY <1>2, <2>1, <2>2, <2>3, <2>4, <2>5, <2>6, <2>7, <2>8, <2>9, <2>10, <2>11,
       <2>12, <2>13, <2>14, <2>15, <2>16, <2>17, <2>18, <2>19, <2>20, <2>21,
       <2>22, <2>23, <2>24, <2>25 DEF Step
<1>3. ASSUME NEW p \in Procs, Replace(p) PROVE TypeOK'
  BY <1>3, MakeDirType DEF Replace
<1> QED BY <1>1, <1>2, <1>3 DEF Next

LEMMA StepPreservesIInv == ASSUME IInv, NEW p \in Procs, Step(p), TypeOK' PROVE IInv'
<1> USE DEF IInv, TypeOK, fsVars, scanVars, countVars, bounds, Starting, NoCand
<1>1. CASE CreateRoot(p)
  <2> USE <1>1 DEF CreateRoot, MakeDir
  <2>1. (InodesAreDistinct /\ ClaimsAreOpen /\ OpenedHasFile /\ NewIsUnexposed
      /\ NeverOwn)'
    BY DEF InodesAreDistinct, ClaimsAreOpen, OpenedHasFile, NewIsUnexposed,
       NeverOwn
  <2>2. UnexposedStart' BY DEF UnexposedStart, Unseen
  <2>3. UnexposedOwnerIsUndisturbed'
    BY DEF UnexposedOwnerIsUndisturbed, Acquired, Owner
  <2> QED BY <2>1, <2>2, <2>3
<1>2. CASE OpenOwnLock(p)
  <2> USE <1>2 DEF OpenOwnLock, OpenLockFile, Allocate, Free
  <2>1. InodesAreDistinct'
    <3>1. PICK i \in Inodes : OpenLockFile(p, i) /\ fd' = [fd EXCEPT ![p] = i]
      BY <1>2 DEF OpenOwnLock
    <3>2. CASE link[p] = None
      <4>1. link' = [link EXCEPT ![p] = i] /\ cfd' = cfd /\ cur' = cur
        BY <1>2, <3>1, <3>2 DEF OpenOwnLock, OpenLockFile
      <4>2. \A r \in Procs : link[r] # i /\ fd[r] # i /\ cfd[r] # i
        BY <3>1, <3>2 DEF OpenLockFile, Allocate, Free
      <4> QED BY <3>1, <4>1, <4>2 DEF InodesAreDistinct
    <3>3. CASE link[p] # None
      <4>1. i = link[p] /\ link' = link /\ cfd' = cfd /\ cur' = cur
        BY <1>2, <3>1, <3>3 DEF OpenOwnLock, OpenLockFile
      <4> QED BY <3>1, <4>1 DEF InodesAreDistinct
    <3> QED BY <3>2, <3>3
  <2>2. (ClaimsAreOpen /\ OpenedHasFile /\ NewIsUnexposed /\ NeverOwn)'
    BY DEF ClaimsAreOpen, OpenedHasFile, NewIsUnexposed, NeverOwn
  <2>3. UnexposedStart' BY DEF UnexposedStart, Unseen
  <2>4. UnexposedOwnerIsUndisturbed'
    BY DEF UnexposedOwnerIsUndisturbed, Acquired, Owner
  <2> QED BY <2>1, <2>2, <2>3, <2>4
<1>3. CASE TryOwnLock(p)
  <2> USE <1>3 DEF TryOwnLock
  <2>1. (InodesAreDistinct /\ ClaimsAreOpen /\ OpenedHasFile /\ NewIsUnexposed
      /\ NeverOwn)'
    BY DEF InodesAreDistinct, ClaimsAreOpen, OpenedHasFile, NewIsUnexposed,
       NeverOwn
  <2>2. UnexposedStart'
    BY DEF UnexposedStart, Unseen, NewIsUnexposed, InodesAreDistinct
  <2>3. UnexposedOwnerIsUndisturbed'
    BY DEF UnexposedOwnerIsUndisturbed, Acquired, Owner, NewIsUnexposed,
       UnexposedStart, Unseen
  <2> QED BY <2>1, <2>2, <2>3
<1>4. CASE StartFails(p)
  <2> USE <1>4 DEF StartFails, End
  <2>1. (InodesAreDistinct /\ ClaimsAreOpen /\ OpenedHasFile /\ NewIsUnexposed
      /\ NeverOwn)'
    BY DEF InodesAreDistinct, ClaimsAreOpen, OpenedHasFile, NewIsUnexposed,
       NeverOwn
  <2>2. UnexposedStart' BY DEF UnexposedStart, Unseen
  <2>3. UnexposedOwnerIsUndisturbed'
    BY DEF UnexposedOwnerIsUndisturbed, Acquired, Owner
  <2> QED BY <2>1, <2>2, <2>3
<1>5. CASE ReadNames(p)
  <2> USE <1>5 DEF ReadNames
  <2>1. (InodesAreDistinct /\ ClaimsAreOpen /\ OpenedHasFile /\ NewIsUnexposed
      /\ NeverOwn)'
    BY DEF InodesAreDistinct, ClaimsAreOpen, OpenedHasFile, NewIsUnexposed,
       UnexposedStart, NeverOwn
  <2>2. UnexposedStart' BY DEF UnexposedStart, Unseen
  <2>3. UnexposedOwnerIsUndisturbed'
    BY DEF UnexposedOwnerIsUndisturbed, Acquired, Owner
  <2> QED BY <2>1, <2>2, <2>3
<1>6. CASE ScanFails(p)
  <2> USE <1>6 DEF ScanFails, AfterScan
  <2>1. (InodesAreDistinct /\ ClaimsAreOpen /\ OpenedHasFile /\ NewIsUnexposed
      /\ NeverOwn)'
    BY DEF InodesAreDistinct, ClaimsAreOpen, OpenedHasFile, NewIsUnexposed,
       NeverOwn
  <2>2. UnexposedStart' BY DEF UnexposedStart, Unseen
  <2>3. UnexposedOwnerIsUndisturbed'
    BY DEF UnexposedOwnerIsUndisturbed, Acquired, Owner
  <2> QED BY <2>1, <2>2, <2>3
<1>7. CASE Pin(p)
  <2> USE <1>7 DEF Pin
  <2>1. (InodesAreDistinct /\ ClaimsAreOpen /\ OpenedHasFile /\ NewIsUnexposed
      /\ NeverOwn)'
    BY DEF InodesAreDistinct, ClaimsAreOpen, OpenedHasFile, NewIsUnexposed,
       NeverOwn
  <2>2. UnexposedStart' BY DEF UnexposedStart, Unseen
  <2>3. UnexposedOwnerIsUndisturbed'
    BY DEF UnexposedOwnerIsUndisturbed, Acquired, Owner
  <2> QED BY <2>1, <2>2, <2>3
<1>8. CASE ClaimRefused(p)
  <2> USE <1>8 DEF ClaimRefused
  <2>1. (InodesAreDistinct /\ ClaimsAreOpen /\ OpenedHasFile /\ NewIsUnexposed
      /\ NeverOwn)'
    BY DEF InodesAreDistinct, ClaimsAreOpen, OpenedHasFile, NewIsUnexposed,
       NeverOwn
  <2>2. UnexposedStart' BY DEF UnexposedStart, Unseen
  <2>3. UnexposedOwnerIsUndisturbed'
    BY DEF UnexposedOwnerIsUndisturbed, Acquired, Owner
  <2> QED BY <2>1, <2>2, <2>3
<1>9. CASE ClaimOpen(p)
  <2> USE <1>9 DEF ClaimOpen, OpenLockFile, Allocate, Free
  <2>1. InodesAreDistinct'
    <3>1. PICK c \in cands[p], i \in Inodes :
            /\ OpenLockFile(c[1], i)
            /\ cfd' = [cfd EXCEPT ![p] = i]
            /\ cur' = [cur EXCEPT ![p] = c]
      BY <1>9 DEF ClaimOpen
    <3>2. c[1] \in Procs /\ fd' = fd BY <1>9 DEF ClaimOpen
    <3>3. CASE link[c[1]] = None
      <4>1. link' = [link EXCEPT ![c[1]] = i] BY <3>1, <3>3 DEF OpenLockFile
      <4>2. \A r \in Procs : link[r] # i /\ fd[r] # i /\ cfd[r] # i
        BY <3>1, <3>3 DEF OpenLockFile, Allocate, Free
      <4> QED BY <3>1, <3>2, <4>1, <4>2 DEF InodesAreDistinct
    <3>4. CASE link[c[1]] # None
      <4>1. i = link[c[1]] /\ link' = link BY <3>1, <3>4 DEF OpenLockFile
      <4> QED BY <3>1, <3>2, <4>1 DEF InodesAreDistinct
    <3> QED BY <3>3, <3>4
  <2>2. (ClaimsAreOpen /\ OpenedHasFile /\ NewIsUnexposed /\ NeverOwn)'
    BY DEF ClaimsAreOpen, OpenedHasFile, NewIsUnexposed, NeverOwn
  <2>3. UnexposedStart' BY DEF UnexposedStart, Unseen
  <2>4. UnexposedOwnerIsUndisturbed'
    BY DEF UnexposedOwnerIsUndisturbed, Acquired, Owner
  <2> QED BY <2>1, <2>2, <2>3, <2>4
<1>10. CASE ClaimHeld(p)
  <2> USE <1>10 DEF ClaimHeld, Close
  <2>1. (InodesAreDistinct /\ ClaimsAreOpen /\ OpenedHasFile /\ NewIsUnexposed
      /\ NeverOwn)'
    BY DEF InodesAreDistinct, ClaimsAreOpen, OpenedHasFile, NewIsUnexposed,
       NeverOwn
  <2>2. UnexposedStart' BY DEF UnexposedStart, Unseen
  <2>3. UnexposedOwnerIsUndisturbed'
    BY DEF UnexposedOwnerIsUndisturbed, Acquired, Owner
  <2> QED BY <2>1, <2>2, <2>3
<1>11. CASE ClaimLock(p)
  <2> USE <1>11 DEF ClaimLock
  <2>1. (InodesAreDistinct /\ ClaimsAreOpen /\ OpenedHasFile /\ NewIsUnexposed
      /\ NeverOwn)'
    BY DEF InodesAreDistinct, ClaimsAreOpen, OpenedHasFile, NewIsUnexposed,
       NeverOwn
  <2>2. UnexposedStart'
    BY DEF UnexposedStart, Unseen, NewIsUnexposed, InodesAreDistinct
  <2>3. UnexposedOwnerIsUndisturbed'
    BY DEF UnexposedOwnerIsUndisturbed, Acquired, Owner
  <2> QED BY <2>1, <2>2, <2>3
<1>12. CASE ClaimSwapped(p)
  <2> USE <1>12 DEF ClaimSwapped, Close, Unlock
  <2>1. (InodesAreDistinct /\ ClaimsAreOpen /\ OpenedHasFile /\ NewIsUnexposed
      /\ NeverOwn)'
    BY DEF InodesAreDistinct, ClaimsAreOpen, OpenedHasFile, NewIsUnexposed,
       NeverOwn
  <2>2. UnexposedStart' BY DEF UnexposedStart, Unseen
  <2>3. UnexposedOwnerIsUndisturbed'
    BY DEF UnexposedOwnerIsUndisturbed, Acquired, Owner, NewIsUnexposed,
       UnexposedStart, Unseen, InodesAreDistinct, ClaimsAreOpen, NeverOwn
  <2> QED BY <2>1, <2>2, <2>3
<1>13. CASE ClaimDead(p)
  <2> USE <1>13 DEF ClaimDead, Close, Unlock
  <2>1. (InodesAreDistinct /\ ClaimsAreOpen /\ OpenedHasFile /\ NewIsUnexposed
      /\ NeverOwn)'
    BY DEF InodesAreDistinct, ClaimsAreOpen, OpenedHasFile, NewIsUnexposed,
       NeverOwn
  <2>2. UnexposedStart' BY DEF UnexposedStart, Unseen
  <2>3. UnexposedOwnerIsUndisturbed'
    BY DEF UnexposedOwnerIsUndisturbed, Acquired, Owner, NewIsUnexposed,
       UnexposedStart, Unseen, InodesAreDistinct, ClaimsAreOpen, NeverOwn
  <2> QED BY <2>1, <2>2, <2>3
<1>14. CASE ClaimForReclaim(p)
  <2> USE <1>14 DEF ClaimForReclaim
  <2>1. (InodesAreDistinct /\ ClaimsAreOpen /\ OpenedHasFile /\ NewIsUnexposed
      /\ NeverOwn)'
    BY DEF InodesAreDistinct, ClaimsAreOpen, OpenedHasFile, NewIsUnexposed,
       NeverOwn
  <2>2. UnexposedStart' BY DEF UnexposedStart, Unseen
  <2>3. UnexposedOwnerIsUndisturbed'
    BY DEF UnexposedOwnerIsUndisturbed, Acquired, Owner
  <2> QED BY <2>1, <2>2, <2>3
<1>15. CASE RemoveMember(p)
  <2> USE <1>15 DEF RemoveMember
  <2>1. (InodesAreDistinct /\ ClaimsAreOpen /\ OpenedHasFile /\ NewIsUnexposed
      /\ NeverOwn)'
    BY DEF InodesAreDistinct, ClaimsAreOpen, OpenedHasFile, NewIsUnexposed,
       NeverOwn
  <2>2. UnexposedStart' BY DEF UnexposedStart, Unseen
  <2>3. UnexposedOwnerIsUndisturbed'
    BY DEF UnexposedOwnerIsUndisturbed, Acquired, Owner
  <2> QED BY <2>1, <2>2, <2>3
<1>16. CASE ReclaimSwapped(p)
  <2> USE <1>16 DEF ReclaimSwapped, Close, Unlock
  <2>1. (InodesAreDistinct /\ ClaimsAreOpen /\ OpenedHasFile /\ NewIsUnexposed
      /\ NeverOwn)'
    BY DEF InodesAreDistinct, ClaimsAreOpen, OpenedHasFile, NewIsUnexposed,
       NeverOwn
  <2>2. UnexposedStart' BY DEF UnexposedStart, Unseen
  <2>3. UnexposedOwnerIsUndisturbed'
    BY DEF UnexposedOwnerIsUndisturbed, Acquired, Owner, NewIsUnexposed,
       UnexposedStart, Unseen, InodesAreDistinct, ClaimsAreOpen, NeverOwn
  <2> QED BY <2>1, <2>2, <2>3
<1>17. CASE UnlinkLock(p)
  <2> USE <1>17 DEF UnlinkLock
  <2>1. (InodesAreDistinct /\ ClaimsAreOpen /\ OpenedHasFile /\ NewIsUnexposed
      /\ NeverOwn)'
    BY DEF InodesAreDistinct, ClaimsAreOpen, OpenedHasFile, NewIsUnexposed,
       NeverOwn
  <2>2. UnexposedStart' BY DEF UnexposedStart, Unseen
  <2>3. UnexposedOwnerIsUndisturbed'
    BY DEF UnexposedOwnerIsUndisturbed, Acquired, Owner, NewIsUnexposed,
       UnexposedStart, Unseen, InodesAreDistinct, ClaimsAreOpen, NeverOwn
  <2> QED BY <2>1, <2>2, <2>3
<1>18. CASE KeepRoot(p)
  <2> USE <1>18 DEF KeepRoot, Close, Unlock
  <2>1. (InodesAreDistinct /\ ClaimsAreOpen /\ OpenedHasFile /\ NewIsUnexposed
      /\ NeverOwn)'
    BY DEF InodesAreDistinct, ClaimsAreOpen, OpenedHasFile, NewIsUnexposed,
       NeverOwn
  <2>2. UnexposedStart' BY DEF UnexposedStart, Unseen
  <2>3. UnexposedOwnerIsUndisturbed'
    BY DEF UnexposedOwnerIsUndisturbed, Acquired, Owner, NewIsUnexposed,
       UnexposedStart, Unseen, InodesAreDistinct, ClaimsAreOpen, NeverOwn
  <2> QED BY <2>1, <2>2, <2>3
<1>19. CASE RemoveRoot(p)
  <2> USE <1>19 DEF RemoveRoot, Close, Unlock
  <2>1. (InodesAreDistinct /\ ClaimsAreOpen /\ OpenedHasFile /\ NewIsUnexposed
      /\ NeverOwn)'
    BY DEF InodesAreDistinct, ClaimsAreOpen, OpenedHasFile, NewIsUnexposed,
       NeverOwn
  <2>2. UnexposedStart' BY DEF UnexposedStart, Unseen
  <2>3. UnexposedOwnerIsUndisturbed'
    BY DEF UnexposedOwnerIsUndisturbed, Acquired, Owner, NewIsUnexposed,
       UnexposedStart, Unseen, InodesAreDistinct, ClaimsAreOpen, NeverOwn
  <2> QED BY <2>1, <2>2, <2>3
<1>20. CASE ScanDone(p)
  <2> USE <1>20 DEF ScanDone, AfterScan
  <2>1. (InodesAreDistinct /\ ClaimsAreOpen /\ OpenedHasFile /\ NewIsUnexposed
      /\ NeverOwn)'
    BY DEF InodesAreDistinct, ClaimsAreOpen, OpenedHasFile, NewIsUnexposed,
       NeverOwn
  <2>2. UnexposedStart' BY DEF UnexposedStart, Unseen
  <2>3. UnexposedOwnerIsUndisturbed'
    BY DEF UnexposedOwnerIsUndisturbed, Acquired, Owner
  <2> QED BY <2>1, <2>2, <2>3
<1>21. CASE EnsureRoot(p)
  <2> USE <1>21 DEF EnsureRoot, MakeDir
  <2>1. (InodesAreDistinct /\ ClaimsAreOpen /\ OpenedHasFile /\ NewIsUnexposed
      /\ NeverOwn)'
    BY DEF InodesAreDistinct, ClaimsAreOpen, OpenedHasFile, NewIsUnexposed,
       NeverOwn
  <2>2. UnexposedStart' BY DEF UnexposedStart, Unseen
  <2>3. UnexposedOwnerIsUndisturbed'
    BY DEF UnexposedOwnerIsUndisturbed, Acquired, Owner
  <2> QED BY <2>1, <2>2, <2>3
<1>22. CASE OpenIndex(p)
  <2> USE <1>22 DEF OpenIndex
  <2>1. (InodesAreDistinct /\ ClaimsAreOpen /\ OpenedHasFile /\ NewIsUnexposed
      /\ NeverOwn)'
    BY DEF InodesAreDistinct, ClaimsAreOpen, OpenedHasFile, NewIsUnexposed,
       NeverOwn
  <2>2. UnexposedStart' BY DEF UnexposedStart, Unseen
  <2>3. UnexposedOwnerIsUndisturbed'
    BY DEF UnexposedOwnerIsUndisturbed, Acquired, Owner
  <2> QED BY <2>1, <2>2, <2>3
<1>23. CASE Record(p)
  <2> USE <1>23 DEF Record
  <2>1. (InodesAreDistinct /\ ClaimsAreOpen /\ OpenedHasFile /\ NewIsUnexposed
      /\ NeverOwn)'
    BY DEF InodesAreDistinct, ClaimsAreOpen, OpenedHasFile, NewIsUnexposed,
       NeverOwn
  <2>2. UnexposedStart' BY DEF UnexposedStart, Unseen
  <2>3. UnexposedOwnerIsUndisturbed'
    BY DEF UnexposedOwnerIsUndisturbed, Acquired, Owner
  <2> QED BY <2>1, <2>2, <2>3
<1>24. CASE TakeCensus(p)
  <2> USE <1>24 DEF TakeCensus
  <2>1. (InodesAreDistinct /\ ClaimsAreOpen /\ OpenedHasFile /\ NewIsUnexposed
      /\ NeverOwn)'
    BY DEF InodesAreDistinct, ClaimsAreOpen, OpenedHasFile, NewIsUnexposed,
       NeverOwn
  <2>2. UnexposedStart' BY DEF UnexposedStart, Unseen
  <2>3. UnexposedOwnerIsUndisturbed'
    BY DEF UnexposedOwnerIsUndisturbed, Acquired, Owner
  <2> QED BY <2>1, <2>2, <2>3
<1>25. CASE Stop(p)
  <2> USE <1>25 DEF Stop, End
  <2>1. (InodesAreDistinct /\ ClaimsAreOpen /\ OpenedHasFile /\ NewIsUnexposed
      /\ NeverOwn)'
    BY DEF InodesAreDistinct, ClaimsAreOpen, OpenedHasFile, NewIsUnexposed,
       NeverOwn
  <2>2. UnexposedStart' BY DEF UnexposedStart, Unseen
  <2>3. UnexposedOwnerIsUndisturbed'
    BY DEF UnexposedOwnerIsUndisturbed, Acquired, Owner
  <2> QED BY <2>1, <2>2, <2>3
<1> QED BY <1>1, <1>2, <1>3, <1>4, <1>5, <1>6, <1>7, <1>8, <1>9, <1>10, <1>11,
       <1>12, <1>13, <1>14, <1>15, <1>16, <1>17, <1>18, <1>19, <1>20, <1>21,
       <1>22, <1>23, <1>24, <1>25 DEF Step

LEMMA ReplacePreservesIInv ==
    ASSUME IInv, NEW p \in Procs, Replace(p), TypeOK' PROVE IInv'
<1> USE DEF IInv, TypeOK, fsVars, scanVars, countVars, bounds, Starting, NoCand,
            Replace, MakeDir
<1>1. (InodesAreDistinct /\ ClaimsAreOpen /\ OpenedHasFile /\ NewIsUnexposed
      /\ NeverOwn)'
  BY DEF InodesAreDistinct, ClaimsAreOpen, OpenedHasFile, NewIsUnexposed, NeverOwn
<1>2. UnexposedStart' BY DEF UnexposedStart, Unseen
<1>3. UnexposedOwnerIsUndisturbed'
  BY DEF UnexposedOwnerIsUndisturbed, Acquired, Owner
<1> QED BY <1>1, <1>2, <1>3

(***************************************************************************)
(* TypeOK holds in every reachable state.                                  *)
(***************************************************************************)
THEOREM TypeCorrect == Spec => []TypeOK
<1>1. Init => TypeOK
  BY CountAssumption DEF Init, TypeOK, Startup, Starting, NoCand
<1> QED BY <1>1, TypeInvariant, PTL DEF Spec

LEMMA InductiveInvariant == Spec => []IInv
<1>1. Init => IInv
  <2> SUFFICES ASSUME Init PROVE IInv OBVIOUS
  <2>1. TypeOK
    BY CountAssumption DEF Init, TypeOK, Startup, Starting, NoCand
  <2>2. InodesAreDistinct BY <2>1 DEF Init, InodesAreDistinct, TypeOK
  <2>3. ClaimsAreOpen /\ OpenedHasFile /\ NewIsUnexposed /\ NeverOwn
    BY <2>1 DEF Init, ClaimsAreOpen, OpenedHasFile, NewIsUnexposed, NeverOwn, NoCand, TypeOK
  <2>4. UnexposedStart
    BY <2>1, AbandonedAssumption DEF Init, UnexposedStart, Unseen, Starting, NoCand, TypeOK
  <2>5. UnexposedOwnerIsUndisturbed
    BY <2>1 DEF Init, UnexposedOwnerIsUndisturbed, Acquired, Starting
  <2> QED BY <2>1, <2>2, <2>3, <2>4, <2>5 DEF IInv
<1>2. IInv /\ [Next]_vars => IInv'
  <2> SUFFICES ASSUME IInv, [Next]_vars PROVE IInv' OBVIOUS
  <2>1. TypeOK' BY TypeInvariant DEF IInv
  <2>2. CASE UNCHANGED vars
    BY <2>1, <2>2 DEF vars, fsVars, scanVars, countVars, bounds, IInv, InodesAreDistinct,
       ClaimsAreOpen, OpenedHasFile, NewIsUnexposed, UnexposedStart, Unseen,
       UnexposedOwnerIsUndisturbed, Acquired, Owner, NeverOwn
  <2>3. CASE Next
    BY <2>1, <2>3, StepPreservesIInv, ReplacePreservesIInv DEF Next
  <2> QED BY <2>2, <2>3
<1> QED BY <1>1, <1>2, PTL DEF Spec

(***************************************************************************)
(* Whatever the number of instances and the order of their steps, a root   *)
(* that nobody enumerated before it was locked stays with its owner.       *)
(***************************************************************************)
THEOREM OwnerIsUndisturbed == Spec => []UnexposedOwnerIsUndisturbed
<1>1. IInv => UnexposedOwnerIsUndisturbed BY DEF IInv
<1> QED BY <1>1, InductiveInvariant, PTL

(***************************************************************************)
(* ... and keeps its evidence: reclaim_instance_root removes nothing from  *)
(* it while its owner lives.                                               *)
(***************************************************************************)
THEOREM EvidenceSurvives == Spec => UnexposedEvidenceSurvives
<1> DEFINE A == \A p \in Procs : Acquired(p) /\ p \notin exposed
                                  => cache[p] \subseteq cache'[p]
<1>1. IInv /\ [Next]_vars => [A]_vars
  <2> SUFFICES ASSUME IInv, Next, NEW o \in Procs, Acquired(o), o \notin exposed
               PROVE  cache[o] \subseteq cache'[o]
    OBVIOUS
  <2>1. PICK p \in Procs : Step(p) \/ Replace(p) BY DEF Next
  <2>2. CASE RemoveMember(p)
    <3>1. cur[p][1] # o
      BY <2>2 DEF IInv, UnexposedOwnerIsUndisturbed, NeverOwn, RemoveMember
    <3> QED BY <2>2, <3>1 DEF RemoveMember, IInv, TypeOK
  <2>3. CASE OpenIndex(p) BY <2>3 DEF OpenIndex, IInv, TypeOK
  <2>4. CASE Record(p) BY <2>4 DEF Record, IInv, TypeOK
  <2>5. CASE Replace(p) BY <2>5 DEF Replace, Acquired, IInv, TypeOK
  <2>6. CASE cache' = cache BY <2>6
  <2> QED
    BY <2>1, <2>2, <2>3, <2>4, <2>5, <2>6 DEF Step, CreateRoot, OpenOwnLock, TryOwnLock,
       StartFails, End, ReadNames, ScanFails, Pin, ClaimRefused, ClaimOpen, ClaimHeld,
       ClaimLock, ClaimSwapped, ClaimDead, ClaimForReclaim, ReclaimSwapped, UnlinkLock,
       KeepRoot, RemoveRoot, ScanDone, EnsureRoot, TakeCensus, Stop, fsVars
<1> QED BY <1>1, InductiveInvariant, PTL DEF Spec, UnexposedEvidenceSurvives

-----------------------------------------------------------------------------
(* The second invariant: what a census has counted.                        *)

\* The live instances nobody enumerated before they owned their root.
Quiet == {q \in Procs : Acquired(q) /\ q \notin exposed}

\* A census is looking at roots.
Counting(p) ==
    mode[p] = "census" /\ pc[p] \in {"pin", "claim", "trylock", "verify", "reclaim", "rmdir"}

\* The roots it has still to look at, and the peers it has dealt with.
Waiting(p) == names[p] \cup {c[1] : c \in cands[p]} \cup {cur[p][1]}
Dealt(p) == ((since[p] \cap Quiet) \ {p}) \ Waiting(p)

\* Each peer that was running when the census began, and is still, has been
\* counted once the census has dealt with it ...
TalliesCover ==
    \A p \in Procs : Counting(p) => tally[p] >= 1 + Cardinality(Dealt(p))

\* ... so the last proven count covers those of them that are still running.
ProvenCovers ==
    \A p \in Procs : basis[p] # {} =>
        proven[p] >= 1 + Cardinality((basis[p] \cap Quiet) \ {p})

\* Every name is pinned before a root is claimed.
PinnedFirst == \A p \in Procs :
    pc[p] \in {"claim", "trylock", "verify", "reclaim", "rmdir"} => names[p] = {}

\* A peer that was counted was running; a process that has proven a count will
\* not assume one.
PeersHaveStarted == \A p \in Procs : \A q \in since[p] \cup basis[p] : pc[q] \notin Starting
ProvenIsTaken == \A p \in Procs : basis[p] # {} => taken[p] > 0

CensusInv == TalliesCover /\ ProvenCovers /\ PinnedFirst /\ PeersHaveStarted /\ ProvenIsTaken

LEMMA Fewer ==
    ASSUME NEW T \in SUBSET Procs, NEW S \in SUBSET T
    PROVE  Cardinality(S) \in Nat /\ Cardinality(T) \in Nat /\ Cardinality(S) <= Cardinality(T)
<1>1. IsFiniteSet(T) BY ProcsAssumption, FS_Subset
<1>2. IsFiniteSet(S) BY <1>1, FS_Subset
<1> QED BY <1>1, <1>2, FS_Subset, FS_CardinalityType

LEMMA OneMore ==
    ASSUME NEW T \in SUBSET Procs, NEW x, NEW S \in SUBSET Procs, S \subseteq T \cup {x}
    PROVE  /\ Cardinality(S) \in Nat /\ Cardinality(T) \in Nat
           /\ Cardinality(S) <= Cardinality(T) + 1
<1>1. IsFiniteSet(T) BY ProcsAssumption, FS_Subset
<1>2. IsFiniteSet(T \cup {x}) /\ Cardinality(T \cup {x}) <= Cardinality(T) + 1
  <2>1. Cardinality(T) \in Nat BY <1>1, FS_CardinalityType
  <2>2. IsFiniteSet(T \cup {x}) BY <1>1, FS_AddElement
  <2>3. Cardinality(T \cup {x}) = IF x \in T THEN Cardinality(T) ELSE Cardinality(T) + 1
    BY <1>1, FS_AddElement
  <2> QED BY <2>1, <2>2, <2>3
<1>3. IsFiniteSet(S) /\ Cardinality(S) <= Cardinality(T \cup {x}) BY <1>2, FS_Subset
<1> QED BY <1>1, <1>2, <1>3, FS_CardinalityType

\* A step of p leaves the scans and counts of the others alone.
LEMMA OthersStand ==
    ASSUME TypeOK, NEW p \in Procs, Step(p), NEW o \in Procs, o # p
    PROVE  /\ pc'[o] = pc[o] /\ mode'[o] = mode[o] /\ tally'[o] = tally[o]
           /\ names'[o] = names[o] /\ cands'[o] = cands[o] /\ cur'[o] = cur[o]
           /\ proven'[o] = proven[o] /\ taken'[o] = taken[o]
           /\ since'[o] = since[o] /\ basis'[o] = basis[o]
<1> USE DEF TypeOK, scanVars, countVars
<1>1. CASE CreateRoot(p) BY <1>1 DEF CreateRoot
<1>2. CASE OpenOwnLock(p) BY <1>2 DEF OpenOwnLock
<1>3. CASE TryOwnLock(p) BY <1>3 DEF TryOwnLock
<1>4. CASE StartFails(p) BY <1>4 DEF StartFails, End
<1>5. CASE ReadNames(p) BY <1>5 DEF ReadNames
<1>6. CASE ScanFails(p) BY <1>6 DEF ScanFails
<1>7. CASE Pin(p) BY <1>7 DEF Pin
<1>8. CASE ClaimRefused(p) BY <1>8 DEF ClaimRefused, CountAsLive
<1>9. CASE ClaimOpen(p) BY <1>9 DEF ClaimOpen
<1>10. CASE ClaimHeld(p) BY <1>10 DEF ClaimHeld, Close, CountAsLive
<1>11. CASE ClaimLock(p) BY <1>11 DEF ClaimLock
<1>12. CASE ClaimSwapped(p) BY <1>12 DEF ClaimSwapped, Close, CountAsLive
<1>13. CASE ClaimDead(p) BY <1>13 DEF ClaimDead, Close
<1>14. CASE ClaimForReclaim(p) BY <1>14 DEF ClaimForReclaim
<1>15. CASE RemoveMember(p) BY <1>15 DEF RemoveMember
<1>16. CASE ReclaimSwapped(p) BY <1>16 DEF ReclaimSwapped, Close
<1>17. CASE UnlinkLock(p) BY <1>17 DEF UnlinkLock
<1>18. CASE KeepRoot(p) BY <1>18 DEF KeepRoot, Close
<1>19. CASE RemoveRoot(p) BY <1>19 DEF RemoveRoot, Close
<1>20. CASE ScanDone(p) BY <1>20 DEF ScanDone
<1>21. CASE EnsureRoot(p) BY <1>21 DEF EnsureRoot
<1>22. CASE OpenIndex(p) BY <1>22 DEF OpenIndex
<1>23. CASE Record(p) BY <1>23 DEF Record
<1>24. CASE TakeCensus(p) BY <1>24 DEF TakeCensus
<1>25. CASE Stop(p) BY <1>25 DEF Stop, End
<1> QED
  BY <1>1, <1>2, <1>3, <1>4, <1>5, <1>6, <1>7, <1>8, <1>9, <1>10, <1>11, <1>12, <1>13, <1>14,
     <1>15, <1>16, <1>17, <1>18, <1>19, <1>20, <1>21, <1>22, <1>23, <1>24, <1>25 DEF Step

\* A process that has started does not start again, and one that was enumerated
\* too early, or has ended, is never quiet again.
LEMMA QuietShrinks ==
    ASSUME TypeOK, NEW p \in Procs, Step(p), NEW q \in Procs, pc[q] \notin Starting
    PROVE  pc'[q] \notin Starting /\ (q \in Quiet' => q \in Quiet)
<1>1. /\ pc'[q] \notin Starting
      /\ pc[q] = "dead" => pc'[q] = "dead"
      /\ pc'[q] # "dead" => (q \in exposed => q \in exposed')
  <2>1. CASE p # q
    <3>1. pc'[q] = pc[q] BY <2>1, OthersStand
    <3>2. q \in exposed => q \in exposed'
      BY <2>1 DEF Step, CreateRoot, OpenOwnLock, TryOwnLock, StartFails, End, ReadNames,
         ScanFails, Pin, ClaimRefused, ClaimOpen, ClaimHeld, ClaimLock, ClaimSwapped, ClaimDead,
         ClaimForReclaim, RemoveMember, ReclaimSwapped, UnlinkLock, KeepRoot, RemoveRoot,
         ScanDone, EnsureRoot, OpenIndex, Record, TakeCensus, Stop
    <3> QED BY <3>1, <3>2
  <2>2. CASE p = q
    <3>1. CASE StartFails(p) \/ Stop(p)
      BY <2>2, <3>1 DEF StartFails, Stop, End, Starting, TypeOK
    <3>2. CASE ~StartFails(p) /\ ~Stop(p)
      <4>1. exposed \subseteq exposed'
        BY <3>2 DEF Step, CreateRoot, OpenOwnLock, TryOwnLock, ReadNames,
           ScanFails, Pin, ClaimRefused, ClaimOpen, ClaimHeld, ClaimLock, ClaimSwapped, ClaimDead,
           ClaimForReclaim, RemoveMember, ReclaimSwapped, UnlinkLock, KeepRoot, RemoveRoot,
           ScanDone, EnsureRoot, OpenIndex, Record, TakeCensus
      <4>2. pc[p] # "dead" /\ pc'[p] \notin Starting
        BY <2>2, <3>2 DEF Step, CreateRoot, OpenOwnLock, TryOwnLock, ReadNames,
           ScanFails, Pin, ClaimRefused, ClaimOpen, ClaimHeld, ClaimLock, ClaimSwapped, ClaimDead,
           ClaimForReclaim, RemoveMember, ReclaimSwapped, UnlinkLock, KeepRoot, RemoveRoot,
           ScanDone, EnsureRoot, OpenIndex, Record, TakeCensus, Close, AfterScan, Starting, TypeOK
      <4> QED BY <2>2, <4>1, <4>2
    <3> QED BY <3>1, <3>2
  <2> QED BY <2>1, <2>2
<1> QED BY <1>1 DEF Quiet, Acquired

\* What o has counted still covers whom it has dealt with when o dealt with
\* nobody new.
LEMMA TallyKeeps ==
    ASSUME TypeOK, TalliesCover, NEW o \in Procs, Counting(o), Dealt(o)' \subseteq Dealt(o),
           tally'[o] = tally[o]
    PROVE  tally'[o] >= 1 + Cardinality(Dealt(o)')
<1>1. Dealt(o) \in SUBSET Procs BY DEF Dealt, TypeOK
<1>2. Dealt(o)' \in SUBSET Dealt(o) OBVIOUS
<1>3. tally[o] \in Nat /\ tally[o] >= 1 + Cardinality(Dealt(o)) BY DEF TypeOK, TalliesCover
<1>4. PICK S \in SUBSET Dealt(o) : S = Dealt(o)' BY <1>2
<1>5. /\ Cardinality(S) \in Nat /\ Cardinality(Dealt(o)) \in Nat
      /\ Cardinality(S) <= Cardinality(Dealt(o))
  BY <1>1, Fewer
<1> QED BY <1>3, <1>4, <1>5

\* A census that was proven covers no one more as time goes by.
LEMMA ProofKeeps ==
    ASSUME TypeOK, ProvenCovers, NEW o \in Procs, basis'[o] # {}, basis'[o] = basis[o],
           proven'[o] = proven[o], \A q \in basis[o] : q \in Quiet' => q \in Quiet
    PROVE  proven'[o] >= 1 + Cardinality((basis'[o] \cap Quiet') \ {o})
<1> DEFINE T == (basis[o] \cap Quiet) \ {o}
           S == (basis'[o] \cap Quiet') \ {o}
<1>1. T \in SUBSET Procs /\ S \in SUBSET T BY DEF TypeOK
<1>2. proven[o] \in Nat /\ proven[o] >= 1 + Cardinality(T) BY DEF TypeOK, ProvenCovers
<1> HIDE DEF T, S
<1>3. Cardinality(S) \in Nat /\ Cardinality(T) \in Nat /\ Cardinality(S) <= Cardinality(T)
  BY <1>1, Fewer
<1>4. proven'[o] >= 1 + Cardinality(S) BY <1>2, <1>3
<1> QED BY <1>4 DEF S

\* A step at whose end p counts as before, or less.
LEMMA CensusKeeps ==
    ASSUME TypeOK, CensusInv, NEW p \in Procs, Step(p),
           Counting(p)' => tally'[p] >= 1 + Cardinality(Dealt(p)'),
           basis'[p] # {} =>
              \/ basis'[p] = basis[p] /\ proven'[p] = proven[p] /\ taken'[p] = taken[p]
              \/ proven'[p] >= 1 + Cardinality((basis'[p] \cap Quiet') \ {p}) /\ taken'[p] > 0,
           pc'[p] \in {"claim", "trylock", "verify", "reclaim", "rmdir"} => names'[p] = {},
           \A q \in since'[p] \cup basis'[p] :
              q \in since[p] \cup basis[p] \/ pc'[q] \notin Starting
    PROVE  CensusInv'
<1>1. \A o \in Procs : \A q \in since[o] \cup basis[o] :
        q \in Procs /\ pc'[q] \notin Starting /\ (q \in Quiet' => q \in Quiet)
  BY QuietShrinks DEF CensusInv, PeersHaveStarted, TypeOK
<1>2. TalliesCover'
  <2> SUFFICES ASSUME NEW o \in Procs, o # p, Counting(o)'
               PROVE  tally'[o] >= 1 + Cardinality(Dealt(o)')
    BY DEF TalliesCover
  <2>1. Counting(o) /\ tally'[o] = tally[o] /\ since'[o] = since[o] /\ Waiting(o)' = Waiting(o)
    BY OthersStand DEF Counting, Waiting
  <2>2. Dealt(o)' \subseteq Dealt(o) BY <1>1, <2>1 DEF Dealt
  <2> QED BY <2>1, <2>2, TallyKeeps DEF CensusInv
<1>3. ProvenCovers'
  <2> SUFFICES ASSUME NEW o \in Procs, basis'[o] # {}
               PROVE  proven'[o] >= 1 + Cardinality((basis'[o] \cap Quiet') \ {o})
    BY DEF ProvenCovers
  <2>1. CASE basis'[o] = basis[o] /\ proven'[o] = proven[o]
    BY <1>1, <2>1, ProofKeeps DEF CensusInv
  <2>2. o # p => basis'[o] = basis[o] /\ proven'[o] = proven[o] BY OthersStand
  <2> QED BY <2>1, <2>2
<1>4. PinnedFirst' BY OthersStand DEF CensusInv, PinnedFirst
<1>5. PeersHaveStarted'
  <2> SUFFICES ASSUME NEW o \in Procs, NEW q \in since'[o] \cup basis'[o]
               PROVE  pc'[q] \notin Starting
    BY DEF PeersHaveStarted
  <2>1. o # p => since'[o] = since[o] /\ basis'[o] = basis[o] BY OthersStand
  <2> QED BY <1>1, <2>1
<1>6. ProvenIsTaken' BY OthersStand DEF CensusInv, ProvenIsTaken
<1> QED BY <1>2, <1>3, <1>4, <1>5, <1>6 DEF CensusInv

\* A step that is none of the counting ones.
LEMMA NoCensusStep ==
    ASSUME TypeOK, CensusInv, NEW p \in Procs, Step(p), ~Counting(p)',
           basis'[p] \in {{}, basis[p]}, since'[p] \in {{}, since[p]},
           basis'[p] # {} => proven'[p] = proven[p] /\ taken'[p] = taken[p],
           pc'[p] \in {"claim", "trylock", "verify", "reclaim", "rmdir"} => names'[p] = {}
    PROVE  CensusInv'
BY CensusKeeps

\* A step of a scan that still has the same roots to look at.
LEMMA ScanGoesOn ==
    ASSUME TypeOK, CensusInv, NEW p \in Procs, Step(p),
           pc[p] \in {"pin", "claim", "trylock", "verify", "reclaim", "rmdir"},
           Waiting(p) \subseteq Waiting(p)',
           UNCHANGED <<mode, tally, proven, taken, since, basis>>,
           pc'[p] \in {"claim", "trylock", "verify", "reclaim", "rmdir"} => names'[p] = {}
    PROVE  CensusInv'
<1>1. \A q \in since[p] : q \in Procs /\ (q \in Quiet' => q \in Quiet)
  BY QuietShrinks DEF CensusInv, PeersHaveStarted, TypeOK
<1>2. Dealt(p)' \subseteq Dealt(p) BY <1>1 DEF Dealt
<1>3. Counting(p)' => Counting(p) BY DEF Counting
<1>4. Counting(p)' => tally'[p] >= 1 + Cardinality(Dealt(p)')
  BY <1>2, <1>3, TallyKeeps DEF CensusInv
<1> QED BY <1>4, CensusKeeps

\* A step that is done with one root, and counts it unless it is nobody's who lives
\* undisturbed.
LEMMA RootDealtWith ==
    ASSUME TypeOK, CensusInv, NEW p \in Procs, Step(p), NEW x \in Procs \cup {None},
           pc[p] \in {"claim", "trylock", "verify", "reclaim", "rmdir"}, pc'[p] = "claim",
           names'[p] = names[p],
           Waiting(p) \subseteq Waiting(p)' \cup {x},
           UNCHANGED <<mode, proven, taken, since, basis>>,
           \/ mode[p] = "census" => tally'[p] = tally[p] + 1
           \/ tally' = tally /\ x \notin Quiet
    PROVE  CensusInv'
<1>1. \A q \in since[p] : q \in Procs /\ (q \in Quiet' => q \in Quiet)
  BY QuietShrinks DEF CensusInv, PeersHaveStarted, TypeOK
<1>2. Dealt(p)' \subseteq Dealt(p) \cup {x} BY <1>1 DEF Dealt
<1>3. Counting(p)' => tally'[p] >= 1 + Cardinality(Dealt(p)')
  <2> SUFFICES ASSUME Counting(p)' PROVE tally'[p] >= 1 + Cardinality(Dealt(p)') OBVIOUS
  <2>1. Counting(p) /\ mode[p] = "census" BY DEF Counting
  <2>2. CASE tally' = tally /\ x \notin Quiet
    <3>1. Dealt(p)' \subseteq Dealt(p) BY <1>1, <2>2 DEF Dealt
    <3> QED BY <2>1, <2>2, <3>1, TallyKeeps DEF CensusInv
  <2>3. CASE mode[p] = "census" => tally'[p] = tally[p] + 1
    <3>1. tally'[p] = tally[p] + 1 /\ tally[p] \in Nat BY <2>1, <2>3 DEF TypeOK
    <3>2. Dealt(p) \in SUBSET Procs /\ Dealt(p)' \in SUBSET Procs
      BY <1>2 DEF Dealt, TypeOK
    <3>3. PICK S \in SUBSET Procs : S = Dealt(p)' BY <3>2
    <3>4. /\ Cardinality(S) \in Nat /\ Cardinality(Dealt(p)) \in Nat
          /\ Cardinality(S) <= Cardinality(Dealt(p)) + 1
      BY <1>2, <3>2, <3>3, OneMore
    <3>5. tally[p] >= 1 + Cardinality(Dealt(p)) BY <2>1 DEF CensusInv, TalliesCover
    <3> QED BY <3>1, <3>3, <3>4, <3>5
  <2> QED BY <2>2, <2>3
<1>4. names'[p] = {} BY DEF CensusInv, PinnedFirst
<1> QED BY <1>3, <1>4, CensusKeeps

\* A candidate that got past the lock attempt is nobody's who lives undisturbed.
LEMMA ClaimedAreNotQuiet ==
    ASSUME IInv, NEW p \in Procs, pc[p] \in {"verify", "reclaim", "rmdir"}
    PROVE  cur[p][1] \notin Quiet
BY DEF IInv, UnexposedOwnerIsUndisturbed, NeverOwn, Quiet

\* The scan starts: every peer that has its root is on the list.
LEMMA ReadNamesCounts ==
    ASSUME IInv, CensusInv, NEW p \in Procs, ReadNames(p) PROVE CensusInv'
<1>1. TypeOK /\ Step(p) BY DEF IInv, Step
<1>2. names'[p] = {r \in Procs \ {p} : dir[r] # None}
  BY <1>1 DEF ReadNames, TypeOK
<1>3. UNCHANGED <<mode, proven, taken, basis, cands, cur>>
  BY DEF ReadNames, scanVars
<1>4. exposed \subseteq exposed' BY DEF ReadNames
<1>5. pc'[p] \in {"claim", "pin"} /\ (pc'[p] = "claim" => names'[p] = {})
  BY <1>1 DEF ReadNames, TypeOK
<1>6. \A q \in Procs : Acquired(q)' => Acquired(q)
  BY <1>1 DEF ReadNames, Acquired, Starting, TypeOK
<1>7. mode[p] = "census" =>
        tally'[p] = 1 /\ since'[p] = {q \in Procs : Owner(q)}
  BY <1>1 DEF ReadNames, TypeOK
<1>8. mode[p] # "census" => since'[p] = since[p] BY DEF ReadNames
<1>9. Counting(p)' => tally'[p] >= 1 + Cardinality(Dealt(p)')
  <2> SUFFICES ASSUME mode[p] = "census" PROVE tally'[p] >= 1 + Cardinality(Dealt(p)')
    BY <1>3 DEF Counting
  <2>1. \A q \in Quiet' : dir[q] # None
    BY <1>4, <1>6 DEF Quiet, IInv, UnexposedOwnerIsUndisturbed
  <2>2. Dealt(p)' = {} BY <1>2, <2>1 DEF Dealt, Waiting, Quiet
  <2> QED BY <1>7, <2>2, FS_EmptySet
<1>10. \A q \in since'[p] : q \in since[p] \/ pc'[q] \notin Starting
  <2>1. \A q \in Procs : Owner(q) => pc'[q] \notin Starting
    BY <1>1, <1>5 DEF Owner, Acquired, ReadNames, Starting, TypeOK
  <2> QED BY <1>7, <1>8, <2>1
<1> QED BY <1>1, <1>3, <1>5, <1>9, <1>10, CensusKeeps

\* The census ends: it has no root left to look at.
LEMMA ScanDoneCounts ==
    ASSUME IInv, CensusInv, NEW p \in Procs, ScanDone(p) PROVE CensusInv'
<1>1. TypeOK /\ Step(p) BY DEF IInv, Step
<1>2. pc'[p] \in {"ensure", "running"} /\ ~Counting(p)' /\ since'[p] = {}
  BY <1>1 DEF ScanDone, AfterScan, Counting, TypeOK
<1>3. CASE mode[p] # "census"
  <2>1. UNCHANGED <<proven, basis, taken>> BY <1>3 DEF ScanDone
  <2> QED BY <1>1, <1>2, <2>1, CensusKeeps
<1>4. CASE mode[p] = "census"
  <2>1. proven'[p] = tally[p] /\ basis'[p] = since[p] /\ taken'[p] = taken[p] + 1
    BY <1>1, <1>4 DEF ScanDone, TypeOK
  <2>2. taken'[p] > 0 BY <1>1, <2>1 DEF TypeOK
  <2>3. Counting(p) BY <1>4 DEF Counting, ScanDone
  <2>4. names[p] = {} /\ cands[p] = {} /\ cur[p][1] = None
    BY DEF ScanDone, CensusInv, PinnedFirst, IInv, ClaimsAreOpen, NoCand
  <2>5. Waiting(p) = {None} BY <2>4 DEF Waiting
  <2>6. \A q \in since[p] : q \in Procs /\ (q \in Quiet' => q \in Quiet)
    BY <1>1, QuietShrinks DEF CensusInv, PeersHaveStarted, TypeOK
  <2> DEFINE S == (since[p] \cap Quiet') \ {p}
  <2>7. S \in SUBSET Dealt(p) /\ Dealt(p) \in SUBSET Procs
    <3>1. since[p] \in SUBSET Procs BY <1>1 DEF TypeOK
    <3> QED BY <2>5, <2>6, <3>1, NoneAssumption DEF Dealt
  <2>8. tally[p] \in Nat /\ tally[p] >= 1 + Cardinality(Dealt(p))
    BY <1>1, <2>3 DEF CensusInv, TalliesCover, TypeOK
  <2> HIDE DEF S
  <2>9. /\ Cardinality(S) \in Nat /\ Cardinality(Dealt(p)) \in Nat
        /\ Cardinality(S) <= Cardinality(Dealt(p))
    BY <2>7, Fewer
  <2>10. proven'[p] >= 1 + Cardinality(S) BY <2>1, <2>8, <2>9
  <2>11. proven'[p] >= 1 + Cardinality((basis'[p] \cap Quiet') \ {p})
    BY <2>1, <2>10 DEF S
  <2> QED BY <1>1, <1>2, <2>1, <2>2, <2>11, CensusKeeps
<1> QED BY <1>3, <1>4

LEMMA StepPreservesCensus ==
    ASSUME IInv, CensusInv, NEW p \in Procs, Step(p) PROVE CensusInv'
<1>0. TypeOK BY DEF IInv
<1> USE <1>0 DEF TypeOK, scanVars, countVars, Counting
<1>1. CASE CreateRoot(p) BY <1>1, NoCensusStep DEF CreateRoot
<1>2. CASE OpenOwnLock(p) BY <1>2, NoCensusStep DEF OpenOwnLock
<1>3. CASE TryOwnLock(p) BY <1>3, NoCensusStep DEF TryOwnLock
<1>4. CASE StartFails(p) BY <1>4, NoCensusStep DEF StartFails, End
<1>5. CASE ReadNames(p) BY <1>5, ReadNamesCounts
<1>6. CASE ScanFails(p)
  <2>1. pc'[p] \in {"ensure", "running"} /\ UNCHANGED <<basis, since>>
    BY <1>6 DEF ScanFails, AfterScan
  <2>2. basis[p] # {} => taken[p] > 0 BY DEF CensusInv, ProvenIsTaken
  <2>3. CASE mode[p] # "census"
    BY <1>6, <2>1, <2>3, NoCensusStep DEF ScanFails
  <2>4. CASE mode[p] = "census"
    <3>1. taken'[p] = taken[p] + 1 /\ taken'[p] > 0 BY <1>6, <2>4 DEF ScanFails
    <3>2. basis[p] # {} => proven'[p] = proven[p] BY <1>6, <2>2 DEF ScanFails
    <3>3. \A q \in basis[p] : q \in Procs /\ (q \in Quiet' => q \in Quiet)
      BY QuietShrinks DEF CensusInv, PeersHaveStarted
    <3>4. basis'[p] # {} => proven'[p] >= 1 + Cardinality((basis'[p] \cap Quiet') \ {p})
      BY <2>1, <3>2, <3>3, ProofKeeps DEF CensusInv
    <3> QED BY <2>1, <3>1, <3>4, CensusKeeps
  <2> QED BY <2>3, <2>4
<1>7. CASE Pin(p)
  <2>1. PICK r \in names[p] :
          /\ cands' = [cands EXCEPT ![p] = @ \cup {<<r, dir[r]>>}]
          /\ names' = [names EXCEPT ![p] = @ \ {r}]
          /\ pc' = [pc EXCEPT ![p] = IF names[p] = {r} THEN "claim" ELSE "pin"]
    BY <1>7 DEF Pin
  <2>2. names'[p] = names[p] \ {r} /\ cands'[p] = cands[p] \cup {<<r, dir[r]>>} /\ cur' = cur
    BY <1>7, <2>1 DEF Pin
  <2>3. Waiting(p) \subseteq Waiting(p)'
    <3>1. <<r, dir[r]>> \in cands'[p] /\ <<r, dir[r]>>[1] = r BY <2>2
    <3>2. r \in {c[1] : c \in cands'[p]} BY <3>1
    <3>3. {c[1] : c \in cands[p]} \subseteq {c[1] : c \in cands'[p]} BY <2>2
    <3> QED BY <2>2, <3>2, <3>3 DEF Waiting
  <2>4. pc'[p] = "pin" \/ names'[p] = {} BY <2>1, <2>2
  <2> QED BY <1>7, <2>3, <2>4, ScanGoesOn DEF Pin
<1>8. CASE ClaimRefused(p)
  <2>1. PICK c \in cands[p] : cands' = [cands EXCEPT ![p] = @ \ {c}]
    BY <1>8 DEF ClaimRefused
  <2>2. Waiting(p) \subseteq Waiting(p)' \cup {c[1]} BY <1>8, <2>1 DEF Waiting, ClaimRefused
  <2>3. mode[p] = "census" => tally'[p] = tally[p] + 1
    BY <1>8 DEF ClaimRefused, CountAsLive
  <2>4. /\ pc[p] \in {"claim", "trylock", "verify", "reclaim", "rmdir"} /\ pc'[p] = "claim"
        /\ names'[p] = names[p] /\ UNCHANGED <<mode, proven, taken, since, basis>>
    BY <1>8 DEF ClaimRefused
  <2>5. c[1] \in Procs \cup {None} OBVIOUS
  <2> QED BY <2>2, <2>3, <2>4, <2>5, RootDealtWith
<1>9. CASE ClaimOpen(p)
  <2>1. PICK c \in cands[p] :
          cur' = [cur EXCEPT ![p] = c] /\ cands' = [cands EXCEPT ![p] = @ \ {c}]
    BY <1>9 DEF ClaimOpen
  <2>2. cur[p][1] = None BY <1>9 DEF ClaimOpen, IInv, ClaimsAreOpen, NoCand
  <2>3. cur'[p] = c /\ cands'[p] = cands[p] \ {c} /\ names' = names
    BY <1>9, <2>1 DEF ClaimOpen
  <2>4. UNCHANGED <<mode, tally, proven, taken, since, basis>> /\ pc[p] = "claim" /\ names[p] = {}
    BY <1>9 DEF ClaimOpen, CensusInv, PinnedFirst
  <2>5. \A q \in since[p] : q \in Procs /\ (q \in Quiet' => q \in Quiet)
    BY QuietShrinks DEF CensusInv, PeersHaveStarted
  <2>6. Waiting(p) \subseteq Waiting(p)' \cup {None} BY <2>2, <2>3 DEF Waiting
  <2>7. Dealt(p)' \subseteq Dealt(p) BY <2>4, <2>5, <2>6, NoneAssumption DEF Dealt
  <2>8. Counting(p)' => tally'[p] >= 1 + Cardinality(Dealt(p)')
    BY <2>4, <2>7, TallyKeeps DEF CensusInv
  <2> QED BY <2>3, <2>4, <2>8, CensusKeeps
<1>10. CASE ClaimHeld(p)
  <2>1. Waiting(p) \subseteq Waiting(p)' \cup {cur[p][1]}
    BY <1>10 DEF Waiting, ClaimHeld, Close
  <2>2. mode[p] = "census" => tally'[p] = tally[p] + 1
    BY <1>10 DEF ClaimHeld, CountAsLive
  <2>4. /\ pc[p] \in {"claim", "trylock", "verify", "reclaim", "rmdir"} /\ pc'[p] = "claim"
        /\ names'[p] = names[p] /\ UNCHANGED <<mode, proven, taken, since, basis>>
    BY <1>10 DEF ClaimHeld, Close
  <2>5. cur[p][1] \in Procs \cup {None} OBVIOUS
  <2> QED BY <2>1, <2>2, <2>4, <2>5, RootDealtWith
<1>11. CASE ClaimLock(p)
  <2>1. Waiting(p) \subseteq Waiting(p)' BY <1>11 DEF Waiting, ClaimLock
  <2>2. names'[p] = {} BY <1>11 DEF ClaimLock, CensusInv, PinnedFirst
  <2> QED BY <1>11, <2>1, <2>2, ScanGoesOn DEF ClaimLock
<1>12. CASE ClaimSwapped(p)
  <2>1. Waiting(p) \subseteq Waiting(p)' \cup {cur[p][1]}
    BY <1>12 DEF Waiting, ClaimSwapped, Close
  <2>2. mode[p] = "census" => tally'[p] = tally[p] + 1
    BY <1>12 DEF ClaimSwapped, CountAsLive
  <2>4. /\ pc[p] \in {"claim", "trylock", "verify", "reclaim", "rmdir"} /\ pc'[p] = "claim"
        /\ names'[p] = names[p] /\ UNCHANGED <<mode, proven, taken, since, basis>>
    BY <1>12 DEF ClaimSwapped, Close
  <2>5. cur[p][1] \in Procs \cup {None} OBVIOUS
  <2> QED BY <2>1, <2>2, <2>4, <2>5, RootDealtWith
<1>13. CASE ClaimDead(p)
  <2>1. Waiting(p) \subseteq Waiting(p)' \cup {cur[p][1]}
    BY <1>13 DEF Waiting, ClaimDead, Close
  <2>2. cur[p][1] \notin Quiet BY <1>13, ClaimedAreNotQuiet DEF ClaimDead
  <2> QED BY <1>13, <2>1, <2>2, RootDealtWith DEF ClaimDead, Close
<1>14. CASE ClaimForReclaim(p)
  <2>1. Waiting(p) \subseteq Waiting(p)' BY <1>14 DEF Waiting, ClaimForReclaim
  <2>2. names'[p] = {} BY <1>14 DEF ClaimForReclaim, CensusInv, PinnedFirst
  <2> QED BY <1>14, <2>1, <2>2, ScanGoesOn DEF ClaimForReclaim
<1>15. CASE RemoveMember(p)
  <2>1. Waiting(p) \subseteq Waiting(p)' BY <1>15 DEF Waiting, RemoveMember
  <2>2. names'[p] = {} BY <1>15 DEF RemoveMember, CensusInv, PinnedFirst
  <2> QED BY <1>15, <2>1, <2>2, ScanGoesOn DEF RemoveMember
<1>16. CASE ReclaimSwapped(p)
  <2>1. Waiting(p) \subseteq Waiting(p)' \cup {cur[p][1]}
    BY <1>16 DEF Waiting, ReclaimSwapped, Close
  <2>2. cur[p][1] \notin Quiet BY <1>16, ClaimedAreNotQuiet DEF ReclaimSwapped
  <2> QED BY <1>16, <2>1, <2>2, RootDealtWith DEF ReclaimSwapped, Close
<1>17. CASE UnlinkLock(p)
  <2>1. Waiting(p) \subseteq Waiting(p)' BY <1>17 DEF Waiting, UnlinkLock
  <2>2. names'[p] = {} BY <1>17 DEF UnlinkLock, CensusInv, PinnedFirst
  <2> QED BY <1>17, <2>1, <2>2, ScanGoesOn DEF UnlinkLock
<1>18. CASE KeepRoot(p)
  <2>1. Waiting(p) \subseteq Waiting(p)' \cup {cur[p][1]}
    BY <1>18 DEF Waiting, KeepRoot, Close
  <2>2. cur[p][1] \notin Quiet BY <1>18, ClaimedAreNotQuiet DEF KeepRoot
  <2> QED BY <1>18, <2>1, <2>2, RootDealtWith DEF KeepRoot, Close
<1>19. CASE RemoveRoot(p)
  <2>1. Waiting(p) \subseteq Waiting(p)' \cup {cur[p][1]}
    BY <1>19 DEF Waiting, RemoveRoot, Close
  <2>2. cur[p][1] \notin Quiet BY <1>19, ClaimedAreNotQuiet DEF RemoveRoot
  <2> QED BY <1>19, <2>1, <2>2, RootDealtWith DEF RemoveRoot, Close
<1>20. CASE ScanDone(p) BY <1>20, ScanDoneCounts
<1>21. CASE EnsureRoot(p) BY <1>21, NoCensusStep DEF EnsureRoot
<1>22. CASE OpenIndex(p) BY <1>22, NoCensusStep DEF OpenIndex
<1>23. CASE Record(p) BY <1>23, NoCensusStep DEF Record
<1>24. CASE TakeCensus(p) BY <1>24, NoCensusStep DEF TakeCensus
<1>25. CASE Stop(p) BY <1>25, NoCensusStep DEF Stop, End
<1> QED
  BY <1>1, <1>2, <1>3, <1>4, <1>5, <1>6, <1>7, <1>8, <1>9, <1>10, <1>11, <1>12, <1>13, <1>14,
     <1>15, <1>16, <1>17, <1>18, <1>19, <1>20, <1>21, <1>22, <1>23, <1>24, <1>25 DEF Step

LEMMA CensusInvariant == Spec => []CensusInv
<1>1. Init => CensusInv
  BY DEF Init, CensusInv, TalliesCover, ProvenCovers, PinnedFirst, PeersHaveStarted,
         ProvenIsTaken, Counting
<1>2. IInv /\ CensusInv /\ [Next]_vars => CensusInv'
  <2> SUFFICES ASSUME IInv, CensusInv, [Next]_vars PROVE CensusInv' OBVIOUS
  <2>1. CASE (\E r \in Procs : Replace(r)) \/ UNCHANGED vars
    BY <2>1 DEF Replace, vars, scanVars, countVars, CensusInv, TalliesCover, ProvenCovers,
                PinnedFirst, PeersHaveStarted, ProvenIsTaken, Counting, Dealt, Waiting, Quiet,
                Acquired
  <2> QED BY <2>1, StepPreservesCensus DEF Next
<1> QED BY <1>1, <1>2, InductiveInvariant, PTL DEF Spec

(***************************************************************************)
(* InstanceCensus never undercounts: the last proven count of a process    *)
(* that has counted since the newest instance joined is at least the       *)
(* number of running instances, so the shares of the budget fit the total. *)
(***************************************************************************)
THEOREM CensusCountsEveryPeer == Spec => []FreshCensusCountsEveryPeer
<1>1. IInv /\ CensusInv => FreshCensusCountsEveryPeer
  <2> SUFFICES ASSUME IInv, CensusInv, \A q \in Procs : Acquired(q) => q \notin exposed,
                      NEW p \in Procs, Acquired(p), CountedSinceTheNewest(p)
               PROVE  proven[p] >= Cardinality({q \in Procs : Acquired(q)})
    BY DEF FreshCensusCountsEveryPeer
  <2> DEFINE A == {q \in Procs : Acquired(q)}
             B == (basis[p] \cap Quiet) \ {p}
  <2>1. A \in SUBSET Procs /\ B \in SUBSET Procs /\ A \subseteq B \cup {p} /\ basis[p] # {}
    BY DEF CountedSinceTheNewest, Quiet
  <2>2. proven[p] \in Nat /\ proven[p] >= 1 + Cardinality(B)
    BY <2>1 DEF CensusInv, ProvenCovers, IInv, TypeOK
  <2> HIDE DEF A, B
  <2>3. /\ Cardinality(A) \in Nat /\ Cardinality(B) \in Nat
        /\ Cardinality(A) <= Cardinality(B) + 1
    BY <2>1, OneMore
  <2>4. proven[p] >= Cardinality(A) BY <2>2, <2>3
  <2> QED BY <2>4 DEF A
<1> QED BY <1>1, InductiveInvariant, CensusInvariant, PTL
=============================================================================
