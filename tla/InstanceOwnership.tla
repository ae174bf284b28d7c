-------------------------- MODULE InstanceOwnership --------------------------
(***************************************************************************)
(* Exclusive per-instance ownership of recording storage                   *)
(* (krometrail-store/src/instance.rs) as the composition root uses it      *)
(* (src/app.rs, open_storage_with_budget).                                 *)
(*                                                                         *)
(* Every process creates one root <data_dir>/instances/<uuid>/, takes an   *)
(* advisory flock on the lock file inside it, reclaims the roots that dead *)
(* processes left behind, opens its store and from then on counts the live *)
(* instances at every budget decision.  A root is named by the process     *)
(* that creates it (a fresh UUID), so roots and processes share one index. *)
(*                                                                         *)
(* The file system is modelled by what the code relies on: a directory has *)
(* an identity that is freed by rmdir and may be given to a later          *)
(* directory; a lock file is an inode that outlives its name while it is   *)
(* open; flock is held on the inode, by an open file, until it is closed;  *)
(* every single call is atomic and any other process may run between two   *)
(* calls.  A process runs once; it may exit or crash between any two calls.*)
(* Only hosts with OWNERSHIP_IS_ENFORCED are modelled: elsewhere nothing   *)
(* is ever enumerated, claimed or counted.                                 *)
(***************************************************************************)
EXTENDS Integers, FiniteSets

CONSTANTS
    Procs,      \* processes, and the roots they create
    Abandoned,  \* processes that had ended, leaving a full root, before the others start
    DirIds,     \* directory identities (device, inode)
    Inodes,     \* inodes of lock files
    Members,    \* recording-cache members of a root: database files, directories
    MaxCounts,  \* bound: censuses one process takes after its first
    MaxSwaps,   \* bound: dead roots that something outside replaces
    MaxStops,   \* bound: processes that exit or crash of their own accord
    ScanMayFail,\* whether the instances directory can become unreadable
    AssumedLive,\* ASSUMED_LIVE_INSTANCES_WITHOUT_EVIDENCE
    None

ASSUME ProcsAssumption == IsFiniteSet(Procs)
ASSUME NoneAssumption == None \notin Procs \cup DirIds \cup Inodes
ASSUME AbandonedAssumption == Abandoned \subseteq Procs
ASSUME InodesAssumption == Inodes \subseteq Nat
ASSUME ScanMayFailAssumption == ScanMayFail \in BOOLEAN
ASSUME CountAssumption == {MaxCounts, MaxStops, MaxSwaps, AssumedLive} \subseteq Nat

VARIABLES
    pc,       \* where each process is in its program
    dir,      \* dir[r]: identity of the directory at root r, or None
    link,     \* link[r]: inode the lock file name of root r resolves to, or None
    cache,    \* cache[r]: recording-cache members present in root r
    flock,    \* flock[i]: process that holds the lock on inode i, or None
    fd,       \* fd[p]: lock file p opened in its own root, or None
    cfd,      \* cfd[p]: lock file p has open for the claim in progress, or None
    mode,     \* what the scan in progress is for: "reclaim" or "census"
    names,    \* names[p]: enumerated roots that p has still to pin
    cands,    \* cands[p]: pinned candidates <<root, identity>> still to claim
    cur,      \* cur[p]: the candidate being claimed
    left,     \* left[p]: members the reclaim in progress has still to remove
    tally,    \* tally[p]: the count in progress
    proven,   \* proven[p]: last_proven_live
    taken,    \* taken[p]: censuses taken so far (bound)
    stops,    \* processes that have stopped so far (bound)
    swaps,    \* roots replaced from outside so far (bound)
    exposed,  \* history: roots enumerated by a peer before their owner locked them
    since,    \* history: since[p], owners when the census in progress began
    basis     \* history: basis[p], owners when the last proven census began

fsVars == <<dir, link, cache, flock>>
scanVars == <<names, cands, cur, left>>
countVars == <<mode, tally, proven, taken, since, basis>>
bounds == <<stops, swaps>>
vars == <<pc, fsVars, fd, cfd, scanVars, countVars, exposed, bounds>>

NoCand == <<None, None>>
Starting == {"new", "created", "opened"}
Startup == Starting \cup {"scan", "pin", "claim", "trylock", "verify", "reclaim",
                          "rmdir", "ensure", "index"}

\* Acquired(p): acquire_new has returned to p and p is still alive.
Acquired(p) == pc[p] \notin Starting \cup {"dead"}

\* Owner(p): p is alive and holds the lock that its root's lock file names.
Owner(p) == /\ Acquired(p)
            /\ link[p] # None
            /\ flock[link[p]] = p

\* An inode is in use while it has a name or is open.
Free(i) == /\ \A r \in Procs : link[r] # i /\ fd[r] # i /\ cfd[r] # i
           /\ flock[i] = None

\* Which free inode a new file gets does not matter, as locks end with the
\* last open file: the lowest stands for all of them.
Allocate(i) == Free(i) /\ \A j \in Inodes : Free(j) => i <= j

TypeOK ==
    /\ pc \in [Procs -> Startup \cup {"running", "dead"}]
    /\ dir \in [Procs -> DirIds \cup {None}]
    /\ link \in [Procs -> Inodes \cup {None}]
    /\ cache \in [Procs -> SUBSET Members]
    /\ flock \in [Inodes -> Procs \cup {None}]
    /\ fd \in [Procs -> Inodes \cup {None}]
    /\ cfd \in [Procs -> Inodes \cup {None}]
    /\ mode \in [Procs -> {"reclaim", "census"}]
    /\ names \in [Procs -> SUBSET Procs]
    /\ cands \in [Procs -> SUBSET (Procs \X (DirIds \cup {None}))]
    /\ cur \in [Procs -> (Procs \cup {None}) \X (DirIds \cup {None})]
    /\ left \in [Procs -> SUBSET Members]
    /\ tally \in [Procs -> Nat]
    /\ proven \in [Procs -> Nat]
    /\ taken \in [Procs -> Nat]
    /\ stops \in Nat /\ swaps \in Nat
    /\ exposed \in SUBSET Procs
    /\ since \in [Procs -> SUBSET Procs]
    /\ basis \in [Procs -> SUBSET Procs]

Init ==
    /\ pc = [p \in Procs |-> IF p \in Abandoned THEN "dead" ELSE "new"]
    /\ dir \in [Procs -> DirIds \cup {None}]
    /\ link \in [Procs -> Inodes \cup {None}]
    /\ \A r \in Procs : /\ dir[r] = None <=> r \notin Abandoned
                        /\ link[r] = None <=> r \notin Abandoned
    /\ \A r, s \in Abandoned : r # s => dir[r] # dir[s] /\ link[r] # link[s]
    /\ cache = [r \in Procs |-> IF r \in Abandoned THEN Members ELSE {}]
    /\ flock = [i \in Inodes |-> None]
    /\ fd = [p \in Procs |-> None]
    /\ cfd = [p \in Procs |-> None]
    /\ mode = [p \in Procs |-> "reclaim"]
    /\ names = [p \in Procs |-> {}]
    /\ cands = [p \in Procs |-> {}]
    /\ cur = [p \in Procs |-> NoCand]
    /\ left = [p \in Procs |-> {}]
    /\ tally = [p \in Procs |-> 0]
    /\ proven = [p \in Procs |-> 1]
    /\ taken = [p \in Procs |-> 0]
    /\ stops = 0 /\ swaps = 0
    /\ exposed = {}
    /\ since = [p \in Procs |-> {}]
    /\ basis = [p \in Procs |-> {}]

-----------------------------------------------------------------------------
(* acquire_new: exclusive mkdir, open the lock file, flock it.             *)

\* mkdir gives root r an identity no directory has now.
MakeDir(r) ==
    \E d \in DirIds \ {dir[s] : s \in Procs} : dir' = [dir EXCEPT ![r] = d]

CreateRoot(p) ==
    /\ pc[p] = "new"
    /\ MakeDir(p)
    /\ pc' = [pc EXCEPT ![p] = "created"]
    /\ UNCHANGED <<link, cache, flock, fd, cfd, scanVars, countVars, exposed, bounds>>

\* What open(O_CREAT) of the lock file of root r yields for inode i.
OpenLockFile(r, i) ==
    /\ dir[r] # None
    /\ IF link[r] = None
       THEN Allocate(i) /\ link' = [link EXCEPT ![r] = i]
       ELSE i = link[r] /\ UNCHANGED link

OpenOwnLock(p) ==
    /\ pc[p] = "created"
    /\ \E i \in Inodes :
        /\ OpenLockFile(p, i)
        /\ fd' = [fd EXCEPT ![p] = i]
    /\ pc' = [pc EXCEPT ![p] = "opened"]
    /\ UNCHANGED <<dir, cache, flock, cfd, scanVars, countVars, exposed, bounds>>

TryOwnLock(p) ==
    /\ pc[p] = "opened"
    /\ flock[fd[p]] = None
    /\ flock' = [flock EXCEPT ![fd[p]] = p]
    /\ mode' = [mode EXCEPT ![p] = "reclaim"]
    /\ pc' = [pc EXCEPT ![p] = "scan"]
    /\ UNCHANGED <<dir, link, cache, fd, cfd, scanVars, tally, proven, taken,
                   since, basis, exposed, bounds>>

\* The process ends: it exits, it crashes or its start fails.  Closing its
\* files releases its locks.
End(p) ==
    /\ pc' = [pc EXCEPT ![p] = "dead"]
    /\ flock' = [i \in Inodes |-> IF flock[i] = p THEN None ELSE flock[i]]
    /\ fd' = [fd EXCEPT ![p] = None]
    /\ cfd' = [cfd EXCEPT ![p] = None]
    /\ names' = [names EXCEPT ![p] = {}]
    /\ cands' = [cands EXCEPT ![p] = {}]
    /\ cur' = [cur EXCEPT ![p] = NoCand]
    /\ left' = [left EXCEPT ![p] = {}]
    /\ mode' = [mode EXCEPT ![p] = "reclaim"]
    /\ tally' = [tally EXCEPT ![p] = 0]
    /\ proven' = [proven EXCEPT ![p] = 1]
    /\ taken' = [taken EXCEPT ![p] = 0]
    /\ since' = [since EXCEPT ![p] = {}]
    /\ basis' = [basis EXCEPT ![p] = {}]
    /\ exposed' = exposed \ {p}
    /\ UNCHANGED <<dir, link, cache>>

\* acquire_new returns an error: its root is gone, or its lock is taken.
StartFails(p) ==
    /\ \/ pc[p] \in {"created", "index"} /\ dir[p] = None
       \/ pc[p] = "opened" /\ flock[fd[p]] # None
    /\ End(p)
    /\ UNCHANGED bounds

Stop(p) ==
    /\ pc[p] # "dead"
    /\ stops < MaxStops
    /\ stops' = stops + 1
    /\ UNCHANGED swaps
    /\ End(p)

-----------------------------------------------------------------------------
(* instance_root_candidates: list the names, then pin each one.            *)

\* Where a scan leaves the process once its last candidate is dealt with.
AfterScan(p) == IF mode[p] = "reclaim" THEN "ensure" ELSE "running"

ReadNames(p) ==
    /\ pc[p] = "scan"
    /\ LET found == {r \in Procs \ {p} : dir[r] # None} IN
        /\ names' = [names EXCEPT ![p] = found]
        /\ exposed' = exposed \cup {r \in found : pc[r] \in Starting}
    /\ IF mode[p] = "census"
       THEN /\ tally' = [tally EXCEPT ![p] = 1]
            /\ since' = [since EXCEPT ![p] = {q \in Procs : Owner(q)}]
       ELSE UNCHANGED <<tally, since>>
    /\ pc' = [pc EXCEPT ![p] = IF names'[p] = {} THEN "claim" ELSE "pin"]
    /\ UNCHANGED <<fsVars, fd, cfd, cands, cur, left, mode, proven, taken, basis,
                   bounds>>

\* The directory cannot be read: a reclaim pass reclaims nothing, the first
\* census assumes company, a later one falls back to the last proven count.
ScanFails(p) ==
    /\ ScanMayFail
    /\ pc[p] = "scan"
    /\ proven' = IF mode[p] = "census" /\ taken[p] = 0
                 THEN [proven EXCEPT ![p] = AssumedLive] ELSE proven
    /\ taken' = IF mode[p] = "census" THEN [taken EXCEPT ![p] = @ + 1] ELSE taken
    /\ pc' = [pc EXCEPT ![p] = AfterScan(p)]
    /\ UNCHANGED <<fsVars, fd, cfd, scanVars, mode, tally, since, basis, exposed, bounds>>

Pin(p) ==
    /\ pc[p] = "pin"
    /\ \E r \in names[p] :
        /\ cands' = [cands EXCEPT ![p] = @ \cup {<<r, dir[r]>>}]
        /\ names' = [names EXCEPT ![p] = @ \ {r}]
        /\ pc' = [pc EXCEPT ![p] = IF names[p] = {r} THEN "claim" ELSE "pin"]
    /\ UNCHANGED <<fsVars, fd, cfd, cur, left, countVars, exposed, bounds>>

-----------------------------------------------------------------------------
(* InstanceRootCandidate::claim.  A refusal and an error count as live.    *)

\* Fault: a candidate that cannot be claimed is left out of the count.
CountAsLiveForgotten(p) == UNCHANGED tally

\* p is done with its candidate and found it live.
CountAsLive(p) == tally' = IF mode[p] = "census"
                           THEN [tally EXCEPT ![p] = @ + 1] ELSE tally

\* An unpinned candidate is refused; opening its lock file may fail.
ClaimRefused(p) ==
    /\ pc[p] = "claim"
    /\ \E c \in cands[p] :
        /\ c[2] = None \/ dir[c[1]] = None
        /\ cands' = [cands EXCEPT ![p] = @ \ {c}]
    /\ CountAsLive(p)
    /\ UNCHANGED <<pc, fsVars, fd, cfd, names, cur, left, mode, proven, taken,
                   since, basis, exposed, bounds>>

ClaimOpen(p) ==
    /\ pc[p] = "claim"
    /\ \E c \in cands[p], i \in Inodes :
        /\ c[2] # None
        /\ OpenLockFile(c[1], i)
        /\ cfd' = [cfd EXCEPT ![p] = i]
        /\ cur' = [cur EXCEPT ![p] = c]
        /\ cands' = [cands EXCEPT ![p] = @ \ {c}]
    /\ pc' = [pc EXCEPT ![p] = "trylock"]
    /\ UNCHANGED <<dir, cache, flock, fd, names, left, countVars, exposed, bounds>>

\* Closing the claimed lock file: the candidate is dealt with.
Close(p) ==
    /\ cfd' = [cfd EXCEPT ![p] = None]
    /\ cur' = [cur EXCEPT ![p] = NoCand]
    /\ pc' = [pc EXCEPT ![p] = "claim"]

Unlock(p) == flock' = [flock EXCEPT ![cfd[p]] = None]

ClaimHeld(p) ==
    /\ pc[p] = "trylock"
    /\ flock[cfd[p]] # None
    /\ Close(p)
    /\ CountAsLive(p)
    /\ UNCHANGED <<fsVars, fd, names, cands, left, mode, proven, taken, since,
                   basis, exposed, bounds>>

\* Fault: the result of the lock attempt is not looked at.
ClaimLockUnchecked(p) ==
    /\ pc[p] = "trylock"
    /\ flock' = [flock EXCEPT ![cfd[p]] = p]
    /\ pc' = [pc EXCEPT ![p] = "verify"]
    /\ UNCHANGED <<dir, link, cache, fd, cfd, scanVars, countVars, exposed, bounds>>

ClaimLock(p) ==
    /\ pc[p] = "trylock"
    /\ flock[cfd[p]] = None
    /\ flock' = [flock EXCEPT ![cfd[p]] = p]
    /\ pc' = [pc EXCEPT ![p] = "verify"]
    /\ UNCHANGED <<dir, link, cache, fd, cfd, scanVars, countVars, exposed, bounds>>

\* The path still resolves to the directory that was pinned.
StillOwnsItsRoot(p) == dir[cur[p][1]] = cur[p][2]

ClaimSwapped(p) ==
    /\ pc[p] = "verify"
    /\ ~StillOwnsItsRoot(p)
    /\ Unlock(p)
    /\ Close(p)
    /\ CountAsLive(p)
    /\ UNCHANGED <<dir, link, cache, fd, names, cands, left, mode, proven, taken,
                   since, basis, exposed, bounds>>

\* A census that could claim a root has found it dead, and lets go of it.
ClaimDead(p) ==
    /\ pc[p] = "verify"
    /\ mode[p] = "census"
    /\ StillOwnsItsRoot(p)
    /\ Unlock(p)
    /\ Close(p)
    /\ UNCHANGED <<dir, link, cache, fd, names, cands, left, countVars, exposed, bounds>>

ClaimForReclaim(p) ==
    /\ pc[p] = "verify"
    /\ mode[p] = "reclaim"
    /\ StillOwnsItsRoot(p)
    /\ left' = [left EXCEPT ![p] = Members]
    /\ pc' = [pc EXCEPT ![p] = "reclaim"]
    /\ UNCHANGED <<fsVars, fd, cfd, names, cands, cur, countVars, exposed, bounds>>

-----------------------------------------------------------------------------
(* reclaim_instance_root and remove_emptied_root.                          *)

\* One allowlisted member, after a fresh check (the code has a fixed order,
\* which nothing relies on).
RemoveMember(p) ==
    /\ pc[p] = "reclaim"
    /\ StillOwnsItsRoot(p)
    /\ \E m \in left[p] :
        /\ left' = [left EXCEPT ![p] = @ \ {m}]
        /\ cache' = [cache EXCEPT ![cur[p][1]] = @ \ {m}]
    /\ UNCHANGED <<pc, dir, link, flock, fd, cfd, names, cands, cur, countVars,
                   exposed, bounds>>

\* The root changed identity: the reclaim fails, or its last step is skipped.
ReclaimSwapped(p) ==
    /\ pc[p] = "reclaim"
    /\ ~StillOwnsItsRoot(p)
    /\ left' = [left EXCEPT ![p] = {}]
    /\ Unlock(p)
    /\ Close(p)
    /\ UNCHANGED <<dir, link, cache, fd, names, cands, countVars, exposed, bounds>>

\* Nothing but the lock file is left: unlink it, then try to remove the root.
UnlinkLock(p) ==
    LET r == cur[p][1] IN
    /\ pc[p] = "reclaim"
    /\ left[p] = {}
    /\ StillOwnsItsRoot(p)
    /\ cache[r] = {}
    /\ link[r] # None
    /\ link' = [link EXCEPT ![r] = None]
    /\ pc' = [pc EXCEPT ![p] = "rmdir"]
    /\ UNCHANGED <<dir, cache, flock, fd, cfd, scanVars, countVars, exposed, bounds>>

\* The root holds something else, or its lock file is already gone.
KeepRoot(p) ==
    LET r == cur[p][1] IN
    /\ pc[p] = "reclaim"
    /\ left[p] = {}
    /\ cache[r] # {} \/ link[r] = None
    /\ Unlock(p)
    /\ Close(p)
    /\ UNCHANGED <<dir, link, cache, fd, names, cands, left, countVars, exposed, bounds>>

\* rmdir is best effort: it fails when the lock file was created anew.
RemoveRoot(p) ==
    LET r == cur[p][1] IN
    /\ pc[p] = "rmdir"
    /\ dir' = IF link[r] = None /\ cache[r] = {}
              THEN [dir EXCEPT ![r] = None] ELSE dir
    /\ Unlock(p)
    /\ Close(p)
    /\ UNCHANGED <<link, cache, fd, names, cands, left, countVars, exposed, bounds>>

\* The scan is over; a census proves its count.
ScanDone(p) ==
    /\ pc[p] = "claim"
    /\ cands[p] = {}
    /\ IF mode[p] = "census"
       THEN /\ proven' = [proven EXCEPT ![p] = tally[p]]
            /\ basis' = [basis EXCEPT ![p] = since[p]]
            /\ taken' = [taken EXCEPT ![p] = @ + 1]
       ELSE UNCHANGED <<proven, basis, taken>>
    /\ since' = [since EXCEPT ![p] = {}]
    /\ tally' = [tally EXCEPT ![p] = 0]
    /\ pc' = [pc EXCEPT ![p] = AfterScan(p)]
    /\ UNCHANGED <<fsVars, fd, cfd, scanVars, mode, exposed, bounds>>

-----------------------------------------------------------------------------
(* The rest of open_storage_with_budget, and the running process.          *)

\* SqliteIndex::open first creates the missing directories of its path.
EnsureRoot(p) ==
    /\ pc[p] = "ensure"
    /\ IF dir[p] # None
       THEN UNCHANGED dir
       ELSE MakeDir(p)
    /\ pc' = [pc EXCEPT ![p] = "index"]
    /\ UNCHANGED <<link, cache, flock, fd, cfd, scanVars, countVars, exposed, bounds>>

\* Fault: the ownership is dropped when startup is over.
OpenIndexUnowned(p) ==
    /\ pc[p] = "index"
    /\ dir[p] # None
    /\ cache' = [cache EXCEPT ![p] = Members]
    /\ flock' = [flock EXCEPT ![fd[p]] = None]
    /\ mode' = [mode EXCEPT ![p] = "census"]
    /\ pc' = [pc EXCEPT ![p] = "scan"]
    /\ UNCHANGED <<dir, link, fd, cfd, scanVars, tally, proven, taken,
                   since, basis, exposed, bounds>>

\* The database and the segment directory are created; the first census of
\* InstanceCensus::new follows.
OpenIndex(p) ==
    /\ pc[p] = "index"
    /\ dir[p] # None
    /\ cache' = [cache EXCEPT ![p] = Members]
    /\ mode' = [mode EXCEPT ![p] = "census"]
    /\ pc' = [pc EXCEPT ![p] = "scan"]
    /\ UNCHANGED <<dir, link, flock, fd, cfd, scanVars, tally, proven, taken,
                   since, basis, exposed, bounds>>

Record(p) ==
    /\ pc[p] = "running"
    /\ dir[p] # None
    /\ \E m \in Members : cache' = [cache EXCEPT ![p] = @ \cup {m}]
    /\ UNCHANGED <<pc, dir, link, flock, fd, cfd, scanVars, countVars, exposed, bounds>>

TakeCensus(p) ==
    /\ pc[p] = "running"
    /\ taken[p] <= MaxCounts
    /\ pc' = [pc EXCEPT ![p] = "scan"]
    /\ UNCHANGED <<fsVars, fd, cfd, scanVars, countVars, exposed, bounds>>

Step(p) ==
    \/ CreateRoot(p) \/ OpenOwnLock(p) \/ TryOwnLock(p) \/ StartFails(p)
    \/ ReadNames(p) \/ ScanFails(p) \/ Pin(p)
    \/ ClaimRefused(p) \/ ClaimOpen(p) \/ ClaimHeld(p) \/ ClaimLock(p)
    \/ ClaimSwapped(p) \/ ClaimDead(p) \/ ClaimForReclaim(p)
    \/ RemoveMember(p) \/ ReclaimSwapped(p) \/ UnlinkLock(p) \/ KeepRoot(p)
    \/ RemoveRoot(p) \/ ScanDone(p)
    \/ EnsureRoot(p) \/ OpenIndex(p) \/ Record(p) \/ TakeCensus(p) \/ Stop(p)

\* The path of an abandoned root can be made to name something else: it is
\* renamed aside and a fresh directory, with members of its own, takes its place.
Replace(r) ==
    /\ pc[r] = "dead"
    /\ dir[r] # None
    /\ swaps < MaxSwaps
    /\ swaps' = swaps + 1
    /\ MakeDir(r)
    /\ link' = [link EXCEPT ![r] = None]
    /\ cache' = [cache EXCEPT ![r] = Members]
    /\ UNCHANGED <<pc, flock, fd, cfd, scanVars, countVars, exposed, stops>>

Next == \E p \in Procs : Step(p) \/ Replace(p)

Spec == Init /\ [][Next]_vars

-----------------------------------------------------------------------------
(* Properties.                                                             *)

\* A process whose root no peer had enumerated before it was locked keeps its
\* root and the lock its lock file names for as long as it lives, and no peer
\* gets past the lock attempt of InstanceRootCandidate::claim on it.
UnexposedOwnerIsUndisturbed ==
    \A p \in Procs : Acquired(p) /\ p \notin exposed =>
        /\ dir[p] # None
        /\ Owner(p)
        /\ \A q \in Procs \ {p} :
             cur[q][1] = p => pc[q] = "trylock" /\ cfd[q] = link[p]

\* reclaim_instance_root never takes a recording away from such a process:
\* its evidence disappears only after the process has ended.
UnexposedEvidenceSurvives ==
    [][\A p \in Procs : Acquired(p) /\ p \notin exposed => cache[p] \subseteq cache'[p]]_vars

\* InstanceCensus never undercounts: once every running instance has counted
\* since the newest one joined, each of them divides the budget by at least
\* the number of instances running, so their shares fit the total.
CountedSinceTheNewest(p) == {q \in Procs : Acquired(q)} \subseteq basis[p]

FreshCensusCountsEveryPeer ==
    (\A p \in Procs : Acquired(p) => p \notin exposed) =>
        \A p \in Procs : Acquired(p) /\ CountedSinceTheNewest(p) =>
            proven[p] >= Cardinality({q \in Procs : Acquired(q)})

\* src/app.rs: "Acquiring the root's lock is both the liveness test and the
\* ownership transfer, so reclamation always runs as that root's legitimate
\* owner and can never race a live process."
ReclaimNeverRacesALiveProcess ==
    \A p, q \in Procs :
        /\ p # q
        /\ pc[q] = "reclaim"
        /\ cur[q][1] = p
        /\ StillOwnsItsRoot(q)
        => ~Acquired(p)
=============================================================================
