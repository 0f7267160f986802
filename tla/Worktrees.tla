----------------------------- MODULE Worktrees -----------------------------
(***************************************************************************)
(* The git worktrees of isolated agents (swarm/worktree.ts, and            *)
(* swarm/graph-executor.ts, which creates one before an agent runs and     *)
(* removes it after).  The commands are synchronous, so that within the    *)
(* process an agent's commands are not interleaved with another's, but the *)
(* process may die between two of them, and any of them may fail.  A       *)
(* swarm that is resumed uses the names of the one that died.              *)
(***************************************************************************)
EXTENDS Integers

CONSTANTS Agents,      \* the agents of the swarm with isolation
          SafeName,    \* SafeName[a]: swarm and agent, sanitized and cut to 60
                       \* characters, so that two agents may have one name
          Foreign,     \* branches of these names that are not the swarm's
          MaxCrashes,  \* bound: how often the process dies
          MaxFailures  \* bound: how many commands fail without a reason of the model's

WorktreeBounds == MaxCrashes \in Nat /\ MaxFailures \in Nat

VARIABLES dirs,        \* the worktree directories in the temporary directory
          registered,  \* the worktrees git knows of
          branches,
          work,        \* what has become of each agent's worktree
          displaced,   \* history: agents whose worktree was taken for a stale one
          crashes, failures
tvars == <<dirs, registered, branches, work, displaced, crashes, failures>>

Name(a) == SafeName[a]
Steps == {"adding", "pruning", "unbranching"}
Quiet == \A a \in Agents : work[a] \notin Steps       \* no agent is between two commands
At(a, step) == work' = [work EXCEPT ![a] = step]

\* A command that fails for a reason of its own (a lock, the disk)
Fails == failures < MaxFailures /\ failures' = failures + 1

TInit ==
    /\ dirs = {} /\ registered = {} /\ branches = Foreign
    /\ work = [a \in Agents |-> "none"] /\ displaced = {}
    /\ crashes = 0 /\ failures = 0

-----------------------------------------------------------------------------
(* createWorktree(): the directory a crash left is removed, by git or else *)
(* by hand; then the worktree is added on a new branch                     *)

GitRemove(a) ==
    /\ Name(a) \in registered
    /\ dirs' = dirs \ {Name(a)} /\ registered' = registered \ {Name(a)}
    /\ UNCHANGED failures
RemoveByHand(a) ==       \* git worktree remove failed
    /\ IF Name(a) \in registered THEN Fails ELSE UNCHANGED failures
    /\ dirs' = dirs \ {Name(a)}
    /\ UNCHANGED registered

\* Those at work in the directory of that name, which is not stale then
InUse(a) == {b \in Agents : work[b] = "isolated" /\ Name(b) = Name(a) /\ Name(a) \in dirs}

CleanStale(a) ==
    /\ Quiet /\ work[a] = "none"
    /\ IF Name(a) \in dirs THEN GitRemove(a) \/ RemoveByHand(a)
       ELSE UNCHANGED <<dirs, registered, failures>>
    /\ displaced' = displaced \cup InUse(a)
    /\ At(a, "adding")
    /\ UNCHANGED <<branches, crashes>>

MutRefused(a) == Name(a) \in registered
Refused(a) == Name(a) \in branches \cup registered
AddWorktree(a) ==
    /\ work[a] = "adding" /\ ~Refused(a)
    /\ dirs' = dirs \cup {Name(a)}
    /\ registered' = registered \cup {Name(a)} /\ branches' = branches \cup {Name(a)}
    /\ At(a, "isolated")
    /\ UNCHANGED <<displaced, crashes, failures>>
\* "worktree-error": the agent runs in the repository itself
AddFails(a) ==
    /\ work[a] = "adding"
    /\ IF Refused(a) THEN UNCHANGED failures ELSE Fails
    /\ At(a, "bare")
    /\ UNCHANGED <<dirs, registered, branches, displaced, crashes>>

-----------------------------------------------------------------------------
(* remove(): three commands, none of which stops the next                  *)

RemoveDirectory(a) ==
    /\ Quiet /\ work[a] = "isolated"
    /\ \/ GitRemove(a)
       \/ RemoveByHand(a)
       \/ Fails /\ UNCHANGED <<dirs, registered>>       \* nor by hand
    /\ At(a, "pruning")
    /\ UNCHANGED <<branches, displaced, crashes>>
Prune(a) ==
    /\ work[a] = "pruning"
    /\ \/ registered' = registered \cap dirs /\ UNCHANGED failures
       \/ Fails /\ UNCHANGED registered
    /\ At(a, "unbranching")
    /\ UNCHANGED <<dirs, branches, displaced, crashes>>
DeleteBranch(a) ==       \* git refuses while a worktree has it checked out
    /\ work[a] = "unbranching"
    /\ \/ /\ branches' = IF Name(a) \in registered THEN branches ELSE branches \ {Name(a)}
          /\ UNCHANGED failures
       \/ Fails /\ UNCHANGED branches
    /\ At(a, "removed")
    /\ UNCHANGED <<dirs, registered, displaced, crashes>>

\* The process dies; the swarm is resumed, and its agents begin again
Dies ==
    /\ crashes < MaxCrashes /\ crashes' = crashes + 1
    /\ work' = [a \in Agents |-> "none"] /\ displaced' = {}
    /\ UNCHANGED <<dirs, registered, branches, failures>>

TNext ==
    \/ \E a \in Agents : \/ CleanStale(a) \/ AddWorktree(a) \/ AddFails(a)
                         \/ RemoveDirectory(a) \/ Prune(a) \/ DeleteBranch(a)
    \/ Dies
TSpec == TInit /\ [][TNext]_tvars

TTypeOK ==
    /\ dirs \cup registered \subseteq {Name(a) : a \in Agents}
    /\ branches \subseteq Foreign \cup {Name(a) : a \in Agents}
    /\ work \in [Agents -> Steps \cup {"none", "isolated", "bare", "removed"}]
    /\ displaced \subseteq Agents
    /\ crashes \in 0..MaxCrashes /\ failures \in 0..MaxFailures

-----------------------------------------------------------------------------
\* While an agent works in its worktree its branch is there, and the directory
\* and git's record of it, whatever other agents create and remove and whatever
\* a crashed run has left, unless an agent whose name is the same when cut began
\* in the meantime: that one takes the directory for a stale one and removes it
\* (worktree.ts:64-83).
WorktreeKept ==
    \A a \in Agents : work[a] = "isolated" =>
        /\ Name(a) \in branches
        /\ a \in displaced \/ Name(a) \in dirs \cap registered

\* Two agents never work in one worktree, or on one branch, whatever their names
\* and the failures and crashes: the second of a name is refused the branch and
\* works in the repository itself (worktree.ts:80).
OneToAWorktree ==
    \A a, b \in Agents :
        work[a] = "isolated" /\ work[b] = "isolated" /\ Name(a) = Name(b) => a = b

\* A branch of that name that somebody else made is never deleted
\* (worktree.ts:80, 111: the branch is always a new one).
ForeignBranchesKept == Foreign \subseteq branches

WorktreesSafe == WorktreeKept /\ OneToAWorktree /\ ForeignBranchesKept
=============================================================================
