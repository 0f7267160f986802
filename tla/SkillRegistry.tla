--------------------------- MODULE SkillRegistry ---------------------------
(***************************************************************************)
(* The registry of skills (skills/registry.ts) and its semantic index      *)
(* (skills/semanticIndex.ts).  Each entry is put into a map first and      *)
(* indexed after an await of the embedder, so reloads, registrations and   *)
(* removals overlap.  A name is a skill's file, its entry in a map and its *)
(* node in the index; what it says is left out.  The index has room for so *)
(* many names, stale ones of skill-index.json among them, and lets go of   *)
(* the one that was looked at least recently.                              *)
(***************************************************************************)
EXTENDS Naturals, Sequences, FiniteSets, SequencesExt

CONSTANTS Names,       \* names of skills and patterns
          Calls,       \* calls of registerSkill() and registerPattern()
          Plan,        \* what each of them registers, [kind, name]
          Reloads,     \* performReload() calls, 1 is the constructor's
          MaxChanges,  \* bound on edits of the files, and on unregister()
          MaxSize,     \* maxSize, the names the index has room for
          Disks,       \* what there may be at first, [files, saved]: SKILL.md files,
                       \* and names in skill-index.json
          None

Kinds == {"skill", "pattern"}

RegistryBounds ==
    /\ IsFiniteSet(Names) /\ Plan \in [Calls -> [kind : Kinds, name : Names]]
    /\ Reloads = 1..Cardinality(Reloads) /\ 1 \in Reloads
    /\ MaxChanges \in Nat /\ MaxSize \in Nat \ {0} /\ None \notin Kinds
    /\ Disks \subseteq [files : SUBSET Names, saved : SUBSET Names]
    /\ \A disk \in Disks : Cardinality(disk.saved) <= MaxSize

VARIABLES files,      \* names of the SKILL.md files on disk
          skills, patterns,
          index,      \* name -> the kind it was indexed as, None when it is not
          ready,      \* the reload that this.ready is the promise of
          reload,     \* per reload: the names still to do, and its state
          call,       \* per register call: its state and the reload it awaits
          timer,      \* reloadTimeout is armed
          changes, disposed,
          onDisk,     \* the names in skill-index.json
          evicted     \* what the index let go of since it was last put there or
                      \* removed: remembered for the property, not by the code

gvars == <<files, skills, patterns, index, ready, reload, call, timer, changes,
           disposed, onDisk, evicted>>
maps == <<skills, patterns>>

Idle == [state |-> "idle", todo |-> <<>>]
ReloadStates == {"idle", "embedding", "done"}
CallStates == {"idle", "awaiting", "embedding", "done"}

GTypeOK ==
    /\ files \subseteq Names /\ skills \subseteq Names /\ patterns \subseteq Names
    /\ index \in [Names -> Kinds \cup {None}] /\ onDisk \subseteq Names
    /\ evicted \subseteq Names
    /\ ready \in Reloads /\ timer \in BOOLEAN /\ disposed \in BOOLEAN
    /\ \A r \in Reloads : reload[r].state \in ReloadStates /\ ToSet(reload[r].todo) \subseteq Names
    /\ call \in [Calls -> [state : CallStates, awaits : Reloads]]
    /\ changes \in 0..MaxChanges

Started == {r \in Reloads : reload[r].state # "idle"}
Held == {n \in Names : index[n] # None}
Unindexed(names) == [n \in Names |-> IF n \in names THEN None ELSE index[n]]

\* indexSkill() after its await: the node is set, and evictIfNeeded() lets go of
\* what is over maxSize.  A search looks at any of the nodes, so that any of them
\* may be the one least recently looked at, save the one just set.
Excess(held) == IF Cardinality(held) > MaxSize THEN Cardinality(held) - MaxSize ELSE 0
IndexSkill(name, kind) ==
    \E out \in SUBSET (Held \ {name}) :
        /\ Cardinality(out) = Excess(Held \cup {name})
        /\ index' = [Unindexed(out) EXCEPT ![name] = kind]
        /\ evicted' = (evicted \ {name}) \cup out
\* "synthesized" is not among the fields buildSkillDef copies, so every file
\* is loaded as a skill (loader.ts:107)
LoadSkillsFromDirs == SetToSeq(files)

-----------------------------------------------------------------------------
(* performReload(): clear, read the files, then one entry at a time        *)

\* What a reload clears, and the entries it puts into the map up to its
\* first await
Cleared ==
    /\ index' = Unindexed(skills \cup patterns)
    /\ evicted' = evicted \ (skills \cup patterns)
Loaded(todo) == IF todo = <<>> THEN {} ELSE {Head(todo)}
StateWith(todo) ==
    IF todo = <<>> THEN [state |-> "done", todo |-> <<>>]
    ELSE [state |-> "embedding", todo |-> todo]

Reload(r) ==
    /\ reload[r].state = "idle" /\ r = Cardinality(Started) + 1
    /\ skills' = Loaded(LoadSkillsFromDirs) /\ patterns' = {}
    /\ Cleared
    /\ reload' = [reload EXCEPT ![r] = StateWith(LoadSkillsFromDirs)]
    /\ ready' = r
    /\ UNCHANGED <<files, call, changes, disposed, onDisk>>

\* embed() answers: the node is set, and the next entry goes into the map
ReloadEmbedded(r) ==
    /\ reload[r].state = "embedding"
    /\ IndexSkill(Head(reload[r].todo), "skill")
    /\ skills' = skills \cup Loaded(Tail(reload[r].todo))
    /\ reload' = [reload EXCEPT ![r] = StateWith(Tail(reload[r].todo))]
    /\ UNCHANGED <<files, patterns, ready, call, timer, changes, disposed, onDisk>>

\* debouncedReload(): fs.watch reports a change of a SKILL.md
EditFile(name) ==
    /\ changes < MaxChanges /\ changes' = changes + 1
    /\ files' = IF name \in files THEN files \ {name} ELSE files \cup {name}
    /\ timer' = ~disposed
    /\ UNCHANGED <<maps, index, ready, reload, call, disposed, onDisk, evicted>>
Debounced == \E r \in Reloads : timer /\ timer' = FALSE /\ Reload(r)

-----------------------------------------------------------------------------
(* registerSkill(), registerPattern(), unregister()                        *)

\* registerPattern() puts the pattern into the map before it awaits, and
\* registerSkill() after
AtOnce(kind) == kind = "pattern"
Put(entry) ==
    IF entry.kind = "skill" THEN skills' = skills \cup {entry.name} /\ UNCHANGED patterns
    ELSE patterns' = patterns \cup {entry.name} /\ UNCHANGED skills

Register(c) ==
    /\ call[c].state = "idle" /\ ~disposed
    /\ IF AtOnce(Plan[c].kind) THEN Put(Plan[c]) ELSE UNCHANGED maps
    /\ call' = [call EXCEPT ![c] = [state |-> "awaiting", awaits |-> ready]]
    /\ UNCHANGED <<files, index, ready, reload, timer, changes, disposed, onDisk, evicted>>

Ready(c) ==
    /\ call[c].state = "awaiting" /\ reload[call[c].awaits].state = "done"
    /\ IF AtOnce(Plan[c].kind) THEN UNCHANGED maps ELSE Put(Plan[c])
    /\ call' = [call EXCEPT ![c].state = "embedding"]
    /\ UNCHANGED <<files, index, ready, reload, timer, changes, disposed, onDisk, evicted>>

Embedded(c) ==
    /\ call[c].state = "embedding"
    /\ IndexSkill(Plan[c].name, Plan[c].kind)
    /\ call' = [call EXCEPT ![c].state = "done"]
    /\ UNCHANGED <<files, maps, ready, reload, timer, changes, disposed, onDisk>>

Unregister(name) ==
    /\ changes < MaxChanges /\ changes' = changes + 1
    /\ skills' = skills \ {name} /\ patterns' = patterns \ {name}
    /\ index' = Unindexed({name}) /\ evicted' = evicted \ {name}
    /\ UNCHANGED <<files, ready, reload, call, timer, disposed, onDisk>>

\* dispose(): no more watchers, no timer, and what is indexed is saved
Dispose ==
    /\ ~disposed /\ disposed' = TRUE /\ timer' = FALSE
    /\ onDisk' = Held
    /\ UNCHANGED <<files, maps, index, ready, reload, call, changes, evicted>>

-----------------------------------------------------------------------------
\* What skill-index.json holds is in the index from the beginning; an index
\* of the same size has written it
LoadFromDisk == [n \in Names |-> IF n \in onDisk THEN "skill" ELSE None]

\* The constructor has started the first reload
GInit ==
    /\ \E disk \in Disks : files = disk.files /\ onDisk = disk.saved
    /\ skills = Loaded(SetToSeq(files)) /\ patterns = {}
    /\ index = LoadFromDisk
    /\ ready = 1
    /\ reload = [r \in Reloads |-> IF r = 1 THEN StateWith(SetToSeq(files)) ELSE Idle]
    /\ call = [c \in Calls |-> [state |-> "idle", awaits |-> 1]]
    /\ timer = FALSE /\ changes = 0 /\ disposed = FALSE /\ evicted = {}

GNext ==
    \/ Debounced
    \/ \E r \in Reloads : ReloadEmbedded(r)
    \/ \E c \in Calls : Register(c) \/ Ready(c) \/ Embedded(c)
    \/ \E name \in Names : EditFile(name) \/ Unregister(name)
    \/ Dispose

GFairness ==
    /\ WF_gvars(Debounced)
    /\ \A r \in Reloads : WF_gvars(ReloadEmbedded(r))
    /\ \A c \in Calls : WF_gvars(Ready(c) \/ Embedded(c))
GSpec == GInit /\ [][GNext]_gvars /\ GFairness

-----------------------------------------------------------------------------
Settled == /\ \A r \in Reloads : reload[r].state # "embedding"
           /\ \A c \in Calls : call[c].state \in {"idle", "done"}

\* Once nothing is in progress every skill and pattern of the registry can be
\* searched for, whatever reloads, registrations and removals overlapped: it is
\* in the index, unless the index has since let go of it to make room.
EverySkillIndexed ==
    Settled => \A n \in skills \cup patterns : index[n] # None \/ n \in evicted

\* The index never has more names than it has room for.
RegistrySafe == EverySkillIndexed /\ Cardinality(Held) <= MaxSize

\* What must not last: a registration, and its wait for this.ready.
Registering(c) == call[c].state \notin {"idle", "done"}
=============================================================================
