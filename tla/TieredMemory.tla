---------------------------- MODULE TieredMemory ----------------------------
(***************************************************************************)
(* The tiers of src/memory/index.ts over one scope, used by calls that may *)
(* overlap: each reads an array from the backend, changes it and writes it *)
(* back, and awaits the compressor in between.                             *)
(*                                                                         *)
(* The in-memory backend returns the array it holds, the disk backend a    *)
(* copy: heap has the arrays by holder, stored says which of them the      *)
(* backend holds, and the disk backend only ever holds "store". A message  *)
(* and the atoms it is compressed into have the identity of the call that  *)
(* appended it; what the compressor makes of messages is MemoryCompression.*)
(***************************************************************************)
EXTENDS Naturals, Sequences, FiniteSets, SequencesExt

CONSTANTS Calls, Op,                \* call -> "append", "atom" or "clear"
          History,                  \* the messages there are at first
          MaxMessages, MaxWorkingMemory,
          Absent

TieredAssumption ==
    /\ Op \in [Calls -> {"append", "atom", "clear"}]
    /\ MaxMessages \in Nat \ {0} /\ MaxWorkingMemory \in Nat \ {0}
    /\ History \in Seq(ToSet(History)) /\ Len(History) <= MaxMessages
    /\ "store" \notin Calls /\ Absent \notin Calls \cup {"store"}
    /\ \A c \in Calls : ~Contains(History, c)

VARIABLES backend, established, heap, stored, call, indexed,
          ready,     \* calls the in-memory backend has answered, in order
          overlaps   \* appends made while another was under way: remembered for
                     \* the property, not by the code

mvars == <<backend, established, heap, stored, call, indexed, ready, overlaps>>

Cells == {"l1", "l2"}
Holders == Calls \cup {"store"}
Items == Calls \cup ToSet(History)

MInit ==
    /\ backend \in {"memory", "disk"}
    /\ established \in BOOLEAN        \* the tiers have been used before
    /\ heap = [cell \in Cells |-> [h \in Holders |->
                 IF established /\ cell = "l1" /\ h = "store" THEN History ELSE <<>>]]
    /\ stored = [cell \in Cells |-> IF established THEN "store" ELSE Absent]
    /\ call = [c \in Calls |-> [at |-> "idle", holds |-> [cell \in Cells |-> c], batch |-> <<>>]]
    /\ indexed = {}                   \* the keys of the vector index
    /\ ready = <<>> /\ overlaps = {}

\* get(), and ?? []: the array itself, a copy, or a new one. What the in-memory
\* backend answers is continued with in the order of the answers, a microtask
\* each; that of the disk backend in any.
Get(c, cell, next) ==
    /\ ready' = IF backend = "memory" THEN Append(ready, c) ELSE ready
    /\ IF backend = "memory" /\ stored[cell] # Absent
       THEN /\ call' = [call EXCEPT ![c].at = next, ![c].holds[cell] = stored[cell]]
            /\ UNCHANGED heap
       ELSE /\ call' = [call EXCEPT ![c].at = next, ![c].holds[cell] = c]
            /\ heap' = [heap EXCEPT ![cell][c] = IF stored[cell] = Absent THEN <<>> ELSE heap[cell]["store"]]

Continues(c, at) ==
    /\ call[c].at = at
    /\ backend = "memory" => c = Head(ready)
    /\ ready' = IF backend = "memory" THEN Tail(ready) ELSE ready

\* set(): the backend holds the caller's array from now on, or its content.
Holding(c) == IF backend = "memory" THEN c ELSE "store"

Held(c, cell) == heap[cell][call[c].holds[cell]]

Trimmed(atoms) == SubSeq(atoms, Len(atoms) - Min({MaxWorkingMemory, Len(atoms)}) + 1, Len(atoms))

\* What must not last: a call that was made.
Ended(c) == call[c].at \in {"done", "failed"}
UnderWay(c) == call[c].at \notin {"idle", "clearing"} /\ ~Ended(c)
Appending == {c \in Calls : Op[c] = "append" /\ UnderWay(c)}

AppendMessage(c) ==
    /\ call[c].at = "idle" /\ Op[c] = "append"
    /\ Get(c, "l1", "push")
    /\ overlaps' = IF Appending = {} THEN overlaps ELSE overlaps \cup Appending \cup {c}
    /\ UNCHANGED <<backend, established, stored, indexed>>

\* history.splice: what is over the limit leaves the array at once, the very
\* array the in-memory backend holds, before it is compressed.
Overflow(history) == SubSeq(history, 1, Len(history) - Min({MaxMessages, Len(history)}))
MutRest(history) == history
Rest(history) == SubSeq(history, Len(Overflow(history)) + 1, Len(history))

Push(c) ==
    /\ Continues(c, "push")
    /\ LET history == Append(Held(c, "l1"), c)
       IN  /\ heap' = [heap EXCEPT !["l1"][call[c].holds["l1"]] = Rest(history)]
           /\ call' = [call EXCEPT ![c].batch = Overflow(history),
                                   ![c].at = IF Overflow(history) = <<>> THEN "write" ELSE "compress"]
    /\ UNCHANGED <<backend, established, stored, indexed, overlaps>>

\* compressMessages: the compressor answers, and the atoms are read.
Compressed(c) ==
    /\ call[c].at = "compress"
    /\ Get(c, "l2", "merge")
    /\ UNCHANGED <<backend, established, stored, indexed, overlaps>>

\* synthesize() changes the array it was given; what is stored is a trimmed
\* copy of it.
Merge(c) ==
    /\ Continues(c, "merge")
    /\ LET merged == Held(c, "l2") \o call[c].batch
       IN  heap' = [heap EXCEPT !["l2"][call[c].holds["l2"]] = merged,
                                !["l2"][Holding(c)] = Trimmed(merged)]
    /\ stored' = [stored EXCEPT !["l2"] = Holding(c)]
    /\ call' = [call EXCEPT ![c].at = "index"]
    /\ UNCHANGED <<backend, established, indexed, overlaps>>

\* The atoms are embedded and indexed, and the batch is compressed once more
\* for its archival chunk.
Index(c) ==
    /\ call[c].at = "index"
    /\ indexed' = indexed \cup ToSet(call[c].batch)
    /\ call' = [call EXCEPT ![c].at = "write"]
    /\ UNCHANGED <<backend, established, heap, stored, ready, overlaps>>

Write(c) ==
    /\ call[c].at = "write"
    /\ LET mine == call[c].holds["l1"]
           kept == IF backend = "memory" THEN mine ELSE "store"
       IN  /\ heap' = [heap EXCEPT !["l1"][kept] = heap["l1"][mine]]
           /\ stored' = [stored EXCEPT !["l1"] = kept]
    /\ call' = [call EXCEPT ![c].at = "done"]
    /\ UNCHANGED <<backend, established, indexed, ready, overlaps>>

\* The compressor or the embedder throws: appendMessage rejects.
CompressorFails(c) ==
    /\ call[c].at \in {"compress", "index"}
    /\ call' = [call EXCEPT ![c].at = "failed"]
    /\ UNCHANGED <<backend, established, heap, stored, indexed, ready, overlaps>>

\* setAtom, setFact
SetAtom(c) ==
    /\ call[c].at = "idle" /\ Op[c] = "atom"
    /\ Get(c, "l2", "atom")
    /\ UNCHANGED <<backend, established, stored, indexed, overlaps>>

StoreAtom(c) ==
    /\ Continues(c, "atom")
    /\ LET atoms == Append(Held(c, "l2"), c)
       IN  heap' = [heap EXCEPT !["l2"][call[c].holds["l2"]] = atoms,
                                !["l2"][Holding(c)] = Trimmed(atoms)]
    /\ stored' = [stored EXCEPT !["l2"] = Holding(c)]
    /\ call' = [call EXCEPT ![c].at = "done"]
    /\ indexed' = indexed \cup {c}
    /\ UNCHANGED <<backend, established, overlaps>>

\* clear() deletes the keys one by one, through the backend: their vectors
\* stay in the index.
Clear(c) ==
    /\ Op[c] = "clear"
    /\ \/ call[c].at = "idle" /\ call' = [call EXCEPT ![c].at = "clearing"]
          /\ stored' = [stored EXCEPT !["l1"] = Absent]
       \/ call[c].at = "clearing" /\ call' = [call EXCEPT ![c].at = "done"]
          /\ stored' = [stored EXCEPT !["l2"] = Absent]
    /\ UNCHANGED <<backend, established, heap, indexed, ready, overlaps>>

Continue(c) ==
    \/ Push(c) \/ Compressed(c) \/ Merge(c) \/ Index(c) \/ Write(c)
    \/ CompressorFails(c) \/ StoreAtom(c)

MNext == \E c \in Calls : AppendMessage(c) \/ SetAtom(c) \/ Clear(c) \/ Continue(c)

\* What is awaited settles, one way or the other.
MFairness == \A c \in Calls : WF_mvars(Continue(c))

MSpec == MInit /\ [][MNext]_mvars /\ MFairness

----------------------------------------------------------------------------

MTypeOK ==
    /\ heap \in [Cells -> [Holders -> Seq(Items)]]
    /\ stored \in [Cells -> Holders \cup {Absent}]
    /\ \A c \in Calls :
         /\ call[c].at \in {"idle", "push", "compress", "merge", "index", "write", "atom",
                            "clearing", "done", "failed"}
         /\ call[c].holds \in [Cells -> Holders]
    /\ indexed \subseteq Items /\ overlaps \subseteq Calls

Stored(cell) == IF stored[cell] = Absent THEN <<>> ELSE heap[cell][stored[cell]]
Batch(c) == ToSet(call[c].batch)

NeverCleared == \A c \in Calls : Op[c] = "clear" => call[c].at = "idle"

\* Calls that overlap on a history the in-memory backend already has work on
\* one array: every message appended is in the history or was taken out of it
\* by exactly one call, however the awaits interleave.  (What a call whose
\* compressor fails has taken out is in neither tier then.)
SharedHistoryKept ==
    (backend = "memory" /\ established /\ NeverCleared) =>
        \A c \in Calls : (Op[c] = "append" /\ call[c].at \notin {"idle", "push"}) =>
            Cardinality({b \in Calls : c \in Batch(b)}) = IF Contains(Stored("l1"), c) THEN 0 ELSE 1

\* On either backend, used before or not: what an append that no other overlapped
\* has added stays in the history until a call takes it out, whatever overlaps
\* afterwards; and on the disk backend, that call has merged it into the working
\* memory, since one that fails leaves the history as it was.  (Of appends that
\* overlap on the disk one loses the other's message.)
RemembersOneByOne ==
    NeverCleared =>
        \A c \in Calls \ overlaps : (Op[c] = "append" /\ call[c].at = "done") =>
            \/ Contains(Stored("l1"), c)
            \/ \E b \in Calls : c \in Batch(b) /\ (backend = "disk" => call[b].at = "done")

\* The tiers stay within their limits, whatever failed.
TiersBounded ==
    /\ Len(Stored("l1")) <= MaxMessages
    /\ Len(Stored("l2")) <= MaxWorkingMemory

TieredSafe == SharedHistoryKept /\ RemembersOneByOne /\ TiersBounded
=============================================================================
