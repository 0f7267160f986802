---------------------------- MODULE SessionStore ----------------------------
(***************************************************************************)
(* The SessionManager of src/session/manager.ts over the files of          *)
(* src/session/storage.ts.  A session in memory changes at once and is     *)
(* saved 500 ms after its last message, as the snapshot taken with that    *)
(* message; rename and flush save at once.  A save writes the session's    *)
(* file and then the index of all of them, each whole or not at all, and a *)
(* crash may come in between.                                              *)
(*                                                                         *)
(* A session is [id, name, count, at]: how many messages it has and when   *)
(* it was last changed.  "auto" is the name taken from the first message.  *)
(***************************************************************************)
EXTENDS Naturals, FiniteSets

CONSTANTS SessionIds, MaxTime, None

\* What is in memory, in the files and in the index
Sessions ==
    [id : SessionIds, name : {"", "auto", "renamed"}, count : Nat, at : Nat]

SessionAssumption == None \notin Sessions /\ MaxTime \in Nat

VARIABLES current,  \* the session in memory
          pending,  \* the snapshot the save timer holds
          files,    \* [SessionIds -> session]
          index,    \* index.json
          saving,   \* the save in progress between its two writes
          torn,     \* sessions whose index entry a crash kept from being written
          time,
          crossed   \* history: the current session was read from its file while the
                    \* timer held a snapshot of it, and has had no message since

svars == <<current, pending, files, index, saving, torn, time, crossed>>

Now == time + 1
Idle == saving = None
NewSession(id) == [id |-> id, name |-> "", count |-> 0, at |-> Now]

SInit ==
    /\ current = None /\ pending = None /\ saving = None /\ torn = {}
    /\ files = [id \in SessionIds |-> None]
    /\ index = [id \in SessionIds |-> None]
    /\ time = 0 /\ crossed = FALSE

Ticks == Idle /\ time < MaxTime /\ time' = Now

CreateSession(id) ==
    /\ Ticks
    /\ files[id] = None /\ index[id] = None /\ (current # None => current.id # id)
    /\ pending # None => pending.id # id
    /\ current' = NewSession(id) /\ crossed' = FALSE
    /\ UNCHANGED <<pending, files, index, saving, torn>>

\* The timer goes on with the snapshot it holds, also of this session.
ResumeSession(id) ==
    /\ Ticks /\ files[id] # None
    /\ current' = files[id]
    /\ crossed' = (pending # None /\ pending.id = id)
    /\ UNCHANGED <<pending, files, index, saving, torn>>

\* The timer that still held another session's snapshot is cleared with it.
OnMessageAdded ==
    /\ Ticks /\ current # None
    /\ current' = [current EXCEPT !.count = @ + 1, !.at = Now,
                                  !.name = IF @ = "" THEN "auto" ELSE @]
    /\ pending' = current' /\ crossed' = FALSE
    /\ UNCHANGED <<files, index, saving, torn>>

\* saveSession: the file, and then the index.
SaveFile(session) ==
    /\ files' = [files EXCEPT ![session.id] = session]
    /\ saving' = session

\* An index that takes every save for a new one's.
MutIndexed(session) == IF index[session.id] = None THEN session ELSE index[session.id]
Indexed(session) == session

SaveIndex ==
    /\ ~Idle
    /\ index' = [index EXCEPT ![saving.id] = Indexed(saving)]
    /\ saving' = None
    /\ torn' = torn \ {saving.id}
    /\ UNCHANGED <<current, pending, files, time, crossed>>

TimerFires ==
    /\ Idle /\ pending # None
    /\ SaveFile(pending)
    /\ pending' = None
    /\ UNCHANGED <<current, index, torn, time, crossed>>

\* Saved at once; a pending snapshot keeps the old name.
RenameSession ==
    /\ Ticks /\ current # None /\ current.name # "renamed"
    /\ current' = [current EXCEPT !.name = "renamed", !.at = Now]
    /\ SaveFile(current')
    /\ UNCHANGED <<pending, index, torn, crossed>>

FlushSync ==
    /\ Idle /\ (pending # None \/ current # None)
    /\ pending' = None /\ crossed' = FALSE
    /\ IF current # None /\ current.count > 0 THEN SaveFile(current)
       ELSE UNCHANGED <<files, saving>>
    /\ UNCHANGED <<current, index, torn, time>>

\* deleteSession(): the file, and then the index, if no crash comes first.
DeleteSession(id) ==
    /\ Idle /\ files[id] # None
    /\ files' = [files EXCEPT ![id] = None]
    /\ \/ /\ index' = [index EXCEPT ![id] = None]
          /\ torn' = torn \ {id}
          /\ UNCHANGED <<current, pending, crossed>>
       \/ /\ current' = None /\ pending' = None /\ crossed' = FALSE
          /\ torn' = torn \cup {id}
          /\ UNCHANGED index
    /\ UNCHANGED <<saving, time>>

Crash ==
    /\ current # None \/ pending # None
    /\ current' = None /\ pending' = None /\ saving' = None /\ crossed' = FALSE
    /\ torn' = IF Idle THEN torn ELSE torn \cup {saving.id}
    /\ UNCHANGED <<files, index, time>>

SNext ==
    \/ \E id \in SessionIds : CreateSession(id) \/ ResumeSession(id) \/ DeleteSession(id)
    \/ OnMessageAdded \/ SaveIndex \/ TimerFires \/ RenameSession \/ FlushSync \/ Crash

SSpec == SInit /\ [][SNext]_svars

\* Timers fire, and a save goes on to the index.
SFairness == WF_svars(SaveIndex) /\ WF_svars(TimerFires)

-----------------------------------------------------------------------------
(***************************************************************************)
(* Properties                                                              *)
(***************************************************************************)
STypeOK ==
    /\ {current, pending, saving} \subseteq Sessions \cup {None}
    /\ \A id \in SessionIds : \A s \in {files[id], index[id]} \ {None} :
           s \in Sessions /\ s.id = id
    /\ torn \subseteq SessionIds /\ time \in 0..MaxTime /\ crossed \in BOOLEAN

\* What the current session has that its existing file has not is about to be
\* saved, whatever was created, resumed or renamed while the timer ran: but for
\* a session that was resumed while its own snapshot waited, which can have
\* fewer messages than the file and is saved over it.
NothingUnsaved ==
    LET file == files[current.id]
    IN current # None /\ ~crossed /\ file # None /\ current.count > file.count =>
           pending # None /\ pending.id = current.id /\ pending.count >= current.count

\* Between two saves the index lists what the files hold; it can only be
\* wrong of a session whose save or delete a crash cut off, and no longer
\* than until that session is saved again.
IndexAgrees ==
    Idle => \A id \in SessionIds \ torn : index[id] = files[id]

SessionSafe == NothingUnsaved /\ IndexAgrees

\* What must not last: a snapshot is written, or another one replaces it.
Unwritten == pending # None

=============================================================================
