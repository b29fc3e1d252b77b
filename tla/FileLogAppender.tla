-------------------------- MODULE FileLogAppender ---------------------------
(***************************************************************************)
(* FileLogAppender (log.cpp): an std::ofstream that appends to a file,     *)
(* reopened by the first event of every second so that a file that was     *)
(* deleted or renamed comes back.  time(0), the test of m_lastTime and its *)
(* assignment are outside the appender's lock; reopen() and the write take *)
(* it.  Threads meet in one appender when two loggers share it.            *)
(*                                                                         *)
(* The stream is libstdc++'s: what is written stays in a buffer until that *)
(* is full or the file is closed, a failed write makes the stream bad,     *)
(* open() fails if a file is open, and makes the stream good if it         *)
(* succeeds.  The clock does not run backwards.  Files are numbers, in the *)
(* order of their creation, and so are events.                             *)
(***************************************************************************)
EXTENDS Naturals, Sequences, SequencesExt

CONSTANTS
  Callers,      \* threads that log
  Capacity,     \* events that fit into the buffer
  MaxTime,      \* bound: seconds
  MaxEvents,    \* bound: events
  MaxFaults,    \* bound: deletions of the file, and faults of the disk
  Null

ASSUME FileLogAppenderAssumption ==
  /\ Capacity \in Nat
  /\ MaxTime \in Nat /\ MaxEvents \in Nat /\ MaxFaults \in Nat
  /\ Null \notin Nat

VARIABLES
  m_lastTime,
  good,         \* !!m_filestream
  inode,        \* the file that the stream has open, or Null
  buffer,       \* events in the stream's buffer
  named,        \* the file that m_filename names, or Null
  content,      \* the events in each file
  clock,        \* time(0)
  disk,         \* "ok", "full": writes fail, or "denied": open() fails
  tried,        \* when reopen() was last called
  troubled,     \* when the file or the disk last changed
  wedged,       \* a write has failed
  lost,         \* an accepted event was lost
  faults, events,
  pc, now       \* where each thread is, and the time it read

streamVars == <<good, inode, buffer, named, content, tried, wedged, lost,
                events>>
worldVars == <<clock, disk, troubled, faults>>
vars == <<m_lastTime, streamVars, worldVars, pc, now>>

TypeOK ==
  /\ m_lastTime \in Nat /\ clock \in Nat /\ tried \in Nat /\ troubled \in Nat
  /\ good \in BOOLEAN /\ wedged \in BOOLEAN /\ lost \in BOOLEAN
  /\ content \in Seq(Seq(Nat))
  /\ inode \in DOMAIN content \cup {Null}
  /\ named \in DOMAIN content \cup {Null}
  /\ buffer \in Seq(Nat)
  /\ disk \in {"ok", "full", "denied"}
  /\ faults \in Nat /\ events \in Nat
  /\ pc \in [Callers -> {"idle", "test", "reopen", "set", "write"}]
  /\ now \in [Callers -> Nat]

\* The constructor has called reopen(); m_lastTime is still 0.
Init ==
  /\ clock = 1 /\ tried = 1 /\ m_lastTime = 0 /\ troubled = 0
  /\ disk \in {"ok", "denied"}
  /\ good = (disk = "ok")
  /\ content = IF disk = "ok" THEN << <<>> >> ELSE <<>>
  /\ inode = IF disk = "ok" THEN 1 ELSE Null
  /\ named = inode
  /\ buffer = <<>> /\ wedged = FALSE /\ lost = FALSE
  /\ faults = 0 /\ events = 0
  /\ pc = [c \in Callers |-> "idle"]
  /\ now = [c \in Callers |-> 0]

-----------------------------------------------------------------------------
(***************************************************************************)
(* log() and reopen().                                                     *)
(***************************************************************************)

GoTo(c, label) == pc' = [pc EXCEPT ![c] = label]

\* log() of an event that is not below m_level: now = time(0).
Log(c) ==
  /\ pc[c] = "idle"
  /\ events < MaxEvents
  /\ now' = [now EXCEPT ![c] = clock]
  /\ GoTo(c, "test")
  /\ UNCHANGED <<m_lastTime, streamVars, worldVars>>

\* Mutant of Test: m_lastTime is set before the file is reopened.
TestAndSet(c) ==
  /\ pc[c] = "test"
  /\ m_lastTime' = now[c]
  /\ GoTo(c, IF now[c] # m_lastTime THEN "reopen" ELSE "write")
  /\ UNCHANGED <<streamVars, worldVars, now>>

\* if(now != m_lastTime)
Test(c) ==
  /\ pc[c] = "test"
  /\ GoTo(c, IF now[c] # m_lastTime THEN "reopen" ELSE "write")
  /\ UNCHANGED <<m_lastTime, streamVars, worldVars, now>>

\* The files after the buffer was written to the open one, if it can be.
Flushed == IF disk = "full" THEN content
           ELSE [content EXCEPT ![inode] = @ \o buffer]

\* open() of m_filename, for appending, with the files fs.
Open(fs) ==
  /\ disk # "denied"
  /\ good' = TRUE
  /\ named' = IF named = Null THEN Len(fs) + 1 ELSE named
  /\ inode' = named'
  /\ content' = IF named = Null THEN Append(fs, <<>>) ELSE fs

\* Mutant of CloseAndOpen: the buffer is given up.
CloseAndOpenUnflushed ==
  /\ good
  /\ buffer' = <<>>
  /\ lost' = lost
  /\ \/ Open(content)
     \/ /\ disk = "denied"
        /\ good' = FALSE
        /\ inode' = Null
        /\ UNCHANGED <<named, content>>

\* The stream is good: close() with a flush, then open().
CloseAndOpen ==
  /\ good
  /\ buffer' = <<>>
  /\ lost' = (lost \/ (disk = "full" /\ buffer # <<>>))
  /\ \/ Open(Flushed)
     \/ /\ disk = "denied"
        /\ good' = FALSE
        /\ inode' = Null
        /\ content' = Flushed
        /\ UNCHANGED named

\* The stream is bad: open() alone, which fails if a file is still open.
OpenOnly ==
  /\ ~good
  /\ \/ inode = Null /\ Open(content)
     \/ (inode # Null \/ disk = "denied") /\ UNCHANGED <<good, inode, named, content>>
  /\ UNCHANGED <<buffer, lost>>

\* reopen(), under the lock.
reopen(c) ==
  /\ pc[c] = "reopen"
  /\ CloseAndOpen \/ OpenOnly
  /\ tried' = clock
  /\ GoTo(c, "set")
  /\ UNCHANGED <<m_lastTime, worldVars, wedged, events, now>>

\* m_lastTime = now
SetLastTime(c) ==
  /\ pc[c] = "set"
  /\ m_lastTime' = now[c]
  /\ GoTo(c, "write")
  /\ UNCHANGED <<streamVars, worldVars, now>>

\* The event goes into the buffer, under the lock.
WriteBuffer(c) ==
  /\ pc[c] = "write"
  /\ good /\ Len(buffer) < Capacity
  /\ events' = events + 1
  /\ buffer' = Append(buffer, events')
  /\ GoTo(c, "idle")
  /\ UNCHANGED <<m_lastTime, good, inode, named, content, tried, wedged, lost,
                 worldVars, now>>

\* The buffer is full: it and the event go to the file, or the stream goes bad.
WriteThrough(c) ==
  /\ pc[c] = "write"
  /\ good /\ Len(buffer) >= Capacity
  /\ \/ /\ disk # "full"
        /\ events' = events + 1
        /\ content' = [content EXCEPT ![inode] = @ \o Append(buffer, events')]
        /\ buffer' = <<>>
        /\ UNCHANGED <<good, wedged>>
     \/ /\ disk = "full"
        /\ good' = FALSE /\ wedged' = TRUE
        /\ UNCHANGED <<events, content, buffer>>
  /\ GoTo(c, "idle")
  /\ UNCHANGED <<m_lastTime, inode, named, tried, lost, worldVars, now>>

\* A bad stream writes nothing; "error" is printed.
WriteError(c) ==
  /\ pc[c] = "write"
  /\ ~good
  /\ GoTo(c, "idle")
  /\ UNCHANGED <<m_lastTime, streamVars, worldVars, now>>

-----------------------------------------------------------------------------
(***************************************************************************)
(* The clock, the file system and the people who rotate log files.         *)
(***************************************************************************)

Tick ==
  /\ clock < MaxTime
  /\ clock' = clock + 1
  /\ UNCHANGED <<m_lastTime, streamVars, disk, troubled, faults, pc, now>>

\* The file is deleted, or renamed; the open stream keeps it.
Delete ==
  /\ named # Null
  /\ faults < MaxFaults
  /\ named' = Null
  /\ troubled' = clock
  /\ faults' = faults + 1
  /\ UNCHANGED <<m_lastTime, good, inode, buffer, content, tried, wedged, lost,
                 events, clock, disk, pc, now>>

DiskFault(d) ==
  /\ disk = "ok"
  /\ faults < MaxFaults
  /\ disk' = d
  /\ troubled' = clock
  /\ faults' = faults + 1
  /\ UNCHANGED <<m_lastTime, streamVars, clock, pc, now>>

DiskRepair ==
  /\ disk # "ok"
  /\ disk' = "ok"
  /\ troubled' = clock
  /\ UNCHANGED <<m_lastTime, streamVars, clock, faults, pc, now>>

LogStep(c) ==
  \/ Log(c) \/ Test(c) \/ reopen(c) \/ SetLastTime(c)
  \/ WriteBuffer(c) \/ WriteThrough(c) \/ WriteError(c)

World ==
  Tick \/ Delete \/ DiskRepair \/ \E d \in {"full", "denied"} : DiskFault(d)

Next == World \/ \E c \in Callers : LogStep(c)

Spec == Init /\ [][Next]_vars

-----------------------------------------------------------------------------

\* What reopening once a second is for (log.cpp:400-403): an event of a second in
\* which neither the file nor the disk was touched goes to the file that
\* m_filename names, whatever happened to it in earlier seconds and whichever
\* thread reopened it, unless a write has failed before: reopen() closes only a good
\* stream, so a bad one that has a file cannot open another.
Delivered ==
  \A c \in Callers :
    pc[c] = "write" /\ disk = "ok" /\ troubled < now[c] /\ ~wedged =>
      good /\ inode = named /\ named # Null

\* An event that was accepted without an error is in a file or in the buffer,
\* once and in order, across reopening, deletion and faults, unless close() had
\* no room for the buffer (log.cpp:432-433).
Complete ==
  ~lost => FlattenSeq(content) \o buffer = [k \in 1..events |-> k]

=============================================================================
