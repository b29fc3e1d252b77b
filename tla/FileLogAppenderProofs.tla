----------------------- MODULE FileLogAppenderProofs ------------------------
(***************************************************************************)
(* Theorems about FileLogAppender, for any number of threads, seconds,     *)
(* events and faults.                                                      *)
(***************************************************************************)
EXTENDS FileLogAppender, SequenceLemmas

\* Times: m_lastTime is never later than the last reopen(), and a thread that is
\* past its reopen(), or did not need one, logs an event that is not either.
TimesOK ==
  /\ m_lastTime <= tried
  /\ tried <= clock
  /\ troubled <= clock
  /\ \A c \in Callers :
       /\ now[c] <= clock
       /\ pc[c] \in {"set", "write"} => now[c] <= tried

\* The stream: a good one has a file; a bad one has one only after a failed
\* write, and then for ever; and since a reopen() that came after all trouble
\* the open file is the named one.
StreamOK ==
  /\ good => inode # Null
  /\ wedged => ~good /\ inode # Null
  /\ ~wedged => good \/ inode = Null
  /\ ~wedged /\ disk = "ok" /\ troubled < tried =>
       good /\ inode = named /\ named # Null

IInv == TypeOK /\ TimesOK /\ StreamOK

-----------------------------------------------------------------------------

\* Writing the buffer to the open file keeps the files a sequence of sequences,
\* with as many files.
LEMMA FlushedType ==
  ASSUME TypeOK, inode # Null
  PROVE  /\ Flushed \in Seq(Seq(Nat))
         /\ DOMAIN Flushed = DOMAIN content
<1>1. inode \in 1..Len(content) /\ content \in Seq(Seq(Nat))
  BY DEF TypeOK
<1>2. content[inode] \o buffer \in Seq(Nat)
  BY <1>1, ElementOfSeq DEF TypeOK
<1>3. [content EXCEPT ![inode] = @ \o buffer] \in Seq(Seq(Nat))
  BY <1>1, <1>2, ExceptSeq
<1>. QED
  BY <1>1, <1>3 DEF Flushed

\* open() keeps the types, and opens the file that the name has afterwards.
LEMMA OpenType ==
  ASSUME TypeOK, NEW fs \in Seq(Seq(Nat)), DOMAIN fs = DOMAIN content, Open(fs)
  PROVE  /\ good' \in BOOLEAN
         /\ content' \in Seq(Seq(Nat))
         /\ inode' \in DOMAIN content'
         /\ named' \in DOMAIN content'
         /\ inode' = named'
         /\ named' # Null
<1>1. Len(fs) \in Nat /\ DOMAIN fs = 1..Len(fs)
  OBVIOUS
<1>2. CASE named = Null
  <2>1. content' = Append(fs, <<>>) /\ named' = Len(fs) + 1
    BY <1>2 DEF Open
  <2>2. <<>> \in Seq(Nat)
    OBVIOUS
  <2>3. content' \in Seq(Seq(Nat)) /\ Len(content') = Len(fs) + 1
    BY <2>1, <2>2
  <2>4. DOMAIN content' = 1..Len(content')
    BY <2>3
  <2>. QED
    BY <1>1, <2>1, <2>3, <2>4, FileLogAppenderAssumption DEF Open
<1>3. CASE named # Null
  BY <1>1, <1>3 DEF Open, TypeOK
<1>. QED
  BY <1>2, <1>3

\* The constructor has called reopen(), which may have been refused a file.
LEMMA InitIInv == Init => IInv
<1>. SUFFICES ASSUME Init PROVE IInv
  OBVIOUS
<1>1. /\ content \in Seq(Seq(Nat))
      /\ inode \in DOMAIN content \cup {Null}
      /\ named \in DOMAIN content \cup {Null}
  <2>1. CASE disk = "ok"
    <3>1. content = << <<>> >> /\ inode = 1 /\ named = 1
      BY <2>1 DEF Init
    <3>. QED
      BY <3>1
  <2>2. CASE disk # "ok"
    <3>1. content = <<>> /\ inode = Null /\ named = Null
      BY <2>2 DEF Init
    <3>. QED
      BY <3>1
  <2>. QED
    BY <2>1, <2>2
<1>2. TypeOK
  <2>1. good \in BOOLEAN /\ wedged \in BOOLEAN /\ lost \in BOOLEAN
    BY Zenon DEF Init
  <2>2. pc \in [Callers -> {"idle", "test", "reopen", "set", "write"}]
    BY DEF Init
  <2>3. now \in [Callers -> Nat] /\ buffer \in Seq(Nat)
    BY DEF Init
  <2>4. disk \in {"ok", "full", "denied"}
    BY DEF Init
  <2>5. /\ m_lastTime \in Nat /\ clock \in Nat /\ tried \in Nat /\ troubled \in Nat
        /\ faults \in Nat /\ events \in Nat
    BY DEF Init
  <2>. QED
    BY <1>1, <2>1, <2>2, <2>3, <2>4, <2>5 DEF TypeOK
<1>3. TimesOK
  BY DEF Init, TimesOK
<1>4. StreamOK
  <2>1. wedged = FALSE /\ named = inode
    BY DEF Init
  <2>2. CASE disk = "ok"
    <3>1. good = TRUE /\ inode = 1
      BY <2>2 DEF Init
    <3>2. inode # Null
      BY <3>1, FileLogAppenderAssumption
    <3>. QED
      BY <2>1, <3>1, <3>2, Zenon DEF StreamOK
  <2>3. CASE disk # "ok"
    <3>1. good = FALSE /\ inode = Null
      BY <2>3, Zenon DEF Init
    <3>. QED
      BY <2>1, <2>3, <3>1, Zenon DEF StreamOK
  <2>. QED
    BY <2>2, <2>3
<1>. QED
  BY <1>2, <1>3, <1>4 DEF IInv

\* reopen() preserves the invariant: this is where a file comes back.
LEMMA ReopenIInv ==
  ASSUME IInv, NEW c \in Callers, reopen(c)
  PROVE  IInv'
<1>. USE DEF IInv
<1>1. /\ pc' = [pc EXCEPT ![c] = "set"] /\ tried' = clock
      /\ UNCHANGED <<m_lastTime, worldVars, wedged, events, now>>
  BY DEF reopen, GoTo
<1>2. CASE CloseAndOpen
  <2>1. good /\ inode # Null /\ ~wedged
    BY <1>2 DEF CloseAndOpen, StreamOK
  <2>2. Flushed \in Seq(Seq(Nat)) /\ DOMAIN Flushed = DOMAIN content
    BY <2>1, FlushedType
  <2>3. /\ buffer' = <<>>
        /\ lost' = (lost \/ (disk = "full" /\ buffer # <<>>))
    BY <1>2 DEF CloseAndOpen
  <2>4. CASE Open(Flushed)
    <3>1. /\ good' = TRUE /\ content' \in Seq(Seq(Nat))
          /\ inode' \in DOMAIN content' /\ named' \in DOMAIN content'
          /\ inode' = named' /\ named' # Null
      BY <2>2, <2>4, OpenType DEF Open
    <3>2. TypeOK'
      BY SMTT(30), <1>1, <2>3, <3>1 DEF TypeOK, worldVars
    <3>3. TimesOK'
      BY <1>1 DEF TypeOK, TimesOK, worldVars
    <3>4. StreamOK'
      BY <1>1, <2>1, <3>1 DEF StreamOK, worldVars
    <3>. QED
      BY <3>2, <3>3, <3>4
  <2>5. CASE /\ disk = "denied"
             /\ good' = FALSE /\ inode' = Null /\ content' = Flushed
             /\ UNCHANGED named
    <3>1. TypeOK'
      <4>1. good' \in BOOLEAN /\ wedged' \in BOOLEAN /\ lost' \in BOOLEAN
        BY <1>1, <2>3, <2>5, Zenon DEF TypeOK
      <4>2. /\ content' \in Seq(Seq(Nat))
            /\ inode' \in DOMAIN content' \cup {Null}
            /\ named' \in DOMAIN content' \cup {Null}
        BY <2>2, <2>5 DEF TypeOK
      <4>. QED
        BY SMTT(30), <1>1, <2>3, <4>1, <4>2 DEF TypeOK, worldVars
    <3>2. TimesOK'
      BY <1>1 DEF TypeOK, TimesOK, worldVars
    <3>3. StreamOK'
      BY <1>1, <2>1, <2>5 DEF StreamOK, worldVars
    <3>. QED
      BY <3>1, <3>2, <3>3
  <2>. QED
    BY <1>2, <2>4, <2>5 DEF CloseAndOpen
<1>3. CASE OpenOnly
  <2>1. ~good /\ buffer' = buffer /\ lost' = lost
    BY <1>3 DEF OpenOnly
  <2>2. CASE inode = Null /\ Open(content)
    <3>1. content \in Seq(Seq(Nat))
      BY DEF TypeOK
    <3>2. /\ good' = TRUE /\ content' \in Seq(Seq(Nat))
          /\ inode' \in DOMAIN content' /\ named' \in DOMAIN content'
          /\ inode' = named' /\ named' # Null
      BY <2>2, <3>1, OpenType DEF Open
    <3>3. TypeOK'
      BY <1>1, <2>1, <3>2 DEF TypeOK, worldVars
    <3>4. TimesOK'
      BY <1>1 DEF TypeOK, TimesOK, worldVars
    <3>5. StreamOK'
      BY <1>1, <2>2, <3>2 DEF StreamOK, worldVars
    <3>. QED
      BY <3>3, <3>4, <3>5
  <2>3. CASE /\ inode # Null \/ disk = "denied"
             /\ UNCHANGED <<good, inode, named, content>>
    <3>1. TypeOK'
      BY <1>1, <2>1, <2>3 DEF TypeOK, worldVars
    <3>2. TimesOK'
      BY <1>1 DEF TypeOK, TimesOK, worldVars
    <3>3. StreamOK'
      BY <1>1, <2>1, <2>3 DEF StreamOK, worldVars
    <3>. QED
      BY <3>1, <3>2, <3>3
  <2>. QED
    BY <1>3, <2>2, <2>3 DEF OpenOnly
<1>. QED
  BY <1>2, <1>3 DEF reopen

\* Writing through a full buffer preserves the invariant.
LEMMA WriteThroughIInv ==
  ASSUME IInv, NEW c \in Callers, WriteThrough(c)
  PROVE  IInv'
<1>. USE DEF IInv
<1>1. /\ good /\ inode # Null /\ inode \in DOMAIN content
      /\ pc' = [pc EXCEPT ![c] = "idle"]
      /\ UNCHANGED <<m_lastTime, inode, named, tried, lost, worldVars, now>>
  BY DEF WriteThrough, GoTo, StreamOK, TypeOK
<1>2. CASE disk = "full"
  <2>1. /\ good' = FALSE /\ wedged' = TRUE
        /\ UNCHANGED <<events, content, buffer>>
    BY <1>2 DEF WriteThrough
  <2>2. TypeOK'
    BY <1>1, <2>1 DEF TypeOK, worldVars
  <2>3. TimesOK'
    BY <1>1 DEF TypeOK, TimesOK, worldVars
  <2>4. StreamOK'
    BY <1>1, <2>1 DEF StreamOK, worldVars
  <2>. QED
    BY <2>2, <2>3, <2>4
<1>3. CASE disk # "full"
  <2>1. /\ events' = events + 1
        /\ content' = [content EXCEPT ![inode] = @ \o Append(buffer, events')]
        /\ buffer' = <<>>
        /\ good' = good /\ wedged' = wedged
    BY <1>3 DEF WriteThrough
  <2>2. events' \in Nat
    BY SMTT(30), <2>1 DEF TypeOK
  <2>3. Append(buffer, events') \in Seq(Nat)
    BY <2>2 DEF TypeOK
  <2>4. content \in Seq(Seq(Nat)) /\ inode \in 1..Len(content)
    BY <1>1 DEF TypeOK
  <2>5. content[inode] \o Append(buffer, events') \in Seq(Nat)
    BY <2>3, <2>4, ElementOfSeq
  <2>6. content' \in Seq(Seq(Nat))
    BY <2>1, <2>4, <2>5, ExceptSeq
  <2>7. DOMAIN content' = DOMAIN content
    BY <2>1, <2>4
  <2>8. TypeOK'
    BY SMTT(30), <1>1, <2>1, <2>2, <2>6, <2>7 DEF TypeOK, worldVars
  <2>9. TimesOK'
    BY <1>1 DEF TypeOK, TimesOK, worldVars
  <2>10. StreamOK'
    BY <1>1, <2>1 DEF StreamOK, worldVars
  <2>. QED
    BY <2>8, <2>9, <2>10
<1>. QED
  BY <1>2, <1>3

\* Every step of a log() and of the world preserves the invariant.
LEMMA NextIInv == IInv /\ [Next]_vars => IInv'
<1>. SUFFICES ASSUME IInv, [Next]_vars PROVE IInv'
  OBVIOUS
<1>. USE DEF IInv
<1>1. ASSUME NEW c \in Callers, Log(c) PROVE IInv'
  BY <1>1 DEF Log, GoTo, streamVars, worldVars, TypeOK, TimesOK, StreamOK
<1>2. ASSUME NEW c \in Callers, Test(c) PROVE IInv'
  BY <1>2 DEF Test, GoTo, streamVars, worldVars, TypeOK, TimesOK, StreamOK
<1>3. ASSUME NEW c \in Callers, reopen(c) PROVE IInv'
  BY <1>3, ReopenIInv
<1>4. ASSUME NEW c \in Callers, SetLastTime(c) PROVE IInv'
  BY <1>4 DEF SetLastTime, GoTo, streamVars, worldVars, TypeOK, TimesOK, StreamOK
<1>5. ASSUME NEW c \in Callers, WriteBuffer(c) PROVE IInv'
  <2>1. events' \in Nat /\ buffer' \in Seq(Nat)
    BY <1>5 DEF WriteBuffer, TypeOK
  <2>. QED
    BY <1>5, <2>1 DEF WriteBuffer, GoTo, worldVars, TypeOK, TimesOK, StreamOK
<1>6. ASSUME NEW c \in Callers, WriteThrough(c) PROVE IInv'
  BY <1>6, WriteThroughIInv
<1>7. ASSUME NEW c \in Callers, WriteError(c) PROVE IInv'
  BY <1>7 DEF WriteError, GoTo, streamVars, worldVars, TypeOK, TimesOK, StreamOK
<1>8. CASE Tick
  BY <1>8 DEF Tick, streamVars, TypeOK, TimesOK, StreamOK
<1>9. CASE Delete
  BY <1>9 DEF Delete, TypeOK, TimesOK, StreamOK
<1>10. ASSUME NEW d \in {"full", "denied"}, DiskFault(d) PROVE IInv'
  BY <1>10 DEF DiskFault, streamVars, TypeOK, TimesOK, StreamOK
<1>11. CASE DiskRepair
  BY <1>11 DEF DiskRepair, streamVars, TypeOK, TimesOK, StreamOK
<1>12. CASE UNCHANGED vars
  BY <1>12 DEF vars, streamVars, worldVars, TypeOK, TimesOK, StreamOK
<1>. QED
  BY <1>1, <1>2, <1>3, <1>4, <1>5, <1>6, <1>7, <1>8, <1>9, <1>10, <1>11, <1>12
  DEF Next, World, LogStep

\* So it holds in every reachable state.
LEMMA Invariance == Spec => []IInv
  BY InitIInv, NextIInv, PTL DEF Spec

-----------------------------------------------------------------------------

\* In every reachable state an event of a second without trouble is about to be
\* written to the named file, unless a write has failed (log.cpp:397-411).
THEOREM DeliveredAlways == Spec => []Delivered
<1>1. IInv => Delivered
  BY DEF IInv, TypeOK, TimesOK, StreamOK, Delivered
<1>. QED
  BY <1>1, Invariance, PTL

-----------------------------------------------------------------------------

\* Files are only made by open(), so the one that the stream has and the one that
\* has the name are the last.
LastOK ==
  /\ inode # Null => inode = Len(content)
  /\ named # Null => named = Len(content)

\* One event more.
LEMMA CountAppend ==
  ASSUME NEW n \in Nat
  PROVE  /\ [k \in 1..n |-> k] \in Seq(Nat)
         /\ Append([k \in 1..n |-> k], n + 1) = [k \in 1..n + 1 |-> k]
<1>1. [k \in 1..n |-> k] \in Seq(Nat) /\ Len([k \in 1..n |-> k]) = n
  OBVIOUS
<1>. QED
  BY <1>1, AppendProperties

\* An event in a sequence of events.
LEMMA AppendNat ==
  ASSUME NEW s \in Seq(Nat), NEW n \in Nat
  PROVE  Append(s, n + 1) \in Seq(Nat)
OBVIOUS

\* Appending to what comes after s.
LEMMA AppendAfter ==
  ASSUME NEW s \in Seq(Nat), NEW t \in Seq(Nat), NEW x \in Nat
  PROVE  s \o Append(t, x) = Append(s \o t, x)
OBVIOUS

\* An event that goes into the buffer or through it comes after all others.
LEMMA NextEvent ==
  ASSUME NEW s \in Seq(Nat), NEW t \in Seq(Nat), NEW n \in Nat,
         s \o t = [k \in 1..n |-> k]
  PROVE  s \o Append(t, n + 1) = [k \in 1..n + 1 |-> k]
<1>1. s \o Append(t, n + 1) = Append(s \o t, n + 1)
  BY AppendAfter, n + 1 \in Nat, Zenon
<1>. QED
  BY <1>1, CountAppend

\* Writing t to the open file, the last one, appends it to what the files hold.
LEMMA WrittenLast ==
  ASSUME TypeOK, LastOK, inode # Null, NEW t \in Seq(Nat)
  PROVE  FlattenSeq([content EXCEPT ![inode] = @ \o t]) =
           FlattenSeq(content) \o t
<1>1. PICK n \in Nat : n = inode /\ n = Len(content) /\ n # 0
  BY DEF TypeOK, LastOK
<1>2. PICK more : more = [content EXCEPT ![n] = @ \o t]
  OBVIOUS
<1>3. content \in Seq(Seq(Nat)) /\ n \in 1..Len(content)
  BY <1>1 DEF TypeOK
<1>4. content[n] \o t \in Seq(Nat)
  BY <1>3, ElementOfSeq
<1>5. more \in Seq(Seq(Nat)) /\ Len(more) = n /\ more[n] = content[n] \o t
  BY <1>1, <1>2, <1>3, <1>4, ExceptSeq
<1>6. \A i \in 1..n - 1 : more[i] = content[i]
  BY <1>2, <1>3
<1>7. LastLonger(Nat, content, more, t, n)
  BY <1>1, <1>3, <1>5, <1>6 DEF LastLonger
<1>8. FlattenSeq(more) = FlattenSeq(content) \o t
  BY <1>7, FlattenLast
<1>. QED
  BY <1>1, <1>2, <1>8

\* open() makes at most one file, an empty one, which is the last.
LEMMA OpenHeld ==
  ASSUME NEW fs, fs \in Seq(Seq(Nat)), Len(fs) = Len(content), LastOK, Open(fs)
  PROVE  FlattenSeq(content') = FlattenSeq(fs) /\ LastOK'
<1>1. CASE named = Null
  <2>1. content' = Append(fs, <<>>) /\ named' = Len(fs) + 1 /\ inode' = named'
    BY <1>1 DEF Open
  <2>2. <<>> \in Seq(Nat)
    OBVIOUS
  <2>3. FlattenSeq(content') = FlattenSeq(fs) \o <<>>
    BY <2>1, <2>2, FlattenAppend
  <2>4. PICK s \in Seq(Nat) : s = FlattenSeq(fs)
    BY FlattenType
  <2>5. s \o <<>> = s
    BY ONLY s \in Seq(Nat)
  <2>6. Len(content') = Len(fs) + 1
    BY <2>1, <2>2, AppendProperties
  <2>. QED
    BY <2>1, <2>3, <2>4, <2>5, <2>6 DEF LastOK
<1>2. CASE named # Null
  <2>1. content' = fs /\ named' = named /\ inode' = named
    BY <1>2 DEF Open
  <2>. QED
    BY <1>2, <2>1 DEF LastOK
<1>. QED
  BY <1>1, <1>2

\* The empty buffer after s.
LEMMA NothingAfter ==
  ASSUME NEW s \in Seq(Nat)
  PROVE  s \o <<>> = s
OBVIOUS

\* The files hold what was accepted when the constructor is done: nothing.
LEMMA InitComplete == Init => LastOK /\ Complete
<1>. SUFFICES ASSUME Init PROVE LastOK /\ Complete
  OBVIOUS
<1>1. buffer = <<>> /\ events = 0 /\ named = inode
  BY DEF Init
<1>2. FlattenSeq(content) = <<>> /\ (inode # Null => inode = Len(content))
  <2>1. CASE disk = "ok"
    <3>1. content = << <<>> >> /\ inode = 1
      BY <2>1 DEF Init
    <3>2. FlattenSeq(content) = <<>>
      BY <3>1, FlattenOne
    <3>. QED
      BY <3>1, <3>2
  <2>2. CASE disk # "ok"
    <3>1. content = <<>> /\ inode = Null
      BY <2>2 DEF Init
    <3>. QED
      BY <3>1, FlattenEmpty
  <2>. QED
    BY <2>1, <2>2
<1>3. <<>> \o <<>> = [k \in 1..0 |-> k]
  OBVIOUS
<1>. QED
  BY <1>1, <1>2, <1>3 DEF LastOK, Complete

\* reopen() moves the buffer into the file that it closes, or counts it as lost.
LEMMA ReopenComplete ==
  ASSUME IInv, LastOK, Complete, NEW c \in Callers, reopen(c)
  PROVE  LastOK' /\ Complete'
<1>. USE DEF IInv
<1>1. content \in Seq(Seq(Nat)) /\ buffer \in Seq(Nat) /\ events' = events
  BY DEF reopen, TypeOK
<1>2. CASE CloseAndOpen
  <2>1. good /\ inode # Null
    BY <1>2 DEF CloseAndOpen, StreamOK
  <2>2. Flushed \in Seq(Seq(Nat)) /\ Len(Flushed) = Len(content)
    BY <1>1, <2>1, FlushedType
  <2>3. buffer' = <<>> /\ (~lost' => ~lost /\ (disk # "full" \/ buffer = <<>>))
    BY <1>2 DEF CloseAndOpen
  <2>4. ~lost' => FlattenSeq(Flushed) = FlattenSeq(content) \o buffer
    <3>1. CASE disk # "full"
      BY <1>1, <2>1, <3>1, WrittenLast DEF Flushed
    <3>2. CASE disk = "full"
      BY <1>1, <2>3, <3>2, FlattenType, NothingAfter DEF Flushed
    <3>. QED
      BY <3>1, <3>2
  <2>5. FlattenSeq(content') = FlattenSeq(Flushed) /\ LastOK'
    <3>1. CASE Open(Flushed)
      BY <2>2, <3>1, OpenHeld
    <3>2. CASE inode' = Null /\ content' = Flushed /\ UNCHANGED named
      BY <2>2, <3>2 DEF LastOK
    <3>. QED
      BY <1>2, <3>1, <3>2 DEF CloseAndOpen
  <2>6. FlattenSeq(Flushed) \o <<>> = FlattenSeq(Flushed)
    BY <2>2, FlattenType, NothingAfter
  <2>. QED
    BY <1>1, <2>3, <2>4, <2>5, <2>6 DEF Complete
<1>3. CASE OpenOnly
  <2>1. buffer' = buffer /\ lost' = lost
    BY <1>3 DEF OpenOnly
  <2>2. FlattenSeq(content') = FlattenSeq(content) /\ LastOK'
    <3>1. CASE Open(content)
      BY <1>1, <3>1, OpenHeld
    <3>2. CASE UNCHANGED <<good, inode, named, content>>
      BY <3>2 DEF LastOK
    <3>. QED
      BY <1>3, <3>1, <3>2 DEF OpenOnly
  <2>. QED
    BY <1>1, <2>1, <2>2 DEF Complete
<1>. QED
  BY <1>2, <1>3 DEF reopen

\* An event goes to the end of the buffer, or after it to the end of the file.
LEMMA WriteComplete ==
  ASSUME IInv, LastOK, Complete, NEW c \in Callers,
         WriteBuffer(c) \/ WriteThrough(c)
  PROVE  LastOK' /\ Complete'
<1>. USE DEF IInv
<1>1. /\ buffer \in Seq(Nat) /\ events \in Nat /\ good /\ inode # Null
      /\ content \in Seq(Seq(Nat)) /\ lost' = lost
      /\ UNCHANGED <<inode, named>>
  BY DEF WriteBuffer, WriteThrough, TypeOK, StreamOK
<1>2. PICK s \in Seq(Nat) : s = FlattenSeq(content)
  BY <1>1, FlattenType
<1>3. ~lost => s \o Append(buffer, events + 1) = [k \in 1..events + 1 |-> k]
  BY <1>1, <1>2, NextEvent DEF Complete
<1>4. CASE WriteBuffer(c)
  <2>1. /\ events' = events + 1 /\ buffer' = Append(buffer, events + 1)
        /\ content' = content
    BY <1>4 DEF WriteBuffer
  <2>. QED
    BY <1>1, <1>2, <1>3, <2>1 DEF LastOK, Complete
<1>5. CASE WriteThrough(c) /\ disk = "full"
  BY <1>5 DEF WriteThrough, LastOK, Complete
<1>6. CASE WriteThrough(c) /\ disk # "full"
  <2>1. PICK t \in Seq(Nat) : t = Append(buffer, events + 1)
    BY <1>1, AppendNat, Zenon
  <2>2. /\ events' = events + 1 /\ buffer' = <<>>
        /\ content' = [content EXCEPT ![inode] = @ \o t]
    BY <1>6, <2>1 DEF WriteThrough
  <2>3. FlattenSeq(content') = s \o t
    BY <1>1, <1>2, <2>1, <2>2, WrittenLast
  <2>4. (s \o t) \o <<>> = s \o t
    BY ONLY s \in Seq(Nat), t \in Seq(Nat)
  <2>5. Len(content') = Len(content)
    BY <1>1, <2>2
  <2>. QED
    BY <1>1, <1>3, <2>1, <2>2, <2>3, <2>4, <2>5 DEF LastOK, Complete
<1>. QED
  BY <1>4, <1>5, <1>6

\* Every step preserves it.
LEMMA NextComplete ==
  ASSUME IInv, LastOK, Complete, [Next]_vars
  PROVE  LastOK' /\ Complete'
<1>1. ASSUME NEW c \in Callers, reopen(c) PROVE LastOK' /\ Complete'
  BY <1>1, ReopenComplete
<1>2. ASSUME NEW c \in Callers, WriteBuffer(c) \/ WriteThrough(c)
      PROVE  LastOK' /\ Complete'
  BY <1>2, WriteComplete
<1>3. ASSUME NEW c \in Callers, Log(c) \/ Test(c) \/ SetLastTime(c) \/ WriteError(c)
      PROVE  LastOK' /\ Complete'
  BY <1>3 DEF Log, Test, SetLastTime, WriteError, streamVars, LastOK, Complete
<1>4. CASE World
  BY <1>4 DEF World, Tick, Delete, DiskFault, DiskRepair, streamVars, LastOK, Complete
<1>5. CASE UNCHANGED vars
  BY <1>5 DEF vars, streamVars, LastOK, Complete
<1>. QED
  BY <1>1, <1>2, <1>3, <1>4, <1>5 DEF Next, LogStep

\* No accepted event is lost, doubled or out of order, whenever the file is
\* reopened, deleted or full, except by a close() that has no room for the buffer
\* (log.cpp:397-436).
THEOREM CompleteAlways == Spec => []Complete
<1>1. Init => LastOK /\ Complete
  BY InitComplete
<1>2. IInv /\ (LastOK /\ Complete) /\ [Next]_vars => (LastOK /\ Complete)'
  BY NextComplete
<1>. QED
  BY <1>1, <1>2, Invariance, PTL DEF Spec

=============================================================================
