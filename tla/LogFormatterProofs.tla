------------------------- MODULE LogFormatterProofs -------------------------
(***************************************************************************)
(* LogFormatter::init() reads every pattern back, and reports exactly the  *)
(* patterns that have an error.                                            *)
(***************************************************************************)
EXTENDS LogFormatter, SequenceLemmas

-----------------------------------------------------------------------------
(***************************************************************************)
(* The types, and the item that is being read.                             *)
(***************************************************************************)

\* What the text of a piece is made of.
Symbols == Chars \cup {ErrorText}
Piece == [str : Seq(Symbols), fmt : Seq(Symbols), item : BOOLEAN]

TypeOK ==
  /\ m_pattern \in Seq(Chars)
  /\ i \in 1..Len(m_pattern)+1
  /\ n \in Nat /\ fmt_begin \in Nat /\ fmt_status \in {0, 1}
  /\ nstr \in Seq(Chars) /\ str \in Seq(Chars) /\ fmt \in Seq(Chars)
  /\ vec \in Seq(Piece)
  /\ m_error \in BOOLEAN
  /\ pc \in {"text", "item", "push", "build", "done"}
  /\ pc \in {"build", "done"} => i = Len(m_pattern) + 1

\* The positions a..b-1 hold what the name of an item may hold.
IsName(a, b) == \A j \in a..b-1 : ~Stops(m_pattern[j]) /\ m_pattern[j] # OPEN

\* The brace at b has not been closed before e.
OpenFrom(b, e) == m_pattern[b] = OPEN /\ \A j \in b+1..e-1 : m_pattern[j] # CLOSE

\* A name has been read from the '%' at i on, without an argument.
Name ==
  /\ IsName(i + 1, n)
  /\ str = Between(i + 1, n)
  /\ fmt = <<>>
  /\ n <= Len(m_pattern) => Stops(m_pattern[n])

\* A name and the argument behind the brace at b have been read.
NameAndArgument(b) ==
  /\ IsName(i + 1, b) /\ OpenFrom(b, n - 1) /\ m_pattern[n - 1] = CLOSE
  /\ str = Between(i + 1, b)
  /\ fmt = Between(b + 1, n - 1)

\* The inner loop is in a name, or in an argument.
InName ==
  /\ IsName(i + 1, n)
  /\ str = IF n > Len(m_pattern) THEN Between(i + 1, n) ELSE <<>>
  /\ fmt = <<>>

InArgument ==
  /\ fmt_begin \in i+1..n-1
  /\ IsName(i + 1, fmt_begin) /\ OpenFrom(fmt_begin, n)
  /\ n <= Len(m_pattern) => str = Between(i + 1, fmt_begin)
  /\ fmt = <<>>

ItemOK ==
  pc \in {"item", "push"} =>
    /\ i <= Len(m_pattern) /\ n \in i+1..Len(m_pattern)+1
    /\ m_pattern[i] = PERCENT
    /\ i < Len(m_pattern) => m_pattern[i + 1] # PERCENT
    /\ fmt_status = 1 => InArgument
    /\ fmt_status = 0 /\ pc = "item" => InName
    /\ fmt_status = 1 /\ pc = "push" => n = Len(m_pattern) + 1
    /\ fmt_status = 0 /\ pc = "push" =>
         Name \/ \E b \in i+1..n-2 : NameAndArgument(b)

-----------------------------------------------------------------------------
(***************************************************************************)
(* What was read.                                                          *)
(***************************************************************************)

\* The characters of the pieces ps, those in B with braces.
Sources(ps, B) == [k \in DOMAIN ps |-> Source(ps[k], k \in B)]

\* Behind the last of the pieces ps, with the text t that is still to become a
\* piece, s goes on at position k: the last piece is an item, and if it has no
\* argument its name ends there.
GoesOn(ps, B, t, s, k) ==
  ps # <<>> =>
    /\ ps[Len(ps)].item
    /\ Len(ps) \notin B =>
         IF t # <<>> THEN Stops(t[1]) ELSE k <= Len(s) => Stops(s[k])

\* The pieces found, and the text behind them, are the part of the pattern
\* that was consumed.
ReadsInv ==
  ~Contains(vec, PatternError) =>
    \E B \in SUBSET DOMAIN vec : \E s \in Seq(Symbols) :
      /\ Reads(vec, B, s)
      /\ s \o nstr = SubSeq(m_pattern, 1, i - 1)
      /\ IF pc \in {"build", "done"} THEN nstr = <<>>
         ELSE GoesOn(vec, B, nstr, m_pattern, i)

-----------------------------------------------------------------------------
(***************************************************************************)
(* What is an error.                                                       *)
(***************************************************************************)

\* From position k on s is valid, if G are the positions behind k from which
\* it is.
OkFrom(s, G, k) ==
  LET Is(j, ch) == j <= Len(s) /\ s[j] = ch IN
  \/ k > Len(s)
  \/ (~Is(k, PERCENT) \/ Is(k + 1, PERCENT)) /\ k + 1 \in G
  \/ /\ Is(k, PERCENT)
     /\ k < Len(s)
     /\ s[k + 1] \in DOMAIN s_format_items
     /\ \/ (k + 2 > Len(s) \/ Stops(s[k + 2])) /\ k + 2 \in G
        \/ /\ Is(k + 2, OPEN)
           /\ \E e \in k+3..Len(s) :
                /\ s[e] = CLOSE
                /\ \A j \in k+3..e-1 : s[j] # CLOSE
                /\ e + 1 \in G

\* G are the positions of s, from m on, from which it is valid.
OkPositions(G, s, m) == \A k \in m..Len(s)+1 : k \in G <=> OkFrom(s, G, k)

\* An error was found, or will be when the items are built.
Bad(ps, e) == e \/ \E k \in DOMAIN ps : ps[k].item /\ ~Known(ps[k])

\* What is left to read decides, unless there is an error already; G are the
\* positions from which the pattern is valid.
Decides(G) ==
  /\ OkPositions(G, m_pattern, 1)
  /\ Valid(m_pattern) <=> 1 \in G
  /\ pc \in {"text", "item", "push"} =>
       IF Bad(vec, m_error) THEN 1 \notin G ELSE 1 \in G <=> i \in G
  /\ pc = "build" => (Bad(vec, m_error) <=> 1 \notin G)
  /\ pc = "done" => (m_error <=> 1 \notin G)

ErrorInv == \E G \in SUBSET Nat : Decides(G)

-----------------------------------------------------------------------------
(***************************************************************************)
(* The types and the item.                                                 *)
(***************************************************************************)

\* A pattern is a sequence of characters.
LEMMA Patterns == BoundedSeq(Chars, MaxLen) \subseteq Seq(Chars)
<1>. SUFFICES ASSUME NEW m \in 0..MaxLen, NEW s \in [1..m -> Chars]
              PROVE  s \in Seq(Chars)
  BY DEF BoundedSeq, SeqOf
<1>. m \in Nat
  BY LogFormatterAssumption
<1>. QED
  BY SeqDef

\* A part of it is one, too.
LEMMA BetweenType ==
  ASSUME m_pattern \in Seq(Chars), NEW a \in Nat, NEW b \in Nat,
         1 <= a, b <= Len(m_pattern) + 1
  PROVE  Between(a, b) \in Seq(Chars)
<1>. b - 1 \in Int /\ \A j \in a..b-1 : m_pattern[j] \in Chars
  BY ElementOfSeq
<1>. QED
  BY SubSeqProperties DEF Between

\* A sequence of characters can be the text of a piece.
LEMMA CharsAreSymbols == Seq(Chars) \subseteq Seq(Symbols)
BY DEF Symbols

\* So can text that is flushed.
LEMMA FlushedType ==
  ASSUME TypeOK
  PROVE  Flushed \in Seq(Piece)
<1>1. nstr \in Seq(Symbols) /\ <<>> \in Seq(Symbols) /\ vec \in Seq(Piece)
  BY CharsAreSymbols DEF TypeOK
<1>2. Text(nstr) \in Piece
  BY <1>1 DEF Text, Piece
<1>. QED
  BY <1>1, <1>2, AppendProperties DEF Flushed

\* The variables have their types at the beginning.
LEMMA InitType == Init => TypeOK /\ ItemOK
<1>. SUFFICES ASSUME Init PROVE TypeOK /\ ItemOK
  OBVIOUS
<1>1. m_pattern \in Seq(Chars)
  BY Patterns DEF Init
<1>2. Len(m_pattern) \in Nat /\ 1 \in 1..Len(m_pattern) + 1
  BY <1>1
<1>3. <<>> \in Seq(Chars) /\ <<>> \in Seq(Piece)
  OBVIOUS
<1>. QED
  BY <1>1, <1>2, <1>3 DEF Init, TypeOK, ItemOK

\* Every step keeps the types.
LEMMA NextType ==
  ASSUME TypeOK, ItemOK, [Next]_vars
  PROVE  TypeOK'
<1>. USE DEF itemVars
<1>. m_pattern \in Seq(Chars) /\ Len(m_pattern) \in Nat
  BY DEF TypeOK
<1>1. CASE TextChar
  <2>1. m_pattern[i] \in Chars
    BY <1>1, ElementOfSeq DEF TextChar, TypeOK
  <2>2. nstr' \in Seq(Chars)
    BY <1>1, <2>1, AppendProperties DEF TextChar, TypeOK
  <2>. QED
    BY <1>1, <2>2 DEF TextChar, TypeOK
<1>2. CASE Percent
  BY <1>2 DEF Percent, TypeOK
<1>3. CASE TextEnd
  BY <1>3, FlushedType DEF TextEnd, TypeOK
<1>4. CASE NameEnd
  <2>1. Between(i + 1, n) \in Seq(Chars)
    BY <1>4, BetweenType DEF NameEnd, InItem, TypeOK
  <2>. QED
    BY <1>4, <2>1 DEF NameEnd, TypeOK
<1>5. CASE OpenBrace
  <2>1. Between(i + 1, n) \in Seq(Chars)
    BY <1>5, BetweenType DEF OpenBrace, InItem, TypeOK
  <2>. QED
    BY <1>5, <2>1 DEF OpenBrace, TypeOK
<1>6. CASE CloseBrace
  <2>1. PICK b \in Nat : b = fmt_begin + 1
    BY DEF TypeOK
  <2>2. Between(b, n) \in Seq(Chars)
    BY <1>6, <2>1, BetweenType DEF CloseBrace, InItem, TypeOK
  <2>. QED
    BY <1>6, <2>1, <2>2 DEF CloseBrace, TypeOK
<1>7. CASE ItemChar
  <2>1. PICK a \in Nat, b \in Nat : a = i + 1 /\ b = n + 1
    BY DEF TypeOK
  <2>. 1 <= a /\ b <= Len(m_pattern) + 1
    BY <1>7, <2>1 DEF ItemChar, InItem, TypeOK
  <2>2. Between(a, b) \in Seq(Chars)
    BY BetweenType
  <2>3. str' \in Seq(Chars)
    BY <1>7, <2>1, <2>2 DEF ItemChar, TypeOK
  <2>. QED
    BY <1>7, <2>3 DEF ItemChar, TypeOK
<1>8. CASE ItemEnd
  BY <1>8 DEF ItemEnd, TypeOK
<1>9. CASE PushItem
  <2>1. Item(str, fmt) \in Piece
    BY CharsAreSymbols DEF Item, Piece, TypeOK
  <2>2. vec' \in Seq(Piece)
    BY <1>9, <2>1, FlushedType, AppendProperties DEF PushItem
  <2>3. i' \in 1..Len(m_pattern)+1
    BY <1>9 DEF PushItem, ItemOK, TypeOK
  <2>. QED
    BY <1>9, <2>2, <2>3 DEF PushItem, TypeOK
<1>10. CASE PushError
  <2>1. PatternError \in Piece
    BY DEF PatternError, Text, Piece, Symbols
  <2>2. vec' \in Seq(Piece)
    BY <1>10, <2>1, AppendProperties DEF PushError, TypeOK
  <2>. QED
    BY <1>10, <2>2 DEF PushError, TypeOK, ItemOK
<1>11. CASE Build
  BY <1>11 DEF Build, TypeOK
<1>12. CASE UNCHANGED vars
  BY <1>12 DEF vars, TypeOK
<1>. QED
  BY <1>1, <1>2, <1>3, <1>4, <1>5, <1>6, <1>7, <1>8, <1>9, <1>10, <1>11, <1>12
     DEF Next

\* The characters with a meaning are three, and no letters.
LEMMA Different ==
  /\ PERCENT # OPEN /\ PERCENT # CLOSE /\ OPEN # CLOSE
  /\ PERCENT \notin Alpha /\ OPEN \notin Alpha /\ CLOSE \notin Alpha
<1>1. PERCENT # OPEN /\ PERCENT # CLOSE /\ OPEN # CLOSE
  BY Zenon DEF PERCENT, OPEN, CLOSE
<1>. QED
  BY <1>1, LogFormatterAssumption

\* Every step keeps what is known of the item that is being read.
LEMMA NextItem ==
  ASSUME TypeOK, ItemOK, [Next]_vars
  PROVE  ItemOK'
<1>. m_pattern \in Seq(Chars) /\ Len(m_pattern) \in Nat
  BY DEF TypeOK
<1>. i \in Nat /\ n \in Nat /\ fmt_begin \in Nat /\ fmt_status \in {0, 1}
  BY DEF TypeOK
<1>1. CASE TextChar \/ TextEnd \/ PushItem \/ PushError \/ Build
  BY <1>1 DEF TextChar, TextEnd, PushItem, PushError, Build, ItemOK
<1>2. CASE Percent
  <2>1. i <= Len(m_pattern) /\ m_pattern[i] = PERCENT /\ n' = i + 1
        /\ (i < Len(m_pattern) => m_pattern[i + 1] # PERCENT)
    BY <1>2 DEF Percent
  <2>2. Between(i + 1, n') = <<>>
    BY <2>1, SubSeqProperties DEF Between
  <2>3. InName'
    BY <1>2, <2>1, <2>2 DEF Percent, InName, IsName, Between
  <2>. QED
    BY <1>2, <2>1, <2>3 DEF Percent, ItemOK
<1>3. CASE NameEnd
  <2>1. /\ pc = "item" /\ n <= Len(m_pattern) /\ fmt_status = 0
        /\ Stops(m_pattern[n]) /\ str' = Between(i + 1, n) /\ pc' = "push"
        /\ UNCHANGED <<m_pattern, i, n, fmt, fmt_status>>
    BY <1>3 DEF NameEnd, InItem
  <2>2. Name'
    BY <2>1 DEF ItemOK, InName, Name, IsName, Between
  <2>. QED
    BY <2>1, <2>2 DEF ItemOK
<1>4. CASE OpenBrace
  <2>1. /\ pc = "item" /\ n <= Len(m_pattern) /\ fmt_status = 0
        /\ m_pattern[n] = OPEN /\ str' = Between(i + 1, n)
        /\ fmt_status' = 1 /\ fmt_begin' = n /\ n' = n + 1
        /\ UNCHANGED <<m_pattern, i, fmt, pc>>
    BY <1>4 DEF OpenBrace, InItem
  <2>2. InArgument'
    BY <2>1 DEF ItemOK, InName, InArgument, IsName, OpenFrom, Between
  <2>. QED
    BY <2>1, <2>2 DEF ItemOK
<1>5. CASE CloseBrace
  <2>1. /\ pc = "item" /\ n <= Len(m_pattern) /\ fmt_status = 1
        /\ m_pattern[n] = CLOSE /\ fmt' = Between(fmt_begin + 1, n)
        /\ fmt_status' = 0 /\ n' = n + 1 /\ pc' = "push"
        /\ UNCHANGED <<m_pattern, i, str>>
    BY <1>5 DEF CloseBrace, InItem
  <2>2. InArgument
    BY <2>1 DEF ItemOK
  <2>3. PICK b \in Nat : b = fmt_begin
    OBVIOUS
  <2>4. n' - 1 = n /\ b \in i + 1..n' - 2
    BY <2>1, <2>2, <2>3 DEF InArgument
  <2>5. NameAndArgument(b)'
    BY <2>1, <2>2, <2>3, <2>4 DEF InArgument, NameAndArgument, IsName, OpenFrom, Between
  <2>. QED
    BY <2>1, <2>4, <2>5 DEF ItemOK
<1>6. CASE ItemChar
  <2>1. /\ pc = "item" /\ n <= Len(m_pattern)
        /\ IF fmt_status = 0 THEN m_pattern[n] \in Alpha \cup {CLOSE}
                             ELSE m_pattern[n] # CLOSE
        /\ n' = n + 1
        /\ str' = IF n = Len(m_pattern) /\ str = <<>>
                  THEN Between(i + 1, n + 1) ELSE str
        /\ UNCHANGED <<m_pattern, i, fmt, fmt_status, fmt_begin, pc>>
    BY <1>6 DEF ItemChar, InItem
  <2>2. CASE fmt_status = 0
    <3>1. ~Stops(m_pattern[n]) /\ m_pattern[n] # OPEN
      BY <2>1, <2>2, Different DEF Stops
    <3>2. InName'
      BY <2>1, <2>2, <3>1 DEF ItemOK, InName, IsName, Between
    <3>. QED
      BY <2>1, <2>2, <3>2 DEF ItemOK
  <2>3. CASE fmt_status = 1
    <3>1. InArgument'
      BY <2>1, <2>3 DEF ItemOK, InArgument, IsName, OpenFrom, Between
    <3>. QED
      BY <2>1, <2>3, <3>1 DEF ItemOK
  <2>. QED
    BY <2>2, <2>3
<1>7. CASE ItemEnd
  <2>1. /\ pc = "item" /\ n > Len(m_pattern) /\ pc' = "push"
        /\ UNCHANGED <<m_pattern, i, n, str, fmt, fmt_status, fmt_begin>>
    BY <1>7 DEF ItemEnd, itemVars
  <2>2. fmt_status = 0 => Name'
    BY <2>1 DEF ItemOK, InName, Name, IsName, Between
  <2>3. fmt_status = 1 => InArgument'
    BY <2>1 DEF ItemOK, InArgument, IsName, OpenFrom, Between
  <2>. QED
    BY <2>1, <2>2, <2>3 DEF ItemOK
<1>8. CASE UNCHANGED vars
  BY <1>8 DEF vars, itemVars, ItemOK, Name, NameAndArgument, InName, InArgument,
              IsName, OpenFrom, Between
<1>. QED
  BY <1>1, <1>2, <1>3, <1>4, <1>5, <1>6, <1>7, <1>8 DEF Next

-----------------------------------------------------------------------------
(***************************************************************************)
(* The positions from which a pattern is valid.                            *)
(***************************************************************************)

\* Whether s is valid from k on depends on the positions behind k only.
LEMMA OkAhead ==
  ASSUME NEW s \in Seq(Chars), NEW G, NEW H, NEW k \in 1..Len(s)+1,
         \A j \in k+1..Len(s)+1 : j \in G <=> j \in H
  PROVE  OkFrom(s, G, k) <=> OkFrom(s, H, k)
<1>1. CASE k > Len(s)
  BY <1>1 DEF OkFrom
<1>2. CASE k <= Len(s)
  <2>1. k + 1 \in G <=> k + 1 \in H
    BY <1>2
  <2>2. k < Len(s) => (k + 2 \in G <=> k + 2 \in H)
    OBVIOUS
  <2>3. \A e \in k+3..Len(s) : e + 1 \in G <=> e + 1 \in H
    OBVIOUS
  <2>. QED
    BY <1>2, <2>1, <2>2, <2>3 DEF OkFrom
<1>. QED
  BY <1>1, <1>2

\* So there are such positions from every m on.
LEMMA OkExists ==
  ASSUME NEW s \in Seq(Chars)
  PROVE  \E G \in SUBSET Nat : OkPositions(G, s, 1)
<1>. Len(s) \in Nat
  OBVIOUS
<1>. DEFINE From(j) == Len(s) + 1 - j
            T == {j \in Nat : j <= Len(s) =>
                                \E G \in SUBSET Nat : OkPositions(G, s, From(j))}
<1>1. 0 \in T
  <2>1. OkPositions({Len(s) + 1}, s, Len(s) + 1)
    BY DEF OkPositions, OkFrom
  <2>. QED
    BY <2>1, {Len(s) + 1} \in SUBSET Nat
<1>2. ASSUME NEW j \in T PROVE j + 1 \in T
  <2>. SUFFICES ASSUME j + 1 <= Len(s)
                PROVE  \E G \in SUBSET Nat : OkPositions(G, s, From(j + 1))
    OBVIOUS
  <2>1. PICK G \in SUBSET Nat : OkPositions(G, s, From(j))
    OBVIOUS
  <2>2. PICK m \in Nat : m = From(j + 1) /\ m + 1 = From(j) /\ m \in 1..Len(s)
    OBVIOUS
  <2>. DEFINE H == {k \in Nat : IF k = m THEN OkFrom(s, G, m) ELSE k \in G}
  <2>3. \A k \in Nat : k # m => (k \in H <=> k \in G)
    OBVIOUS
  <2>4. m \in H <=> OkFrom(s, G, m)
    OBVIOUS
  <2>. HIDE DEF H
  <2>5. ASSUME NEW k \in m..Len(s)+1
        PROVE  OkFrom(s, G, k) <=> OkFrom(s, H, k)
    <3>1. \A l \in k+1..Len(s)+1 : l \in G <=> l \in H
      BY <2>3
    <3>2. k \in 1..Len(s)+1
      BY <2>2
    <3>. QED
      BY <3>1, <3>2, OkAhead
  <2>6. ASSUME NEW k \in m..Len(s)+1 PROVE k \in H <=> OkFrom(s, H, k)
    <3>1. CASE k = m
      BY <2>4, <2>5, <3>1
    <3>2. CASE k # m
      <4>1. k \in G <=> OkFrom(s, G, k)
        BY <2>1, <2>2, <3>2 DEF OkPositions
      <4>. QED
        BY <2>3, <2>5, <3>2, <4>1
    <3>. QED
      BY <3>1, <3>2
  <2>7. H \in SUBSET Nat
    BY DEF H
  <2>. QED
    BY <2>2, <2>6, <2>7 DEF OkPositions
<1>3. T = Nat
  <2>. HIDE DEF T
  <2>. QED
    BY <1>1, <1>2, SetInduction DEF T
<1>4. Len(s) \in T /\ From(Len(s)) = 1
  BY <1>3
<1>. QED
  BY <1>4

\* The definition of Valid, for a function f on the positions of s.
OkBody(s, f, k) ==
  LET Is(j, ch) == j <= Len(s) /\ s[j] = ch IN
  \/ k > Len(s)
  \/ (~Is(k, PERCENT) \/ Is(k + 1, PERCENT)) /\ f[k + 1]
  \/ /\ Is(k, PERCENT)
     /\ k < Len(s)
     /\ s[k + 1] \in DOMAIN s_format_items
     /\ \/ (k + 2 > Len(s) \/ Stops(s[k + 2])) /\ f[k + 2]
        \/ /\ Is(k + 2, OPEN)
           /\ \E e \in k+3..Len(s) :
                /\ s[e] = CLOSE
                /\ \A j \in k+3..e-1 : s[j] # CLOSE
                /\ f[e + 1]

IsOk(f, s) == f = [k \in 1..Len(s)+1 |-> OkBody(s, f, k)]

\* It says the same as OkFrom of the positions where f is true.
LEMMA OkSame ==
  ASSUME NEW s \in Seq(Chars), NEW f, NEW G, NEW k \in 1..Len(s)+1,
         \A j \in 1..Len(s)+1 : j \in G <=> f[j]
  PROVE  OkBody(s, f, k) <=> OkFrom(s, G, k)
<1>. Len(s) \in Nat
  OBVIOUS
<1>1. CASE k > Len(s)
  BY <1>1 DEF OkFrom, OkBody
<1>2. CASE k <= Len(s)
  <2>1. k + 1 \in G <=> f[k + 1]
    BY <1>2
  <2>2. k < Len(s) => (k + 2 \in G <=> f[k + 2])
    OBVIOUS
  <2>3. \A e \in k+3..Len(s) : e + 1 \in G <=> f[e + 1]
    OBVIOUS
  <2>. QED
    BY <1>2, <2>1, <2>2, <2>3 DEF OkFrom, OkBody
<1>. QED
  BY <1>1, <1>2

\* The same with the set of the positions where f is true.
LEMMA OkValues ==
  ASSUME NEW s \in Seq(Chars), NEW f, IsOk(f, s)
  PROVE  OkPositions({k \in 1..Len(s)+1 : f[k]}, s, 1)
<1>. DEFINE G == {k \in 1..Len(s)+1 : f[k]}
<1>. SUFFICES ASSUME NEW k \in 1..Len(s)+1 PROVE k \in G <=> OkFrom(s, G, k)
  BY DEF OkPositions
<1>1. f[k] = OkBody(s, f, k)
  BY DEF IsOk
<1>2. \A j \in 1..Len(s)+1 : j \in G <=> f[j]
  OBVIOUS
<1>3. k \in G <=> OkBody(s, f, k)
  BY <1>1, <1>2
<1>. QED
  BY <1>2, <1>3, OkSame

\* A set of such positions gives an f.
LEMMA OkFunction ==
  ASSUME NEW s \in Seq(Chars), NEW G \in SUBSET Nat, OkPositions(G, s, 1)
  PROVE  IsOk([k \in 1..Len(s)+1 |-> k \in G], s)
<1>. DEFINE f == [k \in 1..Len(s)+1 |-> k \in G]
<1>1. \A k \in 1..Len(s)+1 : k \in G <=> f[k]
  OBVIOUS
<1>2. ASSUME NEW k \in 1..Len(s)+1 PROVE (k \in G) = OkBody(s, f, k)
  <2>. HIDE DEF f
  <2>1. OkBody(s, f, k) <=> OkFrom(s, G, k)
    BY <1>1, OkSame
  <2>2. OkBody(s, f, k) \in BOOLEAN
    BY DEF OkBody
  <2>. QED
    BY <2>1, <2>2 DEF OkPositions
<1>. QED
  BY <1>2, Zenon DEF IsOk

\* Valid is membership of the first position.
LEMMA ValidPositions ==
  ASSUME NEW s \in Seq(Chars)
  PROVE  \E G \in SUBSET Nat : OkPositions(G, s, 1) /\ (Valid(s) <=> 1 \in G)
<1>. DEFINE f == CHOOSE f : IsOk(f, s)
            G == {k \in 1..Len(s)+1 : f[k]}
<1>1. \E g : IsOk(g, s)
  BY OkExists, OkFunction
<1>2. IsOk(f, s)
  BY <1>1
<1>3. Valid(s) <=> f[1]
  BY DEF Valid, IsOk, OkBody
<1>4. OkPositions(G, s, 1)
  BY <1>2, OkValues
<1>5. 1 \in G <=> f[1]
  BY 1 \in 1..Len(s)+1
<1>6. G \in SUBSET Nat
  OBVIOUS
<1>. HIDE DEF f, G
<1>. QED
  BY <1>3, <1>4, <1>5, <1>6

-----------------------------------------------------------------------------
(***************************************************************************)
(* isError() is exact.                                                     *)
(***************************************************************************)

\* What ends a name, and what begins an argument, names no item.
LEMMA NoName ==
  ASSUME NEW c \in Chars, Stops(c) \/ c = OPEN
  PROVE  c \notin DOMAIN s_format_items
<1>. DEFINE Names == {"m", "p", "r", "c", "t", "n", "d", "f", "l", "T", "F", "N"}
<1>1. DOMAIN s_format_items = Names
  BY DEF s_format_items
<1>2. PERCENT \notin Names /\ OPEN \notin Names
  BY Zenon DEF PERCENT, OPEN
<1>. HIDE DEF Names
<1>. QED
  BY <1>1, <1>2, LogFormatterAssumption DEF Stops, Chars

\* A character of the text keeps the rest as valid as it is.
LEMMA CharValid ==
  ASSUME TypeOK, TextChar, NEW G, OkPositions(G, m_pattern, 1)
  PROVE  i \in G <=> i + 1 \in G
<1>. m_pattern \in Seq(Chars) /\ Len(m_pattern) \in Nat /\ i \in Nat
  BY DEF TypeOK
<1>1. /\ i <= Len(m_pattern)
      /\ m_pattern[i] # PERCENT
           \/ (i < Len(m_pattern) /\ m_pattern[i + 1] = PERCENT)
  BY DEF TextChar
<1>2. i \in G <=> OkFrom(m_pattern, G, i)
  BY DEF OkPositions, TypeOK
<1>3. PERCENT \notin DOMAIN s_format_items
  BY NoName, Different DEF Stops, Chars
<1>. QED
  BY <1>1, <1>2, <1>3 DEF OkFrom

\* The rest is valid from a '%' with no second one behind it if a known item
\* follows, and the rest behind the item is valid.
LEMMA PercentValid ==
  ASSUME TypeOK, ItemOK, pc \in {"item", "push"},
         NEW G, OkPositions(G, m_pattern, 1)
  PROVE  i \in G <=>
           /\ i < Len(m_pattern)
           /\ m_pattern[i + 1] \in DOMAIN s_format_items
           /\ \/ /\ i + 2 > Len(m_pattern) \/ Stops(m_pattern[i + 2])
                 /\ i + 2 \in G
              \/ /\ i + 2 <= Len(m_pattern) /\ m_pattern[i + 2] = OPEN
                 /\ \E e \in i+3..Len(m_pattern) :
                      /\ m_pattern[e] = CLOSE
                      /\ \A j \in i+3..e-1 : m_pattern[j] # CLOSE
                      /\ e + 1 \in G
<1>. m_pattern \in Seq(Chars) /\ Len(m_pattern) \in Nat /\ i \in Nat
  BY DEF TypeOK
<1>1. /\ i <= Len(m_pattern) /\ m_pattern[i] = PERCENT
      /\ i < Len(m_pattern) => m_pattern[i + 1] # PERCENT
  BY DEF ItemOK
<1>2. i \in G <=> OkFrom(m_pattern, G, i)
  BY DEF OkPositions, TypeOK
<1>. QED
  BY <1>1, <1>2 DEF OkFrom

\* A name is known if it has one letter, the name of an item.
LEMMA KnownName ==
  ASSUME TypeOK, NEW b \in Nat, i + 1 <= b, b <= Len(m_pattern) + 1
  PROVE  Known(Item(Between(i + 1, b), fmt)) <=>
           b = i + 2 /\ m_pattern[i + 1] \in DOMAIN s_format_items
<1>. m_pattern \in Seq(Chars) /\ Len(m_pattern) \in Nat /\ i \in Nat
  BY DEF TypeOK
<1>1. PICK a \in Nat, c \in Nat : a = i + 1 /\ c + 1 = b /\ a <= c + 1
  OBVIOUS
<1>2. Len(SubSeq(m_pattern, a, c)) = b - a
  BY <1>1, SubSeqProperties
<1>3. b = a + 1 => SubSeq(m_pattern, a, c)[1] = m_pattern[a]
  BY <1>1, SubSeqProperties
<1>4. Between(i + 1, b) = SubSeq(m_pattern, a, c)
  BY <1>1 DEF Between
<1>5. Known(Item(Between(i + 1, b), fmt)) <=>
        b - a = 1 /\ Between(i + 1, b)[1] \in DOMAIN s_format_items
  BY <1>2, <1>4 DEF Known, Item
<1>. QED
  BY <1>1, <1>3, <1>4, <1>5

\* An item that was read leaves the rest valid if it is known.
LEMMA ItemValid ==
  ASSUME TypeOK, ItemOK, pc = "push", fmt_status = 0,
         NEW G, OkPositions(G, m_pattern, 1)
  PROVE  i \in G <=> Known(Item(str, fmt)) /\ n \in G
<1>. m_pattern \in Seq(Chars) /\ Len(m_pattern) \in Nat /\ i \in Nat /\ n \in Nat
  BY DEF TypeOK
<1>1. i <= Len(m_pattern) /\ i + 1 <= n /\ n <= Len(m_pattern) + 1
  BY DEF ItemOK
<1>2. \A j \in 1..Len(m_pattern) : m_pattern[j] \in Chars
  BY ElementOfSeq
<1>3. CASE Name
  <2>1. Known(Item(str, fmt)) <=>
          n = i + 2 /\ m_pattern[i + 1] \in DOMAIN s_format_items
    BY <1>1, <1>3, KnownName DEF Name
  <2>2. CASE n = i + 1
    <3>1. i < Len(m_pattern) => m_pattern[i + 1] \notin DOMAIN s_format_items
      BY <1>1, <1>2, <1>3, <2>2, NoName DEF Name
    <3>. QED
      BY <2>1, <2>2, <3>1, PercentValid
  <2>3. CASE n = i + 2
    <3>1. n <= Len(m_pattern) => Stops(m_pattern[n])
      BY <1>3 DEF Name
    <3>2. n <= Len(m_pattern) => m_pattern[n] # OPEN
      BY <3>1 DEF Stops
    <3>. QED
      BY <1>1, <2>1, <2>3, <3>1, <3>2, PercentValid
  <2>4. CASE n > i + 2
    <3>1. ~Stops(m_pattern[i + 2]) /\ m_pattern[i + 2] # OPEN
      BY <1>3, <2>4 DEF Name, IsName
    <3>. QED
      BY <1>1, <2>1, <2>4, <3>1, PercentValid
  <2>. QED
    BY <1>1, <2>2, <2>3, <2>4
<1>4. ASSUME NEW b \in i+1..n-2, NameAndArgument(b)
      PROVE  i \in G <=> Known(Item(str, fmt)) /\ n \in G
  <2>1. Known(Item(str, fmt)) <=>
          b = i + 2 /\ m_pattern[i + 1] \in DOMAIN s_format_items
    BY <1>1, <1>4, KnownName DEF NameAndArgument, Known, Item
  <2>2. m_pattern[b] = OPEN /\ ~Stops(m_pattern[b]) /\ b < Len(m_pattern)
    BY <1>1, <1>4 DEF NameAndArgument, OpenFrom, Stops
  <2>3. CASE b = i + 1
    <3>1. m_pattern[i + 1] \notin DOMAIN s_format_items
      BY <1>2, <2>2, <2>3, NoName
    <3>. QED
      BY <2>1, <2>3, <3>1, PercentValid
  <2>4. CASE b = i + 2
    <3>1. m_pattern[n - 1] = CLOSE /\ \A j \in i+3..n-2 : m_pattern[j] # CLOSE
      BY <1>4, <2>4 DEF NameAndArgument, OpenFrom
    <3>2. ASSUME NEW e \in i+3..Len(m_pattern), m_pattern[e] = CLOSE,
                 \A j \in i+3..e-1 : m_pattern[j] # CLOSE
          PROVE  e + 1 = n
      BY <1>1, <3>1, <3>2, <2>4
    <3>3. n - 1 \in i+3..Len(m_pattern) /\ n - 1 + 1 = n /\ n - 1 - 1 = n - 2
      BY <1>1, <2>4
    <3>4. n \in G <=> \E e \in i+3..Len(m_pattern) :
                        /\ m_pattern[e] = CLOSE
                        /\ \A j \in i+3..e-1 : m_pattern[j] # CLOSE
                        /\ e + 1 \in G
      BY <3>1, <3>2, <3>3
    <3>. QED
      BY <1>1, <2>1, <2>2, <2>4, <3>4, PercentValid
  <2>5. CASE b > i + 2
    <3>1. ~Stops(m_pattern[i + 2]) /\ m_pattern[i + 2] # OPEN
      BY <1>4, <2>5 DEF NameAndArgument, IsName
    <3>. QED
      BY <1>1, <2>1, <2>2, <2>5, <3>1, PercentValid
  <2>. QED
    BY <2>3, <2>4, <2>5
<1>. QED
  BY <1>3, <1>4 DEF ItemOK

\* An open brace leaves nothing valid.
LEMMA BraceInvalid ==
  ASSUME TypeOK, ItemOK, pc = "push", fmt_status = 1,
         NEW G, OkPositions(G, m_pattern, 1)
  PROVE  i \notin G
<1>. m_pattern \in Seq(Chars) /\ Len(m_pattern) \in Nat /\ i \in Nat
  BY DEF TypeOK
<1>1. PICK b \in Nat : /\ b \in i+1..Len(m_pattern) /\ IsName(i + 1, b)
                       /\ OpenFrom(b, Len(m_pattern) + 1)
  BY DEF ItemOK, InArgument, TypeOK
<1>2. m_pattern[b] = OPEN /\ ~Stops(m_pattern[b]) /\ m_pattern[b] \in Chars
  BY <1>1, ElementOfSeq DEF OpenFrom, Stops
<1>3. CASE b = i + 1
  BY <1>2, <1>3, NoName, PercentValid
<1>4. CASE b = i + 2
  BY <1>1, <1>2, <1>4, PercentValid DEF OpenFrom
<1>5. CASE b > i + 2
  <2>1. ~Stops(m_pattern[i + 2]) /\ m_pattern[i + 2] # OPEN
    BY <1>1, <1>5 DEF IsName
  <2>. QED
    BY <1>1, <1>5, <2>1, PercentValid
<1>. QED
  BY <1>1, <1>3, <1>4, <1>5

\* A piece that is added is an error if it is an item that is not known.
LEMMA BadAppend ==
  ASSUME NEW ps \in Seq(Piece), NEW p \in Piece, NEW e \in BOOLEAN
  PROVE  Bad(Append(ps, p), e) <=> Bad(ps, e) \/ (p.item /\ ~Known(p))
<1>1. /\ Len(ps) \in Nat /\ DOMAIN ps = 1..Len(ps)
      /\ DOMAIN Append(ps, p) = 1..Len(ps)+1
      /\ Append(ps, p)[Len(ps) + 1] = p
      /\ \A k \in 1..Len(ps) : Append(ps, p)[k] = ps[k]
  BY AppendProperties
<1>2. 1..Len(ps)+1 = 1..Len(ps) \cup {Len(ps) + 1}
  BY <1>1
<1>. QED
  BY <1>1, <1>2, Zenon DEF Bad

\* Text that is flushed is none.
LEMMA BadFlushed ==
  ASSUME TypeOK
  PROVE  Bad(Flushed, m_error) <=> Bad(vec, m_error)
<1>1. nstr \in Seq(Symbols) /\ <<>> \in Seq(Symbols)
  BY CharsAreSymbols DEF TypeOK
<1>2. Text(nstr) \in Piece /\ ~Text(nstr).item
  BY <1>1 DEF Text, Piece
<1>3. vec \in Seq(Piece) /\ m_error \in BOOLEAN
  BY DEF TypeOK
<1>. QED
  BY <1>2, <1>3, BadAppend DEF Flushed

\* At the beginning the whole pattern decides.
LEMMA InitError ==
  ASSUME Init
  PROVE  ErrorInv
<1>1. m_pattern \in Seq(Chars)
  BY Patterns DEF Init
<1>2. PICK G \in SUBSET Nat :
        OkPositions(G, m_pattern, 1) /\ (Valid(m_pattern) <=> 1 \in G)
  BY <1>1, ValidPositions
<1>3. ~Bad(vec, m_error) /\ i = 1 /\ pc = "text"
  BY DEF Init, Bad
<1>. QED
  BY <1>2, <1>3 DEF ErrorInv, Decides

\* Every step keeps it so.
LEMMA NextError ==
  ASSUME TypeOK, ItemOK, ErrorInv, [Next]_vars
  PROVE  ErrorInv'
<1>. PICK G \in SUBSET Nat : Decides(G)
  BY DEF ErrorInv
<1>. SUFFICES Decides(G)'
  BY DEF ErrorInv
<1>. m_pattern \in Seq(Chars) /\ Len(m_pattern) \in Nat /\ i \in Nat
  BY DEF TypeOK
<1>0. OkPositions(G, m_pattern, 1)
  BY DEF Decides
<1>1. CASE TextChar
  <2>1. i \in G <=> i' \in G
    BY <1>0, <1>1, CharValid DEF TextChar
  <2>. QED
    BY <1>1, <2>1 DEF TextChar, Decides
<1>2. CASE Percent
  BY <1>2 DEF Percent, Decides
<1>3. CASE TextEnd
  <2>1. i \in G
    BY <1>0, <1>3 DEF TextEnd, OkPositions, OkFrom, TypeOK
  <2>2. Bad(vec, m_error)' <=> Bad(vec, m_error)
    BY <1>3, BadFlushed DEF TextEnd
  <2>. QED
    BY <1>3, <2>1, <2>2 DEF TextEnd, Decides
<1>4. CASE NameEnd
  BY <1>4 DEF NameEnd, InItem, Decides
<1>5. CASE OpenBrace
  BY <1>5 DEF OpenBrace, InItem, Decides
<1>6. CASE CloseBrace
  BY <1>6 DEF CloseBrace, InItem, Decides
<1>7. CASE ItemChar
  BY <1>7 DEF ItemChar, InItem, Decides
<1>8. CASE ItemEnd
  BY <1>8 DEF ItemEnd, Decides
<1>9. CASE PushItem
  <2>1. i \in G <=> Known(Item(str, fmt)) /\ n \in G
    BY <1>0, <1>9, ItemValid DEF PushItem
  <2>2. Item(str, fmt) \in Piece /\ Item(str, fmt).item
    BY CharsAreSymbols DEF Item, Piece, TypeOK
  <2>3. Bad(vec, m_error)' <=> Bad(vec, m_error) \/ ~Known(Item(str, fmt))
    <3>1. Flushed \in Seq(Piece) /\ m_error \in BOOLEAN
      BY FlushedType DEF TypeOK
    <3>2. Bad(Append(Flushed, Item(str, fmt)), m_error)
            <=> Bad(Flushed, m_error) \/ ~Known(Item(str, fmt))
      BY <2>2, <3>1, BadAppend
    <3>. QED
      BY <1>9, <3>2, BadFlushed DEF PushItem
  <2>. QED
    BY <1>9, <2>1, <2>3 DEF PushItem, Decides
<1>10. CASE PushError
  <2>1. i \notin G
    BY <1>0, <1>10, BraceInvalid DEF PushError
  <2>2. Bad(vec, m_error)'
    BY <1>10 DEF PushError, Bad
  <2>. QED
    BY <1>10, <2>1, <2>2 DEF PushError, Decides
<1>11. CASE Build
  <2>1. m_error' <=> Bad(vec, m_error)
    BY <1>11 DEF Build, Bad
  <2>. QED
    BY <1>11, <2>1 DEF Build, Decides
<1>12. CASE UNCHANGED vars
  BY <1>12 DEF vars, itemVars, Decides
<1>. QED
  BY <1>1, <1>2, <1>3, <1>4, <1>5, <1>6, <1>7, <1>8, <1>9, <1>10, <1>11, <1>12
     DEF Next

\* isError() is true for exactly the patterns with an unknown item or an open
\* brace, whatever the pattern (log.cpp:321, 754).
THEOREM ExactErrors == Spec => []ErrorExact
<1>1. Init => TypeOK /\ ItemOK /\ ErrorInv
  BY InitType, InitError
<1>2. TypeOK /\ ItemOK /\ ErrorInv /\ [Next]_vars => (TypeOK /\ ItemOK /\ ErrorInv)'
  BY NextType, NextItem, NextError
<1>3. ErrorInv => ErrorExact
  BY DEF ErrorInv, Decides, ErrorExact
<1>. QED
  BY <1>1, <1>2, <1>3, PTL DEF Spec

-----------------------------------------------------------------------------
(***************************************************************************)
(* Parts of the pattern.                                                   *)
(***************************************************************************)

\* Two parts that meet make up a part.
LEMMA BetweenJoin ==
  ASSUME m_pattern \in Seq(Chars), NEW a \in Nat, NEW b \in Nat, NEW c \in Nat,
         1 <= a, a <= b, b <= c, c <= Len(m_pattern) + 1
  PROVE  Between(a, b) \o Between(b, c) = Between(a, c)
<1>. Len(m_pattern) \in Nat
  OBVIOUS
<1>1. PICK k \in Int, d \in Int : k = b - 1 /\ d = c - 1
  OBVIOUS
<1>2. /\ a \in 1..Len(m_pattern)+1
      /\ k \in a-1..Len(m_pattern)
      /\ d \in k..Len(m_pattern)
  BY <1>1
<1>3. SubSeq(m_pattern, a, k) \o SubSeq(m_pattern, k + 1, d)
        = SubSeq(m_pattern, a, d)
  BY ONLY <1>2, ConcatAdjacentSubSeq, m_pattern \in Seq(Chars)
<1>4. k + 1 = b
  BY <1>1
<1>. QED
  BY <1>1, <1>3, <1>4 DEF Between

\* The part with one character.
LEMMA BetweenOne ==
  ASSUME m_pattern \in Seq(Chars), NEW a \in Nat, a \in 1..Len(m_pattern)
  PROVE  Between(a, a + 1) = <<m_pattern[a]>>
<1>1. a + 1 - 1 = a /\ m_pattern[a] \in Chars
  BY ElementOfSeq
<1>2. /\ SubSeq(m_pattern, a, a) \in Seq(Chars)
      /\ Len(SubSeq(m_pattern, a, a)) = 1
      /\ SubSeq(m_pattern, a, a)[1] = m_pattern[a]
  BY <1>1, SubSeqProperties
<1>3. /\ <<m_pattern[a]>> \in Seq(Chars)
      /\ Len(<<m_pattern[a]>>) = 1 /\ <<m_pattern[a]>>[1] = m_pattern[a]
  BY <1>1
<1>4. PICK t \in Seq(Chars) : t = <<m_pattern[a]>>
  BY <1>3
<1>5. PICK u \in Seq(Chars) : u = SubSeq(m_pattern, a, a)
  BY <1>2
<1>6. Len(u) = Len(t) /\ \A j \in 1..Len(u) : u[j] = t[j]
  BY <1>2, <1>3, <1>4, <1>5
<1>7. u = t
  BY ONLY <1>6, SeqEqual, u \in Seq(Chars), t \in Seq(Chars)
<1>8. Between(a, a + 1) = u
  BY <1>1, <1>5 DEF Between
<1>. QED
  BY <1>4, <1>7, <1>8

\* The characters of a part.
LEMMA BetweenAt ==
  ASSUME m_pattern \in Seq(Chars), NEW a \in Nat, NEW b \in Nat,
         1 <= a, a <= b, b <= Len(m_pattern) + 1,
         NEW j \in DOMAIN Between(a, b)
  PROVE  \E k \in a..b-1 : Between(a, b)[j] = m_pattern[k]
<1>. Len(m_pattern) \in Nat
  OBVIOUS
<1>1. PICK c \in Int : c = b - 1
  OBVIOUS
<1>2. \A k \in a..c : m_pattern[k] \in Chars
  BY <1>1, ElementOfSeq
<1>3. /\ Len(SubSeq(m_pattern, a, c)) = IF a <= c THEN c - a + 1 ELSE 0
      /\ SubSeq(m_pattern, a, c) \in Seq(Chars)
      /\ \A l \in 1..c-a+1 : SubSeq(m_pattern, a, c)[l] = m_pattern[a + l - 1]
  BY <1>2, SubSeqProperties
<1>4. Between(a, b) = SubSeq(m_pattern, a, c)
  BY <1>1 DEF Between
<1>5. j \in 1..c-a+1
  BY <1>3, <1>4
<1>6. a + j - 1 \in a..b-1
  BY <1>1, <1>5
<1>. QED
  BY <1>3, <1>4, <1>5, <1>6

-----------------------------------------------------------------------------
(***************************************************************************)
(* Pieces and what they were read from.                                    *)
(***************************************************************************)

\* It is a sequence of symbols.
LEMMA SourceType ==
  ASSUME NEW p \in Piece, NEW b \in BOOLEAN
  PROVE  Source(p, b) \in Seq(Symbols)
<1>1. p.str \in Seq(Symbols) /\ p.fmt \in Seq(Symbols)
  BY DEF Piece
<1>2. /\ <<PERCENT>> \in Seq(Symbols) /\ <<OPEN>> \in Seq(Symbols)
      /\ <<CLOSE>> \in Seq(Symbols) /\ <<>> \in Seq(Symbols)
  BY DEF Symbols, Chars
<1>. QED
  BY <1>1, <1>2, ConcatProperties DEF Source

\* So are those of several pieces.
LEMMA SourcesType ==
  ASSUME NEW ps \in Seq(Piece), NEW B
  PROVE  Sources(ps, B) \in Seq(Seq(Symbols)) /\ Len(Sources(ps, B)) = Len(ps)
<1>1. /\ Len(ps) \in Nat /\ DOMAIN ps = 1..Len(ps)
      /\ \A k \in 1..Len(ps) : ps[k] \in Piece
  BY ElementOfSeq
<1>2. ASSUME NEW k \in 1..Len(ps)
      PROVE  Source(ps[k], k \in B) \in Seq(Symbols)
  <2>1. ps[k] \in Piece /\ TRUE \in BOOLEAN /\ FALSE \in BOOLEAN
    BY <1>1
  <2>2. Source(ps[k], TRUE) \in Seq(Symbols) /\ Source(ps[k], FALSE) \in Seq(Symbols)
    BY <2>1, SourceType
  <2>3. Source(ps[k], k \in B) \in {Source(ps[k], TRUE), Source(ps[k], FALSE)}
    BY DEF Source
  <2>. QED
    BY <2>2, <2>3
<1>. QED
  BY <1>1, <1>2 DEF Sources

\* With one piece more, with braces if b.
With(B, k, b) == IF b THEN B \cup {k} ELSE B

\* there is one more of them.
LEMMA SourcesAppend ==
  ASSUME NEW ps \in Seq(Piece), NEW B \in SUBSET DOMAIN ps,
         NEW p \in Piece, NEW b \in BOOLEAN
  PROVE  Sources(Append(ps, p), With(B, Len(ps) + 1, b))
           = Append(Sources(ps, B), Source(p, b))
<1>. DEFINE more == Append(ps, p)
            C == With(B, Len(ps) + 1, b)
            m == Len(ps)
<1>1. /\ m \in Nat /\ DOMAIN ps = 1..m /\ DOMAIN more = 1..m+1
      /\ more[m + 1] = p /\ \A k \in 1..m : more[k] = ps[k]
  BY AppendProperties
<1>2. \A k \in 1..m : k \in C <=> k \in B
  BY <1>1 DEF With
<1>3. m + 1 \in C <=> b
  BY <1>1 DEF With
<1>4. /\ Sources(ps, B) \in Seq(Seq(Symbols)) /\ Len(Sources(ps, B)) = m
      /\ Source(p, b) \in Seq(Symbols)
  BY SourcesType, SourceType
<1>5. /\ Append(Sources(ps, B), Source(p, b)) \in Seq(Seq(Symbols))
      /\ Len(Append(Sources(ps, B), Source(p, b))) = m + 1
      /\ Append(Sources(ps, B), Source(p, b))[m + 1] = Source(p, b)
      /\ \A k \in 1..m : Append(Sources(ps, B), Source(p, b))[k] = Sources(ps, B)[k]
  BY <1>4, AppendProperties
<1>. HIDE DEF more, C, m
<1>6. Sources(more, C) = [k \in 1..m+1 |-> Source(more[k], k \in C)]
  BY <1>1 DEF Sources
<1>7. \A k \in 1..m : Source(more[k], k \in C) = Sources(ps, B)[k]
  BY <1>1, <1>2 DEF Sources
<1>8. Source(more[m + 1], m + 1 \in C) = Source(p, b)
  BY <1>1, <1>3
<1>9. \A k \in 1..m+1 :
        Sources(more, C)[k] = Append(Sources(ps, B), Source(p, b))[k]
  BY <1>1, <1>5, <1>6, <1>7, <1>8
<1>10. more \in Seq(Piece)
  BY AppendProperties DEF more
<1>11. Sources(more, C) \in Seq(Seq(Symbols)) /\ Len(Sources(more, C)) = m + 1
  BY <1>1, <1>10, SourcesType
<1>12. Sources(more, C) = Append(Sources(ps, B), Source(p, b))
  BY <1>5, <1>9, <1>11, SeqEqual
<1>. QED
  BY <1>12 DEF more, C, m

\* What Reads says of the k-th piece.
PieceReads(ps, B, k) ==
  IF ps[k].item
  THEN /\ \A j \in DOMAIN ps[k].str : ~Stops(ps[k].str[j])
       /\ ~Contains(ps[k].str, OPEN) /\ ~Contains(ps[k].fmt, CLOSE)
       /\ k \notin B => /\ ps[k].fmt = <<>>
                        /\ k < Len(ps) => Stops(Sources(ps, B)[k + 1][1])
  ELSE /\ ps[k].str # <<>>
       /\ k < Len(ps) => ps[k + 1].item

\* Reads in these terms.
LEMMA ReadsPieces ==
  ASSUME NEW ps, NEW B, NEW s
  PROVE  Reads(ps, B, s) <=>
           /\ FlattenSeq(Sources(ps, B)) = s
           /\ \A k \in DOMAIN ps : PieceReads(ps, B, k)
BY DEF Reads, PieceReads, Sources

\* A piece p, with braces if b, is as it should be by itself,
Shape(p, b) ==
  IF p.item
  THEN /\ \A j \in DOMAIN p.str : ~Stops(p.str[j])
       /\ ~Contains(p.str, OPEN) /\ ~Contains(p.fmt, CLOSE)
       /\ ~b => p.fmt = <<>>
  ELSE p.str # <<>>

\* and behind the pieces ps.
Follows(ps, B, p, b) ==
  ps # <<>> => IF ps[Len(ps)].item
               THEN Len(ps) \notin B => Stops(Source(p, b)[1])
               ELSE p.item

\* Then ps and p read what both were read from.
LEMMA ReadsAppend ==
  ASSUME NEW ps \in Seq(Piece), NEW B \in SUBSET DOMAIN ps,
         NEW s \in Seq(Symbols), Reads(ps, B, s),
         NEW p \in Piece, NEW b \in BOOLEAN, Shape(p, b), Follows(ps, B, p, b)
  PROVE  Reads(Append(ps, p), With(B, Len(ps) + 1, b), s \o Source(p, b))
<1>. DEFINE more == Append(ps, p)
            C == With(B, Len(ps) + 1, b)
            m == Len(ps)
<1>1. /\ m \in Nat /\ DOMAIN ps = 1..m /\ DOMAIN more = 1..m+1
      /\ Len(more) = m + 1
      /\ more[m + 1] = p /\ \A k \in 1..m : more[k] = ps[k]
  BY AppendProperties
<1>2. /\ \A k \in 1..m : k \in C <=> k \in B
      /\ m + 1 \in C <=> b
  BY <1>1 DEF With
<1>3. Sources(more, C) = Append(Sources(ps, B), Source(p, b))
  BY SourcesAppend
<1>4. /\ Sources(ps, B) \in Seq(Seq(Symbols)) /\ Len(Sources(ps, B)) = m
      /\ Source(p, b) \in Seq(Symbols)
  BY SourcesType, SourceType
<1>5. /\ Sources(more, C)[m + 1] = Source(p, b)
      /\ \A k \in 1..m : Sources(more, C)[k] = Sources(ps, B)[k]
  <2>1. PICK src \in Seq(Seq(Symbols)), t \in Seq(Symbols) :
          src = Sources(ps, B) /\ t = Source(p, b)
    BY <1>4
  <2>2. /\ Len(src) = m
        /\ Append(src, t)[m + 1] = t
        /\ \A k \in 1..m : Append(src, t)[k] = src[k]
    BY <1>4, <2>1, AppendProperties
  <2>. QED
    BY <1>3, <2>1, <2>2
<1>6. FlattenSeq(Sources(more, C)) = s \o Source(p, b)
  <2>1. FlattenSeq(Append(Sources(ps, B), Source(p, b)))
          = FlattenSeq(Sources(ps, B)) \o Source(p, b)
    BY <1>4, FlattenAppend
  <2>2. FlattenSeq(Sources(ps, B)) = s
    BY ReadsPieces
  <2>. QED
    BY <1>3, <2>1, <2>2
<1>. HIDE DEF more, C, m
<1>7. ASSUME NEW k \in 1..m PROVE PieceReads(more, C, k)
  <2>1. PieceReads(ps, B, k)
    BY <1>1, ReadsPieces
  <2>2. more[k] = ps[k] /\ (k \in C <=> k \in B)
    BY <1>1, <1>2
  <2>3. CASE k < m
    <3>1. k + 1 \in 1..m
      BY <1>1, <2>3
    <3>2. more[k + 1] = ps[k + 1] /\ Sources(more, C)[k + 1] = Sources(ps, B)[k + 1]
      BY <1>1, <1>5, <3>1
    <3>. QED
      BY <2>1, <2>2, <2>3, <3>2 DEF PieceReads, m
  <2>4. CASE k = m
    <3>1. more[k + 1] = p /\ Sources(more, C)[k + 1] = Source(p, b)
      BY <1>1, <1>5, <2>4
    <3>2. IF ps[k].item THEN k \notin B => Stops(Source(p, b)[1]) ELSE p.item
      BY <1>1, <2>4 DEF Follows, m
    <3>. QED
      BY <2>1, <2>2, <3>1, <3>2 DEF PieceReads
  <2>. QED
    BY <1>1, <2>3, <2>4
<1>8. PieceReads(more, C, m + 1)
  BY <1>1, <1>2 DEF PieceReads, Shape
<1>9. \A k \in DOMAIN more : PieceReads(more, C, k)
  BY <1>1, <1>7, <1>8
<1>10. Reads(more, C, s \o Source(p, b))
  BY <1>6, <1>9, ReadsPieces
<1>. QED
  BY <1>10 DEF more, C, m

\* Text that is flushed reads as itself.
LEMMA FlushReads ==
  ASSUME TypeOK, NEW B \in SUBSET DOMAIN vec, NEW s \in Seq(Symbols),
         Reads(vec, B, s), GoesOn(vec, B, nstr, m_pattern, i)
  PROVE  B \in SUBSET DOMAIN Flushed /\ Reads(Flushed, B, s \o nstr)
<1>1. vec \in Seq(Piece) /\ nstr \in Seq(Symbols) /\ <<>> \in Seq(Symbols)
  BY CharsAreSymbols DEF TypeOK
<1>2. CASE nstr = <<>>
  BY <1>1, <1>2, ConcatEmptySeq DEF Flushed
<1>3. CASE nstr # <<>>
  <2>1. Text(nstr) \in Piece /\ ~Text(nstr).item /\ Text(nstr).str = nstr
    BY <1>1 DEF Text, Piece
  <2>2. Source(Text(nstr), FALSE) = nstr
    BY <2>1 DEF Source
  <2>3. Shape(Text(nstr), FALSE)
    BY <1>3, <2>1 DEF Shape
  <2>4. Follows(vec, B, Text(nstr), FALSE)
    BY <1>3, <2>2 DEF Follows, GoesOn
  <2>5. With(B, Len(vec) + 1, FALSE) = B
    BY DEF With
  <2>6. PICK p \in Piece : p = Text(nstr)
    BY <2>1
  <2>7. Reads(Append(vec, p), With(B, Len(vec) + 1, FALSE), s \o Source(p, FALSE))
    BY <1>1, <2>3, <2>4, <2>6, ReadsAppend
  <2>8. DOMAIN vec \subseteq DOMAIN Append(vec, p)
    BY <1>1, AppendProperties
  <2>. QED
    BY <1>3, <2>2, <2>5, <2>6, <2>7, <2>8 DEF Flushed
<1>. QED
  BY <1>2, <1>3

\* An item reads as the part of the pattern from its '%' on.
LEMMA ItemReads ==
  ASSUME TypeOK, ItemOK, pc = "push", fmt_status = 0
  PROVE  \E b \in BOOLEAN :
           /\ Shape(Item(str, fmt), b)
           /\ Source(Item(str, fmt), b) = Between(i, n)
           /\ ~b => (n <= Len(m_pattern) => Stops(m_pattern[n]))
<1>. m_pattern \in Seq(Chars) /\ Len(m_pattern) \in Nat /\ i \in Nat /\ n \in Nat
  BY DEF TypeOK
<1>1. /\ 1 <= i /\ i <= Len(m_pattern) /\ m_pattern[i] = PERCENT
      /\ i + 1 <= n /\ n <= Len(m_pattern) + 1
  BY DEF ItemOK, TypeOK
<1>2. PICK a \in Nat : a = i + 1
  OBVIOUS
<1>3. Between(i, a) = <<PERCENT>>
  BY <1>1, <1>2, BetweenOne
<1>4. <<>> \in Seq(Chars)
  OBVIOUS
<1>5. CASE Name
  <2>1. str = Between(a, n) /\ fmt = <<>> /\ IsName(a, n)
        /\ (n <= Len(m_pattern) => Stops(m_pattern[n]))
    BY <1>2, <1>5 DEF Name
  <2>2. <<PERCENT>> \o str = Between(i, n)
    <3>1. i <= a /\ a <= n
      BY <1>1, <1>2
    <3>2. Between(i, a) \o Between(a, n) = Between(i, n)
      BY <1>1, <3>1, BetweenJoin
    <3>. QED
      BY <1>3, <2>1, <3>2
  <2>3. Between(i, n) \in Seq(Chars)
    BY <1>1, BetweenType
  <2>4. Source(Item(str, fmt), FALSE) = Between(i, n)
    BY <2>2, <2>3, ConcatEmptySeq DEF Source, Item
  <2>5. \A j \in DOMAIN str : ~Stops(str[j]) /\ str[j] # OPEN
    BY <1>1, <1>2, <2>1, BetweenAt DEF IsName
  <2>6. Shape(Item(str, fmt), FALSE)
    <3>1. DOMAIN str = 1..Len(str) /\ Len(fmt) = 0
      BY <2>1 DEF TypeOK
    <3>. QED
      BY <2>1, <2>5, <3>1 DEF Shape, Item, Contains
  <2>. QED
    BY <2>1, <2>4, <2>6
<1>6. ASSUME NEW b \in i+1..n-2, NameAndArgument(b)
      PROVE  /\ Shape(Item(str, fmt), TRUE)
             /\ Source(Item(str, fmt), TRUE) = Between(i, n)
  <2>1. PICK c \in Nat, d \in Nat : c = b + 1 /\ d + 1 = n
    BY <1>1
  <2>2. /\ b \in Nat /\ a <= b /\ c <= d /\ d <= Len(m_pattern)
        /\ str = Between(a, b) /\ fmt = Between(c, d) /\ IsName(a, b)
        /\ m_pattern[b] = OPEN /\ m_pattern[d] = CLOSE
        /\ \A j \in c..d-1 : m_pattern[j] # CLOSE
    BY <1>1, <1>2, <1>6, <2>1 DEF NameAndArgument, OpenFrom
  <2>3. Between(b, c) = <<OPEN>> /\ Between(d, n) = <<CLOSE>>
    BY <1>1, <1>2, <2>1, <2>2, BetweenOne
  <2>4. /\ i <= a /\ i <= b /\ b <= c /\ b <= d /\ d <= n /\ b <= n
        /\ 1 <= b /\ b <= Len(m_pattern) + 1 /\ d <= Len(m_pattern) + 1
    BY <1>1, <1>2, <2>1, <2>2
  <2>5. Between(i, a) \o Between(a, b) = Between(i, b)
    BY <1>1, <2>2, <2>4, BetweenJoin
  <2>6. Between(b, c) \o Between(c, d) = Between(b, d)
    BY <2>2, <2>4, BetweenJoin
  <2>7. /\ Between(b, d) \o Between(d, n) = Between(b, n)
        /\ Between(i, b) \o Between(b, n) = Between(i, n)
    BY <1>1, <2>2, <2>4, BetweenJoin
  <2>8. Source(Item(str, fmt), TRUE)
          = (<<PERCENT>> \o str) \o ((<<OPEN>> \o fmt) \o <<CLOSE>>)
    BY DEF Source, Item
  <2>9. \A j \in DOMAIN str : ~Stops(str[j]) /\ str[j] # OPEN
    BY <1>1, <1>2, <2>2, BetweenAt DEF IsName
  <2>10. ASSUME NEW j \in DOMAIN fmt PROVE fmt[j] # CLOSE
    <3>1. PICK k \in c..d-1 : Between(c, d)[j] = m_pattern[k]
      BY <2>1, <2>2, <2>4, BetweenAt
    <3>. QED
      BY <2>2, <3>1
  <2>11. Shape(Item(str, fmt), TRUE)
    <3>1. DOMAIN str = 1..Len(str) /\ DOMAIN fmt = 1..Len(fmt)
      BY DEF TypeOK
    <3>. QED
      BY <2>9, <2>10, <3>1 DEF Shape, Item, Contains
  <2>. QED
    BY <1>3, <2>2, <2>3, <2>5, <2>6, <2>7, <2>8, <2>11
<1>. QED
  BY <1>5, <1>6 DEF ItemOK

-----------------------------------------------------------------------------
(***************************************************************************)
(* The pattern is read back.                                               *)
(***************************************************************************)

\* At the beginning nothing has been read.
LEMMA InitReads ==
  ASSUME Init
  PROVE  ReadsInv
<1>1. vec = <<>> /\ nstr = <<>> /\ i = 1 /\ pc = "text"
  BY DEF Init
<1>2. Sources(<<>>, {}) = <<>> /\ DOMAIN <<>> = {}
  BY DEF Sources
<1>3. Reads(<<>>, {}, <<>>)
  BY <1>2, ReadsPieces, FlattenEmpty
<1>4. <<>> \o <<>> = SubSeq(m_pattern, 1, 0) /\ <<>> \in Seq(Symbols)
  <2>1. SubSeq(m_pattern, 1, 0) = <<>>
    BY SubSeqEmpty
  <2>. QED
    BY <2>1, ConcatEmptySeq
<1>5. GoesOn(<<>>, {}, <<>>, m_pattern, 1)
  BY DEF GoesOn
<1>6. {} \in SUBSET DOMAIN vec /\ 1 - 1 = 0
  OBVIOUS
<1>. QED
  BY <1>1, <1>3, <1>4, <1>5, <1>6 DEF ReadsInv

\* A character of the text is read as it is.
LEMMA CharReads ==
  ASSUME TypeOK, TextChar, ReadsInv
  PROVE  ReadsInv'
<1>. SUFFICES ASSUME ~Contains(vec, PatternError)' PROVE ReadsInv'
  BY DEF ReadsInv
<1>. m_pattern \in Seq(Chars) /\ Len(m_pattern) \in Nat /\ i \in Nat
  BY DEF TypeOK
<1>1. /\ pc = "text" /\ pc' = "text" /\ vec' = vec /\ m_pattern' = m_pattern
      /\ i' = i + 1 /\ 1 <= i /\ i <= Len(m_pattern)
      /\ nstr' = Append(nstr, m_pattern[i])
  BY DEF TextChar, TypeOK
<1>2. PICK B \in SUBSET DOMAIN vec, s \in Seq(Symbols) :
        /\ Reads(vec, B, s)
        /\ s \o nstr = SubSeq(m_pattern, 1, i - 1)
        /\ GoesOn(vec, B, nstr, m_pattern, i)
  BY <1>1 DEF ReadsInv
<1>3. PICK c \in Symbols : c = m_pattern[i]
  BY <1>1, ElementOfSeq DEF Symbols
<1>4. nstr \in Seq(Symbols)
  BY CharsAreSymbols DEF TypeOK
<1>5. s \o nstr' = SubSeq(m_pattern, 1, i' - 1)
  <2>1. <<c>> \in Seq(Symbols) /\ nstr' = nstr \o <<c>>
    BY <1>1, <1>3, <1>4, AppendIsConcat
  <2>2. s \o (nstr \o <<c>>) = (s \o nstr) \o <<c>>
    BY <1>4, <2>1, ConcatAssociative
  <2>3. PICK a \in Nat : a = i + 1
    OBVIOUS
  <2>4. Between(i, a) = <<c>>
    BY <1>1, <1>3, <2>3, BetweenOne
  <2>. /\ 1 \in Nat /\ 1 <= 1 /\ 1 <= i /\ i <= a
       /\ a <= Len(m_pattern) + 1
    BY <1>1, <2>3
  <2>5. Between(1, i) \o Between(i, a) = Between(1, a)
    BY BetweenJoin
  <2>6. Between(1, i) = SubSeq(m_pattern, 1, i - 1)
        /\ Between(1, a) = SubSeq(m_pattern, 1, i' - 1)
    BY <1>1, <2>3 DEF Between
  <2>. QED
    BY <1>2, <2>1, <2>2, <2>4, <2>5, <2>6
<1>6. GoesOn(vec, B, nstr', m_pattern, i')
  <2>1. nstr' # <<>> /\ nstr'[1] = IF nstr = <<>> THEN m_pattern[i] ELSE nstr[1]
    <3>1. CASE nstr = <<>>
      BY <1>1, <3>1
    <3>2. CASE nstr # <<>>
      <4>1. 1 \in 1..Len(nstr)
        BY <1>4, <3>2
      <4>2. Append(nstr, c) # <<>> /\ Append(nstr, c)[1] = nstr[1]
        BY <1>4, <4>1, AppendProperties
      <4>. QED
        BY <1>1, <1>3, <3>2, <4>2
    <3>. QED
      BY <3>1, <3>2
  <2>. QED
    BY <1>1, <1>2, <2>1 DEF GoesOn
<1>. QED
  BY <1>1, <1>2, <1>5, <1>6 DEF ReadsInv

\* Behind an item, everything up to its end has been read.
LEMMA PushReads ==
  ASSUME TypeOK, ItemOK, PushItem, ReadsInv
  PROVE  ReadsInv'
<1>. SUFFICES ASSUME ~Contains(vec, PatternError)' PROVE ReadsInv'
  BY DEF ReadsInv
<1>. m_pattern \in Seq(Chars) /\ Len(m_pattern) \in Nat /\ i \in Nat /\ n \in Nat
  BY DEF TypeOK
<1>1. /\ pc = "push" /\ fmt_status = 0 /\ pc' = "text"
      /\ vec' = Append(Flushed, Item(str, fmt)) /\ nstr' = <<>> /\ i' = n
      /\ m_pattern' = m_pattern
  BY DEF PushItem
<1>2. 1 <= i /\ i <= n /\ n <= Len(m_pattern) + 1
  BY <1>1 DEF ItemOK, TypeOK
<1>3. Flushed \in Seq(Piece) /\ vec \in Seq(Piece) /\ nstr \in Seq(Symbols)
  BY FlushedType, CharsAreSymbols DEF TypeOK
<1>4. PICK p \in Piece : p = Item(str, fmt)
  BY CharsAreSymbols DEF Item, Piece, TypeOK
<1>5. ~Contains(vec, PatternError)
  <2>1. ASSUME NEW ps \in Seq(Piece), NEW q \in Piece, ~Contains(Append(ps, q), PatternError)
        PROVE  ~Contains(ps, PatternError)
    BY <2>1, AppendProperties DEF Contains
  <2>2. ~Contains(Flushed, PatternError)
    BY <1>1, <1>3, <1>4, <2>1
  <2>3. CASE nstr = <<>>
    BY <2>2, <2>3 DEF Flushed
  <2>4. CASE nstr # <<>>
    <3>1. Text(nstr) \in Piece
      BY <1>3, <<>> \in Seq(Symbols) DEF Text, Piece
    <3>2. Flushed = Append(vec, Text(nstr))
      BY <2>4 DEF Flushed
    <3>. QED
      BY <1>3, <2>1, <2>2, <3>1, <3>2
  <2>. QED
    BY <2>3, <2>4
<1>6. PICK B \in SUBSET DOMAIN vec, s \in Seq(Symbols) :
        /\ Reads(vec, B, s)
        /\ s \o nstr = SubSeq(m_pattern, 1, i - 1)
        /\ GoesOn(vec, B, nstr, m_pattern, i)
  BY <1>1, <1>5 DEF ReadsInv
<1>7. B \in SUBSET DOMAIN Flushed /\ Reads(Flushed, B, s \o nstr)
  BY <1>6, FlushReads
<1>8. PICK b \in BOOLEAN :
        /\ Shape(p, b)
        /\ Source(p, b) = Between(i, n)
        /\ ~b => (n <= Len(m_pattern) => Stops(m_pattern[n]))
  BY <1>1, <1>4, ItemReads
<1>9. p.item /\ Source(p, b)[1] = PERCENT
  <2>1. p.item
    BY <1>4 DEF Item
  <2>2. i + 1 <= n /\ m_pattern[i] = PERCENT /\ i <= Len(m_pattern)
    BY <1>1 DEF ItemOK
  <2>3. PICK a \in Nat : a = i + 1
    OBVIOUS
  <2>4. Between(i, a) = <<PERCENT>>
    BY <1>2, <2>2, <2>3, BetweenOne
  <2>. i <= a /\ a <= n /\ n <= Len(m_pattern) + 1
    BY <1>2, <2>2, <2>3
  <2>5. Between(i, a) \o Between(a, n) = Between(i, n)
    BY <1>2, BetweenJoin
  <2>6. Between(a, n) \in Seq(Chars) /\ <<PERCENT>> \in Seq(Chars)
    BY <1>2, <2>2, <2>3, BetweenType DEF Chars
  <2>7. (<<PERCENT>> \o Between(a, n))[1] = PERCENT
    BY <2>6
  <2>. QED
    BY <1>8, <2>1, <2>4, <2>5, <2>7
<1>10. Follows(Flushed, B, p, b)
  BY <1>9, Different DEF Follows, Stops
<1>11. PICK t \in Seq(Symbols) : t = s \o nstr
  BY <1>3, ConcatProperties
<1>. DEFINE m == Len(Flushed)
            C == With(B, m + 1, b)
<1>12. Reads(Append(Flushed, p), C, t \o Source(p, b))
  BY <1>3, <1>7, <1>8, <1>10, <1>11, ReadsAppend
<1>13. t \o Source(p, b) = SubSeq(m_pattern, 1, i' - 1)
  <2>. 1 \in Nat /\ 1 <= 1
    OBVIOUS
  <2>1. Between(1, i) \o Between(i, n) = Between(1, n)
    BY <1>2, BetweenJoin
  <2>. QED
    BY <1>1, <1>6, <1>8, <1>11, <2>1 DEF Between
<1>14. /\ Append(Flushed, p)[m + 1] = p /\ Len(Append(Flushed, p)) = m + 1
       /\ DOMAIN Append(Flushed, p) = 1..m+1 /\ DOMAIN Flushed = 1..m /\ m \in Nat
  BY <1>3, AppendProperties
<1>15. C \in SUBSET DOMAIN Append(Flushed, p) /\ (m + 1 \in C <=> b)
  BY <1>7, <1>14 DEF With
<1>16. SubSeq(m_pattern, 1, i' - 1) \in Seq(Symbols)
       /\ SubSeq(m_pattern, 1, i' - 1) \o <<>> = SubSeq(m_pattern, 1, i' - 1)
  <2>1. t \o Source(p, b) \in Seq(Symbols)
    BY SourceType, ConcatProperties
  <2>. QED
    BY <1>13, <2>1, ConcatEmptySeq
<1>. HIDE DEF C, m
<1>17. GoesOn(Append(Flushed, p), C, <<>>, m_pattern, n)
  BY <1>8, <1>9, <1>14, <1>15 DEF GoesOn
<1>. QED
  BY <1>1, <1>4, <1>12, <1>13, <1>15, <1>16, <1>17 DEF ReadsInv

\* Every step keeps what was read.
LEMMA NextReads ==
  ASSUME TypeOK, ItemOK, ReadsInv, [Next]_vars
  PROVE  ReadsInv'
<1>1. CASE TextChar
  BY <1>1, CharReads
<1>2. CASE Percent
  BY <1>2 DEF Percent, ReadsInv
<1>3. CASE TextEnd
  <2>. SUFFICES ASSUME ~Contains(vec, PatternError)' PROVE ReadsInv'
    BY DEF ReadsInv
  <2>1. /\ vec' = Flushed /\ nstr' = <<>> /\ pc = "text" /\ pc' = "build"
        /\ i' = i /\ m_pattern' = m_pattern
    BY <1>3 DEF TextEnd
  <2>2. vec \in Seq(Piece) /\ nstr \in Seq(Symbols) /\ <<>> \in Seq(Symbols)
    BY CharsAreSymbols DEF TypeOK
  <2>3. ~Contains(vec, PatternError)
    <3>1. CASE nstr = <<>>
      BY <2>1, <3>1 DEF Flushed
    <3>2. CASE nstr # <<>>
      <4>1. PICK q \in Piece : q = Text(nstr)
        BY <2>2 DEF Text, Piece
      <4>2. vec' = Append(vec, q)
        BY <2>1, <3>2, <4>1 DEF Flushed
      <4>. QED
        BY <2>2, <4>2, AppendProperties DEF Contains
    <3>. QED
      BY <3>1, <3>2
  <2>4. PICK B \in SUBSET DOMAIN vec, s \in Seq(Symbols) :
          /\ Reads(vec, B, s)
          /\ s \o nstr = SubSeq(m_pattern, 1, i - 1)
          /\ GoesOn(vec, B, nstr, m_pattern, i)
    BY <2>1, <2>3 DEF ReadsInv
  <2>5. B \in SUBSET DOMAIN Flushed /\ Reads(Flushed, B, s \o nstr)
    BY <2>4, FlushReads
  <2>6. PICK t \in Seq(Symbols) : t = s \o nstr
    BY <2>2, ConcatProperties
  <2>7. t \o <<>> = t
    BY ConcatEmptySeq
  <2>. QED
    BY <2>1, <2>4, <2>5, <2>6, <2>7 DEF ReadsInv
<1>4. CASE NameEnd
  BY <1>4 DEF NameEnd, InItem, ReadsInv
<1>5. CASE OpenBrace
  BY <1>5 DEF OpenBrace, InItem, ReadsInv
<1>6. CASE CloseBrace
  BY <1>6 DEF CloseBrace, InItem, ReadsInv
<1>7. CASE ItemChar
  BY <1>7 DEF ItemChar, InItem, ReadsInv
<1>8. CASE ItemEnd
  BY <1>8 DEF ItemEnd, ReadsInv
<1>9. CASE PushItem
  BY <1>9, PushReads
<1>10. CASE PushError
  <2>1. PatternError \in Piece
    BY DEF PatternError, Text, Piece, Symbols
  <2>2. vec' = Append(vec, PatternError) /\ vec \in Seq(Piece)
    BY <1>10 DEF PushError, TypeOK
  <2>3. Contains(Append(vec, PatternError), PatternError)
    BY <2>1, <2>2, AppendProperties DEF Contains
  <2>4. Contains(vec, PatternError)'
    BY <2>2, <2>3 DEF PatternError, Text, ErrorText
  <2>. QED
    BY <2>4 DEF ReadsInv
<1>11. CASE Build
  BY <1>11 DEF Build, ReadsInv
<1>12. CASE UNCHANGED vars
  BY <1>12 DEF vars, itemVars, ReadsInv
<1>. QED
  BY <1>1, <1>2, <1>3, <1>4, <1>5, <1>6, <1>7, <1>8, <1>9, <1>10, <1>11, <1>12
     DEF Next

\* What was read gives the reading that ReadsBack asks for.
LEMMA ReadingExists ==
  ASSUME TypeOK, ReadsInv
  PROVE  ReadsBack
<1>. SUFFICES ASSUME pc \in {"text", "build", "done"}, ~Contains(vec, PatternError)
              PROVE  \E B \in SUBSET DOMAIN Flushed :
                       Reads(Flushed, B, SubSeq(m_pattern, 1, i - 1))
  BY DEF ReadsBack
<1>1. PICK B \in SUBSET DOMAIN vec, s \in Seq(Symbols) :
        /\ Reads(vec, B, s)
        /\ s \o nstr = SubSeq(m_pattern, 1, i - 1)
        /\ IF pc \in {"build", "done"} THEN nstr = <<>>
           ELSE GoesOn(vec, B, nstr, m_pattern, i)
  BY DEF ReadsInv
<1>2. CASE pc = "text"
  BY <1>1, <1>2, FlushReads
<1>3. CASE pc # "text"
  <2>1. nstr = <<>> /\ Flushed = vec
    BY <1>1, <1>3 DEF Flushed
  <2>2. s \o <<>> = s
    BY ConcatEmptySeq
  <2>. QED
    BY <1>1, <2>1, <2>2
<1>. QED
  BY <1>2, <1>3

\* Nothing of a pattern is lost, doubled or moved, whatever the pattern: as long
\* as no brace was left open, the pieces found so far read back as the part of
\* the pattern that was consumed (log.cpp:458-525).
THEOREM PatternsReadBack == Spec => []ReadsBack
<1>1. Init => TypeOK /\ ItemOK /\ ReadsInv
  BY InitType, InitReads
<1>2. TypeOK /\ ItemOK /\ ReadsInv /\ [Next]_vars => (TypeOK /\ ItemOK /\ ReadsInv)'
  BY NextType, NextItem, NextReads
<1>3. TypeOK /\ ReadsInv => ReadsBack
  BY ReadingExists
<1>. QED
  BY <1>1, <1>2, <1>3, PTL DEF Spec

=============================================================================
