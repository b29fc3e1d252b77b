---------------------------- MODULE LogFormatter ----------------------------
(***************************************************************************)
(* LogFormatter::init() (log.cpp): a pattern such as "%d{%Y}%T[%p] %m%n"   *)
(* is cut into literal text and items, each a name behind '%' with an      *)
(* optional argument in braces, and every item becomes a FormatItem.       *)
(* Characters are strings of length one; positions count from 1, so i and  *)
(* n are the i and n of the code plus one.                                 *)
(***************************************************************************)
EXTENDS Naturals, Sequences, FiniteSetsExt, SequencesExt

CONSTANTS
  Alpha,        \* the letters that occur in patterns
  Signs,        \* the other characters, without '%' and the braces
  MaxLen        \* bound: the length of a pattern

\* The characters that have a meaning.
PERCENT == "%"
OPEN == "{"
CLOSE == "}"

Chars == Alpha \cup Signs \cup {PERCENT, OPEN, CLOSE}

\* From the name of an item to its class.
s_format_items ==
  [m |-> "Message", p |-> "Level", r |-> "Elapse", c |-> "Name",
   t |-> "ThreadId", n |-> "NewLine", d |-> "DateTime", f |-> "Filename",
   l |-> "Line", T |-> "Tab", F |-> "FiberId", N |-> "ThreadName"]

\* The names are letters: isalpha() is true of them.
ASSUME LogFormatterAssumption ==
  /\ MaxLen \in Nat
  /\ {PERCENT, OPEN, CLOSE} \cap (Alpha \cup Signs) = {}
  /\ Signs \cap (Alpha \cup DOMAIN s_format_items) = {}

\* What format() of each class writes: the level it is given, the name of the
\* event's logger, and otherwise a field of the event or a character.
Writes ==
  [Message |-> "m_ss", Level |-> "level", Elapse |-> "m_elapse",
   Name |-> "m_logger", ThreadId |-> "m_threadId", NewLine |-> "end of line",
   DateTime |-> "m_time", Filename |-> "m_file", Line |-> "m_line",
   Tab |-> "tab", FiberId |-> "m_fiberId", ThreadName |-> "m_threadName"]

VARIABLES
  m_pattern,
  i,            \* the position of the outer loop
  n,            \* the position of the inner loop
  nstr,         \* literal text that is not in vec yet
  str, fmt,     \* name and argument of the current item
  fmt_status,   \* 1 between '{' and '}'
  fmt_begin,    \* the position of '{'
  vec,          \* the pieces found so far
  m_items, m_error,
  pc            \* "text", "item", "push", "build" or "done"

itemVars == <<n, str, fmt, fmt_status, fmt_begin>>
vars == <<m_pattern, i, itemVars, nstr, vec, m_items, m_error, pc>>

\* The elements of vec, a tuple <text, argument, is it an item>.
Text(s) == [str |-> s, fmt |-> <<>>, item |-> FALSE]
Item(s, f) == [str |-> s, fmt |-> f, item |-> TRUE]
ErrorText == "<<pattern_error>>"
PatternError == Text(<<ErrorText>>)

\* std::string::substr over the positions a..b-1.
Between(a, b) == SubSeq(m_pattern, a, b - 1)

Init ==
  /\ m_pattern \in BoundedSeq(Chars, MaxLen)
  /\ i = 1 /\ n = 1 /\ fmt_begin = 1 /\ fmt_status = 0
  /\ nstr = <<>> /\ str = <<>> /\ fmt = <<>>
  /\ vec = <<>> /\ m_items = <<>> /\ m_error = FALSE
  /\ pc = "text"

-----------------------------------------------------------------------------
(***************************************************************************)
(* The outer loop: literal text, and the start of an item.                 *)
(***************************************************************************)

\* A character of the text.  Of "%%" the first '%' is one, and the second is
\* then looked at by itself, because only the loop's own ++i moves on.
TextChar ==
  /\ pc = "text"
  /\ i <= Len(m_pattern)
  /\ m_pattern[i] # PERCENT \/ (i < Len(m_pattern) /\ m_pattern[i + 1] = PERCENT)
  /\ nstr' = Append(nstr, m_pattern[i])
  /\ i' = i + 1
  /\ UNCHANGED <<m_pattern, itemVars, vec, m_items, m_error, pc>>

Percent ==
  /\ pc = "text"
  /\ i <= Len(m_pattern)
  /\ m_pattern[i] = PERCENT
  /\ i < Len(m_pattern) => m_pattern[i + 1] # PERCENT
  /\ n' = i + 1
  /\ fmt_status' = 0 /\ fmt_begin' = 1 /\ str' = <<>> /\ fmt' = <<>>
  /\ pc' = "item"
  /\ UNCHANGED <<m_pattern, i, nstr, vec, m_items, m_error>>

\* Literal text before an item, or before the end, becomes a piece.
Flushed == IF nstr = <<>> THEN vec ELSE Append(vec, Text(nstr))

TextEnd ==
  /\ pc = "text"
  /\ i > Len(m_pattern)
  /\ vec' = Flushed
  /\ nstr' = <<>>
  /\ pc' = "build"
  /\ UNCHANGED <<m_pattern, i, itemVars, m_items, m_error>>

-----------------------------------------------------------------------------
(***************************************************************************)
(* The inner loop: the name of the item and its argument.                  *)
(***************************************************************************)

InItem == pc = "item" /\ n <= Len(m_pattern)

\* What ends a name that is not followed by an argument.
Stops(ch) == ch \notin Alpha \cup {OPEN, CLOSE}

NameEnd ==
  /\ InItem
  /\ fmt_status = 0
  /\ Stops(m_pattern[n])
  /\ str' = Between(i + 1, n)
  /\ pc' = "push"
  /\ UNCHANGED <<m_pattern, i, n, nstr, fmt, fmt_status, fmt_begin, vec,
                 m_items, m_error>>

OpenBrace ==
  /\ InItem
  /\ fmt_status = 0
  /\ m_pattern[n] = OPEN
  /\ str' = Between(i + 1, n)
  /\ fmt_status' = 1
  /\ fmt_begin' = n
  /\ n' = n + 1
  /\ UNCHANGED <<m_pattern, i, nstr, fmt, vec, m_items, m_error, pc>>

\* Mutant of CloseBrace: the argument begins with the brace.
CloseBraceEarly ==
  /\ InItem
  /\ fmt_status = 1
  /\ m_pattern[n] = CLOSE
  /\ fmt' = Between(fmt_begin, n)
  /\ fmt_status' = 0
  /\ n' = n + 1
  /\ pc' = "push"
  /\ UNCHANGED <<m_pattern, i, nstr, str, fmt_begin, vec, m_items, m_error>>

CloseBrace ==
  /\ InItem
  /\ fmt_status = 1
  /\ m_pattern[n] = CLOSE
  /\ fmt' = Between(fmt_begin + 1, n)
  /\ fmt_status' = 0
  /\ n' = n + 1
  /\ pc' = "push"
  /\ UNCHANGED <<m_pattern, i, nstr, str, fmt_begin, vec, m_items, m_error>>

\* Mutant of ItemChar: ++n is missing.
ItemCharStays ==
  /\ InItem
  /\ IF fmt_status = 0 THEN m_pattern[n] \in Alpha \cup {CLOSE}
                       ELSE m_pattern[n] # CLOSE
  /\ UNCHANGED vars

\* Any other character; at the end of the pattern the rest is the name.
ItemChar ==
  /\ InItem
  /\ IF fmt_status = 0 THEN m_pattern[n] \in Alpha \cup {CLOSE}
                       ELSE m_pattern[n] # CLOSE
  /\ n' = n + 1
  /\ str' = IF n = Len(m_pattern) /\ str = <<>>
            THEN Between(i + 1, n + 1) ELSE str
  /\ UNCHANGED <<m_pattern, i, nstr, fmt, fmt_status, fmt_begin, vec, m_items,
                 m_error, pc>>

ItemEnd ==
  /\ pc = "item"
  /\ n > Len(m_pattern)
  /\ pc' = "push"
  /\ UNCHANGED <<m_pattern, i, itemVars, nstr, vec, m_items, m_error>>

\* The item is complete; the outer loop goes on behind it.
PushItem ==
  /\ pc = "push"
  /\ fmt_status = 0
  /\ vec' = Append(Flushed, Item(str, fmt))
  /\ nstr' = <<>>
  /\ i' = n
  /\ pc' = "text"
  /\ UNCHANGED <<m_pattern, itemVars, m_items, m_error>>

\* The brace is never closed; the outer loop goes on behind the '%'.
PushError ==
  /\ pc = "push"
  /\ fmt_status = 1
  /\ vec' = Append(vec, PatternError)
  /\ m_error' = TRUE
  /\ i' = i + 1
  /\ pc' = "text"
  /\ UNCHANGED <<m_pattern, itemVars, nstr, m_items>>

-----------------------------------------------------------------------------
(***************************************************************************)
(* From pieces to FormatItems.                                             *)
(***************************************************************************)

\* An item is known by a name of one letter.
Known(p) == Len(p.str) = 1 /\ p.str[1] \in DOMAIN s_format_items

\* What the FormatItem of a piece writes, and its argument: the date format (an
\* empty one stands for the default), or the text of a StringFormatItem.
FormatItem(p) ==
  IF p.item /\ Known(p)
  THEN [writes |-> Writes[s_format_items[p.str[1]]], arg |-> p.fmt]
  ELSE [writes |-> "m_string",
        arg |-> IF p.item THEN <<"<<error_format %">> \o p.str \o <<">>">>
                          ELSE p.str]

\* Mutant of Build: an unknown name is no error.
BuildAll ==
  /\ pc = "build"
  /\ m_items' = [k \in DOMAIN vec |-> FormatItem(vec[k])]
  /\ pc' = "done"
  /\ UNCHANGED <<m_pattern, i, itemVars, nstr, vec, m_error>>

Build ==
  /\ pc = "build"
  /\ m_items' = [k \in DOMAIN vec |-> FormatItem(vec[k])]
  /\ m_error' = (m_error \/ \E k \in DOMAIN vec : vec[k].item /\ ~Known(vec[k]))
  /\ pc' = "done"
  /\ UNCHANGED <<m_pattern, i, itemVars, nstr, vec>>

Next ==
  \/ TextChar \/ Percent \/ TextEnd
  \/ NameEnd \/ OpenBrace \/ CloseBrace \/ ItemChar \/ ItemEnd
  \/ PushItem \/ PushError \/ Build

\* The constructor runs to its end.
Spec == Init /\ [][Next]_vars /\ WF_vars(Next)

-----------------------------------------------------------------------------
(***************************************************************************)
(* What a reading of a pattern is.                                         *)
(***************************************************************************)

\* The characters a piece was read from; b says whether it had braces.
Source(p, b) ==
  IF ~p.item THEN p.str
  ELSE <<PERCENT>> \o p.str \o (IF b THEN <<OPEN>> \o p.fmt \o <<CLOSE>> ELSE <<>>)

\* The pieces ps, those in B with braces, make up exactly the text s; names and
\* arguments are as long as they can be, and so is literal text.
Reads(ps, B, s) ==
  LET src == [k \in DOMAIN ps |-> Source(ps[k], k \in B)] IN
  /\ FlattenSeq(src) = s
  /\ \A k \in DOMAIN ps :
       IF ps[k].item
       THEN /\ \A j \in DOMAIN ps[k].str : ~Stops(ps[k].str[j])
            /\ ~Contains(ps[k].str, OPEN) /\ ~Contains(ps[k].fmt, CLOSE)
            /\ k \notin B => /\ ps[k].fmt = <<>>
                             /\ k < Len(ps) => Stops(src[k + 1][1])
       ELSE /\ ps[k].str # <<>>
            /\ k < Len(ps) => ps[k + 1].item

\* A pattern s without errors: text, in which '%' stands only before '%', and
\* known items.  ok[k] says so of the rest of s from position k on.
Valid(s) ==
  LET Is(k, ch) == k <= Len(s) /\ s[k] = ch
      ok[k \in 1..Len(s)+1] ==
        \/ k > Len(s)
        \/ (~Is(k, PERCENT) \/ Is(k + 1, PERCENT)) /\ ok[k + 1]
        \/ /\ Is(k, PERCENT)
           /\ k < Len(s)
           /\ s[k + 1] \in DOMAIN s_format_items
           /\ \/ (k + 2 > Len(s) \/ Stops(s[k + 2])) /\ ok[k + 2]
              \/ /\ Is(k + 2, OPEN)
                 /\ \E e \in k+3..Len(s) :
                      /\ s[e] = CLOSE
                      /\ \A j \in k+3..e-1 : s[j] # CLOSE
                      /\ ok[e + 1]
  IN  ok[1]

-----------------------------------------------------------------------------

\* Nothing of the pattern is lost, doubled or moved: as long as no brace was
\* left open, the pieces found so far read back as the part of the pattern
\* that was consumed, at every turn of the outer loop (log.cpp:458-525).
ReadsBack ==
  pc \in {"text", "build", "done"} /\ ~Contains(vec, PatternError) =>
    \E B \in SUBSET DOMAIN Flushed :
      Reads(Flushed, B, SubSeq(m_pattern, 1, i - 1))

\* isError(), on which Logger::setFormatter() and the configuration rely to
\* refuse a pattern, is true for exactly the patterns with an unknown item or
\* an open brace (log.cpp:321, 754).
ErrorExact == pc = "done" => (m_error <=> ~Valid(m_pattern))

\* init() ends: every turn of the outer loop moves on, although it sets its own
\* loop variable (log.cpp:515).
Terminates == <>(pc = "done")

=============================================================================
