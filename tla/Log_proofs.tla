------------------------------ MODULE Log_proofs ------------------------------
(* Theorems about Log, for any threads, levels and number of calls. *)
EXTENDS Log, SequenceTheorems, TLAPS

-----------------------------------------------------------------------------
(* Where pieces are. *)

Spot(s, p) == {i \in DOMAIN s : s[i] = p}
Holds(s, by, n) == \E p \in Range(s) : p.by = by /\ p.n = n
Pieces == Range(text) \cup Range(stream) \cup Range(file)
PieceOf(call, part) == [by |-> call.by, n |-> call.n, part |-> part]

\* The pieces of a call are in s once, next to each other.
Once(s, call) ==
    \E i \in DOMAIN s : \A k \in DOMAIN PiecesOf(call) :
        Spot(s, PieceOf(call, PiecesOf(call)[k])) = {i + k - 1}

-----------------------------------------------------------------------------
(* The inductive invariant. *)

LineLabels  == {"append", "write", "clear"}
ChainLabels == {"prefix", "text", "spin", "enter"} \cup Inside

\* A call is numbered after all that came before it.
Numbered ==
    /\ \A t \in Threads :
          /\ calls[t].n <= count
          /\ at[t] # "idle" => calls[t].n >= 1
          /\ at[t] \in LineLabels => calls[t].kind = "line"
          /\ at[t] \in ChainLabels => calls[t].kind = "chain"
    /\ \A p \in Pieces :
          /\ p.n <= count
          /\ at[p.by] # "idle" => p.n <= calls[p.by].n
    /\ \A c \in done :
          /\ c.n <= count
          /\ at[c.by] # "idle" => c.n <= calls[c.by].n
          /\ at[c.by] \notin {"idle", "leave"} => c.n < calls[c.by].n

\* What a call that is done has written is in no buffer any more, and what
\* its thread writes later comes behind it.
NotStreamed == {"create", "append", "write", "clear", "prefix", "copy", "clearChain"}
Flushed ==
    /\ \A t \in Threads : at[t] \in NotStreamed => ~Holds(stream, t, calls[t].n)
    /\ \A c \in done : ~Holds(text, c.by, c.n) /\ ~Holds(stream, c.by, c.n)
    /\ \A c \in done : \A i, j \in DOMAIN file :
          file[i].by = c.by /\ file[i].n = c.n /\ file[j].by = c.by /\ c.n < file[j].n
              => i < j

\* Whoever has put something into m_strLogText is on its way to clear it.
TextIsTransient ==
    text # << >> => \E t \in Threads : at[t] \in {"write", "clear", "reset", "copy", "clearChain"}

AloneIsAlone ==
    \A t \in alone : at[t] # "idle" => \A s \in Threads \ {t} : at[s] = "idle"

\* How far a call that is alone has come.
Progress ==
    \A t \in alone :
        LET call == [by |-> t, n |-> calls[t].n, kind |-> calls[t].kind] IN
        /\ at[t] \notin {"idle", "clear", "clearChain", "leave"} => ~Holds(file, t, calls[t].n)
        /\ at[t] = "write" => Once(text, call)
        /\ at[t] = "text" => /\ Spot(stream, Part(t, "prefix")) = {Len(stream)}
                             /\ Spot(stream, Part(t, "text")) = {}
        /\ at[t] \in {"spin", "enter", "test", "gather"} => Once(stream, call)
        /\ at[t] \in {"reset", "copy"} => Once(text, call)
        /\ at[t] \in {"clear", "clearChain"} => Once(file, call)

Logged == \A c \in done : c.alone => Once(file, c)

IInv ==
    /\ TypeOK /\ Numbered /\ Flushed
    /\ TextIsTransient /\ AloneIsAlone /\ Progress /\ Logged

-----------------------------------------------------------------------------
(* Types. *)

LEMMA PieceType ==
    ASSUME TypeOK, NEW t \in Threads, calls[t].n >= 1, NEW part \in Parts
    PROVE  Part(t, part) \in Piece
<1>1. calls[t] \in [n : 0 .. MaxCalls, level : 0 .. MaxLevel, kind : Kinds]
  BY DEF TypeOK
<1>2. calls[t].n \in 0 .. MaxCalls
  BY <1>1
<1>3. calls[t].n \in 1 .. MaxCalls
  BY <1>2, MaxCallsAssumption
<1>4. QED
  BY <1>3 DEF Part, Piece

\* Only Enter sets m_bFlushing, and only Leave takes its thread out of endl.
LEMMA FlagStep ==
    ASSUME TypeOK, Next
    PROVE  flushing' => \E t \in Threads : at'[t] \in Inside
<1> USE DEF TypeOK, Go, Inside
<1> SUFFICES ASSUME flushing' PROVE \E t \in Threads : at'[t] \in Inside
  OBVIOUS
<1>1. ASSUME NEW t \in Threads, NEW kind \in Kinds, NEW level \in Levels, Call(t, kind, level)
      PROVE  \E u \in Threads : at'[u] \in Inside
  <2>1. PICK u \in Threads : at[u] \in Inside
    BY <1>1 DEF Call, members
  <2>2. at'[u] = at[u]
    BY <1>1, <2>1 DEF Call
  <2>3. QED
    BY <2>1, <2>2
<1>2. ASSUME NEW t \in Threads, Enter(t) PROVE at'[t] \in Inside
  BY <1>2 DEF Enter
<1>3. ASSUME NEW t \in Threads,
             Line(t) \/ Chain(t) \/ Spin(t) \/ \E level \in Lowest : SetLogLevel(t, level)
      PROVE  \E u \in Threads : at'[u] \in Inside
  <2>1. flushing /\ at[t] \notin Inside
    BY <1>3 DEF Line, Chain, Create, AppendLine, WriteLine, WriteText, ClearLine, Clear,
       Prefix, Text, Spin, SetLogLevel, members
  <2>2. \A u \in Threads \ {t} : at'[u] = at[u]
    BY <1>3 DEF Line, Chain, Create, AppendLine, WriteLine, WriteText, ClearLine, Clear,
       Prefix, Text, Spin, SetLogLevel
  <2>3. QED
    BY <2>1, <2>2
<1>4. ASSUME NEW t \in Threads,
             Test(t) \/ Gather(t) \/ Reset(t) \/ WriteChain(t) \/ ClearChain(t)
      PROVE  at'[t] \in Inside
  BY <1>4 DEF Test, Gather, Reset, WriteChain, WriteText, ClearChain, Clear
<1>5. ASSUME NEW t \in Threads, Leave(t) PROVE FALSE
  BY <1>5 DEF Leave
<1>6. ASSUME NEW t \in Threads, Race(t) \/ Optimized(t)
      PROVE  \E u \in Threads : at'[u] \in Inside
  BY <1>6 DEF Race, Optimized, members
<1>7. QED
  BY <1>1, <1>2, <1>3, <1>4, <1>5, <1>6 DEF Next, Endl

LEMMA TypeStep ==
    ASSUME TypeOK, Numbered, Next
    PROVE  TypeOK'
<1> DEFINE Flag == flushing => \E t \in Threads : at[t] \in Inside
           Call1 == [n : 0 .. MaxCalls, level : 0 .. MaxLevel, kind : Kinds]
           Done1 == [by : Threads, n : 1 .. MaxCalls, kind : Kinds, alone : BOOLEAN]
           Rest == /\ exists \in BOOLEAN /\ flushing \in BOOLEAN
                   /\ lowest \in 0 .. MaxLevel + 1 /\ last \in 0 .. MaxLevel
                   /\ text \in Seq(Piece) /\ stream \in Seq(Piece) /\ file \in Seq(Piece)
                   /\ at \in [Threads -> {"idle", "create", "append", "write", "clear", "prefix",
                                          "text", "spin", "enter"} \cup Inside]
                   /\ calls \in [Threads -> Call1]
                   /\ count \in 0 .. MaxCalls
                   /\ fault \in {"none", "raced", "twoLogs", "hoisted"}
                   /\ alone \subseteq Threads
                   /\ done \subseteq Done1
<1>1. TypeOK <=> Rest /\ Flag
  BY DEF TypeOK
<1>2. TypeOK' <=> Rest' /\ Flag'
  BY DEF TypeOK
<1>3. Flag'
  BY FlagStep
<1>4. Rest
  BY <1>1
<1>5. NoCall \in Call1
  BY MaxCallsAssumption DEF NoCall, Kinds, MaxLevel
<1>6. \A t \in Threads : calls[t] \in Call1 /\ calls[t].level \in 0 .. MaxLevel
  BY <1>4
<1> USE <1>4, <1>6, MaxCallsAssumption DEF Go, Inside, members
<1>7. ASSUME NEW t \in Threads, NEW kind \in Kinds, NEW level \in Levels, Call(t, kind, level)
      PROVE  Rest'
  <2>1. count' \in 0 .. MaxCalls
    BY <1>7 DEF Call
  <2>2. [n |-> count', level |-> level, kind |-> kind] \in Call1
    BY <2>1, LevelsAssumption
  <2>3. alone' \subseteq Threads
    BY <1>7 DEF Call, Begins
  <2>4. at' \in [Threads -> {"idle", "create", "append", "write", "clear", "prefix",
                            "text", "spin", "enter"} \cup Inside]
    BY <1>7 DEF Call, First, Kinds
  <2>5. calls' \in [Threads -> Call1]
    BY <1>7, <2>2 DEF Call
  <2>6. QED
    BY <1>7, <2>1, <2>3, <2>4, <2>5 DEF Call
<1>8. ASSUME NEW t \in Threads, NEW level \in Lowest, SetLogLevel(t, level) PROVE Rest'
  BY <1>8, LevelsAssumption DEF SetLogLevel, history
<1>9. ASSUME NEW t \in Threads, Create(t) PROVE Rest'
  <2>1. calls' \in [Threads -> Call1]
    BY <1>9, <1>5 DEF Create, End
  <2>2. QED
    BY <1>9, <2>1 DEF Create, history, First
<1>10. ASSUME NEW t \in Threads, NEW part \in Parts, at[t] # "idle"
       PROVE  Part(t, part) \in Piece
  BY <1>10, PieceType DEF Numbered
<1>11. ASSUME NEW t \in Threads, at[t] # "idle", Returns(t) PROVE done' \subseteq Done1
  <2>1. calls[t].n \in 0 .. MaxCalls /\ calls[t].kind \in Kinds /\ calls[t].n >= 1
    BY <1>11 DEF Numbered
  <2>2. [by |-> t, n |-> calls[t].n, kind |-> calls[t].kind, alone |-> t \in alone] \in Done1
    BY <2>1
  <2>3. QED
    BY <1>11, <2>2 DEF Returns
<1>12. ASSUME NEW t \in Threads, AppendLine(t) PROVE Rest'
  <2>1. text' \in Seq(Piece)
    <3>1. Part(t, "line") \in Piece
      BY <1>12, <1>10 DEF AppendLine, Parts
    <3>2. QED
      BY <1>12, <3>1 DEF AppendLine
  <2>2. QED
    BY <1>12, <2>1 DEF AppendLine, history
<1>13. ASSUME NEW t \in Threads, WriteLine(t) \/ WriteChain(t) PROVE Rest'
  <2>1. file' \in Seq(Piece)
    <3>1. file' = file \o text
      BY <1>13 DEF WriteLine, WriteChain, WriteText
    <3>2. QED
      BY <3>1
  <2>2. QED
    BY <1>13, <2>1 DEF WriteLine, WriteChain, WriteText, history
<1>14. ASSUME NEW t \in Threads, ClearLine(t) \/ ClearChain(t) PROVE Rest'
  <2>1. done' \subseteq Done1
    BY <1>14, <1>11 DEF ClearLine, ClearChain, Clear
  <2>2. calls' \in [Threads -> Call1]
    BY <1>14, <1>5 DEF ClearLine, ClearChain, End
  <2>3. CASE ClearLine(t)
    BY <2>1, <2>2, <2>3 DEF ClearLine, Clear
  <2>4. CASE ClearChain(t)
    BY <2>1, <2>2, <2>4 DEF ClearChain, Clear
  <2>5. QED
    BY <1>14, <2>3, <2>4
<1>15. ASSUME NEW t \in Threads, Prefix(t) \/ Text(t) PROVE Rest'
  <2>1. stream' \in Seq(Piece)
    <3>1. Part(t, "prefix") \in Piece /\ Part(t, "text") \in Piece
      BY <1>15, <1>10 DEF Prefix, Text, Parts
    <3>2. CASE Prefix(t)
      BY <3>1, <3>2 DEF Prefix
    <3>3. CASE Text(t)
      BY <3>1, <3>3 DEF Text
    <3>4. QED
      BY <1>15, <3>2, <3>3
  <2>2. last' \in 0 .. MaxLevel
    BY <1>15 DEF Prefix, Text
  <2>3. QED
    BY <1>15, <2>1, <2>2 DEF Prefix, Text, history
<1>16. ASSUME NEW t \in Threads, Spin(t) \/ Enter(t) \/ Test(t) PROVE Rest'
  BY <1>16 DEF Spin, Enter, Test, history
<1>17. ASSUME NEW t \in Threads, Gather(t) PROVE Rest'
  <2>1. text' \in Seq(Piece)
    BY <1>17, ConcatProperties DEF Gather
  <2>2. QED
    BY <1>17, <2>1 DEF Gather, history
<1>18. ASSUME NEW t \in Threads, Reset(t) PROVE Rest'
  BY <1>18 DEF Reset, history
<1>19. ASSUME NEW t \in Threads, Leave(t) PROVE Rest'
  <2>1. calls' \in [Threads -> Call1]
    BY <1>19, <1>5 DEF Leave, End
  <2>2. QED
    BY <1>19, <2>1 DEF Leave, history
<1>20. ASSUME NEW t \in Threads, Race(t) \/ Optimized(t) PROVE Rest'
  BY <1>20 DEF Race, Optimized, history
<1> HIDE DEF Rest, Flag
<1>21. Rest'
  BY <1>7, <1>8, <1>9, <1>12, <1>13, <1>14, <1>15, <1>16, <1>17, <1>18, <1>19, <1>20
     DEF Next, Line, Chain, Endl
<1>22. QED
  BY <1>2, <1>3, <1>21

-----------------------------------------------------------------------------
(* Which steps do anything to the buffers and to the calls. *)

LEMMA RangeAppend ==
    ASSUME NEW S, NEW s \in Seq(S), NEW x \in S
    PROVE  Range(Append(s, x)) = Range(s) \cup {x}
<1>1. Len(Append(s, x)) = Len(s) + 1 /\ DOMAIN Append(s, x) = 1 .. Len(s) + 1
  OBVIOUS
<1>2. Append(s, x)[Len(s) + 1] = x /\ \A i \in 1 .. Len(s) : Append(s, x)[i] = s[i]
  OBVIOUS
<1>3. QED
  BY <1>1, <1>2 DEF Range

LEMMA BufferFrame ==
    ASSUME Next
    PROVE  \/ UNCHANGED <<text, stream, file, done>>
           \/ \E t \in Threads :
                 \/ AppendLine(t) \/ WriteLine(t) \/ ClearLine(t)
                 \/ Prefix(t) \/ Text(t) \/ Gather(t) \/ Reset(t)
                 \/ WriteChain(t) \/ ClearChain(t)
BY DEF Next, Call, SetLogLevel, Line, Create, Chain, Endl, Spin, Enter, Test, Leave,
   Race, Optimized, members, history

LEMMA CallsFrame ==
    ASSUME TypeOK, Next
    PROVE  /\ count' \in {count, count + 1}
           /\ \A u \in Threads : at'[u] # "idle" =>
                 \/ /\ at[u] # "idle" /\ (at[u] = "leave" => at'[u] = "leave")
                    /\ calls'[u] = calls[u]
                 \/ /\ at[u] = "idle" /\ at'[u] \notin {"idle", "leave"}
                    /\ count' = count + 1 /\ calls'[u].n = count'
<1> USE DEF TypeOK, Go, End, members, history, Inside
<1> DEFINE P == /\ count' \in {count, count + 1}
                /\ \A u \in Threads : at'[u] # "idle" =>
                      \/ /\ at[u] # "idle" /\ (at[u] = "leave" => at'[u] = "leave")
                         /\ calls'[u] = calls[u]
                      \/ /\ at[u] = "idle" /\ at'[u] \notin {"idle", "leave"}
                         /\ count' = count + 1 /\ calls'[u].n = count'
<1>1. ASSUME NEW t \in Threads, NEW kind \in Kinds, NEW level \in Levels, Call(t, kind, level)
      PROVE  P
  BY <1>1 DEF Call, First
<1>2. ASSUME NEW t \in Threads, NEW level \in Lowest, SetLogLevel(t, level) PROVE P
  BY <1>2 DEF SetLogLevel
<1>3. ASSUME NEW t \in Threads, Create(t) PROVE P
  BY <1>3 DEF Create, First
<1>4. ASSUME NEW t \in Threads, AppendLine(t) \/ WriteLine(t) \/ ClearLine(t) PROVE P
  BY <1>4 DEF AppendLine, WriteLine, WriteText, ClearLine, Clear
<1>5. ASSUME NEW t \in Threads, Chain(t) PROVE P
  BY <1>5 DEF Chain, Prefix, Text
<1>6. ASSUME NEW t \in Threads, Spin(t) \/ Enter(t) \/ Test(t) \/ Gather(t) PROVE P
  BY <1>6 DEF Spin, Enter, Test, Gather
<1>7. ASSUME NEW t \in Threads, Reset(t) \/ WriteChain(t) \/ ClearChain(t) \/ Leave(t) PROVE P
  BY <1>7 DEF Reset, WriteChain, WriteText, ClearChain, Clear, Leave
<1>8. ASSUME NEW t \in Threads, Race(t) \/ Optimized(t) PROVE P
  BY <1>8 DEF Race, Optimized
<1> HIDE DEF P
<1>9. P
  BY <1>1, <1>2, <1>3, <1>4, <1>5, <1>6, <1>7, <1>8 DEF Next, Line, Endl
<1>10. QED
  BY <1>9 DEF P

\* A piece is new only when its thread, which is in a call, appends it.
LEMMA PiecesStep ==
    ASSUME TypeOK, Numbered, Next, NEW p \in Pieces'
    PROVE  p \in Pieces \/ \E t \in Threads, part \in Parts :
                                at[t] # "idle" /\ at'[t] # "idle" /\ p = Part(t, part)
<1> USE DEF TypeOK, Pieces
<1> DEFINE New == \E t \in Threads, part \in Parts :
                      at[t] # "idle" /\ at'[t] # "idle" /\ p = Part(t, part)
<1>1. ASSUME NEW t \in Threads, NEW part \in Parts, at[t] # "idle"
      PROVE  Part(t, part) \in Piece
  BY <1>1, PieceType DEF Numbered
<1>2. ASSUME NEW t \in Threads, AppendLine(t) PROVE p \in Pieces \/ New
  <2>1. Part(t, "line") \in Piece
    BY <1>1, <1>2 DEF AppendLine, Go, Parts
  <2>2. Range(text') = Range(text) \cup {Part(t, "line")}
    BY <1>2, <2>1, RangeAppend DEF AppendLine
  <2>3. QED
    BY <1>2, <2>2 DEF AppendLine, Go, Parts
<1>3. ASSUME NEW t \in Threads, NEW part \in {"prefix", "text"}, at[t] # "idle", at'[t] # "idle",
             stream' = Append(stream, Part(t, part)), UNCHANGED <<text, file>>
      PROVE  p \in Pieces \/ New
  <2>1. Part(t, part) \in Piece
    BY <1>1, <1>3 DEF Parts
  <2>2. Range(stream') = Range(stream) \cup {Part(t, part)}
    BY <1>3, <2>1, RangeAppend
  <2>3. QED
    BY <1>3, <2>2 DEF Parts
<1>4. ASSUME NEW t \in Threads, Prefix(t) \/ Text(t) PROVE p \in Pieces \/ New
  BY <1>3, <1>4 DEF Prefix, Text, Go
<1>5. ASSUME NEW t \in Threads, WriteLine(t) \/ WriteChain(t) PROVE p \in Pieces
  <2>1. file' = file \o text /\ UNCHANGED <<text, stream>>
    BY <1>5 DEF WriteLine, WriteChain, WriteText
  <2>2. Range(file') = Range(file) \cup Range(text)
    BY <2>1, RangeConcatenation
  <2>3. QED
    BY <2>1, <2>2
<1>6. ASSUME NEW t \in Threads, Gather(t) PROVE p \in Pieces
  <2>1. Range(text') = Range(text) \cup Range(stream)
    BY <1>6, RangeConcatenation DEF Gather
  <2>2. QED
    BY <1>6, <2>1 DEF Gather
<1>7. ASSUME NEW t \in Threads, ClearLine(t) \/ ClearChain(t) \/ Reset(t) PROVE p \in Pieces
  BY <1>7 DEF ClearLine, ClearChain, Clear, Reset, Range
<1>8. CASE UNCHANGED <<text, stream, file, done>>
  BY <1>8
<1>9. QED
  BY <1>2, <1>4, <1>5, <1>6, <1>7, <1>8, BufferFrame

\* A call is done when its thread, which wrote its pieces, has cleared the text.
LEMMA DoneStep ==
    ASSUME Next, NEW c \in done'
    PROVE  c \in done \/ \E t \in Threads :
              /\ ClearLine(t) \/ ClearChain(t)
              /\ c = [by |-> t, n |-> calls[t].n, kind |-> calls[t].kind, alone |-> t \in alone]
BY BufferFrame DEF AppendLine, WriteLine, WriteText, ClearLine, Clear, Returns, Prefix,
   Text, Gather, Reset, WriteChain, ClearChain, history

\* A thread that is in no call has kept what it had, or its call has ended.
LEMMA IdleStep ==
    ASSUME TypeOK, Next, NEW t \in Threads, at'[t] = "idle"
    PROVE  calls'[t].n \in {0, calls[t].n}
<1> USE DEF Go, End, NoCall
<1>0. DOMAIN at = Threads /\ DOMAIN calls = Threads
  BY DEF TypeOK
<1>1. ASSUME NEW u \in Threads, NEW kind \in Kinds, NEW level \in Levels, Call(u, kind, level)
      PROVE  calls'[t].n \in {0, calls[t].n}
  <2>1. CASE UNCHANGED <<at, calls>>
    BY <2>1
  <2>2. CASE /\ at' = [at EXCEPT ![u] = IF exists THEN First(kind) ELSE "create"]
             /\ calls' = [calls EXCEPT ![u] = [n |-> count', level |-> level, kind |-> kind]]
    BY <1>0, <2>2 DEF First, Kinds
  <2>3. QED
    BY <1>1, <2>1, <2>2 DEF Call
<1>2. ASSUME NEW u \in Threads, Line(u)
      PROVE  calls'[t].n \in {0, calls[t].n}
  BY <1>0, <1>2 DEF Line, Create, AppendLine, WriteLine, WriteText, ClearLine, Clear
<1>3. ASSUME NEW u \in Threads, Chain(u) \/ Spin(u) \/ Enter(u) \/ Test(u) \/ Gather(u) \/ Reset(u)
      PROVE  calls'[t].n \in {0, calls[t].n}
  BY <1>0, <1>3 DEF Chain, Prefix, Text, Spin, Enter, Test, Gather, Reset
<1>4. ASSUME NEW u \in Threads, WriteChain(u) \/ ClearChain(u) \/ Leave(u)
      PROVE  calls'[t].n \in {0, calls[t].n}
  BY <1>0, <1>4 DEF WriteChain, WriteText, ClearChain, Clear, Leave
<1>5. ASSUME NEW u \in Threads,
             Race(u) \/ Optimized(u) \/ \E level \in Lowest : SetLogLevel(u, level)
      PROVE  calls'[t].n \in {0, calls[t].n}
  BY <1>0, <1>5 DEF Race, Optimized, SetLogLevel
<1>6. QED
  BY <1>1, <1>2, <1>3, <1>4, <1>5 DEF Next, Endl

\* Lines and chains stay what they are.
LEMMA KindStep ==
    ASSUME TypeOK, Numbered, Next, NEW t \in Threads
    PROVE  /\ at'[t] \in LineLabels => calls'[t].kind = "line"
           /\ at'[t] \in ChainLabels => calls'[t].kind = "chain"
<1> USE DEF Inside, LineLabels, ChainLabels, Go
<1> DEFINE Stays == /\ at'[t] \in LineLabels => calls'[t].kind = "line"
                    /\ at'[t] \in ChainLabels => calls'[t].kind = "chain"
<1>1. /\ at[t] \in LineLabels => calls[t].kind = "line"
      /\ at[t] \in ChainLabels => calls[t].kind = "chain"
      /\ DOMAIN at = Threads /\ DOMAIN calls = Threads
  BY DEF Numbered, TypeOK
<1>2. ASSUME NEW u \in Threads, NEW kind \in Kinds, NEW level \in Levels, Call(u, kind, level)
      PROVE  Stays
  <2>1. CASE UNCHANGED <<at, calls>>
    BY <1>1, <2>1
  <2>2. CASE /\ at' = [at EXCEPT ![u] = IF exists THEN First(kind) ELSE "create"]
             /\ calls' = [calls EXCEPT ![u] = [n |-> count', level |-> level, kind |-> kind]]
    BY <1>1, <2>2 DEF First, Kinds
  <2>3. QED
    BY <1>2, <2>1, <2>2 DEF Call
<1>3. ASSUME NEW u \in Threads, Create(u) PROVE Stays
  <2>1. calls[u].kind \in Kinds
    BY DEF TypeOK
  <2>2. QED
    BY <1>1, <1>3, <2>1 DEF Create, First, End, Kinds
<1>4. ASSUME NEW u \in Threads, AppendLine(u) \/ WriteLine(u) \/ ClearLine(u) PROVE Stays
  BY <1>1, <1>4 DEF AppendLine, WriteLine, WriteText, ClearLine, Clear, End
<1>5. ASSUME NEW u \in Threads, Chain(u) \/ Spin(u) \/ Enter(u) \/ Test(u) \/ Gather(u) \/ Reset(u)
      PROVE  Stays
  BY <1>1, <1>5 DEF Chain, Prefix, Text, Spin, Enter, Test, Gather, Reset
<1>6. ASSUME NEW u \in Threads, WriteChain(u) \/ ClearChain(u) \/ Leave(u) PROVE Stays
  BY <1>1, <1>6 DEF WriteChain, WriteText, ClearChain, Clear, Leave, End
<1>7. ASSUME NEW u \in Threads,
             Race(u) \/ Optimized(u) \/ \E level \in Lowest : SetLogLevel(u, level)
      PROVE  Stays
  BY <1>1, <1>7 DEF Race, Optimized, SetLogLevel
<1>8. QED
  BY <1>2, <1>3, <1>4, <1>5, <1>6, <1>7 DEF Next, Line, Endl

LEMMA NumberedStep ==
    ASSUME TypeOK, TypeOK', Numbered, Next
    PROVE  Numbered'
<1> USE DEF Inside, LineLabels, ChainLabels
<1>1. /\ count \in Nat /\ count' \in Nat /\ count <= count'
      /\ \A t \in Threads : calls[t].n \in Nat /\ calls'[t].n \in Nat
  <2>1. /\ count \in Nat /\ count' \in Nat
        /\ calls \in [Threads -> [n : 0 .. MaxCalls, level : 0 .. MaxLevel, kind : Kinds]]
        /\ calls' \in [Threads -> [n : 0 .. MaxCalls, level : 0 .. MaxLevel, kind : Kinds]]
    BY MaxCallsAssumption DEF TypeOK
  <2>2. QED
    BY <2>1, CallsFrame, MaxCallsAssumption
<1>2. ASSUME NEW t \in Threads
      PROVE  calls'[t].n <= count' /\ (at'[t] # "idle" => calls'[t].n >= 1)
  <2>1. CASE at'[t] # "idle"
    BY <1>1, <2>1, CallsFrame DEF Numbered
  <2>2. CASE at'[t] = "idle"
    BY <1>1, <2>2, IdleStep DEF Numbered
  <2>3. QED
    BY <2>1, <2>2
<1>3. ASSUME NEW t \in Threads
      PROVE  /\ at'[t] \in LineLabels => calls'[t].kind = "line"
             /\ at'[t] \in ChainLabels => calls'[t].kind = "chain"
  BY KindStep
<1>4. ASSUME NEW p \in Pieces'
      PROVE  p.n <= count' /\ (at'[p.by] # "idle" => p.n <= calls'[p.by].n)
  <2>1. p \in Piece
    BY <1>4, RangeOfSeq DEF TypeOK, Pieces
  <2>2. p.by \in Threads /\ p.n \in Nat
    BY <2>1 DEF Piece
  <2>3. CASE p \in Pieces
    BY <1>1, <2>2, <2>3, CallsFrame DEF Numbered
  <2>4. ASSUME NEW t \in Threads, NEW part \in Parts, at[t] # "idle", p = Part(t, part)
        PROVE  p.n <= count' /\ (at'[p.by] # "idle" => p.n <= calls'[p.by].n)
    BY <1>1, <2>2, <2>4, CallsFrame DEF Numbered, Part
  <2>5. QED
    BY <2>3, <2>4, PiecesStep
<1>5. ASSUME NEW c \in done'
      PROVE  /\ c.n <= count'
             /\ at'[c.by] # "idle" => c.n <= calls'[c.by].n
             /\ at'[c.by] \notin {"idle", "leave"} => c.n < calls'[c.by].n
  <2>1. c \in [by : Threads, n : 1 .. MaxCalls, kind : Kinds, alone : BOOLEAN]
    BY <1>5 DEF TypeOK
  <2>2. c.by \in Threads /\ c.n \in Nat
    BY <2>1
  <2>3. CASE c \in done
    BY <1>1, <2>2, <2>3, CallsFrame DEF Numbered
  <2>4. ASSUME NEW t \in Threads, ClearLine(t) \/ ClearChain(t), c.by = t, c.n = calls[t].n
        PROVE  /\ c.n <= count'
               /\ at'[c.by] # "idle" => c.n <= calls'[c.by].n
               /\ at'[c.by] \notin {"idle", "leave"} => c.n < calls'[c.by].n
    <3>1. at'[t] \in {"idle", "leave"} /\ count' = count
          /\ (at'[t] = "leave" => calls' = calls)
      BY <2>4 DEF ClearLine, ClearChain, Clear, Go, TypeOK
    <3>2. QED
      BY <1>1, <2>2, <2>4, <3>1 DEF Numbered
  <2>5. QED
    BY <2>3, <2>4, DoneStep
<1>6. QED
  BY <1>2, <1>3, <1>4, <1>5 DEF Numbered

-----------------------------------------------------------------------------
(* What is done is in no buffer. *)

\* m_ssLogStream grows by what threads put into it, and is emptied as a whole.
LEMMA StreamStep ==
    ASSUME TypeOK, Numbered, Next, NEW p \in Range(stream')
    PROVE  p \in Range(stream)
           \/ \E u \in Threads : /\ at[u] \in {"prefix", "text"} /\ at'[u] \in {"text", "spin"}
                                 /\ p.by = u /\ p.n = calls[u].n
<1> DEFINE New == \E u \in Threads :
                     /\ at[u] \in {"prefix", "text"} /\ at'[u] \in {"text", "spin"}
                     /\ p.by = u /\ p.n = calls[u].n
<1>1. ASSUME NEW u \in Threads, NEW part \in Parts,
             at[u] \in {"prefix", "text"}, at'[u] \in {"text", "spin"},
             stream' = Append(stream, Part(u, part))
      PROVE  p \in Range(stream) \/ New
  <2>1. Part(u, part) \in Piece /\ stream \in Seq(Piece)
    BY <1>1, PieceType DEF Numbered, TypeOK
  <2>2. Range(stream') = Range(stream) \cup {Part(u, part)}
    BY <1>1, <2>1, RangeAppend
  <2>3. QED
    BY <1>1, <2>2 DEF Part
<1>2. ASSUME NEW u \in Threads, Prefix(u) \/ Text(u) PROVE p \in Range(stream) \/ New
  BY <1>1, <1>2 DEF Prefix, Text, Go, Parts, TypeOK
<1>3. ASSUME NEW u \in Threads, AppendLine(u) \/ WriteLine(u) \/ ClearLine(u) \/ Gather(u)
                                \/ Reset(u) \/ WriteChain(u) \/ ClearChain(u)
      PROVE  p \in Range(stream)
  BY <1>3 DEF AppendLine, WriteLine, WriteText, ClearLine, Clear, Gather, Reset, WriteChain,
     ClearChain, Range
<1>4. QED
  BY <1>2, <1>3, BufferFrame

LEMMA TextStep ==
    ASSUME TypeOK, Numbered, Next, NEW p \in Range(text')
    PROVE  \/ p \in Range(text) \/ p \in Range(stream)
           \/ \E u \in Threads : at[u] = "append" /\ p.by = u /\ p.n = calls[u].n
<1>1. ASSUME NEW u \in Threads, AppendLine(u)
      PROVE  p \in Range(text) \/ (p.by = u /\ p.n = calls[u].n /\ at[u] = "append")
  <2>1. Part(u, "line") \in Piece /\ text \in Seq(Piece)
    BY <1>1, PieceType DEF Numbered, TypeOK, AppendLine, Go, Parts
  <2>2. Range(text') = Range(text) \cup {Part(u, "line")}
    BY <1>1, <2>1, RangeAppend DEF AppendLine
  <2>3. QED
    BY <1>1, <2>2 DEF Part, AppendLine, Go
<1>2. ASSUME NEW u \in Threads, Gather(u) PROVE p \in Range(text) \/ p \in Range(stream)
  BY <1>2, RangeConcatenation DEF Gather, TypeOK
<1>3. ASSUME NEW u \in Threads, WriteLine(u) \/ ClearLine(u) \/ Prefix(u) \/ Text(u)
                                \/ Reset(u) \/ WriteChain(u) \/ ClearChain(u)
      PROVE  p \in Range(text)
  BY <1>3 DEF WriteLine, WriteText, ClearLine, Clear, Prefix, Text, Reset, WriteChain,
     ClearChain, Range
<1>4. QED
  BY <1>1, <1>2, <1>3, BufferFrame

\* A thread whose call is not in the stream has just begun it, has just emptied
\* the stream, or was there before.
LEMMA NotStreamedStep ==
    ASSUME TypeOK, Next, NEW t \in Threads, at'[t] \in NotStreamed
    PROVE  \/ at[t] \in NotStreamed /\ calls'[t] = calls[t]
           \/ count' = count + 1 /\ calls'[t].n = count' /\ UNCHANGED stream
           \/ stream' = << >>
<1> USE DEF NotStreamed, Go, Inside
<1> DEFINE P == \/ at[t] \in NotStreamed /\ calls'[t] = calls[t]
                \/ count' = count + 1 /\ calls'[t].n = count' /\ UNCHANGED stream
                \/ stream' = << >>
<1>1. DOMAIN at = Threads /\ DOMAIN calls = Threads
  BY DEF TypeOK
<1>2. ASSUME NEW u \in Threads, NEW kind \in Kinds, NEW level \in Levels, Call(u, kind, level)
      PROVE  P
  <2>1. CASE UNCHANGED <<at, calls>>
    BY <2>1
  <2>2. CASE /\ at' = [at EXCEPT ![u] = IF exists THEN First(kind) ELSE "create"]
             /\ calls' = [calls EXCEPT ![u] = [n |-> count', level |-> level, kind |-> kind]]
    BY <1>1, <1>2, <2>2 DEF Call, members
  <2>3. QED
    BY <1>2, <2>1, <2>2 DEF Call
<1>3. ASSUME NEW u \in Threads, Create(u) PROVE P
  BY <1>1, <1>3 DEF Create, End
<1>4. ASSUME NEW u \in Threads, AppendLine(u) \/ WriteLine(u) \/ ClearLine(u) PROVE P
  BY <1>1, <1>4 DEF AppendLine, WriteLine, WriteText, ClearLine, Clear, End
<1>5. ASSUME NEW u \in Threads, Chain(u) \/ Spin(u) \/ Enter(u) \/ Test(u) \/ Gather(u) \/ Reset(u)
      PROVE  P
  BY <1>1, <1>5 DEF Chain, Prefix, Text, Spin, Enter, Test, Gather, Reset
<1>6. ASSUME NEW u \in Threads, WriteChain(u) \/ ClearChain(u) \/ Leave(u) PROVE P
  BY <1>1, <1>6 DEF WriteChain, WriteText, ClearChain, Clear, Leave, End
<1>7. ASSUME NEW u \in Threads,
             Race(u) \/ Optimized(u) \/ \E level \in Lowest : SetLogLevel(u, level)
      PROVE  P
  BY <1>1, <1>7 DEF Race, Optimized, SetLogLevel
<1> HIDE DEF P
<1>8. P
  BY <1>2, <1>3, <1>4, <1>5, <1>6, <1>7 DEF Next, Line, Endl
<1>9. QED
  BY <1>8 DEF P

\* Numbers of pieces and of calls that are done.
LEMMA Numbers ==
    ASSUME TypeOK
    PROVE  /\ count \in Nat
           /\ \A t \in Threads : calls[t].n \in Nat
           /\ \A p \in Pieces : p.by \in Threads /\ p.n \in Nat
           /\ \A c \in done : c.by \in Threads /\ c.n \in Nat
<1>1. /\ count \in Nat
      /\ calls \in [Threads -> [n : 0 .. MaxCalls, level : 0 .. MaxLevel, kind : Kinds]]
  BY MaxCallsAssumption DEF TypeOK
<1>2. \A t \in Threads : calls[t].n \in Nat
  BY <1>1, MaxCallsAssumption
<1>3. Pieces \subseteq Piece
  BY RangeOfSeq DEF TypeOK, Pieces
<1>4. \A p \in Piece : p.by \in Threads /\ p.n \in Nat
  BY DEF Piece
<1>5. \A c \in done : c.by \in Threads /\ c.n \in Nat
  BY DEF TypeOK
<1>6. QED
  BY <1>1, <1>2, <1>3, <1>4, <1>5

LEMMA FlushedStep ==
    ASSUME TypeOK, Numbered, Flushed, Next
    PROVE  Flushed'
<1>1. ASSUME NEW t \in Threads, at'[t] \in NotStreamed
      PROVE  ~Holds(stream', t, calls'[t].n)
  <2>1. SUFFICES ASSUME NEW p \in Range(stream'), p.by = t, p.n = calls'[t].n
                 PROVE  FALSE
    BY DEF Holds
  <2>2. CASE stream' = << >>
    BY <2>2 DEF Range
  <2>3. CASE count' = count + 1 /\ calls'[t].n = count' /\ UNCHANGED stream
    <3>1. p \in Pieces
      BY <2>3 DEF Pieces
    <3>2. p.n <= count /\ p.n \in Nat /\ count \in Nat
      BY <3>1, Numbers DEF Numbered
    <3>3. QED
      BY <2>1, <2>3, <3>2
  <2>4. CASE at[t] \in NotStreamed /\ calls'[t] = calls[t]
    <3>1. p \notin Range(stream)
      BY <2>1, <2>4 DEF Flushed, Holds
    <3>2. at'[t] \in {"text", "spin"}
      BY <2>1, <3>1, StreamStep
    <3>3. QED
      BY <1>1, <3>2 DEF NotStreamed
  <2>5. QED
    BY <1>1, <2>2, <2>3, <2>4, NotStreamedStep
<1>2. ASSUME NEW c \in done'
      PROVE  /\ ~Holds(text', c.by, c.n) /\ ~Holds(stream', c.by, c.n)
             /\ \A i, j \in DOMAIN file' :
                   /\ file'[i].by = c.by /\ file'[i].n = c.n
                   /\ file'[j].by = c.by /\ c.n < file'[j].n
                   => i < j
  <2>1. CASE c \in done
    <3>1. /\ c.by \in Threads /\ c.n \in Nat /\ \A t \in Threads : calls[t].n \in Nat
          /\ at[c.by] \notin {"idle", "leave"} => c.n < calls[c.by].n
      BY <2>1, Numbers DEF Numbered
    <3>2. \A p \in Range(text) \cup Range(stream) : ~(p.by = c.by /\ p.n = c.n)
      BY <2>1 DEF Flushed, Holds
    <3>3. ~Holds(text', c.by, c.n)
      <4>1. SUFFICES ASSUME NEW p \in Range(text'), p.by = c.by, p.n = c.n
                     PROVE  FALSE
        BY DEF Holds
      <4>2. QED
        BY <3>1, <3>2, <4>1, TextStep
    <3>4. ~Holds(stream', c.by, c.n)
      <4>1. SUFFICES ASSUME NEW p \in Range(stream'), p.by = c.by, p.n = c.n
                     PROVE  FALSE
        BY DEF Holds
      <4>2. QED
        BY <3>1, <3>2, <4>1, StreamStep
    <3>5. ASSUME NEW i \in DOMAIN file', NEW j \in DOMAIN file',
                 file'[i].by = c.by, file'[i].n = c.n,
                 file'[j].by = c.by, c.n < file'[j].n
          PROVE  i < j
      <4>1. CASE UNCHANGED file
        BY <2>1, <3>5, <4>1 DEF Flushed
      <4>2. CASE file' = file \o text
        <5>1. /\ file \in Seq(Piece) /\ text \in Seq(Piece)
              /\ DOMAIN file = 1 .. Len(file) /\ DOMAIN text = 1 .. Len(text)
              /\ Len(file) \in Nat /\ Len(text) \in Nat
          BY DEF TypeOK
        <5>2. /\ DOMAIN file' = 1 .. Len(file) + Len(text)
              /\ \A k \in DOMAIN file' :
                    IF k <= Len(file) THEN k \in DOMAIN file /\ file'[k] = file[k]
                    ELSE k - Len(file) \in DOMAIN text /\ file'[k] = text[k - Len(file)]
          BY <4>2, <5>1
        <5>3. i <= Len(file)
          BY <3>2, <3>5, <5>2 DEF Range
        <5>4. CASE j <= Len(file)
          BY <2>1, <3>5, <5>2, <5>3, <5>4 DEF Flushed
        <5>5. CASE ~(j <= Len(file))
          BY <5>1, <5>2, <5>3, <5>5
        <5>6. QED
          BY <5>4, <5>5
      <4>3. QED
        BY <4>1, <4>2, BufferFrame DEF AppendLine, WriteLine, WriteText, ClearLine, Clear,
           Prefix, Text, Gather, Reset, WriteChain, ClearChain
    <3>6. QED
      BY <3>3, <3>4, <3>5
  <2>2. ASSUME NEW t \in Threads, ClearLine(t) \/ ClearChain(t), c.by = t, c.n = calls[t].n
        PROVE  /\ ~Holds(text', c.by, c.n) /\ ~Holds(stream', c.by, c.n)
               /\ \A i, j \in DOMAIN file' :
                     /\ file'[i].by = c.by /\ file'[i].n = c.n
                     /\ file'[j].by = c.by /\ c.n < file'[j].n
                     => i < j
    <3>1. /\ text' = << >> /\ UNCHANGED <<stream, file>>
          /\ at[t] \in {"clear", "clearChain"}
      BY <2>2 DEF ClearLine, ClearChain, Clear, Go
    <3>2. ~Holds(text', c.by, c.n)
      BY <3>1 DEF Holds, Range
    <3>3. ~Holds(stream', c.by, c.n)
      BY <2>2, <3>1 DEF Flushed, NotStreamed
    <3>4. \A j \in DOMAIN file : file[j].by = t => ~(c.n < file[j].n)
      <4>1. SUFFICES ASSUME NEW j \in DOMAIN file, file[j].by = t
                     PROVE  ~(c.n < file[j].n)
        OBVIOUS
      <4>2. file[j] \in Pieces
        BY DEF Pieces, Range
      <4>3. file[j].n <= calls[t].n
        BY <3>1, <4>1, <4>2 DEF Numbered
      <4>4. QED
        BY <2>2, <4>2, <4>3, Numbers
    <3>5. QED
      BY <2>2, <3>1, <3>2, <3>3, <3>4
  <2>3. QED
    BY <2>1, <2>2, DoneStep
<1>3. \A t \in Threads : at'[t] \in NotStreamed => ~Holds(stream', t, calls'[t].n)
  BY <1>1
<1>4. QED
  BY <1>2, <1>3 DEF Flushed, Holds, NotStreamed

-----------------------------------------------------------------------------
(* Where the pieces of a call are when buffers are joined. *)

LEMMA SpotConcat ==
    ASSUME NEW S, NEW s \in Seq(S), NEW t \in Seq(S), NEW p
    PROVE  Spot(s \o t, p) = Spot(s, p) \cup {Len(s) + i : i \in Spot(t, p)}
<1>1. /\ DOMAIN s = 1 .. Len(s) /\ DOMAIN t = 1 .. Len(t) /\ Len(s) \in Nat /\ Len(t) \in Nat
      /\ DOMAIN (s \o t) = 1 .. Len(s) + Len(t)
  BY ConcatProperties
<1>2. \A k \in DOMAIN (s \o t) :
         IF k <= Len(s) THEN k \in DOMAIN s /\ (s \o t)[k] = s[k]
         ELSE k - Len(s) \in DOMAIN t /\ (s \o t)[k] = t[k - Len(s)]
  BY <1>1
<1>3. ASSUME NEW k \in Spot(s \o t, p) PROVE k \in Spot(s, p) \cup {Len(s) + i : i \in Spot(t, p)}
  <2>1. CASE k <= Len(s)
    BY <1>2, <1>3, <2>1 DEF Spot
  <2>2. CASE ~(k <= Len(s))
    <3>1. k - Len(s) \in Spot(t, p)
      BY <1>2, <1>3, <2>2 DEF Spot
    <3>2. k \in Int /\ k = Len(s) + (k - Len(s))
      BY <1>1, <1>3 DEF Spot
    <3>3. QED
      BY <3>1, <3>2
  <2>3. QED
    BY <2>1, <2>2
<1>4. ASSUME NEW k \in Spot(s, p) PROVE k \in Spot(s \o t, p)
  BY <1>1, <1>2 DEF Spot
<1>5. ASSUME NEW i \in Spot(t, p) PROVE Len(s) + i \in Spot(s \o t, p)
  <2>1. i \in 1 .. Len(t)
    BY <1>1 DEF Spot
  <2>2. Len(s) + i \in DOMAIN (s \o t) /\ ~(Len(s) + i <= Len(s)) /\ Len(s) + i - Len(s) = i
    BY <1>1, <2>1
  <2>3. QED
    BY <1>2, <2>2 DEF Spot
<1>6. QED
  BY <1>3, <1>4, <1>5

LEMMA NoSpot ==
    ASSUME NEW s, NEW call, NEW part, ~Holds(s, call.by, call.n)
    PROVE  Spot(s, PieceOf(call, part)) = {}
BY DEF Spot, Holds, PieceOf, Range

\* A call that is once in one of two parts, and not in the other, is once in
\* the whole.
LEMMA OnceConcat ==
    ASSUME NEW S, NEW s \in Seq(S), NEW t \in Seq(S), NEW call,
           \/ Once(s, call) /\ ~Holds(t, call.by, call.n)
           \/ Once(t, call) /\ ~Holds(s, call.by, call.n)
    PROVE  Once(s \o t, call)
<1> DEFINE In(q, k) == Spot(q, PieceOf(call, PiecesOf(call)[k]))
<1>1. /\ DOMAIN s = 1 .. Len(s) /\ DOMAIN t = 1 .. Len(t) /\ Len(s) \in Nat /\ Len(t) \in Nat
      /\ DOMAIN (s \o t) = 1 .. Len(s) + Len(t)
  BY ConcatProperties
<1>2. DOMAIN PiecesOf(call) \subseteq Int
  BY DEF PiecesOf
<1>3. \A k : In(s \o t, k) = In(s, k) \cup {Len(s) + i : i \in In(t, k)}
  BY SpotConcat
<1>4. CASE Once(s, call) /\ ~Holds(t, call.by, call.n)
  <2>1. PICK i \in DOMAIN s : \A k \in DOMAIN PiecesOf(call) : In(s, k) = {i + k - 1}
    BY <1>4 DEF Once
  <2>2. \A k : In(t, k) = {}
    BY <1>4, NoSpot
  <2>3. \A k \in DOMAIN PiecesOf(call) : In(s \o t, k) = {i + k - 1}
    <3>1. SUFFICES ASSUME NEW k \in DOMAIN PiecesOf(call)
                   PROVE  In(s \o t, k) = {i + k - 1}
      OBVIOUS
    <3>2. In(s \o t, k) = {i + k - 1} \cup {Len(s) + j : j \in {}}
      BY <1>3, <2>1, <2>2
    <3> HIDE DEF In
    <3>3. QED
      BY <3>2
  <2>4. QED
    BY <1>1, <2>1, <2>3 DEF Once
<1>5. CASE Once(t, call) /\ ~Holds(s, call.by, call.n)
  <2>1. PICK i \in DOMAIN t : \A k \in DOMAIN PiecesOf(call) : In(t, k) = {i + k - 1}
    BY <1>5 DEF Once
  <2>2. \A k : In(s, k) = {}
    BY <1>5, NoSpot
  <2>3. \A k \in DOMAIN PiecesOf(call) : In(s \o t, k) = {Len(s) + (i + k - 1)}
    <3>1. SUFFICES ASSUME NEW k \in DOMAIN PiecesOf(call)
                   PROVE  In(s \o t, k) = {Len(s) + (i + k - 1)}
      OBVIOUS
    <3>2. In(s \o t, k) = {Len(s) + j : j \in {i + k - 1}}
      BY <1>3, <2>1, <2>2
    <3> HIDE DEF In
    <3>3. QED
      BY <3>2
  <2>4. \A k \in DOMAIN PiecesOf(call) : Len(s) + (i + k - 1) = (Len(s) + i) + k - 1
    BY <1>1, <1>2
  <2>5. \A k \in DOMAIN PiecesOf(call) : In(s \o t, k) = {(Len(s) + i) + k - 1}
    BY <2>3, <2>4
  <2>6. Len(s) + i \in DOMAIN (s \o t)
    BY <1>1
  <2>7. QED
    BY <2>5, <2>6 DEF Once
<1>6. QED
  BY <1>4, <1>5

LEMMA OnceAppend ==
    ASSUME NEW S, NEW s \in Seq(S), NEW p \in S, NEW q
    PROVE  Spot(Append(s, p), q) = IF q = p THEN Spot(s, q) \cup {Len(s) + 1} ELSE Spot(s, q)
<1>1. Len(s) \in Nat /\ DOMAIN s = 1 .. Len(s) /\ DOMAIN Append(s, p) = 1 .. Len(s) + 1
  OBVIOUS
<1>2. Append(s, p)[Len(s) + 1] = p /\ \A i \in 1 .. Len(s) : Append(s, p)[i] = s[i]
  OBVIOUS
<1>3. QED
  BY <1>1, <1>2 DEF Spot

-----------------------------------------------------------------------------
(* A call that is alone. *)

Transient == {"write", "clear", "reset", "copy", "clearChain"}

LEMMA TextIsTransientStep ==
    ASSUME TypeOK, TextIsTransient, Next
    PROVE  TextIsTransient'
<1> USE DEF Go, Inside, members, history
<1> DEFINE P == TextIsTransient'
<1>1. DOMAIN at = Threads
  BY DEF TypeOK
\* While m_strLogText stays as it is, whoever will clear it stays on its way.
<1>2. ASSUME UNCHANGED text, NEW u \in Threads,
             \A t \in Threads \ {u} : at'[t] = at[t],
             at[u] \in Transient => at'[u] \in Transient
      PROVE  P
  BY <1>2 DEF TextIsTransient, Transient
<1>3. ASSUME NEW u \in Threads, NEW kind \in Kinds, NEW level \in Levels, Call(u, kind, level)
      PROVE  P
  <2>1. UNCHANGED text /\ at[u] \notin Transient /\ \A t \in Threads \ {u} : at'[t] = at[t]
    BY <1>1, <1>3 DEF Call, Transient
  <2>2. QED
    BY <1>2, <2>1
<1>4. ASSUME NEW u \in Threads, AppendLine(u) \/ Gather(u) PROVE P
  BY <1>1, <1>4 DEF AppendLine, Gather, TextIsTransient
<1>5. ASSUME NEW u \in Threads, ClearLine(u) \/ ClearChain(u) PROVE P
  BY <1>5 DEF ClearLine, ClearChain, Clear, TextIsTransient
<1>6. ASSUME NEW u \in Threads,
             Create(u) \/ WriteLine(u) \/ Chain(u) \/ Spin(u) \/ Enter(u) \/ Test(u)
      PROVE  P
  <2>1. /\ UNCHANGED text /\ \A t \in Threads \ {u} : at'[t] = at[t]
        /\ at[u] \in Transient => at'[u] \in Transient
    BY <1>1, <1>6 DEF Create, WriteLine, WriteText, Chain, Prefix, Text, Spin, Enter, Test,
       Transient
  <2>2. QED
    BY <1>2, <2>1
<1>7. ASSUME NEW u \in Threads, Reset(u) \/ WriteChain(u) \/ Leave(u) PROVE P
  <2>1. /\ UNCHANGED text /\ \A t \in Threads \ {u} : at'[t] = at[t]
        /\ at[u] \in Transient => at'[u] \in Transient
    BY <1>1, <1>7 DEF Reset, WriteChain, WriteText, Leave, Transient
  <2>2. QED
    BY <1>2, <2>1
<1>8. ASSUME NEW u \in Threads,
             Race(u) \/ Optimized(u) \/ \E level \in Lowest : SetLogLevel(u, level)
      PROVE  P
  <2>1. UNCHANGED text /\ \A t \in Threads : at'[t] = at[t]
    BY <1>1, <1>8 DEF Race, Optimized, SetLogLevel
  <2>2. QED
    BY <1>2, <2>1
<1> HIDE DEF P
<1>9. P
  BY <1>3, <1>4, <1>5, <1>6, <1>7, <1>8 DEF Next, Line, Endl
<1>10. QED
  BY <1>9 DEF P

\* Only a call that begins changes who is alone.
LEMMA AloneFrame ==
    ASSUME TypeOK, Next
    PROVE  \/ \E t \in Threads, kind \in Kinds, level \in Levels : Call(t, kind, level)
           \/ /\ UNCHANGED alone
              /\ \A t \in Threads : at[t] = "idle" => at'[t] = "idle"
<1> USE DEF Go, members, history
<1> DEFINE P == /\ UNCHANGED alone
                /\ \A t \in Threads : at[t] = "idle" => at'[t] = "idle"
<1>1. DOMAIN at = Threads
  BY DEF TypeOK
<1>2. ASSUME NEW u \in Threads, Line(u) PROVE P
  BY <1>1, <1>2 DEF Line, Create, AppendLine, WriteLine, WriteText, ClearLine, Clear
<1>3. ASSUME NEW u \in Threads, Chain(u) \/ Spin(u) \/ Enter(u) \/ Test(u) \/ Gather(u) PROVE P
  BY <1>1, <1>3 DEF Chain, Prefix, Text, Spin, Enter, Test, Gather
<1>4. ASSUME NEW u \in Threads, Reset(u) \/ WriteChain(u) \/ ClearChain(u) \/ Leave(u) PROVE P
  BY <1>1, <1>4 DEF Reset, WriteChain, WriteText, ClearChain, Clear, Leave
<1>5. ASSUME NEW u \in Threads,
             Race(u) \/ Optimized(u) \/ \E level \in Lowest : SetLogLevel(u, level)
      PROVE  P
  BY <1>1, <1>5 DEF Race, Optimized, SetLogLevel
<1> HIDE DEF P
<1>6. P \/ \E t \in Threads, kind \in Kinds, level \in Levels : Call(t, kind, level)
  BY <1>2, <1>3, <1>4, <1>5 DEF Next, Endl
<1>7. QED
  BY <1>6 DEF P

LEMMA AloneIsAloneStep ==
    ASSUME TypeOK, AloneIsAlone, Next
    PROVE  AloneIsAlone'
<1>1. ASSUME NEW t \in Threads, NEW kind \in Kinds, NEW level \in Levels, Call(t, kind, level)
      PROVE  AloneIsAlone'
  <2>1. \A s \in Threads \ {t} : at'[s] = at[s]
    BY <1>1 DEF Call, TypeOK
  <2>2. QED
    BY <1>1, <2>1 DEF Call, Begins, Calling, AloneIsAlone
<1>2. CASE UNCHANGED alone /\ \A t \in Threads : at[t] = "idle" => at'[t] = "idle"
  <2>1. alone \subseteq Threads
    BY DEF TypeOK
  <2>2. QED
    BY <1>2, <2>1 DEF AloneIsAlone
<1>3. QED
  BY <1>1, <1>2, AloneFrame

CallOf(t) == [by |-> t, n |-> calls[t].n, kind |-> calls[t].kind]

\* What Progress says of one thread.
Comes(t) ==
    /\ at[t] \notin {"idle", "clear", "clearChain", "leave"} => ~Holds(file, t, calls[t].n)
    /\ at[t] = "write" => Once(text, CallOf(t))
    /\ at[t] = "text" => /\ Spot(stream, Part(t, "prefix")) = {Len(stream)}
                         /\ Spot(stream, Part(t, "text")) = {}
    /\ at[t] \in {"spin", "enter", "test", "gather"} => Once(stream, CallOf(t))
    /\ at[t] \in {"reset", "copy"} => Once(text, CallOf(t))
    /\ at[t] \in {"clear", "clearChain"} => Once(file, CallOf(t))

LEMMA ProgressIs == Progress <=> \A t \in alone : Comes(t)
BY DEF Progress, Comes, CallOf

\* The steps of a line that is alone.
LEMMA LineComes ==
    ASSUME TypeOK, Numbered, TextIsTransient, NEW t \in Threads, Comes(t), Line(t),
           \A s \in Threads \ {t} : at[s] = "idle"
    PROVE  Comes(t)'
<1> USE DEF Go
<1>1. /\ DOMAIN at = Threads /\ DOMAIN calls = Threads
      /\ text \in Seq(Piece) /\ file \in Seq(Piece) /\ Len(text) \in Nat
  BY DEF TypeOK
<1>2. CASE Create(t)
  BY <1>1, <1>2 DEF Create, First, Comes
<1>3. CASE AppendLine(t)
  <2>1. at[t] = "append" /\ at'[t] = "write" /\ UNCHANGED <<calls, file>>
        /\ text' = Append(text, Part(t, "line"))
    BY <1>1, <1>3 DEF AppendLine
  <2>2. text = << >>
    BY <2>1 DEF TextIsTransient
  <2>3. Part(t, "line") \in Piece
    BY <2>1, PieceType DEF Numbered, Parts
  <2>4. calls[t].kind = "line"
    BY <2>1 DEF Numbered, LineLabels
  <2>5. Spot(text, Part(t, "line")) = {} /\ Len(text) = 0
    BY <2>2 DEF Spot
  <2>6. Spot(text', Part(t, "line")) = {1} /\ 1 \in DOMAIN text'
    <3>1. Spot(Append(text, Part(t, "line")), Part(t, "line"))
              = Spot(text, Part(t, "line")) \cup {Len(text) + 1}
      BY <1>1, <2>3, OnceAppend
    <3>2. Spot(text', Part(t, "line")) = {1}
      BY <2>1, <2>5, <3>1
    <3>3. QED
      BY <3>2 DEF Spot
  <2>7. PiecesOf(CallOf(t)) = <<"line">> /\ PieceOf(CallOf(t), "line") = Part(t, "line")
    BY <2>4 DEF PiecesOf, CallOf, PieceOf, Part
  <2>8. Once(text', CallOf(t))
    BY <2>6, <2>7 DEF Once
  <2>9. CallOf(t)' = CallOf(t)
    BY <2>1 DEF CallOf
  <2>10. Once(text, CallOf(t))'
    BY <2>8, <2>9 DEF Once, Spot
  <2>11. ~Holds(file, t, calls[t].n)'
    BY <2>1 DEF Comes, Holds
  <2>12. QED
    BY <2>1, <2>10, <2>11 DEF Comes
<1>4. CASE WriteLine(t)
  <2>1. /\ at[t] = "write" /\ at'[t] = "clear" /\ UNCHANGED calls
        /\ file' = file \o text
    BY <1>1, <1>4 DEF WriteLine, WriteText
  <2>2. Once(text, CallOf(t)) /\ ~Holds(file, CallOf(t).by, CallOf(t).n)
    BY <2>1 DEF Comes, CallOf
  <2>3. Once(file \o text, CallOf(t))
    BY <1>1, <2>2, OnceConcat
  <2>4. Once(file, CallOf(t))'
    BY <2>1, <2>3 DEF Once, Spot, CallOf
  <2>5. QED
    BY <2>1, <2>4 DEF Comes
<1>5. CASE ClearLine(t)
  BY <1>1, <1>5 DEF ClearLine, Clear, Comes
<1>6. QED
  BY <1>2, <1>3, <1>4, <1>5 DEF Line

\* The steps of a chain that is alone.
LEMMA ChainComes ==
    ASSUME TypeOK, Numbered, Flushed, TextIsTransient, NEW t \in Threads, Comes(t),
           Chain(t) \/ Endl(t), \A s \in Threads \ {t} : at[s] = "idle"
    PROVE  Comes(t)'
<1> USE DEF Go
<1>1. /\ DOMAIN at = Threads /\ DOMAIN calls = Threads
      /\ text \in Seq(Piece) /\ stream \in Seq(Piece) /\ file \in Seq(Piece)
      /\ Len(stream) \in Nat /\ DOMAIN stream = 1 .. Len(stream)
  BY DEF TypeOK
<1>2. CASE Prefix(t)
  <2>1. /\ at[t] = "prefix" /\ at'[t] = "text" /\ UNCHANGED <<calls, file>>
        /\ stream' = Append(stream, Part(t, "prefix"))
    BY <1>1, <1>2 DEF Prefix
  <2>2. ~Holds(stream, t, calls[t].n)
    BY <2>1 DEF Flushed, NotStreamed
  <2>3. Spot(stream, Part(t, "prefix")) = {} /\ Spot(stream, Part(t, "text")) = {}
    BY <2>2 DEF Spot, Holds, Part, Range
  <2>4. Part(t, "prefix") \in Piece /\ Part(t, "prefix") # Part(t, "text")
    <3>1. Part(t, "prefix") \in Piece
      BY <2>1, PieceType DEF Numbered, Parts
    <3>2. Part(t, "prefix").part # Part(t, "text").part
      BY DEF Part
    <3>3. QED
      BY <3>1, <3>2
  <2>5. Len(stream') = Len(stream) + 1
    BY <1>1, <2>1
  <2>6. Spot(stream', Part(t, "prefix")) = {Len(stream')} /\ Spot(stream', Part(t, "text")) = {}
    BY <1>1, <2>1, <2>3, <2>4, <2>5, OnceAppend
  <2>7. \A part : Part(t, part)' = Part(t, part)
    BY <2>1 DEF Part
  <2>8. /\ Spot(stream, Part(t, "prefix"))' = {Len(stream')}
        /\ Spot(stream, Part(t, "text"))' = {}
    BY <2>6, <2>7 DEF Spot
  <2>9. ~Holds(file, t, calls[t].n)'
    BY <2>1 DEF Comes, Holds
  <2>10. QED
    BY <2>1, <2>8, <2>9 DEF Comes
<1>3. CASE Text(t)
  <2>1. /\ at[t] = "text" /\ at'[t] = "spin" /\ UNCHANGED <<calls, file>>
        /\ stream' = Append(stream, Part(t, "text"))
    BY <1>1, <1>3 DEF Text
  <2>2. Spot(stream, Part(t, "prefix")) = {Len(stream)} /\ Spot(stream, Part(t, "text")) = {}
    BY <2>1 DEF Comes
  <2>3. Part(t, "text") \in Piece /\ Part(t, "prefix") # Part(t, "text")
    <3>1. Part(t, "text") \in Piece
      BY <2>1, PieceType DEF Numbered, Parts
    <3>2. Part(t, "prefix").part # Part(t, "text").part
      BY DEF Part
    <3>3. QED
      BY <3>1, <3>2
  <2>4. /\ Spot(stream', Part(t, "prefix")) = {Len(stream)}
        /\ Spot(stream', Part(t, "text")) = {Len(stream) + 1}
    BY <1>1, <2>1, <2>2, <2>3, OnceAppend
  <2>5. Len(stream) \in DOMAIN stream'
    <3>1. Len(stream) \in Spot(stream', Part(t, "prefix"))
      BY <2>4
    <3>2. QED
      BY <3>1 DEF Spot
  <2>6. calls[t].kind = "chain"
    BY <2>1 DEF Numbered, ChainLabels
  <2>7. /\ PiecesOf(CallOf(t)) = <<"prefix", "text">>
        /\ PieceOf(CallOf(t), "prefix") = Part(t, "prefix")
        /\ PieceOf(CallOf(t), "text") = Part(t, "text")
    BY <2>6 DEF PiecesOf, CallOf, PieceOf, Part
  <2>8. \A k \in DOMAIN PiecesOf(CallOf(t)) :
            Spot(stream', PieceOf(CallOf(t), PiecesOf(CallOf(t))[k])) = {Len(stream) + k - 1}
    <3>1. SUFFICES ASSUME NEW k \in {1, 2}
                   PROVE  Spot(stream', PieceOf(CallOf(t), <<"prefix", "text">>[k]))
                              = {Len(stream) + k - 1}
      BY <2>7
    <3>2. CASE k = 1
      <4>1. Len(stream) + k - 1 = Len(stream) /\ <<"prefix", "text">>[k] = "prefix"
        BY <1>1, <3>2
      <4>2. QED
        BY <2>4, <2>7, <4>1
    <3>3. CASE k = 2
      <4>1. Len(stream) + k - 1 = Len(stream) + 1 /\ <<"prefix", "text">>[k] = "text"
        BY <1>1, <3>3
      <4>2. QED
        BY <2>4, <2>7, <4>1
    <3>4. QED
      BY <3>2, <3>3
  <2>9. Once(stream', CallOf(t))
    BY <2>5, <2>8 DEF Once
  <2>10. Once(stream, CallOf(t))'
    BY <2>1, <2>9 DEF Once, Spot, CallOf
  <2>11. ~Holds(file, t, calls[t].n)'
    BY <2>1 DEF Comes, Holds
  <2>12. QED
    BY <2>1, <2>10, <2>11 DEF Comes
\* Steps that leave the buffer alone in which the call is.
<1>4. CASE Spin(t) \/ Enter(t) \/ Test(t) \/ Reset(t)
  <2>1. /\ UNCHANGED <<calls, file, text>>
        /\ \/ at[t] = "reset" /\ at'[t] = "copy"
           \/ /\ at[t] \in {"spin", "enter", "test"} /\ UNCHANGED stream
              /\ at'[t] \in {"enter", "test", "gather", "leave"}
    BY <1>1, <1>4 DEF Spin, Enter, Test, Reset, members
  <2>2. CallOf(t)' = CallOf(t)
    BY <2>1 DEF CallOf
  <2>3. CASE at[t] = "reset" /\ at'[t] = "copy"
    <3>1. Once(text, CallOf(t)) /\ ~Holds(file, t, calls[t].n)
      BY <2>3 DEF Comes
    <3>2. Once(text, CallOf(t))' /\ ~Holds(file, t, calls[t].n)'
      BY <2>1, <2>2, <3>1 DEF Once, Spot, Holds
    <3>3. QED
      BY <2>3, <3>2 DEF Comes
  <2>4. CASE /\ at[t] \in {"spin", "enter", "test"} /\ UNCHANGED stream
             /\ at'[t] \in {"enter", "test", "gather", "leave"}
    <3>1. Once(stream, CallOf(t)) /\ ~Holds(file, t, calls[t].n)
      BY <2>4 DEF Comes
    <3>2. Once(stream, CallOf(t))' /\ ~Holds(file, t, calls[t].n)'
      BY <2>1, <2>2, <2>4, <3>1 DEF Once, Spot, Holds
    <3>3. QED
      BY <2>4, <3>2 DEF Comes
  <2>5. QED
    BY <2>1, <2>3, <2>4
<1>5. CASE Gather(t)
  <2>1. /\ at[t] = "gather" /\ at'[t] = "reset" /\ UNCHANGED <<calls, file>>
        /\ text' = text \o stream
    BY <1>1, <1>5 DEF Gather
  <2>2. text = << >>
    BY <2>1 DEF TextIsTransient
  <2>3. Once(stream, CallOf(t)) /\ ~Holds(text, CallOf(t).by, CallOf(t).n)
    BY <2>1, <2>2 DEF Comes, Holds, Range
  <2>4. Once(text \o stream, CallOf(t))
    BY <1>1, <2>3, OnceConcat
  <2>5. Once(text, CallOf(t))'
    BY <2>1, <2>4 DEF Once, Spot, CallOf
  <2>6. ~Holds(file, t, calls[t].n)'
    BY <2>1 DEF Comes, Holds
  <2>7. QED
    BY <2>1, <2>5, <2>6 DEF Comes
<1>6. CASE WriteChain(t)
  <2>1. /\ at[t] = "copy" /\ at'[t] = "clearChain" /\ UNCHANGED calls
        /\ file' = file \o text
    BY <1>1, <1>6 DEF WriteChain, WriteText
  <2>2. Once(text, CallOf(t)) /\ ~Holds(file, CallOf(t).by, CallOf(t).n)
    BY <2>1 DEF Comes, CallOf
  <2>3. Once(file \o text, CallOf(t))
    BY <1>1, <2>2, OnceConcat
  <2>4. Once(file, CallOf(t))'
    BY <2>1, <2>3 DEF Once, Spot, CallOf
  <2>5. QED
    BY <2>1, <2>4 DEF Comes
<1>7. CASE ClearChain(t) \/ Leave(t)
  BY <1>1, <1>7 DEF ClearChain, Clear, Leave, Comes
<1>8. QED
  BY <1>2, <1>3, <1>4, <1>5, <1>6, <1>7 DEF Chain, Endl

LEMMA InACall ==
    ASSUME NEW t \in Threads, Line(t) \/ Chain(t) \/ Endl(t)
    PROVE  at[t] # "idle"
BY DEF Line, Create, AppendLine, WriteLine, WriteText, ClearLine, Clear, Chain, Prefix, Text,
   Endl, Spin, Enter, Test, Gather, Reset, WriteChain, ClearChain, Leave, Go

LEMMA ProgressStep ==
    ASSUME TypeOK, Numbered, Flushed, TextIsTransient, AloneIsAlone, Progress, Next
    PROVE  Progress'
<1>1. SUFFICES ASSUME NEW t \in alone' PROVE Comes(t)'
  BY DEF Progress, Comes, CallOf
<1>2. CASE at'[t] = "idle"
  BY <1>2 DEF Comes
<1>3. ASSUME NEW u \in Threads, NEW kind \in Kinds, NEW level \in Levels, Call(u, kind, level),
             at'[t] # "idle"
      PROVE  Comes(t)'
  <2>1. t = u /\ Calling = {} /\ at[t] = "idle"
    BY <1>1, <1>3 DEF Call, Begins
  <2>2. /\ at'[t] \in {"create", "append", "prefix"} /\ calls'[t].n = count + 1
        /\ UNCHANGED file
    BY <1>3, <2>1 DEF Call, First, members, TypeOK
  <2>3. ~Holds(file, t, count + 1)
    <3>1. SUFFICES ASSUME NEW p \in Range(file), p.n = count + 1 PROVE FALSE
      BY DEF Holds
    <3>2. p \in Pieces
      BY DEF Pieces
    <3>3. p.n <= count /\ count \in Nat
      BY <3>2, Numbers DEF Numbered
    <3>4. QED
      BY <3>1, <3>3
  <2>4. ~Holds(file, t, calls[t].n)'
    BY <2>2, <2>3 DEF Holds
  <2>5. QED
    BY <2>2, <2>4 DEF Comes
<1>4. CASE /\ UNCHANGED alone /\ at'[t] # "idle"
           /\ \A s \in Threads : at[s] = "idle" => at'[s] = "idle"
  <2>1. t \in alone /\ t \in Threads
    BY <1>1, <1>4 DEF TypeOK
  <2>2. at[t] # "idle" /\ \A s \in Threads \ {t} : at[s] = "idle"
    BY <1>4, <2>1 DEF AloneIsAlone
  <2>3. Comes(t)
    BY <2>1, ProgressIs
  <2>4. ASSUME NEW u \in Threads, Line(u) \/ Chain(u) \/ Endl(u) PROVE u = t
    BY <2>2, <2>4, InACall
  <2>5. ASSUME NEW u \in Threads,
               Race(u) \/ Optimized(u) \/ \E level \in Lowest : SetLogLevel(u, level)
        PROVE  Comes(t)'
    <3>1. UNCHANGED <<at, calls, text, stream, file>>
      BY <2>5 DEF Race, Optimized, SetLogLevel, Go, members, TypeOK
    <3>2. QED
      BY <2>3, <3>1 DEF Comes, Holds, Once, Spot, CallOf, Part
  <2>6. ASSUME NEW u \in Threads, NEW kind \in Kinds, NEW level \in Levels, Call(u, kind, level)
        PROVE  Comes(t)'
    BY <1>3, <1>4, <2>6
  <2>7. CASE Line(t)
    BY <2>1, <2>2, <2>3, <2>7, LineComes
  <2>8. CASE Chain(t) \/ Endl(t)
    BY <2>1, <2>2, <2>3, <2>8, ChainComes
  <2>9. QED
    BY <2>4, <2>5, <2>6, <2>7, <2>8 DEF Next
<1>5. QED
  BY <1>2, <1>3, <1>4, AloneFrame

\* What was alone when it was done stays in the file once.
LEMMA LoggedStep ==
    ASSUME TypeOK, Flushed, Progress, Logged, Next
    PROVE  Logged'
<1>1. SUFFICES ASSUME NEW c \in done', c.alone PROVE Once(file', c)
  BY DEF Logged, Once, Spot
<1>2. CASE c \in done
  <2>1. Once(file, c) /\ ~Holds(text, c.by, c.n)
    BY <1>1, <1>2 DEF Logged, Flushed
  <2>2. CASE UNCHANGED file
    BY <2>1, <2>2
  <2>3. CASE file' = file \o text
    <3>1. file \in Seq(Piece) /\ text \in Seq(Piece)
      BY DEF TypeOK
    <3>2. Once(file \o text, c)
      BY <2>1, <3>1, OnceConcat
    <3>3. QED
      BY <2>3, <3>2
  <2>4. QED
    BY <2>2, <2>3, BufferFrame DEF AppendLine, WriteLine, WriteText, ClearLine, Clear,
       Prefix, Text, Gather, Reset, WriteChain, ClearChain
<1>3. ASSUME NEW t \in Threads, ClearLine(t) \/ ClearChain(t), c \notin done
      PROVE  Once(file', c)
  <2>1. /\ c = [by |-> t, n |-> calls[t].n, kind |-> calls[t].kind, alone |-> t \in alone]
        /\ at[t] \in {"clear", "clearChain"} /\ UNCHANGED file
    BY <1>3 DEF ClearLine, ClearChain, Clear, Returns, Go
  <2>2. Once(file, CallOf(t))
    BY <1>1, <2>1, ProgressIs DEF Comes
  <2>3. c.by = CallOf(t).by /\ c.n = CallOf(t).n /\ c.kind = CallOf(t).kind
    BY <2>1 DEF CallOf
  <2>4. QED
    BY <2>1, <2>2, <2>3 DEF Once, PiecesOf, PieceOf
<1>4. QED
  BY <1>2, <1>3, DoneStep

-----------------------------------------------------------------------------
(* The theorems. *)

LEMMA InitIInv == Init => IInv
<1> SUFFICES ASSUME Init PROVE IInv
  OBVIOUS
<1>1. at = [t \in Threads |-> "idle"] /\ calls = [t \in Threads |-> NoCall]
  BY DEF Init
<1>2. Range(text) = {} /\ Range(stream) = {} /\ Range(file) = {} /\ done = {} /\ alone = {}
  BY DEF Init, Range
<1>3. TypeOK
  <2>1. NoCall \in [n : 0 .. MaxCalls, level : 0 .. MaxLevel, kind : Kinds]
    BY MaxCallsAssumption DEF NoCall, Kinds, MaxLevel
  <2>2. text = << >> /\ stream = << >> /\ file = << >>
    BY DEF Init
  <2>3. << >> \in Seq(Piece)
    OBVIOUS
  <2>4. {text, stream, file} \subseteq Seq(Piece)
    BY <2>2, <2>3
  <2>5. calls \in [Threads -> [n : 0 .. MaxCalls, level : 0 .. MaxLevel, kind : Kinds]]
    BY <1>1, <2>1
  <2>6. 0 \in 0 .. MaxCalls /\ 0 \in 0 .. MaxLevel /\ 0 \in 0 .. MaxLevel + 1
    BY MaxCallsAssumption DEF MaxLevel
  <2>7. at \in [Threads -> {"idle", "create", "append", "write", "clear", "prefix",
                            "text", "spin", "enter"} \cup Inside]
    BY <1>1
  <2>8. QED
    BY <1>2, <2>4, <2>5, <2>6, <2>7 DEF Init, TypeOK
<1>4. Numbered
  BY <1>1, <1>2 DEF Init, Numbered, Pieces, NoCall, LineLabels, ChainLabels, Inside
<1>5. Flushed
  BY <1>1, <1>2 DEF Flushed, NotStreamed
<1>6. TextIsTransient
  BY DEF Init, TextIsTransient
<1>7. AloneIsAlone /\ Progress /\ Logged
  BY <1>2 DEF AloneIsAlone, Progress, Logged
<1>8. QED
  BY <1>3, <1>4, <1>5, <1>6, <1>7 DEF IInv

LEMMA NextIInv == IInv /\ [Next]_vars => IInv'
<1> SUFFICES ASSUME IInv, [Next]_vars PROVE IInv'
  OBVIOUS
<1>1. CASE Next
  <2>1. TypeOK'
    BY <1>1, TypeStep DEF IInv
  <2>2. Numbered'
    BY <1>1, <2>1, NumberedStep DEF IInv
  <2>3. Flushed'
    BY <1>1, FlushedStep DEF IInv
  <2>4. TextIsTransient'
    BY <1>1, TextIsTransientStep DEF IInv
  <2>5. AloneIsAlone'
    BY <1>1, AloneIsAloneStep DEF IInv
  <2>6. Progress'
    BY <1>1, ProgressStep DEF IInv
  <2>7. Logged'
    BY <1>1, LoggedStep DEF IInv
  <2>8. QED
    BY <2>1, <2>2, <2>3, <2>4, <2>5, <2>6, <2>7 DEF IInv
<1>2. CASE UNCHANGED vars
  <2>1. /\ UNCHANGED <<exists, lowest, last, text, stream, flushing, file>>
        /\ UNCHANGED <<at, calls, count, fault, alone, done>>
    BY <1>2 DEF vars, members, history
  <2>2. TypeOK'
    BY <2>1 DEF IInv, TypeOK
  <2>3. Numbered' /\ TextIsTransient' /\ AloneIsAlone'
    BY <2>1 DEF IInv, Numbered, Pieces, TextIsTransient, AloneIsAlone
  <2>4. Flushed'
    BY <2>1 DEF IInv, Flushed, Holds
  <2>5. Progress'
    <3>1. SUFFICES ASSUME NEW t \in alone PROVE Comes(t)'
      BY <2>1 DEF Progress, Comes, CallOf
    <3>2. Comes(t)
      BY ProgressIs DEF IInv
    <3>3. QED
      BY <2>1, <3>2 DEF Comes, CallOf, Part, Once, Spot, Holds
  <2>6. Logged'
    BY <2>1 DEF IInv, Logged, Once, Spot
  <2>7. QED
    BY <2>2, <2>3, <2>4, <2>5, <2>6 DEF IInv
<1>3. QED
  BY <1>1, <1>2

\* The inductive invariant holds in every state.
THEOREM Invariance == Spec => []IInv
<1>1. QED
  BY InitIInv, NextIInv, PTL DEF Spec

\* The members and the calls always have their types, and whenever m_bFlushing
\* is set a thread is in endl that will reset it: no thread waits in
\* std::endl for a flag that nobody holds.
THEOREM TypeCorrect == Spec => []TypeOK
<1>1. IInv => TypeOK
  BY DEF IInv
<1>2. QED
  BY <1>1, Invariance, PTL

\* The lines of one thread are in the file in the order of its calls, however
\* many other threads log meanwhile, race and flush what it has written.
THEOREM OwnLinesInOrder == Spec => []OwnOrder
<1>1. IInv => OwnOrder
  <2>1. SUFFICES ASSUME IInv,
                        NEW c \in done, NEW d \in done, c.by = d.by, c.n < d.n,
                        NEW p \in Parts, NEW q \in Parts,
                        NEW i \in Places(c, p), NEW j \in Places(d, q)
                 PROVE  i < j
    BY DEF OwnOrder
  <2>2. /\ i \in DOMAIN file /\ file[i].by = c.by /\ file[i].n = c.n
        /\ j \in DOMAIN file /\ file[j].by = c.by /\ file[j].n = d.n
    BY <2>1 DEF Places
  <2>3. QED
    BY <2>1, <2>2 DEF IInv, Flushed
<1>2. QED
  BY <1>1, Invariance, PTL

\* A call of the log that no other call overlapped, and whose level is not too
\* low, leaves its pieces in the file, each once and next to each other, and
\* they stay there whatever comes later.
THEOREM AloneIsLoggedOnce == Spec => []AloneIsLogged
<1>1. IInv => AloneIsLogged
  <2>1. SUFFICES ASSUME IInv, NEW call \in done, call.alone
                 PROVE  \E i \in DOMAIN file : \A k \in DOMAIN PiecesOf(call) :
                            Places(call, PiecesOf(call)[k]) = {i + k - 1}
    BY DEF AloneIsLogged
  <2>2. Once(file, call)
    BY <2>1 DEF IInv, Logged
  <2>3. \A part : Places(call, part) = Spot(file, PieceOf(call, part))
    BY DEF Places, Spot, PieceOf
  <2>4. QED
    BY <2>2, <2>3 DEF Once
<1>2. QED
  BY <1>1, Invariance, PTL
=============================================================================
