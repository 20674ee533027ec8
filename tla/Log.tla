-------------------------------- MODULE Log --------------------------------
(***************************************************************************)
(* The log "oocl" that every thread of the library and of its program      *)
(* writes to: oocl::Log, which has no mutex.  A call of logMessage(),      *)
(* logInfo() and so on is one line; a chain                                *)
(*     log << level << text << endl                                        *)
(* collects two pieces in m_ssLogStream, and endl passes them on.  Every   *)
(* access to a member is a step, and two threads may be at theirs          *)
(* together: the outcome is then any order of the two, or the fault        *)
(* "raced", for a string or a stream that is changed while it is in use.   *)
(***************************************************************************)
EXTENDS Naturals, Sequences, FiniteSets

CONSTANTS
    Threads,
    Levels,      \* the levels that are used, of 0 (EL_INFO) to 3 (EL_FATAL_ERROR)
    Lowest,      \* what is passed to setLogLevel(): 4 is for no logging
    MaxCalls     \* bound on the calls of all threads

MaxLevel == 3    \* sm_uiMaxLogLevel
ASSUME LevelsAssumption ==
    Levels \subseteq 0 .. MaxLevel /\ Lowest \subseteq 0 .. MaxLevel + 1
ASSUME MaxCallsAssumption == MaxCalls \in Nat

VARIABLES
    exists,    \* whether sm_mapLogs has the log
    lowest,    \* m_elLowestLoggedLevel
    last,      \* m_elLastStreamLogLvl
    text,      \* m_strLogText
    stream,    \* m_ssLogStream
    flushing,  \* m_bFlushing
    file,      \* m_fsLogFile
    at,        \* where each thread is
    calls,     \* the current call of each thread: its number, level and kind
    count,     \* the number of calls so far
    fault,     \* "none", or the undefined behaviour the program ran into
    \* history:
    alone,     \* the threads whose call has not overlapped another one
    done       \* the calls that have returned and passed the level, as pieces

members == <<exists, lowest, last, text, stream, flushing, file>>
history == <<alone, done>>
vars == <<members, at, calls, count, fault, history>>

Kinds == {"line", "chain"}
Parts == {"line", "prefix", "text"}
Piece == [by : Threads, n : 1 .. MaxCalls, part : Parts]

Inside == {"test", "gather", "reset", "copy", "clearChain", "leave"}

\* The types; and m_bFlushing is never set without a thread that is in endl and
\* will reset it.
TypeOK ==
    /\ exists \in BOOLEAN
    /\ flushing \in BOOLEAN /\ (flushing => \E t \in Threads : at[t] \in Inside)
    /\ lowest \in 0 .. MaxLevel + 1 /\ last \in 0 .. MaxLevel
    /\ {text, stream, file} \subseteq Seq(Piece)
    /\ at \in [Threads -> {"idle", "create", "append", "write", "clear", "prefix",
                           "text", "spin", "enter"} \cup Inside]
    /\ calls \in [Threads -> [n : 0 .. MaxCalls, level : 0 .. MaxLevel, kind : Kinds]]
    /\ count \in 0 .. MaxCalls
    /\ fault \in {"none", "raced", "twoLogs", "hoisted"}
    /\ alone \subseteq Threads
    /\ done \subseteq [by : Threads, n : 1 .. MaxCalls, kind : Kinds, alone : BOOLEAN]

NoCall == [n |-> 0, level |-> 0, kind |-> "line"]

Init ==
    /\ exists = FALSE /\ lowest = 0 /\ last = 0
    /\ text = << >> /\ stream = << >> /\ flushing = FALSE /\ file = << >>
    /\ at = [t \in Threads |-> "idle"]
    /\ calls = [t \in Threads |-> NoCall]
    /\ count = 0
    /\ fault = "none"
    /\ alone = {} /\ done = {}

Go(t, from, to) == fault = "none" /\ at[t] = from /\ at' = [at EXCEPT ![t] = to]
End(t) == calls' = [calls EXCEPT ![t] = NoCall]
Part(t, part) == [by |-> t, n |-> calls[t].n, part |-> part]

Calling == {t \in Threads : at[t] # "idle"}
Begins(t) ==
    alone' = IF Calling = {} THEN {t} ELSE {}
Returns(t) ==
    done' = done \cup {[by |-> t, n |-> calls[t].n, kind |-> calls[t].kind,
                        alone |-> t \in alone]}

First(kind) == IF kind = "line" THEN "append" ELSE "prefix"

-----------------------------------------------------------------------------
\* getLog() and the first step of a call.  A line whose level is too low, or is
\* none, is refused.
Call(t, kind, level) ==
    /\ fault = "none" /\ at[t] = "idle" /\ count < MaxCalls
    /\ count' = count + 1
    /\ IF exists /\ kind = "line" /\ level < lowest
         THEN UNCHANGED <<at, calls>>
         ELSE /\ at' = [at EXCEPT ![t] = IF exists THEN First(kind) ELSE "create"]
              /\ calls' = [calls EXCEPT ![t] =
                              [n |-> count', level |-> level, kind |-> kind]]
    /\ Begins(t)
    /\ UNCHANGED <<members, fault, done>>

\* Nobody found the log.  If another thread has created it meanwhile, there are
\* two, which write to the same file, or the map is changed by both.
Create(t) ==
    /\ \/ ~exists /\ fault' = "none"
       \/ exists /\ fault' = "twoLogs"
    /\ IF calls[t].kind = "line" /\ calls[t].level < lowest
         THEN Go(t, "create", "idle") /\ End(t)
         ELSE Go(t, "create", First(calls[t].kind)) /\ UNCHANGED calls
    /\ exists' = TRUE
    /\ UNCHANGED <<lowest, last, text, stream, flushing, file, count, history>>

SetLogLevel(t, level) ==
    /\ Go(t, "idle", "idle") /\ exists
    /\ lowest' = level
    /\ UNCHANGED <<exists, last, text, stream, flushing, file, calls, count, fault, history>>

-----------------------------------------------------------------------------
(* logMessage(), logInfo(), logWarning(), logError(), logFatalError() *)

AppendLine(t) ==
    /\ Go(t, "append", "write")
    /\ text' = Append(text, Part(t, "line"))
    /\ UNCHANGED <<exists, lowest, last, stream, flushing, file, calls, count, fault, history>>

\* flush(), called by each of them and by endl, writes all of m_strLogText ...
WriteText(t, from, to) ==
    /\ Go(t, from, to)
    /\ file' = file \o text
    /\ UNCHANGED <<exists, lowest, last, text, stream, flushing, calls, count, fault, history>>

\* A bug: the text is written, but not cleared.
ClearNothing(t, from, to) ==
    /\ Go(t, from, to)
    /\ Returns(t)
    /\ UNCHANGED <<exists, lowest, last, text, stream, flushing, file, count, fault, alone>>

\* ... and clears it.
Clear(t, from, to) ==
    /\ Go(t, from, to)
    /\ text' = << >>
    /\ Returns(t)
    /\ UNCHANGED <<exists, lowest, last, stream, flushing, file, count, fault, alone>>

WriteLine(t) == WriteText(t, "write", "clear")
ClearLine(t) == Clear(t, "clear", "idle") /\ End(t)

-----------------------------------------------------------------------------
(* log << level << text << endl *)

Prefix(t) ==
    /\ Go(t, "prefix", "text")
    /\ stream' = Append(stream, Part(t, "prefix"))
    /\ last' = calls[t].level
    /\ UNCHANGED <<exists, lowest, text, flushing, file, calls, count, fault, history>>

Text(t) ==
    /\ Go(t, "text", "spin")
    /\ stream' = Append(stream, Part(t, "text"))
    /\ UNCHANGED <<exists, lowest, last, text, flushing, file, calls, count, fault, history>>

\* endl waits as long as m_bFlushing is set, and sets it in another step.
Spin(t) ==
    /\ ~flushing
    /\ Go(t, "spin", "enter")
    /\ UNCHANGED <<members, calls, count, fault, history>>

Enter(t) ==
    /\ Go(t, "enter", "test")
    /\ flushing' = TRUE
    /\ UNCHANGED <<exists, lowest, last, text, stream, file, calls, count, fault, history>>

\* A bug: endl returns without resetting the flag when there is nothing to do.
TestReturn(t) ==
    /\ IF last >= lowest
         THEN Go(t, "test", "gather") /\ UNCHANGED calls
         ELSE Go(t, "test", "idle") /\ End(t)
    /\ UNCHANGED <<members, count, fault, history>>

\* The level that counts is the one that any thread has passed last.  What is
\* not logged stays in the stream.
Test(t) ==
    /\ Go(t, "test", IF last >= lowest THEN "gather" ELSE "leave")
    /\ UNCHANGED <<members, calls, count, fault, history>>

Gather(t) ==
    /\ Go(t, "gather", "reset")
    /\ text' = text \o stream
    /\ UNCHANGED <<exists, lowest, last, stream, flushing, file, calls, count, fault, history>>

\* A bug: the state of the stream is reset, but not what it holds.
ResetState(t) ==
    /\ Go(t, "reset", "copy")
    /\ UNCHANGED <<members, calls, count, fault, history>>

Reset(t) ==
    /\ Go(t, "reset", "copy")
    /\ stream' = << >>
    /\ UNCHANGED <<exists, lowest, last, text, flushing, file, calls, count, fault, history>>

WriteChain(t) == WriteText(t, "copy", "clearChain")
ClearChain(t) == Clear(t, "clearChain", "leave") /\ UNCHANGED calls

\* A bug: the flag is not reset.
LeaveSet(t) ==
    /\ Go(t, "leave", "idle")
    /\ End(t)
    /\ UNCHANGED <<members, count, fault, history>>

Leave(t) ==
    /\ Go(t, "leave", "idle")
    /\ flushing' = FALSE
    /\ End(t)
    /\ UNCHANGED <<exists, lowest, last, text, stream, file, count, fault, history>>

-----------------------------------------------------------------------------
\* What the next step of a thread uses; all but the text in write() is changed.
Uses(t) ==
    CASE at[t] \in {"append", "clear", "clearChain"} -> {"text"}
      [] at[t] \in {"write", "copy"}                 -> {"text", "file"}
      [] at[t] \in {"prefix", "text", "reset"}       -> {"stream"}
      [] at[t] = "gather"                            -> {"stream", "text"}
      [] OTHER                                       -> {}

Race(t) ==
    /\ fault = "none"
    /\ \E s \in Threads \ {t} : Uses(s) \cap Uses(t) # {}
    /\ fault' = "raced"
    /\ UNCHANGED <<members, at, calls, count, history>>

\* m_bFlushing is an ordinary variable: a compiler that optimizes may read it
\* once, and wait forever, or leave the loop out.
Optimized(t) ==
    /\ fault = "none" /\ at[t] = "spin" /\ flushing
    /\ fault' = "hoisted"
    /\ UNCHANGED <<members, at, calls, count, history>>

Line(t) == Create(t) \/ AppendLine(t) \/ WriteLine(t) \/ ClearLine(t)
Chain(t) == Prefix(t) \/ Text(t)
Endl(t) ==
    \/ Spin(t) \/ Enter(t) \/ Test(t) \/ Gather(t) \/ Reset(t)
    \/ WriteChain(t) \/ ClearChain(t) \/ Leave(t)

Next ==
    \E t \in Threads :
        \/ \E kind \in Kinds, level \in Levels : Call(t, kind, level)
        \/ \E level \in Lowest : SetLogLevel(t, level)
        \/ Line(t) \/ Chain(t) \/ Endl(t) \/ Race(t) \/ Optimized(t)

\* A thread that is in a call goes on, as the system runs all of them.
Spec ==
    /\ Init /\ [][Next]_vars
    /\ \A t \in Threads : WF_vars(Line(t) \/ Chain(t) \/ Endl(t))

-----------------------------------------------------------------------------
PiecesOf(call) ==
    IF call.kind = "line" THEN <<"line">> ELSE <<"prefix", "text">>
Places(call, part) ==
    {i \in DOMAIN file : file[i] = [by |-> call.by, n |-> call.n, part |-> part]}

\* A call that overlapped no other one, and was not refused, is in the file
\* once, its pieces next to each other.
AloneIsLogged ==
    \A call \in done : call.alone =>
        \E i \in DOMAIN file : \A k \in DOMAIN PiecesOf(call) :
            Places(call, PiecesOf(call)[k]) = {i + k - 1}

\* The lines of one thread that were not refused are in the file in the order
\* in which it made them, whatever the other threads do.
OwnOrder ==
    \A c, d \in done : c.by = d.by /\ c.n < d.n =>
        \A p, q \in Parts : \A i \in Places(c, p), j \in Places(d, q) : i < j

\* Every endl returns, though it waits for the others: nobody keeps the flag.
\* (With no bound on the calls of the others they could always be quicker.)
EndlReturns ==
    \A t \in Threads : at[t] = "spin" ~> at[t] = "idle" \/ fault # "none"

=============================================================================
