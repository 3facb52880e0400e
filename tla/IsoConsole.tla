------------------------------ MODULE IsoConsole ------------------------------
(***************************************************************************)
(* The two threads of the ISO-TP example (src/example/main.cpp): a reader  *)
(* of console commands, and the main loop that carries them out.  They     *)
(* share the string cmd under the mutex mtx.                               *)
(***************************************************************************)
EXTENDS Naturals

CONSTANTS
    Sizes,     \* numbers the user types: the size of a message to send
    Text,      \* a word that is neither a number nor begins with 'e'
    Exit,      \* a word that begins with 'e'
    Empty      \* the empty string

ASSUME WordsAssumption == Sizes \subseteq Nat /\ {Text, Exit, Empty} \cap Nat = {}

Words == Sizes \cup {Text, Exit}

VARIABLES
    reader,    \* the reader thread: reading, inside its critical section, or done
    word,      \* its readcmd
    run,       \* its run
    closed,    \* the input has ended
    mtx,       \* who holds the mutex
    cmd,
    loop,      \* the main thread
    readcmd,
    asked      \* history: the latest size requested

console == <<reader, word, run, closed>>
main == <<loop, readcmd, asked>>
vars == <<console, mtx, cmd, main>>

Init ==
    /\ reader = "read" /\ word = Empty /\ run = TRUE /\ closed = FALSE
    /\ mtx = "free" /\ cmd = Empty
    /\ loop = "build" /\ readcmd = Empty /\ asked = Empty

Lock(thread) == mtx = "free" /\ mtx' = thread
Unlock == mtx' = "free"

-----------------------------------------------------------------------------
(* The reader thread.                                                      *)
\* Bug: the thread goes on reading after the word that ends the program.
RunsForever(w) == run

RunsAfter(w) == w # Exit /\ run

Type(w) ==
    /\ reader = "read" /\ ~closed
    /\ word' = w
    /\ run' = RunsAfter(w)
    /\ reader' = "lock"
    /\ UNCHANGED <<closed, mtx, cmd, main>>

CloseInput ==
    /\ reader = "read" /\ ~closed
    /\ closed' = TRUE
    /\ UNCHANGED <<reader, word, run, mtx, cmd, main>>

\* Reading fails and leaves the word as it was: it is handed over again.
ReadNothing ==
    /\ reader = "read" /\ closed
    /\ reader' = IF word = Empty THEN "read" ELSE "lock"
    /\ UNCHANGED <<word, run, closed, mtx, cmd, main>>

LockCmd ==
    /\ reader = "lock"
    /\ Lock("reader")
    /\ reader' = "write"
    /\ UNCHANGED <<word, run, closed, cmd, main>>

WriteCmd ==
    /\ reader = "write"
    /\ cmd' = word
    /\ reader' = "unlock"
    /\ UNCHANGED <<word, run, closed, mtx, main>>

UnlockCmd ==
    /\ reader = "unlock"
    /\ Unlock
    /\ reader' = IF run THEN "read" ELSE "done"
    /\ UNCHANGED <<word, run, closed, cmd, main>>

HandOver == ReadNothing \/ LockCmd \/ WriteCmd \/ UnlockCmd

-----------------------------------------------------------------------------
(* The main thread.                                                        *)
Main(from, to) == loop = from /\ loop' = to

BuildApp ==
    /\ Main("build", "process")
    /\ UNCHANGED <<console, mtx, cmd, readcmd, asked>>

Process ==
    /\ Main("process", "lock")
    /\ UNCHANGED <<console, mtx, cmd, readcmd, asked>>

LockTake ==
    /\ Main("lock", "take")
    /\ Lock("main")
    /\ UNCHANGED <<console, cmd, readcmd, asked>>

Take ==
    /\ Main("take", "unlock")
    /\ readcmd' = IF cmd = Empty THEN readcmd ELSE cmd
    /\ cmd' = Empty
    /\ UNCHANGED <<console, mtx, asked>>

UnlockTaken ==
    /\ Main("unlock", "act")
    /\ Unlock
    /\ UNCHANGED <<console, cmd, readcmd, asked>>

Request ==
    /\ Main("act", "process")
    /\ readcmd # Exit
    /\ asked' = IF readcmd \in Sizes THEN readcmd ELSE asked
    /\ readcmd' = Empty
    /\ UNCHANGED <<console, mtx, cmd>>

Leave ==
    /\ Main("act", "join")
    /\ readcmd = Exit
    /\ UNCHANGED <<console, mtx, cmd, readcmd, asked>>

Join ==
    /\ Main("join", "ended")
    /\ reader = "done"
    /\ UNCHANGED <<console, mtx, cmd, readcmd, asked>>

MainRuns ==
    \/ BuildApp \/ Process
    \/ LockTake \/ Take \/ UnlockTaken
    \/ Request \/ Leave \/ Join

Next == (\E w \in Words : Type(w)) \/ CloseInput \/ HandOver \/ MainRuns

Spec == Init /\ [][Next]_vars

\* Both threads are scheduled, and neither wins the mutex for ever from the other.
FairSpec ==
    /\ Spec
    /\ WF_vars(HandOver) /\ WF_vars(MainRuns)
    /\ SF_vars(LockCmd) /\ SF_vars(LockTake)

-----------------------------------------------------------------------------
(***************************************************************************)
(* Properties                                                              *)
(***************************************************************************)
\* The word that ends the program ends both threads, whatever was typed before it and not
\* yet carried out: the reader hands it over before it stops, nothing overwrites it, and
\* the main thread joins it (main.cpp:121-136, 142-174).
ExitEnds == (word = Exit) ~> (loop = "ended")

=============================================================================
