------------------------------ MODULE ServerApp ------------------------------
(***************************************************************************)
(* The two threads of the example server (src/example/server-app.cpp):     *)
(* the menu (CliMen, src/example/uds-test-server/cli-client.h), which      *)
(* reads the console, and the main loop, which sends what was picked.      *)
(*                                                                         *)
(* They share the pointer veccmd and the flag cmd_ready under the mutex    *)
(* mtx, except that IsCmd reads the flag without it, which is a data race: *)
(* the read may come at any point of the other thread's critical section.  *)
(* A menu item is a model value; a list of items is named by its first.    *)
(***************************************************************************)
EXTENDS Naturals, Sequences

CONSTANTS
    Items, Root,  \* the items, and the first of the list the menu starts with
    NextOf,       \* GetNext of an item, or NoItem
    DownOf,       \* GetDown of an item, or NoItem
    NoItem,
    Numbers       \* positive numbers the user types

ASSUME MenuAssumption ==
    /\ Root \in Items /\ NoItem \notin Items
    /\ NextOf \in [Items -> Items \cup {NoItem}]
    /\ DownOf \in [Items -> Items \cup {NoItem}]
ASSUME NumbersAssumption == Numbers \subseteq Nat \ {0}

VARIABLES
    deep,       \* CliMen::deep, the lists the user went down into
    item,       \* what the menu thread is about to publish
    cli,        \* the menu thread: reading, or inside its critical section
    mtx,        \* who holds the mutex
    veccmd, cmd_ready,
    loop,       \* the main thread
    payload,    \* the copy GetData makes
    picked,     \* history: the latest command item the user picked
    unread,     \* history: the command published latest was not copied yet
    sent        \* history: the latest item whose command was requested

menu == <<deep, item, cli>>
shared == <<mtx, veccmd, cmd_ready>>
main == <<loop, payload>>
history == <<picked, unread, sent>>
vars == <<menu, shared, main, history>>

Init ==
    /\ deep = <<>> /\ item = NoItem /\ cli = "read"
    /\ mtx = "free" /\ veccmd = NoItem /\ cmd_ready = FALSE
    /\ loop = "build" /\ payload = NoItem
    /\ picked = NoItem /\ unread = FALSE /\ sent = NoItem

\* Bug: the mutex is not taken.
FreeIgnored == TRUE

Free == mtx = "free"

Lock(thread) == Free /\ mtx' = thread
Unlock == mtx' = "free"

-----------------------------------------------------------------------------
(* The menu thread, CliMen::Run.                                           *)
\* The list on the screen.
Start == IF deep = <<>> THEN Root ELSE deep[Len(deep)]

\* The n-th item of a list, or NoItem behind its end.
Nth(start, n) ==
    LET walk[i \in 1 .. n] ==
            IF i = 1 THEN start
            ELSE IF walk[i - 1] = NoItem THEN NoItem ELSE NextOf[walk[i - 1]]
    IN  walk[n]

\* Bug: the item is put on the stack in place of its list.
PushedItem(chosen) == chosen

Pushed(chosen) == DownOf[chosen]

GoDown(n) ==
    LET chosen == Nth(Start, n)
    IN  /\ cli = "read"
        /\ chosen # NoItem
        /\ DownOf[chosen] # NoItem
        /\ deep' = Append(deep, Pushed(chosen))
        /\ UNCHANGED <<item, cli, shared, main, history>>

\* The lock_guard of a command that was picked.
Pick(n) ==
    LET chosen == Nth(Start, n)
    IN  /\ cli = "read"
        /\ chosen # NoItem
        /\ DownOf[chosen] = NoItem
        /\ Lock("menu")
        /\ item' = chosen /\ picked' = chosen
        /\ cli' = "veccmd"
        /\ UNCHANGED <<deep, veccmd, cmd_ready, main, unread, sent>>

WriteVec ==
    /\ cli = "veccmd"
    /\ veccmd' = item
    /\ unread' = TRUE
    /\ cli' = "ready"
    /\ UNCHANGED <<deep, item, mtx, cmd_ready, main, picked, sent>>

WriteReady ==
    /\ cli = "ready"
    /\ cmd_ready' = TRUE
    /\ cli' = "unlock"
    /\ UNCHANGED <<deep, item, mtx, veccmd, main, history>>

Publish ==
    /\ cli = "unlock"
    /\ Unlock
    /\ cli' = "read"
    /\ UNCHANGED <<deep, item, veccmd, cmd_ready, main, history>>

\* Zero, a negative number or a number behind the end of the list.
PrintAgain ==
    /\ cli = "read"
    /\ UNCHANGED vars

\* Anything else, and the end of the input.
GoUp ==
    /\ cli = "read"
    /\ deep' = IF deep = <<>> THEN <<>> ELSE SubSeq(deep, 1, Len(deep) - 1)
    /\ UNCHANGED <<item, cli, shared, main, history>>

Input == PrintAgain \/ GoUp \/ \E n \in Numbers : GoDown(n) \/ Pick(n)

MenuRuns == WriteVec \/ WriteReady \/ Publish

-----------------------------------------------------------------------------
(* The main thread.  The menu runs before BuildApp is done.                *)
Main(from, to) == loop = from /\ loop' = to

BuildApp ==
    /\ Main("build", "process")
    /\ UNCHANGED <<menu, shared, payload, history>>

\* Process of the main handler and of the socket reader.
Process ==
    /\ Main("process", "isCmd")
    /\ UNCHANGED <<menu, shared, payload, history>>

IsCmd ==
    /\ loop = "isCmd"
    /\ loop' = IF cmd_ready THEN "getData" ELSE "process"
    /\ UNCHANGED <<menu, shared, payload, history>>

LockData ==
    /\ Main("getData", "copy")
    /\ Lock("main")
    /\ UNCHANGED <<menu, veccmd, cmd_ready, payload, history>>

CopyData ==
    /\ Main("copy", "clear")
    /\ payload' = veccmd
    /\ unread' = FALSE
    /\ UNCHANGED <<menu, shared, picked, sent>>

\* Bug: the flag stays set.
ClearedForgotten == cmd_ready

Cleared == FALSE

ClearReady ==
    /\ Main("clear", "unlock")
    /\ cmd_ready' = Cleared
    /\ UNCHANGED <<menu, mtx, veccmd, payload, history>>

ReturnData ==
    /\ Main("unlock", "request")
    /\ Unlock
    /\ UNCHANGED <<menu, veccmd, cmd_ready, payload, history>>

Request ==
    /\ Main("request", "process")
    /\ sent' = payload
    /\ UNCHANGED <<menu, shared, payload, picked, unread>>

MainRuns ==
    \/ BuildApp \/ Process \/ IsCmd
    \/ LockData \/ CopyData \/ ClearReady \/ ReturnData
    \/ Request

Next == Input \/ MenuRuns \/ MainRuns

Spec == Init /\ [][Next]_vars

\* Both threads are scheduled.
FairSpec == Spec /\ WF_vars(MenuRuns) /\ WF_vars(MainRuns)

-----------------------------------------------------------------------------
(***************************************************************************)
(* Properties                                                              *)
(***************************************************************************)
TypeOK ==
    /\ deep \in Seq(Items)
    /\ {item, veccmd, payload, picked, sent} \subseteq Items \cup {NoItem}
    /\ cli \in {"read", "veccmd", "ready", "unlock"}
    /\ mtx \in {"free", "menu", "main"}
    /\ loop \in {"build", "process", "isCmd", "getData", "copy", "clear", "unlock", "request"}
    /\ cmd_ready \in BOOLEAN /\ unread \in BOOLEAN

\* The items of a list that can be picked by their numbers.
Shown(start) == {Nth(start, n) : n \in Numbers} \ {NoItem}

\* Every list the user went down into hangs below an item of the list before, so going up
\* leads back the way he came (cli-client.h:75-83, 99-127).
DeepIsPath ==
    \A i \in DOMAIN deep :
        \E above \in Shown(IF i = 1 THEN Root ELSE deep[i - 1]) : DownOf[above] = deep[i]

\* A command is sent at most once for every time one was picked, and never before one was
\* picked, although the main loop looks at the flag without the lock.  One that is picked
\* before the earlier one was fetched takes its place, and the earlier one is never sent
\* (cli-client.h:112-114, 134-145, server-app.cpp:125-128).
SentAtMostOnce == [][CopyData => unread /\ veccmd # NoItem]_vars

\* When the user stops picking, what he picked last is what was sent last: a command
\* picked while the one before it is being fetched is not lost (cli-client.h:109-112,
\* 139-145, server-app.cpp:121-131).
LatestSent ==
    (<>[][\A n \in Numbers : ~Pick(n)]_vars) => <>[](sent = picked)

=============================================================================
