----------------------------- MODULE Directory -----------------------------
(***************************************************************************)
(* What the descriptors of Programming-Assignment#3 are for a program that *)
(* knows files by their names: which files there are, which are marked     *)
(* open, and which of these the program has a File object of.  FatVolume   *)
(* implements this as long as close_file finds the file it is given.       *)
(***************************************************************************)
CONSTANT FileNames

VARIABLES
    status,   \* of each name: "absent", "closed" or "open"
    held      \* the names of the File objects of the program that runs

vars == <<status, held>>

Init ==
    /\ status = [n \in FileNames |-> "absent"]
    /\ held = {}

Create(n) ==
    /\ status[n] = "absent" /\ status' = [status EXCEPT ![n] = "open"]
    /\ held' = held \cup {n}

Open(n) ==
    /\ status[n] = "closed" /\ status' = [status EXCEPT ![n] = "open"]
    /\ held' = held \cup {n}

Close(n) ==
    /\ n \in held /\ status[n] = "open"
    /\ status' = [status EXCEPT ![n] = "closed"]
    /\ held' = held \ {n}

Delete(n) ==
    /\ status[n] = "closed" /\ status' = [status EXCEPT ![n] = "absent"]
    /\ UNCHANGED held

\* The mark survives the program: a file that was open then is open for good, as Open
\* wants a closed file and Close a File object.
Crash == held' = {} /\ UNCHANGED status

Next == (\E n \in FileNames : Create(n) \/ Open(n) \/ Close(n) \/ Delete(n)) \/ Crash

Spec == Init /\ [][Next]_vars

=============================================================================
