------------------------------- MODULE Files -------------------------------
(***************************************************************************)
(* Open files of processes: the system calls in fs/syscall_handler.cpp,    *)
(* path lookup in fs/vfs.cpp, and what creating, replacing and ending a    *)
(* process does to its descriptors in process/process_helper.cpp and       *)
(* process/process.c.  What a file holds is the matter of Pipe and Ext2.   *)
(* Each call is one step.  Where the code goes on with a pointer that is   *)
(* null or to a deleted object, the step ends in a fault, which stops the  *)
(* model.                                                                  *)
(***************************************************************************)
EXTENDS Integers, Sequences, SequencesExt, FiniteSets, FiniteSetsExt

CONSTANTS
    Procs,       \* processes besides init
    NFds,        \* CFG_PROCESS_FDS
    Opened,      \* EXT2_File objects that can exist
    PathNames,   \* paths given to calls: [abs |-> BOOLEAN, segs |-> sequence of names]
    BufSizes     \* buffer sizes given to getcwd

VARIABLE ft
    \* live   processes               fds    file of a descriptor, or NoFile
    \* cwd    entry of a process      file   what there is of a File object
    \* lent   files a child has inherited    gone   entries whose inode is released
    \* boot   processes init created         fault  what the code has broken

NoFile  == "null"
NoEntry == "null"
Stdin   == "stdin"
Stdout  == "stdout"
Pipes   == {Stdin, Stdout}
Fds     == 0 .. NFds - 1
All     == Procs \cup {"init"}

\* The directory tree: the root, the directory d in it and the file f in d.
Tree   == [root |-> "root", d |-> "root", f |-> "d"]
IsDir(e) == e \in {"root", "d"}

\* init_main: stderr is put where stdout is, and nothing at 2.  Its own descriptors
\* are not counted.
init_main ==
    [live |-> {"init"},
     fds  |-> [p \in All |-> [i \in Fds |->
                 IF p = "init" /\ i < 2 THEN IF i = 0 THEN Stdin ELSE Stdout ELSE NoFile]],
     cwd  |-> [p \in All |-> "root"],
     file |-> [f \in Pipes \cup Opened |-> [cnt |-> 0, live |-> f \in Pipes]],
     lent |-> {}, gone |-> {}, boot |-> 0, fault |-> "none"]

\* Nothing is claimed of what follows.
Fault(s, f) == [init_main EXCEPT !.fault = f]
Ready(p) == ft.fault = "none" /\ p \in ft.live

-----------------------------------------------------------------------------
(* Lookup.                                                                 *)

\* get_child(name): load_children insists on a directory.
get_child(e, name) ==
    IF name \in DOMAIN Tree /\ Tree[name] = e /\ name # "root" THEN name ELSE NoEntry
\* get_path(path) walks the segments of the path as it was given.
Walk(from, segs) ==
    LET Step(e, n) == CASE e \in {NoEntry, "assert"} -> e
                        [] n = "."                   -> e
                        [] n = ".."                  -> Tree[e]
                        [] ~IsDir(e)                 -> "assert"
                        [] OTHER                     -> get_child(e, n)
    IN  FoldLeft(Step, from, segs)
get_path(p, path) == Walk(IF path.abs THEN "root" ELSE ft.cwd[p], path.segs)

-----------------------------------------------------------------------------
(* Descriptors.                                                            *)

get_file(p, fd) == ft.fds[p][fd]
Dead(f) == f # NoFile /\ ~ft.file[f].live

\* p->open() makes a File that is not counted: open() is only called by copy_file.
New == {f \in Opened : ~ft.file[f].live /\ \A q \in All, i \in Fds : ft.fds[q][i] # f}
do_open(p, path) ==
    /\ Ready(p)
    /\ LET free == {i \in Fds : ft.fds[p][i] = NoFile}
           e    == get_path(p, path)
           f    == CHOOSE f \in New : TRUE
       IN  /\ free # {} /\ e # NoEntry /\ New # {}
           /\ ft' = IF e = "assert" \/ e \in ft.gone THEN Fault(ft, "entry")
                    ELSE [ft EXCEPT !.fds[p][Min(free)] = f,
                                    !.file[f] = [cnt |-> 0, live |-> TRUE],
                                    !.lent = @ \ {f}]

\* read and write return -1 for a descriptor that is not open; seek, getdent and
\* fstat do not look.
do_read(p, fd) ==
    /\ Ready(p) /\ Dead(get_file(p, fd))
    /\ ft' = Fault(ft, "dangling")
do_lseek(p, fd) ==
    /\ Ready(p) /\ (get_file(p, fd) = NoFile \/ Dead(get_file(p, fd)))
    /\ ft' = Fault(ft, "null")

\* PIPE_File::close counts, and frees the buffer behind the last; File::close deletes
\* the object.
Closed(s, p, fd) ==
    LET f == s.fds[p][fd]
        t == [s EXCEPT !.fds[p][fd] = NoFile]
    IN  CASE f = NoFile       -> s
          [] f \in Pipes      -> [t EXCEPT !.file[f].cnt = @ - 1,
                                           !.file[f].live = @ /\ s.file[f].cnt # 1]
          [] ~s.file[f].live  -> Fault(s, "dangling")
          [] OTHER            -> [t EXCEPT !.file[f] = [cnt |-> 0, live |-> FALSE]]
do_close(p, fd) ==
    /\ Ready(p) /\ get_file(p, fd) # NoFile
    /\ ft' = Closed(ft, p, fd)

\* An old path that is not found is used all the same.
do_link(p, old, new) ==
    /\ Ready(p)
    /\ LET from == get_path(p, old)
           dir  == get_path(p, [new EXCEPT !.segs = IF @ = <<>> THEN @ ELSE Front(@)])
       IN  dir # NoEntry /\ (from \in {NoEntry, "assert"} \cup ft.gone \/ dir = "assert")
    /\ ft' = Fault(ft, "entry")

\* unlink() of the entry itself: its directory still lists it.
do_unlink(p, name) ==
    /\ Ready(p)
    /\ LET e == get_child(ft.cwd[p], name)
       IN  IF ~IsDir(ft.cwd[p]) THEN ft' = Fault(ft, "entry")
           ELSE e # NoEntry /\ ft' = [ft EXCEPT !.gone = @ \cup {e}]

\* Any entry can become the working directory.
do_chdir(p, path) ==
    /\ Ready(p)
    /\ LET e == get_path(p, path)
       IN  e # NoEntry /\ ft' = IF e = "assert" THEN Fault(ft, "entry")
                                ELSE [ft EXCEPT !.cwd[p] = e]

\* The names from the root down, each behind a slash, and a zero the size is not
\* asked for.
RECURSIVE Depth(_)
Depth(e) == IF e = "root" THEN 0 ELSE 1 + Depth(Tree[e])
do_getcwd(p, size) ==
    /\ Ready(p)
    /\ size = 2 * Depth(ft.cwd[p]) /\ size # 0
    /\ ft' = Fault(ft, "overrun")

\* do_stat opens the file and closes it, and fills nothing in.
do_stat(p, path) ==
    /\ Ready(p) /\ New # {}
    /\ get_path(p, path) \in ft.gone \cup {"assert"}
    /\ ft' = Fault(ft, "entry")

-----------------------------------------------------------------------------
(* Processes.                                                              *)

copy_file(s, to, from) ==
    LET given == {s.fds[from][i] : i \in Fds} \ {NoFile}
        Copies(f) == Cardinality({i \in Fds : s.fds[from][i] = f})
    IN  IF \E f \in given : f \notin Pipes /\ ~s.file[f].live THEN Fault(s, "dangling")
        ELSE [s EXCEPT !.fds[to] = s.fds[from],
                       !.file = [f \in DOMAIN @ |-> [@[f] EXCEPT !.cnt = @ + Copies(f)]],
                       !.lent = @ \cup (given \ Pipes)]
create_process(parent, p) ==
    /\ Ready(parent) /\ p \notin ft.live
    /\ parent = "init" => ft.boot < 2
    /\ LET s == copy_file([ft EXCEPT !.live = @ \cup {p}], p, parent)
       IN  ft' = [s EXCEPT !.cwd[p] = ft.cwd[parent],
                           !.boot = IF parent = "init" THEN @ + 1 ELSE @]

\* destroy_process closes what is open.
destroy_processKeepsLast(s, p) ==
    [FoldLeft(LAMBDA t, i : IF t.fault = "none" THEN Closed(t, p, i) ELSE t, s,
              [k \in 1 .. NFds - 1 |-> k - 1])
       EXCEPT !.live = @ \ {p}, !.cwd[p] = "root", !.fds[p][NFds - 1] = NoFile]
destroy_process(s, p) ==
    [FoldLeft(LAMBDA t, i : IF t.fault = "none" THEN Closed(t, p, i) ELSE t, s,
              [k \in 1 .. NFds |-> k - 1])
       EXCEPT !.live = @ \ {p}, !.cwd[p] = "root"]
do_quit_thread(p) ==
    /\ Ready(p) /\ p # "init"
    /\ ft' = destroy_process(ft, p)

\* do_real_exec ends the process when the program is not found; otherwise the file
\* is opened, read and closed, and the descriptors stay as they are.
do_exec(p, path) ==
    /\ Ready(p) /\ p # "init" /\ New # {}
    /\ LET e == Walk("root", path.segs)
       IN  CASE e = NoEntry                        -> ft' = destroy_process(ft, p)
             [] e = "assert" \/ IsDir(e) \/ e \in ft.gone -> ft' = Fault(ft, "entry")
             [] OTHER                              -> ft' = ft

Init == ft = init_main
Next ==
    \/ \E p \in All, q \in Procs : create_process(p, q)
    \/ \E p \in Procs :
         \/ do_quit_thread(p)
         \/ \E fd \in Fds : do_read(p, fd) \/ do_lseek(p, fd) \/ do_close(p, fd)
         \/ \E path \in PathNames :
              \/ do_open(p, path) \/ do_chdir(p, path) \/ do_stat(p, path) \/ do_exec(p, path)
              \/ \E new \in PathNames : do_link(p, path, new)
         \/ \E name \in DOMAIN Tree : do_unlink(p, name)
         \/ \E size \in BufSizes : do_getcwd(p, size)

-----------------------------------------------------------------------------
Holders(f) == {<<p, i>> \in ft.live \X Fds : ft.fds[p][i] = f}

\* Until a broken pointer is used, a pipe counts the descriptors that children of
\* init have of it, also after exits and repeated creation; an open file has a
\* descriptor, and exactly one until a child inherits it; no descriptor leads to a
\* deleted file that was not inherited; and an ended process holds nothing (do_open,
\* do_close, copy_file, destroy_process).
FilesSound ==
    ft.fault = "none" =>
      /\ \A f \in Pipes :
           ft.file[f].cnt = Cardinality({h \in Holders(f) : h[1] # "init"})
      /\ \A f \in Opened : ft.file[f].live => Holders(f) # {}
      /\ \A f \in Opened \ ft.lent :
           Cardinality(Holders(f)) = IF ft.file[f].live THEN 1 ELSE 0
      /\ \A p \in All \ ft.live, i \in Fds : ft.fds[p][i] = NoFile
=============================================================================
