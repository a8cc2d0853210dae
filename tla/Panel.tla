-------------------------------- MODULE Panel --------------------------------
(***************************************************************************)
(* The disk manager's window (src/engine/panel.c), the volumes it opens    *)
(* (functions.c) and the FUSE sessions that serve them (plot.c).           *)
(*                                                                         *)
(* The GTK main loop runs one handler at a time, except that               *)
(* progress_callback and on_open_volume_clicked dispatch pending events:   *)
(* there another handler may run to its end.  stack holds the handlers     *)
(* that have begun, the innermost last.  pc names the point a handler has  *)
(* reached: where it dispatches events, waits for the FUSE thread, or lets *)
(* it interleave.  A dialog is modal and part of a step.  The FUSE thread  *)
(* runs at any time.                                                       *)
(*                                                                         *)
(* Of what a volume holds, the file table is kept: in the context, in the  *)
(* pinned sectors of its cache, and in the volume file.                    *)
(***************************************************************************)
EXTENDS Integers, Sequences, FiniteSets

LOCAL INSTANCE SequencesExt

CONSTANTS Vol,         \* volume_context_t: a bound on those a process allocates
          Path,        \* volume files
          Thread,      \* struct fuse and its thread
          Table,       \* contents of a file table
          Empty,       \* the table of a new volume
          Mixed,       \* a table of which only some sectors were written
          Unreadable,  \* a file that is not a volume
          None,
          MaxDepth,    \* bound on handlers that have begun
          IOErrors     \* may the volume file and memory fail?

ASSUME EmptyAssumption == Empty \in Table
ASSUME TableAssumption == Mixed \notin Table /\ Unreadable \notin Table /\ Mixed # Unreadable
ASSUME NoneAssumption == None \notin Vol \cup Path \cup Thread
ASSUME DepthAssumption == MaxDepth \in Nat \ {0}
ASSUME FailureAssumption == IOErrors \in BOOLEAN

VARIABLES window,      \* is it on the screen?
          current,     \* app->current_volume
          stack,       \* handlers that have begun
          vol,         \* the volume contexts
          g_vol,       \* what the FUSE operations serve
          g_fuse,      \* g_fuse, g_fuse_thread, g_fuse_thread_started
          session,     \* the FUSE threads
          file         \* the volume files

vars == <<window, current, stack, vol, g_vol, g_fuse, session, file>>

Handler == {"create", "open", "close", "mount", "unmount", "quit"}

PC == {"creating",                                             \* volume_create
       "detach", "joining",                                    \* stop_fuse_mount
       "closing", "flushing", "destroying",                    \* volume_close
       "preparing", "reading", "unlocked", "caching", "read",  \* volume_open
       "choosing"}                                             \* of a mount point

Frame == [h : Handler, pc : PC, vol : Vol \cup {None}, path : Path \cup {None}]

\* path is the file the handle is open on; stale: that file was created anew after the
\* keys were derived; error: reading, writing or allocating for the volume failed.
Context == [state : {"unallocated", "allocated", "freed"},
            is_open : BOOLEAN, is_mounted : BOOLEAN, keys : BOOLEAN, cache : BOOLEAN,
            path : Path \cup {None}, stale : BOOLEAN, error : BOOLEAN,
            table : Table \cup {Mixed}, cached : Table \cup {Mixed}]

Zeroed(state) == [state |-> state, is_open |-> FALSE, is_mounted |-> FALSE, keys |-> FALSE,
                  cache |-> FALSE, path |-> None, stale |-> FALSE, error |-> FALSE,
                  table |-> Empty, cached |-> Empty]

\* aborted: told to exit before fuse_mount; busy: told to exit, the kernel refused
\* to unmount; leaving: unmounted.  vol is the volume it was started for.  Ended is
\* also what a thread is before it is created.
Session == [state : {"ended", "starting", "aborted", "serving", "busy", "leaving"},
            vol : Vol \cup {None}]

Ended == [state |-> "ended", vol |-> None]

Active(t) == session[t] # Ended
Serves(t) == session[t].state \in {"serving", "busy"}

NoVolumes == [v \in Vol |-> Zeroed("unallocated")]
NoSessions == [t \in Thread |-> Ended]

Init == /\ window = TRUE
        /\ current = None
        /\ stack = <<>>
        /\ vol = NoVolumes
        /\ g_vol = None
        /\ g_fuse = None
        /\ session = NoSessions
        /\ file \in [Path -> {Empty, Unreadable}]

------------------------------------------------------------------------------
(* Handlers *)

Top == stack[Len(stack)]

Goto(pc) == stack' = [stack EXCEPT ![Len(stack)].pc = pc]
Return == stack' = Front(stack)

At(h, pc) == stack # <<>> /\ Top.h \in h /\ Top.pc = pc

IsOpen == current # None /\ vol[current].is_open
IsMounted == current # None /\ vol[current].is_mounted

\* A handler whose volume was freed while it dispatched events has no defined
\* behaviour, and takes no step.
InUse == vol[Top.vol].state = "allocated"

\* Where the innermost handler dispatches events; volume_close is given a callback
\* by on_close_volume_clicked only.
Dispatching ==
    stack # <<>> => \/ Top.pc \in {"creating", "preparing", "reading", "unlocked", "caching", "read"}
                    \/ Top.h = "close" /\ Top.pc \in {"flushing", "destroying"}

Begin(h, pc, p) ==
    /\ window /\ Dispatching /\ Len(stack) < MaxDepth
    /\ stack' = Append(stack, [h |-> h, pc |-> pc, vol |-> None, path |-> p])

\* What freed memory holds matters only for the keys.
Freed(V, v) ==
    IF v = None THEN V
    ELSE [V EXCEPT ![v] = [Zeroed("freed") EXCEPT !.keys = V[v].keys, !.error = V[v].error]]

Unallocated == {v \in Vol : vol[v].state = "unallocated"}

\* The next context of malloc, zeroed; on_open_volume_clicked then dispatches events.
Allocated(V) ==
    \E v \in Unallocated :
       /\ vol' = [V EXCEPT ![v] = Zeroed("allocated")]
       /\ current' = v
       /\ Goto("preparing")

------------------------------------------------------------------------------
(* volume_create *)

\* fopen "wb" empties the file, also one a volume is open on.
on_create_volume_clicked(p) ==
    /\ Begin("create", "creating", p)
    /\ file' = [file EXCEPT ![p] = Unreadable]
    /\ vol' = [v \in Vol |-> [vol[v] EXCEPT !.stale = @ \/ (vol[v].path = p /\ vol[v].keys)]]
    /\ UNCHANGED <<window, current, g_vol, g_fuse, session>>

volume_created ==
    /\ At({"create"}, "creating")
    /\ \/ file' = [file EXCEPT ![Top.path] = Empty]
       \/ IOErrors /\ UNCHANGED file
    /\ Return
    /\ UNCHANGED <<window, current, vol, g_vol, g_fuse, session>>

------------------------------------------------------------------------------
(* stop_fuse_mount *)

\* Mutant: fuse_exit is not called.
StoppedByKernelOnly(t) ==
    [session EXCEPT ![t].state = IF @ = "serving" THEN "leaving" ELSE @]

\* fuse_exit and fusermount3 -u, whose result is ignored.
Stopped(t) ==
    [session EXCEPT ![t].state = CASE @ = "starting" -> "aborted"
                                   [] @ = "serving" -> "leaving"
                                   [] OTHER -> @]

\* The kernel refuses to unmount a file system in use.
Refused(t) == [session EXCEPT ![t].state = "busy"]

\* A handler that finds the volume mounted stops the session and waits for it.
stop_fuse_mount ==
    /\ stack # <<>> /\ Top.pc = "detach"
    /\ \/ g_fuse = None /\ UNCHANGED session
       \/ g_fuse # None /\ session' = Stopped(g_fuse)
       \/ g_fuse # None /\ session[g_fuse].state = "serving" /\ session' = Refused(g_fuse)
    /\ Goto("joining")
    /\ UNCHANGED <<window, current, vol, g_vol, g_fuse, file>>

\* Mutant: the thread is not waited for.
NoJoin(t) == TRUE

\* pthread_join has returned.
Joined(t) == t # None => ~Active(t)

\* fuse_destroy, then volume_unmount.
volume_unmount ==
    /\ stack # <<>> /\ Top.pc = "joining" /\ Joined(g_fuse)
    /\ g_fuse' = None
    /\ vol' = [vol EXCEPT ![current].is_mounted = FALSE]
    /\ CASE Top.h = "unmount" -> Return
         [] Top.h = "mount" -> Goto("choosing")
         [] OTHER -> Goto("closing")
    /\ UNCHANGED <<window, current, g_vol, session, file>>

------------------------------------------------------------------------------
(* volume_close *)

\* What the file may hold after its cache is flushed without an error, ...
FlushedTo(v) == IF vol[v].stale THEN Unreadable ELSE vol[v].cached

\* ... and after a flush that stopped.
PartlyFlushedTo(v) == {file[vol[v].path], FlushedTo(v), IF vol[v].stale THEN Unreadable ELSE Mixed}

\* What a handler does when volume_close has returned: on_close_volume_clicked
\* frees the context of a volume that was closed, the others any.
AfterClose(ok, V) ==
    CASE Top.h = "open" -> Allocated(Freed(V, current)) /\ UNCHANGED window
      [] Top.h = "quit" -> /\ vol' = Freed(V, current)
                           /\ current' = None
                           /\ window' = FALSE
                           /\ Return
      [] Top.h = "close" /\ ok -> /\ vol' = Freed(V, current)
                                  /\ current' = None
                                  /\ UNCHANGED window
                                  /\ Return
      [] OTHER -> vol' = V /\ UNCHANGED <<window, current>> /\ Return

\* Mutant: the table is not written.
write_back_nothing ==
    /\ At({"open", "close", "quit"}, "closing")
    /\ stack' = [stack EXCEPT ![Len(stack)].vol = current, ![Len(stack)].pc = "flushing"]
    /\ UNCHANGED <<window, current, vol, g_vol, g_fuse, session, file>>

\* The header and the file table go to the cache.  Their sectors are pinned, so that
\* cache_get_sector, whose failure would be ignored, cannot fail.
write_back_table ==
    /\ At({"open", "close", "quit"}, "closing")
    /\ vol' = [vol EXCEPT ![current].cached = vol[current].table]
    /\ stack' = [stack EXCEPT ![Len(stack)].vol = current, ![Len(stack)].pc = "flushing"]
    /\ UNCHANGED <<window, current, g_vol, g_fuse, session, file>>

\* Mutant: the result of cache_flush_all is ignored.
flush_unchecked ==
    /\ At({"open", "close", "quit"}, "flushing") /\ InUse
    /\ \/ file' = [file EXCEPT ![vol[Top.vol].path] = FlushedTo(Top.vol)]
       \/ IOErrors /\ \E x \in PartlyFlushedTo(Top.vol) :
                         file' = [file EXCEPT ![vol[Top.vol].path] = x]
    /\ Goto("destroying")
    /\ UNCHANGED <<window, current, vol, g_vol, g_fuse, session>>

\* Mutant: when it fails the cache is destroyed, but the volume stays open.
flush_destroying ==
    /\ At({"open", "close", "quit"}, "flushing") /\ InUse
    /\ LET v == Top.vol
       IN \/ /\ file' = [file EXCEPT ![vol[v].path] = FlushedTo(v)]
             /\ Goto("destroying")
             /\ UNCHANGED <<window, current, vol>>
          \/ /\ IOErrors
             /\ UNCHANGED file
             /\ AfterClose(FALSE, [vol EXCEPT ![v].error = TRUE, ![v].cache = FALSE])
    /\ UNCHANGED <<g_vol, g_fuse, session>>

\* cache_flush_all; when it fails the volume stays open, with its keys and its cache.
flush ==
    /\ At({"open", "close", "quit"}, "flushing") /\ InUse
    /\ LET v == Top.vol
       IN \/ /\ file' = [file EXCEPT ![vol[v].path] = FlushedTo(v)]
             /\ Goto("destroying")
             /\ UNCHANGED <<window, current, vol>>
          \/ /\ IOErrors
             /\ \E x \in PartlyFlushedTo(v) : file' = [file EXCEPT ![vol[v].path] = x]
             /\ AfterClose(FALSE, [vol EXCEPT ![v].error = TRUE])
    /\ UNCHANGED <<g_vol, g_fuse, session>>

\* cache_destroy, fclose, and the keys are wiped.
destroy ==
    /\ At({"open", "close", "quit"}, "destroying") /\ InUse
    /\ AfterClose(TRUE, [vol EXCEPT ![Top.vol].is_mounted = FALSE, ![Top.vol].cache = FALSE,
                                    ![Top.vol].is_open = FALSE, ![Top.vol].keys = FALSE])
    /\ UNCHANGED <<g_vol, g_fuse, session, file>>

------------------------------------------------------------------------------
(* volume_open *)

\* A volume that is open, and mounted, is closed first.
on_open_volume_clicked(p) ==
    /\ Cardinality(Unallocated) > Cardinality({i \in DOMAIN stack : stack[i].h = "open"})
    /\ IF IsOpen
       THEN /\ Begin("open", IF IsMounted THEN "detach" ELSE "closing", p)
            /\ UNCHANGED <<current, vol>>
       ELSE \E v \in Unallocated :
               /\ Begin("open", "preparing", p)
               /\ vol' = [vol EXCEPT ![v] = Zeroed("allocated")]
               /\ current' = v
    /\ UNCHANGED <<window, g_vol, g_fuse, session, file>>

\* on_open_volume_clicked frees the current volume.
OpenFailed(V) ==
    /\ vol' = Freed(V, current)
    /\ current' = None
    /\ Return

\* fopen.  The volume is the current one after the events were dispatched.
open_file ==
    /\ At({"open"}, "preparing") /\ current # None
    /\ \/ /\ vol' = [vol EXCEPT ![current].path = Top.path]
          /\ stack' = [stack EXCEPT ![Len(stack)].vol = current, ![Len(stack)].pc = "reading"]
          /\ UNCHANGED current
       \/ IOErrors /\ OpenFailed(vol)
    /\ UNCHANGED <<window, g_vol, g_fuse, session, file>>

\* Mutant: the key of a wrong password is not wiped.
derive_unwiped ==
    /\ At({"open"}, "reading") /\ InUse
    /\ LET v == Top.vol
       IN \/ /\ file[vol[v].path] # Unreadable
             /\ vol' = [vol EXCEPT ![v].keys = TRUE]
             /\ Goto("unlocked")
             /\ UNCHANGED current
          \/ OpenFailed([vol EXCEPT ![v].keys = TRUE])
    /\ UNCHANGED <<window, g_vol, g_fuse, session, file>>

\* The keys are derived, as version 4 and then as version 3.  A wrong password and a
\* file that is no volume end with the master key wiped; a file too short to be one
\* (functions.c:226) and a failure do not.
derive_keys ==
    /\ At({"open"}, "reading") /\ InUse
    /\ LET v == Top.vol
       IN \/ /\ file[vol[v].path] # Unreadable
             /\ vol' = [vol EXCEPT ![v].keys = TRUE]
             /\ Goto("unlocked")
             /\ UNCHANGED current
          \/ OpenFailed([vol EXCEPT ![v].keys = FALSE])
          \/ /\ IOErrors \/ file[vol[v].path] = Unreadable
             /\ OpenFailed([vol EXCEPT ![v].keys = TRUE, ![v].error = TRUE])
    /\ UNCHANGED <<window, g_vol, g_fuse, session, file>>

init_cache ==
    /\ At({"open"}, "unlocked") /\ InUse
    /\ \/ /\ vol' = [vol EXCEPT ![Top.vol].cache = TRUE]
          /\ Goto("caching")
          /\ UNCHANGED current
       \/ IOErrors /\ OpenFailed([vol EXCEPT ![Top.vol].error = TRUE])
    /\ UNCHANGED <<window, g_vol, g_fuse, session, file>>

\* The sectors of the header and the file table are loaded and pinned.
load_table ==
    /\ At({"open"}, "caching") /\ InUse
    /\ LET v == Top.vol
       IN \/ /\ file[vol[v].path] # Unreadable /\ ~vol[v].stale
             /\ vol' = [vol EXCEPT ![v].table = file[vol[v].path], ![v].cached = file[vol[v].path]]
             /\ Goto("read")
             /\ UNCHANGED current
          \/ /\ IOErrors \/ file[vol[v].path] = Unreadable \/ vol[v].stale
             /\ OpenFailed([vol EXCEPT ![v].cache = FALSE, ![v].error = TRUE])
    /\ UNCHANGED <<window, g_vol, g_fuse, session, file>>

volume_opened ==
    /\ At({"open"}, "read") /\ InUse
    /\ vol' = [vol EXCEPT ![Top.vol].is_open = TRUE, ![Top.vol].is_mounted = FALSE]
    /\ Return
    /\ UNCHANGED <<window, current, g_vol, g_fuse, session, file>>

------------------------------------------------------------------------------
(* The other buttons *)

on_close_volume_clicked ==
    /\ IsOpen
    /\ Begin("close", IF IsMounted THEN "detach" ELSE "closing", None)
    /\ UNCHANGED <<window, current, vol, g_vol, g_fuse, session, file>>

on_mount_volume_clicked ==
    /\ IsOpen
    /\ Begin("mount", IF IsMounted THEN "detach" ELSE "choosing", None)
    /\ UNCHANGED <<window, current, vol, g_vol, g_fuse, session, file>>

on_unmount_volume_clicked ==
    /\ IsMounted
    /\ Begin("unmount", "detach", None)
    /\ UNCHANGED <<window, current, vol, g_vol, g_fuse, session, file>>

\* gtk_window_close; a volume that is open is closed first.
on_quit_clicked ==
    /\ \/ /\ IsOpen
          /\ Begin("quit", IF IsMounted THEN "detach" ELSE "closing", None)
          /\ UNCHANGED window
       \/ /\ ~IsOpen /\ window /\ Dispatching
          /\ window' = FALSE
          /\ UNCHANGED stack
    /\ UNCHANGED <<current, vol, g_vol, g_fuse, session, file>>

\* volume_mount and start_fuse_mount, which returns before the thread has mounted.
start_fuse_mount ==
    /\ At({"mount"}, "choosing")
    /\ Return
    /\ \/ UNCHANGED <<vol, g_vol, g_fuse, session>>
       \/ /\ g_vol' = current
          /\ \/ \E t \in Thread \ {g_fuse} :
                   /\ ~Active(t)
                   /\ vol' = [vol EXCEPT ![current].is_mounted = TRUE]
                   /\ session' = [session EXCEPT ![t] = [state |-> "starting", vol |-> current]]
                   /\ g_fuse' = t
             \/ IOErrors /\ g_fuse = None /\ UNCHANGED <<vol, session, g_fuse>>
    /\ UNCHANGED <<window, current, file>>

\* The window manager closes the window: no handler is connected to it, and
\* on_shutdown finds no window to take the volume from.
close_window ==
    /\ window /\ Dispatching
    /\ window' = FALSE
    /\ UNCHANGED <<current, stack, vol, g_vol, g_fuse, session, file>>

------------------------------------------------------------------------------
(* The FUSE thread *)

\* It may fail, which the panel does not learn.  A session told to exit serves nothing.
fuse_mount(t) ==
    /\ \/ /\ session[t].state = "starting"
          /\ session' = [session EXCEPT ![t].state = "serving"]
       \/ /\ session[t].state \in {"starting", "aborted"}
          /\ session' = [session EXCEPT ![t] = Ended]
    /\ UNCHANGED <<window, current, stack, vol, g_vol, g_fuse, file>>

\* A request reads or changes the volume.  fuse_loop then looks whether to exit.
fuse_loop(t) ==
    /\ Serves(t)
    /\ g_vol # None /\ vol[g_vol].state = "allocated" /\ vol[g_vol].cache
    /\ \/ UNCHANGED vol
       \/ \E x \in Table : vol' = [vol EXCEPT ![g_vol].table = x]
    /\ session' = [session EXCEPT ![t] = IF @.state = "busy" THEN Ended ELSE @]
    /\ UNCHANGED <<window, current, stack, g_vol, g_fuse, file>>

fuse_unmount(t) ==
    /\ session[t].state = "leaving"
    /\ session' = [session EXCEPT ![t] = Ended]
    /\ UNCHANGED <<window, current, stack, vol, g_vol, g_fuse, file>>

------------------------------------------------------------------------------
(* The process *)

Restart == /\ window' = TRUE
           /\ current' = None
           /\ stack' = <<>>
           /\ vol' = NoVolumes
           /\ g_vol' = None
           /\ g_fuse' = None
           /\ session' = NoSessions

\* The process ends after its last window and is launched again.
Exit == ~window /\ stack = <<>> /\ Restart /\ UNCHANGED file

\* It is killed, perhaps while it flushes, and launched again.
Crash == /\ Restart
         /\ \/ UNCHANGED file
            \/ /\ stack # <<>> /\ Top.pc = "flushing" /\ InUse
               /\ \E x \in PartlyFlushedTo(Top.vol) :
                     file' = [file EXCEPT ![vol[Top.vol].path] = x]

Click == \/ \E p \in Path : on_create_volume_clicked(p) \/ on_open_volume_clicked(p)
         \/ on_close_volume_clicked \/ on_mount_volume_clicked \/ on_unmount_volume_clicked
         \/ on_quit_clicked \/ close_window

Handle == \/ volume_created
          \/ stop_fuse_mount \/ volume_unmount \/ start_fuse_mount
          \/ write_back_table \/ flush \/ destroy
          \/ open_file \/ derive_keys \/ init_cache \/ load_table \/ volume_opened

Next == \/ Click
        \/ Handle
        \/ \E t \in Thread : fuse_mount(t) \/ fuse_loop(t) \/ fuse_unmount(t)
        \/ Exit
        \/ Crash

Spec == Init /\ [][Next]_vars

\* The GTK thread and the FUSE thread run, and the user answers dialogs; the kernel need
\* not send a request.
Fairness == /\ WF_vars(Handle)
            /\ \A t \in Thread : WF_vars(fuse_mount(t)) /\ WF_vars(fuse_unmount(t))

FairSpec == Spec /\ Fairness
------------------------------------------------------------------------------
(* Properties *)

\* An open volume has all it needs, and only an open one is mounted.
TypeOK == /\ window \in BOOLEAN
          /\ current \in Vol \cup {None}
          /\ stack \in Seq(Frame) /\ Len(stack) <= MaxDepth
          /\ vol \in [Vol -> Context]
          /\ \A v \in Vol : /\ vol[v].is_open => vol[v].keys /\ vol[v].cache /\ vol[v].path # None
                            /\ vol[v].is_mounted => vol[v].is_open
          /\ g_vol \in Vol \cup {None}
          /\ g_fuse \in Thread \cup {None}
          /\ session \in [Thread -> Session]
          /\ file \in [Path -> Table \cup {Mixed, Unreadable}]

\* There is one FUSE thread, the one that stop_fuse_mount stops, and as long as it may
\* handle requests the volume it works on is the one it was started for: open and
\* mounted, with its keys and its cache.  The thread gets a pointer, the volume is
\* freed by buttons, and nothing but the order of the calls keeps the two apart.
ServesOpenVolume ==
    \A t \in Thread : Active(t) =>
       /\ t = g_fuse /\ session[t].vol = g_vol
       /\ LET c == vol[g_vol]
          IN c.state = "allocated" /\ c.is_open /\ c.is_mounted /\ c.keys /\ c.cache

\* When volume_close returns 0 the volume file holds the table as it is then, whatever
\* failed before: nothing changes it between write_back_table and flush, and a close
\* that fails can be repeated.
SavedOnClose ==
    [][destroy /\ ~vol[Top.vol].stale => file[vol[Top.vol].path] = vol[Top.vol].table]_vars

Frees(v) == vol[v].state = "allocated" /\ vol'[v].state = "freed"

\* A volume that was open is given up with unsaved changes only if saving it failed.
\* on_open_volume_clicked and on_quit_clicked do not look at that.
FreedIsSaved ==
    [][\A v \in Vol : Frees(v) /\ vol[v].is_open =>
          vol'[v].error \/ vol[v].stale \/ file'[vol[v].path] = vol[v].table]_vars

\* No key stays in memory that was freed, unless something failed: after a wrong
\* password, after Close and after Exit there is none.
FreedHoldsNoKeys ==
    \A v \in Vol : vol[v].state = "freed" /\ vol[v].keys => vol[v].error

\* A handler, once begun, returns: stop_fuse_mount does not wait for ever, not even for
\* a thread that has not mounted yet.  The one exception is a mount in use, which
\* the kernel does not detach until the next request.
HandlersReturn == []<>(stack = <<>> \/ \E t \in Thread : session[t].state = "busy")

\* The cache is destroyed "after unmount" (functions.c:419).
DestroyedAfterUnmount ==
    [][\A v \in Vol, t \in Thread : vol[v].cache /\ ~vol'[v].cache /\ vol'[v].state # "unallocated"
         => ~(Serves(t) /\ session[t].vol = v)]_vars
==============================================================================
