---------------------------- MODULE DeviceRecord ----------------------------
(***************************************************************************)
(* The part of a Device object that its plugin changes, and what each      *)
(* operation of Plugin makes of it.  The operators are functions of a      *)
(* record; who is told of a change is left to DeviceSystem.                *)
(***************************************************************************)
EXTENDS Integers

CONSTANTS Mounts,  \* mount points, control urls and paths
          NoMount  \* the empty mount point

ASSUME NoMountAssumption == NoMount \notin Mounts

(***************************************************************************)
(* An alive count of -1 means that the device does not age.  "known" says  *)
(* that devices_ of the plugin has the object, "loop" that init() has      *)
(* started its scanLoop, "asked" that queue_ holds a scan request.         *)
(***************************************************************************)
Record == [known : BOOLEAN, avail : BOOLEAN, alive : -1 .. 4, new : BOOLEAN,
           loop : BOOLEAN, asked : BOOLEAN, mount : Mounts \cup {NoMount}]

Unknown == [known |-> FALSE, avail |-> FALSE, alive |-> 0, new |-> TRUE,
            loop |-> FALSE, asked |-> FALSE, mount |-> NoMount]

\* addDevice without a mount point: the device is seen, and starts another
\* scanLoop whether or not it had one.
Refreshed(r, lives) ==
    [r EXCEPT !.known = TRUE, !.avail = TRUE, !.alive = lives, !.loop = TRUE]

\* addDevice with a mount point: a device that was known is no longer new.
Added(r, mount, lives) ==
    [Refreshed(r, lives) EXCEPT !.mount = mount, !.new = @ /\ ~r.known]

\* Mistake: the device is still available.
RemovedKeeps(r) == IF r.known THEN [r EXCEPT !.alive = 0] ELSE r

\* removeDevice: the alive count drops to zero and stays there.
Removed(r) == IF r.known THEN [r EXCEPT !.avail = FALSE, !.alive = 0] ELSE r

\* injectDevice for a device that the database remembers: it is known, but
\* neither available nor initialised; a device already known is not new.
Injected(r, lives) ==
    IF r.known THEN [r EXCEPT !.new = FALSE]
    ELSE [r EXCEPT !.known = TRUE, !.alive = lives]

\* Mistakes: the count goes on past zero, nobody becomes unavailable.
CheckedPast(r) == [r EXCEPT !.alive = @ - 1, !.avail = (r.alive # 1)]
CheckedKeeps(r) == [r EXCEPT !.alive = IF @ > 0 THEN @ - 1 ELSE @]

\* checkAlive: the count, and not availability, decides who is alive.
Checked(r) ==
    LET left == IF r.alive > 0 THEN r.alive - 1 ELSE r.alive
    IN  [r EXCEPT !.alive = left, !.avail = (left # 0)]

\* The request that scan() puts into queue_.
Asked(r) == [r EXCEPT !.asked = TRUE]

\* Mistake: observers do not hear of a device that is injected.
ChangedOnly(r, s) == r.avail # s.avail

\* Observers hear of a device when its availability changes, and once more
\* when it is injected.
Changed(r, s) == r.avail # s.avail \/ (~r.known /\ s.known)
=============================================================================
