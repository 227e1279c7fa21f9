--------------------------- MODULE MCDeviceSystem ---------------------------
(***************************************************************************)
(* Small worlds of DeviceSystem: one plugin each, one or two devices, one  *)
(* or two faults.                                                          *)
(***************************************************************************)
EXTENDS DeviceSystem, TLC

CONSTANTS u1, u2, s1, v1, w1,                  \* devices
          m1, m2, path, url, port,             \* places
          root, box, album, song, film, note   \* what the server has

MCHome == (u1 :> "msc") @@ (u2 :> "msc") @@ (s1 :> "storage")
          @@ (v1 :> "upnp") @@ (w1 :> "mtp")
MCPlaces == (u1 :> {m1, m2}) @@ (u2 :> {m1, m2}) @@ (s1 :> {path})
            @@ (v1 :> {url}) @@ (w1 :> {port})

Empty == [o \in {root, box, album, song, film, note} |-> <<>>]
Flat == [Empty EXCEPT ![root] = <<song>>]
Nest == [Empty EXCEPT ![root] = <<box>>, ![box] = <<film, note>>]
Tree == [Empty EXCEPT ![root] = <<song, box, album>>,
                      ![box] = <<film, album, note>>]

Old == {"devices", "settings"}
World(b, f, p, ch, ca) ==
    [build |-> b, faults |-> f, past |-> p, changes |-> ch, calls |-> ca,
     there |-> {}, serves |-> TRUE, searches |-> TRUE,
     content |-> Flat, troubles |-> {}]
Serving(c, t) ==
    [World({"upnp"}, {}, Old, 0, 1) EXCEPT !.there = {v1},
                                   !.searches = FALSE,
                                   !.content = c, !.troubles = t]

Drives == {
    World({"msc", "pdm"}, {"skip", "nolist"}, {}, 3, 0),
    World({"msc", "pdm"}, {}, {}, 2, 1),
    World({"msc", "pdm"}, {"find", "crash"}, Old, 2, 1),
    World({"msc", "pdm"}, {"late"}, Old, 1, 0),
    World({"msc", "mtp", "pdm"}, {}, {}, 1, 2),
    World({"storage"}, {"late", "crash"}, Old, 0, 3)}
Players == {
    World({"mtp"}, {}, Old, 2, 1),
    World({"mtp"}, {"open"}, {}, 1, 2)}
Servers == {
    [Serving(Flat, {}) EXCEPT !.changes = 1, !.searches = TRUE,
                              !.faults = {"restart"}],
    [World({"upnp"}, {"download"}, Old, 1, 1) EXCEPT !.serves = FALSE],
    Serving(Tree, {"short", "error"}),
    Serving(Flat, {"shrink"})}

\* A container with two children loses one while it is browsed.
Endless == {Serving(Nest, {"shrink"})}

MCWorlds == Drives \cup Players \cup Servers
=============================================================================
