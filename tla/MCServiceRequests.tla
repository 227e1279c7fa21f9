------------------------- MODULE MCServiceRequests -------------------------
(***************************************************************************)
(* Instances of ServiceRequests: two plugins with a device each, three     *)
(* audio items, a video and an image, pages of two items.                  *)
(***************************************************************************)
EXTENDS ServiceRequests, TLC

CONSTANTS c1, c2, usb, tv, a1, a2, a3, v1, p1

TwoPlugins == << <<usb>>, <<tv>> >>
FiveRows == <<a1, a2, a3, p1, v1>>
Kinds5 == (a1 :> "audio") @@ (a2 :> "audio") @@ (a3 :> "audio")
          @@ (v1 :> "video") @@ (p1 :> "image")
Homes5 == (a1 :> usb) @@ (a2 :> usb) @@ (a3 :> usb) @@ (v1 :> tv)
          @@ (p1 :> usb)

Plain(op) == [op |-> op, kind |-> None, uri |-> {}, count |-> 0, sub |-> FALSE,
              path |-> {}, payload |-> "ok", lib |-> FALSE]
ListOf(kind, uri, sub) ==
    [Plain("list") EXCEPT !.kind = kind, !.uri = uri, !.sub = sub]
Meta(kind, uri) == [Plain("meta") EXCEPT !.kind = kind, !.uri = uri]
Delete(kind, uri, sub) ==
    [Plain("delete") EXCEPT !.kind = kind, !.uri = uri, !.sub = sub]
Scans(path) == [Plain("scan") EXCEPT !.path = path]
Watch == [Plain("devices") EXCEPT !.sub = TRUE]
Lib(r) == [r EXCEPT !.lib = TRUE]

World(first, second, files, late, dirtyRows, refuses) ==
    [jobs |-> (c1 :> first) @@ (c2 :> second),
     files |-> files, late |-> late, dirty |-> dirtyRows, refuse |-> refuses,
     cleans |-> dirtyRows # {}]

Audio == {a1, a2, a3}

\* Lists and subscriptions, with deletes and bad requests in between.
ListWorlds ==
    {World(<<[ListOf("audio", u, TRUE) EXCEPT !.count = b[1]]>>,
           <<r, Delete("audio", {a1}, s)>>, {}, {}, b[2], b[3]) :
        u \in {Audio, {a2, a3}}, s \in BOOLEAN,
        b \in {<<0, {}, TRUE>>, <<0, {a2}, FALSE>>, <<1, {}, FALSE>>},
        r \in {ListOf("audio", Audio, TRUE), ListOf("audio", {a1}, FALSE),
               ListOf("video", {v1}, TRUE), Meta("audio", {a1, a2}),
               Meta("video", {}), Meta("image", {p1}),
               ListOf("image", {p1}, FALSE), Delete(None, {a2}, FALSE),
               Plain("plugins")}}
    \cup {World(<<[Plain(op) EXCEPT !.kind = "audio", !.payload = p]>>,
                <<Plain("devices")>>, {}, {}, {}, FALSE) :
            op \in {"list", "meta", "permission", "scan"},
            p \in {"broken", "lacking", "range"}}

\* Scans on request: of one device or both, twice, while a device is
\* discovered, with a subscriber to the device list, with dirty items.
ScanWorlds ==
    {World(<<Watch>>, <<Scans({usb, tv})>>, {}, {}, {}, FALSE),
     World(<<Watch>>, <<Scans({usb})>>, {a1}, {}, {}, FALSE),
     World(<<Watch>>, <<Scans({tv})>>, {a1, v1}, {tv}, {}, FALSE),
     World(<<Watch>>, <<>>, {a1, v1}, {tv}, {a1, v1}, FALSE),
     World(<<>>, <<Scans({usb})>>, {a1, v1}, {tv}, {}, FALSE),
     World(<<>>, <<Scans({usb, tv})>>, {}, {}, Items, FALSE),
     World(<<Scans({usb})>>, <<Scans({usb})>>, {a1}, {}, {}, FALSE),
     World(<<Scans({usb})>>, <<Scans({usb, tv})>>, {}, {}, {}, FALSE)}

\* Scans beside deletes of what they write, and lists of it.
RowWorlds ==
    {World(<<Scans({usb})>>, <<Delete("audio", {a1}, FALSE), r>>, {a1}, {}, {},
           FALSE) :
        r \in {Delete("audio", {a1}, FALSE), ListOf("audio", Audio, TRUE)}}

\* The client library: created first, then used.
LibWorlds ==
    {World(<<Lib(Plain("permission")), Lib(r)>>, <<Plain("permission")>>, {},
           {}, {}, refuses) :
        refuses \in BOOLEAN,
        r \in {Lib(ListOf("audio", Audio, FALSE)), Lib(Meta("audio", {})),
               Lib(Delete("audio", {a1}, FALSE)), Lib(Watch),
               Lib(Scans({})), Lib(Scans({usb}))}}

AllWorlds == ListWorlds \cup ScanWorlds \cup RowWorlds \cup LibWorlds
=============================================================================
