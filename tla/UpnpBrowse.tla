----------------------------- MODULE UpnpBrowse -----------------------------
(***************************************************************************)
(* The walk over the content of a UPnP media server: Upnp::scan sends a    *)
(* browse request for the root container, parses the answer, and dives     *)
(* into every container it follows, chunk by chunk, on the stack of the    *)
(* device's scan thread.  The server is external: it answers, answers      *)
(* less than it was asked for, or fails, and its content may shrink while  *)
(* it is browsed.                                                          *)
(***************************************************************************)
EXTENDS Integers, Sequences, FiniteSets

CONSTANTS
    Objects,     \* containers and items of the server
    Root,        \* the container "0"
    Followed,    \* containers with an id, children and a class we dive into
    Playable,    \* items with an id and a class that has a mime type
    ChunkSize    \* the 10 of sendBrowseRequest

ASSUME ChunkAssumption == ChunkSize \in Nat \ {0}
ASSUME RootAssumption == Root \in Objects

VARIABLES
    content,    \* children of every container, as the server has them now
    troubles,   \* what the server may do: "short", "error", "shrink"
    browse,     \* calls left on the scan thread's stack, the top one first
    delivered,  \* how often newMediaItem was called for an item
    spoiled     \* history: the server failed or shrank during the walk

browseVars == <<content, troubles, browse, delivered, spoiled>>

\* Bound: an item delivered more often is counted as delivered that often.
MaxDelivered == 2

Request(id, start, count) ==
    [op |-> "chunk", id |-> id, start |-> start, count |-> count]
DiveIn(id, count) ==
    [op |-> "dive", id |-> id, start |-> 0, count |-> count]
HandleItem(id) == [op |-> "item", id |-> id, start |-> 0, count |-> 0]

BrowseType ==
    /\ content \in [Objects -> Seq(Objects)]
    /\ browse \in Seq([op : {"chunk", "dive", "item"}, id : Objects,
                       start : Nat, count : Nat])
    /\ delivered \in [Objects -> 0 .. MaxDelivered]
    /\ spoiled \in BOOLEAN

BrowseInit(server) ==
    /\ content = server.content
    /\ troubles = server.troubles
    /\ browse = <<>>
    /\ delivered = [o \in Objects |-> 0]
    /\ spoiled = FALSE

\* Upnp::scan: everything below the root in a single request.
StartBrowse ==
    /\ browse = <<>>
    /\ browse' = <<Request(Root, 0, 0)>>
    /\ UNCHANGED <<content, troubles, delivered, spoiled>>

\* The walk is over when its stack is empty.
EndBrowse ==
    /\ browse = <<>>
    /\ delivered' = [o \in Objects |-> 0]
    /\ spoiled' = FALSE
    /\ UNCHANGED <<content, troubles, browse>>

Top == Head(browse)
Rest == Tail(browse)

\* The objects of a chunk that are in S, in their order: the k-th of them is
\* where k of them have come.
PlacesOf(chunk, S) == {i \in DOMAIN chunk : chunk[i] \in S}
Chosen(chunk, S) ==
    LET of == PlacesOf(chunk, S)
    IN  [k \in 1 .. Cardinality(of) |->
           chunk[CHOOSE i \in of : Cardinality(of \cap 1 .. i) = k]]

\* parseBrowseResponse: first the containers, each with the childCount that
\* the answer gives, then the items.
Parsed(chunk) ==
    LET dives == Chosen(chunk, Followed)
        items == Chosen(chunk, Playable)
    IN  [i \in DOMAIN dives |-> DiveIn(dives[i], Len(content[dives[i]]))]
        \o [i \in DOMAIN items |-> HandleItem(items[i])]

\* browseChunk: the server returns n children from start on; with no match
\* at all, the loop over the chunks is left.
BrowseChunk ==
    /\ browse # <<>> /\ Top.op = "chunk"
    /\ LET kids == content[Top.id]
           left == IF Top.start < Len(kids) THEN Len(kids) - Top.start ELSE 0
           most == IF Top.count = 0 \/ left < ChunkSize THEN left
                   ELSE ChunkSize
       IN  \E n \in 0 .. most :
             /\ n = most \/ ("short" \in troubles /\ n > 0)
             /\ spoiled' = (spoiled \/ (Top.count = 0 /\ n < most))
             /\ browse' =
                  IF kids = <<>> THEN Rest
                  ELSE Parsed(SubSeq(kids, Top.start + 1, Top.start + n))
                       \o (IF Top.start + n < Top.count
                           THEN <<Request(Top.id, Top.start + n, Top.count)>>
                           ELSE <<>>)
                       \o Rest
    /\ UNCHANGED <<content, troubles, delivered>>

\* Mistake: the request is sent again.
FailsAgain ==
    /\ browse # <<>> /\ Top.op = "chunk"
    /\ spoiled' = TRUE
    /\ UNCHANGED <<content, troubles, browse, delivered>>

\* The action or its answer fails: browseChunk returns -1.
BrowseFails ==
    /\ browse # <<>> /\ Top.op = "chunk"
    /\ browse' = Rest
    /\ spoiled' = TRUE
    /\ UNCHANGED <<content, troubles, delivered>>

\* Mistake: the last child is not asked for.
DiveShort ==
    /\ browse # <<>> /\ Top.op = "dive"
    /\ browse' = IF Top.count = 0 THEN Rest
                 ELSE <<Request(Top.id, 0, Top.count - 1)>> \o Rest
    /\ UNCHANGED <<content, troubles, delivered, spoiled>>

\* diveIn: a container without children is left alone.
Dive ==
    /\ browse # <<>> /\ Top.op = "dive"
    /\ browse' = IF Top.count = 0 THEN Rest
                 ELSE <<Request(Top.id, 0, Top.count)>> \o Rest
    /\ UNCHANGED <<content, troubles, delivered, spoiled>>

\* handleItems: a media item goes to the observer of the device.
Deliver ==
    /\ browse # <<>> /\ Top.op = "item"
    /\ browse' = Rest
    /\ delivered' = [delivered EXCEPT ![Top.id] =
                        IF @ < MaxDelivered THEN @ + 1 ELSE @]
    /\ UNCHANGED <<content, troubles, spoiled>>

\* External: the last child of a container goes while the server is browsed,
\* seen by the next request, so no sooner than that.
Shrink(o) ==
    /\ "shrink" \in troubles
    /\ browse # <<>> /\ Top.op = "chunk" /\ Len(content[o]) > 0
    /\ content' = [content EXCEPT ![o] = SubSeq(@, 1, Len(@) - 1)]
    /\ spoiled' = TRUE
    /\ UNCHANGED <<troubles, browse, delivered>>

\* What a walk does while the server can be reached, and while it cannot.
BrowseStep(reached) ==
    Dive \/ Deliver \/ (IF reached THEN BrowseChunk ELSE BrowseFails)
BrowseTrouble ==
    ("error" \in troubles /\ BrowseFails) \/ \E o \in Objects : Shrink(o)

\* What the walk is supposed to deliver: the items in containers that can be
\* reached from the root over containers that are followed, that is, in those
\* which are in every set that has the root and what is followed from it.
Kids(o) == {content[o][i] : i \in DOMAIN content[o]}
Inside ==
    {o \in Objects : \A S \in SUBSET Objects :
        Root \in S /\ (\A p \in S : Followed \cap Kids(p) \subseteq S) => o \in S}
Reached == Playable \cap UNION {Kids(o) : o \in Inside}

----------------------------------------------------------------------------
(***************************************************************************)
(* The inductive invariant of a walk that nothing has spoiled.             *)
(***************************************************************************)
\* What is followed or played is in one place, and the root in none.
IsTree(c) ==
    /\ \A o, p \in Objects : \A i \in DOMAIN c[o], j \in DOMAIN c[p] :
         c[o][i] = c[p][j] /\ c[o][i] \in Followed \cup Playable
         => o = p /\ i = j
    /\ \A o \in Objects : \A i \in DOMAIN c[o] : c[o][i] # Root

\* Calls on the stack; the k-th child of o is in a chunk still to be asked
\* for; the children of the containers in V that are not.
Stacked == {browse[i] : i \in DOMAIN browse}
Ahead(o, k) == \E c \in Stacked : c.op = "chunk" /\ c.id = o /\ c.start < k
Seen(V) == {x \in Objects : \E o \in V : \E k \in DOMAIN content[o] :
                               content[o][k] = x /\ ~Ahead(o, k)}
Due(op) == {o \in Objects : \E c \in Stacked : c.op = op /\ c.id = o}
Done == {o \in Objects : delivered[o] # 0}

\* V are the containers that were dived into.  Each call is on the stack
\* once; what has been seen is dived into or delivered, or is due to be, and
\* nothing else is.
WalkOK(V) ==
    /\ Root \in V /\ V \subseteq Inside
    /\ \A i, j \in DOMAIN browse :
         browse[i].op = browse[j].op /\ browse[i].id = browse[j].id => i = j
    /\ \A c \in Stacked :
         /\ c.op = "dive" => c.count = Len(content[c.id])
         /\ c.op = "chunk" =>
              /\ c.id \in V
              /\ \/ c.start < c.count /\ c.count = Len(content[c.id])
                 \/ c.id = Root /\ c.start = 0 /\ c.count = 0
    /\ Followed \cap Seen(V) = (V \ {Root}) \cup Due("dive")
    /\ V \cap Due("dive") = {}
    /\ Playable \cap Seen(V) = Done \cup Due("item")
    /\ Done \cap Due("item") = {}
    /\ \A o \in Objects : delivered[o] \in {0, 1}
=============================================================================
