------------------------------- MODULE LiveGraph ------------------------------
(***************************************************************************)
(* live.php: a page that asks live_data.php for the content of .live every *)
(* few seconds and draws the last totalPoints powers, over the frames that *)
(* make cm160.c rewrite the file.  The vertical lines that it draws where  *)
(* the minute changes are left out.                                        *)
(*                                                                         *)
(* Requests are asynchronous and have no time limit: several can be under  *)
(* way, be answered in any order, or be lost.                              *)
(***************************************************************************)
EXTENDS Frames

CONSTANTS
    totalPoints,     \* points of the graph
    MaxRequests      \* bound: requests under way

\* 300 points in the page, which asks twice when it is loaded.
ASSUME LiveAssumption ==
    /\ totalPoints \in Nat /\ totalPoints > 1
    /\ MaxRequests \in Nat /\ MaxRequests > 1

VARIABLES
    data,            \* the points, oldest first; <<>> before the page is loaded
    asked,           \* requests that the server has not handled
    replies          \* contents of .live on their way to the page

pageVars == <<data, asked, replies>>
vars == <<frameVars, pageVars>>

Init ==
    /\ FramesInit
    /\ data = <<>>
    /\ asked = 0 /\ replies = <<>>

\* The page draws the graph, then starts its update loop at once: getData runs
\* twice before any reply.
LoadPage ==
    /\ data = <<>>
    /\ data' = [i \in 1..(totalPoints - 1) |-> NoPower]
    /\ asked' = 2
    /\ UNCHANGED <<frameVars, replies>>

\* Mutant of Poll: the oldest point is kept.
PollGrowing ==
    /\ data # <<>>
    /\ asked + Len(replies) < MaxRequests
    /\ asked' = asked + 1
    /\ UNCHANGED <<frameVars, data, replies>>

\* getData: the oldest point makes room for the next one, and a request
\* leaves.
Poll ==
    /\ data # <<>>
    /\ asked + Len(replies) < MaxRequests
    /\ data' = IF Len(data) >= totalPoints THEN Tail(data) ELSE data
    /\ asked' = asked + 1
    /\ UNCHANGED <<frameVars, replies>>

\* live_data.php.
Serve ==
    /\ asked > 0
    /\ asked' = asked - 1
    /\ replies' = Append(replies, live)
    /\ UNCHANGED <<frameVars, data>>

\* Mutant of Receive: the point of a reply is put before the others.
ReceiveFirst ==
    /\ \E i \in DOMAIN replies :
        /\ replies' = RemoveAt(replies, i)
        /\ IF IsReading(replies[i])
           THEN data' = <<replies[i].watts>> \o data
           ELSE UNCHANGED data
    /\ UNCHANGED <<frameVars, asked>>

\* onNewData: an empty reply ends in an exception before the point is added.
Receive ==
    /\ \E i \in DOMAIN replies :
        /\ replies' = RemoveAt(replies, i)
        /\ IF IsReading(replies[i])
           THEN data' = Append(data, replies[i].watts)
           ELSE UNCHANGED data
    /\ UNCHANGED <<frameVars, asked>>

\* The request fails: success is never called.
Lose ==
    /\ asked > 0
    /\ asked' = asked - 1
    /\ UNCHANGED <<frameVars, data, replies>>

PageNext == LoadPage \/ Poll \/ Serve \/ Receive \/ Lose

Next ==
    \/ FramesNext /\ UNCHANGED pageVars
    \/ PageNext

\* The main thread closes the file it opened, the page is loaded and polls,
\* and not all of its requests fail.
Spec ==
    /\ Init /\ [][Next]_vars
    /\ WF_vars(CloseLive /\ UNCHANGED pageVars)
    /\ WF_vars(LoadPage) /\ WF_vars(Poll)
    /\ SF_vars(Serve) /\ WF_vars(Receive)

-------------------------------------------------------------------------------

Contents == {Empty} \cup [minute : 1..LastMinute, watts : Powers]

Slots == [minute : 0..LastMinute, month : 1..12 \cup {StrangeMonth}] \cup {NoFrame}

TypeOK ==
    /\ clock \in 1..LastMinute /\ start \in 1..(LastMinute + 1)
    /\ next \in 1..(LastMinute + 1)
    /\ session \in BOOLEAN /\ receive_history \in BOOLEAN /\ overlapped \in BOOLEAN
    /\ frame_id \in 0..HISTORY_SIZE
    /\ history \in [1..HISTORY_SIZE -> Slots]
    /\ wk \in [Workers -> [num : 0..HISTORY_SIZE, i : 0..HISTORY_SIZE]]
    /\ last_valid_month \in 0..12 /\ worker_month \in 0..12
    /\ rows \subseteq [minute : 0..LastMinute, month : 0..12]
    /\ watts \in Powers \cup {NoPower}
    /\ live \in Contents /\ writing \in Contents \cup {Closed}
    /\ stops \in 0..MaxStops
    /\ data \in Seq(Powers \cup {NoPower})
    /\ asked + Len(replies) \in 0..MaxRequests
    /\ replies \in Seq(Contents)

\* However late and in whatever order the replies come, the points and the
\* requests under way stay within totalPoints and the requests there can be
\* at a time: the arrays of the page do not grow with time (live.php:40-54).
PointsBounded ==
    Len(data) + asked + Len(replies) <= totalPoints + MaxRequests - 1

\* When the .live file has stopped changing, the last point of the page ends
\* up being its power, whatever replies were late, empty or lost.
ShowsTheLast ==
    \A w \in Powers :
        (<>[](IsReading(live) /\ live.watts = w)) =>
            <>[](data # <<>> /\ data[Len(data)] = w)
===============================================================================
